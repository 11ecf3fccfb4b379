--------------------------- MODULE PxfReadStream ---------------------------
(***************************************************************************)
(* What a read through the external-table bridge promises the executor,   *)
(* with no buffers, handles or churl calls: the service produces a stream  *)
(* of bytes and ends it cleanly or in error; the reader is handed a        *)
(* growing prefix of what was produced; end of stream is reported only     *)
(* once the stream ended cleanly and the whole of it was handed over;      *)
(* after end of stream nothing more is handed over; a closed reader sees   *)
(* nothing more, and the service stops producing for it.                   *)
(***************************************************************************)
EXTENDS Naturals

VARIABLES
  produced,  \* bytes the service has produced
  handed,    \* bytes handed to the reader, a prefix of the produced ones
  ending,    \* how the service's stream stands: "open", "done", "failed"
  reader     \* "streaming", "eof" (end of stream reported) or "closed"

avars == <<produced, handed, ending, reader>>

AInit ==
  /\ produced = 0
  /\ handed = 0
  /\ ending = "open"
  /\ reader = "streaming"

(* The service produces one more byte of an open stream.                   *)
Produce ==
  /\ ending = "open"
  /\ reader /= "closed"
  /\ produced' = produced + 1
  /\ UNCHANGED <<handed, ending, reader>>

(* The service ends its stream, cleanly or in error.                       *)
Finish ==
  /\ ending = "open"
  /\ reader /= "closed"
  /\ ending' \in {"done", "failed"}
  /\ UNCHANGED <<produced, handed, reader>>

(* The reader is handed some of the bytes produced and not yet handed.     *)
Hand ==
  /\ reader = "streaming"
  /\ \E n \in 1..(produced - handed) : handed' = handed + n
  /\ UNCHANGED <<produced, ending, reader>>

(* End of stream: the stream ended cleanly and everything was handed.     *)
ReportEof ==
  /\ reader = "streaming"
  /\ ending = "done"
  /\ handed = produced
  /\ reader' = "eof"
  /\ UNCHANGED <<produced, handed, ending>>

(* The reader closes, at any point.                                        *)
Close ==
  /\ reader' = "closed"
  /\ UNCHANGED <<produced, handed, ending>>

ANext == Produce \/ Finish \/ Hand \/ ReportEof \/ Close

ASpec == AInit /\ [][ANext]_avars
=============================================================================
