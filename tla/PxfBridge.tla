----------------------------- MODULE PxfBridge -----------------------------
(***************************************************************************)
(* The external-table bridge of src/external-table/src/pxfbridge.c: the    *)
(* life of one gphadoop_context for one scan (gpbridge_import_start,       *)
(* gpbridge_read, fill_buffer) or one insert (gpbridge_export_start,       *)
(* gpbridge_write), its release (gpbridge_cleanup), and the remote PXF     *)
(* service at the other end of the single HTTP connection.                 *)
(*                                                                         *)
(* Two actors interleave: the segment worker, whose handlers are the       *)
(* actions below, and the remote service, which streams the response body  *)
(* and finishes it cleanly or with an error.  The transport (libchurl) is  *)
(* reached only through churl_read / churl_write and                       *)
(* churl_read_check_connectivity; churl_read blocks until the service has  *)
(* bytes for it or has finished, and returns 0 only in the latter case.    *)
(* Bytes are counted, not named: a TCP pipe neither reorders nor           *)
(* duplicates them.                                                        *)
(***************************************************************************)
EXTENDS Naturals, Sequences

CONSTANTS
  MaxData,    \* bytes the service streams in one response (bounds the model)
  ReadSizes,  \* buffer sizes (datalen) the executor passes to gpbridge_read
  WriteSizes  \* datalen values the executor passes to gpbridge_write

ASSUME MaxDataAssumption == MaxData \in Nat
ASSUME ReadSizesAssumption == ReadSizes \subseteq Nat \ {0}
ASSUME WriteSizesAssumption == WriteSizes \subseteq Nat

VARIABLES
  pc,         \* where the worker is in the life of the context
  want,       \* datalen of the gpbridge_read call in progress
  ptr,        \* bytes fill_buffer has put in the caller's buffer so far
  delivered,  \* total bytes gpbridge_read has returned to the executor
  written,    \* total bytes gpbridge_write has handed to churl_write
  completed,  \* context->completed
  uri,        \* context->uri: the endpoints appended to it, in order
  mem,        \* state of each pointer the context owns
  doubleFree, \* a release was applied to memory already released
  srv,        \* state of the service's response: "open", "done", "failed"
  sent,       \* bytes the service has put on the wire
  consumed    \* bytes churl_read has taken off the wire

vars == <<pc, want, ptr, delivered, written, completed, uri, mem, doubleFree,
          srv, sent, consumed>>

(* The pointers of gphadoop_context that gpbridge_cleanup releases.        *)
Res == {"churl_handle", "churl_headers", "gphd_uri", "filterstr"}

(* A pointer is NULL, points to live memory, or dangles after a release.   *)
PtrState == {"null", "live", "dangling"}

PcState == {"Idle", "Ready", "Filling", "Eof", "Exporting", "Failed",
            "Released"}

(***************************************************************************)
(* gphd_uri is always set by the caller; filterstr only when the scan has  *)
(* a pushed-down filter.  The handle and headers are created by the start  *)
(* handlers.  uri is an empty StringInfo (initStringInfo).                 *)
(***************************************************************************)
Init ==
  /\ pc = "Idle"
  /\ want = 0
  /\ ptr = 0
  /\ delivered = 0
  /\ written = 0
  /\ completed = FALSE
  /\ uri = << >>
  /\ \E f \in {"null", "live"} :
       mem = [r \in Res |-> CASE r = "gphd_uri"  -> "live"
                              [] r = "filterstr" -> f
                              [] OTHER           -> "null"]
  /\ doubleFree = FALSE
  /\ srv = "open"
  /\ sent = 0
  /\ consumed = 0

(* Bytes on the wire that churl_read has not yet taken.                    *)
Avail == sent - consumed

(* churl_read_check_connectivity raises an ERROR when the response ended   *)
(* in error.                                                               *)
ConnectivityFails == srv = "failed"

(***************************************************************************)
(* gpbridge_import_start: build_uri_for_read resets the uri and appends    *)
(* the read endpoint; churl_headers_init; add_querydata_to_http_headers,   *)
(* whose build_http_headers raises an ERROR when the user identity is      *)
(* unknown or the format code has no name; churl_init_download; and the    *)
(* connectivity probe, which raises an ERROR if the service answered the   *)
(* request with an error.                                                  *)
(***************************************************************************)
gpbridge_import_start ==
  /\ pc = "Idle"
  /\ uri' = <<"read">>
  /\ \/ /\ mem' = [mem EXCEPT !["churl_headers"] = "live"]
        /\ pc' = "Failed"
        /\ UNCHANGED srv
     \/ /\ mem' = [mem EXCEPT !["churl_headers"] = "live",
                              !["churl_handle"] = "live"]
        /\ \E reply \in {"open", "failed"} :
             /\ srv' = reply
             /\ pc' = IF reply = "failed" THEN "Failed" ELSE "Ready"
  /\ UNCHANGED <<want, ptr, delivered, written, completed, doubleFree,
                 sent, consumed>>

(***************************************************************************)
(* gpbridge_export_start: build_uri_for_write appends the write endpoint   *)
(* to the uri without resetting it; churl_headers_init; the headers (which *)
(* may raise an ERROR); churl_init_upload.                                 *)
(***************************************************************************)
gpbridge_export_start ==
  /\ pc = "Idle"
  /\ uri' = Append(uri, "write")
  /\ \/ /\ mem' = [mem EXCEPT !["churl_headers"] = "live"]
        /\ pc' = "Failed"
     \/ /\ mem' = [mem EXCEPT !["churl_headers"] = "live",
                              !["churl_handle"] = "live"]
        /\ pc' = "Exporting"
  /\ UNCHANGED <<want, ptr, delivered, written, completed, doubleFree,
                 srv, sent, consumed>>

(* gpbridge_read is entered with a buffer of datalen bytes; fill_buffer    *)
(* starts with ptr at the start of that buffer.                            *)
gpbridge_read ==
  /\ pc = "Ready"
  /\ \E datalen \in ReadSizes :
       /\ want' = datalen
       /\ ptr' = 0
  /\ pc' = "Filling"
  /\ UNCHANGED <<delivered, written, completed, uri, mem, doubleFree,
                 srv, sent, consumed>>

(***************************************************************************)
(* One churl_read of the fill_buffer loop into the end - ptr bytes left.   *)
(* A non-zero return advances ptr; when ptr reaches end the loop exits and *)
(* gpbridge_read returns n.  A zero return breaks the loop: gpbridge_read  *)
(* returns n when n > 0, and otherwise sets completed and calls            *)
(* churl_read_check_connectivity, which raises an ERROR when the response  *)
(* ended in error.                                                         *)
(***************************************************************************)
ReadChunk(k) ==
  /\ ptr' = ptr + k
  /\ consumed' = consumed + k
  /\ IF ptr + k = want
       THEN /\ delivered' = delivered + want
            /\ pc' = "Ready"
       ELSE UNCHANGED <<delivered, pc>>
  /\ UNCHANGED completed

(* Mutants of the read loop, for the checks of the properties below: the  *)
(* connectivity check dropped from gpbridge_read, and the break on a       *)
(* zero-byte churl_read dropped from fill_buffer.                          *)
ReadZeroNoCheck ==
  /\ Avail = 0
  /\ srv /= "open"
  /\ UNCHANGED consumed
  /\ IF ptr > 0
       THEN /\ delivered' = delivered + ptr
            /\ pc' = "Ready"
            /\ UNCHANGED <<ptr, completed>>
       ELSE /\ completed' = TRUE
            /\ pc' = "Eof"
            /\ UNCHANGED <<ptr, delivered>>

ReadZeroNoBreak ==
  /\ Avail = 0
  /\ srv /= "open"
  /\ UNCHANGED <<consumed, ptr, delivered, completed, pc>>

(* Mutant: a short read returns datalen instead of the n bytes read.     *)
ReadZero_returnsDatalen ==
  /\ Avail = 0
  /\ srv /= "open"
  /\ UNCHANGED consumed
  /\ IF ptr > 0
       THEN /\ delivered' = delivered + want
            /\ pc' = "Ready"
            /\ UNCHANGED <<ptr, completed>>
       ELSE /\ completed' = TRUE
            /\ pc' = IF ConnectivityFails THEN "Failed" ELSE "Eof"
            /\ UNCHANGED <<ptr, delivered>>

ReadZero ==
  /\ Avail = 0
  /\ srv /= "open"
  /\ UNCHANGED consumed
  /\ IF ptr > 0
       THEN /\ delivered' = delivered + ptr
            /\ pc' = "Ready"
            /\ UNCHANGED <<ptr, completed>>
       ELSE /\ completed' = TRUE
            /\ pc' = IF ConnectivityFails THEN "Failed" ELSE "Eof"
            /\ UNCHANGED <<ptr, delivered>>

(* Mutant: the loop reads end - ptr + 1 bytes (an off-by-one on the       *)
(* space left in the buffer).                                              *)
fill_buffer_overrun ==
  /\ pc = "Filling"
  /\ \/ \E k \in 1..(want - ptr + 1) : k <= Avail /\ ReadChunk(k)
     \/ ReadZero
  /\ UNCHANGED <<want, written, uri, mem, doubleFree, srv, sent>>

fill_buffer ==
  /\ pc = "Filling"
  /\ \/ \E k \in 1..(want - ptr) : k <= Avail /\ ReadChunk(k)
     \/ ReadZero
  /\ UNCHANGED <<want, written, uri, mem, doubleFree, srv, sent>>

(***************************************************************************)
(* gpbridge_write: when datalen > 0, one churl_write of the whole buffer;  *)
(* churl_write raises an ERROR when the service has failed the upload.     *)
(***************************************************************************)
gpbridge_write ==
  /\ pc = "Exporting"
  /\ \E datalen \in WriteSizes :
       /\ written + datalen <= MaxData
       /\ IF datalen > 0 /\ srv = "failed"
            THEN pc' = "Failed" /\ UNCHANGED written
            ELSE written' = written + datalen /\ UNCHANGED pc
  /\ UNCHANGED <<want, ptr, delivered, completed, uri, mem, doubleFree,
                 srv, sent, consumed>>

(* Releasing pointer r and then storing NULL in it, as gpbridge_cleanup    *)
(* does for each field; a NULL pointer is skipped (churl_cleanup and       *)
(* churl_headers_cleanup tolerate NULL).                                   *)
Release(m, r) == [m EXCEPT ![r] = "null"]

ReleasesDangling(m, S) == \E r \in S : m[r] = "dangling"

(***************************************************************************)
(* gpbridge_cleanup: churl_cleanup and NULL the handle, release and NULL   *)
(* the headers, free and NULL gphd_uri and filterstr when set.  The        *)
(* executor calls it at the end of the scan or insert, when it abandons    *)
(* the context early, after an ERROR, and possibly again.                  *)
(***************************************************************************)
(* Mutant: gpbridge_cleanup frees gphd_uri without storing NULL in it.     *)
gpbridge_cleanup_keeps_uri ==
  /\ pc /= "Filling"
  /\ doubleFree' = (doubleFree \/ ReleasesDangling(mem, Res))
  /\ mem' = [Release(Release(Release(mem, "churl_handle"), "churl_headers"),
                      "filterstr")
               EXCEPT !["gphd_uri"] = IF @ = "live" THEN "dangling" ELSE @]
  /\ pc' = "Released"
  /\ UNCHANGED <<want, ptr, delivered, written, completed, uri, srv, sent,
                 consumed>>

gpbridge_cleanup ==
  /\ pc /= "Filling"
  /\ doubleFree' = (doubleFree \/ ReleasesDangling(mem, Res))
  /\ mem' = Release(Release(Release(Release(mem, "churl_handle"),
                    "churl_headers"), "gphd_uri"), "filterstr")
  /\ pc' = "Released"
  /\ UNCHANGED <<want, ptr, delivered, written, completed, uri, srv, sent,
                 consumed>>

(***************************************************************************)
(* The remote service, while a request is open: it puts one more byte on   *)
(* the wire, or finishes the response cleanly, or fails it.                *)
(***************************************************************************)
ServiceSend ==
  /\ mem["churl_handle"] = "live"
  /\ srv = "open"
  /\ sent < MaxData
  /\ sent' = sent + 1
  /\ UNCHANGED <<pc, want, ptr, delivered, written, completed, uri, mem,
                 doubleFree, srv, consumed>>

ServiceEnd ==
  /\ mem["churl_handle"] = "live"
  /\ srv = "open"
  /\ srv' \in {"done", "failed"}
  /\ UNCHANGED <<pc, want, ptr, delivered, written, completed, uri, mem,
                 doubleFree, sent, consumed>>

Worker ==
  \/ gpbridge_import_start
  \/ gpbridge_export_start
  \/ gpbridge_read
  \/ fill_buffer
  \/ gpbridge_write
  \/ gpbridge_cleanup

Service == ServiceSend \/ ServiceEnd

Next == Worker \/ Service

(***************************************************************************)
(* churl_read blocks inside the transport until the service answers, and   *)
(* the service is assumed to keep answering: both are weakly fair.  The    *)
(* executor is not: it may stop reading and release the context at any    *)
(* time.                                                                   *)
(***************************************************************************)
Fairness == WF_vars(fill_buffer) /\ WF_vars(Service)

Spec == Init /\ [][Next]_vars /\ Fairness

-----------------------------------------------------------------------------

TypeOK ==
  /\ pc \in PcState
  /\ want \in Nat
  /\ ptr \in 0..want
  /\ delivered \in Nat
  /\ written \in Nat
  /\ completed \in BOOLEAN
  /\ uri \in Seq({"read", "write"})
  /\ mem \in [Res -> PtrState]
  /\ doubleFree \in BOOLEAN
  /\ srv \in {"open", "done", "failed"}
  /\ sent \in 0..MaxData
  /\ consumed \in Nat

(***************************************************************************)
(* No silent truncation: when gpbridge_read has returned 0 to the executor *)
(* without raising an ERROR (end of stream), the service finished its      *)
(* response cleanly and every byte it sent was handed to the executor.  A  *)
(* response that fails after some bytes must surface as an ERROR, never as *)
(* a short table.                                                          *)
(***************************************************************************)
EofOnlyAfterCleanEnd ==
  pc = "Eof" => /\ srv = "done"
                /\ delivered = sent

(***************************************************************************)
(* Release is idempotent and complete: gpbridge_cleanup, called any number *)
(* of times on a context in any state it can be left in (partly built,     *)
(* failed, drained, abandoned), never releases a pointer twice, and        *)
(* leaves no pointer of the context set.                                   *)
(***************************************************************************)
ReleaseSound ==
  /\ ~doubleFree
  /\ pc = "Released" => \A r \in Res : mem[r] = "null"

(***************************************************************************)
(* A call of gpbridge_read returns: the fill_buffer loop ends, by filling  *)
(* the buffer or on a zero-byte churl_read, as long as the service keeps   *)
(* answering.                                                              *)
(***************************************************************************)
ReadReturns == (pc = "Filling") ~> (pc /= "Filling")

(***************************************************************************)
(* What spec.md 4.5 and 8 say of the read loop: a gpbridge_read call whose *)
(* fill ends on a zero-byte read with fewer bytes than requested marks the *)
(* context completed (and runs the connectivity check) in that same call.  *)
(***************************************************************************)
ShortReadCompletes ==
  [][(pc = "Filling" /\ pc' /= "Filling" /\ ptr < want /\ ptr' = ptr
        /\ consumed' = consumed) => completed']_vars

(***************************************************************************)
(* The refinement mapping onto PxfReadStream: the service's bytes are the  *)
(* stream produced, the bytes gpbridge_read returned are the bytes handed  *)
(* over, and the reader is at end of stream in "Eof", closed once          *)
(* gpbridge_cleanup ran, and streaming otherwise.                          *)
(***************************************************************************)
ReaderOf ==
  CASE pc = "Released" -> "closed"
    [] pc = "Eof"      -> "eof"
    [] OTHER           -> "streaming"

Stream == INSTANCE PxfReadStream
            WITH produced <- sent, handed <- delivered, ending <- srv,
                 reader <- ReaderOf

(***************************************************************************)
(* The bridge keeps the promise of a byte stream: every gpbridge_read      *)
(* returns bytes the service sent and had not been returned yet, in order; *)
(* end of stream is returned only after a clean end with all bytes         *)
(* returned, and nothing is returned after it; once gpbridge_cleanup has   *)
(* closed the handle the service's response no longer moves.               *)
(***************************************************************************)
ReadStreamRefined == Stream!ASpec

=============================================================================
