---------------------------- MODULE PxfFdwBridge ----------------------------
(***************************************************************************)
(* The foreign-data-wrapper bridge of src/fdw/pxf_bridge.c: a scan state   *)
(* (PxfBridgeImportStart, then PxfBridgeRead as the COPY data callback,    *)
(* with FillBuffer in its PG_VERSION_NUM >= 90600 form that fills at least *)
(* minlen and at most maxlen bytes) or a modify state (PxfBridgeExportStart,*)
(* PxfBridgeWrite, PxfBridgeCleanup), and the remote service at the other  *)
(* end of the connection.  The transport is as in PxfBridge: churl_read    *)
(* blocks until the service has bytes or has finished, and returns 0 only  *)
(* in the latter case.  The end of a scan (EndForeignScan in pxf_fdw.c) is *)
(* outside this file: a scan stops at "Eof" or "Failed".                   *)
(***************************************************************************)
EXTENDS Naturals, Sequences

CONSTANTS
  MaxData,    \* bytes the service streams in one response (bounds the model)
  ReadSizes,  \* <<minlen, maxlen>> pairs COPY passes to PxfBridgeRead
  WriteSizes  \* datalen values passed to PxfBridgeWrite

ASSUME MaxDataAssumption == MaxData \in Nat
ASSUME ReadSizesAssumption ==
  \A r \in ReadSizes : r[1] \in Nat \ {0} /\ r[2] \in Nat /\ r[1] <= r[2]
ASSUME WriteSizesAssumption == WriteSizes \subseteq Nat

VARIABLES
  pc,         \* where the worker is in the life of the state
  minlen,     \* minlen of the PxfBridgeRead call in progress
  maxlen,     \* maxlen of the PxfBridgeRead call in progress
  ptr,        \* bytes FillBuffer has put in the buffer so far
  delivered,  \* total bytes PxfBridgeRead has returned to COPY
  written,    \* total bytes PxfBridgeWrite has handed to churl_write
  mem,        \* state of each pointer of PxfFdwModifyState
  doubleFree, \* a release was applied to memory already released
  srv,        \* state of the service's response: "open", "done", "failed"
  sent,       \* bytes the service has put on the wire
  consumed    \* bytes churl_read has taken off the wire

vars == <<pc, minlen, maxlen, ptr, delivered, written, mem, doubleFree,
          srv, sent, consumed>>

(* The pointers PxfBridgeCleanup releases: the handle, the headers, the    *)
(* uri StringInfo's data and the options.                                  *)
Res == {"churl_handle", "churl_headers", "uri.data", "options"}

PtrState == {"null", "live", "dangling"}

(* "ScanFailed" and "Failed" are an ERROR raised in a scan and in an       *)
(* insert: PxfBridgeCleanup is a function of the modify state only.       *)
PcState == {"Idle", "Ready", "Filling", "Eof", "ScanFailed", "Exporting",
            "Failed", "Released"}

(* The state is created by pxf_fdw.c with an initialised uri StringInfo    *)
(* and the options of the foreign table.                                   *)
Init ==
  /\ pc = "Idle"
  /\ minlen = 0
  /\ maxlen = 0
  /\ ptr = 0
  /\ delivered = 0
  /\ written = 0
  /\ mem = [r \in Res |-> IF r \in {"uri.data", "options"} THEN "live"
                                                           ELSE "null"]
  /\ doubleFree = FALSE
  /\ srv = "open"
  /\ sent = 0
  /\ consumed = 0

Avail == sent - consumed

ConnectivityFails == srv = "failed"

(***************************************************************************)
(* PxfBridgeImportStart: churl_headers_init; BuildUriForRead; BuildHttp-   *)
(* Headers (pxf_header.c, which may raise an ERROR); churl_init_download;  *)
(* the connectivity probe, which raises an ERROR when the service answered *)
(* with an error.                                                          *)
(***************************************************************************)
PxfBridgeImportStart ==
  /\ pc = "Idle"
  /\ \/ /\ mem' = [mem EXCEPT !["churl_headers"] = "live"]
        /\ pc' = "ScanFailed"
        /\ UNCHANGED srv
     \/ /\ mem' = [mem EXCEPT !["churl_headers"] = "live",
                              !["churl_handle"] = "live"]
        /\ \E reply \in {"open", "failed"} :
             /\ srv' = reply
             /\ pc' = IF reply = "failed" THEN "ScanFailed" ELSE "Ready"
  /\ UNCHANGED <<minlen, maxlen, ptr, delivered, written, doubleFree,
                 sent, consumed>>

(* PxfBridgeExportStart: BuildUriForWrite; churl_headers_init; BuildHttp-  *)
(* Headers (may raise an ERROR); churl_init_upload.                        *)
PxfBridgeExportStart ==
  /\ pc = "Idle"
  /\ \/ /\ mem' = [mem EXCEPT !["churl_headers"] = "live"]
        /\ pc' = "Failed"
     \/ /\ mem' = [mem EXCEPT !["churl_headers"] = "live",
                              !["churl_handle"] = "live"]
        /\ pc' = "Exporting"
  /\ UNCHANGED <<minlen, maxlen, ptr, delivered, written, doubleFree,
                 srv, sent, consumed>>

(* PxfBridgeRead is entered with minlen and maxlen; FillBuffer starts at   *)
(* the start of the buffer.                                                *)
PxfBridgeRead ==
  /\ pc = "Ready"
  /\ \E r \in ReadSizes : minlen' = r[1] /\ maxlen' = r[2]
  /\ ptr' = 0
  /\ pc' = "Filling"
  /\ UNCHANGED <<delivered, written, mem, doubleFree, srv, sent, consumed>>

(***************************************************************************)
(* One churl_read of the FillBuffer loop into the maxend - ptr bytes left. *)
(* The loop runs while ptr < minend; when it ends on a non-zero read,      *)
(* PxfBridgeRead returns n.  A zero read breaks the loop; PxfBridgeRead    *)
(* returns n when n > 0, and otherwise runs churl_read_check_connectivity, *)
(* which raises an ERROR when the response ended in error.                 *)
(***************************************************************************)
(* Mutant: FillBuffer reads once ("if" for "while"), whatever minlen asks. *)
ReadChunk_once(k) ==
  /\ ptr' = ptr + k
  /\ consumed' = consumed + k
  /\ delivered' = delivered + ptr + k
  /\ pc' = "Ready"

ReadChunk(k) ==
  /\ ptr' = ptr + k
  /\ consumed' = consumed + k
  /\ IF ptr + k >= minlen
       THEN /\ delivered' = delivered + ptr + k
            /\ pc' = "Ready"
       ELSE UNCHANGED <<delivered, pc>>

(* Mutant: the zero read returns without the connectivity check.          *)
ReadZeroNoCheck ==
  /\ Avail = 0
  /\ srv /= "open"
  /\ UNCHANGED <<consumed, ptr>>
  /\ IF ptr > 0
       THEN /\ delivered' = delivered + ptr
            /\ pc' = "Ready"
       ELSE /\ pc' = "Eof"
            /\ UNCHANGED delivered

(* Mutant: a zero read does not break the loop.                           *)
ReadZeroNoBreak ==
  /\ Avail = 0
  /\ srv /= "open"
  /\ UNCHANGED <<consumed, ptr, delivered, pc>>

(* Mutant: a short read returns maxlen instead of the n bytes read.      *)
ReadZero_returnsMaxlen ==
  /\ Avail = 0
  /\ srv /= "open"
  /\ UNCHANGED <<consumed, ptr>>
  /\ IF ptr > 0
       THEN /\ delivered' = delivered + maxlen
            /\ pc' = "Ready"
       ELSE /\ pc' = IF ConnectivityFails THEN "ScanFailed" ELSE "Eof"
            /\ UNCHANGED delivered

ReadZero ==
  /\ Avail = 0
  /\ srv /= "open"
  /\ UNCHANGED <<consumed, ptr>>
  /\ IF ptr > 0
       THEN /\ delivered' = delivered + ptr
            /\ pc' = "Ready"
       ELSE /\ pc' = IF ConnectivityFails THEN "ScanFailed" ELSE "Eof"
            /\ UNCHANGED delivered

(* Mutant: churl_read is given one byte more than maxend - ptr.          *)
FillBuffer_overrun ==
  /\ pc = "Filling"
  /\ \/ \E k \in 1..(maxlen - ptr + 1) : k <= Avail /\ ReadChunk(k)
     \/ ReadZero
  /\ UNCHANGED <<minlen, maxlen, written, mem, doubleFree, srv, sent>>

FillBuffer ==
  /\ pc = "Filling"
  /\ \/ \E k \in 1..(maxlen - ptr) : k <= Avail /\ ReadChunk(k)
     \/ ReadZero
  /\ UNCHANGED <<minlen, maxlen, written, mem, doubleFree, srv, sent>>

(* PxfBridgeWrite: when datalen > 0, one churl_write of the whole buffer,  *)
(* which raises an ERROR when the service has failed the upload.           *)
PxfBridgeWrite ==
  /\ pc = "Exporting"
  /\ \E datalen \in WriteSizes :
       /\ written + datalen <= MaxData
       /\ IF datalen > 0 /\ srv = "failed"
            THEN pc' = "Failed" /\ UNCHANGED written
            ELSE written' = written + datalen /\ UNCHANGED pc
  /\ UNCHANGED <<minlen, maxlen, ptr, delivered, mem, doubleFree, srv, sent,
                 consumed>>

(* Releasing pointer r and storing NULL in it; a NULL pointer is skipped.  *)
Release(m, r) == [m EXCEPT ![r] = "null"]

(* Releasing pointer r when it is set, without storing NULL in it.         *)
FreeKeep(m, r) == [m EXCEPT ![r] = IF @ = "null" THEN "null" ELSE "dangling"]

ReleasesDangling(m, S) == \E r \in S : m[r] = "dangling"

(***************************************************************************)
(* PxfBridgeCleanup of a modify state: churl_cleanup and NULL the handle,  *)
(* churl_headers_cleanup and NULL the headers, pfree uri.data when set and *)
(* pfree options when set, leaving both pointers as they were.  It is      *)
(* called at the end of the insert, after an ERROR, and possibly again.    *)
(***************************************************************************)
PxfBridgeCleanup ==
  /\ pc \in {"Idle", "Exporting", "Failed", "Released"}
  /\ doubleFree' = (doubleFree \/ ReleasesDangling(mem, Res))
  /\ mem' = FreeKeep(FreeKeep(Release(Release(mem, "churl_handle"),
                     "churl_headers"), "uri.data"), "options")
  /\ pc' = "Released"
  /\ UNCHANGED <<minlen, maxlen, ptr, delivered, written, srv, sent,
                 consumed>>

(* The remote service, while a request is open.                            *)
ServiceSend ==
  /\ mem["churl_handle"] = "live"
  /\ srv = "open"
  /\ sent < MaxData
  /\ sent' = sent + 1
  /\ UNCHANGED <<pc, minlen, maxlen, ptr, delivered, written, mem,
                 doubleFree, srv, consumed>>

ServiceEnd ==
  /\ mem["churl_handle"] = "live"
  /\ srv = "open"
  /\ srv' \in {"done", "failed"}
  /\ UNCHANGED <<pc, minlen, maxlen, ptr, delivered, written, mem,
                 doubleFree, sent, consumed>>

Worker ==
  \/ PxfBridgeImportStart
  \/ PxfBridgeExportStart
  \/ PxfBridgeRead
  \/ FillBuffer
  \/ PxfBridgeWrite
  \/ PxfBridgeCleanup

Service == ServiceSend \/ ServiceEnd

Next == Worker \/ Service

(* churl_read blocks in the transport and the service keeps answering.     *)
Fairness == WF_vars(FillBuffer) /\ WF_vars(Service)

Spec == Init /\ [][Next]_vars /\ Fairness

-----------------------------------------------------------------------------

TypeOK ==
  /\ pc \in PcState
  /\ minlen \in Nat
  /\ maxlen \in Nat
  /\ ptr \in 0..maxlen
  /\ delivered \in Nat
  /\ written \in Nat
  /\ mem \in [Res -> PtrState]
  /\ doubleFree \in BOOLEAN
  /\ srv \in {"open", "done", "failed"}
  /\ sent \in 0..MaxData
  /\ consumed \in Nat

(***************************************************************************)
(* No silent truncation: PxfBridgeRead returns 0 to COPY without an ERROR  *)
(* only when the service finished cleanly and every byte it sent was       *)
(* returned.                                                               *)
(***************************************************************************)
EofOnlyAfterCleanEnd ==
  pc = "Eof" => /\ srv = "done"
                /\ delivered = sent

(***************************************************************************)
(* The COPY callback contract: a PxfBridgeRead call returns fewer than     *)
(* minlen bytes only when the response has ended and nothing is left on    *)
(* the wire; otherwise COPY would take a short read for the end of the     *)
(* data.                                                                   *)
(***************************************************************************)
ShortReadOnlyAtEnd ==
  [][(pc = "Filling" /\ pc' /= "Filling" /\ delivered' - delivered < minlen)
       => (srv /= "open" /\ Avail' = 0)]_vars

(* A call of PxfBridgeRead returns, as long as the service keeps answering.*)
ReadReturns == (pc = "Filling") ~> (pc /= "Filling")

(***************************************************************************)
(* spec.md 3 and 8: release is idempotent.  Calling PxfBridgeCleanup again *)
(* on a released modify state must not release anything twice, and a      *)
(* released state holds no pointer to released memory.                     *)
(***************************************************************************)
ReleaseSound ==
  /\ ~doubleFree
  /\ pc = "Released" => \A r \in Res : mem[r] /= "dangling"

(***************************************************************************)
(* The refinement mapping onto PxfReadStream, as for PxfBridge: the        *)
(* service's bytes are produced, the bytes PxfBridgeRead returned to COPY  *)
(* are handed over; the reader is at end of stream in "Eof", closed once   *)
(* PxfBridgeCleanup ran, and streaming otherwise.                          *)
(***************************************************************************)
ReaderOf ==
  CASE pc = "Released" -> "closed"
    [] pc = "Eof"      -> "eof"
    [] OTHER           -> "streaming"

Stream == INSTANCE PxfReadStream
            WITH produced <- sent, handed <- delivered, ending <- srv,
                 reader <- ReaderOf

(***************************************************************************)
(* The FDW bridge keeps the promise of a byte stream: each PxfBridgeRead   *)
(* hands COPY bytes the service sent and COPY has not had yet, end of data *)
(* comes only after a clean end with all bytes returned and nothing comes  *)
(* after it, and after PxfBridgeCleanup the response no longer moves.      *)
(***************************************************************************)
ReadStreamRefined == Stream!ASpec

=============================================================================
