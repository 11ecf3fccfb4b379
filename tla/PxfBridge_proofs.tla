-------------------------- MODULE PxfBridge_proofs --------------------------
(***************************************************************************)
(* Proofs about PxfBridge for every value of its constants: the type       *)
(* invariant, and that gpbridge_read reports end of stream only after a    *)
(* clean end of the response with every byte handed to the executor.       *)
(***************************************************************************)
EXTENDS PxfBridge, TLAPS

USE MaxDataAssumption, ReadSizesAssumption, WriteSizesAssumption

(* Each action of the worker (the handlers of pxfbridge.c) and of the      *)
(* service keeps every variable in its type.                               *)
LEMMA TypeStep == TypeOK /\ [Next]_vars => TypeOK'
<1> SUFFICES ASSUME TypeOK, [Next]_vars PROVE TypeOK'
  OBVIOUS
<1>1. CASE gpbridge_import_start
  BY <1>1 DEF gpbridge_import_start, TypeOK, PtrState, PcState
<1>2. CASE gpbridge_export_start
  BY <1>2 DEF gpbridge_export_start, TypeOK, PtrState, PcState
<1>3. CASE gpbridge_read
  BY <1>3 DEF gpbridge_read, TypeOK, PcState
<1>4. CASE fill_buffer
  <2>1. CASE \E k \in 1..(want - ptr) : k <= Avail /\ ReadChunk(k)
    <3>1. PICK k \in 1..(want - ptr) : k <= Avail /\ ReadChunk(k)
      BY <2>1
    <3>2. ptr' \in 0..want' /\ consumed' \in Nat
      BY <1>4, <3>1 DEF fill_buffer, ReadChunk, TypeOK
    <3>3. pc' \in PcState /\ delivered' \in Nat /\ completed' \in BOOLEAN
      BY <1>4, <3>1 DEF fill_buffer, ReadChunk, TypeOK, PcState
    <3>4. QED
      BY <1>4, <3>2, <3>3 DEF fill_buffer, TypeOK
  <2>2. CASE ReadZero /\ ptr > 0
    BY <1>4, <2>2 DEF fill_buffer, ReadZero, TypeOK, PcState
  <2>4. CASE ReadZero /\ ~(ptr > 0)
    BY <1>4, <2>4 DEF fill_buffer, ReadZero, TypeOK, PcState
  <2>3. QED
    BY <1>4, <2>1, <2>2, <2>4 DEF fill_buffer
<1>5. CASE gpbridge_write
  BY <1>5 DEF gpbridge_write, TypeOK, PcState
<1>6. CASE gpbridge_cleanup
  BY <1>6 DEF gpbridge_cleanup, Release, ReleasesDangling, TypeOK,
              PtrState, PcState
<1>7. CASE ServiceSend
  BY <1>7 DEF ServiceSend, TypeOK
<1>8. CASE ServiceEnd
  BY <1>8 DEF ServiceEnd, TypeOK
<1>9. CASE UNCHANGED vars
  BY <1>9 DEF vars, TypeOK
<1>10. QED
  BY <1>1, <1>2, <1>3, <1>4, <1>5, <1>6, <1>7, <1>8, <1>9
     DEF Next, Worker, Service

(* The initial gphadoop_context is well typed.                             *)
LEMMA TypeInit == Init => TypeOK
<1> SUFFICES ASSUME Init PROVE TypeOK
  OBVIOUS
<1>1. PICK f \in {"null", "live"} :
        mem = [r \in Res |-> CASE r = "gphd_uri"  -> "live"
                               [] r = "filterstr" -> f
                               [] OTHER           -> "null"]
  BY DEF Init
<1>2. mem \in [Res -> PtrState]
  BY <1>1 DEF PtrState
<1>3. uri \in Seq({"read", "write"})
  BY DEF Init
<1>4. pc \in PcState /\ srv \in {"open", "done", "failed"}
  BY DEF Init, PcState
<1>5. sent \in 0..MaxData /\ want \in Nat /\ ptr \in 0..want
  BY DEF Init
<1>6. delivered \in Nat /\ written \in Nat /\ consumed \in Nat
  BY DEF Init
<1>7. completed \in BOOLEAN /\ doubleFree \in BOOLEAN
  BY DEF Init
<1>8. QED
  BY <1>2, <1>3, <1>4, <1>5, <1>6, <1>7 DEF TypeOK

(***************************************************************************)
(* Every step of the worker and of the service keeps the variables in      *)
(* their types; in particular fill_buffer never advances ptr past the end  *)
(* of the caller's buffer.                                                 *)
(***************************************************************************)
THEOREM TypeCorrect == Spec => []TypeOK
  BY TypeInit, TypeStep, PTL DEF Spec

(***************************************************************************)
(* The inductive invariant behind EofOnlyAfterCleanEnd.  EofOnlyAfterClean *)
(* End alone is not inductive: a step into "Eof" is taken by a zero-byte   *)
(* churl_read, which says only that no byte is waiting on the wire, so the *)
(* proof needs that every byte churl_read took is either returned to the   *)
(* executor or sits in the buffer of the call in progress, and that        *)
(* churl_read never takes more than the service sent.                      *)
(***************************************************************************)
BytesAccounted ==
  delivered + (IF pc = "Filling" THEN ptr ELSE 0) = consumed

IInv ==
  /\ TypeOK
  /\ consumed <= sent
  /\ BytesAccounted
  /\ EofOnlyAfterCleanEnd

(* A fresh context satisfies the inductive invariant.                      *)
LEMMA InitIInv == Init => IInv
  BY TypeInit DEF Init, IInv, BytesAccounted, EofOnlyAfterCleanEnd

(* Every handler step and every step of the service preserves it; the one  *)
(* step that needs the strengthening is the zero-byte churl_read of        *)
(* fill_buffer that ends in "Eof".                                         *)
LEMMA NextIInv == IInv /\ [Next]_vars => IInv'
<1> SUFFICES ASSUME IInv, [Next]_vars PROVE IInv'
  OBVIOUS
<1>1. TypeOK'
  BY TypeStep DEF IInv
<1> USE DEF IInv, TypeOK, BytesAccounted, EofOnlyAfterCleanEnd
<1>2. CASE gpbridge_import_start
  BY <1>1, <1>2 DEF gpbridge_import_start
<1>3. CASE gpbridge_export_start
  BY <1>1, <1>3 DEF gpbridge_export_start
<1>4. CASE gpbridge_read
  BY <1>1, <1>4 DEF gpbridge_read
<1>5. CASE fill_buffer
  <2>1. CASE \E k \in 1..(want - ptr) : k <= Avail /\ ReadChunk(k)
    <3>1. PICK k \in 1..(want - ptr) : k <= Avail /\ ReadChunk(k)
      BY <2>1
    <3>2. CASE ptr + k = want
      BY <1>1, <1>5, <3>1, <3>2 DEF fill_buffer, ReadChunk, Avail
    <3>3. CASE ptr + k /= want
      BY <1>1, <1>5, <3>1, <3>3 DEF fill_buffer, ReadChunk, Avail
    <3>4. QED
      BY <3>2, <3>3
  <2>2. CASE ReadZero /\ ptr > 0
    BY <1>1, <1>5, <2>2 DEF fill_buffer, ReadZero
  <2>4. CASE ReadZero /\ ptr = 0
    <3>1. consumed = sent /\ consumed' = consumed /\ delivered' = delivered
      BY <1>5, <2>4 DEF fill_buffer, ReadZero, Avail
    <3>2. pc' = "Eof" => srv' = "done"
      BY <1>5, <2>4 DEF fill_buffer, ReadZero, ConnectivityFails
    <3>3. pc' \in {"Eof", "Failed"} /\ sent' = sent
      BY <1>5, <2>4 DEF fill_buffer, ReadZero, ConnectivityFails
    <3>4. pc = "Filling" /\ delivered = consumed
      BY <1>5, <2>4 DEF fill_buffer
    <3>5. BytesAccounted'
      BY <3>1, <3>3, <3>4
    <3>6. EofOnlyAfterCleanEnd'
      BY <3>1, <3>2, <3>3, <3>4
    <3>7. QED
      BY <1>1, <3>1, <3>3, <3>5, <3>6
  <2>3. QED
    BY <1>5, <2>1, <2>2, <2>4 DEF fill_buffer, TypeOK
<1>6. CASE gpbridge_write
  BY <1>1, <1>6 DEF gpbridge_write
<1>7. CASE gpbridge_cleanup
  BY <1>1, <1>7 DEF gpbridge_cleanup
<1>8. CASE ServiceSend
  BY <1>1, <1>8 DEF ServiceSend
<1>9. CASE ServiceEnd
  BY <1>1, <1>9 DEF ServiceEnd
<1>10. CASE UNCHANGED vars
  BY <1>1, <1>10 DEF vars
<1>11. QED
  BY <1>2, <1>3, <1>4, <1>5, <1>6, <1>7, <1>8, <1>9, <1>10
     DEF Next, Worker, Service

(***************************************************************************)
(* No silent truncation, for every response length and buffer size: the   *)
(* executor sees end of stream from gpbridge_read only when the service    *)
(* finished cleanly and all the bytes it sent were returned.               *)
(***************************************************************************)
THEOREM EofSafe == Spec => []EofOnlyAfterCleanEnd
<1>1. Spec => []IInv
  BY InitIInv, NextIInv, PTL DEF Spec
<1>2. IInv => EofOnlyAfterCleanEnd
  BY DEF IInv
<1>3. QED
  BY <1>1, <1>2, PTL
-----------------------------------------------------------------------------
(***************************************************************************)
(* Refinement of PxfReadStream.  Besides IInv the mapping needs two facts  *)
(* about the churl handle: before a start handler ran, the handle is NULL  *)
(* and the response has not moved, so the reply of                         *)
(* churl_read_check_connectivity in gpbridge_import_start is the first     *)
(* way the response ends; and after gpbridge_cleanup the handle is NULL,   *)
(* so the service, which answers only a live handle, no longer moves.      *)
(***************************************************************************)
HandleInv ==
  /\ pc = "Idle" => srv = "open" /\ mem["churl_handle"] = "null"
  /\ pc = "Released" => mem["churl_handle"] = "null"

(* A fresh context has no handle and an untouched response.               *)
LEMMA InitHandleInv == Init => HandleInv
  BY DEF Init, HandleInv, Res

(* Only the start handlers leave "Idle", only gpbridge_cleanup enters      *)
(* "Released" and it NULLs the handle, and the service needs a live one.   *)
LEMMA NextHandleInv == IInv /\ HandleInv /\ [Next]_vars => HandleInv'
<1> SUFFICES ASSUME IInv, HandleInv, [Next]_vars PROVE HandleInv'
  OBVIOUS
<1> USE DEF HandleInv
<1>1. CASE gpbridge_import_start
  BY <1>1 DEF gpbridge_import_start
<1>2. CASE gpbridge_export_start
  BY <1>2 DEF gpbridge_export_start
<1>3. CASE gpbridge_read
  BY <1>3 DEF gpbridge_read
<1>4. CASE fill_buffer
  BY <1>4 DEF fill_buffer, ReadChunk, ReadZero
<1>5. CASE gpbridge_write
  BY <1>5 DEF gpbridge_write
<1>6. CASE gpbridge_cleanup
  BY <1>6 DEF gpbridge_cleanup, Release, IInv, TypeOK, Res
<1>7. CASE ServiceSend
  BY <1>7 DEF ServiceSend
<1>8. CASE ServiceEnd
  BY <1>8 DEF ServiceEnd
<1>9. CASE UNCHANGED vars
  BY <1>9 DEF vars
<1>10. QED
  BY <1>1, <1>2, <1>3, <1>4, <1>5, <1>6, <1>7, <1>8, <1>9
     DEF Next, Worker, Service

(* Every step of the bridge maps to a step of PxfReadStream or leaves the  *)
(* mapped state unchanged.                                                 *)
LEMMA StepRefines ==
  IInv /\ HandleInv /\ [Next]_vars => [Stream!ANext]_Stream!avars
<1> SUFFICES ASSUME IInv, HandleInv, [Next]_vars
             PROVE  [Stream!ANext]_Stream!avars
  OBVIOUS
<1> USE DEF Stream!avars
<1>1. CASE gpbridge_import_start
  <2>1. ReaderOf = "streaming" /\ ReaderOf' = "streaming"
    BY <1>1 DEF gpbridge_import_start, ReaderOf
  <2>2. srv = "open" /\ sent' = sent /\ delivered' = delivered
    BY <1>1 DEF gpbridge_import_start, HandleInv
  <2>3. srv' = srv \/ srv' = "failed"
    BY <1>1, <2>2 DEF gpbridge_import_start
  <2>4. QED
    BY <2>1, <2>2, <2>3 DEF Stream!ANext, Stream!Finish
<1>2. CASE gpbridge_export_start
  BY <1>2 DEF gpbridge_export_start, ReaderOf
<1>3. CASE gpbridge_read
  BY <1>3 DEF gpbridge_read, ReaderOf
<1>4. CASE fill_buffer
  <2> USE DEF IInv, TypeOK, BytesAccounted
  <2>0. ReaderOf = "streaming" /\ pc = "Filling" /\ delivered + ptr = consumed
    BY <1>4 DEF fill_buffer, ReaderOf
  <2>1. CASE \E k \in 1..(want - ptr) : k <= Avail /\ ReadChunk(k)
    <3>1. PICK k \in 1..(want - ptr) : k <= Avail /\ ReadChunk(k)
      BY <2>1
    <3>2. CASE ptr + k = want
      <4>1. ReaderOf' = "streaming" /\ want \in 1..(sent - delivered)
        BY <1>4, <2>0, <3>1, <3>2, SMTT(30) DEF fill_buffer, ReadChunk, Avail, ReaderOf
      <4>2. delivered' = delivered + want /\ sent' = sent /\ srv' = srv
        BY <1>4, <3>1, <3>2 DEF fill_buffer, ReadChunk
      <4>3. QED
        BY <2>0, <4>1, <4>2 DEF Stream!ANext, Stream!Hand
    <3>3. CASE ptr + k /= want
      BY <1>4, <2>0, <3>1, <3>3 DEF fill_buffer, ReadChunk, ReaderOf
    <3>4. QED
      BY <3>2, <3>3
  <2>2. CASE ReadZero /\ ptr > 0
    <3>1. ReaderOf' = "streaming" /\ ptr \in 1..(sent - delivered)
      BY <1>4, <2>0, <2>2 DEF fill_buffer, ReadZero, ReaderOf
    <3>2. delivered' = delivered + ptr /\ sent' = sent /\ srv' = srv
      BY <1>4, <2>2 DEF fill_buffer, ReadZero
    <3>3. QED
      BY <2>0, <3>1, <3>2 DEF Stream!ANext, Stream!Hand
  <2>3. CASE ReadZero /\ ptr = 0
    <3>1. delivered' = delivered /\ sent' = sent /\ srv' = srv
      BY <1>4, <2>3 DEF fill_buffer, ReadZero
    <3>2. CASE srv = "failed"
      BY <1>4, <2>0, <2>3, <3>1, <3>2
         DEF fill_buffer, ReadZero, ConnectivityFails, ReaderOf
    <3>3. CASE srv /= "failed"
      <4>1. srv = "done" /\ delivered = sent /\ ReaderOf' = "eof"
        BY <1>4, <2>0, <2>3, <3>3
           DEF fill_buffer, ReadZero, ConnectivityFails, ReaderOf, Avail
      <4>2. QED
        BY <2>0, <3>1, <4>1 DEF Stream!ANext, Stream!ReportEof
    <3>4. QED
      BY <3>2, <3>3
  <2>4. QED
    BY <1>4, <2>1, <2>2, <2>3 DEF fill_buffer
<1>5. CASE gpbridge_write
  BY <1>5 DEF gpbridge_write, ReaderOf
<1>6. CASE gpbridge_cleanup
  <2>1. ReaderOf' = "closed" /\ UNCHANGED <<sent, delivered, srv>>
    BY <1>6 DEF gpbridge_cleanup, ReaderOf
  <2>2. QED
    BY <2>1 DEF Stream!ANext, Stream!Close
<1>7. CASE ServiceSend
  <2>1. pc /= "Released" /\ pc' = pc /\ srv = "open"
    BY <1>7 DEF ServiceSend, HandleInv
  <2>2. ReaderOf /= "closed" /\ ReaderOf' = ReaderOf
    BY <2>1 DEF ReaderOf
  <2>3. sent' = sent + 1 /\ UNCHANGED <<delivered, srv>>
    BY <1>7 DEF ServiceSend
  <2>4. QED
    BY <2>1, <2>2, <2>3 DEF Stream!ANext, Stream!Produce
<1>8. CASE ServiceEnd
  <2>1. pc /= "Released" /\ pc' = pc /\ srv = "open"
    BY <1>8 DEF ServiceEnd, HandleInv
  <2>2. ReaderOf /= "closed" /\ ReaderOf' = ReaderOf
    BY <2>1 DEF ReaderOf
  <2>3. srv' \in {"done", "failed"} /\ UNCHANGED <<sent, delivered>>
    BY <1>8 DEF ServiceEnd
  <2>4. QED
    BY <2>1, <2>2, <2>3 DEF Stream!ANext, Stream!Finish
<1>9. CASE UNCHANGED vars
  BY <1>9 DEF vars, ReaderOf
<1>10. QED
  BY <1>1, <1>2, <1>3, <1>4, <1>5, <1>6, <1>7, <1>8, <1>9
     DEF Next, Worker, Service

(***************************************************************************)
(* For every response length and buffer size the external-table bridge     *)
(* implements the byte stream of PxfReadStream: gpbridge_read hands the    *)
(* executor only bytes the service sent, end of stream only after a clean  *)
(* end with all of them handed, and gpbridge_cleanup closes the stream.    *)
(***************************************************************************)
THEOREM Refinement == Spec => ReadStreamRefined
<1>1. Init => Stream!AInit
  BY DEF Init, Stream!AInit, ReaderOf
<1>2. Spec => [](IInv /\ HandleInv)
  BY InitIInv, NextIInv, InitHandleInv, NextHandleInv, PTL DEF Spec
<1>3. QED
  BY <1>1, <1>2, StepRefines, PTL DEF Spec, ReadStreamRefined, Stream!ASpec
-----------------------------------------------------------------------------
(***************************************************************************)
(* ReleaseSound.  It is not inductive as it stands: a gpbridge_cleanup     *)
(* step sets doubleFree when some pointer of the context dangles, which   *)
(* ReleaseSound alone does not rule out before the first release.  The     *)
(* strengthening says that no pointer of the context ever dangles, since   *)
(* each release in gpbridge_cleanup stores NULL in the field it freed.     *)
(***************************************************************************)
NoDangling == \A r \in Res : mem[r] \in {"null", "live"}

RInv ==
  /\ TypeOK
  /\ NoDangling
  /\ ReleaseSound

(* A fresh context owns gphd_uri, maybe filterstr, and nothing dangles.    *)
LEMMA InitRInv == Init => RInv
<1> SUFFICES ASSUME Init PROVE RInv
  OBVIOUS
<1>1. PICK f \in {"null", "live"} :
        mem = [r \in Res |-> CASE r = "gphd_uri"  -> "live"
                               [] r = "filterstr" -> f
                               [] OTHER           -> "null"]
  BY DEF Init
<1>2. NoDangling
  BY <1>1 DEF NoDangling
<1>3. QED
  BY <1>2, TypeInit DEF Init, RInv, ReleaseSound

(* The start handlers only set fields to live memory and run only in       *)
(* "Idle"; gpbridge_cleanup finds nothing dangling, so it releases nothing *)
(* twice, and it NULLs every field; the other steps leave mem alone.       *)
LEMMA NextRInv == RInv /\ [Next]_vars => RInv'
<1> SUFFICES ASSUME RInv, [Next]_vars PROVE RInv'
  OBVIOUS
<1>0. TypeOK'
  BY TypeStep DEF RInv
<1> USE DEF RInv, ReleaseSound, NoDangling
<1>1. CASE gpbridge_import_start
  BY <1>0, <1>1 DEF gpbridge_import_start, TypeOK
<1>2. CASE gpbridge_export_start
  BY <1>0, <1>2 DEF gpbridge_export_start, TypeOK
<1>3. CASE gpbridge_read
  BY <1>0, <1>3 DEF gpbridge_read
<1>4. CASE fill_buffer
  BY <1>0, <1>4 DEF fill_buffer, ReadChunk, ReadZero
<1>5. CASE gpbridge_write
  BY <1>0, <1>5 DEF gpbridge_write
<1>6. CASE gpbridge_cleanup
  <2>1. ~ReleasesDangling(mem, Res)
    BY DEF ReleasesDangling
  <2>2. \A r \in Res : mem'[r] = "null"
    BY <1>6 DEF gpbridge_cleanup, Release, TypeOK, Res
  <2>3. QED
    BY <1>0, <1>6, <2>1, <2>2 DEF gpbridge_cleanup
<1>7. CASE ServiceSend
  BY <1>0, <1>7 DEF ServiceSend
<1>8. CASE ServiceEnd
  BY <1>0, <1>8 DEF ServiceEnd
<1>9. CASE UNCHANGED vars
  BY <1>0, <1>9 DEF vars
<1>10. QED
  BY <1>1, <1>2, <1>3, <1>4, <1>5, <1>6, <1>7, <1>8, <1>9
     DEF Next, Worker, Service

(***************************************************************************)
(* gpbridge_cleanup is safe to call any number of times, on a context left *)
(* in any state: no pointer is released twice, and after a release every   *)
(* field of the context is NULL, for every response and buffer size.       *)
(***************************************************************************)
THEOREM ReleaseSafe == Spec => []ReleaseSound
<1>1. Spec => []RInv
  BY InitRInv, NextRInv, PTL DEF Spec
<1>2. RInv => ReleaseSound
  BY DEF RInv
<1>3. QED
  BY <1>1, <1>2, PTL
=============================================================================
