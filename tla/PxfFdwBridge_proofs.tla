------------------------- MODULE PxfFdwBridge_proofs -------------------------
(***************************************************************************)
(* Proofs about PxfFdwBridge for every value of its constants: the type    *)
(* invariant (FillBuffer stays inside maxlen), that PxfBridgeRead reports  *)
(* end of data to COPY only after a clean end with every byte returned,    *)
(* and that it returns fewer than minlen bytes only at the end of the      *)
(* response.                                                               *)
(***************************************************************************)
EXTENDS PxfFdwBridge, TLAPS

USE MaxDataAssumption, WriteSizesAssumption

(* One churl_read of FillBuffer that takes k bytes keeps the fill pointer  *)
(* within the maxlen bytes of the buffer.                                  *)
LEMMA ChunkType ==
  ASSUME TypeOK, FillBuffer,
         NEW k \in 1..(maxlen - ptr), k <= Avail, ReadChunk(k)
  PROVE  TypeOK'
<1>1. ptr' \in 0..maxlen' /\ consumed' \in Nat /\ delivered' \in Nat
  BY DEF FillBuffer, ReadChunk, TypeOK
<1>2. pc' \in PcState
  BY DEF FillBuffer, ReadChunk, TypeOK, PcState
<1>3. QED
  BY <1>1, <1>2 DEF FillBuffer, TypeOK

(* Each handler of pxf_bridge.c and each step of the service keeps every   *)
(* variable in its type.                                                   *)
LEMMA TypeStep == TypeOK /\ [Next]_vars => TypeOK'
<1> SUFFICES ASSUME TypeOK, [Next]_vars PROVE TypeOK'
  OBVIOUS
<1>1. CASE PxfBridgeImportStart
  BY <1>1 DEF PxfBridgeImportStart, TypeOK, PtrState, PcState
<1>2. CASE PxfBridgeExportStart
  BY <1>2 DEF PxfBridgeExportStart, TypeOK, PtrState, PcState
<1>3. CASE PxfBridgeRead
  BY <1>3, ReadSizesAssumption DEF PxfBridgeRead, TypeOK, PcState
<1>4. CASE FillBuffer
  <2>1. CASE \E k \in 1..(maxlen - ptr) : k <= Avail /\ ReadChunk(k)
    BY <1>4, <2>1, ChunkType
  <2>2. CASE ReadZero
    BY <1>4, <2>2 DEF FillBuffer, ReadZero, TypeOK, PcState
  <2>3. QED
    BY <1>4, <2>1, <2>2 DEF FillBuffer
<1>5. CASE PxfBridgeWrite
  BY <1>5 DEF PxfBridgeWrite, TypeOK, PcState
<1>6. CASE PxfBridgeCleanup
  BY <1>6 DEF PxfBridgeCleanup, Release, FreeKeep, ReleasesDangling, TypeOK,
              PtrState, PcState
<1>7. CASE ServiceSend
  BY <1>7 DEF ServiceSend, TypeOK
<1>8. CASE ServiceEnd
  BY <1>8 DEF ServiceEnd, TypeOK
<1>9. CASE UNCHANGED vars
  BY <1>9 DEF vars, TypeOK
<1>10. QED
  BY <1>1, <1>2, <1>3, <1>4, <1>5, <1>6, <1>7, <1>8, <1>9
     DEF Next, Worker, Service

(* The state pxf_fdw.c creates is well typed.                              *)
LEMMA TypeInit == Init => TypeOK
<1> SUFFICES ASSUME Init PROVE TypeOK
  OBVIOUS
<1>1. mem \in [Res -> PtrState]
  BY DEF Init, PtrState
<1>2. pc \in PcState /\ srv \in {"open", "done", "failed"}
  BY DEF Init, PcState
<1>3. minlen \in Nat /\ maxlen \in Nat /\ ptr \in 0..maxlen
  BY DEF Init
<1>4. delivered \in Nat /\ written \in Nat /\ consumed \in Nat
  BY DEF Init
<1>5. sent \in 0..MaxData
  BY DEF Init
<1>6. doubleFree \in BOOLEAN
  BY DEF Init
<1>7. QED
  BY <1>1, <1>2, <1>3, <1>4, <1>5, <1>6 DEF TypeOK

(***************************************************************************)
(* Every step keeps the state well typed; in particular FillBuffer never   *)
(* lets churl_read write past maxlen bytes of the buffer COPY passed in.   *)
(***************************************************************************)
THEOREM TypeCorrect == Spec => []TypeOK
  BY TypeInit, TypeStep, PTL DEF Spec

(***************************************************************************)
(* The inductive invariant behind EofOnlyAfterCleanEnd: every byte         *)
(* churl_read took is either returned to COPY or in the buffer of the      *)
(* PxfBridgeRead call in progress, and churl_read never took more than the *)
(* service sent; so a zero read with an empty buffer sees all bytes sent   *)
(* already returned.                                                       *)
(***************************************************************************)
BytesAccounted ==
  delivered + (IF pc = "Filling" THEN ptr ELSE 0) = consumed

IInv ==
  /\ TypeOK
  /\ consumed <= sent
  /\ BytesAccounted
  /\ EofOnlyAfterCleanEnd

(* A fresh state satisfies it.                                             *)
LEMMA InitIInv == Init => IInv
  BY TypeInit DEF Init, IInv, BytesAccounted, EofOnlyAfterCleanEnd

(* Every step preserves it; the zero read into "Eof" needs the accounting. *)
LEMMA NextIInv == IInv /\ [Next]_vars => IInv'
<1> SUFFICES ASSUME IInv, [Next]_vars PROVE IInv'
  OBVIOUS
<1>1. TypeOK'
  BY TypeStep DEF IInv
<1> USE DEF IInv, TypeOK, BytesAccounted, EofOnlyAfterCleanEnd
<1>2. CASE PxfBridgeImportStart
  BY <1>1, <1>2 DEF PxfBridgeImportStart
<1>3. CASE PxfBridgeExportStart
  BY <1>1, <1>3 DEF PxfBridgeExportStart
<1>4. CASE PxfBridgeRead
  BY <1>1, <1>4 DEF PxfBridgeRead
<1>5. CASE FillBuffer
  <2>1. CASE \E k \in 1..(maxlen - ptr) : k <= Avail /\ ReadChunk(k)
    <3>1. PICK k \in 1..(maxlen - ptr) : k <= Avail /\ ReadChunk(k)
      BY <2>1
    <3>2. CASE ptr + k >= minlen
      BY <1>1, <1>5, <3>1, <3>2 DEF FillBuffer, ReadChunk, Avail
    <3>3. CASE ~(ptr + k >= minlen)
      BY <1>1, <1>5, <3>1, <3>3 DEF FillBuffer, ReadChunk, Avail
    <3>4. QED
      BY <3>2, <3>3
  <2>2. CASE ReadZero /\ ptr > 0
    BY <1>1, <1>5, <2>2 DEF FillBuffer, ReadZero
  <2>3. CASE ReadZero /\ ptr = 0
    <3>1. consumed = sent /\ consumed' = consumed /\ delivered' = delivered
      BY <1>5, <2>3 DEF FillBuffer, ReadZero, Avail
    <3>2. pc' = "Eof" => srv' = "done"
      BY <1>5, <2>3 DEF FillBuffer, ReadZero, ConnectivityFails
    <3>3. pc' \in {"Eof", "ScanFailed"} /\ sent' = sent
      BY <1>5, <2>3 DEF FillBuffer, ReadZero, ConnectivityFails
    <3>4. pc = "Filling" /\ delivered = consumed
      BY <1>5, <2>3 DEF FillBuffer
    <3>5. BytesAccounted'
      BY <3>1, <3>3, <3>4
    <3>6. EofOnlyAfterCleanEnd'
      BY <3>1, <3>2, <3>3, <3>4
    <3>7. QED
      BY <1>1, <3>1, <3>3, <3>5, <3>6
  <2>4. QED
    BY <1>5, <2>1, <2>2, <2>3 DEF FillBuffer
<1>6. CASE PxfBridgeWrite
  BY <1>1, <1>6 DEF PxfBridgeWrite
<1>7. CASE PxfBridgeCleanup
  BY <1>1, <1>7 DEF PxfBridgeCleanup
<1>8. CASE ServiceSend
  BY <1>1, <1>8 DEF ServiceSend
<1>9. CASE ServiceEnd
  BY <1>1, <1>9 DEF ServiceEnd
<1>10. CASE UNCHANGED vars
  BY <1>1, <1>10 DEF vars
<1>11. QED
  BY <1>2, <1>3, <1>4, <1>5, <1>6, <1>7, <1>8, <1>9, <1>10
     DEF Next, Worker, Service

(***************************************************************************)
(* No silent truncation in the FDW, for every response length and every    *)
(* minlen/maxlen: PxfBridgeRead returns 0 to COPY without an ERROR only    *)
(* after the service finished cleanly and every byte sent was returned.    *)
(***************************************************************************)
THEOREM EofSafe == Spec => []EofOnlyAfterCleanEnd
<1>1. Spec => []IInv
  BY InitIInv, NextIInv, PTL DEF Spec
<1>2. IInv => EofOnlyAfterCleanEnd
  BY DEF IInv
<1>3. QED
  BY <1>1, <1>2, PTL

(* A step that ends a PxfBridgeRead call with fewer than minlen bytes is a *)
(* zero-byte churl_read: the response has ended and the wire is empty.     *)
LEMMA ShortReadStep ==
  TypeOK /\ [Next]_vars =>
    [(pc = "Filling" /\ pc' /= "Filling" /\ delivered' - delivered < minlen)
       => (srv /= "open" /\ Avail' = 0)]_vars
<1> SUFFICES ASSUME TypeOK, Next, pc = "Filling", pc' /= "Filling",
                    delivered' - delivered < minlen
             PROVE  srv /= "open" /\ Avail' = 0
  BY DEF vars
<1>1. FillBuffer
  BY DEF Next, Worker, Service, PxfBridgeImportStart, PxfBridgeExportStart,
         PxfBridgeRead, PxfBridgeWrite, PxfBridgeCleanup, ServiceSend,
         ServiceEnd
<1>2. CASE \E k \in 1..(maxlen - ptr) : k <= Avail /\ ReadChunk(k)
  <2>1. PICK k \in 1..(maxlen - ptr) : k <= Avail /\ ReadChunk(k)
    BY <1>2
  <2>2. ptr + k >= minlen
    BY <2>1 DEF ReadChunk
  <2>3. QED
    BY <2>1, <2>2 DEF ReadChunk, TypeOK
<1>3. CASE ReadZero
  BY <1>1, <1>3 DEF FillBuffer, ReadZero, Avail
<1>4. QED
  BY <1>1, <1>2, <1>3 DEF FillBuffer

(***************************************************************************)
(* The COPY callback contract, for every response length and every         *)
(* minlen/maxlen: PxfBridgeRead returns fewer than minlen bytes only when  *)
(* the response has ended and nothing is left on the wire.                 *)
(***************************************************************************)
THEOREM ShortReadSafe == Spec => ShortReadOnlyAtEnd
<1>1. Spec => []TypeOK
  BY TypeCorrect
<1>2. QED
  BY <1>1, ShortReadStep, PTL DEF Spec, ShortReadOnlyAtEnd
-----------------------------------------------------------------------------
(***************************************************************************)
(* Refinement of PxfReadStream.  As for PxfBridge, the mapping needs that  *)
(* the churl handle is NULL before a start handler ran, with the response  *)
(* untouched, and after PxfBridgeCleanup, so that the service, which       *)
(* answers only a live handle, never moves a closed stream.                *)
(***************************************************************************)
HandleInv ==
  /\ pc = "Idle" => srv = "open" /\ mem["churl_handle"] = "null"
  /\ pc = "Released" => mem["churl_handle"] = "null"

(* A fresh state has no handle and an untouched response.                 *)
LEMMA InitHandleInv == Init => HandleInv
  BY DEF Init, HandleInv, Res

(* Only the start handlers leave "Idle", only PxfBridgeCleanup enters      *)
(* "Released" and it NULLs the handle, and the service needs a live one.   *)
LEMMA NextHandleInv == IInv /\ HandleInv /\ [Next]_vars => HandleInv'
<1> SUFFICES ASSUME IInv, HandleInv, [Next]_vars PROVE HandleInv'
  OBVIOUS
<1> USE DEF HandleInv
<1>1. CASE PxfBridgeImportStart
  BY <1>1 DEF PxfBridgeImportStart
<1>2. CASE PxfBridgeExportStart
  BY <1>2 DEF PxfBridgeExportStart
<1>3. CASE PxfBridgeRead
  BY <1>3 DEF PxfBridgeRead
<1>4. CASE FillBuffer
  BY <1>4 DEF FillBuffer, ReadChunk, ReadZero
<1>5. CASE PxfBridgeWrite
  BY <1>5 DEF PxfBridgeWrite
<1>6. CASE PxfBridgeCleanup
  BY <1>6 DEF PxfBridgeCleanup, Release, FreeKeep, IInv, TypeOK, Res
<1>7. CASE ServiceSend
  BY <1>7 DEF ServiceSend
<1>8. CASE ServiceEnd
  BY <1>8 DEF ServiceEnd
<1>9. CASE UNCHANGED vars
  BY <1>9 DEF vars
<1>10. QED
  BY <1>1, <1>2, <1>3, <1>4, <1>5, <1>6, <1>7, <1>8, <1>9
     DEF Next, Worker, Service

(* Every step of the FDW bridge maps to a step of PxfReadStream or leaves  *)
(* the mapped state unchanged.                                             *)
LEMMA StepRefines ==
  IInv /\ HandleInv /\ [Next]_vars => [Stream!ANext]_Stream!avars
<1> SUFFICES ASSUME IInv, HandleInv, [Next]_vars
             PROVE  [Stream!ANext]_Stream!avars
  OBVIOUS
<1> USE DEF Stream!avars
<1>1. CASE PxfBridgeImportStart
  <2>1. ReaderOf = "streaming" /\ ReaderOf' = "streaming"
    BY <1>1 DEF PxfBridgeImportStart, ReaderOf
  <2>2. srv = "open" /\ sent' = sent /\ delivered' = delivered
    BY <1>1 DEF PxfBridgeImportStart, HandleInv
  <2>3. srv' = srv \/ srv' = "failed"
    BY <1>1, <2>2 DEF PxfBridgeImportStart
  <2>4. QED
    BY <2>1, <2>2, <2>3 DEF Stream!ANext, Stream!Finish
<1>2. CASE PxfBridgeExportStart
  BY <1>2 DEF PxfBridgeExportStart, ReaderOf
<1>3. CASE PxfBridgeRead
  BY <1>3 DEF PxfBridgeRead, ReaderOf
<1>4. CASE FillBuffer
  <2> USE DEF IInv, TypeOK, BytesAccounted
  <2>0. ReaderOf = "streaming" /\ pc = "Filling" /\ delivered + ptr = consumed
    BY <1>4 DEF FillBuffer, ReaderOf
  <2>1. CASE \E k \in 1..(maxlen - ptr) : k <= Avail /\ ReadChunk(k)
    <3>1. PICK k \in 1..(maxlen - ptr) : k <= Avail /\ ReadChunk(k)
      BY <2>1
    <3>2. CASE ptr + k >= minlen
      <4>1. ReaderOf' = "streaming" /\ ptr + k \in 1..(sent - delivered)
        BY <1>4, <2>0, <3>1, <3>2 DEF FillBuffer, ReadChunk, Avail, ReaderOf
      <4>2. delivered' = delivered + (ptr + k) /\ sent' = sent /\ srv' = srv
        BY <1>4, <3>1, <3>2 DEF FillBuffer, ReadChunk
      <4>3. QED
        BY <2>0, <4>1, <4>2 DEF Stream!ANext, Stream!Hand
    <3>3. CASE ~(ptr + k >= minlen)
      BY <1>4, <2>0, <3>1, <3>3 DEF FillBuffer, ReadChunk, ReaderOf
    <3>4. QED
      BY <3>2, <3>3
  <2>2. CASE ReadZero /\ ptr > 0
    <3>1. ReaderOf' = "streaming" /\ ptr \in 1..(sent - delivered)
      BY <1>4, <2>0, <2>2 DEF FillBuffer, ReadZero, ReaderOf
    <3>2. delivered' = delivered + ptr /\ sent' = sent /\ srv' = srv
      BY <1>4, <2>2 DEF FillBuffer, ReadZero
    <3>3. QED
      BY <2>0, <3>1, <3>2 DEF Stream!ANext, Stream!Hand
  <2>3. CASE ReadZero /\ ptr = 0
    <3>1. delivered' = delivered /\ sent' = sent /\ srv' = srv
      BY <1>4, <2>3 DEF FillBuffer, ReadZero
    <3>2. CASE srv = "failed"
      BY <1>4, <2>0, <2>3, <3>1, <3>2
         DEF FillBuffer, ReadZero, ConnectivityFails, ReaderOf
    <3>3. CASE srv /= "failed"
      <4>1. srv = "done" /\ delivered = sent /\ ReaderOf' = "eof"
        BY <1>4, <2>0, <2>3, <3>3
           DEF FillBuffer, ReadZero, ConnectivityFails, ReaderOf, Avail
      <4>2. QED
        BY <2>0, <3>1, <4>1 DEF Stream!ANext, Stream!ReportEof
    <3>4. QED
      BY <3>2, <3>3
  <2>4. QED
    BY <1>4, <2>1, <2>2, <2>3 DEF FillBuffer
<1>5. CASE PxfBridgeWrite
  BY <1>5 DEF PxfBridgeWrite, ReaderOf
<1>6. CASE PxfBridgeCleanup
  <2>1. ReaderOf' = "closed" /\ UNCHANGED <<sent, delivered, srv>>
    BY <1>6 DEF PxfBridgeCleanup, ReaderOf
  <2>2. QED
    BY <2>1 DEF Stream!ANext, Stream!Close
<1>7. CASE ServiceSend
  <2>1. pc /= "Released" /\ pc' = pc /\ srv = "open"
    BY <1>7 DEF ServiceSend, HandleInv
  <2>2. ReaderOf /= "closed" /\ ReaderOf' = ReaderOf
    BY <2>1 DEF ReaderOf
  <2>3. sent' = sent + 1 /\ UNCHANGED <<delivered, srv>>
    BY <1>7 DEF ServiceSend
  <2>4. QED
    BY <2>1, <2>2, <2>3 DEF Stream!ANext, Stream!Produce
<1>8. CASE ServiceEnd
  <2>1. pc /= "Released" /\ pc' = pc /\ srv = "open"
    BY <1>8 DEF ServiceEnd, HandleInv
  <2>2. ReaderOf /= "closed" /\ ReaderOf' = ReaderOf
    BY <2>1 DEF ReaderOf
  <2>3. srv' \in {"done", "failed"} /\ UNCHANGED <<sent, delivered>>
    BY <1>8 DEF ServiceEnd
  <2>4. QED
    BY <2>1, <2>2, <2>3 DEF Stream!ANext, Stream!Finish
<1>9. CASE UNCHANGED vars
  BY <1>9 DEF vars, ReaderOf
<1>10. QED
  BY <1>1, <1>2, <1>3, <1>4, <1>5, <1>6, <1>7, <1>8, <1>9
     DEF Next, Worker, Service

(***************************************************************************)
(* For every response length and every minlen/maxlen the FDW bridge        *)
(* implements the byte stream of PxfReadStream: PxfBridgeRead hands COPY   *)
(* only bytes the service sent, end of data only after a clean end with    *)
(* all of them handed, and PxfBridgeCleanup closes the stream.             *)
(***************************************************************************)
THEOREM Refinement == Spec => ReadStreamRefined
<1>1. Init => Stream!AInit
  BY DEF Init, Stream!AInit, ReaderOf
<1>2. Spec => [](IInv /\ HandleInv)
  BY InitIInv, NextIInv, InitHandleInv, NextHandleInv, PTL DEF Spec
<1>3. QED
  BY <1>1, <1>2, StepRefines, PTL DEF Spec, ReadStreamRefined, Stream!ASpec
=============================================================================
