------------------------ MODULE PxfHeadersCount_proofs ------------------------
(***************************************************************************)
(* HeadersComplete for every value of the constants of PxfHeaders: a       *)
(* finished build_http_headers holds each fixed header it must send        *)
(* exactly once and none it must not send, and X-GP-HAS-FILTER says        *)
(* whether X-GP-FILTER is there.  The argument follows the header list     *)
(* block by block: for each fixed header name, the set of positions that   *)
(* carry it is empty until the block that appends it has run, and a        *)
(* single position from then on.  Counting is left to the very end.        *)
(***************************************************************************)
EXTENDS PxfHeaders_proofs, FiniteSetTheorems

(* The positions of s that carry header name k.                            *)
KeysIn(s, k) == {i \in DOMAIN s : s[i][1] = k}

(* Name k is at exactly one position of s, or at none.                     *)
Placed(s, k) == \E j \in DOMAIN s : KeysIn(s, k) = {j}
Absent(s, k) == KeysIn(s, k) = {}

(* The blocks of build_http_headers that have run, by the block it is at.  *)
AfterFormat == {"projection", "session", "location", "options", "tail", "done"}
AfterProjection == {"session", "location", "options", "tail", "done"}
AfterSession == {"location", "options", "tail", "done"}
AfterLocation == {"options", "tail", "done"}

(***************************************************************************)
(* The fixed header names a build at pc has appended, given its inputs:    *)
(* X-GP-FORMAT and the schema when the relation is known, the projection   *)
(* when its gate passed, the session and location headers, and at the end  *)
(* the URI, the filter headers and Connection.                             *)
(***************************************************************************)
Due(k) ==
  \/ k \in {"X-GP-FORMAT", "X-GP-ATTRS"} /\ rel /\ pc \in AfterFormat
  \/ k = "X-GP-ATTRS-PROJ" /\ projected /\ pc \in AfterProjection
  \/ k \in Range(SessionKeys) /\ pc \in AfterSession
  \/ k \in LocationKeys /\ pc \in AfterLocation
  \/ k \in {"X-GP-URI", "X-GP-HAS-FILTER", "Connection"} /\ pc = "done"
  \/ k = "X-GP-FILTER" /\ filter /\ pc = "done"

KeyOK(k) == IF Due(k) THEN Placed(headers, k) ELSE Absent(headers, k)

(* The value of X-GP-HAS-FILTER the tail block sends.                      *)
HasFilterValue == IF filter THEN "1" ELSE "0"

(***************************************************************************)
(* The inductive invariant: IInv (the types), every fixed name is placed   *)
(* once or absent as Due says, unless the build raised an ERROR, and the   *)
(* X-GP-HAS-FILTER header of a finished build carries HasFilterValue.      *)
(* HeadersComplete alone says nothing before "done" and so is not          *)
(* inductive: the tail block appends X-GP-URI, the filter headers and      *)
(* Connection once only because no earlier block appended them.            *)
(***************************************************************************)
CInv ==
  /\ IInv
  /\ pc /= "error" => \A k \in FixedKeys : KeyOK(k)
  /\ pc = "done" =>
       \A j \in KeysIn(headers, "X-GP-HAS-FILTER") : headers[j][2] = HasFilterValue


-----------------------------------------------------------------------------
(* The positions of a concatenation carrying k: those of s, and those of t *)
(* shifted past s.                                                         *)
LEMMA ConcatKeys ==
  ASSUME NEW s \in Seq(Hdr), NEW t \in Seq(Hdr), NEW k
  PROVE  KeysIn(s \o t, k) = KeysIn(s, k) \cup {Len(s) + i : i \in KeysIn(t, k)}
<1>1. /\ Len(s \o t) = Len(s) + Len(t)
      /\ \A i \in 1 .. Len(s) + Len(t) :
           (s \o t)[i] = IF i <= Len(s) THEN s[i] ELSE t[i - Len(s)]
  BY ConcatProperties
<1>2. DOMAIN (s \o t) = 1 .. Len(s) + Len(t)
  BY <1>1
<1>3. QED
  BY <1>1, <1>2 DEF KeysIn

(***************************************************************************)
(* Appending a block t to s keeps name k placed once or absent: a block    *)
(* without k keeps the positions of k, and a block that carries k at one   *)
(* position p places k at Len(s) + p when s did not carry it yet.          *)
(***************************************************************************)
LEMMA BlockKeys ==
  ASSUME NEW s \in Seq(Hdr), NEW t \in Seq(Hdr), NEW k,
         NEW d1 \in BOOLEAN, NEW d2 \in BOOLEAN,
         IF d1 THEN Placed(s, k) ELSE Absent(s, k),
         \/ d2 = d1 /\ KeysIn(t, k) = {}
         \/ ~d1 /\ d2 /\ \E p \in DOMAIN t : KeysIn(t, k) = {p}
  PROVE  IF d2 THEN Placed(s \o t, k) ELSE Absent(s \o t, k)
<1>1. /\ KeysIn(s \o t, k) = KeysIn(s, k) \cup {Len(s) + i : i \in KeysIn(t, k)}
      /\ DOMAIN (s \o t) = 1 .. Len(s) + Len(t)
      /\ DOMAIN s = 1 .. Len(s)
      /\ DOMAIN t = 1 .. Len(t)
  BY ConcatKeys, ConcatProperties
<1>2. CASE d2 = d1 /\ KeysIn(t, k) = {}
  <2>1. KeysIn(s \o t, k) = KeysIn(s, k)
    BY <1>1, <1>2
  <2>2. CASE d1
    <3>1. PICK j \in DOMAIN s : KeysIn(s, k) = {j}
      BY <2>2 DEF Placed
    <3>2. j \in DOMAIN (s \o t)
      BY <1>1
    <3>3. QED
      BY <1>2, <2>1, <2>2, <3>1, <3>2 DEF Placed
  <2>3. CASE ~d1
    BY <1>2, <2>1, <2>3 DEF Absent
  <2>4. QED
    BY <2>2, <2>3
<1>3. CASE ~d1 /\ d2 /\ \E p \in DOMAIN t : KeysIn(t, k) = {p}
  <2>1. PICK p \in DOMAIN t : KeysIn(t, k) = {p}
    BY <1>3
  <2>2. KeysIn(s, k) = {}
    BY <1>3 DEF Absent
  <2>3. KeysIn(s \o t, k) = {Len(s) + p}
    BY <1>1, <2>1, <2>2
  <2>4. Len(s) + p \in DOMAIN (s \o t)
    BY <1>1
  <2>5. QED
    BY <1>3, <2>3, <2>4 DEF Placed
<1>4. QED
  BY <1>2, <1>3

(* The two uses of BlockKeys: a block carrying k once places it, and a    *)
(* block without k leaves it as it was.                                    *)
LEMMA BlockPlaces ==
  ASSUME NEW s \in Seq(Hdr), NEW t \in Seq(Hdr), NEW k, Absent(s, k),
         NEW p \in DOMAIN t, KeysIn(t, k) = {p}
  PROVE  Placed(s \o t, k)
<1>1. IF TRUE THEN Placed(s \o t, k) ELSE Absent(s \o t, k)
  BY BlockKeys
<1>2. QED
  BY <1>1

LEMMA BlockKeeps ==
  ASSUME NEW s \in Seq(Hdr), NEW t \in Seq(Hdr), NEW k, KeysIn(t, k) = {}
  PROVE  /\ Placed(s, k) => Placed(s \o t, k)
         /\ Absent(s, k) => Absent(s \o t, k)
<1>1. Placed(s, k) => IF TRUE THEN Placed(s \o t, k) ELSE Absent(s \o t, k)
  BY BlockKeys
<1>2. Absent(s, k) => IF FALSE THEN Placed(s \o t, k) ELSE Absent(s \o t, k)
  BY BlockKeys
<1>3. QED
  BY <1>1, <1>2

(* The positions of a one-header list carrying k.                          *)
LEMMA OneKey ==
  ASSUME NEW h, NEW k
  PROVE  KeysIn(<<h>>, k) = IF h[1] = k THEN {1} ELSE {}
  BY DEF KeysIn


(* A block whose names are all option names carries no fixed name.         *)
LEMMA NoFixedKey ==
  ASSUME NEW t, \A i \in DOMAIN t : t[i][1] \in OptionKeys, NEW k \in FixedKeys
  PROVE  KeysIn(t, k) = {}
  BY OptionNotFixed DEF KeysIn

-----------------------------------------------------------------------------
(* The projection block places X-GP-ATTRS-PROJ when its gate passed.      *)
LEMMA ProjectionCount == CInv /\ ProjectionBlock => CInv'
<1> SUFFICES ASSUME CInv, ProjectionBlock PROVE CInv'
  OBVIOUS
<1>1. IInv'
  BY ProjectionStep DEF CInv
<1>2. /\ pc = "projection" /\ pc' = "session"
      /\ UNCHANGED <<rel, projected, filter>>
      /\ headers \in Seq(Hdr)
  BY DEF CInv, IInv, ProjectionBlock, Inputs
<1> DEFINE P == <<<<"X-GP-ATTRS-PROJ", "proj">>>>
<1>3. headers' = headers \o (IF projected THEN P ELSE << >>)
  <2>1. CASE projected
    <3>1. <<"X-GP-ATTRS-PROJ", "proj">> \in Hdr
      BY FixedNames, PairIsHdr DEF Values
    <3>2. QED
      BY <1>2, <2>1, <3>1, AppendIsConcat, SMTT(30) DEF ProjectionBlock
  <2>2. CASE ~projected
    BY <1>2, <2>2, ConcatEmptySeq DEF ProjectionBlock
  <2>3. QED
    BY <2>1, <2>2
<1>4. (IF projected THEN P ELSE << >>) \in Seq(Hdr)
  <2>1. <<"X-GP-ATTRS-PROJ", "proj">> \in Hdr
    BY FixedNames, PairIsHdr, Zenon DEF Values
  <2>2. QED
    BY <2>1, EmptySeq, SMTT(30)
<1>5. ASSUME NEW k \in FixedKeys PROVE KeyOK(k)'
  <2>1. KeyOK(k)
    BY <1>2 DEF CInv
  <2>2. CASE k = "X-GP-ATTRS-PROJ" /\ projected
    <3>1. KeysIn(IF projected THEN P ELSE << >>, k) = {1} /\ 1 \in DOMAIN P
      BY <2>2 DEF KeysIn
    <3>2. ~Due(k) /\ Due(k)'
      BY <1>2, <2>2 DEF Due, AfterFormat, AfterProjection, AfterSession,
                        AfterLocation, SessionKeys, Range, LocationKeys
    <3>3. QED
      BY <1>2, <1>3, <1>4, <2>1, <2>2, <3>1, <3>2, BlockKeys DEF KeyOK
  <2>3. CASE ~(k = "X-GP-ATTRS-PROJ" /\ projected)
    <3>1. KeysIn(IF projected THEN P ELSE << >>, k) = {}
      BY <2>3 DEF KeysIn
    <3>2. Due(k)' = Due(k)
      BY <1>2, <2>3 DEF Due, AfterFormat, AfterProjection, AfterSession,
                        AfterLocation
    <3>3. QED
      BY <1>2, <1>3, <1>4, <2>1, <3>1, <3>2, BlockKeys DEF KeyOK
  <2>4. QED
    BY <2>2, <2>3
<1>6. QED
  BY <1>1, <1>2, <1>5 DEF CInv


(* The session block places each session header and X-GP-ALIGNMENT once,  *)
(* or raises the unknown-user ERROR.                                       *)
LEMMA SessionCount == CInv /\ SessionBlock => CInv'
<1> SUFFICES ASSUME CInv, SessionBlock PROVE CInv'
  OBVIOUS
<1>1. IInv'
  BY SessionStep DEF CInv
<1>2. /\ pc = "session" /\ UNCHANGED <<rel, projected, filter>>
      /\ headers \in Seq(Hdr)
  BY DEF CInv, IInv, SessionBlock, Inputs
<1>3. CASE user = Empty
  BY <1>1, <1>3 DEF CInv, SessionBlock
<1>4. CASE user /= Empty
  <2> DEFINE SS == [i \in DOMAIN SessionKeys |-> <<SessionKeys[i], "session">>]
  <2>1. headers' = headers \o SS /\ pc' = "location"
    BY <1>4 DEF SessionBlock
  <2>2. DOMAIN SS = 1..9 /\ SS \in Seq(Hdr)
    <3>1. DOMAIN SessionKeys = 1..9
      BY SMTT(30) DEF SessionKeys
    <3>2. SS \in [1..9 -> Hdr]
      BY <3>1, FixedNames, PairIsHdr DEF Values
    <3>3. QED
      BY <3>1, <3>2, FunIsSeq
  <2>3. ASSUME NEW k \in FixedKeys PROVE KeyOK(k)'
    <3>1. KeyOK(k)
      BY <1>2 DEF CInv
    <3>2. CASE k \in Range(SessionKeys)
      <4>1. PICK p \in 1..9 : SessionKeys[p] = k
        BY <3>2 DEF Range, SessionKeys
      <4>2. KeysIn(SS, k) = {p}
        BY <4>1 DEF KeysIn, SessionKeys
      <4>3. ~Due(k) /\ Due(k)'
        BY <1>2, <2>1, <3>2, <4>1 DEF Due, AfterFormat, AfterProjection,
                                AfterSession, AfterLocation, SessionKeys,
                                LocationKeys
      <4>4. QED
        BY <1>2, <2>1, <2>2, <3>1, <4>1, <4>2, <4>3, BlockKeys DEF KeyOK
    <3>3. CASE k \notin Range(SessionKeys)
      <4>1. KeysIn(SS, k) = {}
        BY <3>3 DEF KeysIn, Range
      <4>2. Due(k)' = Due(k)
        BY <1>2, <2>1, <3>3 DEF Due, AfterFormat, AfterProjection,
                                AfterSession, AfterLocation
      <4>3. QED
        BY <1>2, <2>1, <2>2, <3>1, <4>1, <4>2, BlockKeys DEF KeyOK
    <3>4. QED
      BY <3>2, <3>3
  <2>4. QED
    BY <1>1, <2>1, <2>3 DEF CInv
<1>5. QED
  BY <1>3, <1>4

(* The location block places each URI data and encoding header once.      *)
LEMMA LocationCount == CInv /\ LocationBlock => CInv'
<1> SUFFICES ASSUME CInv, LocationBlock PROVE CInv'
  OBVIOUS
<1>1. IInv'
  BY LocationStep DEF CInv
<1>2. /\ pc = "location" /\ pc' = "options"
      /\ UNCHANGED <<rel, projected, filter>>
      /\ headers \in Seq(Hdr)
      /\ relname \in Values /\ relnamespace \in Values /\ dataEncoding \in Values
  BY SMTT(30) DEF CInv, IInv, LocationBlock, Inputs, Values, NULL
<1> DEFINE L == <<<<"X-GP-URL-HOST", "uri">>, <<"X-GP-URL-PORT", "uri">>,
                <<"X-GP-DATA-DIR", "uri">>,
                <<"X-GP-TABLE-NAME", relname>>,
                <<"X-GP-SCHEMA-NAME", relnamespace>>,
                <<"X-GP-DATA-ENCODING", dataEncoding>>,
                <<"X-GP-DATABASE-ENCODING", "db">>>>
<1>3. headers' = headers \o L
  BY DEF LocationBlock
<1>4. L \in Seq(Hdr) /\ DOMAIN L = 1..7
  <2>1. \A i \in 1..7 : L[i][1] \in LocationKeys /\ L[i][2] \in Values
        /\ L[i] = <<L[i][1], L[i][2]>>
    BY <1>2 DEF LocationKeys, Values
  <2>2. L \in [1..7 -> Hdr]
    BY <2>1, FixedNames, PairIsHdr
  <2>3. QED
    BY <2>2, FunIsSeq
<1>5. ASSUME NEW k \in FixedKeys PROVE KeyOK(k)'
  <2>1. KeyOK(k)
    BY <1>2 DEF CInv
  <2>2. CASE k \in LocationKeys
    <3>1. \E p \in DOMAIN L : KeysIn(L, k) = {p}
      BY <1>4, <2>2 DEF KeysIn, LocationKeys
    <3>2. ~Due(k) /\ Due(k)'
      BY <1>2, <2>2 DEF Due, AfterFormat, AfterProjection, AfterSession,
                        AfterLocation, LocationKeys, Range, SessionKeys
    <3>3. QED
      BY <1>2, <1>3, <1>4, <2>1, <3>1, <3>2, BlockKeys DEF KeyOK
  <2>3. CASE k \notin LocationKeys
    <3>1. KeysIn(L, k) = {}
      BY <1>4, <2>3 DEF KeysIn, LocationKeys
    <3>2. Due(k)' = Due(k)
      BY <1>2, <2>3 DEF Due, AfterFormat, AfterProjection, AfterSession,
                        AfterLocation
    <3>3. QED
      BY <1>2, <1>3, <1>4, <2>1, <3>1, <3>2, BlockKeys DEF KeyOK
  <2>4. QED
    BY <2>2, <2>3
<1>6. QED
  BY <1>1, <1>2, <1>5 DEF CInv

(* A LOCATION option header has an X-GP-OPTIONS- name: no fixed name moves.*)
LEMMA LocationOptionCount == CInv /\ LocationOption => CInv'
<1> SUFFICES ASSUME CInv, LocationOption PROVE CInv'
  OBVIOUS
<1>1. IInv'
  BY LocationOptionStep DEF CInv
<1>2. /\ pc = "options" /\ UNCHANGED <<rel, projected, filter>>
      /\ headers \in Seq(Hdr) /\ ix \in 1..Len(locOpts)
      /\ locOpts[ix] \in LocKeys
  BY ElementOfSeq DEF CInv, IInv, LocationOption, Inputs
<1>3. CASE locOpts[ix] = Empty
  BY <1>1, <1>3 DEF CInv, LocationOption
<1>4. CASE locOpts[ix] /= Empty
  <2> DEFINE H == <<OptKey(locOpts[ix]), "loc">>
  <2>1. H \in Hdr /\ H[1] \in OptionKeys
    <3>1. locOpts[ix] \in DOMAIN Upper
      BY <1>2, <1>4, KeysAssumption
    <3>2. QED
      BY <3>1, OptionName, PairIsHdr DEF Values
  <2>2. headers' = headers \o <<H>> /\ pc' = "options"
    BY <1>2, <1>4, <2>1, AppendIsConcat DEF LocationOption
  <2>3. <<H>> \in Seq(Hdr)
    BY <2>1
  <2>4. ASSUME NEW k \in FixedKeys PROVE KeyOK(k)'
    <3>1. KeyOK(k)
      BY <1>2 DEF CInv
    <3>2. KeysIn(<<H>>, k) = {}
      BY <2>1, NoFixedKey
    <3>3. Due(k)' = Due(k)
      BY <1>2, <2>2 DEF Due
    <3>4. QED
      BY <1>2, <2>2, <2>3, <3>1, <3>2, <3>3, BlockKeys DEF KeyOK
  <2>5. QED
    BY <1>1, <2>2, <2>4, SMTT(30) DEF CInv
<1>5. QED
  BY <1>3, <1>4

(* The end of the LOCATION options loop moves no header.                   *)
LEMMA LocationOptionsDoneCount == CInv /\ LocationOptionsDone => CInv'
<1> SUFFICES ASSUME CInv, LocationOptionsDone PROVE CInv'
  OBVIOUS
<1>1. IInv'
  BY LocationOptionsDoneStep DEF CInv
<1>2. \A k : Due(k)' = Due(k)
  BY DEF LocationOptionsDone, Inputs, Due, AfterFormat, AfterProjection,
         AfterSession, AfterLocation
<1>3. QED
  BY <1>1, <1>2 DEF CInv, KeyOK, LocationOptionsDone, Placed, Absent, KeysIn


(* The format block places X-GP-FORMAT and X-GP-ATTRS once when the        *)
(* relation is known; the COPY option headers have X-GP-OPTIONS- names.    *)
LEMMA FormatCount == CInv /\ FormatBlock => CInv'
<1> SUFFICES ASSUME CInv, FormatBlock PROVE CInv'
  OBVIOUS
<1>1. IInv'
  BY FormatStep DEF CInv
<1>2. /\ pc = "format" /\ headers = << >>
      /\ UNCHANGED <<rel, projected, filter>>
      /\ fmtOpts \in Seq(FmtKeys)
  BY DEF CInv, IInv, FormatBlock, Inputs
<1>3. CASE ~rel
  <2>1. headers' = << >> /\ pc' = "projection"
    BY <1>2, <1>3 DEF FormatBlock
  <2>2. \A k \in FixedKeys : KeyOK(k)'
    BY <1>2, <1>3, <2>1 DEF KeyOK, Due, Absent, KeysIn, AfterFormat,
                            AfterProjection, AfterSession, AfterLocation
  <2>3. QED
    BY <1>1, <2>1, <2>2 DEF CInv
<1>4. CASE rel /\ ~fmtKnown
  BY <1>1, <1>4 DEF CInv, FormatBlock
<1>5. CASE rel /\ fmtKnown
  <2> DEFINE F == <<<<"X-GP-FORMAT", "fmt">>>>
             O == [i \in DOMAIN fmtOpts |-> <<OptKey(fmtOpts[i]), "fmt">>]
             A == <<<<"X-GP-ATTRS", "schema">>>>
  <2>1. headers' = (F \o O) \o A /\ pc' = "projection"
    BY <1>5 DEF FormatBlock
  <2>2. F \in Seq(Hdr) /\ A \in Seq(Hdr)
    <3>1. <<"X-GP-FORMAT", "fmt">> \in Hdr /\ <<"X-GP-ATTRS", "schema">> \in Hdr
      BY FixedNames, PairIsHdr DEF Values
    <3>2. QED
      BY <3>1
  <2>3. O \in Seq(Hdr) /\ \A i \in DOMAIN O : O[i][1] \in OptionKeys
    <3>1. \A i \in DOMAIN fmtOpts : fmtOpts[i] \in DOMAIN Upper
      BY <1>2, KeysAssumption, ElementOfSeq, LenProperties
    <3>2. \A i \in DOMAIN fmtOpts : O[i] \in Hdr /\ O[i][1] \in OptionKeys
      BY <3>1, OptionName, PairIsHdr DEF Values
    <3>3. O \in [1..Len(fmtOpts) -> Hdr] /\ Len(fmtOpts) \in Nat
      BY <1>2, <3>2, LenProperties
    <3>4. QED
      BY <3>2, <3>3, FunIsSeq
  <2>4. F \o O \in Seq(Hdr)
    BY <2>2, <2>3
  <2>5. ASSUME NEW k \in FixedKeys PROVE KeyOK(k)'
    <3>1. IF k = "X-GP-FORMAT" THEN Placed(F, k) ELSE Absent(F, k)
      BY DEF Placed, Absent, KeysIn
    <3>2. KeysIn(O, k) = {}
      BY <2>3, NoFixedKey
    <3>3. IF k = "X-GP-FORMAT" THEN Placed(F \o O, k) ELSE Absent(F \o O, k)
      BY <2>2, <2>3, <3>1, <3>2, BlockKeys
    <3>4. IF k \in {"X-GP-FORMAT", "X-GP-ATTRS"}
            THEN Placed((F \o O) \o A, k) ELSE Absent((F \o O) \o A, k)
      <4>1. CASE k = "X-GP-ATTRS"
        <5>1. KeysIn(A, k) = {1} /\ 1 \in DOMAIN A
          BY <4>1 DEF KeysIn
        <5>2. QED
          BY <2>2, <2>4, <3>3, <4>1, <5>1, BlockKeys
      <4>2. CASE k /= "X-GP-ATTRS"
        <5>1. KeysIn(A, k) = {}
          BY <4>2 DEF KeysIn
        <5>2. QED
          BY <2>2, <2>4, <3>3, <4>2, <5>1, BlockKeys
      <4>3. QED
        BY <4>1, <4>2
    <3>5. Due(k)' <=> k \in {"X-GP-FORMAT", "X-GP-ATTRS"}
      <4>1. rel' /\ pc' = "projection"
        BY <1>2, <1>5, <2>1
      <4>2. pc' \in AfterFormat /\ pc' \notin AfterProjection \cup {"done"}
        BY <4>1 DEF AfterFormat, AfterProjection
      <4>3. pc' \notin AfterSession \cup AfterLocation
        BY <4>1 DEF AfterSession, AfterLocation
      <4>4. QED
        BY <4>1, <4>2, <4>3 DEF Due
    <3>6. QED
      BY <2>1, <3>4, <3>5 DEF KeyOK
  <2>6. QED
    BY <1>1, <2>1, <2>5 DEF CInv
<1>6. QED
  BY <1>3, <1>4, <1>5

(* Where a header of a concatenation carrying k comes from.                *)
LEMMA ConcatOrigin ==
  ASSUME NEW s \in Seq(Hdr), NEW t \in Seq(Hdr), NEW k,
         NEW j \in KeysIn(s \o t, k)
  PROVE  \/ j \in KeysIn(s, k) /\ (s \o t)[j] = s[j]
         \/ \E i \in KeysIn(t, k) : (s \o t)[j] = t[i]
<1>1. /\ Len(s \o t) = Len(s) + Len(t)
      /\ \A i \in 1 .. Len(s) + Len(t) :
           (s \o t)[i] = IF i <= Len(s) THEN s[i] ELSE t[i - Len(s)]
      /\ DOMAIN s = 1..Len(s) /\ DOMAIN t = 1..Len(t)
  BY ConcatProperties
<1>2. j \in 1 .. Len(s) + Len(t) /\ (s \o t)[j][1] = k
  BY <1>1 DEF KeysIn
<1>3. CASE j <= Len(s)
  <2>1. j \in DOMAIN s /\ (s \o t)[j] = s[j]
    BY <1>1, <1>2, <1>3
  <2>2. j \in KeysIn(s, k)
    BY <1>2, <2>1 DEF KeysIn
  <2>3. QED
    BY <2>1, <2>2
<1>4. CASE j > Len(s)
  <2>1. j - Len(s) \in KeysIn(t, k) /\ (s \o t)[j] = t[j - Len(s)]
    BY <1>1, <1>2, <1>4 DEF KeysIn
  <2>2. QED
    BY <2>1
<1>5. QED
  BY <1>1, <1>2, <1>3, <1>4


(***************************************************************************)
(* The tail appends X-GP-URI, the filter headers and, through              *)
(* churl_headers_override, Connection: none of them is in the list yet,    *)
(* so each is placed once, and Connection is appended rather than          *)
(* overriding an earlier header.                                           *)
(***************************************************************************)
LEMMA TailCount == CInv /\ TailBlock => CInv'
<1> SUFFICES ASSUME CInv, TailBlock PROVE CInv'
  OBVIOUS
<1>1. IInv'
  BY TailStep DEF CInv
<1>2. /\ pc = "tail" /\ pc' = "done"
      /\ UNCHANGED <<rel, projected, filter>>
      /\ headers \in Seq(Hdr)
  BY DEF CInv, IInv, TailBlock, Inputs
<1> DEFINE U == <<<<"X-GP-URI", "uri">>>>
           HU == headers \o U
           X == HU \o FilterHeaders
           C == <<"Connection", "close">>
<1>3. /\ U \in Seq(Hdr) /\ FilterHeaders \in Seq(Hdr) /\ <<C>> \in Seq(Hdr)
      /\ HU \in Seq(Hdr) /\ X \in Seq(Hdr)
  <2>1. <<"X-GP-URI", "uri">> \in Hdr /\ C \in Hdr
    BY FixedNames, PairIsHdr DEF Values
  <2>2. QED
    BY <1>2, <2>1, FilterHeadersSorted, SMTT(30)
<1>4. /\ KeysIn(U, "X-GP-URI") = {1}
      /\ \A k : k /= "X-GP-URI" => KeysIn(U, k) = {}
      /\ KeysIn(<<C>>, "Connection") = {1}
      /\ \A k : k /= "Connection" => KeysIn(<<C>>, k) = {}
  BY DEF KeysIn
<1>5. /\ filter => KeysIn(FilterHeaders, "X-GP-FILTER") = {1}
      /\ ~filter => KeysIn(FilterHeaders, "X-GP-FILTER") = {}
      /\ \E p \in DOMAIN FilterHeaders :
           /\ KeysIn(FilterHeaders, "X-GP-HAS-FILTER") = {p}
           /\ FilterHeaders[p][2] = HasFilterValue
      /\ \A k : k \notin {"X-GP-FILTER", "X-GP-HAS-FILTER"} =>
                  KeysIn(FilterHeaders, k) = {}
  BY DEF KeysIn, FilterHeaders, HasFilterValue
<1>6. ASSUME NEW k \in FixedKeys
      PROVE  /\ IF Due(k) \/ k = "X-GP-URI" THEN Placed(HU, k) ELSE Absent(HU, k)
             /\ IF Due(k)' /\ k /= "Connection" THEN Placed(X, k) ELSE Absent(X, k)
  <2>1. KeyOK(k)
    BY <1>2 DEF CInv
  <2>2. /\ ~Due("X-GP-URI") /\ ~Due("X-GP-FILTER") /\ ~Due("X-GP-HAS-FILTER")
        /\ ~Due("Connection")
    <3>1. /\ "X-GP-URI" \notin Range(SessionKeys) \cup LocationKeys
          /\ "X-GP-FILTER" \notin Range(SessionKeys) \cup LocationKeys
          /\ "X-GP-HAS-FILTER" \notin Range(SessionKeys) \cup LocationKeys
          /\ "Connection" \notin Range(SessionKeys) \cup LocationKeys
      BY DEF Range, SessionKeys, LocationKeys
    <3>2. QED
      BY <1>2, <3>1 DEF Due
  <2>3. Due(k)' <=> \/ Due(k)
                    \/ k \in {"X-GP-URI", "X-GP-HAS-FILTER", "Connection"}
                    \/ k = "X-GP-FILTER" /\ filter
    <3>1. pc' \in AfterFormat \cap AfterProjection \cap AfterSession \cap AfterLocation
          /\ pc \in AfterFormat \cap AfterProjection \cap AfterSession \cap AfterLocation
      BY <1>2 DEF AfterFormat, AfterProjection, AfterSession, AfterLocation
    <3>2. QED
      BY <1>2, <3>1 DEF Due
  <2>4. IF Due(k) \/ k = "X-GP-URI" THEN Placed(HU, k) ELSE Absent(HU, k)
    <3>1. CASE k = "X-GP-URI"
      <4>1. Absent(headers, k)
        BY <2>1, <2>2, <3>1 DEF KeyOK
      <4>2. KeysIn(U, k) = {1} /\ 1 \in DOMAIN U
        BY <1>4, <3>1
      <4>3. Placed(HU, k)
        BY <1>2, <1>3, <4>1, <4>2, BlockPlaces
      <4>4. QED
        BY <3>1, <4>3
    <3>2. CASE k /= "X-GP-URI"
      <4>1. /\ Placed(headers, k) => Placed(HU, k)
            /\ Absent(headers, k) => Absent(HU, k)
        BY <1>2, <1>3, <1>4, <3>2, BlockKeeps, SMTT(30)
      <4>2. QED
        BY <2>1, <3>2, <4>1 DEF KeyOK
    <3>3. QED
      BY <3>1, <3>2
  <2>5. IF Due(k)' /\ k /= "Connection" THEN Placed(X, k) ELSE Absent(X, k)
    <3>1. CASE k = "X-GP-HAS-FILTER" \/ (k = "X-GP-FILTER" /\ filter)
      <4>1. \E p \in DOMAIN FilterHeaders : KeysIn(FilterHeaders, k) = {p}
        BY <1>5, <3>1 DEF FilterHeaders
      <4>2. Absent(HU, k) /\ Due(k)' /\ k /= "Connection"
        BY <2>2, <2>3, <2>4, <3>1
      <4>3. Placed(X, k)
        BY <1>3, <4>1, <4>2, BlockPlaces
      <4>4. QED
        BY <4>2, <4>3
    <3>2. CASE k = "X-GP-FILTER" /\ ~filter
      <4>1. KeysIn(FilterHeaders, k) = {}
        BY <1>5, <3>2
      <4>2. Absent(HU, k) /\ ~Due(k)'
        BY <2>2, <2>3, <2>4, <3>2
      <4>3. Absent(X, k)
        BY <1>3, <4>1, <4>2, BlockKeeps
      <4>4. QED
        BY <4>2, <4>3
    <3>3. CASE k = "Connection"
      <4>1. KeysIn(FilterHeaders, k) = {}
        BY <1>5, <3>3
      <4>2. Absent(HU, k)
        BY <2>2, <2>4, <3>3
      <4>3. Absent(X, k)
        BY <1>3, <4>1, <4>2, BlockKeeps
      <4>4. QED
        BY <3>3, <4>3
    <3>4. CASE k \notin {"X-GP-FILTER", "X-GP-HAS-FILTER", "Connection"}
      <4>1. KeysIn(FilterHeaders, k) = {}
        BY <1>5, <3>4
      <4>2. /\ Placed(HU, k) => Placed(X, k)
            /\ Absent(HU, k) => Absent(X, k)
        BY <1>3, <4>1, BlockKeeps
      <4>3. (Due(k) \/ k = "X-GP-URI") <=> (Due(k)' /\ k /= "Connection")
        BY <2>3, <3>4
      <4>4. QED
        BY <2>4, <4>2, <4>3
    <3>5. QED
      BY <3>1, <3>2, <3>3, <3>4
  <2>6. QED
    BY <2>4, <2>5
<1>7. headers' = X \o <<C>>
  <2>1. Absent(X, "Connection")
    BY <1>6, FixedNames
  <2>2. ~\E i \in DOMAIN X : X[i][1] = "Connection"
    BY <2>1 DEF Absent, KeysIn
  <2>3. headers' = Append(X, C)
    BY <2>2 DEF TailBlock, Override
  <2>4. QED
    BY <1>3, <2>3, AppendIsConcat
<1>8. ASSUME NEW k \in FixedKeys PROVE KeyOK(k)'
  <2>1. IF Due(k)' /\ k /= "Connection" THEN Placed(X, k) ELSE Absent(X, k)
    BY <1>6
  <2>2. CASE k = "Connection"
    <3>1. Due(k)'
      BY <1>2, <2>2 DEF Due
    <3>2. Absent(X, k) /\ KeysIn(<<C>>, k) = {1} /\ 1 \in DOMAIN <<C>>
      BY <1>4, <2>1, <2>2
    <3>3. Placed(X \o <<C>>, k)
      BY <1>3, <3>2, BlockPlaces
    <3>4. QED
      BY <1>7, <3>1, <3>3 DEF KeyOK
  <2>3. CASE k /= "Connection"
    <3>1. /\ Placed(X, k) => Placed(X \o <<C>>, k)
          /\ Absent(X, k) => Absent(X \o <<C>>, k)
      BY <1>3, <1>4, <2>3, BlockKeeps
    <3>2. QED
      BY <1>7, <2>1, <2>3, <3>1 DEF KeyOK
  <2>4. QED
    BY <2>2, <2>3
<1>9. \A j \in KeysIn(headers', "X-GP-HAS-FILTER") : headers'[j][2] = HasFilterValue'
  <2> SUFFICES ASSUME NEW j \in KeysIn(X \o <<C>>, "X-GP-HAS-FILTER")
               PROVE  (X \o <<C>>)[j][2] = HasFilterValue'
    BY <1>7
  <2>1. HasFilterValue' = HasFilterValue
    BY <1>2 DEF HasFilterValue
  <2>2. KeysIn(<<C>>, "X-GP-HAS-FILTER") = {} /\ KeysIn(HU, "X-GP-HAS-FILTER") = {}
    <3>1. ~Due("X-GP-HAS-FILTER")
      BY <1>2 DEF Due, Range, SessionKeys, LocationKeys
    <3>2. Absent(HU, "X-GP-HAS-FILTER")
      BY <1>6, <3>1, FixedNames
    <3>3. QED
      BY <1>4, <3>2 DEF Absent
  <2>3. j \in KeysIn(X, "X-GP-HAS-FILTER") /\ (X \o <<C>>)[j] = X[j]
    BY <1>3, <2>2, ConcatOrigin
  <2>4. KeysIn(X, "X-GP-HAS-FILTER")
          = {Len(HU) + i : i \in KeysIn(FilterHeaders, "X-GP-HAS-FILTER")}
    <3>1. KeysIn(HU \o FilterHeaders, "X-GP-HAS-FILTER")
            = KeysIn(HU, "X-GP-HAS-FILTER")
              \cup {Len(HU) + i : i \in KeysIn(FilterHeaders, "X-GP-HAS-FILTER")}
      BY <1>3, ConcatKeys, ZenonT(30)
    <3>2. QED
      BY <2>2, <3>1
  <2>5. PICK i \in KeysIn(FilterHeaders, "X-GP-HAS-FILTER") : j = Len(HU) + i
    BY <2>3, <2>4
  <2>8. X[j] = FilterHeaders[i]
    <3>1. i \in 1..Len(FilterHeaders) /\ Len(HU) \in Nat
      BY <1>3 DEF KeysIn
    <3>2. QED
      BY <1>3, <2>5, <3>1, ConcatProperties
  <2>6. FilterHeaders[i][2] = HasFilterValue
    BY <1>5
  <2>7. QED
    BY <2>1, <2>3, <2>6, <2>8
<1>10. QED
  BY <1>1, <1>2, <1>8, <1>9 DEF CInv


(* Before the format block no fixed name is due and the list is empty.     *)
LEMMA InitCInv == Init => CInv
<1> SUFFICES ASSUME Init PROVE CInv
  OBVIOUS
<1>1. IInv
  BY InitIInv
<1>2. \A k \in FixedKeys : KeyOK(k)
  BY DEF Init, KeyOK, Due, Absent, KeysIn, AfterFormat, AfterProjection,
         AfterSession, AfterLocation
<1>3. QED
  BY <1>1, <1>2 DEF CInv, Init

(* Every step of build_http_headers keeps CInv.                            *)
LEMMA NextCInv == CInv /\ [Next]_vars => CInv'
<1> SUFFICES ASSUME CInv, [Next]_vars PROVE CInv'
  OBVIOUS
<1>1. CASE UNCHANGED vars
  BY <1>1 DEF vars, CInv, IInv, KeyOK, Due, Placed, Absent, KeysIn,
              HasFilterValue
<1>2. QED
  BY <1>1, FormatCount, ProjectionCount, SessionCount, LocationCount,
     LocationOptionCount, LocationOptionsDoneCount, TailCount DEF Next

(* Count is the number of positions carrying the name: one when it is      *)
(* placed, none when it is absent.                                         *)
LEMMA CountOf ==
  ASSUME NEW k
  PROVE  /\ Placed(headers, k) => Count(k) = 1
         /\ Absent(headers, k) => Count(k) = 0
<1>1. Count(k) = Cardinality(KeysIn(headers, k))
  BY DEF Count, KeysIn
<1>2. Placed(headers, k) => Count(k) = 1
  BY <1>1, FS_Singleton DEF Placed
<1>3. Absent(headers, k) => Count(k) = 0
  BY <1>1, FS_EmptySet DEF Absent
<1>4. QED
  BY <1>2, <1>3

(* A finished build satisfies HeadersComplete.                            *)
LEMMA CInvComplete == CInv => HeadersComplete
<1> SUFFICES ASSUME CInv, pc = "done" PROVE HeadersComplete
  BY DEF HeadersComplete
<1>1. \A k \in FixedKeys : KeyOK(k)
  BY DEF CInv
<1>2. /\ Range(SessionKeys) \subseteq FixedKeys /\ LocationKeys \subseteq FixedKeys
      /\ {"X-GP-URI", "X-GP-HAS-FILTER", "Connection"} \subseteq FixedKeys
      /\ "X-GP-FORMAT" \in FixedKeys /\ "X-GP-ATTRS" \in FixedKeys
      /\ "X-GP-ATTRS-PROJ" \in FixedKeys /\ "X-GP-FILTER" \in FixedKeys
  BY DEF FixedKeys
<1>3. ASSUME NEW k \in Range(SessionKeys) \cup LocationKeys
                       \cup {"X-GP-URI", "X-GP-HAS-FILTER", "Connection"}
      PROVE  Count(k) = 1
  <2>1. Due(k)
    BY DEF Due, AfterSession, AfterLocation
  <2>2. Placed(headers, k)
    BY <1>1, <1>2, <2>1 DEF KeyOK
  <2>3. QED
    BY <2>2, CountOf
<1>4. /\ \A k \in FixedKeys : Due(k) => Count(k) = 1
      /\ \A k \in FixedKeys : ~Due(k) => Count(k) = 0
  BY <1>1, CountOf DEF KeyOK
<1>5. /\ Due("X-GP-FORMAT") <=> rel
      /\ Due("X-GP-ATTRS") <=> rel
      /\ Due("X-GP-ATTRS-PROJ") <=> projected
      /\ Due("X-GP-FILTER") <=> filter
  <2>1. /\ "X-GP-FORMAT" \notin Range(SessionKeys) \cup LocationKeys
        /\ "X-GP-ATTRS" \notin Range(SessionKeys) \cup LocationKeys
        /\ "X-GP-ATTRS-PROJ" \notin Range(SessionKeys) \cup LocationKeys
        /\ "X-GP-FILTER" \notin Range(SessionKeys) \cup LocationKeys
    BY DEF Range, SessionKeys, LocationKeys
  <2>2. QED
    BY <2>1 DEF Due, AfterFormat, AfterProjection
<1>6. /\ Count("X-GP-FORMAT") = (IF rel THEN 1 ELSE 0)
      /\ Count("X-GP-ATTRS") = (IF rel THEN 1 ELSE 0)
  <2>1. CASE rel
    BY <1>2, <1>4, <1>5, <2>1
  <2>2. CASE ~rel
    BY <1>2, <1>4, <1>5, <2>2
  <2>3. QED
    BY <2>1, <2>2
<1>7. /\ Count("X-GP-ATTRS-PROJ") = (IF projected THEN 1 ELSE 0)
      /\ Count("X-GP-FILTER") = (IF filter THEN 1 ELSE 0)
  <2>1. Count("X-GP-ATTRS-PROJ") = (IF projected THEN 1 ELSE 0)
    <3>1. CASE projected
      BY <1>2, <1>4, <1>5, <3>1
    <3>2. CASE ~projected
      BY <1>2, <1>4, <1>5, <3>2
    <3>3. QED
      BY <3>1, <3>2
  <2>2. Count("X-GP-FILTER") = (IF filter THEN 1 ELSE 0)
    <3>1. CASE filter
      BY <1>2, <1>4, <1>5, <3>1
    <3>2. CASE ~filter
      BY <1>2, <1>4, <1>5, <3>2
    <3>3. QED
      BY <3>1, <3>2
  <2>3. QED
    BY <2>1, <2>2
<1>8. ValueOf("X-GP-HAS-FILTER") = (IF filter THEN "1" ELSE "0")
  <2>1. PICK j \in DOMAIN headers : KeysIn(headers, "X-GP-HAS-FILTER") = {j}
    <3>1. Due("X-GP-HAS-FILTER")
      BY DEF Due
    <3>2. QED
      BY <1>1, <1>2, <3>1 DEF KeyOK, Placed
  <2>2. (CHOOSE i \in DOMAIN headers : headers[i][1] = "X-GP-HAS-FILTER") = j
    BY <2>1 DEF KeysIn
  <2>3. headers[j][2] = HasFilterValue
    BY <2>1 DEF CInv
  <2>4. QED
    BY <2>2, <2>3 DEF ValueOf, HasFilterValue
<1>9. QED
  BY <1>3, <1>6, <1>7, <1>8 DEF HeadersComplete

(***************************************************************************)
(* For every set of option keys and every bound on the option lists, a    *)
(* build_http_headers that returns sends each session, location, URI,     *)
(* X-GP-HAS-FILTER and Connection header exactly once, the format and     *)
(* schema headers exactly when the relation is known, the projection      *)
(* exactly when its gate passed, X-GP-FILTER exactly when there is a      *)
(* filter, and X-GP-HAS-FILTER saying which.                               *)
(***************************************************************************)
THEOREM CompleteSafe == Spec => []HeadersComplete
<1>1. Spec => []CInv
  BY InitCInv, NextCInv, PTL DEF Spec
<1>2. QED
  BY <1>1, CInvComplete, PTL

=============================================================================
