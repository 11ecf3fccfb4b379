-------------------------- MODULE PxfHeaders_proofs --------------------------
(***************************************************************************)
(* Proofs about PxfHeaders for every value of its constants: every header *)
(* build_http_headers appends belongs to a group of spec.md 4.3 no earlier *)
(* than the group of the block appending it, so the header list is in the  *)
(* order of that section at every step, and of the right type.             *)
(***************************************************************************)
EXTENDS PxfHeaders, SequenceTheorems, TLAPS

(* The headers a build can hold.                                           *)
Hdr == (FixedKeys \cup OptionKeys) \X Values

(* A header list whose groups are in spec order.                          *)
Sorted(s) == \A i, j \in DOMAIN s : i < j => Rank(s[i]) <= Rank(s[j])

(* Every header of s is in a group from lo to hi.                          *)
Bounded(s, lo, hi) == \A i \in DOMAIN s : lo <= Rank(s[i]) /\ Rank(s[i]) <= hi

(* Every header has a rank between 0 and 9.                               *)
LEMMA RankRange == \A h : Rank(h) \in 0..9
  BY DEF Rank

(* Ranks ordered through a middle bound are ordered.                      *)
LEMMA RankTrans ==
  ASSUME NEW x \in 0..9, NEW y \in 0..9, NEW b \in Int, x <= b, b <= y
  PROVE  x <= y
  OBVIOUS

(* A list in the groups a to b followed by a sorted list in the groups b   *)
(* to c is sorted, in the groups a to c.                                   *)
LEMMA ConcatSorted ==
  ASSUME NEW s \in Seq(Hdr), NEW t \in Seq(Hdr),
         NEW a \in Int, NEW b \in Int, NEW c \in Int, a <= b, b <= c,
         Sorted(s), Sorted(t), Bounded(s, a, b), Bounded(t, b, c)
  PROVE  /\ s \o t \in Seq(Hdr)
         /\ Sorted(s \o t)
         /\ Bounded(s \o t, a, c)
<1>1. /\ s \o t \in Seq(Hdr)
      /\ Len(s \o t) = Len(s) + Len(t)
      /\ \A i \in 1 .. Len(s) + Len(t) :
           (s \o t)[i] = IF i <= Len(s) THEN s[i] ELSE t[i - Len(s)]
  BY ConcatProperties
<1>2. DOMAIN (s \o t) = 1 .. Len(s) + Len(t)
  BY <1>1
<1>3. Sorted(s \o t)
  <2> SUFFICES ASSUME NEW i \in DOMAIN (s \o t), NEW j \in DOMAIN (s \o t), i < j
               PROVE  Rank((s \o t)[i]) <= Rank((s \o t)[j])
    BY DEF Sorted
  <2>1. CASE j <= Len(s)
    BY <1>1, <1>2, <2>1 DEF Sorted
  <2>2. CASE i <= Len(s) /\ j > Len(s)
    <3>1. Rank(s[i]) <= b
      BY <1>2, <2>2 DEF Bounded
    <3>2. b <= Rank(t[j - Len(s)])
      BY <1>2, <2>2 DEF Bounded
    <3>3. (s \o t)[i] = s[i] /\ (s \o t)[j] = t[j - Len(s)]
      BY <1>1, <1>2, <2>2
    <3>4. Rank(s[i]) \in 0..9 /\ Rank(t[j - Len(s)]) \in 0..9
      BY RankRange, Zenon
    <3>5. Rank(s[i]) <= Rank(t[j - Len(s)])
      BY <3>1, <3>2, <3>4, RankTrans, Zenon
    <3>6. QED
      BY <3>3, <3>5, Zenon
  <2>3. CASE i > Len(s)
    <3>1. Rank(t[i - Len(s)]) <= Rank(t[j - Len(s)])
      BY <1>2, <2>3 DEF Sorted
    <3>2. (s \o t)[i] = t[i - Len(s)] /\ (s \o t)[j] = t[j - Len(s)]
      BY <1>1, <1>2, <2>3
    <3>3. QED
      BY <3>1, <3>2
  <2>4. QED
    BY <2>1, <2>2, <2>3
<1>4. Bounded(s \o t, a, c)
  <2> SUFFICES ASSUME NEW i \in DOMAIN (s \o t)
               PROVE  a <= Rank((s \o t)[i]) /\ Rank((s \o t)[i]) <= c
    BY DEF Bounded
  <2>1. CASE i <= Len(s)
    <3>1. (s \o t)[i] = s[i]
      BY <1>1, <1>2, <2>1
    <3>2. a <= Rank(s[i]) /\ Rank(s[i]) <= b
      BY <1>2, <2>1 DEF Bounded
    <3>3. Rank(s[i]) \in 0..9
      BY RankRange, Zenon
    <3>4. a <= Rank(s[i]) /\ Rank(s[i]) <= c
      BY <3>2, <3>3, SMTT(30)
    <3>5. QED
      BY <3>1, <3>4, Zenon
  <2>2. CASE i > Len(s)
    <3>1. (s \o t)[i] = t[i - Len(s)]
      BY <1>1, <1>2, <2>2
    <3>2. b <= Rank(t[i - Len(s)]) /\ Rank(t[i - Len(s)]) <= c
      BY <1>2, <2>2 DEF Bounded
    <3>3. Rank(t[i - Len(s)]) \in 0..9
      BY RankRange, Zenon
    <3>4. a <= Rank(t[i - Len(s)]) /\ Rank(t[i - Len(s)]) <= c
      BY <3>2, <3>3, SMTT(30)
    <3>5. QED
      BY <3>1, <3>4, Zenon
  <2>3. QED
    BY <2>1, <2>2
<1>5. QED
  BY <1>1, <1>3, <1>4

(* A list in the groups a to b is in any wider range of groups.            *)
LEMMA Widen ==
  ASSUME NEW s, NEW a \in Int, NEW b \in Int, NEW c \in Int, NEW d \in Int,
         Bounded(s, a, b), c <= a, b <= d
  PROVE  Bounded(s, c, d)
<1> SUFFICES ASSUME NEW i \in DOMAIN s PROVE c <= Rank(s[i]) /\ Rank(s[i]) <= d
  BY DEF Bounded
<1>1. a <= Rank(s[i]) /\ Rank(s[i]) <= b
  BY DEF Bounded
<1>2. Rank(s[i]) \in 0..9
  BY RankRange, Zenon
<1>3. QED
  BY <1>1, <1>2

(* No option header name is a fixed header name.                           *)
LEMMA OptionNotFixed == \A k \in FixedKeys : k \notin OptionKeys
  BY OptionKeysAssumption DEF OptionKeys

(* The group of each header build_http_headers appends under a fixed name. *)
LEMMA FixedRanks ==
  ASSUME NEW v
  PROVE  /\ Rank(<<"X-GP-FORMAT", v>>) = 0
         /\ Rank(<<"X-GP-ATTRS", v>>) = 1
         /\ Rank(<<"X-GP-ATTRS-PROJ", v>>) = 2
         /\ \A i \in 1..8 : Rank(<<SessionKeys[i], v>>) = 3
         /\ Rank(<<SessionKeys[9], v>>) = 4
         /\ \A k \in LocationKeys : Rank(<<k, v>>) = 5
         /\ Rank(<<"X-GP-URI", v>>) = 7
         /\ Rank(<<"X-GP-FILTER", v>>) = 8
         /\ Rank(<<"X-GP-HAS-FILTER", v>>) = 8
         /\ Rank(<<"Connection", v>>) = 9
<1>1. Range(SessionKeys) = {SessionKeys[i] : i \in 1..9}
  BY DEF Range, SessionKeys
<1>2. /\ "X-GP-FORMAT" \in FixedKeys /\ "X-GP-ATTRS" \in FixedKeys
      /\ "X-GP-ATTRS-PROJ" \in FixedKeys /\ "X-GP-URI" \in FixedKeys
      /\ "X-GP-FILTER" \in FixedKeys /\ "X-GP-HAS-FILTER" \in FixedKeys
      /\ "Connection" \in FixedKeys
      /\ LocationKeys \subseteq FixedKeys
      /\ \A i \in 1..9 : SessionKeys[i] \in FixedKeys
  BY <1>1 DEF FixedKeys
<1>3. Rank(<<"X-GP-FORMAT", v>>) = 0
  BY <1>1, <1>2, OptionNotFixed DEF Rank, SessionKeys, LocationKeys
<1>4. Rank(<<"X-GP-ATTRS", v>>) = 1
  BY <1>1, <1>2, OptionNotFixed DEF Rank, SessionKeys, LocationKeys
<1>5. Rank(<<"X-GP-ATTRS-PROJ", v>>) = 2
  BY <1>1, <1>2, OptionNotFixed DEF Rank, SessionKeys, LocationKeys
<1>6. \A i \in 1..8 : Rank(<<SessionKeys[i], v>>) = 3
  BY <1>1, <1>2, OptionNotFixed DEF Rank, SessionKeys, LocationKeys
<1>7. Rank(<<SessionKeys[9], v>>) = 4
  BY <1>1, <1>2, OptionNotFixed DEF Rank, SessionKeys, LocationKeys
<1>8. \A k \in LocationKeys : Rank(<<k, v>>) = 5
  BY <1>1, <1>2, OptionNotFixed DEF Rank, SessionKeys, LocationKeys
<1>9. /\ Rank(<<"X-GP-URI", v>>) = 7
      /\ Rank(<<"X-GP-FILTER", v>>) = 8
      /\ Rank(<<"X-GP-HAS-FILTER", v>>) = 8
  BY <1>1, <1>2, OptionNotFixed DEF Rank, SessionKeys, LocationKeys
<1>10. Rank(<<"Connection", v>>) = 9
  BY <1>1, <1>2, OptionNotFixed DEF Rank, SessionKeys, LocationKeys
<1>11. QED
  BY <1>3, <1>4, <1>5, <1>6, <1>7, <1>8, <1>9, <1>10

(* An option header is in the format group when it carries a COPY option   *)
(* and in the LOCATION options group otherwise.                            *)
LEMMA OptionRanks ==
  ASSUME NEW k \in DOMAIN Upper
  PROVE  /\ Rank(<<OptKey(k), "fmt">>) = 0
         /\ Rank(<<OptKey(k), "loc">>) = 6
<1>1. OptKey(k) \in OptionKeys /\ OptKey(k) \notin FixedKeys
  BY OptionKeysAssumption DEF OptionKeys
<1>2. /\ "X-GP-FORMAT" \in FixedKeys /\ "X-GP-ATTRS" \in FixedKeys
      /\ "X-GP-ATTRS-PROJ" \in FixedKeys /\ "X-GP-ALIGNMENT" \in FixedKeys
      /\ "X-GP-URI" \in FixedKeys /\ "X-GP-FILTER" \in FixedKeys
      /\ "X-GP-HAS-FILTER" \in FixedKeys
      /\ Range(SessionKeys) \subseteq FixedKeys /\ LocationKeys \subseteq FixedKeys
  BY DEF FixedKeys, Range, SessionKeys
<1>3. Rank(<<OptKey(k), "fmt">>) = 0
  BY <1>1, <1>2 DEF Rank
<1>4. Rank(<<OptKey(k), "loc">>) = 6
  BY <1>1, <1>2 DEF Rank
<1>5. QED
  BY <1>3, <1>4

(* The Connection header is the only one in the last group.                *)
LEMMA ConnectionRank == \A h : Rank(h) <= 8 => h[1] /= "Connection"
<1>1. "Connection" \in FixedKeys /\ "Connection" \notin Range(SessionKeys)
  BY DEF FixedKeys, Range, SessionKeys
<1>2. QED
  BY <1>1, OptionNotFixed DEF Rank, LocationKeys
(* A function on 1..n is a sequence of length n.                          *)
LEMMA FunIsSeq ==
  ASSUME NEW S, NEW n \in Nat, NEW l \in [1..n -> S]
  PROVE  l \in Seq(S) /\ Len(l) = n
<1>1. l \in Seq(S)
  BY SeqDef
<1>2. DOMAIN l = 1..Len(l) /\ Len(l) \in Nat
  BY <1>1, LenProperties
<1>3. n <= Len(l)
  <2>1. CASE n /= 0
    <3>1. n \in DOMAIN l
      BY <2>1
    <3>2. QED
      BY <1>2, <3>1
  <2>2. QED
    BY <2>1, <1>2
<1>4. Len(l) <= n
  <2>1. CASE Len(l) /= 0
    <3>1. Len(l) \in DOMAIN l
      BY <1>2, <2>1
    <3>2. QED
      BY <3>1
  <2>2. QED
    BY <2>1, <1>2
<1>5. QED
  BY <1>1, <1>2, <1>3, <1>4

(* An option list of the inputs is a sequence of at most MaxOpts keys.     *)
LEMMA OptListsSeq ==
  ASSUME NEW S, NEW l \in OptLists(S)
  PROVE  l \in Seq(S) /\ Len(l) <= MaxOpts
<1>1. \E n \in 0..MaxOpts : l \in [1..n -> S]
  BY Zenon DEF OptLists
<1>2. PICK n \in Nat : n <= MaxOpts /\ l \in [1..n -> S]
  BY <1>1, KeysAssumption
<1>3. QED
  BY <1>2, FunIsSeq


(* The names build_http_headers uses are fixed header names.              *)
LEMMA FixedNames ==
  /\ "X-GP-FORMAT" \in FixedKeys /\ "X-GP-ATTRS" \in FixedKeys
  /\ "X-GP-ATTRS-PROJ" \in FixedKeys /\ "X-GP-URI" \in FixedKeys
  /\ "X-GP-FILTER" \in FixedKeys /\ "X-GP-HAS-FILTER" \in FixedKeys
  /\ "Connection" \in FixedKeys
  /\ LocationKeys \subseteq FixedKeys
  /\ \A i \in 1..9 : SessionKeys[i] \in FixedKeys
<1>1. Range(SessionKeys) = {SessionKeys[i] : i \in 1..9}
  BY DEF Range, SessionKeys
<1>2. QED
  BY <1>1 DEF FixedKeys

(* A header name with one of the values is a header.                       *)
LEMMA PairIsHdr ==
  ASSUME NEW k \in FixedKeys \cup OptionKeys, NEW v \in Values
  PROVE  <<k, v>> \in Hdr
  BY DEF Hdr

(* normalize_key_name gives an option header name.                         *)
LEMMA OptionName ==
  ASSUME NEW k \in DOMAIN Upper
  PROVE  OptKey(k) \in OptionKeys
  BY DEF OptionKeys

(* A list of one header is sorted and in that header's group.              *)
LEMMA OneHeader ==
  ASSUME NEW h \in Hdr, NEW r \in Int, Rank(h) = r
  PROVE  <<h>> \in Seq(Hdr) /\ Sorted(<<h>>) /\ Bounded(<<h>>, r, r)
  BY DEF Sorted, Bounded

(* The empty list is sorted and in any range of groups.                    *)
LEMMA NoHeader ==
  ASSUME NEW a, NEW b
  PROVE  << >> \in Seq(Hdr) /\ Sorted(<< >>) /\ Bounded(<< >>, a, b)
  BY EmptySeq DEF Sorted, Bounded

-----------------------------------------------------------------------------
(* The last group each block of build_http_headers may have appended when  *)
(* the build is at pc.                                                     *)
Top == [format |-> 0, projection |-> 1, session |-> 2, location |-> 4,
        options |-> 6, tail |-> 6, done |-> 9, error |-> 9]

(***************************************************************************)
(* The inductive invariant: the inputs and the header list are of their    *)
(* types, the list is empty before the format block, it holds no header of *)
(* a group later than the block the build is at, and it is sorted by       *)
(* group.  The bound by Top is what makes the order inductive: the next    *)
(* block appends headers of a group no earlier than Top[pc].               *)
(***************************************************************************)
IInv ==
  /\ pc \in DOMAIN Top
  /\ fmtOpts \in Seq(FmtKeys)
  /\ locOpts \in Seq(LocKeys) /\ Len(locOpts) <= MaxOpts
  /\ ix \in 1..(Len(locOpts) + 1)
  /\ headers \in Seq(Hdr)
  /\ dataEncoding \in {NULL, "enc"}
  /\ relname \in {"data", "rel"}
  /\ relnamespace \in {NULL, "nsp"}
  /\ pc = "format" => headers = << >>
  /\ Bounded(headers, 0, Top[pc])
  /\ Sorted(headers)

(* The inputs of one call satisfy the invariant.                           *)
LEMMA InitIInv == Init => IInv
<1> SUFFICES ASSUME Init PROVE IInv
  OBVIOUS
<1>1. fmtOpts \in Seq(FmtKeys) /\ locOpts \in Seq(LocKeys) /\ Len(locOpts) <= MaxOpts
  BY OptListsSeq DEF Init
<1>2. headers \in Seq(Hdr) /\ Sorted(headers) /\ Bounded(headers, 0, 0)
  BY NoHeader DEF Init
<1>3. pc \in DOMAIN Top /\ Top[pc] = 0 /\ ix \in 1..(Len(locOpts) + 1)
  BY <1>1 DEF Init, Top
<1>4. QED
  BY <1>1, <1>2, <1>3 DEF Init, IInv, NULL

(* The format block: X-GP-FORMAT and the COPY options, then the schema.    *)
LEMMA FormatStep == IInv /\ FormatBlock => IInv'
<1> SUFFICES ASSUME IInv, FormatBlock PROVE IInv'
  OBVIOUS
<1>1. headers = << >> /\ UNCHANGED <<fmtOpts, locOpts, ix>>
      /\ Top["projection"] = 1 /\ Top["error"] = 9
  BY DEF IInv, FormatBlock, Inputs, Top
<1>2. CASE ~rel \/ ~fmtKnown
  <2>1. Bounded(headers, 0, 1) /\ Bounded(headers, 0, 9)
    BY <1>1, NoHeader
  <2>2. QED
    BY <1>1, <1>2, <2>1 DEF IInv, FormatBlock, Top
<1>3. CASE rel /\ fmtKnown
  <2> DEFINE F == <<<<"X-GP-FORMAT", "fmt">>>>
             O == [i \in DOMAIN fmtOpts |-> <<OptKey(fmtOpts[i]), "fmt">>]
             A == <<<<"X-GP-ATTRS", "schema">>>>
  <2>1. headers' = (F \o O) \o A /\ pc' = "projection"
        /\ dataEncoding' = "enc" /\ relname' = "rel" /\ relnamespace' = "nsp"
    BY <1>3, ZenonT(30) DEF FormatBlock
  <2>2. "fmt" \in Values /\ "schema" \in Values
    BY DEF Values
  <2>3. /\ F \in Seq(Hdr) /\ Sorted(F) /\ Bounded(F, 0, 0)
        /\ A \in Seq(Hdr) /\ Sorted(A) /\ Bounded(A, 1, 1)
    <3>1. <<"X-GP-FORMAT", "fmt">> \in Hdr /\ <<"X-GP-ATTRS", "schema">> \in Hdr
      BY <2>2, FixedNames, PairIsHdr, SMTT(30)
    <3>2. Rank(<<"X-GP-FORMAT", "fmt">>) = 0 /\ Rank(<<"X-GP-ATTRS", "schema">>) = 1
      BY FixedRanks
    <3>3. QED
      BY <3>1, <3>2, OneHeader
  <2>4. O \in Seq(Hdr) /\ Sorted(O) /\ Bounded(O, 0, 0)
    <3>1. \A i \in DOMAIN fmtOpts : fmtOpts[i] \in DOMAIN Upper
      BY KeysAssumption, ElementOfSeq, LenProperties DEF IInv
    <3>2. \A i \in DOMAIN fmtOpts : Rank(O[i]) = 0 /\ O[i] \in Hdr
      BY <3>1, <2>2, OptionRanks, OptionName, PairIsHdr
    <3>3. O \in [1..Len(fmtOpts) -> Hdr] /\ Len(fmtOpts) \in Nat
      BY <3>2, LenProperties DEF IInv
    <3>4. QED
      BY <3>2, <3>3, FunIsSeq DEF Sorted, Bounded
  <2>5. F \o O \in Seq(Hdr) /\ Sorted(F \o O) /\ Bounded(F \o O, 0, 0)
    BY <2>3, <2>4, ConcatSorted
  <2>6. Bounded(F \o O, 0, 1)
    BY <2>5, Widen
  <2>7. /\ (F \o O) \o A \in Seq(Hdr) /\ Sorted((F \o O) \o A)
        /\ Bounded((F \o O) \o A, 0, 1)
    <3>1. 0 \in Int /\ 1 \in Int /\ 0 <= 1 /\ 1 <= 1
      OBVIOUS
    <3>2. QED
      BY <2>3, <2>5, <2>6, <3>1, ConcatSorted, Zenon
  <2>8. headers' \in Seq(Hdr) /\ Sorted(headers') /\ Bounded(headers', 0, 1)
    BY <2>1, <2>7, Zenon
  <2>9. QED
    BY <1>1, <2>1, <2>8 DEF IInv, Top, NULL
<1>4. QED
  BY <1>2, <1>3
(* The projection block appends X-GP-ATTRS-PROJ or nothing.               *)
LEMMA ProjectionStep == IInv /\ ProjectionBlock => IInv'
<1> SUFFICES ASSUME IInv, ProjectionBlock PROVE IInv'
  OBVIOUS
<1>1. /\ pc' = "session" /\ Top[pc] = 1 /\ Top[pc'] = 2 /\ pc' \in DOMAIN Top
      /\ UNCHANGED <<fmtOpts, locOpts, ix, dataEncoding, relname, relnamespace>>
  BY DEF IInv, ProjectionBlock, Inputs, Top
<1>2. 0 \in Int /\ 1 \in Int /\ 2 \in Int /\ 0 <= 0 /\ 1 <= 2 /\ 0 <= 2 /\ 2 <= 2
  OBVIOUS
<1>3. headers \in Seq(Hdr) /\ Sorted(headers) /\ Bounded(headers, 0, 2)
  <2>1. Bounded(headers, 0, 1)
    BY <1>1 DEF IInv
  <2>2. QED
    BY <1>2, <2>1, Widen DEF IInv
<1>4. CASE ~projected
  BY <1>1, <1>3, <1>4 DEF IInv, ProjectionBlock
<1>5. CASE projected
  <2> DEFINE P == <<<<"X-GP-ATTRS-PROJ", "proj">>>>
  <2>1. <<"X-GP-ATTRS-PROJ", "proj">> \in Hdr /\ Rank(<<"X-GP-ATTRS-PROJ", "proj">>) = 2
    BY FixedNames, PairIsHdr, FixedRanks DEF Values
  <2>2. headers' = headers \o P
    BY <1>3, <1>5, <2>1, AppendIsConcat DEF ProjectionBlock
  <2>3. P \in Seq(Hdr) /\ Sorted(P) /\ Bounded(P, 2, 2)
    BY <2>1, OneHeader
  <2>4. headers \o P \in Seq(Hdr) /\ Sorted(headers \o P) /\ Bounded(headers \o P, 0, 2)
    BY <1>2, <1>3, <2>3, ConcatSorted, Zenon
  <2>5. QED
    BY <1>1, <2>2, <2>4, SMTT(30) DEF IInv
<1>6. QED
  BY <1>4, <1>5

(* The session block: the user check, then the session and alignment       *)
(* headers.                                                                *)
LEMMA SessionStep == IInv /\ SessionBlock => IInv'
<1> SUFFICES ASSUME IInv, SessionBlock PROVE IInv'
  OBVIOUS
<1>1. /\ Top[pc] = 2 /\ Top["error"] = 9 /\ Top["location"] = 4
      /\ "error" \in DOMAIN Top /\ "location" \in DOMAIN Top
      /\ UNCHANGED <<fmtOpts, locOpts, ix, dataEncoding, relname, relnamespace>>
  BY DEF IInv, SessionBlock, Inputs, Top
<1>2. /\ 0 \in Int /\ 2 \in Int /\ 3 \in Int /\ 4 \in Int /\ 9 \in Int
      /\ 0 <= 0 /\ 2 <= 9 /\ 2 <= 3 /\ 0 <= 3 /\ 3 <= 4
  OBVIOUS
<1>3. headers \in Seq(Hdr) /\ Sorted(headers) /\ Bounded(headers, 0, 2)
  BY <1>1 DEF IInv
<1>4. CASE user = Empty
  <2>1. Bounded(headers, 0, 9)
    BY <1>2, <1>3, Widen
  <2>2. QED
    BY <1>1, <1>3, <1>4, <2>1 DEF IInv, SessionBlock
<1>5. CASE user /= Empty
  <2> DEFINE SS == [i \in DOMAIN SessionKeys |-> <<SessionKeys[i], "session">>]
  <2>1. headers' = headers \o SS /\ pc' = "location"
    BY <1>5 DEF SessionBlock
  <2>2. DOMAIN SessionKeys = 1..9
    BY DEF SessionKeys
  <2>3. \A i \in 1..9 : SS[i] \in Hdr
    BY <2>2, FixedNames, PairIsHdr DEF Values
  <2>4. /\ \A i \in 1..8 : Rank(SS[i]) = 3
        /\ Rank(SS[9]) = 4
    <3>1. \A i \in 1..9 : SS[i] = <<SessionKeys[i], "session">>
      BY <2>2, SMTT(30)
    <3>2. /\ \A i \in 1..8 : Rank(<<SessionKeys[i], "session">>) = 3
          /\ Rank(<<SessionKeys[9], "session">>) = 4
      BY FixedRanks
    <3>3. 9 \in 1..9 /\ \A i \in 1..8 : i \in 1..9
      OBVIOUS
    <3>4. QED
      BY <3>1, <3>2, <3>3, Zenon
  <2>5. SS \in Seq(Hdr)
    BY <2>2, <2>3, FunIsSeq
  <2>6. Sorted(SS) /\ Bounded(SS, 3, 4)
    BY <2>2, <2>4 DEF Sorted, Bounded
  <2>7. Bounded(headers, 0, 3)
    BY <1>2, <1>3, Widen
  <2>8. headers \o SS \in Seq(Hdr) /\ Sorted(headers \o SS)
        /\ Bounded(headers \o SS, 0, 4)
    BY <1>2, <1>3, <2>5, <2>6, <2>7, ConcatSorted, Zenon
  <2>9. QED
    BY <1>1, <2>1, <2>8 DEF IInv
<1>6. QED
  BY <1>4, <1>5
(* The location block appends the URI data and encoding headers.          *)
LEMMA LocationStep == IInv /\ LocationBlock => IInv'
<1> SUFFICES ASSUME IInv, LocationBlock PROVE IInv'
  OBVIOUS
<1>1. /\ Top[pc] = 4 /\ pc' = "options" /\ Top[pc'] = 6 /\ pc' \in DOMAIN Top
      /\ UNCHANGED <<fmtOpts, locOpts, ix, dataEncoding, relname, relnamespace>>
  BY DEF IInv, LocationBlock, Inputs, Top
<1>2. /\ 0 \in Int /\ 4 \in Int /\ 5 \in Int /\ 6 \in Int
      /\ 0 <= 0 /\ 4 <= 5 /\ 0 <= 5 /\ 5 <= 5 /\ 5 <= 6
  OBVIOUS
<1>3. headers \in Seq(Hdr) /\ Sorted(headers) /\ Bounded(headers, 0, 5)
  <2>1. headers \in Seq(Hdr) /\ Sorted(headers) /\ Bounded(headers, 0, 4)
    BY <1>1 DEF IInv
  <2>2. Bounded(headers, 0, 5)
    BY <1>2, <2>1, Widen
  <2>3. QED
    BY <2>1, <2>2
<1> DEFINE L == <<<<"X-GP-URL-HOST", "uri">>, <<"X-GP-URL-PORT", "uri">>,
                <<"X-GP-DATA-DIR", "uri">>,
                <<"X-GP-TABLE-NAME", relname>>,
                <<"X-GP-SCHEMA-NAME", relnamespace>>,
                <<"X-GP-DATA-ENCODING", dataEncoding>>,
                <<"X-GP-DATABASE-ENCODING", "db">>>>
<1>4. headers' = headers \o L
  BY DEF LocationBlock
<1>5. \A i \in 1..7 : L[i] \in Hdr /\ Rank(L[i]) = 5
  <2>1. /\ "uri" \in Values /\ "db" \in Values /\ relname \in Values
        /\ relnamespace \in Values /\ dataEncoding \in Values
    BY DEF IInv, Values, NULL
  <2>2. \A i \in 1..7 : L[i][1] \in LocationKeys /\ L[i][2] \in Values
        /\ L[i] = <<L[i][1], L[i][2]>>
    BY <2>1, SMTT(30) DEF LocationKeys
  <2>3. \A k \in LocationKeys, v \in Values : <<k, v>> \in Hdr /\ Rank(<<k, v>>) = 5
    BY FixedNames, PairIsHdr, FixedRanks
  <2>4. QED
    BY <2>2, <2>3
<1>6. L \in Seq(Hdr) /\ Sorted(L) /\ Bounded(L, 5, 5)
  <2>1. L \in [1..7 -> Hdr]
    BY <1>5
  <2>2. L \in Seq(Hdr)
    BY <2>1, FunIsSeq
  <2>3. QED
    BY <1>5, <2>2 DEF Sorted, Bounded
<1>7. headers \o L \in Seq(Hdr) /\ Sorted(headers \o L) /\ Bounded(headers \o L, 0, 5)
  BY <1>2, <1>3, <1>6, ConcatSorted, Zenon
<1>8. Bounded(headers \o L, 0, 6)
  BY <1>2, <1>7, Widen
<1>9. QED
  BY <1>1, <1>4, <1>7, <1>8 DEF IInv

(* One iteration of add_location_options_httpheader appends the option    *)
(* under its X-GP-OPTIONS- name, or raises the empty-key ERROR.           *)
LEMMA LocationOptionStep == IInv /\ LocationOption => IInv'
<1> SUFFICES ASSUME IInv, LocationOption PROVE IInv'
  OBVIOUS
<1>1. /\ pc = "options" /\ pc \in DOMAIN Top
      /\ Top[pc] = 6 /\ Top["error"] = 9 /\ "error" \in DOMAIN Top
      /\ ix \in 1..Len(locOpts) /\ ix' = ix + 1
      /\ UNCHANGED <<fmtOpts, locOpts, dataEncoding, relname, relnamespace>>
  BY DEF IInv, LocationOption, Inputs, Top
<1>2. ix' \in 1..(Len(locOpts') + 1)
  BY <1>1 DEF IInv
<1>3. /\ 0 \in Int /\ 6 \in Int /\ 9 \in Int
      /\ 0 <= 0 /\ 6 <= 9 /\ 0 <= 6 /\ 6 <= 6
  OBVIOUS
<1>4. headers \in Seq(Hdr) /\ Sorted(headers) /\ Bounded(headers, 0, 6)
  BY <1>1 DEF IInv
<1>5. locOpts[ix] \in LocKeys
  BY <1>1, ElementOfSeq DEF IInv
<1>6. CASE locOpts[ix] = Empty
  <2>1. Bounded(headers, 0, 9)
    BY <1>3, <1>4, Widen
  <2>2. QED
    BY <1>1, <1>2, <1>4, <1>6, <2>1 DEF IInv, LocationOption
<1>7. CASE locOpts[ix] /= Empty
  <2> DEFINE H == <<OptKey(locOpts[ix]), "loc">>
  <2>1. locOpts[ix] \in DOMAIN Upper
    BY <1>5, <1>7, KeysAssumption, SMTT(30)
  <2>2. H \in Hdr /\ Rank(H) = 6
    BY <2>1, OptionName, PairIsHdr, OptionRanks DEF Values
  <2>3. headers' = headers \o <<H>> /\ pc' = pc
    BY <1>4, <1>7, <2>2, AppendIsConcat DEF LocationOption
  <2>4. <<H>> \in Seq(Hdr) /\ Sorted(<<H>>) /\ Bounded(<<H>>, 6, 6)
    BY <2>2, OneHeader
  <2>5. headers \o <<H>> \in Seq(Hdr) /\ Sorted(headers \o <<H>>)
        /\ Bounded(headers \o <<H>>, 0, 6)
    BY <1>3, <1>4, <2>4, ConcatSorted, Zenon
  <2>6. QED
    BY <1>1, <1>2, <2>3, <2>5 DEF IInv
<1>8. QED
  BY <1>6, <1>7

(* The end of the LOCATION options loop changes only pc.                  *)
LEMMA LocationOptionsDoneStep == IInv /\ LocationOptionsDone => IInv'
  BY DEF IInv, LocationOptionsDone, Inputs, Top
(* The filter headers are in the filter group, in order.                  *)
LEMMA FilterHeadersSorted ==
  FilterHeaders \in Seq(Hdr) /\ Sorted(FilterHeaders) /\ Bounded(FilterHeaders, 8, 8)
<1>1. /\ <<"X-GP-FILTER", "filter">> \in Hdr /\ Rank(<<"X-GP-FILTER", "filter">>) = 8
      /\ <<"X-GP-HAS-FILTER", "1">> \in Hdr /\ Rank(<<"X-GP-HAS-FILTER", "1">>) = 8
      /\ <<"X-GP-HAS-FILTER", "0">> \in Hdr /\ Rank(<<"X-GP-HAS-FILTER", "0">>) = 8
  BY FixedNames, PairIsHdr, FixedRanks DEF Values
<1>2. CASE filter
  <2>1. FilterHeaders \in [1..2 -> Hdr]
    BY <1>1, <1>2 DEF FilterHeaders
  <2>2. QED
    BY <1>1, <1>2, <2>1, FunIsSeq DEF FilterHeaders, Sorted, Bounded
<1>3. CASE ~filter
  <2>1. 8 \in Int
    OBVIOUS
  <2>2. QED
    BY <1>1, <1>3, <2>1, OneHeader DEF FilterHeaders
<1>4. QED
  BY <1>2, <1>3

(* The tail: the full URI, the filter headers, and Connection: close,      *)
(* which churl_headers_override appends since no header has that name yet. *)
LEMMA TailStep == IInv /\ TailBlock => IInv'
<1> SUFFICES ASSUME IInv, TailBlock PROVE IInv'
  OBVIOUS
<1>1. /\ Top[pc] = 6 /\ pc' = "done" /\ Top[pc'] = 9 /\ pc' \in DOMAIN Top
      /\ UNCHANGED <<fmtOpts, locOpts, ix, dataEncoding, relname, relnamespace>>
  BY DEF IInv, TailBlock, Inputs, Top
<1>2. /\ 0 \in Int /\ 6 \in Int /\ 7 \in Int /\ 8 \in Int /\ 9 \in Int
      /\ 0 <= 0 /\ 6 <= 7 /\ 7 <= 7 /\ 7 <= 8 /\ 8 <= 8 /\ 8 <= 9 /\ 9 <= 9
      /\ 0 <= 7 /\ 0 <= 8 /\ 0 <= 9
  OBVIOUS
<1>3. headers \in Seq(Hdr) /\ Sorted(headers) /\ Bounded(headers, 0, 6)
  BY <1>1 DEF IInv
<1> DEFINE U == <<<<"X-GP-URI", "uri">>>>
           X == (headers \o U) \o FilterHeaders
           C == <<"Connection", "close">>
<1>4. /\ U \in Seq(Hdr) /\ Sorted(U) /\ Bounded(U, 7, 7)
      /\ C \in Hdr /\ Rank(C) = 9
  <2>1. <<"X-GP-URI", "uri">> \in Hdr /\ Rank(<<"X-GP-URI", "uri">>) = 7
        /\ C \in Hdr /\ Rank(C) = 9
    BY FixedNames, PairIsHdr, FixedRanks DEF Values
  <2>2. QED
    BY <1>2, <2>1, OneHeader, SMTT(30)
<1>5. headers \o U \in Seq(Hdr) /\ Sorted(headers \o U) /\ Bounded(headers \o U, 0, 7)
  <2>1. Bounded(headers, 0, 7)
    BY <1>2, <1>3, Widen
  <2>2. QED
    BY <1>2, <1>3, <1>4, <2>1, ConcatSorted, Zenon
<1>6. X \in Seq(Hdr) /\ Sorted(X) /\ Bounded(X, 0, 8)
  <2>1. Bounded(headers \o U, 0, 8)
    BY <1>2, <1>5, Widen
  <2>2. QED
    BY <1>2, <1>5, <2>1, FilterHeadersSorted, ConcatSorted, Zenon
<1>7. ~\E i \in DOMAIN X : X[i][1] = "Connection"
  <2>1. \A i \in DOMAIN X : Rank(X[i]) <= 8
    BY <1>6 DEF Bounded
  <2>2. QED
    BY <2>1, ConnectionRank
<1>8. headers' = X \o <<C>>
  <2>1. headers' = Append(X, C)
    BY <1>7 DEF TailBlock, Override
  <2>2. QED
    BY <1>4, <1>6, <2>1, AppendIsConcat
<1>9. X \o <<C>> \in Seq(Hdr) /\ Sorted(X \o <<C>>) /\ Bounded(X \o <<C>>, 0, 9)
  <2>1. <<C>> \in Seq(Hdr) /\ Sorted(<<C>>) /\ Bounded(<<C>>, 9, 9)
    BY <1>2, <1>4, OneHeader
  <2>2. Bounded(X, 0, 9)
    BY <1>2, <1>6, Widen
  <2>3. QED
    BY <1>2, <1>6, <2>1, <2>2, ConcatSorted, Zenon
<1>10. QED
  BY <1>1, <1>8, <1>9 DEF IInv

(* Every step of build_http_headers keeps the invariant.                   *)
LEMMA NextIInv == IInv /\ [Next]_vars => IInv'
<1> SUFFICES ASSUME IInv, [Next]_vars PROVE IInv'
  OBVIOUS
<1>1. CASE UNCHANGED vars
  BY <1>1 DEF vars, IInv
<1>2. QED
  BY <1>1, FormatStep, ProjectionStep, SessionStep, LocationStep,
     LocationOptionStep, LocationOptionsDoneStep, TailStep DEF Next

-----------------------------------------------------------------------------
(***************************************************************************)
(* build_http_headers composes its headers in the group order of spec.md   *)
(* 4.3 (format, schema, projection, session, alignment, location,          *)
(* LOCATION options, URI, filter, Connection) at every point of the        *)
(* build, whatever the relation, user, options and filter, so an ERROR     *)
(* part-way leaves a prefix of that order.                                 *)
(***************************************************************************)
THEOREM OrderSafe == Spec => []HeaderGroupsInSpecOrder
<1>1. IInv => HeaderGroupsInSpecOrder
  BY DEF IInv, Sorted, HeaderGroupsInSpecOrder
<1>2. QED
  BY <1>1, InitIInv, NextIInv, PTL DEF Spec

(***************************************************************************)
(* build_http_headers keeps its state in its types: pc is one of its       *)
(* blocks, the options index stays within the options list, and every      *)
(* header is a fixed or X-GP-OPTIONS- name with one of the values.         *)
(***************************************************************************)
THEOREM TypeCorrect == Spec => []TypeOK
<1>1. IInv => TypeOK
  <2> SUFFICES ASSUME IInv PROVE TypeOK
    OBVIOUS
  <2>1. pc \in {"format", "projection", "session", "location", "options",
                "tail", "done", "error"}
    BY DEF IInv, Top
  <2>2. ix \in 1..(MaxOpts + 1)
    BY KeysAssumption DEF IInv
  <2>3. headers \in Seq((FixedKeys \cup OptionKeys) \X Values)
    BY DEF IInv, Hdr
  <2>4. QED
    BY <2>1, <2>2, <2>3 DEF IInv, TypeOK
<1>2. QED
  BY <1>1, InitIInv, NextIInv, PTL DEF Spec
==============================================================================
