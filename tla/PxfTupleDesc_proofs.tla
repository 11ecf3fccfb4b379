------------------------- MODULE PxfTupleDesc_proofs -------------------------
(***************************************************************************)
(* Type correctness of add_tuple_desc_httpheader, for every number of      *)
(* attributes, every set of type OIDs and every set of declared type       *)
(* parameters.                                                             *)
(*                                                                         *)
(* TypeOK bounds the attribute index of every header by NAtts.  That is    *)
(* not inductive as it stands: attrIx only stays in 0..NAtts because it    *)
(* counts attributes already looked at, attrIx <= i - 1, and the headers   *)
(* appended must be known to be a sequence of well-formed tuples.  IInv    *)
(* states both.                                                            *)
(***************************************************************************)
EXTENDS PxfTupleDesc, SeqFilter_proofs, TLAPS

(* A header <<key, attrIx, k, value>>: the type code and type name of an   *)
(* attribute are one of its type OIDs.                                     *)
HeaderTuple ==
  {h \in HeaderKeys \X (0..NAtts) \X Nat \X Int :
     h[1] \in {"TYPECODE", "TYPENAME"} => h[4] \in TypeIds}

IInv ==
  /\ attrs \in [1..NAtts -> AttrSet]
  /\ i \in 1..(NAtts + 1)
  /\ attrIx \in 0..(i - 1)
  /\ headers \in Seq(HeaderTuple)
  /\ done \in BOOLEAN

(***************************************************************************)
(* ReportedColumnsExact only speaks of the end of the loop.  Along the way *)
(* the headers sent so far describe the attributes looked at so far: the   *)
(* NAME headers are the ones of the attributes of 1..i-1 that are not      *)
(* dropped, numbered 0, 1, ... in order, attrIx is their number, and       *)
(* X-GP-ATTRS is there only once the loop is over.                         *)
(***************************************************************************)
Looked(n) == [j \in 1..n |-> j]

KeptSoFar == Filter(Looked(i - 1), Live)

NameHeaders == {h \in Header : h[1] = "NAME"}

AttrsHeaders == {h \in Header : h[1] = "ATTRS"}

ColumnsInv ==
  /\ attrIx = Len(KeptSoFar)
  /\ Filter(headers, NameHeaders) =
       [k \in 1..attrIx |-> <<"NAME", k - 1, 0, KeptSoFar[k]>>]
  /\ Filter(headers, AttrsHeaders) =
       IF done THEN <<<<"ATTRS", 0, 0, attrIx>>>> ELSE << >>
  /\ done => i = NAtts + 1

(***************************************************************************)
(* What the modifier headers of each reported index are along the way: for *)
(* the ix-th attribute kept so far, X-GP-ATTR-TYPEMOD<ix>-<m> carries the   *)
(* values of the switch on atttypid in order and the COUNT header their    *)
(* number when there is one; no index not yet reported has any.            *)
(***************************************************************************)
ModsSent(ix, v) == [m \in 1..Len(v) |-> <<"TYPEMOD", ix, m - 1, v[m]>>]

CountSent(ix, v) ==
  IF v = << >> THEN << >> ELSE <<<<"TYPEMOD-COUNT", ix, 0, Len(v)>>>>

ModifiersInv ==
  \A ix \in 0..NAtts :
    /\ Filter(headers, ModHeaders(ix)) =
         IF ix < attrIx
         THEN ModsSent(ix, TypmodValues(attrs[KeptSoFar[ix + 1]])) ELSE << >>
    /\ Filter(headers, CountHeaders(ix)) =
         IF ix < attrIx
         THEN CountSent(ix, TypmodValues(attrs[KeptSoFar[ix + 1]])) ELSE << >>

(***************************************************************************)
(* An attribute that is not dropped has one of the type OIDs and an        *)
(* integer atttypmod: -1, or what the typmodin function of its type        *)
(* stores for the declared parameters.                                     *)
(***************************************************************************)
LEMMA AttributeFacts ==
  ASSUME NEW a \in AttrSet, ~a.attisdropped
  PROVE  a.atttypid \in TypeIds /\ a.atttypmod \in Int
<1>1. PICK t \in TypeIds : a \in Attribute(t)
  BY DEF AttrSet, DroppedAttribute
<1>2. PICK d \in Declared(t) : a.atttypid = t /\ a.atttypmod = StoredTypmod(t, d)
  BY <1>1 DEF Attribute
<1>3. StoredTypmod(t, d) \in Int
  <2>1. CASE d = << >>
    BY <2>1 DEF StoredTypmod
  <2>2. CASE d /= << >> /\ t \in NumericOids
    <3>1. PICK p \in Params, s \in Params : d = <<p, s>>
      BY <2>2, SMTT(30) DEF Declared, NumericOids, CharOids, BitTimeOids, IntervalOids
    <3>2. StoredTypmod(t, d) = d[1] * TwoTo16 + d[2] + VARHDRSZ
      BY <2>2, SMTT(30) DEF StoredTypmod, NumericOids, CharOids, BitTimeOids
    <3> QED  BY <3>1, <3>2, ParamsAssumption DEF TwoTo16, VARHDRSZ
  <2>3. CASE d /= << >> /\ t \notin NumericOids
    <3>1. t \in CharOids \cup BitTimeOids \cup IntervalOids
      BY <2>3 DEF Declared
    <3>2. PICK n \in Params : d = <<n>>
      BY <2>3, <3>1 DEF Declared
    <3>3. StoredTypmod(t, d) \in {d[1] + VARHDRSZ, d[1],
                                   INTERVAL_FULL_RANGE * TwoTo16 + d[1]}
      BY <2>3 DEF StoredTypmod, NumericOids, CharOids, BitTimeOids
    <3> QED  BY <3>2, <3>3, ParamsAssumption
              DEF TwoTo16, VARHDRSZ, INTERVAL_FULL_RANGE
  <2> QED  BY <2>1, <2>2, <2>3
<1> QED  BY <1>2, <1>3

(* The modifiers the switch on atttypid sends are integers.                *)
LEMMA TypmodValuesType ==
  ASSUME NEW a, a.atttypmod \in Int
  PROVE  TypmodValues(a) \in Seq(Int)
<1> DEFINE m == a.atttypmod
<1>1. High16(m) \in Int /\ Low16(m) \in Int /\ Low16(m - VARHDRSZ) \in Int
  BY DEF High16, Low16, TwoTo16, VARHDRSZ
<1> QED  BY <1>1 DEF TypmodValues, VARHDRSZ

(***************************************************************************)
(* The headers of one reported attribute are well-formed: the type code    *)
(* and type name carry atttypid, and the modifier positions count from 0.  *)
(***************************************************************************)
LEMMA AttributeHeadersType ==
  ASSUME NEW a \in AttrSet, ~a.attisdropped, NEW ix \in 0..NAtts,
         NEW ordinal \in Nat
  PROVE  AttributeHeaders(a, ix, ordinal) \in Seq(HeaderTuple)
<1> DEFINE v == TypmodValues(a)
           mods == [k \in 1..Len(v) |-> <<"TYPEMOD", ix, k - 1, v[k]>>]
<1>1. a.atttypid \in TypeIds /\ a.atttypmod \in Int
  BY AttributeFacts
<1>2. v \in Seq(Int)
  BY <1>1, TypmodValuesType
<1>7. a.atttypid \in Int
  <2>1. a.atttypid \in Nat
    BY <1>1, TypeIdsAssumption, Zenon
  <2> QED  BY <2>1
<1>3. << <<"NAME", ix, 0, ordinal>>,
         <<"TYPECODE", ix, 0, a.atttypid>>,
         <<"TYPENAME", ix, 0, a.atttypid>> >> \in Seq(HeaderTuple)
  <2>1. <<"NAME", ix, 0, ordinal>> \in HeaderTuple
    BY DEF HeaderTuple, HeaderKeys
  <2>2. <<"TYPECODE", ix, 0, a.atttypid>> \in HeaderTuple
    <3>1. <<"TYPECODE", ix, 0, a.atttypid>> \in HeaderKeys \X (0..NAtts) \X Nat \X Int
      BY <1>7 DEF HeaderKeys
    <3> QED  BY <1>1, <3>1, Zenon DEF HeaderTuple
  <2>3. <<"TYPENAME", ix, 0, a.atttypid>> \in HeaderTuple
    <3>1. <<"TYPENAME", ix, 0, a.atttypid>> \in HeaderKeys \X (0..NAtts) \X Nat \X Int
      BY <1>7 DEF HeaderKeys
    <3> QED  BY <1>1, <3>1, Zenon DEF HeaderTuple
  <2> QED  BY <2>1, <2>2, <2>3
<1>4. <<"TYPEMOD-COUNT", ix, 0, Len(v)>> \in HeaderTuple
  BY <1>2 DEF HeaderTuple, HeaderKeys
<1>5. mods \in Seq(HeaderTuple)
  BY <1>2 DEF HeaderTuple, HeaderKeys
<1>6. (IF v = << >> THEN << >> ELSE <<<<"TYPEMOD-COUNT", ix, 0, Len(v)>>>> \o mods)
        \in Seq(HeaderTuple)
  BY <1>4, <1>5
<1> QED  BY <1>3, <1>6 DEF AttributeHeaders

(* The headers of one reported attribute: NAME first, then headers of the  *)
(* other families, all under the attribute's index.                        *)
LEMMA AttributeHeadersShape ==
  ASSUME NEW a \in AttrSet, ~a.attisdropped, NEW ix \in 0..NAtts,
         NEW ordinal \in Nat
  PROVE  LET h == AttributeHeaders(a, ix, ordinal) IN
         /\ Len(h) >= 1
         /\ h[1] = <<"NAME", ix, 0, ordinal>>
         /\ \A n \in 2..Len(h) :
              h[n][1] \in {"TYPECODE", "TYPENAME", "TYPEMOD-COUNT", "TYPEMOD"}
         /\ \A n \in 1..Len(h) : h[n][2] = ix
<1> DEFINE v == TypmodValues(a)
           mods == [k \in 1..Len(v) |-> <<"TYPEMOD", ix, k - 1, v[k]>>]
           front == << <<"NAME", ix, 0, ordinal>>,
                       <<"TYPECODE", ix, 0, a.atttypid>>,
                       <<"TYPENAME", ix, 0, a.atttypid>> >>
           rest == IF v = << >> THEN << >>
                   ELSE <<<<"TYPEMOD-COUNT", ix, 0, Len(v)>>>> \o mods
<1>1. v \in Seq(Int)
  BY AttributeFacts, TypmodValuesType
<1>2. /\ rest \in Seq(HeaderKeys \X {ix} \X Int \X Int)
      /\ \A n \in 1..Len(rest) : rest[n][1] \in {"TYPEMOD-COUNT", "TYPEMOD"}
      /\ \A n \in 1..Len(rest) : rest[n][2] = ix
  <2>1. CASE v = << >>
    BY <2>1
  <2>2. CASE v /= << >>
    <3>1. mods \in Seq(HeaderKeys \X {ix} \X Int \X Int)
      BY <1>1 DEF HeaderKeys
    <3> QED  BY <1>1, <2>2, <3>1 DEF HeaderKeys
  <2> QED  BY <2>1, <2>2
<1>3. AttributeHeaders(a, ix, ordinal) = front \o rest
  BY DEF AttributeHeaders
<1> HIDE DEF rest
<1>4. /\ Len(front \o rest) = 3 + Len(rest)
      /\ \A n \in 1..3 : (front \o rest)[n] = front[n]
      /\ \A n \in 4..(3 + Len(rest)) : (front \o rest)[n] = rest[n - 3]
  BY <1>2
<1>5. \A n \in 2..(3 + Len(rest)) :
        /\ (front \o rest)[n][1] \in
             {"TYPECODE", "TYPENAME", "TYPEMOD-COUNT", "TYPEMOD"}
        /\ (front \o rest)[n][2] = ix
  <2> SUFFICES ASSUME NEW n \in 2..(3 + Len(rest))
               PROVE  /\ (front \o rest)[n][1] \in
                            {"TYPECODE", "TYPENAME", "TYPEMOD-COUNT", "TYPEMOD"}
                      /\ (front \o rest)[n][2] = ix
    OBVIOUS
  <2>1. CASE n <= 3
    BY <1>4, <2>1
  <2>2. CASE n > 3
    <3>1. n - 3 \in 1..Len(rest)
      BY <2>2, <1>2
    <3> QED  BY <1>2, <1>4, <3>1, SMTT(30)
  <2> QED  BY <2>1, <2>2
<1>6. (front \o rest)[1] = <<"NAME", ix, 0, ordinal>>
      /\ Len(front \o rest) >= 1
  BY <1>2, <1>4
<1> HIDE DEF front, AttributeHeaders
<1> QED  BY <1>3, <1>4, <1>5, <1>6, SMTT(30)

(* What one reported attribute adds to the NAME and ATTRS families.       *)
LEMMA AttributeHeadersFilter ==
  ASSUME NEW a \in AttrSet, ~a.attisdropped, NEW ix \in 0..NAtts,
         NEW ordinal \in Nat
  PROVE  /\ Filter(AttributeHeaders(a, ix, ordinal), NameHeaders) =
              <<<<"NAME", ix, 0, ordinal>>>>
         /\ Filter(AttributeHeaders(a, ix, ordinal), AttrsHeaders) = << >>
<1> DEFINE h == AttributeHeaders(a, ix, ordinal)
<1>1. h \in Seq(HeaderTuple)
  BY AttributeHeadersType
<1>2. HeaderTuple \subseteq Header
  BY DEF HeaderTuple, Header
<1>3. /\ Len(h) >= 1
      /\ h[1] = <<"NAME", ix, 0, ordinal>>
      /\ \A n \in 2..Len(h) :
           h[n][1] \in {"TYPECODE", "TYPENAME", "TYPEMOD-COUNT", "TYPEMOD"}
  BY AttributeHeadersShape
<1> HIDE DEF h
<1>4. h[1] \in NameHeaders
  BY <1>1, <1>2, <1>3, SMTT(30) DEF NameHeaders
<1>5. \A n \in 2..Len(h) : h[n] \notin NameHeaders
  BY <1>3 DEF NameHeaders
<1>6. \A n \in 1..Len(h) : h[n] \notin AttrsHeaders
  <2>1. h[1][1] = "NAME"
    BY <1>3
  <2> QED  BY <1>3, <2>1 DEF AttrsHeaders
<1>7. Filter(h, NameHeaders) = <<h[1]>>
  BY <1>1, <1>3, <1>4, <1>5, FilterFirstOnly, SMTT(30)
<1>8. Filter(h, AttrsHeaders) = << >>
  BY <1>1, <1>6, FilterNone
<1> QED  BY <1>3, <1>7, <1>8 DEF h

(***************************************************************************)
(* The declared parameters fit the 16-bit halves of atttypmod that the      *)
(* switch on atttypid extracts with >> 16 and & 0xffff: the precision and  *)
(* the scale plus VARHDRSZ of numeric, and the precision of interval.      *)
(* PostgreSQL itself keeps numeric precision to 1000 and interval          *)
(* precision to 6.                                                         *)
(***************************************************************************)
ParamsFit == \A n \in Params : n < TwoTo16 - VARHDRSZ

(* The switch on atttypid decodes atttypmod back to the declared           *)
(* parameters, when they fit.                                              *)
LEMMA TypmodRoundTrip ==
  ASSUME ParamsFit, NEW a \in AttrSet, ~a.attisdropped
  PROVE  TypmodValues(a) = a.decl
<1>1. PICK t \in TypeIds : a \in Attribute(t)
  BY DEF AttrSet, DroppedAttribute
<1>2. PICK d \in Declared(t) :
        a.atttypid = t /\ a.atttypmod = StoredTypmod(t, d) /\ a.decl = d
  BY <1>1 DEF Attribute
<1> DEFINE m == a.atttypmod
<1>3. CASE d = << >>
  BY <1>2, <1>3 DEF StoredTypmod, TypmodValues
<1>4. CASE d /= << >> /\ t \in NumericOids
  <2>1. PICK p \in Params, s \in Params : d = <<p, s>>
    BY <1>4, SMTT(30) DEF Declared, NumericOids, CharOids, BitTimeOids, IntervalOids
  <2>2. p \in Nat /\ s \in Nat /\ p < 65532 /\ s < 65532
    BY <2>1, ParamsAssumption DEF ParamsFit, TwoTo16, VARHDRSZ
  <2>3. m = p * 65536 + s + 4
    BY <1>2, <1>4, <2>1 DEF StoredTypmod, TwoTo16, VARHDRSZ, NumericOids, CharOids, BitTimeOids, IntervalOids
  <2>4. High16(m) = p /\ Low16(m - VARHDRSZ) = s /\ ~(m <= -1)
    BY <2>2, <2>3 DEF High16, Low16, TwoTo16, VARHDRSZ
  <2> HIDE DEF High16, Low16
  <2>5. TypmodValues(a) = <<High16(m), Low16(m - VARHDRSZ)>>
    BY <1>2, <1>4, <2>4, SMTT(60) DEF TypmodValues, NumericOids, CharOids, BitTimeOids, IntervalOids
  <2> QED  BY <1>2, <2>1, <2>4, <2>5
<1>5. CASE d /= << >> /\ t \in CharOids
  <2>1. PICK n \in Params : d = <<n>>
    BY <1>5 DEF Declared, NumericOids, CharOids
  <2>2. t \notin NumericOids /\ m = n + VARHDRSZ /\ n \in Nat
    BY <1>2, <1>5, <2>1, ParamsAssumption DEF StoredTypmod, NumericOids, CharOids, BitTimeOids, IntervalOids
  <2>3. ~(m <= -1)
    BY <2>2 DEF VARHDRSZ
  <2>4. TypmodValues(a) = <<m - VARHDRSZ>>
    BY <1>2, <1>5, <2>3, SMTT(30) DEF TypmodValues, NumericOids, CharOids, BitTimeOids, IntervalOids
  <2> QED  BY <1>2, <2>1, <2>2, <2>4 DEF VARHDRSZ
<1>6. CASE d /= << >> /\ t \in BitTimeOids
  <2>1. PICK n \in Params : d = <<n>>
    BY <1>6 DEF Declared, NumericOids, BitTimeOids
  <2>2. t \notin NumericOids \cup CharOids /\ m = n /\ n \in Nat
    BY <1>2, <1>6, <2>1, ParamsAssumption
    DEF StoredTypmod, NumericOids, CharOids, BitTimeOids, IntervalOids
  <2> QED  BY <1>2, <2>1, <2>2, <1>6, SMTT(30) DEF TypmodValues, NumericOids, CharOids, BitTimeOids, IntervalOids
<1>7. CASE d /= << >> /\ t \in IntervalOids
  <2>1. PICK n \in Params : d = <<n>>
    BY <1>7 DEF Declared, NumericOids, IntervalOids
  <2>2. n \in Nat /\ n < 65532
    BY <2>1, ParamsAssumption DEF ParamsFit, TwoTo16, VARHDRSZ
  <2>3. t \notin NumericOids \cup CharOids \cup BitTimeOids
        /\ m = 32767 * 65536 + n
    BY <1>2, <1>7, <2>1
    DEF StoredTypmod, NumericOids, CharOids, BitTimeOids, IntervalOids,
        INTERVAL_FULL_RANGE, TwoTo16
  <2>4. Low16(m) = n /\ ~(m <= -1)
    BY <2>2, <2>3 DEF Low16, TwoTo16
  <2> QED  BY <1>2, <2>1, <2>3, <2>4, <1>7 DEF TypmodValues, NumericOids, CharOids, BitTimeOids, IntervalOids
<1>8. CASE d /= << >> /\ t \notin NumericOids \cup CharOids \cup BitTimeOids
                      \cup IntervalOids
  BY <1>2, <1>8 DEF Declared
<1> QED  BY <1>3, <1>4, <1>5, <1>6, <1>7, <1>8

(* What one reported attribute adds to the TYPEMOD and TYPEMOD-COUNT      *)
(* families of an index: its modifiers and their count under its own       *)
(* index, nothing under any other.                                         *)
LEMMA AttributeHeadersMods ==
  ASSUME NEW a \in AttrSet, ~a.attisdropped, NEW ix \in 0..NAtts,
         NEW ordinal \in Nat, NEW jx
  PROVE  /\ Filter(AttributeHeaders(a, ix, ordinal), ModHeaders(jx)) =
              IF jx = ix THEN ModsSent(ix, TypmodValues(a)) ELSE << >>
         /\ Filter(AttributeHeaders(a, ix, ordinal), CountHeaders(jx)) =
              IF jx = ix THEN CountSent(ix, TypmodValues(a)) ELSE << >>
<1> DEFINE h == AttributeHeaders(a, ix, ordinal)
<1>1. h \in Seq(HeaderTuple)
  BY AttributeHeadersType
<1>4. \A n \in 1..Len(h) : h[n][2] = ix
  BY AttributeHeadersShape
<1>2. CASE jx /= ix
  <2>1. \A n \in 1..Len(h) : h[n] \notin ModHeaders(jx)
    BY <1>4, <1>2 DEF ModHeaders
  <2>2. \A n \in 1..Len(h) : h[n] \notin CountHeaders(jx)
    BY <1>4, <1>2 DEF CountHeaders
  <2> HIDE DEF h
  <2>3. Filter(h, ModHeaders(jx)) = << >>
    BY <1>1, <2>1, FilterNone
  <2>4. Filter(h, CountHeaders(jx)) = << >>
    BY <1>1, <2>2, FilterNone
  <2> QED  BY <1>2, <2>3, <2>4 DEF h
<1>3. CASE jx = ix
  <2> DEFINE v == TypmodValues(a)
             mods == [k \in 1..Len(v) |-> <<"TYPEMOD", ix, k - 1, v[k]>>]
             front == << <<"NAME", ix, 0, ordinal>>,
                         <<"TYPECODE", ix, 0, a.atttypid>>,
                         <<"TYPENAME", ix, 0, a.atttypid>> >>
             C == <<"TYPEMOD-COUNT", ix, 0, Len(v)>>
             MH == ModHeaders(ix)
             CH == CountHeaders(ix)
  <2>1. v \in Seq(Int)
    BY AttributeFacts, TypmodValuesType
  <2>2. a.atttypid \in Int
    <3>1. a.atttypid \in Nat
      BY AttributeFacts, TypeIdsAssumption, Zenon
    <3> QED  BY <3>1
  <2>3. front \in Seq(Header) /\ mods \in Seq(Header) /\ C \in Header
    BY <2>1, <2>2 DEF Header, HeaderKeys
  <2>4. \A n \in 1..Len(front) : front[n] \notin MH /\ front[n] \notin CH
    BY DEF ModHeaders, CountHeaders
  <2>5. \A n \in 1..Len(mods) : mods[n] \in MH /\ mods[n] \notin CH
    BY <2>3 DEF ModHeaders, CountHeaders
  <2>6. C \notin MH /\ C \in CH
    BY <2>3 DEF ModHeaders, CountHeaders
  <2>7. h = front \o (IF v = << >> THEN << >> ELSE <<C>> \o mods)
    BY DEF AttributeHeaders
  <2>8. mods = ModsSent(ix, v)
    BY DEF ModsSent
  <2> HIDE DEF front, mods, C, MH, CH, h
  <2>9. Filter(front, MH) = << >> /\ Filter(front, CH) = << >>
    BY <2>3, <2>4, FilterNone
  <2>10. CASE v = << >>
    <3>1. h = front
      BY <2>3, <2>7, <2>10
    <3>2. ModsSent(ix, v) = << >> /\ CountSent(ix, v) = << >>
      BY <2>10 DEF ModsSent, CountSent
    <3> QED  BY <1>3, <2>9, <3>1, <3>2 DEF MH, CH, h
  <2>11. CASE v /= << >>
    <3> DEFINE Cs == <<C>>
               R == Cs \o mods
    <3>1. Cs \in Seq(Header) /\ mods \in Seq(Header) /\ R \in Seq(Header)
      BY <2>3
    <3>2. Filter(Cs, MH) = << >> /\ Filter(Cs, CH) = Cs
      BY <2>3, <2>6, FilterSingleton
    <3> HIDE DEF R, Cs
    <3>3. Filter(mods, MH) = mods /\ Filter(mods, CH) = << >>
      <4>1. Filter(mods, MH) = mods
        BY <2>3, <2>5, FilterAll
      <4>2. Filter(mods, CH) = << >>
        BY <2>3, <2>5, FilterNone
      <4> QED  BY <4>1, <4>2
    <3>4. Filter(R, MH) = mods /\ Filter(R, CH) = Cs
      <4>1. Filter(Cs \o mods, MH) = Filter(Cs, MH) \o Filter(mods, MH)
        BY ONLY <3>1, FilterConcat
      <4>2. Filter(Cs \o mods, CH) = Filter(Cs, CH) \o Filter(mods, CH)
        BY ONLY <3>1, FilterConcat
      <4> QED  BY <2>3, <3>1, <3>2, <3>3, <4>1, <4>2 DEF R
    <3>5. Filter(h, MH) = mods /\ Filter(h, CH) = Cs
      <4>1. h = front \o R
        BY <2>7, <2>11 DEF R, Cs
      <4>0. front \in Seq(Header) /\ R \in Seq(Header)
        BY <2>3, <3>1
      <4>2. Filter(front \o R, MH) = Filter(front, MH) \o Filter(R, MH)
        BY ONLY <4>0, FilterConcat
      <4>3. Filter(front \o R, CH) = Filter(front, CH) \o Filter(R, CH)
        BY ONLY <4>0, FilterConcat
      <4> QED  BY <2>3, <2>9, <3>4, <4>1, <4>2, <4>3
    <3>6. CountSent(ix, v) = Cs
      BY <2>11 DEF CountSent, C, Cs
    <3> QED  BY <1>3, <2>8, <3>5, <3>6 DEF MH, CH, h, Cs
  <2> QED  BY <2>10, <2>11
<1> QED  BY <1>2, <1>3

-----------------------------------------------------------------------------
LEMMA InitIInv == Init => IInv
<1> SUFFICES ASSUME Init PROVE IInv
  OBVIOUS
<1>1. i \in 1..(NAtts + 1) /\ attrIx \in 0..(i - 1)
  BY NAttsAssumption DEF Init
<1>2. headers \in Seq(HeaderTuple)
  BY DEF Init
<1> QED  BY <1>1, <1>2 DEF Init, IInv

LEMMA NextIInv == IInv /\ [Next]_vars => IInv'
<1> SUFFICES ASSUME IInv, [Next]_vars PROVE IInv'
  OBVIOUS
<1> USE NAttsAssumption DEF IInv
<1>1. CASE SkipDropped
  BY <1>1 DEF SkipDropped
<1>2. CASE ReportAttribute
  <2>1. i \in 1..NAtts /\ attrIx \in 0..NAtts
    BY <1>2 DEF ReportAttribute
  <2>2. AttributeHeaders(attrs[i], attrIx, i) \in Seq(HeaderTuple)
    BY <1>2, <2>1, AttributeHeadersType DEF ReportAttribute
  <2>3. headers' \in Seq(HeaderTuple)
    BY <1>2, <2>2 DEF ReportAttribute
  <2> QED  BY <1>2, <2>1, <2>3 DEF ReportAttribute
<1>3. CASE ReportCount
  <2>1. <<"ATTRS", 0, 0, attrIx>> \in HeaderTuple
    BY DEF HeaderTuple, HeaderKeys
  <2> QED  BY <1>3, <2>1 DEF ReportCount
<1>4. CASE UNCHANGED vars
  BY <1>4 DEF vars
<1> QED  BY <1>1, <1>2, <1>3, <1>4 DEF Next

LEMMA IInvTypeOK == IInv => TypeOK
<1> SUFFICES ASSUME IInv PROVE TypeOK
  OBVIOUS
<1> USE DEF IInv
<1>1. attrIx \in 0..NAtts
  BY NAttsAssumption
<1>2. \A n \in 1..Len(headers) :
        LET h == headers[n] IN
        /\ h[1] \in HeaderKeys
        /\ h[2] \in 0..NAtts
        /\ h[3] \in Nat
        /\ h[1] \in {"TYPECODE", "TYPENAME"} => h[4] \in TypeIds
        /\ h[4] \in Int
  <2> SUFFICES ASSUME NEW n \in 1..Len(headers)
               PROVE  LET h == headers[n] IN
                      /\ h[1] \in HeaderKeys
                      /\ h[2] \in 0..NAtts
                      /\ h[3] \in Nat
                      /\ h[1] \in {"TYPECODE", "TYPENAME"} => h[4] \in TypeIds
                      /\ h[4] \in Int
    OBVIOUS
  <2>1. headers[n] \in HeaderTuple
    OBVIOUS
  <2> QED  BY <2>1, Zenon DEF HeaderTuple
<1> QED  BY <1>1, <1>2 DEF TypeOK

-----------------------------------------------------------------------------
(* Looking at attribute i keeps it exactly when it is not dropped.         *)
LEMMA KeptSoFarStep ==
  ASSUME IInv, i \in 1..NAtts
  PROVE  Filter(Looked(i), Live) =
           IF attrs[i].attisdropped THEN KeptSoFar ELSE Append(KeptSoFar, i)
<1> DEFINE L0 == Looked(i - 1)
<1>1. L0 \in Seq(1..NAtts) /\ Looked(i) = Append(L0, i) /\ i \in 1..NAtts
  BY NAttsAssumption DEF Looked
<1>2. i \in Live <=> ~attrs[i].attisdropped
  BY <1>1 DEF Live
<1> HIDE DEF L0
<1>0. L0 \in Seq(1..NAtts) /\ i \in 1..NAtts
  BY <1>1
<1>3. Filter(Append(L0, i), Live) =
        IF i \in Live THEN Append(Filter(L0, Live), i) ELSE Filter(L0, Live)
  BY ONLY <1>0, FilterAppend, ZenonT(30)
<1> QED  BY <1>1, <1>2, <1>3 DEF KeptSoFar, L0

(* The attributes kept so far are a sequence of ordinals.                  *)
LEMMA KeptSoFarType ==
  ASSUME IInv
  PROVE  KeptSoFar \in Seq(1..NAtts)
<1>1. Looked(i - 1) \in Seq(1..NAtts)
  BY NAttsAssumption DEF IInv, Looked
<1> QED  BY <1>1, FilterType DEF KeptSoFar

LEMMA InitColumnsInv == Init => ColumnsInv
<1> SUFFICES ASSUME Init PROVE ColumnsInv
  OBVIOUS
<1>1. Looked(i - 1) = << >>
  BY DEF Init, Looked
<1>2. KeptSoFar = << >>
  BY <1>1, FilterEmpty DEF KeptSoFar
<1>3. Filter(headers, NameHeaders) = << >> /\ Filter(headers, AttrsHeaders) = << >>
  BY FilterEmpty DEF Init
<1> QED  BY <1>2, <1>3 DEF Init, ColumnsInv

LEMMA NextColumnsInv == IInv /\ ColumnsInv /\ [Next]_vars => ColumnsInv'
<1> SUFFICES ASSUME IInv, ColumnsInv, [Next]_vars PROVE ColumnsInv'
  OBVIOUS
<1> USE NAttsAssumption
<1> DEFINE K == KeptSoFar
<1>0. K \in Seq(1..NAtts) /\ headers \in Seq(HeaderTuple)
  BY KeptSoFarType DEF IInv
<1> HIDE DEF HeaderTuple, NameHeaders, AttrsHeaders
<1>1. CASE SkipDropped
  <2>1. i \in 1..NAtts /\ attrs[i].attisdropped /\ i' = i + 1
        /\ UNCHANGED <<attrs, attrIx, headers, done>>
    BY <1>1 DEF SkipDropped, IInv
  <2>2. KeptSoFar' = K
    <3>1. KeptSoFar' = Filter(Looked(i), Live)
      BY <2>1 DEF KeptSoFar, Live
    <3> QED  BY <2>1, <3>1, KeptSoFarStep
  <2>3. ~done
    BY <2>1 DEF ColumnsInv
  <2> QED  BY <2>1, <2>2, <2>3 DEF ColumnsInv
<1>2. CASE ReportAttribute
  <2>1. /\ i \in 1..NAtts /\ ~attrs[i].attisdropped /\ attrIx \in 0..NAtts
        /\ headers' = headers \o AttributeHeaders(attrs[i], attrIx, i)
        /\ attrIx' = attrIx + 1 /\ i' = i + 1 /\ UNCHANGED <<attrs, done>>
    BY <1>2, NAttsAssumption DEF ReportAttribute, IInv
  <2>2. KeptSoFar' = Append(K, i)
    <3>1. KeptSoFar' = Filter(Looked(i), Live)
      BY <2>1 DEF KeptSoFar, Live
    <3> QED  BY <2>1, <3>1, KeptSoFarStep
  <2> DEFINE AH == AttributeHeaders(attrs[i], attrIx, i)
  <2>3. /\ AH \in Seq(HeaderTuple)
        /\ Filter(AH, NameHeaders) = <<<<"NAME", attrIx, 0, i>>>>
        /\ Filter(AH, AttrsHeaders) = << >>
    <3>1. attrs[i] \in AttrSet
      BY <2>1 DEF IInv
    <3> QED  BY <2>1, <3>1, AttributeHeadersType, AttributeHeadersFilter
  <2> HIDE DEF AH
  <2>4. Filter(headers', NameHeaders) =
          Filter(headers, NameHeaders) \o <<<<"NAME", attrIx, 0, i>>>>
    <3>0. headers \in Seq(HeaderTuple) /\ AH \in Seq(HeaderTuple)
      BY <1>0, <2>3
    <3>1. Filter(headers \o AH, NameHeaders) =
            Filter(headers, NameHeaders) \o Filter(AH, NameHeaders)
      BY ONLY <3>0, FilterConcat
    <3> QED  BY <2>1, <2>3, <3>1 DEF AH
  <2>5. Filter(headers', AttrsHeaders) = Filter(headers, AttrsHeaders)
    <3>1. Filter(headers', AttrsHeaders) =
            Filter(headers, AttrsHeaders) \o << >>
      <4>0. headers \in Seq(HeaderTuple) /\ AH \in Seq(HeaderTuple)
        BY <1>0, <2>3
      <4>1. Filter(headers \o AH, AttrsHeaders) =
              Filter(headers, AttrsHeaders) \o Filter(AH, AttrsHeaders)
        BY ONLY <4>0, FilterConcat
      <4> QED  BY <2>1, <2>3, <4>1 DEF AH
    <3>2. Filter(headers, AttrsHeaders) \in Seq(HeaderTuple)
      BY <1>0, FilterType
    <3> QED  BY <3>1, <3>2
  <2>6. ~done
    BY <2>1 DEF ColumnsInv
  <2>7. Filter(headers', NameHeaders) =
          [k \in 1..attrIx' |-> <<"NAME", k - 1, 0, KeptSoFar'[k]>>]
    <3> DEFINE Kp == Append(K, i)
               F == [k \in 1..attrIx |-> <<"NAME", k - 1, 0, K[k]>>]
    <3>1. /\ attrIx \in Nat /\ Len(K) = attrIx /\ Len(Kp) = attrIx + 1
          /\ \A k \in 1..attrIx : Kp[k] = K[k]
          /\ Kp[attrIx + 1] = i
      BY <1>0, <2>1 DEF ColumnsInv
    <3> HIDE DEF Kp
    <3>2. F \o <<<<"NAME", attrIx, 0, i>>>> =
            [k \in 1..attrIx + 1 |-> <<"NAME", k - 1, 0, Kp[k]>>]
      <4>1. F \in Seq(HeaderKeys \X Int \X Int \X Int) /\ Len(F) = attrIx
        <5>1. \A k \in 1..attrIx : K[k] \in Int
          BY <1>0, <3>1
        <5>2. \A k \in 1..attrIx : <<"NAME", k - 1, 0, K[k]>> \in HeaderKeys \X Int \X Int \X Int
          BY <5>1 DEF HeaderKeys
        <5>3. F \in [1..attrIx -> HeaderKeys \X Int \X Int \X Int]
          BY <5>2
        <5> QED  BY <3>1, <5>3
      <4>2. F \o <<<<"NAME", attrIx, 0, i>>>> =
              [k \in 1..attrIx + 1 |->
                 IF k <= attrIx THEN F[k] ELSE <<"NAME", attrIx, 0, i>>]
        BY ONLY <3>1, <4>1, SMTT(30)
      <4>3. \A k \in 1..attrIx + 1 :
              (IF k <= attrIx THEN F[k] ELSE <<"NAME", attrIx, 0, i>>) =
                <<"NAME", k - 1, 0, Kp[k]>>
        BY ONLY <3>1 DEF F
      <4> HIDE DEF F
      <4> QED  BY ONLY <4>2, <4>3
    <3>3. Filter(headers, NameHeaders) = F
      BY DEF ColumnsInv
    <3> HIDE DEF F
    <3> QED  BY <2>1, <2>2, <2>4, <3>2, <3>3 DEF Kp
  <2> QED  BY <1>0, <2>1, <2>2, <2>5, <2>6, <2>7 DEF ColumnsInv
<1>3. CASE ReportCount
  <2>1. /\ i = NAtts + 1 /\ ~done
        /\ headers' = Append(headers, <<"ATTRS", 0, 0, attrIx>>)
        /\ done' /\ UNCHANGED <<attrs, i, attrIx>>
    BY <1>3 DEF ReportCount, IInv
  <2> DEFINE A == <<"ATTRS", 0, 0, attrIx>>
  <2>2. A \in HeaderTuple /\ A \in AttrsHeaders /\ A \notin NameHeaders
    BY NAttsAssumption DEF IInv, HeaderTuple, HeaderKeys, AttrsHeaders,
       NameHeaders, Header
  <2> HIDE DEF A
  <2>0. headers \in Seq(HeaderTuple) /\ A \in HeaderTuple
    BY <1>0, <2>2
  <2>3. Filter(headers', NameHeaders) = Filter(headers, NameHeaders)
    <3>1. Filter(Append(headers, A), NameHeaders) =
            IF A \in NameHeaders THEN Append(Filter(headers, NameHeaders), A)
            ELSE Filter(headers, NameHeaders)
      BY ONLY <2>0, FilterAppend
    <3> QED  BY <2>1, <2>2, <3>1 DEF A
  <2>4. Filter(headers', AttrsHeaders) = Append(Filter(headers, AttrsHeaders), A)
    <3>1. Filter(Append(headers, A), AttrsHeaders) =
            IF A \in AttrsHeaders THEN Append(Filter(headers, AttrsHeaders), A)
            ELSE Filter(headers, AttrsHeaders)
      BY ONLY <2>0, FilterAppend
    <3> QED  BY <2>1, <2>2, <3>1 DEF A
  <2>5. KeptSoFar' = K
    BY <2>1 DEF KeptSoFar, Live
  <2>6. Filter(headers, AttrsHeaders) = << >>
    BY <2>1 DEF ColumnsInv
  <2>7. Filter(headers', AttrsHeaders) = <<<<"ATTRS", 0, 0, attrIx'>>>>
    BY <2>1, <2>4, <2>6 DEF A
  <2>8. Filter(headers', NameHeaders) =
          [k \in 1..attrIx' |-> <<"NAME", k - 1, 0, KeptSoFar'[k]>>]
    BY <2>1, <2>3, <2>5 DEF ColumnsInv
  <2>9. attrIx' = Len(KeptSoFar')
    BY <2>1, <2>5 DEF ColumnsInv
  <2> QED  BY <2>1, <2>7, <2>8, <2>9 DEF ColumnsInv
<1>4. CASE UNCHANGED vars
  BY <1>4 DEF vars, ColumnsInv, KeptSoFar, Live
<1> QED  BY <1>1, <1>2, <1>3, <1>4 DEF Next

(***************************************************************************)
(* Type correctness of add_tuple_desc_httpheader: attrIx never passes the  *)
(* number of attributes, so every X-GP-ATTR header carries an index in    *)
(* 0..NAtts; its TYPECODE and TYPENAME headers carry atttypid, a type OID, *)
(* and its modifier headers integers at positions counted from 0.         *)
(***************************************************************************)
THEOREM TypeCorrect == Spec => []TypeOK
<1>1. Init => IInv
  BY InitIInv
<1>2. IInv /\ [Next]_vars => IInv'
  BY NextIInv
<1>3. IInv => TypeOK
  BY IInvTypeOK
<1> QED  BY <1>1, <1>2, <1>3, PTL DEF Spec

LEMMA ColumnsInvExact == IInv /\ ColumnsInv => ReportedColumnsExact
<1> SUFFICES ASSUME IInv, ColumnsInv, done PROVE
               /\ Len(HeadersOf("NAME")) = Len(Kept)
               /\ \A k \in 1..Len(Kept) : /\ HeadersOf("NAME")[k][2] = k - 1
                                          /\ HeadersOf("NAME")[k][4] = Kept[k]
               /\ HeadersOf("ATTRS") = <<<<"ATTRS", 0, 0, Len(Kept)>>>>
  BY DEF ReportedColumnsExact
<1>1. i = NAtts + 1
  BY DEF ColumnsInv
<1>2. KeptSoFar = Kept
  BY <1>1, NAttsAssumption DEF KeptSoFar, Looked, Kept
<1>3. HeadersOf("NAME") = Filter(headers, NameHeaders)
      /\ HeadersOf("ATTRS") = Filter(headers, AttrsHeaders)
  BY DEF HeadersOf, NameHeaders, AttrsHeaders
<1>4. Kept \in Seq(1..NAtts)
  BY <1>2, KeptSoFarType
<1> QED  BY <1>2, <1>3, <1>4 DEF ColumnsInv

(***************************************************************************)
(* The schema add_tuple_desc_httpheader sends is the relation without its  *)
(* dropped columns, for every relation: once X-GP-ATTRS is appended, the   *)
(* X-GP-ATTR-NAME headers name the attributes that are not dropped, in     *)
(* table order, under the indices 0, 1, 2, ... that attrIx gave them, and  *)
(* X-GP-ATTRS is their number.  The invariant behind it is ColumnsInv: at  *)
(* every iteration the headers describe the attributes looked at so far.   *)
(***************************************************************************)
THEOREM ColumnsExact == Spec => []ReportedColumnsExact
<1>1. Init => IInv /\ ColumnsInv
  BY InitIInv, InitColumnsInv
<1>2. IInv /\ ColumnsInv /\ [Next]_vars => (IInv /\ ColumnsInv)'
  BY NextIInv, NextColumnsInv
<1>3. IInv /\ ColumnsInv => ReportedColumnsExact
  BY ColumnsInvExact
<1> QED  BY <1>1, <1>2, <1>3, PTL DEF Spec

-----------------------------------------------------------------------------
LEMMA InitModifiersInv == Init => ModifiersInv
<1> SUFFICES ASSUME Init, NEW ix \in 0..NAtts
             PROVE  /\ Filter(headers, ModHeaders(ix)) =
                         IF ix < attrIx
                         THEN ModsSent(ix, TypmodValues(attrs[KeptSoFar[ix + 1]]))
                         ELSE << >>
                    /\ Filter(headers, CountHeaders(ix)) =
                         IF ix < attrIx
                         THEN CountSent(ix, TypmodValues(attrs[KeptSoFar[ix + 1]]))
                         ELSE << >>
  BY DEF ModifiersInv
<1>1. ~(ix < attrIx)
  BY DEF Init
<1>2. /\ Filter(headers, ModHeaders(ix)) = << >>
      /\ Filter(headers, CountHeaders(ix)) = << >>
  BY FilterEmpty DEF Init
<1> QED  BY <1>1, <1>2

LEMMA NextModifiersInv ==
  IInv /\ ColumnsInv /\ ModifiersInv /\ [Next]_vars => ModifiersInv'
<1> SUFFICES ASSUME IInv, ColumnsInv, ModifiersInv, [Next]_vars,
                    NEW ix \in 0..NAtts
             PROVE  /\ Filter(headers', ModHeaders(ix)) =
                         IF ix < attrIx'
                         THEN ModsSent(ix, TypmodValues(attrs'[KeptSoFar'[ix + 1]]))
                         ELSE << >>
                    /\ Filter(headers', CountHeaders(ix)) =
                         IF ix < attrIx'
                         THEN CountSent(ix, TypmodValues(attrs'[KeptSoFar'[ix + 1]]))
                         ELSE << >>
  BY DEF ModifiersInv
<1> USE NAttsAssumption
<1> DEFINE K == KeptSoFar
           MH == ModHeaders(ix)
           CH == CountHeaders(ix)
           OldM == Filter(headers, MH)
           OldC == Filter(headers, CH)
<1>0. K \in Seq(1..NAtts) /\ headers \in Seq(HeaderTuple)
  BY KeptSoFarType DEF IInv
<1>1. /\ OldM = IF ix < attrIx
                THEN ModsSent(ix, TypmodValues(attrs[K[ix + 1]])) ELSE << >>
      /\ OldC = IF ix < attrIx
                THEN CountSent(ix, TypmodValues(attrs[K[ix + 1]])) ELSE << >>
  BY DEF ModifiersInv
<1>2. OldM \in Seq(HeaderTuple) /\ OldC \in Seq(HeaderTuple)
  BY <1>0, FilterType
<1> HIDE DEF HeaderTuple, ModHeaders, CountHeaders, MH, CH, OldM, OldC
<1>3. CASE SkipDropped
  <2>1. i \in 1..NAtts /\ attrs[i].attisdropped /\ i' = i + 1
        /\ UNCHANGED <<attrs, attrIx, headers, done>>
    BY <1>3 DEF SkipDropped, IInv
  <2>2. KeptSoFar' = K
    <3>1. KeptSoFar' = Filter(Looked(i), Live)
      BY <2>1 DEF KeptSoFar, Live
    <3> QED  BY <2>1, <3>1, KeptSoFarStep
  <2> QED  BY <1>1, <2>1, <2>2 DEF OldM, OldC, MH, CH
<1>4. CASE ReportAttribute
  <2>1. /\ i \in 1..NAtts /\ ~attrs[i].attisdropped /\ attrIx \in 0..NAtts
        /\ headers' = headers \o AttributeHeaders(attrs[i], attrIx, i)
        /\ attrIx' = attrIx + 1 /\ i' = i + 1 /\ UNCHANGED <<attrs, done>>
    BY <1>4 DEF ReportAttribute, IInv
  <2>2. KeptSoFar' = Append(K, i)
    <3>1. KeptSoFar' = Filter(Looked(i), Live)
      BY <2>1 DEF KeptSoFar, Live
    <3> QED  BY <2>1, <3>1, KeptSoFarStep
  <2> DEFINE AH == AttributeHeaders(attrs[i], attrIx, i)
             v == TypmodValues(attrs[i])
  <2>3. /\ AH \in Seq(HeaderTuple)
        /\ Filter(AH, MH) = IF ix = attrIx THEN ModsSent(attrIx, v) ELSE << >>
        /\ Filter(AH, CH) = IF ix = attrIx THEN CountSent(attrIx, v) ELSE << >>
    <3>1. attrs[i] \in AttrSet
      BY <2>1 DEF IInv
    <3>2. AH \in Seq(HeaderTuple)
      BY <2>1, <3>1, AttributeHeadersType
    <3>3. /\ Filter(AH, ModHeaders(ix)) =
               IF ix = attrIx THEN ModsSent(attrIx, v) ELSE << >>
          /\ Filter(AH, CountHeaders(ix)) =
               IF ix = attrIx THEN CountSent(attrIx, v) ELSE << >>
      BY <2>1, <3>1, AttributeHeadersMods
    <3> QED  BY <3>2, <3>3 DEF MH, CH
  <2> HIDE DEF AH
  <2>4. Filter(headers', MH) = OldM \o Filter(AH, MH)
        /\ Filter(headers', CH) = OldC \o Filter(AH, CH)
    <3>0. headers \in Seq(HeaderTuple) /\ AH \in Seq(HeaderTuple)
      BY <1>0, <2>3
    <3>1. Filter(headers \o AH, MH) = Filter(headers, MH) \o Filter(AH, MH)
      BY ONLY <3>0, FilterConcat
    <3>2. Filter(headers \o AH, CH) = Filter(headers, CH) \o Filter(AH, CH)
      BY ONLY <3>0, FilterConcat
    <3> QED  BY <2>1, <3>1, <3>2 DEF OldM, OldC, AH
  <2>5. /\ Len(K) = attrIx
        /\ \A j \in 1..attrIx : Append(K, i)[j] = K[j]
        /\ Append(K, i)[attrIx + 1] = i
    BY <1>0, <2>1 DEF ColumnsInv
  <2>6. Filter(AH, MH) \in Seq(HeaderTuple) /\ Filter(AH, CH) \in Seq(HeaderTuple)
    BY <2>3, FilterType
  <2> HIDE DEF ModsSent, CountSent
  <2>7. CASE ix < attrIx
    <3>1. KeptSoFar'[ix + 1] = K[ix + 1]
      BY <2>2, <2>5, <2>7
    <3>2. Filter(AH, MH) = << >> /\ Filter(AH, CH) = << >>
      BY <2>3, <2>7
    <3>3. OldM \o << >> = OldM /\ OldC \o << >> = OldC
      BY <1>2
    <3>4. ix < attrIx' /\ attrs' = attrs
      BY <2>1, <2>7
    <3>5. Filter(headers', MH) = ModsSent(ix, TypmodValues(attrs'[KeptSoFar'[ix + 1]]))
          /\ Filter(headers', CH) = CountSent(ix, TypmodValues(attrs'[KeptSoFar'[ix + 1]]))
      BY <1>1, <2>4, <2>7, <3>1, <3>2, <3>3, <3>4
    <3> QED  BY <3>4, <3>5 DEF MH, CH
  <2>8. CASE ix = attrIx
    <3>1. KeptSoFar'[ix + 1] = i
      BY <2>2, <2>5, <2>8
    <3>2. OldM = << >> /\ OldC = << >>
      BY <1>1, <2>8
    <3>3. << >> \o Filter(AH, MH) = Filter(AH, MH)
          /\ << >> \o Filter(AH, CH) = Filter(AH, CH)
      BY <2>6
    <3>4. ix < attrIx' /\ attrs' = attrs
      BY <2>1, <2>8
    <3>5. Filter(headers', MH) = ModsSent(ix, TypmodValues(attrs'[KeptSoFar'[ix + 1]]))
          /\ Filter(headers', CH) = CountSent(ix, TypmodValues(attrs'[KeptSoFar'[ix + 1]]))
      BY <2>3, <2>4, <2>8, <3>1, <3>2, <3>3, <3>4
    <3> QED  BY <3>4, <3>5 DEF MH, CH
  <2>9. CASE ix > attrIx
    <3>1. OldM = << >> /\ OldC = << >>
      BY <1>1, <2>1, <2>9
    <3>2. Filter(AH, MH) = << >> /\ Filter(AH, CH) = << >>
      BY <2>3, <2>9
    <3>3. Filter(headers', MH) = << >> /\ Filter(headers', CH) = << >>
      BY <2>4, <3>1, <3>2
    <3>4. ~(ix < attrIx')
      BY <2>1, <2>9
    <3> QED  BY <3>3, <3>4 DEF MH, CH
  <2> QED  BY <2>1, <2>7, <2>8, <2>9
<1>5. CASE ReportCount
  <2>1. /\ i = NAtts + 1 /\ ~done
        /\ headers' = Append(headers, <<"ATTRS", 0, 0, attrIx>>)
        /\ done' /\ UNCHANGED <<attrs, i, attrIx>>
    BY <1>5 DEF ReportCount, IInv
  <2> DEFINE A == <<"ATTRS", 0, 0, attrIx>>
  <2>2. A \in HeaderTuple /\ A \notin MH /\ A \notin CH
    BY DEF IInv, HeaderTuple, HeaderKeys, ModHeaders, CountHeaders, MH, CH,
       Header
  <2> HIDE DEF A
  <2>0. headers \in Seq(HeaderTuple) /\ A \in HeaderTuple
    BY <1>0, <2>2
  <2>3. Filter(Append(headers, A), MH) =
          IF A \in MH THEN Append(Filter(headers, MH), A) ELSE Filter(headers, MH)
    BY ONLY <2>0, FilterAppend
  <2>4. Filter(Append(headers, A), CH) =
          IF A \in CH THEN Append(Filter(headers, CH), A) ELSE Filter(headers, CH)
    BY ONLY <2>0, FilterAppend
  <2>5. KeptSoFar' = K
    BY <2>1 DEF KeptSoFar, Live
  <2> QED  BY <1>1, <2>1, <2>2, <2>3, <2>4, <2>5 DEF A, OldM, OldC, MH, CH
<1>6. CASE UNCHANGED vars
  <2>1. KeptSoFar' = K
    BY <1>6 DEF vars, KeptSoFar, Live
  <2> QED  BY <1>1, <1>6, <2>1 DEF vars, OldM, OldC, MH, CH
<1> QED  BY <1>3, <1>4, <1>5, <1>6 DEF Next

LEMMA ModifiersInvRoundTrip ==
  ASSUME ParamsFit
  PROVE  IInv /\ ColumnsInv /\ ModifiersInv => ModifiersRoundTrip
<1> SUFFICES ASSUME IInv, ColumnsInv, ModifiersInv, done,
                    NEW k \in 1..Len(Kept)
             PROVE  LET d == attrs[Kept[k]].decl
                        mods == Filter(headers, ModHeaders(k - 1))
                        counts == Filter(headers, CountHeaders(k - 1))
                    IN  /\ Len(mods) = Len(d)
                        /\ \A m \in 1..Len(d) : mods[m][3] = m - 1
                                                /\ mods[m][4] = d[m]
                        /\ counts = IF d = << >> THEN << >>
                                    ELSE <<<<"TYPEMOD-COUNT", k - 1, 0, Len(d)>>>>
  BY SMTT(30) DEF ModifiersRoundTrip
<1> USE NAttsAssumption
<1>1. i = NAtts + 1 /\ KeptSoFar = Kept /\ attrIx = Len(Kept)
  <2>1. i = NAtts + 1
    BY DEF ColumnsInv
  <2> QED  BY <2>1 DEF KeptSoFar, Looked, Kept, ColumnsInv
<1>2. Kept \in Seq((1..NAtts) \cap Live)
  <2>1. Looked(i - 1) \in Seq(1..NAtts)
    BY <1>1 DEF Looked
  <2> QED  BY <1>1, <2>1, FilterInSet DEF KeptSoFar
<1>3. k - 1 \in 0..NAtts /\ k - 1 < attrIx /\ Kept[k] \in (1..NAtts) \cap Live
  BY <1>1, <1>2 DEF IInv
<1> DEFINE a == attrs[Kept[k]]
<1>4. a \in AttrSet /\ ~a.attisdropped
  BY <1>3 DEF IInv, Live
<1>5. TypmodValues(a) = a.decl
  BY <1>4, TypmodRoundTrip
<1>6. /\ Filter(headers, ModHeaders(k - 1)) = ModsSent(k - 1, TypmodValues(a))
      /\ Filter(headers, CountHeaders(k - 1)) = CountSent(k - 1, TypmodValues(a))
  <2>1. KeptSoFar[(k - 1) + 1] = Kept[k]
    BY <1>1
  <2> QED  BY <1>3, <2>1 DEF ModifiersInv
<1>7. a.decl \in Seq(Int)
  BY <1>4, <1>5, AttributeFacts, TypmodValuesType
<1>8. /\ Filter(headers, ModHeaders(k - 1)) = ModsSent(k - 1, a.decl)
      /\ Filter(headers, CountHeaders(k - 1)) = CountSent(k - 1, a.decl)
  BY <1>5, <1>6
<1> DEFINE d == a.decl
           M == Filter(headers, ModHeaders(k - 1))
<1>9. M = [m \in 1..Len(d) |-> <<"TYPEMOD", k - 1, m - 1, d[m]>>]
  BY <1>8 DEF ModsSent
<1> HIDE DEF a, d, M
<1>10. Len(d) \in Nat
  BY <1>7
<1>11. Len(M) = Len(d) /\ \A m \in 1..Len(d) : M[m][3] = m - 1 /\ M[m][4] = d[m]
  BY <1>9, <1>10
<1> QED  BY <1>8, <1>11 DEF CountSent, a, d, M

(***************************************************************************)
(* The type modifiers add_tuple_desc_httpheader sends survive the trip,    *)
(* for every relation and every declared parameter that fits the 16-bit    *)
(* fields the switch on atttypmod extracts (numeric precision and scale,   *)
(* interval precision; PostgreSQL bounds both far below): once X-GP-ATTRS  *)
(* is appended, the X-GP-ATTR-TYPEMOD<k>-<m> headers of every reported     *)
(* attribute carry its declared parameters in order, and                   *)
(* X-GP-ATTR-TYPEMOD<k>-COUNT is sent exactly when there is one.  The      *)
(* invariant behind it is ModifiersInv: at every iteration each reported   *)
(* index has the modifier headers of its attribute and no other index has  *)
(* any.                                                                    *)
(***************************************************************************)
THEOREM ModifiersExact ==
  ASSUME ParamsFit
  PROVE  Spec => []ModifiersRoundTrip
<1>1. Init => IInv /\ ColumnsInv /\ ModifiersInv
  BY InitIInv, InitColumnsInv, InitModifiersInv
<1>2. IInv /\ ColumnsInv /\ ModifiersInv /\ [Next]_vars
        => (IInv /\ ColumnsInv /\ ModifiersInv)'
  BY NextIInv, NextColumnsInv, NextModifiersInv
<1>3. IInv /\ ColumnsInv /\ ModifiersInv => ModifiersRoundTrip
  BY ModifiersInvRoundTrip
<1> QED  BY <1>1, <1>2, <1>3, PTL DEF Spec
=============================================================================
