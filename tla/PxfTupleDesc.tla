---------------------------- MODULE PxfTupleDesc ----------------------------
(***************************************************************************)
(* The schema encoder: add_tuple_desc_httpheader of                        *)
(* src/external-table/src/pxfheaders.c, which walks the attributes of the  *)
(* relation and appends, for each attribute that is not dropped, its name, *)
(* type code, type name and type modifiers under the attribute's reported  *)
(* index attrIx, and finally the number of reported attributes.            *)
(*                                                                         *)
(* The tuple descriptor is chosen in Init among the ones a relation can    *)
(* have: each attribute is dropped or not, has a type, and either no      *)
(* modifier (atttypmod = -1) or the modifier PostgreSQL stores for the     *)
(* declared parameters (numeric(p,s), varchar(n), timestamp(p), ...).  A   *)
(* header is a tuple <<key, attrIx, k, value>>: the key names the header   *)
(* family of "X-GP-ATTR-...%u" and k is the modifier position.  One step   *)
(* is one iteration of the loop over the attributes.                       *)
(***************************************************************************)
EXTENDS Integers, Sequences, SeqFilter

CONSTANTS
  NAtts,    \* tuple->natts
  TypeIds,  \* the type OIDs attributes may have (not InvalidOid)
  Params    \* declared type parameters (precision, scale, length) to try

ASSUME NAttsAssumption == NAtts \in Nat
ASSUME TypeIdsAssumption == TypeIds \subseteq Nat \ {0}
ASSUME ParamsAssumption == Params \subseteq Nat

(* The OIDs of each case of the switch on atttypid (pg_type.h and the     *)
(* *_ARRAY_OID defines of pxfheaders.h).                                   *)
NumericOids == {1700, 1231}
CharOids == {18, 1002, 1042, 1014, 1043, 1015}
BitTimeOids == {1562, 1563, 1560, 1561, 1114, 1115, 1184, 1185, 1083, 1183,
                1266, 1270}
IntervalOids == {1186, 1187}
InvalidOid == 0

VARHDRSZ == 4
TwoTo16 == 65536
INTERVAL_FULL_RANGE == 32767

(* The declared parameters of a type that takes a modifier, and what       *)
(* PostgreSQL stores for them in atttypmod: ((p << 16) | s) + VARHDRSZ for *)
(* numeric(p,s), n + VARHDRSZ for char(n), n for bit(n) and time(n), and   *)
(* (range << 16) | p for interval(p).  <<>> stands for no modifier, -1.    *)
Declared(t) ==
  {<< >>} \cup
  CASE t \in NumericOids  -> {<<p, s>> : p \in Params \ {0}, s \in Params}
    [] t \in CharOids \cup BitTimeOids \cup IntervalOids -> {<<n>> : n \in Params}
    [] OTHER -> {}

StoredTypmod(t, d) ==
  IF d = << >> THEN -1
  ELSE CASE t \in NumericOids -> d[1] * TwoTo16 + d[2] + VARHDRSZ
         [] t \in CharOids    -> d[1] + VARHDRSZ
         [] t \in BitTimeOids -> d[1]
         [] OTHER             -> INTERVAL_FULL_RANGE * TwoTo16 + d[1]

Attribute(t) ==
  {[attisdropped |-> FALSE, atttypid |-> t, decl |-> d,
    atttypmod |-> StoredTypmod(t, d)] : d \in Declared(t)}

(* A dropped attribute keeps no type in pg_attribute.                      *)
DroppedAttribute ==
  [attisdropped |-> TRUE, atttypid |-> InvalidOid, decl |-> << >>,
   atttypmod |-> -1]

AttrSet == {DroppedAttribute} \cup UNION {Attribute(t) : t \in TypeIds}

VARIABLES
  attrs,   \* tuple->attrs, 1-based
  i,       \* loop index, 1-based: the next attribute to look at
  attrIx,  \* reported index of the next attribute that is not dropped
  headers, \* the headers appended so far, in order
  done     \* the X-GP-ATTRS header has been appended

vars == <<attrs, i, attrIx, headers, done>>

Init ==
  /\ attrs \in [1..NAtts -> AttrSet]
  /\ i = 1
  /\ attrIx = 0
  /\ headers = << >>
  /\ done = FALSE

(* atttypmod >> 16 and & 0xffff of a non-negative typmod.                  *)
High16(x) == (x \div TwoTo16) % TwoTo16
Low16(x) == x % TwoTo16

(* Mutant: the scale of numeric taken without subtracting VARHDRSZ.       *)
TypmodValues_noVarhdr(a) ==
  LET m == a.atttypmod IN
  IF m <= -1 THEN << >>
  ELSE CASE a.atttypid \in NumericOids  -> <<High16(m), Low16(m)>>
         [] a.atttypid \in CharOids     -> <<m - VARHDRSZ>>
         [] a.atttypid \in BitTimeOids  -> <<m>>
         [] a.atttypid \in IntervalOids -> <<Low16(m)>>
         [] OTHER                       -> << >>

(***************************************************************************)
(* The values the switch on atttypid appends as X-GP-ATTR-TYPEMOD%u-%u     *)
(* when atttypmod > -1: precision and scale for numeric, the length for    *)
(* character types, the raw modifier for bit and time types, and           *)
(* INTERVAL_PRECISION for interval; none for any other type.               *)
(***************************************************************************)
TypmodValues(a) ==
  LET m == a.atttypmod IN
  IF m <= -1 THEN << >>
  ELSE CASE a.atttypid \in NumericOids  -> <<High16(m), Low16(m - VARHDRSZ)>>
         [] a.atttypid \in CharOids     -> <<m - VARHDRSZ>>
         [] a.atttypid \in BitTimeOids  -> <<m>>
         [] a.atttypid \in IntervalOids -> <<Low16(m)>>
         [] OTHER                       -> << >>

(* Mutant: the type code header carries atttypmod instead of atttypid.    *)
AttributeHeaders_typmodAsCode(a, ix, ordinal) ==
  LET v == TypmodValues(a) IN
  << <<"NAME", ix, 0, ordinal>>,
     <<"TYPECODE", ix, 0, a.atttypmod>>,
     <<"TYPENAME", ix, 0, a.atttypid>> >>
  \o (IF v = << >> THEN << >>
      ELSE <<<<"TYPEMOD-COUNT", ix, 0, Len(v)>>>>
           \o [k \in 1..Len(v) |-> <<"TYPEMOD", ix, k - 1, v[k]>>])

(* The headers of one reported attribute: name, type code, type name, and  *)
(* the modifier count followed by the modifiers, when there are any.       *)
AttributeHeaders(a, ix, ordinal) ==
  LET v == TypmodValues(a) IN
  << <<"NAME", ix, 0, ordinal>>,
     <<"TYPECODE", ix, 0, a.atttypid>>,
     <<"TYPENAME", ix, 0, a.atttypid>> >>
  \o (IF v = << >> THEN << >>
      ELSE <<<<"TYPEMOD-COUNT", ix, 0, Len(v)>>>>
           \o [k \in 1..Len(v) |-> <<"TYPEMOD", ix, k - 1, v[k]>>])

(* Ignore dropped attributes: continue without touching attrIx.            *)
SkipDropped ==
  /\ i <= NAtts
  /\ attrs[i].attisdropped
  /\ i' = i + 1
  /\ UNCHANGED <<attrs, attrIx, headers, done>>

(* Mutant: attrIx also advances past a dropped attribute.                  *)
ReportAttributeAll ==
  /\ i <= NAtts
  /\ headers' = IF attrs[i].attisdropped THEN headers
                ELSE headers \o AttributeHeaders(attrs[i], attrIx, i)
  /\ attrIx' = attrIx + 1
  /\ i' = i + 1
  /\ UNCHANGED <<attrs, done>>

(* An attribute that is not dropped is reported under attrIx.              *)
ReportAttribute ==
  /\ i <= NAtts
  /\ ~attrs[i].attisdropped
  /\ headers' = headers \o AttributeHeaders(attrs[i], attrIx, i)
  /\ attrIx' = attrIx + 1
  /\ i' = i + 1
  /\ UNCHANGED <<attrs, done>>

(* After the loop, X-GP-ATTRS carries the number of reported attributes.   *)
ReportCount ==
  /\ i > NAtts
  /\ ~done
  /\ headers' = Append(headers, <<"ATTRS", 0, 0, attrIx>>)
  /\ done' = TRUE
  /\ UNCHANGED <<attrs, i, attrIx>>

(* The encoder returns after ReportCount: the only state with no step.     *)
Next == SkipDropped \/ ReportAttribute \/ ReportCount

Spec == Init /\ [][Next]_vars

-----------------------------------------------------------------------------

HeaderKeys == {"NAME", "TYPECODE", "TYPENAME", "TYPEMOD-COUNT", "TYPEMOD",
               "ATTRS"}

TypeOK ==
  /\ attrs \in [1..NAtts -> AttrSet]
  /\ i \in 1..(NAtts + 1)
  /\ attrIx \in 0..NAtts
  /\ DOMAIN headers = 1..Len(headers)
  /\ \A n \in 1..Len(headers) :
       LET h == headers[n] IN
       /\ h[1] \in HeaderKeys
       /\ h[2] \in 0..NAtts
       /\ h[3] \in Nat
       /\ h[1] \in {"TYPECODE", "TYPENAME"} => h[4] \in TypeIds
       /\ h[4] \in Int
  /\ done \in BOOLEAN

(* The ordinals of the attributes that are not dropped, in order: the      *)
(* columns the remote service must see, renumbered from 0.                 *)
Live == {j \in 1..NAtts : ~attrs[j].attisdropped}

Kept == Filter([j \in 1..NAtts |-> j], Live)

(* The headers of one family, in the order they were appended.            *)
Header == HeaderKeys \X Int \X Int \X Int

HeadersOf(key) == Filter(headers, {h \in Header : h[1] = key})

(* The modifier headers and the modifier count header of index ix.        *)
ModHeaders(ix) == {h \in Header : h[1] = "TYPEMOD" /\ h[2] = ix}

CountHeaders(ix) == {h \in Header : h[1] = "TYPEMOD-COUNT" /\ h[2] = ix}

(***************************************************************************)
(* The schema the service sees is the relation without its dropped         *)
(* columns: once X-GP-ATTRS is sent, the X-GP-ATTR-NAME headers name       *)
(* exactly the attributes that are not dropped, in table order, under the  *)
(* indices 0, 1, 2, ... with no gap, and X-GP-ATTRS is their number.       *)
(***************************************************************************)
ReportedColumnsExact ==
  done =>
    /\ Len(HeadersOf("NAME")) = Len(Kept)
    /\ \A k \in 1..Len(Kept) : /\ HeadersOf("NAME")[k][2] = k - 1
                               /\ HeadersOf("NAME")[k][4] = Kept[k]
    /\ HeadersOf("ATTRS") = <<<<"ATTRS", 0, 0, Len(Kept)>>>>

(***************************************************************************)
(* The modifiers survive the trip: for every reported attribute the        *)
(* X-GP-ATTR-TYPEMOD headers decode, in order, to the parameters declared  *)
(* for the column (numeric precision and scale, character length, bit or   *)
(* time precision, interval precision), and X-GP-ATTR-TYPEMOD%u-COUNT is   *)
(* sent exactly when there is at least one, carrying their number.         *)
(***************************************************************************)
ModifiersRoundTrip ==
  done =>
    \A k \in 1..Len(Kept) :
      LET d == attrs[Kept[k]].decl
          mods == Filter(headers, ModHeaders(k - 1))
          counts == Filter(headers, CountHeaders(k - 1))
      IN /\ Len(mods) = Len(d)
         /\ \A m \in 1..Len(d) : mods[m][3] = m - 1 /\ mods[m][4] = d[m]
         /\ counts = IF d = << >> THEN << >>
                     ELSE <<<<"TYPEMOD-COUNT", k - 1, 0, Len(d)>>>>
=============================================================================
