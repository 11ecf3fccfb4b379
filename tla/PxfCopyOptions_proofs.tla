------------------------ MODULE PxfCopyOptions_proofs ------------------------
(***************************************************************************)
(* Type correctness of the format block of build_http_headers, for every   *)
(* set of lexical units and every bound on the length of fmtopts.          *)
(*                                                                         *)
(* TypeOK is not inductive: that pos stays in 1..MaxToks+2 rests on pos    *)
(* never passing the end of toks by more than one token, and that          *)
(* data_encoding is the table's encoding, and the X-GP-OPTIONS keys are   *)
(* normalize_key_name's, rest on the shape of every DefElem the parse and  *)
(* appendCopyEncodingOption put in the lists.  IInv states both.           *)
(***************************************************************************)
EXTENDS PxfCopyOptions, WellFoundedInduction, TLAPS

(* What Tok returns: a unit of fmtopts, or NULL at the end.                *)
Tokens == Units \cup {NULL}

(* The arguments of a DefElem: a token, a column list, or none.            *)
ArgVals == Seq(Tokens \cup {"ALL", "csv", TableEncoding})

(* A DefElem of parseCopyFormatString: an option it parses, never the      *)
(* encoding.                                                               *)
ParsedItems == (DOMAIN OptionHeaderKey) \X ArgVals

EncodingItem == <<"encoding", <<TableEncoding>>>>

HeaderKeys == {"X-GP-FORMAT"} \cup {OptionHeaderKey[o] : o \in DOMAIN OptionHeaderKey}

HeaderVals == ArgVals \cup {"TEXT", "GPDBWritable"}

IInv ==
  /\ fmtcode \in FmtCodes
  /\ toks \in Seq(Units)
  /\ Len(toks) <= MaxToks
  /\ phase \in {"start", "parse", "encode", "emit", "done", "error", "crash"}
  /\ pos \in 1..(Len(toks) + 1)
  /\ opts \in Seq(ParsedItems)
  /\ copyFmtOpts \in Seq(ParsedItems \cup {EncodingItem})
  /\ ix \in 1..(Len(copyFmtOpts) + 1)
  /\ phase \in {"start", "parse", "encode"} => ix = 1
  /\ headers \in Seq(HeaderKeys \X HeaderVals)
  /\ dataEncoding \in {"none", TableEncoding}

(***************************************************************************)
(* Tok reads a unit of fmtopts inside the string and NULL past its end:   *)
(* a token that is not NULL was read at an index of toks.                  *)
(***************************************************************************)
LEMMA TokFacts ==
  ASSUME toks \in Seq(Units), NEW p
  PROVE  /\ Tok(p) \in Tokens
         /\ Tok(p) /= NULL => p \in 1..Len(toks)
BY UnitsAssumption DEF Tok, Tokens

(***************************************************************************)
(* The column-list loop stops: some iteration up to one past the end of    *)
(* the string meets NULL, so the first iteration that stops is an index    *)
(* in 0..Len(toks)+1 (the least element WFMin gives of the stopping ones). *)
(***************************************************************************)
LEMMA ListEndType ==
  ASSUME toks \in Seq(Units), NEW q \in Nat, NEW star
  PROVE  ListEnd(q, star) \in 0..(Len(toks) + 1)
<1> DEFINE N == Len(toks) + 1
           T == {j \in 0..N : Stops(q, j, star)}
           R == OpToRel(<, Nat)
<1>1. N \in T
  <2>1. Tok(q + 2 * N) = NULL
    BY DEF Tok
  <2>2. Stops(q, N, star)
    BY <2>1 DEF Stops
  <2>3. N \in 0..N
    OBVIOUS
  <2> QED  BY <2>2, <2>3
<1>2. T \subseteq Nat /\ T /= {}
  BY <1>1
<1>3. PICK x \in T : \A y \in T : ~(<<y, x>> \in R)
  BY <1>2, NatLessThanWellFounded, WFMin
<1>4. \A i \in 0..(x - 1) : ~Stops(q, i, star)
  <2> SUFFICES ASSUME NEW i \in 0..(x - 1), Stops(q, i, star) PROVE FALSE
    OBVIOUS
  <2>1. i \in T /\ i < x
    OBVIOUS
  <2>2. <<i, x>> \in R
    BY <2>1 DEF OpToRel
  <2> QED  BY <1>3, <2>1, <2>2
<1>5. x \in 0..N /\ Stops(q, x, star)
  OBVIOUS
<1> QED  BY <1>4, <1>5 DEF ListEnd

(***************************************************************************)
(* What one iteration of the parse loop can do: goto error, the NULL       *)
(* dereference, or append an option it parses and go on at a token no     *)
(* further than one past the end of the string.                            *)
(***************************************************************************)
Outcome ==
  \/ Fail
  \/ Crash
  \/ \E item \in ParsedItems, next \in 1..(Len(toks) + 1) : Accept(item, next)

(* The DefElem names the parse makes are normalize_key_name's keys; the    *)
(* encoding option is not one of them.                                     *)
LEMMA OptionNamesFacts ==
  /\ {"header", "fill_missing_fields", "force_not_null", "force_quote",
      "format"} \cup ValueKeys \subseteq DOMAIN OptionHeaderKey
  /\ "encoding" \notin DOMAIN OptionHeaderKey
BY DEF OptionHeaderKey, ValueKeys

(* An option name and a column list with one more column make a DefElem.  *)
LEMMA ItemType ==
  ASSUME NEW S, NEW c \in Seq(S), NEW e \in S, NEW n \in DOMAIN OptionHeaderKey
  PROVE  /\ <<n, c \o <<e>>>> \in (DOMAIN OptionHeaderKey) \X Seq(S)
         /\ <<n, Append(c, e)>> \in (DOMAIN OptionHeaderKey) \X Seq(S)
<1>1. c \o <<e>> \in Seq(S) /\ Append(c, e) \in Seq(S)
  OBVIOUS
<1> QED  BY <1>1, Zenon

(***************************************************************************)
(* A column list of force not null or force quote fails, or appends the   *)
(* columns read and goes on after the token that ended the list.           *)
(***************************************************************************)
LEMMA ColListOutcome ==
  ASSUME toks \in Seq(Units), NEW q \in Nat, NEW star \in BOOLEAN,
         NEW name \in DOMAIN OptionHeaderKey, ColList(q, star, name)
  PROVE  Outcome
<1> DEFINE j == ListEnd(q, star)
           cols == [i \in 1..j |-> Tok(q + 2 * (i - 1))]
           t == Tok(q + 2 * j)
<1>1. j \in 0..(Len(toks) + 1)
  BY ListEndType
<1>2. cols \in Seq(Tokens \cup {"ALL", "csv", TableEncoding})
  BY <1>1, TokFacts
<1>3. t /= NULL => q + 2 * j + 1 \in 1..(Len(toks) + 1)
  BY <1>1, TokFacts
<1>4. CASE t \in {NULL, ","}
  <2>1. Fail
    BY <1>4 DEF ColList, NULL
  <2> QED  BY <2>1 DEF Outcome
<1>5. CASE star /\ t = "*"
  <2>1. Accept(<<name, cols \o <<"ALL">>>>, q + 2 * j + 1)
    BY <1>5 DEF ColList, NULL
  <2>2. <<name, cols \o <<"ALL">>>> \in ParsedItems
    BY <1>2, ItemType DEF ParsedItems, ArgVals
  <2>3. q + 2 * j + 1 \in 1..(Len(toks) + 1)
    BY <1>3, <1>5, UnitsAssumption DEF NULL
  <2> QED  BY <2>1, <2>2, <2>3 DEF Outcome
<1>6. CASE ~(t \in {NULL, ","}) /\ ~(star /\ t = "*")
  <2>1. Accept(<<name, Append(cols, t)>>, q + 2 * j + 1)
    BY <1>6 DEF ColList, NULL
  <2>2. t \in Tokens
    BY TokFacts
  <2>3. <<name, Append(cols, t)>> \in ParsedItems
    BY <1>2, <2>2, ItemType DEF ParsedItems, ArgVals
  <2>4. q + 2 * j + 1 \in 1..(Len(toks) + 1)
    BY <1>3, <1>6
  <2> QED  BY <2>1, <2>3, <2>4 DEF Outcome
<1> QED  BY <1>4, <1>5, <1>6

(***************************************************************************)
(* One iteration of the while (token) loop of parseCopyFormatString, one   *)
(* case per branch of its if-else chain on the keyword.                   *)
(***************************************************************************)
LEMMA ParseOptionOutcome ==
  ASSUME IInv, ParseOption
  PROVE  Outcome
<1> DEFINE k == Tok(pos)
<1> USE DEF IInv
<1>1. k /= NULL /\ pos \in 1..Len(toks)
  BY TokFacts DEF ParseOption
<1>2. CASE k = "header"
  <2>1. Accept(<<"header", << >>>>, pos + 1)
    BY <1>2 DEF ParseOption, ValueKeys
  <2>2. << >> \in ArgVals
    BY DEF ArgVals
  <2>3. <<"header", << >>>> \in ParsedItems
    BY <2>2, OptionNamesFacts, Zenon DEF ParsedItems
  <2> QED  BY <1>1, <2>1, <2>3 DEF Outcome
<1>3. CASE k \in ValueKeys
  <2>1. IF Tok(pos + 1) = NULL THEN Fail
        ELSE Accept(<<k, <<Tok(pos + 1)>>>>, pos + 2)
    BY <1>3 DEF ParseOption, ValueKeys
  <2>2. CASE Tok(pos + 1) = NULL
    BY <2>1, <2>2 DEF Outcome
  <2>3. CASE Tok(pos + 1) /= NULL
    <3>1. pos + 1 \in 1..Len(toks) /\ Tok(pos + 1) \in Tokens
      BY <2>3, TokFacts
    <3>2. <<Tok(pos + 1)>> \in ArgVals
      BY <3>1 DEF ArgVals
    <3>3. <<k, <<Tok(pos + 1)>>>> \in ParsedItems
      BY <1>3, <3>2, OptionNamesFacts, Zenon DEF ParsedItems
    <3> QED  BY <1>1, <2>1, <2>3, <3>1, <3>3 DEF Outcome
  <2> QED  BY <2>2, <2>3
<1>4. CASE k = "force"
  <2>1. CASE Tok(pos + 1) = NULL
    <3>1. Crash
      BY <1>4, <2>1 DEF ParseOption, ValueKeys, NULL
    <3> QED  BY <3>1 DEF Outcome
  <2>2. CASE Tok(pos + 1) = "not"
    <3>1. Keyword(pos + 2, "null", ColList(pos + 3, FALSE, "force_not_null"))
      BY <1>4, <2>2 DEF ParseOption, ValueKeys, NULL
    <3>2. Crash \/ Fail \/ ColList(pos + 3, FALSE, "force_not_null")
      BY <3>1 DEF Keyword
    <3>3. ColList(pos + 3, FALSE, "force_not_null") => Outcome
      <4>1. pos + 3 \in Nat /\ FALSE \in BOOLEAN
        BY <1>1
      <4>2. "force_not_null" \in DOMAIN OptionHeaderKey
        BY OptionNamesFacts
      <4> QED  BY <4>1, <4>2, ColListOutcome
    <3> QED  BY <3>2, <3>3 DEF Outcome
  <2>3. CASE Tok(pos + 1) = "quote"
    <3>1. ColList(pos + 2, TRUE, "force_quote")
      BY <1>4, <2>3 DEF ParseOption, ValueKeys, NULL
    <3>2. pos + 2 \in Nat /\ TRUE \in BOOLEAN
      BY <1>1
    <3>3. "force_quote" \in DOMAIN OptionHeaderKey
      BY OptionNamesFacts
    <3> QED  BY <3>1, <3>2, <3>3, ColListOutcome
  <2>4. CASE Tok(pos + 1) \notin {NULL, "not", "quote"}
    <3>1. Fail
      BY <1>4, <2>4 DEF ParseOption, ValueKeys, NULL
    <3> QED  BY <3>1 DEF Outcome
  <2> QED  BY <2>1, <2>2, <2>3, <2>4
<1>5. CASE k = "fill"
  <2> DEFINE A == Accept(<<"fill_missing_fields", << >>>>, pos + 3)
  <2>1. Keyword(pos + 1, "missing", Keyword(pos + 2, "fields", A))
    BY <1>5 DEF ParseOption, ValueKeys
  <2>2. Crash \/ Fail \/ (Tok(pos + 2) = "fields" /\ A)
    BY <2>1 DEF Keyword
  <2>3. Tok(pos + 2) = "fields" => pos + 3 \in 1..(Len(toks) + 1)
    BY <1>1, TokFacts, UnitsAssumption, SMTT(30) DEF NULL
  <2>4. << >> \in ArgVals
    BY DEF ArgVals
  <2>5. <<"fill_missing_fields", << >>>> \in ParsedItems
    BY <2>4, OptionNamesFacts, Zenon DEF ParsedItems
  <2> QED  BY <2>2, <2>3, <2>5 DEF Outcome
<1>6. CASE k \notin {"header", "force", "fill"} \cup ValueKeys
  <2>1. Fail
    BY <1>6 DEF ParseOption, ValueKeys
  <2> QED  BY <2>1 DEF Outcome
<1> QED  BY <1>2, <1>3, <1>4, <1>5, <1>6

-----------------------------------------------------------------------------
LEMMA InitIInv == Init => IInv
<1> SUFFICES ASSUME Init PROVE IInv
  OBVIOUS
<1>1. PICK n \in 0..MaxToks : toks \in [1..n -> Units]
  BY DEF Init, SeqsUpTo
<1>2. toks \in Seq(Units) /\ Len(toks) = n
  BY <1>1, MaxToksAssumption
<1> QED  BY <1>2 DEF Init, IInv

LEMMA NextIInv == IInv /\ [Next]_vars => IInv'
<1> SUFFICES ASSUME IInv, [Next]_vars PROVE IInv'
  OBVIOUS
<1> USE DEF IInv
<1>1. CASE GetFormat
  <2>1. <<"X-GP-FORMAT", "TEXT">> \in HeaderKeys \X HeaderVals
        /\ <<"X-GP-FORMAT", "GPDBWritable">> \in HeaderKeys \X HeaderVals
    BY DEF HeaderKeys, HeaderVals
  <2>2. CASE fmtcode \in {"t", "c", "b"}
    <3>0. headers' = <<<<"X-GP-FORMAT",
                          IF IsTextOrCsv THEN "TEXT" ELSE "GPDBWritable">>>>
      BY <1>1, <2>2 DEF GetFormat
    <3>1. headers' \in Seq(HeaderKeys \X HeaderVals)
      BY ONLY <2>1, <3>0
    <3> QED  BY <1>1, <2>2, <3>1 DEF GetFormat
  <2>3. CASE fmtcode \notin {"t", "c", "b"}
    BY <1>1, <2>3 DEF GetFormat
  <2> QED  BY <2>2, <2>3
<1>2. CASE ParseOption
  <2>1. Outcome
    BY <1>2, ParseOptionOutcome
  <2>2. phase = "parse" /\ UNCHANGED <<fmtcode, toks, copyFmtOpts, ix, headers, dataEncoding>>
    BY <1>2 DEF ParseOption
  <2>3. CASE Fail \/ Crash
    BY <2>2, <2>3 DEF Fail, Crash
  <2>4. CASE \E item \in ParsedItems, next \in 1..(Len(toks) + 1) : Accept(item, next)
    <3>1. PICK item \in ParsedItems, next \in 1..(Len(toks) + 1) : Accept(item, next)
      BY <2>4
    <3>2. opts' \in Seq(ParsedItems) /\ pos' = next /\ phase' = phase
      BY <3>1 DEF Accept
    <3> QED  BY <2>2, <3>2
  <2> QED  BY <2>1, <2>3, <2>4 DEF Outcome
<1>3. CASE ParseEnd
  <2>1. <<"format", <<"csv">>>> \in ParsedItems
    <3>1. <<"csv">> \in ArgVals
      BY DEF ArgVals
    <3> QED  BY <3>1, OptionNamesFacts, Zenon DEF ParsedItems
  <2>2. copyFmtOpts' \in Seq(ParsedItems \cup {EncodingItem})
    <3>1. CASE fmtcode = "c"
      <4>1. copyFmtOpts' = <<<<"format", <<"csv">>>>>> \o opts
        BY <1>3, <3>1 DEF ParseEnd
      <4> QED  BY <2>1, <4>1
    <3>2. CASE fmtcode /= "c"
      BY <1>3, <3>2 DEF ParseEnd
    <3> QED  BY <3>1, <3>2
  <2> QED  BY <1>3, <2>2 DEF ParseEnd
<1>4. CASE AppendEncoding
  <2>1. copyFmtOpts' = Append(copyFmtOpts, EncodingItem)
    BY <1>4 DEF AppendEncoding, EncodingItem
  <2> QED  BY <1>4, <2>1, SMTT(30) DEF AppendEncoding
<1>5. CASE EmitOption
  <2> DEFINE d == copyFmtOpts[ix]
  <2>1. ix \in 1..Len(copyFmtOpts) /\ d \in ParsedItems \cup {EncodingItem}
    BY <1>5 DEF EmitOption
  <2>2. CASE d[1] = "encoding"
    <3>1. d = EncodingItem
      BY <2>1, <2>2, OptionNamesFacts DEF ParsedItems
    <3>2. dataEncoding' = TableEncoding /\ UNCHANGED headers
      BY <1>5, <2>2, <3>1 DEF EmitOption, EncodingItem
    <3> QED  BY <1>5, <2>1, <3>2 DEF EmitOption
  <2>3. CASE d[1] /= "encoding"
    <3>1. d \in ParsedItems
      BY <2>1, <2>3 DEF EncodingItem
    <3>2. <<OptionHeaderKey[d[1]], d[2]>> \in HeaderKeys \X HeaderVals
      BY <3>1 DEF ParsedItems, HeaderKeys, HeaderVals
    <3>3. headers' = Append(headers, <<OptionHeaderKey[d[1]], d[2]>>)
          /\ UNCHANGED dataEncoding
      BY <1>5, <2>3 DEF EmitOption
    <3> QED  BY <1>5, <2>1, <3>2, <3>3 DEF EmitOption
  <2> QED  BY <2>2, <2>3
<1>6. CASE EmitDone
  BY <1>6 DEF EmitDone
<1>7. CASE UNCHANGED vars
  BY <1>7 DEF vars
<1> QED  BY <1>1, <1>2, <1>3, <1>4, <1>5, <1>6, <1>7 DEF Next

LEMMA IInvTypeOK == IInv => TypeOK
<1> SUFFICES ASSUME IInv PROVE TypeOK
  OBVIOUS
<1> USE DEF IInv
<1>1. pos \in 1..(MaxToks + 2)
  BY MaxToksAssumption
<1>2. \A n \in 1..Len(opts) : opts[n][1] \in OptionNames
  BY DEF ParsedItems, OptionNames
<1>3. \A n \in 1..Len(headers) :
        headers[n][1] \in {"X-GP-FORMAT"} \cup
                          {OptionHeaderKey[o] : o \in DOMAIN OptionHeaderKey}
  BY DEF HeaderKeys
<1> QED  BY <1>1, <1>2, <1>3 DEF TypeOK

(***************************************************************************)
(* Type correctness of the format block: parseCopyFormatString never       *)
(* reads past one token beyond the end of fmtopts, every DefElem it and    *)
(* appendCopyEncodingOption make has a name normalize_key_name knows, the *)
(* foreach over copyFmtOpts stays in the list, every X-GP-OPTIONS key is   *)
(* upper-cased, and data_encoding is the table's encoding or unset.        *)
(***************************************************************************)
THEOREM TypeCorrect == Spec => []TypeOK
<1>1. Init => IInv
  BY InitIInv
<1>2. IInv /\ [Next]_vars => IInv'
  BY NextIInv
<1>3. IInv => TypeOK
  BY IInvTypeOK
<1> QED  BY <1>1, <1>2, <1>3, PTL DEF Spec
=============================================================================
