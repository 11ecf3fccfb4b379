--------------------------- MODULE PxfCopyGrammar ---------------------------
(***************************************************************************)
(* The reference the fmtopts parse of PxfCopyOptions is checked against,  *)
(* and the two properties stated with it.  It is kept apart because its    *)
(* definitions are RECURSIVE operators, which PxfCopyOptions_proofs must   *)
(* not reach.                                                              *)
(***************************************************************************)
EXTENDS PxfCopyOptions

(***************************************************************************)
(* The grammar the FORMAT clause of an external table writes fmtopts in,   *)
(* as a reference independent of the token loop: a sequence of options,   *)
(* each "header", a value keyword and its value, "fill missing fields",    *)
(* "force not null" and a column list, or "force quote" and a column list  *)
(* in which "*" stands for every column.  A result is [ok, items, rest].   *)
(***************************************************************************)
RECURSIVE GrammarCols(_, _)
GrammarCols(s, star) ==
  IF s = << >> \/ Head(s) = "," THEN [ok |-> FALSE]
  ELSE IF star /\ Head(s) = "*"
    THEN [ok |-> TRUE, items |-> <<"ALL">>, rest |-> Tail(s)]
  ELSE IF Len(s) >= 2 /\ s[2] = ","
    THEN LET r == GrammarCols(Tail(Tail(s)), star) IN
         IF r.ok THEN [r EXCEPT !.items = <<Head(s)>> \o @] ELSE r
  ELSE [ok |-> TRUE, items |-> <<Head(s)>>, rest |-> Tail(s)]

After(s, n) == SubSeq(s, n + 1, Len(s))

GrammarOption(s) ==
  LET k == Head(s)
      list(name, r) ==
        IF r.ok THEN [ok |-> TRUE, items |-> <<name, r.items>>, rest |-> r.rest]
        ELSE r
  IN CASE k = "header" ->
            [ok |-> TRUE, items |-> <<"header", << >>>>, rest |-> Tail(s)]
       [] k \in ValueKeys /\ Len(s) >= 2 ->
            [ok |-> TRUE, items |-> <<k, <<s[2]>>>>, rest |-> After(s, 2)]
       [] k = "fill" /\ Len(s) >= 3 /\ s[2] = "missing" /\ s[3] = "fields" ->
            [ok |-> TRUE, items |-> <<"fill_missing_fields", << >>>>,
             rest |-> After(s, 3)]
       [] k = "force" /\ Len(s) >= 3 /\ s[2] = "not" /\ s[3] = "null" ->
            list("force_not_null", GrammarCols(After(s, 3), FALSE))
       [] k = "force" /\ Len(s) >= 2 /\ s[2] = "quote" ->
            list("force_quote", GrammarCols(After(s, 2), TRUE))
       [] OTHER -> [ok |-> FALSE]

RECURSIVE Grammar(_)
Grammar(s) ==
  IF s = << >> THEN [ok |-> TRUE, items |-> << >>]
  ELSE LET o == GrammarOption(s) IN
       IF ~o.ok THEN o
       ELSE LET r == Grammar(o.rest) IN
            IF r.ok THEN [ok |-> TRUE, items |-> <<o.items>> \o r.items]
            ELSE r

(***************************************************************************)
(* parseCopyFormatString raises its parse error exactly on the strings the *)
(* grammar rejects: an ERROR of the format block for a text or csv table   *)
(* is never a well-formed fmtopts string turned away.                      *)
(***************************************************************************)
ParseErrorsOnlyOnIllFormed ==
  phase = "error" /\ IsTextOrCsv => ~Grammar(toks).ok

(***************************************************************************)
(* What the service is told about the format, end to end: once the block  *)
(* is done, X-GP-FORMAT names the format, the X-GP-OPTIONS headers are     *)
(* the grammar's options of fmtopts, in order, upper-cased, after FORMAT   *)
(* 'csv' for a csv table, and X-GP-DATA-ENCODING is the table's encoding.  *)
(***************************************************************************)
FormatOptionsSent ==
  phase = "done" =>
    LET parsed == IF IsTextOrCsv THEN Grammar(toks).items ELSE << >>
        sent == (IF fmtcode = "c" THEN <<<<"format", <<"csv">>>>>> ELSE << >>)
                \o parsed
    IN /\ ~IsTextOrCsv \/ Grammar(toks).ok
       /\ headers[1] = <<"X-GP-FORMAT",
                         IF IsTextOrCsv THEN "TEXT" ELSE "GPDBWritable">>
       /\ Len(headers) = Len(sent) + 1
       /\ \A n \in 1..Len(sent) :
            headers[n + 1] = <<OptionHeaderKey[sent[n][1]], sent[n][2]>>
       /\ dataEncoding = TableEncoding
=============================================================================
