--------------------------- MODULE PxfCopyOptions ---------------------------
(***************************************************************************)
(* The format block of build_http_headers (src/external-table/src/         *)
(* pxfheaders.c) in its PG_VERSION_NUM < 90400 build: get_format_name and  *)
(* the X-GP-FORMAT header; parseCopyFormatString, which turns the external *)
(* table's fmtopts string into a list of COPY options; appendCopyEncoding- *)
(* Option; and the loop that keeps the encoding option for                 *)
(* X-GP-DATA-ENCODING and sends every other option as                      *)
(* X-GP-OPTIONS-<NAME> (normalize_key_name of pxfutils.c).                 *)
(*                                                                         *)
(* The fmtopts string is a sequence of lexical units, each the result of   *)
(* one strtokx2 call: keywords (compared case-insensitively by             *)
(* pg_strcasecmp, so written here in lower case), "," , "*" and "v", a     *)
(* quoted value or a column name.  NULL is what strtokx2 returns at the    *)
(* end of the string.  The column names "*" expands to are the relation's  *)
(* (PxfTupleDesc covers how dropped columns are skipped): "ALL" here.      *)
(***************************************************************************)
EXTENDS Naturals, Sequences

CONSTANTS
  Units,    \* lexical units the fmtopts strings are made of
  MaxToks,  \* length of the longest fmtopts string
  FmtCodes  \* exttbl->fmtcode values: "t" text, "c" csv, "b" custom, others

ASSUME MaxToksAssumption == MaxToks \in Nat

NULL == "<end>"

(* strtokx2 signals the end of the string with a NULL pointer, which no   *)
(* token it returns is.                                                    *)
ASSUME UnitsAssumption == NULL \notin Units

(* The keywords followed by one value token.                               *)
ValueKeys == {"delimiter", "null", "quote", "escape", "newline"}

(* normalize_key_name: "X-GP-OPTIONS-" and the key in upper case.          *)
OptionHeaderKey ==
  [header |-> "HEADER", delimiter |-> "DELIMITER", null |-> "NULL",
   quote |-> "QUOTE", escape |-> "ESCAPE", newline |-> "NEWLINE",
   force_not_null |-> "FORCE_NOT_NULL", force_quote |-> "FORCE_QUOTE",
   fill_missing_fields |-> "FILL_MISSING_FIELDS", format |-> "FORMAT"]

TableEncoding == "enc"

SeqsUpTo(S, n) == UNION {[1..k -> S] : k \in 0..n}

VARIABLES
  fmtcode,     \* exttbl->fmtcode
  toks,        \* exttbl->fmtopts, as its lexical units
  phase,       \* where build_http_headers is in the format block
  pos,         \* index of the current token of parseCopyFormatString
  opts,        \* the DefElem list l built so far: <<defname, arguments>>
  copyFmtOpts, \* the option list after the csv option and the encoding
  ix,          \* index of the foreach over copyFmtOpts
  headers,     \* the headers appended: <<key, value>>
  dataEncoding \* data_encoding

vars == <<fmtcode, toks, phase, pos, opts, copyFmtOpts, ix, headers,
          dataEncoding>>

Init ==
  /\ fmtcode \in FmtCodes
  /\ toks \in SeqsUpTo(Units, MaxToks)
  /\ phase = "start"
  /\ pos = 1
  /\ opts = << >>
  /\ copyFmtOpts = << >>
  /\ ix = 1
  /\ headers = << >>
  /\ dataEncoding = "none"

Tok(p) == IF p \in 1..Len(toks) THEN toks[p] ELSE NULL

IsTextOrCsv == fmtcode \in {"t", "c"}

(* get_format_name, then X-GP-FORMAT; the options are parsed for text and  *)
(* csv only.  Any other code raises "unable to get format name".           *)
GetFormat ==
  /\ phase = "start"
  /\ IF fmtcode \in {"t", "c", "b"}
       THEN /\ headers' = <<<<"X-GP-FORMAT",
                              IF IsTextOrCsv THEN "TEXT" ELSE "GPDBWritable">>>>
            /\ phase' = IF IsTextOrCsv THEN "parse" ELSE "encode"
       ELSE /\ phase' = "error"
            /\ UNCHANGED headers
  /\ UNCHANGED <<fmtcode, toks, pos, opts, copyFmtOpts, ix, dataEncoding>>

(* The parse keeps going with the token at next; goto error; a NULL token  *)
(* handed to pg_strcasecmp, which dereferences it.                         *)
Accept(item, next) ==
  /\ opts' = Append(opts, item)
  /\ pos' = next
  /\ UNCHANGED phase
Fail == phase' = "error" /\ UNCHANGED <<opts, pos>>
Crash == phase' = "crash" /\ UNCHANGED <<opts, pos>>

(* if (pg_strcasecmp(token, w) != 0) goto error; on the token at p, then  *)
(* ok.  A NULL token is dereferenced before it can compare unequal.       *)
Keyword(p, w, ok) ==
  IF Tok(p) = NULL THEN Crash ELSE IF Tok(p) /= w THEN Fail ELSE ok

(***************************************************************************)
(* The column-list loops of "force not null" and "force quote", from the   *)
(* first column token at q: columns at q, q+2, ..., each but the last      *)
(* followed by ",".  An iteration stops the list at a NULL or "," column   *)
(* (an error), at "*" in force quote, or when the token after the column   *)
(* is not ",".  ListEnd is the index of that iteration, from 0.            *)
(***************************************************************************)
Stops(q, j, star) ==
  \/ Tok(q + 2 * j) \in {NULL, ","}
  \/ star /\ Tok(q + 2 * j) = "*"
  \/ Tok(q + 2 * j + 1) /= ","

ListEnd(q, star) ==
  CHOOSE j \in 0..(Len(toks) + 1) :
    Stops(q, j, star) /\ \A i \in 0..(j - 1) : ~Stops(q, i, star)

(* Mutant: after "*" the loop breaks without consuming the next token.     *)
ColList_starNoFetch(q, star, name) ==
  LET j == ListEnd(q, star)
      cols == [i \in 1..j |-> Tok(q + 2 * (i - 1))]
  IN CASE Tok(q + 2 * j) \in {NULL, ","} -> Fail
       [] star /\ Tok(q + 2 * j) = "*" ->
            Accept(<<name, cols \o <<"ALL">>>>, q + 2 * j)
       [] OTHER -> Accept(<<name, Append(cols, Tok(q + 2 * j))>>,
                          q + 2 * j + 1)

(* The column list, then fetch_next = false: the outer loop goes on with   *)
(* the token that ended the list (after "*", the one read after it).       *)
ColList(q, star, name) ==
  LET j == ListEnd(q, star)
      cols == [i \in 1..j |-> Tok(q + 2 * (i - 1))]
  IN CASE Tok(q + 2 * j) \in {NULL, ","} -> Fail
       [] star /\ Tok(q + 2 * j) = "*" ->
            Accept(<<name, cols \o <<"ALL">>>>, q + 2 * j + 1)
       [] OTHER -> Accept(<<name, Append(cols, Tok(q + 2 * j))>>,
                          q + 2 * j + 1)

(* One iteration of the while (token) loop of parseCopyFormatString.       *)
ParseOption ==
  /\ phase = "parse"
  /\ Tok(pos) /= NULL
  /\ LET k == Tok(pos) IN
     CASE k = "header" -> Accept(<<"header", << >>>>, pos + 1)
       [] k \in ValueKeys ->
            IF Tok(pos + 1) = NULL THEN Fail
            ELSE Accept(<<k, <<Tok(pos + 1)>>>>, pos + 2)
       [] k = "force" ->
            CASE Tok(pos + 1) = NULL -> Crash
              [] Tok(pos + 1) = "not" ->
                   Keyword(pos + 2, "null",
                           ColList(pos + 3, FALSE, "force_not_null"))
              [] Tok(pos + 1) = "quote" -> ColList(pos + 2, TRUE, "force_quote")
              [] OTHER -> Fail
       [] k = "fill" ->
            Keyword(pos + 1, "missing",
                    Keyword(pos + 2, "fields",
                            Accept(<<"fill_missing_fields", << >>>>, pos + 3)))
       [] OTHER -> Fail
  /\ UNCHANGED <<fmtcode, toks, copyFmtOpts, ix, headers, dataEncoding>>

(* Mutant: the csv branch does not put FORMAT 'csv' in front.              *)
ParseEnd_noCsv ==
  /\ phase = "parse"
  /\ Tok(pos) = NULL
  /\ copyFmtOpts' = opts
  /\ phase' = "encode"
  /\ UNCHANGED <<fmtcode, toks, pos, opts, ix, headers, dataEncoding>>

(* The end of the string: csv puts FORMAT 'csv' in front of the list.     *)
ParseEnd ==
  /\ phase = "parse"
  /\ Tok(pos) = NULL
  /\ copyFmtOpts' = IF fmtcode = "c" THEN <<<<"format", <<"csv">>>>>> \o opts
                    ELSE opts
  /\ phase' = "encode"
  /\ UNCHANGED <<fmtcode, toks, pos, opts, ix, headers, dataEncoding>>

(* appendCopyEncodingOption with the table's encoding.                     *)
AppendEncoding ==
  /\ phase = "encode"
  /\ copyFmtOpts' = Append(copyFmtOpts, <<"encoding", <<TableEncoding>>>>)
  /\ phase' = "emit"
  /\ UNCHANGED <<fmtcode, toks, pos, opts, ix, headers, dataEncoding>>

(* Mutant: the option is sent under its own name, not normalize_key_name. *)
EmitOption_rawName ==
  /\ phase = "emit"
  /\ ix <= Len(copyFmtOpts)
  /\ LET d == copyFmtOpts[ix] IN
     IF d[1] = "encoding"
       THEN dataEncoding' = d[2][1] /\ UNCHANGED headers
       ELSE headers' = Append(headers, <<d[1], d[2]>>)
            /\ UNCHANGED dataEncoding
  /\ ix' = ix + 1
  /\ UNCHANGED <<fmtcode, toks, phase, pos, opts, copyFmtOpts>>

(* One iteration of foreach (option, copyFmtOpts).                         *)
EmitOption ==
  /\ phase = "emit"
  /\ ix <= Len(copyFmtOpts)
  /\ LET d == copyFmtOpts[ix] IN
     IF d[1] = "encoding"
       THEN dataEncoding' = d[2][1] /\ UNCHANGED headers
       ELSE headers' = Append(headers, <<OptionHeaderKey[d[1]], d[2]>>)
            /\ UNCHANGED dataEncoding
  /\ ix' = ix + 1
  /\ UNCHANGED <<fmtcode, toks, phase, pos, opts, copyFmtOpts>>

EmitDone ==
  /\ phase = "emit"
  /\ ix > Len(copyFmtOpts)
  /\ phase' = "done"
  /\ UNCHANGED <<fmtcode, toks, pos, opts, copyFmtOpts, ix, headers,
                 dataEncoding>>

Next ==
  GetFormat \/ ParseOption \/ ParseEnd \/ AppendEncoding \/ EmitOption
  \/ EmitDone

Spec == Init /\ [][Next]_vars
-----------------------------------------------------------------------------

OptionNames == DOMAIN OptionHeaderKey \cup {"encoding"}

TypeOK ==
  /\ fmtcode \in FmtCodes
  /\ toks \in Seq(Units)
  /\ phase \in {"start", "parse", "encode", "emit", "done", "error", "crash"}
  /\ pos \in 1..(MaxToks + 2)
  /\ \A n \in 1..Len(opts) : opts[n][1] \in OptionNames
  /\ \A n \in 1..Len(headers) :
       headers[n][1] \in {"X-GP-FORMAT"} \cup
                         {OptionHeaderKey[o] : o \in DOMAIN OptionHeaderKey}
  /\ ix \in 1..(Len(copyFmtOpts) + 1)
  /\ dataEncoding \in {"none", TableEncoding}

(***************************************************************************)
(* The error label of parseCopyFormatString reports a string that ends     *)
(* where a token is expected as "parse error at end of line": no string    *)
(* makes the parser hand a NULL token to pg_strcasecmp.                    *)
(***************************************************************************)
NoNullTokenCompared == phase /= "crash"
=============================================================================
