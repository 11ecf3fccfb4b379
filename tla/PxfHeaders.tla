----------------------------- MODULE PxfHeaders -----------------------------
(***************************************************************************)
(* build_http_headers of src/external-table/src/pxfheaders.c, block by     *)
(* block: the format block (X-GP-FORMAT and the COPY options, detailed in  *)
(* PxfCopyOptions), the schema (detailed in PxfTupleDesc), the projection  *)
(* (detailed in PxfProjection), the session headers with the user check,   *)
(* the alignment, the location headers, add_location_options_httpheader   *)
(* with normalize_key_name (pxfutils.c), the full URI, the filter headers  *)
(* and the Connection override.  The blocks detailed elsewhere append one  *)
(* representative header here; values are tags, not strings.              *)
(***************************************************************************)
EXTENDS Naturals, Sequences, FiniteSets, Functions

CONSTANTS
  Upper,    \* the upper-case form of each option key (asc_toupper)
  FmtKeys,  \* names of the COPY options parseCopyFormatString can return
  LocKeys,  \* keys of LOCATION options, "" included (gphduri->options)
  MaxOpts   \* most options of each kind

(* The empty string: an unknown user, or an option with an empty key.    *)
Empty == ""

ASSUME KeysAssumption ==
  /\ FmtKeys \subseteq DOMAIN Upper
  /\ LocKeys \subseteq DOMAIN Upper \cup {Empty}
  /\ MaxOpts \in Nat

NULL == "<null>"

(* normalize_key_name: "X-GP-OPTIONS-" and the key in upper case.          *)
OptKey(k) == "X-GP-OPTIONS-" \o Upper[k]

(* Option lists without a repeated key, of at most MaxOpts entries.        *)
OptLists(S) == {s \in UNION {[1..n -> S] : n \in 0..MaxOpts} : IsInjective(s)}

VARIABLES
  rel,          \* input->rel is set
  fmtKnown,     \* get_format_name and parseCopyFormatString succeed
  fmtOpts,      \* the COPY options other than encoding, in list order
  projected,    \* X-GP-ATTRS-PROJ goes out: gate passed and attrs_projected > 0
  user,         \* ev.GP_USER: "" when unknown
  locOpts,      \* the keys of gphduri->options, in order
  filter,       \* filterstr /= NULL
  pc,           \* the block build_http_headers is at, "done" or "error"
  ix,           \* index of the foreach over gphduri->options
  headers,      \* the headers appended: <<key, value>>
  dataEncoding, \* data_encoding
  relname,      \* relname
  relnamespace  \* relnamespace

vars == <<rel, fmtKnown, fmtOpts, projected, user, locOpts, filter, pc, ix,
          headers, dataEncoding, relname, relnamespace>>

(* The inputs of one call; data_encoding and relnamespace start NULL and   *)
(* relname is the URI's data path (lines 58-64).                           *)
Init ==
  /\ rel \in BOOLEAN
  /\ fmtKnown \in BOOLEAN
  /\ fmtOpts \in OptLists(FmtKeys)
  /\ projected \in BOOLEAN
  /\ user \in {Empty, "u"}
  /\ locOpts \in OptLists(LocKeys)
  /\ filter \in BOOLEAN
  /\ pc = "format"
  /\ ix = 1
  /\ headers = << >>
  /\ dataEncoding = NULL
  /\ relname = "data"
  /\ relnamespace = NULL

Inputs == <<rel, fmtKnown, fmtOpts, projected, user, locOpts, filter>>

(***************************************************************************)
(* The rel /= NULL block: X-GP-FORMAT, each COPY option but encoding as    *)
(* X-GP-OPTIONS-<NAME>, data_encoding from the encoding option, the        *)
(* schema headers, and the relation's own name and namespace.  An unknown  *)
(* format code or a malformed fmtopts raises an ERROR.                     *)
(***************************************************************************)
FormatBlock ==
  /\ pc = "format"
  /\ IF ~rel
       THEN pc' = "projection" /\ UNCHANGED <<headers, dataEncoding, relname,
                                              relnamespace>>
     ELSE IF ~fmtKnown
       THEN pc' = "error" /\ UNCHANGED <<headers, dataEncoding, relname,
                                         relnamespace>>
     ELSE /\ headers' = <<<<"X-GP-FORMAT", "fmt">>>>
                        \o [i \in DOMAIN fmtOpts |-> <<OptKey(fmtOpts[i]), "fmt">>]
                        \o <<<<"X-GP-ATTRS", "schema">>>>
          /\ dataEncoding' = "enc"
          /\ relname' = "rel"
          /\ relnamespace' = "nsp"
          /\ pc' = "projection"
  /\ UNCHANGED <<Inputs, ix>>

(* The projection block.  projected folds the gate and the return of     *)
(* add_projection_desc_httpheader when no column is counted (line 444)    *)
(* into one input: it holds exactly when X-GP-ATTRS-PROJ is sent.          *)
ProjectionBlock ==
  /\ pc = "projection"
  /\ headers' = IF projected THEN Append(headers, <<"X-GP-ATTRS-PROJ", "proj">>)
                ELSE headers
  /\ pc' = "session"
  /\ UNCHANGED <<Inputs, ix, dataEncoding, relname, relnamespace>>

SessionKeys == <<"X-GP-ENCODED-HEADER-VALUES", "X-GP-USER", "X-GP-SEGMENT-ID",
                 "X-GP-SEGMENT-COUNT", "X-GP-XID", "X-GP-PXF-API-VERSION",
                 "X-GP-SESSION-ID", "X-GP-COMMAND-COUNT", "X-GP-ALIGNMENT">>

(* The user check, the session headers and add_alignment_size_httpheader.  *)
SessionBlock ==
  /\ pc = "session"
  /\ IF user = Empty
       THEN pc' = "error" /\ UNCHANGED headers
       ELSE /\ headers' = headers \o [i \in DOMAIN SessionKeys |->
                                        <<SessionKeys[i], "session">>]
            /\ pc' = "location"
  /\ UNCHANGED <<Inputs, ix, dataEncoding, relname, relnamespace>>

(* The URI data and encoding headers, ahead of the location options.       *)
LocationBlock ==
  /\ pc = "location"
  /\ headers' = headers \o <<<<"X-GP-URL-HOST", "uri">>, <<"X-GP-URL-PORT", "uri">>,
                            <<"X-GP-DATA-DIR", "uri">>,
                            <<"X-GP-TABLE-NAME", relname>>,
                            <<"X-GP-SCHEMA-NAME", relnamespace>>,
                            <<"X-GP-DATA-ENCODING", dataEncoding>>,
                            <<"X-GP-DATABASE-ENCODING", "db">>>>
  /\ pc' = "options"
  /\ UNCHANGED <<Inputs, ix, dataEncoding, relname, relnamespace>>

(* churl_headers_override: the value of an existing key is replaced, and   *)
(* a missing key is appended.                                              *)
Override(hs, k, v) ==
  IF \E i \in DOMAIN hs : hs[i][1] = k
    THEN [i \in DOMAIN hs |-> IF hs[i][1] = k THEN <<k, v>> ELSE hs[i]]
    ELSE Append(hs, <<k, v>>)

(* Mutant: the LOCATION option is sent under its own key.                 *)
LocationOption_rawKey ==
  /\ pc = "options"
  /\ ix <= Len(locOpts)
  /\ IF locOpts[ix] = Empty
       THEN pc' = "error" /\ UNCHANGED headers
       ELSE headers' = Append(headers, <<locOpts[ix], "loc">>) /\ UNCHANGED pc
  /\ ix' = ix + 1
  /\ UNCHANGED <<Inputs, dataEncoding, relname, relnamespace>>

(* One iteration of add_location_options_httpheader; normalize_key_name   *)
(* raises an ERROR on an empty key.                                        *)
LocationOption ==
  /\ pc = "options"
  /\ ix <= Len(locOpts)
  /\ IF locOpts[ix] = Empty
       THEN pc' = "error" /\ UNCHANGED headers
       ELSE headers' = Append(headers, <<OptKey(locOpts[ix]), "loc">>)
            /\ UNCHANGED pc
  /\ ix' = ix + 1
  /\ UNCHANGED <<Inputs, dataEncoding, relname, relnamespace>>

LocationOptionsDone ==
  /\ pc = "options"
  /\ ix > Len(locOpts)
  /\ pc' = "tail"
  /\ UNCHANGED <<Inputs, ix, headers, dataEncoding, relname, relnamespace>>

FilterHeaders ==
  IF filter THEN <<<<"X-GP-FILTER", "filter">>, <<"X-GP-HAS-FILTER", "1">>>>
  ELSE <<<<"X-GP-HAS-FILTER", "0">>>>

(* Mutant: Connection is overridden before the URI and filter headers.    *)
TailBlock_connectionFirst ==
  /\ pc = "tail"
  /\ headers' = Override(headers, "Connection", "close")
                \o <<<<"X-GP-URI", "uri">>>> \o FilterHeaders
  /\ pc' = "done"
  /\ UNCHANGED <<Inputs, ix, dataEncoding, relname, relnamespace>>

(* Mutant: no X-GP-HAS-FILTER when there is no filter (the else dropped).  *)
TailBlock_noElse ==
  /\ pc = "tail"
  /\ headers' = Override(headers \o <<<<"X-GP-URI", "uri">>>>
                          \o (IF filter THEN FilterHeaders ELSE << >>),
                         "Connection", "close")
  /\ pc' = "done"
  /\ UNCHANGED <<Inputs, ix, dataEncoding, relname, relnamespace>>

(* The full URI, the filter headers and Connection: close.                *)
TailBlock ==
  /\ pc = "tail"
  /\ headers' = Override(headers \o <<<<"X-GP-URI", "uri">>>> \o FilterHeaders,
                         "Connection", "close")
  /\ pc' = "done"
  /\ UNCHANGED <<Inputs, ix, dataEncoding, relname, relnamespace>>

Next ==
  \/ FormatBlock \/ ProjectionBlock \/ SessionBlock \/ LocationBlock
  \/ LocationOption \/ LocationOptionsDone \/ TailBlock

Spec == Init /\ [][Next]_vars
-----------------------------------------------------------------------------

OptionKeys == {OptKey(k) : k \in DOMAIN Upper}

LocationKeys == {"X-GP-URL-HOST", "X-GP-URL-PORT", "X-GP-DATA-DIR",
                 "X-GP-TABLE-NAME", "X-GP-SCHEMA-NAME", "X-GP-DATA-ENCODING",
                 "X-GP-DATABASE-ENCODING"}

FixedKeys == Range(SessionKeys) \cup LocationKeys \cup
             {"X-GP-FORMAT", "X-GP-ATTRS", "X-GP-ATTRS-PROJ", "X-GP-URI",
              "X-GP-FILTER", "X-GP-HAS-FILTER", "Connection"}

(* normalize_key_name puts every LOCATION and COPY option under the       *)
(* "X-GP-OPTIONS-" prefix, which no fixed header name starts with, so an   *)
(* option header never takes the name of another header.                   *)
ASSUME OptionKeysAssumption == \A k \in DOMAIN Upper : OptKey(k) \notin FixedKeys

Values == {"fmt", "schema", "proj", "session", "uri", "loc", "filter", "1",
           "0", "close", "db", "enc", "rel", "nsp", "data", NULL}

TypeOK ==
  /\ pc \in {"format", "projection", "session", "location", "options",
             "tail", "done", "error"}
  /\ ix \in 1..(MaxOpts + 1)
  /\ headers \in Seq((FixedKeys \cup OptionKeys) \X Values)
  /\ dataEncoding \in {NULL, "enc"}

(* How many headers have key k.                                            *)
Count(k) == Cardinality({i \in DOMAIN headers : headers[i][1] = k})

(* The value of the header with key k (one is assumed).                    *)
ValueOf(k) == headers[CHOOSE i \in DOMAIN headers : headers[i][1] = k][2]

(***************************************************************************)
(* spec.md 4.3 and 6: a finished build has each session, location, URI and *)
(* Connection header exactly once, X-GP-FORMAT and the schema exactly when *)
(* the relation is known, the projection exactly when its gate passed,     *)
(* X-GP-FILTER exactly when there is a filter, and X-GP-HAS-FILTER always, *)
(* "1" or "0" accordingly.                                                 *)
(***************************************************************************)
HeadersComplete ==
  pc = "done" =>
    /\ \A k \in Range(SessionKeys) \cup LocationKeys
                \cup {"X-GP-URI", "X-GP-HAS-FILTER", "Connection"} : Count(k) = 1
    /\ Count("X-GP-FORMAT") = (IF rel THEN 1 ELSE 0)
    /\ Count("X-GP-ATTRS") = (IF rel THEN 1 ELSE 0)
    /\ Count("X-GP-ATTRS-PROJ") = (IF projected THEN 1 ELSE 0)
    /\ Count("X-GP-FILTER") = (IF filter THEN 1 ELSE 0)
    /\ ValueOf("X-GP-HAS-FILTER") = (IF filter THEN "1" ELSE "0")

(* The group of spec.md 4.3 a header belongs to, in the order given there. *)
Rank(h) ==
  CASE h[1] = "X-GP-FORMAT" \/ (h[1] \in OptionKeys /\ h[2] = "fmt") -> 0
    [] h[1] = "X-GP-ATTRS"                                         -> 1
    [] h[1] = "X-GP-ATTRS-PROJ"                                    -> 2
    [] h[1] \in Range(SessionKeys) \ {"X-GP-ALIGNMENT"}            -> 3
    [] h[1] = "X-GP-ALIGNMENT"                                     -> 4
    [] h[1] \in LocationKeys                                       -> 5
    [] h[1] \in OptionKeys /\ h[2] /= "fmt"                        -> 6
    [] h[1] = "X-GP-URI"                                           -> 7
    [] h[1] \in {"X-GP-FILTER", "X-GP-HAS-FILTER"}                 -> 8
    [] OTHER                                                       -> 9

(***************************************************************************)
(* spec.md 4.3: the headers are composed in the order format, schema,      *)
(* projection, session, alignment, location, LOCATION options, URI,        *)
(* filter, and the Connection header last, at every point of the build     *)
(* (an ERROR leaves a prefix of that order in the header list).            *)
(***************************************************************************)
HeaderGroupsInSpecOrder ==
  \A i, j \in DOMAIN headers : i < j => Rank(headers[i]) <= Rank(headers[j])
=============================================================================
