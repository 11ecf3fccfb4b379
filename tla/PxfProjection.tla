---------------------------- MODULE PxfProjection ----------------------------
(***************************************************************************)
(* The projection encoder: the projection block of build_http_headers and  *)
(* add_projection_desc_httpheader of src/external-table/src/pxfheaders.c   *)
(* (the PG_VERSION_NUM >= 90400 branch), which tell the remote service     *)
(* which columns a scan needs, as indices among the columns that are not   *)
(* dropped.                                                                *)
(*                                                                         *)
(* The inputs are chosen in Init: the dropped flags of the relation, the   *)
(* simple Vars of the projection (pi_varNumbers), the non-simple target    *)
(* expressions (pi_targetlist), the columns the WHERE clause reads, and    *)
(* what extractPxfAttributes (pxffilters.c, outside this repository)       *)
(* returns for them.  A target expression is the sequence of the nodes     *)
(* add_attnums_from_targetList meets in it: Vars, and Aggref/WindowFunc    *)
(* nodes over a column, whose arguments it does not enter.  A header is    *)
(* <<"PROJ", n>> for X-GP-ATTRS-PROJ or <<"IDX", n>> for                   *)
(* X-GP-ATTRS-PROJ-IDX, in the order they are appended.                    *)
(***************************************************************************)
EXTENDS Integers, SequencesExt

CONSTANTS
  NAtts,       \* tupdesc->natts
  MaxVars,     \* simple Vars, and non-simple expressions, per projection
  MaxExprLen,  \* nodes per non-simple target expression
  MaxQuals     \* list_length(input->quals)

ASSUME NAttsAssumption == NAtts \in Nat
ASSUME MaxVarsAssumption == MaxVars \in Nat
ASSUME MaxExprLenAssumption == MaxExprLen \in Nat \ {0}
ASSUME MaxQualsAssumption == MaxQuals \in Nat

Cols == 1..NAtts

(* Sequences over S of length at most n.                                   *)
SeqsUpTo(S, n) == UNION {[1..k -> S] : k \in 0..n}

(* A node of a target expression over one of the columns in S.            *)
Nodes(S) == [kind : {"Var", "Aggref", "WindowFunc"}, attno : S]

(* A whole-row reference to the relation: a Var with varattno 0.          *)
WholeRowVar == [kind |-> "Var", attno |-> 0]

VARIABLES
  dropped,    \* attisdropped of each attribute
  simpleVars, \* projInfo->pi_varNumbers, pi_numSimpleVars long
  targetList, \* projInfo->pi_targetlist: the non-simple expressions
  qualCols,   \* the columns the WHERE clause reads
  numQuals,   \* list_length(input->quals)
  supported,  \* qualsAreSupported after extractPxfAttributes
  qualsAttrs, \* the list extractPxfAttributes returns: 0-based attnums
  headers,    \* the projection headers appended, in order
  built       \* build_http_headers has passed the projection block

vars == <<dropped, simpleVars, targetList, qualCols, numQuals, supported,
          qualsAttrs, headers, built>>

Live == {c \in Cols : ~dropped[c]}

(***************************************************************************)
(* A query of the planner only refers to columns that are not dropped.     *)
(* extractPxfAttributes returns every column of the WHERE clause, as a     *)
(* 0-based attnum, when it supports all of its expressions; when it does   *)
(* not, it may have returned any part of them.                             *)
(***************************************************************************)
Init ==
  /\ dropped \in [Cols -> BOOLEAN]
  /\ simpleVars \in SeqsUpTo(Live, MaxVars)
  /\ targetList \in SeqsUpTo(SeqsUpTo(Nodes(Live) \cup {WholeRowVar},
                                       MaxExprLen) \ {<< >>},
                              MaxVars)
  /\ numQuals \in 0..MaxQuals
  /\ qualCols \in IF numQuals = 0 THEN {{}} ELSE SUBSET Live
  /\ supported \in IF numQuals = 0 THEN {TRUE} ELSE BOOLEAN
  /\ qualsAttrs \in
       IF supported
         THEN {SetToSortSeq({c - 1 : c \in qualCols}, <)}
         ELSE {SetToSortSeq({c - 1 : c \in Q}, <) : Q \in SUBSET qualCols}
  /\ headers = << >>
  /\ built = FALSE

(* add_attnums_from_targetList over every expression of pi_targetlist:     *)
(* the attno of each Var, in order, not entering Aggref or WindowFunc.     *)
(* The list starts with a 0 that the attno > InvalidAttrNumber test drops, *)
(* and is left out here.                                                   *)
WalkedAttnos ==
  LET vs(e) == SelectSeq(e, LAMBDA n : n.kind = "Var")
  IN FlattenSeq([k \in 1..Len(targetList) |->
                   [j \in 1..Len(vs(targetList[k])) |->
                      vs(targetList[k])[j].attno]])

(* dropped_count when the loop reaches attribute i.                        *)
DroppedBefore(i) == Cardinality({j \in 1..(i - 1) : dropped[j]})

(* The index of attribute i among the attributes that are not dropped.     *)
ShiftedIndex(i) == i - 1 - DroppedBefore(i)

(* The attnos the target-list loop keeps: attno > InvalidAttrNumber.       *)
TargetAttnos == SelectSeq(WalkedAttnos, LAMBDA a : a > 0)

(* Mutant: the target-list loop passes attno, not attno - 1.               *)
TargetListHeaders_attno ==
  [k \in 1..Len(TargetAttnos) |-> <<"IDX", TargetAttnos[k]>>]

(* The X-GP-ATTRS-PROJ-IDX headers of the target-list loop: attno - 1,     *)
(* with no shift for dropped attributes; numTargetList is their number.    *)
TargetListHeaders ==
  [k \in 1..Len(TargetAttnos) |-> <<"IDX", TargetAttnos[k] - 1>>]

(***************************************************************************)
(* add_projection_desc_httpheader: the target-list indices; then number =  *)
(* numTargetList + pi_numSimpleVars + list_length(qualsAttributes), and    *)
(* when it is 0 nothing more; otherwise X-GP-ATTRS-PROJ = number and, for  *)
(* each attribute that is not dropped and is in attrs_used (the simple     *)
(* Vars and qualsAttributes + 1), its shifted index.                       *)
(***************************************************************************)
ProjectionHeaders ==
  LET number == Len(TargetAttnos) + Len(simpleVars) + Len(qualsAttrs)
      attrsUsed == Range(simpleVars) \cup {a + 1 : a \in Range(qualsAttrs)}
      bitmap == SelectSeq([i \in Cols |-> i],
                          LAMBDA i : ~dropped[i] /\ i \in attrsUsed)
  IN IF number = 0 THEN TargetListHeaders
     ELSE TargetListHeaders \o <<<<"PROJ", number>>>>
          \o [k \in 1..Len(bitmap) |-> <<"IDX", ShiftedIndex(bitmap[k])>>]

(* Mutant: projection sent whatever extractPxfAttributes reports.          *)
ProjectionGate_always == TRUE

(* The test of build_http_headers: the WHERE clause was fully analysed and *)
(* yielded columns, or there is no WHERE clause.                           *)
ProjectionGate ==
  supported /\ (qualsAttrs /= << >> \/ numQuals = 0)

(* The projection block of build_http_headers for a scan with proj_info.   *)
BuildProjection ==
  /\ ~built
  /\ headers' = IF ProjectionGate THEN ProjectionHeaders ELSE << >>
  /\ built' = TRUE
  /\ UNCHANGED <<dropped, simpleVars, targetList, qualCols, numQuals,
                 supported, qualsAttrs>>

Next == BuildProjection

Spec == Init /\ [][Next]_vars

-----------------------------------------------------------------------------

TypeOK ==
  /\ dropped \in [Cols -> BOOLEAN]
  /\ simpleVars \in Seq(Cols)
  /\ targetList \in Seq(Seq(Nodes(Cols) \cup {WholeRowVar}))
  /\ qualCols \subseteq Cols
  /\ numQuals \in Nat
  /\ supported \in BOOLEAN
  /\ qualsAttrs \in Seq(0..(NAtts - 1))
  /\ headers \in Seq(({"IDX"} \X (0..(NAtts - 1))) \cup ({"PROJ"} \X Nat))
  /\ built \in BOOLEAN

(* The position of column c, from 0, among the columns that are not       *)
(* dropped: the index the schema headers give it.                          *)
ReportedIndex(c) == Cardinality({j \in 1..c : ~dropped[j]}) - 1

ProjectedIndices == {h[2] : h \in {g \in Range(headers) : g[1] = "IDX"}}

ProjectionSent == headers /= << >>

(* The columns the scan reads: simple Vars, Vars of non-simple target      *)
(* expressions outside aggregates and window functions, and the columns of *)
(* the WHERE clause (ProjectionCoversWholeRow is about whole-row Vars).    *)
Needed == Range(simpleVars) \cup Range(TargetAttnos) \cup qualCols

(***************************************************************************)
(* A projection never hides a column the scan filters or returns as a      *)
(* simple Var: when projection headers are sent, the shifted index of      *)
(* every simple-Var column and of every column of the WHERE clause is      *)
(* among them.  This is what the fallback on an unsupported WHERE clause   *)
(* protects: without it the service would leave out columns the executor   *)
(* still evaluates the filter on.                                          *)
(***************************************************************************)
ProjectionCoversScanColumns ==
  built /\ ProjectionSent =>
    \A c \in Range(simpleVars) \cup qualCols :
      ReportedIndex(c) \in ProjectedIndices

(***************************************************************************)
(* spec.md 4.2: the projected indices are exactly the shifted indices of   *)
(* the needed columns, whether they come from simple Vars, from            *)
(* non-simple expressions or from the WHERE clause (for target lists with   *)
(* no whole-row Var, which ProjectionCoversWholeRow is about).             *)
(***************************************************************************)
ProjectionIndicesExact ==
  built /\ ProjectionSent /\ 0 \notin Range(WalkedAttnos) =>
    ProjectedIndices = {ReportedIndex(c) : c \in Needed}

(***************************************************************************)
(* spec.md 2 (ProjectionRequest): the projection holds every column the    *)
(* output expressions reference; a whole-row reference in a non-simple     *)
(* target expression references them all, so a projection sent beside one *)
(* must name every column that is not dropped.                             *)
(***************************************************************************)
ProjectionCoversWholeRow ==
  built /\ ProjectionSent /\ 0 \in Range(WalkedAttnos) =>
    \A c \in Live : ReportedIndex(c) \in ProjectedIndices

(***************************************************************************)
(* spec.md 4.2: X-GP-ATTRS-PROJ is the number of X-GP-ATTRS-PROJ-IDX       *)
(* headers sent.                                                           *)
(***************************************************************************)
ProjectionCountMatches ==
  built /\ ProjectionSent =>
    \E k \in 1..Len(headers) :
      /\ headers[k][1] = "PROJ"
      /\ headers[k][2] = Len(SelectSeq(headers, LAMBDA h : h[1] = "IDX"))
=============================================================================
