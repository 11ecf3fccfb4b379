-------------------------- MODULE MC_PxfProjection --------------------------
(* PxfProjection on every relation of three attributes, with up to two      *)
(* simple Vars and two non-simple expressions of one node, and up to *)
(* one WHERE condition.                                                     *)
EXTENDS PxfProjection

MC_NAtts == 3
MC_MaxVars == 2
MC_MaxExprLen == 1
MC_MaxQuals == 1
=============================================================================
