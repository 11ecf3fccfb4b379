-------------------------- MODULE MC_PxfCopyOptions --------------------------
(* Every fmtopts string of up to five units over the keywords of each      *)
(* branch, the separators and one value, for a text, a csv, a custom and   *)
(* an unknown format code.                                                 *)
EXTENDS PxfCopyGrammar

MC_Units == {"header", "delimiter", "force", "not", "null", "quote", "fill",
             "missing", "fields", "*", ",", "v"}
MC_MaxToks == 5
MC_FmtCodes == {"t", "c", "b", "x"}
=============================================================================
