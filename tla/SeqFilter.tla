------------------------------ MODULE SeqFilter ------------------------------
(***************************************************************************)
(* The subsequence of the elements of a sequence that belong to a set, in  *)
(* their order: what SelectSeq(s, LAMBDA e : e \in P) is.  It is written   *)
(* as a function defined by recursion over the prefixes of s, so that the  *)
(* proofs of SeqFilter_proofs can reason about it through                  *)
(* FiniteNatInductiveDef; the properties of the encoders state what the    *)
(* service is told with it.                                                *)
(***************************************************************************)
EXTENDS Naturals, Sequences

(* FilterUpTo(s, P)[n]: the elements of P among s[1], ..., s[n].           *)
FilterUpTo(s, P) ==
  LET F[n \in 0..Len(s)] ==
        IF n = 0 THEN << >>
        ELSE IF s[n] \in P THEN Append(F[n - 1], s[n]) ELSE F[n - 1]
  IN F

Filter(s, P) == FilterUpTo(s, P)[Len(s)]
=============================================================================
