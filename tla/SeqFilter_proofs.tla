--------------------------- MODULE SeqFilter_proofs ---------------------------
(***************************************************************************)
(* Lemmas about Filter (SeqFilter): the recursion that defines it, its     *)
(* type, and how it distributes over Append and concatenation.  Induction  *)
(* is done on the set of naturals with the property (NatSetInduction, from *)
(* WFMin), which the provers can instantiate, where NatInduction would     *)
(* need its operator parameter instantiated.                               *)
(***************************************************************************)
EXTENDS SeqFilter, NaturalsInduction, WellFoundedInduction, SequenceTheorems,
        TLAPS

(* Induction over Nat stated on the set of naturals that have the        *)
(* property, so that no operator has to be instantiated.                   *)
LEMMA NatSetInduction ==
  ASSUME NEW T, 0 \in T, \A n \in Nat : n \in T => n + 1 \in T
  PROVE  Nat \subseteq T
<1> SUFFICES ASSUME Nat \ T /= {} PROVE FALSE
  OBVIOUS
<1> DEFINE R == OpToRel(<, Nat)
<1>1. PICK x \in Nat \ T : \A y \in Nat \ T : ~(<<y, x>> \in R)
  BY NatLessThanWellFounded, WFMin
<1>2. x /= 0 /\ x - 1 \in Nat
  OBVIOUS
<1>3. x - 1 \in T
  <2>1. <<x - 1, x>> \in R
    BY <1>2 DEF OpToRel
  <2> QED  BY <1>1, <1>2, <2>1
<1> QED  BY <1>2, <1>3

(* The filtered prefixes satisfy the recursion that defines them.        *)
LEMMA FilterUpToStep ==
  ASSUME NEW S, NEW s \in Seq(S), NEW P
  PROVE  /\ FilterUpTo(s, P)[0] = << >>
         /\ \A n \in 1..Len(s) :
              FilterUpTo(s, P)[n] =
                IF s[n] \in P THEN Append(FilterUpTo(s, P)[n - 1], s[n])
                ELSE FilterUpTo(s, P)[n - 1]
<1> DEFINE Def(v, n) == IF s[n] \in P THEN Append(v, s[n]) ELSE v
           F == FilterUpTo(s, P)
<1>1. FiniteNatInductiveDefHypothesis(F, << >>, Def, 0, Len(s))
  BY DEF FiniteNatInductiveDefHypothesis, FilterUpTo
<1>2. Len(s) \in Nat /\ 0 \in Nat
  OBVIOUS
<1>3. FiniteNatInductiveDefConclusion(F, << >>, Def, 0, Len(s))
  BY <1>1, <1>2, FiniteNatInductiveDef
<1>4. F = [i \in 0..Len(s) |-> IF i = 0 THEN << >> ELSE Def(F[i - 1], i)]
  BY <1>3, Zenon DEF FiniteNatInductiveDefConclusion
<1> HIDE DEF F, Def
<1>5. F[0] = << >>
  BY <1>2, <1>4
<1>6. \A n \in 1..Len(s) : F[n] = Def(F[n - 1], n)
  BY <1>2, <1>4
<1> QED  BY <1>5, <1>6, Zenon DEF F, Def

(* From here on the recursion is used only through FilterUpToStep.       *)
HIDE DEF FilterUpTo

(* Each filtered prefix is a sequence of elements of S in P, no longer    *)
(* than the prefix.                                                       *)
LEMMA FilterUpToType ==
  ASSUME NEW S, NEW s \in Seq(S), NEW P
  PROVE  \A n \in 0..Len(s) : /\ FilterUpTo(s, P)[n] \in Seq(S \cap P)
                              /\ Len(FilterUpTo(s, P)[n]) <= n
<1> DEFINE F == FilterUpTo(s, P)
           Q(n) == n \in 0..Len(s) => F[n] \in Seq(S \cap P) /\ Len(F[n]) <= n
<1>1. /\ F[0] = << >>
      /\ \A n \in 1..Len(s) :
           F[n] = IF s[n] \in P THEN Append(F[n - 1], s[n]) ELSE F[n - 1]
  BY FilterUpToStep
<1> HIDE DEF F
<1>2. Q(0)
  BY <1>1
<1>3. \A n \in Nat : Q(n) => Q(n + 1)
  <2> SUFFICES ASSUME NEW n \in Nat, Q(n), n + 1 \in 0..Len(s)
               PROVE  F[n+1] \in Seq(S \cap P) /\ Len(F[n+1]) <= n + 1
    OBVIOUS
  <2>1. F[n] \in Seq(S \cap P) /\ Len(F[n]) <= n /\ s[n+1] \in S
    OBVIOUS
  <2>2. F[n+1] = IF s[n+1] \in P THEN Append(F[n], s[n+1]) ELSE F[n]
    BY <1>1
  <2>3. CASE s[n+1] \in P
    BY <2>1, <2>2, <2>3
  <2>4. CASE s[n+1] \notin P
    BY <2>1, <2>2, <2>4
  <2> QED  BY <2>3, <2>4
<1> HIDE DEF Q
<1>4. \A n \in Nat : Q(n)
  <2> DEFINE T == {n \in Nat : Q(n)}
  <2>1. 0 \in T /\ \A n \in Nat : n \in T => n + 1 \in T
    BY <1>2, <1>3
  <2> HIDE DEF T
  <2>2. Nat \subseteq T
    BY <2>1, NatSetInduction
  <2> QED  BY <2>2 DEF T
<1> QED  BY <1>4 DEF Q, F

(* Filter gives a sequence of elements of S, no longer than its argument. *)
LEMMA FilterType ==
  ASSUME NEW S, NEW s \in Seq(S), NEW P
  PROVE  Filter(s, P) \in Seq(S) /\ Len(Filter(s, P)) <= Len(s)
<1>0. Len(s) \in 0..Len(s)
  OBVIOUS
<1>1. Filter(s, P) \in Seq(S \cap P) /\ Len(Filter(s, P)) <= Len(s)
  <2>1. FilterUpTo(s, P)[Len(s)] \in Seq(S \cap P)
        /\ Len(FilterUpTo(s, P)[Len(s)]) <= Len(s)
    BY <1>0, FilterUpToType
  <2> QED  BY <2>1 DEF Filter
<1>2. Seq(S \cap P) \subseteq Seq(S)
  OBVIOUS
<1> QED  BY <1>1, <1>2

(* Every element Filter keeps is in P.                                   *)
LEMMA FilterInSet ==
  ASSUME NEW S, NEW s \in Seq(S), NEW P
  PROVE  Filter(s, P) \in Seq(S \cap P)
<1>0. Len(s) \in 0..Len(s)
  OBVIOUS
<1>1. FilterUpTo(s, P)[Len(s)] \in Seq(S \cap P)
  BY <1>0, FilterUpToType
<1> QED  BY <1>1 DEF Filter

(* From here on Filter is used only through the lemmas above.             *)
HIDE DEF Filter

(* Two sequences that agree on their first m elements have the same       *)
(* filtered prefixes up to m.                                               *)
LEMMA FilterUpToPrefix ==
  ASSUME NEW S, NEW s \in Seq(S), NEW t \in Seq(S), NEW P,
         NEW m \in 0..Len(s), m <= Len(t), \A j \in 1..m : s[j] = t[j]
  PROVE  \A n \in 0..m : FilterUpTo(s, P)[n] = FilterUpTo(t, P)[n]
<1> DEFINE F == FilterUpTo(s, P)
           G == FilterUpTo(t, P)
           Q(n) == n \in 0..m => F[n] = G[n]
<1>1. /\ F[0] = << >>
      /\ \A n \in 1..Len(s) :
           F[n] = IF s[n] \in P THEN Append(F[n - 1], s[n]) ELSE F[n - 1]
  BY FilterUpToStep
<1>2. /\ G[0] = << >>
      /\ \A n \in 1..Len(t) :
           G[n] = IF t[n] \in P THEN Append(G[n - 1], t[n]) ELSE G[n - 1]
  BY FilterUpToStep
<1> HIDE DEF F, G
<1>3. Q(0)
  BY <1>1, <1>2
<1>4. \A n \in Nat : Q(n) => Q(n + 1)
  <2> SUFFICES ASSUME NEW n \in Nat, Q(n), n + 1 \in 0..m PROVE F[n+1] = G[n+1]
    OBVIOUS
  <2>1. F[n] = G[n] /\ s[n+1] = t[n+1]
    OBVIOUS
  <2>2. F[n+1] = IF s[n+1] \in P THEN Append(F[n], s[n+1]) ELSE F[n]
    BY <1>1
  <2>3. G[n+1] = IF t[n+1] \in P THEN Append(G[n], t[n+1]) ELSE G[n]
    BY <1>2
  <2> QED  BY <2>1, <2>2, <2>3
<1> HIDE DEF Q
<1>5. \A n \in Nat : Q(n)
  <2> DEFINE T == {n \in Nat : Q(n)}
  <2>1. 0 \in T /\ \A n \in Nat : n \in T => n + 1 \in T
    BY <1>3, <1>4, SMTT(30)
  <2> HIDE DEF T
  <2>2. Nat \subseteq T
    BY <2>1, NatSetInduction
  <2> QED  BY <2>2 DEF T
<1> QED  BY <1>5 DEF Q, F, G
(* Nothing is kept of the empty sequence.                                  *)
LEMMA FilterEmpty ==
  ASSUME NEW P
  PROVE  Filter(<< >>, P) = << >>
<1>1. << >> \in Seq({})
  OBVIOUS
<1> QED  BY <1>1, FilterUpToStep, ZenonT(30) DEF Filter

(* One more element is kept at the end exactly when it is in P.           *)
LEMMA FilterAppend ==
  ASSUME NEW S, NEW s \in Seq(S), NEW x \in S, NEW P
  PROVE  Filter(Append(s, x), P) =
           IF x \in P THEN Append(Filter(s, P), x) ELSE Filter(s, P)
<1> DEFINE t == Append(s, x)
<1>1. t \in Seq(S) /\ Len(t) = Len(s) + 1 /\ t[Len(s) + 1] = x
      /\ \A j \in 1..Len(s) : t[j] = s[j]
  OBVIOUS
<1> HIDE DEF t
<1>2. FilterUpTo(t, P)[Len(s)] = Filter(s, P)
  <2>1. Len(s) \in 0..Len(t) /\ Len(s) <= Len(s)
    BY <1>1
  <2>2. \A n \in 0..Len(s) : FilterUpTo(t, P)[n] = FilterUpTo(s, P)[n]
    BY <1>1, <2>1, FilterUpToPrefix
  <2> QED  BY <2>2 DEF Filter
<1>3. FilterUpTo(t, P)[Len(s) + 1] =
        IF x \in P THEN Append(FilterUpTo(t, P)[Len(s)], x)
        ELSE FilterUpTo(t, P)[Len(s)]
  <2>1. \A n \in 1..Len(t) :
          FilterUpTo(t, P)[n] =
            IF t[n] \in P THEN Append(FilterUpTo(t, P)[n - 1], t[n])
            ELSE FilterUpTo(t, P)[n - 1]
    BY <1>1, FilterUpToStep
  <2> QED  BY <1>1, <2>1
<1> QED  BY <1>1, <1>2, <1>3 DEF Filter, t

(* Filtering distributes over concatenation: what is kept of the headers  *)
(* appended by a step is appended to what was kept before it.             *)
LEMMA FilterConcat ==
  ASSUME NEW S, NEW s \in Seq(S), NEW t \in Seq(S), NEW P
  PROVE  Filter(s \o t, P) = Filter(s, P) \o Filter(t, P)
<1> DEFINE Q(u) == Filter(s \o u, P) = Filter(s, P) \o Filter(u, P)
           T == {n \in Nat : \A u \in Seq(S) : Len(u) = n => Q(u)}
<1> HIDE DEF T, Q
<1>1. 0 \in T
  <2> SUFFICES ASSUME NEW u \in Seq(S), Len(u) = 0 PROVE Q(u)
    BY DEF T
  <2>1. u = << >> /\ s \o u = s
    OBVIOUS
  <2> QED  BY <2>1, FilterEmpty, FilterType DEF Q
<1>2. \A n \in Nat : n \in T => n + 1 \in T
  <2> SUFFICES ASSUME NEW n \in Nat, n \in T PROVE n + 1 \in T
    OBVIOUS
  <2>a. \A w \in Seq(S) : Len(w) = n => Q(w)
    BY DEF T
  <2> SUFFICES ASSUME NEW u \in Seq(S), Len(u) = n + 1 PROVE Q(u)
    BY DEF T
  <2>0. u /= << >>
    OBVIOUS
  <2>1. PICK v \in Seq(S), e \in S : u = Append(v, e)
    BY <2>0, SequenceEmptyOrAppend, Zenon
  <2>2. Len(v) = n /\ Q(v)
    <3>1. Len(v) = n
      BY <2>1
    <3> QED  BY <3>1, <2>a
  <2> DEFINE sv == s \o v
  <2>3. s \o Append(v, e) = Append(sv, e) /\ sv \in Seq(S) /\ e \in S
    OBVIOUS
  <2> HIDE DEF sv
  <2>4. Filter(Append(sv, e), P) =
          IF e \in P THEN Append(Filter(sv, P), e) ELSE Filter(sv, P)
    BY ONLY <2>3, FilterAppend
  <2>5. Filter(Append(v, e), P) =
          IF e \in P THEN Append(Filter(v, P), e) ELSE Filter(v, P)
    BY FilterAppend
  <2>6. Filter(s, P) \in Seq(S)
    BY FilterType
  <2>7. Filter(v, P) \in Seq(S)
    BY FilterType
  <2>10. Filter(sv, P) = Filter(s, P) \o Filter(v, P)
    BY <2>2 DEF Q, sv
  <2>8. CASE e \in P
    <3>1. Filter(s \o u, P) = Append(Filter(s, P) \o Filter(v, P), e)
      BY <2>1, <2>3, <2>4, <2>8, <2>10
    <3>2. Append(Filter(s, P) \o Filter(v, P), e) =
            Filter(s, P) \o Append(Filter(v, P), e)
      <4> SUFFICES ASSUME NEW A \in Seq(S), NEW B \in Seq(S),
                          A = Filter(s, P), B = Filter(v, P)
                   PROVE  Append(A \o B, e) = A \o Append(B, e)
        BY <2>6, <2>7, Zenon
      <4>1. << e >> \in Seq(S) /\ A \o B \in Seq(S)
        BY ONLY ConcatProperties
      <4>2. Append(A \o B, e) = (A \o B) \o << e >>
        BY ONLY <4>1, AppendIsConcat
      <4>3. Append(B, e) = B \o << e >>
        BY ONLY AppendIsConcat
      <4>4. (A \o B) \o << e >> = A \o (B \o << e >>)
        BY ONLY <4>1, ConcatAssociative, SMTT(60)
      <4> QED  BY ONLY <4>2, <4>3, <4>4, Zenon
    <3> QED  BY <2>1, <2>5, <2>8, <3>1, <3>2 DEF Q
  <2>9. CASE e \notin P
    <3>1. Filter(s \o u, P) = Filter(s, P) \o Filter(v, P)
      BY <2>1, <2>3, <2>4, <2>9, <2>10
    <3>2. Filter(u, P) = Filter(v, P)
      BY <2>1, <2>5, <2>9
    <3> QED  BY <3>1, <3>2 DEF Q
  <2> QED  BY <2>8, <2>9
<1>3. Nat \subseteq T
  BY <1>1, <1>2, NatSetInduction
<1> QED  BY <1>3 DEF T, Q

(* A sequence with no element in P filters to the empty sequence.         *)
LEMMA FilterNone ==
  ASSUME NEW S, NEW s \in Seq(S), NEW P, \A n \in 1..Len(s) : s[n] \notin P
  PROVE  Filter(s, P) = << >>
<1> DEFINE F == FilterUpTo(s, P)
           Q(n) == n \in 0..Len(s) => F[n] = << >>
<1>1. /\ F[0] = << >>
      /\ \A n \in 1..Len(s) :
           F[n] = IF s[n] \in P THEN Append(F[n - 1], s[n]) ELSE F[n - 1]
  BY FilterUpToStep
<1> HIDE DEF F
<1>2. Q(0)
  BY <1>1
<1>3. \A n \in Nat : Q(n) => Q(n + 1)
  <2> SUFFICES ASSUME NEW n \in Nat, Q(n), n + 1 \in 0..Len(s) PROVE F[n+1] = << >>
    OBVIOUS
  <2>1. F[n] = << >> /\ s[n+1] \notin P
    OBVIOUS
  <2>2. F[n+1] = IF s[n+1] \in P THEN Append(F[n], s[n+1]) ELSE F[n]
    BY <1>1
  <2> QED  BY <2>1, <2>2
<1> HIDE DEF Q
<1>4. \A n \in Nat : Q(n)
  <2> DEFINE T == {n \in Nat : Q(n)}
  <2>1. 0 \in T /\ \A n \in Nat : n \in T => n + 1 \in T
    BY <1>2, <1>3
  <2> HIDE DEF T
  <2>2. Nat \subseteq T
    BY <2>1, NatSetInduction
  <2> QED  BY <2>2 DEF T
<1> QED  BY <1>4 DEF Q, Filter, F

(* A sequence whose elements are all in P filters to itself.              *)
LEMMA FilterAll ==
  ASSUME NEW S, NEW s \in Seq(S), NEW P, \A n \in 1..Len(s) : s[n] \in P
  PROVE  Filter(s, P) = s
<1> DEFINE F == FilterUpTo(s, P)
           Q(n) == n \in 0..Len(s) => F[n] = SubSeq(s, 1, n)
<1>1. /\ F[0] = << >>
      /\ \A n \in 1..Len(s) :
           F[n] = IF s[n] \in P THEN Append(F[n - 1], s[n]) ELSE F[n - 1]
  BY FilterUpToStep
<1> HIDE DEF F
<1>2. Q(0)
  BY <1>1
<1>3. \A n \in Nat : Q(n) => Q(n + 1)
  <2> SUFFICES ASSUME NEW n \in Nat, Q(n), n + 1 \in 0..Len(s)
               PROVE  F[n+1] = SubSeq(s, 1, n + 1)
    OBVIOUS
  <2>1. F[n] = SubSeq(s, 1, n) /\ s[n+1] \in P
    OBVIOUS
  <2>2. F[n+1] = IF s[n+1] \in P THEN Append(F[n], s[n+1]) ELSE F[n]
    BY <1>1
  <2>3. Append(SubSeq(s, 1, n), s[n+1]) = SubSeq(s, 1, n + 1)
    OBVIOUS
  <2> QED  BY <2>1, <2>2, <2>3
<1> HIDE DEF Q
<1>4. \A n \in Nat : Q(n)
  <2> DEFINE T == {n \in Nat : Q(n)}
  <2>1. 0 \in T /\ \A n \in Nat : n \in T => n + 1 \in T
    BY <1>2, <1>3
  <2> HIDE DEF T
  <2>2. Nat \subseteq T
    BY <2>1, NatSetInduction
  <2> QED  BY <2>2 DEF T
<1>5. SubSeq(s, 1, Len(s)) = s
  OBVIOUS
<1> QED  BY <1>4, <1>5 DEF Q, Filter, F

(* A one-element sequence keeps its element exactly when it is in P.       *)
LEMMA FilterSingleton ==
  ASSUME NEW S, NEW x \in S, NEW P
  PROVE  Filter(<<x>>, P) = IF x \in P THEN <<x>> ELSE << >>
<1>1. << >> \in Seq(S) /\ Append(<< >>, x) = <<x>>
  OBVIOUS
<1>2. Filter(Append(<< >>, x), P) =
        IF x \in P THEN Append(Filter(<< >>, P), x) ELSE Filter(<< >>, P)
  BY <1>1, FilterAppend
<1> QED  BY <1>1, <1>2, FilterEmpty

(* Of a sequence whose first element is the only one in P, that element    *)
(* alone is kept.                                                          *)
LEMMA FilterFirstOnly ==
  ASSUME NEW S, NEW s \in Seq(S), NEW P, Len(s) >= 1, s[1] \in P,
         \A n \in 2..Len(s) : s[n] \notin P
  PROVE  Filter(s, P) = <<s[1]>>
<1> DEFINE hd == <<s[1]>>
           tl == Tail(s)
<1>1. s = hd \o tl /\ hd \in Seq(S) /\ tl \in Seq(S) /\ s[1] \in S
  OBVIOUS
<1>2. \A n \in 1..Len(tl) : tl[n] \notin P
  OBVIOUS
<1> HIDE DEF hd, tl
<1>3. Filter(tl, P) = << >>
  BY <1>1, <1>2, FilterNone
<1>4. Filter(hd, P) = <<s[1]>>
  BY <1>1, FilterSingleton DEF hd
<1>5. Filter(hd \o tl, P) = Filter(hd, P) \o Filter(tl, P)
  BY <1>1, FilterConcat
<1> QED  BY <1>1, <1>3, <1>4, <1>5
=============================================================================
