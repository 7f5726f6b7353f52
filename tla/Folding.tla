-------------------------------- MODULE Folding --------------------------------
(***************************************************************************)
(* What FoldLeft computes, one element after the other, for any operator.  *)
(* No prover can apply a lemma about an operator it has for a parameter;   *)
(* but the operator may be a constant, and the module be instantiated for  *)
(* each operator that something is folded with.  The first argument of Op  *)
(* is whatever it needs besides.  An instance takes along all that its     *)
(* module extends, so this one extends little: that induction over the     *)
(* numbers is sound is a hypothesis here, which PostReaderProofs proves.   *)
(***************************************************************************)
EXTENDS Integers, Sequences, Folds
CONSTANT Op(_, _, _)

\* FoldLeft of SequencesExt, written out.
Max(S) == CHOOSE x \in S : \A y \in S : x >= y
Fold(p, base, s) ==
  MapThenFoldSet(LAMBDA x, v : Op(p, v, x), base, LAMBDA i : s[i], LAMBDA S : Max(S), DOMAIN s)

\* Every value stays in V.
Keeps(p, V, X) == \A v \in V, x \in X : Op(p, v, x) \in V

-----------------------------------------------------------------------------
(* Numbers.                                                                *)

\* Induction over the numbers.
Inductive == \A T : 0 \in T /\ (\A n \in Nat : n \in T => n + 1 \in T) => Nat \subseteq T

\* Some number of a set with a bound is the greatest.
LEMMA GreatestOf ==
  ASSUME Inductive, NEW n \in Nat, NEW S \in SUBSET (1 .. n), S # {}
  PROVE  Max(S) \in S /\ \A m \in S : m <= Max(S)
<1> DEFINE Bound(m) == \A x \in S : x <= m
           T == {m \in Nat : Bound(m) => \E x \in S : \A y \in S : x >= y}
<1>0. \A x \in S : x \in Int /\ x >= 1
  OBVIOUS
<1>1. 0 \in T
  <2>1. PICK x \in S : TRUE
    OBVIOUS
  <2>2. ~(x <= 0)
    BY <1>0
  <2> QED
    BY <2>1, <2>2
<1>2. ASSUME NEW m \in Nat, m \in T PROVE m + 1 \in T
  <2> SUFFICES ASSUME Bound(m + 1) PROVE \E x \in S : \A y \in S : x >= y
    OBVIOUS
  <2>1. CASE m + 1 \in S
    BY <1>0, <2>1
  <2>2. CASE m + 1 \notin S
    <3>1. Bound(m)
      BY <1>0, <2>2
    <3> QED
      BY <1>2, <3>1
  <2> QED
    BY <2>1, <2>2
<1>3. Bound(n)
  OBVIOUS
<1> HIDE DEF T
<1>4. Nat \subseteq T
  BY <1>1, <1>2 DEF Inductive
<1>5. \E x \in S : \A y \in S : x >= y
  BY <1>3, <1>4 DEF T
<1>6. PICK x \in S : x = Max(S) /\ \A y \in S : x >= y
  BY <1>5 DEF Max
<1>7. \A y \in S : y <= x
  BY <1>0, <1>6
<1> QED
  BY <1>6, <1>7

-----------------------------------------------------------------------------
(* The fold.                                                               *)

\* The function over sets of positions by which FoldLeft is defined.
Iterates(f, n, p, base, s) ==
  f = [S \in SUBSET (1 .. n) |->
         IF S = {} THEN base ELSE Op(p, f[S \ {Max(S)}], s[Max(S)])]

\* There is one, and its values are of the type.
LEMMA IteratesExists ==
  ASSUME Inductive, NEW p, NEW V, NEW X, NEW base \in V, NEW s \in Seq(X),
         Keeps(p, V, X)
  PROVE  \A n \in 0 .. Len(s) : \E f \in [SUBSET (1 .. n) -> V] : Iterates(f, n, p, base, s)
<1> DEFINE Q(n) == \E f \in [SUBSET (1 .. n) -> V] : Iterates(f, n, p, base, s)
           T == {n \in Nat : n \in 0 .. Len(s) => Q(n)}
<1>1. 0 \in T
  <2> DEFINE f == [S \in SUBSET (1 .. 0) |-> base]
  <2>1. \A S \in SUBSET (1 .. 0) : S = {}
    OBVIOUS
  <2>2. f \in [SUBSET (1 .. 0) -> V] /\ Iterates(f, 0, p, base, s)
    BY <2>1 DEF Iterates
  <2> QED
    BY <2>2
<1>2. ASSUME NEW n \in Nat, n \in T, n + 1 \in 0 .. Len(s)
      PROVE  Q(n + 1)
  <2>0. Len(s) \in Nat
    OBVIOUS
  <2>1. n \in 0 .. Len(s) /\ s[n + 1] \in X
    BY <1>2, <2>0
  <2>2. PICK f \in [SUBSET (1 .. n) -> V] : Iterates(f, n, p, base, s)
    BY <1>2, <2>1
  <2> DEFINE g == [S \in SUBSET (1 .. n + 1) |->
                     IF n + 1 \in S THEN Op(p, f[S \ {n + 1}], s[n + 1]) ELSE f[S]]
  <2>3. \A S \in SUBSET (1 .. n + 1) : S \ {n + 1} \in SUBSET (1 .. n)
    OBVIOUS
  <2>4. \A S \in SUBSET (1 .. n + 1) : n + 1 \notin S => S \in SUBSET (1 .. n)
    OBVIOUS
  <2>5. g \in [SUBSET (1 .. n + 1) -> V]
    BY <2>1, <2>2, <2>3, <2>4 DEF Keeps
  <2>6. ASSUME NEW S \in SUBSET (1 .. n + 1), S # {}
        PROVE  g[S] = Op(p, g[S \ {Max(S)}], s[Max(S)])
    <3> DEFINE m == Max(S)
    <3>0. n + 1 \in Nat
      OBVIOUS
    <3>1. m \in S /\ \A k \in S : k <= m
      BY <2>6, <3>0, GreatestOf
    <3>2. S \ {m} \in SUBSET (1 .. n + 1)
      OBVIOUS
    <3> HIDE DEF m
    <3>3. CASE n + 1 \in S
      <4>1. m = n + 1
        BY <3>1, <3>3
      <4>2. g[S \ {m}] = f[S \ {m}]
        <5>1. n + 1 \notin S \ {m}
          BY <4>1
        <5> QED
          BY <3>2, <5>1
      <4> QED
        BY <3>3, <4>1, <4>2 DEF m
    <3>4. CASE n + 1 \notin S
      <4>1. S \in SUBSET (1 .. n) /\ n + 1 \notin S \ {m}
        BY <2>4, <3>4
      <4>2. f[S] = Op(p, f[S \ {m}], s[m])
        BY <2>2, <2>6, <4>1 DEF Iterates, m
      <4> QED
        BY <3>2, <3>4, <4>1, <4>2 DEF m
    <3> QED
      BY <3>3, <3>4
  <2>7. g[{}] = base
    <3>1. {} \in SUBSET (1 .. n) /\ {} \in SUBSET (1 .. n + 1) /\ n + 1 \notin {}
      OBVIOUS
    <3>2. f[{}] = base
      BY <2>2, <3>1 DEF Iterates
    <3> QED
      BY <3>1, <3>2
  <2>8. g = [S \in SUBSET (1 .. n + 1) |-> g[S]]
    BY <2>5
  <2> HIDE DEF g
  <2>9. Iterates(g, n + 1, p, base, s)
    BY <2>6, <2>7, <2>8 DEF Iterates
  <2> QED
    BY <2>5, <2>9
<1> HIDE DEF Q
<1>3. Nat \subseteq T
  <2>1. \A n \in Nat : n \in T => n + 1 \in T
    BY <1>2
  <2> HIDE DEF T
  <2> QED
    BY <1>1, <2>1 DEF Inductive
<1>4. \A n \in 0 .. Len(s) : n \in Nat
  OBVIOUS
<1> QED
  BY <1>3, <1>4 DEF Q

\* A fold goes through the sequence: value after value, from the base on.
THEOREM FoldSteps ==
  ASSUME Inductive, NEW p, NEW V, NEW X, NEW base \in V, NEW s \in Seq(X),
         Keeps(p, V, X)
  PROVE  \E h \in [0 .. Len(s) -> V] :
           /\ h[0] = base
           /\ \A i \in 1 .. Len(s) : h[i] = Op(p, h[i - 1], s[i])
           /\ Fold(p, base, s) = h[Len(s)]
<1>1. PICK n \in Nat : n = Len(s)
  OBVIOUS
<1>2. DOMAIN s = 1 .. n
  BY <1>1
<1> DEFINE It == CHOOSE f : f = [S \in SUBSET (1 .. n) |->
                       IF S = {} THEN base ELSE Op(p, f[S \ {Max(S)}], s[Max(S)])]
<1>3. Fold(p, base, s) = It[1 .. n]
  BY <1>2 DEF Fold, MapThenFoldSet
<1>4. PICK f \in [SUBSET (1 .. n) -> V] : Iterates(f, n, p, base, s)
  <2>1. n \in 0 .. Len(s)
    BY <1>1
  <2> QED
    BY <2>1, IteratesExists
<1>5. It = [S \in SUBSET (1 .. n) |->
              IF S = {} THEN base ELSE Op(p, It[S \ {Max(S)}], s[Max(S)])]
  BY <1>4 DEF Iterates
<1> HIDE DEF It
<1> DEFINE h == [i \in 0 .. n |-> It[1 .. i]]
<1>6. It[{}] = base
  BY <1>5
<1>7. \A i \in 0 .. n : 1 .. i \in SUBSET (1 .. n)
  OBVIOUS
<1>8. ASSUME NEW i \in 1 .. n
      PROVE  It[1 .. i] = Op(p, It[1 .. i - 1], s[i])
  <2>1. 1 .. i \in SUBSET (1 .. n) /\ i \in 1 .. i /\ 1 .. i # {} /\ i \in Nat
    <3> HIDE DEF h
    <3>1. i \in 1 .. i /\ i \in Nat
      OBVIOUS
    <3>2. 1 .. i \subseteq 1 .. n
      OBVIOUS
    <3> QED
      BY <3>1, <3>2
  <2>2. Max(1 .. i) = i
    <3>1. Max(1 .. i) \in 1 .. i /\ \A m \in 1 .. i : m <= Max(1 .. i)
      BY <2>1, GreatestOf
    <3> QED
      BY <3>1
  <2>3. (1 .. i) \ {i} = 1 .. i - 1
    OBVIOUS
  <2> QED
    BY <1>5, <2>1, <2>2, <2>3
<1>9. h[0] = base /\ \A i \in 1 .. n : h[i] = Op(p, h[i - 1], s[i])
  <2>1. 1 .. 0 = {} /\ 0 \in 0 .. n
    OBVIOUS
  <2>2. \A i \in 1 .. n : i \in 0 .. n /\ i - 1 \in 0 .. n
    OBVIOUS
  <2> QED
    BY <1>6, <1>8, <2>1, <2>2
<1>10. h \in [0 .. n -> V]
  <2> DEFINE T == {i \in Nat : i \in 0 .. n => h[i] \in V}
  <2>1. 0 \in T
    BY <1>9
  <2>2. ASSUME NEW i \in Nat, i \in T PROVE i + 1 \in T
    <3> SUFFICES ASSUME i + 1 \in 0 .. n PROVE h[i + 1] \in V
      OBVIOUS
    <3>1. h[i] \in V /\ i + 1 \in 1 .. n /\ i + 1 - 1 = i
      BY <2>2
    <3>2. s[i + 1] \in X
      BY <1>1, <3>1
    <3>3. h[i + 1] = Op(p, h[i], s[i + 1])
      <4> HIDE DEF h
      <4> QED
        BY <1>9, <3>1
    <3> HIDE DEF h
    <3> QED
      BY <3>1, <3>2, <3>3 DEF Keeps
  <2> HIDE DEF T
  <2>3. Nat \subseteq T
    BY <2>1, <2>2 DEF Inductive
  <2>4. h = [i \in 0 .. n |-> h[i]]
    OBVIOUS
  <2> HIDE DEF h
  <2>5. \A i \in 0 .. n : h[i] \in V
    BY <2>3 DEF T
  <2> QED
    BY <2>4, <2>5
<1>11. h[n] = Fold(p, base, s)
  BY <1>3
<1> HIDE DEF h
<1> QED
  BY <1>1, <1>9, <1>10, <1>11

\* Nothing is folded, or one element more; the fold is of the type.
THEOREM FoldAppend ==
  ASSUME Inductive, NEW p, NEW V, NEW X, NEW base \in V, NEW s \in Seq(X),
         Keeps(p, V, X)
  PROVE  /\ Fold(p, base, << >>) = base
         /\ Fold(p, base, s) \in V
         /\ \A x \in X : Fold(p, base, Append(s, x)) = Op(p, Fold(p, base, s), x)
<1>1. PICK h \in [0 .. Len(s) -> V] :
        /\ h[0] = base
        /\ \A i \in 1 .. Len(s) : h[i] = Op(p, h[i - 1], s[i])
        /\ Fold(p, base, s) = h[Len(s)]
  BY FoldSteps
<1>2. PICK n \in Nat : n = Len(s)
  OBVIOUS
<1>3. Fold(p, base, s) \in V
  BY <1>1, <1>2
<1>4. Fold(p, base, << >>) = base
  <2>1. << >> \in Seq(X) /\ Len(<< >>) = 0
    OBVIOUS
  <2> QED
    BY <2>1, FoldSteps
<1>5. ASSUME NEW x \in X
      PROVE  Fold(p, base, Append(s, x)) = Op(p, Fold(p, base, s), x)
  <2> DEFINE t == Append(s, x)
  <2>1. /\ t \in Seq(X) /\ Len(t) = n + 1 /\ t[n + 1] = x
        /\ \A i \in 1 .. n : t[i] = s[i]
    BY <1>2
  <2>2. PICK g \in [0 .. n + 1 -> V] :
          /\ g[0] = base
          /\ \A i \in 1 .. n + 1 : g[i] = Op(p, g[i - 1], t[i])
          /\ Fold(p, base, t) = g[n + 1]
    BY <2>1, FoldSteps
  <2> HIDE DEF t
  <2> DEFINE T == {i \in Nat : i \in 0 .. n => g[i] = h[i]}
  <2>3. 0 \in T
    BY <1>1, <2>2
  <2>4. ASSUME NEW i \in Nat, i \in T PROVE i + 1 \in T
    <3> SUFFICES ASSUME i + 1 \in 0 .. n PROVE g[i + 1] = h[i + 1]
      OBVIOUS
    <3>1. g[i] = h[i] /\ i + 1 \in 1 .. n /\ i + 1 \in 1 .. n + 1 /\ i + 1 - 1 = i
      BY <2>4
    <3> QED
      BY <1>1, <1>2, <2>1, <2>2, <3>1
  <2> HIDE DEF T
  <2>5. Nat \subseteq T
    BY <2>3, <2>4 DEF Inductive
  <2>6. g[n] = h[n]
    BY <2>5 DEF T
  <2>7. n + 1 \in 1 .. n + 1 /\ n + 1 - 1 = n
    OBVIOUS
  <2>8. g[n + 1] = Op(p, g[n], x)
    BY <2>1, <2>2, <2>7
  <2> QED
    BY <1>1, <1>2, <2>2, <2>6, <2>8 DEF t
<1> QED
  BY <1>3, <1>4, <1>5
=============================================================================
