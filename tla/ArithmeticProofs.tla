-------------------------- MODULE ArithmeticProofs --------------------------
(***************************************************************************)
(* Lemmas the theorems about the components rest on: induction on the      *)
(* subsets of a finite set, folds over sets and sequences, sums, and the   *)
(* operators of module Position - what Update and RealizedBy return, and   *)
(* how yen amounts add up.                                                 *)
(*                                                                         *)
(* No induction theorem with an operator parameter is used: an induction   *)
(* is an application of WFMin to the set of the counterexamples.           *)
(***************************************************************************)
EXTENDS Position, Sequences, SequencesExt, FiniteSets, FiniteSetsExt, Functions, Folds,
        FiniteSetTheorems, SequenceTheorems, WellFoundedInduction, TLAPS

(***************************************************************************)
(* Induction.                                                              *)
(***************************************************************************)
\* Induction on the natural numbers, for a property given as a set.
LEMMA SetInduction ==
  ASSUME NEW T, 0 \in T, \A n \in Nat : n \in T => n + 1 \in T
  PROVE  \A n \in Nat : n \in T
<1> DEFINE U == {n \in Nat : n \notin T}
<1> SUFFICES ASSUME U # {} PROVE FALSE
  OBVIOUS
<1>1. PICK x \in U : \A y \in U : <<y, x>> \notin OpToRel(<, Nat)
  <2>1. U \subseteq Nat
    OBVIOUS
  <2> HIDE DEF U
  <2> QED
    BY <2>1, NatLessThanWellFounded, WFMin
<1>2. x # 0 /\ x \in Nat
  OBVIOUS
<1>3. x - 1 \in Nat /\ x - 1 < x /\ (x - 1) + 1 = x
  BY <1>2
<1>4. <<x - 1, x>> \in OpToRel(<, Nat)
  BY <1>2, <1>3, Zenon DEF OpToRel
<1>5. x - 1 \in T
  BY <1>1, <1>3, <1>4
<1> QED
  BY <1>2, <1>3, <1>5

\* Induction over sequences: a set that has the empty one, and with each the
\* sequences of one more element.
LEMMA SeqInduction ==
  ASSUME NEW W, NEW Q, <<>> \in Q, \A s \in Q \cap Seq(W), x \in W : Append(s, x) \in Q
  PROVE  Seq(W) \subseteq Q
<1> DEFINE R == {n \in Nat : \A s \in Seq(W) : Len(s) = n => s \in Q}
<1>1. 0 \in R
  <2>1. ASSUME NEW s \in Seq(W), Len(s) = 0 PROVE s = <<>>
    BY <2>1
  <2> QED
    BY <2>1
<1>2. ASSUME NEW n \in Nat, n \in R PROVE n + 1 \in R
  <2> SUFFICES ASSUME NEW s \in Seq(W), Len(s) = n + 1 PROVE s \in Q
    OBVIOUS
  <2> PICK t, x : t = SubSeq(s, 1, n) /\ x = s[n + 1]
    OBVIOUS
  <2>1. x \in W /\ t \in Seq(W) /\ Len(t) = n
    OBVIOUS
  <2>2. s = Append(t, x)
    <3>1. /\ Append(t, x) \in Seq(W) /\ Len(Append(t, x)) = n + 1
          /\ \A i \in 1 .. n + 1 : Append(t, x)[i] = s[i]
      BY <2>1
    <3> QED
      BY <3>1, SeqEqual
  <2>3. t \in Q \cap Seq(W)
    BY <1>2, <2>1
  <2> QED
    BY <2>1, <2>2, <2>3
<1> HIDE DEF R
<1>3. \A n \in Nat : n \in R
  BY <1>1, <1>2, SetInduction
<1> QED
  BY <1>3 DEF R

\* One more element at the end of the second of two sequences.
LEMMA AppendConcat ==
  ASSUME NEW W, NEW s \in Seq(W), NEW u \in Seq(W), NEW x \in W
  PROVE  /\ s \o u \in Seq(W) /\ Append(u, x) \in Seq(W)
         /\ s \o Append(u, x) = Append(s \o u, x)
<1>1. s \o Append(u, x) = Append(s \o u, x)
  OBVIOUS
<1>2. s \o u \in Seq(W) /\ Append(u, x) \in Seq(W)
  OBVIOUS
<1> QED
  BY ONLY <1>1, <1>2

\* Induction on the subsets of a finite set.
LEMMA SubsetInduction ==
  ASSUME NEW S, IsFiniteSet(S), NEW P, {} \in P,
         \A T \in SUBSET S : T # {} /\ (\A x \in T : T \ {x} \in P) => T \in P
  PROVE  \A T \in SUBSET S : T \in P
<1> DEFINE Q == {n \in Nat : \A T \in SUBSET S : Cardinality(T) = n => T \in P}
<1>1. \A T \in SUBSET S : IsFiniteSet(T) /\ Cardinality(T) \in Nat
  BY FS_Subset, FS_CardinalityType
<1>2. 0 \in Q
  BY <1>1, FS_EmptySet
<1>3. ASSUME NEW n \in Nat, n \in Q PROVE n + 1 \in Q
  <2> SUFFICES ASSUME NEW T \in SUBSET S, Cardinality(T) = n + 1 PROVE T \in P
    OBVIOUS
  <2>1. T # {}
    <3>1. IsFiniteSet(T) => (Cardinality(T) = 0 <=> T = {})
      BY FS_EmptySet
    <3> QED
      BY <1>1, <3>1
  <2>2. \A x \in T : T \ {x} \in SUBSET S /\ Cardinality(T \ {x}) = n
    BY <1>1, FS_RemoveElement
  <2> QED
    BY <1>3, <2>1, <2>2
<1> HIDE DEF Q
<1>4. \A n \in Nat : n \in Q
  BY <1>2, <1>3, SetInduction
<1> QED
  BY <1>1, <1>4 DEF Q

-----------------------------------------------------------------------------
(***************************************************************************)
(* Folds over a finite set.                                                *)
(***************************************************************************)
\* h gives the fold of f over the subsets of S: C picks the element an
\* operation P is applied to next.
Folding(h, S, V, P, C, base, f) ==
  /\ h \in [SUBSET S -> V]
  /\ h[{}] = base
  /\ \A T \in SUBSET S : T # {} => h[T] = P[f[C[T]]][h[T \ {C[T]}]]

LEMMA FoldingExists ==
  ASSUME NEW S, IsFiniteSet(S), NEW V, NEW W, NEW P \in [W -> [V -> V]], NEW base \in V,
         NEW f, \A x \in S : f[x] \in W,
         NEW C, \A T \in SUBSET S : T # {} => C[T] \in T
  PROVE  \E h : Folding(h, S, V, P, C, base, f)
<1> DEFINE D(n) == {T \in SUBSET S : Cardinality(T) <= n}
           Part(h, n) == /\ h \in [D(n) -> V]
                         /\ h[{}] = base
                         /\ \A T \in D(n) : T # {} => h[T] = P[f[C[T]]][h[T \ {C[T]}]]
           Q == {n \in Nat : \E h : Part(h, n)}
<1>1. \A T \in SUBSET S : IsFiniteSet(T) /\ Cardinality(T) \in Nat
  BY FS_Subset, FS_CardinalityType
<1>2. \A T \in SUBSET S : T # {} => /\ C[T] \in T /\ T \ {C[T]} \in SUBSET S
                                    /\ Cardinality(T \ {C[T]}) = Cardinality(T) - 1
                                    /\ f[C[T]] \in W
  BY <1>1, FS_RemoveElement
<1>3. Cardinality({}) = 0
  BY FS_EmptySet
<1>4. 0 \in Q
  <2> DEFINE h == [T \in D(0) |-> base]
  <2>1. \A T \in D(0) : T = {}
    BY <1>1, <1>3, FS_EmptySet
  <2>2. {} \in D(0)
    BY <1>3
  <2>3. Part(h, 0)
    BY <2>1, <2>2
  <2> QED
    BY <2>3
<1>5. ASSUME NEW n \in Nat, n \in Q PROVE n + 1 \in Q
  <2>1. PICK g : Part(g, n)
    BY <1>5
  <2> DEFINE h == [T \in D(n + 1) |-> IF T \in D(n) THEN g[T] ELSE P[f[C[T]]][g[T \ {C[T]}]]]
  <2>2. D(n) \subseteq D(n + 1) /\ {} \in D(n)
    BY <1>1, <1>3
  <2>3. \A T \in D(n + 1) : T # {} => T \ {C[T]} \in D(n)
    BY <1>1, <1>2
  <2>4. h \in [D(n + 1) -> V]
    <3> SUFFICES ASSUME NEW T \in D(n + 1), T \notin D(n) PROVE P[f[C[T]]][g[T \ {C[T]}]] \in V
      BY <2>1
    <3>1. T # {}
      BY <2>2
    <3>2. f[C[T]] \in W /\ g[T \ {C[T]}] \in V
      BY <1>2, <2>1, <2>3, <3>1
    <3> QED
      BY <3>2
  <2>5. \A T \in D(n) : h[T] = g[T]
    BY <2>2
  <2>6. ASSUME NEW T \in D(n + 1), T # {} PROVE h[T] = P[f[C[T]]][h[T \ {C[T]}]]
    <3>1. T \ {C[T]} \in D(n) /\ h[T \ {C[T]}] = g[T \ {C[T]}]
      BY <2>3, <2>5, <2>6
    <3>2. CASE T \in D(n)
      BY <2>1, <2>5, <2>6, <3>1, <3>2
    <3>3. CASE T \notin D(n)
      BY <3>1, <3>3
    <3> QED
      BY <3>2, <3>3
  <2>7. h[{}] = base
    BY <2>1, <2>2, <2>5
  <2> HIDE DEF h
  <2>8. Part(h, n + 1)
    BY <2>4, <2>6, <2>7
  <2>9. \E k : Part(k, n + 1)
    BY <2>8
  <2> HIDE DEF Part
  <2> QED
    BY <2>9
<1> HIDE DEF Q
<1>6. Cardinality(S) \in Nat /\ Cardinality(S) \in Q
  BY <1>1, <1>4, <1>5, SetInduction
<1>7. D(Cardinality(S)) = SUBSET S
  BY <1>1, FS_Subset
<1> QED
  BY <1>6, <1>7 DEF Q, Folding

\* Where two foldings see the same values, they agree.
LEMMA FoldingAgree ==
  ASSUME NEW S, IsFiniteSet(S), NEW U, NEW V, NEW P, NEW C, NEW D, NEW base,
         NEW f, NEW h, Folding(h, S, V, P, C, base, f),
         NEW g, NEW k, Folding(k, U, V, P, D, base, g),
         NEW R \in SUBSET (S \cap U), \A x \in R : f[x] = g[x],
         \A T \in SUBSET R : T # {} => C[T] = D[T] /\ C[T] \in T
  PROVE  h[R] = k[R]
<1> DEFINE Q == {T \in SUBSET R : h[T] = k[T]}
<1>1. {} \in Q
  BY DEF Folding
<1>2. ASSUME NEW T \in SUBSET R, T # {}, \A x \in T : T \ {x} \in Q PROVE T \in Q
  <2>1. T \in SUBSET S /\ T \in SUBSET U /\ C[T] \in T /\ C[T] = D[T]
    BY <1>2
  <2>2. h[T \ {C[T]}] = k[T \ {C[T]}] /\ f[C[T]] = g[C[T]]
    BY <1>2, <2>1
  <2>3. h[T] = P[f[C[T]]][h[T \ {C[T]}]]
    BY <1>2, <2>1 DEF Folding
  <2>4. k[T] = P[g[D[T]]][k[T \ {D[T]}]]
    BY <1>2, <2>1 DEF Folding
  <2> QED
    BY <2>1, <2>2, <2>3, <2>4
<1>3. IsFiniteSet(R)
  BY FS_Subset
<1> HIDE DEF Q
<1>4. R \in Q
  BY <1>1, <1>2, <1>3, SubsetInduction
<1> QED
  BY <1>4 DEF Q

\* Whatever C picks: up to the equivalence E, P can be applied in any order.
Equivalence(E, V) ==
  /\ \A a \in V : <<a, a>> \in E
  /\ \A a, b \in V : <<a, b>> \in E => <<b, a>> \in E
  /\ \A a, b, c \in V : <<a, b>> \in E /\ <<b, c>> \in E => <<a, c>> \in E

AnyOrder(P, V, E) ==
  /\ P \in [V -> [V -> V]]
  /\ \A a, b, c \in V : <<a, b>> \in E => <<P[c][a], P[c][b]>> \in E
  /\ \A a, b, c \in V : <<P[a][P[b][c]], P[b][P[a][c]]>> \in E

LEMMA FoldingPick ==
  ASSUME NEW S, IsFiniteSet(S), NEW V, NEW P, NEW C, NEW base,
         \A T \in SUBSET S : T # {} => C[T] \in T,
         NEW f, \A x \in S : f[x] \in V,
         NEW h, Folding(h, S, V, P, C, base, f),
         NEW E, Equivalence(E, V), AnyOrder(P, V, E)
  PROVE  \A T \in SUBSET S : \A x \in T : <<h[T], P[f[x]][h[T \ {x}]]>> \in E
<1> DEFINE Q == {T \in SUBSET S : \A x \in T : <<h[T], P[f[x]][h[T \ {x}]]>> \in E}
<1>1. {} \in Q
  OBVIOUS
<1>2. ASSUME NEW T \in SUBSET S, T # {}, \A x \in T : T \ {x} \in Q PROVE T \in Q
  <2> SUFFICES ASSUME NEW x \in T PROVE <<h[T], P[f[x]][h[T \ {x}]]>> \in E
    OBVIOUS
  <2> DEFINE c == C[T]
             R == T \ {c, x}
  <2>1. c \in T /\ c \in S /\ h[T] = P[f[c]][h[T \ {c}]]
    BY <1>2 DEF Folding
  <2>2. \A Z \in SUBSET S : h[Z] \in V
    BY DEF Folding
  <2>3. \A a, b \in V : P[a][b] \in V
    BY DEF AnyOrder
  <2>4. f[c] \in V /\ f[x] \in V /\ h[T] \in V /\ h[T \ {x}] \in V /\ h[T \ {c}] \in V /\ h[R] \in V
    BY <2>1, <2>2
  <2>5. CASE x = c
    BY <2>1, <2>4, <2>5 DEF Equivalence
  <2>6. CASE x # c
    <3>1. (T \ {c}) \ {x} = R /\ (T \ {x}) \ {c} = R /\ x \in T \ {c} /\ c \in T \ {x}
      BY <2>1, <2>6
    <3>2. <<h[T \ {c}], P[f[x]][h[R]]>> \in E
      BY <1>2, <2>1, <3>1
    <3>3. <<h[T \ {x}], P[f[c]][h[R]]>> \in E
      BY <1>2, <3>1
    <3> DEFINE A == P[f[c]][P[f[x]][h[R]]]
               B == P[f[x]][P[f[c]][h[R]]]
               D == P[f[x]][h[T \ {x}]]
    <3>4. <<h[T], A>> \in E
      BY <2>1, <2>3, <2>4, <3>2 DEF AnyOrder
    <3>5. <<A, B>> \in E
      BY <2>4 DEF AnyOrder
    <3>6. <<P[f[c]][h[R]], h[T \ {x}]>> \in E
      BY <2>3, <2>4, <3>3 DEF Equivalence
    <3>7. <<B, D>> \in E
      BY <2>3, <2>4, <3>6 DEF AnyOrder
    <3>8. A \in V /\ B \in V /\ D \in V
      BY <2>3, <2>4
    <3> HIDE DEF A, B, D, c, R
    <3>9. <<h[T], B>> \in E
      BY <2>4, <3>4, <3>5, <3>8 DEF Equivalence
    <3>10. <<h[T], D>> \in E
      BY <2>4, <3>7, <3>8, <3>9 DEF Equivalence
    <3> QED
      BY <3>10 DEF D
  <2> QED
    BY <2>5, <2>6
<1> HIDE DEF Q
<1>3. \A T \in SUBSET S : T \in Q
  BY <1>1, <1>2, SubsetInduction
<1> QED
  BY <1>3 DEF Q

(***************************************************************************)
(* Folds over sequences.  A step P takes an element and what is folded so  *)
(* far; the last index is taken first.                                     *)
(***************************************************************************)
Latest(n) == [T \in SUBSET (1 .. n) |-> Max(T)]

LEMMA LatestIsElement ==
  ASSUME NEW n \in Nat, NEW T \in SUBSET (1 .. n), T # {}
  PROVE  Latest(n)[T] = Max(T) /\ Max(T) \in T /\ \A x \in T : Max(T) >= x
<1> DEFINE S == 1 .. n
           Q == {U \in SUBSET S : U # {} => \E x \in U : \A y \in U : x >= y}
<1>1. IsFiniteSet(S)
  BY FS_Interval
<1>2. {} \in Q
  OBVIOUS
<1>3. ASSUME NEW U \in SUBSET S, U # {}, \A x \in U : U \ {x} \in Q PROVE U \in Q
  <2>1. PICK x \in U : TRUE
    BY <1>3
  <2>2. CASE U = {x}
    <3>1. x \in Int
      BY <2>1
    <3> QED
      BY <2>2, <3>1
  <2>3. CASE U \ {x} # {}
    <3>1. PICK y \in U \ {x} : \A z \in U \ {x} : y >= z
      BY <1>3, <2>1, <2>3
    <3>2. x \in Int /\ y \in Int /\ \A z \in U : z \in Int
      BY <2>1
    <3>3. \E w \in {x, y} : \A z \in U : w >= z
      BY <3>1, <3>2
    <3> QED
      BY <2>1, <3>1, <3>3
  <2> QED
    BY <2>1, <2>2, <2>3
<1> HIDE DEF Q, S
<1>4. \A U \in SUBSET S : U \in Q
  BY <1>1, <1>2, <1>3, SubsetInduction
<1>5. \E x \in T : \A y \in T : x >= y
  BY <1>4 DEF Q, S
<1>6. Max(T) \in T /\ \A x \in T : Max(T) >= x
  BY <1>5 DEF Max
<1> QED
  BY <1>6 DEF Latest

LEMMA LatestOfPrefix ==
  ASSUME NEW n \in Nat, NEW i \in Nat, i < n
  PROVE  Latest(n)[1 .. i + 1] = i + 1 /\ (1 .. i + 1) \ {i + 1} = 1 .. i
<1> DEFINE T == 1 .. i + 1
<1>1. i + 1 \in T /\ \A x \in T : x \in 1 .. n
  OBVIOUS
<1> HIDE DEF T
<1>3. T \in SUBSET (1 .. n) /\ T # {}
  BY <1>1
<1>4. Max(T) \in T /\ (\A x \in T : Max(T) >= x) /\ Latest(n)[T] = Max(T)
  BY <1>3, LatestIsElement
<1>5. Max(T) >= i + 1
  BY <1>1, <1>4
<1> USE DEF T
<1>2. /\ Max(1 .. i + 1) \in 1 .. i + 1 /\ Max(1 .. i + 1) >= i + 1
      /\ Latest(n)[1 .. i + 1] = Max(1 .. i + 1)
  BY <1>4, <1>5
<1> QED
  BY <1>2

\* What a folding over s has after i elements.
LEMMA FoldingPrefix ==
  ASSUME NEW W, NEW s \in Seq(W), NEW V, NEW P, NEW base,
         NEW h, Folding(h, 1 .. Len(s), V, P, Latest(Len(s)), base, s)
  PROVE  /\ h[1 .. 0] = base
         /\ \A i \in 0 .. Len(s) - 1 : h[1 .. i + 1] = P[s[i + 1]][h[1 .. i]]
         /\ \A i \in 0 .. Len(s) : h[1 .. i] \in V
<1> PICK n \in Nat : n = Len(s)
  OBVIOUS
<1>1. h[1 .. 0] = base
  BY DEF Folding
<1>2. ASSUME NEW i \in 0 .. n - 1 PROVE h[1 .. i + 1] = P[s[i + 1]][h[1 .. i]]
  <2>1. (\A x \in 1 .. i + 1 : x \in 1 .. n) /\ i + 1 \in 1 .. i + 1
    OBVIOUS
  <2>3. i \in Nat /\ i < n
    OBVIOUS
  <2>2. Latest(n)[1 .. i + 1] = i + 1 /\ (1 .. i + 1) \ {i + 1} = 1 .. i
    BY <2>3, LatestOfPrefix
  <2> QED
    BY <2>1, <2>2 DEF Folding
<1>3. ASSUME NEW i \in 0 .. n PROVE h[1 .. i] \in V
  <2>1. 1 .. i \in SUBSET (1 .. n)
    OBVIOUS
  <2> QED
    BY <2>1 DEF Folding
<1> QED
  BY <1>1, <1>2, <1>3

\* A folding over a prefix agrees with one over the whole.
LEMMA FoldingOfPrefix ==
  ASSUME NEW W, NEW s \in Seq(W), NEW V, NEW P, NEW base, NEW i \in 0 .. Len(s),
         NEW h, Folding(h, 1 .. Len(s), V, P, Latest(Len(s)), base, s),
         NEW k, Folding(k, 1 .. i, V, P, Latest(i), base, SubSeq(s, 1, i))
  PROVE  k[1 .. i] = h[1 .. i]
<1> PICK n \in Nat : n = Len(s)
  OBVIOUS
<1> PICK t : t = SubSeq(s, 1, i)
  OBVIOUS
<1>1. \A x \in 1 .. i : t[x] = s[x]
  OBVIOUS
<1>2. IsFiniteSet(1 .. i) /\ i \in Nat /\ \A x \in 1 .. i : x \in 1 .. n
  <2>1. IsFiniteSet(1 .. i)
    BY FS_Interval
  <2> QED
    BY <2>1
<1> PICK C : C = Latest(i)
  OBVIOUS
<1> PICK D : D = Latest(n)
  OBVIOUS
<1>3. ASSUME NEW T \in SUBSET (1 .. i), T # {} PROVE C[T] = D[T] /\ C[T] \in T
  <2>1. T \in SUBSET (1 .. n)
    BY <1>2
  <2>2. C[T] = Max(T) /\ Max(T) \in T
    BY <1>2, <1>3, LatestIsElement
  <2>3. D[T] = Max(T)
    BY <1>3, <2>1, LatestIsElement
  <2> QED
    BY <2>2, <2>3
<1> PICK A, B : A = 1 .. i /\ B = 1 .. n
  OBVIOUS
<1>4. /\ IsFiniteSet(A) /\ A \in SUBSET (A \cap B)
      /\ \A x \in A : t[x] = s[x]
      /\ \A T \in SUBSET A : T # {} => C[T] = D[T] /\ C[T] \in T
      /\ Folding(k, A, V, P, C, base, t) /\ Folding(h, B, V, P, D, base, s)
  BY <1>1, <1>2, <1>3
<1>5. k[A] = h[A]
  BY ONLY <1>4, FoldingAgree
<1> QED
  BY <1>5

-----------------------------------------------------------------------------
(***************************************************************************)
(* What FoldLeft returns.  Its recursion is on the subsets of the domain:  *)
(* a function that unfolds s has base at {} and, at T, what P makes of the *)
(* last element of T and the value at the rest of T, if that is in V.      *)
(***************************************************************************)
Folds(W, V, P, base) == P \in [W -> [V -> V]] /\ base \in V

Unfolds(it, s, W, V, P, base) ==
    /\ s \in Seq(W) /\ Folds(W, V, P, base)
    /\ it[{}] = base
    /\ \A T \in SUBSET (1 .. Len(s)) :
          T # {} /\ it[T \ {Max(T)}] \in V => it[T] = P[s[Max(T)]][it[T \ {Max(T)}]]

\* There is one with values in V.
Unfolding(k, s, W, V, P, base) ==
    /\ k \in [SUBSET (1 .. Len(s)) -> V]
    /\ k[{}] = base
    /\ \A T \in SUBSET (1 .. Len(s)) : T # {} => /\ s[Max(T)] \in W /\ k[T \ {Max(T)}] \in V
                                                 /\ k[T] = P[s[Max(T)]][k[T \ {Max(T)}]]

LEMMA UnfoldingExists ==
  ASSUME NEW W, NEW V, NEW P, NEW base, Folds(W, V, P, base), NEW s \in Seq(W)
  PROVE  \E k : Unfolding(k, s, W, V, P, base)
<1> PICK n \in Nat : n = Len(s)
  OBVIOUS
<1> PICK S : S = 1 .. n
  OBVIOUS
<1>1. IsFiniteSet(S) /\ \A x \in S : s[x] \in W
  <2>1. \A x \in S : s[x] \in W
    OBVIOUS
  <2> QED
    BY <2>1, FS_Interval
<1> PICK C : C = Latest(n)
  OBVIOUS
<1>2. \A T \in SUBSET S : T # {} => /\ C[T] = Max(T) /\ C[T] \in T /\ s[Max(T)] \in W
                                    /\ T \ {Max(T)} \in SUBSET S
  BY <1>1, LatestIsElement
<1>3. PICK k : Folding(k, S, V, P, C, base, s)
  <2>1. \A T \in SUBSET S : T # {} => C[T] \in T
    BY <1>2
  <2>2. P \in [W -> [V -> V]] /\ base \in V
    BY DEF Folds
  <2> QED
    BY <1>1, <2>1, <2>2, FoldingExists
<1>4. k \in [SUBSET S -> V] /\ k[{}] = base
  BY <1>3 DEF Folding
<1>5. ASSUME NEW T \in SUBSET S, T # {}
      PROVE  /\ s[Max(T)] \in W /\ k[T \ {Max(T)}] \in V
             /\ k[T] = P[s[Max(T)]][k[T \ {Max(T)}]]
  BY <1>2, <1>3, <1>4, <1>5 DEF Folding
<1> QED
  BY <1>4, <1>5 DEF Unfolding

LEMMA UnfoldingStep ==
  ASSUME NEW it, NEW s, NEW W, NEW V, NEW P, NEW base, Unfolds(it, s, W, V, P, base)
  PROVE  /\ it[1 .. 0] = base
         /\ \A i \in 0 .. Len(s) - 1 : it[1 .. i + 1] = P[s[i + 1]][it[1 .. i]]
         /\ \A i \in 0 .. Len(s) : it[1 .. i] \in V
<1> PICK n \in Nat : n = Len(s)
  BY DEF Unfolds
<1>0. s \in Seq(W) /\ P \in [W -> [V -> V]] /\ base \in V
  BY DEF Unfolds, Folds
<1>1. ASSUME NEW i \in 0 .. n - 1, it[1 .. i] \in V
      PROVE  it[1 .. i + 1] = P[s[i + 1]][it[1 .. i]] /\ s[i + 1] \in W
  <2>1. i + 1 \in 1 .. i + 1 /\ (\A x \in 1 .. i + 1 : x \in 1 .. n) /\ i \in Nat /\ i < n
    OBVIOUS
  <2>2. 1 .. i + 1 \in SUBSET (1 .. n) /\ 1 .. i + 1 # {} /\ s[i + 1] \in W
    <3>1. i + 1 \in 1 .. n
      BY <2>1
    <3>2. s[i + 1] \in W
      BY <1>0, <3>1
    <3>3. \A A, B, x : x \in A /\ (\A y \in A : y \in B) => A \in SUBSET B /\ A # {}
      OBVIOUS
    <3> QED
      BY <2>1, <3>2, <3>3, Zenon
  <2>3. Max(1 .. i + 1) = i + 1 /\ (1 .. i + 1) \ {i + 1} = 1 .. i
    <3>1. Latest(n)[1 .. i + 1] = i + 1 /\ (1 .. i + 1) \ {i + 1} = 1 .. i
      BY <2>1, LatestOfPrefix
    <3>2. Latest(n)[1 .. i + 1] = Max(1 .. i + 1)
      BY <2>2, LatestIsElement
    <3> QED
      BY <3>1, <3>2
  <2> QED
    BY <1>1, <2>2, <2>3 DEF Unfolds
<1> DEFINE Q == {i \in Nat : i <= n => it[1 .. i] \in V}
<1>2. it[1 .. 0] = base
  <2>1. 1 .. 0 = {}
    OBVIOUS
  <2> QED
    BY <2>1 DEF Unfolds
<1>3. 0 \in Q
  BY <1>0, <1>2
<1>4. ASSUME NEW i \in Nat, i \in Q PROVE i + 1 \in Q
  <2>1. CASE i + 1 <= n
    <3>1. it[1 .. i] \in V /\ i \in 0 .. n - 1
      BY <1>4, <2>1
    <3>2. it[1 .. i + 1] = P[s[i + 1]][it[1 .. i]] /\ s[i + 1] \in W
      BY <1>1, <3>1
    <3> QED
      BY <1>0, <3>1, <3>2
  <2> QED
    BY <2>1
<1> HIDE DEF Q
<1>5. \A i \in Nat : i \in Q
  BY <1>3, <1>4, SetInduction
<1>6. \A i \in 0 .. n : it[1 .. i] \in V
  BY <1>5 DEF Q
<1> QED
  BY <1>1, <1>2, <1>6

\* What is folded of a sequence is what is folded of it as a prefix.
LEMMA UnfoldingPrefix ==
  ASSUME NEW it, NEW on, NEW s, NEW t, NEW W, NEW V, NEW P, NEW base,
         Unfolds(it, s, W, V, P, base), Unfolds(on, t, W, V, P, base),
         Len(s) <= Len(t), \A i \in 1 .. Len(s) : t[i] = s[i]
  PROVE  on[1 .. Len(s)] = it[1 .. Len(s)]
<1> PICK n, m \in Nat : n = Len(s) /\ m = Len(t)
  BY DEF Unfolds
<1>0. it[1 .. 0] = base /\ on[1 .. 0] = base
  <2>1. it[1 .. 0] = base
    BY ONLY Unfolds(it, s, W, V, P, base), UnfoldingStep
  <2>2. on[1 .. 0] = base
    BY ONLY Unfolds(on, t, W, V, P, base), UnfoldingStep
  <2> QED
    BY <2>1, <2>2
<1>1. \A i \in 0 .. Len(s) - 1 : it[1 .. i + 1] = P[s[i + 1]][it[1 .. i]]
  BY ONLY Unfolds(it, s, W, V, P, base), UnfoldingStep
<1>2. \A i \in 0 .. Len(t) - 1 : on[1 .. i + 1] = P[t[i + 1]][on[1 .. i]]
  BY ONLY Unfolds(on, t, W, V, P, base), UnfoldingStep
<1> DEFINE Q == {i \in Nat : i <= n => on[1 .. i] = it[1 .. i]}
<1>3. 0 \in Q
  BY <1>0
<1>4. ASSUME NEW i \in Nat, i \in Q PROVE i + 1 \in Q
  <2>1. CASE i + 1 <= n
    <3>1. /\ on[1 .. i] = it[1 .. i] /\ i \in 0 .. Len(s) - 1 /\ i \in 0 .. Len(t) - 1
          /\ t[i + 1] = s[i + 1]
      BY <1>4, <2>1
    <3>2. it[1 .. i + 1] = P[s[i + 1]][it[1 .. i]] /\ on[1 .. i + 1] = P[t[i + 1]][on[1 .. i]]
      BY <1>1, <1>2, <3>1
    <3> QED
      BY <3>1, <3>2
  <2> QED
    BY <2>1
<1> HIDE DEF Q
<1>5. n \in Q
  BY <1>3, <1>4, SetInduction
<1> QED
  BY <1>5 DEF Q

\* F is a fold with the steps P: its value for the empty sequence, for any, and
\* for one with one more element.
FoldsBy(F, W, V, P, base) ==
    \A s \in Seq(W) : \E it : F[s] = it[1 .. Len(s)] /\ Unfolds(it, s, W, V, P, base)

LEMMA FoldSteps ==
  ASSUME NEW F, NEW W, NEW V, NEW P, NEW base,
         FoldsBy(F, W, V, P, base)
  PROVE  /\ F[<<>>] = base
         /\ \A s \in Seq(W) : F[s] \in V
         /\ \A s \in Seq(W), x \in W : F[Append(s, x)] = P[x][F[s]]
<1>1. F[<<>>] = base
  <2>1. <<>> \in Seq(W) /\ 1 .. Len(<<>>) = {}
    OBVIOUS
  <2>2. PICK it : F[<<>>] = it[1 .. Len(<<>>)] /\ Unfolds(it, <<>>, W, V, P, base)
    BY <2>1 DEF FoldsBy
  <2> QED
    BY <2>1, <2>2 DEF Unfolds
<1>2. ASSUME NEW s \in Seq(W) PROVE F[s] \in V
  <2>1. PICK it : F[s] = it[1 .. Len(s)] /\ Unfolds(it, s, W, V, P, base)
    BY DEF FoldsBy
  <2>2. \A i \in 0 .. Len(s) : it[1 .. i] \in V
    <3>1. Unfolds(it, s, W, V, P, base)
      BY <2>1
    <3> QED
      BY <3>1, UnfoldingStep
  <2>3. Len(s) \in 0 .. Len(s)
    OBVIOUS
  <2> QED
    BY <2>1, <2>2, <2>3
<1>3. ASSUME NEW s \in Seq(W), NEW x \in W PROVE F[Append(s, x)] = P[x][F[s]]
  <2> PICK t : t = Append(s, x)
    OBVIOUS
  <2> PICK n \in Nat : n = Len(s)
    OBVIOUS
  <2>1. /\ t \in Seq(W) /\ Len(t) = n + 1 /\ t[n + 1] = x /\ Len(s) <= Len(t)
        /\ \A i \in 1 .. Len(s) : t[i] = s[i]
        /\ n \in 0 .. Len(s) /\ n \in 0 .. Len(t) - 1
    OBVIOUS
  <2>2. PICK it : F[s] = it[1 .. Len(s)] /\ Unfolds(it, s, W, V, P, base)
    BY DEF FoldsBy
  <2>3. PICK on : F[t] = on[1 .. Len(t)] /\ Unfolds(on, t, W, V, P, base)
    BY <2>1 DEF FoldsBy
  <2>4. Unfolds(it, s, W, V, P, base) /\ Unfolds(on, t, W, V, P, base)
    BY <2>2, <2>3
  <2>5. \A i \in 0 .. Len(t) - 1 : on[1 .. i + 1] = P[t[i + 1]][on[1 .. i]]
    BY ONLY <2>4, UnfoldingStep
  <2>6. on[1 .. Len(s)] = it[1 .. Len(s)]
    BY ONLY <2>1, <2>4, UnfoldingPrefix
  <2>7. on[1 .. n + 1] = P[x][on[1 .. n]]
    BY <2>1, <2>5
  <2> QED
    BY <2>1, <2>2, <2>3, <2>6, <2>7
<1> QED
  BY <1>1, <1>2, <1>3

(***************************************************************************)
(* Sums over a finite set.                                                 *)
(***************************************************************************)
\* The element a sum over T takes next.
Some(S) == [T \in SUBSET S |-> CHOOSE x \in T : TRUE]
Adding == [a \in Int |-> [b \in Int |-> a + b]]

LEMMA SomeIsElement ==
  ASSUME NEW S, NEW T \in SUBSET S, T # {}
  PROVE  Some(S)[T] = (CHOOSE x \in T : TRUE) /\ Some(S)[T] \in T
BY DEF Some

\* A sum is the value of a folding.
LEMMA SumFolding ==
  ASSUME NEW S, IsFiniteSet(S), NEW f, \A x \in S : f[x] \in Int
  PROVE  \E h : Folding(h, S, Int, Adding, Some(S), 0, f) /\ SumFunctionOnSet(f, S) = h[S]
<1> DEFINE Eq(h) == h = [s \in SUBSET S |->
                           IF s = {} THEN 0
                           ELSE f[CHOOSE x \in s : TRUE] + h[s \ {CHOOSE x \in s : TRUE}]]
<1>1. PICK k : Folding(k, S, Int, Adding, Some(S), 0, f)
  <2>1. Adding \in [Int -> [Int -> Int]]
    BY DEF Adding
  <2>2. \A T \in SUBSET S : T # {} => Some(S)[T] \in T
    BY SomeIsElement
  <2> DEFINE C == Some(S)
             V == Int
             zero == 0
  <2>0. zero \in V /\ Adding \in [V -> [V -> V]] /\ \A x \in S : f[x] \in V
    BY <2>1
  <2> HIDE DEF C, V, zero, Eq
  <2>3. \A T \in SUBSET S : T # {} => C[T] \in T
    BY <2>2 DEF C
  <2>4. \E h : Folding(h, S, V, Adding, C, zero, f)
    BY <2>0, <2>3, FoldingExists
  <2> QED
    BY <2>4 DEF C, V, zero
<1>2. Eq(k)
  <2>1. k \in [SUBSET S -> Int] /\ k[{}] = 0
    BY <1>1 DEF Folding
  <2>2. ASSUME NEW T \in SUBSET S, T # {}
        PROVE  k[T] = f[CHOOSE x \in T : TRUE] + k[T \ {CHOOSE x \in T : TRUE}]
    <3> DEFINE c == Some(S)[T]
    <3>1. c \in T /\ c = (CHOOSE x \in T : TRUE)
      BY <2>2, SomeIsElement
    <3>2. k[T] = Adding[f[c]][k[T \ {c}]]
      BY <1>1, <2>2 DEF Folding
    <3>3. f[c] \in Int /\ k[T \ {c}] \in Int
      BY <2>1, <3>1
    <3> HIDE DEF c
    <3>4. k[T] = f[c] + k[T \ {c}]
      BY <3>2, <3>3 DEF Adding
    <3> QED
      BY <3>1, <3>4
  <2>3. k = [s \in SUBSET S |-> k[s]]
    BY <2>1
  <2> QED
    BY <2>1, <2>2, <2>3
<1> DEFINE it == CHOOSE h : Eq(h)
<1>3. Eq(it)
  <2> HIDE DEF Eq
  <2> QED
    BY <1>2
<1>4. SumFunctionOnSet(f, S) = it[S]
  BY DEF SumFunctionOnSet, FoldFunctionOnSet, MapThenFoldSet
<1> HIDE DEF it
<1>5. \A T \in SUBSET S : it[T] \in Int
  <2> DEFINE Q == {T \in SUBSET S : it[T] \in Int}
  <2>1. {} \in Q
    BY <1>3
  <2>2. ASSUME NEW T \in SUBSET S, T # {}, \A x \in T : T \ {x} \in Q PROVE T \in Q
    BY <1>3, <2>2
  <2> HIDE DEF Q
  <2>3. \A T \in SUBSET S : T \in Q
    BY <2>1, <2>2, SubsetInduction
  <2> QED
    BY <2>3 DEF Q
<1>6. Folding(it, S, Int, Adding, Some(S), 0, f)
  <2>1. it \in [SUBSET S -> Int] /\ it[{}] = 0
    BY <1>3, <1>5
  <2>2. ASSUME NEW T \in SUBSET S, T # {}
        PROVE  it[T] = Adding[f[Some(S)[T]]][it[T \ {Some(S)[T]}]]
    <3> DEFINE c == Some(S)[T]
    <3>1. c \in T /\ c = (CHOOSE x \in T : TRUE)
      BY <2>2, SomeIsElement
    <3> HIDE DEF c
    <3>2. it[T] = f[c] + it[T \ {c}]
      BY <1>3, <2>2, <3>1
    <3>3. f[c] \in Int /\ it[T \ {c}] \in Int
      BY <1>5, <3>1
    <3>4. it[T] = Adding[f[c]][it[T \ {c}]]
      BY <3>2, <3>3 DEF Adding
    <3> QED
      BY <3>4 DEF c
  <2> QED
    BY <2>1, <2>2 DEF Folding
<1> QED
  BY <1>4, <1>6

LEMMA SumType ==
  ASSUME NEW S, IsFiniteSet(S), NEW f, \A x \in S : f[x] \in Int
  PROVE  SumFunctionOnSet(f, S) \in Int
<1>1. PICK h : Folding(h, S, Int, Adding, Some(S), 0, f) /\ SumFunctionOnSet(f, S) = h[S]
  BY SumFolding
<1> QED
  BY <1>1 DEF Folding

LEMMA SumEmpty ==
  ASSUME NEW f
  PROVE  SumFunctionOnSet(f, {}) = 0
<1>1. IsFiniteSet({}) /\ \A x \in {} : f[x] \in Int
  BY FS_EmptySet
<1>2. PICK h : Folding(h, {}, Int, Adding, Some({}), 0, f) /\ SumFunctionOnSet(f, {}) = h[{}]
  BY <1>1, SumFolding
<1> QED
  BY <1>2 DEF Folding

LEMMA SumSame ==
  ASSUME NEW S, IsFiniteSet(S), NEW f, NEW g, \A x \in S : f[x] \in Int /\ f[x] = g[x]
  PROVE  SumFunctionOnSet(f, S) = SumFunctionOnSet(g, S)
<1>1. PICK h : Folding(h, S, Int, Adding, Some(S), 0, f) /\ SumFunctionOnSet(f, S) = h[S]
  BY SumFolding
<1>2. PICK k : Folding(k, S, Int, Adding, Some(S), 0, g) /\ SumFunctionOnSet(g, S) = k[S]
  BY SumFolding
<1> DEFINE C == Some(S)
<1>3. \A T \in SUBSET S : T # {} => C[T] \in T
  BY SomeIsElement
<1> HIDE DEF C
<1>4. S \in SUBSET (S \cap S) /\ \A x \in S : f[x] = g[x]
  OBVIOUS
<1>5. Folding(h, S, Int, Adding, C, 0, f) /\ Folding(k, S, Int, Adding, C, 0, g)
  BY <1>1, <1>2 DEF C
<1>6. h[S] = k[S]
  BY <1>3, <1>4, <1>5, FoldingAgree
<1> QED
  BY <1>1, <1>2, <1>6

\* Any element can be taken out of a sum.
LEMMA SumPick ==
  ASSUME NEW S, IsFiniteSet(S), NEW f, \A x \in S : f[x] \in Int, NEW x \in S
  PROVE  SumFunctionOnSet(f, S) = f[x] + SumFunctionOnSet(f, S \ {x})
<1> DEFINE U == S \ {x}
           C == Some(S)
           D == Some(U)
           E == {p \in Int \X Int : p[1] = p[2]}
<1>1. IsFiniteSet(U) /\ U \in SUBSET (S \cap U) /\ \A y \in U : f[y] \in Int
  BY FS_RemoveElement
<1>2. PICK h : Folding(h, S, Int, Adding, C, 0, f) /\ SumFunctionOnSet(f, S) = h[S]
  BY SumFolding
<1>3. PICK k : Folding(k, U, Int, Adding, D, 0, f) /\ SumFunctionOnSet(f, U) = k[U]
  BY <1>1, SumFolding
<1>4. /\ \A T \in SUBSET S : T # {} => C[T] \in T
      /\ \A T \in SUBSET U : T # {} => C[T] = D[T] /\ C[T] \in T
  BY SomeIsElement
<1>5. /\ Adding \in [Int -> [Int -> Int]]
      /\ \A a, b \in Int : Adding[a][b] = a + b
  BY DEF Adding
<1>6. \A a, b \in Int : <<a, b>> \in E <=> a = b
  OBVIOUS
<1> HIDE DEF C, D, E, U
<1>7. /\ \A a \in Int : <<a, a>> \in E
      /\ \A a, b \in Int : <<a, b>> \in E => <<b, a>> \in E
      /\ \A a, b, c \in Int : <<a, b>> \in E /\ <<b, c>> \in E => <<a, c>> \in E
  BY <1>6
<1>8. ASSUME NEW a \in Int, NEW b \in Int, NEW c \in Int
      PROVE  /\ <<a, b>> \in E => <<Adding[c][a], Adding[c][b]>> \in E
             /\ <<Adding[a][Adding[b][c]], Adding[b][Adding[a][c]]>> \in E
  <2>1. Adding[c][a] = c + a /\ Adding[c][b] = c + b /\ Adding[b][c] = b + c /\ Adding[a][c] = a + c
    BY <1>5
  <2>2. Adding[a][b + c] = a + (b + c) /\ Adding[b][a + c] = b + (a + c)
    BY <1>5
  <2>3. a + (b + c) = b + (a + c)
    OBVIOUS
  <2> HIDE DEF E
  <2> QED
    BY <1>6, <2>1, <2>2, <2>3
<1>9. \A T \in SUBSET S : \A y \in T : <<h[T], Adding[f[y]][h[T \ {y}]]>> \in E
  <2> DEFINE V == Int
             zero == 0
  <2>1. (\A y \in S : f[y] \in V) /\ Folding(h, S, V, Adding, C, zero, f)
    BY <1>2
  <2>2. Equivalence(E, V) /\ AnyOrder(Adding, V, E)
    BY <1>5, <1>7, <1>8 DEF Equivalence, AnyOrder
  <2>3. \A T \in SUBSET S : T # {} => C[T] \in T
    BY <1>4
  <2> HIDE DEF V, zero
  <2> QED
    BY <2>1, <2>2, <2>3, FoldingPick
<1>10. <<h[S], Adding[f[x]][h[U]]>> \in E
  BY <1>9 DEF U
<1>11. h[S] \in Int /\ h[U] \in Int /\ f[x] \in Int
  BY <1>2 DEF Folding, U
<1>12. h[S] = f[x] + h[U]
  <2>1. Adding[f[x]][h[U]] = f[x] + h[U] /\ f[x] + h[U] \in Int
    <3> DEFINE a == f[x]
               b == h[U]
    <3>1. a \in Int /\ b \in Int
      BY <1>11
    <3> HIDE DEF a, b
    <3>2. Adding[a][b] = a + b /\ a + b \in Int
      BY <1>5, <3>1
    <3> QED
      BY <3>2 DEF a, b
  <2> QED
    BY <1>6, <1>10, <1>11, <2>1
<1>13. h[U] = k[U]
  BY <1>1, <1>2, <1>3, <1>4, FoldingAgree
<1> QED
  BY <1>2, <1>3, <1>12, <1>13 DEF U

\* An element outside S joins a sum.
LEMMA SumAdd ==
  ASSUME NEW S, IsFiniteSet(S), NEW x, x \notin S, NEW f, \A y \in S \cup {x} : f[y] \in Int
  PROVE  SumFunctionOnSet(f, S \cup {x}) = f[x] + SumFunctionOnSet(f, S)
<1> DEFINE T == S \cup {x}
<1>1. IsFiniteSet(T) /\ x \in T /\ T \ {x} = S /\ \A y \in T : f[y] \in Int
  BY FS_AddElement
<1> HIDE DEF T
<1>2. SumFunctionOnSet(f, T) = f[x] + SumFunctionOnSet(f, T \ {x})
  BY <1>1, SumPick
<1> QED
  BY <1>1, <1>2 DEF T

\* Two functions that differ at x alone have sums that differ by as much.
LEMMA SumUpdate ==
  ASSUME NEW S, IsFiniteSet(S), NEW x \in S, NEW f, NEW g,
         \A y \in S : f[y] \in Int /\ g[y] \in Int,
         \A y \in S \ {x} : g[y] = f[y]
  PROVE  SumFunctionOnSet(g, S) = SumFunctionOnSet(f, S) + g[x] - f[x]
<1> DEFINE F == SumFunctionOnSet(f, S \ {x})
<1>1. IsFiniteSet(S \ {x})
  BY FS_RemoveElement
<1>2. SumFunctionOnSet(f, S) = f[x] + F
  BY SumPick
<1>3. SumFunctionOnSet(g, S) = g[x] + SumFunctionOnSet(g, S \ {x})
  BY SumPick
<1>4. SumFunctionOnSet(g, S \ {x}) = F
  BY <1>1, SumSame
<1>5. F \in Int /\ f[x] \in Int /\ g[x] \in Int
  BY <1>1, SumType
<1> HIDE DEF F
<1> QED
  BY <1>2, <1>3, <1>4, <1>5

\* A sum of zeros is zero.
LEMMA SumZero ==
  ASSUME NEW S, IsFiniteSet(S), NEW f, \A x \in S : f[x] = 0
  PROVE  SumFunctionOnSet(f, S) = 0
<1> DEFINE Q == {T \in SUBSET S : SumFunctionOnSet(f, T) = 0}
<1>1. {} \in Q
  BY SumEmpty
<1>2. ASSUME NEW T \in SUBSET S, T # {}, \A x \in T : T \ {x} \in Q PROVE T \in Q
  <2>1. PICK x \in T : TRUE
    BY <1>2
  <2>2. SumFunctionOnSet(f, T) = f[x] + SumFunctionOnSet(f, T \ {x})
    BY FS_Subset, SumPick
  <2> QED
    BY <1>2, <2>1, <2>2
<1> HIDE DEF Q
<1>3. \A T \in SUBSET S : T \in Q
  BY <1>1, <1>2, SubsetInduction
<1> QED
  BY <1>3 DEF Q

\* A sum is no smaller than a sum of smaller values.
LEMMA SumMonotone ==
  ASSUME NEW S, IsFiniteSet(S), NEW f, NEW g,
         \A x \in S : f[x] \in Int /\ g[x] \in Int /\ f[x] <= g[x]
  PROVE  SumFunctionOnSet(f, S) <= SumFunctionOnSet(g, S)
<1> DEFINE Q == {T \in SUBSET S : SumFunctionOnSet(f, T) <= SumFunctionOnSet(g, T)}
<1>1. {} \in Q
  BY SumEmpty
<1>2. ASSUME NEW T \in SUBSET S, T # {}, \A x \in T : T \ {x} \in Q PROVE T \in Q
  <2>1. PICK x \in T : TRUE
    BY <1>2
  <2> DEFINE a == SumFunctionOnSet(f, T \ {x})
             b == SumFunctionOnSet(g, T \ {x})
  <2>2. IsFiniteSet(T) /\ IsFiniteSet(T \ {x})
    BY FS_Subset
  <2>3. a \in Int /\ b \in Int /\ f[x] \in Int /\ g[x] \in Int /\ f[x] <= g[x]
    BY <2>2, SumType
  <2>4. SumFunctionOnSet(f, T) = f[x] + a /\ SumFunctionOnSet(g, T) = g[x] + b
    BY <2>2, SumPick
  <2>5. a <= b
    BY <1>2
  <2> HIDE DEF a, b
  <2> QED
    BY <2>3, <2>4, <2>5
<1> HIDE DEF Q
<1>3. \A T \in SUBSET S : T \in Q
  BY <1>1, <1>2, SubsetInduction
<1> QED
  BY <1>3 DEF Q

-----------------------------------------------------------------------------
(***************************************************************************)
(* Sums of a sequence.                                                     *)
(***************************************************************************)
LEMMA AddingIsSum == ASSUME NEW u \in Int, NEW v \in Int PROVE Adding[u][v] = u + v
BY DEF Adding

LEMMA PlusFolding ==
  ASSUME NEW s \in Seq(Int)
  PROVE  \E h : /\ Folding(h, 1 .. Len(s), Int, Adding, Latest(Len(s)), 0, s)
                /\ FoldLeft(+, 0, s) = h[1 .. Len(s)]
<1> PICK n \in Nat : n = Len(s)
  OBVIOUS
<1> PICK S : S = 1 .. n
  OBVIOUS
<1> DEFINE Eq(h) == h = [T \in SUBSET S |-> IF T = {} THEN 0 ELSE h[T \ {Max(T)}] + s[Max(T)]]
<1>1. DOMAIN s = S /\ IsFiniteSet(S) /\ \A x \in S : s[x] \in Int
  BY FS_Interval
<1>2. \A T \in SUBSET S : T # {} =>
          /\ Latest(n)[T] = Max(T) /\ Max(T) \in T /\ s[Max(T)] \in Int
          /\ T \ {Max(T)} \in SUBSET S
  BY <1>1, LatestIsElement
<1>3. PICK k : Folding(k, S, Int, Adding, Latest(n), 0, s)
  <2> PICK V, P, C, base : V = Int /\ P = Adding /\ C = Latest(n) /\ base = 0
    OBVIOUS
  <2>1. P \in [V -> [V -> V]] /\ base \in V
    BY DEF Adding
  <2>2. \A T \in SUBSET S : T # {} => C[T] \in T
    BY <1>2
  <2>3. \E h : Folding(h, S, V, P, C, base, s)
    BY <1>1, <2>1, <2>2, FoldingExists
  <2> QED
    BY <2>3
<1>4. Eq(k)
  <2>1. k \in [SUBSET S -> Int] /\ k[{}] = 0
    BY <1>3 DEF Folding
  <2>2. ASSUME NEW T \in SUBSET S, T # {} PROVE k[T] = k[T \ {Max(T)}] + s[Max(T)]
    <3>1. k[T] = Adding[s[Max(T)]][k[T \ {Max(T)}]]
      BY <1>2, <1>3, <2>2 DEF Folding
    <3>2. s[Max(T)] \in Int /\ k[T \ {Max(T)}] \in Int
      BY <1>2, <2>1, <2>2
    <3>3. Adding[s[Max(T)]][k[T \ {Max(T)}]] = s[Max(T)] + k[T \ {Max(T)}]
      BY <3>2, AddingIsSum
    <3> QED
      BY <3>1, <3>2, <3>3
  <2> QED
    BY <2>1, <2>2
<1> DEFINE it == CHOOSE h : Eq(h)
<1>5. Eq(it)
  <2> HIDE DEF Eq
  <2> QED
    BY <1>4
<1>6. FoldLeft(+, 0, s) = it[S]
  BY <1>1 DEF FoldLeft, MapThenFoldSet
<1> HIDE DEF it
<1>7. \A T \in SUBSET S : it[T] = k[T]
  <2> DEFINE Q == {T \in SUBSET S : it[T] = k[T]}
  <2>1. {} \in Q
    BY <1>4, <1>5
  <2>2. ASSUME NEW T \in SUBSET S, T # {}, \A x \in T : T \ {x} \in Q PROVE T \in Q
    <3>1. Max(T) \in T
      BY <1>2, <2>2
    <3>2. it[T \ {Max(T)}] = k[T \ {Max(T)}]
      BY <2>2, <3>1
    <3>3. it[T] = it[T \ {Max(T)}] + s[Max(T)]
      BY <1>5, <2>2
    <3>4. k[T] = k[T \ {Max(T)}] + s[Max(T)]
      BY <1>4, <2>2
    <3> QED
      BY <3>2, <3>3, <3>4
  <2> HIDE DEF Q
  <2>3. \A T \in SUBSET S : T \in Q
    BY <1>1, <2>1, <2>2, SubsetInduction
  <2> QED
    BY <2>3 DEF Q
<1>8. FoldLeft(+, 0, s) = k[S]
  BY <1>6, <1>7
<1> QED
  BY <1>3, <1>8

\* a holds the sums of the prefixes of s.
PrefixSums(a, s) ==
    /\ a \in [0 .. Len(s) -> Int] /\ a[0] = 0
    /\ \A i \in 1 .. Len(s) : a[i] = a[i - 1] + s[i]

LEMMA SumOfSequence ==
  ASSUME NEW s \in Seq(Int)
  PROVE  \E a : PrefixSums(a, s) /\ FoldLeft(+, 0, s) = a[Len(s)]
<1> PICK n \in Nat : n = Len(s)
  OBVIOUS
<1>1. PICK h : /\ Folding(h, 1 .. Len(s), Int, Adding, Latest(Len(s)), 0, s)
               /\ FoldLeft(+, 0, s) = h[1 .. Len(s)]
  BY PlusFolding
<1> PICK V, P, base : V = Int /\ P = Adding /\ base = 0
  OBVIOUS
<1>2. Folding(h, 1 .. Len(s), V, P, Latest(Len(s)), base, s)
  BY <1>1
<1>3. /\ h[1 .. 0] = base
      /\ \A i \in 0 .. Len(s) - 1 : h[1 .. i + 1] = P[s[i + 1]][h[1 .. i]]
      /\ \A i \in 0 .. Len(s) : h[1 .. i] \in V
  BY <1>2, FoldingPrefix
<1> PICK a : a = [i \in 0 .. n |-> h[1 .. i]]
  OBVIOUS
<1>4. a \in [0 .. n -> Int] /\ a[0] = 0
  <2>1. 0 \in 0 .. n
    OBVIOUS
  <2> QED
    BY <1>3, <2>1
<1>5. ASSUME NEW i \in 1 .. n PROVE a[i] = a[i - 1] + s[i]
  <2> PICK j : j = i - 1
    OBVIOUS
  <2>1. j \in 0 .. n - 1 /\ j + 1 = i /\ j \in 0 .. n /\ i \in 0 .. n
    OBVIOUS
  <2>2. h[1 .. i] = Adding[s[i]][h[1 .. j]] /\ h[1 .. j] \in Int /\ s[i] \in Int
    BY <1>3, <2>1
  <2>3. Adding[s[i]][h[1 .. j]] = s[i] + h[1 .. j]
    BY <2>2, AddingIsSum
  <2>4. a[i] = h[1 .. i] /\ a[j] = h[1 .. j]
    BY <2>1
  <2> QED
    BY <2>1, <2>2, <2>3, <2>4
<1>6. a[n] = h[1 .. n]
  OBVIOUS
<1> QED
  BY <1>1, <1>4, <1>5, <1>6 DEF PrefixSums

SeqSum(s) == FoldLeft(+, 0, s)

LEMMA PrefixesAdd ==
  ASSUME NEW s \in Seq(Int)
  PROVE  \E a : PrefixSums(a, s) /\ SeqSum(s) = a[Len(s)]
BY SumOfSequence DEF SeqSum

\* The sum of no numbers, of any, and of one more.
LEMMA SumSteps ==
  /\ SeqSum(<<>>) = 0
  /\ \A s \in Seq(Int) : SeqSum(s) \in Int
  /\ \A s \in Seq(Int), x \in Int : SeqSum(Append(s, x)) = SeqSum(s) + x
<1>1. SeqSum(<<>>) = 0
  <2>1. <<>> \in Seq(Int) /\ Len(<<>>) = 0
    OBVIOUS
  <2>2. PICK a : PrefixSums(a, <<>>) /\ SeqSum(<<>>) = a[Len(<<>>)]
    BY <2>1, PrefixesAdd
  <2> QED
    BY <2>1, <2>2 DEF PrefixSums
<1>2. ASSUME NEW s \in Seq(Int) PROVE SeqSum(s) \in Int
  <2>1. PICK a : PrefixSums(a, s) /\ SeqSum(s) = a[Len(s)]
    BY PrefixesAdd
  <2>2. Len(s) \in 0 .. Len(s)
    OBVIOUS
  <2> QED
    BY <2>1, <2>2 DEF PrefixSums
<1>3. ASSUME NEW s \in Seq(Int), NEW x \in Int
      PROVE  SeqSum(Append(s, x)) = SeqSum(s) + x
  <2> PICK n \in Nat : n = Len(s)
    OBVIOUS
  <2> PICK t : t = Append(s, x)
    OBVIOUS
  <2>1. t \in Seq(Int) /\ Len(t) = n + 1 /\ t[n + 1] = x /\ \A i \in 1 .. n : t[i] = s[i]
    OBVIOUS
  <2>2. PICK a : PrefixSums(a, s) /\ SeqSum(s) = a[Len(s)]
    BY PrefixesAdd
  <2>3. PICK b : PrefixSums(b, t) /\ SeqSum(t) = b[Len(t)]
    BY <2>1, PrefixesAdd
  <2>4. /\ a[0] = 0 /\ \A i \in 1 .. n : a[i] = a[i - 1] + s[i]
        /\ b[0] = 0 /\ \A i \in 1 .. n + 1 : b[i] = b[i - 1] + t[i]
    BY <2>1, <2>2, <2>3 DEF PrefixSums
  <2> DEFINE Q == {i \in Nat : i <= n => b[i] = a[i]}
  <2>5. 0 \in Q
    BY <2>4
  <2>6. ASSUME NEW i \in Nat, i \in Q PROVE i + 1 \in Q
    <3> SUFFICES ASSUME i + 1 <= n PROVE b[i + 1] = a[i + 1]
      OBVIOUS
    <3>1. b[i] = a[i] /\ i + 1 \in 1 .. n /\ i + 1 \in 1 .. n + 1 /\ (i + 1) - 1 = i
      BY <2>6
    <3>2. b[i + 1] = b[i] + t[i + 1] /\ a[i + 1] = a[i] + s[i + 1]
      BY <2>4, <3>1
    <3> QED
      BY <2>1, <3>1, <3>2
  <2> HIDE DEF Q
  <2>7. n \in Q
    BY <2>5, <2>6, SetInduction
  <2>8. b[n] = a[n]
    BY <2>7 DEF Q
  <2>9. n + 1 \in 1 .. n + 1 /\ (n + 1) - 1 = n
    OBVIOUS
  <2> QED
    BY <2>1, <2>2, <2>3, <2>4, <2>8, <2>9
<1> QED
  BY <1>1, <1>2, <1>3

LEMMA SumConcat ==
  ASSUME NEW s \in Seq(Int), NEW t \in Seq(Int)
  PROVE  SeqSum(s \o t) = SeqSum(s) + SeqSum(t)
<1> PICK F : F = [u \in Seq(Int) |-> SeqSum(u)]
  OBVIOUS
<1>1. /\ F[<<>>] = 0 /\ \A u \in Seq(Int) : F[u] \in Int
      /\ \A u \in Seq(Int), x \in Int : F[Append(u, x)] = F[u] + x
  <2>1. <<>> \in Seq(Int) /\ \A u \in Seq(Int), x \in Int : Append(u, x) \in Seq(Int)
    OBVIOUS
  <2> QED
    BY <2>1, SumSteps
<1> DEFINE Q == {u \in Seq(Int) : F[s \o u] = F[s] + F[u]}
<1>2. <<>> \in Q
  <2>1. s \o <<>> = s /\ <<>> \in Seq(Int)
    OBVIOUS
  <2> QED
    BY <1>1, <2>1
<1>3. ASSUME NEW u \in Q \cap Seq(Int), NEW x \in Int PROVE Append(u, x) \in Q
  <2>1. s \o Append(u, x) = Append(s \o u, x) /\ s \o u \in Seq(Int) /\ Append(u, x) \in Seq(Int)
    <3>1. u \in Seq(Int)
      OBVIOUS
    <3> QED
      BY ONLY <3>1, s \in Seq(Int), x \in Int, AppendConcat
  <2>2. /\ F[Append(s \o u, x)] = F[s \o u] + x /\ F[Append(u, x)] = F[u] + x
        /\ F[s \o u] = F[s] + F[u] /\ F[s] \in Int /\ F[u] \in Int
    BY ONLY <1>1, <1>3, <2>1, s \in Seq(Int), x \in Int
  <2>3. F[s \o Append(u, x)] = F[s] + F[Append(u, x)]
    BY ONLY <2>1, <2>2, x \in Int
  <2> QED
    BY ONLY <2>1, <2>3
<1> HIDE DEF Q
<1>4. t \in Q
  BY <1>2, <1>3, SeqInduction
<1>5. F[s \o t] = F[s] + F[t] /\ s \o t \in Seq(Int)
  BY <1>4 DEF Q
<1> QED
  BY <1>5

\* The sum of n times the same number.
LEMMA SumConstant ==
  ASSUME NEW n \in Nat, NEW x \in Int
  PROVE  SeqSum([k \in 1 .. n |-> x]) = n * x
<1> DEFINE Q == {m \in Nat : SeqSum([k \in 1 .. m |-> x]) = m * x}
<1>1. 0 \in Q
  <2>1. [k \in 1 .. 0 |-> x] = <<>> /\ 0 * x = 0
    OBVIOUS
  <2> QED
    BY <2>1, SumSteps
<1>2. ASSUME NEW m \in Nat, m \in Q PROVE m + 1 \in Q
  <2> PICK s, t : s = [k \in 1 .. m |-> x] /\ t = [k \in 1 .. m + 1 |-> x]
    OBVIOUS
  <2>1. s \in Seq(Int) /\ t \in Seq(Int) /\ t = Append(s, x)
    <3>1. /\ s \in Seq(Int) /\ Len(s) = m /\ t \in Seq(Int) /\ Len(t) = m + 1
      OBVIOUS
    <3>2. Append(s, x) \in Seq(Int) /\ Len(Append(s, x)) = m + 1
      BY <3>1
    <3>3. \A i \in 1 .. m + 1 : t[i] = Append(s, x)[i]
      BY <3>1
    <3> QED
      BY <3>1, <3>2, <3>3, SeqEqual
  <2>2. SeqSum(t) = SeqSum(s) + x
    BY <2>1, SumSteps
  <2>3. SeqSum(s) = m * x
    BY <1>2
  <2>4. m * x + x = (m + 1) * x
    OBVIOUS
  <2> QED
    BY <2>2, <2>3, <2>4
<1> HIDE DEF Q
<1>3. n \in Q
  BY <1>1, <1>2, SetInduction
<1> QED
  BY <1>3 DEF Q

(***************************************************************************)
(* Two sequences that move in opposite directions: n times the sum of the  *)
(* products is at most the product of the sums.                            *)
(***************************************************************************)
\* z holds the products of x and y, of the same length.
Products(z, x, y) == Len(z) = Len(x) /\ Len(y) = Len(x) /\ \A i \in 1 .. Len(x) : z[i] = x[i] * y[i]

Rises(x) == \A i, j \in 1 .. Len(x) : i < j => x[i] <= x[j]
Falls(x) == \A i, j \in 1 .. Len(x) : i < j => x[i] >= x[j]

LEMMA RestStep ==
  ASSUME NEW m \in Int, NEW u \in Int, NEW v \in Int, NEW p \in Int, NEW q \in Int,
         NEW am \in Int, NEW bm \in Int, NEW cm \in Int
  PROVE  (m + 1) * (u * v) - u * (bm + q) - v * (am + p) + (cm + p * q)
            = (m * (u * v) - u * bm - v * am + cm) + (u - p) * (v - q)
<1>1. (m + 1) * (u * v) = m * (u * v) + u * v
  OBVIOUS
<1>2. u * (bm + q) = u * bm + u * q /\ v * (am + p) = v * am + v * p
  OBVIOUS
<1>3. (u - p) * (v - q) = u * v - u * q - v * p + p * q
  OBVIOUS
<1> QED
  BY <1>1, <1>2, <1>3

LEMMA OppositeSigns ==
  ASSUME NEW u \in Int, NEW v \in Int, NEW p \in Int, NEW q \in Int, p <= u, q >= v
  PROVE  (u - p) * (v - q) <= 0
<1>1. PICK d, e \in Nat : d = u - p /\ e = q - v
  OBVIOUS
<1>2. d * e >= 0 /\ d * (-e) = -(d * e) /\ v - q = -e /\ d * e \in Int
  BY <1>1
<1> QED
  BY <1>1, <1>2

LEMMA ProductOfSums ==
  ASSUME NEW m \in Int, NEW p \in Int, NEW q \in Int,
         NEW am \in Int, NEW bm \in Int, NEW cm \in Int,
         m * (p * q) - p * bm - q * am + cm <= 0, m * cm <= am * bm
  PROVE  (m + 1) * (cm + p * q) <= (am + p) * (bm + q)
<1>1. (m + 1) * (cm + p * q) = m * cm + m * (p * q) + cm + p * q
  OBVIOUS
<1>2. (am + p) * (bm + q) = am * bm + p * bm + q * am + p * q
  OBVIOUS
<1>3. /\ m * (p * q) \in Int /\ p * bm \in Int /\ q * am \in Int /\ m * cm \in Int
      /\ am * bm \in Int /\ p * q \in Int
  OBVIOUS
<1> QED
  BY <1>1, <1>2, <1>3

LEMMA OppositeSums ==
  ASSUME NEW x \in Seq(Int), NEW y \in Seq(Int), NEW z, Products(z, x, y),
         Rises(x), Falls(y),
         NEW a, NEW b, NEW c, PrefixSums(a, x), PrefixSums(b, y), PrefixSums(c, z)
  PROVE  Len(x) * c[Len(x)] <= a[Len(x)] * b[Len(x)]
<1> PICK n \in Nat : n = Len(x)
  OBVIOUS
<1>1. \A i \in 0 .. n : a[i] \in Int /\ b[i] \in Int /\ c[i] \in Int
  BY DEF PrefixSums, Products
<1>2. a[0] = 0 /\ b[0] = 0 /\ c[0] = 0
  BY DEF PrefixSums
<1>3. \A m \in Nat : m + 1 <= n =>
          /\ a[m + 1] = a[m] + x[m + 1] /\ b[m + 1] = b[m] + y[m + 1]
          /\ c[m + 1] = c[m] + z[m + 1] /\ z[m + 1] = x[m + 1] * y[m + 1]
          /\ x[m + 1] \in Int /\ y[m + 1] \in Int
          /\ a[m] \in Int /\ b[m] \in Int /\ c[m] \in Int
          /\ \A i \in 1 .. m : x[i] <= x[m + 1] /\ y[i] >= y[m + 1]
  <2> TAKE m \in Nat
  <2> HAVE m + 1 <= n
  <2>1. m + 1 \in 1 .. n /\ (m + 1) - 1 = m /\ m \in 0 .. n
    OBVIOUS
  <2>2. Len(y) = n /\ Len(z) = n /\ z[m + 1] = x[m + 1] * y[m + 1]
    BY <2>1 DEF Products
  <2>3. /\ a[m + 1] = a[m] + x[m + 1] /\ b[m + 1] = b[m] + y[m + 1] /\ c[m + 1] = c[m] + z[m + 1]
    <3> HIDE <2>2
    <3>1. /\ \A i \in 1 .. n : a[i] = a[i - 1] + x[i]
          /\ \A i \in 1 .. n : b[i] = b[i - 1] + y[i]
          /\ \A i \in 1 .. n : c[i] = c[i - 1] + z[i]
      BY <2>2 DEF PrefixSums
    <3> QED
      BY <2>1, <3>1
  <2>4. x[m + 1] \in Int /\ y[m + 1] \in Int
    BY <2>1, <2>2
  <2>5. \A i \in 1 .. m : x[i] <= x[m + 1] /\ y[i] >= y[m + 1]
    <3>1. \A i \in 1 .. m : i \in 1 .. n /\ i < m + 1
      BY <2>1
    <3> QED
      BY <2>1, <2>2, <3>1 DEF Rises, Falls
  <2> QED
    BY <1>1, <2>1, <2>2, <2>3, <2>4, <2>5
<1> DEFINE \* the sum of (u - x[i]) * (v - y[i]) over the first m
           Rest(m, u, v) == m * (u * v) - u * b[m] - v * a[m] + c[m]
           Q(u, v) == {m \in Nat : m <= n /\ (\A i \in 1 .. m : x[i] <= u /\ y[i] >= v)
                                       => Rest(m, u, v) <= 0}
<1>4. ASSUME NEW u \in Int, NEW v \in Int PROVE \A m \in Nat : m \in Q(u, v)
  <2>1. 0 \in Q(u, v)
    BY <1>2
  <2>2. ASSUME NEW m \in Nat, m \in Q(u, v) PROVE m + 1 \in Q(u, v)
    <3> HIDE DEF Rest
    <3> SUFFICES ASSUME m + 1 <= n, \A i \in 1 .. m + 1 : x[i] <= u /\ y[i] >= v
                 PROVE  Rest(m + 1, u, v) <= 0
      OBVIOUS
    <3>1. Rest(m, u, v) <= 0
      BY <2>2
    <3> PICK p, q, am, bm, cm \in Int :
               /\ p = x[m + 1] /\ q = y[m + 1] /\ am = a[m] /\ bm = b[m] /\ cm = c[m]
      BY <1>3
    <3>2. p <= u /\ q >= v
      OBVIOUS
    <3>3. a[m + 1] = am + p /\ b[m + 1] = bm + q /\ c[m + 1] = cm + p * q
      BY <1>3
    <3>4. Rest(m, u, v) = m * (u * v) - u * bm - v * am + cm
      BY DEF Rest
    <3>5. Rest(m + 1, u, v) = (m + 1) * (u * v) - u * (bm + q) - v * (am + p) + (cm + p * q)
      BY <3>3, Zenon DEF Rest
    <3>6. Rest(m + 1, u, v) = Rest(m, u, v) + (u - p) * (v - q)
      <4>1. (m + 1) * (u * v) - u * (bm + q) - v * (am + p) + (cm + p * q)
               = (m * (u * v) - u * bm - v * am + cm) + (u - p) * (v - q)
        BY ONLY m \in Nat, u \in Int, v \in Int, p \in Int, q \in Int,
                am \in Int, bm \in Int, cm \in Int, RestStep
      <4> QED
        BY <3>4, <3>5, <4>1, Zenon
    <3>7. (u - p) * (v - q) <= 0 /\ (u - p) * (v - q) \in Int
      BY ONLY u \in Int, v \in Int, p \in Int, q \in Int, <3>2, OppositeSigns
    <3>8. Rest(m, u, v) \in Int
      <4>1. m * (u * v) - u * bm - v * am + cm \in Int
        BY ONLY m \in Nat, u \in Int, v \in Int, am \in Int, bm \in Int, cm \in Int
      <4> QED
        BY <3>4, <4>1, Zenon
    <3> QED
      BY <3>1, <3>6, <3>7, <3>8
  <2> HIDE DEF Q
  <2> QED
    BY <2>1, <2>2, SetInduction
<1> DEFINE T == {m \in Nat : m <= n => m * c[m] <= a[m] * b[m]}
<1>5. 0 \in T
  BY <1>2
<1>6. ASSUME NEW m \in Nat, m \in T PROVE m + 1 \in T
  <2> SUFFICES ASSUME m + 1 <= n PROVE (m + 1) * c[m + 1] <= a[m + 1] * b[m + 1]
    OBVIOUS
  <2>1. m * c[m] <= a[m] * b[m]
    BY <1>6
  <2> HIDE DEF T
  <2> PICK p, q, am, bm, cm \in Int :
             /\ p = x[m + 1] /\ q = y[m + 1] /\ am = a[m] /\ bm = b[m] /\ cm = c[m]
    BY <1>3
  <2>2. a[m + 1] = am + p /\ b[m + 1] = bm + q /\ c[m + 1] = cm + p * q
    BY <1>3
  <2>3. \A i \in 1 .. m : x[i] <= p /\ y[i] >= q
    <3>1. \A i \in 1 .. m : x[i] <= x[m + 1] /\ y[i] >= y[m + 1]
      BY <1>3
    <3> QED
      BY <3>1, Zenon
  <2>4. m * (p * q) - p * bm - q * am + cm <= 0
    <3>1. m <= n
      OBVIOUS
    <3>2. Rest(m, p, q) <= 0
      BY <1>4, <2>3, <3>1
    <3> QED
      BY <3>2, Zenon
  <2>5. m * cm <= am * bm
    BY <2>1
  <2>6. (m + 1) * (cm + p * q) <= (am + p) * (bm + q)
    BY ONLY m \in Nat, p \in Int, q \in Int, am \in Int, bm \in Int, cm \in Int,
            <2>4, <2>5, ProductOfSums
  <2> QED
    BY <2>2, <2>6
<1> HIDE DEF T
<1>7. n \in T
  BY <1>5, <1>6, SetInduction
<1> QED
  BY <1>7 DEF T

LEMMA NegatedProduct ==
  ASSUME NEW u \in Int, NEW v \in Int
  PROVE  u * v \in Int /\ u * (-v) = -(u * v)
OBVIOUS

\* The same of two sequences that move in the same direction, one of them negated.
LEMMA FallingSums ==
  ASSUME NEW x \in Seq(Int), NEW y \in Seq(Int), NEW z \in Seq(Int), Products(z, x, y),
         Rises(x), Rises(y),
         NEW a, NEW b, NEW c, PrefixSums(a, x), PrefixSums(b, y), PrefixSums(c, z)
  PROVE  Len(x) * (-c[Len(x)]) <= a[Len(x)] * (-b[Len(x)])
<1> PICK n \in Nat : n = Len(x)
  OBVIOUS
<1>1. /\ 0 \in 0 .. n /\ n \in 0 .. n
      /\ \A i \in 1 .. n : i \in 0 .. n /\ i - 1 \in 0 .. n
  OBVIOUS
<1>2. Len(x) = n /\ Len(y) = n /\ Len(z) = n
  BY DEF Products
<1>3. PICK ny, nz : ny = [i \in 1 .. n |-> -y[i]] /\ nz = [i \in 1 .. n |-> -z[i]]
  OBVIOUS
<1>4. PICK nb, nc : nb = [i \in 0 .. n |-> -b[i]] /\ nc = [i \in 0 .. n |-> -c[i]]
  OBVIOUS
<1>5. /\ ny \in Seq(Int) /\ Len(ny) = n /\ \A i \in 1 .. n : ny[i] = -y[i]
      /\ nz \in Seq(Int) /\ Len(nz) = n /\ \A i \in 1 .. n : nz[i] = -z[i]
  <2>1. \A i \in 1 .. n : y[i] \in Int /\ z[i] \in Int
    BY <1>2
  <2>2. \A i \in 1 .. n : -y[i] \in Int /\ -z[i] \in Int
    BY <2>1
  <2> QED
    BY <1>3, <2>2
<1>6. \A i \in 0 .. n : b[i] \in Int /\ c[i] \in Int
  BY <1>2 DEF PrefixSums
<1>7. /\ nb \in [0 .. n -> Int] /\ \A i \in 0 .. n : nb[i] = -b[i]
      /\ nc \in [0 .. n -> Int] /\ \A i \in 0 .. n : nc[i] = -c[i]
  <2>1. \A i \in 0 .. n : -b[i] \in Int /\ -c[i] \in Int
    BY <1>6
  <2> QED
    BY <1>4, <2>1
<1>8. PrefixSums(nb, ny) /\ PrefixSums(nc, nz)
  <2>1. b[0] = 0 /\ c[0] = 0
    BY DEF PrefixSums
  <2>2. nb[0] = 0 /\ nc[0] = 0
    BY <1>1, <1>7, <2>1
  <2>3. ASSUME NEW i \in 1 .. n PROVE nb[i] = nb[i - 1] + ny[i] /\ nc[i] = nc[i - 1] + nz[i]
    <3>1. b[i] = b[i - 1] + y[i] /\ c[i] = c[i - 1] + z[i]
      BY <1>2 DEF PrefixSums
    <3>2. /\ nb[i] = -b[i] /\ nb[i - 1] = -b[i - 1] /\ ny[i] = -y[i]
          /\ nc[i] = -c[i] /\ nc[i - 1] = -c[i - 1] /\ nz[i] = -z[i]
      BY <1>1, <1>5, <1>7
    <3>3. b[i - 1] \in Int /\ c[i - 1] \in Int
      BY <1>1, <1>6
    <3>4. y[i] \in Int /\ z[i] \in Int
      BY <1>2
    <3> PICK b0, c0, v, w \in Int : b0 = b[i - 1] /\ c0 = c[i - 1] /\ v = y[i] /\ w = z[i]
      BY <3>3, <3>4, Zenon
    <3>5. -(b0 + v) = -b0 + -v /\ -(c0 + w) = -c0 + -w
      BY ONLY b0 \in Int, c0 \in Int, v \in Int, w \in Int
    <3> QED
      BY <3>1, <3>2, <3>5, Zenon
  <2> QED
    BY <1>5, <1>7, <2>2, <2>3 DEF PrefixSums
<1>9. Falls(ny)
  <2>1. \A i \in 1 .. n : ny[i] = -y[i] /\ y[i] \in Int
    BY <1>2, <1>5
  <2>2. ASSUME NEW i \in 1 .. n, NEW j \in 1 .. n, i < j PROVE ny[i] >= ny[j]
    <3>1. y[i] <= y[j]
      BY <1>2, <2>2 DEF Rises
    <3> QED
      BY <2>1, <3>1
  <2> QED
    BY <1>5, <2>2 DEF Falls
<1>10. Products(nz, x, ny)
  <2>1. ASSUME NEW i \in 1 .. n PROVE nz[i] = x[i] * ny[i]
    <3>1. x[i] \in Int /\ y[i] \in Int /\ nz[i] = -z[i] /\ ny[i] = -y[i]
      BY <1>2, <1>5
    <3>2. z[i] = x[i] * y[i]
      BY DEF Products
    <3>3. x[i] * (-y[i]) = -(x[i] * y[i])
      BY ONLY <3>1, NegatedProduct
    <3> QED
      BY <3>1, <3>2, <3>3
  <2> QED
    BY <1>2, <1>5, <2>1 DEF Products
<1>11. n * nc[n] <= a[n] * nb[n]
  BY <1>5, <1>8, <1>9, <1>10, OppositeSums
<1> QED
  BY <1>1, <1>7, <1>11

-----------------------------------------------------------------------------
(***************************************************************************)
(* Position.Update.                                                        *)
(***************************************************************************)
LEMMA AbsNat == ASSUME NEW n \in Int PROVE Abs(n) \in Nat /\ (n # 0 => Abs(n) # 0)
  BY DEF Abs

LEMMA ProductPositive ==
  ASSUME NEW m \in Nat \ {0}, NEW n \in Nat \ {0}
  PROVE  m * n \in Nat \ {0}
  OBVIOUS

\* The sum of two yen amounts is one: its denominator is not zero.
LEMMA AddYenType ==
  ASSUME NEW a \in Frac, NEW b \in Frac
  PROVE  AddYen(a, b) \in Frac
<1>1. a.num \in Int /\ b.num \in Int /\ a.den \in Nat \ {0} /\ b.den \in Nat \ {0}
  BY DEF Frac
<1>2. a.den * b.den \in Nat \ {0}
  BY <1>1, ProductPositive
<1>3. a.num * b.den + b.num * a.den \in Int
  BY <1>1
<1> QED
  BY <1>1, <1>2, <1>3 DEF AddYen, Frac

LEMMA IncreasedType ==
  ASSUME NEW p \in PositionType, NEW t \in Int \ {0}, NEW price \in Nat
  PROVE  Increased(p, t, price) \in PositionType
<1>1. p.size \in Int /\ p.num \in Int /\ p.den \in Nat \ {0}
  BY DEF PositionType
<1>2. Abs(p.size) \in Nat /\ Abs(t) \in Nat \ {0}
  BY <1>1, AbsNat
<1>3. p.den * (Abs(p.size) + Abs(t)) \in Nat \ {0}
  BY <1>1, <1>2, ProductPositive
<1>4. Abs(p.size) * p.num + Abs(t) * price * p.den \in Int
  BY <1>1, <1>2
<1> QED
  BY <1>1, <1>3, <1>4 DEF Increased, PositionType

\* Update leaves a position behind: above all, it never divides by zero.
THEOREM UpdateType ==
  ASSUME NEW p \in PositionType, NEW t \in Int \ {0}, NEW price \in Nat
  PROVE  Update(p, t, price) \in PositionType
<1>1. p.size \in Int /\ p.num \in Int /\ p.den \in Nat \ {0}
  BY DEF PositionType
<1>2. Flat \in PositionType /\ \A s \in Int : Opened(s, price) \in PositionType
  BY DEF Flat, Opened, PositionType
<1>3. [p EXCEPT !.size = @ + t] \in PositionType
  BY <1>1 DEF PositionType
<1>4. Offset(p, t, price) \in PositionType
  BY <1>1, <1>2, <1>3 DEF Offset
<1> QED
  BY <1>2, <1>4, IncreasedType DEF Update

\* The size moves by the trade's amount, whichever case of Update applies.
THEOREM UpdateSize ==
  ASSUME NEW p \in PositionType, NEW t \in Int \ {0}, NEW price \in Nat
  PROVE  Update(p, t, price).size = p.size + t
<1>1. p.size \in Int /\ p.num \in Int /\ p.den \in Nat \ {0}
  BY DEF PositionType
<1>2. CASE p.size = 0
  BY <1>1, <1>2 DEF Update, Opened
<1>3. CASE p.size # 0 /\ SameDirection(p, t)
  BY <1>1, <1>3 DEF Update, Increased
<1>4. CASE p.size # 0 /\ ~SameDirection(p, t)
  <2>1. Update(p, t, price) = Offset(p, t, price)
    BY <1>4 DEF Update
  <2>2. Abs(t) = Abs(p.size) => p.size + t = 0
    BY <1>1, <1>4 DEF SameDirection, Abs
  <2>3. [p EXCEPT !.size = @ + t].size = p.size + t
    BY DEF PositionType
  <2> QED
    BY <1>1, <2>1, <2>2, <2>3 DEF Offset, Flat, Opened
<1> QED
  BY <1>2, <1>3, <1>4

\* What Update returns is a yen amount.
LEMMA RealizedByType ==
  ASSUME NEW p \in PositionType, NEW t \in Int \ {0}, NEW price \in Nat
  PROVE  RealizedBy(p, t, price) \in Frac
<1>1. p.size \in Int /\ p.num \in Int /\ p.den \in Nat \ {0}
  BY DEF PositionType
<1>2. Closed(p, t) \in Nat
  BY <1>1, AbsNat DEF Closed
<1>3. price * p.den - p.num \in Int
  BY <1>1
<1>4. \A k \in Int : k * Closed(p, t) \in Int
  BY <1>2
<1> QED
  BY <1>1, <1>3, <1>4 DEF RealizedBy, ZeroYen, Frac

\* What the position costs changes by what the trade paid and what Update
\* returns as realized, all of it over the denominator of the old average: the
\* averaging, the partial close, the close and the flip lose nothing.
THEOREM UpdateKeepsCost ==
  ASSUME NEW p \in PositionType, NEW t \in Int \ {0}, NEW price \in Nat
  PROVE  CostOf(Update(p, t, price)).num * p.den * RealizedBy(p, t, price).den
           = (CostOf(p).num * RealizedBy(p, t, price).den
                + t * price * p.den * RealizedBy(p, t, price).den
                + RealizedBy(p, t, price).num * p.den)
             * CostOf(Update(p, t, price)).den
<1> DEFINE q == Update(p, t, price)
           r == RealizedBy(p, t, price)
           s == p.size
<1>1. s \in Int /\ p.num \in Int /\ p.den \in Nat \ {0}
  BY DEF PositionType
<1>2. CASE s = 0
  <2>1. q = Opened(t, price) /\ r = ZeroYen
    BY <1>2 DEF Update, RealizedBy
  <2>2. q.size = t /\ q.num = price /\ q.den = 1 /\ r.num = 0 /\ r.den = 1
    BY <2>1 DEF Opened, ZeroYen
  <2> QED
    BY <1>1, <1>2, <2>2 DEF CostOf
<1>3. CASE s # 0 /\ SameDirection(p, t)
  <2>1. q = Increased(p, t, price) /\ r = ZeroYen
    BY <1>3 DEF Update, RealizedBy
  <2>2. q.size = s + t /\ r.num = 0 /\ r.den = 1
    BY <2>1 DEF Increased, ZeroYen
  <2>3. CASE s > 0 /\ t > 0
    <3>1. Abs(s) = s /\ Abs(t) = t
      BY <1>1, <2>3 DEF Abs
    <3>2. q.num = s * p.num + t * price * p.den /\ q.den = p.den * (s + t)
      BY <2>1, <3>1 DEF Increased
    <3> QED
      BY <1>1, <2>2, <3>2 DEF CostOf
  <2>4. CASE s < 0 /\ t < 0
    <3>1. Abs(s) = -s /\ Abs(t) = -t
      BY <1>1, <2>4 DEF Abs
    <3>2. q.num = (-s) * p.num + (-t) * price * p.den /\ q.den = p.den * ((-s) + (-t))
      BY <2>1, <3>1 DEF Increased
    <3> QED
      BY <1>1, <2>2, <3>2 DEF CostOf
  <2> QED
    BY <1>3, <2>3, <2>4 DEF SameDirection
<1>4. CASE s # 0 /\ ~SameDirection(p, t)
  <2> DEFINE k == (IF s < 0 THEN -(price * p.den - p.num) ELSE price * p.den - p.num)
  <2>1. q = Offset(p, t, price) /\ r.num = k * Closed(p, t) /\ r.den = p.den
    BY <1>4 DEF Update, RealizedBy
  <2>2. (s > 0 /\ t < 0) \/ (s < 0 /\ t > 0)
    BY <1>1, <1>4 DEF SameDirection
  <2>3. CASE Abs(t) < Abs(s)
    <3>0. q = [p EXCEPT !.size = @ + t]
      BY <2>1, <2>3 DEF Offset
    <3>1. q.size = s + t /\ q.num = p.num /\ q.den = p.den
      BY <3>0 DEF PositionType
    <3>2. r.num = -(price * p.den - p.num) * t
      BY <1>1, <2>1, <2>2, <2>3 DEF Closed, Abs
    <3> QED
      BY <1>1, <2>1, <3>1, <3>2 DEF CostOf
  <2>4. CASE Abs(t) = Abs(s)
    <3>1. q = Flat
      BY <1>1, <2>1, <2>4, AbsNat DEF Offset
    <3>2. t = -s /\ Closed(p, t) = Abs(s)
      BY <1>1, <2>2, <2>4 DEF Closed, Abs
    <3>3. r.num = (price * p.den - p.num) * s
      <4>1. CASE s > 0
        BY <1>1, <2>1, <3>2, <4>1 DEF Abs
      <4>2. CASE s < 0
        <5>1. r.num = (-(price * p.den - p.num)) * (-s)
          BY <1>1, <2>1, <3>2, <4>2 DEF Abs
        <5>2. \A u \in Int : (-u) * (-s) = u * s
          BY <1>1
        <5>3. price * p.den - p.num \in Int
          BY <1>1
        <5> QED
          BY <5>1, <5>2, <5>3
      <4> QED
        BY <2>2, <4>1, <4>2
    <3> QED
      BY <1>1, <2>1, <3>1, <3>2, <3>3 DEF CostOf, Flat
  <2>5. CASE Abs(t) > Abs(s)
    <3>1. q.size = s + t /\ q.num = price /\ q.den = 1
      BY <1>1, <2>1, <2>5, AbsNat DEF Offset, Opened
    <3>2. r.num = (price * p.den - p.num) * s
      BY <1>1, <2>1, <2>2, <2>5 DEF Closed, Abs
    <3> QED
      BY <1>1, <2>1, <3>1, <3>2 DEF CostOf
  <2> QED
    BY <1>1, <2>3, <2>4, <2>5, AbsNat
<1> QED
  BY <1>1, <1>2, <1>3, <1>4

-----------------------------------------------------------------------------
(***************************************************************************)
(* Yen amounts.                                                            *)
(***************************************************************************)
LEMMA CancelFactor ==
  ASSUME NEW a \in Int, NEW b \in Int, NEW k \in Nat \ {0}, a * k = b * k
  PROVE  a = b
OBVIOUS

LEMMA SameYenTransitive ==
  ASSUME NEW a \in Frac, NEW b \in Frac, NEW c \in Frac, SameYen(a, b), SameYen(b, c)
  PROVE  SameYen(a, c)
<1>1. /\ a.num \in Int /\ b.num \in Int /\ c.num \in Int
      /\ a.den \in Nat \ {0} /\ b.den \in Nat \ {0} /\ c.den \in Nat \ {0}
  BY DEF Frac
<1>2. a.num * b.den = b.num * a.den /\ b.num * c.den = c.num * b.den
  BY DEF SameYen
<1>3. (a.num * c.den) * b.den = (c.num * a.den) * b.den
  <2>1. (a.num * c.den) * b.den = (a.num * b.den) * c.den
    BY <1>1
  <2>2. (b.num * a.den) * c.den = (b.num * c.den) * a.den
    BY <1>1
  <2>3. (c.num * b.den) * a.den = (c.num * a.den) * b.den
    BY <1>1
  <2> QED
    BY <1>2, <2>1, <2>2, <2>3
<1>4. a.num * c.den \in Int /\ c.num * a.den \in Int
  BY <1>1
<1> QED
  BY <1>1, <1>3, <1>4, CancelFactor DEF SameYen

\* What AddYen returns is the sum: over the product of the denominators.
LEMMA AddYenSum ==
  ASSUME NEW a \in Frac, NEW b \in Frac
  PROVE  AddYen(a, b).num * (a.den * b.den) = (a.num * b.den + b.num * a.den) * AddYen(a, b).den
<1>1. /\ a.num \in Int /\ b.num \in Int
      /\ a.den \in Nat \ {0} /\ b.den \in Nat \ {0}
  BY DEF Frac
<1>2. CASE a.den = b.den
  <2>1. AddYen(a, b).num = a.num + b.num /\ AddYen(a, b).den = a.den
    BY <1>2 DEF AddYen, Frac
  <2> QED
    BY <1>1, <1>2, <2>1
<1>3. CASE a.den # b.den
  <2>1. AddYen(a, b).num = a.num * b.den + b.num * a.den /\ AddYen(a, b).den = a.den * b.den
    BY <1>3 DEF AddYen
  <2> QED
    BY <1>1, <2>1
<1> QED
  BY <1>2, <1>3

\* s is the sum of a and b iff ...
LEMMA SumsAreSame ==
  ASSUME NEW a \in Frac, NEW b \in Frac, NEW s \in Frac,
         s.num * (a.den * b.den) = (a.num * b.den + b.num * a.den) * s.den
  PROVE  SameYen(AddYen(a, b), s)
<1> DEFINE t == AddYen(a, b)
           m == a.den * b.den
           n == a.num * b.den + b.num * a.den
<1>1. t \in Frac /\ t.num * m = n * t.den /\ s.num * m = n * s.den
  BY AddYenSum, AddYenType
<1>2. m \in Nat \ {0} /\ n \in Int
  BY ProductPositive DEF Frac
<1>3. [num |-> n, den |-> m] \in Frac
  BY <1>2 DEF Frac
<1> HIDE DEF t, m, n
<1>4. SameYen(t, [num |-> n, den |-> m]) /\ SameYen([num |-> n, den |-> m], s)
  <2>1. t.num \in Int /\ t.den \in Int /\ s.num \in Int /\ s.den \in Int
    BY <1>1 DEF Frac
  <2> QED
    BY <1>1, <1>2, <2>1 DEF SameYen
<1>5. SameYen(t, s)
  BY <1>1, <1>3, <1>4, SameYenTransitive
<1> QED
  BY <1>5 DEF t

LEMMA AddYenSame ==
  ASSUME NEW a \in Frac, NEW b \in Frac, NEW c \in Frac, SameYen(a, b)
  PROVE  SameYen(AddYen(c, a), AddYen(c, b))
<1> DEFINE s == AddYen(c, b)
<1>1. /\ a.num \in Int /\ b.num \in Int /\ c.num \in Int /\ s.num \in Int
      /\ a.den \in Nat \ {0} /\ b.den \in Nat \ {0} /\ c.den \in Nat \ {0} /\ s.den \in Nat \ {0}
  BY AddYenType DEF Frac
<1>2. a.num * b.den = b.num * a.den
  BY DEF SameYen
<1>3. s.num * (c.den * b.den) = (c.num * b.den + b.num * c.den) * s.den
  BY AddYenSum
<1>4. s \in Frac
  BY AddYenType
<1> HIDE DEF s
<1>5. (s.num * (c.den * a.den)) * b.den = ((c.num * a.den + a.num * c.den) * s.den) * b.den
  <2>1. (s.num * (c.den * a.den)) * b.den = (s.num * (c.den * b.den)) * a.den
    BY <1>1
  <2>2. ((c.num * b.den + b.num * c.den) * s.den) * a.den
          = ((c.num * a.den) * b.den + (b.num * a.den) * c.den) * s.den
    BY <1>1
  <2>3. ((c.num * a.den) * b.den + (a.num * b.den) * c.den) * s.den
          = ((c.num * a.den + a.num * c.den) * s.den) * b.den
    BY <1>1
  <2> QED
    BY <1>2, <1>3, <2>1, <2>2, <2>3
<1>6. s.num * (c.den * a.den) \in Int /\ (c.num * a.den + a.num * c.den) * s.den \in Int
  BY <1>1
<1>7. s.num * (c.den * a.den) = (c.num * a.den + a.num * c.den) * s.den
  BY <1>1, <1>5, <1>6, CancelFactor
<1>8. SameYen(AddYen(c, a), s)
  BY <1>4, <1>7, SumsAreSame
<1> QED
  BY <1>8 DEF s

LEMMA SameYenEquivalence ==
  /\ \A a \in Frac : SameYen(a, a)
  /\ \A a, b \in Frac : SameYen(a, b) => SameYen(b, a)
BY DEF Frac, SameYen

Three(a, b, c) ==
  [num |-> a.num * b.den * c.den + b.num * a.den * c.den + c.num * a.den * b.den,
   den |-> a.den * b.den * c.den]

LEMMA AddThree ==
  ASSUME NEW a \in Frac, NEW b \in Frac, NEW c \in Frac
  PROVE  Three(a, b, c) \in Frac /\ SameYen(AddYen(a, AddYen(b, c)), Three(a, b, c))
<1> DEFINE t == AddYen(b, c)
           s == Three(a, b, c)
<1>1. t \in Frac
  BY AddYenType
<1>2. /\ a.num \in Int /\ b.num \in Int /\ c.num \in Int /\ t.num \in Int
      /\ a.den \in Nat \ {0} /\ b.den \in Nat \ {0} /\ c.den \in Nat \ {0} /\ t.den \in Nat \ {0}
  BY <1>1 DEF Frac
<1>3. t.num * (b.den * c.den) = (b.num * c.den + c.num * b.den) * t.den
  BY AddYenSum
<1> HIDE DEF t
<1>4. s \in Frac
  <2>1. a.den * b.den * c.den \in Nat \ {0}
    BY <1>2, ProductPositive
  <2>2. a.num * b.den * c.den + b.num * a.den * c.den + c.num * a.den * b.den \in Int
    BY <1>2
  <2> QED
    BY <2>1, <2>2 DEF Three, Frac
<1>5. s.num * (a.den * t.den) = (a.num * t.den + t.num * a.den) * s.den
  <2>1. /\ s.num = a.num * b.den * c.den + b.num * a.den * c.den + c.num * a.den * b.den
        /\ s.den = a.den * b.den * c.den
    BY DEF Three
  <2>2. (a.num * t.den + t.num * a.den) * (a.den * b.den * c.den)
          = a.num * t.den * (a.den * b.den * c.den) + (t.num * (b.den * c.den)) * (a.den * a.den)
    BY <1>2
  <2>3. ((b.num * c.den + c.num * b.den) * t.den) * (a.den * a.den)
          = (b.num * a.den * c.den + c.num * a.den * b.den) * (a.den * t.den)
    BY <1>2
  <2>4. a.num * t.den * (a.den * b.den * c.den) = (a.num * b.den * c.den) * (a.den * t.den)
    BY <1>2
  <2>5. (a.num * b.den * c.den + b.num * a.den * c.den + c.num * a.den * b.den) * (a.den * t.den)
          = (a.num * b.den * c.den) * (a.den * t.den)
              + (b.num * a.den * c.den + c.num * a.den * b.den) * (a.den * t.den)
    BY <1>2
  <2> QED
    BY <1>3, <2>1, <2>2, <2>3, <2>4, <2>5
<1>6. SameYen(AddYen(a, t), s)
  BY <1>1, <1>4, <1>5, SumsAreSame
<1> QED
  BY <1>4, <1>6 DEF t

\* Amounts can be added in any order.
LEMMA AddYenSwap ==
  ASSUME NEW a \in Frac, NEW b \in Frac, NEW c \in Frac
  PROVE  SameYen(AddYen(a, AddYen(b, c)), AddYen(b, AddYen(a, c)))
<1> DEFINE l == AddYen(a, AddYen(b, c))
           r == AddYen(b, AddYen(a, c))
           s == Three(a, b, c)
<1>1. l \in Frac /\ r \in Frac
  BY AddYenType
<1>2. s = Three(b, a, c)
  <2>1. /\ a.num \in Int /\ b.num \in Int /\ c.num \in Int
        /\ a.den \in Nat /\ b.den \in Nat /\ c.den \in Nat
    BY DEF Frac
  <2> QED
    BY <2>1 DEF Three
<1>3. s \in Frac /\ SameYen(l, s) /\ SameYen(r, s)
  BY <1>2, AddThree
<1> HIDE DEF l, r, s
<1>4. SameYen(s, r)
  BY <1>1, <1>3, SameYenEquivalence
<1>5. SameYen(l, r)
  BY <1>1, <1>3, <1>4, SameYenTransitive
<1> QED
  BY <1>5 DEF l, r

LEMMA AddYenCommutes ==
  ASSUME NEW a \in Frac, NEW b \in Frac
  PROVE  SameYen(AddYen(a, b), AddYen(b, a))
<1>1. AddYen(b, a).num * (a.den * b.den) = (a.num * b.den + b.num * a.den) * AddYen(b, a).den
  <2>1. AddYen(b, a).num * (b.den * a.den) = (b.num * a.den + a.num * b.den) * AddYen(b, a).den
    BY AddYenSum
  <2>2. /\ a.num \in Int /\ b.num \in Int /\ a.den \in Nat /\ b.den \in Nat
    BY DEF Frac
  <2>3. a.den * b.den = b.den * a.den /\ b.num * a.den + a.num * b.den = a.num * b.den + b.num * a.den
    BY <2>2
  <2> QED
    BY <2>1, <2>3
<1> QED
  BY <1>1, AddYenType, SumsAreSame

LEMMA AddYenAssociates ==
  ASSUME NEW a \in Frac, NEW b \in Frac, NEW c \in Frac
  PROVE  SameYen(AddYen(a, AddYen(b, c)), AddYen(AddYen(a, b), c))
<1> DEFINE l == AddYen(a, AddYen(b, c))
           m == AddYen(a, AddYen(c, b))
           n == AddYen(c, AddYen(a, b))
           r == AddYen(AddYen(a, b), c)
<1>1. l \in Frac /\ m \in Frac /\ n \in Frac /\ r \in Frac
  BY AddYenType
<1>2. SameYen(l, m)
  BY AddYenType, AddYenCommutes, AddYenSame
<1>3. SameYen(m, n)
  BY AddYenSwap
<1>4. SameYen(n, r)
  BY AddYenType, AddYenCommutes
<1> HIDE DEF l, m, n, r
<1>5. SameYen(l, n)
  BY <1>1, <1>2, <1>3, SameYenTransitive
<1>6. SameYen(l, r)
  BY <1>1, <1>4, <1>5, SameYenTransitive
<1> QED
  BY <1>6 DEF l, r

LEMMA AddZeroYen ==
  ASSUME NEW a \in Frac
  PROVE  SameYen(AddYen(ZeroYen, a), a) /\ ZeroYen \in Frac
<1>1. ZeroYen \in Frac
  BY DEF ZeroYen, Frac
<1>2. a.num * (ZeroYen.den * a.den) = (ZeroYen.num * a.den + a.num * ZeroYen.den) * a.den
  <2>1. a.num \in Int /\ a.den \in Nat
    BY DEF Frac
  <2> QED
    BY <2>1 DEF ZeroYen
<1> QED
  BY <1>1, <1>2, SumsAreSame

\* What realized PnL adds to the books, in one equation of amounts.
LEMMA UpdateCost ==
  ASSUME NEW p \in PositionType, NEW t \in Int \ {0}, NEW price \in Nat
  PROVE  SameYen(AddYen(CostOf(p), AddYen([num |-> t * price, den |-> 1], RealizedBy(p, t, price))),
                 CostOf(Update(p, t, price)))
<1> DEFINE q == CostOf(Update(p, t, price))
           k == CostOf(p)
           r == RealizedBy(p, t, price)
           m == [num |-> t * price, den |-> 1]
           three == Three(k, m, r)
<1>1. \A x \in PositionType : CostOf(x) \in Frac
  BY DEF CostOf, PositionType, Frac
<1>2. k \in Frac /\ q \in Frac /\ r \in Frac /\ m \in Frac
  BY <1>1, UpdateType, RealizedByType DEF Frac
<1>3. q.num * p.den * r.den = (k.num * r.den + t * price * p.den * r.den + r.num * p.den) * q.den
  BY UpdateKeepsCost
<1>4. k.den = p.den /\ m.num = t * price /\ m.den = 1
  BY DEF CostOf
<1>5. /\ three.num = k.num * m.den * r.den + m.num * k.den * r.den + r.num * k.den * m.den
      /\ three.den = k.den * m.den * r.den
  BY DEF Three
<1>6. SameYen(AddYen(k, AddYen(m, r)), three) /\ three \in Frac
  BY <1>2, AddThree
<1>7. /\ k.num \in Int /\ r.num \in Int /\ q.num \in Int /\ t * price \in Int
      /\ k.den \in Nat /\ r.den \in Nat /\ q.den \in Nat
  BY <1>2 DEF Frac
<1> HIDE DEF q, k, r, m, three
<1>8. SameYen(three, q)
  <2>1. three.num = k.num * r.den + t * price * p.den * r.den + r.num * p.den
    BY <1>4, <1>5, <1>7
  <2>2. three.den = p.den * r.den
    BY <1>4, <1>5, <1>7
  <2>3. q.num * (p.den * r.den) = q.num * p.den * r.den
    BY <1>4, <1>7
  <2> QED
    BY <1>3, <2>1, <2>2, <2>3 DEF SameYen
<1>9. AddYen(k, AddYen(m, r)) \in Frac
  BY <1>2, AddYenType
<1>10. SameYen(AddYen(k, AddYen(m, r)), q)
  BY <1>2, <1>6, <1>8, <1>9, SameYenTransitive
<1> QED
  BY <1>10 DEF q, k, r, m

\* The sum of the amounts is the value of a folding, and so is every sum of yen:
\* only up to SameYen does it not depend on the order.
AddingYen == [a \in Frac |-> [b \in Frac |-> AddYen(a, b)]]
SameAmount == {p \in Frac \X Frac : SameYen(p[1], p[2])}

LEMMA YenFolding ==
  ASSUME NEW S, IsFiniteSet(S), NEW f, \A x \in S : f[x] \in Frac
  PROVE  \E h : Folding(h, S, Frac, AddingYen, Some(S), ZeroYen, f) /\ SumOfYen(f, S) = h[S]
<1> DEFINE Eq(h) == h = [s \in SUBSET S |->
                           IF s = {} THEN ZeroYen
                           ELSE AddYen(f[CHOOSE x \in s : TRUE], h[s \ {CHOOSE x \in s : TRUE}])]
<1>0. ZeroYen \in Frac /\ \A a, b \in Frac : AddYen(a, b) \in Frac
  BY AddYenType, AddZeroYen DEF ZeroYen, Frac
<1>1. PICK k : Folding(k, S, Frac, AddingYen, Some(S), ZeroYen, f)
  <2>1. AddingYen \in [Frac -> [Frac -> Frac]]
    BY <1>0 DEF AddingYen
  <2> DEFINE C == Some(S)
             V == Frac
  <2>2. ZeroYen \in V /\ AddingYen \in [V -> [V -> V]] /\ \A x \in S : f[x] \in V
    BY <1>0, <2>1
  <2>3. \A T \in SUBSET S : T # {} => C[T] \in T
    BY SomeIsElement
  <2> HIDE DEF C, V, Eq
  <2>4. \E h : Folding(h, S, V, AddingYen, C, ZeroYen, f)
    BY <2>2, <2>3, FoldingExists
  <2> QED
    BY <2>4 DEF C, V
<1>2. Eq(k)
  <2>1. k \in [SUBSET S -> Frac] /\ k[{}] = ZeroYen
    BY <1>1 DEF Folding
  <2>2. ASSUME NEW T \in SUBSET S, T # {}
        PROVE  k[T] = AddYen(f[CHOOSE x \in T : TRUE], k[T \ {CHOOSE x \in T : TRUE}])
    <3> DEFINE c == Some(S)[T]
    <3>1. c \in T /\ c = (CHOOSE x \in T : TRUE)
      BY <2>2, SomeIsElement
    <3>2. k[T] = AddingYen[f[c]][k[T \ {c}]]
      BY <1>1, <2>2 DEF Folding
    <3>3. f[c] \in Frac /\ k[T \ {c}] \in Frac
      BY <2>1, <3>1
    <3> HIDE DEF c
    <3>4. k[T] = AddYen(f[c], k[T \ {c}])
      BY <3>2, <3>3 DEF AddingYen
    <3> QED
      BY <3>1, <3>4
  <2>3. k = [s \in SUBSET S |-> k[s]]
    BY <2>1
  <2> QED
    BY <2>1, <2>2, <2>3
<1> DEFINE it == CHOOSE h : Eq(h)
<1>3. Eq(it)
  <2> HIDE DEF Eq
  <2> QED
    BY <1>2
<1>4. SumOfYen(f, S) = it[S]
  BY DEF SumOfYen, FoldFunctionOnSet, MapThenFoldSet
<1> HIDE DEF it
<1>5. \A T \in SUBSET S : it[T] \in Frac
  <2> DEFINE Q == {T \in SUBSET S : it[T] \in Frac}
  <2>1. {} \in Q
    BY <1>0, <1>3
  <2>2. ASSUME NEW T \in SUBSET S, T # {}, \A x \in T : T \ {x} \in Q PROVE T \in Q
    BY <1>0, <1>3, <2>2
  <2> HIDE DEF Q
  <2>3. \A T \in SUBSET S : T \in Q
    BY <2>1, <2>2, SubsetInduction
  <2> QED
    BY <2>3 DEF Q
<1>6. Folding(it, S, Frac, AddingYen, Some(S), ZeroYen, f)
  <2>1. it \in [SUBSET S -> Frac] /\ it[{}] = ZeroYen
    BY <1>3, <1>5
  <2>2. ASSUME NEW T \in SUBSET S, T # {}
        PROVE  it[T] = AddingYen[f[Some(S)[T]]][it[T \ {Some(S)[T]}]]
    <3> DEFINE c == Some(S)[T]
    <3>1. c \in T /\ c = (CHOOSE x \in T : TRUE)
      BY <2>2, SomeIsElement
    <3> HIDE DEF c
    <3>2. it[T] = AddYen(f[c], it[T \ {c}])
      BY <1>3, <2>2, <3>1
    <3>3. f[c] \in Frac /\ it[T \ {c}] \in Frac
      BY <1>5, <3>1
    <3>4. it[T] = AddingYen[f[c]][it[T \ {c}]]
      BY <3>2, <3>3 DEF AddingYen
    <3> QED
      BY <3>4 DEF c
  <2> QED
    BY <2>1, <2>2 DEF Folding
<1> QED
  BY <1>4, <1>6

LEMMA YenSumType ==
  ASSUME NEW S, IsFiniteSet(S), NEW f, \A x \in S : f[x] \in Frac
  PROVE  SumOfYen(f, S) \in Frac
<1>1. PICK h : Folding(h, S, Frac, AddingYen, Some(S), ZeroYen, f) /\ SumOfYen(f, S) = h[S]
  BY YenFolding
<1> QED
  BY <1>1 DEF Folding

LEMMA YenSumSame ==
  ASSUME NEW S, IsFiniteSet(S), NEW f, NEW g, \A x \in S : f[x] \in Frac /\ f[x] = g[x]
  PROVE  SumOfYen(f, S) = SumOfYen(g, S)
<1>1. PICK h : Folding(h, S, Frac, AddingYen, Some(S), ZeroYen, f) /\ SumOfYen(f, S) = h[S]
  BY YenFolding
<1>2. PICK k : Folding(k, S, Frac, AddingYen, Some(S), ZeroYen, g) /\ SumOfYen(g, S) = k[S]
  BY YenFolding
<1> DEFINE C == Some(S)
<1>3. \A T \in SUBSET S : T # {} => C[T] \in T
  BY SomeIsElement
<1> HIDE DEF C
<1>4. S \in SUBSET (S \cap S) /\ \A x \in S : f[x] = g[x]
  OBVIOUS
<1>5. Folding(h, S, Frac, AddingYen, C, ZeroYen, f) /\ Folding(k, S, Frac, AddingYen, C, ZeroYen, g)
  BY <1>1, <1>2 DEF C
<1>6. h[S] = k[S]
  BY <1>3, <1>4, <1>5, FoldingAgree
<1> QED
  BY <1>1, <1>2, <1>6

\* Any amount can be taken out of a sum.
LEMMA YenSumPick ==
  ASSUME NEW S, IsFiniteSet(S), NEW f, \A x \in S : f[x] \in Frac, NEW x \in S
  PROVE  SameYen(SumOfYen(f, S), AddYen(f[x], SumOfYen(f, S \ {x})))
<1> DEFINE U == S \ {x}
           C == Some(S)
           D == Some(U)
           E == SameAmount
<1>1. IsFiniteSet(U) /\ U \in SUBSET (S \cap U) /\ \A y \in U : f[y] \in Frac
  BY FS_RemoveElement
<1>2. PICK h : Folding(h, S, Frac, AddingYen, C, ZeroYen, f) /\ SumOfYen(f, S) = h[S]
  BY YenFolding
<1>3. PICK k : Folding(k, U, Frac, AddingYen, D, ZeroYen, f) /\ SumOfYen(f, U) = k[U]
  BY <1>1, YenFolding
<1>4. /\ \A T \in SUBSET S : T # {} => C[T] \in T
      /\ \A T \in SUBSET U : T # {} => C[T] = D[T] /\ C[T] \in T
  BY SomeIsElement
<1>5. /\ AddingYen \in [Frac -> [Frac -> Frac]]
      /\ \A a, b \in Frac : AddingYen[a][b] = AddYen(a, b) /\ AddYen(a, b) \in Frac
  BY AddYenType DEF AddingYen
<1>6. \A a, b \in Frac : <<a, b>> \in E <=> SameYen(a, b)
  BY DEF SameAmount
<1> HIDE DEF C, D, E, U
<1>7. Equivalence(E, Frac)
  <2>1. \A a, b, c \in Frac : SameYen(a, b) /\ SameYen(b, c) => SameYen(a, c)
    BY SameYenTransitive
  <2> QED
    BY <1>6, <2>1, SameYenEquivalence DEF Equivalence
<1>8. ASSUME NEW a \in Frac, NEW b \in Frac, NEW c \in Frac
      PROVE  /\ <<a, b>> \in E => <<AddingYen[c][a], AddingYen[c][b]>> \in E
             /\ <<AddingYen[a][AddingYen[b][c]], AddingYen[b][AddingYen[a][c]]>> \in E
  <2>1. /\ AddingYen[c][a] = AddYen(c, a) /\ AddingYen[c][b] = AddYen(c, b)
        /\ AddingYen[b][c] = AddYen(b, c) /\ AddingYen[a][c] = AddYen(a, c)
    BY <1>5
  <2>2. /\ AddingYen[a][AddYen(b, c)] = AddYen(a, AddYen(b, c))
        /\ AddingYen[b][AddYen(a, c)] = AddYen(b, AddYen(a, c))
    BY <1>5
  <2>3. SameYen(AddYen(a, AddYen(b, c)), AddYen(b, AddYen(a, c)))
    BY AddYenSwap
  <2>4. SameYen(a, b) => SameYen(AddYen(c, a), AddYen(c, b))
    BY AddYenSame
  <2> QED
    BY <1>5, <1>6, <2>1, <2>2, <2>3, <2>4
<1>9. AnyOrder(AddingYen, Frac, E)
  BY <1>5, <1>8 DEF AnyOrder
<1>10. \A T \in SUBSET S : \A y \in T : <<h[T], AddingYen[f[y]][h[T \ {y}]]>> \in E
  <2> DEFINE V == Frac
  <2>1. (\A y \in S : f[y] \in V) /\ Folding(h, S, V, AddingYen, C, ZeroYen, f)
    BY <1>2
  <2>2. Equivalence(E, V) /\ AnyOrder(AddingYen, V, E)
    BY <1>7, <1>9
  <2>3. \A T \in SUBSET S : T # {} => C[T] \in T
    BY <1>4
  <2> HIDE DEF V
  <2> QED
    BY <2>1, <2>2, <2>3, FoldingPick
<1>11. <<h[S], AddingYen[f[x]][h[U]]>> \in E
  BY <1>10 DEF U
<1>12. h[S] \in Frac /\ h[U] \in Frac /\ f[x] \in Frac
  BY <1>2 DEF Folding, U
<1>13. SameYen(h[S], AddYen(f[x], h[U]))
  BY <1>5, <1>6, <1>11, <1>12
<1>14. h[U] = k[U]
  BY <1>1, <1>2, <1>3, <1>4, FoldingAgree
<1> QED
  BY <1>2, <1>3, <1>13, <1>14 DEF U

\* An amount that was nothing becomes g[x]: the sum grows by it.
LEMMA YenSumGrows ==
  ASSUME NEW S, IsFiniteSet(S), NEW x \in S, NEW f, NEW g,
         \A y \in S : f[y] \in Frac /\ g[y] \in Frac,
         \A y \in S \ {x} : g[y] = f[y],
         f[x] = ZeroYen
  PROVE  SameYen(SumOfYen(g, S), AddYen(g[x], SumOfYen(f, S)))
<1> DEFINE A == SumOfYen(f, S)
           B == SumOfYen(g, S)
           R == SumOfYen(f, S \ {x})
           v == g[x]
<1>1. IsFiniteSet(S \ {x})
  BY FS_RemoveElement
<1>2. A \in Frac /\ B \in Frac /\ R \in Frac /\ v \in Frac
  BY <1>1, YenSumType
<1>3. SumOfYen(g, S \ {x}) = R
  BY <1>1, YenSumSame
<1>4. SameYen(A, AddYen(ZeroYen, R))
  BY YenSumPick
<1>5. SameYen(B, AddYen(v, R))
  BY <1>3, YenSumPick
<1> HIDE DEF A, B, R, v
<1>6. AddYen(ZeroYen, R) \in Frac /\ AddYen(v, R) \in Frac /\ AddYen(v, A) \in Frac
  BY <1>2, AddYenType, AddZeroYen
<1>7. SameYen(A, R)
  BY <1>2, <1>4, <1>6, AddZeroYen, SameYenTransitive
<1>8. SameYen(R, A)
  BY <1>2, <1>7, SameYenEquivalence
<1>9. SameYen(AddYen(v, R), AddYen(v, A))
  BY <1>2, <1>8, AddYenSame
<1>10. SameYen(B, AddYen(v, A))
  BY <1>2, <1>5, <1>6, <1>9, SameYenTransitive
<1> QED
  BY <1>10 DEF A, B, v

\* An amount on the left of a sum may be replaced by the same amount.
LEMMA AddYenSameLeft ==
  ASSUME NEW a \in Frac, NEW b \in Frac, NEW c \in Frac, SameYen(a, b)
  PROVE  SameYen(AddYen(a, c), AddYen(b, c))
<1> DEFINE l == AddYen(a, c)
           m == AddYen(c, a)
           n == AddYen(c, b)
           r == AddYen(b, c)
<1>1. l \in Frac /\ m \in Frac /\ n \in Frac /\ r \in Frac
  BY AddYenType
<1>2. SameYen(l, m) /\ SameYen(m, n) /\ SameYen(n, r)
  BY AddYenCommutes, AddYenSame
<1> HIDE DEF l, m, n, r
<1>3. SameYen(l, n)
  BY <1>1, <1>2, SameYenTransitive
<1>4. SameYen(l, r)
  BY <1>1, <1>2, <1>3, SameYenTransitive
<1> QED
  BY <1>4 DEF l, r

\* Nothing added changes nothing.
LEMMA AddNothing ==
  ASSUME NEW a \in Frac, NEW b \in Frac, b.num = 0
  PROVE  SameYen(AddYen(a, b), a)
<1>1. a.num * (a.den * b.den) = (a.num * b.den + b.num * a.den) * a.den
  BY DEF Frac
<1> QED
  BY <1>1, SumsAreSame

\* (a + d) + (b + (e + c)) is (a + (b + c)) + (d + e).
LEMMA AddYenRegroup ==
  ASSUME NEW a \in Frac, NEW b \in Frac, NEW c \in Frac, NEW d \in Frac, NEW e \in Frac
  PROVE  SameYen(AddYen(AddYen(a, d), AddYen(b, AddYen(e, c))),
                 AddYen(AddYen(a, AddYen(b, c)), AddYen(d, e)))
<1> DEFINE z == AddYen(b, c)
           ad == AddYen(a, d)
           de == AddYen(d, e)
           ez == AddYen(e, z)
           bec == AddYen(b, AddYen(e, c))
           dez == AddYen(d, ez)
           zde == AddYen(z, de)
           dez2 == AddYen(de, z)
           az == AddYen(a, z)
<1>1. /\ z \in Frac /\ ad \in Frac /\ de \in Frac /\ ez \in Frac /\ bec \in Frac
      /\ dez \in Frac /\ zde \in Frac /\ dez2 \in Frac /\ az \in Frac
  BY AddYenType
<1>2. SameYen(bec, ez)
  BY AddYenSwap
<1>3. SameYen(dez, dez2) /\ SameYen(dez2, zde)
  BY <1>1, AddYenAssociates, AddYenCommutes
<1>4. SameYen(AddYen(a, zde), AddYen(az, de))
  BY <1>1, AddYenAssociates
<1>5. SameYen(AddYen(a, dez), AddYen(ad, ez))
  BY <1>1, AddYenAssociates
<1> HIDE DEF z, ad, de, ez, bec, dez, zde, dez2, az
<1>6. SameYen(AddYen(ad, bec), AddYen(ad, ez))
  BY <1>1, <1>2, AddYenSame
<1>7. SameYen(dez, zde)
  BY <1>1, <1>3, SameYenTransitive
<1>8. SameYen(AddYen(a, dez), AddYen(a, zde))
  BY <1>1, <1>7, AddYenSame
<1> DEFINE p == AddYen(ad, bec)
           q == AddYen(ad, ez)
           r == AddYen(a, dez)
           s == AddYen(a, zde)
           t == AddYen(az, de)
<1>9. p \in Frac /\ q \in Frac /\ r \in Frac /\ s \in Frac /\ t \in Frac
  BY <1>1, AddYenType
<1>10. SameYen(p, q) /\ SameYen(r, q) /\ SameYen(r, s) /\ SameYen(s, t)
  BY <1>4, <1>5, <1>6, <1>8
<1> HIDE DEF p, q, r, s, t
<1>11. SameYen(q, r)
  BY <1>9, <1>10, SameYenEquivalence
<1>12. SameYen(p, r)
  BY <1>9, <1>10, <1>11, SameYenTransitive
<1>13. SameYen(p, s)
  BY <1>9, <1>10, <1>12, SameYenTransitive
<1>14. SameYen(p, t)
  BY <1>9, <1>10, <1>13, SameYenTransitive
<1> QED
  BY <1>14 DEF p, t, ad, bec, az, de, z

\* A sum of nothings is nothing.
LEMMA YenSumNothing ==
  ASSUME NEW S, IsFiniteSet(S), NEW f, \A x \in S : f[x] = ZeroYen
  PROVE  SameYen(SumOfYen(f, S), ZeroYen)
<1>0. ZeroYen \in Frac
  BY DEF ZeroYen, Frac
<1> DEFINE Q == {T \in SUBSET S : SameYen(SumOfYen(f, T), ZeroYen)}
<1>1. {} \in Q
  <2>1. IsFiniteSet({}) /\ \A x \in {} : f[x] \in Frac
    BY FS_EmptySet
  <2>2. PICK h : Folding(h, {}, Frac, AddingYen, Some({}), ZeroYen, f) /\ SumOfYen(f, {}) = h[{}]
    BY <2>1, YenFolding
  <2>3. SumOfYen(f, {}) = ZeroYen
    BY <2>2 DEF Folding
  <2> QED
    BY <1>0, <2>3, SameYenEquivalence
<1>2. ASSUME NEW T \in SUBSET S, T # {}, \A x \in T : T \ {x} \in Q PROVE T \in Q
  <2>1. PICK x \in T : TRUE
    BY <1>2
  <2> DEFINE a == SumOfYen(f, T)
             b == SumOfYen(f, T \ {x})
  <2>2. IsFiniteSet(T) /\ IsFiniteSet(T \ {x}) /\ f[x] = ZeroYen /\ \A z \in T : f[z] \in Frac
    BY <1>0, FS_Subset
  <2>3. a \in Frac /\ b \in Frac
    BY <2>2, YenSumType
  <2>4. SameYen(a, AddYen(ZeroYen, b))
    BY <2>2, YenSumPick
  <2>5. SameYen(b, ZeroYen)
    BY <1>2
  <2>6. AddYen(ZeroYen, b) \in Frac
    BY <1>0, <2>3, AddYenType
  <2> HIDE DEF a, b
  <2>7. SameYen(a, b)
    BY <2>3, <2>4, <2>6, AddZeroYen, SameYenTransitive
  <2>8. SameYen(a, ZeroYen)
    BY <1>0, <2>3, <2>5, <2>7, SameYenTransitive
  <2> QED
    BY <2>8 DEF a
<1> HIDE DEF Q
<1>3. \A T \in SUBSET S : T \in Q
  BY <1>1, <1>2, SubsetInduction
<1> QED
  BY <1>3 DEF Q

\* Multiplying by a factor, and dividing by it.
LEMMA ScaleLeq ==
  ASSUME NEW a \in Int, NEW b \in Int, NEW k \in Nat, a <= b
  PROVE  a * k <= b * k
<1>1. (b - a) * k \in Nat
  OBVIOUS
<1>2. (b - a) * k = b * k - a * k /\ a * k \in Int /\ b * k \in Int
  OBVIOUS
<1> QED
  BY <1>1, <1>2

LEMMA CancelFactorLeq ==
  ASSUME NEW a \in Int, NEW b \in Int, NEW k \in Nat \ {0}, a * k <= b * k
  PROVE  a <= b
<1> SUFFICES ASSUME b < a PROVE FALSE
  OBVIOUS
<1>1. (a - b) * k >= 1
  OBVIOUS
<1>2. (a - b) * k = a * k - b * k /\ a * k \in Int /\ b * k \in Int
  OBVIOUS
<1> QED
  BY <1>1, <1>2

=============================================================================
