------------------------------ MODULE Counting ------------------------------
(***************************************************************************)
(* Facts about natural numbers, finite sets, sums and powers of two that   *)
(* the proofs about the components rest on.  Induction is stated for sets: *)
(* a set that holds 0, and with each number the next, holds all of them;   *)
(* among the subsets of a finite set there is a smallest counterexample.   *)
(***************************************************************************)
EXTENDS Integers, FiniteSetTheorems, FiniteSetsExt, TLAPS

-----------------------------------------------------------------------------
(* Induction *)

LEMMA LeastNumber ==
  ASSUME NEW B, B \subseteq Nat, B # {}
  PROVE  \E n \in B : \A m \in B : n <= m
<1> DEFINE R == {ss \in Nat \X Nat : ss[1] < ss[2]}
<1>1. IsWellFoundedOn(R, Nat) BY NatLessThanWellFounded DEF OpToRel
<1>2. PICK n \in B : \A m \in B : <<m, n>> \notin R
  <2> HIDE DEF R
  <2> QED BY <1>1, WFMin
<1>3. ASSUME NEW m \in B PROVE n <= m
  <2>1. m \in Nat /\ n \in Nat OBVIOUS
  <2>2. ~(m < n) BY <1>2, <2>1
  <2> QED BY <2>1, <2>2
<1> QED BY <1>3

LEMMA Induction ==
  ASSUME NEW G, 0 \in G, \A n \in Nat : n \in G => n + 1 \in G
  PROVE  Nat \subseteq G
<1> DEFINE B == Nat \ G
<1> SUFFICES ASSUME B # {} PROVE FALSE OBVIOUS
<1>1. PICK n \in B : \A m \in B : n <= m
  <2>1. B \subseteq Nat OBVIOUS
  <2> HIDE DEF B
  <2> QED BY <2>1, LeastNumber
<1>2. n \in Nat /\ n # 0 /\ n - 1 \in Nat /\ ~(n <= n - 1) /\ (n - 1) + 1 = n OBVIOUS
<1> QED BY <1>1, <1>2

LEMMA LeastSet ==
  ASSUME NEW S, IsFiniteSet(S), NEW B, B \subseteq SUBSET S, B # {}
  PROVE  \E T \in B : \A x \in T : T \ {x} \notin B
<1>1. IsWellFoundedOn(StrictSubsetOrdering(S), FiniteSubsetsOf(S))
      BY FS_StrictSubsetOrderingWellFounded
<1>2. B \subseteq FiniteSubsetsOf(S) BY FS_FiniteSubsetsOfFinite
<1>3. PICK T \in B : \A U \in B : <<U, T>> \notin StrictSubsetOrdering(S)
      BY <1>1, <1>2, WFMin
<1>4. ASSUME NEW x \in T, T \ {x} \in B PROVE FALSE
  <2>1. <<T \ {x}, T>> \in StrictSubsetOrdering(S) BY DEF StrictSubsetOrdering
  <2> QED BY <1>3, <1>4, <2>1
<1> QED BY <1>4

\* Every subset of a finite set is reached by adding one element at a time.
LEMMA FiniteInduction ==
  ASSUME NEW S, IsFiniteSet(S), NEW G, {} \in G,
         \A T \in SUBSET S, x \in S : T \in G /\ x \notin T => T \cup {x} \in G
  PROVE  S \in G
<1> DEFINE B == (SUBSET S) \ G
<1> SUFFICES ASSUME B # {} PROVE FALSE OBVIOUS
<1>1. PICK T \in B : \A x \in T : T \ {x} \notin B
  <2>1. B \subseteq SUBSET S OBVIOUS
  <2> HIDE DEF B
  <2> QED BY <2>1, LeastSet
<1>2. PICK x \in S : x \in T OBVIOUS
<1>3. T \ {x} \in G BY <1>1, <1>2
<1>4. T = (T \ {x}) \cup {x} BY <1>2
<1> QED BY <1>3, <1>4

-----------------------------------------------------------------------------
(* Sums *)

\* As many pairs as the sum of f over S.
Pairs(f, S) == UNION {{x} \X (1 .. f[x]) : x \in S}

LEMMA OnePairs ==
  ASSUME NEW f, NEW x, f[x] \in Nat
  PROVE  IsFiniteSet({x} \X (1 .. f[x])) /\ Cardinality({x} \X (1 .. f[x])) = f[x]
<1>1. IsFiniteSet({x}) /\ Cardinality({x}) = 1 BY FS_Singleton
<1>2. IsFiniteSet(1 .. f[x]) /\ Cardinality(1 .. f[x]) = f[x] BY FS_Interval
<1>3. /\ IsFiniteSet({x} \X (1 .. f[x]))
      /\ Cardinality({x} \X (1 .. f[x])) = Cardinality({x}) * Cardinality(1 .. f[x])
      BY <1>1, <1>2, FS_Product
<1> QED BY <1>1, <1>2, <1>3

LEMMA PairsFinite ==
  ASSUME NEW f, NEW S, IsFiniteSet(S), \A x \in S : f[x] \in Nat
  PROVE  IsFiniteSet(Pairs(f, S))
<1> DEFINE G == {T \in SUBSET S : IsFiniteSet(Pairs(f, T))}
<1>1. {} \in G BY FS_EmptySet DEF Pairs
<1>2. ASSUME NEW T \in SUBSET S, NEW x \in S, T \in G PROVE T \cup {x} \in G
  <2>1. Pairs(f, T \cup {x}) = Pairs(f, T) \cup ({x} \X (1 .. f[x])) BY DEF Pairs
  <2>2. IsFiniteSet({x} \X (1 .. f[x])) BY OnePairs
  <2>3. IsFiniteSet(Pairs(f, T)) BY <1>2
  <2>4. IsFiniteSet(Pairs(f, T) \cup ({x} \X (1 .. f[x])))
        BY <2>2, <2>3, FS_Union
  <2> QED BY <2>1, <2>4
<1> HIDE DEF G
<1>3. S \in G BY <1>1, <1>2, FiniteInduction
<1> QED BY <1>3 DEF G

LEMMA PairsOneMore ==
  ASSUME NEW f, NEW S, IsFiniteSet(S), NEW x \in S, \A y \in S : f[y] \in Nat
  PROVE  Cardinality(Pairs(f, S)) = f[x] + Cardinality(Pairs(f, S \ {x}))
<1>1. Pairs(f, S) = ({x} \X (1 .. f[x])) \cup Pairs(f, S \ {x}) BY DEF Pairs
<1>2. ({x} \X (1 .. f[x])) \cap Pairs(f, S \ {x}) = {} BY DEF Pairs
<1>3. IsFiniteSet(S \ {x}) BY FS_RemoveElement
<1>4. IsFiniteSet(Pairs(f, S \ {x})) BY <1>3, PairsFinite
<1>5. IsFiniteSet({x} \X (1 .. f[x])) /\ Cardinality({x} \X (1 .. f[x])) = f[x]
      BY OnePairs
<1>6. Cardinality(Pairs(f, S \ {x})) \in Nat BY <1>4, FS_CardinalityType
<1> DEFINE A == {x} \X (1 .. f[x])
           B == Pairs(f, S \ {x})
<1> HIDE DEF A, B
<1>7. Cardinality(A \cup B) = Cardinality(A) + Cardinality(B) - Cardinality(A \cap B)
      BY <1>4, <1>5, FS_Union DEF A, B
<1>8. Cardinality(A \cap B) = 0 BY <1>2, FS_EmptySet DEF A, B
<1> QED BY <1>1, <1>5, <1>6, <1>7, <1>8 DEF A, B

LEMMA SumIsPairs ==
  ASSUME NEW f, NEW S, IsFiniteSet(S), \A x \in S : f[x] \in Nat
  PROVE  SumFunctionOnSet(f, S) = Cardinality(Pairs(f, S))
<1> DEFINE D(g) == [s \in SUBSET S |->
                      IF s = {} THEN 0
                      ELSE LET x == CHOOSE y \in s : TRUE IN f[x] + g[s \ {x}]]
           iter == CHOOSE g : g = D(g)
           h == [s \in SUBSET S |-> Cardinality(Pairs(f, s))]
<1>1. SumFunctionOnSet(f, S) = iter[S]
      BY DEF SumFunctionOnSet, FoldFunctionOnSet, MapThenFoldSet
<1>2. h = D(h)
  <2> SUFFICES ASSUME NEW s \in SUBSET S PROVE h[s] = D(h)[s] OBVIOUS
  <2>1. CASE s = {} BY <2>1, FS_EmptySet DEF Pairs
  <2>2. CASE s # {}
    <3> DEFINE x == CHOOSE y \in s : TRUE
    <3>1. x \in s BY <2>2
    <3>2. IsFiniteSet(s) BY FS_Subset
    <3> HIDE DEF x
    <3>3. h[s] = f[x] + h[s \ {x}] BY <3>1, <3>2, PairsOneMore
    <3> QED BY <2>2, <3>3 DEF x
  <2> QED BY <2>1, <2>2
<1>3. iter = D(iter) BY <1>2
<1> HIDE DEF iter
<1> DEFINE B == {s \in SUBSET S : iter[s] # h[s]}
<1>4. ASSUME B # {} PROVE FALSE
  <2>1. PICK T \in B : \A x \in T : T \ {x} \notin B
    <3>1. B \subseteq SUBSET S OBVIOUS
    <3> HIDE DEF B
    <3> QED BY <1>4, <3>1, LeastSet
  <2>2. iter[T] = D(iter)[T] /\ h[T] = D(h)[T] BY <1>2, <1>3
  <2>3. CASE T = {} BY <2>1, <2>2, <2>3
  <2>4. CASE T # {}
    <3> DEFINE x == CHOOSE y \in T : TRUE
    <3>1. x \in T /\ T \ {x} \in SUBSET S BY <2>4
    <3>2. iter[T \ {x}] = h[T \ {x}] BY <2>1, <3>1
    <3>3. D(iter)[T] = f[x] + iter[T \ {x}] /\ D(h)[T] = f[x] + h[T \ {x}] BY <2>4
    <3> QED BY <2>1, <2>2, <3>2, <3>3
  <2> QED BY <2>3, <2>4
<1>5. S \in SUBSET S /\ S \notin B BY <1>4
<1> QED BY <1>1, <1>5

\* A sum depends on the values over the set only, and grows by one value when
\* the set grows by one element.
LEMMA SumSame ==
  ASSUME NEW f, NEW g, NEW S, IsFiniteSet(S),
         \A x \in S : f[x] \in Nat /\ g[x] = f[x]
  PROVE  SumFunctionOnSet(g, S) = SumFunctionOnSet(f, S)
<1>1. Pairs(g, S) = Pairs(f, S) BY DEF Pairs
<1>2. SumFunctionOnSet(g, S) = Cardinality(Pairs(g, S)) BY SumIsPairs
<1>3. SumFunctionOnSet(f, S) = Cardinality(Pairs(f, S)) BY SumIsPairs
<1> QED BY <1>1, <1>2, <1>3

LEMMA SumOneMore ==
  ASSUME NEW f, NEW g, NEW S, IsFiniteSet(S), NEW x, x \notin S,
         \A y \in S : f[y] \in Nat /\ g[y] = f[y], g[x] \in Nat
  PROVE  SumFunctionOnSet(g, S \cup {x}) = SumFunctionOnSet(f, S) + g[x]
<1> DEFINE T == S \cup {x}
<1>1. IsFiniteSet(T) BY FS_AddElement
<1>2. x \in T /\ T \ {x} = S /\ \A y \in T : g[y] \in Nat OBVIOUS
<1> HIDE DEF T
<1>3. SumFunctionOnSet(g, T) = Cardinality(Pairs(g, T)) BY <1>1, <1>2, SumIsPairs
<1>4. Cardinality(Pairs(g, T)) = g[x] + Cardinality(Pairs(g, S))
      BY <1>1, <1>2, PairsOneMore
<1>5. Pairs(g, S) = Pairs(f, S) BY DEF Pairs
<1>6. SumFunctionOnSet(f, S) = Cardinality(Pairs(f, S)) BY SumIsPairs
<1>7. IsFiniteSet(Pairs(f, S)) /\ Cardinality(Pairs(f, S)) \in Nat
      BY PairsFinite, FS_CardinalityType
<1> QED BY <1>3, <1>4, <1>5, <1>6, <1>7 DEF T

LEMMA SumOfNone == ASSUME NEW f PROVE SumFunctionOnSet(f, {}) = 0
<1>1. IsFiniteSet({}) /\ Cardinality({}) = 0 BY FS_EmptySet
<1>2. SumFunctionOnSet(f, {}) = Cardinality(Pairs(f, {})) BY <1>1, SumIsPairs
<1> QED BY <1>1, <1>2 DEF Pairs

-----------------------------------------------------------------------------
(* Powers of two *)

LEMMA PowerZero == 2^0 = 1
<1>1. Cardinality({}) = 0 /\ IsFiniteSet({}) BY FS_EmptySet
<1>2. Cardinality(SUBSET {}) = 2^0 BY <1>1, FS_SUBSET
<1>3. SUBSET {} = {{}} OBVIOUS
<1> QED BY <1>2, <1>3, FS_Singleton

\* A set of n + 1 numbers has the subsets of the first n, and as many again.
LEMMA PowerNext == ASSUME NEW n \in Nat PROVE 2^(n + 1) = 2 * 2^n
<1> DEFINE A == SUBSET (1 .. n)
           B == {T \cup {n + 1} : T \in A}
           f == [T \in A |-> T \cup {n + 1}]
<1>1. IsFiniteSet(A) /\ Cardinality(A) = 2^n
  <2>1. IsFiniteSet(1 .. n) /\ Cardinality(1 .. n) = n BY FS_Interval
  <2> QED BY <2>1, FS_SUBSET
<1>2. Cardinality(SUBSET (1 .. n + 1)) = 2^(n + 1)
  <2>1. IsFiniteSet(1 .. n + 1) /\ Cardinality(1 .. n + 1) = n + 1 BY FS_Interval
  <2> QED BY <2>1, FS_SUBSET
<1>3. f \in Bijection(A, B)
  <2>1. f \in Surjection(A, B) BY DEF Surjection
  <2>2. ASSUME NEW T \in A, NEW U \in A, f[T] = f[U] PROVE T = U
    <3>1. n + 1 \notin T /\ n + 1 \notin U OBVIOUS
    <3>2. T = f[T] \ {n + 1} /\ U = f[U] \ {n + 1} BY <3>1
    <3> QED BY <2>2, <3>2
  <2>3. f \in Injection(A, B) BY <2>1, <2>2 DEF Injection, Surjection, IsInjective
  <2> QED BY <2>1, <2>3 DEF Bijection
<1>4. IsFiniteSet(B) /\ Cardinality(B) = Cardinality(A)
      BY <1>1, <1>3, FS_Bijection DEF ExistsBijection
<1>5. A \cap B = {} /\ SUBSET (1 .. n + 1) = A \cup B
  <2>1. ASSUME NEW T \in SUBSET (1 .. n + 1), T \notin A PROVE T \in B
    <3>1. n + 1 \in T /\ T \ {n + 1} \in A BY <2>1
    <3>2. T = (T \ {n + 1}) \cup {n + 1} BY <3>1
    <3> QED BY <3>1, <3>2
  <2>2. \A T \in A : n + 1 \notin T /\ T \subseteq 1 .. n + 1 OBVIOUS
  <2>3. \A T \in B : n + 1 \in T /\ T \subseteq 1 .. n + 1 OBVIOUS
  <2> QED BY <2>1, <2>2, <2>3
<1>6. Cardinality(A \cap B) = 0 BY <1>5, FS_EmptySet
<1>7. Cardinality(A) \in Nat BY <1>1, FS_CardinalityType
<1> HIDE DEF A, B, f
<1>8. Cardinality(A \cup B) = Cardinality(A) + Cardinality(B) - Cardinality(A \cap B)
      BY <1>1, <1>4, FS_Union
<1>9. Cardinality(A \cup B) = 2 * Cardinality(A) BY <1>4, <1>6, <1>7, <1>8
<1> QED BY <1>1, <1>2, <1>5, <1>9, Zenon

LEMMA PowerType == \A n \in Nat : 2^n \in Nat \ {0}
<1> DEFINE G == {n \in Nat : 2^n \in Nat \ {0}}
<1>1. 0 \in G BY PowerZero
<1>2. \A n \in Nat : n \in G => n + 1 \in G BY PowerNext
<1> HIDE DEF G
<1>3. Nat \subseteq G BY <1>1, <1>2, Induction
<1> QED BY <1>3 DEF G

LEMMA PowerSum == \A m, n \in Nat : 2^(m + n) = 2^m * 2^n
<1> SUFFICES ASSUME NEW m \in Nat PROVE \A n \in Nat : 2^(m + n) = 2^m * 2^n
    OBVIOUS
<1> DEFINE G == {n \in Nat : 2^(m + n) = 2^m * 2^n}
<1>1. 0 \in G BY PowerZero, PowerType
<1>2. ASSUME NEW n \in Nat, n \in G PROVE n + 1 \in G
  <2>1. 2^(m + (n + 1)) = 2 * 2^(m + n)
    <3>1. 2^((m + n) + 1) = 2 * 2^(m + n) BY PowerNext
    <3>2. m + (n + 1) = (m + n) + 1 OBVIOUS
    <3> QED BY <3>1, <3>2
  <2>2. 2^(m + n) = 2^m * 2^n BY <1>2
  <2>3. 2^(n + 1) = 2 * 2^n BY PowerNext
  <2>4. 2^m \in Nat /\ 2^n \in Nat BY PowerType
  <2>5. 2 * (2^m * 2^n) = 2^m * (2 * 2^n) BY <2>4
  <2> QED BY <2>1, <2>2, <2>3, <2>5
<1> HIDE DEF G
<1>3. Nat \subseteq G BY <1>1, <1>2, Induction
<1> QED BY <1>3 DEF G

-----------------------------------------------------------------------------
(* Recursive functions exist *)

\* f gives the value for a number from the one for the number before.
Iterates(h, r, f, n) == h[0] = r /\ \A i \in 1 .. n : h[i] = f[<<i, h[i - 1]>>]

LEMMA NumberRecursion ==
  ASSUME NEW R, NEW r \in R, NEW f \in [Nat \X R -> R], NEW n \in Nat
  PROVE  \E h \in [0 .. n -> R] : Iterates(h, r, f, n)
<1> DEFINE Rec(h, m) == h = [i \in 0 .. m |-> IF i = 0 THEN r ELSE f[<<i, h[i - 1]>>]]
           G == {m \in Nat : \E h \in [0 .. m -> R] : Rec(h, m)}
<1>1. 0 \in G
  <2> DEFINE h == [i \in 0 .. 0 |-> r]
  <2>1. h \in [0 .. 0 -> R] /\ Rec(h, 0) OBVIOUS
  <2> QED BY <2>1
<1>2. ASSUME NEW m \in Nat, m \in G PROVE m + 1 \in G
  <2>1. PICK h \in [0 .. m -> R] : Rec(h, m) BY <1>2
  <2> DEFINE g == [i \in 0 .. m + 1 |-> IF i = m + 1 THEN f[<<m + 1, h[m]>>] ELSE h[i]]
  <2>2. g \in [0 .. m + 1 -> R]
    <3>1. h[m] \in R /\ <<m + 1, h[m]>> \in Nat \X R OBVIOUS
    <3>2. f[<<m + 1, h[m]>>] \in R BY <3>1
    <3> QED BY <3>2
  <2>3. ASSUME NEW i \in 0 .. m + 1
        PROVE  g[i] = IF i = 0 THEN r ELSE f[<<i, g[i - 1]>>]
    <3>1. CASE i = m + 1
      <4>1. i - 1 = m /\ i # 0 /\ g[m] = h[m] BY <3>1
      <4> QED BY <3>1, <4>1
    <3>2. CASE i # m + 1 /\ i # 0
      <4>1. i \in 0 .. m /\ i - 1 \in 0 .. m BY <3>2
      <4>2. h[i] = f[<<i, h[i - 1]>>] BY <2>1, <3>2, <4>1
      <4>3. g[i] = h[i] /\ g[i - 1] = h[i - 1] BY <3>2, <4>1
      <4> QED BY <3>2, <4>2, <4>3
    <3>3. CASE i # m + 1 /\ i = 0
      <4>1. h[0] = r BY <2>1
      <4> QED BY <3>3, <4>1
    <3> QED BY <3>1, <3>2, <3>3
  <2>4. Rec(g, m + 1)
    <3> HIDE DEF g
    <3> QED BY <2>2, <2>3
  <2>5. \E k \in [0 .. m + 1 -> R] : Rec(k, m + 1)
    <3> HIDE DEF g, Rec
    <3> QED BY <2>2, <2>4
  <2>6. m + 1 \in Nat OBVIOUS
  <2> HIDE DEF Rec
  <2> QED BY <2>5, <2>6
<1> HIDE DEF G
<1>3. n \in G BY <1>1, <1>2, Induction
<1>4. PICK h \in [0 .. n -> R] : Rec(h, n) BY <1>3 DEF G
<1>5. h[0] = r BY <1>4
<1>6. ASSUME NEW i \in 1 .. n PROVE h[i] = f[<<i, h[i - 1]>>]
  <2>1. i \in 0 .. n /\ i # 0 OBVIOUS
  <2> QED BY <1>4, <2>1
<1> HIDE DEF Rec
<1> QED BY <1>5, <1>6 DEF Iterates

\* f gives the value for a set from the one for the set without the element that
\* c chooses from it.
Gathers(h, r, f, c, S) ==
  h[{}] = r /\ \A s \in (SUBSET S) \ {{}} : h[s] = f[<<c[s], h[s \ {c[s]}]>>]

LEMMA SetRecursion ==
  ASSUME NEW S, IsFiniteSet(S), NEW R, NEW r \in R, NEW f \in [S \X R -> R],
         NEW c, \A s \in (SUBSET S) \ {{}} : c[s] \in s
  PROVE  \E h \in [SUBSET S -> R] : Gathers(h, r, f, c, S)
<1> DEFINE One(s) == c[s]
           Value(h, s) == IF s = {} THEN r ELSE f[<<One(s), h[s \ {One(s)}]>>]
           Rec(h, T) == h \in [SUBSET T -> R] /\ \A s \in SUBSET T : h[s] = Value(h, s)
<1>0. ASSUME NEW s \in SUBSET S, s # {} PROVE One(s) \in s BY <1>0
<1>1. ASSUME NEW T \in SUBSET S, NEW U \in SUBSET S, NEW g, NEW h,
             Rec(g, T), Rec(h, U)
      PROVE  \A s \in SUBSET (T \cap U) : g[s] = h[s]
  <2> DEFINE B == {s \in SUBSET (T \cap U) : g[s] # h[s]}
  <2> SUFFICES ASSUME B # {} PROVE FALSE OBVIOUS
  <2>1. PICK s \in B : \A x \in s : s \ {x} \notin B
    <3>1. B \subseteq SUBSET S OBVIOUS
    <3> HIDE DEF B
    <3> QED BY <3>1, LeastSet
  <2>2. g[s] = Value(g, s) /\ h[s] = Value(h, s) BY <1>1
  <2>3. CASE s = {} BY <2>1, <2>2, <2>3
  <2>4. CASE s # {}
    <3>1. One(s) \in s BY <1>0, <2>4
    <3> HIDE DEF One
    <3>2. g[s \ {One(s)}] = h[s \ {One(s)}] BY <2>1, <3>1
    <3> QED BY <2>1, <2>2, <2>4, <3>2
  <2> QED BY <2>3, <2>4
<1> DEFINE B == {T \in SUBSET S : ~\E h : Rec(h, T)}
<1>2. ASSUME B # {} PROVE FALSE
  <2>1. PICK T \in B : \A x \in T : T \ {x} \notin B
    <3>1. B \subseteq SUBSET S OBVIOUS
    <3> HIDE DEF B
    <3> QED BY <1>2, <3>1, LeastSet
  <2>2. ASSUME NEW x \in T PROVE \E h : Rec(h, T \ {x})
    <3>1. T \ {x} \in SUBSET S OBVIOUS
    <3> HIDE DEF Rec
    <3> QED BY <2>1, <3>1
  <2> DEFINE Of(x) == CHOOSE h : Rec(h, T \ {x})
             Out(s) == CHOOSE x \in T : x \notin s
             h == [s \in SUBSET T |->
                     IF s # T THEN Of(Out(s))[s]
                     ELSE IF T = {} THEN r
                     ELSE f[<<One(T), Of(One(T))[T \ {One(T)}]>>]]
  <2>3. ASSUME NEW x \in T PROVE Rec(Of(x), T \ {x})
    <3> HIDE DEF Rec
    <3> QED BY <2>2
  <2>4. ASSUME NEW s \in SUBSET T, s # T PROVE Out(s) \in T /\ s \subseteq T \ {Out(s)}
    <3>1. \E x \in T : x \notin s BY <2>4
    <3> QED BY <3>1
  <2> HIDE DEF Of, Out
  <2>5. ASSUME NEW s \in SUBSET T, s # T, NEW x \in T, x \notin s
        PROVE  h[s] = Of(x)[s]
    <3>1. Rec(Of(x), T \ {x}) /\ Rec(Of(Out(s)), T \ {Out(s)}) BY <2>3, <2>4, <2>5
    <3>2. s \in SUBSET ((T \ {x}) \cap (T \ {Out(s)})) BY <2>4, <2>5
    <3>3. T \ {x} \in SUBSET S /\ T \ {Out(s)} \in SUBSET S OBVIOUS
    <3> HIDE DEF Rec
    <3> HIDE DEF h
    <3>4. \A q \in SUBSET ((T \ {x}) \cap (T \ {Out(s)})) : Of(x)[q] = Of(Out(s))[q]
          BY <1>1, <3>1, <3>3
    <3>5. Of(Out(s))[s] = Of(x)[s] BY <3>2, <3>4
    <3> QED BY <2>5, <3>5 DEF h
  <2>6. ASSUME NEW s \in SUBSET T PROVE h[s] \in R /\ h[s] = Value(h, s)
    <3>1. CASE s # T
      <4>1. Rec(Of(Out(s)), T \ {Out(s)}) /\ s \in SUBSET (T \ {Out(s)})
            BY <2>3, <2>4, <3>1
      <4>2. h[s] = Of(Out(s))[s] BY <3>1
      <4>3. h[s] \in R /\ h[s] = Value(Of(Out(s)), s) BY <4>1, <4>2
      <4>4. CASE s = {} BY <4>3, <4>4
      <4>5. CASE s # {}
        <5>1. One(s) \in s BY <1>0, <4>5
        <5> HIDE DEF One, h, Rec
        <5>2. s \ {One(s)} \in SUBSET T /\ s \ {One(s)} # T
              /\ Out(s) \in T /\ Out(s) \notin s \ {One(s)}
              BY <2>4, <3>1, <5>1
        <5>3. h[s \ {One(s)}] = Of(Out(s))[s \ {One(s)}] BY <2>5, <5>2
        <5> QED BY <4>3, <4>5, <5>3
      <4> QED BY <4>4, <4>5
    <3>2. CASE s = T /\ T = {} BY <3>2
    <3>3. CASE s = T /\ T # {}
      <4>1. One(T) \in T BY <1>0, <3>3
      <4>2. Rec(Of(One(T)), T \ {One(T)}) BY <2>3, <4>1
      <4>3. Of(One(T))[T \ {One(T)}] \in R BY <4>2
      <4>4. h[T] = f[<<One(T), Of(One(T))[T \ {One(T)}]>>] BY <3>3
      <4> HIDE DEF One, h, Rec
      <4>5. T \ {One(T)} \in SUBSET T /\ T \ {One(T)} # T /\ One(T) \notin T \ {One(T)}
            BY <4>1
      <4>6. h[T \ {One(T)}] = Of(One(T))[T \ {One(T)}] BY <2>5, <4>1, <4>5
      <4>7. <<One(T), h[T \ {One(T)}]>> \in S \X R BY <4>1, <4>3, <4>6
      <4> QED BY <3>3, <4>3, <4>4, <4>6, <4>7
    <3> QED BY <3>1, <3>2, <3>3
  <2>7. Rec(h, T)
    <3>1. h = [s \in SUBSET T |-> h[s]] OBVIOUS
    <3> HIDE DEF h, Value
    <3> QED BY <2>6, <3>1
  <2>8. \E k : Rec(k, T)
    <3> HIDE DEF h, Rec
    <3> QED BY <2>7
  <2> HIDE DEF Rec
  <2> QED BY <2>1, <2>8
<1>3. PICK h : Rec(h, S)
  <2>1. S \in SUBSET S OBVIOUS
  <2> HIDE DEF Rec
  <2> QED BY <1>2, <2>1
<1>4. h[{}] = r /\ \A s \in (SUBSET S) \ {{}} : h[s] = f[<<c[s], h[s \ {c[s]}]>>]
      BY <1>3
<1> QED BY <1>3, <1>4 DEF Gathers
=============================================================================
