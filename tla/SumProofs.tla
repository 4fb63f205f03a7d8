----------------------------- MODULE SumProofs -----------------------------
(***************************************************************************)
(* What the proofs about money need of sums over finite sets.  The library *)
(* defines a sum by recursion on the set, taking out a chosen element at a *)
(* time; here it is shown to be defined, to be an integer, and not to      *)
(* depend on the order.  Induction is on the strict subsets of a finite    *)
(* set, always by a smallest counterexample.                               *)
(***************************************************************************)
EXTENDS Integers, Sequences, Functions, FiniteSetTheorems, TLAPS

Pick(S) == CHOOSE x \in S : TRUE

\* it holds, for every subset of S, what f sums to on it.
IsIter(it, f, S) ==
  it = [T \in SUBSET S |->
          IF T = {} THEN 0 ELSE f[Pick(T)] + it[T \ {Pick(T)}]]

\* Its existence makes the sum defined.
Iter(f, S) == CHOOSE it : IsIter(it, f, S)

LEMMA SumIsIter ==
  ASSUME NEW f, NEW S
  PROVE  SumFunctionOnSet(f, S) = Iter(f, S)[S]
  BY Zenon DEF SumFunctionOnSet, FoldFunctionOnSet, MapThenFoldSet, Iter, IsIter, Pick

\* A set of finite subsets of S that is not empty has a member no other is
\* a strict subset of.
LEMMA SmallestSubset ==
  ASSUME NEW S, IsFiniteSet(S), NEW C, C \subseteq SUBSET S, C # {}
  PROVE  \E T \in C : \A U \in C : U \subseteq T => U = T
<1>1. IsWellFoundedOn(StrictSubsetOrdering(S), SUBSET S)
  BY FS_StrictSubsetOrderingWellFounded, FS_FiniteSubsetsOfFinite
<1>2. \E T \in C : \A U \in C : <<U, T>> \notin StrictSubsetOrdering(S)
  BY <1>1, WFMin
<1>3. PICK T \in C : \A U \in C : <<U, T>> \notin StrictSubsetOrdering(S)
  BY <1>2
<1>4. ASSUME NEW U \in C, U \subseteq T, U # T PROVE FALSE
  BY <1>3, <1>4 DEF StrictSubsetOrdering
<1> QED
  BY <1>3, <1>4

LEMMA PickIn == ASSUME NEW S, S # {} PROVE Pick(S) \in S
  BY DEF Pick

\* Two iterations agree where both are defined.
LEMMA IterUnique ==
  ASSUME NEW f, NEW S, NEW T, NEW g, NEW h, NEW D, IsFiniteSet(D),
         D \subseteq S, D \subseteq T, IsIter(g, f, S), IsIter(h, f, T)
  PROVE  g[D] = h[D]
<1> DEFINE C == {U \in SUBSET D : g[U] # h[U]}
<1>1. SUFFICES ASSUME C # {} PROVE FALSE
  OBVIOUS
<1>2. PICK U \in C : \A V \in C : V \subseteq U => V = U
  <2>1. C \subseteq SUBSET D
    OBVIOUS
  <2> HIDE DEF C
  <2> QED
    BY <1>1, <2>1, SmallestSubset
<1>3. U \in SUBSET S /\ U \in SUBSET T
  OBVIOUS
<1>4. /\ g[U] = IF U = {} THEN 0 ELSE f[Pick(U)] + g[U \ {Pick(U)}]
      /\ h[U] = IF U = {} THEN 0 ELSE f[Pick(U)] + h[U \ {Pick(U)}]
  BY <1>3 DEF IsIter
<1>5. U # {} /\ Pick(U) \in U
  BY <1>4, PickIn
<1>6. U \ {Pick(U)} \in SUBSET D /\ U \ {Pick(U)} # U
  BY <1>5
<1>7. g[U \ {Pick(U)}] = h[U \ {Pick(U)}]
  BY <1>2, <1>6
<1> QED
  BY <1>4, <1>5, <1>7

LEMMA IterExists ==
  ASSUME NEW f, NEW S, IsFiniteSet(S)
  PROVE  \A T \in SUBSET S : \E it : IsIter(it, f, T)
<1> DEFINE C == {T \in SUBSET S : ~ \E it : IsIter(it, f, T)}
<1>1. SUFFICES ASSUME C # {} PROVE FALSE
  OBVIOUS
<1>2. PICK T \in C : \A V \in C : V \subseteq T => V = T
  <2>1. C \subseteq SUBSET S
    OBVIOUS
  <2> HIDE DEF C
  <2> QED
    BY <1>1, <2>1, SmallestSubset
<1>3. \A U \in SUBSET T : U # T => IsIter(Iter(f, U), f, U)
  <2>1. TAKE U \in SUBSET T
  <2>2. HAVE U # T
  <2>3. \E it : IsIter(it, f, U)
    BY <1>2, <2>2
  <2> QED
    BY <2>3, Zenon DEF Iter
<1> DEFINE low(U) == Iter(f, U)[U]
           val(U) == IF U = T
                     THEN IF T = {} THEN 0
                          ELSE f[Pick(T)] + low(T \ {Pick(T)})
                     ELSE low(U)
           it == [U \in SUBSET T |-> val(U)]
<1>4. \A U \in SUBSET T :
        val(U) = IF U = {} THEN 0 ELSE f[Pick(U)] + low(U \ {Pick(U)})
  <2>1. TAKE U \in SUBSET T
  <2>2. CASE U = T
    BY <2>2
  <2>3. CASE U # T
    <3>1. IsIter(Iter(f, U), f, U)
      BY <1>3, <2>3
    <3>2. low(U) = IF U = {} THEN 0
                   ELSE f[Pick(U)] + Iter(f, U)[U \ {Pick(U)}]
      BY <3>1 DEF IsIter
    <3>3. CASE U = {}
      BY <2>3, <3>2, <3>3
    <3>4. CASE U # {}
      <4> DEFINE V == U \ {Pick(U)}
      <4>1. V \in SUBSET T /\ V # T /\ V \subseteq U
        BY <2>3
      <4>2. IsIter(Iter(f, V), f, V)
        BY <1>3, <4>1
      <4>3. IsFiniteSet(V)
        BY <4>1, FS_Subset
      <4>4. V \subseteq V
        OBVIOUS
      <4>5. Iter(f, U)[V] = Iter(f, V)[V]
        <5> HIDE DEF V
        <5> QED
          BY <3>1, <4>1, <4>2, <4>3, <4>4, IterUnique
      <4> QED
        BY <2>3, <3>2, <3>4, <4>5
    <3> QED
      BY <3>3, <3>4
  <2> QED
    BY <2>2, <2>3
<1>5. \A U \in SUBSET T : U # {} => val(U \ {Pick(U)}) = low(U \ {Pick(U)})
  <2>1. TAKE U \in SUBSET T
  <2>2. HAVE U # {}
  <2>3. Pick(U) \in U
    BY <2>2, PickIn
  <2>4. U \ {Pick(U)} # T
    BY <2>3
  <2> QED
    BY <2>4
<1> HIDE DEF val, low
<1>6. \A U \in SUBSET T : U # {} => U \ {Pick(U)} \in SUBSET T
  OBVIOUS
<1>7. it = [U \in SUBSET T |->
              IF U = {} THEN 0 ELSE f[Pick(U)] + it[U \ {Pick(U)}]]
  BY <1>4, <1>5, <1>6
<1>8. IsIter(it, f, T)
  BY <1>7 DEF IsIter
<1> QED
  BY <1>2, <1>8

-----------------------------------------------------------------------------

\* The recursion the library defines a sum by.
LEMMA SumRec ==
  ASSUME NEW f, NEW S, IsFiniteSet(S)
  PROVE  SumFunctionOnSet(f, S) =
           IF S = {} THEN 0
           ELSE f[Pick(S)] + SumFunctionOnSet(f, S \ {Pick(S)})
<1> DEFINE V == S \ {Pick(S)}
<1>1. IsFiniteSet(V) /\ V \subseteq S
  BY FS_RemoveElement
<1>2. IsIter(Iter(f, S), f, S)
  <2>1. \E it : IsIter(it, f, S)
    BY IterExists, S \in SUBSET S
  <2> QED
    BY <2>1, Zenon DEF Iter
<1>3. IsIter(Iter(f, V), f, V)
  <2>1. \E it : IsIter(it, f, V)
    <3> HIDE DEF V
    <3> QED
      BY <1>1, IterExists
  <2> QED
    BY <2>1, Zenon DEF Iter
<1>4. Iter(f, S)[V] = Iter(f, V)[V]
  <2> HIDE DEF V
  <2> QED
    BY <1>1, <1>2, <1>3, IterUnique, V \subseteq V
<1>5. Iter(f, S)[S] = IF S = {} THEN 0 ELSE f[Pick(S)] + Iter(f, S)[V]
  BY <1>2, S \in SUBSET S DEF IsIter
<1> QED
  BY <1>4, <1>5, SumIsIter

LEMMA SumEmpty == ASSUME NEW f PROVE SumFunctionOnSet(f, {}) = 0
  BY SumRec, FS_EmptySet

\* A sum of integers is an integer.
LEMMA SumInt ==
  ASSUME NEW f, NEW S, IsFiniteSet(S), \A x \in S : f[x] \in Int
  PROVE  SumFunctionOnSet(f, S) \in Int
<1> DEFINE C == {T \in SUBSET S : SumFunctionOnSet(f, T) \notin Int}
<1>1. SUFFICES ASSUME C # {} PROVE FALSE
  BY S \in SUBSET S
<1>2. PICK T \in C : \A U \in C : U \subseteq T => U = T
  <2>1. C \subseteq SUBSET S
    OBVIOUS
  <2> HIDE DEF C
  <2> QED
    BY <1>1, <2>1, SmallestSubset
<1>3. IsFiniteSet(T) /\ T \subseteq S /\ SumFunctionOnSet(f, T) \notin Int
  BY FS_Subset
<1>4. T # {} /\ Pick(T) \in T
  BY <1>3, SumEmpty, PickIn
<1>5. SumFunctionOnSet(f, T \ {Pick(T)}) \in Int
  BY <1>2, <1>3, <1>4
<1> QED
  BY <1>3, <1>4, <1>5, SumRec

\* The order does not matter: any element can be taken out first.
LEMMA SumTakeAny ==
  ASSUME NEW f, NEW S, IsFiniteSet(S), \A x \in S : f[x] \in Int
  PROVE  \A x \in S : SumFunctionOnSet(f, S) = f[x] + SumFunctionOnSet(f, S \ {x})
<1> DEFINE Bad(T) == \E x \in T : SumFunctionOnSet(f, T)
                                    # f[x] + SumFunctionOnSet(f, T \ {x})
           C == {T \in SUBSET S : Bad(T)}
<1>1. SUFFICES ASSUME C # {} PROVE FALSE
  BY S \in SUBSET S
<1>2. PICK T \in C : \A U \in C : U \subseteq T => U = T
  <2>1. C \subseteq SUBSET S
    OBVIOUS
  <2> HIDE DEF C
  <2> QED
    BY <1>1, <2>1, SmallestSubset
<1>3. PICK x \in T : SumFunctionOnSet(f, T) # f[x] + SumFunctionOnSet(f, T \ {x})
  OBVIOUS
<1> DEFINE p == Pick(T)
           R == T \ {p}
           X == T \ {x}
<1>4. IsFiniteSet(T) /\ T \subseteq S
  BY FS_Subset
<1>5. p \in T /\ SumFunctionOnSet(f, T) = f[p] + SumFunctionOnSet(f, R)
  BY <1>4, SumRec, PickIn
<1>6. p # x
  BY <1>3, <1>5
<1>7. R \notin C /\ X \notin C
  BY <1>2, <1>5
<1>8. /\ SumFunctionOnSet(f, R) = f[x] + SumFunctionOnSet(f, R \ {x})
      /\ SumFunctionOnSet(f, X) = f[p] + SumFunctionOnSet(f, X \ {p})
  BY <1>4, <1>5, <1>6, <1>7
<1>9. R \ {x} = X \ {p}
  OBVIOUS
<1>10. SumFunctionOnSet(f, R \ {x}) \in Int
  BY <1>4, SumInt, FS_Subset
<1>11. f[x] \in Int /\ f[p] \in Int
  BY <1>4, <1>5
<1>12. SumFunctionOnSet(f, T) # f[x] + SumFunctionOnSet(f, X)
  BY <1>3
<1> HIDE DEF p, R, X
<1>13. SumFunctionOnSet(f, X) = f[p] + SumFunctionOnSet(f, R \ {x})
  BY <1>8, <1>9, Zenon
<1> HIDE DEF C
<1> QED
  BY <1>5, <1>8, <1>10, <1>11, <1>12, <1>13

LEMMA SumTake ==
  ASSUME NEW f, NEW S, IsFiniteSet(S), \A x \in S : f[x] \in Int, NEW x \in S
  PROVE  SumFunctionOnSet(f, S) = f[x] + SumFunctionOnSet(f, S \ {x})
  BY SumTakeAny

LEMMA SumAdd ==
  ASSUME NEW f, NEW S, IsFiniteSet(S), \A x \in S : f[x] \in Int,
         NEW x, x \notin S, f[x] \in Int
  PROVE  SumFunctionOnSet(f, S \cup {x}) = f[x] + SumFunctionOnSet(f, S)
<1> DEFINE T == S \cup {x}
<1>1. IsFiniteSet(T) /\ T \ {x} = S /\ x \in T /\ \A y \in T : f[y] \in Int
  BY FS_AddElement
<1> HIDE DEF T
<1>2. SumFunctionOnSet(f, T) = f[x] + SumFunctionOnSet(f, T \ {x})
  BY <1>1, SumTake
<1> QED
  BY <1>1, <1>2 DEF T

\* A sum only depends on the values summed.
LEMMA SumSame ==
  ASSUME NEW f, NEW g, NEW S, IsFiniteSet(S), \A x \in S : f[x] = g[x]
  PROVE  SumFunctionOnSet(f, S) = SumFunctionOnSet(g, S)
<1> DEFINE C == {T \in SUBSET S : SumFunctionOnSet(f, T) # SumFunctionOnSet(g, T)}
<1>1. SUFFICES ASSUME C # {} PROVE FALSE
  BY S \in SUBSET S
<1>2. PICK T \in C : \A U \in C : U \subseteq T => U = T
  <2>1. C \subseteq SUBSET S
    OBVIOUS
  <2> HIDE DEF C
  <2> QED
    BY <1>1, <2>1, SmallestSubset
<1>3. /\ IsFiniteSet(T) /\ T \subseteq S
      /\ SumFunctionOnSet(f, T) # SumFunctionOnSet(g, T)
  BY FS_Subset
<1>4. T # {} /\ Pick(T) \in T
  BY <1>3, SumEmpty, PickIn
<1>5. SumFunctionOnSet(f, T \ {Pick(T)}) = SumFunctionOnSet(g, T \ {Pick(T)})
  BY <1>2, <1>3, <1>4
<1>6. f[Pick(T)] = g[Pick(T)]
  BY <1>3, <1>4
<1> QED
  BY <1>3, <1>4, <1>5, <1>6, SumRec

\* One value changes.
LEMMA SumChange ==
  ASSUME NEW f, NEW g, NEW S, IsFiniteSet(S), NEW x \in S,
         \A y \in S : f[y] \in Int, g[x] \in Int,
         \A y \in S \ {x} : g[y] = f[y]
  PROVE  SumFunctionOnSet(g, S) = SumFunctionOnSet(f, S) - f[x] + g[x]
<1> DEFINE R == S \ {x}
<1>1. IsFiniteSet(R) /\ \A y \in R : f[y] \in Int /\ g[y] = f[y]
  BY FS_RemoveElement
<1>2. \A y \in S : g[y] \in Int
  OBVIOUS
<1>3. SumFunctionOnSet(f, S) = f[x] + SumFunctionOnSet(f, R)
  BY SumTake
<1>4. SumFunctionOnSet(g, S) = g[x] + SumFunctionOnSet(g, R)
  BY <1>2, SumTake
<1> HIDE DEF R
<1>5. SumFunctionOnSet(g, R) = SumFunctionOnSet(f, R)
  BY <1>1, SumSame
<1>6. SumFunctionOnSet(f, R) \in Int
  BY <1>1, SumInt
<1> QED
  BY <1>3, <1>4, <1>5, <1>6

\* Sums are compared and added value by value.
LEMMA SumLe ==
  ASSUME NEW f, NEW g, NEW S, IsFiniteSet(S),
         \A x \in S : f[x] \in Int /\ g[x] \in Int /\ f[x] <= g[x]
  PROVE  SumFunctionOnSet(f, S) <= SumFunctionOnSet(g, S)
<1> DEFINE C == {T \in SUBSET S :
                   ~ (SumFunctionOnSet(f, T) <= SumFunctionOnSet(g, T))}
<1>1. SUFFICES ASSUME C # {} PROVE FALSE
  BY S \in SUBSET S
<1>2. PICK T \in C : \A U \in C : U \subseteq T => U = T
  <2>1. C \subseteq SUBSET S
    OBVIOUS
  <2> HIDE DEF C
  <2> QED
    BY <1>1, <2>1, SmallestSubset
<1>3. /\ IsFiniteSet(T) /\ T \subseteq S
      /\ ~ (SumFunctionOnSet(f, T) <= SumFunctionOnSet(g, T))
  BY FS_Subset
<1>4. T # {} /\ Pick(T) \in T
  BY <1>3, SumEmpty, PickIn
<1> DEFINE p == Pick(T)
           R == T \ {p}
<1>5. SumFunctionOnSet(f, R) <= SumFunctionOnSet(g, R)
  BY <1>2, <1>3, <1>4
<1>6. f[p] \in Int /\ g[p] \in Int /\ f[p] <= g[p]
  BY <1>3, <1>4
<1>7. IsFiniteSet(R) /\ \A x \in R : f[x] \in Int /\ g[x] \in Int
  BY <1>3, FS_RemoveElement
<1>8. SumFunctionOnSet(f, R) \in Int /\ SumFunctionOnSet(g, R) \in Int
  <2> HIDE DEF R
  <2> QED
    BY <1>7, SumInt
<1>9. /\ SumFunctionOnSet(f, T) = f[p] + SumFunctionOnSet(f, R)
      /\ SumFunctionOnSet(g, T) = g[p] + SumFunctionOnSet(g, R)
  BY <1>3, <1>4, SumRec
<1> QED
  BY <1>3, <1>5, <1>6, <1>8, <1>9

LEMMA SumPlus ==
  ASSUME NEW f, NEW g, NEW h, NEW S, IsFiniteSet(S),
         \A x \in S : f[x] \in Int /\ g[x] \in Int /\ h[x] = f[x] + g[x]
  PROVE  SumFunctionOnSet(h, S) = SumFunctionOnSet(f, S) + SumFunctionOnSet(g, S)
<1> DEFINE C == {T \in SUBSET S : SumFunctionOnSet(h, T)
                   # SumFunctionOnSet(f, T) + SumFunctionOnSet(g, T)}
<1>1. SUFFICES ASSUME C # {} PROVE FALSE
  BY S \in SUBSET S
<1>2. PICK T \in C : \A U \in C : U \subseteq T => U = T
  <2>1. C \subseteq SUBSET S
    OBVIOUS
  <2> HIDE DEF C
  <2> QED
    BY <1>1, <2>1, SmallestSubset
<1>3. /\ IsFiniteSet(T) /\ T \subseteq S
      /\ SumFunctionOnSet(h, T) # SumFunctionOnSet(f, T) + SumFunctionOnSet(g, T)
  BY FS_Subset
<1>4. T # {} /\ Pick(T) \in T
  <2>1. \A F : SumFunctionOnSet(F, {}) = 0
    BY SumEmpty
  <2>2. T # {}
    BY <1>3, <2>1
  <2> QED
    BY <2>2, PickIn
<1> DEFINE p == Pick(T)
           R == T \ {p}
<1>5. SumFunctionOnSet(h, R) = SumFunctionOnSet(f, R) + SumFunctionOnSet(g, R)
  BY <1>2, <1>3, <1>4
<1>6. f[p] \in Int /\ g[p] \in Int /\ h[p] = f[p] + g[p]
  BY <1>3, <1>4
<1>7. IsFiniteSet(R) /\ \A x \in R : f[x] \in Int /\ g[x] \in Int
  BY <1>3, FS_RemoveElement
<1>8. SumFunctionOnSet(f, R) \in Int /\ SumFunctionOnSet(g, R) \in Int
  <2> HIDE DEF R
  <2> QED
    BY <1>7, SumInt
<1>9. /\ SumFunctionOnSet(f, T) = f[p] + SumFunctionOnSet(f, R)
      /\ SumFunctionOnSet(g, T) = g[p] + SumFunctionOnSet(g, R)
      /\ SumFunctionOnSet(h, T) = h[p] + SumFunctionOnSet(h, R)
  BY <1>3, <1>4, SumRec
<1> QED
  BY <1>3, <1>5, <1>6, <1>8, <1>9

LEMMA SumZero ==
  ASSUME NEW f, NEW S, IsFiniteSet(S), \A x \in S : f[x] = 0
  PROVE  SumFunctionOnSet(f, S) = 0
<1>1. SumFunctionOnSet(f, S) \in Int
  BY SumInt
<1>2. \A x \in S : f[x] \in Int /\ f[x] \in Int /\ f[x] = f[x] + f[x]
  OBVIOUS
<1>3. SumFunctionOnSet(f, S) = SumFunctionOnSet(f, S) + SumFunctionOnSet(f, S)
  BY <1>2, SumPlus
<1>4. \A n \in Int : n = n + n => n = 0
  OBVIOUS
<1> QED
  BY <1>1, <1>3, <1>4, Zenon

LEMMA SumNat ==
  ASSUME NEW f, NEW S, IsFiniteSet(S), \A x \in S : f[x] \in Nat
  PROVE  SumFunctionOnSet(f, S) \in Nat
<1> DEFINE none == [x \in S |-> 0]
<1>1. SumFunctionOnSet(none, S) = 0
  BY SumZero
<1>2. \A x \in S : none[x] \in Int /\ f[x] \in Int /\ none[x] <= f[x]
  OBVIOUS
<1> HIDE DEF none
<1>3. SumFunctionOnSet(none, S) <= SumFunctionOnSet(f, S)
  BY <1>2, SumLe
<1>4. SumFunctionOnSet(f, S) \in Int
  BY SumInt
<1> QED
  BY <1>1, <1>3, <1>4

\* A sum is that of a part and that of the rest.
LEMMA SumParts ==
  ASSUME NEW f, NEW S, IsFiniteSet(S), \A x \in S : f[x] \in Int,
         NEW P \in SUBSET S
  PROVE  SumFunctionOnSet(f, S)
           = SumFunctionOnSet(f, P) + SumFunctionOnSet(f, S \ P)
<1> DEFINE Bad(T) == SumFunctionOnSet(f, S)
                       # SumFunctionOnSet(f, T) + SumFunctionOnSet(f, S \ T)
           C == {T \in SUBSET S : Bad(T)}
<1>1. SUFFICES ASSUME C # {} PROVE FALSE
  OBVIOUS
<1>2. PICK T \in C : \A U \in C : U \subseteq T => U = T
  <2>1. C \subseteq SUBSET S
    OBVIOUS
  <2> HIDE DEF C
  <2> QED
    BY <1>1, <2>1, SmallestSubset
<1>3. T \subseteq S /\ Bad(T)
  OBVIOUS
<1>4. PICK p \in T : TRUE
  <2>1. SumFunctionOnSet(f, S) \in Int /\ S \ {} = S
    BY SumInt
  <2>2. T # {}
    BY <1>3, <2>1, SumEmpty
  <2> QED
    BY <2>2
<1> DEFINE R == T \ {p}
           O == S \ T
<1>5. SumFunctionOnSet(f, S) = SumFunctionOnSet(f, R) + SumFunctionOnSet(f, S \ R)
  BY <1>2, <1>3
<1>6. /\ IsFiniteSet(T) /\ IsFiniteSet(O) /\ IsFiniteSet(R)
      /\ p \notin O /\ S \ R = O \cup {p}
      /\ \A x \in T : f[x] \in Int
      /\ \A x \in O : f[x] \in Int
      /\ \A x \in R : f[x] \in Int
      /\ f[p] \in Int
  BY <1>3, FS_Subset
<1> HIDE DEF O
<1>7. SumFunctionOnSet(f, T) = f[p] + SumFunctionOnSet(f, R)
  BY <1>6, SumTake
<1> HIDE DEF R
<1>8. SumFunctionOnSet(f, O \cup {p}) = f[p] + SumFunctionOnSet(f, O)
  BY <1>6, SumAdd
<1>9. SumFunctionOnSet(f, O) \in Int /\ SumFunctionOnSet(f, R) \in Int
  BY <1>6, SumInt
<1>10. SumFunctionOnSet(f, S)
         = SumFunctionOnSet(f, R) + (f[p] + SumFunctionOnSet(f, O))
  BY <1>5, <1>6, <1>8, Zenon
<1>11. SumFunctionOnSet(f, S) # SumFunctionOnSet(f, T) + SumFunctionOnSet(f, O)
  BY <1>3 DEF O
<1> QED
  BY <1>6, <1>7, <1>9, <1>10, <1>11

\* What is zero does not count.
LEMMA SumFilter ==
  ASSUME NEW f, NEW S, IsFiniteSet(S), \A x \in S : f[x] \in Int,
         NEW P \in SUBSET S, \A x \in S \ P : f[x] = 0
  PROVE  SumFunctionOnSet(f, S) = SumFunctionOnSet(f, P)
<1>1. SumFunctionOnSet(f, S)
        = SumFunctionOnSet(f, P) + SumFunctionOnSet(f, S \ P)
  BY SumParts
<1>2. IsFiniteSet(P) /\ IsFiniteSet(S \ P)
  BY FS_Subset
<1>3. SumFunctionOnSet(f, S \ P) = 0
  BY <1>2, SumZero
<1>4. SumFunctionOnSet(f, P) \in Int
  BY <1>2, SumInt
<1> QED
  BY <1>1, <1>3, <1>4

\* A part of what is not negative is no more than the whole.
LEMMA SumPartLe ==
  ASSUME NEW f, NEW S, IsFiniteSet(S), \A x \in S : f[x] \in Nat,
         NEW P \in SUBSET S
  PROVE  SumFunctionOnSet(f, P) <= SumFunctionOnSet(f, S)
<1>1. SumFunctionOnSet(f, S)
        = SumFunctionOnSet(f, P) + SumFunctionOnSet(f, S \ P)
  BY SumParts
<1>2. IsFiniteSet(P) /\ IsFiniteSet(S \ P)
  BY FS_Subset
<1>3. SumFunctionOnSet(f, P) \in Nat /\ SumFunctionOnSet(f, S \ P) \in Nat
  BY <1>2, SumNat
<1> QED
  BY <1>1, <1>3

-----------------------------------------------------------------------------
(* Sums of tables and of sequences *)

\* A table made of some values of a function adds up to what these do.
LEMMA SumTable ==
  ASSUME NEW f, NEW S, IsFiniteSet(S)
  PROVE  SumFunction([x \in S |-> f[x]]) = SumFunctionOnSet(f, S)
<1> DEFINE g == [x \in S |-> f[x]]
<1>1. DOMAIN g = S /\ \A x \in S : g[x] = f[x]
  OBVIOUS
<1>2. SumFunction(g) = SumFunctionOnSet(g, DOMAIN g)
  BY DEF SumFunction
<1> HIDE DEF g
<1>3. SumFunction(g) = SumFunctionOnSet(f, S)
  BY <1>1, <1>2, SumSame
<1> QED
  BY <1>3 DEF g

LEMMA SeqIndices ==
  ASSUME NEW s \in Seq(Int), NEW I \in SUBSET DOMAIN s
  PROVE  IsFiniteSet(I) /\ \A i \in I : s[i] \in Int
<1>1. DOMAIN s = 1 .. Len(s) /\ Len(s) \in Nat
  OBVIOUS
<1>2. IsFiniteSet(DOMAIN s)
  BY <1>1, FS_Interval
<1> QED
  BY <1>2, FS_Subset

\* A row more adds its amount to the rows of some places, if its own is one.
LEMMA SumAppend ==
  ASSUME NEW s \in Seq(Int), NEW a \in Int, NEW I \in SUBSET DOMAIN s
  PROVE  LET n == Len(s) + 1
         IN  /\ SumFunctionOnSet(Append(s, a), I) = SumFunctionOnSet(s, I)
             /\ SumFunctionOnSet(Append(s, a), I \cup {n})
                  = SumFunctionOnSet(s, I) + a
             /\ SumFunctionOnSet(s, I) \in Int
             /\ Append(s, a) \in Seq(Int)
             /\ DOMAIN Append(s, a) = DOMAIN s \cup {n} /\ n \notin DOMAIN s
             /\ Append(s, a)[n] = a
             /\ \A i \in DOMAIN s : Append(s, a)[i] = s[i]
<1> DEFINE t == Append(s, a)
           n == Len(s) + 1
<1>1. /\ t \in Seq(Int) /\ DOMAIN t = DOMAIN s \cup {n} /\ n \notin DOMAIN s
      /\ t[n] = a /\ \A i \in DOMAIN s : t[i] = s[i]
  OBVIOUS
<1>2. IsFiniteSet(I) /\ \A i \in I : s[i] \in Int
  BY SeqIndices
<1> HIDE DEF t, n
<1>3. \A i \in I : t[i] = s[i]
  BY <1>1
<1>4. SumFunctionOnSet(t, I) = SumFunctionOnSet(s, I)
  BY <1>2, <1>3, SumSame
<1>5. SumFunctionOnSet(t, I \cup {n}) = t[n] + SumFunctionOnSet(t, I)
  <2>1. n \notin I /\ t[n] \in Int /\ \A i \in I : t[i] \in Int
    BY <1>1, <1>2, <1>3
  <2> QED
    BY <1>2, <2>1, SumAdd
<1>6. SumFunctionOnSet(s, I) \in Int
  BY <1>2, SumInt
<1>7. SumFunctionOnSet(t, I \cup {n}) = SumFunctionOnSet(s, I) + a
  BY <1>1, <1>4, <1>5, <1>6
<1> QED
  BY <1>1, <1>4, <1>6, <1>7 DEF t, n

\* One element of a set takes the place of another.
LEMMA SumSwap ==
  ASSUME NEW f, NEW S, IsFiniteSet(S), \A z \in S : f[z] \in Int,
         NEW x \in S, NEW y, y \notin S, f[y] \in Int
  PROVE  /\ IsFiniteSet((S \ {x}) \cup {y})
         /\ SumFunctionOnSet(f, (S \ {x}) \cup {y})
              = SumFunctionOnSet(f, S) - f[x] + f[y]
<1> DEFINE R == S \ {x}
<1>1. IsFiniteSet(R) /\ y \notin R /\ \A z \in R : f[z] \in Int
  BY FS_RemoveElement
<1>2. SumFunctionOnSet(f, R) \in Int
  BY <1>1, SumInt
<1>3. SumFunctionOnSet(f, S) = f[x] + SumFunctionOnSet(f, R)
  BY SumTake
<1> HIDE DEF R
<1>4. SumFunctionOnSet(f, R \cup {y}) = f[y] + SumFunctionOnSet(f, R)
  BY <1>1, SumAdd
<1>5. IsFiniteSet(R \cup {y})
  BY <1>1, FS_AddElement
<1>6. SumFunctionOnSet(f, R \cup {y}) = SumFunctionOnSet(f, S) - f[x] + f[y]
  BY <1>2, <1>3, <1>4
<1> QED
  BY <1>5, <1>6 DEF R

\* A common factor comes out of a sum.
LEMMA SumScale ==
  ASSUME NEW f, NEW g, NEW k \in Int, NEW S, IsFiniteSet(S),
         \A x \in S : f[x] \in Int /\ g[x] = f[x] * k
  PROVE  SumFunctionOnSet(g, S) = SumFunctionOnSet(f, S) * k
<1> DEFINE C == {T \in SUBSET S :
                   SumFunctionOnSet(g, T) # SumFunctionOnSet(f, T) * k}
<1> SUFFICES C = {}
  BY S \in SUBSET S
<1> SUFFICES ASSUME C # {} PROVE FALSE
  OBVIOUS
<1>1. PICK T \in C : \A U \in C : U \subseteq T => U = T
  <2>1. C \subseteq SUBSET S
    OBVIOUS
  <2> HIDE DEF C
  <2> QED
    BY <2>1, SmallestSubset
<1>2. IsFiniteSet(T) /\ \A x \in T : f[x] \in Int /\ g[x] \in Int /\ g[x] = f[x] * k
  BY FS_Subset
<1>3. SumFunctionOnSet(f, {}) = 0 /\ SumFunctionOnSet(g, {}) = 0
  BY SumEmpty
<1>4. T # {}
  <2>1. SumFunctionOnSet(g, T) # SumFunctionOnSet(f, T) * k
    OBVIOUS
  <2>2. 0 * k = 0
    OBVIOUS
  <2> QED
    BY <1>3, <2>1, <2>2, Zenon
<1>5. PICK x : x \in T
  BY <1>4
<1>6. PICK R : R = T \ {x}
  OBVIOUS
<1>7. IsFiniteSet(R) /\ \A y \in R : f[y] \in Int
  BY <1>2, <1>6, FS_RemoveElement
<1>8. R \notin C
  BY <1>1, <1>5, <1>6
<1>9. SumFunctionOnSet(g, R) = SumFunctionOnSet(f, R) * k
  BY <1>6, <1>8
<1>10. /\ SumFunctionOnSet(f, T) = f[x] + SumFunctionOnSet(f, R)
       /\ SumFunctionOnSet(g, T) = g[x] + SumFunctionOnSet(g, R)
  BY <1>2, <1>5, <1>6, SumTake
<1>11. SumFunctionOnSet(f, R) \in Int /\ f[x] \in Int /\ g[x] = f[x] * k
  BY <1>2, <1>5, <1>7, SumInt
<1>12. PICK a \in Int, b \in Int : a = f[x] /\ b = SumFunctionOnSet(f, R)
  BY <1>11
<1>13. (a + b) * k = a * k + b * k
  OBVIOUS
<1>14. SumFunctionOnSet(g, T) = SumFunctionOnSet(f, T) * k
  BY <1>9, <1>10, <1>11, <1>12, <1>13
<1> QED
  BY <1>14

\* What f adds up to on each of the groups that k makes of S.
Groups(f, k, S, I) == [i \in I |-> SumFunctionOnSet(f, {x \in S : k[x] = i})]

\* A sum taken group by group.
LEMMA SumGroups ==
  ASSUME NEW f, NEW k, NEW S, IsFiniteSet(S), \A x \in S : f[x] \in Int,
         NEW I, IsFiniteSet(I), \A x \in S : k[x] \in I
  PROVE  SumFunctionOnSet(Groups(f, k, S, I), I) = SumFunctionOnSet(f, S)
<1> PICK g : g = Groups(f, k, S, I)
  OBVIOUS
<1>0. \A i \in I : g[i] = SumFunctionOnSet(f, {x \in S : k[x] = i})
  BY DEF Groups
<1> SUFFICES SumFunctionOnSet(g, I) = SumFunctionOnSet(f, S)
  OBVIOUS
<1> DEFINE Of(J) == {x \in S : k[x] \in J}
           C == {J \in SUBSET I : SumFunctionOnSet(g, J) # SumFunctionOnSet(f, Of(J))}
<1>1. Of(I) = S
  OBVIOUS
<1> SUFFICES ASSUME C # {} PROVE FALSE
  BY <1>1, I \in SUBSET I
<1>2. PICK J \in C : \A U \in C : U \subseteq J => U = J
  <2>1. C \subseteq SUBSET I
    OBVIOUS
  <2> HIDE DEF C
  <2> QED
    BY <2>1, SmallestSubset
<1>3. \A U : IsFiniteSet(Of(U)) /\ \A x \in Of(U) : f[x] \in Int
  BY FS_Subset
<1>4. \A i \in I : IsFiniteSet({x \in S : k[x] = i}) /\ g[i] \in Int
  <2> SUFFICES ASSUME NEW i \in I
               PROVE  IsFiniteSet({x \in S : k[x] = i}) /\ g[i] \in Int
    OBVIOUS
  <2>1. PICK G : G = {x \in S : k[x] = i}
    OBVIOUS
  <2>2. IsFiniteSet(G) /\ \A x \in G : f[x] \in Int
    BY <2>1, FS_Subset
  <2>3. SumFunctionOnSet(f, G) \in Int
    BY <2>2, SumInt
  <2> QED
    BY <1>0, <2>1, <2>2, <2>3
<1>5. IsFiniteSet(J) /\ J \subseteq I
  BY FS_Subset
<1>6. SumFunctionOnSet(f, {}) = 0 /\ SumFunctionOnSet(g, {}) = 0 /\ Of({}) = {}
  BY SumEmpty
<1>7. J # {}
  BY <1>6
<1>8. PICK i : i \in J
  BY <1>7
<1>9. PICK R : R = J \ {i}
  OBVIOUS
<1>10. R \notin C /\ R \in SUBSET I
  BY <1>2, <1>5, <1>8, <1>9
<1>11. SumFunctionOnSet(g, R) = SumFunctionOnSet(f, Of(R))
  BY <1>10
<1>12. SumFunctionOnSet(g, J) = g[i] + SumFunctionOnSet(g, R)
  <2>1. \A j \in J : g[j] \in Int
    BY <1>4, <1>5
  <2> HIDE DEF C, Of
  <2>2. SumFunctionOnSet(g, J) = g[i] + SumFunctionOnSet(g, J \ {i})
    BY <2>1, <1>5, <1>8, SumTake
  <2> QED
    BY <2>2, <1>9, Zenon
<1>13. SumFunctionOnSet(f, Of(J)) = g[i] + SumFunctionOnSet(f, Of(R))
  <2>1. PICK A : A = Of(J)
    OBVIOUS
  <2>2. PICK P : P = {x \in S : k[x] = i}
    OBVIOUS
  <2>3. P \in SUBSET A /\ A \ P = Of(R)
    BY <1>5, <1>8, <1>9, <2>1, <2>2
  <2>4. IsFiniteSet(A) /\ \A x \in A : f[x] \in Int
    BY <1>3, <2>1
  <2> HIDE DEF Of
  <2>5. SumFunctionOnSet(f, A) = SumFunctionOnSet(f, P) + SumFunctionOnSet(f, A \ P)
    BY <2>3, <2>4, SumParts
  <2> QED
    BY <1>0, <1>5, <1>8, <2>1, <2>2, <2>3, <2>5
<1>14. SumFunctionOnSet(g, J) = SumFunctionOnSet(f, Of(J))
  BY <1>11, <1>12, <1>13, Zenon
<1> QED
  BY <1>2, <1>14

\* A sum over a table is the sum of any function that agrees with it.
LEMMA SumOfTable ==
  ASSUME NEW t, NEW f, IsFiniteSet(DOMAIN t), \A x \in DOMAIN t : t[x] = f[x]
  PROVE  SumFunction(t) = SumFunctionOnSet(f, DOMAIN t)
<1>1. SumFunction(t) = SumFunctionOnSet(t, DOMAIN t)
  BY DEF SumFunction
<1> QED
  BY <1>1, SumSame

LEMMA SumSingle ==
  ASSUME NEW f, NEW x, f[x] \in Int
  PROVE  SumFunctionOnSet(f, {x}) = f[x]
<1>1. IsFiniteSet({x}) /\ {x} \ {x} = {}
  BY FS_Singleton
<1>2. SumFunctionOnSet(f, {x}) = f[x] + SumFunctionOnSet(f, {x} \ {x})
  BY <1>1, SumTake
<1>3. SumFunctionOnSet(f, {}) = 0
  BY SumEmpty
<1> QED
  BY <1>1, <1>2, <1>3

\* One term that is smaller makes the sum smaller.
LEMMA SumLess ==
  ASSUME NEW f, NEW g, NEW S, IsFiniteSet(S),
         \A x \in S : f[x] \in Int /\ g[x] \in Int /\ f[x] <= g[x],
         NEW x \in S, f[x] < g[x]
  PROVE  SumFunctionOnSet(f, S) < SumFunctionOnSet(g, S)
<1>1. PICK R : R = S \ {x}
  OBVIOUS
<1>2. IsFiniteSet(R) /\ \A y \in R : f[y] \in Int /\ g[y] \in Int /\ f[y] <= g[y]
  BY <1>1, FS_RemoveElement
<1>3. SumFunctionOnSet(f, R) <= SumFunctionOnSet(g, R)
  BY <1>2, SumLe
<1>4. SumFunctionOnSet(f, R) \in Int /\ SumFunctionOnSet(g, R) \in Int
  BY <1>2, SumInt
<1>5. /\ SumFunctionOnSet(f, S) = f[x] + SumFunctionOnSet(f, R)
      /\ SumFunctionOnSet(g, S) = g[x] + SumFunctionOnSet(g, R)
  BY <1>1, SumTake
<1> QED
  BY <1>3, <1>4, <1>5

=============================================================================
