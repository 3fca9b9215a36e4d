----------------------------- MODULE SumTheorems -----------------------------
(* What a sum over a finite set is, for every set and every function.  The    *)
(* sums of the specifications are folds: a function on subsets, defined by    *)
(* recursion, that takes out whatever element CHOOSE picks.  The recursion    *)
(* has a solution and only one (AddsExists, AddsAgree), any element may be    *)
(* taken out first (SumSplit), and a sum follows its terms (SumSame, SumAdd). *)
(* Each is proved on the smallest subset that would break it.                 *)
EXTENDS Integers, FiniteSets, FiniteSetsExt, Functions, FiniteSetTheorems,
        WellFoundedInduction, TLAPS

(* A non-empty collection of subsets of a finite set has a smallest member.  *)
LEMMA SmallestSet ==
    ASSUME NEW S, IsFiniteSet(S), NEW B \in SUBSET (SUBSET S), B # {}
    PROVE  \E T \in B : \A U \in SUBSET T : U \in B => U = T
<1>1. IsWellFoundedOn(StrictSubsetOrdering(S), SUBSET S)
  BY FS_StrictSubsetOrderingWellFounded, FS_FiniteSubsetsOfFinite
<1>2. PICK T \in B : \A U \in B : <<U, T>> \notin StrictSubsetOrdering(S)
  BY <1>1, WFMin
<1> QED
  BY <1>2 DEF StrictSubsetOrdering

Pick(T) == CHOOSE x \in T : TRUE

(* A choice from a set that has something to choose from.                     *)
LEMMA PickIn == ASSUME NEW T, T # {} PROVE Pick(T) \in T
  BY DEF Pick

(* What the recursion of a fold by addition asks of a function g.            *)
Adds(f, g, S) ==
    g = [T \in SUBSET S |->
            IF T = {} THEN 0 ELSE f[Pick(T)] + g[T \ {Pick(T)}]]
Chosen(f, S) == CHOOSE g : Adds(f, g, S)

(* The library's fold is the solution of the recursion that CHOOSE names.     *)
LEMMA SumIsChosen ==
    ASSUME NEW f, NEW S
    PROVE  SumFunctionOnSet(f, S) = Chosen(f, S)[S]
  BY DEF SumFunctionOnSet, FoldFunctionOnSet, MapThenFoldSet, Chosen, Adds, Pick

(* A solution obeys the recursion at every subset.                            *)
LEMMA AddsUnfold ==
    ASSUME NEW f, NEW g, NEW S, Adds(f, g, S), NEW T \in SUBSET S
    PROVE  g[T] = IF T = {} THEN 0 ELSE f[Pick(T)] + g[T \ {Pick(T)}]
<1> DEFINE h == [X \in SUBSET S |->
                   IF X = {} THEN 0 ELSE f[Pick(X)] + g[X \ {Pick(X)}]]
<1>1. g = h
  BY DEF Adds
<1>2. h[T] = IF T = {} THEN 0 ELSE f[Pick(T)] + g[T \ {Pick(T)}]
  OBVIOUS
<1> HIDE DEF h
<1> QED
  BY <1>1, <1>2

(* So does the one that CHOOSE names, if there is one.                        *)
LEMMA ChosenUnfold ==
    ASSUME NEW f, NEW S, Adds(f, Chosen(f, S), S)
    PROVE  Chosen(f, S)[S] = IF S = {} THEN 0
                             ELSE f[Pick(S)] + Chosen(f, S)[S \ {Pick(S)}]
<1> DEFINE g == Chosen(f, S)
<1> HIDE DEF g
<1>1. Adds(f, g, S)
  BY DEF g
<1>2. S \in SUBSET S
  OBVIOUS
<1>3. g[S] = IF S = {} THEN 0 ELSE f[Pick(S)] + g[S \ {Pick(S)}]
  BY SMTT(30), <1>1, <1>2, AddsUnfold
<1> QED
  BY <1>3 DEF g

(* Two functions that obey the recursion agree on the sets both cover.       *)
LEMMA AddsAgree ==
    ASSUME NEW f, NEW S, NEW R, IsFiniteSet(S), S \subseteq R,
           NEW g, NEW h, Adds(f, g, S), Adds(f, h, R)
    PROVE  g[S] = h[S]
<1> DEFINE B == {T \in SUBSET S : g[T] # h[T]}
<1>1. SUFFICES ASSUME B # {} PROVE FALSE
  OBVIOUS
<1>b. B \in SUBSET (SUBSET S)
  OBVIOUS
<1> HIDE DEF B
<1>2. PICK T \in B : \A U \in SUBSET T : U \in B => U = T
  BY <1>1, <1>b, SmallestSet
<1> USE DEF B
<1>3. T \in SUBSET S /\ T \in SUBSET R /\ g[T] # h[T]
  BY <1>2
<1>4. g[T] = IF T = {} THEN 0 ELSE f[Pick(T)] + g[T \ {Pick(T)}]
  BY <1>3, AddsUnfold
<1>5. h[T] = IF T = {} THEN 0 ELSE f[Pick(T)] + h[T \ {Pick(T)}]
  <2>1. T \in SUBSET R /\ Adds(f, h, R)
    BY <1>3
  <2> QED
    BY ONLY <2>1, AddsUnfold
<1>6. T # {}
  BY <1>3, <1>4, <1>5
<1>7. Pick(T) \in T
  BY <1>6, PickIn
<1>8. T \ {Pick(T)} \in SUBSET T /\ T \ {Pick(T)} # T /\ T \ {Pick(T)} \in SUBSET S
  BY <1>7, <1>3
<1>9. g[T \ {Pick(T)}] = h[T \ {Pick(T)}]
  BY <1>2, <1>8
<1> QED
  BY <1>3, <1>4, <1>5, <1>6, <1>9

(* The recursion has a solution over every finite set.                       *)
LEMMA AddsExists ==
    ASSUME NEW f, NEW S, IsFiniteSet(S)
    PROVE  \E g : Adds(f, g, S)
<1> DEFINE B == {T \in SUBSET S : ~ \E g : Adds(f, g, T)}
<1>1. SUFFICES ASSUME B # {} PROVE FALSE
  OBVIOUS
<1>b. B \in SUBSET (SUBSET S)
  OBVIOUS
<1> HIDE DEF B
<1>2. PICK T \in B : \A U \in SUBSET T : U \in B => U = T
  BY <1>1, <1>b, SmallestSet
<1> USE DEF B
<1>3. T \in SUBSET S /\ IsFiniteSet(T) /\ ~ \E g : Adds(f, g, T)
  BY <1>2, FS_Subset
<1>4. ASSUME NEW U \in SUBSET T, U # T
      PROVE  Adds(f, Chosen(f, U), U)
  <2>1. \E g : Adds(f, g, U)
    BY <1>2, <1>3, <1>4
  <2> QED
    BY <2>1 DEF Chosen
<1> DEFINE G == [U \in SUBSET T |->
                   IF U = {} THEN 0
                   ELSE f[Pick(U)] + Chosen(f, U \ {Pick(U)})[U \ {Pick(U)}]]
<1>5. ASSUME NEW U \in SUBSET T, U # {}
      PROVE  Chosen(f, U \ {Pick(U)})[U \ {Pick(U)}] = G[U \ {Pick(U)}]
  <2> DEFINE V == U \ {Pick(U)}
  <2>1. V \in SUBSET T /\ V # T
    BY <1>5, PickIn
  <2>2. Adds(f, Chosen(f, V), V) /\ IsFiniteSet(V)
    BY <1>3, <1>4, <2>1, FS_Subset
  <2>3. Chosen(f, V)[V] = IF V = {} THEN 0
                          ELSE f[Pick(V)] + Chosen(f, V)[V \ {Pick(V)}]
    <3> HIDE DEF V, G, B
    <3> QED
      BY ONLY <2>2, ChosenUnfold
  <2>4. G[V] = IF V = {} THEN 0
               ELSE f[Pick(V)] + Chosen(f, V \ {Pick(V)})[V \ {Pick(V)}]
    BY <2>1
  <2>5. ASSUME V # {}
        PROVE  Chosen(f, V)[V \ {Pick(V)}] = Chosen(f, V \ {Pick(V)})[V \ {Pick(V)}]
    <3> DEFINE W == V \ {Pick(V)}
    <3>1. W \in SUBSET T /\ W # T /\ W \subseteq V
      BY <2>1, <2>5, PickIn
    <3>2. Adds(f, Chosen(f, W), W) /\ IsFiniteSet(W)
      BY <1>3, <1>4, <3>1, FS_Subset
    <3> HIDE DEF W, V
    <3>3. Chosen(f, W)[W] = Chosen(f, V)[W]
      BY <2>2, <3>1, <3>2, AddsAgree
    <3> QED
      BY <3>3 DEF W
  <2> HIDE DEF V, G
  <2>6. Chosen(f, V)[V] = G[V]
    BY <2>3, <2>4, <2>5
  <2> QED
    BY <2>6 DEF V
<1>6. G = [U \in SUBSET T |->
             IF U = {} THEN 0 ELSE f[Pick(U)] + G[U \ {Pick(U)}]]
  <2> DEFINE H == [U \in SUBSET T |->
             IF U = {} THEN 0 ELSE f[Pick(U)] + G[U \ {Pick(U)}]]
  <2>1. ASSUME NEW U \in SUBSET T PROVE G[U] = H[U]
    <3>1. CASE U = {}
      BY <3>1
    <3>2. CASE U # {}
      <4>1. G[U] = f[Pick(U)] + Chosen(f, U \ {Pick(U)})[U \ {Pick(U)}]
        BY <3>2
      <4>2. H[U] = f[Pick(U)] + G[U \ {Pick(U)}]
        BY <3>2
      <4> HIDE DEF G, H
      <4> QED
        BY <4>1, <4>2, <1>5, <3>2
    <3> QED
      BY <3>1, <3>2
  <2>2. G = H
    BY <2>1
  <2> QED
    BY <2>2
<1>7. Adds(f, G, T)
  BY <1>6 DEF Adds
<1> QED
  BY <1>3, <1>7

-----------------------------------------------------------------------------
(* The facts the proofs use.                                                  *)

(* Nothing adds up to zero. *)
LEMMA SumEmpty == ASSUME NEW f PROVE SumFunctionOnSet(f, {}) = 0
<1>1. Adds(f, Chosen(f, {}), {})
  BY AddsExists, FS_EmptySet DEF Chosen
<1> QED
  BY <1>1, ChosenUnfold, SumIsChosen

(* The element picked and the sum of the rest. *)
LEMMA SumStep ==
    ASSUME NEW f, NEW S, IsFiniteSet(S), S # {}
    PROVE  SumFunctionOnSet(f, S) =
              f[Pick(S)] + SumFunctionOnSet(f, S \ {Pick(S)})
<1> DEFINE R == S \ {Pick(S)}
<1>1. IsFiniteSet(R) /\ R \subseteq S
  BY FS_Subset
<1>2. Adds(f, Chosen(f, S), S)
  BY AddsExists DEF Chosen
<1>3. Chosen(f, S)[S] = f[Pick(S)] + Chosen(f, S)[R]
  BY <1>2, ChosenUnfold
<1> HIDE DEF R
<1>4. Adds(f, Chosen(f, R), R)
  BY <1>1, AddsExists DEF Chosen
<1>5. Chosen(f, R)[R] = Chosen(f, S)[R]
  BY <1>1, <1>2, <1>4, AddsAgree
<1>6. SumFunctionOnSet(f, S) = Chosen(f, S)[S]
  BY SumIsChosen
<1>7. SumFunctionOnSet(f, R) = Chosen(f, R)[R]
  BY SumIsChosen
<1> QED
  BY <1>3, <1>5, <1>6, <1>7 DEF R

(* A sum of integers is an integer. *)
LEMMA SumInt ==
    ASSUME NEW f, NEW S, IsFiniteSet(S), \A x \in S : f[x] \in Int
    PROVE  SumFunctionOnSet(f, S) \in Int
<1> DEFINE B == {T \in SUBSET S : SumFunctionOnSet(f, T) \notin Int}
<1>1. SUFFICES ASSUME B # {} PROVE FALSE
  BY DEF B
<1>2. B \in SUBSET (SUBSET S)
  OBVIOUS
<1> HIDE DEF B
<1>3. PICK T \in B : \A U \in SUBSET T : U \in B => U = T
  BY <1>1, <1>2, SmallestSet
<1>4. T \in SUBSET S /\ SumFunctionOnSet(f, T) \notin Int
  BY <1>3 DEF B
<1>5. IsFiniteSet(T) /\ T # {}
  <2>1. SumFunctionOnSet(f, {}) \in Int
    BY SumEmpty
  <2> QED
    BY <1>4, <2>1, FS_Subset
<1>6. Pick(T) \in T
  BY <1>5, PickIn
<1>7. SumFunctionOnSet(f, T \ {Pick(T)}) \in Int
  BY <1>3, <1>4, <1>6 DEF B
<1>8. SumFunctionOnSet(f, T) = f[Pick(T)] + SumFunctionOnSet(f, T \ {Pick(T)})
  BY <1>5, SumStep
<1>9. f[Pick(T)] \in Int
  BY <1>4, <1>6
<1> QED
  BY <1>4, <1>7, <1>8, <1>9

(* Equal terms have equal sums. *)
LEMMA SumSame ==
    ASSUME NEW f, NEW g, NEW S, IsFiniteSet(S), \A x \in S : f[x] = g[x]
    PROVE  SumFunctionOnSet(f, S) = SumFunctionOnSet(g, S)
<1> DEFINE B == {T \in SUBSET S : SumFunctionOnSet(f, T) # SumFunctionOnSet(g, T)}
<1>1. SUFFICES ASSUME B # {} PROVE FALSE
  BY DEF B
<1>2. B \in SUBSET (SUBSET S)
  OBVIOUS
<1> HIDE DEF B
<1>3. PICK T \in B : \A U \in SUBSET T : U \in B => U = T
  BY <1>1, <1>2, SmallestSet
<1>4. T \in SUBSET S /\ SumFunctionOnSet(f, T) # SumFunctionOnSet(g, T)
  BY <1>3 DEF B
<1>5. IsFiniteSet(T) /\ T # {}
  BY <1>4, SumEmpty, FS_Subset
<1>6. Pick(T) \in T
  BY <1>5, PickIn
<1>7. SumFunctionOnSet(f, T \ {Pick(T)}) = SumFunctionOnSet(g, T \ {Pick(T)})
  BY <1>3, <1>4, <1>6 DEF B
<1>8. SumFunctionOnSet(f, T) = f[Pick(T)] + SumFunctionOnSet(f, T \ {Pick(T)})
  BY <1>5, SumStep
<1>9. SumFunctionOnSet(g, T) = g[Pick(T)] + SumFunctionOnSet(g, T \ {Pick(T)})
  BY <1>5, SumStep
<1>10. f[Pick(T)] = g[Pick(T)]
  BY <1>4, <1>6
<1> QED
  BY <1>4, <1>7, <1>8, <1>9, <1>10

(* Any element may be taken out first.                                       *)
LEMMA SumSplit ==
    ASSUME NEW f, NEW S, IsFiniteSet(S), \A x \in S : f[x] \in Int, NEW a \in S
    PROVE  SumFunctionOnSet(f, S) = f[a] + SumFunctionOnSet(f, S \ {a})
<1> DEFINE Bad(T) == \E x \in T : SumFunctionOnSet(f, T) # f[x] + SumFunctionOnSet(f, T \ {x})
           B == {T \in SUBSET S : Bad(T)}
<1>1. SUFFICES ASSUME B # {} PROVE FALSE
  BY DEF B
<1>2. B \in SUBSET (SUBSET S)
  OBVIOUS
<1> HIDE DEF B
<1>3. PICK T \in B : \A U \in SUBSET T : U \in B => U = T
  BY <1>1, <1>2, SmallestSet
<1>4. T \in SUBSET S /\ Bad(T)
  BY <1>3 DEF B
<1>5. PICK x \in T : SumFunctionOnSet(f, T) # f[x] + SumFunctionOnSet(f, T \ {x})
  BY <1>4
<1> DEFINE p == Pick(T)
<1>6. p \in T /\ IsFiniteSet(T)
  BY <1>4, <1>5, PickIn, FS_Subset
<1>7. SumFunctionOnSet(f, T) = f[p] + SumFunctionOnSet(f, T \ {p})
  BY <1>5, <1>6, SumStep
<1> HIDE DEF p
<1>8. p # x
  BY <1>5, <1>7
<1>9. ASSUME NEW U \in SUBSET T, U # T, NEW y \in U
      PROVE  SumFunctionOnSet(f, U) = f[y] + SumFunctionOnSet(f, U \ {y})
  BY <1>3, <1>4, <1>9 DEF B
<1>10. SumFunctionOnSet(f, T \ {p}) = f[x] + SumFunctionOnSet(f, (T \ {p}) \ {x})
  BY <1>5, <1>6, <1>8, <1>9
<1>11. SumFunctionOnSet(f, T \ {x}) = f[p] + SumFunctionOnSet(f, (T \ {x}) \ {p})
  BY <1>5, <1>6, <1>8, <1>9
<1>12. (T \ {x}) \ {p} = (T \ {p}) \ {x}
  OBVIOUS
<1>13. f[x] \in Int /\ f[p] \in Int
  BY <1>4, <1>5, <1>6
<1>14. SumFunctionOnSet(f, (T \ {p}) \ {x}) \in Int
  <2>1. (T \ {p}) \ {x} \in SUBSET T /\ (T \ {p}) \ {x} \in SUBSET S
    BY <1>4
  <2>2. IsFiniteSet((T \ {p}) \ {x})
    BY <1>6, <2>1, FS_Subset
  <2> QED
    BY <2>1, <2>2, SumInt
<1>15. SumFunctionOnSet(f, T \ {x}) = f[p] + SumFunctionOnSet(f, (T \ {p}) \ {x})
  BY <1>11, <1>12, Zenon
<1> DEFINE rest == SumFunctionOnSet(f, (T \ {p}) \ {x})
           noP == SumFunctionOnSet(f, T \ {p})
           noX == SumFunctionOnSet(f, T \ {x})
           all == SumFunctionOnSet(f, T)
<1>16. /\ rest \in Int /\ noP = f[x] + rest /\ noX = f[p] + rest
       /\ all = f[p] + noP /\ all # f[x] + noX
  BY <1>5, <1>7, <1>10, <1>14, <1>15, Zenon
<1> HIDE DEF rest, noP, noX, all
<1> QED
  BY <1>13, <1>16

(* A new element adds its term. *)
LEMMA SumAdd ==
    ASSUME NEW f, NEW S, IsFiniteSet(S), NEW a, a \notin S,
           \A x \in S \cup {a} : f[x] \in Int
    PROVE  SumFunctionOnSet(f, S \cup {a}) = SumFunctionOnSet(f, S) + f[a]
<1>1. IsFiniteSet(S \cup {a}) /\ (S \cup {a}) \ {a} = S /\ a \in S \cup {a}
  BY FS_AddElement
<1> DEFINE T == S \cup {a}
<1> HIDE DEF T
<1>2. SumFunctionOnSet(f, T) = f[a] + SumFunctionOnSet(f, T \ {a})
  BY <1>1, SumSplit DEF T
<1>3. SumFunctionOnSet(f, S) \in Int /\ f[a] \in Int
  BY SumInt
<1>4. SumFunctionOnSet(f, T) = f[a] + SumFunctionOnSet(f, S)
  BY <1>1, <1>2, Zenon DEF T
<1>5. SumFunctionOnSet(f, T) = SumFunctionOnSet(f, S) + f[a]
  BY <1>3, <1>4
<1> QED
  BY <1>5 DEF T

(* One more element, the other terms as they were. *)
LEMMA SumGrows ==
    ASSUME NEW f, NEW g, NEW S, IsFiniteSet(S), NEW a, a \notin S,
           \A x \in S : f[x] \in Int /\ g[x] = f[x], g[a] \in Int
    PROVE  /\ SumFunctionOnSet(g, S \cup {a}) = SumFunctionOnSet(f, S) + g[a]
           /\ SumFunctionOnSet(f, S) \in Int /\ IsFiniteSet(S \cup {a})
<1>1. SumFunctionOnSet(g, S) = SumFunctionOnSet(f, S)
  BY SumSame
<1>2. \A x \in S \cup {a} : g[x] \in Int
  OBVIOUS
<1>3. SumFunctionOnSet(g, S \cup {a}) = SumFunctionOnSet(g, S) + g[a]
  BY <1>2, SumAdd
<1>4. SumFunctionOnSet(f, S) \in Int
  BY SumInt
<1> QED
  BY <1>1, <1>3, <1>4, FS_AddElement

(* One term changes. *)
LEMMA SumChanges ==
    ASSUME NEW f, NEW g, NEW S, IsFiniteSet(S), NEW a, a \in S,
           \A x \in S : f[x] \in Int, \A x \in S \ {a} : g[x] = f[x], g[a] \in Int
    PROVE  /\ SumFunctionOnSet(g, S) = SumFunctionOnSet(f, S) - f[a] + g[a]
           /\ SumFunctionOnSet(f, S) \in Int
<1> DEFINE R == S \ {a}
<1>1. IsFiniteSet(R) /\ \A x \in R : g[x] = f[x] /\ f[x] \in Int
  BY FS_RemoveElement
<1>2. SumFunctionOnSet(f, S) = f[a] + SumFunctionOnSet(f, R)
  BY SumSplit
<1>3. \A x \in S : g[x] \in Int
  OBVIOUS
<1>4. SumFunctionOnSet(g, S) = g[a] + SumFunctionOnSet(g, R)
  BY <1>3, SumSplit
<1>5. f[a] \in Int
  OBVIOUS
<1> HIDE DEF R
<1>6. /\ SumFunctionOnSet(g, R) = SumFunctionOnSet(f, R)
      /\ SumFunctionOnSet(f, R) \in Int
  BY <1>1, SumSame, SumInt
<1> QED
  BY <1>2, <1>4, <1>5, <1>6

(* Nothing but zeros. *)
LEMMA SumOfZeros ==
    ASSUME NEW f, NEW S, IsFiniteSet(S), \A x \in S : f[x] = 0
    PROVE  SumFunctionOnSet(f, S) = 0
<1> DEFINE B == {T \in SUBSET S : SumFunctionOnSet(f, T) # 0}
<1>1. SUFFICES ASSUME B # {} PROVE FALSE
  BY DEF B
<1>2. B \in SUBSET (SUBSET S)
  OBVIOUS
<1> HIDE DEF B
<1>3. PICK T \in B : \A U \in SUBSET T : U \in B => U = T
  BY <1>1, <1>2, SmallestSet
<1>4. T \in SUBSET S /\ SumFunctionOnSet(f, T) # 0
  BY <1>3 DEF B
<1>5. IsFiniteSet(T) /\ T # {}
  <2>1. SumFunctionOnSet(f, {}) = 0
    BY SumEmpty
  <2> QED
    BY <1>4, <2>1, FS_Subset
<1>6. Pick(T) \in T
  BY <1>5, PickIn
<1>7. SumFunctionOnSet(f, T \ {Pick(T)}) = 0
  BY <1>3, <1>4, <1>6 DEF B
<1>8. SumFunctionOnSet(f, T) = f[Pick(T)] + SumFunctionOnSet(f, T \ {Pick(T)})
  BY <1>5, SumStep
<1> QED
  BY <1>4, <1>6, <1>7, <1>8

(* Products of naturals. *)
LEMMA Products ==
    /\ \A a, b \in Nat : a * b \in Nat
    /\ \A c, a, b \in Nat : a <= b => c * a <= c * b
    /\ \A c, a \in Nat : c * (a + 1) = c * a + c /\ c * 0 = 0
<1>1. \A a, b \in Nat : a * b \in Nat
  OBVIOUS
<1>2. ASSUME NEW c \in Nat, NEW a \in Nat, NEW b \in Nat, a <= b
      PROVE  c * a <= c * b
  <2>1. PICK d \in Nat : b = a + d
    <3>1. b - a \in Nat /\ b = a + (b - a)
      BY <1>2
    <3> QED
      BY <3>1
  <2>2. c * (a + d) = c * a + c * d
    OBVIOUS
  <2> QED
    BY <1>1, <2>1, <2>2
<1>3. \A c, a \in Nat : c * (a + 1) = c * a + c /\ c * 0 = 0
  OBVIOUS
<1> QED
  BY <1>1, <1>2, <1>3

(* A sum of terms of at most c. *)
LEMMA SumBounded ==
    ASSUME NEW f, NEW S, IsFiniteSet(S), NEW c \in Nat,
           \A x \in S : f[x] \in Int /\ f[x] <= c
    PROVE  SumFunctionOnSet(f, S) <= c * Cardinality(S)
<1> DEFINE B == {T \in SUBSET S : ~(SumFunctionOnSet(f, T) <= c * Cardinality(T))}
<1>1. SUFFICES ASSUME B # {} PROVE FALSE
  BY DEF B
<1>2. B \in SUBSET (SUBSET S)
  OBVIOUS
<1> HIDE DEF B
<1>3. PICK T \in B : \A U \in SUBSET T : U \in B => U = T
  BY <1>1, <1>2, SmallestSet
<1>4. T \in SUBSET S /\ ~(SumFunctionOnSet(f, T) <= c * Cardinality(T))
  BY <1>3 DEF B
<1>5. IsFiniteSet(T) /\ T # {}
  <2>1. SumFunctionOnSet(f, {}) = 0 /\ Cardinality({}) = 0
    BY SumEmpty, FS_EmptySet
  <2>2. T = {} => SumFunctionOnSet(f, T) = 0 /\ Cardinality(T) = 0
    BY <2>1
  <2> QED
    BY <1>4, <2>2, FS_Subset, Products
<1>6. Pick(T) \in T
  BY <1>5, PickIn
<1> DEFINE R == T \ {Pick(T)}
<1>7. R \subseteq S /\ R \subseteq T /\ R # T
  BY <1>4, <1>6
<1>8. /\ IsFiniteSet(R) /\ Cardinality(R) \in Nat
      /\ Cardinality(T) = Cardinality(R) + 1
  <2>1. IsFiniteSet(R) /\ Cardinality(R) = Cardinality(T) - 1
    BY <1>5, <1>6, FS_RemoveElement
  <2>2. Cardinality(R) \in Nat /\ Cardinality(T) \in Nat
    BY <1>5, <2>1, FS_CardinalityType
  <2> QED
    BY ONLY <2>1, <2>2
<1>9. SumFunctionOnSet(f, T) = f[Pick(T)] + SumFunctionOnSet(f, R)
  BY <1>5, SumStep
<1> HIDE DEF R
<1>10. SumFunctionOnSet(f, R) <= c * Cardinality(R)
  BY <1>3, <1>7 DEF B
<1>11. SumFunctionOnSet(f, R) \in Int
  BY <1>7, <1>8, SumInt
<1>12. f[Pick(T)] \in Int /\ f[Pick(T)] <= c
  BY <1>4, <1>6
<1>13. c * Cardinality(T) = c * Cardinality(R) + c /\ c * Cardinality(R) \in Nat
  BY <1>8, Products
<1> QED
  BY ONLY <1>4, <1>9, <1>10, <1>11, <1>12, <1>13, c \in Nat

(* The sum of the values of a function, as a component writes it. *)
FunctionFold(f, S) == MapThenSumSet(LAMBDA i : f[i], S)

LEMMA FoldOfFunction ==
    ASSUME NEW f, NEW S
    PROVE  FunctionFold(f, S) = SumFunctionOnSet(f, S)
<1>1. FunctionFold(f, S) = Chosen(f, S)[S]
  BY DEF FunctionFold, MapThenSumSet, MapThenFoldSet, Pick, Chosen, Adds
<1> QED
  BY <1>1, SumIsChosen

-----------------------------------------------------------------------------
(* Sums of a field of documents.                                              *)

(* The sum of a field k of the documents s[i], as the books write it and as   *)
(* the theorems on sums speak of it.                                          *)
FieldFold(s, k, S) == MapThenSumSet(LAMBDA i : s[i][k], S)
FieldSum(s, k, S)  == SumFunctionOnSet([i \in S |-> s[i][k]], S)

(* They are the same sum. *)
LEMMA FoldOfField ==
    ASSUME NEW s, NEW k, NEW S, IsFiniteSet(S)
    PROVE  FieldFold(s, k, S) = FieldSum(s, k, S)
<1> DEFINE f == [i \in S |-> s[i][k]]
           Solves(g) == g = [T \in SUBSET S |->
                               IF T = {} THEN 0 ELSE s[Pick(T)][k] + g[T \ {Pick(T)}]]
           h == CHOOSE g : Solves(g)
<1>1. FieldFold(s, k, S) = h[S]
  BY DEF FieldFold, MapThenSumSet, MapThenFoldSet, Pick
<1>2. ASSUME NEW g PROVE Solves(g) <=> Adds(f, g, S)
  <2>1. \A T \in SUBSET S : T # {} => f[Pick(T)] = s[Pick(T)][k]
    BY PickIn
  <2> HIDE DEF f
  <2> DEFINE a == [T \in SUBSET S |->
                     IF T = {} THEN 0 ELSE s[Pick(T)][k] + g[T \ {Pick(T)}]]
             b == [T \in SUBSET S |->
                     IF T = {} THEN 0 ELSE f[Pick(T)] + g[T \ {Pick(T)}]]
  <2>2. a = b
    BY <2>1
  <2>3. (Solves(g) <=> g = a) /\ (Adds(f, g, S) <=> g = b)
    BY DEF Adds
  <2> QED
    BY <2>2, <2>3
<1> HIDE DEF f, Solves
<1>3. Solves(h)
  BY <1>2, AddsExists
<1> HIDE DEF h
<1>4. Adds(f, h, S) /\ Adds(f, Chosen(f, S), S)
  BY <1>2, <1>3, AddsExists DEF Chosen
<1>5. h[S] = Chosen(f, S)[S]
  BY <1>4, AddsAgree
<1> QED
  BY <1>1, <1>5, SumIsChosen DEF f, FieldSum

(* A document joins the sum. *)
LEMMA FieldGrows ==
    ASSUME NEW s, NEW u, NEW k, NEW S, IsFiniteSet(S), NEW a, a \notin S,
           \A x \in S : s[x][k] \in Int /\ u[x][k] = s[x][k], u[a][k] \in Int
    PROVE  /\ FieldSum(u, k, S \cup {a}) = FieldSum(s, k, S) + u[a][k]
           /\ FieldSum(s, k, S) \in Int
<1> DEFINE f == [x \in S |-> s[x][k]]
           g == [x \in S \cup {a} |-> u[x][k]]
<1>1. /\ \A x \in S : f[x] \in Int /\ g[x] = f[x]
      /\ g[a] = u[a][k] /\ g[a] \in Int
  OBVIOUS
<1>2. FieldSum(s, k, S) = SumFunctionOnSet(f, S)
  BY DEF FieldSum
<1>3. FieldSum(u, k, S \cup {a}) = SumFunctionOnSet(g, S \cup {a})
  BY DEF FieldSum
<1> HIDE DEF f, g
<1>4. /\ SumFunctionOnSet(g, S \cup {a}) = SumFunctionOnSet(f, S) + g[a]
      /\ SumFunctionOnSet(f, S) \in Int
  BY <1>1, SumGrows
<1> QED
  BY <1>1, <1>2, <1>3, <1>4

(* One leaves it. *)
LEMMA FieldShrinks ==
    ASSUME NEW s, NEW u, NEW k, NEW S, IsFiniteSet(S), NEW a, a \in S,
           \A x \in S : s[x][k] \in Int, \A x \in S \ {a} : u[x][k] = s[x][k]
    PROVE  /\ FieldSum(u, k, S \ {a}) = FieldSum(s, k, S) - s[a][k]
           /\ FieldSum(s, k, S) \in Int
<1> DEFINE R == S \ {a}
<1>1. /\ IsFiniteSet(R) /\ a \notin R /\ R \cup {a} = S
      /\ \A x \in R : u[x][k] \in Int /\ s[x][k] = u[x][k]
      /\ s[a][k] \in Int
  BY FS_RemoveElement
<1> HIDE DEF R
<1>2. /\ FieldSum(s, k, R \cup {a}) = FieldSum(u, k, R) + s[a][k]
      /\ FieldSum(u, k, R) \in Int
  BY <1>1, FieldGrows
<1>3. FieldSum(s, k, S) = FieldSum(u, k, R) + s[a][k]
  BY <1>1, <1>2, Zenon
<1>4. /\ FieldSum(u, k, R) = FieldSum(s, k, S) - s[a][k]
      /\ FieldSum(s, k, S) \in Int
  <2>1. s[a][k] \in Int /\ FieldSum(u, k, R) \in Int
    BY <1>1, <1>2
  <2> QED
    BY ONLY <1>3, <2>1
<1> QED
  BY <1>4 DEF R

(* The documents keep their field. *)
LEMMA FieldSame ==
    ASSUME NEW s, NEW u, NEW k, NEW S, IsFiniteSet(S),
           \A x \in S : s[x][k] \in Int /\ u[x][k] = s[x][k]
    PROVE  FieldSum(u, k, S) = FieldSum(s, k, S) /\ FieldSum(s, k, S) \in Int
<1> DEFINE f == [x \in S |-> s[x][k]]
           g == [x \in S |-> u[x][k]]
<1>1. \A x \in S : f[x] \in Int /\ g[x] = f[x]
  OBVIOUS
<1>2. FieldSum(s, k, S) = SumFunctionOnSet(f, S)
  BY DEF FieldSum
<1>3. FieldSum(u, k, S) = SumFunctionOnSet(g, S)
  BY DEF FieldSum
<1> HIDE DEF f, g
<1>4. /\ SumFunctionOnSet(g, S) = SumFunctionOnSet(f, S)
      /\ SumFunctionOnSet(f, S) \in Int
  BY <1>1, SumSame, SumInt
<1> QED
  BY <1>2, <1>3, <1>4

(* A sum of naturals is a natural. *)
LEMMA SumNat ==
    ASSUME NEW f, NEW S, IsFiniteSet(S), \A x \in S : f[x] \in Nat
    PROVE  SumFunctionOnSet(f, S) \in Nat
<1> DEFINE B == {T \in SUBSET S : SumFunctionOnSet(f, T) \notin Nat}
<1>1. SUFFICES ASSUME B # {} PROVE FALSE
  BY DEF B
<1>2. B \in SUBSET (SUBSET S)
  OBVIOUS
<1> HIDE DEF B
<1>3. PICK T \in B : \A U \in SUBSET T : U \in B => U = T
  BY <1>1, <1>2, SmallestSet
<1>4. T \in SUBSET S /\ SumFunctionOnSet(f, T) \notin Nat
  BY <1>3 DEF B
<1>5. IsFiniteSet(T) /\ T # {}
  <2>1. SumFunctionOnSet(f, {}) \in Nat
    BY SumEmpty
  <2> QED
    BY <1>4, <2>1, FS_Subset
<1>6. Pick(T) \in T
  BY <1>5, PickIn
<1>7. SumFunctionOnSet(f, T \ {Pick(T)}) \in Nat
  BY <1>3, <1>4, <1>6 DEF B
<1>8. SumFunctionOnSet(f, T) = f[Pick(T)] + SumFunctionOnSet(f, T \ {Pick(T)})
  BY <1>5, SumStep
<1>9. f[Pick(T)] \in Nat
  BY <1>4, <1>6
<1> QED
  BY <1>4, <1>7, <1>8, <1>9

=============================================================================
