----------------------------- MODULE Sums_proofs -----------------------------
(***************************************************************************)
(* What the sums of the community module Functions compute: the sum of the *)
(* values of a function over a finite set has a term for each element, in  *)
(* whatever order they are added.  The balances of the models are stated   *)
(* with such sums over operations, payments and sessions.                  *)
(*                                                                         *)
(* The sum is the recursive function of MapThenFoldSet.  Its recursion is  *)
(* over subsets, so each induction takes a smallest set that would be a    *)
(* counterexample (SmallestSet).                                           *)
(***************************************************************************)
EXTENDS Integers, Functions, FiniteSetTheorems, TLAPS

\* The element the fold takes first.
Pick(T) == CHOOSE x \in T : TRUE

\* g is a function on the subsets of S that adds up f the way the fold does.
Adds(f, S, g) ==
  g = [T \in SUBSET S |-> IF T = {} THEN 0 ELSE f[Pick(T)] + g[T \ {Pick(T)}]]

Adder(f, S) == CHOOSE g : Adds(f, S, g)

LEMMA SumDefinition ==
  ASSUME NEW f, NEW S
  PROVE  SumFunctionOnSet(f, S) = Adder(f, S)[S]
BY DEF SumFunctionOnSet, FoldFunctionOnSet, MapThenFoldSet, Adds, Adder, Pick

\* Sets of subsets of a finite set have smallest members.
LEMMA SmallestSet ==
  ASSUME NEW S, IsFiniteSet(S), NEW B, B \subseteq SUBSET S, B # {}
  PROVE  \E T \in B : \A U \in B : ~(U \subseteq T /\ U # T)
<1>1. B \subseteq FiniteSubsetsOf(S)
  BY FS_Subset DEF FiniteSubsetsOf
<1>2. IsWellFoundedOn(StrictSubsetOrdering(S), FiniteSubsetsOf(S))
  BY FS_StrictSubsetOrderingWellFounded
<1>3. \E T \in B : \A U \in B : <<U, T>> \notin StrictSubsetOrdering(S)
  BY <1>1, <1>2, WFMin
<1> QED
  BY <1>1, <1>3 DEF StrictSubsetOrdering, FiniteSubsetsOf

LEMMA PickElement ==
  ASSUME NEW T, T # {}
  PROVE  Pick(T) \in T
BY DEF Pick

\* Two such functions agree where both are defined.
LEMMA AddsAgree ==
  ASSUME NEW f, NEW S, NEW T, NEW g, NEW h, Adds(f, S, g), Adds(f, T, h),
         NEW W, IsFiniteSet(W), W \subseteq S, W \subseteq T
  PROVE  g[W] = h[W]
<1> DEFINE B == {U \in SUBSET W : g[U] # h[U]}
<1> SUFFICES ASSUME B # {} PROVE FALSE
  OBVIOUS
<1>1. PICK U \in B : \A V \in B : ~(V \subseteq U /\ V # U)
  <2>1. B \subseteq SUBSET W
    OBVIOUS
  <2> HIDE DEF B
  <2> QED
    BY <2>1, SmallestSet
<1>2. U \in SUBSET S /\ U \in SUBSET T
  OBVIOUS
<1>3. /\ g[U] = IF U = {} THEN 0 ELSE f[Pick(U)] + g[U \ {Pick(U)}]
      /\ h[U] = IF U = {} THEN 0 ELSE f[Pick(U)] + h[U \ {Pick(U)}]
  BY <1>2 DEF Adds
<1>4. CASE U = {}
  BY <1>3, <1>4
<1>5. CASE U # {}
  <2>1. Pick(U) \in U
    BY <1>5, PickElement
  <2>2. U \ {Pick(U)} \notin B
    BY <1>1, <2>1
  <2>3. g[U \ {Pick(U)}] = h[U \ {Pick(U)}]
    BY <2>2
  <2> QED
    BY <1>3, <1>5, <2>3
<1> QED
  BY <1>4, <1>5

\* There is such a function for every finite set.
LEMMA AdderExists ==
  ASSUME NEW f, NEW S, IsFiniteSet(S)
  PROVE  Adds(f, S, Adder(f, S))
<1> DEFINE B == {T \in SUBSET S : ~Adds(f, T, Adder(f, T))}
<1> SUFFICES ASSUME B # {} PROVE FALSE
  OBVIOUS
<1>1. PICK T \in B : \A U \in B : ~(U \subseteq T /\ U # T)
  <2>1. B \subseteq SUBSET S
    OBVIOUS
  <2> HIDE DEF B
  <2> QED
    BY <2>1, SmallestSet
<1>2. \A U \in SUBSET T : U # T => Adds(f, U, Adder(f, U))
  BY <1>1
<1>3. \A U \in SUBSET T : IsFiniteSet(U)
  BY <1>1, FS_Subset
<1> DEFINE value(U) == Adder(f, U)[U]
           g == [U \in SUBSET T |->
                   IF U = {} THEN 0 ELSE f[Pick(U)] + value(U \ {Pick(U)})]
<1>4. ASSUME NEW U \in SUBSET T, U # T
      PROVE  g[U] = value(U)
  <2>1. Adds(f, U, Adder(f, U))
    BY <1>2, <1>4
  <2>2. value(U) = IF U = {} THEN 0 ELSE f[Pick(U)] + Adder(f, U)[U \ {Pick(U)}]
    BY <2>1 DEF Adds
  <2>3. CASE U = {}
    BY <2>2, <2>3
  <2>4. CASE U # {}
    <3> DEFINE V == U \ {Pick(U)}
    <3>1. V \in SUBSET T /\ V # T /\ V \subseteq U
      BY <2>4, PickElement
    <3>2. Adds(f, V, Adder(f, V)) /\ IsFiniteSet(V)
      BY <1>2, <1>3, <3>1
    <3>3. value(V) = Adder(f, U)[V]
      BY <2>1, <3>1, <3>2, AddsAgree
    <3> QED
      BY <2>2, <2>4, <3>3
  <2> QED
    BY <2>3, <2>4
<1>5. ASSUME NEW U \in SUBSET T, U # {}
      PROVE  g[U] = f[Pick(U)] + g[U \ {Pick(U)}]
  <2>1. U \ {Pick(U)} \in SUBSET T /\ U \ {Pick(U)} # T
    BY <1>5, PickElement
  <2> QED
    BY <1>4, <1>5, <2>1
<1>6. Adds(f, T, g)
  <2>1. \A U \in SUBSET T : g[U] = IF U = {} THEN 0 ELSE f[Pick(U)] + g[U \ {Pick(U)}]
    BY <1>5
  <2>2. g = [U \in SUBSET T |-> g[U]]
    OBVIOUS
  <2> HIDE DEF g
  <2> QED
    BY <2>1, <2>2 DEF Adds
<1>7. Adds(f, T, Adder(f, T))
  BY <1>6 DEF Adder
<1> QED
  BY <1>1, <1>7

-------------------------------------------------------------------------------

LEMMA SumOfNone ==
  ASSUME NEW f
  PROVE  SumFunctionOnSet(f, {}) = 0
<1>1. Adds(f, {}, Adder(f, {}))
  BY AdderExists, FS_EmptySet
<1> QED
  BY <1>1, SumDefinition DEF Adds

LEMMA SumPicks ==
  ASSUME NEW f, NEW S, IsFiniteSet(S), S # {}
  PROVE  SumFunctionOnSet(f, S) = f[Pick(S)] + SumFunctionOnSet(f, S \ {Pick(S)})
<1> DEFINE R == S \ {Pick(S)}
<1>1. IsFiniteSet(R) /\ R \subseteq S
  BY FS_Subset
<1>2. Adds(f, S, Adder(f, S)) /\ Adds(f, R, Adder(f, R))
  BY <1>1, AdderExists
<1>3. Adder(f, S)[S] = f[Pick(S)] + Adder(f, S)[R]
  BY <1>2 DEF Adds
<1>4. Adder(f, S)[R] = Adder(f, R)[R]
  BY <1>1, <1>2, AddsAgree
<1> QED
  BY <1>3, <1>4, SumDefinition

\* A sum of integers is one.
LEMMA SumIsInt ==
  ASSUME NEW f, NEW S, IsFiniteSet(S), \A x \in S : f[x] \in Int
  PROVE  SumFunctionOnSet(f, S) \in Int
<1> DEFINE B == {T \in SUBSET S : SumFunctionOnSet(f, T) \notin Int}
<1> SUFFICES ASSUME B # {} PROVE FALSE
  OBVIOUS
<1>1. PICK T \in B : \A U \in B : ~(U \subseteq T /\ U # T)
  <2>1. B \subseteq SUBSET S
    OBVIOUS
  <2> HIDE DEF B
  <2> QED
    BY <2>1, SmallestSet
<1>2. T # {}
  <2>1. SumFunctionOnSet(f, T) \notin Int
    BY <1>1
  <2>2. T = {} => SumFunctionOnSet(f, T) = 0
    BY SumOfNone
  <2> QED
    BY <2>1, <2>2
<1>3. Pick(T) \in T /\ IsFiniteSet(T)
  BY <1>2, PickElement, FS_Subset
<1>4. SumFunctionOnSet(f, T \ {Pick(T)}) \in Int
  BY <1>1, <1>3
<1>5. SumFunctionOnSet(f, T) = f[Pick(T)] + SumFunctionOnSet(f, T \ {Pick(T)})
  BY <1>2, <1>3, SumPicks
<1> QED
  BY <1>1, <1>3, <1>4, <1>5

\* Whichever element is taken out, its term is.
LEMMA SumWithout ==
  ASSUME NEW f, NEW S, IsFiniteSet(S), \A x \in S : f[x] \in Int, NEW e \in S
  PROVE  SumFunctionOnSet(f, S) = f[e] + SumFunctionOnSet(f, S \ {e})
<1> DEFINE sum(T) == SumFunctionOnSet(f, T)
           B == {T \in SUBSET S : \E x \in T : sum(T) # f[x] + sum(T \ {x})}
<1> SUFFICES ASSUME B # {} PROVE FALSE
  OBVIOUS
<1>1. PICK T \in B : \A U \in B : ~(U \subseteq T /\ U # T)
  <2>1. B \subseteq SUBSET S
    OBVIOUS
  <2> HIDE DEF B
  <2> QED
    BY <2>1, SmallestSet
<1>2. PICK x \in T : sum(T) # f[x] + sum(T \ {x})
  BY <1>1
<1> DEFINE y == Pick(T)
           R == T \ {x, y}
<1>3. \A U \in SUBSET S : IsFiniteSet(U) /\ sum(U) \in Int
  BY FS_Subset, SumIsInt
<1>4. y \in T /\ sum(T) = f[y] + sum(T \ {y})
  BY <1>3, PickElement, SumPicks
<1>5. x # y
  BY <1>2, <1>4
<1>6. T \ {x} \notin B /\ T \ {y} \notin B /\ T \ {x} \in SUBSET S /\ T \ {y} \in SUBSET S
  BY <1>1, <1>4
<1>7. (T \ {x}) \ {y} = R /\ (T \ {y}) \ {x} = R /\ R \in SUBSET S
      /\ y \in T \ {x} /\ x \in T \ {y}
  BY <1>4, <1>5
<1> HIDE DEF sum, y, R
<1>8. sum(T \ {x}) = f[y] + sum(R) /\ sum(T \ {y}) = f[x] + sum(R)
  BY <1>6, <1>7
<1>9. f[x] \in Int /\ f[y] \in Int /\ sum(R) \in Int
  BY <1>3, <1>4, <1>7
<1> QED
  BY <1>2, <1>4, <1>8, <1>9

LEMMA SumWith ==
  ASSUME NEW f, NEW S, IsFiniteSet(S), \A x \in S : f[x] \in Int, NEW e, e \notin S, f[e] \in Int
  PROVE  SumFunctionOnSet(f, S \cup {e}) = f[e] + SumFunctionOnSet(f, S)
<1>1. (S \cup {e}) \ {e} = S /\ IsFiniteSet(S \cup {e})
  BY FS_AddElement
<1> QED
  BY <1>1, SumWithout

\* A sum depends on the values over the set, and on nothing else.
LEMMA SumOfSame ==
  ASSUME NEW f, NEW g, NEW S, IsFiniteSet(S), \A x \in S : f[x] = g[x]
  PROVE  SumFunctionOnSet(f, S) = SumFunctionOnSet(g, S)
<1> DEFINE B == {T \in SUBSET S : SumFunctionOnSet(f, T) # SumFunctionOnSet(g, T)}
<1> SUFFICES ASSUME B # {} PROVE FALSE
  OBVIOUS
<1>1. PICK T \in B : \A U \in B : ~(U \subseteq T /\ U # T)
  <2>1. B \subseteq SUBSET S
    OBVIOUS
  <2> HIDE DEF B
  <2> QED
    BY <2>1, SmallestSet
<1>2. T # {}
  BY <1>1, SumOfNone
<1>3. Pick(T) \in T /\ IsFiniteSet(T)
  BY <1>2, PickElement, FS_Subset
<1>4. SumFunctionOnSet(f, T \ {Pick(T)}) = SumFunctionOnSet(g, T \ {Pick(T)})
  BY <1>1, <1>3
<1>5. /\ SumFunctionOnSet(f, T) = f[Pick(T)] + SumFunctionOnSet(f, T \ {Pick(T)})
      /\ SumFunctionOnSet(g, T) = g[Pick(T)] + SumFunctionOnSet(g, T \ {Pick(T)})
  BY <1>2, <1>3, SumPicks
<1> QED
  BY <1>1, <1>3, <1>4, <1>5

\* The sum over a set that gains or loses one element, or neither.
LEMMA SumMoves ==
  ASSUME NEW f, NEW S, NEW T, IsFiniteSet(S), NEW e, S \ {e} = T \ {e},
         \A x \in S \cup T : f[x] \in Int
  PROVE  /\ SumFunctionOnSet(f, S) \in Int
         /\ SumFunctionOnSet(f, T) = SumFunctionOnSet(f, S) + (IF e \in T THEN f[e] ELSE 0)
                                       - (IF e \in S THEN f[e] ELSE 0)
<1> DEFINE R == S \ {e}
<1>1. IsFiniteSet(R) /\ SumFunctionOnSet(f, R) \in Int /\ SumFunctionOnSet(f, S) \in Int
  BY FS_Subset, SumIsInt
<1>2. T \subseteq R \cup {e} /\ IsFiniteSet(T)
  BY <1>1, FS_AddElement, FS_Subset
<1>3. e \notin S => R = S
  OBVIOUS
<1>4. e \notin T => R = T
  OBVIOUS
<1>5. T \ {e} = R
  OBVIOUS
<1> HIDE DEF R
<1>6. SumFunctionOnSet(f, S) = SumFunctionOnSet(f, R) + (IF e \in S THEN f[e] ELSE 0)
  <2>1. CASE e \in S
    <3>1. SumFunctionOnSet(f, S) = f[e] + SumFunctionOnSet(f, S \ {e})
      BY <2>1, SumWithout
    <3> QED
      BY <1>1, <2>1, <3>1 DEF R
  <2> QED
    BY <1>1, <1>3, <2>1
<1>7. SumFunctionOnSet(f, T) = SumFunctionOnSet(f, R) + (IF e \in T THEN f[e] ELSE 0)
  <2>1. CASE e \in T
    <3>1. SumFunctionOnSet(f, T) = f[e] + SumFunctionOnSet(f, T \ {e})
      BY <1>2, <2>1, SumWithout
    <3>2. SumFunctionOnSet(f, T) = f[e] + SumFunctionOnSet(f, R)
      BY <1>5, <3>1, Zenon
    <3>3. f[e] \in Int
      BY <2>1
    <3> QED
      BY <1>1, <2>1, <3>2, <3>3
  <2> QED
    BY <1>1, <1>4, <2>1
<1> QED
  BY <1>1, <1>6, <1>7

\* The sum of a function one of whose values changes.
LEMMA SumChanges ==
  ASSUME NEW f, NEW g, NEW S, IsFiniteSet(S), NEW e \in S,
         \A x \in S : f[x] \in Int /\ g[x] \in Int,
         \A x \in S \ {e} : g[x] = f[x]
  PROVE  /\ SumFunctionOnSet(f, S) \in Int
         /\ SumFunctionOnSet(g, S) = SumFunctionOnSet(f, S) + g[e] - f[e]
<1> DEFINE R == S \ {e}
<1>1. IsFiniteSet(R) /\ SumFunctionOnSet(f, R) \in Int /\ SumFunctionOnSet(f, S) \in Int
  BY FS_Subset, SumIsInt
<1>2. SumFunctionOnSet(f, R) = SumFunctionOnSet(g, R)
  BY <1>1, SumOfSame
<1>3. SumFunctionOnSet(f, S) = f[e] + SumFunctionOnSet(f, R)
  BY SumWithout
<1>4. SumFunctionOnSet(g, S) = g[e] + SumFunctionOnSet(g, R)
  BY SumWithout
<1>5. f[e] \in Int /\ g[e] \in Int
  OBVIOUS
<1> HIDE DEF R
<1> QED
  BY <1>1, <1>2, <1>3, <1>4, <1>5

LEMMA SumOfZeros ==
  ASSUME NEW f, NEW S, IsFiniteSet(S), \A x \in S : f[x] = 0
  PROVE  SumFunctionOnSet(f, S) = 0
<1> DEFINE B == {T \in SUBSET S : SumFunctionOnSet(f, T) # 0}
<1> SUFFICES ASSUME B # {} PROVE FALSE
  OBVIOUS
<1>1. PICK T \in B : \A U \in B : ~(U \subseteq T /\ U # T)
  <2>1. B \subseteq SUBSET S
    OBVIOUS
  <2> HIDE DEF B
  <2> QED
    BY <2>1, SmallestSet
<1>2. T # {}
  BY <1>1, SumOfNone
<1>3. Pick(T) \in T /\ IsFiniteSet(T)
  BY <1>2, PickElement, FS_Subset
<1>4. SumFunctionOnSet(f, T \ {Pick(T)}) = 0
  BY <1>1, <1>3
<1>5. SumFunctionOnSet(f, T) = f[Pick(T)] + SumFunctionOnSet(f, T \ {Pick(T)})
  BY <1>2, <1>3, SumPicks
<1> QED
  BY <1>1, <1>3, <1>4, <1>5

\* A sum of amounts is one.
LEMMA SumIsNat ==
  ASSUME NEW f, NEW S, IsFiniteSet(S), \A x \in S : f[x] \in Nat
  PROVE  SumFunctionOnSet(f, S) \in Nat
<1> DEFINE B == {T \in SUBSET S : SumFunctionOnSet(f, T) \notin Nat}
<1> SUFFICES ASSUME B # {} PROVE FALSE
  OBVIOUS
<1>1. PICK T \in B : \A U \in B : ~(U \subseteq T /\ U # T)
  <2>1. B \subseteq SUBSET S
    OBVIOUS
  <2> HIDE DEF B
  <2> QED
    BY <2>1, SmallestSet
<1>2. T # {}
  <2>1. SumFunctionOnSet(f, T) \notin Nat
    BY <1>1
  <2>2. T = {} => SumFunctionOnSet(f, T) = 0
    BY SumOfNone
  <2> QED
    BY <2>1, <2>2
<1>3. Pick(T) \in T /\ IsFiniteSet(T)
  BY <1>2, PickElement, FS_Subset
<1>4. SumFunctionOnSet(f, T \ {Pick(T)}) \in Nat
  BY <1>1, <1>3
<1>5. SumFunctionOnSet(f, T) = f[Pick(T)] + SumFunctionOnSet(f, T \ {Pick(T)})
  BY <1>2, <1>3, SumPicks
<1> QED
  BY <1>1, <1>3, <1>4, <1>5

===============================================================================
