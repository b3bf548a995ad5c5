------------------------------ MODULE SumTheorems ------------------------------
(***************************************************************************)
(* Facts about the sums of the community modules, MapThenSumSet and        *)
(* FoldFunctionOnSet with +, over finite sets.  Both pick the elements of  *)
(* the set one after the other and sum up along a function on its subsets, *)
(* whose existence has to be shown first.  The induction theorems of the   *)
(* library have an operator as a parameter; here a least counterexample    *)
(* takes the place of each induction.                                      *)
(***************************************************************************)
EXTENDS Integers, FiniteSetsExt, Functions, FiniteSetTheorems,
        WellFoundedInduction, TLAPS

Pick(s) == CHOOSE x \in s : TRUE

(* it gives every subset of S the sum of f over it.                        *)
Adds(it, f, S) ==
  it = [s \in SUBSET S |->
          IF s = {} THEN 0 ELSE f[Pick(s)] + it[s \ {Pick(s)}]]

SumOver(f, S) == (CHOOSE it : Adds(it, f, S))[S]

(* The sums of the community modules are such sums.                        *)
LEMMA FoldIsSum ==
  ASSUME NEW S, NEW f
  PROVE  /\ FoldFunctionOnSet(+, 0, f, S) = SumOver(f, S)
         /\ MapThenSumSet(LAMBDA x : f[x], S) = SumOver(f, S)
  BY DEF FoldFunctionOnSet, MapThenSumSet, MapThenFoldSet, SumOver, Adds, Pick

LEMMA PickIn == ASSUME NEW s, s # {} PROVE Pick(s) \in s
  BY DEF Pick

-----------------------------------------------------------------------------
(* Least counterexamples.                                                  *)

LEMMA LeastNatural ==
  ASSUME NEW T, T \subseteq Nat, T # {}
  PROVE  \E n \in T : \A m \in T : ~(m < n)
  <1>1. \E n \in T : \A m \in T : <<m, n>> \notin OpToRel(<, Nat)
    BY NatLessThanWellFounded, WFMin
  <1>. QED
    BY <1>1 DEF OpToRel

LEMMA LeastSubset ==
  ASSUME NEW S, IsFiniteSet(S), NEW T, T \subseteq SUBSET S, T # {}
  PROVE  \E s \in T : \A t \in T : ~(t \subseteq s /\ t # s)
  <1>1. T \subseteq FiniteSubsetsOf(S)
    BY FS_Subset DEF FiniteSubsetsOf
  <1>2. \E s \in T : \A t \in T : <<t, s>> \notin StrictSubsetOrdering(S)
    BY <1>1, FS_StrictSubsetOrderingWellFounded, WFMin
  <1>. QED
    BY <1>2 DEF StrictSubsetOrdering

-----------------------------------------------------------------------------
(* The sums of a finite set exist.                                         *)

Small(S, n) == {s \in SUBSET S : Cardinality(s) <= n}

AddsSmall(it, f, S, n) ==
  it = [s \in Small(S, n) |->
          IF s = {} THEN 0 ELSE f[Pick(s)] + it[s \ {Pick(s)}]]

LEMMA SmallerWithoutPick ==
  ASSUME NEW S, IsFiniteSet(S), NEW n \in Nat, NEW s \in Small(S, n + 1), s # {}
  PROVE  s \ {Pick(s)} \in Small(S, n)
  <1>1. Pick(s) \in s /\ s \in SUBSET S /\ IsFiniteSet(s)
    BY PickIn, FS_Subset DEF Small
  <1>2. /\ Cardinality(s) \in Nat /\ Cardinality(s \ {Pick(s)}) \in Nat
        /\ Cardinality(s \ {Pick(s)}) = Cardinality(s) - 1
    BY <1>1, FS_RemoveElement, FS_CardinalityType
  <1>. QED
    BY <1>1, <1>2 DEF Small

LEMMA NothingIsSmall ==
  ASSUME NEW S, IsFiniteSet(S)
  PROVE  Small(S, 0) = {{}}
  <1>1. ASSUME NEW s \in SUBSET S, Cardinality(s) <= 0 PROVE s = {}
    BY <1>1, FS_Subset, FS_CardinalityType, FS_EmptySet
  <1>. QED
    BY <1>1, FS_EmptySet DEF Small

LEMMA SmallGrows ==
  ASSUME NEW S, IsFiniteSet(S), NEW n \in Nat
  PROVE  Small(S, n) \subseteq Small(S, n + 1)
  <1>1. ASSUME NEW s \in SUBSET S PROVE Cardinality(s) \in Nat
    BY FS_Subset, FS_CardinalityType
  <1>. QED
    BY <1>1 DEF Small

LEMMA AddsSmallStep ==
  ASSUME NEW S, IsFiniteSet(S), NEW f, NEW n \in Nat, NEW it, AddsSmall(it, f, S, n)
  PROVE  \E jt : AddsSmall(jt, f, S, n + 1)
  <1>. DEFINE jt == [s \in Small(S, n + 1) |->
                       IF s = {} THEN 0 ELSE f[Pick(s)] + it[s \ {Pick(s)}]]
  <1>1. ASSUME NEW t \in Small(S, n) PROVE jt[t] = it[t]
    <2>1. it[t] = IF t = {} THEN 0 ELSE f[Pick(t)] + it[t \ {Pick(t)}]
      BY DEF AddsSmall
    <2>2. t \in Small(S, n + 1)
      BY SmallGrows
    <2>. QED
      BY <2>1, <2>2
  <1>2. \A s \in Small(S, n + 1) : s # {} => s \ {Pick(s)} \in Small(S, n)
    BY SmallerWithoutPick
  <1>3. \A s \in Small(S, n + 1) :
          jt[s] = IF s = {} THEN 0 ELSE f[Pick(s)] + jt[s \ {Pick(s)}]
    BY <1>1, <1>2
  <1>4. jt = [s \in Small(S, n + 1) |-> jt[s]]
    OBVIOUS
  <1>. HIDE DEF jt
  <1>5. jt = [s \in Small(S, n + 1) |->
                IF s = {} THEN 0 ELSE f[Pick(s)] + jt[s \ {Pick(s)}]]
    BY <1>3, <1>4
  <1>. QED
    BY <1>5 DEF AddsSmall

LEMMA AddsSmallExist ==
  ASSUME NEW S, IsFiniteSet(S), NEW f
  PROVE  \A n \in Nat : \E it : AddsSmall(it, f, S, n)
  <1>. DEFINE T == {n \in Nat : ~ \E it : AddsSmall(it, f, S, n)}
  <1>. SUFFICES ASSUME T # {} PROVE FALSE
    OBVIOUS
  <1>1. PICK n \in T : \A m \in T : ~(m < n)
    BY LeastNatural
  <1>2. CASE n = 0
    <2>1. AddsSmall([s \in {{}} |-> 0], f, S, 0)
      BY NothingIsSmall DEF AddsSmall
    <2>. QED
      BY <1>2, <2>1
  <1>3. CASE n # 0
    <2>1. n - 1 \in Nat /\ n - 1 \notin T
      BY <1>1, <1>3
    <2>2. PICK it : AddsSmall(it, f, S, n - 1)
      BY <2>1
    <2>3. (n - 1) + 1 = n
      BY <2>1
    <2>. QED
      BY <2>1, <2>2, <2>3, AddsSmallStep
  <1>. QED
    BY <1>2, <1>3

LEMMA AddsExist ==
  ASSUME NEW S, IsFiniteSet(S), NEW f
  PROVE  \E it : Adds(it, f, S)
  <1>1. Cardinality(S) \in Nat
    BY FS_CardinalityType
  <1>2. Small(S, Cardinality(S)) = SUBSET S
    BY FS_Subset DEF Small
  <1>3. PICK it : AddsSmall(it, f, S, Cardinality(S))
    BY <1>1, AddsSmallExist
  <1>4. Adds(it, f, S)
    BY <1>2, <1>3 DEF AddsSmall, Adds
  <1>. QED
    BY <1>4

(* A sum is the value of any function that adds up.                        *)
LEMMA AddsUnique ==
  ASSUME NEW S, IsFiniteSet(S), NEW f, NEW it, NEW jt, Adds(it, f, S), Adds(jt, f, S)
  PROVE  it[S] = jt[S]
  <1>. DEFINE T == {s \in SUBSET S : it[s] # jt[s]}
  <1>. SUFFICES ASSUME T # {} PROVE FALSE
    OBVIOUS
  <1>1. PICK s \in T : \A t \in T : ~(t \subseteq s /\ t # s)
    <2>1. T \subseteq SUBSET S
      OBVIOUS
    <2>. HIDE DEF T
    <2>. QED
      BY <2>1, LeastSubset
  <1>2. /\ it[s] = IF s = {} THEN 0 ELSE f[Pick(s)] + it[s \ {Pick(s)}]
        /\ jt[s] = IF s = {} THEN 0 ELSE f[Pick(s)] + jt[s \ {Pick(s)}]
    BY DEF Adds
  <1>3. s # {} => it[s \ {Pick(s)}] = jt[s \ {Pick(s)}]
    BY <1>1, PickIn
  <1>. QED
    BY <1>2, <1>3

LEMMA SumAdds ==
  ASSUME NEW S, IsFiniteSet(S), NEW f
  PROVE  \E it : Adds(it, f, S) /\ SumOver(f, S) = it[S]
  BY AddsExist DEF SumOver

(* The form in which a sum over an expression is one over a function.      *)
LEMMA SumIs ==
  ASSUME NEW S, IsFiniteSet(S), NEW f, NEW it, Adds(it, f, S)
  PROVE  SumOver(f, S) = it[S]
  BY SumAdds, AddsUnique

-----------------------------------------------------------------------------
(* What sums are.                                                          *)

LEMMA AddsNat ==
  ASSUME NEW S, IsFiniteSet(S), NEW f \in [S -> Nat], NEW it, Adds(it, f, S)
  PROVE  \A s \in SUBSET S : it[s] \in Nat
  <1>. DEFINE T == {s \in SUBSET S : it[s] \notin Nat}
  <1>. SUFFICES ASSUME T # {} PROVE FALSE
    OBVIOUS
  <1>1. PICK s \in T : \A t \in T : ~(t \subseteq s /\ t # s)
    <2>1. T \subseteq SUBSET S
      OBVIOUS
    <2>. HIDE DEF T
    <2>. QED
      BY <2>1, LeastSubset
  <1>2. it[s] = IF s = {} THEN 0 ELSE f[Pick(s)] + it[s \ {Pick(s)}]
    BY DEF Adds
  <1>3. s # {} => f[Pick(s)] \in Nat /\ it[s \ {Pick(s)}] \in Nat
    BY <1>1, PickIn
  <1>. QED
    BY <1>2, <1>3

LEMMA SumNat ==
  ASSUME NEW S, IsFiniteSet(S), NEW f \in [S -> Nat]
  PROVE  SumOver(f, S) \in Nat
  BY SumAdds, AddsNat

(* One element's value changes: so does the sum, by as much.               *)
LEMMA AddsChange ==
  ASSUME NEW S, IsFiniteSet(S), NEW a \in S, NEW f \in [S -> Nat], NEW g \in [S -> Nat],
         \A x \in S \ {a} : g[x] = f[x],
         NEW it, Adds(it, f, S), NEW jt, Adds(jt, g, S)
  PROVE  \A s \in SUBSET S : jt[s] = it[s] + IF a \in s THEN g[a] - f[a] ELSE 0
  <1>. DEFINE T == {s \in SUBSET S :
                      jt[s] # it[s] + IF a \in s THEN g[a] - f[a] ELSE 0}
  <1>. SUFFICES ASSUME T # {} PROVE FALSE
    OBVIOUS
  <1>1. PICK s \in T : \A t \in T : ~(t \subseteq s /\ t # s)
    <2>1. T \subseteq SUBSET S
      OBVIOUS
    <2>. HIDE DEF T
    <2>. QED
      BY <2>1, LeastSubset
  <1>2. /\ it[s] = IF s = {} THEN 0 ELSE f[Pick(s)] + it[s \ {Pick(s)}]
        /\ jt[s] = IF s = {} THEN 0 ELSE g[Pick(s)] + jt[s \ {Pick(s)}]
    BY DEF Adds
  <1>3. ASSUME s # {} PROVE FALSE
    <2>1. PICK p : p = Pick(s)
      OBVIOUS
    <2>2. PICK t \in SUBSET S : t = s \ {p}
      OBVIOUS
    <2>3. /\ p \in s /\ p \in S /\ p \notin t
          /\ \A x : x # p => (x \in t <=> x \in s)
      BY <1>3, <2>1, <2>2, PickIn
    <2>4. jt[t] = it[t] + IF a \in t THEN g[a] - f[a] ELSE 0
      BY <1>1, <2>2, <2>3
    <2>5. it[t] \in Nat /\ jt[t] \in Nat
      BY AddsNat
    <2>6. it[s] = f[p] + it[t] /\ jt[s] = g[p] + jt[t]
      BY <1>2, <1>3, <2>1, <2>2
    <2>7. /\ f[p] \in Nat /\ g[p] \in Nat /\ f[a] \in Nat /\ g[a] \in Nat
      BY <2>3
    <2>8. CASE p = a
      BY <2>3, <2>4, <2>5, <2>6, <2>7, <2>8
    <2>9. CASE p # a
      <3>1. g[p] = f[p] /\ (a \in t <=> a \in s)
        BY <2>3, <2>9
      <3>. QED
        BY <2>4, <2>5, <2>6, <2>7, <3>1
    <2>. QED
      BY <2>8, <2>9
  <1>. QED
    BY <1>2, <1>3

LEMMA SumChange ==
  ASSUME NEW S, IsFiniteSet(S), NEW a \in S, NEW f \in [S -> Nat], NEW g \in [S -> Nat],
         \A x \in S \ {a} : g[x] = f[x]
  PROVE  SumOver(g, S) = SumOver(f, S) + g[a] - f[a]
  <1>1. PICK it : Adds(it, f, S) /\ SumOver(f, S) = it[S]
    BY SumAdds
  <1>2. PICK jt : Adds(jt, g, S) /\ SumOver(g, S) = jt[S]
    BY SumAdds
  <1>3. jt[S] = it[S] + (g[a] - f[a]) /\ it[S] \in Nat
    BY <1>1, <1>2, AddsChange, AddsNat
  <1>. QED
    BY <1>1, <1>2, <1>3

(* A sum of naturals is zero exactly if they all are.                      *)
LEMMA SumZero ==
  ASSUME NEW S, IsFiniteSet(S), NEW f \in [S -> Nat], \A x \in S : f[x] = 0
  PROVE  SumOver(f, S) = 0
  <1>1. PICK it : Adds(it, f, S) /\ SumOver(f, S) = it[S]
    BY SumAdds
  <1>. DEFINE T == {s \in SUBSET S : it[s] # 0}
  <1>. SUFFICES ASSUME T # {} PROVE FALSE
    BY <1>1
  <1>2. PICK s \in T : \A t \in T : ~(t \subseteq s /\ t # s)
    <2>1. T \subseteq SUBSET S
      OBVIOUS
    <2>. HIDE DEF T
    <2>. QED
      BY <2>1, LeastSubset
  <1>3. it[s] = IF s = {} THEN 0 ELSE f[Pick(s)] + it[s \ {Pick(s)}]
    BY <1>1 DEF Adds
  <1>4. s # {} => f[Pick(s)] = 0 /\ it[s \ {Pick(s)}] = 0
    BY <1>2, PickIn
  <1>. QED
    BY <1>3, <1>4

LEMMA SumAtLeast ==
  ASSUME NEW S, IsFiniteSet(S), NEW f \in [S -> Nat], NEW a \in S
  PROVE  f[a] <= SumOver(f, S)
  <1>1. PICK g \in [S -> Nat] : g = [f EXCEPT ![a] = 0]
    OBVIOUS
  <1>2. g[a] = 0 /\ \A x \in S \ {a} : g[x] = f[x]
    BY <1>1
  <1>3. SumOver(g, S) = SumOver(f, S) + g[a] - f[a]
    BY <1>2, SumChange
  <1>4. SumOver(g, S) \in Nat /\ SumOver(f, S) \in Nat /\ f[a] \in Nat
    BY SumNat
  <1>. QED
    BY <1>2, <1>3, <1>4

===============================================================================
