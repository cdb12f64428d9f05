---------------------------- MODULE SumTheorems ----------------------------
(***************************************************************************)
(* Facts about finite sets: a finite set of integers has a least element,  *)
(* and those about SumFunctionOnSet, with which the models add up          *)
(* quantities.  The community modules define it by a fold; an argument by  *)
(* induction on finite sets is here one from a smallest counterexample.    *)
(***************************************************************************)
EXTENDS Integers, Functions, FiniteSetTheorems, TLAPS

(* Among sets of elements of a finite set, one contains no other.          *)
LEMMA SmallestSet ==
  ASSUME NEW S, IsFiniteSet(S), NEW B \in SUBSET SUBSET S, B # {}
  PROVE  \E T \in B : \A U \in B : U \subseteq T => U = T
<1>1. IsWellFoundedOn(StrictSubsetOrdering(S), SUBSET S)
  BY FS_FiniteSubsetsOfFinite, FS_StrictSubsetOrderingWellFounded
<1>2. PICK T \in B : \A U \in B : <<U, T>> \notin StrictSubsetOrdering(S)
  BY <1>1, WFMin
<1> QED
  BY <1>2 DEF StrictSubsetOrdering

(* Some number of a finite set comes first.                                *)
LEMMA LeastOfFinite ==
  ASSUME NEW T, IsFiniteSet(T), T \subseteq Int, T # {}
  PROVE  \E p \in T : \A q \in T : p <= q
<1> DEFINE Before(p) == {q \in T : q < p}
           Befores == {Before(p) : p \in T}
<1>1. Befores \subseteq SUBSET T /\ Befores # {}
  OBVIOUS
<1>2. PICK B \in Befores : \A C \in Befores : <<C, B>> \notin StrictSubsetOrdering(T)
  <2>1. IsWellFoundedOn(StrictSubsetOrdering(T), SUBSET T)
    BY FS_FiniteSubsetsOfFinite, FS_StrictSubsetOrderingWellFounded
  <2> HIDE DEF Befores
  <2> QED
    BY <1>1, <2>1, WFMin
<1>3. PICK p \in T : B = Before(p)
  BY <1>2
<1>4. ASSUME NEW q \in T, q < p PROVE FALSE
  <2>0. p \in Int /\ \A r \in T : r \in Int /\ (r < q => r < p) /\ ~(q < q)
    BY <1>4
  <2>1. Before(q) \subseteq Before(p) /\ q \in Before(p) /\ q \notin Before(q)
    BY <1>4, <2>0
  <2>2. <<Before(q), Before(p)>> \in StrictSubsetOrdering(T)
    BY <2>1 DEF StrictSubsetOrdering
  <2> QED
    BY <1>2, <1>3, <1>4, <2>2
<1> QED
  BY <1>4

-----------------------------------------------------------------------------
(* The recursion of the fold.                                              *)

One(s) == CHOOSE x \in s : TRUE

IsSum(g, f, S) ==
  g = [s \in SUBSET S |-> IF s = {} THEN 0 ELSE f[One(s)] + g[s \ {One(s)}]]

(* A set that is not empty has the element that the fold takes.            *)
LEMMA OneIsElement == \A s : s # {} => One(s) \in s
  BY DEF One

(* It determines the sum of each set.                                      *)
LEMMA SumsAgree ==
  ASSUME NEW f, NEW S, NEW T, NEW g, NEW h, IsFiniteSet(S), IsSum(g, f, S), IsSum(h, f, T),
         NEW r \in SUBSET (S \cap T)
  PROVE  g[r] = h[r]
<1> SUFFICES ASSUME g[r] # h[r] PROVE FALSE
  OBVIOUS
<1> DEFINE B == {s \in SUBSET (S \cap T) : g[s] # h[s]}
<1>1. B \in SUBSET SUBSET S /\ B # {}
  OBVIOUS
<1>2. PICK s \in B : \A u \in B : u \subseteq s => u = s
  <2> HIDE DEF B
  <2> QED
    BY <1>1, SmallestSet
<1>3. s # {}
  BY DEF IsSum
<1>4. One(s) \in s
  BY <1>3, OneIsElement
<1>5. g[s \ {One(s)}] = h[s \ {One(s)}]
  BY <1>2, <1>4
<1>6. s \in SUBSET S /\ s \in SUBSET T
  OBVIOUS
<1>7. g[s] = f[One(s)] + g[s \ {One(s)}] /\ h[s] = f[One(s)] + h[s \ {One(s)}]
  BY <1>3, <1>6 DEF IsSum
<1> QED
  BY <1>5, <1>7

(* There is a function that satisfies it.                                  *)
LEMMA SumsExist ==
  ASSUME NEW f, NEW S, IsFiniteSet(S)
  PROVE  \E g : IsSum(g, f, S)
<1> SUFFICES ASSUME ~ \E g : IsSum(g, f, S) PROVE FALSE
  OBVIOUS
<1> DEFINE B == {s \in SUBSET S : ~ \E g : IsSum(g, f, s)}
<1>1. B \in SUBSET SUBSET S /\ B # {}
  OBVIOUS
<1>2. PICK s \in B : \A u \in B : u \subseteq s => u = s
  <2> HIDE DEF B
  <2> QED
    BY <1>1, SmallestSet
<1> DEFINE below(u) == CHOOSE g : IsSum(g, f, u)
           G == [u \in SUBSET s |->
                   IF u = {} THEN 0
                   ELSE f[One(u)] + below(u \ {One(u)})[u \ {One(u)}]]
<1>3. ASSUME NEW u \in SUBSET s, u # s PROVE IsSum(below(u), f, u) /\ IsFiniteSet(u)
  <2>1. \E g : IsSum(g, f, u)
    BY <1>2, <1>3
  <2>2. IsFiniteSet(u)
    BY FS_Subset
  <2> QED
    BY <2>1, <2>2
<1> HIDE DEF below
<1>4. ASSUME NEW u \in SUBSET s, u # s PROVE below(u)[u] = G[u]
  <2>1. IsSum(below(u), f, u) /\ u \in SUBSET u
    BY <1>3, <1>4
  <2>2. CASE u = {}
    BY <2>1, <2>2 DEF IsSum
  <2>3. CASE u # {}
    <3> DEFINE v == u \ {One(u)}
    <3>1. v \in SUBSET s /\ v # s /\ v \in SUBSET (u \cap v)
      BY <1>4, <2>3, OneIsElement
    <3>2. below(u)[u] = f[One(u)] + below(u)[v]
      BY <2>1, <2>3 DEF IsSum
    <3>3. below(u)[v] = below(v)[v]
      BY <1>3, <1>4, <2>1, <3>1, SumsAgree
    <3> QED
      BY <2>3, <3>2, <3>3
  <2> QED
    BY <2>2, <2>3
<1>5. ASSUME NEW u \in SUBSET s, u # {}
      PROVE  below(u \ {One(u)})[u \ {One(u)}] = G[u \ {One(u)}]
  <2>1. u \ {One(u)} \in SUBSET s /\ u \ {One(u)} # s
    BY <1>5, OneIsElement
  <2> QED
    BY <1>4, <2>1
<1>6. IsSum(G, f, s)
  BY <1>5 DEF IsSum
<1> QED
  BY <1>6

(* The sum over a set is that of the recursion.                            *)
LEMMA SumIsRecursive ==
  ASSUME NEW f, NEW S, IsFiniteSet(S)
  PROVE  IsSum(CHOOSE g : IsSum(g, f, S), f, S)
         /\ SumFunctionOnSet(f, S) = (CHOOSE g : IsSum(g, f, S))[S]
<1>1. IsSum(CHOOSE g : IsSum(g, f, S), f, S)
  BY SumsExist
<1>2. SumFunctionOnSet(f, S) = (CHOOSE g : IsSum(g, f, S))[S]
  BY DEF SumFunctionOnSet, FoldFunctionOnSet, MapThenFoldSet, IsSum, One
<1> QED
  BY <1>1, <1>2

-----------------------------------------------------------------------------
(* What the fold computes, for functions with integer values.              *)

(* Nothing adds up to 0.                                                   *)
LEMMA SumOfNone == ASSUME NEW f PROVE SumFunctionOnSet(f, {}) = 0
<1> DEFINE sum == CHOOSE g : IsSum(g, f, {})
<1>1. IsSum(sum, f, {}) /\ SumFunctionOnSet(f, {}) = sum[{}]
  BY FS_EmptySet, SumIsRecursive
<1> HIDE DEF sum
<1> QED
  BY <1>1 DEF IsSum

(* The fold takes one element and goes on with the rest.                   *)
LEMMA SumTakesOne ==
  ASSUME NEW f, NEW S, IsFiniteSet(S), S # {}
  PROVE  SumFunctionOnSet(f, S) = f[One(S)] + SumFunctionOnSet(f, S \ {One(S)})
<1> DEFINE rest == S \ {One(S)}
           sum(T) == CHOOSE g : IsSum(g, f, T)
<1>1. IsFiniteSet(rest) /\ rest \in SUBSET S /\ rest \in SUBSET (S \cap rest)
  BY FS_Subset
<1>2. IsSum(sum(S), f, S) /\ SumFunctionOnSet(f, S) = sum(S)[S]
  BY SumIsRecursive
<1>3. IsSum(sum(rest), f, rest) /\ SumFunctionOnSet(f, rest) = sum(rest)[rest]
  BY <1>1, SumIsRecursive
<1> HIDE DEF sum
<1>4. sum(S)[S] = f[One(S)] + sum(S)[rest]
  BY <1>2 DEF IsSum
<1>5. sum(S)[rest] = sum(rest)[rest]
  BY <1>1, <1>2, <1>3, SumsAgree
<1> QED
  BY <1>2, <1>3, <1>4, <1>5

(* A sum of integers is one.                                               *)
LEMMA SumIsInteger ==
  ASSUME NEW f, NEW S, IsFiniteSet(S), \A x \in S : f[x] \in Int
  PROVE  SumFunctionOnSet(f, S) \in Int
<1> SUFFICES ASSUME SumFunctionOnSet(f, S) \notin Int PROVE FALSE
  OBVIOUS
<1> DEFINE B == {T \in SUBSET S : SumFunctionOnSet(f, T) \notin Int}
<1>1. B \in SUBSET SUBSET S /\ B # {}
  OBVIOUS
<1>2. PICK T \in B : \A U \in B : U \subseteq T => U = T
  <2> HIDE DEF B
  <2> QED
    BY <1>1, SmallestSet
<1>3. IsFiniteSet(T) /\ T # {}
  <2>1. SumFunctionOnSet(f, {}) \in Int
    BY SumOfNone
  <2> QED
    BY <2>1, FS_Subset
<1>4. One(T) \in T
  BY <1>3, OneIsElement
<1>5. SumFunctionOnSet(f, T \ {One(T)}) \in Int
  BY <1>2, <1>4
<1> QED
  BY <1>3, <1>4, <1>5, SumTakesOne

(* The order does not matter: any element may be taken first.              *)
LEMMA SumTakesAny ==
  ASSUME NEW f, NEW S, IsFiniteSet(S), \A x \in S : f[x] \in Int, NEW x \in S
  PROVE  SumFunctionOnSet(f, S) = f[x] + SumFunctionOnSet(f, S \ {x})
<1> DEFINE sum(T) == SumFunctionOnSet(f, T)
           Takes(T, y) == sum(T) = f[y] + sum(T \ {y})
<1> HIDE DEF sum
<1> SUFFICES ASSUME ~Takes(S, x) PROVE FALSE
  BY DEF sum
<1> DEFINE B == {T \in SUBSET S : \E y \in T : ~Takes(T, y)}
<1>1. B \in SUBSET SUBSET S /\ B # {}
  OBVIOUS
<1>2. PICK T \in B : \A U \in B : U \subseteq T => U = T
  <2> HIDE DEF B
  <2> QED
    BY <1>1, SmallestSet
<1>3. PICK y \in T : ~Takes(T, y)
  OBVIOUS
<1> DEFINE z == One(T)
           rest == (T \ {y}) \ {z}
<1>4. IsFiniteSet(T) /\ IsFiniteSet(rest) /\ z \in T /\ rest = (T \ {z}) \ {y}
  BY FS_Subset, OneIsElement
<1>5. sum(T) = f[z] + sum(T \ {z})
  BY <1>4, SumTakesOne DEF sum
<1>6. z # y
  BY <1>3, <1>5
<1>7. sum(T \ {z}) = f[y] + sum(rest)
  <2>1. T \ {z} \in SUBSET S /\ T \ {z} # T /\ y \in T \ {z}
    BY <1>4, <1>6
  <2>2. Takes(T \ {z}, y)
    BY <1>2, <2>1
  <2> QED
    BY <1>4, <2>2
<1>8. sum(T \ {y}) = f[z] + sum(rest)
  <2>1. T \ {y} \in SUBSET S /\ T \ {y} # T /\ z \in T \ {y}
    BY <1>4, <1>6
  <2>2. Takes(T \ {y}, z)
    BY <1>2, <2>1
  <2> QED
    BY <2>2
<1>9. sum(rest) \in Int /\ f[y] \in Int /\ f[z] \in Int
  BY <1>4, SumIsInteger DEF sum
<1>10. sum(T) = f[z] + (f[y] + sum(rest)) /\ ~(sum(T) = f[y] + (f[z] + sum(rest)))
  BY <1>3, <1>5, <1>7, <1>8
<1> HIDE DEF z, rest
<1> QED
  BY <1>9, <1>10

(* The sum depends on the values of the elements, and on nothing else.     *)
LEMMA SameValuesSameSum ==
  ASSUME NEW f, NEW g, NEW S, IsFiniteSet(S), \A x \in S : f[x] = g[x]
  PROVE  SumFunctionOnSet(f, S) = SumFunctionOnSet(g, S)
<1> SUFFICES ASSUME SumFunctionOnSet(f, S) # SumFunctionOnSet(g, S) PROVE FALSE
  OBVIOUS
<1> DEFINE B == {T \in SUBSET S : SumFunctionOnSet(f, T) # SumFunctionOnSet(g, T)}
<1>1. B \in SUBSET SUBSET S /\ B # {}
  OBVIOUS
<1>2. PICK T \in B : \A U \in B : U \subseteq T => U = T
  <2> HIDE DEF B
  <2> QED
    BY <1>1, SmallestSet
<1>3. IsFiniteSet(T) /\ T # {}
  BY FS_Subset, SumOfNone
<1>4. One(T) \in T
  BY <1>3, OneIsElement
<1>5. SumFunctionOnSet(f, T \ {One(T)}) = SumFunctionOnSet(g, T \ {One(T)})
  BY <1>2, <1>4
<1>6. SumFunctionOnSet(f, T) = f[One(T)] + SumFunctionOnSet(f, T \ {One(T)})
      /\ SumFunctionOnSet(g, T) = g[One(T)] + SumFunctionOnSet(g, T \ {One(T)})
  BY <1>3, SumTakesOne
<1> QED
  BY <1>4, <1>5, <1>6

(* Zeros add up to zero.                                                   *)
LEMMA SumOfZeros ==
  ASSUME NEW f, NEW S, IsFiniteSet(S), \A x \in S : f[x] = 0
  PROVE  SumFunctionOnSet(f, S) = 0
<1> SUFFICES ASSUME SumFunctionOnSet(f, S) # 0 PROVE FALSE
  OBVIOUS
<1> DEFINE B == {T \in SUBSET S : SumFunctionOnSet(f, T) # 0}
<1>1. B \in SUBSET SUBSET S /\ B # {}
  OBVIOUS
<1>2. PICK T \in B : \A U \in B : U \subseteq T => U = T
  <2> HIDE DEF B
  <2> QED
    BY <1>1, SmallestSet
<1>3. IsFiniteSet(T) /\ T # {}
  BY FS_Subset, SumOfNone
<1>4. One(T) \in T
  BY <1>3, OneIsElement
<1>5. SumFunctionOnSet(f, T \ {One(T)}) = 0
  BY <1>2, <1>4
<1> QED
  BY <1>3, <1>4, <1>5, SumTakesOne
=============================================================================
