--------------------------- MODULE BalancesProofs ---------------------------
(***************************************************************************)
(* Theorems that add amounts up: the journal of the card orders, the total *)
(* balance, the allocation loop.                                           *)
(*                                                                         *)
(* A sum over a set is a fold, and what it gives is shown by induction.    *)
(* The induction is over sets: WFMin and the well-founded orders of the    *)
(* library take a relation as a set, so a property to be shown is the set  *)
(* G of what has it.                                                       *)
(*                                                                         *)
(* The three components have variables and specifications of their own:    *)
(* nothing here relates them to each other.                                *)
(***************************************************************************)
EXTENDS CardOrdersProofs, TotalBalance, WalletAllocation, SequenceTheorems

-----------------------------------------------------------------------------
(* Induction. *)

\* A set of naturals has a least one.
LEMMA LeastNat ==
    ASSUME NEW T \in SUBSET Nat, T # {}
    PROVE  \E n \in T : \A m \in T : n <= m
<1>1. PICK x \in T : \A y \in T : ~ (<<y, x>> \in OpToRel(<, Nat))
    BY NatLessThanWellFounded, WFMin
<1>2. ASSUME NEW y \in T PROVE x <= y
    <2>1. x \in Nat /\ y \in Nat OBVIOUS
    <2>2. ~(y < x) BY <1>1, <2>1 DEF OpToRel
    <2> QED BY <2>1, <2>2
<1> QED BY <1>1, <1>2

\* Induction over the naturals, for a set instead of a predicate.
LEMMA NatSetInduction ==
    ASSUME NEW G, 0 \in G, \A n \in Nat : n \in G => n + 1 \in G
    PROVE  Nat \subseteq G
<1> DEFINE T == Nat \ G
<1> SUFFICES ASSUME T # {} PROVE FALSE
    OBVIOUS
<1>1. PICK n \in T : \A m \in T : n <= m
    BY LeastNat
<1>2. n # 0 /\ n - 1 \in Nat /\ n - 1 \notin T
    BY <1>1
<1>3. (n - 1) + 1 \in G
    BY <1>2
<1> QED BY <1>1, <1>2, <1>3

\* Induction over the subsets of a finite set.
LEMMA SubsetInduction ==
    ASSUME NEW S, IsFiniteSet(S), NEW G, {} \in G,
           \A t \in SUBSET S : t # {} /\ (\A x \in t : t \ {x} \in G) => t \in G
    PROVE  SUBSET S \subseteq G
<1> DEFINE T == (SUBSET S) \ G
<1> SUFFICES ASSUME T # {} PROVE FALSE
    OBVIOUS
<1>1. PICK t \in T : \A u \in T : ~ (<<u, t>> \in StrictSubsetOrdering(S))
    <2>1. T \subseteq FiniteSubsetsOf(S)
        BY FS_FiniteSubsetsOfFinite
    <2> HIDE DEF T
    <2> QED BY <2>1, FS_StrictSubsetOrderingWellFounded, WFMin
<1>2. ASSUME NEW x \in t PROVE t \ {x} \in G
    <2>1. <<t \ {x}, t>> \in StrictSubsetOrdering(S)
        BY DEF StrictSubsetOrdering
    <2> QED BY <1>1, <2>1
<1> QED BY <1>2

-----------------------------------------------------------------------------
(* Sums and extremes. *)

Pick(s) == CHOOSE x \in s : TRUE

\* Of the values of w over S.
Sum(w, S) == MapThenSumSet(LAMBDA x : w[x], S)

IsSum(f, w, S) ==
    f = [s \in SUBSET S |-> IF s = {} THEN 0 ELSE w[Pick(s)] + f[s \ {Pick(s)}]]

\* The library defines a sum by a function that it chooses.
LEMMA SumIsChosen == ASSUME NEW w, NEW S PROVE Sum(w,S) = (CHOOSE f : IsSum(f, w, S))[S]
BY DEF Sum, IsSum, Pick, MapThenSumSet, MapThenFoldSet

\* There is such a function: over subsets of growing size.
LEMMA SumExists ==
    ASSUME NEW w, NEW S, IsFiniteSet(S)
    PROVE  \E f : IsSum(f, w, S)
<1> DEFINE Of(n) == {s \in SUBSET S : Cardinality(s) <= n}
           Step(g, n) == [s \in Of(n) |-> IF s = {} THEN 0 ELSE w[Pick(s)] + g[s \ {Pick(s)}]]
           G == {n \in Nat : \E g : g = Step(g, n)}
<1>1. \A s \in SUBSET S : IsFiniteSet(s) /\ Cardinality(s) \in Nat /\ Cardinality(s) <= Cardinality(S)
    BY FS_Subset, FS_CardinalityType
<1>2. 0 \in G
    <2>1. Of(0) = {{}}
        BY <1>1, FS_EmptySet
    <2>2. [s \in Of(0) |-> 0] = Step([s \in Of(0) |-> 0], 0)
        BY <2>1
    <2> QED BY <2>2
<1>3. ASSUME NEW n \in Nat, n \in G PROVE n + 1 \in G
    <2>1. PICK g : g = Step(g, n)
        BY <1>3
    <2> DEFINE h == Step(g, n + 1)
    <2>2. ASSUME NEW s \in Of(n + 1), s # {}
          PROVE  s \ {Pick(s)} \in Of(n) /\ s \ {Pick(s)} \in Of(n + 1)
        <3>1. Pick(s) \in s
            BY <2>2 DEF Pick
        <3>2. Cardinality(s \ {Pick(s)}) = Cardinality(s) - 1
            BY <1>1, <3>1, FS_RemoveElement
        <3>3. s \ {Pick(s)} \in SUBSET S
            OBVIOUS
        <3> QED BY <1>1, <3>2, <3>3
    <2>3. ASSUME NEW s \in Of(n) PROVE h[s] = g[s]
        <3>1. s \in Of(n + 1)
            BY <1>1
        <3> QED BY <2>1, <3>1, Zenon
    <2>4. h = Step(h, n + 1)
        <3> SUFFICES ASSUME NEW s \in Of(n + 1), s # {}
                     PROVE  g[s \ {Pick(s)}] = h[s \ {Pick(s)}]
            BY Zenon
        <3> QED BY <2>2, <2>3
    <2> HIDE DEF h, Step, Of
    <2>5. \E k : k = Step(k, n + 1)
        BY <2>4
    <2> QED BY <2>5
<1>4. Cardinality(S) \in G
    <2> HIDE DEF G
    <2> QED BY <1>1, <1>2, <1>3, NatSetInduction
<1>5. PICK f : f = Step(f, Cardinality(S))
    BY <1>4
<1>6. Of(Cardinality(S)) = SUBSET S
    BY <1>1
<1> HIDE DEF Of
<1> QED BY <1>5, <1>6 DEF IsSum

\* Any such function has the sums of all subsets.
LEMMA SumOfSubsets ==
    ASSUME NEW w, NEW S, IsFiniteSet(S)
    PROVE  \E f : IsSum(f, w, S) /\ \A t \in SUBSET S : Sum(w, t) = f[t]
<1> DEFINE f == CHOOSE g : IsSum(g, w, S)
<1>1. IsSum(f, w, S)
    BY SumExists
<1>2. ASSUME NEW t \in SUBSET S PROVE Sum(w, t) = f[t]
    <2> DEFINE h == CHOOSE g : IsSum(g, w, t)
               G == {u \in SUBSET t : f[u] = h[u]}
    <2>1. IsFiniteSet(t)
        BY FS_Subset
    <2>2. IsSum(h, w, t)
        BY <2>1, SumExists
    <2> HIDE DEF f, h
    <2>3. {} \in G
        BY <1>1, <2>2 DEF IsSum
    <2>4. ASSUME NEW u \in SUBSET t, u # {}, \A x \in u : u \ {x} \in G
          PROVE  u \in G
        <3>1. Pick(u) \in u
            BY <2>4 DEF Pick
        <3>2. f[u \ {Pick(u)}] = h[u \ {Pick(u)}]
            BY <2>4, <3>1
        <3>3. f[u] = w[Pick(u)] + f[u \ {Pick(u)}] /\ h[u] = w[Pick(u)] + h[u \ {Pick(u)}]
            BY <1>1, <2>2, <2>4 DEF IsSum
        <3> QED BY <3>2, <3>3
    <2>5. t \in G
        <3> HIDE DEF G
        <3> QED BY <2>1, <2>3, <2>4, SubsetInduction
    <2> QED BY <2>5, SumIsChosen DEF h
<1> HIDE DEF f
<1> QED BY <1>1, <1>2

\* Nothing adds up to zero.
LEMMA SumEmpty ==
    ASSUME NEW w
    PROVE  Sum(w, {}) = 0
<1>1. IsFiniteSet({})
    BY FS_EmptySet
<1> QED BY <1>1, SumOfSubsets DEF IsSum

\* The element that is added first can be taken out.
LEMMA SumPick ==
    ASSUME NEW w, NEW S, IsFiniteSet(S), S # {}
    PROVE  Pick(S) \in S /\ Sum(w, S) = w[Pick(S)] + Sum(w, S \ {Pick(S)})
<1>1. Pick(S) \in S
    BY DEF Pick
<1>2. PICK f : IsSum(f, w, S) /\ \A t \in SUBSET S : Sum(w, t) = f[t]
    BY SumOfSubsets
<1>3. f[S] = w[Pick(S)] + f[S \ {Pick(S)}]
    BY <1>2 DEF IsSum
<1> QED BY <1>1, <1>2, <1>3

\* A sum of integers is one, a sum of naturals is one.
LEMMA SumType ==
    ASSUME NEW w, NEW S, IsFiniteSet(S), \A x \in S : w[x] \in Int
    PROVE  Sum(w, S) \in Int /\ ((\A x \in S : w[x] \in Nat) => Sum(w, S) \in Nat)
<1> DEFINE G == {t \in SUBSET S : /\ Sum(w, t) \in Int
                                  /\ (\A x \in S : w[x] \in Nat) => Sum(w, t) \in Nat}
<1>1. {} \in G
    BY SumEmpty
<1>2. ASSUME NEW t \in SUBSET S, t # {}, \A x \in t : t \ {x} \in G
      PROVE  t \in G
    <2>1. IsFiniteSet(t)
        BY FS_Subset
    <2>2. Pick(t) \in t /\ Sum(w, t) = w[Pick(t)] + Sum(w, t \ {Pick(t)})
        BY <1>2, <2>1, SumPick
    <2>3. t \ {Pick(t)} \in G
        BY <1>2, <2>2
    <2> QED BY <2>2, <2>3
<1>3. S \in G
    <2> HIDE DEF G
    <2> QED BY <1>1, <1>2, SubsetInduction
<1> QED BY <1>3

\* Any element can be taken out: the order of adding does not matter.
LEMMA SumRemove ==
    ASSUME NEW w, NEW S, IsFiniteSet(S), \A x \in S : w[x] \in Int, NEW x \in S
    PROVE  Sum(w, S) = w[x] + Sum(w, S \ {x})
<1> DEFINE G == {t \in SUBSET S : \A y \in t : Sum(w, t) = w[y] + Sum(w, t \ {y})}
<1>1. {} \in G
    OBVIOUS
<1>2. ASSUME NEW t \in SUBSET S, t # {}, \A y \in t : t \ {y} \in G
      PROVE  t \in G
    <2>1. \A u \in SUBSET S : IsFiniteSet(u) /\ Sum(w, u) \in Int
        BY FS_Subset, SumType
    <2> DEFINE p == Pick(t)
    <2>2. p \in t /\ Sum(w, t) = w[p] + Sum(w, t \ {p})
        BY <1>2, <2>1, SumPick
    <2> HIDE DEF p
    <2>3. ASSUME NEW y \in t, y # p PROVE Sum(w, t) = w[y] + Sum(w, t \ {y})
        <3>1. Sum(w, t \ {p}) = w[y] + Sum(w, (t \ {p}) \ {y})
            BY <1>2, <2>2, <2>3
        <3>2. Sum(w, t \ {y}) = w[p] + Sum(w, (t \ {y}) \ {p})
            BY <1>2, <2>2, <2>3
        <3>3. (t \ {p}) \ {y} = (t \ {y}) \ {p}
            OBVIOUS
        <3>4. w[y] \in Int /\ w[p] \in Int /\ Sum(w, (t \ {y}) \ {p}) \in Int
            BY <2>1, <2>2
        <3>5. Sum(w, t) = w[p] + (w[y] + Sum(w, (t \ {y}) \ {p}))
            BY <2>2, <3>1, <3>3
        <3> QED BY <3>2, <3>4, <3>5
    <2> QED BY <2>2, <2>3
<1>3. S \in G
    <2> HIDE DEF G
    <2> QED BY <1>1, <1>2, SubsetInduction
<1> QED BY <1>3

\* Greater summands have a greater sum.
LEMMA SumMonotone ==
    ASSUME NEW v, NEW w, NEW S, IsFiniteSet(S),
           \A x \in S : v[x] \in Int /\ w[x] \in Int /\ v[x] <= w[x]
    PROVE  Sum(v, S) <= Sum(w, S)
<1> DEFINE G == {t \in SUBSET S : Sum(v, t) <= Sum(w, t)}
<1>1. {} \in G
    BY SumEmpty
<1>2. ASSUME NEW t \in SUBSET S, t # {}, \A x \in t : t \ {x} \in G
      PROVE  t \in G
    <2>1. \A u \in SUBSET S : IsFiniteSet(u) /\ Sum(v, u) \in Int /\ Sum(w, u) \in Int
        BY FS_Subset, SumType
    <2> DEFINE p == Pick(t)
    <2>2. /\ p \in t
          /\ Sum(v, t) = v[p] + Sum(v, t \ {p})
          /\ Sum(w, t) = w[p] + Sum(w, t \ {p})
        BY <1>2, <2>1, SumPick
    <2> HIDE DEF p
    <2>3. Sum(v, t \ {p}) <= Sum(w, t \ {p})
        BY <1>2, <2>2
    <2>4. v[p] \in Int /\ w[p] \in Int /\ v[p] <= w[p]
        BY <2>2
    <2>5. Sum(v, t \ {p}) \in Int /\ Sum(w, t \ {p}) \in Int
        BY <2>1
    <2> QED BY <2>2, <2>3, <2>4, <2>5
<1>3. S \in G
    <2> HIDE DEF G
    <2> QED BY <1>1, <1>2, SubsetInduction
<1> QED BY <1>3

\* A sum depends on the summands alone.
LEMMA SumEqual ==
    ASSUME NEW v, NEW w, NEW S, IsFiniteSet(S), \A x \in S : v[x] = w[x]
    PROVE  Sum(v, S) = Sum(w, S)
<1> DEFINE G == {t \in SUBSET S : Sum(v, t) = Sum(w, t)}
<1>1. {} \in G
    BY SumEmpty
<1>2. ASSUME NEW t \in SUBSET S, t # {}, \A x \in t : t \ {x} \in G
      PROVE  t \in G
    <2>1. IsFiniteSet(t)
        BY FS_Subset
    <2>2. /\ Pick(t) \in t
          /\ Sum(v, t) = v[Pick(t)] + Sum(v, t \ {Pick(t)})
          /\ Sum(w, t) = w[Pick(t)] + Sum(w, t \ {Pick(t)})
        BY <1>2, <2>1, SumPick
    <2> QED BY <1>2, <2>2
<1>3. S \in G
    <2> HIDE DEF G
    <2> QED BY <1>1, <1>2, SubsetInduction
<1> QED BY <1>3

\* If one summand changes, the sum changes by as much.
LEMMA SumChange ==
    ASSUME NEW v, NEW w, NEW S, IsFiniteSet(S), NEW x \in S,
           \A y \in S : v[y] \in Int /\ w[y] \in Int,
           \A y \in S \ {x} : w[y] = v[y]
    PROVE  Sum(w, S) = Sum(v, S) + w[x] - v[x]
<1>1. IsFiniteSet(S \ {x})
    BY FS_RemoveElement
<1>2. Sum(w, S \ {x}) = Sum(v, S \ {x})
    BY <1>1, SumEqual
<1>3. Sum(v, S) = v[x] + Sum(v, S \ {x}) /\ Sum(w, S) = w[x] + Sum(w, S \ {x})
    BY SumRemove
<1>4. Sum(v, S \ {x}) \in Int
    BY <1>1, SumType
<1> QED BY <1>2, <1>3, <1>4

\* Zeros add up to zero.
LEMMA SumOfZeros ==
    ASSUME NEW w, NEW S, IsFiniteSet(S), \A x \in S : w[x] = 0
    PROVE  Sum(w, S) = 0
<1> DEFINE G == {t \in SUBSET S : Sum(w, t) = 0}
<1>1. {} \in G
    BY SumEmpty
<1>2. ASSUME NEW t \in SUBSET S, t # {}, \A x \in t : t \ {x} \in G
      PROVE  t \in G
    <2>1. Pick(t) \in t /\ Sum(w, t) = w[Pick(t)] + Sum(w, t \ {Pick(t)})
        BY <1>2, FS_Subset, SumPick
    <2> QED BY <1>2, <2>1
<1>3. S \in G
    <2> HIDE DEF G
    <2> QED BY <1>1, <1>2, SubsetInduction
<1> QED BY <1>3

\* The sum over a part is at most the sum over the whole, of greater summands.
LEMMA SumOfPart ==
    ASSUME NEW v, NEW w, NEW S, IsFiniteSet(S), NEW R \in SUBSET S,
           \A x \in R : v[x] \in Nat /\ v[x] <= w[x],
           \A x \in S : w[x] \in Nat
    PROVE  Sum(v, R) <= Sum(w, S)
<1> DEFINE G == {t \in SUBSET S : Sum(v, t \intersect R) <= Sum(w, t)}
<1>1. \A t \in SUBSET S : IsFiniteSet(t) /\ Sum(w, t) \in Nat
    BY FS_Subset, SumType
<1>2. \A t \in SUBSET R : IsFiniteSet(t) /\ Sum(v, t) \in Nat
    BY FS_Subset, SumType
<1>3. {} \in G
    <2>1. {} \intersect R = {}
        OBVIOUS
    <2> QED BY <2>1, SumEmpty
<1>4. ASSUME NEW t \in SUBSET S, t # {}, \A x \in t : t \ {x} \in G
      PROVE  t \in G
    <2> DEFINE p == Pick(t)
    <2>1. p \in t /\ Sum(w, t) = w[p] + Sum(w, t \ {p})
        BY <1>1, <1>4, SumPick
    <2> HIDE DEF p
    <2>2. Sum(v, (t \ {p}) \intersect R) <= Sum(w, t \ {p})
        BY <1>4, <2>1
    <2>3. w[p] \in Nat /\ Sum(w, t \ {p}) \in Nat /\ Sum(v, (t \ {p}) \intersect R) \in Nat
        BY <1>1, <1>2, <2>1
    <2>4. CASE p \in R
        <3>1. (t \intersect R) \ {p} = (t \ {p}) \intersect R
            OBVIOUS
        <3>2. Sum(v, t \intersect R) = v[p] + Sum(v, (t \intersect R) \ {p})
            BY <1>2, <2>1, <2>4, SumRemove
        <3>3. Sum(v, t \intersect R) = v[p] + Sum(v, (t \ {p}) \intersect R)
            BY <3>1, <3>2
        <3>4. v[p] \in Nat /\ v[p] <= w[p]
            BY <2>4
        <3>5. v[p] + Sum(v, (t \ {p}) \intersect R) <= w[p] + Sum(w, t \ {p})
            BY <2>2, <2>3, <3>4
        <3>6. Sum(v, t \intersect R) <= Sum(w, t)
            BY ONLY <2>1, <3>3, <3>5
        <3> QED BY <3>6
    <2>5. CASE p \notin R
        <3>1. t \intersect R = (t \ {p}) \intersect R
            BY <2>5
        <3>2. Sum(v, t \intersect R) = Sum(v, (t \ {p}) \intersect R)
            BY <3>1
        <3>3. Sum(v, (t \ {p}) \intersect R) <= w[p] + Sum(w, t \ {p})
            BY <2>2, <2>3
        <3>4. Sum(v, t \intersect R) <= Sum(w, t)
            BY ONLY <2>1, <3>2, <3>3
        <3> QED BY <3>4
    <2> QED BY <2>4, <2>5
<1>5. S \in G
    <2> HIDE DEF G
    <2> QED BY <1>3, <1>4, SubsetInduction
<1>6. S \intersect R = R
    OBVIOUS
<1> QED BY <1>5, <1>6

\* Summands of zero can be left out.
LEMMA SumOfSupport ==
    ASSUME NEW v, NEW w, NEW S, IsFiniteSet(S), NEW R \in SUBSET S,
           \A x \in S : w[x] \in Int,
           \A x \in R : v[x] = w[x],
           \A x \in S \ R : w[x] = 0
    PROVE  Sum(v, R) = Sum(w, S)
<1> DEFINE G == {t \in SUBSET S : Sum(v, t \intersect R) = Sum(w, t)}
<1>1. \A t \in SUBSET S : IsFiniteSet(t) /\ Sum(w, t) \in Int
    BY FS_Subset, SumType
<1>2. {} \in G
    <2>1. {} \intersect R = {}
        OBVIOUS
    <2> QED BY <2>1, SumEmpty
<1>3. ASSUME NEW t \in SUBSET S, t # {}, \A x \in t : t \ {x} \in G
      PROVE  t \in G
    <2> DEFINE p == Pick(t)
    <2>1. p \in t /\ Sum(w, t) = w[p] + Sum(w, t \ {p})
        BY <1>1, <1>3, SumPick
    <2> HIDE DEF p
    <2>2. Sum(v, (t \ {p}) \intersect R) = Sum(w, t \ {p}) /\ Sum(w, t \ {p}) \in Int
        BY <1>1, <1>3, <2>1
    <2>3. CASE p \in R
        <3>1. (t \intersect R) \ {p} = (t \ {p}) \intersect R
            OBVIOUS
        <3>2. \A x \in t \intersect R : v[x] \in Int
            OBVIOUS
        <3>3. Sum(v, t \intersect R) = v[p] + Sum(v, (t \intersect R) \ {p})
            BY <1>1, <2>1, <2>3, <3>2, SumRemove
        <3>4. v[p] = w[p]
            BY <2>3
        <3> QED BY <2>1, <2>2, <3>1, <3>3, <3>4
    <2>4. CASE p \notin R
        <3>1. t \intersect R = (t \ {p}) \intersect R
            BY <2>4
        <3>2. w[p] = 0
            BY <2>1, <2>4
        <3>3. Sum(v, t \intersect R) = Sum(w, t \ {p})
            BY <2>2, <3>1
        <3>4. Sum(w, t) = Sum(w, t \ {p})
            BY ONLY <2>1, <2>2, <3>2
        <3> QED BY <3>3, <3>4
    <2> QED BY <2>3, <2>4
<1>4. S \in G
    <2> HIDE DEF G
    <2> QED BY <1>2, <1>3, SubsetInduction
<1>5. S \intersect R = R
    OBVIOUS
<1> QED BY <1>4, <1>5

\* A difference can be summed up in two parts.
LEMMA SumDifference ==
    ASSUME NEW u, NEW v, NEW w, NEW S, IsFiniteSet(S),
           \A x \in S : v[x] \in Int /\ w[x] \in Int /\ u[x] = v[x] - w[x]
    PROVE  Sum(u, S) = Sum(v, S) - Sum(w, S)
<1> DEFINE G == {t \in SUBSET S : Sum(u, t) = Sum(v, t) - Sum(w, t)}
<1>1. {} \in G
    BY SumEmpty
<1>2. ASSUME NEW t \in SUBSET S, t # {}, \A x \in t : t \ {x} \in G
      PROVE  t \in G
    <2>1. \A s \in SUBSET S : IsFiniteSet(s) /\ Sum(v, s) \in Int /\ Sum(w, s) \in Int
        BY FS_Subset, SumType
    <2> DEFINE p == Pick(t)
    <2>2. /\ p \in t
          /\ Sum(u, t) = u[p] + Sum(u, t \ {p})
          /\ Sum(v, t) = v[p] + Sum(v, t \ {p})
          /\ Sum(w, t) = w[p] + Sum(w, t \ {p})
        BY <1>2, <2>1, SumPick
    <2> HIDE DEF p
    <2>3. Sum(u, t \ {p}) = Sum(v, t \ {p}) - Sum(w, t \ {p})
        BY <1>2, <2>2
    <2>4. v[p] \in Int /\ w[p] \in Int /\ u[p] = v[p] - w[p]
        BY <2>2
    <2>5. Sum(v, t \ {p}) \in Int /\ Sum(w, t \ {p}) \in Int
        BY <2>1
    <2>6. Sum(u, t) = Sum(v, t) - Sum(w, t)
        BY ONLY <2>2, <2>3, <2>4, <2>5
    <2> QED BY <2>6
<1>3. S \in G
    <2> HIDE DEF G
    <2> QED BY <1>1, <1>2, SubsetInduction
<1> QED BY <1>3

\* So can a sum.
LEMMA SumPlus ==
    ASSUME NEW u, NEW v, NEW w, NEW S, IsFiniteSet(S),
           \A x \in S : v[x] \in Int /\ w[x] \in Int /\ u[x] = v[x] + w[x]
    PROVE  Sum(u, S) = Sum(v, S) + Sum(w, S)
<1>1. \A x \in S : u[x] \in Int /\ v[x] = u[x] - w[x]
    OBVIOUS
<1>2. Sum(v, S) = Sum(u, S) - Sum(w, S)
    BY <1>1, SumDifference
<1>3. Sum(u, S) \in Int /\ Sum(v, S) \in Int /\ Sum(w, S) \in Int
    BY <1>1, SumType
<1> QED BY <1>2, <1>3

\* A table adds up to the same by rows and by columns.
LEMMA SumExchange ==
    ASSUME NEW f, NEW S, NEW T, IsFiniteSet(S), IsFiniteSet(T),
           \A x \in S, y \in T : f[x][y] \in Int
    PROVE  Sum([x \in S |-> Sum(f[x], T)], S)
               = Sum([y \in T |-> Sum([x \in S |-> f[x][y]], S)], T)
<1> DEFINE A == [x \in S |-> Sum(f[x], T)]
           col(y) == [x \in S |-> f[x][y]]
           B(t) == [y \in T |-> Sum(col(y), t)]
           G == {t \in SUBSET S : Sum(A, t) = Sum(B(t), T)}
<1>1. \A t \in SUBSET S : IsFiniteSet(t)
    BY FS_Subset
<1>2. ASSUME NEW t \in SUBSET S, NEW y \in T PROVE B(t)[y] \in Int
    <2>1. \A x \in t : col(y)[x] \in Int
        OBVIOUS
    <2> HIDE DEF col
    <2> QED BY <1>1, <2>1, SumType
<1>3. {} \in G
    <2>1. \A y \in T : B({})[y] = 0
        BY SumEmpty
    <2> HIDE DEF A, B
    <2> QED BY <2>1, SumEmpty, SumOfZeros
<1>4. ASSUME NEW t \in SUBSET S, t # {}, \A x \in t : t \ {x} \in G
      PROVE  t \in G
    <2> DEFINE p == Pick(t)
               u == t \ {p}
    <2>1. p \in t /\ Sum(A, t) = A[p] + Sum(A, u)
        BY <1>1, <1>4, SumPick
    <2>2. ASSUME NEW y \in T PROVE B(t)[y] = f[p][y] + B(u)[y]
        <3>1. Sum(col(y), t) = col(y)[p] + Sum(col(y), u)
            <4> HIDE DEF col
            <4> QED BY <1>1, <1>4, SumPick
        <3> QED BY <2>1, <3>1
    <2>3. \A y \in T : f[p][y] \in Int /\ B(u)[y] \in Int
        BY <1>2, <2>1
    <2>4. A[p] = Sum(f[p], T)
        BY <2>1
    <2>5. u \in G
        BY <1>4, <2>1
    <2>6. Sum(A, u) = Sum(B(u), T)
        BY <2>5
    <2> HIDE DEF A, B, p, u
    <2>7. Sum(B(t), T) = Sum(f[p], T) + Sum(B(u), T)
        BY <2>2, <2>3, SumPlus
    <2> QED BY <2>1, <2>4, <2>6, <2>7
<1>5. S \in G
    <2> HIDE DEF G
    <2> QED BY <1>3, <1>4, SubsetInduction
<1> QED BY <1>5

\* Summands may be named differently.
LEMMA SumRenamed ==
    ASSUME NEW v, NEW w, NEW S, IsFiniteSet(S), NEW f,
           \A x, y \in S : x # y => f[x] # f[y],
           \A x \in S : v[x] \in Int /\ w[f[x]] = v[x]
    PROVE  Sum(v, S) = Sum(w, {f[x] : x \in S})
<1> DEFINE Im(t) == {f[x] : x \in t}
           G == {t \in SUBSET S : Sum(v, t) = Sum(w, Im(t))}
<1>1. ASSUME NEW t \in SUBSET S PROVE IsFiniteSet(t) /\ IsFiniteSet(Im(t))
    <2>1. IsFiniteSet(t)
        BY FS_Subset
    <2> DEFINE g == [x \in t |-> f[x]]
               T == Im(t)
    <2>2. g \in Surjection(t, T)
        BY DEF Surjection
    <2> HIDE DEF g, T
    <2>3. IsFiniteSet(T)
        BY <2>1, <2>2, FS_Surjection
    <2> QED BY <2>1, <2>3 DEF T
<1>2. {} \in G
    <2>1. Im({}) = {}
        OBVIOUS
    <2> HIDE DEF Im
    <2> QED BY <2>1, SumEmpty
<1>3. ASSUME NEW t \in SUBSET S, t # {}, \A x \in t : t \ {x} \in G
      PROVE  t \in G
    <2> DEFINE p == Pick(t)
    <2>1. p \in t /\ Sum(v, t) = v[p] + Sum(v, t \ {p})
        BY <1>1, <1>3, SumPick
    <2> HIDE DEF p
    <2>2. Sum(v, t \ {p}) = Sum(w, Im(t \ {p}))
        BY <1>3, <2>1
    <2>3. Im(t \ {p}) = Im(t) \ {f[p]} /\ f[p] \in Im(t)
        BY <2>1
    <2>4. \A z \in Im(t) : w[z] \in Int
        OBVIOUS
    <2> HIDE DEF Im
    <2>5. Sum(w, Im(t)) = w[f[p]] + Sum(w, Im(t) \ {f[p]})
        BY <1>1, <2>3, <2>4, SumRemove
    <2>6. w[f[p]] = v[p]
        BY <2>1
    <2> QED BY <2>1, <2>2, <2>3, <2>5, <2>6
<1>4. S \in G
    <2> HIDE DEF G
    <2> QED BY <1>2, <1>3, SubsetInduction
<1> QED BY <1>4

\* Of finitely many numbers one is the greatest and one the least.
LEMMA Extremes ==
    ASSUME NEW S, IsFiniteSet(S), S # {}, S \subseteq Int
    PROVE  /\ Max(S) \in S /\ \A y \in S : y <= Max(S)
           /\ Min(S) \in S /\ \A y \in S : Min(S) <= y
<1> DEFINE G == {t \in SUBSET S : t # {} => /\ \E x \in t : \A y \in t : x >= y
                                           /\ \E x \in t : \A y \in t : x <= y}
<1>1. {} \in G
    OBVIOUS
<1>2. ASSUME NEW t \in SUBSET S, t # {}, \A x \in t : t \ {x} \in G
      PROVE  t \in G
    <2>1. PICK x \in t : TRUE
        BY <1>2
    <2>2. CASE t = {x}
        BY <2>2
    <2>3. CASE t \ {x} # {}
        <3>1. PICK a \in t \ {x}, b \in t \ {x} : \A y \in t \ {x} : a >= y /\ b <= y
            BY <1>2, <2>3
        <3>2. a \in Int /\ b \in Int /\ x \in Int /\ \A y \in t : y \in Int
            OBVIOUS
        <3>3. \E z \in t : \A y \in t : z >= y
            <4>1. CASE x >= a
                BY <3>1, <3>2, <4>1
            <4>2. CASE a >= x
                BY <3>1, <3>2, <4>2
            <4> QED BY <3>2, <4>1, <4>2
        <3>4. \E z \in t : \A y \in t : z <= y
            <4>1. CASE x <= b
                BY <3>1, <3>2, <4>1
            <4>2. CASE b <= x
                BY <3>1, <3>2, <4>2
            <4> QED BY <3>2, <4>1, <4>2
        <3> QED BY <3>3, <3>4
    <2> QED BY <2>1, <2>2, <2>3
<1>3. S \in G
    <2> HIDE DEF G
    <2> QED BY <1>1, <1>2, SubsetInduction
<1>4. PICK a \in S, b \in S : \A y \in S : a >= y /\ b <= y
    BY <1>3
<1>5. Max(S) \in S /\ \A y \in S : Max(S) >= y
    BY <1>4 DEF Max
<1>6. Min(S) \in S /\ \A y \in S : Min(S) <= y
    BY <1>4 DEF Min
<1>7. \A y \in S : y \in Int
    OBVIOUS
<1> QED BY <1>5, <1>6, <1>7

-----------------------------------------------------------------------------
(* The journal of card orders. *)

DebitsOf(t, row) == [o \in Orders |-> AmountOn(t[o], row)]

\* The balances, one by one: what an order with a committed Transaction has taken
\* of them is known from its allocations, not from the journal.
Journal == \A row \in Rows : avail[row] = funded[row] - Sum(DebitsOf(Paid, row), Orders)

\* What debits take of a row is a number.
LEMMA AmountOnType ==
    ASSUME NEW s \in Debits, NEW row
    PROVE  AmountOn(s, row) \in Nat
<1> DEFINE at == {i \in DOMAIN s : s[i].row = row}
<1>1. CASE at = {}
    BY <1>1 DEF AmountOn
<1>2. CASE at # {}
    <2>1. PICK i \in DOMAIN s : AmountOn(s, row) = s[i].amount
        BY <1>2 DEF AmountOn
    <2>2. s[i] \in [row : Rows, amount : 1..Price]
        BY ElementOfDebits DEF Debits
    <2> QED BY <2>1, <2>2, BoundsAssumption
<1> QED BY <1>1, <1>2

\* So is what all of them take of it.
LEMMA DebitsType ==
    ASSUME NEW t \in [Orders -> Debits], NEW row
    PROVE  /\ \A o \in Orders : DebitsOf(t, row)[o] \in Nat
           /\ Sum(DebitsOf(t, row), Orders) \in Int
<1>1. \A o \in Orders : DebitsOf(t, row)[o] \in Nat
    BY AmountOnType DEF DebitsOf
<1> HIDE DEF DebitsOf
<1> QED BY <1>1, SumType, OwnersAssumption

\* What was taken was allocated.
LEMMA PaidType ==
    ASSUME TypeOK
    PROVE  Paid \in [Orders -> Debits]
<1>1. <<>> \in Debits
    BY DEF Debits
<1> QED BY <1>1 DEF Paid, TypeOK

\* A commit takes from a balance what its order allocated.
LEMMA CommitKeepsJournal ==
    ASSUME IInv, Journal, NEW o \in Orders, Commit(o) \/ CommitUnconfirmed(o)
    PROVE  Journal'
<1>1. /\ pc[o] = "commit" /\ tx[o] = "open" /\ Apply(o) /\ UNCHANGED funded
    BY DEF Commit, CommitUnconfirmed
<1>2. Paid[o] = <<>> /\ Paid'[o] = plan[o] /\ Paid' = [Paid EXCEPT ![o] = plan[o]]
    BY CommitTakesPlan
<1>3. /\ Paid \in [Orders -> Debits] /\ Paid' \in [Orders -> Debits]
      /\ \A q \in Orders \ {o} : Paid'[q] = Paid[q]
    BY <1>2, PaidType DEF IInv, TypeOK
<1> SUFFICES ASSUME NEW row \in Rows
             PROVE  avail'[row] = funded[row] - Sum(DebitsOf(Paid', row), Orders)
    BY <1>1 DEF Journal, DebitsOf
<1>4. avail'[row] = avail[row] - AmountOn(plan[o], row)
    BY <1>1, StagedIsPlan DEF Apply
<1>5. AmountOn(<<>>, row) = 0
    BY DEF AmountOn
<1> DEFINE old == DebitsOf(Paid, row)
           new == DebitsOf(Paid', row)
<1>6. /\ old[o] = 0 /\ new[o] = AmountOn(plan[o], row)
      /\ \A q \in Orders \ {o} : new[q] = old[q]
    BY <1>2, <1>3, <1>5 DEF DebitsOf
<1>7. /\ \A q \in Orders : old[q] \in Nat /\ new[q] \in Nat
      /\ Sum(old, Orders) \in Int
    BY <1>3, DebitsType
<1>8. avail[row] = funded[row] - Sum(old, Orders) /\ avail[row] \in Int /\ funded[row] \in Int
    BY DEF Journal, IInv, TypeOK
<1> HIDE DEF old, new
<1>9. Sum(new, Orders) = Sum(old, Orders) + new[o] - old[o]
    BY <1>6, <1>7, SumChange, OwnersAssumption
<1>10. new[o] \in Int
    BY <1>7
<1>11. avail'[row] = funded[row] - Sum(new, Orders)
    BY <1>4, <1>6, <1>7, <1>8, <1>9, <1>10
<1> QED BY <1>11 DEF new

\* No other step debits; a swap gives and adds what it gave.
LEMMA NextKeepsJournal ==
    ASSUME IInv, Journal, [Next]_vars
    PROVE  Journal'
<1>1. ASSUME UNCHANGED <<avail, funded, txns>>,
             \A o \in Orders : txns[o] # <<>> => plan'[o] = plan[o]
      PROVE  Journal'
    <2>1. Paid' = Paid
        BY <1>1, PaidUnchanged
    <2> QED BY <1>1, <2>1 DEF Journal, DebitsOf
<1>2. ASSUME NEW o \in Orders, Throw(o, 400) \/ Throw(o, 500)
      PROVE  Journal'
    BY <1>1, <1>2 DEF Throw, journal
<1>3. ASSUME NEW o \in Orders, Submit(o)
      PROVE  Journal'
    BY <1>1, <1>2, <1>3 DEF Submit, journal
<1>4. ASSUME NEW o \in Orders, Allocate(o), ~Throw(o, 400)
      PROVE  Journal'
    <2>1. PICK p : plan' = [plan EXCEPT ![o] = p] /\ UNCHANGED <<avail, funded, txns>>
        BY <1>4 DEF Allocate, journal
    <2>2. txns[o] = <<>>
        BY <1>4 DEF Allocate, IInv, OrderInv, CommittedInv, Ended
    <2> QED BY <1>1, <2>1, <2>2 DEF IInv, TypeOK
<1>5. ASSUME NEW o \in Orders,
             \/ Begin(o) \/ CreateCardOrder(o) \/ CreateTransaction(o) \/ Decrement(o)
             \/ Publish(o) \/ TransactionTimeout(o) \/ Crash(o)
      PROVE  Journal'
    BY <1>1, <1>5 DEF Begin, CreateCardOrder, CreateTransaction, Decrement, Publish,
                      TransactionTimeout, Crash, journal
<1>6. ASSUME NEW o \in Orders,
             Rethrow(o) \/ UseExpired(o) \/ PoolTimeout(o) \/ DeadlockAbort(o)
      PROVE  Journal'
    BY <1>2, <1>6 DEF Rethrow, UseExpired, PoolTimeout, DeadlockAbort
<1>7. ASSUME NEW row \in Rows, Swap(row)
      PROVE  Journal'
    <2>1. /\ avail' = [avail EXCEPT ![row] = @ + 1] /\ funded' = [funded EXCEPT ![row] = @ + 1]
          /\ avail \in [Rows -> Int] /\ funded \in [Rows -> Nat]
        BY <1>7 DEF Swap, IInv, TypeOK
    <2>2. Paid' = Paid /\ Paid \in [Orders -> Debits]
        BY <1>7, PaidUnchanged, PaidType DEF Swap, journal, local, IInv
    <2> SUFFICES ASSUME NEW r \in Rows
                 PROVE  avail'[r] = funded'[r] - Sum(DebitsOf(Paid, r), Orders)
        BY <2>2 DEF Journal, DebitsOf
    <2>3. avail[r] = funded[r] - Sum(DebitsOf(Paid, r), Orders)
        BY DEF Journal
    <2>4. Sum(DebitsOf(Paid, r), Orders) \in Int
        BY <2>2, DebitsType
    <2> QED BY <2>1, <2>3, <2>4
<1>8. CASE UNCHANGED vars
    BY <1>1, <1>8 DEF vars
<1> QED BY <1>2, <1>3, <1>4, <1>5, <1>6, <1>7, <1>8, CommitKeepsJournal DEF Next, Handle

\* The positions of a wallet's entries.
Positions(list, wallet) == {i \in DOMAIN list : list[i].wallet = wallet}

\* What entries debit is a sum of a function.
LEMMA DebitIsSum ==
    ASSUME NEW list, NEW wallet
    PROVE  DebitOf(list, wallet)
               = Sum([i \in Positions(list, wallet) |-> list[i].amount], Positions(list, wallet))
<1> DEFINE I == Positions(list, wallet)
<1>1. DebitOf(list, wallet) = MapThenSumSet(LAMBDA i : list[i].amount, I)
    BY DEF DebitOf, Positions
<1> HIDE DEF I
<1>2. MapThenSumSet(LAMBDA i : list[i].amount, I) = Sum([i \in I |-> list[i].amount], I)
    BY DEF Sum, MapThenSumSet, MapThenFoldSet
<1> QED BY <1>1, <1>2 DEF I

\* The entries of a transaction debit a wallet with what was allocated of its
\* balances.
LEMMA EntriesDebitWallet ==
    ASSUME NEW p \in Debits, DistinctRows(p), NEW wallet \in Wallets
    PROVE  DebitOf(Entries(p), wallet)
               = Sum([row \in WalletRows(wallet) |-> AmountOn(p, row)], WalletRows(wallet))
<1> DEFINE R == WalletRows(wallet)
           I == {i \in DOMAIN p : WalletOf[p[i].row] = wallet}
           a == [i \in DOMAIN p |-> p[i].amount]
           rowAt == [i \in DOMAIN p |-> p[i].row]
           w == [row \in R |-> AmountOn(p, row)]
<1>1. \A i \in DOMAIN p : p[i].row \in Rows /\ p[i].amount \in Int
    <2>1. \A i \in DOMAIN p : p[i] \in [row : Rows, amount : 1..Price]
        BY ElementOfDebits DEF Debits
    <2> QED BY <2>1, BoundsAssumption
<1>2. IsFiniteSet(I) /\ IsFiniteSet(R)
    <2>1. DOMAIN p = 1..Len(p) /\ Len(p) \in Nat
        BY LenProperties DEF Debits
    <2>2. IsFiniteSet(1..Len(p))
        BY <2>1, FS_Interval
    <2> QED BY <2>1, <2>2, FS_Subset, OwnersAssumption DEF WalletRows
<1>3. DebitOf(Entries(p), wallet) = Sum([i \in I |-> Entries(p)[i].amount], I)
    <2>1. Positions(Entries(p), wallet) = I
        BY DEF Entries, Positions
    <2> HIDE DEF I
    <2> QED BY <2>1, DebitIsSum
<1>4. Sum([i \in I |-> Entries(p)[i].amount], I) = Sum(a, I)
    <2>1. \A i \in I : [j \in I |-> Entries(p)[j].amount][i] = a[i]
        BY DEF Entries
    <2> HIDE DEF I, a
    <2> QED BY <1>2, <2>1, SumEqual
<1>5. Sum(a, I) = Sum(w, {rowAt[i] : i \in I})
    <2>1. \A i, j \in I : i # j => rowAt[i] # rowAt[j]
        BY DEF DistinctRows
    <2>2. \A i \in I : a[i] \in Int /\ w[rowAt[i]] = a[i]
        BY <1>1, AmountOnItem DEF WalletRows
    <2> HIDE DEF I, a, w, rowAt
    <2> QED BY <1>2, <2>1, <2>2, SumRenamed
<1>6. Sum(w, {rowAt[i] : i \in I}) = Sum(w, R)
    <2> DEFINE taken == {rowAt[i] : i \in I}
    <2>1. taken \in SUBSET R
        BY <1>1 DEF WalletRows
    <2>2. \A row \in R : w[row] \in Int
        BY AmountOnType
    <2>3. ASSUME NEW row \in R \ taken PROVE w[row] = 0
        <3>1. \A i \in DOMAIN p : p[i].row # row
            BY <2>3 DEF WalletRows
        <3> QED BY <3>1, AmountOnNone
    <2> HIDE DEF taken, w, R
    <2>4. Sum(w, taken) = Sum(w, R)
        BY <1>2, <2>1, <2>2, <2>3, SumOfSupport
    <2> QED BY <2>4 DEF taken
<1> QED BY <1>3, <1>4, <1>5, <1>6

\* Summed up over the balances of a wallet, what was allocated is what the
\* journal says.
LEMMA JournalMatches == IInv /\ Journal => BalancesMatchJournal
<1> SUFFICES ASSUME IInv, Journal, NEW wallet \in Wallets
             PROVE  MapThenSumSet(LAMBDA row : avail[row], WalletRows(wallet))
                        = MapThenSumSet(LAMBDA row : funded[row], WalletRows(wallet))
                              - Debited(wallet)
    BY DEF BalancesMatchJournal
<1> DEFINE R == WalletRows(wallet)
           taken == [row \in R |-> DebitsOf(Paid, row)]
           byRow == [row \in R |-> Sum(taken[row], Orders)]
           byOrder == [o \in Orders |-> Sum([row \in R |-> taken[row][o]], R)]
           debits == [o \in Orders |-> DebitOf(txns[o], wallet)]
<1>1. IsFiniteSet(R) /\ R \subseteq Rows /\ IsFiniteSet(Orders)
    BY FS_Subset, OwnersAssumption DEF WalletRows
<1>2. Paid \in [Orders -> Debits]
    BY PaidType DEF IInv
<1>3. /\ \A row \in R, o \in Orders : taken[row][o] \in Int
      /\ \A row \in R : byRow[row] \in Int
    BY <1>2, DebitsType
<1>4. Sum(avail, R) = Sum(funded, R) - Sum(byRow, R)
    <2>1. \A row \in R : /\ funded[row] \in Int /\ byRow[row] \in Int
                         /\ avail[row] = funded[row] - byRow[row]
        BY <1>1, <1>3 DEF Journal, IInv, TypeOK
    <2> HIDE DEF byRow
    <2> QED BY <1>1, <2>1, SumDifference
<1>5. Sum(byRow, R) = Sum(byOrder, Orders)
    <2> HIDE DEF taken, R
    <2> QED BY <1>1, <1>3, SumExchange
<1>6. ASSUME NEW o \in Orders PROVE byOrder[o] = debits[o]
    <2> DEFINE amounts == [row \in R |-> AmountOn(Paid[o], row)]
    <2>1. byOrder[o] = Sum(amounts, R)
        <3>1. [row \in R |-> taken[row][o]] = amounts
            BY DEF DebitsOf
        <3> HIDE DEF amounts, taken
        <3> QED BY <3>1
    <2>2. CASE txns[o] = <<>>
        <3>1. Paid[o] = <<>>
            BY <2>2 DEF Paid
        <3>2. \A row \in R : amounts[row] = 0
            BY <3>1 DEF AmountOn
        <3>3. Sum(amounts, R) = 0
            <4> HIDE DEF amounts, R
            <4> QED BY <1>1, <3>2, SumOfZeros
        <3>4. Positions(<<>>, wallet) = {}
            BY DEF Positions
        <3>5. DebitOf(<<>>, wallet) = 0
            BY <3>4, DebitIsSum, SumEmpty
        <3> QED BY <2>1, <2>2, <3>3, <3>5
    <2>3. CASE txns[o] # <<>>
        <3>1. /\ txns[o] = Entries(plan[o]) /\ Paid[o] = plan[o]
              /\ DistinctRows(plan[o]) /\ plan[o] \in Debits
            BY <2>3 DEF Paid, IInv, TypeOK, OrderInv, CommittedInv
        <3> QED BY <2>1, <3>1, EntriesDebitWallet
    <2> QED BY <2>2, <2>3
<1>7. Sum(byOrder, Orders) = Sum(debits, Orders)
    <2> HIDE DEF byOrder, debits
    <2> QED BY <1>1, <1>6, SumEqual
<1>8. Debited(wallet) = Sum(debits, Orders)
    BY DEF Debited, Sum, MapThenSumSet, MapThenFoldSet
<1>9. /\ MapThenSumSet(LAMBDA row : avail[row], R) = Sum(avail, R)
      /\ MapThenSumSet(LAMBDA row : funded[row], R) = Sum(funded, R)
    BY DEF Sum
<1> QED BY <1>4, <1>5, <1>7, <1>8, <1>9

\* At every moment the DEBIT entries of a wallet add up to what its balances were
\* given and do not have any more.
THEOREM JournalExplainsBalances == Spec => []BalancesMatchJournal
<1>1. Init => Journal
    <2> SUFFICES ASSUME Init, NEW row \in Rows
                 PROVE  avail[row] = funded[row] - Sum(DebitsOf(Paid, row), Orders)
        BY DEF Journal
    <2>1. avail[row] \in Nat /\ funded = avail /\ txns = [o \in Orders |-> <<>>]
        BY BoundsAssumption DEF Init
    <2>2. \A o \in Orders : DebitsOf(Paid, row)[o] = 0
        BY <2>1 DEF DebitsOf, AmountOn, Paid
    <2> QED BY <2>1, <2>2, SumOfZeros, OwnersAssumption
<1>2. IInv /\ Journal /\ [Next]_vars => Journal'
    BY NextKeepsJournal
<1> QED BY <1>1, <1>2, JournalMatches, InductiveInvariant, PTL DEF Spec

-----------------------------------------------------------------------------
(* The total balance. *)

OfSymbol(s) == {b \in TokenBalances : SymbolOf[b] = s}

\* Rated and Worth of what a request has read.
RatedIn(f, l) == {s \in Symbols : l[f[s]] = "quoted"}

Worths(h, f, q, R) == [s \in R |-> Amount(h, s) * q[f[s]]]

WorthIn(h, f, l, q) == Sum(Worths(h, f, q, RatedIn(f, l)), RatedIn(f, l))

\* Finitely many balances have finitely many symbols.
LEMMA SymbolsFinite ==
    /\ IsFiniteSet(Symbols) /\ \A t \in SUBSET Symbols : IsFiniteSet(t)
    /\ \A s : IsFiniteSet(OfSymbol(s)) /\ OfSymbol(s) \subseteq TokenBalances
<1>1. IsFiniteSet(TokenBalances)
    BY TotalBalanceAssumption DEF IsFiniteSet
<1>2. IsFiniteSet(Symbols)
    <2> DEFINE f == [b \in TokenBalances |-> SymbolOf[b]]
               T == Symbols
    <2>1. f \in Surjection(TokenBalances, T)
        BY DEF Surjection, Symbols
    <2> HIDE DEF f, T
    <2> QED BY <1>1, <2>1, FS_Surjection DEF T
<1>3. \A s : OfSymbol(s) \subseteq TokenBalances
    BY DEF OfSymbol
<1> QED BY <1>1, <1>2, <1>3, FS_Subset

\* Amount and Worth are sums of functions.
LEMMA AmountIsSum ==
    ASSUME NEW h, NEW s
    PROVE  Amount(h, s) = Sum(h, OfSymbol(s))
BY DEF Amount, MapThenSumSet, MapThenFoldSet, Sum, OfSymbol

\* Amounts and rates are integers.
LEMMA NumbersAreIntegers == Amounts \union {0} \subseteq Int /\ Rates \subseteq Int
<1>1. Amounts \subseteq Int /\ Rates \subseteq Nat
    BY TotalBalanceAssumption
<1> QED BY <1>1

\* The balances of a symbol add up to an integer.
LEMMA AmountType ==
    ASSUME NEW h \in [TokenBalances -> Amounts \union {0}], NEW s
    PROVE  Amount(h, s) \in Int
<1>1. \A b \in OfSymbol(s) : h[b] \in Int
    BY NumbersAreIntegers DEF OfSymbol
<1> QED BY <1>1, AmountIsSum, SymbolsFinite, SumType

\* What a request is told is a sum over the symbols with a rate.
LEMMA WorthIsSum ==
    ASSUME NEW r
    PROVE  Worth(r) = WorthIn(held[r], first[r], lookup[r], quote[r])
<1>1. Rated(r) = RatedIn(first[r], lookup[r])
    BY DEF Rated, RatedIn
<1> QED BY <1>1 DEF Worth, MapThenSumSet, MapThenFoldSet, Sum, WorthIn, Worths

\* A product of integers is one.
LEMMA ProductType == \A x, y \in Int : x * y \in Int
OBVIOUS

\* It is a number if the rates that it uses are.
LEMMA WorthType ==
    ASSUME NEW h \in [TokenBalances -> Amounts \union {0}], NEW f \in QueryOrders, NEW l, NEW q,
           \A s \in RatedIn(f, l) : q[f[s]] \in Rates
    PROVE  /\ \A s \in RatedIn(f, l) : Worths(h, f, q, RatedIn(f, l))[s] \in Int
           /\ WorthIn(h, f, l, q) \in Int
<1> DEFINE R == RatedIn(f, l)
           w == Worths(h, f, q, R)
<1>1. IsFiniteSet(R)
    BY SymbolsFinite DEF RatedIn
<1>2. \A s \in R : Amount(h, s) \in Int /\ q[f[s]] \in Int
    BY NumbersAreIntegers, AmountType
<1>3. \A s \in R : w[s] \in Int
    BY <1>2, ProductType DEF Worths
<1> HIDE DEF R, w
<1>4. Sum(w, R) \in Int
    BY <1>1, <1>3, SumType
<1> QED BY <1>3, <1>4 DEF w, R, WorthIn

\* Every symbol has a balance that can come first.
LEMMA AnyOrderIsOrder ==
    AnyOrder \in QueryOrders
<1> DEFINE f == [s \in Symbols |-> CHOOSE b \in TokenBalances : SymbolOf[b] = s]
<1>1. f \in QueryOrders
    BY DEF QueryOrders, Symbols
<1> QED BY <1>1 DEF AnyOrder

\* What a request answered is what the balances it read are worth.
Summed(r) ==
    /\ step[r] = "idle"
    /\ \A b \in TokenBalances : lookup[r][b] \in {"hit", "notSuccess", "quoted"}
    /\ total[r] = WorthIn(held[r], first[r], lookup[r], quote[r])

\* A lookup that got an answer of Paycrest has its rate.
RequestInv(r) ==
    /\ \A b \in TokenBalances : lookup[r][b] \in {"set", "quoted"} => quote[r][b] \in Rates
    /\ answer[r] = "total" => Summed(r)

TotalInv == TotalTypeOK /\ \A r \in Requests : RequestInv(r)

\* Nothing has been looked up or answered at the start.
LEMMA TotalInit == WebhookInit => TotalInv
<1> SUFFICES ASSUME WebhookInit PROVE TotalInv
    OBVIOUS
<1>1. first \in [Requests -> QueryOrders] /\ held \in [Requests -> [TokenBalances -> Amounts \union {0}]]
    BY TotalBalanceAssumption, AnyOrderIsOrder DEF WebhookInit, Zero
<1>2. /\ step \in [Requests -> Stages] /\ answer \in [Requests -> Answers]
      /\ lookup \in [Requests -> [TokenBalances -> Lookups]]
      /\ quote \in [Requests -> [TokenBalances -> Rates \union {NoRate}]]
      /\ total \in [Requests -> Int \union {NoTotal}]
    BY DEF WebhookInit, Stages, Answers, Lookups
<1>3. moves \in 0..MaxMoves /\ failures \in 0..MaxFailures
    BY TotalBalanceAssumption DEF WebhookInit
<1>4. TotalTypeOK
    BY <1>1, <1>2, <1>3 DEF WebhookInit, TotalTypeOK
<1> QED BY <1>4 DEF TotalInv, WebhookInit, RequestInv

\* A lookup that ended in "quoted" has a rate: the sum is never NaN.
LEMMA SumIsWorth ==
    ASSUME TotalInv, NEW r \in Requests
    PROVE  /\ AddUp(r) = WorthIn(held[r], first[r], lookup[r], quote[r])
           /\ AddUp(r) \in Int
           /\ \A s \in RatedIn(first[r], lookup[r]) : quote[r][first[r][s]] \in Rates
<1>1. first[r] \in QueryOrders /\ held[r] \in [TokenBalances -> Amounts \union {0}]
    BY DEF TotalInv, TotalTypeOK
<1>2. Rated(r) = RatedIn(first[r], lookup[r])
    BY DEF Rated, RatedIn
<1>3. \A s \in RatedIn(first[r], lookup[r]) : quote[r][first[r][s]] \in Rates
    BY <1>1 DEF TotalInv, RequestInv, RatedIn, QueryOrders
<1>4. NoRate \notin Rates
    BY TotalBalanceAssumption DEF TotalInv
<1>5. WorthIn(held[r], first[r], lookup[r], quote[r]) \in Int
    BY <1>1, <1>3, WorthType DEF TotalInv
<1> QED BY <1>2, <1>3, <1>4, <1>5, WorthIsSum DEF AddUp

\* A step of one request leaves the others alone.
LEMMA Untouched ==
    ASSUME NEW r \in Requests, RequestInv(r),
           step'[r] = step[r], held'[r] = held[r], first'[r] = first[r], lookup'[r] = lookup[r],
           quote'[r] = quote[r], total'[r] = total[r], answer'[r] = answer[r]
    PROVE  RequestInv(r)'
BY DEF RequestInv, Summed

\* What others write does not change what a request holds.
LEMMA OthersKeepTotal ==
    ASSUME TotalInv, Move \/ Grow \/ Warm \/ Expire
    PROVE  TotalInv'
<1> USE DEF TotalInv
<1>1. /\ UNCHANGED <<step, reading, lookup, quote, total, answer>>
      /\ customer' \in BOOLEAN /\ hasWallets' \in BOOLEAN /\ cached' \subseteq Symbols
      /\ available' \in [TokenBalances -> Amounts]
    BY DEF Move, Grow, Warm, Expire, TotalTypeOK, database,
           Store, Provision
<1>2. moves' \in 0..MaxMoves /\ failures' \in 0..MaxFailures
    BY TotalBalanceAssumption DEF Move, Grow, Warm, Expire, TotalTypeOK, database
<1>3. TotalTypeOK'
    BY <1>1, <1>2 DEF TotalTypeOK, reading
<1> QED BY <1>1, <1>3, Untouched DEF reading

\* The steps of a request outside its lookups and its sum.
LEMMA StepsKeepTotal ==
    ASSUME TotalInv, NEW r \in Requests,
           \/ Receive(r) \/ FindCustomer(r) \/ GetWallets(r)
           \/ NoWallets(r) \/ Fail(r) \/ Reject(r)
    PROVE  TotalInv'
<1> USE DEF TotalInv, End, database, reading, Fault
<1> DEFINE Only(f, g) == \A q \in Requests : q # r => g[q] = f[q]
           none == [b \in TokenBalances |-> "none"]
           get == [b \in TokenBalances |-> "get"]
           unknown == [b \in TokenBalances |-> NoRate]
<1>1. /\ UNCHANGED <<customer, hasWallets, available, moves, cached>>
      /\ failures' \in 0..MaxFailures
    BY TotalBalanceAssumption
       DEF Receive, FindCustomer, GetWallets, NoWallets, Fail, Reject, TotalTypeOK
<1>2. /\ step' \in [Requests -> Stages] /\ answer' \in [Requests -> Answers]
      /\ Only(step, step') /\ Only(answer, answer') /\ answer'[r] # "total"
    <2>1. CASE Receive(r)
        BY <2>1 DEF Receive, TotalTypeOK, Stages, Answers
    <2>2. CASE FindCustomer(r) \/ GetWallets(r)
        <3>1. answer[r] # "total"
            BY <2>2 DEF FindCustomer, GetWallets, RequestInv, Summed
        <3> QED BY <2>2, <3>1 DEF FindCustomer, GetWallets, TotalTypeOK,
                                  Stages, Answers
    <2>3. CASE NoWallets(r) \/ Fail(r) \/ Reject(r)
        BY <2>3 DEF NoWallets, Fail, Reject, TotalTypeOK, Stages,
                    Answers
    <2> QED BY <2>1, <2>2, <2>3
<1>3. /\ held' \in [Requests -> [TokenBalances -> Amounts \union {0}]] /\ first' \in [Requests -> QueryOrders]
      /\ total' \in [Requests -> Int \union {NoTotal}]
      /\ Only(held, held') /\ Only(first, first') /\ Only(total, total')
    <2>1. CASE Receive(r)
        BY TotalBalanceAssumption, <2>1, AnyOrderIsOrder DEF Receive, TotalTypeOK, Zero
    <2>2. CASE GetWallets(r)
        BY <2>2 DEF GetWallets, TotalTypeOK
    <2>3. CASE FindCustomer(r) \/ NoWallets(r) \/ Fail(r) \/ Reject(r)
        BY <2>3 DEF FindCustomer, NoWallets, Fail, Reject, TotalTypeOK
    <2> QED BY <2>1, <2>2, <2>3
<1>4. /\ \/ UNCHANGED lookup
         \/ lookup' = [lookup EXCEPT ![r] = none]
         \/ lookup' = [lookup EXCEPT ![r] = get]
      /\ \/ UNCHANGED quote
         \/ quote' = [quote EXCEPT ![r] = unknown] /\ lookup' = [lookup EXCEPT ![r] = none]
    BY DEF Receive, FindCustomer, GetWallets, NoWallets, Fail,
           Reject
<1>5. /\ none \in [TokenBalances -> Lookups] /\ get \in [TokenBalances -> Lookups]
      /\ unknown \in [TokenBalances -> Rates \union {NoRate}]
      /\ \A b \in TokenBalances : none[b] = "none" /\ get[b] = "get"
    BY DEF Lookups
<1> HIDE DEF none, get, unknown
<1>6. /\ lookup' \in [Requests -> [TokenBalances -> Lookups]]
      /\ quote' \in [Requests -> [TokenBalances -> Rates \union {NoRate}]]
      /\ Only(lookup, lookup') /\ Only(quote, quote')
    <2>1. lookup \in [Requests -> [TokenBalances -> Lookups]]
          /\ quote \in [Requests -> [TokenBalances -> Rates \union {NoRate}]]
        BY DEF TotalTypeOK
    <2>2. lookup' \in [Requests -> [TokenBalances -> Lookups]] /\ Only(lookup, lookup')
        BY ONLY <1>4, <1>5, <2>1
    <2>3. quote' \in [Requests -> [TokenBalances -> Rates \union {NoRate}]] /\ Only(quote, quote')
        BY ONLY <1>4, <1>5, <2>1
    <2> QED BY <2>2, <2>3
<1>7. TotalTypeOK'
    BY <1>1, <1>2, <1>3, <1>6 DEF TotalTypeOK
<1>8. RequestInv(r)'
    BY <1>2, <1>4, <1>5 DEF RequestInv, TotalTypeOK
<1>9. ASSUME NEW q \in Requests, q # r PROVE RequestInv(q)'
    BY <1>2, <1>3, <1>6, <1>9, Untouched
<1> QED BY <1>7, <1>8, <1>9

\* A lookup that goes on belongs to a request that has not been summed up.
LEMMA LookupsKeepTotal ==
    ASSUME TotalInv, NEW r \in Requests, NEW b \in TokenBalances,
           \/ ReadCache(r, b) \/ AskPaycrest(r, b)
           \/ StoreRate(r, b) \/ FailLookup(r, b)
    PROVE  TotalInv'
<1> USE DEF TotalInv, TurnTo, database, reading, Fault
<1>1. /\ UNCHANGED <<customer, hasWallets, available, moves, step, held, first, total, answer>>
      /\ lookup[r][b] \in {"get", "ask", "set"}
      /\ failures' \in 0..MaxFailures /\ cached' \subseteq Symbols
    BY TotalBalanceAssumption
       DEF ReadCache, AskPaycrest, StoreRate, FailLookup, UnderWay, TotalTypeOK, Symbols
<1>2. \/ /\ \E l \in {"hit", "ask", "notSuccess", "threw"} : lookup' = [lookup EXCEPT ![r][b] = l]
         /\ UNCHANGED quote
      \/ /\ lookup' = [lookup EXCEPT ![r][b] = "set"]
         /\ \E q \in Rates : quote' = [quote EXCEPT ![r][b] = q]
      \/ /\ lookup[r][b] = "set"
         /\ lookup' = [lookup EXCEPT ![r][b] = "quoted"]
         /\ UNCHANGED quote
    BY DEF ReadCache, AskPaycrest, StoreRate, FailLookup
<1>3. /\ lookup' \in [Requests -> [TokenBalances -> Lookups]]
      /\ quote' \in [Requests -> [TokenBalances -> Rates \union {NoRate}]]
    <2>1. \A l \in Lookups :
             [lookup EXCEPT ![r][b] = l] \in [Requests -> [TokenBalances -> Lookups]]
        BY DEF TotalTypeOK
    <2>2. {"hit", "ask", "notSuccess", "threw", "set", "quoted"} \subseteq Lookups
        BY DEF Lookups
    <2>3. lookup' \in [Requests -> [TokenBalances -> Lookups]]
        BY <1>2, <2>1, <2>2
    <2>4. \A q \in Rates :
             [quote EXCEPT ![r][b] = q] \in [Requests -> [TokenBalances -> Rates \union {NoRate}]]
        BY DEF TotalTypeOK
    <2> QED BY <1>2, <2>3, <2>4 DEF TotalTypeOK
<1>4. TotalTypeOK'
    BY <1>1, <1>3 DEF TotalTypeOK
<1>5. answer[r] # "total"
    BY <1>1 DEF RequestInv, Summed
<1>6. RequestInv(r)'
    BY <1>1, <1>2, <1>5 DEF RequestInv, TotalTypeOK
<1>7. ASSUME NEW q \in Requests, q # r PROVE RequestInv(q)'
    BY <1>1, <1>2, <1>7, Untouched DEF TotalTypeOK
<1> QED BY <1>4, <1>6, <1>7

\* The sum is stored with what it was computed from.
LEMMA SumKeepsTotal ==
    ASSUME TotalInv, NEW r \in Requests, AnswerTotal(r)
    PROVE  TotalInv'
<1> USE DEF TotalInv, AnswerTotal, End, database, reading
<1>1. AddUp(r) \in Int /\ AddUp(r) = WorthIn(held[r], first[r], lookup[r], quote[r])
    BY SumIsWorth
<1>2. TotalTypeOK'
    BY <1>1 DEF TotalTypeOK, Stages, Answers
<1>3. RequestInv(r)'
    BY <1>1 DEF RequestInv, Summed, TotalTypeOK
<1>4. ASSUME NEW q \in Requests, q # r PROVE RequestInv(q)'
    BY <1>4, Untouched DEF TotalTypeOK
<1> QED BY <1>2, <1>3, <1>4

\* The invariant is inductive.
LEMMA NextKeepsTotal == TotalInv /\ [WebhookNext]_webhookVars => TotalInv'
<1> SUFFICES ASSUME TotalInv, [WebhookNext]_webhookVars PROVE TotalInv'
    OBVIOUS
<1>1. CASE UNCHANGED webhookVars
    <2>1. TotalTypeOK'
        BY <1>1 DEF webhookVars, TotalInv, TotalTypeOK
    <2> QED BY <1>1, <2>1, Untouched DEF webhookVars, TotalInv
<1>2. ASSUME NEW r \in Requests, Receive(r) \/ HandleWebhook(r) PROVE TotalInv'
    BY <1>2, StepsKeepTotal, LookupsKeepTotal, SumKeepsTotal DEF HandleWebhook, Look
<1> QED BY <1>1, <1>2, OthersKeepTotal DEF WebhookNext

\* What a symbol counts for: what it is worth if it is rated, else nothing.
Counted(r) == [s \in Symbols |->
                  IF s \in Rated(r) THEN Amount(held[r], s) * quote[r][first[r][s]] ELSE 0]

BestCounts(r) == [s \in Symbols |-> Max(Counts(r, s))]
WorstCounts(r) == [s \in Symbols |-> Min(Counts(r, s))]

\* The bounds of the properties are sums over all symbols.
LEMMA BoundsAreSums ==
    ASSUME NEW r
    PROVE  /\ AtBest(r) = Sum(BestCounts(r), Symbols)
           /\ AtWorst(r) = Sum(WorstCounts(r), Symbols)
<1>1. AtBest(r) = Sum(BestCounts(r), Symbols)
    BY DEF AtBest, MapThenSumSet, MapThenFoldSet, Sum, BestCounts
<1>2. AtWorst(r) = Sum(WorstCounts(r), Symbols)
    BY DEF AtWorst, MapThenSumSet, MapThenFoldSet, Sum, WorstCounts
<1> QED BY <1>1, <1>2

\* A symbol may count for finitely many numbers.
LEMMA CountsType ==
    ASSUME TotalInv, NEW r \in Requests, NEW s
    PROVE  IsFiniteSet(Counts(r, s)) /\ Counts(r, s) \subseteq Int
<1> DEFINE quoted == {b \in OfSymbol(s) : quote[r][b] # NoRate}
           f == [b \in quoted |-> Amount(held[r], s) * quote[r][b]]
           T == {Amount(held[r], s) * quote[r][b] : b \in quoted}
<1>1. IsFiniteSet(T)
    <2>1. f \in Surjection(quoted, T)
        BY DEF Surjection
    <2>2. IsFiniteSet(quoted)
        BY FS_Subset, SymbolsFinite DEF TotalInv
    <2> HIDE DEF f, T, quoted
    <2> QED BY <2>1, <2>2, FS_Surjection
<1>2. T \subseteq Int
    <2>1. Amount(held[r], s) \in Int
        BY AmountType DEF TotalInv, TotalTypeOK
    <2>2. \A b \in quoted : quote[r][b] \in Int
        <3>1. \A b \in quoted : quote[r][b] \in Rates
            BY DEF TotalInv, TotalTypeOK, OfSymbol
        <3> QED BY <3>1, NumbersAreIntegers
    <2>3. \A b \in quoted : Amount(held[r], s) * quote[r][b] \in Int
        BY <2>1, <2>2, ProductType
    <2> QED BY <2>3
<1>3. Counts(r, s) \subseteq T \union {0}
    BY DEF Counts, Quotes, OfSymbol
<1> HIDE DEF T, f, quoted
<1>4. IsFiniteSet(T \union {0})
    BY <1>1, FS_AddElement
<1>5. IsFiniteSet(Counts(r, s))
    BY <1>3, <1>4, FS_Subset
<1>6. Counts(r, s) \subseteq Int
    <2>1. 0 \in Int
        OBVIOUS
    <2>2. \A S : T \subseteq S /\ 0 \in S => Counts(r, s) \subseteq S
        BY <1>3, Zenon
    <2> QED BY <1>2, <2>1, <2>2, Zenon
<1> QED BY <1>5, <1>6

\* What it counts for is one of them.
LEMMA CountedIsCount ==
    ASSUME TotalInv, NEW r \in Requests, answer[r] = "total", NEW s \in Symbols
    PROVE  Counted(r)[s] \in Counts(r, s)
<1> DEFINE b == first[r][s]
<1>1. b \in TokenBalances /\ SymbolOf[b] = s
    BY DEF TotalInv, TotalTypeOK, QueryOrders
<1>2. CASE s \in Rated(r)
    <2>1. quote[r][b] \in Rates /\ NoRate \notin Rates
        BY <1>1, <1>2, TotalBalanceAssumption DEF TotalInv, RequestInv, Rated
    <2>2. quote[r][b] \in Quotes(r, s)
        BY <1>1, <2>1 DEF Quotes
    <2> QED BY <1>2, <2>2 DEF Counted, Counts
<1>3. CASE s \notin Rated(r)
    <2>1. lookup[r][b] \in {"hit", "notSuccess"}
        BY <1>1, <1>3 DEF TotalInv, RequestInv, Summed, Rated
    <2>2. PassedOver(r, s)
        BY <1>1, <2>1 DEF PassedOver
    <2> QED BY <1>3, <2>2 DEF Counted, Counts
<1> QED BY <1>2, <1>3

\* The total is what all symbols count for, those that are passed over included.
LEMMA TotalIsCounted ==
    ASSUME TotalInv, NEW r \in Requests, answer[r] = "total"
    PROVE  total[r] = Sum(Counted(r), Symbols)
<1> DEFINE R == RatedIn(first[r], lookup[r])
           v == Worths(held[r], first[r], quote[r], R)
           w == Counted(r)
<1>1. total[r] = Sum(v, R)
    BY DEF TotalInv, RequestInv, Summed, WorthIn
<1>2. R \in SUBSET Symbols /\ R = Rated(r) /\ IsFiniteSet(Symbols)
    BY SymbolsFinite DEF RatedIn, Rated, TotalInv
<1>3. /\ \A s \in R : v[s] = w[s]
      /\ \A s \in Symbols \ R : w[s] = 0
    BY <1>2 DEF Worths, Counted
<1>4. \A s \in Symbols : w[s] \in Int
    BY CountedIsCount, CountsType
<1> HIDE DEF R, v, w
<1> QED BY <1>1, <1>2, <1>3, <1>4, SumOfSupport DEF w

\* Each symbol counts for at most its best and at least its worst.
LEMMA TotalWithinBounds == TotalInv => NeverAboveBest /\ NeverBelowWorst
<1> SUFFICES ASSUME TotalInv, NEW r \in Requests, answer[r] = "total"
             PROVE  total[r] <= AtBest(r) /\ total[r] >= AtWorst(r)
    BY DEF NeverAboveBest, NeverBelowWorst
<1> DEFINE w == Counted(r)
           best == BestCounts(r)
           worst == WorstCounts(r)
<1>1. ASSUME NEW s \in Symbols
      PROVE  /\ w[s] \in Int /\ best[s] \in Int /\ worst[s] \in Int
             /\ worst[s] <= w[s] /\ w[s] <= best[s]
    <2> DEFINE C == Counts(r, s)
    <2>1. w[s] \in C /\ IsFiniteSet(C) /\ C \subseteq Int
        BY CountedIsCount, CountsType
    <2>2. best[s] = Max(C) /\ worst[s] = Min(C)
        BY DEF BestCounts, WorstCounts
    <2> HIDE DEF C, w, best, worst
    <2>3. Max(C) \in C /\ Min(C) \in C /\ w[s] <= Max(C) /\ Min(C) <= w[s]
        BY <2>1, Extremes
    <2> QED BY <2>1, <2>2, <2>3
<1>2. total[r] = Sum(w, Symbols) /\ AtBest(r) = Sum(best, Symbols) /\ AtWorst(r) = Sum(worst, Symbols)
    BY TotalIsCounted, BoundsAreSums
<1>3. IsFiniteSet(Symbols)
    BY SymbolsFinite DEF TotalInv
<1> HIDE DEF w, best, worst
<1>4. Sum(w, Symbols) <= Sum(best, Symbols) /\ Sum(worst, Symbols) <= Sum(w, Symbols)
    BY <1>1, <1>3, SumMonotone
<1>5. Sum(w, Symbols) \in Int /\ Sum(best, Symbols) \in Int /\ Sum(worst, Symbols) \in Int
    BY <1>1, <1>3, SumType
<1> QED BY <1>2, <1>4, <1>5

\* At every moment a request that answered a total holds the balances, rates and
\* first entries it was computed from, and that total is their sum.
THEOREM TotalInvariant == WebhookSpec => []TotalInv
BY TotalInit, NextKeepsTotal, PTL DEF WebhookSpec

\* The state of the total-balance webhook stays in its types: its sum is a number.
THEOREM TotalTypes == WebhookSpec => []TotalTypeOK
<1>1. TotalInv => TotalTypeOK
    BY DEF TotalInv
<1> QED BY <1>1, TotalInvariant, PTL

\* getTotalBalance never tells a card more than the balances it read count for at
\* best, for any balances, overdrawn ones included, and any rates and caching.
THEOREM NothingIsOverstated == WebhookSpec => []NeverAboveBest
BY TotalWithinBounds, TotalInvariant, PTL

\* Nor less than at worst: it is short only of symbols whose rate was in Redis or
\* refused.
THEOREM ShortOnlyForARate == WebhookSpec => []NeverBelowWorst
BY TotalWithinBounds, TotalInvariant, PTL

-----------------------------------------------------------------------------
(* The allocation loop. *)

\* The amounts of a plan, and what it takes of each balance.
AmountsOf(p) == [i \in DOMAIN p |-> p[i].amount]
TakenBy(p, S) == [id \in S |-> AmountOn(p, id)]

Names(ids) == {EntryName(id[2]) : id \in ids}

FundsOf(ids) == [balanceId : ids, token : Names(ids), amount : Nat]

\* What is still to be looked at: each balance once, in ascending order, none
\* smaller than one that has been taken from.
QueueInv ==
    /\ \A i \in DOMAIN sorted :
          /\ sorted[i].amount = Available[sorted[i].balanceId] /\ sorted[i].amount > 0
          /\ \A j \in DOMAIN sorted : i < j => /\ sorted[i].balanceId # sorted[j].balanceId
                                              /\ sorted[i].amount <= sorted[j].amount
          /\ \A j \in DOMAIN result :
                /\ result[j].balanceId # sorted[i].balanceId
                /\ Available[result[j].balanceId] <= sorted[i].amount

\* What has been taken: from each balance once, in ascending order, all of it
\* but from the last one.
TakenInv ==
    \A i \in DOMAIN result :
       /\ result[i].amount \in 1..Available[result[i].balanceId]
       /\ i < Len(result) \/ remaining > 0 =>
             result[i].amount = Available[result[i].balanceId]
       /\ \A j \in DOMAIN result : i < j =>
             /\ result[i].balanceId # result[j].balanceId
             /\ Available[result[i].balanceId] <= Available[result[j].balanceId]

\* No funded balance is forgotten.
NoneLost ==
    \A id \in Ids : Available[id] > 0 =>
       \/ \E i \in DOMAIN sorted : sorted[i].balanceId = id
       \/ \E i \in DOMAIN result : result[i].balanceId = id

SumInv ==
    /\ remaining = wanted - Sum(AmountsOf(Plan), DOMAIN Plan)
    /\ remaining = wanted - Sum(TakenBy(Plan, Ids), Ids)

StageInv ==
    /\ stage \in {"collect", "sort"} => sorted = <<>> /\ result = <<>>
    /\ stage = "sort" =>
          balances = {[balanceId |-> id, token |-> EntryName(id[2]), amount |-> Available[id]] :
                      id \in {x \in Ids : Available[x] > 0}}
    /\ stage \in {"deduct", "threw", "returned"} => NoneLost
    /\ stage = "threw" => remaining > 0 /\ sorted = <<>>
    /\ stage = "returned" => remaining = 0

LoopInv ==
    /\ wallets \in SeqOf(SeqOf(0..MaxAvailable, MaxPerWallet), MaxWallets)
    /\ wanted \in 1..MaxAmount /\ remaining \in 0..wanted
    /\ stage \in {"collect", "sort", "deduct", "threw", "returned"}
    /\ sorted \in Seq(FundsOf(Ids)) /\ result \in Seq(FundsOf(Ids))
    /\ QueueInv /\ TakenInv /\ SumInv /\ StageInv

\* What a plan takes is the sum of its amounts.
LEMMA TotalIsSum ==
    ASSUME NEW p
    PROVE  Total(p) = Sum(AmountsOf(p), DOMAIN p) /\ Total(p) = Sum(AmountsOf(p), DOMAIN p)
<1>1. Total(p) = Sum(AmountsOf(p), DOMAIN p)
    BY
       DEF Total, FoldSeq, FoldFunction, FoldFunctionOnSet, MapThenFoldSet, Sum,
           MapThenSumSet, AmountsOf
<1>2. Total(p) = Sum(AmountsOf(p), DOMAIN p)
    BY
       DEF Total, FoldSeq, FoldFunction, FoldFunctionOnSet, MapThenFoldSet, Sum,
           MapThenSumSet, AmountsOf
<1> QED BY <1>1, <1>2

\* The balances of the wallets are finitely many numbers.
LEMMA WalletsType ==
    ASSUME wallets \in SeqOf(SeqOf(0..MaxAvailable, MaxPerWallet), MaxWallets)
    PROVE  /\ IsFiniteSet(Ids)
           /\ Available \in [Ids -> Nat]
<1>1. PICK m \in 0..MaxWallets : wallets \in [1..m -> SeqOf(0..MaxAvailable, MaxPerWallet)]
    BY DEF SeqOf
<1>2. ASSUME NEW w \in 1..m
      PROVE  \E n \in 0..MaxPerWallet : wallets[w] \in [1..n -> 0..MaxAvailable]
    <2>1. wallets[w] \in SeqOf(0..MaxAvailable, MaxPerWallet)
        BY <1>1
    <2> QED BY <2>1 DEF SeqOf
<1>3. MaxWallets \in Nat /\ MaxPerWallet \in Nat /\ MaxAvailable \in Nat
    BY WalletsAssumption
<1>4. ASSUME NEW id \in Ids
      PROVE  id \in (1..MaxWallets) \X (1..MaxPerWallet) /\ Available[id] \in Nat
    <2>1. PICK w \in 1..m : id \in {w} \X DOMAIN wallets[w]
        BY <1>1 DEF Ids
    <2>2. PICK n \in 0..MaxPerWallet : wallets[w] \in [1..n -> 0..MaxAvailable]
        BY <1>2
    <2>3. id[1] = w /\ id[2] \in 1..n /\ id = <<id[1], id[2]>>
        BY <2>1, <2>2
    <2>4. Available[id] = wallets[w][id[2]]
        BY <2>3 DEF Available
    <2> QED BY <1>3, <2>2, <2>3, <2>4
<1>5. IsFiniteSet((1..MaxWallets) \X (1..MaxPerWallet))
    <2>1. IsFiniteSet(1..MaxWallets) /\ IsFiniteSet(1..MaxPerWallet)
        BY <1>3, FS_Interval
    <2> QED BY <2>1, FS_Product
<1>6. IsFiniteSet(Ids)
    BY <1>4, <1>5, FS_Subset
<1> QED BY <1>4, <1>6 DEF Available

\* Nothing has been collected or taken at the start.
LEMMA LoopInit == AllocationInit => LoopInv
<1> SUFFICES ASSUME AllocationInit PROVE LoopInv
    OBVIOUS
<1>1. wallets \in SeqOf(SeqOf(0..MaxAvailable, MaxPerWallet), MaxWallets)
    BY DEF AllocationInit, SeqOf
<1>2. /\ sorted = <<>> /\ result = <<>> /\ remaining = wanted /\ stage = "collect"
      /\ wanted \in 1..MaxAmount /\ MaxAmount \in Nat
    BY WalletsAssumption DEF AllocationInit
<1>3. Plan = <<>> /\ DOMAIN Plan = {}
    BY <1>2 DEF Plan
<1>4. \A id \in Ids : TakenBy(<<>>, Ids)[id] = 0
    BY DEF TakenBy, AmountOn
<1>5. /\ Sum(AmountsOf(Plan), DOMAIN Plan) = 0
      /\ Sum(TakenBy(Plan, Ids), Ids) = 0
    BY <1>1, <1>3, <1>4, SumEmpty, SumOfZeros, WalletsType
<1>6. QueueInv /\ TakenInv /\ StageInv /\ SumInv
    BY <1>2, <1>5 DEF QueueInv, TakenInv, StageInv, SumInv
<1> QED BY <1>1, <1>2, <1>6 DEF LoopInv

\* The sums over a plan are integers.
LEMMA PlanSumsType ==
    ASSUME NEW S, IsFiniteSet(S), NEW p \in Seq([row : S, amount : Nat])
    PROVE  /\ \A i \in DOMAIN p : AmountsOf(p)[i] = p[i].amount /\ p[i].amount \in Nat
           /\ \A id \in S : TakenBy(p, S)[id] \in Nat
           /\ Sum(AmountsOf(p), DOMAIN p) \in Int /\ Sum(TakenBy(p, S), S) \in Int
<1>1. /\ IsFiniteSet(DOMAIN p)
      /\ \A i \in DOMAIN p : p[i] \in [row : S, amount : Nat]
    <2>1. Len(p) \in Nat /\ DOMAIN p = 1..Len(p)
        BY LenProperties
    <2>2. IsFiniteSet(1..Len(p))
        BY <2>1, FS_Interval
    <2> QED BY <2>1, <2>2, ElementOfSeq
<1>2. \A i \in DOMAIN p : AmountsOf(p)[i] = p[i].amount /\ p[i].amount \in Nat
    BY <1>1 DEF AmountsOf
<1>3. ASSUME NEW id \in S PROVE TakenBy(p, S)[id] \in Nat
    <2> DEFINE At == {i \in DOMAIN p : p[i].row = id}
    <2>1. CASE At = {}
        BY <2>1 DEF AmountOn, TakenBy
    <2>2. CASE At # {}
        BY <1>2, <2>2 DEF AmountOn, TakenBy
    <2> QED BY <2>1, <2>2
<1>4. Sum(AmountsOf(p), DOMAIN p) \in Int
    BY <1>1, <1>2, SumType
<1>5. Sum(TakenBy(p, S), S) \in Int
    BY <1>3, SumType
<1> QED BY <1>2, <1>3, <1>4, <1>5

\* One more item adds its amount to what a plan takes.
LEMMA AppendToTotal ==
    ASSUME NEW S, IsFiniteSet(S), NEW p \in Seq([row : S, amount : Nat]),
           NEW x \in S, NEW d \in Nat, NEW q, q = Append(p, [row |-> x, amount |-> d])
    PROVE  Sum(AmountsOf(q), DOMAIN q) = Sum(AmountsOf(p), DOMAIN p) + d
<1> DEFINE n == Len(p)
           v == AmountsOf(p)
           w == AmountsOf(q)
<1>1. /\ n \in Nat /\ DOMAIN p = 1..n /\ DOMAIN q = 1..(n + 1) /\ (1..(n + 1)) \ {n + 1} = 1..n
      /\ \A i \in 1..n : q[i] = p[i]
      /\ q[n + 1] = [row |-> x, amount |-> d]
    OBVIOUS
<1> HIDE DEF n
<1>2. IsFiniteSet(1..n) /\ IsFiniteSet(1..(n + 1))
    BY <1>1, FS_Interval
<1>3. \A i \in 1..n : w[i] = p[i].amount /\ v[i] = p[i].amount /\ p[i].amount \in Nat
    BY <1>1, PlanSumsType DEF AmountsOf
<1>4. w[n + 1] = d
    BY <1>1 DEF AmountsOf
<1> HIDE DEF v, w
<1>5. \A i \in 1..n : w[i] = v[i] /\ v[i] \in Int
    BY <1>3
<1>6. \A i \in 1..(n + 1) : i \in 1..n \/ i = n + 1
    BY <1>1
<1>7. \A i \in 1..(n + 1) : w[i] \in Int
    BY <1>3, <1>4, <1>6
<1>8. n + 1 \in 1..(n + 1)
    BY <1>1
<1>9. Sum(w, 1..n) = Sum(v, 1..n)
    BY <1>2, <1>5, SumEqual
<1>10. Sum(v, 1..n) \in Int
    BY <1>2, <1>5, SumType
<1>11. Sum(w, 1..(n + 1)) = w[n + 1] + Sum(w, (1..(n + 1)) \ {n + 1})
    <2> DEFINE T == 1..(n + 1)
               t == n + 1
    <2>1. IsFiniteSet(T) /\ t \in T /\ \A i \in T : w[i] \in Int
        BY <1>2, <1>7, <1>8
    <2> HIDE DEF T, t
    <2>2. Sum(w, T) = w[t] + Sum(w, T \ {t})
        BY <2>1, SumRemove
    <2> QED BY <2>2 DEF T, t
<1>12. Sum(w, 1..(n + 1)) = d + Sum(v, 1..n)
    BY <1>1, <1>4, <1>9, <1>11
<1> QED BY <1>1, <1>10, <1>12 DEF v, w

\* And to what it takes of all balances together.
LEMMA AppendToTaken ==
    ASSUME NEW S, IsFiniteSet(S), NEW p \in Seq([row : S, amount : Nat]),
           NEW x \in S, NEW d \in Nat, \A i \in DOMAIN p : p[i].row # x,
           NEW q, q = Append(p, [row |-> x, amount |-> d])
    PROVE  Sum(TakenBy(q, S), S) = Sum(TakenBy(p, S), S) + d
<1> DEFINE n == Len(p)
           v == TakenBy(p, S)
           w == TakenBy(q, S)
           At(z, id) == {i \in DOMAIN z : z[i].row = id}
<1>1. /\ n \in Nat /\ DOMAIN p = 1..n /\ DOMAIN q = 1..(n + 1)
      /\ \A i \in 1..n : q[i] = p[i]
      /\ q[n + 1] = [row |-> x, amount |-> d]
    OBVIOUS
<1> HIDE DEF n
<1>2. \A id \in S : v[id] \in Nat
    BY PlanSumsType
<1>3. v[x] = 0 /\ w[x] = d
    <2>1. At(p, x) = {} /\ At(q, x) = {n + 1}
        BY <1>1
    <2> QED BY <1>1, <2>1 DEF TakenBy, AmountOn
<1>4. \A id \in S \ {x} : w[id] = v[id]
    <2> SUFFICES ASSUME NEW id \in S \ {x} PROVE AmountOn(q, id) = AmountOn(p, id)
        BY DEF TakenBy
    <2>1. At(q, id) = At(p, id) /\ At(p, id) \subseteq 1..n
        BY <1>1
    <2>2. CASE At(p, id) = {}
        BY <2>1, <2>2 DEF AmountOn
    <2>3. CASE At(p, id) # {}
        <3> DEFINE c == CHOOSE i \in At(p, id) : TRUE
        <3>1. c \in 1..n
            BY <2>1, <2>3
        <3>2. AmountOn(p, id) = p[c].amount /\ AmountOn(q, id) = q[c].amount
            BY <2>1, <2>3 DEF AmountOn
        <3> QED BY <1>1, <3>1, <3>2
    <2> QED BY <2>2, <2>3
<1> HIDE DEF v, w
<1>5. \A id \in S : v[id] \in Int /\ w[id] \in Int
    BY <1>2, <1>3, <1>4
<1>6. Sum(w, S) = Sum(v, S) + w[x] - v[x]
    BY <1>4, <1>5, SumChange
<1>7. Sum(v, S) \in Int
    BY <1>5, SumType
<1>8. Sum(w, S) = Sum(v, S) + d
    BY <1>3, <1>6, <1>7
<1> QED BY <1>8 DEF v, w

\* Math.min of two numbers.
LEMMA MinOfTwo ==
    ASSUME NEW a \in Int, NEW b \in Int
    PROVE  Min({a, b}) = IF a <= b THEN a ELSE b
<1>1. ASSUME a <= b PROVE Min({a, b}) = a
    <2>1. \A x \in {a, b} : (\A y \in {a, b} : x <= y) => x = a
        BY <1>1
    <2>2. \A y \in {a, b} : a <= y
        BY <1>1
    <2> QED BY <2>1, <2>2 DEF Min
<1>2. ASSUME ~(a <= b) PROVE Min({a, b}) = b
    <2>1. \A x \in {a, b} : (\A y \in {a, b} : x <= y) => x = b
        BY <1>2
    <2>2. \A y \in {a, b} : b <= y
        BY <1>2
    <2> QED BY <2>1, <2>2 DEF Min
<1> QED BY <1>1, <1>2

\* The balances are those of the wallets that were read.
LEMMA SameWallets ==
    ASSUME UNCHANGED wallets
    PROVE  Ids' = Ids /\ Available' = Available
BY DEF Ids, Available

\* The steps before and after the loop.
LEMMA LoopCollect == LoopInv /\ Collect => LoopInv'
<1> SUFFICES ASSUME LoopInv, Collect PROVE LoopInv'
    OBVIOUS
<1>1. /\ UNCHANGED <<wallets, wanted, sorted, result, remaining>>
      /\ stage = "collect" /\ stage' = "sort" /\ sorted = <<>> /\ result = <<>>
      /\ balances' = {[balanceId |-> id, token |-> EntryName(id[2]), amount |-> Available[id]] :
                      id \in {x \in Ids : Available[x] > 0}}
    BY DEF Collect, LoopInv, StageInv
<1>2. Ids' = Ids /\ Available' = Available /\ Plan' = Plan
    BY <1>1, SameWallets DEF Plan
<1>3. QueueInv' /\ TakenInv' /\ SumInv'
    BY <1>1, <1>2 DEF QueueInv, TakenInv, SumInv, LoopInv
<1>4. StageInv'
    BY <1>1, <1>2 DEF StageInv, EntryName
<1> QED BY WalletsAssumption, <1>1, <1>2, <1>3, <1>4
           DEF LoopInv, FundsOf, Names, EntryName

\* Either nothing remains or there is nothing left to take.
LEMMA LoopFinish == LoopInv /\ Finish => LoopInv'
<1> SUFFICES ASSUME LoopInv, Finish PROVE LoopInv'
    OBVIOUS
<1>1. /\ UNCHANGED <<wallets, wanted, balances, sorted, result, remaining>>
      /\ stage = "deduct" /\ stage' \in {"threw", "returned"}
      /\ sorted = <<>> \/ remaining <= 0
      /\ stage' = IF remaining > 0 THEN "threw" ELSE "returned"
    BY DEF Finish
<1>2. Ids' = Ids /\ Available' = Available /\ Plan' = Plan
    BY <1>1, SameWallets DEF Plan
<1>3. QueueInv' /\ TakenInv' /\ SumInv'
    BY <1>1, <1>2 DEF QueueInv, TakenInv, SumInv, LoopInv
<1>4. remaining \in Int /\ remaining >= 0 /\ NoneLost
    BY WalletsAssumption, <1>1 DEF LoopInv, StageInv
<1>5. StageInv'
    BY <1>1, <1>2, <1>4 DEF StageInv, NoneLost
<1> QED BY WalletsAssumption, <1>1, <1>2, <1>3, <1>5
           DEF LoopInv, FundsOf, Names, EntryName

\* Sorting loses no balance and repeats none.
LEMMA LoopSort == LoopInv /\ SortBalances => LoopInv'
<1> SUFFICES ASSUME LoopInv, SortBalances PROVE LoopInv'
    OBVIOUS
<1> DEFINE F == {x \in Ids : Available[x] > 0}
           rec == [id \in F |-> [balanceId |-> id, token |-> EntryName(id[2]), amount |-> Available[id]]]
           D == 1..Cardinality(balances)
<1>1. /\ UNCHANGED <<wallets, wanted, balances, result, remaining>>
      /\ stage = "sort" /\ stage' = "deduct" /\ sorted = <<>> /\ result = <<>>
      /\ balances = {rec[id] : id \in F}
      /\ sorted' \in SetToSeqs(balances) /\ Ascending(sorted')
    BY DEF SortBalances, LoopInv, StageInv
<1>2. Ids' = Ids /\ Available' = Available /\ Plan' = Plan
    BY <1>1, SameWallets DEF Plan
<1>3. IsFiniteSet(Ids) /\ Available \in [Ids -> Nat]
    BY WalletsType DEF LoopInv
<1>4. IsFiniteSet(balances)
    <2>1. rec \in Surjection(F, balances)
        BY <1>1 DEF Surjection
    <2>2. IsFiniteSet(F)
        BY <1>3, FS_Subset
    <2> HIDE DEF rec, F
    <2> QED BY <2>1, <2>2, FS_Surjection
<1>5. ASSUME NEW b \in balances
      PROVE  /\ b.balanceId \in F /\ b = rec[b.balanceId]
             /\ b.amount = Available[b.balanceId] /\ b \in FundsOf(Ids)
    <2>1. PICK id \in F : b = rec[id]
        BY <1>1, <1>5
    <2>2. b = [balanceId |-> id, token |-> EntryName(id[2]), amount |-> Available[id]]
        BY <2>1
    <2>3. EntryName(id[2]) \in Names(Ids) /\ Available[id] \in Nat
        BY <1>3 DEF Names
    <2> QED BY <2>1, <2>2, <2>3 DEF FundsOf
<1>6. Cardinality(balances) \in Nat
    BY <1>4, FS_CardinalityType
<1>7. /\ sorted' \in [D -> balances]
      /\ \A i, j \in D : i # j => sorted'[i] # sorted'[j]
    BY <1>1 DEF SetToSeqs, Cardinality, IsFiniteSet
<1>8. sorted' \in Surjection(D, balances)
    <2>1. sorted' \in Injection(D, balances)
        BY <1>7 DEF Injection, IsInjective
    <2>2. Cardinality(D) = Cardinality(balances)
        BY <1>6, FS_Interval
    <2> QED BY <1>4, <2>1, <2>2, FS_Injection
<1> HIDE DEF rec
<1>9. sorted' \in Seq(FundsOf(Ids)) /\ DOMAIN sorted' = D /\ \A i \in D : sorted'[i] \in balances
    BY <1>5, <1>6, <1>7
<1>10. QueueInv'
    <2> SUFFICES ASSUME NEW i \in D
                 PROVE  /\ sorted'[i].amount = Available[sorted'[i].balanceId] /\ sorted'[i].amount > 0
                        /\ \A j \in D : i < j => /\ sorted'[i].balanceId # sorted'[j].balanceId
                                                 /\ sorted'[i].amount <= sorted'[j].amount
        BY <1>1, <1>2, <1>9 DEF QueueInv
    <2>1. sorted'[i].amount = Available[sorted'[i].balanceId] /\ sorted'[i].amount > 0
        BY <1>5, <1>9
    <2>2. ASSUME NEW j \in D, i < j PROVE sorted'[i].balanceId # sorted'[j].balanceId
        BY <1>5, <1>6, <1>7, <1>9, <2>2
    <2>3. ASSUME NEW j \in D, i < j PROVE sorted'[i].amount <= sorted'[j].amount
        BY <1>1, <1>9, <2>3 DEF Ascending
    <2> QED BY <2>1, <2>2, <2>3
<1>11. NoneLost'
    <2> SUFFICES ASSUME NEW id \in Ids, Available[id] > 0
                 PROVE  \E i \in D : sorted'[i].balanceId = id
        BY <1>2, <1>9 DEF NoneLost
    <2>1. rec[id] \in balances /\ rec[id].balanceId = id
        BY <1>1 DEF rec
    <2>2. PICK i \in D : sorted'[i] = rec[id]
        BY <1>8, <2>1 DEF Surjection
    <2> QED BY <2>1, <2>2
<1>12. TakenInv' /\ SumInv' /\ StageInv'
    BY <1>1, <1>2, <1>11 DEF TakenInv, SumInv, StageInv, LoopInv
<1> QED BY WalletsAssumption, <1>1, <1>2, <1>9, <1>10, <1>12
           DEF LoopInv, FundsOf, Names, EntryName

\* One balance, in full or as much as is still to be taken.
LEMMA LoopDeduct == LoopInv /\ Deduct => LoopInv'
<1> SUFFICES ASSUME LoopInv, Deduct PROVE LoopInv'
    OBVIOUS
<1> DEFINE x == Head(sorted)
           d == Min({remaining, x.amount})
           y == [x EXCEPT !.amount = d]
           k == Len(sorted)
           m == Len(result)
           A == Available
<1>1. /\ UNCHANGED <<wallets, wanted, balances, stage>>
      /\ stage = "deduct" /\ sorted # <<>> /\ remaining > 0
      /\ result' = Append(result, y) /\ remaining' = remaining - d /\ sorted' = Tail(sorted)
    BY DEF Deduct
<1>2. /\ sorted \in Seq(FundsOf(Ids)) /\ result \in Seq(FundsOf(Ids))
      /\ remaining \in Int /\ wanted \in Int /\ remaining <= wanted
    BY WalletsAssumption DEF LoopInv
<1>3. Ids' = Ids /\ Available' = A
    BY <1>1, SameWallets
<1>4. A \in [Ids -> Nat] /\ IsFiniteSet(Ids)
    BY WalletsType DEF LoopInv
<1>5. /\ k \in Nat /\ k > 0 /\ DOMAIN sorted = 1..k /\ x = sorted[1]
      /\ m \in Nat /\ DOMAIN result = 1..m
      /\ \A i \in 1..k : sorted[i] \in FundsOf(Ids)
      /\ \A i \in 1..m : result[i] \in FundsOf(Ids)
    BY <1>1, <1>2, ElementOfSeq
<1>6. /\ x \in FundsOf(Ids) /\ x.balanceId \in Ids
      /\ x.amount = A[x.balanceId] /\ x.amount \in Nat /\ x.amount > 0
    <2>1. 1 \in DOMAIN sorted /\ sorted[1] \in FundsOf(Ids)
        BY <1>5
    <2>2. sorted[1].amount = A[sorted[1].balanceId] /\ sorted[1].amount > 0
        BY <2>1 DEF LoopInv, QueueInv
    <2> HIDE DEF x, A
    <2> QED BY <1>5, <2>1, <2>2 DEF FundsOf
<1>7. d \in Nat /\ d \in 1..x.amount /\ d <= remaining /\ (d = remaining \/ d = x.amount)
    <2> HIDE DEF x
    <2>1. d = IF remaining <= x.amount THEN remaining ELSE x.amount
        BY <1>2, <1>6, MinOfTwo
    <2> HIDE DEF d
    <2> QED BY <1>1, <1>2, <1>6, <2>1
<1> HIDE DEF d
<1>8. y \in FundsOf(Ids) /\ y.balanceId = x.balanceId /\ y.amount = d
    BY <1>6, <1>7 DEF FundsOf
<1> HIDE DEF x, y
<1>9. /\ DOMAIN sorted' = 1..(k - 1) /\ \A i \in 1..(k - 1) : sorted'[i] = sorted[i + 1] /\ i + 1 \in 1..k
      /\ sorted' \in Seq(FundsOf(Ids))
    BY <1>1, <1>2, <1>5
<1>10. /\ Len(result') = m + 1 /\ DOMAIN result' = 1..(m + 1)
       /\ \A i \in 1..m : result'[i] = result[i]
       /\ result'[m + 1] = y
       /\ result' \in Seq(FundsOf(Ids))
    BY <1>1, <1>2, <1>5, <1>8
<1> HIDE DEF k, m, A
<1>11. \A i \in 1..(m + 1) : i \in 1..m \/ i = m + 1
    BY <1>5
<1>12. QueueInv'
    <2> SUFFICES ASSUME NEW i \in 1..(k - 1)
                 PROVE  /\ sorted'[i].amount = A[sorted'[i].balanceId] /\ sorted'[i].amount > 0
                        /\ \A j \in 1..(k - 1) : i < j => /\ sorted'[i].balanceId # sorted'[j].balanceId
                                                          /\ sorted'[i].amount <= sorted'[j].amount
                        /\ \A j \in 1..(m + 1) : /\ result'[j].balanceId # sorted'[i].balanceId
                                                 /\ A[result'[j].balanceId] <= sorted'[i].amount
        BY <1>3, <1>9, <1>10 DEF QueueInv
    <2>1. sorted'[i] = sorted[i + 1] /\ i + 1 \in 1..k /\ 1 \in 1..k /\ 1 < i + 1
        BY <1>5, <1>9
    <2>2. sorted'[i].amount = A[sorted'[i].balanceId] /\ sorted'[i].amount > 0
        BY <1>5, <2>1 DEF LoopInv, QueueInv, A
    <2>3. ASSUME NEW j \in 1..(k - 1), i < j
          PROVE  /\ sorted'[i].balanceId # sorted'[j].balanceId
                 /\ sorted'[i].amount <= sorted'[j].amount
        <3>1. sorted'[j] = sorted[j + 1] /\ j + 1 \in 1..k /\ i + 1 < j + 1
            BY <1>5, <1>9, <2>3
        <3> QED BY <1>5, <2>1, <3>1 DEF LoopInv, QueueInv
    <2>4. ASSUME NEW j \in 1..m
          PROVE  /\ result'[j].balanceId # sorted'[i].balanceId
                 /\ A[result'[j].balanceId] <= sorted'[i].amount
        <3>1. /\ result'[j] = result[j] /\ sorted'[i] = sorted[i + 1]
              /\ j \in DOMAIN result /\ i + 1 \in DOMAIN sorted
            BY <1>5, <1>10, <2>1
        <3>2. /\ result[j].balanceId # sorted[i + 1].balanceId
              /\ A[result[j].balanceId] <= sorted[i + 1].amount
            BY <3>1 DEF LoopInv, QueueInv, A
        <3> QED BY <3>1, <3>2
    <2>5. /\ y.balanceId # sorted'[i].balanceId
          /\ A[y.balanceId] <= sorted'[i].amount
        BY <1>5, <1>6, <1>8, <2>1 DEF LoopInv, QueueInv
    <2> QED BY <1>10, <1>11, <2>2, <2>3, <2>4, <2>5
<1>13. TakenInv'
    <2> DEFINE al == result'
    <2> SUFFICES ASSUME NEW i \in 1..(m + 1)
                 PROVE  /\ al[i].amount \in 1..A[al[i].balanceId]
                        /\ i < m + 1 \/ remaining' > 0 => al[i].amount = A[al[i].balanceId]
                        /\ \A j \in 1..(m + 1) : i < j =>
                              /\ al[i].balanceId # al[j].balanceId
                              /\ A[al[i].balanceId] <= A[al[j].balanceId]
        BY <1>3, <1>10 DEF TakenInv
    <2>1. CASE i \in 1..m
        <3>1. /\ al[i] = result[i] /\ al[i].amount \in 1..A[al[i].balanceId]
              /\ al[i].amount = A[al[i].balanceId]
            BY <1>1, <1>5, <1>10, <2>1 DEF LoopInv, TakenInv, A
        <3>2. ASSUME NEW j \in 1..m, i < j
              PROVE  al[i].balanceId # al[j].balanceId /\ A[al[i].balanceId] <= A[al[j].balanceId]
            <4>1. /\ result[i].balanceId # result[j].balanceId
                  /\ A[result[i].balanceId] <= A[result[j].balanceId]
                BY <1>5, <2>1, <3>2 DEF LoopInv, TakenInv, A
            <4>2. al[i] = result[i] /\ al[j] = result[j]
                BY <1>10, <2>1, <3>2
            <4> QED BY <4>1, <4>2
        <3>3. y.balanceId # al[i].balanceId /\ A[al[i].balanceId] <= A[y.balanceId]
            BY <1>5, <1>6, <1>8, <2>1, <3>1 DEF LoopInv, QueueInv, A
        <3> QED BY <1>10, <1>11, <3>1, <3>2, <3>3
    <2>2. CASE i = m + 1
        <3>1. al[i] = y /\ y.amount \in 1..A[y.balanceId]
            BY <1>6, <1>7, <1>8, <1>10, <2>2
        <3>2. remaining' > 0 => y.amount = A[y.balanceId]
            BY <1>1, <1>2, <1>6, <1>7, <1>8
        <3>3. \A j \in 1..(m + 1) : ~(i < j)
            BY <1>5, <2>2
        <3> QED BY <1>5, <2>2, <3>1, <3>2, <3>3
    <2> QED BY <1>11, <2>1, <2>2
<1>14. NoneLost'
    <2> SUFFICES ASSUME NEW id \in Ids, A[id] > 0
                 PROVE  \/ \E i \in 1..(k - 1) : sorted'[i].balanceId = id
                        \/ \E i \in 1..(m + 1) : result'[i].balanceId = id
        BY <1>3, <1>9, <1>10 DEF NoneLost
    <2>1. \/ \E i \in 1..k : sorted[i].balanceId = id
          \/ \E i \in 1..m : result[i].balanceId = id
        BY <1>1, <1>5 DEF LoopInv, StageInv, NoneLost, A
    <2>2. ASSUME NEW i \in 1..k, sorted[i].balanceId = id, i # 1
          PROVE  \E j \in 1..(k - 1) : sorted'[j].balanceId = id
        <3>1. i - 1 \in 1..(k - 1) /\ (i - 1) + 1 = i
            BY <1>5, <2>2
        <3> QED BY <1>9, <2>2, <3>1
    <2>3. m + 1 \in 1..(m + 1) /\ \A i \in 1..m : i \in 1..(m + 1)
        BY <1>5
    <2> QED BY <1>5, <1>8, <1>10, <2>1, <2>2, <2>3
<1>15. SumInv' /\ remaining' \in 0..wanted
    <2> DEFINE p == Plan
    <2>1. p \in Seq([row : Ids, amount : Nat]) /\ DOMAIN p = 1..m
        BY <1>5 DEF Plan, FundsOf
    <2>2. \A i \in DOMAIN p : p[i].row # x.balanceId
        BY <1>5 DEF Plan, LoopInv, QueueInv
    <2>3. p' = Append(p, [row |-> x.balanceId, amount |-> d])
        <3>1. p' = [i \in 1..(m + 1) |-> [row |-> result'[i].balanceId, amount |-> result'[i].amount]]
            BY <1>10 DEF Plan
        <3>2. p = [i \in 1..m |-> [row |-> result[i].balanceId, amount |-> result[i].amount]]
            BY <1>5 DEF Plan
        <3> QED BY <1>5, <1>8, <1>10, <1>11, <3>1, <3>2
    <2> HIDE DEF p
    <2>4. /\ Sum(AmountsOf(p'), DOMAIN p') = Sum(AmountsOf(p), DOMAIN p) + d
          /\ Sum(TakenBy(p', Ids), Ids) = Sum(TakenBy(p, Ids), Ids) + d
          /\ Sum(AmountsOf(p), DOMAIN p) \in Int /\ Sum(TakenBy(p, Ids), Ids) \in Int
        <3> DEFINE S == Ids
                   id == x.balanceId
                   q == p'
        <3>1. /\ IsFiniteSet(S) /\ p \in Seq([row : S, amount : Nat]) /\ id \in S /\ d \in Nat
              /\ \A i \in DOMAIN p : p[i].row # id
              /\ q = Append(p, [row |-> id, amount |-> d])
            BY <1>4, <1>6, <1>7, <2>1, <2>2, <2>3
        <3> HIDE DEF S, id, q
        <3>2. Sum(AmountsOf(q), DOMAIN q) = Sum(AmountsOf(p), DOMAIN p) + d
            BY <3>1, AppendToTotal
        <3>3. Sum(TakenBy(q, S), S) = Sum(TakenBy(p, S), S) + d
            BY <3>1, AppendToTaken
        <3>4. Sum(AmountsOf(p), DOMAIN p) \in Int /\ Sum(TakenBy(p, S), S) \in Int
            BY <3>1, PlanSumsType
        <3> QED BY <3>2, <3>3, <3>4 DEF S, q
    <2>5. /\ remaining = wanted - Sum(AmountsOf(p), DOMAIN p)
          /\ remaining = wanted - Sum(TakenBy(p, Ids), Ids)
        BY DEF LoopInv, SumInv, p
    <2>6. /\ remaining' = wanted - Sum(AmountsOf(p'), DOMAIN p')
          /\ remaining' = wanted - Sum(TakenBy(p', Ids), Ids)
        <3> DEFINE a == Sum(AmountsOf(p), DOMAIN p)
                   b == Sum(TakenBy(p, Ids), Ids)
        <3>1. /\ a \in Int /\ b \in Int /\ remaining = wanted - a /\ remaining = wanted - b
              /\ remaining' = remaining - d
            BY <1>1, <2>4, <2>5
        <3>2. /\ Sum(AmountsOf(p'), DOMAIN p') = a + d
              /\ Sum(TakenBy(p', Ids), Ids) = b + d
            BY <2>4
        <3> HIDE DEF a, b
        <3>3. remaining' = wanted - (a + d) /\ remaining' = wanted - (b + d)
            BY <1>2, <1>7, <3>1
        <3> QED BY <3>2, <3>3
    <2>7. remaining' \in 0..wanted
        BY <1>1, <1>2, <1>7
    <2> QED BY <1>1, <1>3, <2>6, <2>7 DEF SumInv, p
<1>16. StageInv'
    BY <1>1, <1>14 DEF StageInv
<1> QED BY WalletsAssumption, <1>1, <1>3, <1>9, <1>10, <1>12, <1>13, <1>15, <1>16
           DEF LoopInv, FundsOf, Names, EntryName

\* The invariant is inductive.
LEMMA LoopNext == LoopInv /\ [AllocationNext]_allocationVars => LoopInv'
<1>1. ASSUME LoopInv, UNCHANGED allocationVars PROVE LoopInv'
    <2>1. UNCHANGED <<wallets, wanted, balances, sorted, result, remaining, stage>>
        BY <1>1 DEF allocationVars
    <2>2. Ids' = Ids /\ Available' = Available /\ Plan' = Plan
        BY <2>1, SameWallets DEF Plan
    <2>3. QueueInv' /\ TakenInv' /\ SumInv'
        BY <1>1, <2>1, <2>2 DEF QueueInv, TakenInv, SumInv, LoopInv
    <2>4. StageInv'
        BY <1>1, <2>1, <2>2 DEF StageInv, NoneLost, LoopInv, EntryName
    <2> QED BY WalletsAssumption, <1>1, <2>1, <2>2, <2>3, <2>4
               DEF LoopInv, FundsOf, Names, EntryName
<1> QED BY <1>1, LoopCollect, LoopSort, LoopDeduct, LoopFinish DEF AllocationNext

\* What the loop promises follows from the invariant.
LEMMA LoopTypes == LoopInv => AllocationTypeOK
BY TotalIsSum DEF LoopInv, AllocationTypeOK, SumInv, TakenInv

\* With nothing remaining, what was taken is a plan.
LEMMA LoopReturnsPlan == LoopInv => ReturnsPlan
<1> SUFFICES ASSUME LoopInv, stage = "returned"
             PROVE  IsPlan(Plan, Available, wanted)
    BY DEF ReturnsPlan
<1> DEFINE p == Plan
           m == Len(result)
           A == Available
<1>1. /\ m \in Nat /\ DOMAIN result = 1..m /\ DOMAIN p = 1..m /\ Len(p) = m
      /\ \A i \in 1..m : p[i].row = result[i].balanceId /\ p[i].amount = result[i].amount
    BY DEF LoopInv, Plan
<1>2. A \in [Ids -> Nat] /\ DOMAIN A = Ids
    BY WalletsType DEF LoopInv
<1>3. Total(p) = wanted /\ wanted > 0
    <2>1. remaining = wanted - Sum(AmountsOf(p), DOMAIN p) /\ remaining = 0
        BY DEF LoopInv, SumInv, StageInv
    <2>2. wanted \in Int /\ wanted > 0
        BY WalletsAssumption DEF LoopInv
    <2>3. Sum(AmountsOf(p), DOMAIN p) \in Int
        <3>1. p \in Seq([row : Ids, amount : Nat])
            <4>1. \A i \in 1..m : result[i] \in FundsOf(Ids)
                BY <1>1, ElementOfSeq DEF LoopInv
            <4>2. \A i \in 1..m : p[i] \in [row : Ids, amount : Nat]
                BY <1>1, <4>1 DEF FundsOf, Plan
            <4> QED BY <1>1, <4>2 DEF Plan
        <3> HIDE DEF p
        <3> QED BY <3>1, PlanSumsType, WalletsType DEF LoopInv
    <2> QED BY <2>1, <2>2, <2>3, TotalIsSum
<1>4. p # <<>>
    <2>1. AmountsOf(<<>>) = <<>> /\ DOMAIN <<>> = {}
        BY DEF AmountsOf
    <2>2. Total(<<>>) = 0
        BY <2>1, TotalIsSum, SumEmpty
    <2> QED BY <1>3, <2>2
<1> HIDE DEF p, m, A
<1>5. \A i, j \in DOMAIN p : i < j =>
         /\ p[i].row # p[j].row
         /\ A[p[i].row] <= A[p[j].row]
    BY <1>1 DEF LoopInv, TakenInv, A
<1>6. \A i \in DOMAIN p : i < Len(p) => p[i].amount = A[p[i].row]
    BY <1>1 DEF LoopInv, TakenInv, A, m
<1>7. ASSUME NEW row \in Ids, A[row] > 0, \A i \in DOMAIN p : p[i].row # row
      PROVE  \A i \in DOMAIN p : A[p[i].row] <= A[row]
    <2>1. PICK i \in DOMAIN sorted : sorted[i].balanceId = row
        BY <1>1, <1>7 DEF LoopInv, StageInv, NoneLost, A
    <2> QED BY <1>1, <2>1 DEF LoopInv, QueueInv, A
<1>8. \A row \in DOMAIN A : \/ A[row] <= 0
                            \/ \E i \in DOMAIN p : p[i].row = row
                            \/ \A i \in DOMAIN p : A[p[i].row] <= A[row]
    BY <1>2, <1>7
<1>9. IsPlan(p, A, wanted)
    BY <1>3, <1>4, <1>5, <1>6, <1>8 DEF IsPlan
<1> QED BY <1>9 DEF p, A

\* With something remaining and nothing in the queue, every balance was drained.
LEMMA LoopThrowsOnlyWhenShort == LoopInv => ThrowsOnlyWhenShort
<1> DEFINE S == Ids
           A == Available
           T == TakenBy(Plan, S)
<1> SUFFICES ASSUME LoopInv, stage = "threw"
             PROVE  MapThenSumSet(LAMBDA id : A[id], S) < wanted
    BY DEF ThrowsOnlyWhenShort
<1>1. MapThenSumSet(LAMBDA id : A[id], S) = Sum(A, S)
    BY DEF MapThenSumSet, MapThenFoldSet, Sum
<1>2. IsFiniteSet(S) /\ A \in [S -> Nat]
    BY WalletsType DEF LoopInv
<1>3. remaining > 0 /\ sorted = <<>> /\ NoneLost
    BY DEF LoopInv, StageInv
<1>4. ASSUME NEW id \in S PROVE A[id] = T[id]
    <2> DEFINE p == Plan
               at == {i \in DOMAIN p : p[i].row = id}
    <2>1. /\ DOMAIN p = DOMAIN result
          /\ \A i \in DOMAIN p : p[i].row = result[i].balanceId /\ p[i].amount = A[p[i].row]
        BY <1>3 DEF Plan, LoopInv, TakenInv
    <2>2. CASE at = {}
        <3>1. A[id] = 0
            BY <1>2, <1>3, <2>1, <2>2 DEF NoneLost
        <3> QED BY <2>2, <3>1 DEF TakenBy, AmountOn
    <2>3. CASE at # {}
        <3> HIDE DEF p
        <3>1. AmountOn(p, id) = A[id]
            BY <2>1, <2>3 DEF AmountOn
        <3> QED BY <3>1 DEF TakenBy, p
    <2> QED BY <2>2, <2>3
<1>5. remaining = wanted - Sum(T, S) /\ wanted \in Int
    BY WalletsAssumption DEF LoopInv, SumInv
<1> HIDE DEF S, A, T
<1>6. Sum(A, S) = Sum(T, S)
    BY <1>2, <1>4, SumEqual
<1>7. Sum(A, S) \in Int
    BY <1>2, SumType
<1> QED BY <1>1, <1>3, <1>5, <1>6, <1>7

-----------------------------------------------------------------------------
(* All plans take the same amounts. *)

\* IsPlan of items of the balances, with what that says of each item.
PlanOf(p, S, bal, target) ==
    /\ Len(p) \in Nat /\ Len(p) > 0 /\ DOMAIN p = 1..Len(p)
    /\ \A i \in 1..Len(p) :
          /\ p[i].row \in S /\ bal[p[i].row] \in Nat /\ bal[p[i].row] > 0
          /\ p[i].amount \in Nat /\ p[i].amount > 0 /\ p[i].amount <= bal[p[i].row]
          /\ i < Len(p) => p[i].amount = bal[p[i].row]
          /\ AmountsOf(p)[i] = p[i].amount
    /\ \A i, j \in 1..Len(p) :
          i < j => p[i].row # p[j].row /\ bal[p[i].row] <= bal[p[j].row]
    /\ \A row \in S : \/ bal[row] <= 0
                      \/ \E i \in 1..Len(p) : p[i].row = row
                      \/ \A i \in 1..Len(p) : bal[p[i].row] <= bal[row]
    /\ Sum(AmountsOf(p), 1..Len(p)) = target

\* A plan of items of the balances has these facts.
LEMMA PlanItems ==
    ASSUME NEW S, NEW bal \in [S -> Nat], NEW target \in Nat,
           NEW p \in Seq([row : S, amount : Nat]),
           \A i \in DOMAIN p : p[i].amount > 0 /\ p[i].amount <= bal[p[i].row],
           IsPlan(p, bal, target)
    PROVE  PlanOf(p, S, bal, target)
<1> DEFINE n == Len(p)
<1>1. n \in Nat /\ DOMAIN p = 1..n /\ p # <<>>
    BY LenProperties DEF IsPlan
<1>2. n > 0
    BY <1>1
<1>3. ASSUME NEW i \in 1..n
      PROVE  /\ p[i].row \in S /\ bal[p[i].row] \in Nat /\ bal[p[i].row] > 0
             /\ p[i].amount \in Nat /\ p[i].amount > 0 /\ p[i].amount <= bal[p[i].row]
             /\ i < n => p[i].amount = bal[p[i].row]
             /\ AmountsOf(p)[i] = p[i].amount
    <2>1. p[i] \in [row : S, amount : Nat] /\ i \in DOMAIN p
        BY <1>1, ElementOfSeq
    <2>2. p[i].row \in S /\ p[i].amount \in Nat /\ p[i].amount > 0
        BY <2>1
    <2>3. bal[p[i].row] \in Nat /\ p[i].amount <= bal[p[i].row]
        BY <2>1, <2>2
    <2>4. i < n => p[i].amount = bal[p[i].row]
        BY <2>1 DEF IsPlan
    <2>5. AmountsOf(p)[i] = p[i].amount
        BY <2>1 DEF AmountsOf
    <2> QED BY <2>2, <2>3, <2>4, <2>5
<1>4. ASSUME NEW i \in 1..n, NEW j \in 1..n, i < j
      PROVE  p[i].row # p[j].row /\ bal[p[i].row] <= bal[p[j].row]
    BY <1>1, <1>4 DEF IsPlan
<1>5. ASSUME NEW row \in S
      PROVE  \/ bal[row] <= 0
             \/ \E i \in 1..n : p[i].row = row
             \/ \A i \in 1..n : bal[p[i].row] <= bal[row]
    BY <1>1 DEF IsPlan
<1>6. Sum(AmountsOf(p), 1..n) = target
    BY <1>1, TotalIsSum DEF IsPlan
<1> QED BY <1>1, <1>2, <1>3, <1>4, <1>5, <1>6 DEF PlanOf

\* The i-th balance of a plan is no smaller than that of another: its rows up to
\* there would all have to be among the fewer that come before in the other.
LEMMA PlansRank ==
    ASSUME NEW S, NEW bal, NEW target,
           NEW p, PlanOf(p, S, bal, target), NEW q, PlanOf(q, S, bal, target),
           NEW i \in 1..Len(p), i \in 1..Len(q)
    PROVE  bal[q[i].row] <= bal[p[i].row]
<1>1. Len(p) \in Nat /\ Len(q) \in Nat /\ i \in Nat /\ \A j \in 1..i : j \in 1..Len(p)
    BY DEF PlanOf
<1>2. \A j \in 1..Len(p) : p[j].row \in S /\ bal[p[j].row] \in Nat /\ bal[p[j].row] > 0
    BY DEF PlanOf
<1>3. \A j \in 1..Len(q) : bal[q[j].row] \in Nat
    BY DEF PlanOf
<1> SUFFICES ASSUME bal[p[i].row] < bal[q[i].row] PROVE FALSE
    BY <1>2, <1>3
<1>4. ASSUME NEW j \in 1..i
      PROVE  \E k \in 1..(i - 1) : q[k].row = p[j].row
    <2>1. bal[p[j].row] < bal[q[i].row]
        <3>1. j = i \/ (j < i /\ j \in 1..Len(p))
            BY <1>1
        <3>2. j < i => bal[p[j].row] <= bal[p[i].row]
            BY <1>1 DEF PlanOf
        <3> QED BY <1>1, <1>2, <1>3, <3>1, <3>2
    <2>2. PICK k \in 1..Len(q) : q[k].row = p[j].row
        <3>1. /\ p[j].row \in S /\ bal[p[j].row] \in Nat /\ bal[q[i].row] \in Nat
              /\ ~(bal[p[j].row] <= 0) /\ ~(bal[q[i].row] <= bal[p[j].row])
            BY <1>1, <1>2, <1>3, <2>1
        <3> QED BY <3>1 DEF PlanOf
    <2>3. k < i
        <3>1. CASE i < k
            <4>1. bal[q[i].row] <= bal[q[k].row]
                BY <3>1 DEF PlanOf
            <4> QED BY <1>3, <2>1, <2>2, <4>1
        <3>2. CASE i = k
            BY <1>3, <2>1, <2>2, <3>2
        <3> QED BY <1>1, <3>1, <3>2
    <2> QED BY <1>1, <2>2, <2>3
<1> DEFINE I == 1..i
           K == 1..(i - 1)
           f == [j \in I |-> CHOOSE k \in K : q[k].row = p[j].row]
<1>5. \A j \in I : f[j] \in K /\ q[f[j]].row = p[j].row
    BY <1>4
<1>6. f \in [I -> K]
    BY <1>5
<1>7. /\ IsFiniteSet(I) /\ IsFiniteSet(K)
      /\ Cardinality(I) = i /\ Cardinality(K) = i - 1
    <2>1. IsFiniteSet(I) /\ Cardinality(I) = i
        BY <1>1, FS_Interval
    <2>2. IsFiniteSet(K) /\ Cardinality(K) = i - 1
        <3>1. i - 1 \in Int /\ 1 \in Int
            BY <1>1
        <3>2. IsFiniteSet(K) /\ Cardinality(K) = IF 1 > i - 1 THEN 0 ELSE (i - 1) - 1 + 1
            BY <3>1, FS_Interval
        <3> QED BY <1>1, <3>2
    <2> QED BY <2>1, <2>2
<1>8. \A j \in I : j \in 1..Len(p)
    BY <1>1
<1>9. i - 1 < i
    BY <1>1
<1> HIDE DEF f, I, K
<1>10. PICK x \in I, y \in I : x # y /\ f[x] = f[y]
    BY <1>6, <1>7, <1>9, FS_PigeonHole
<1>11. p[x].row = p[y].row
    BY <1>5, <1>10
<1>12. x \in 1..Len(p) /\ y \in 1..Len(p) /\ (x < y \/ y < x)
    BY <1>1, <1>8, <1>10
<1>13. \A a, b \in 1..Len(p) : a < b => p[a].row # p[b].row
    BY DEF PlanOf
<1> QED BY <1>11, <1>12, <1>13

\* No plan is longer than another: it would drain more than the target.
LEMMA PlansLength ==
    ASSUME NEW S, NEW bal, NEW target,
           NEW p, PlanOf(p, S, bal, target), NEW q, PlanOf(q, S, bal, target)
    PROVE  Len(q) <= Len(p)
<1> DEFINE n == Len(p)
           k == Len(q)
           v == AmountsOf(p)
           w == AmountsOf(q)
<1>1. n \in Nat /\ Sum(v, 1..n) = target
    BY DEF PlanOf
<1>2. k \in Nat /\ k > 0 /\ Sum(w, 1..k) = target
    BY DEF PlanOf
<1>3. \A i \in 1..k : w[i] \in Nat /\ w[i] > 0
    BY DEF PlanOf
<1> SUFFICES ASSUME n < k PROVE FALSE
    BY <1>1, <1>2
<1>4. ASSUME NEW i \in 1..n PROVE v[i] \in Nat /\ v[i] <= w[i]
    <2>1. i \in 1..k /\ i < k
        BY <1>1, <1>2
    <2>2. bal[p[i].row] <= bal[q[i].row]
        BY <2>1, PlansRank
    <2>3. v[i] \in Nat /\ v[i] <= bal[p[i].row] /\ bal[p[i].row] \in Nat
        BY DEF PlanOf
    <2>4. w[i] = bal[q[i].row] /\ bal[q[i].row] \in Nat
        BY <2>1 DEF PlanOf
    <2> QED BY <2>2, <2>3, <2>4
<1> DEFINE K == 1..k
           R == 1..n
<1>5. IsFiniteSet(K) /\ k \in K
    BY <1>2, FS_Interval
<1>6. R \in SUBSET (K \ {k})
    BY <1>1, <1>2
<1>7. \A i \in R : v[i] \in Nat /\ v[i] <= w[i]
    BY <1>4
<1>8. (\A i \in K : w[i] \in Nat /\ w[i] \in Int) /\ w[k] > 0
    BY <1>3, <1>5
<1>9. Sum(v, R) = target /\ Sum(w, K) = target
    BY <1>1, <1>2
<1> HIDE DEF n, k, v, w, K, R
<1>10. IsFiniteSet(K \ {k})
    BY <1>5, FS_RemoveElement
<1>11. Sum(w, K) = w[k] + Sum(w, K \ {k})
    BY <1>5, <1>8, SumRemove
<1>12. Sum(v, R) <= Sum(w, K \ {k})
    BY <1>6, <1>7, <1>8, <1>10, SumOfPart
<1>13. Sum(w, K \ {k}) \in Int
    BY <1>8, <1>10, SumType
<1> QED BY <1>5, <1>8, <1>9, <1>11, <1>12, <1>13

\* Two plans are as long and take the same amounts: all but the last balances are
\* drained and equal, and the last gives what is missing.
LEMMA PlansAgree ==
    ASSUME NEW S, NEW bal, NEW target,
           NEW p, PlanOf(p, S, bal, target), NEW q, PlanOf(q, S, bal, target)
    PROVE  Len(p) = Len(q) /\ \A i \in 1..Len(p) : p[i].amount = q[i].amount
<1> DEFINE n == Len(p)
           v == AmountsOf(p)
           w == AmountsOf(q)
<1>1. Len(q) = n
    <2>1. Len(q) <= Len(p) /\ Len(p) <= Len(q)
        BY PlansLength
    <2>2. Len(p) \in Nat /\ Len(q) \in Nat
        BY DEF PlanOf
    <2> QED BY <2>1, <2>2
<1>2. n \in Nat /\ n > 0 /\ Sum(v, 1..n) = target
    BY DEF PlanOf
<1>3. Sum(w, 1..n) = target
    BY <1>1 DEF PlanOf
<1>4. \A i \in 1..n : v[i] = p[i].amount /\ v[i] \in Int
    BY DEF PlanOf
<1>5. \A i \in 1..n : w[i] = q[i].amount /\ w[i] \in Int
    BY <1>1 DEF PlanOf
<1>6. ASSUME NEW i \in 1..n, i # n PROVE v[i] = w[i]
    <2>1. i < n /\ i < Len(q) /\ i \in 1..Len(q)
        BY <1>1, <1>2, <1>6
    <2>2. v[i] = bal[p[i].row] /\ bal[p[i].row] \in Nat
        BY <2>1 DEF PlanOf
    <2>3. w[i] = bal[q[i].row] /\ bal[q[i].row] \in Nat
        BY <2>1 DEF PlanOf
    <2>4. bal[q[i].row] <= bal[p[i].row]
        BY <2>1, PlansRank
    <2>5. bal[p[i].row] <= bal[q[i].row]
        BY <1>1, <2>1, PlansRank
    <2> QED BY <2>2, <2>3, <2>4, <2>5
<1> DEFINE K == 1..n
<1>7. IsFiniteSet(K) /\ n \in K
    BY <1>2, FS_Interval
<1>8. /\ \A i \in K : v[i] \in Int /\ w[i] \in Int
      /\ \A i \in K \ {n} : v[i] = w[i]
    BY <1>4, <1>5, <1>6
<1>9. Sum(v, K) = target /\ Sum(w, K) = target
    BY <1>2, <1>3
<1>10. v[n] = w[n]
    <2> HIDE DEF n, v, w, K
    <2>1. IsFiniteSet(K \ {n})
        BY <1>7, FS_RemoveElement
    <2>2. Sum(v, K \ {n}) = Sum(w, K \ {n})
        BY <1>8, <2>1, SumEqual
    <2>3. Sum(v, K) = v[n] + Sum(v, K \ {n})
        BY <1>7, <1>8, SumRemove
    <2>4. Sum(w, K) = w[n] + Sum(w, K \ {n})
        BY <1>7, <1>8, SumRemove
    <2>5. Sum(v, K \ {n}) \in Int
        BY <1>8, <2>1, SumType
    <2>6. v[n] \in Int /\ w[n] \in Int
        BY <1>7, <1>8
    <2> QED BY <1>9, <2>2, <2>3, <2>4, <2>5, <2>6
<1> QED BY <1>1, <1>4, <1>5, <1>6, <1>10

\* The plan of the loop is one, and so is every plan the specification allows.
LEMMA LoopOutcomeIsDetermined == LoopInv => OutcomeIsDetermined
<1> DEFINE S == Ids
           A == Available
           p == Plan
<1> SUFFICES ASSUME LoopInv, stage = "returned", NEW q \in Plans(A, wanted)
             PROVE  /\ Len(q) = Len(result)
                    /\ \A i \in DOMAIN q : q[i].amount = result[i].amount
    BY DEF OutcomeIsDetermined
<1>1. A \in [S -> Nat] /\ DOMAIN A = S /\ wanted \in Nat
    BY WalletsAssumption, WalletsType DEF LoopInv
<1>2. \A z : IsPlan(z, A, wanted) => IsPlan(z, A, wanted)
    BY TotalIsSum DEF IsPlan
<1>3. PlanOf(q, S, A, wanted)
    <2> DEFINE I == Items(A, wanted)
    <2>1. IsPlan(q, A, wanted) /\ \E n \in Nat : q \in [1..n -> I]
        <3>1. IsFiniteSet(S)
            BY WalletsType DEF LoopInv
        <3>2. Cardinality(S) = Cardinality(S)
            BY DEF Cardinality
        <3>3. Cardinality(S) \in Nat
            BY <3>1, FS_CardinalityType
        <3>4. q \in SeqOf(I, Cardinality(S)) /\ IsPlan(q, A, wanted)
            BY <1>1, <3>2 DEF Plans
        <3> HIDE DEF I
        <3>5. \E n \in 0..Cardinality(S) : q \in [1..n -> I]
            BY <3>4 DEF SeqOf
        <3> QED BY <3>3, <3>4, <3>5
    <2>2. I = {item \in [row : S, amount : 1..wanted] : item.amount <= A[item.row]}
        BY <1>1 DEF Items
    <2> HIDE DEF I
    <2>3. DOMAIN q = 1..Len(q) /\ q \in Seq(I)
        BY <2>1
    <2> HIDE DEF S, A
    <2>4. \A x \in I : /\ x \in [row : S, amount : Nat]
                       /\ x.amount > 0 /\ x.amount <= A[x.row]
        BY <2>2
    <2>5. \A i \in DOMAIN q : q[i] \in I
        BY <2>1
    <2>6. \A i \in DOMAIN q : q[i].amount > 0 /\ q[i].amount <= A[q[i].row]
        BY <2>4, <2>5
    <2>7. q \in Seq([row : S, amount : Nat])
        <3> DEFINE J == [row : S, amount : Nat]
        <3>1. I \subseteq J
            BY <2>4
        <3> HIDE DEF J
        <3>2. q \in Seq(J)
            BY <2>1, <3>1
        <3> QED BY <3>2 DEF J
    <2> QED BY <1>1, <1>2, <2>1, <2>6, <2>7, PlanItems
<1>4. /\ DOMAIN p = DOMAIN result /\ DOMAIN result = 1..Len(result)
      /\ Len(result) \in Nat /\ Len(p) = Len(result)
      /\ \A i \in DOMAIN p : p[i].row = result[i].balanceId /\ p[i].amount = result[i].amount
    BY DEF LoopInv, Plan
<1>5. PlanOf(p, S, A, wanted)
    <2>1. IsPlan(p, A, wanted)
        BY <1>2, LoopReturnsPlan DEF ReturnsPlan
    <2>2. \A i \in DOMAIN p : p[i].row \in S /\ p[i].amount \in Nat
        <3>1. \A i \in DOMAIN result : result[i] \in FundsOf(S)
            BY <1>4, ElementOfSeq DEF LoopInv
        <3> QED BY <1>4, <3>1 DEF FundsOf
    <2>3. \A i \in DOMAIN p : 1 <= p[i].amount /\ p[i].amount <= A[p[i].row]
        BY <1>1, <1>4, <2>2 DEF LoopInv, TakenInv
    <2>4. p \in Seq([row : S, amount : Nat])
        <3>1. \A i \in 1..Len(result) : p[i] \in [row : S, amount : Nat]
            BY <1>4, <2>2 DEF Plan
        <3> QED BY <1>4, <3>1 DEF Plan
    <2>5. \A i \in DOMAIN p : p[i].amount > 0 /\ p[i].amount <= A[p[i].row]
        <3> HIDE DEF p, A
        <3> QED BY <2>2, <2>3
    <2> HIDE DEF S, A, p
    <2> QED BY <1>1, <2>1, <2>4, <2>5, PlanItems
<1>6. Len(q) = Len(p) /\ \A i \in 1..Len(q) : q[i].amount = p[i].amount
    BY <1>3, <1>5, PlansAgree
<1>7. DOMAIN q = 1..Len(q)
    BY <1>3 DEF PlanOf
<1> QED BY <1>4, <1>6, <1>7

\* At every moment what the loop took, what is queued and what remains account
\* for every funded balance and for the whole amount.
THEOREM LoopInvariant == AllocationSpec => []LoopInv
BY LoopInit, LoopNext, PTL DEF AllocationSpec

\* What the loop has taken and what remains make up the amount, and no balance
\* gives more than it has.
THEOREM AllocationTypes == AllocationSpec => []AllocationTypeOK
BY LoopInvariant, LoopTypes, PTL

\* getWalletAllocationsForAmount returns a plan, for any wallets and any amount.
THEOREM AllocationIsPlan == AllocationSpec => []ReturnsPlan
BY LoopInvariant, LoopReturnsPlan, PTL

\* It throws only if the balances do not add up to the amount.
THEOREM AllocationThrowsWhenShort == AllocationSpec => []ThrowsOnlyWhenShort
BY LoopInvariant, LoopThrowsOnlyWhenShort, PTL

\* Whatever order equal balances come in, the same amounts are taken: every plan
\* the comment of the function allows takes them.
THEOREM AllocationIsDetermined == AllocationSpec => []OutcomeIsDetermined
BY LoopInvariant, LoopOutcomeIsDetermined, PTL
=============================================================================
