-------------------------------- MODULE Sums --------------------------------
(***************************************************************************)
(* Facts about sums over finite sets, for the proofs about seats and money. *)
(* Sum(F, S) is the sum of F[x] over the x in S, as the modules take it;    *)
(* each fact by a smallest set it would fail for.                          *)
(***************************************************************************)
EXTENDS Integers, FiniteSetsExt, FiniteSetTheorems, WellFoundedInduction, TLAPS

Sum(F, S) == MapThenSumSet(LAMBDA x : F[x], S)

\* The element a fold takes out of s first.
Pick(s) == CHOOSE x \in s : TRUE

\* g has the sums of F over the subsets of S.
IsSums(g, F, S) ==
  g = [s \in SUBSET S |-> IF s = {} THEN 0 ELSE F[Pick(s)] + g[s \ {Pick(s)}]]

LEMMA PickIn ==
  ASSUME NEW s, s # {}
  PROVE  Pick(s) \in s
BY DEF Pick

\* Of sets of subsets of a finite set, each has a smallest one.
LEMMA Smallest ==
  ASSUME NEW S, IsFiniteSet(S), NEW X \in SUBSET (SUBSET S), X # {}
  PROVE  \E t \in X : \A u \in X : u \subseteq t => u = t
<1>1. X \subseteq FiniteSubsetsOf(S)
  BY FS_FiniteSubsetsOfFinite
<1>2. PICK t \in X : \A u \in X : <<u, t>> \notin StrictSubsetOrdering(S)
  <2>1. IsWellFoundedOn(StrictSubsetOrdering(S), FiniteSubsetsOf(S))
    BY FS_StrictSubsetOrderingWellFounded
  <2>. QED
    BY <1>1, <2>1, WFMin
<1>3. \A u \in X : u \subseteq t => u = t
  BY <1>2 DEF StrictSubsetOrdering
<1>. QED
  BY <1>3

-----------------------------------------------------------------------------
(* A function of sums exists, and only one: the fold is well defined.       *)

LEMMA SumsUnique ==
  ASSUME NEW F, NEW S, IsFiniteSet(S), NEW g, IsSums(g, F, S), NEW h, IsSums(h, F, S)
  PROVE  g = h
<1>. DEFINE X == {s \in SUBSET S : g[s] # h[s]}
<1>1. SUFFICES ASSUME X # {} PROVE FALSE
  BY DEF IsSums
<1>2. PICK t \in X : \A u \in X : u \subseteq t => u = t
  <2>. HIDE DEF X
  <2>1. X \in SUBSET (SUBSET S)
    BY DEF X
  <2>. QED
    BY <1>1, <2>1, Smallest
<1>3. t # {}
  BY <1>2 DEF IsSums
<1>4. t \ {Pick(t)} \in SUBSET S /\ t \ {Pick(t)} \subseteq t /\ t \ {Pick(t)} # t
  BY <1>3, PickIn
<1>5. g[t \ {Pick(t)}] = h[t \ {Pick(t)}]
  BY <1>2, <1>4
<1>. QED
  BY <1>2, <1>3, <1>5 DEF IsSums

LEMMA SumsBelow ==
  ASSUME NEW F, NEW S, NEW T \in SUBSET S, NEW g, IsSums(g, F, S)
  PROVE  IsSums([s \in SUBSET T |-> g[s]], F, T)
<1>1. \A s \in SUBSET T : s \in SUBSET S /\ s \ {Pick(s)} \in SUBSET T
  OBVIOUS
<1>. QED
  BY <1>1 DEF IsSums

LEMMA SumsAre ==
  ASSUME NEW F, NEW S, IsFiniteSet(S), NEW g, IsSums(g, F, S)
  PROVE  Sum(F, S) = g[S]
<1>1. Sum(F, S) = (CHOOSE h : IsSums(h, F, S))[S]
  BY DEF Sum, MapThenSumSet, MapThenFoldSet, IsSums, Pick
<1>2. IsSums(CHOOSE h : IsSums(h, F, S), F, S)
  OBVIOUS
<1>. QED
  BY <1>1, <1>2, SumsUnique

LEMMA SumsExist ==
  ASSUME NEW F, NEW S, IsFiniteSet(S)
  PROVE  \E g : IsSums(g, F, S)
<1>. DEFINE X == {s \in SUBSET S : ~ \E g : IsSums(g, F, s)}
<1>1. SUFFICES ASSUME X # {} PROVE FALSE
  OBVIOUS
<1>2. PICK t \in X : \A u \in X : u \subseteq t => u = t
  <2>. HIDE DEF X
  <2>1. X \in SUBSET (SUBSET S)
    BY DEF X
  <2>. QED
    BY <1>1, <2>1, Smallest
<1>3. IsFiniteSet(t) /\ \A s \in SUBSET t : IsFiniteSet(s)
  BY <1>2, FS_Subset
<1>. DEFINE g == [s \in SUBSET t |->
                    IF s = {} THEN 0 ELSE F[Pick(s)] + Sum(F, s \ {Pick(s)})]
<1>4. ASSUME NEW s \in SUBSET t, s # t
      PROVE  g[s] = Sum(F, s)
  <2>1. PICK h : IsSums(h, F, s)
    BY <1>2, <1>4
  <2>2. Sum(F, s) = h[s]
    BY <1>3, <2>1, SumsAre
  <2>3. CASE s = {}
    BY <2>1, <2>2, <2>3 DEF IsSums
  <2>4. CASE s # {}
    <3>. DEFINE r == s \ {Pick(s)}
    <3>1. IsSums([u \in SUBSET r |-> h[u]], F, r)
      BY <2>1, SumsBelow
    <3>2. IsFiniteSet(r)
      BY <1>3
    <3>3. Sum(F, r) = h[r]
      <4>. HIDE DEF r
      <4>. QED
        BY <3>1, <3>2, SumsAre
    <3>4. h[s] = F[Pick(s)] + h[r]
      BY <2>1, <2>4 DEF IsSums
    <3>. QED
      BY <2>2, <2>4, <3>3, <3>4
  <2>. QED
    BY <2>3, <2>4
<1>5. \A s \in SUBSET t : s # {} => s \ {Pick(s)} \in SUBSET t /\ s \ {Pick(s)} # t
  BY PickIn
<1>6. IsSums(g, F, t)
  <2>1. \A s \in SUBSET t : g[s] = IF s = {} THEN 0 ELSE F[Pick(s)] + g[s \ {Pick(s)}]
    BY <1>4, <1>5
  <2>2. g = [s \in SUBSET t |-> g[s]]
    OBVIOUS
  <2>. HIDE DEF g
  <2>. QED
    BY <2>1, <2>2 DEF IsSums
<1>. QED
  BY <1>2, <1>6

-----------------------------------------------------------------------------
LEMMA SumEmpty ==
  ASSUME NEW F
  PROVE  Sum(F, {}) = 0
<1>1. PICK g : IsSums(g, F, {})
  BY SumsExist, FS_EmptySet
<1>2. g[{}] = 0
  BY <1>1 DEF IsSums
<1>. QED
  BY <1>1, <1>2, SumsAre, FS_EmptySet

LEMMA SumPicks ==
  ASSUME NEW F, NEW S, IsFiniteSet(S), S # {}
  PROVE  Sum(F, S) = F[Pick(S)] + Sum(F, S \ {Pick(S)})
<1>. DEFINE r == S \ {Pick(S)}
<1>1. PICK g : IsSums(g, F, S)
  BY SumsExist
<1>2. IsSums([u \in SUBSET r |-> g[u]], F, r)
  BY <1>1, SumsBelow
<1>3. IsFiniteSet(r)
  BY FS_Subset
<1>4. Sum(F, r) = g[r]
  <2>. HIDE DEF r
  <2>. QED
    BY <1>2, <1>3, SumsAre
<1>5. g[S] = F[Pick(S)] + g[r]
  BY <1>1 DEF IsSums
<1>. QED
  BY <1>1, <1>4, <1>5, SumsAre

\* Sums of integers are integers, and of naturals naturals.
LEMMA SumInt ==
  ASSUME NEW F, NEW S, IsFiniteSet(S), \A x \in S : F[x] \in Int
  PROVE  Sum(F, S) \in Int
<1>. DEFINE X == {s \in SUBSET S : Sum(F, s) \notin Int}
<1>1. SUFFICES ASSUME X # {} PROVE FALSE
  OBVIOUS
<1>2. PICK t \in X : \A u \in X : u \subseteq t => u = t
  <2>. HIDE DEF X
  <2>1. X \in SUBSET (SUBSET S)
    BY DEF X
  <2>. QED
    BY <1>1, <2>1, Smallest
<1>3. t # {} /\ IsFiniteSet(t)
  <2>1. t # {}
    <3>1. Sum(F, {}) = 0
      BY SumEmpty
    <3>2. Sum(F, t) # Sum(F, {})
      BY <1>2, <3>1
    <3>. QED
      BY <3>2, Zenon
  <2>2. IsFiniteSet(t)
    BY <1>2, FS_Subset
  <2>. QED
    BY <2>1, <2>2
<1>4. Sum(F, t \ {Pick(t)}) \in Int
  BY <1>2, <1>3, PickIn
<1>5. F[Pick(t)] \in Int
  BY <1>2, <1>3, PickIn
<1>. QED
  BY <1>2, <1>3, <1>4, <1>5, SumPicks

LEMMA SumNat ==
  ASSUME NEW F, NEW S, IsFiniteSet(S), \A x \in S : F[x] \in Nat
  PROVE  Sum(F, S) \in Nat
<1>. DEFINE X == {s \in SUBSET S : Sum(F, s) \notin Nat}
<1>1. SUFFICES ASSUME X # {} PROVE FALSE
  OBVIOUS
<1>2. PICK t \in X : \A u \in X : u \subseteq t => u = t
  <2>. HIDE DEF X
  <2>1. X \in SUBSET (SUBSET S)
    BY DEF X
  <2>. QED
    BY <1>1, <2>1, Smallest
<1>3. t # {} /\ IsFiniteSet(t)
  <2>1. t # {}
    <3>1. Sum(F, {}) = 0
      BY SumEmpty
    <3>2. Sum(F, t) # Sum(F, {})
      BY <1>2, <3>1
    <3>. QED
      BY <3>2, Zenon
  <2>2. IsFiniteSet(t)
    BY <1>2, FS_Subset
  <2>. QED
    BY <2>1, <2>2
<1>4. Sum(F, t \ {Pick(t)}) \in Nat
  BY <1>2, <1>3, PickIn
<1>5. F[Pick(t)] \in Nat
  BY <1>2, <1>3, PickIn
<1>. QED
  BY <1>2, <1>3, <1>4, <1>5, SumPicks

\* Any element may be taken out first.
LEMMA SumTakes ==
  ASSUME NEW F, NEW S, IsFiniteSet(S), \A x \in S : F[x] \in Int, NEW y \in S
  PROVE  Sum(F, S) = F[y] + Sum(F, S \ {y})
<1>. DEFINE X == {s \in SUBSET S : ~ \A z \in s : Sum(F, s) = F[z] + Sum(F, s \ {z})}
<1>1. SUFFICES ASSUME X # {} PROVE FALSE
  OBVIOUS
<1>2. PICK t \in X : \A u \in X : u \subseteq t => u = t
  <2>. HIDE DEF X
  <2>1. X \in SUBSET (SUBSET S)
    BY DEF X
  <2>. QED
    BY <1>1, <2>1, Smallest
<1>3. PICK z \in t : Sum(F, t) # F[z] + Sum(F, t \ {z})
  BY <1>2
<1>. DEFINE x == Pick(t)
            r == t \ {x, z}
<1>4. x \in t /\ x # z /\ Sum(F, t) = F[x] + Sum(F, t \ {x})
  <2>1. IsFiniteSet(t) /\ t # {}
    BY <1>2, <1>3, FS_Subset
  <2>2. x \in t /\ Sum(F, t) = F[x] + Sum(F, t \ {x})
    BY <2>1, PickIn, SumPicks
  <2>. QED
    BY <2>2, <1>3
<1>. HIDE DEF x
<1>5. /\ Sum(F, t \ {x}) = F[z] + Sum(F, r)
      /\ Sum(F, t \ {z}) = F[x] + Sum(F, r)
  <2>1. (t \ {x}) \ {z} = r /\ (t \ {z}) \ {x} = r
    OBVIOUS
  <2>2. t \ {x} \notin X /\ t \ {z} \notin X
    BY <1>2, <1>3, <1>4
  <2>3. t \ {x} \in SUBSET S /\ z \in t \ {x} /\ t \ {z} \in SUBSET S /\ x \in t \ {z}
    BY <1>2, <1>3, <1>4
  <2>. HIDE DEF r
  <2>. QED
    BY <2>1, <2>2, <2>3
<1>6. F[x] \in Int /\ F[z] \in Int /\ Sum(F, r) \in Int
  <2>1. r \in SUBSET S /\ IsFiniteSet(r)
    BY <1>2, FS_Subset
  <2>2. Sum(F, r) \in Int
    <3>. HIDE DEF r
    <3>. QED
      BY <2>1, SumInt
  <2>. QED
    BY <1>2, <1>3, <1>4, <2>2
<1>. HIDE DEF r
<1>. QED
  BY <1>3, <1>4, <1>5, <1>6

LEMMA SumAdds ==
  ASSUME NEW F, NEW S, IsFiniteSet(S), NEW y, y \notin S, \A x \in S \union {y} : F[x] \in Int
  PROVE  Sum(F, S \union {y}) = Sum(F, S) + F[y]
<1>1. IsFiniteSet(S \union {y}) /\ (S \union {y}) \ {y} = S
  BY FS_AddElement
<1>2. Sum(F, S \union {y}) = F[y] + Sum(F, (S \union {y}) \ {y})
  BY <1>1, SumTakes
<1>3. F[y] \in Int /\ Sum(F, S) \in Int
  BY SumInt
<1>4. Sum(F, S \union {y}) = F[y] + Sum(F, S)
  BY <1>1, <1>2
<1>. DEFINE u == Sum(F, S \union {y})
<1>5. u = F[y] + Sum(F, S)
  BY <1>4
<1>. HIDE DEF u
<1>6. u = Sum(F, S) + F[y]
  BY <1>3, <1>5
<1>. QED
  BY <1>6 DEF u

\* Of two functions on S, the one that is nowhere more has no larger sum.
LEMMA SumGrows ==
  ASSUME NEW F, NEW G, NEW S, IsFiniteSet(S),
         \A x \in S : F[x] \in Int /\ G[x] \in Int /\ F[x] <= G[x]
  PROVE  Sum(F, S) <= Sum(G, S)
<1>. DEFINE X == {s \in SUBSET S : ~ (Sum(F, s) <= Sum(G, s))}
<1>1. SUFFICES ASSUME X # {} PROVE FALSE
  OBVIOUS
<1>2. PICK t \in X : \A u \in X : u \subseteq t => u = t
  <2>. HIDE DEF X
  <2>1. X \in SUBSET (SUBSET S)
    BY DEF X
  <2>. QED
    BY <1>1, <2>1, Smallest
<1>3. IsFiniteSet(t) /\ IsFiniteSet(t \ {Pick(t)})
  BY <1>2, FS_Subset
<1>4. t # {}
  <2>1. Sum(F, {}) = 0 /\ Sum(G, {}) = 0
    BY SumEmpty
  <2>2. Sum(F, t) # Sum(F, {}) \/ Sum(G, t) # Sum(G, {})
    BY <1>2, <2>1
  <2>. QED
    BY <2>2, Zenon
<1>5. Sum(F, t \ {Pick(t)}) <= Sum(G, t \ {Pick(t)})
  BY <1>2, <1>4, PickIn
<1>6. /\ Sum(F, t) = F[Pick(t)] + Sum(F, t \ {Pick(t)})
      /\ Sum(G, t) = G[Pick(t)] + Sum(G, t \ {Pick(t)})
  BY <1>3, <1>4, SumPicks
<1>7. Sum(F, t \ {Pick(t)}) \in Int /\ Sum(G, t \ {Pick(t)}) \in Int
  BY <1>2, <1>3, SumInt
<1>8. Pick(t) \in S
  BY <1>2, <1>4, PickIn
<1>. QED
  BY <1>2, <1>5, <1>6, <1>7, <1>8

LEMMA SumSame ==
  ASSUME NEW F, NEW G, NEW S, IsFiniteSet(S), \A x \in S : F[x] \in Int /\ F[x] = G[x]
  PROVE  Sum(F, S) = Sum(G, S)
<1>1. Sum(F, S) <= Sum(G, S) /\ Sum(G, S) <= Sum(F, S)
  BY SumGrows
<1>2. Sum(F, S) \in Int /\ Sum(G, S) \in Int
  BY SumInt
<1>. QED
  BY <1>1, <1>2

\* A change at one element changes the sum by as much.
LEMMA SumMoves ==
  ASSUME NEW F, NEW G, NEW S, IsFiniteSet(S), NEW y \in S,
         \A x \in S : F[x] \in Int /\ G[x] \in Int,
         \A x \in S \ {y} : F[x] = G[x]
  PROVE  Sum(G, S) = Sum(F, S) - F[y] + G[y]
<1>1. Sum(F, S) = F[y] + Sum(F, S \ {y}) /\ Sum(G, S) = G[y] + Sum(G, S \ {y})
  BY SumTakes
<1>2. IsFiniteSet(S \ {y})
  BY FS_RemoveElement
<1>3. Sum(F, S \ {y}) = Sum(G, S \ {y})
  BY <1>2, SumSame
<1>4. Sum(F, S \ {y}) \in Int
  BY <1>2, SumInt
<1>. QED
  BY <1>1, <1>3, <1>4

\* The sum of two functions, one element at a time, is the sum of their sums.
LEMMA SumPairs ==
  ASSUME NEW F, NEW G, NEW H, NEW S, IsFiniteSet(S),
         \A x \in S : F[x] \in Int /\ G[x] \in Int /\ H[x] = F[x] + G[x]
  PROVE  Sum(H, S) = Sum(F, S) + Sum(G, S)
<1>. DEFINE X == {s \in SUBSET S : Sum(H, s) # Sum(F, s) + Sum(G, s)}
<1>1. SUFFICES ASSUME X # {} PROVE FALSE
  OBVIOUS
<1>2. PICK t \in X : \A u \in X : u \subseteq t => u = t
  <2>. HIDE DEF X
  <2>1. X \in SUBSET (SUBSET S)
    BY DEF X
  <2>. QED
    BY <1>1, <2>1, Smallest
<1>3. IsFiniteSet(t) /\ IsFiniteSet(t \ {Pick(t)})
  BY <1>2, FS_Subset
<1>4. t # {}
  <2>1. Sum(F, {}) = 0 /\ Sum(G, {}) = 0 /\ Sum(H, {}) = 0
    BY SumEmpty
  <2>2. Sum(F, t) # Sum(F, {}) \/ Sum(G, t) # Sum(G, {}) \/ Sum(H, t) # Sum(H, {})
    BY <1>2, <2>1
  <2>. QED
    BY <2>2, Zenon
<1>5. Sum(H, t \ {Pick(t)}) = Sum(F, t \ {Pick(t)}) + Sum(G, t \ {Pick(t)})
  BY <1>2, <1>4, PickIn
<1>6. /\ Sum(F, t) = F[Pick(t)] + Sum(F, t \ {Pick(t)})
      /\ Sum(G, t) = G[Pick(t)] + Sum(G, t \ {Pick(t)})
      /\ Sum(H, t) = H[Pick(t)] + Sum(H, t \ {Pick(t)})
  BY <1>3, <1>4, SumPicks
<1>7. Sum(F, t \ {Pick(t)}) \in Int /\ Sum(G, t \ {Pick(t)}) \in Int
  BY <1>2, <1>3, SumInt
<1>8. Pick(t) \in S
  BY <1>2, <1>4, PickIn
<1>. QED
  BY <1>2, <1>5, <1>6, <1>7, <1>8

\* Only the elements of T count when the others have nothing.
LEMMA SumWithin ==
  ASSUME NEW F, NEW G, NEW S, IsFiniteSet(S), NEW T \in SUBSET S,
         \A x \in T : F[x] \in Int /\ F[x] = G[x],
         \A x \in S \ T : G[x] = 0
  PROVE  Sum(F, T) = Sum(G, S)
<1>. DEFINE X == {s \in SUBSET S : Sum(F, s \intersect T) # Sum(G, s)}
<1>1. SUFFICES ASSUME X # {} PROVE FALSE
  <2>1. S \in SUBSET S /\ S \intersect T = T
    OBVIOUS
  <2>. QED
    BY <1>1, <2>1
<1>2. PICK t \in X : \A u \in X : u \subseteq t => u = t
  <2>. HIDE DEF X
  <2>1. X \in SUBSET (SUBSET S)
    BY DEF X
  <2>. QED
    BY <1>1, <2>1, Smallest
<1>. DEFINE x == Pick(t)
            r == t \ {x}
<1>3. t # {}
  <2>1. {} \intersect T = {}
    OBVIOUS
  <2>. QED
    BY <1>2, <2>1, SumEmpty
<1>4. x \in t /\ IsFiniteSet(t) /\ IsFiniteSet(r) /\ Sum(G, t) = G[x] + Sum(G, r)
  <2>1. x \in t
    BY <1>3, PickIn
  <2>2. IsFiniteSet(t)
    BY <1>2, FS_Subset
  <2>3. IsFiniteSet(r)
    BY <2>2, FS_Subset
  <2>. QED
    BY <1>3, <2>1, <2>2, <2>3, SumPicks
<1>. HIDE DEF x
<1>5. r \subseteq t /\ r # t /\ r \in SUBSET S
  BY <1>2, <1>4
<1>6. Sum(F, r \intersect T) = Sum(G, r) /\ Sum(G, r) \in Int
  <2>1. Sum(F, r \intersect T) = Sum(G, r)
    BY <1>2, <1>5
  <2>2. \A z \in r : G[z] \in Int
    BY <1>5
  <2>3. Sum(G, r) \in Int
    <3>. HIDE DEF r
    <3>. QED
      BY <1>4, <2>2, SumInt
  <2>. QED
    BY <2>1, <2>3
<1>7. CASE x \in T
  <2>1. t \intersect T = (r \intersect T) \union {x} /\ x \notin r \intersect T
    BY <1>4, <1>7
  <2>2. IsFiniteSet(r \intersect T)
    BY <1>4, FS_Intersection
  <2>3. Sum(F, (r \intersect T) \union {x}) = Sum(F, r \intersect T) + F[x]
    <3>1. \A z \in (r \intersect T) \union {x} : F[z] \in Int
      BY <1>7
    <3>. HIDE DEF r
    <3>. QED
      BY <2>1, <2>2, <3>1, SumAdds
  <2>. QED
    BY <1>2, <1>4, <1>6, <1>7, <2>1, <2>3
<1>8. CASE x \notin T
  <2>1. t \intersect T = r \intersect T /\ G[x] = 0
    BY <1>2, <1>4, <1>8
  <2>. QED
    BY <1>2, <1>4, <1>6, <2>1
<1>. QED
  BY <1>7, <1>8

\* A sum of naturals that is more than nothing has an element that is.
LEMMA SumNothing ==
  ASSUME NEW F, NEW S, IsFiniteSet(S), \A x \in S : F[x] = 0
  PROVE  Sum(F, S) = 0
<1>1. {} \in SUBSET S /\ \A x \in S \ {} : F[x] = 0
  OBVIOUS
<1>2. Sum(F, {}) = Sum(F, S)
  BY <1>1, SumWithin
<1>. QED
  BY <1>2, SumEmpty

\* A sum taken group by group: g puts each element of S in a group of T.
LEMMA SumGroups ==
  ASSUME NEW F, NEW S, IsFiniteSet(S), NEW T, IsFiniteSet(T), NEW g,
         \A x \in S : F[x] \in Int /\ g[x] \in T
  PROVE  Sum([t \in T |-> Sum(F, {x \in S : g[x] = t})], T) = Sum(F, S)
<1>. DEFINE In(s) == [t \in T |-> Sum(F, {x \in s : g[x] = t})]
            X == {s \in SUBSET S : Sum(In(s), T) # Sum(F, s)}
<1>1. SUFFICES ASSUME X # {} PROVE FALSE
  <2>1. S \in SUBSET S
    OBVIOUS
  <2>. QED
    BY <1>1, <2>1
<1>2. PICK s \in X : \A u \in X : u \subseteq s => u = s
  <2>. HIDE DEF X
  <2>1. X \in SUBSET (SUBSET S)
    BY DEF X
  <2>. QED
    BY <1>1, <2>1, Smallest
<1>3. s \in SUBSET S /\ IsFiniteSet(s) /\ Sum(In(s), T) # Sum(F, s)
  BY <1>2, FS_Subset
<1>4. s # {}
  <2>1. \A t \in T : In({})[t] = 0
    <3>1. \A t \in T : {x \in {} : g[x] = t} = {}
      OBVIOUS
    <3>. QED
      BY <3>1, SumEmpty
  <2>. HIDE DEF In
  <2>2. Sum(In({}), T) = 0 /\ Sum(F, {}) = 0
    BY <2>1, SumNothing, SumEmpty
  <2>. QED
    BY <1>3, <2>2, Zenon
<1>5. PICK y \in s : TRUE
  BY <1>4
<1>. DEFINE r == s \ {y}
            G == In(r)
            H == In(s)
<1>6. Sum(G, T) = Sum(F, r)
  <2>1. r \in SUBSET S /\ r # s /\ r \subseteq s
    BY <1>3, <1>5
  <2>. HIDE DEF In
  <2>. QED
    BY <1>2, <2>1
<1>7. y \in S /\ g[y] \in T /\ F[y] \in Int /\ IsFiniteSet(r) /\ r \in SUBSET S
  BY <1>3, <1>5, FS_RemoveElement
<1>8. \A t \in T : /\ G[t] = Sum(F, {x \in r : g[x] = t}) /\ G[t] \in Int
                  /\ H[t] = Sum(F, {x \in s : g[x] = t}) /\ H[t] \in Int
  <2>. SUFFICES ASSUME NEW t \in T
                PROVE  /\ Sum(F, {x \in r : g[x] = t}) \in Int
                       /\ Sum(F, {x \in s : g[x] = t}) \in Int
    OBVIOUS
  <2>. DEFINE u == {x \in r : g[x] = t}
              v == {x \in s : g[x] = t}
  <2>1. /\ IsFiniteSet(u) /\ IsFiniteSet(v)
        /\ \A x \in u : F[x] \in Int /\ \A z \in v : F[z] \in Int
    BY <1>3, <1>7, FS_Subset
  <2>2. \A x \in v : F[x] \in Int
    BY <1>3
  <2>. HIDE DEF u, v, r
  <2>3. Sum(F, u) \in Int /\ Sum(F, v) \in Int
    BY <2>1, <2>2, SumInt
  <2>. QED
    BY <2>3 DEF u, v
<1>9. \A t \in T \ {g[y]} : H[t] = G[t]
  <2>1. \A t \in T \ {g[y]} : {x \in r : g[x] = t} = {x \in s : g[x] = t}
    OBVIOUS
  <2>. QED
    BY <1>8, <2>1
<1>10. H[g[y]] = G[g[y]] + F[y]
  <2>. DEFINE u == {x \in r : g[x] = g[y]}
              v == {x \in s : g[x] = g[y]}
  <2>1. /\ v = u \union {y} /\ y \notin u
        /\ IsFiniteSet(u) /\ \A x \in u \union {y} : F[x] \in Int
    BY <1>5, <1>7, FS_Subset
  <2>2. G[g[y]] = Sum(F, u) /\ H[g[y]] = Sum(F, v)
    BY <1>7, <1>8
  <2>. HIDE DEF u, v, G, H
  <2>. QED
    BY <2>1, <2>2, SumAdds
<1>. HIDE DEF G, H, In
<1>11. Sum(H, T) = Sum(G, T) - G[g[y]] + H[g[y]] /\ Sum(G, T) \in Int
  <2>. DEFINE q == g[y]
  <2>1. /\ q \in T /\ \A t \in T : G[t] \in Int /\ H[t] \in Int
        /\ \A t \in T \ {q} : G[t] = H[t]
    BY <1>7, <1>8, <1>9
  <2>. HIDE DEF q
  <2>2. Sum(H, T) = Sum(G, T) - G[q] + H[q]
    BY <2>1, SumMoves
  <2>3. \A t \in T : G[t] \in Int
    BY <2>1
  <2>4. Sum(G, T) \in Int
    BY <2>3, SumInt
  <2>. QED
    BY <2>2, <2>4 DEF q
<1>12. Sum(F, s) = F[y] + Sum(F, r) /\ Sum(F, r) \in Int
  <2>1. (\A x \in s : F[x] \in Int) /\ (\A x \in r : F[x] \in Int)
    BY <1>3
  <2>. QED
    BY <1>3, <1>5, <1>7, <2>1, SumTakes, SumInt
<1>13. Sum(H, T) = Sum(F, s)
  <2>1. G[g[y]] \in Int
    BY <1>7, <1>8
  <2>. QED
    BY <1>6, <1>7, <1>10, <1>11, <1>12, <2>1
<1>. QED
  BY <1>3, <1>13 DEF H

=============================================================================
