------------------------- MODULE TypeCatalogProofs --------------------------
(***************************************************************************)
(* Theorems about TypeCatalog: what a source knows of its types explains   *)
(* itself, a row is delivered whole or refused, whatever happens to the    *)
(* types between its writing and its reading, and what is delivered has    *)
(* the type the column was mapped to.                                      *)
(*                                                                         *)
(* Everything TypeCatalog computes of nested types and values is iterated. *)
(* The first section shows that the iterations exist; each of them is then *)
(* known by its next round, and what is said of it is shown by SetInduction*)
(* over the rounds.                                                        *)
(***************************************************************************)
EXTENDS TypeCatalog, FiniteSetTheorems, WellFoundedInduction, TLAPS

Below == {p \in Nat \X Nat : p[1] < p[2]}

(* A set of natural numbers has a least element.                           *)
LEMMA LeastExists ==
  ASSUME NEW S \in SUBSET Nat, S # {}
  PROVE  \E m \in S : \A k \in S : m <= k
<1>1. IsWellFoundedOn(Below, Nat)
  BY NatLessThanWellFounded DEF OpToRel, Below
<1>2. PICK m \in S : \A k \in S : ~ (<<k, m>> \in Below)
  BY <1>1, WFMin
<1>3. ASSUME NEW k \in S, k < m PROVE FALSE
  <2>1. <<k, m>> \in Nat \X Nat /\ <<k, m>>[1] < <<k, m>>[2]
    BY <1>3
  <2>2. QED
    BY <1>2, <2>1 DEF Below
<1>4. QED
  BY <1>3, <1>2

(* Induction, for a property that is given as the set of its numbers.      *)
LEMMA SetInduction ==
  ASSUME NEW S, 0 \in S, \A n \in Nat : n \in S => n + 1 \in S
  PROVE  \A n \in Nat : n \in S
<1> DEFINE T == {n \in Nat : n \notin S}
<1> SUFFICES ASSUME T # {} PROVE FALSE
  OBVIOUS
<1>1. PICK m \in T : \A k \in T : m <= k
  <2>1. T \in SUBSET Nat
    OBVIOUS
  <2> HIDE DEF T
  <2> QED
    BY <2>1, LeastExists
<1>2. m # 0 /\ m \in Nat
  OBVIOUS
<1>3. m - 1 \in Nat /\ m - 1 \in S /\ m = (m - 1) + 1
  BY <1>1, <1>2
<1> QED
  BY <1>1, <1>3

-----------------------------------------------------------------------------
(* Iteration.  What is iterated in TypeCatalog is named here, so that one  *)
(* argument shows for all of it that the recursive function exists.        *)

\* A value as the server may have it, and a text as it may write one.
Sane(v) ==
    \/ v = Null
    \/ v.t \in {"value", "enum"} /\ v.parts = << >>
    \/ v.t = "domain" /\ v.s = "" /\ Len(v.parts) = 1
    \/ v.t \in {"composite", "array", "range", "multirange"} /\ v.s = ""

SaneText(t) ==
    \/ t = Null
    \/ t.t = "plain" /\ t.parts = << >>
    \/ t.t \in {"parentheses", "braces", "bounds"} /\ t.s = ""

SaneNest(below) == {v \in Nest(below) : Sane(v)}
SaneTextNest(below) == {t \in Nest(below) : SaneText(t)}

Step(what, env, below) ==
    CASE what = "reach" -> Follow(env, below)
      [] what = "trees" -> Nest(below)
      [] what = "sane values" -> SaneNest(below)
      [] what = "sane texts" -> SaneTextNest(below)
      [] what = "leaves" -> LeafLists(below)
      [] what = "texts" -> Texts(below)
      [] what = "values" -> ValueSets(env, below)
      [] what = "codecs" -> Codecs(env, below)
      [] what = "decoders" -> Decoders(env, below)
      [] what = "logical types" -> LogicalTypes(env, below)
      [] what = "pairs" -> WithParts(below)
      [] OTHER -> below

(* f is the iteration up to n.                                             *)
Iterates(f, what, env, first, n) ==
    f = [k \in 0..n |-> IF k = 0 THEN first ELSE Step(what, env, f[k - 1])]

LEMMA IterationUpTo ==
    ASSUME NEW what, NEW env, NEW first, NEW n \in Nat
    PROVE  \E f : Iterates(f, what, env, first, n)
<1> DEFINE S == {k \in Nat : ~ \E f : Iterates(f, what, env, first, k)}
<1> SUFFICES ASSUME S # {} PROVE FALSE
  OBVIOUS
<1>1. PICK m \in S : \A k \in S : m <= k
  <2>1. S \in SUBSET Nat
    OBVIOUS
  <2> HIDE DEF S
  <2> QED
    BY <2>1, LeastExists
<1>2. m # 0
  <2> DEFINE f == [k \in 0..0 |-> first]
  <2>1. f = [k \in 0..0 |-> IF k = 0 THEN first ELSE Step(what, env, f[k - 1])]
    <3>1. \A k \in 0..0 : k = 0
      OBVIOUS
    <3> QED
      BY <3>1
  <2>2. Iterates(f, what, env, first, 0)
    BY <2>1 DEF Iterates
  <2> QED
    BY <2>2
<1>3. m - 1 \in Nat /\ m - 1 \notin S
  BY <1>1, <1>2
<1>4. PICK f : Iterates(f, what, env, first, m - 1)
  BY <1>3
<1> DEFINE g == [k \in 0..m |-> IF k = m THEN Step(what, env, f[m - 1]) ELSE f[k]]
<1>5. ASSUME NEW k \in 0..m
      PROVE  g[k] = IF k = 0 THEN first ELSE Step(what, env, g[k - 1])
  <2>1. CASE k = 0
    BY <1>2, <1>4, <2>1 DEF Iterates
  <2>2. CASE k # 0 /\ k # m
    <3>1. k \in 0..(m - 1) /\ k - 1 \in 0..m /\ k - 1 # m
      BY <1>3, <2>2
    <3>2. f[k] = Step(what, env, f[k - 1])
      BY <1>4, <2>2, <3>1 DEF Iterates
    <3>3. g[k] = f[k] /\ g[k - 1] = f[k - 1]
      BY <2>2, <3>1
    <3> QED
      BY <2>2, <3>2, <3>3
  <2>3. CASE k = m
    <3>1. m - 1 \in 0..m /\ m - 1 # m
      BY <1>3
    <3>2. g[m] = Step(what, env, f[m - 1]) /\ g[m - 1] = f[m - 1]
      BY <3>1
    <3> QED
      BY <1>2, <2>3, <3>2
  <2> QED
    BY <2>1, <2>2, <2>3
<1>6. Iterates(g, what, env, first, m)
  <2>1. g = [k \in 0..m |-> g[k]]
    OBVIOUS
  <2> HIDE DEF g
  <2> QED
    BY <1>5, <2>1, Zenon DEF Iterates
<1> QED
  BY <1>1, <1>6

LEMMA IterationsAgree ==
    ASSUME NEW what, NEW env, NEW first, NEW n \in Nat, NEW m \in Nat, NEW f, NEW g,
           Iterates(f, what, env, first, n), Iterates(g, what, env, first, m),
           NEW k \in Nat, k <= n, k <= m
    PROVE  f[k] = g[k]
<1> DEFINE S == {j \in Nat : j <= n /\ j <= m /\ f[j] # g[j]}
<1> SUFFICES ASSUME S # {} PROVE FALSE
  OBVIOUS
<1>1. PICK j \in S : \A i \in S : j <= i
  <2>1. S \in SUBSET Nat
    OBVIOUS
  <2> HIDE DEF S
  <2> QED
    BY <2>1, LeastExists
<1>2. j \in 0..n /\ j \in 0..m
  BY <1>1
<1>3. f[j] = IF j = 0 THEN first ELSE Step(what, env, f[j - 1])
  BY <1>2 DEF Iterates
<1>4. g[j] = IF j = 0 THEN first ELSE Step(what, env, g[j - 1])
  BY <1>2 DEF Iterates
<1>5. j # 0 => f[j - 1] = g[j - 1]
  BY <1>1
<1> QED
  BY <1>1, <1>3, <1>4, <1>5

(* g is the iteration over all numbers that Iterate speaks of.             *)
Iteration(g, what, env, first) ==
    g = [k \in Nat |-> IF k = 0 THEN first ELSE Step(what, env, g[k - 1])]

LEMMA IterationExists ==
    ASSUME NEW what, NEW env, NEW first
    PROVE  \E g : Iteration(g, what, env, first)
<1> DEFINE upTo(n) == CHOOSE f : Iterates(f, what, env, first, n)
           g == [k \in Nat |-> upTo(k)[k]]
<1>1. \A n \in Nat : Iterates(upTo(n), what, env, first, n)
  BY IterationUpTo, Zenon
<1> HIDE DEF upTo
<1>2. ASSUME NEW k \in Nat
      PROVE  g[k] = IF k = 0 THEN first ELSE Step(what, env, g[k - 1])
  <2>1. k \in 0..k
    OBVIOUS
  <2>2. upTo(k)[k] = IF k = 0 THEN first ELSE Step(what, env, upTo(k)[k - 1])
    BY <1>1, <2>1 DEF Iterates
  <2>3. CASE k # 0
    <3>1. k - 1 \in Nat /\ k - 1 <= k /\ k - 1 <= k - 1
      BY <2>3
    <3>2. upTo(k)[k - 1] = upTo(k - 1)[k - 1]
      BY <1>1, <3>1, IterationsAgree
    <3> QED
      BY <2>2, <2>3, <3>1, <3>2
  <2> QED
    BY <2>2, <2>3
<1> HIDE DEF g
<1>3. g = [k \in Nat |-> g[k]]
  BY DEF g
<1>4. Iteration(g, what, env, first)
  BY <1>2, <1>3, Zenon DEF Iteration
<1> QED
  BY <1>4

-----------------------------------------------------------------------------
(* What is reached from a type.                                            *)

Reached(deps, seen, n) == Iterate(LAMBDA reached : Follow(deps, reached), seen, n)

LEMMA ReachedNext ==
    ASSUME NEW deps, NEW seen
    PROVE  /\ Reached(deps, seen, 0) = seen
           /\ \A n \in Nat : Reached(deps, seen, n + 1) = Follow(deps, Reached(deps, seen, n))
<1> DEFINE it[k \in Nat] == IF k = 0 THEN seen ELSE Follow(deps, it[k - 1])
<1>1. PICK g : Iteration(g, "reach", deps, seen)
  BY IterationExists
<1>2. g = [k \in Nat |-> IF k = 0 THEN seen ELSE Follow(deps, g[k - 1])]
  BY <1>1 DEF Iteration, Step
<1>3. it = [k \in Nat |-> IF k = 0 THEN seen ELSE Follow(deps, it[k - 1])]
  BY <1>2
<1>4. \A n \in Nat : Reached(deps, seen, n) = it[n]
  BY DEF Reached, Iterate
<1> HIDE DEF it
<1> QED
  BY <1>3, <1>4

(* C has what its members are made of.                                     *)
ClosedUnder(deps, C) == \A o \in C \cap DOMAIN deps : deps[o] \subseteq C

LEMMA FollowGrows ==
    ASSUME NEW deps, NEW seen
    PROVE  /\ seen \subseteq Follow(deps, seen)
           /\ Follow(deps, seen) = seen => ClosedUnder(deps, seen)
BY DEF Follow, ClosedUnder

LEMMA FollowWithin ==
    ASSUME NEW deps, NEW seen, NEW C, ClosedUnder(deps, C), seen \subseteq C
    PROVE  Follow(deps, seen) \subseteq C
BY DEF Follow, ClosedUnder

(* What is followed depends only on the types with a definition.           *)
LEMMA FollowAgain ==
    ASSUME NEW deps, NEW seen,
           Follow(deps, seen) \cap DOMAIN deps = seen \cap DOMAIN deps
    PROVE  Follow(deps, Follow(deps, seen)) = Follow(deps, seen)
BY DEF Follow

LEMMA ReachedWithin ==
    ASSUME NEW deps, NEW seen, NEW C, ClosedUnder(deps, C), seen \subseteq C
    PROVE  \A n \in Nat : Reached(deps, seen, n) \subseteq C
<1> DEFINE S == {k \in Nat : Reached(deps, seen, k) \subseteq C}
<1>1. 0 \in S
  BY ReachedNext
<1>2. ASSUME NEW n \in Nat, n \in S PROVE n + 1 \in S
  <2>1. Reached(deps, seen, n + 1) = Follow(deps, Reached(deps, seen, n))
    BY ReachedNext
  <2> QED
    BY <1>2, <2>1, FollowWithin
<1>3. \A n \in Nat : n \in S
  <2> HIDE DEF S
  <2> QED
    BY <1>1, <1>2, SetInduction
<1> QED
  BY <1>3

LEMMA ReachedStarts ==
    ASSUME NEW deps, NEW seen
    PROVE  \A n \in Nat : seen \subseteq Reached(deps, seen, n)
<1> DEFINE S == {k \in Nat : seen \subseteq Reached(deps, seen, k)}
<1>1. 0 \in S
  BY ReachedNext
<1>2. ASSUME NEW n \in Nat, n \in S PROVE n + 1 \in S
  <2>1. Reached(deps, seen, n + 1) = Follow(deps, Reached(deps, seen, n))
    BY ReachedNext
  <2> QED
    BY <1>2, <2>1, FollowGrows
<1>3. \A n \in Nat : n \in S
  <2> HIDE DEF S
  <2> QED
    BY <1>1, <1>2, SetInduction
<1> QED
  BY <1>3

(* Nothing is added after a round that adds nothing.                       *)
Rests(deps, seen, n) == Reached(deps, seen, n + 1) = Reached(deps, seen, n)

LEMMA RestsOn ==
    ASSUME NEW deps, NEW seen, NEW n \in Nat, Rests(deps, seen, n)
    PROVE  \A m \in Nat : n <= m => Rests(deps, seen, m)
<1> DEFINE S == {m \in Nat : n <= m => Rests(deps, seen, m)}
<1>1. 0 \in S
  OBVIOUS
<1>2. ASSUME NEW m \in Nat, m \in S PROVE m + 1 \in S
  <2>1. CASE n <= m
    <3>1. Reached(deps, seen, m + 1) = Reached(deps, seen, m)
      BY <1>2, <2>1 DEF Rests
    <3> DEFINE k == m + 1
    <3>2. /\ Reached(deps, seen, k + 1) = Follow(deps, Reached(deps, seen, k))
          /\ Reached(deps, seen, k) = Follow(deps, Reached(deps, seen, m))
      <4>1. Reached(deps, seen, k) = Follow(deps, Reached(deps, seen, m))
        BY ReachedNext
      <4>2. k \in Nat
        OBVIOUS
      <4> HIDE DEF k
      <4> QED
        BY <4>1, <4>2, ReachedNext
    <3>3. Rests(deps, seen, m + 1)
      BY <3>1, <3>2 DEF Rests
    <3> QED
      BY <3>3
  <2>2. CASE ~ (n <= m)
    <3>1. n <= m + 1 => n = m + 1
      BY <2>2
    <3> QED
      BY <3>1
  <2> QED
    BY <2>1, <2>2
<1>3. \A m \in Nat : m \in S
  <2> HIDE DEF S
  <2> QED
    BY <1>1, <1>2, SetInduction
<1> QED
  BY <1>3

(* A round that adds something adds a type with a definition, or it is the *)
(* last: there are no more rounds than definitions.                        *)
LEMMA VisitRests ==
    ASSUME NEW deps, NEW seen, IsFiniteSet(DOMAIN deps)
    PROVE  Rests(deps, seen, Cardinality(DOMAIN deps))
<1> DEFINE D == DOMAIN deps
           K == Cardinality(D)
           In(n) == Reached(deps, seen, n) \cap D
<1>0. K \in Nat
  BY FS_CardinalityType
<1> SUFFICES ASSUME ~ Rests(deps, seen, K) PROVE FALSE
  OBVIOUS
<1>1. \A n \in 0..K : ~ Rests(deps, seen, n)
  BY <1>0, RestsOn
<1>2. \A n \in Nat : IsFiniteSet(In(n)) /\ Cardinality(In(n)) \in Nat /\ Cardinality(In(n)) <= K
  <2> TAKE n \in Nat
  <2>1. In(n) \in SUBSET D
    OBVIOUS
  <2> HIDE DEF In
  <2> QED
    BY <2>1, FS_Subset, FS_CardinalityType
<1>3. Cardinality(In(0)) >= 1
  <2>1. In(0) # {}
    <3> SUFFICES ASSUME In(0) = {} PROVE FALSE
      OBVIOUS
    <3>1. Follow(deps, Reached(deps, seen, 0)) = Reached(deps, seen, 0)
      BY DEF Follow
    <3>2. Reached(deps, seen, 0 + 1) = Follow(deps, Reached(deps, seen, 0))
      BY ReachedNext
    <3>3. Rests(deps, seen, 0)
      BY <3>1, <3>2 DEF Rests
    <3> QED
      BY <1>0, <1>1, <3>3
  <2> HIDE DEF In
  <2> QED
    BY <1>2, <2>1, FS_EmptySet
<1>4. ASSUME NEW n \in Nat, n < K
      PROVE  Cardinality(In(n)) < Cardinality(In(n + 1))
  <2>1. Reached(deps, seen, n + 1) = Follow(deps, Reached(deps, seen, n))
    BY ReachedNext
  <2>2. In(n) \subseteq In(n + 1)
    BY <2>1, FollowGrows
  <2>3. In(n) # In(n + 1)
    <3> SUFFICES ASSUME In(n) = In(n + 1) PROVE FALSE
      OBVIOUS
    <3>1. Follow(deps, Reached(deps, seen, n + 1)) = Reached(deps, seen, n + 1)
      BY <2>1, FollowAgain
    <3>2. Reached(deps, seen, (n + 1) + 1) = Follow(deps, Reached(deps, seen, n + 1))
      <4> DEFINE k == n + 1
      <4>1. k \in Nat
        OBVIOUS
      <4> HIDE DEF k
      <4>2. Reached(deps, seen, k + 1) = Follow(deps, Reached(deps, seen, k))
        BY <4>1, ReachedNext
      <4> QED
        BY <4>2 DEF k
    <3>3. Rests(deps, seen, n + 1) /\ n + 1 \in 0..K
      BY <1>0, <1>4, <3>1, <3>2 DEF Rests
    <3> QED
      BY <1>1, <3>3
  <2>4. IsFiniteSet(In(n + 1)) /\ Cardinality(In(n + 1)) \in Nat /\ Cardinality(In(n)) \in Nat
    BY <1>2
  <2> HIDE DEF In
  <2> QED
    BY <2>2, <2>3, <2>4, FS_Subset
<1> DEFINE S == {n \in 0..K : ~ (Cardinality(In(n)) >= n + 1)}
<1>5. K \in S
  <2>1. K \in 0..K /\ ~ (Cardinality(In(K)) >= K + 1)
    <3> HIDE DEF In
    <3> QED
      BY <1>0, <1>2
  <2> QED
    BY <2>1
<1>6. PICK m \in S : \A k \in S : m <= k
  <2>1. S \in SUBSET Nat
    BY <1>0
  <2> HIDE DEF S
  <2> QED
    BY <1>5, <2>1, LeastExists
<1> HIDE DEF In
<1>7. m # 0
  BY <1>3, <1>6
<1>8. PICK k \in Nat : m = k + 1 /\ k < K /\ k \notin S /\ k \in 0..K
  <2>1. m - 1 \in Nat /\ m = (m - 1) + 1 /\ m - 1 < K /\ m - 1 \notin S /\ m - 1 \in 0..K
    BY <1>0, <1>6, <1>7
  <2> QED
    BY <2>1
<1>9. Cardinality(In(k)) >= k + 1 /\ Cardinality(In(k)) < Cardinality(In(m))
  BY <1>4, <1>8
<1> QED
  BY <1>2, <1>6, <1>8, <1>9

(* Visit is the least set with seen that has what its members are made of. *)
LEMMA VisitClosed ==
    ASSUME NEW deps, NEW seen, IsFiniteSet(DOMAIN deps)
    PROVE  /\ seen \subseteq Visit(deps, seen)
           /\ ClosedUnder(deps, Visit(deps, seen))
           /\ \A C : seen \subseteq C /\ ClosedUnder(deps, C) => Visit(deps, seen) \subseteq C
<1> DEFINE K == Cardinality(DOMAIN deps)
<1>0. K \in Nat
  BY FS_CardinalityType
<1>1. Visit(deps, seen) = Reached(deps, seen, K)
  BY DEF Visit, Reached, Depth
<1>2. Follow(deps, Reached(deps, seen, K)) = Reached(deps, seen, K)
  BY <1>0, VisitRests, ReachedNext DEF Rests
<1> HIDE DEF K
<1> QED
  BY <1>0, <1>1, <1>2, FollowGrows, ReachedStarts, ReachedWithin

-----------------------------------------------------------------------------
(* A set of OIDs in order.                                                 *)

Rank(oids, o) == Cardinality({p \in oids : p < o})

LEMMA RankGrows ==
    ASSUME NEW oids \in SUBSET Nat, IsFiniteSet(oids)
    PROVE  /\ \A o \in oids : Rank(oids, o) \in Nat /\ Rank(oids, o) + 1 \in 1..Cardinality(oids)
           /\ \A o, p \in oids : o < p => Rank(oids, o) < Rank(oids, p)
<1> DEFINE smaller(o) == {p \in oids : p < o}
<1>1. \A o : IsFiniteSet(smaller(o)) /\ Cardinality(smaller(o)) \in Nat
  <2> TAKE o
  <2>1. smaller(o) \in SUBSET oids
    OBVIOUS
  <2> HIDE DEF smaller
  <2> QED
    BY <2>1, FS_Subset, FS_CardinalityType
<1>2. ASSUME NEW o \in oids
      PROVE  Rank(oids, o) \in Nat /\ Rank(oids, o) + 1 \in 1..Cardinality(oids)
  <2>1. smaller(o) \in SUBSET oids /\ smaller(o) # oids
    OBVIOUS
  <2>2. Rank(oids, o) = Cardinality(smaller(o))
    BY DEF Rank
  <2>3. Cardinality(oids) \in Nat
    BY FS_CardinalityType
  <2> HIDE DEF smaller
  <2>4. Cardinality(smaller(o)) < Cardinality(oids)
    BY <1>1, <2>1, <2>3, FS_Subset
  <2> QED
    BY <1>1, <2>2, <2>3, <2>4
<1>3. ASSUME NEW o \in oids, NEW p \in oids, o < p
      PROVE  Rank(oids, o) < Rank(oids, p)
  <2>0. \A q \in oids : q \in Nat
    OBVIOUS
  <2>1. smaller(o) \in SUBSET smaller(p)
    <3>1. \A q \in oids : q < o => q < p
      BY <1>3, <2>0
    <3> QED
      BY <3>1
  <2>2. o \in smaller(p) /\ o \notin smaller(o)
    BY <1>3
  <2>3. Rank(oids, o) = Cardinality(smaller(o)) /\ Rank(oids, p) = Cardinality(smaller(p))
    BY DEF Rank
  <2> HIDE DEF smaller
  <2>4. Cardinality(smaller(o)) <= Cardinality(smaller(p))
        /\ Cardinality(smaller(o)) # Cardinality(smaller(p))
    BY <1>1, <2>1, <2>2, FS_Subset
  <2> QED
    BY <1>1, <2>3, <2>4
<1> QED
  BY <1>2, <1>3

Sorted(s, oids, n) ==
    /\ n \in Nat /\ s = [i \in 1..n |-> s[i]]
    /\ \A i \in 1..n : s[i] \in oids
    /\ \A o \in oids : \E i \in 1..n : s[i] = o
    /\ \A i, j \in 1..n : i < j => s[i] < s[j]

LEMMA InOrderSorts ==
    ASSUME NEW oids \in SUBSET Nat, IsFiniteSet(oids)
    PROVE  Sorted(InOrder(oids), oids, Cardinality(oids))
<1> DEFINE n == Cardinality(oids)
           s == InOrder(oids)
           f == [o \in oids |-> Rank(oids, o) + 1]
<1>1. n \in Nat /\ IsFiniteSet(1..n) /\ Cardinality(1..n) = n
  BY FS_CardinalityType, FS_Interval
<1>2. f \in Injection(oids, 1..n)
  <2>1. f \in [oids -> 1..n]
    BY RankGrows
  <2>2. ASSUME NEW o \in oids, NEW p \in oids, f[o] = f[p] PROVE o = p
    <3>1. Rank(oids, o) = Rank(oids, p)
      BY <2>2, RankGrows
    <3>2. ~ (o < p) /\ ~ (p < o)
      BY <3>1, RankGrows
    <3> QED
      BY <3>2
  <2> HIDE DEF f
  <2> QED
    BY <2>1, <2>2 DEF Injection, IsInjective
<1>3. f \in Surjection(oids, 1..n)
  <2> HIDE DEF f
  <2> QED
    BY <1>1, <1>2, FS_Injection
<1>4. ASSUME NEW i \in 1..n
      PROVE  s[i] \in oids /\ Rank(oids, s[i]) = i - 1
  <2>1. PICK o \in oids : f[o] = i
    <3> HIDE DEF f
    <3> QED
      BY <1>3 DEF Surjection
  <2>2. Rank(oids, o) = i - 1
    BY <2>1, RankGrows
  <2>3. s[i] = CHOOSE p \in oids : Rank(oids, p) = i - 1
    BY DEF InOrder, Rank
  <2> HIDE DEF s
  <2> QED
    BY <2>2, <2>3
<1>5. s = [i \in 1..n |-> s[i]]
  <2> DEFINE nth(i) == CHOOSE o \in oids : Cardinality({p \in oids : p < o}) = i - 1
  <2>1. s = [i \in 1..n |-> nth(i)]
    BY DEF InOrder
  <2> HIDE DEF nth, s
  <2> QED
    BY <2>1
<1> HIDE DEF s
<1>6. ASSUME NEW o \in oids PROVE \E i \in 1..n : s[i] = o
  <2>1. PICK i \in 1..n : i = Rank(oids, o) + 1
    BY RankGrows
  <2>2. PICK p \in oids : p = s[i] /\ Rank(oids, p) = i - 1
    BY <1>4
  <2>3. ~ (o < p) /\ ~ (p < o)
    BY <2>1, <2>2, RankGrows
  <2> QED
    BY <2>2, <2>3
<1>7. ASSUME NEW i \in 1..n, NEW j \in 1..n, i < j PROVE s[i] < s[j]
  <2>1. PICK o \in oids : o = s[i] /\ Rank(oids, o) = i - 1
    BY <1>4
  <2>2. PICK p \in oids : p = s[j] /\ Rank(oids, p) = j - 1
    BY <1>4
  <2>3. ~ (p < o) /\ o # p
    BY <1>7, <2>1, <2>2, RankGrows
  <2> QED
    BY <2>1, <2>2, <2>3
<1>8. Sorted(s, oids, n)
  BY <1>1, <1>4, <1>5, <1>6, <1>7, Zenon DEF Sorted
<1> QED
  BY <1>8 DEF s

-----------------------------------------------------------------------------
(* The evidence kept with a column.                                        *)

Explains(closure, root) ==
    /\ ValidateTypeDefinitionClosure(closure, root)
    /\ \A e \in Range(closure.types) :
          Range(e[2].deps) \subseteq {f[1] : f \in Range(closure.types)}

(* The definitions of a closed set of types, with the same types reached.  *)
LEMMA VisitRestricted ==
    ASSUME NEW deps, NEW seen, IsFiniteSet(DOMAIN deps), NEW part,
           Visit(deps, seen) \subseteq DOMAIN deps,
           part = [o \in Visit(deps, seen) |-> deps[o]]
    PROVE  Visit(part, seen) = Visit(deps, seen)
<1> DEFINE V == Visit(deps, seen)
           W == Visit(part, seen)
<1>1. DOMAIN part = V /\ IsFiniteSet(V)
  BY FS_Subset
<1>2. seen \subseteq V /\ ClosedUnder(deps, V)
      /\ \A C : seen \subseteq C /\ ClosedUnder(deps, C) => V \subseteq C
  BY VisitClosed
<1>3. seen \subseteq W /\ ClosedUnder(part, W)
      /\ \A C : seen \subseteq C /\ ClosedUnder(part, C) => W \subseteq C
  BY <1>1, VisitClosed
<1> HIDE DEF V, W
<1>4. \A o \in V : part[o] = deps[o]
  BY DEF V
<1>5. W \subseteq V
  <2>1. ClosedUnder(part, V)
    BY <1>1, <1>2, <1>4 DEF ClosedUnder, V
  <2> QED
    BY <1>2, <1>3, <2>1
<1>6. V \subseteq W
  <2>1. ClosedUnder(deps, W)
    BY <1>1, <1>3, <1>4, <1>5 DEF ClosedUnder
  <2> QED
    BY <1>2, <1>3, <2>1
<1> QED
  BY <1>5, <1>6 DEF V, W

(* The OIDs of a list of definitions, and the definition it has for each.  *)
Listed(list) == {e[1] : e \in Range(list)}
Found(list) == [o \in Listed(list) |-> (CHOOSE e \in Range(list) : e[1] = o)[2]]

(* The types a closure is of, and the definitions it has of them.          *)
LEMMA ClosureHas ==
    ASSUME NEW defs, IsFiniteSet(DOMAIN defs), DOMAIN defs \subseteq Nat, NEW oid,
           DefinitionClosure(defs, oid) # NoClosure,
           NEW V, V = Visit(ClosureDependencies(defs), {oid})
    PROVE  /\ oid \in V /\ V \subseteq DOMAIN defs
           /\ \A o \in V : Range(defs[o].deps) \subseteq V
           /\ \A e \in Range(DefinitionClosure(defs, oid).types) : \E o \in V : e = <<o, defs[o]>>
           /\ \A o \in V : <<o, defs[o]>> \in Range(DefinitionClosure(defs, oid).types)
<1> DEFINE deps == ClosureDependencies(defs)
           s == InOrder(V)
           n == Cardinality(V)
           list == [i \in DOMAIN s |-> <<s[i], defs[s[i]]>>]
           c == DefinitionClosure(defs, oid)
<1>1. DOMAIN deps = DOMAIN defs /\ \A o \in DOMAIN defs : deps[o] = Range(defs[o].deps)
  BY DEF ClosureDependencies
<1> HIDE DEF deps
<1>2. oid \in V /\ ClosedUnder(deps, V)
  BY <1>1, VisitClosed DEF deps
<1>3. V \subseteq DOMAIN defs
  BY DEF DefinitionClosure
<1>4. c.types = list
  BY <1>3 DEF DefinitionClosure
<1>5. V \in SUBSET Nat /\ IsFiniteSet(V)
  BY <1>3, FS_Subset
<1>6. Sorted(s, V, n)
  BY <1>5, InOrderSorts
<1> HIDE DEF s, n, c
<1>7. DOMAIN list = 1..n /\ \A i \in 1..n : list[i] = <<s[i], defs[s[i]]>>
  BY <1>6 DEF Sorted
<1> HIDE DEF list
<1>8. ASSUME NEW e \in Range(list) PROVE \E o \in V : e = <<o, defs[o]>>
  <2>1. PICK i \in 1..n : e = list[i]
    BY <1>7 DEF Range
  <2>2. s[i] \in V /\ e = <<s[i], defs[s[i]]>>
    BY <1>6, <1>7, <2>1 DEF Sorted
  <2> QED
    BY <2>2
<1>9. ASSUME NEW o \in V PROVE <<o, defs[o]>> \in Range(list)
  <2>1. PICK i \in 1..n : s[i] = o
    BY <1>6 DEF Sorted
  <2>2. list[i] = <<o, defs[o]>> /\ i \in DOMAIN list
    BY <1>7, <2>1
  <2> QED
    BY <2>2 DEF Range
<1>10. \A o \in V : Range(defs[o].deps) \subseteq V
  BY <1>1, <1>2, <1>3 DEF ClosedUnder
<1> QED
  BY <1>2, <1>3, <1>4, <1>8, <1>9, <1>10 DEF c

LEMMA ClosureExplains ==
    ASSUME NEW defs, IsFiniteSet(DOMAIN defs), DOMAIN defs \subseteq Nat, NEW oid,
           DefinitionClosure(defs, oid) # NoClosure
    PROVE  Explains(DefinitionClosure(defs, oid), oid)
<1> DEFINE deps == ClosureDependencies(defs)
           V == Visit(deps, {oid})
           s == InOrder(V)
           n == Cardinality(V)
           list == [i \in DOMAIN s |-> <<s[i], defs[s[i]]>>]
           c == DefinitionClosure(defs, oid)
<1>1. DOMAIN deps = DOMAIN defs /\ \A o \in DOMAIN defs : deps[o] = Range(defs[o].deps)
  BY DEF ClosureDependencies
<1> HIDE DEF deps
<1>2. oid \in V /\ ClosedUnder(deps, V)
  BY <1>1, VisitClosed
<1>3. V \subseteq DOMAIN defs
  BY DEF DefinitionClosure, deps
<1>4. c = [types |-> list, extensions |-> Extensions(Restrict(defs, V)), root |-> oid]
  BY <1>3 DEF DefinitionClosure, deps
<1>5. V \in SUBSET Nat /\ IsFiniteSet(V)
  BY <1>3, FS_Subset
<1>6. Sorted(s, V, n)
  BY <1>5, InOrderSorts
<1> HIDE DEF V, s, n
<1>7. DOMAIN s = 1..n /\ DOMAIN list = 1..n /\ n \in Nat
  BY <1>6 DEF Sorted
<1>8. \A i \in 1..n : list[i] = <<s[i], defs[s[i]]>>
  BY <1>7
<1> HIDE DEF list
<1>9. /\ \A e \in Range(list) : \E o \in V : e = <<o, defs[o]>>
      /\ \A o \in V : <<o, defs[o]>> \in Range(list)
  <2>1. list = DefinitionClosure(defs, oid).types /\ V = Visit(ClosureDependencies(defs), {oid})
    BY <1>4 DEF V, deps
  <2> HIDE DEF c
  <2> QED
    BY <2>1, ClosureHas
<1>10. Listed(list) = V
  <2>1. ASSUME NEW e \in Range(list) PROVE e[1] \in V
    BY <1>9
  <2>2. ASSUME NEW o \in V PROVE \E e \in Range(list) : e[1] = o
    <3>1. <<o, defs[o]>>[1] = o
      OBVIOUS
    <3> QED
      BY <1>9, <3>1, Zenon
  <2> QED
    BY <2>1, <2>2 DEF Listed
<1> DEFINE at(o) == (CHOOSE e \in Range(list) : e[1] = o)[2]
           kept == [o \in V |-> at(o)]
<1>11. kept = Restrict(defs, V)
  <2>1. ASSUME NEW o \in V PROVE at(o) = defs[o]
    <3> DEFINE e == CHOOSE x \in Range(list) : x[1] = o
    <3>1. \E x \in Range(list) : x[1] = o
      BY <1>9
    <3>2. e \in Range(list) /\ e[1] = o
      BY <3>1
    <3> HIDE DEF e
    <3>3. e[2] = defs[o]
      BY <1>9, <3>2
    <3> QED
      BY <3>3 DEF e
  <2> HIDE DEF at
  <2> QED
    BY <2>1, Zenon DEF Restrict
<1> HIDE DEF kept
<1>12. Visit(TypeDefinitionDependencies(kept), {oid}) = V
  <2> DEFINE part == TypeDefinitionDependencies(kept)
  <2>1. part = [o \in V |-> deps[o]]
    <3>1. DOMAIN kept = V /\ \A o \in V : kept[o] = defs[o]
      BY <1>11 DEF Restrict
    <3>2. \A o \in V : Range(kept[o].deps) = deps[o]
      BY <1>1, <1>3, <3>1
    <3>3. part = [o \in V |-> Range(kept[o].deps)]
      BY <3>1 DEF TypeDefinitionDependencies
    <3> QED
      BY <3>2, <3>3, Zenon
  <2> HIDE DEF part
  <2>2. Visit(part, {oid}) = Visit(deps, {oid})
    BY <1>1, <1>3, <2>1, VisitRestricted DEF V
  <2> QED
    BY <2>2 DEF part, V
<1>13. \A i \in 1..(Len(list) - 1) : list[i][1] < list[i + 1][1]
  <2>1. Len(list) = n
    <3>1. list = [i \in 1..n |-> <<s[i], defs[s[i]]>>]
      BY <1>7 DEF list
    <3> QED
      BY <1>7, <3>1
  <2>2. ASSUME NEW i \in 1..(n - 1) PROVE s[i] < s[i + 1] /\ i \in 1..n /\ i + 1 \in 1..n
    <3>1. i \in 1..n /\ i + 1 \in 1..n /\ i < i + 1
      BY <1>7
    <3> QED
      BY <1>6, <3>1 DEF Sorted
  <2> QED
    BY <1>8, <2>1, <2>2
<1>14. ValidateTypeDefinitionClosure(c, oid)
  <2>1. c.types = list /\ c.extensions = Extensions(kept)
    BY <1>4, <1>11
  <2> HIDE DEF c
  <2>2. Found(list) = kept
    BY <1>10 DEF Found, kept
  <2>3. ValidateTypeDefinitionClosure(c, oid) <=>
            /\ oid \in Listed(c.types)
            /\ \A i \in 1..(Len(c.types) - 1) : c.types[i][1] < c.types[i + 1][1]
            /\ c.extensions = Extensions(Found(c.types))
            /\ Visit(TypeDefinitionDependencies(Found(c.types)), {oid}) = Listed(c.types)
    BY DEF ValidateTypeDefinitionClosure, Listed, Found
  <2> QED
    BY <1>2, <1>10, <1>12, <1>13, <2>1, <2>2, <2>3
<1>15. ASSUME NEW e \in Range(list) PROVE Range(e[2].deps) \subseteq V
  <2>1. PICK o \in V : e = <<o, defs[o]>>
    BY <1>9
  <2>2. Range(e[2].deps) = deps[o] /\ o \in DOMAIN deps
    BY <1>1, <1>3, <2>1
  <2> QED
    BY <1>2, <2>2 DEF ClosedUnder
<1>16. c.types = list
  BY <1>4
<1> HIDE DEF c
<1> QED
  BY <1>10, <1>14, <1>15, <1>16 DEF Explains, Listed, c

-----------------------------------------------------------------------------
(* The directory only ever has the OIDs of types, and a column, once its   *)
(* mapping is asked for, is not another one later.                         *)

Directories ==
    /\ DOMAIN types \subseteq Oids
    /\ catalog = [types |-> catalog.types, available |-> catalog.available]
    /\ DOMAIN catalog.types \subseteq Oids

Evidence ==
    /\ step # "types" => column # 0
    /\ step = "streaming" => /\ mapping.closure = DefinitionClosure(catalog.types, column)
                             /\ mapping.closure # NoClosure

LEMMA MinIn ==
    ASSUME NEW S \in SUBSET Nat, S # {}
    PROVE  Min(S) \in S
<1>1. PICK m \in S : \A k \in S : m <= k
  BY LeastExists
<1> QED
  BY <1>1 DEF Min

LEMMA CreatedDomain ==
    ASSUME DOMAIN types \subseteq Oids, CreateType
    PROVE  DOMAIN types' \subseteq Oids
<1> DEFINE S == NewOids \ DOMAIN types
<1>1. S # {} /\ S \in SUBSET Nat /\ S \subseteq Oids
  BY OidsAssumption DEF CreateType, Oids
<1>2. Min(S) \in Oids
  BY <1>1, MinIn
<1>3. \E d : types' = [p \in DOMAIN types \cup {Min(S)} |-> IF p = Min(S) THEN d ELSE types[p]]
  BY DEF CreateType
<1> HIDE DEF S
<1> QED
  BY <1>2, <1>3

LEMMA DirectoriesKept ==
    ASSUME Directories, [Next]_vars
    PROVE  Directories'
<1> USE DEF Directories
<1>1. CASE CreateType
  <2>1. UNCHANGED catalog
    BY <1>1 DEF CreateType
  <2> QED
    BY <1>1, <2>1, CreatedDomain
<1>2. CASE AlterType
  <2>1. UNCHANGED catalog
    BY <1>2 DEF AlterType
  <2>2. \E o, d : types' = [types EXCEPT ![o] = d]
    BY <1>2 DEF AlterType
  <2> QED
    BY <2>1, <2>2
<1>3. CASE CreateTable
  BY <1>3 DEF CreateTable
<1>4. CASE WriteRow
  BY <1>4 DEF WriteRow
<1>5. CASE LoadTypes
  BY <1>5 DEF LoadTypes
<1>6. CASE LoadLabels
  BY <1>6 DEF LoadLabels
<1>7. CASE LoadFields
  BY <1>7 DEF LoadFields
<1>8. CASE LoadColumn
  BY <1>8 DEF LoadColumn
<1>9. CASE Deliver
  BY <1>9 DEF Deliver
<1>10. CASE Restart
  BY <1>10 DEF Restart, NoCatalog
<1>11. CASE UNCHANGED vars
  BY <1>11 DEF vars
<1> QED
  BY <1>1, <1>2, <1>3, <1>4, <1>5, <1>6, <1>7, <1>8, <1>9, <1>10, <1>11 DEF Next

LEMMA EvidenceKept ==
    ASSUME Evidence, [Next]_vars
    PROVE  Evidence'
<1> USE DEF Evidence
<1>1. CASE CreateType
  BY <1>1 DEF CreateType
<1>2. CASE AlterType
  BY <1>2 DEF AlterType
<1>3. CASE CreateTable
  BY <1>3 DEF CreateTable
<1>4. CASE WriteRow
  BY <1>4 DEF WriteRow
<1>5. CASE LoadTypes
  BY <1>5 DEF LoadTypes
<1>6. CASE LoadLabels
  BY <1>6 DEF LoadLabels
<1>7. CASE LoadFields
  BY <1>7 DEF LoadFields
<1>8. CASE LoadColumn
  BY <1>8 DEF LoadColumn, Refused
<1>9. CASE Deliver
  BY <1>9 DEF Deliver
<1>10. CASE Restart
  BY <1>10 DEF Restart
<1>11. CASE UNCHANGED vars
  BY <1>11 DEF vars
<1> QED
  BY <1>1, <1>2, <1>3, <1>4, <1>5, <1>6, <1>7, <1>8, <1>9, <1>10, <1>11 DEF Next

LEMMA EvidenceEnough ==
    ASSUME Directories, Evidence
    PROVE  EvidenceExplains
<1> SUFFICES ASSUME step = "streaming" PROVE Explains(mapping.closure, column)
  BY DEF EvidenceExplains, Explains
<1>1. IsFiniteSet(DOMAIN catalog.types) /\ DOMAIN catalog.types \subseteq Nat
  BY OidsAssumption, FS_Subset DEF Directories
<1>2. mapping.closure = DefinitionClosure(catalog.types, column) /\ mapping.closure # NoClosure
  BY DEF Evidence
<1> QED
  BY <1>1, <1>2, ClosureExplains

(* The definitions a source keeps with its column explain it completely,   *)
(* whatever types are created or altered between the statements by which   *)
(* catalog.rs reads the directory.                                         *)
THEOREM EvidenceExplainsHolds == Spec => []EvidenceExplains
<1>1. Init => Directories /\ Evidence
  <2> SUFFICES ASSUME Init PROVE Directories /\ Evidence
    OBVIOUS
  <2>1. DOMAIN NoCatalog.types = {}
    BY DEF NoCatalog
  <2>2. NoCatalog = [types |-> NoCatalog.types, available |-> NoCatalog.available]
    BY DEF NoCatalog
  <2> QED
    BY <2>1, <2>2 DEF Init, Directories, Evidence, Oids
<1>2. Directories /\ Evidence /\ [Next]_vars => Directories' /\ Evidence'
  BY DirectoriesKept, EvidenceKept
<1>3. Directories /\ Evidence => EvidenceExplains
  BY EvidenceEnough
<1> QED
  BY <1>1, <1>2, <1>3, PTL DEF Spec

-----------------------------------------------------------------------------
(* The iterations, one round after another.                                *)

SaneValues(n) == Iterate(SaneNest, {}, n)
SaneTexts(n) == Iterate(SaneTextNest, {}, n)
LeafListsUpTo(n) == Iterate(LeafLists, << >>, n)
TextsUpTo(n) == Iterate(Texts, << >>, n)
ValueSetsUpTo(defs, n) == Iterate(LAMBDA below : ValueSets(defs, below), << >>, n)
CodecsUpTo(cat, n) == Iterate(LAMBDA below : Codecs(cat, below), << >>, n)
DecodersUpTo(cat, n) == Iterate(LAMBDA below : Decoders(cat, below), << >>, n)

LEMMA TreesNext ==
    /\ Trees(0) = {}
    /\ \A n \in Nat : Trees(n + 1) = Nest(Trees(n))
<1> DEFINE it[k \in Nat] == IF k = 0 THEN {} ELSE Nest(it[k - 1])
<1>1. PICK g : Iteration(g, "trees", 0, {})
  BY IterationExists
<1>2. g = [k \in Nat |-> IF k = 0 THEN {} ELSE Nest(g[k - 1])]
  BY <1>1 DEF Iteration, Step
<1>3. it = [k \in Nat |-> IF k = 0 THEN {} ELSE Nest(it[k - 1])]
  BY <1>2
<1>4. \A n \in Nat : Trees(n) = it[n]
  BY DEF Trees, Iterate
<1> HIDE DEF it
<1>5. it[0] = {}
  BY <1>3
<1>6. ASSUME NEW n \in Nat PROVE Trees(n + 1) = Nest(Trees(n))
  <2>1. it[n + 1] = Nest(it[n])
    BY <1>3
  <2> QED
    BY <1>4, <2>1
<1> QED
  BY <1>4, <1>5, <1>6

LEMMA SaneValuesNext ==
    /\ SaneValues(0) = {}
    /\ \A n \in Nat : SaneValues(n + 1) = SaneNest(SaneValues(n))
<1> DEFINE it[k \in Nat] == IF k = 0 THEN {} ELSE SaneNest(it[k - 1])
<1>1. PICK g : Iteration(g, "sane values", 0, {})
  BY IterationExists
<1>2. g = [k \in Nat |-> IF k = 0 THEN {} ELSE SaneNest(g[k - 1])]
  BY <1>1 DEF Iteration, Step
<1>3. it = [k \in Nat |-> IF k = 0 THEN {} ELSE SaneNest(it[k - 1])]
  BY <1>2
<1>4. \A n \in Nat : SaneValues(n) = it[n]
  BY DEF SaneValues, Iterate
<1> HIDE DEF it
<1>5. it[0] = {}
  BY <1>3
<1>6. ASSUME NEW n \in Nat PROVE SaneValues(n + 1) = SaneNest(SaneValues(n))
  <2>1. it[n + 1] = SaneNest(it[n])
    BY <1>3
  <2> QED
    BY <1>4, <2>1
<1> QED
  BY <1>4, <1>5, <1>6

LEMMA SaneTextsNext ==
    /\ SaneTexts(0) = {}
    /\ \A n \in Nat : SaneTexts(n + 1) = SaneTextNest(SaneTexts(n))
<1> DEFINE it[k \in Nat] == IF k = 0 THEN {} ELSE SaneTextNest(it[k - 1])
<1>1. PICK g : Iteration(g, "sane texts", 0, {})
  BY IterationExists
<1>2. g = [k \in Nat |-> IF k = 0 THEN {} ELSE SaneTextNest(g[k - 1])]
  BY <1>1 DEF Iteration, Step
<1>3. it = [k \in Nat |-> IF k = 0 THEN {} ELSE SaneTextNest(it[k - 1])]
  BY <1>2
<1>4. \A n \in Nat : SaneTexts(n) = it[n]
  BY DEF SaneTexts, Iterate
<1> HIDE DEF it
<1>5. it[0] = {}
  BY <1>3
<1>6. ASSUME NEW n \in Nat PROVE SaneTexts(n + 1) = SaneTextNest(SaneTexts(n))
  <2>1. it[n + 1] = SaneTextNest(it[n])
    BY <1>3
  <2> QED
    BY <1>4, <2>1
<1> QED
  BY <1>4, <1>5, <1>6

LEMMA LeafListsNext ==
    /\ LeafListsUpTo(0) = << >>
    /\ \A n \in Nat : LeafListsUpTo(n + 1) = LeafLists(LeafListsUpTo(n))
<1> DEFINE it[k \in Nat] == IF k = 0 THEN << >> ELSE LeafLists(it[k - 1])
<1>1. PICK g : Iteration(g, "leaves", 0, << >>)
  BY IterationExists
<1>2. g = [k \in Nat |-> IF k = 0 THEN << >> ELSE LeafLists(g[k - 1])]
  BY <1>1 DEF Iteration, Step
<1>3. it = [k \in Nat |-> IF k = 0 THEN << >> ELSE LeafLists(it[k - 1])]
  BY <1>2
<1>4. \A n \in Nat : LeafListsUpTo(n) = it[n]
  BY DEF LeafListsUpTo, Iterate
<1> HIDE DEF it
<1> QED
  BY <1>3, <1>4

LEMMA TextsNext ==
    /\ TextsUpTo(0) = << >>
    /\ \A n \in Nat : TextsUpTo(n + 1) = Texts(TextsUpTo(n))
<1> DEFINE it[k \in Nat] == IF k = 0 THEN << >> ELSE Texts(it[k - 1])
<1>1. PICK g : Iteration(g, "texts", 0, << >>)
  BY IterationExists
<1>2. g = [k \in Nat |-> IF k = 0 THEN << >> ELSE Texts(g[k - 1])]
  BY <1>1 DEF Iteration, Step
<1>3. it = [k \in Nat |-> IF k = 0 THEN << >> ELSE Texts(it[k - 1])]
  BY <1>2
<1>4. \A n \in Nat : TextsUpTo(n) = it[n]
  BY DEF TextsUpTo, Iterate
<1> HIDE DEF it
<1> QED
  BY <1>3, <1>4

LEMMA ValueSetsNext ==
    ASSUME NEW defs
    PROVE  /\ ValueSetsUpTo(defs, 0) = << >>
           /\ \A n \in Nat : ValueSetsUpTo(defs, n + 1) = ValueSets(defs, ValueSetsUpTo(defs, n))
<1> DEFINE it[k \in Nat] == IF k = 0 THEN << >> ELSE ValueSets(defs, it[k - 1])
<1>1. PICK g : Iteration(g, "values", defs, << >>)
  BY IterationExists
<1>2. g = [k \in Nat |-> IF k = 0 THEN << >> ELSE ValueSets(defs, g[k - 1])]
  BY <1>1 DEF Iteration, Step
<1>3. it = [k \in Nat |-> IF k = 0 THEN << >> ELSE ValueSets(defs, it[k - 1])]
  BY <1>2
<1>4. \A n \in Nat : ValueSetsUpTo(defs, n) = it[n]
  BY DEF ValueSetsUpTo, Iterate
<1> HIDE DEF it
<1> QED
  BY <1>3, <1>4

LEMMA CodecsNext ==
    ASSUME NEW cat
    PROVE  /\ CodecsUpTo(cat, 0) = << >>
           /\ \A n \in Nat : CodecsUpTo(cat, n + 1) = Codecs(cat, CodecsUpTo(cat, n))
<1> DEFINE it[k \in Nat] == IF k = 0 THEN << >> ELSE Codecs(cat, it[k - 1])
<1>1. PICK g : Iteration(g, "codecs", cat, << >>)
  BY IterationExists
<1>2. g = [k \in Nat |-> IF k = 0 THEN << >> ELSE Codecs(cat, g[k - 1])]
  BY <1>1 DEF Iteration, Step
<1>3. it = [k \in Nat |-> IF k = 0 THEN << >> ELSE Codecs(cat, it[k - 1])]
  BY <1>2
<1>4. \A n \in Nat : CodecsUpTo(cat, n) = it[n]
  BY DEF CodecsUpTo, Iterate
<1> HIDE DEF it
<1> QED
  BY <1>3, <1>4

LEMMA DecodersNext ==
    ASSUME NEW cat
    PROVE  /\ DecodersUpTo(cat, 0) = << >>
           /\ \A n \in Nat : DecodersUpTo(cat, n + 1) = Decoders(cat, DecodersUpTo(cat, n))
<1> DEFINE it[k \in Nat] == IF k = 0 THEN << >> ELSE Decoders(cat, it[k - 1])
<1>1. PICK g : Iteration(g, "decoders", cat, << >>)
  BY IterationExists
<1>2. g = [k \in Nat |-> IF k = 0 THEN << >> ELSE Decoders(cat, g[k - 1])]
  BY <1>1 DEF Iteration, Step
<1>3. it = [k \in Nat |-> IF k = 0 THEN << >> ELSE Decoders(cat, it[k - 1])]
  BY <1>2
<1>4. \A n \in Nat : DecodersUpTo(cat, n) = it[n]
  BY DEF DecodersUpTo, Iterate
<1> HIDE DEF it
<1> QED
  BY <1>3, <1>4

-----------------------------------------------------------------------------
(* What nests less deep is there as well.                                  *)

LEMMA NestGrows ==
    ASSUME NEW less, NEW more, less \subseteq more
    PROVE  /\ Nest(less) \subseteq Nest(more)
           /\ SaneNest(less) \subseteq SaneNest(more) /\ SaneNest(less) \subseteq Nest(more)
           /\ SaneTextNest(less) \subseteq SaneTextNest(more)
           /\ SaneTextNest(less) \subseteq Nest(more)
<1>1. ASSUME NEW v \in Nest(less) PROVE v \in Nest(more)
  <2>1. Seq(less) \subseteq Seq(more)
    OBVIOUS
  <2> QED
    BY <2>1 DEF Nest
<1> QED
  BY <1>1 DEF SaneNest, SaneTextNest

Grown(n) ==
    /\ Trees(n) \subseteq Trees(n + 1)
    /\ SaneValues(n) \subseteq SaneValues(n + 1) /\ SaneValues(n) \subseteq Trees(n)
    /\ SaneTexts(n) \subseteq SaneTexts(n + 1) /\ SaneTexts(n) \subseteq Trees(n)

LEMMA GrownAll == \A n \in Nat : Grown(n)
<1> DEFINE S == {n \in Nat : Grown(n)}
<1>1. 0 \in S
  BY TreesNext, SaneValuesNext, SaneTextsNext DEF Grown
<1>2. ASSUME NEW n \in Nat, n \in S PROVE n + 1 \in S
  <2> DEFINE k == n + 1
  <2>1. Trees(k) = Nest(Trees(n)) /\ SaneValues(k) = SaneNest(SaneValues(n))
        /\ SaneTexts(k) = SaneTextNest(SaneTexts(n))
    BY TreesNext, SaneValuesNext, SaneTextsNext
  <2>2. k \in Nat /\ Grown(n)
    BY <1>2
  <2>3. Trees(n) \subseteq Trees(k) /\ SaneValues(n) \subseteq SaneValues(k)
        /\ SaneTexts(n) \subseteq SaneTexts(k)
    BY <2>2 DEF Grown
  <2> HIDE DEF k
  <2>4. Trees(k + 1) = Nest(Trees(k)) /\ SaneValues(k + 1) = SaneNest(SaneValues(k))
        /\ SaneTexts(k + 1) = SaneTextNest(SaneTexts(k))
    BY <2>2, TreesNext, SaneValuesNext, SaneTextsNext
  <2>5. Trees(k) \subseteq Trees(k + 1) /\ SaneValues(k) \subseteq SaneValues(k + 1)
        /\ SaneTexts(k) \subseteq SaneTexts(k + 1)
    <3>1. Nest(Trees(n)) \subseteq Nest(Trees(k))
      BY <2>3, NestGrows
    <3>2. SaneNest(SaneValues(n)) \subseteq SaneNest(SaneValues(k))
      BY <2>3, NestGrows
    <3>3. SaneTextNest(SaneTexts(n)) \subseteq SaneTextNest(SaneTexts(k))
      BY <2>3, NestGrows
    <3> QED
      BY <2>1, <2>4, <3>1, <3>2, <3>3, Zenon
  <2>6. SaneValues(n) \subseteq Trees(n) /\ SaneTexts(n) \subseteq Trees(n)
    BY <2>2 DEF Grown
  <2>7. SaneValues(k) \subseteq Trees(k) /\ SaneTexts(k) \subseteq Trees(k)
    <3>1. SaneNest(SaneValues(n)) \subseteq Nest(Trees(n))
      BY <2>6, NestGrows
    <3>2. SaneTextNest(SaneTexts(n)) \subseteq Nest(Trees(n))
      BY <2>6, NestGrows
    <3> QED
      BY <2>1, <3>1, <3>2, Zenon
  <2>8. Grown(k)
    BY <2>5, <2>7 DEF Grown
  <2> QED
    BY <2>2, <2>8 DEF k
<1> HIDE DEF S
<1>3. \A n \in Nat : n \in S
  BY <1>1, <1>2, SetInduction
<1> QED
  BY <1>3 DEF S

Within(n, m) ==
    Trees(n) \subseteq Trees(m) /\ SaneValues(n) \subseteq SaneValues(m)
    /\ SaneTexts(n) \subseteq SaneTexts(m)

LEMMA WithinAll == \A n \in Nat : \A m \in Nat : n <= m => Within(n, m)
<1> SUFFICES ASSUME NEW n \in Nat PROVE \A m \in Nat : n <= m => Within(n, m)
  OBVIOUS
<1> DEFINE S == {m \in Nat : n <= m => Within(n, m)}
<1>1. 0 \in S
  BY DEF Within
<1>2. ASSUME NEW m \in Nat, m \in S PROVE m + 1 \in S
  <2>1. CASE n <= m
    <3>1. Within(n, m)
      BY <1>2, <2>1
    <3>2. Grown(m)
      BY GrownAll
    <3>3. Within(n, m + 1)
      BY <3>1, <3>2 DEF Within, Grown
    <3> QED
      BY <3>3
  <2>2. CASE n = m + 1
    <3>1. Within(m + 1, m + 1)
      BY DEF Within
    <3> QED
      BY <2>2, <3>1
  <2>3. CASE ~ (n <= m) /\ n # m + 1
    BY <2>3
  <2> QED
    BY <2>1, <2>2, <2>3
<1> HIDE DEF S
<1>3. \A m \in Nat : m \in S
  BY <1>1, <1>2, SetInduction
<1> QED
  BY <1>3 DEF S

-----------------------------------------------------------------------------
(* What is computed from the parts of a value does not depend on how deep  *)
(* values may nest.                                                        *)

LEMMA LeafListsDomain ==
    \A n \in Nat : DOMAIN LeafListsUpTo(n) = Trees(n)
<1> DEFINE S == {n \in Nat : DOMAIN LeafListsUpTo(n) = Trees(n)}
<1>1. 0 \in S
  <2>1. DOMAIN << >> = {}
    OBVIOUS
  <2>2. DOMAIN LeafListsUpTo(0) = Trees(0)
    BY <2>1, TreesNext, LeafListsNext, Zenon
  <2> QED
    BY <2>2
<1>2. ASSUME NEW n \in Nat, n \in S PROVE n + 1 \in S
  <2>1. LeafListsUpTo(n + 1) = LeafLists(LeafListsUpTo(n)) /\ Trees(n + 1) = Nest(Trees(n))
    BY TreesNext, LeafListsNext
  <2>2. DOMAIN LeafListsUpTo(n + 1) = Trees(n + 1)
    BY <1>2, <2>1 DEF LeafLists
  <2> QED
    BY <2>2
<1> HIDE DEF S
<1>3. \A n \in Nat : n \in S
  BY <1>1, <1>2, SetInduction
<1> QED
  BY <1>3 DEF S

LEMMA TextsDomain ==
    \A n \in Nat : DOMAIN TextsUpTo(n) = Trees(n)
<1> DEFINE S == {n \in Nat : DOMAIN TextsUpTo(n) = Trees(n)}
<1>1. 0 \in S
  <2>1. DOMAIN << >> = {}
    OBVIOUS
  <2>2. DOMAIN TextsUpTo(0) = Trees(0)
    BY <2>1, TreesNext, TextsNext, Zenon
  <2> QED
    BY <2>2
<1>2. ASSUME NEW n \in Nat, n \in S PROVE n + 1 \in S
  <2>1. TextsUpTo(n + 1) = Texts(TextsUpTo(n)) /\ Trees(n + 1) = Nest(Trees(n))
    BY TreesNext, TextsNext
  <2>2. DOMAIN TextsUpTo(n + 1) = Trees(n + 1)
    BY <1>2, <2>1 DEF Texts
  <2> QED
    BY <2>2
<1> HIDE DEF S
<1>3. \A n \in Nat : n \in S
  BY <1>1, <1>2, SetInduction
<1> QED
  BY <1>3 DEF S

LEMMA PartsIn ==
    ASSUME NEW X, NEW v \in Nest(X)
    PROVE  /\ v.parts \in Seq(X) /\ v.s \in Atoms /\ v.names \in Seq(Nat)
           /\ \A i \in DOMAIN v.parts : v.parts[i] \in X
           /\ v = [t |-> v.t, s |-> v.s, parts |-> v.parts, names |-> v.names]
BY DEF Nest

LEMMA SameLeaves ==
    ASSUME NEW X, NEW v \in Nest(X), NEW a, NEW b, \A w \in X : a[w] = b[w]
    PROVE  LeavesOf(v, a) = LeavesOf(v, b)
<1> DEFINE f == [i \in DOMAIN v.parts |-> a[v.parts[i]]]
           g == [i \in DOMAIN v.parts |-> b[v.parts[i]]]
<1>1. f = g
  <2>1. \A i \in DOMAIN v.parts : a[v.parts[i]] = b[v.parts[i]]
    BY PartsIn
  <2> QED
    BY <2>1, Zenon
<1>2. CASE v.parts = << >>
  BY <1>2 DEF LeavesOf
<1>3. CASE v.parts # << >>
  <2>1. LeavesOf(v, a) = FlattenSeq(f) /\ LeavesOf(v, b) = FlattenSeq(g)
    BY <1>3 DEF LeavesOf
  <2> HIDE DEF f, g
  <2> QED
    BY <1>1, <2>1
<1> QED
  BY <1>2, <1>3

LEMMA NullIs ==
    /\ Null.t = "null" /\ Null.s = "" /\ Null.parts = << >> /\ Null.names = << >>
    /\ Null = [t |-> "null", s |-> "", parts |-> << >>, names |-> << >>]
BY DEF Null, Value

LEMMA NullNested ==
    ASSUME NEW X
    PROVE  Null \in Nest(X) /\ Null \in SaneNest(X) /\ Null \in SaneTextNest(X)
<1>1. << >> \in Seq(X) /\ << >> \in Seq(Nat)
  OBVIOUS
<1>2. Null \in Nest(X)
  <2>1. "" \in Atoms /\ "null" \in ValueTags \cup TextTags
    BY DEF Atoms, ValueTags
  <2>2. [t |-> "null", s |-> "", parts |-> << >>, names |-> << >>] \in Nest(X)
    BY <1>1, <2>1 DEF Nest
  <2> QED
    BY <2>2, NullIs
<1> QED
  BY <1>2 DEF SaneNest, SaneTextNest, Sane, SaneText

LEMMA SameText ==
    ASSUME NEW X, NEW v \in SaneNest(X), NEW a, NEW b, \A w \in X : a[w] = b[w]
    PROVE  TextOf(v, a) = TextOf(v, b)
<1> DEFINE f == [i \in DOMAIN v.parts |-> a[v.parts[i]]]
           g == [i \in DOMAIN v.parts |-> b[v.parts[i]]]
<1>0. v \in Nest(X) /\ Sane(v)
  BY DEF SaneNest
<1>1. f = g
  <2>1. \A i \in DOMAIN v.parts : a[v.parts[i]] = b[v.parts[i]]
    BY <1>0, PartsIn
  <2> QED
    BY <2>1, Zenon
<1>2. v.t = "domain" => a[v.parts[1]] = b[v.parts[1]]
  <2>1. v.t = "domain" => Len(v.parts) = 1
    BY <1>0, NullIs DEF Sane
  <2>2. v.parts \in Seq(X)
    BY <1>0, PartsIn
  <2>3. v.t = "domain" => 1 \in DOMAIN v.parts
    BY <2>1, <2>2
  <2> QED
    BY <1>0, <2>3, PartsIn
<1>3. TextOf(v, a) = CASE v.t = "domain" -> a[v.parts[1]]
         [] v.t = "composite" /\ v.parts = <<Null>> -> Value("parentheses", "", << >>, << >>)
         [] v.t = "null" -> Null
         [] OTHER -> Value(Form(v.t), v.s, f, << >>)
  BY DEF TextOf
<1>4. TextOf(v, b) = CASE v.t = "domain" -> b[v.parts[1]]
         [] v.t = "composite" /\ v.parts = <<Null>> -> Value("parentheses", "", << >>, << >>)
         [] v.t = "null" -> Null
         [] OTHER -> Value(Form(v.t), v.s, g, << >>)
  BY DEF TextOf
<1> HIDE DEF f, g
<1> QED
  BY <1>1, <1>2, <1>3, <1>4

LeavesRest(n) == \A v \in Trees(n) : LeafListsUpTo(n + 1)[v] = LeafListsUpTo(n)[v]
TextsRest(n) == \A v \in SaneValues(n) : TextsUpTo(n + 1)[v] = TextsUpTo(n)[v]

LEMMA LeafListsAt ==
    ASSUME NEW n \in Nat, NEW v \in Trees(n + 1)
    PROVE  v \in Nest(Trees(n)) /\ LeafListsUpTo(n + 1)[v] = LeavesOf(v, LeafListsUpTo(n))
<1>1. LeafListsUpTo(n + 1) = LeafLists(LeafListsUpTo(n)) /\ Trees(n + 1) = Nest(Trees(n))
      /\ DOMAIN LeafListsUpTo(n) = Trees(n)
  BY TreesNext, LeafListsNext, LeafListsDomain
<1> QED
  BY <1>1 DEF LeafLists

LEMMA TextsAt ==
    ASSUME NEW n \in Nat, NEW v \in Trees(n + 1)
    PROVE  v \in Nest(Trees(n)) /\ TextsUpTo(n + 1)[v] = TextOf(v, TextsUpTo(n))
<1>1. TextsUpTo(n + 1) = Texts(TextsUpTo(n)) /\ Trees(n + 1) = Nest(Trees(n))
      /\ DOMAIN TextsUpTo(n) = Trees(n)
  BY TreesNext, TextsNext, TextsDomain
<1> QED
  BY <1>1 DEF Texts

LEMMA LeavesRestAll == \A n \in Nat : LeavesRest(n)
<1> DEFINE S == {n \in Nat : LeavesRest(n)}
<1>1. 0 \in S
  BY TreesNext DEF LeavesRest
<1>2. ASSUME NEW n \in Nat, n \in S PROVE n + 1 \in S
  <2> DEFINE k == n + 1
  <2>1. k \in Nat /\ LeavesRest(n)
    BY <1>2
  <2>2. \A v \in Trees(k) : v \in Nest(Trees(n)) /\ LeafListsUpTo(k)[v] = LeavesOf(v, LeafListsUpTo(n))
    BY LeafListsAt
  <2>3. \A w \in Trees(n) : LeafListsUpTo(k)[w] = LeafListsUpTo(n)[w]
    BY <2>1 DEF LeavesRest
  <2> HIDE DEF k
  <2>4. Grown(k)
    BY <2>1, GrownAll
  <2>5. ASSUME NEW v \in Trees(k) PROVE LeafListsUpTo(k + 1)[v] = LeafListsUpTo(k)[v]
    <3>1. v \in Trees(k + 1)
      BY <2>4 DEF Grown
    <3>2. LeafListsUpTo(k + 1)[v] = LeavesOf(v, LeafListsUpTo(k))
      BY <2>1, <3>1, LeafListsAt
    <3>3. LeavesOf(v, LeafListsUpTo(k)) = LeavesOf(v, LeafListsUpTo(n))
      BY <2>2, <2>3, SameLeaves
    <3> QED
      BY <2>2, <3>2, <3>3
  <2>6. LeavesRest(k)
    BY <2>5 DEF LeavesRest
  <2> QED
    BY <2>1, <2>6 DEF k
<1> HIDE DEF S
<1>3. \A n \in Nat : n \in S
  BY <1>1, <1>2, SetInduction
<1> QED
  BY <1>3 DEF S

LEMMA SaneValuesAt ==
    ASSUME NEW n \in Nat
    PROVE  /\ SaneValues(n + 1) = SaneNest(SaneValues(n)) /\ SaneTexts(n + 1) = SaneTextNest(SaneTexts(n))
           /\ SaneValues(n) \subseteq Trees(n) /\ SaneTexts(n) \subseteq Trees(n)
           /\ SaneValues(n + 1) \subseteq Trees(n + 1)
           /\ SaneTexts(n + 1) \subseteq Trees(n + 1)
<1>1. Grown(n) /\ Grown(n + 1)
  <2>1. n + 1 \in Nat
    OBVIOUS
  <2> QED
    BY <2>1, GrownAll, Zenon
<1> QED
  BY <1>1, SaneValuesNext, SaneTextsNext DEF Grown

LEMMA TextsRestAll == \A n \in Nat : TextsRest(n)
<1> DEFINE S == {n \in Nat : TextsRest(n)}
<1>1. 0 \in S
  BY SaneValuesNext DEF TextsRest
<1>2. ASSUME NEW n \in Nat, n \in S PROVE n + 1 \in S
  <2> DEFINE k == n + 1
  <2>1. k \in Nat /\ TextsRest(n)
    BY <1>2
  <2>2. \A v \in SaneValues(k) : v \in SaneNest(SaneValues(n)) /\ TextsUpTo(k)[v] = TextOf(v, TextsUpTo(n))
    BY TextsAt, SaneValuesAt
  <2>3. \A w \in SaneValues(n) : TextsUpTo(k)[w] = TextsUpTo(n)[w]
    BY <2>1 DEF TextsRest
  <2> HIDE DEF k
  <2>4. Grown(k)
    BY <2>1, GrownAll
  <2>5. ASSUME NEW v \in SaneValues(k) PROVE TextsUpTo(k + 1)[v] = TextsUpTo(k)[v]
    <3>1. v \in Trees(k + 1)
      BY <2>4 DEF Grown
    <3>2. TextsUpTo(k + 1)[v] = TextOf(v, TextsUpTo(k))
      BY <2>1, <3>1, TextsAt
    <3>3. TextOf(v, TextsUpTo(k)) = TextOf(v, TextsUpTo(n))
      BY <2>2, <2>3, SameText
    <3> QED
      BY <2>2, <3>2, <3>3
  <2>6. TextsRest(k)
    BY <2>5 DEF TextsRest
  <2> QED
    BY <2>1, <2>6 DEF k
<1> HIDE DEF S
<1>3. \A n \in Nat : n \in S
  BY <1>1, <1>2, SetInduction
<1> QED
  BY <1>3 DEF S
-----------------------------------------------------------------------------
(* Leaves and texts of what is nested no deeper than values are.           *)

K == 2 * Cardinality(Oids) + 1

LEMMA KType == K \in Nat /\ MaxNesting = K + 1 /\ Cardinality(Oids) \in Nat
<1>1. Cardinality(Oids) \in Nat
  BY OidsAssumption, FS_CardinalityType
<1> QED
  BY <1>1 DEF K, MaxNesting

OwnLeaf(s) == IF s = "" THEN << >> ELSE <<s>>
LeavesOfParts(parts) == [i \in DOMAIN parts |-> Leaves(parts[i])]
OutputsOf(parts) == [i \in DOMAIN parts |-> Output(parts[i])]

LEMMA LeavesEq ==
    ASSUME NEW v \in Trees(K + 1)
    PROVE  /\ v \in Nest(Trees(K))
           /\ v.parts = << >> => Leaves(v) = OwnLeaf(v.s)
           /\ v.parts # << >> => Leaves(v) = FlattenSeq(LeavesOfParts(v.parts))
<1>1. v \in Nest(Trees(K)) /\ LeafListsUpTo(K + 1)[v] = LeavesOf(v, LeafListsUpTo(K))
  BY KType, LeafListsAt
<1>2. \A w : Leaves(w) = LeafListsUpTo(K + 1)[w]
  BY KType DEF Leaves, LeafListsUpTo
<1>3. \A w \in Trees(K) : LeafListsUpTo(K)[w] = Leaves(w)
  BY <1>2, KType, LeavesRestAll DEF LeavesRest
<1> DEFINE f == [i \in DOMAIN v.parts |-> LeafListsUpTo(K)[v.parts[i]]]
<1>4. f = LeavesOfParts(v.parts)
  <2>1. \A i \in DOMAIN v.parts : LeafListsUpTo(K)[v.parts[i]] = Leaves(v.parts[i])
    BY <1>1, <1>3, PartsIn
  <2> QED
    BY <2>1, Zenon DEF LeavesOfParts
<1>5. CASE v.parts = << >>
  BY <1>1, <1>2, <1>5 DEF LeavesOf, OwnLeaf
<1>6. CASE v.parts # << >>
  <2>1. LeavesOf(v, LeafListsUpTo(K)) = FlattenSeq(f)
    BY <1>6 DEF LeavesOf
  <2> HIDE DEF f
  <2> QED
    BY <1>1, <1>2, <1>4, <1>6, <2>1
<1> QED
  BY <1>1, <1>5, <1>6

LEMMA OutputEq ==
    ASSUME NEW v \in SaneValues(K + 1)
    PROVE  /\ v \in SaneNest(SaneValues(K))
           /\ v.t = "domain" => Output(v) = Output(v.parts[1]) /\ v.parts[1] \in SaneValues(K)
           /\ v.t = "composite" /\ v.parts = <<Null>> =>
                Output(v) = Value("parentheses", "", << >>, << >>)
           /\ v.t = "null" => Output(v) = Null
           /\ v.t \notin {"domain", "null"} /\ ~ (v.t = "composite" /\ v.parts = <<Null>>) =>
                Output(v) = Value(Form(v.t), v.s, OutputsOf(v.parts), << >>)
<1>1. v \in SaneNest(SaneValues(K)) /\ TextsUpTo(K + 1)[v] = TextOf(v, TextsUpTo(K))
  BY KType, TextsAt, SaneValuesAt
<1>2. \A w : Output(w) = TextsUpTo(K + 1)[w]
  BY KType DEF Output, TextsUpTo
<1>3. \A w \in SaneValues(K) : TextsUpTo(K)[w] = Output(w)
  BY <1>2, KType, TextsRestAll DEF TextsRest
<1> DEFINE f == [i \in DOMAIN v.parts |-> TextsUpTo(K)[v.parts[i]]]
<1>4. v \in Nest(SaneValues(K)) /\ Sane(v)
  BY <1>1 DEF SaneNest
<1>5. f = OutputsOf(v.parts)
  <2>1. \A i \in DOMAIN v.parts : TextsUpTo(K)[v.parts[i]] = Output(v.parts[i])
    BY <1>3, <1>4, PartsIn
  <2> QED
    BY <2>1, Zenon DEF OutputsOf
<1>6. v.t = "domain" => v.parts[1] \in SaneValues(K)
  <2>1. v.t = "domain" => Len(v.parts) = 1
    BY <1>4, NullIs DEF Sane
  <2>2. v.parts \in Seq(SaneValues(K))
    BY <1>4, PartsIn
  <2> QED
    BY <2>1, <2>2
<1>7. TextOf(v, TextsUpTo(K)) =
       CASE v.t = "domain" -> TextsUpTo(K)[v.parts[1]]
         [] v.t = "composite" /\ v.parts = <<Null>> -> Value("parentheses", "", << >>, << >>)
         [] v.t = "null" -> Null
         [] OTHER -> Value(Form(v.t), v.s, f, << >>)
  BY DEF TextOf
<1> HIDE DEF f
<1>8. v.t = "domain" => Output(v) = Output(v.parts[1])
  BY <1>1, <1>2, <1>3, <1>6, <1>7
<1>9. v.t = "composite" /\ v.parts = <<Null>> => Output(v) = Value("parentheses", "", << >>, << >>)
  BY <1>1, <1>2, <1>7
<1>10. v.t = "null" => Output(v) = Null
  BY <1>1, <1>2, <1>7
<1>11. ASSUME v.t \notin {"domain", "null"}, ~ (v.t = "composite" /\ v.parts = <<Null>>)
       PROVE  Output(v) = Value(Form(v.t), v.s, OutputsOf(v.parts), << >>)
  BY <1>1, <1>2, <1>5, <1>7, <1>11
<1> QED
  BY <1>1, <1>6, <1>8, <1>9, <1>10, <1>11

LEMMA FlattenOne ==
    ASSUME NEW x
    PROVE  FlattenSeq(<<x>>) = x
<1> DEFINE s == <<x>>
           flatten[i \in 1..Len(s)] == IF i = 1 THEN s[i] ELSE flatten[i - 1] \o s[i]
<1>1. Len(s) = 1 /\ s[1] = x /\ \A i \in 1..1 : i = 1
  OBVIOUS
<1>2. FlattenSeq(s) = flatten[1]
  BY <1>1 DEF FlattenSeq
<1> DEFINE g == [i \in 1..Len(s) |-> x]
<1>3. g = [i \in 1..Len(s) |-> IF i = 1 THEN s[i] ELSE g[i - 1] \o s[i]]
  BY <1>1
<1>4. flatten = [i \in 1..Len(s) |-> IF i = 1 THEN s[i] ELSE flatten[i - 1] \o s[i]]
  <2> HIDE DEF g
  <2> QED
    BY <1>3
<1>5. flatten[1] = x
  <2> HIDE DEF flatten
  <2> QED
    BY <1>1, <1>4
<1> QED
  BY <1>2, <1>5

(* Texts of sane values are sane, and hold what the values hold.           *)
TextsSane(n) == \A v \in SaneValues(n) : Output(v) \in SaneTexts(n) /\ Leaves(Output(v)) = Leaves(v)

LEMMA LeafHolds ==
    ASSUME NEW v \in Trees(K + 1), NEW w \in Trees(K + 1),
           v.parts = << >>, w.parts = << >>, v.s = w.s
    PROVE  Leaves(v) = Leaves(w)
BY LeavesEq

LEMMA PartsHold ==
    ASSUME NEW v \in Trees(K + 1), NEW w \in Trees(K + 1), v.parts # << >>,
           DOMAIN v.parts = DOMAIN w.parts,
           \A i \in DOMAIN v.parts : Leaves(v.parts[i]) = Leaves(w.parts[i])
    PROVE  Leaves(v) = Leaves(w)
<1>1. w.parts # << >>
  <2>1. v.parts \in Seq(Trees(K)) /\ w.parts \in Seq(Trees(K))
    BY LeavesEq, PartsIn
  <2> QED
    BY <2>1
<1>2. LeavesOfParts(v.parts) = LeavesOfParts(w.parts)
  BY Zenon DEF LeavesOfParts
<1> QED
  BY <1>1, <1>2, LeavesEq

(* What holds one value holds what that does.                              *)
LEMMA OneHolds ==
    ASSUME NEW v \in Trees(K + 1), NEW x, v.parts = <<x>>
    PROVE  Leaves(v) = Leaves(x)
<1>1. LeavesOfParts(v.parts) = <<Leaves(x)>>
  BY DEF LeavesOfParts
<1>2. v.parts # << >>
  OBVIOUS
<1> QED
  BY <1>1, <1>2, LeavesEq, FlattenOne

LEMMA OneLong ==
    ASSUME NEW X, NEW s \in Seq(X), Len(s) = 1
    PROVE  s = <<s[1]>> /\ 1 \in DOMAIN s
<1>1. DOMAIN s = 1..1 /\ Len(<<s[1]>>) = 1 /\ <<s[1]>> \in Seq(X)
  OBVIOUS
<1>2. \A i \in 1..1 : s[i] = <<s[1]>>[i]
  OBVIOUS
<1> QED
  BY <1>1, <1>2

LEMMA FormIs ==
    /\ Form("value") = "plain" /\ Form("enum") = "plain" /\ Form("composite") = "parentheses"
    /\ Form("array") = "braces" /\ Form("multirange") = "braces" /\ Form("range") = "bounds"
BY DEF Form

LEMMA TextsSaneNext ==
    ASSUME NEW n \in Nat, n + 1 <= K, TextsSane(n)
    PROVE  TextsSane(n + 1)
<1> SUFFICES ASSUME NEW v \in SaneValues(n + 1)
             PROVE  Output(v) \in SaneTexts(n + 1) /\ Leaves(Output(v)) = Leaves(v)
  BY DEF TextsSane
<1>1. SaneTexts(n + 1) = SaneTextNest(SaneTexts(n))
  BY SaneValuesAt
<1>2. v \in Nest(SaneValues(n)) /\ Sane(v)
  BY SaneValuesAt DEF SaneNest
<1>3. /\ SaneValues(n + 1) \subseteq SaneValues(K + 1)
      /\ SaneTexts(n) \subseteq SaneTexts(K) /\ SaneTexts(n) \subseteq SaneTexts(n + 1)
      /\ SaneTexts(n + 1) \subseteq Trees(K + 1) /\ SaneValues(n + 1) \subseteq Trees(K + 1)
  <2>1. Within(n + 1, K + 1) /\ Within(n, K) /\ Within(n, n + 1)
    BY KType, WithinAll
  <2>2. SaneTexts(n + 1) \subseteq Trees(n + 1) /\ SaneValues(n + 1) \subseteq Trees(n + 1)
    BY SaneValuesAt
  <2> QED
    BY <2>1, <2>2 DEF Within
<1>4. v \in SaneValues(K + 1) /\ v \in Trees(K + 1)
  BY <1>3
<1>5. v.parts \in Seq(SaneValues(n)) /\ \A i \in DOMAIN v.parts :
          Output(v.parts[i]) \in SaneTexts(n) /\ Leaves(Output(v.parts[i])) = Leaves(v.parts[i])
  BY <1>2, PartsIn DEF TextsSane
<1>6. CASE v = Null
  <2>1. Output(v) = Null
    BY <1>4, <1>6, NullIs, OutputEq
  <2> QED
    BY <1>1, <1>6, <2>1, NullNested
<1>7. CASE v.t = "domain" /\ v.s = "" /\ Len(v.parts) = 1
  <2>1. v.parts = <<v.parts[1]>> /\ 1 \in DOMAIN v.parts
    BY <1>5, <1>7, OneLong
  <2>2. Output(v) = Output(v.parts[1])
    BY <1>4, <1>7, OutputEq
  <2>3. Leaves(v) = Leaves(v.parts[1])
    BY <1>4, <2>1, OneHolds
  <2> QED
    BY <1>3, <1>5, <2>1, <2>2, <2>3
<1>8. CASE v.t = "composite" /\ v.s = "" /\ v.parts = <<Null>>
  <2> DEFINE t == Value("parentheses", "", << >>, << >>)
  <2>1. Output(v) = t
    BY <1>4, <1>8, OutputEq
  <2>2. t.t = "parentheses" /\ t.s = "" /\ t.parts = << >>
    BY DEF Value
  <2>3. t \in Nest(SaneTexts(n))
    <3>1. << >> \in Seq(SaneTexts(n)) /\ << >> \in Seq(Nat)
      OBVIOUS
    <3>2. "" \in Atoms /\ "parentheses" \in ValueTags \cup TextTags
      BY DEF Atoms, TextTags
    <3>3. t = [t |-> "parentheses", s |-> "", parts |-> << >>, names |-> << >>]
      BY DEF Value
    <3> HIDE DEF t
    <3> QED
      BY <3>1, <3>2, <3>3 DEF Nest
  <2> HIDE DEF t
  <2>4. t \in SaneTexts(n + 1)
    BY <1>1, <2>2, <2>3 DEF SaneTextNest, SaneText
  <2>5. Leaves(v) = Leaves(Null)
    BY <1>4, <1>8, OneHolds
  <2>6. Null \in Trees(K + 1)
    BY KType, TreesNext, NullNested
  <2>7. Leaves(Null) = Leaves(t)
    BY <1>3, <2>2, <2>4, <2>6, NullIs, LeafHolds
  <2> QED
    BY <2>1, <2>4, <2>5, <2>7
<1>9. CASE \/ v.t \in {"value", "enum"} /\ v.parts = << >>
           \/ /\ v.t \in {"composite", "array", "range", "multirange"} /\ v.s = ""
              /\ ~ (v.t = "composite" /\ v.parts = <<Null>>)
  <2> DEFINE t == Value(Form(v.t), v.s, OutputsOf(v.parts), << >>)
  <2>1. Output(v) = t
    BY <1>4, <1>9, OutputEq
  <2>2. t.t = Form(v.t) /\ t.s = v.s /\ t.parts = OutputsOf(v.parts)
        /\ t = [t |-> Form(v.t), s |-> v.s, parts |-> OutputsOf(v.parts), names |-> << >>]
    BY DEF Value
  <2>3. OutputsOf(v.parts) \in Seq(SaneTexts(n)) /\ DOMAIN OutputsOf(v.parts) = DOMAIN v.parts
        /\ \A i \in DOMAIN v.parts : OutputsOf(v.parts)[i] = Output(v.parts[i])
    BY <1>5 DEF OutputsOf
  <2>4. Form(v.t) \in {"plain", "parentheses", "braces", "bounds"}
        /\ (v.t \in {"value", "enum"} <=> Form(v.t) = "plain")
    BY <1>9, FormIs
  <2> HIDE DEF t
  <2>5. t \in Nest(SaneTexts(n))
    <3>1. v.s \in Atoms
      BY <1>2, PartsIn
    <3>2. Form(v.t) \in ValueTags \cup TextTags
      BY <2>4 DEF TextTags
    <3> QED
      BY <2>2, <2>3, <3>1, <3>2 DEF Nest
  <2>6. v.parts = << >> <=> t.parts = << >>
    BY <1>5, <2>2, <2>3
  <2>7. SaneText(t)
    BY <1>9, <2>2, <2>4, <2>6 DEF SaneText
  <2>8. t \in SaneTexts(n + 1)
    BY <1>1, <2>5, <2>7 DEF SaneTextNest
  <2>9. Leaves(v) = Leaves(t)
    <3>1. CASE v.parts = << >>
      BY <1>3, <1>4, <2>2, <2>6, <2>8, <3>1, LeafHolds
    <3>2. CASE v.parts # << >>
      <4>1. DOMAIN v.parts = DOMAIN t.parts
            /\ \A i \in DOMAIN v.parts : Leaves(v.parts[i]) = Leaves(t.parts[i])
        BY <1>5, <2>2, <2>3
      <4> QED
        BY <1>3, <1>4, <2>8, <3>2, <4>1, PartsHold
    <3> QED
      BY <3>1, <3>2
  <2> QED
    BY <2>1, <2>8, <2>9
<1> QED
  BY <1>2, <1>6, <1>7, <1>8, <1>9 DEF Sane

LEMMA TextsSaneAll == TextsSane(K)
<1> DEFINE S == {n \in Nat : n <= K => TextsSane(n)}
<1>1. 0 \in S
  BY SaneValuesNext DEF TextsSane
<1>2. ASSUME NEW n \in Nat, n \in S PROVE n + 1 \in S
  <2>1. n + 1 <= K => n <= K
    BY KType
  <2> QED
    BY <1>2, <2>1, TextsSaneNext
<1> HIDE DEF S
<1>3. \A n \in Nat : n \in S
  BY <1>1, <1>2, SetInduction
<1> QED
  BY <1>3, KType DEF S
-----------------------------------------------------------------------------
(* The values of a type.                                                   *)

LEMMA MadeSane ==
    ASSUME NEW X, NEW t \in {"composite", "array", "range", "multirange"},
           NEW parts \in Seq(X), NEW names \in Seq(Nat)
    PROVE  Value(t, "", parts, names) \in SaneNest(X)
<1> DEFINE v == Value(t, "", parts, names)
<1>1. v = [t |-> t, s |-> "", parts |-> parts, names |-> names] /\ v.t = t /\ v.s = ""
  BY DEF Value
<1>2. "" \in Atoms /\ t \in ValueTags \cup TextTags
  BY DEF Atoms, ValueTags
<1> HIDE DEF v
<1>3. v \in Nest(X)
  BY <1>1, <1>2 DEF Nest
<1>4. Sane(v)
  BY <1>1 DEF Sane
<1>5. v \in SaneNest(X)
  BY <1>3, <1>4 DEF SaneNest
<1> QED
  BY <1>5 DEF v

LEMMA DomainSane ==
    ASSUME NEW X, NEW x \in X
    PROVE  Value("domain", "", <<x>>, << >>) \in SaneNest(X)
<1> DEFINE v == Value("domain", "", <<x>>, << >>)
<1>1. v = [t |-> "domain", s |-> "", parts |-> <<x>>, names |-> << >>]
      /\ v.t = "domain" /\ v.s = "" /\ v.parts = <<x>>
  BY DEF Value
<1>2. "" \in Atoms /\ "domain" \in ValueTags \cup TextTags
  BY DEF Atoms, ValueTags
<1>3. <<x>> \in Seq(X) /\ << >> \in Seq(Nat) /\ Len(<<x>>) = 1
  OBVIOUS
<1> HIDE DEF v
<1>4. v \in Nest(X)
  BY <1>1, <1>2, <1>3 DEF Nest
<1>5. Sane(v)
  BY <1>1, <1>3 DEF Sane
<1>6. v \in SaneNest(X)
  BY <1>4, <1>5 DEF SaneNest
<1> QED
  BY <1>6 DEF v

LEMMA LeafSane ==
    ASSUME NEW X, NEW t \in {"value", "enum"}, NEW s \in Atoms
    PROVE  Leaf(t, s) \in SaneNest(X)
<1> DEFINE v == Leaf(t, s)
<1>1. v = [t |-> t, s |-> s, parts |-> << >>, names |-> << >>] /\ v.t = t /\ v.parts = << >>
  BY DEF Leaf, Value
<1>2. t \in ValueTags \cup TextTags
  BY DEF ValueTags
<1>3. << >> \in Seq(X) /\ << >> \in Seq(Nat)
  OBVIOUS
<1> HIDE DEF v
<1>4. v \in Nest(X)
  BY <1>1, <1>2, <1>3 DEF Nest
<1>5. Sane(v)
  BY <1>1 DEF Sane
<1>6. v \in SaneNest(X)
  BY <1>4, <1>5 DEF SaneNest
<1> QED
  BY <1>6 DEF v

AllOf(below, o) == IF o \in DOMAIN below THEN below[o] ELSE {}

RangeValue(v, S) ==
    \/ v = Value("range", "", << >>, << >>)
    \/ \E x \in S : v = Value("range", "", <<x, Null>>, << >>)

(* A member of ValuesOf, by the kind of the type.                          *)
IsValue(v, defs, d, below) ==
    CASE d.kind \in {"builtin", "extension"} -> v = Leaf("value", "v")
      [] d.kind = "pseudo" -> FALSE
      [] d.kind = "enum" -> \E l \in Range(d.labels) : v = Leaf("enum", l)
      [] d.kind = "domain" ->
           \E x \in AllOf(below, d.deps[1]) : v = Value("domain", "", <<x>>, << >>)
      [] d.kind = "composite" ->
           \E parts : /\ v = Value("composite", "", parts, d.fields)
                      /\ parts = [i \in DOMAIN d.deps |-> parts[i]]
                      /\ \A i \in DOMAIN d.deps : parts[i] \in AllOf(below, d.deps[i]) \cup {Null}
      [] d.kind = "array" ->
           \/ v = Value("array", "", << >>, << >>)
           \/ \E x \in AllOf(below, d.deps[1]) \cup {Null} : v = Value("array", "", <<x>>, << >>)
      [] d.kind = "range" -> RangeValue(v, AllOf(below, d.deps[1]))
      [] d.kind = "multirange" ->
           \/ v = Value("multirange", "", << >>, << >>)
           \/ \E r : /\ RangeValue(r, AllOf(below, defs[d.deps[1]].deps[1]))
                     /\ v = Value("multirange", "", <<r>>, << >>)

LEMMA ValuesAre ==
    ASSUME NEW defs, NEW oid, NEW below, NEW v \in ValuesOf(defs, oid, below),
           defs[oid].kind \in DefinitionKinds
    PROVE  IsValue(v, defs, defs[oid], below)
<1> DEFINE d == defs[oid]
<1>1. CASE d.kind \in {"builtin", "extension"}
  <2>1. v \in {Leaf("value", "v")}
    BY <1>1 DEF ValuesOf
  <2> QED
    BY <1>1, <2>1 DEF IsValue
<1>2. CASE d.kind = "pseudo"
  BY <1>2 DEF ValuesOf
<1>3. CASE d.kind = "enum"
  <2>1. v \in {Leaf("enum", l) : l \in Range(d.labels)}
    BY <1>3 DEF ValuesOf
  <2> QED
    BY <1>3, <2>1 DEF IsValue
<1>4. CASE d.kind = "domain"
  <2>1. v \in {Value("domain", "", <<x>>, << >>) : x \in AllOf(below, d.deps[1])}
    BY <1>4 DEF ValuesOf, AllOf
  <2> QED
    BY <1>4, <2>1 DEF IsValue
<1>5. CASE d.kind = "composite"
  <2> DEFINE each(o) == AllOf(below, o) \cup {Null}
             fs == {g \in [Range(d.deps) -> UNION {each(o) : o \in Range(d.deps)}] :
                      \A o \in DOMAIN g : g[o] \in each(o)}
  <2>1. v \in {Value("composite", "", parts, d.fields) :
                 parts \in {[i \in DOMAIN d.deps |-> f[d.deps[i]]] : f \in fs}}
    BY <1>5 DEF ValuesOf, AllOf
  <2>2. PICK f \in fs : v = Value("composite", "", [i \in DOMAIN d.deps |-> f[d.deps[i]]], d.fields)
    <3> HIDE DEF fs
    <3> QED
      BY <2>1
  <2> DEFINE parts == [i \in DOMAIN d.deps |-> f[d.deps[i]]]
  <2>3. \A o \in Range(d.deps) : f[o] \in each(o)
    OBVIOUS
  <2>4. \A i \in DOMAIN d.deps : d.deps[i] \in Range(d.deps)
    BY DEF Range
  <2>5. \A i \in DOMAIN d.deps : parts[i] \in AllOf(below, d.deps[i]) \cup {Null}
    BY <2>3, <2>4
  <2>6. parts = [i \in DOMAIN d.deps |-> parts[i]]
    OBVIOUS
  <2> HIDE DEF parts
  <2> QED
    BY <1>5, <2>2, <2>5, <2>6 DEF IsValue, parts
<1>6. CASE d.kind = "array"
  <2>1. v \in {Value("array", "", << >>, << >>)}
              \cup {Value("array", "", <<x>>, << >>) : x \in AllOf(below, d.deps[1]) \cup {Null}}
    BY <1>6 DEF ValuesOf, AllOf
  <2> QED
    BY <1>6, <2>1 DEF IsValue
<1> DEFINE ranges(o) == {Value("range", "", << >>, << >>)}
                     \cup {Value("range", "", <<x, Null>>, << >>) : x \in AllOf(below, o)}
<1>7. CASE d.kind = "range"
  <2>1. v \in ranges(d.deps[1])
    BY <1>7 DEF ValuesOf, AllOf
  <2> QED
    BY <1>7, <2>1 DEF IsValue, RangeValue
<1>8. CASE d.kind = "multirange"
  <2>1. v \in {Value("multirange", "", << >>, << >>)}
              \cup {Value("multirange", "", <<r>>, << >>) : r \in ranges(defs[d.deps[1]].deps[1])}
    BY <1>8 DEF ValuesOf, AllOf
  <2>2. \A r \in ranges(defs[d.deps[1]].deps[1]) : RangeValue(r, AllOf(below, defs[d.deps[1]].deps[1]))
    BY DEF RangeValue
  <2> HIDE DEF ranges
  <2> QED
    BY <1>8, <2>1, <2>2 DEF IsValue
<1> QED
  BY <1>1, <1>2, <1>3, <1>4, <1>5, <1>6, <1>7, <1>8 DEF DefinitionKinds

(* One level and two levels more than the values of n rounds.              *)
LEMMA Levels ==
    ASSUME NEW n \in Nat
    PROVE  /\ SaneValues(2 * n + 2) = SaneNest(SaneValues(2 * n + 1))
           /\ SaneValues(2 * (n + 1) + 1) = SaneNest(SaneValues(2 * n + 2))
           /\ Null \in SaneValues(2 * n + 1)
           /\ SaneValues(2 * n + 1) \subseteq SaneValues(2 * n + 2)
           /\ SaneValues(2 * n + 2) \subseteq SaneValues(2 * (n + 1) + 1)
<1>1. \A m \in Nat : SaneValues(m + 1) = SaneNest(SaneValues(m)) /\ Grown(m)
  BY SaneValuesAt, GrownAll
<1>2. 2 * n \in Nat /\ 2 * n + 1 \in Nat /\ 2 * n + 2 \in Nat
      /\ 2 * n + 2 = (2 * n + 1) + 1 /\ 2 * (n + 1) + 1 = (2 * n + 2) + 1
  OBVIOUS
<1> DEFINE a == 2 * n
           b == a + 1
           c == a + 2
<1>3. a \in Nat /\ b \in Nat /\ c \in Nat /\ c = b + 1
  OBVIOUS
<1> HIDE DEF a, b, c
<1>4. SaneValues(b) = SaneNest(SaneValues(a))
  BY <1>1, <1>3 DEF b
<1>5. SaneValues(b + 1) = SaneNest(SaneValues(b)) /\ Grown(b)
  BY <1>1, <1>3
<1>6. SaneValues(c + 1) = SaneNest(SaneValues(c)) /\ Grown(c)
  BY <1>1, <1>3
<1>7. Null \in SaneValues(b)
  BY <1>4, NullNested
<1>8. c + 1 = 2 * (n + 1) + 1
  BY DEF c, a
<1>9. SaneValues(b) \subseteq SaneValues(c) /\ SaneValues(c) \subseteq SaneValues(c + 1)
  BY <1>3, <1>5, <1>6 DEF Grown
<1>10. /\ SaneValues(c) = SaneNest(SaneValues(b))
       /\ SaneValues(2 * (n + 1) + 1) = SaneNest(SaneValues(c))
       /\ Null \in SaneValues(b)
       /\ SaneValues(b) \subseteq SaneValues(c)
       /\ SaneValues(c) \subseteq SaneValues(2 * (n + 1) + 1)
  BY <1>3, <1>5, <1>6, <1>7, <1>8, <1>9
<1> QED
  BY <1>10 DEF a, b, c

LEMMA RangeSane ==
    ASSUME NEW X, Null \in X, NEW S \in SUBSET X, NEW v, RangeValue(v, S)
    PROVE  v \in SaneNest(X)
<1>1. << >> \in Seq(X) /\ << >> \in Seq(Nat)
  OBVIOUS
<1>2. CASE v = Value("range", "", << >>, << >>)
  BY <1>1, <1>2, MadeSane
<1>3. ASSUME NEW x \in S, v = Value("range", "", <<x, Null>>, << >>) PROVE v \in SaneNest(X)
  <2>1. <<x, Null>> \in Seq(X)
    OBVIOUS
  <2> QED
    BY <1>1, <1>3, <2>1, MadeSane
<1> QED
  BY <1>2, <1>3 DEF RangeValue

LEMMA IsSeq ==
    ASSUME NEW X, NEW n \in Nat, NEW s, s = [i \in 1..n |-> s[i]], \A i \in 1..n : s[i] \in X
    PROVE  s \in Seq(X) /\ Len(s) = n
<1>1. s \in [1..n -> X]
  OBVIOUS
<1> QED
  BY <1>1

LEMMA SeqDomain ==
    ASSUME NEW X, NEW s \in Seq(X)
    PROVE  DOMAIN s = 1..Len(s) /\ Len(s) \in Nat /\ (s = << >> <=> DOMAIN s = {})
OBVIOUS

Alike(p, s) == p = [i \in DOMAIN s |-> p[i]]

LEMMA SameShape ==
    ASSUME NEW X, NEW Y, NEW s \in Seq(Y), NEW p, Alike(p, s), \A i \in DOMAIN s : p[i] \in X
    PROVE  p \in Seq(X) /\ Len(p) = Len(s) /\ (p = << >> <=> s = << >>)
<1> DEFINE n == Len(s)
<1>1. DOMAIN s = 1..n /\ n \in Nat /\ (s = << >> <=> DOMAIN s = {})
  BY SeqDomain
<1>2. p = [i \in 1..n |-> p[i]] /\ \A i \in 1..n : p[i] \in X
  BY <1>1, Zenon DEF Alike
<1>3. DOMAIN p = DOMAIN s
  BY DEF Alike
<1> HIDE DEF n
<1>4. p \in Seq(X) /\ Len(p) = n
  BY <1>1, <1>2, IsSeq
<1>5. p = << >> <=> DOMAIN p = {}
  BY <1>4, SeqDomain
<1> QED
  BY <1>1, <1>3, <1>4, <1>5 DEF n

LEMMA ValueSane ==
    ASSUME NEW defs, NEW oid, Described(defs[oid]), NEW below, NEW n \in Nat,
           \A o \in DOMAIN below : below[o] \subseteq SaneValues(2 * n + 1),
           NEW v \in ValuesOf(defs, oid, below)
    PROVE  v \in SaneValues(2 * (n + 1) + 1)
<1> DEFINE d == defs[oid]
           B == SaneValues(2 * n + 1)
           C == SaneValues(2 * n + 2)
           D == SaneValues(2 * (n + 1) + 1)
<1> SUFFICES v \in D
  OBVIOUS
<1>1. C = SaneNest(B) /\ D = SaneNest(C) /\ Null \in B /\ B \subseteq C /\ C \subseteq D
  BY Levels
<1>2. \A o : AllOf(below, o) \subseteq B
  BY DEF AllOf
<1>3. IsValue(v, defs, d, below) /\ d.kind \in DefinitionKinds
  BY ValuesAre DEF Described
<1>4. d.deps \in Seq(Nat) /\ d.fields \in Seq(Nat) /\ d.labels \in Seq(Labels)
  BY DEF Described
<1>5. << >> \in Seq(B) /\ << >> \in Seq(C) /\ << >> \in Seq(Nat)
  OBVIOUS
<1> HIDE DEF d, B, C, D
<1>6. CASE d.kind \in {"builtin", "extension"}
  <2>1. v = Leaf("value", "v") /\ "v" \in Atoms
    BY <1>3, <1>6 DEF IsValue, Atoms
  <2> QED
    BY <1>1, <2>1, LeafSane
<1>7. CASE d.kind = "pseudo"
  BY <1>3, <1>7 DEF IsValue
<1>8. CASE d.kind = "enum"
  <2>1. PICK l \in Range(d.labels) : v = Leaf("enum", l)
    BY <1>3, <1>8 DEF IsValue
  <2>2. l \in Labels
    <3>1. PICK i \in DOMAIN d.labels : l = d.labels[i]
      BY DEF Range
    <3> QED
      BY <1>4, <3>1
  <2>3. l \in Atoms
    BY <2>2 DEF Atoms
  <2> QED
    BY <1>1, <2>1, <2>3, LeafSane
<1>9. CASE d.kind = "domain"
  <2>1. PICK x \in AllOf(below, d.deps[1]) : v = Value("domain", "", <<x>>, << >>)
    BY <1>3, <1>9 DEF IsValue
  <2>2. x \in C
    BY <1>1, <1>2
  <2> QED
    BY <1>1, <2>1, <2>2, DomainSane
<1>10. CASE d.kind = "composite"
  <2>1. PICK parts : /\ v = Value("composite", "", parts, d.fields)
                     /\ parts = [i \in DOMAIN d.deps |-> parts[i]]
                     /\ \A i \in DOMAIN d.deps : parts[i] \in AllOf(below, d.deps[i]) \cup {Null}
    BY <1>3, <1>10 DEF IsValue
  <2>2. \A i \in DOMAIN d.deps : parts[i] \in C
    BY <1>1, <1>2, <2>1
  <2>3. parts \in Seq(C)
    <3>1. DOMAIN d.deps = 1..Len(d.deps) /\ Len(d.deps) \in Nat
      BY <1>4
    <3>2. parts = [i \in 1..Len(d.deps) |-> parts[i]]
      BY <2>1, <3>1
    <3> QED
      BY <2>2, <3>1, <3>2, IsSeq
  <2> QED
    BY <1>1, <1>4, <2>1, <2>3, MadeSane
<1>11. CASE d.kind = "array"
  <2>1. CASE v = Value("array", "", << >>, << >>)
    BY <1>1, <1>5, <2>1, MadeSane
  <2>2. ASSUME NEW x \in AllOf(below, d.deps[1]) \cup {Null}, v = Value("array", "", <<x>>, << >>)
        PROVE  v \in D
    <3>1. <<x>> \in Seq(C)
      BY <1>1, <1>2
    <3> QED
      BY <1>1, <1>5, <2>2, <3>1, MadeSane
  <2> QED
    BY <1>3, <1>11, <2>1, <2>2 DEF IsValue
<1>12. CASE d.kind = "range"
  <2>1. RangeValue(v, AllOf(below, d.deps[1])) /\ AllOf(below, d.deps[1]) \in SUBSET B
    BY <1>2, <1>3, <1>12 DEF IsValue
  <2>2. v \in C
    BY <1>1, <2>1, RangeSane
  <2> QED
    BY <1>1, <2>2
<1>13. CASE d.kind = "multirange"
  <2>1. CASE v = Value("multirange", "", << >>, << >>)
    BY <1>1, <1>5, <2>1, MadeSane
  <2>2. ASSUME NEW r, RangeValue(r, AllOf(below, defs[d.deps[1]].deps[1])),
               v = Value("multirange", "", <<r>>, << >>)
        PROVE  v \in D
    <3>1. AllOf(below, defs[d.deps[1]].deps[1]) \in SUBSET B
      BY <1>2
    <3>2. r \in C
      BY <1>1, <2>2, <3>1, RangeSane
    <3>3. <<r>> \in Seq(C)
      BY <3>2
    <3> QED
      BY <1>1, <1>5, <2>2, <3>3, MadeSane
  <2> QED
    BY <1>3, <1>13, <2>1, <2>2 DEF IsValue
<1> QED
  BY <1>3, <1>6, <1>7, <1>8, <1>9, <1>10, <1>11, <1>12, <1>13 DEF DefinitionKinds

ValuesFit(defs, n) ==
    \A o \in DOMAIN ValueSetsUpTo(defs, n) : ValueSetsUpTo(defs, n)[o] \subseteq SaneValues(2 * n + 1)

LEMMA ValuesFitAll ==
    ASSUME NEW defs, \A o \in DOMAIN defs : Described(defs[o])
    PROVE  \A n \in Nat : ValuesFit(defs, n)
<1> DEFINE S == {n \in Nat : ValuesFit(defs, n)}
<1>1. 0 \in S
  <2>1. DOMAIN << >> = {}
    OBVIOUS
  <2>2. DOMAIN ValueSetsUpTo(defs, 0) = {}
    BY <2>1, ValueSetsNext, Zenon
  <2> QED
    BY <2>2 DEF ValuesFit
<1>2. ASSUME NEW n \in Nat, n \in S PROVE n + 1 \in S
  <2> DEFINE below == ValueSetsUpTo(defs, n)
  <2>1. ValueSetsUpTo(defs, n + 1) = [o \in DOMAIN defs |-> ValuesOf(defs, o, below)]
    BY ValueSetsNext DEF ValueSets
  <2>2. \A o \in DOMAIN below : below[o] \subseteq SaneValues(2 * n + 1)
    BY <1>2 DEF ValuesFit
  <2> HIDE DEF below
  <2>3. ASSUME NEW o \in DOMAIN defs, NEW v \in ValuesOf(defs, o, below)
        PROVE  v \in SaneValues(2 * (n + 1) + 1)
    BY <2>2, ValueSane
  <2>4. ValuesFit(defs, n + 1)
    BY <2>1, <2>3 DEF ValuesFit
  <2> QED
    BY <2>4
<1> HIDE DEF S
<1>3. \A n \in Nat : n \in S
  BY <1>1, <1>2, SetInduction
<1> QED
  BY <1>3 DEF S
-----------------------------------------------------------------------------
(* What is decoded.                                                        *)

DecodeOne(below, o, t) ==
    IF t = Null THEN Null ELSE IF o \in DOMAIN below THEN below[o][t] ELSE Undecoded
DecodedParts(below, o, parts) == [i \in DOMAIN parts |-> DecodeOne(below, o, parts[i])]
DecodedFields(below, deps, parts) == [i \in DOMAIN parts |-> DecodeOne(below, deps[i], parts[i])]
DecodedRange(below, o, t) ==
    IF t.t # "bounds" THEN Undecoded ELSE Decoded("range", DecodedParts(below, o, t.parts), << >>)
DecodedRanges(below, o, parts) == [i \in DOMAIN parts |-> DecodedRange(below, o, parts[i])]

(* DecodedOf, by the kind of the type.                                     *)
IsDecoded(r, cat, d, t, below) ==
    CASE d.kind = "pseudo" -> r = Undecoded
      [] d.kind = "builtin" ->
           r = IF t.t = "plain" /\ d.supported THEN Leaf("value", t.s) ELSE Undecoded
      [] d.kind = "extension" ->
           r = IF t.t = "plain" /\ d.codec THEN Leaf("value", t.s) ELSE Undecoded
      [] d.kind = "enum" ->
           r = IF t.t = "plain" /\ t.s \in Range(d.labels) THEN Leaf("enum", t.s) ELSE Undecoded
      [] d.kind = "domain" -> r = Decoded("domain", <<DecodeOne(below, d.deps[1], t)>>, << >>)
      [] d.kind = "composite" ->
           r = IF t.t = "parentheses" /\ Len(RecordParts(d, t)) = Len(d.deps)
               THEN Decoded("composite", DecodedFields(below, d.deps, RecordParts(d, t)), d.fields)
               ELSE Undecoded
      [] d.kind = "array" ->
           r = IF t.t = "braces" THEN Decoded("array", DecodedParts(below, d.deps[1], t.parts), << >>)
               ELSE Undecoded
      [] d.kind = "range" -> r = DecodedRange(below, d.deps[1], t)
      [] d.kind = "multirange" ->
           r = IF t.t = "braces"
               THEN Decoded("multirange",
                            DecodedRanges(below, cat.types[d.deps[1]].deps[1], t.parts), << >>)
               ELSE Undecoded

LEMMA DecodedIs ==
    ASSUME NEW cat, NEW oid, NEW t, NEW below, cat.types[oid].kind \in DefinitionKinds
    PROVE  IsDecoded(DecodedOf(cat, oid, t, below), cat, cat.types[oid], t, below)
<1> DEFINE d == cat.types[oid]
<1>1. CASE d.kind = "pseudo"
  BY <1>1 DEF DecodedOf, IsDecoded
<1>2. CASE d.kind = "builtin"
  BY <1>2 DEF DecodedOf, IsDecoded
<1>3. CASE d.kind = "extension"
  BY <1>3 DEF DecodedOf, IsDecoded
<1>4. CASE d.kind = "enum"
  BY <1>4 DEF DecodedOf, IsDecoded
<1>5. CASE d.kind = "domain"
  BY <1>5 DEF DecodedOf, IsDecoded, DecodeOne
<1>6. CASE d.kind = "composite"
  BY <1>6, FormIs DEF DecodedOf, IsDecoded, DecodeOne, DecodedFields
<1>7. CASE d.kind = "array"
  BY <1>7, FormIs DEF DecodedOf, IsDecoded, DecodeOne, DecodedParts
<1>8. CASE d.kind = "range"
  BY <1>8, FormIs DEF DecodedOf, IsDecoded, DecodeOne, DecodedParts, DecodedRange
<1>9. CASE d.kind = "multirange"
  BY <1>9, FormIs DEF DecodedOf, IsDecoded, DecodeOne, DecodedParts, DecodedRange, DecodedRanges
<1> QED
  BY <1>1, <1>2, <1>3, <1>4, <1>5, <1>6, <1>7, <1>8, <1>9 DEF DefinitionKinds

(* r is what text t holds, among the values in X, if it is anything.       *)
Keeps(r, t, X) == r = Undecoded \/ (r \in X /\ Leaves(r) = Leaves(t))
BelowKeeps(below, X) == \A o \in DOMAIN below : \A t \in SaneTexts(K) : Keeps(below[o][t], t, X)

LEMMA NullIsDecoded == Null # Undecoded
BY DEF Null, Undecoded, Value

LEMMA OneKeeps ==
    ASSUME NEW below, NEW X, BelowKeeps(below, X), Null \in X, NEW o, NEW t \in SaneTexts(K)
    PROVE  Keeps(DecodeOne(below, o, t), t, X)
BY DEF DecodeOne, BelowKeeps, Keeps

LEMMA SaneNestFits ==
    ASSUME NEW X, X \subseteq Trees(K)
    PROVE  SaneNest(X) \subseteq Trees(K + 1)
<1>1. Trees(K + 1) = Nest(Trees(K))
  BY KType, TreesNext
<1>2. SaneNest(X) \subseteq Nest(Trees(K))
  BY NestGrows
<1> QED
  BY <1>1, <1>2, Zenon

LEMMA TextPartsSane ==
    ASSUME NEW t \in SaneTexts(K)
    PROVE  /\ t \in Trees(K + 1) /\ SaneText(t) /\ t.s \in Atoms /\ t.parts \in Seq(SaneTexts(K))
           /\ \A i \in DOMAIN t.parts : t.parts[i] \in SaneTexts(K)
<1>1. t \in SaneTexts(K + 1) /\ SaneTexts(K + 1) = SaneTextNest(SaneTexts(K))
  BY KType, GrownAll, SaneValuesAt DEF Grown
<1>2. t \in Nest(SaneTexts(K)) /\ SaneText(t) /\ t \in Trees(K + 1)
  BY <1>1, KType, SaneValuesAt DEF SaneTextNest
<1> QED
  BY <1>2, PartsIn

LEMMA MadeKeeps ==
    ASSUME NEW X, X \subseteq Trees(K), NEW t \in SaneTexts(K), t.s = "",
           NEW tag \in {"composite", "array", "range", "multirange"}, NEW names \in Seq(Nat),
           NEW parts, Alike(parts, t.parts), \A i \in DOMAIN t.parts : Keeps(parts[i], t.parts[i], X)
    PROVE  Keeps(Decoded(tag, parts, names), t, SaneNest(X))
<1>1. CASE Undecoded \in Range(parts)
  BY <1>1 DEF Decoded, Keeps
<1>2. CASE Undecoded \notin Range(parts)
  <2> DEFINE v == Value(tag, "", parts, names)
  <2>1. Decoded(tag, parts, names) = v
    BY <1>2 DEF Decoded
  <2>2. v.parts = parts /\ v.s = ""
    BY DEF Value
  <2>3. DOMAIN parts = DOMAIN t.parts /\ t.parts \in Seq(SaneTexts(K)) /\ t \in Trees(K + 1)
    BY TextPartsSane DEF Alike
  <2>4. \A i \in DOMAIN t.parts : parts[i] \in X /\ Leaves(parts[i]) = Leaves(t.parts[i])
    BY <1>2, <2>3 DEF Range, Keeps
  <2>5. parts \in Seq(X) /\ (parts = << >> <=> t.parts = << >>)
    BY <2>3, <2>4, SameShape
  <2>6. v \in SaneNest(X)
    BY <2>5, MadeSane
  <2>7. v \in Trees(K + 1)
    BY <2>6, SaneNestFits
  <2> HIDE DEF v
  <2>8. Leaves(v) = Leaves(t)
    <3>1. CASE t.parts = << >>
      <4>1. v.parts = << >> /\ v.s = t.s
        BY <2>2, <2>5, <3>1
      <4> QED
        BY <2>3, <2>7, <3>1, <4>1, LeafHolds
    <3>2. CASE t.parts # << >>
      <4>1. /\ DOMAIN t.parts = DOMAIN v.parts
            /\ \A i \in DOMAIN t.parts : Leaves(t.parts[i]) = Leaves(v.parts[i])
        BY <2>2, <2>3, <2>4
      <4> QED
        BY <2>3, <2>7, <3>2, <4>1, PartsHold
    <3> QED
      BY <3>1, <3>2
  <2> QED
    BY <2>1, <2>6, <2>8 DEF Keeps
<1> QED
  BY <1>1, <1>2

LEMMA RangeKeeps ==
    ASSUME NEW below, NEW X, X \subseteq Trees(K), BelowKeeps(below, X), Null \in X,
           NEW o, NEW t \in SaneTexts(K)
    PROVE  Keeps(DecodedRange(below, o, t), t, SaneNest(X))
<1>1. CASE t.t # "bounds"
  BY <1>1 DEF DecodedRange, Keeps
<1>2. CASE t.t = "bounds"
  <2> DEFINE parts == DecodedParts(below, o, t.parts)
  <2>1. DecodedRange(below, o, t) = Decoded("range", parts, << >>)
    BY <1>2 DEF DecodedRange
  <2>2. t.s = ""
    BY <1>2, TextPartsSane, NullIs DEF SaneText
  <2>3. Alike(parts, t.parts)
        /\ \A i \in DOMAIN t.parts : parts[i] = DecodeOne(below, o, t.parts[i])
    BY DEF DecodedParts, Alike
  <2>4. \A i \in DOMAIN t.parts : Keeps(parts[i], t.parts[i], X)
    <3> SUFFICES ASSUME NEW i \in DOMAIN t.parts PROVE Keeps(parts[i], t.parts[i], X)
      OBVIOUS
    <3>1. t.parts[i] \in SaneTexts(K)
      BY TextPartsSane
    <3> QED
      BY <2>3, <3>1, OneKeeps
  <2>5. << >> \in Seq(Nat)
    OBVIOUS
  <2> HIDE DEF parts
  <2> QED
    BY <2>1, <2>2, <2>3, <2>4, <2>5, MadeKeeps
<1> QED
  BY <1>1, <1>2

LEMMA LeafKeeps ==
    ASSUME NEW X, NEW t \in SaneTexts(K), t.t = "plain", NEW tag \in {"value", "enum"},
           X \subseteq Trees(K)
    PROVE  Keeps(Leaf(tag, t.s), t, SaneNest(X))
<1> DEFINE v == Leaf(tag, t.s)
<1>1. v.s = t.s /\ v.parts = << >>
  BY DEF Leaf, Value
<1>2. v \in SaneNest(X) /\ v \in Trees(K + 1)
  BY TextPartsSane, LeafSane, SaneNestFits
<1>3. t.parts = << >> /\ t \in Trees(K + 1)
  BY TextPartsSane, NullIs DEF SaneText
<1> HIDE DEF v
<1>4. Leaves(v) = Leaves(t)
  BY <1>1, <1>2, <1>3, LeafHolds
<1>5. Keeps(v, t, SaneNest(X))
  BY <1>2, <1>4 DEF Keeps
<1> QED
  BY <1>5 DEF v

LEMMA DecodeKeeps ==
    ASSUME NEW cat, NEW oid, Described(cat.types[oid]), NEW below, NEW n \in Nat,
           2 * (n + 1) + 1 <= K, BelowKeeps(below, SaneValues(2 * n + 1)),
           NEW t \in SaneTexts(K)
    PROVE  Keeps(DecodedOf(cat, oid, t, below), t, SaneValues(2 * (n + 1) + 1))
<1> DEFINE d == cat.types[oid]
           B == SaneValues(2 * n + 1)
           C == SaneValues(2 * n + 2)
           D == SaneValues(2 * (n + 1) + 1)
           r == DecodedOf(cat, oid, t, below)
<1> SUFFICES Keeps(r, t, D)
  OBVIOUS
<1>1. C = SaneNest(B) /\ D = SaneNest(C) /\ Null \in B /\ B \subseteq C /\ C \subseteq D
  BY Levels
<1>2. B \subseteq Trees(K) /\ C \subseteq Trees(K)
  <2>1. 2 * n + 2 \in Nat /\ 2 * n + 2 <= K
    BY KType
  <2>2. Within(2 * n + 2, K)
    BY <2>1, KType, WithinAll
  <2>3. SaneValues(K) \subseteq Trees(K)
    BY KType, SaneValuesAt
  <2>4. C \subseteq Trees(K)
    BY <2>2, <2>3 DEF Within
  <2> HIDE DEF B, C
  <2> QED
    BY <1>1, <2>4
<1>3. BelowKeeps(below, C)
  <2>1. BelowKeeps(below, B)
    OBVIOUS
  <2> HIDE DEF B, C
  <2> QED
    BY <1>1, <2>1 DEF BelowKeeps, Keeps
<1>4. BelowKeeps(below, B)
  OBVIOUS
<1>5. IsDecoded(r, cat, d, t, below) /\ d.kind \in DefinitionKinds
  BY DecodedIs DEF Described
<1>6. d.deps \in Seq(Nat) /\ d.fields \in Seq(Nat) /\ d.labels \in Seq(Labels)
  BY DEF Described
<1>7. << >> \in Seq(Nat)
  OBVIOUS
<1>8. /\ t \in Trees(K + 1) /\ SaneText(t) /\ t.s \in Atoms /\ t.parts \in Seq(SaneTexts(K))
      /\ \A i \in DOMAIN t.parts : t.parts[i] \in SaneTexts(K)
  BY TextPartsSane
<1> HIDE DEF d, B, C, D, r
<1>9. Keeps(Undecoded, t, D)
  BY DEF Keeps
<1>10. ASSUME NEW o, NEW s \in SaneTexts(K) PROVE Keeps(DecodeOne(below, o, s), s, C)
  <2>1. Null \in C
    BY <1>1
  <2> QED
    BY <1>3, <2>1, OneKeeps
<1>11. CASE d.kind = "pseudo"
  BY <1>5, <1>9, <1>11 DEF IsDecoded
<1>12. CASE d.kind \in {"builtin", "extension", "enum"}
  <2>1. \/ r = Undecoded
        \/ t.t = "plain" /\ \E tag \in {"value", "enum"} : r = Leaf(tag, t.s)
    BY <1>5, <1>12 DEF IsDecoded
  <2>2. ASSUME t.t = "plain", NEW tag \in {"value", "enum"} PROVE Keeps(Leaf(tag, t.s), t, D)
    BY <1>1, <1>2, <2>2, LeafKeeps
  <2> QED
    BY <1>9, <2>1, <2>2
<1>13. CASE d.kind = "domain"
  <2> DEFINE x == DecodeOne(below, d.deps[1], t)
             v == Value("domain", "", <<x>>, << >>)
  <2>1. r = Decoded("domain", <<x>>, << >>)
    BY <1>5, <1>13 DEF IsDecoded
  <2>2. Keeps(x, t, C)
    BY <1>10
  <2> HIDE DEF x
  <2>3. r = IF x = Undecoded THEN Undecoded ELSE v
    <3>1. Undecoded \in Range(<<x>>) <=> x = Undecoded
      BY DEF Range
    <3> QED
      BY <2>1, <3>1 DEF Decoded
  <2>4. CASE x = Undecoded
    BY <1>9, <2>3, <2>4
  <2>5. CASE x # Undecoded
    <3>1. x \in C /\ Leaves(x) = Leaves(t)
      BY <2>2, <2>5 DEF Keeps
    <3>2. v \in D
      BY <1>1, <3>1, DomainSane
    <3>3. v \in Trees(K + 1)
      BY <1>1, <1>2, <3>2, SaneNestFits
    <3>4. v.parts = <<x>>
      BY DEF Value
    <3> HIDE DEF v
    <3>5. Leaves(v) = Leaves(x)
      BY <3>3, <3>4, OneHolds
    <3> QED
      BY <2>3, <2>5, <3>1, <3>2, <3>5 DEF Keeps
  <2> QED
    BY <2>4, <2>5
<1>14. CASE d.kind = "composite" /\ ~ (t.parts = << >> /\ Len(d.deps) = 1)
  <2> DEFINE parts == DecodedFields(below, d.deps, t.parts)
  <2>1. RecordParts(d, t) = t.parts
    BY <1>14 DEF RecordParts
  <2>2. \/ r = Undecoded
        \/ t.t = "parentheses" /\ r = Decoded("composite", parts, d.fields)
    BY <1>5, <1>14, <2>1 DEF IsDecoded
  <2>3. Alike(parts, t.parts)
        /\ \A i \in DOMAIN t.parts : parts[i] = DecodeOne(below, d.deps[i], t.parts[i])
    BY DEF DecodedFields, Alike
  <2> HIDE DEF parts
  <2>4. \A i \in DOMAIN t.parts : Keeps(parts[i], t.parts[i], C)
    BY <1>8, <1>10, <2>3
  <2>5. t.t = "parentheses" => t.s = ""
    BY <1>8, NullIs DEF SaneText
  <2>6. t.t = "parentheses" => Keeps(Decoded("composite", parts, d.fields), t, SaneNest(C))
    BY <1>2, <1>6, <2>3, <2>4, <2>5, MadeKeeps
  <2> QED
    BY <1>1, <1>9, <2>2, <2>6
<1>15. CASE d.kind = "composite" /\ t.parts = << >> /\ Len(d.deps) = 1
  <2> DEFINE v == Value("composite", "", <<Null>>, d.fields)
  <2>1. RecordParts(d, t) = <<Null>>
    BY <1>15 DEF RecordParts
  <2>2. DecodedFields(below, d.deps, <<Null>>) = <<Null>>
    BY DEF DecodedFields, DecodeOne
  <2>3. \/ r = Undecoded
        \/ t.t = "parentheses" /\ r = Decoded("composite", <<Null>>, d.fields)
    BY <1>5, <1>15, <2>1, <2>2 DEF IsDecoded
  <2>4. Decoded("composite", <<Null>>, d.fields) = v
    <3>1. Undecoded \notin Range(<<Null>>)
      BY NullIsDecoded DEF Range
    <3> QED
      BY <3>1 DEF Decoded
  <2>5. v.parts = <<Null>>
    BY DEF Value
  <2>6. v \in D
    <3>1. Null \in C
      BY <1>1
    <3>2. <<Null>> \in Seq(C)
      BY <3>1
    <3> QED
      BY <1>1, <1>6, <3>2, MadeSane
  <2>7. v \in Trees(K + 1)
    BY <1>1, <1>2, <2>6, SaneNestFits
  <2> HIDE DEF v
  <2>8. Leaves(v) = Leaves(Null)
    BY <2>5, <2>7, OneHolds
  <2>9. t.t = "parentheses" => t.s = ""
    BY <1>8, NullIs DEF SaneText
  <2>10. Null \in Trees(K + 1)
    BY KType, TreesNext, NullNested
  <2>11. t.t = "parentheses" => Leaves(Null) = Leaves(t)
    BY <1>8, <1>15, <2>9, <2>10, NullIs, LeafHolds
  <2> QED
    BY <1>9, <2>3, <2>4, <2>6, <2>8, <2>11 DEF Keeps
<1>16. CASE d.kind = "array"
  <2> DEFINE parts == DecodedParts(below, d.deps[1], t.parts)
  <2>1. \/ r = Undecoded
        \/ t.t = "braces" /\ r = Decoded("array", parts, << >>)
    BY <1>5, <1>16 DEF IsDecoded
  <2>2. Alike(parts, t.parts)
        /\ \A i \in DOMAIN t.parts : parts[i] = DecodeOne(below, d.deps[1], t.parts[i])
    BY DEF DecodedParts, Alike
  <2> HIDE DEF parts
  <2>3. \A i \in DOMAIN t.parts : Keeps(parts[i], t.parts[i], C)
    BY <1>8, <1>10, <2>2
  <2>4. t.t = "braces" => t.s = ""
    BY <1>8, NullIs DEF SaneText
  <2>5. t.t = "braces" => Keeps(Decoded("array", parts, << >>), t, SaneNest(C))
    BY <1>2, <1>7, <2>2, <2>3, <2>4, MadeKeeps
  <2> QED
    BY <1>1, <1>9, <2>1, <2>5
<1>17. CASE d.kind = "range"
  <2>1. r = DecodedRange(below, d.deps[1], t)
    BY <1>5, <1>17 DEF IsDecoded
  <2>2. Null \in C
    BY <1>1
  <2>3. Keeps(r, t, SaneNest(C))
    BY <1>2, <1>3, <2>1, <2>2, RangeKeeps
  <2> QED
    BY <1>1, <2>3
<1>18. CASE d.kind = "multirange"
  <2> DEFINE o == cat.types[d.deps[1]].deps[1]
             parts == DecodedRanges(below, o, t.parts)
  <2>1. \/ r = Undecoded
        \/ t.t = "braces" /\ r = Decoded("multirange", parts, << >>)
    BY <1>5, <1>18 DEF IsDecoded
  <2> HIDE DEF o
  <2>2. Alike(parts, t.parts)
        /\ \A i \in DOMAIN t.parts : parts[i] = DecodedRange(below, o, t.parts[i])
    BY DEF DecodedRanges, Alike
  <2> HIDE DEF parts
  <2>3. ASSUME NEW s \in SaneTexts(K) PROVE Keeps(DecodedRange(below, o, s), s, C)
    BY <1>1, <1>2, <1>4, RangeKeeps
  <2>4. \A i \in DOMAIN t.parts : Keeps(parts[i], t.parts[i], C)
    BY <1>8, <2>2, <2>3
  <2>5. t.t = "braces" => t.s = ""
    BY <1>8, NullIs DEF SaneText
  <2>6. t.t = "braces" => Keeps(Decoded("multirange", parts, << >>), t, SaneNest(C))
    BY <1>2, <1>7, <2>2, <2>4, <2>5, MadeKeeps
  <2> QED
    BY <1>1, <1>9, <2>1, <2>6
<1> QED
  BY <1>5, <1>11, <1>12, <1>13, <1>14, <1>15, <1>16, <1>17, <1>18 DEF DefinitionKinds

DecodersKeep(cat, n) == BelowKeeps(DecodersUpTo(cat, n), SaneValues(2 * n + 1))

LEMMA DecodersAt ==
    ASSUME NEW cat, NEW n \in Nat
    PROVE  /\ DOMAIN DecodersUpTo(cat, n + 1) = DOMAIN cat.types
           /\ \A o \in DOMAIN cat.types : \A t \in SaneTexts(K) :
                DecodersUpTo(cat, n + 1)[o][t] = DecodedOf(cat, o, t, DecodersUpTo(cat, n))
<1> DEFINE below == DecodersUpTo(cat, n)
<1>1. DecodersUpTo(cat, n + 1) =
        [o \in DOMAIN cat.types |-> [t \in Trees(MaxNesting) |-> DecodedOf(cat, o, t, below)]]
  BY DecodersNext DEF Decoders
<1>2. SaneTexts(K) \subseteq Trees(MaxNesting)
  BY KType, TextPartsSane
<1> HIDE DEF below
<1>3. DOMAIN DecodersUpTo(cat, n + 1) = DOMAIN cat.types
  BY <1>1
<1>4. ASSUME NEW o \in DOMAIN cat.types, NEW t \in SaneTexts(K)
      PROVE  DecodersUpTo(cat, n + 1)[o][t] = DecodedOf(cat, o, t, below)
  <2>1. t \in Trees(MaxNesting)
    BY <1>2
  <2> QED
    BY <1>1, <2>1
<1> QED
  BY <1>3, <1>4 DEF below

LEMMA DecodersKeepAll ==
    ASSUME NEW cat, \A o \in DOMAIN cat.types : Described(cat.types[o])
    PROVE  \A n \in Nat : 2 * n + 1 <= K => DecodersKeep(cat, n)
<1> DEFINE S == {n \in Nat : 2 * n + 1 <= K => DecodersKeep(cat, n)}
<1>1. 0 \in S
  <2>1. DOMAIN << >> = {}
    OBVIOUS
  <2>2. DOMAIN DecodersUpTo(cat, 0) = {}
    BY <2>1, DecodersNext, Zenon
  <2> QED
    BY <2>2 DEF DecodersKeep, BelowKeeps
<1>2. ASSUME NEW n \in Nat, n \in S PROVE n + 1 \in S
  <2> SUFFICES ASSUME 2 * (n + 1) + 1 <= K PROVE DecodersKeep(cat, n + 1)
    OBVIOUS
  <2>1. DecodersKeep(cat, n)
    <3>1. 2 * n + 1 <= K
      BY KType
    <3> QED
      BY <1>2, <3>1
  <2> DEFINE X == SaneValues(2 * (n + 1) + 1)
             below == DecodersUpTo(cat, n)
             next == DecodersUpTo(cat, n + 1)
  <2>2. BelowKeeps(below, SaneValues(2 * n + 1))
    BY <2>1 DEF DecodersKeep
  <2>3. DOMAIN next = DOMAIN cat.types
        /\ \A o \in DOMAIN cat.types : \A t \in SaneTexts(K) : next[o][t] = DecodedOf(cat, o, t, below)
    BY DecodersAt
  <2> HIDE DEF below, next
  <2>4. ASSUME NEW o \in DOMAIN cat.types, NEW t \in SaneTexts(K)
        PROVE  Keeps(DecodedOf(cat, o, t, below), t, X)
    BY <2>2, DecodeKeeps
  <2> HIDE DEF X
  <2>5. BelowKeeps(next, X)
    BY <2>3, <2>4 DEF BelowKeeps
  <2> QED
    BY <2>5 DEF DecodersKeep, X, next
<1> HIDE DEF S
<1>3. \A n \in Nat : n \in S
  BY <1>1, <1>2, SetInduction
<1> QED
  BY <1>3 DEF S

LEMMA DecodeHolds ==
    ASSUME NEW cat, DOMAIN cat.types \subseteq Oids,
           \A o \in DOMAIN cat.types : Described(cat.types[o]), NEW oid, NEW t \in SaneTexts(K)
    PROVE  DecodeCatalogValue(cat, oid, t) = Undecoded
           \/ Leaves(DecodeCatalogValue(cat, oid, t)) = Leaves(t)
<1> DEFINE n == Depth(cat.types)
<1>1. n \in Nat /\ 2 * n + 1 <= K
  <2>1. Cardinality(DOMAIN cat.types) \in Nat /\ Cardinality(DOMAIN cat.types) <= Cardinality(Oids)
    <3>1. IsFiniteSet(Oids)
      BY OidsAssumption
    <3>2. IsFiniteSet(DOMAIN cat.types) /\ Cardinality(DOMAIN cat.types) <= Cardinality(Oids)
      BY <3>1, FS_Subset
    <3> QED
      BY <3>2, FS_CardinalityType
  <2> QED
    BY <2>1, KType DEF Depth, K
<1>2. DecodersKeep(cat, n)
  <2> HIDE DEF n
  <2> QED
    BY <1>1, DecodersKeepAll
<1>3. CASE oid \notin DOMAIN cat.types
  BY <1>3 DEF DecodeCatalogValue
<1>4. CASE oid \in DOMAIN cat.types
  <2>1. DecodeCatalogValue(cat, oid, t) = DecodersUpTo(cat, n)[oid][t]
    BY <1>4 DEF DecodeCatalogValue, DecodersUpTo
  <2>2. n # 0
    <3>1. IsFiniteSet(DOMAIN cat.types)
      BY OidsAssumption, FS_Subset
    <3> QED
      BY <1>4, <3>1, FS_EmptySet DEF Depth
  <2> HIDE DEF n
  <2>3. DOMAIN DecodersUpTo(cat, n) = DOMAIN cat.types
    <3>1. n - 1 \in Nat /\ n = (n - 1) + 1
      BY <1>1, <2>2
    <3> DEFINE m == n - 1
    <3>2. m \in Nat /\ n = m + 1
      BY <3>1
    <3> HIDE DEF m
    <3> QED
      BY <3>2, DecodersAt
  <2> QED
    BY <1>2, <1>4, <2>1, <2>3 DEF DecodersKeep, BelowKeeps, Keeps
<1> QED
  BY <1>3, <1>4
-----------------------------------------------------------------------------
(* Definitions stay described.                                             *)

LEMMA OidsAreNumbers == \A o \in Oids : o \in Nat
BY OidsAssumption

LEMMA NewDescribed ==
    ASSUME NEW kind, NEW name, NEW deps \in Seq(Nat), NEW fields \in Seq(Nat),
           NEW labels \in Seq(Labels), kind \in DefinitionKinds,
           kind \notin {"builtin", "extension"},
           kind \in {"domain", "array", "range", "multirange"} => Len(deps) = 1,
           IF kind = "composite" THEN Len(fields) = Len(deps) ELSE fields = << >>
    PROVE  Described(Definition(kind, name, deps, fields, labels))
<1> DEFINE d == Definition(kind, name, deps, fields, labels)
<1>1. DOMAIN d = {"kind", "schema", "name", "deps", "fields", "labels"}
      /\ d.kind = kind /\ d.deps = deps /\ d.fields = fields /\ d.labels = labels
  BY DEF Definition
<1> HIDE DEF d
<1>2. Described(d)
  BY <1>1 DEF Described
<1> QED
  BY <1>2 DEF d

LEMMA LabelsReplaced ==
    ASSUME NEW d, Described(d), NEW labels \in Seq(Labels), NEW e, e = [d EXCEPT !.labels = labels]
    PROVE  Described(e) /\ e.kind = d.kind
<1>1. DOMAIN e = DOMAIN d /\ e.kind = d.kind /\ e.deps = d.deps /\ e.fields = d.fields
      /\ e.labels = labels
  BY DEF Described
<1> QED
  BY <1>1 DEF Described

Refielded(e, d, deps, fields) == e = [d EXCEPT !.deps = deps, !.fields = fields]

LEMMA FieldsReplaced ==
    ASSUME NEW d, Described(d), NEW deps \in Seq(Nat), NEW fields \in Seq(Nat), NEW e,
           Refielded(e, d, deps, fields),
           d.kind \in {"domain", "array", "range", "multirange"} => Len(deps) = 1,
           IF d.kind = "composite" THEN Len(fields) = Len(deps) ELSE fields = << >>
    PROVE  Described(e) /\ e.kind = d.kind
<1>1. DOMAIN e = DOMAIN d /\ e.kind = d.kind /\ e.deps = deps /\ e.fields = fields
      /\ e.labels = d.labels
  BY DEF Described, Refielded
<1> QED
  BY <1>1 DEF Described

\* A type as the first statement reads it.
Loaded(e, d) ==
    e = [d EXCEPT !.labels = << >>,
                  !.deps = IF d.kind = "composite" THEN << >> ELSE @,
                  !.fields = << >>]

LEMMA LoadedDescribed ==
    ASSUME NEW d, Described(d), NEW e, Loaded(e, d)
    PROVE  Described(e) /\ e.kind = d.kind
<1>1. DOMAIN e = DOMAIN d /\ e.kind = d.kind /\ e.fields = << >> /\ e.labels = << >>
      /\ e.deps = IF d.kind = "composite" THEN << >> ELSE d.deps
  BY DEF Described, Loaded
<1>2. << >> \in Seq(Nat) /\ << >> \in Seq(Labels) /\ Len(<< >>) = 0
  OBVIOUS
<1> QED
  BY <1>1, <1>2 DEF Described

LEMMA Removed ==
    ASSUME NEW X, NEW s \in Seq(X), NEW i \in DOMAIN s
    PROVE  RemoveAt(s, i) \in Seq(X) /\ Len(RemoveAt(s, i)) = Len(s) - 1
<1>1. i \in 1..Len(s) /\ Len(s) \in Nat
  OBVIOUS
<1>2. SubSeq(s, 1, i - 1) \in Seq(X) /\ Len(SubSeq(s, 1, i - 1)) = i - 1
  BY <1>1
<1>3. SubSeq(s, i + 1, Len(s)) \in Seq(X) /\ Len(SubSeq(s, i + 1, Len(s))) = Len(s) - i
  BY <1>1
<1> DEFINE front == SubSeq(s, 1, i - 1)
           back == SubSeq(s, i + 1, Len(s))
<1>4. RemoveAt(s, i) = front \o back
  BY DEF RemoveAt
<1> HIDE DEF front, back
<1>5. front \o back \in Seq(X) /\ Len(front \o back) = Len(front) + Len(back)
  BY <1>2, <1>3 DEF front, back
<1>6. Len(front) = i - 1 /\ Len(back) = Len(s) - i
  BY <1>2, <1>3 DEF front, back
<1> QED
  BY <1>1, <1>4, <1>5, <1>6

Descriptions ==
    /\ \A o \in DOMAIN types : Described(types[o])
    /\ DOMAIN catalog.types \subseteq DOMAIN types
    /\ \A o \in DOMAIN catalog.types :
          Described(catalog.types[o]) /\ catalog.types[o].kind = types[o].kind
    /\ alters \in Nat
    /\ column \in {0} \cup DOMAIN types

LEMMA CreatedDescribed ==
    ASSUME NEW name, NEW d \in NewTypes(name), DOMAIN types \subseteq Oids
    PROVE  Described(d)
<1>1. << >> \in Seq(Nat) /\ << >> \in Seq(Labels) /\ <<1>> \in Seq(Nat) /\ Len(<<1>>) = 1
  OBVIOUS
<1>2. ASSUME NEW o \in DOMAIN types PROVE <<o>> \in Seq(Nat) /\ Len(<<o>>) = 1
  <2>1. o \in Nat
    BY OidsAreNumbers
  <2> QED
    BY <2>1
<1>3. ASSUME NEW kind \in {"domain", "range", "multirange", "array"}, NEW o \in DOMAIN types
      PROVE  Described(Definition(kind, name, <<o>>, << >>, << >>))
  <2>1. kind \in DefinitionKinds /\ kind \notin {"composite", "builtin", "extension"}
    BY DEF DefinitionKinds
  <2> QED
    BY <1>1, <1>2, <2>1, NewDescribed
<1>4. ASSUME NEW o \in DOMAIN types
      PROVE  Described(Definition("composite", name, <<o>>, <<1>>, << >>))
  <2>1. "composite" \in DefinitionKinds
    BY DEF DefinitionKinds
  <2> QED
    BY <1>1, <1>2, <2>1, NewDescribed
<1>5. ASSUME NEW labels \in {<< >>, <<CHOOSE l \in Labels : TRUE>>}
      PROVE  Described(Definition("enum", name, << >>, << >>, labels))
  <2>1. "enum" \in DefinitionKinds
    BY DEF DefinitionKinds
  <2>2. labels \in Seq(Labels)
    <3> DEFINE l == CHOOSE x \in Labels : TRUE
    <3>1. l \in Labels
      BY LabelsAssumption
    <3>2. labels \in {<< >>, <<l>>}
      OBVIOUS
    <3> HIDE DEF l
    <3>3. CASE labels = << >>
      BY <1>1, <3>3
    <3>4. CASE labels = <<l>>
      BY <3>1, <3>4
    <3> QED
      BY <3>2, <3>3, <3>4
  <2> QED
    BY <1>1, <2>1, <2>2, NewDescribed
<1>6. \/ \E labels \in {<< >>, <<CHOOSE l \in Labels : TRUE>>} :
           d = Definition("enum", name, << >>, << >>, labels)
      \/ \E kind \in {"domain", "range", "multirange", "array"} : \E o \in DOMAIN types :
           d = Definition(kind, name, <<o>>, << >>, << >>)
      \/ \E o \in DOMAIN types : d = Definition("composite", name, <<o>>, <<1>>, << >>)
  BY DEF NewTypes
<1> QED
  BY <1>3, <1>4, <1>5, <1>6

LEMMA AlteredDescribed ==
    ASSUME NEW o \in DOMAIN types, NEW e \in Altered(o, types[o]), Descriptions,
           DOMAIN types \subseteq Oids, types[o].kind \in {"enum", "composite"}
    PROVE  Described(e) /\ e.kind = types[o].kind
<1> DEFINE d == types[o]
<1>1. Described(d) /\ d.deps \in Seq(Nat) /\ d.fields \in Seq(Nat) /\ d.labels \in Seq(Labels)
  BY DEF Descriptions, Described
<1>2. CASE d.kind = "enum"
  <2>1. PICK l \in Labels : e = [d EXCEPT !.labels = Append(@, l)]
    BY <1>2 DEF Altered
  <2>2. Append(d.labels, l) \in Seq(Labels)
    BY <1>1
  <2>3. e = [d EXCEPT !.labels = Append(d.labels, l)]
    BY <2>1
  <2> HIDE DEF d
  <2> QED
    BY <1>1, <2>2, <2>3, LabelsReplaced DEF d
<1>3. CASE d.kind = "composite"
  <2>1. Len(d.fields) = Len(d.deps)
    BY <1>1, <1>3 DEF Described
  <2>2. \/ \E p \in DOMAIN types :
             e = [d EXCEPT !.deps = Append(@, p), !.fields = Append(@, 2 + alters)]
        \/ \E i \in DOMAIN d.deps :
             e = [d EXCEPT !.deps = RemoveAt(@, i), !.fields = RemoveAt(@, i)]
    BY <1>3 DEF Altered
  <2>3. ASSUME NEW p \in DOMAIN types,
               e = [d EXCEPT !.deps = Append(@, p), !.fields = Append(@, 2 + alters)]
        PROVE  Described(e) /\ e.kind = d.kind
    <3> DEFINE deps == Append(d.deps, p)
               fields == Append(d.fields, 2 + alters)
    <3>1. p \in Nat /\ 2 + alters \in Nat
      BY OidsAreNumbers DEF Descriptions
    <3>2. deps \in Seq(Nat) /\ fields \in Seq(Nat) /\ Len(fields) = Len(deps)
      BY <1>1, <2>1, <3>1
    <3>3. Refielded(e, d, deps, fields)
      BY <2>3 DEF Refielded
    <3> HIDE DEF d, deps, fields
    <3>4. /\ d.kind \in {"domain", "array", "range", "multirange"} => Len(deps) = 1
          /\ IF d.kind = "composite" THEN Len(fields) = Len(deps) ELSE fields = << >>
      BY <1>3, <3>2
    <3>5. Described(d) /\ deps \in Seq(Nat) /\ fields \in Seq(Nat)
      BY <1>1, <3>2
    <3> QED
      BY <3>3, <3>4, <3>5, FieldsReplaced
  <2>4. ASSUME NEW i \in DOMAIN d.deps,
               e = [d EXCEPT !.deps = RemoveAt(@, i), !.fields = RemoveAt(@, i)]
        PROVE  Described(e) /\ e.kind = d.kind
    <3> DEFINE deps == RemoveAt(d.deps, i)
               fields == RemoveAt(d.fields, i)
    <3>1. i \in DOMAIN d.fields
      BY <1>1, <2>1
    <3>2. deps \in Seq(Nat) /\ fields \in Seq(Nat) /\ Len(fields) = Len(deps)
      BY <1>1, <2>1, <3>1, Removed
    <3>3. Refielded(e, d, deps, fields)
      BY <2>4 DEF Refielded
    <3> HIDE DEF d, deps, fields
    <3>4. /\ d.kind \in {"domain", "array", "range", "multirange"} => Len(deps) = 1
          /\ IF d.kind = "composite" THEN Len(fields) = Len(deps) ELSE fields = << >>
      BY <1>3, <3>2
    <3>5. Described(d) /\ deps \in Seq(Nat) /\ fields \in Seq(Nat)
      BY <1>1, <3>2
    <3> QED
      BY <3>3, <3>4, <3>5, FieldsReplaced
  <2> QED
    BY <2>2, <2>3, <2>4
<1> QED
  BY <1>2, <1>3

Fielded(e, c, d) ==
    e = [c EXCEPT !.deps = IF d.kind = "composite" THEN d.deps ELSE @, !.fields = d.fields]

LEMMA FieldsLoaded ==
    ASSUME NEW d, Described(d), NEW c, Described(c), c.kind = d.kind, NEW e, Fielded(e, c, d)
    PROVE  Described(e) /\ e.kind = d.kind
<1> DEFINE deps == IF d.kind = "composite" THEN d.deps ELSE c.deps
           fields == d.fields
<1>1. Refielded(e, c, deps, fields)
  BY DEF Refielded, Fielded
<1>2. deps \in Seq(Nat) /\ fields \in Seq(Nat)
  BY DEF Described
<1>3. /\ c.kind \in {"domain", "array", "range", "multirange"} => Len(deps) = 1
      /\ IF c.kind = "composite" THEN Len(fields) = Len(deps) ELSE fields = << >>
  BY DEF Described
<1> HIDE DEF deps, fields
<1> QED
  BY <1>1, <1>2, <1>3, FieldsReplaced

LEMMA DescriptionsKept ==
    ASSUME Descriptions, Directories, [Next]_vars
    PROVE  Descriptions'
<1>1. CASE CreateType
  <2> DEFINE S == NewOids \ DOMAIN types
  <2>1. PICK name : \E d \in NewTypes(name) :
           types' = [p \in DOMAIN types \cup {Min(S)} |-> IF p = Min(S) THEN d ELSE types[p]]
    BY <1>1 DEF CreateType
  <2>2. PICK d \in NewTypes(name) :
           types' = [p \in DOMAIN types \cup {Min(S)} |-> IF p = Min(S) THEN d ELSE types[p]]
    BY <2>1
  <2>3. Described(d)
    BY CreatedDescribed DEF Directories
  <2>4. UNCHANGED <<catalog, alters, column>>
    BY <1>1 DEF CreateType
  <2>5. Min(S) \notin DOMAIN types
    <3>1. S # {} /\ S \in SUBSET Nat
      BY <1>1, OidsAreNumbers DEF CreateType, Oids
    <3> HIDE DEF S
    <3>2. Min(S) \in S
      BY <3>1, MinIn
    <3> QED
      BY <3>2 DEF S
  <2> DEFINE q == Min(S)
  <2> HIDE DEF q, S
  <2>6. types' = [p \in DOMAIN types \cup {q} |-> IF p = q THEN d ELSE types[p]] /\ q \notin DOMAIN types
    BY <2>2, <2>5 DEF q
  <2> QED
    BY <2>3, <2>4, <2>6 DEF Descriptions
<1>2. CASE AlterType
  <2>1. PICK o \in DOMAIN types : /\ types[o].kind \in {"enum", "composite"}
                                  /\ \E d \in Altered(o, types[o]) : types' = [types EXCEPT ![o] = d]
    BY <1>2 DEF AlterType
  <2>2. PICK d \in Altered(o, types[o]) : types' = [types EXCEPT ![o] = d]
    BY <2>1
  <2>3. Described(d) /\ d.kind = types[o].kind
    BY <2>1, AlteredDescribed DEF Directories
  <2>4. UNCHANGED <<catalog, column>> /\ alters' = alters + 1
    BY <1>2 DEF AlterType
  <2>5. DOMAIN types' = DOMAIN types /\ \A p \in DOMAIN types : types'[p] = IF p = o THEN d ELSE types[p]
    BY <2>2
  <2>6. \A p \in DOMAIN types : Described(types'[p]) /\ types'[p].kind = types[p].kind
    BY <2>3, <2>5 DEF Descriptions
  <2>7. alters' \in Nat
    BY <2>4 DEF Descriptions
  <2> QED
    BY <2>4, <2>5, <2>6, <2>7 DEF Descriptions
<1>3. CASE CreateTable
  BY <1>3 DEF CreateTable, Descriptions
<1>4. CASE WriteRow
  BY <1>4 DEF WriteRow, Descriptions
<1>5. CASE LoadTypes
  <2> DEFINE load(o) == [types[o] EXCEPT !.labels = << >>,
                       !.deps = IF types[o].kind = "composite" THEN << >> ELSE @,
                       !.fields = << >>]
  <2>1. catalog'.types = [o \in DOMAIN types |-> load(o)] /\ UNCHANGED <<types, alters, column>>
    <3>1. catalog' = [types |-> [o \in DOMAIN types |-> load(o)], available |-> {}]
          /\ UNCHANGED <<types, alters, column>>
      BY <1>5, Zenon DEF LoadTypes
    <3> HIDE DEF load
    <3> QED
      BY <3>1
  <2>2. ASSUME NEW o \in DOMAIN types PROVE Described(load(o)) /\ load(o).kind = types[o].kind
    <3>1. Described(types[o])
      BY DEF Descriptions
    <3>2. Loaded(load(o), types[o])
      BY DEF Loaded
    <3> HIDE DEF load
    <3> QED
      BY <3>1, <3>2, LoadedDescribed
  <2> HIDE DEF load
  <2>3. DOMAIN catalog'.types = DOMAIN types /\ \A o \in DOMAIN types : catalog'.types[o] = load(o)
    BY <2>1
  <2> QED
    BY <2>1, <2>2, <2>3 DEF Descriptions
<1>6. CASE LoadLabels
  <2> DEFINE load(o) == [catalog.types[o] EXCEPT !.labels = types[o].labels]
  <2>1. catalog'.types = [o \in DOMAIN catalog.types |-> load(o)] /\ UNCHANGED <<types, alters, column>>
    BY <1>6 DEF LoadLabels, Directories
  <2>2. ASSUME NEW o \in DOMAIN catalog.types
        PROVE  Described(load(o)) /\ load(o).kind = types[o].kind
    <3>1. Described(catalog.types[o]) /\ catalog.types[o].kind = types[o].kind /\ o \in DOMAIN types
      BY DEF Descriptions
    <3>2. types[o].labels \in Seq(Labels)
      BY <3>1 DEF Descriptions, Described
    <3> QED
      BY <3>1, <3>2, LabelsReplaced
  <2> HIDE DEF load
  <2>3. DOMAIN catalog'.types = DOMAIN catalog.types
        /\ \A o \in DOMAIN catalog.types : catalog'.types[o] = load(o)
    BY <2>1
  <2> QED
    BY <2>1, <2>2, <2>3 DEF Descriptions
<1>7. CASE LoadFields
  <2> DEFINE load(o) == [catalog.types[o] EXCEPT
                       !.deps = IF types[o].kind = "composite" THEN types[o].deps ELSE @,
                       !.fields = types[o].fields]
  <2>1. catalog'.types = [o \in DOMAIN catalog.types |-> load(o)] /\ UNCHANGED <<types, alters, column>>
    BY <1>7 DEF LoadFields
  <2>2. ASSUME NEW o \in DOMAIN catalog.types
        PROVE  Described(load(o)) /\ load(o).kind = types[o].kind
    <3>1. Described(catalog.types[o]) /\ catalog.types[o].kind = types[o].kind /\ Described(types[o])
      BY DEF Descriptions
    <3>2. Fielded(load(o), catalog.types[o], types[o])
      BY DEF Fielded
    <3> HIDE DEF load
    <3> QED
      BY <3>1, <3>2, FieldsLoaded
  <2> HIDE DEF load
  <2>3. DOMAIN catalog'.types = DOMAIN catalog.types
        /\ \A o \in DOMAIN catalog.types : catalog'.types[o] = load(o)
    BY <2>1
  <2> QED
    BY <2>1, <2>2, <2>3 DEF Descriptions
<1>8. CASE LoadColumn
  BY <1>8 DEF LoadColumn, Descriptions
<1>9. CASE Deliver
  BY <1>9 DEF Deliver, Descriptions
<1>10. CASE Restart
  <2>1. DOMAIN catalog'.types = {} /\ UNCHANGED <<types, alters, column>>
    BY <1>10 DEF Restart, NoCatalog
  <2> QED
    BY <2>1 DEF Descriptions
<1>11. CASE UNCHANGED vars
  BY <1>11 DEF vars, Descriptions
<1> QED
  BY <1>1, <1>2, <1>3, <1>4, <1>5, <1>6, <1>7, <1>8, <1>9, <1>10, <1>11 DEF Next
-----------------------------------------------------------------------------
(* A row holds a value of the column's type as it was defined when the row *)
(* was written, and its closure is of that definition.                     *)

Written(r, oid, defs) ==
    /\ DOMAIN defs \subseteq Oids /\ oid \in DOMAIN defs
    /\ \A o \in DOMAIN defs : Described(defs[o])
    /\ r.value \in Values(defs, oid)
    /\ r.closure = DefinitionClosure(defs, oid)

Rows ==
    /\ row # NoRow => \E defs : Written(row, column, defs)
    /\ column = 0 => row = NoRow /\ delivered = Nothing
    /\ delivered # Nothing => \E defs : Written(delivered.row, column, defs)

DepthFits(defs) == Depth(defs) \in Nat /\ 2 * Depth(defs) + 1 <= K

LEMMA DepthFitsAll ==
    ASSUME NEW defs, DOMAIN defs \subseteq Oids
    PROVE  DepthFits(defs) /\ (DOMAIN defs # {} => Depth(defs) # 0)
<1>1. IsFiniteSet(Oids)
  BY OidsAssumption
<1>2. IsFiniteSet(DOMAIN defs) /\ Cardinality(DOMAIN defs) <= Cardinality(Oids)
  BY <1>1, FS_Subset
<1>3. Cardinality(DOMAIN defs) \in Nat /\ (DOMAIN defs # {} => Cardinality(DOMAIN defs) # 0)
  BY <1>2, FS_CardinalityType, FS_EmptySet
<1> QED
  BY <1>2, <1>3, KType DEF DepthFits, Depth, K

LEMMA WrittenSane ==
    ASSUME NEW r, NEW oid, NEW defs, Written(r, oid, defs)
    PROVE  r.value \in SaneValues(K)
<1> DEFINE n == Depth(defs)
<1>1. n \in Nat /\ 2 * n + 1 <= K /\ n # 0
  BY DepthFitsAll DEF Written, DepthFits
<1>2. Values(defs, oid) = ValueSetsUpTo(defs, n)[oid]
  BY DEF Values, ValueSetsUpTo
<1> HIDE DEF n
<1> DEFINE m == n - 1
<1>3. m \in Nat /\ n = m + 1
  BY <1>1
<1> HIDE DEF m
<1>4. DOMAIN ValueSetsUpTo(defs, n) = DOMAIN defs
  <2>1. ValueSetsUpTo(defs, m + 1) = ValueSets(defs, ValueSetsUpTo(defs, m))
    BY <1>3, ValueSetsNext
  <2> QED
    BY <1>3, <2>1 DEF ValueSets
<1>5. ValuesFit(defs, n)
  BY <1>1, ValuesFitAll DEF Written
<1>6. r.value \in SaneValues(2 * n + 1)
  BY <1>2, <1>4, <1>5 DEF ValuesFit, Written
<1>7. Within(2 * n + 1, K)
  BY <1>1, KType, WithinAll
<1> QED
  BY <1>6, <1>7 DEF Within

LEMMA EnvelopeHolds ==
    ASSUME NEW v \in SaneValues(K)
    PROVE  Leaves(Envelope(v)) = Leaves(v)
<1> DEFINE t == Output(v)
           e == Envelope(v)
<1>1. t \in SaneTexts(K) /\ Leaves(t) = Leaves(v)
  BY TextsSaneAll DEF TextsSane
<1>2. e = [t |-> "envelope", s |-> "", parts |-> <<t>>, names |-> << >>] /\ e.parts = <<t>>
  BY DEF Envelope, Value
<1>3. t \in Trees(K)
  BY <1>1, KType, GrownAll DEF Grown
<1> HIDE DEF t, e
<1>4. e \in Nest(Trees(K))
  <2>1. <<t>> \in Seq(Trees(K)) /\ << >> \in Seq(Nat)
    BY <1>3
  <2>2. "" \in Atoms /\ "envelope" \in ValueTags \cup TextTags
    BY DEF Atoms, ValueTags
  <2> QED
    BY <1>2, <2>1, <2>2 DEF Nest
<1>5. e \in Trees(K + 1)
  BY <1>4, KType, TreesNext
<1>6. Leaves(e) = Leaves(t)
  BY <1>2, <1>5, OneHolds
<1> QED
  BY <1>1, <1>6 DEF e

LEMMA RowsKept ==
    ASSUME Rows, Descriptions, Directories, [Next]_vars
    PROVE  Rows'
<1>1. CASE CreateType
  BY <1>1 DEF CreateType, Rows
<1>2. CASE AlterType
  BY <1>2 DEF AlterType, Rows
<1>3. CASE CreateTable
  <2>1. row' = NoRow /\ delivered' = Nothing /\ column' # 0
    <3>1. \A o \in DOMAIN types : o # 0
      BY OidsAssumption DEF Directories
    <3> QED
      BY <1>3, <3>1 DEF CreateTable, Rows
  <2> QED
    BY <2>1 DEF Rows
<1>4. CASE WriteRow
  <2>1. PICK v \in Values(types, column) :
           row' = [value |-> v, closure |-> DefinitionClosure(types, column)]
    BY <1>4 DEF WriteRow
  <2>2. column # 0 /\ UNCHANGED <<column, delivered>>
    BY <1>4 DEF WriteRow
  <2>3. row'.value = v /\ row'.closure = DefinitionClosure(types, column)
    BY <2>1
  <2>4. Written(row', column, types)
    BY <2>2, <2>3 DEF Written, Descriptions, Directories
  <2> QED
    BY <2>2, <2>4 DEF Rows
<1>5. CASE LoadTypes
  BY <1>5 DEF LoadTypes, Rows
<1>6. CASE LoadLabels
  BY <1>6 DEF LoadLabels, Rows
<1>7. CASE LoadFields
  BY <1>7 DEF LoadFields, Rows
<1>8. CASE LoadColumn
  BY <1>8 DEF LoadColumn, Rows
<1>9. CASE Deliver
  <2>1. row # NoRow /\ delivered' = [row |-> row, result |-> Image] /\ UNCHANGED column
        /\ (row' = row \/ row' = NoRow)
    BY <1>9 DEF Deliver
  <2>2. delivered'.row = row
    BY <2>1
  <2>3. PICK defs : Written(row, column, defs)
    BY <2>1 DEF Rows
  <2>4. column # 0
    BY <2>1 DEF Rows
  <2> QED
    BY <2>1, <2>2, <2>3, <2>4 DEF Rows
<1>10. CASE Restart
  <2>1. delivered' = Nothing /\ UNCHANGED <<row, column>>
    BY <1>10 DEF Restart
  <2> QED
    BY <2>1 DEF Rows
<1>11. CASE UNCHANGED vars
  BY <1>11 DEF vars, Rows
<1> QED
  BY <1>1, <1>2, <1>3, <1>4, <1>5, <1>6, <1>7, <1>8, <1>9, <1>10, <1>11 DEF Next

LEMMA ImageHolds ==
    ASSUME Rows, Descriptions, Directories, row # NoRow
    PROVE  Image = Undecoded \/ Leaves(Image) = Leaves(row.value)
<1>1. row.value \in SaneValues(K)
  BY WrittenSane DEF Rows
<1>2. Output(row.value) \in SaneTexts(K) /\ Leaves(Output(row.value)) = Leaves(row.value)
  BY <1>1, TextsSaneAll DEF TextsSane
<1>3. CASE mapping.representation
  <2>1. Image = Envelope(row.value)
    BY <1>3 DEF Image
  <2> QED
    BY <1>1, <2>1, EnvelopeHolds
<1>4. CASE ~ mapping.representation
  <2>1. Image = DecodeCatalogValue(catalog, column, Output(row.value))
    BY <1>4 DEF Image
  <2>2. DOMAIN catalog.types \subseteq Oids /\ \A o \in DOMAIN catalog.types : Described(catalog.types[o])
    BY DEF Directories, Descriptions
  <2> QED
    BY <1>2, <2>1, <2>2, DecodeHolds
<1> QED
  BY <1>3, <1>4

LEMMA NothingLostKept ==
    ASSUME NothingLost, Rows, Descriptions, Directories, [Next]_vars
    PROVE  NothingLost'
<1>1. CASE Deliver
  <2>1. row # NoRow /\ delivered' = [row |-> row, result |-> Image]
    BY <1>1 DEF Deliver
  <2>2. delivered'.row = row /\ delivered'.result = Image
    BY <2>1
  <2>3. Image = Undecoded \/ Leaves(Image) = Leaves(row.value)
    BY <2>1, ImageHolds
  <2> QED
    BY <2>2, <2>3 DEF NothingLost
<1>2. CASE Restart
  BY <1>2 DEF Restart, NothingLost
<1>3. CASE UNCHANGED delivered
  BY <1>3 DEF NothingLost
<1>4. UNCHANGED delivered \/ Deliver \/ Restart
  BY DEF Next, vars, CreateType, AlterType, CreateTable, WriteRow, LoadTypes, LoadLabels, LoadFields, LoadColumn
<1> QED
  BY <1>1, <1>2, <1>3, <1>4

LEMMA InitHolds ==
    ASSUME Init
    PROVE  Directories /\ Evidence /\ Descriptions /\ Rows /\ NothingLost
<1>1. DOMAIN NoCatalog.types = {}
      /\ NoCatalog = [types |-> NoCatalog.types, available |-> NoCatalog.available]
  BY DEF NoCatalog
<1>2. Directories /\ Evidence
  BY <1>1 DEF Init, Directories, Evidence, Oids
<1>3. Descriptions
  BY <1>1, BaseTypesAssumption DEF Init, Descriptions
<1>4. Rows /\ NothingLost
  BY DEF Init, Rows, NothingLost
<1> QED
  BY <1>2, <1>3, <1>4

(* What a row holds is delivered, whole and in order, or the row is        *)
(* refused, whatever happens to its type between the time it is written    *)
(* and the time types.rs decodes it.                                       *)
THEOREM NothingLostHolds == Spec => []NothingLost
<1> DEFINE Inv == Directories /\ Descriptions /\ Rows /\ NothingLost
<1>1. Init => Inv
  BY InitHolds
<1>2. Inv /\ [Next]_vars => Inv'
  BY DirectoriesKept, DescriptionsKept, RowsKept, NothingLostKept
<1> QED
  BY <1>1, <1>2, PTL DEF Spec

-----------------------------------------------------------------------------
(* What is decoded from the text of a value is the value.                  *)

LEMMA OutputMade ==
    ASSUME NEW v \in SaneValues(K), v.t \in {"composite", "array", "range", "multirange"},
           ~ (v.t = "composite" /\ v.parts = <<Null>>)
    PROVE  /\ Output(v).t = Form(v.t) /\ Output(v).s = v.s /\ Output(v).parts = OutputsOf(v.parts)
           /\ v.parts \in Seq(SaneValues(K))
           /\ \A i \in DOMAIN v.parts : v.parts[i] \in SaneValues(K)
<1>1. v \in SaneValues(K + 1)
  BY KType, GrownAll DEF Grown
<1>2. v \in Nest(SaneValues(K))
  BY <1>1, OutputEq DEF SaneNest
<1>3. Output(v) = Value(Form(v.t), v.s, OutputsOf(v.parts), << >>)
  BY <1>1, OutputEq
<1>4. v.parts \in Seq(SaneValues(K)) /\ \A i \in DOMAIN v.parts : v.parts[i] \in SaneValues(K)
  BY <1>2, PartsIn
<1> QED
  BY <1>3, <1>4 DEF Value

LEMMA OutputLeaf ==
    ASSUME NEW v \in SaneValues(K), v.t \in {"value", "enum"}
    PROVE  Output(v).t = "plain" /\ Output(v).s = v.s
<1>1. v \in SaneValues(K + 1)
  BY KType, GrownAll DEF Grown
<1>2. Output(v) = Value(Form(v.t), v.s, OutputsOf(v.parts), << >>)
  BY <1>1, OutputEq
<1> QED
  BY <1>2, FormIs DEF Value

LEMMA OutputNull == Output(Null) = Null /\ Null \in SaneValues(K)
<1>1. Null \in SaneValues(K) /\ Null \in SaneValues(K + 1)
  <2>1. Null \in SaneValues(2 * Cardinality(Oids) + 1)
    BY KType, Levels
  <2>2. Null \in SaneValues(K)
    BY <2>1 DEF K
  <2> QED
    BY <2>2, KType, GrownAll DEF Grown
<1> QED
  BY <1>1, NullIs, OutputEq

LEMMA SaneIsDecoded ==
    ASSUME NEW v \in SaneValues(K)
    PROVE  v # Undecoded
<1>1. v \in SaneValues(K + 1)
  BY KType, GrownAll DEF Grown
<1>2. Sane(v)
  BY <1>1, OutputEq DEF SaneNest
<1>3. Undecoded.t = "error"
  BY DEF Undecoded, Value
<1> QED
  BY <1>2, <1>3, NullIs DEF Sane

(* x is written and read again, for a type decoded by below.               *)
Returns(below, o, x) == DecodeOne(below, o, Output(x)) = x

LEMMA DecodedWhole ==
    ASSUME NEW parts, \A i \in DOMAIN parts : parts[i] \in SaneValues(K), NEW tag, NEW names
    PROVE  Decoded(tag, parts, names) = Value(tag, "", parts, names)
<1>1. Undecoded \notin Range(parts)
  BY SaneIsDecoded DEF Range
<1> QED
  BY <1>1 DEF Decoded

LEMMA PartsReturn ==
    ASSUME NEW below, NEW o, NEW X, NEW parts \in Seq(X), \A i \in DOMAIN parts : Returns(below, o, parts[i])
    PROVE  DecodedParts(below, o, OutputsOf(parts)) = parts
<1> DEFINE f == DecodedParts(below, o, OutputsOf(parts))
<1>1. DOMAIN OutputsOf(parts) = DOMAIN parts
      /\ \A i \in DOMAIN parts : OutputsOf(parts)[i] = Output(parts[i])
  BY DEF OutputsOf
<1>2. f = [i \in DOMAIN parts |-> f[i]] /\ \A i \in DOMAIN parts : f[i] = DecodeOne(below, o, Output(parts[i]))
  BY <1>1 DEF DecodedParts
<1>3. \A i \in DOMAIN parts : f[i] = parts[i]
  BY <1>2 DEF Returns
<1>4. parts = [i \in DOMAIN parts |-> parts[i]]
  OBVIOUS
<1> HIDE DEF f
<1>5. f = parts
  BY <1>2, <1>3, <1>4, Zenon
<1> QED
  BY <1>5 DEF f

LEMMA FieldsReturn ==
    ASSUME NEW below, NEW deps, NEW X, NEW parts \in Seq(X),
           \A i \in DOMAIN parts : Returns(below, deps[i], parts[i])
    PROVE  DecodedFields(below, deps, OutputsOf(parts)) = parts
<1> DEFINE f == DecodedFields(below, deps, OutputsOf(parts))
<1>1. DOMAIN OutputsOf(parts) = DOMAIN parts
      /\ \A i \in DOMAIN parts : OutputsOf(parts)[i] = Output(parts[i])
  BY DEF OutputsOf
<1>2. f = [i \in DOMAIN parts |-> f[i]]
      /\ \A i \in DOMAIN parts : f[i] = DecodeOne(below, deps[i], Output(parts[i]))
  BY <1>1 DEF DecodedFields
<1>3. \A i \in DOMAIN parts : f[i] = parts[i]
  BY <1>2 DEF Returns
<1>4. parts = [i \in DOMAIN parts |-> parts[i]]
  OBVIOUS
<1> HIDE DEF f
<1>5. f = parts
  BY <1>2, <1>3, <1>4, Zenon
<1> QED
  BY <1>5 DEF f

LEMMA RangeReturns ==
    ASSUME NEW below, NEW o, NEW S, NEW r \in SaneValues(K), RangeValue(r, S),
           \A x \in S : x \in SaneValues(K) => Returns(below, o, x)
    PROVE  DecodedRange(below, o, Output(r)) = r /\ Output(r).t = "bounds"
<1>1. PICK parts : r = Value("range", "", parts, << >>)
                   /\ (parts = << >> \/ \E x \in S : parts = <<x, Null>>)
  BY DEF RangeValue
<1>2. r.t = "range" /\ r.parts = parts
  BY <1>1 DEF Value
<1>3. /\ Output(r).t = "bounds" /\ Output(r).parts = OutputsOf(parts)
      /\ parts \in Seq(SaneValues(K)) /\ \A i \in DOMAIN parts : parts[i] \in SaneValues(K)
  BY <1>2, OutputMade, FormIs
<1>4. Returns(below, o, Null)
  BY OutputNull DEF Returns, DecodeOne
<1>5. \A i \in DOMAIN parts : Returns(below, o, parts[i])
  <2>1. CASE parts = << >>
    BY <2>1
  <2>2. ASSUME NEW x \in S, parts = <<x, Null>> PROVE \A i \in DOMAIN parts : Returns(below, o, parts[i])
    <3>1. DOMAIN parts = 1..2 /\ parts[1] = x /\ parts[2] = Null
      BY <2>2
    <3>2. Returns(below, o, x)
      BY <1>3, <3>1
    <3> QED
      BY <1>4, <3>1, <3>2
  <2> QED
    BY <1>1, <2>1, <2>2
<1>6. DecodedParts(below, o, OutputsOf(parts)) = parts
  BY <1>3, <1>5, PartsReturn
<1>7. DecodedRange(below, o, Output(r)) = Decoded("range", parts, << >>)
  BY <1>3, <1>6 DEF DecodedRange
<1>8. Decoded("range", parts, << >>) = r
  BY <1>1, <1>3, DecodedWhole
<1> QED
  BY <1>3, <1>7, <1>8

Visits(codecs, o) == o \in DOMAIN codecs /\ codecs[o]

(* A type with a codec reads again every value it has.                     *)
Regains(values, codecs, decoders, o) ==
    Visits(codecs, o) =>
        \A x \in AllOf(values, o) :
            x \in SaneValues(K) => Returns(decoders, o, x) /\ Output(x).t # "null"

(* Codec, by the kind of the type.                                         *)
HasCodec(cat, d, codecs) ==
    CASE d.kind = "pseudo" -> FALSE
      [] d.kind = "builtin" -> d.supported
      [] d.kind = "enum" -> TRUE
      [] d.kind = "multirange" -> Visits(codecs, cat.types[d.deps[1]].deps[1])
      [] d.kind = "extension" -> d.codec
      [] OTHER -> \A o \in Range(d.deps) : Visits(codecs, o)

LEMMA CodecIs ==
    ASSUME NEW cat, NEW oid, NEW codecs, cat.types[oid].kind \in DefinitionKinds,
           Codec(cat, oid, codecs)
    PROVE  HasCodec(cat, cat.types[oid], codecs)
<1> DEFINE d == cat.types[oid]
<1>1. CASE d.kind = "pseudo"
  BY <1>1, Zenon DEF Codec
<1>2. CASE d.kind = "builtin"
  BY <1>2, Zenon DEF Codec, HasCodec
<1>3. CASE d.kind = "enum"
  BY <1>3, Zenon DEF Codec, HasCodec
<1>4. CASE d.kind = "multirange"
  BY <1>4, Zenon DEF Codec, HasCodec, Visits
<1>5. CASE d.kind = "extension"
  BY <1>5, Zenon DEF Codec, HasCodec, ExtensionCodec
<1>6. CASE d.kind \in {"domain", "composite", "array", "range"}
  BY <1>6, Zenon DEF Codec, HasCodec, Visits
<1> QED
  BY <1>1, <1>2, <1>3, <1>4, <1>5, <1>6 DEF DefinitionKinds

LEMMA LeafIs ==
    ASSUME NEW t, NEW s
    PROVE  Leaf(t, s).t = t /\ Leaf(t, s).s = s
BY DEF Leaf, Value

LEMMA ValueIs ==
    ASSUME NEW v, NEW t, NEW s, NEW parts, NEW names, v = Value(t, s, parts, names)
    PROVE  v.t = t /\ v.parts = parts
BY DEF Value

LEMMA SaneParts ==
    ASSUME NEW v \in SaneValues(K)
    PROVE  /\ v.parts \in Seq(SaneValues(K))
           /\ \A i \in DOMAIN v.parts : v.parts[i] \in SaneValues(K)
<1>1. v \in SaneValues(K + 1)
  BY KType, GrownAll DEF Grown
<1>2. v \in Nest(SaneValues(K))
  BY <1>1, OutputEq DEF SaneNest
<1> QED
  BY <1>2, PartsIn

LEMMA WholeMade ==
    ASSUME NEW v \in SaneValues(K), NEW t, NEW parts, NEW names, v = Value(t, "", parts, names)
    PROVE  Decoded(t, parts, names) = v
<1>1. v.parts = parts
  BY DEF Value
<1>2. \A i \in DOMAIN parts : parts[i] \in SaneValues(K)
  BY <1>1, SaneParts
<1> QED
  BY <1>2, DecodedWhole

LEMMA OutputsLong ==
    ASSUME NEW X, NEW parts \in Seq(X)
    PROVE  /\ DOMAIN OutputsOf(parts) = DOMAIN parts
           /\ Len(OutputsOf(parts)) = Len(parts)
           /\ OutputsOf(parts) = << >> <=> parts = << >>
<1>1. DOMAIN OutputsOf(parts) = DOMAIN parts /\ Alike(OutputsOf(parts), parts)
  BY DEF OutputsOf, Alike
<1> DEFINE Y == {Output(parts[i]) : i \in DOMAIN parts}
<1>2. \A i \in DOMAIN parts : OutputsOf(parts)[i] \in Y
  BY DEF OutputsOf
<1> HIDE DEF Y
<1> QED
  BY <1>1, <1>2, SameShape

LEMMA RangesReturn ==
    ASSUME NEW below, NEW o, NEW X, NEW parts \in Seq(X),
           \A i \in DOMAIN parts : DecodedRange(below, o, Output(parts[i])) = parts[i]
    PROVE  DecodedRanges(below, o, OutputsOf(parts)) = parts
<1> DEFINE f == DecodedRanges(below, o, OutputsOf(parts))
<1>1. DOMAIN OutputsOf(parts) = DOMAIN parts
      /\ \A i \in DOMAIN parts : OutputsOf(parts)[i] = Output(parts[i])
  BY DEF OutputsOf
<1>2. f = [i \in DOMAIN parts |-> f[i]]
      /\ \A i \in DOMAIN parts : f[i] = DecodedRange(below, o, Output(parts[i]))
  BY <1>1 DEF DecodedRanges
<1>3. parts = [i \in DOMAIN parts |-> parts[i]]
  OBVIOUS
<1> HIDE DEF f
<1>4. f = parts
  BY <1>2, <1>3, Zenon
<1> QED
  BY <1>4 DEF f

(* The fields a record is read from are those it was written with, even    *)
(* when they are written like none.                                        *)
LEMMA RecordReturns ==
    ASSUME NEW d, NEW v \in SaneValues(K), v.t = "composite",
           Len(v.parts) = Len(d.deps)
    PROVE  Output(v).t = "parentheses" /\ RecordParts(d, Output(v)) = OutputsOf(v.parts)
<1>0. v.parts \in Seq(SaneValues(K))
  BY SaneParts
<1>1. CASE v.parts = <<Null>>
  <2>1. v \in SaneValues(K + 1)
    BY KType, GrownAll DEF Grown
  <2>2. Output(v) = Value("parentheses", "", << >>, << >>)
    BY <1>1, <2>1, OutputEq
  <2>3. Output(v).t = "parentheses" /\ Output(v).parts = << >>
    BY <2>2, ValueIs
  <2>4. OutputsOf(<<Null>>) = <<Null>>
    BY OutputNull DEF OutputsOf
  <2>5. Len(d.deps) = 1
    BY <1>1
  <2> QED
    BY <1>1, <2>3, <2>4, <2>5 DEF RecordParts
<1>2. CASE v.parts # <<Null>>
  <2>1. Output(v).t = "parentheses" /\ Output(v).parts = OutputsOf(v.parts)
    BY <1>2, OutputMade, FormIs
  <2>2. Len(d.deps) = 1 => v.parts # << >>
    <3>1. Len(<< >>) # 1
      OBVIOUS
    <3> QED
      BY <3>1, Zenon
  <2>3. OutputsOf(v.parts) = << >> <=> v.parts = << >>
    BY <1>0, OutputsLong
  <2> QED
    BY <2>1, <2>2, <2>3 DEF RecordParts
<1> QED
  BY <1>1, <1>2

LEMMA RegainsNext ==
    ASSUME NEW defs, NEW cat, NEW oid, Described(defs[oid]), cat.types[oid] = defs[oid],
           NEW values, NEW codecs, NEW decoders,
           \A o \in Range(defs[oid].deps) :
              Regains(values, codecs, decoders, o) /\ cat.types[o] = defs[o],
           defs[oid].kind = "multirange" =>
              Regains(values, codecs, decoders, defs[defs[oid].deps[1]].deps[1]),
           Codec(cat, oid, codecs),
           NEW v \in ValuesOf(defs, oid, values), v \in SaneValues(K)
    PROVE  DecodedOf(cat, oid, Output(v), decoders) = v /\ Output(v).t # "null"
<1> DEFINE d == defs[oid]
           r == DecodedOf(cat, oid, Output(v), decoders)
<1>1. /\ d.kind \in DefinitionKinds
      /\ d.deps \in Seq(Nat) /\ d.fields \in Seq(Nat) /\ d.labels \in Seq(Labels)
      /\ d.kind \in {"domain", "array", "range", "multirange"} => Len(d.deps) = 1
      /\ d.kind = "composite" => Len(d.fields) = Len(d.deps)
  BY DEF Described
<1>2. IsValue(v, defs, d, values)
  BY <1>1, ValuesAre
<1>3. HasCodec(cat, d, codecs)
  BY <1>1, CodecIs
<1>4. IsDecoded(r, cat, d, Output(v), decoders)
  BY <1>1, DecodedIs
<1>5. d.kind \in {"domain", "array", "range", "multirange"} =>
         d.deps[1] \in Range(d.deps) /\ d.deps = <<d.deps[1]>>
  BY <1>1, OneLong DEF Range
<1>6. \A i \in DOMAIN d.deps : d.deps[i] \in Range(d.deps)
  BY DEF Range
<1>7. /\ \A o \in Range(d.deps) : Regains(values, codecs, decoders, o) /\ cat.types[o] = defs[o]
      /\ d.kind = "multirange" => Regains(values, codecs, decoders, defs[d.deps[1]].deps[1])
  OBVIOUS
<1> SUFFICES r = v /\ Output(v).t # "null"
  OBVIOUS
<1> HIDE DEF d, r
<1>8. CASE d.kind \in {"builtin", "extension"}
  <2>1. v = Leaf("value", "v") /\ v.t = "value" /\ v.s = "v"
    <3>1. v = Leaf("value", "v")
      BY <1>2, <1>8 DEF IsValue
    <3> QED
      BY <3>1, LeafIs
  <2>2. Output(v).t = "plain" /\ Output(v).s = "v"
    BY <2>1, OutputLeaf
  <2>3. CASE d.kind = "builtin"
    <3>1. d.supported
      BY <1>3, <2>3 DEF HasCodec
    <3> QED
      BY <1>4, <2>1, <2>2, <2>3, <3>1 DEF IsDecoded
  <2>4. CASE d.kind = "extension"
    <3>1. d.codec
      BY <1>3, <2>4 DEF HasCodec
    <3> QED
      BY <1>4, <2>1, <2>2, <2>4, <3>1 DEF IsDecoded
  <2> QED
    BY <1>8, <2>3, <2>4
<1>9. CASE d.kind = "pseudo"
  BY <1>2, <1>9 DEF IsValue
<1>10. CASE d.kind = "enum"
  <2>1. PICK l \in Range(d.labels) : v = Leaf("enum", l)
    BY <1>2, <1>10 DEF IsValue
  <2>2. Output(v).t = "plain" /\ Output(v).s = l
    BY <2>1, LeafIs, OutputLeaf
  <2> QED
    BY <1>4, <1>10, <2>1, <2>2 DEF IsDecoded
<1>11. CASE d.kind = "domain"
  <2>1. PICK x \in AllOf(values, d.deps[1]) : v = Value("domain", "", <<x>>, << >>)
    BY <1>2, <1>11 DEF IsValue
  <2>2. v.t = "domain" /\ v.parts = <<x>>
    BY <2>1 DEF Value
  <2>3. v \in SaneValues(K + 1)
    BY KType, GrownAll DEF Grown
  <2>4. Output(v) = Output(x) /\ x \in SaneValues(K)
    <3>1. v.parts[1] = x
      BY <2>2
    <3> QED
      BY <2>2, <2>3, <3>1, OutputEq
  <2>5. Visits(codecs, d.deps[1])
    BY <1>3, <1>5, <1>11 DEF HasCodec
  <2>6. Returns(decoders, d.deps[1], x) /\ Output(x).t # "null"
    BY <1>5, <1>7, <1>11, <2>4, <2>5 DEF Regains
  <2>7. r = Decoded("domain", <<x>>, << >>)
    BY <1>4, <1>11, <2>4, <2>6 DEF IsDecoded, Returns
  <2>8. Decoded("domain", <<x>>, << >>) = v
    BY <2>1, WholeMade
  <2> QED
    BY <2>1, <2>4, <2>6, <2>7, <2>8
<1>12. CASE d.kind = "composite"
  <2>1. PICK parts : /\ v = Value("composite", "", parts, d.fields)
                     /\ parts = [i \in DOMAIN d.deps |-> parts[i]]
                     /\ \A i \in DOMAIN d.deps : parts[i] \in AllOf(values, d.deps[i]) \cup {Null}
    BY <1>2, <1>12 DEF IsValue
  <2>2. v.t = "composite" /\ v.parts = parts
    BY <2>1 DEF Value
  <2>3. Alike(parts, d.deps)
    BY <2>1, Zenon DEF Alike
  <2>4. parts \in Seq(SaneValues(K)) /\ \A i \in DOMAIN parts : parts[i] \in SaneValues(K)
    BY <2>2, SaneParts
  <2>5. DOMAIN parts = DOMAIN d.deps
    BY <2>3 DEF Alike
  <2>6. Len(parts) = Len(d.deps) /\ (parts = << >> <=> d.deps = << >>)
    BY <1>1, <2>3, <2>4, <2>5, SameShape
  <2>7. ASSUME NEW i \in DOMAIN parts PROVE Returns(decoders, d.deps[i], parts[i])
    <3>1. CASE parts[i] = Null
      BY <3>1, OutputNull DEF Returns, DecodeOne
    <3>2. CASE parts[i] \in AllOf(values, d.deps[i])
      <4>1. d.deps[i] \in Range(d.deps)
        BY <1>6, <2>5
      <4>2. Visits(codecs, d.deps[i])
        BY <1>3, <1>12, <4>1 DEF HasCodec
      <4> QED
        BY <1>7, <2>4, <3>2, <4>1, <4>2 DEF Regains
    <3> QED
      BY <2>1, <2>5, <3>1, <3>2
  <2>8. Output(v).t = "parentheses" /\ RecordParts(d, Output(v)) = OutputsOf(parts)
    BY <2>2, <2>4, <2>6, RecordReturns
  <2>9. Len(OutputsOf(parts)) = Len(d.deps)
    BY <2>4, <2>6, OutputsLong
  <2>10. DecodedFields(decoders, d.deps, OutputsOf(parts)) = parts
    BY <2>4, <2>7, FieldsReturn
  <2>11. r = Decoded("composite", parts, d.fields)
    BY <1>4, <1>12, <2>8, <2>9, <2>10 DEF IsDecoded
  <2>12. Decoded("composite", parts, d.fields) = v
    BY <2>1, WholeMade
  <2> QED
    BY <2>8, <2>11, <2>12
<1>13. CASE d.kind = "array"
  <2>1. PICK parts : /\ v = Value("array", "", parts, << >>)
                     /\ \/ parts = << >>
                        \/ \E x \in AllOf(values, d.deps[1]) \cup {Null} : parts = <<x>>
    BY <1>2, <1>13 DEF IsValue
  <2>2. v.t = "array" /\ v.parts = parts
    BY <2>1 DEF Value
  <2>3. parts \in Seq(SaneValues(K)) /\ \A i \in DOMAIN parts : parts[i] \in SaneValues(K)
    BY <2>2, SaneParts
  <2>4. ASSUME NEW i \in DOMAIN parts PROVE Returns(decoders, d.deps[1], parts[i])
    <3>1. CASE parts[i] = Null
      BY <3>1, OutputNull DEF Returns, DecodeOne
    <3>2. CASE parts[i] \in AllOf(values, d.deps[1])
      <4>1. Visits(codecs, d.deps[1])
        BY <1>3, <1>5, <1>13 DEF HasCodec
      <4> QED
        BY <1>5, <1>7, <1>13, <2>3, <3>2, <4>1 DEF Regains
    <3>3. parts[i] \in AllOf(values, d.deps[1]) \cup {Null}
      <4>0. parts # << >>
        <5>1. DOMAIN << >> = {}
          OBVIOUS
        <5> QED
          BY <5>1, Zenon
      <4>1. PICK x \in AllOf(values, d.deps[1]) \cup {Null} : parts = <<x>>
        BY <2>1, <4>0
      <4>2. parts[i] = x
        BY <4>1
      <4> QED
        BY <4>2
    <3> QED
      BY <3>1, <3>2, <3>3
  <2>5. Output(v).t = "braces" /\ Output(v).parts = OutputsOf(parts)
    BY <2>2, OutputMade, FormIs
  <2>6. DecodedParts(decoders, d.deps[1], OutputsOf(parts)) = parts
    BY <2>3, <2>4, PartsReturn
  <2>7. r = Decoded("array", parts, << >>)
    BY <1>4, <1>13, <2>5, <2>6 DEF IsDecoded
  <2>8. Decoded("array", parts, << >>) = v
    BY <2>1, WholeMade
  <2> QED
    BY <2>5, <2>7, <2>8
<1>14. CASE d.kind = "range"
  <2>1. RangeValue(v, AllOf(values, d.deps[1]))
    BY <1>2, <1>14 DEF IsValue
  <2>2. Visits(codecs, d.deps[1])
    BY <1>3, <1>5, <1>14 DEF HasCodec
  <2>3. \A x \in AllOf(values, d.deps[1]) : x \in SaneValues(K) => Returns(decoders, d.deps[1], x)
    BY <1>5, <1>7, <1>14, <2>2 DEF Regains
  <2>4. DecodedRange(decoders, d.deps[1], Output(v)) = v /\ Output(v).t = "bounds"
    BY <2>1, <2>3, RangeReturns
  <2> QED
    BY <1>4, <1>14, <2>4 DEF IsDecoded
<1>15. CASE d.kind = "multirange"
  <2> DEFINE o == defs[d.deps[1]].deps[1]
  <2>1. PICK parts : /\ v = Value("multirange", "", parts, << >>)
                     /\ \/ parts = << >>
                        \/ \E x : RangeValue(x, AllOf(values, o)) /\ parts = <<x>>
    BY <1>2, <1>15 DEF IsValue
  <2>2. v.t = "multirange" /\ v.parts = parts
    BY <2>1 DEF Value
  <2>3. parts \in Seq(SaneValues(K)) /\ \A i \in DOMAIN parts : parts[i] \in SaneValues(K)
    BY <2>2, SaneParts
  <2>4. cat.types[d.deps[1]].deps[1] = o
    BY <1>5, <1>7, <1>15
  <2>5. Visits(codecs, o)
    BY <1>3, <1>15, <2>4 DEF HasCodec
  <2>6. Regains(values, codecs, decoders, o)
    BY <1>7, <1>15
  <2> HIDE DEF o
  <2>7. ASSUME NEW i \in DOMAIN parts
        PROVE  DecodedRange(decoders, o, Output(parts[i])) = parts[i]
    <3>0. parts # << >>
      <4>1. DOMAIN << >> = {}
        OBVIOUS
      <4> QED
        BY <4>1, Zenon
    <3>1. PICK x : RangeValue(x, AllOf(values, o)) /\ parts = <<x>>
      BY <2>1, <3>0
    <3>2. parts[i] = x /\ parts[i] \in SaneValues(K)
      BY <2>3, <3>1
    <3>3. \A y \in AllOf(values, o) : y \in SaneValues(K) => Returns(decoders, o, y)
      BY <2>5, <2>6 DEF Regains
    <3> QED
      BY <3>1, <3>2, <3>3, RangeReturns
  <2>8. Output(v).t = "braces" /\ Output(v).parts = OutputsOf(parts)
    BY <2>2, OutputMade, FormIs
  <2>9. DecodedRanges(decoders, o, OutputsOf(parts)) = parts
    BY <2>3, <2>7, RangesReturn
  <2>10. r = Decoded("multirange", parts, << >>)
    BY <1>4, <1>15, <2>4, <2>8, <2>9 DEF IsDecoded
  <2>11. Decoded("multirange", parts, << >>) = v
    BY <2>1, WholeMade
  <2> QED
    BY <2>8, <2>10, <2>11
<1> QED
  BY <1>1, <1>8, <1>9, <1>10, <1>11, <1>12, <1>13, <1>14, <1>15 DEF DefinitionKinds

(* The types in V have the same definitions in the directory as in defs,   *)
(* and so does what they are made of.                                      *)
Same(defs, cat, V) ==
    \A o \in V : /\ o \in DOMAIN defs /\ o \in DOMAIN cat.types
                 /\ cat.types[o] = defs[o] /\ Described(defs[o])
                 /\ Range(defs[o].deps) \subseteq V

RegainsUpTo(defs, cat, V, n) ==
    \A o \in V : \A m \in Nat :
        Regains(ValueSetsUpTo(defs, m), CodecsUpTo(cat, n), DecodersUpTo(cat, n), o)

LEMMA RegainsUpToNext ==
    ASSUME NEW defs, NEW cat, NEW V, Same(defs, cat, V), NEW n \in Nat,
           RegainsUpTo(defs, cat, V, n)
    PROVE  RegainsUpTo(defs, cat, V, n + 1)
<1> DEFINE codecs == CodecsUpTo(cat, n)
           decoders == DecodersUpTo(cat, n)
           codecs2 == CodecsUpTo(cat, n + 1)
           decoders2 == DecodersUpTo(cat, n + 1)
<1>1. codecs2 = [o \in DOMAIN cat.types |-> Codec(cat, o, codecs)]
  BY CodecsNext DEF Codecs
<1>2. /\ DOMAIN decoders2 = DOMAIN cat.types
      /\ \A o \in DOMAIN cat.types : \A t \in SaneTexts(K) :
            decoders2[o][t] = DecodedOf(cat, o, t, decoders)
  BY DecodersAt
<1>3. \A o \in V : \A m \in Nat : Regains(ValueSetsUpTo(defs, m), codecs, decoders, o)
  BY DEF RegainsUpTo
<1> HIDE DEF codecs, decoders, codecs2, decoders2
<1>4. ASSUME NEW o \in V, NEW m \in Nat, Visits(codecs2, o),
             NEW x \in AllOf(ValueSetsUpTo(defs, m), o), x \in SaneValues(K)
      PROVE  Returns(decoders2, o, x) /\ Output(x).t # "null"
  <2>0. /\ o \in DOMAIN cat.types /\ o \in DOMAIN defs
        /\ cat.types[o] = defs[o] /\ Described(defs[o]) /\ Range(defs[o].deps) \subseteq V
    BY DEF Same
  <2>1. Codec(cat, o, codecs)
    BY <1>1, <1>4, <2>0, Zenon DEF Visits
  <2>2. m # 0
    <3> SUFFICES ASSUME m = 0 PROVE FALSE
      OBVIOUS
    <3>1. DOMAIN << >> = {}
      OBVIOUS
    <3>2. DOMAIN ValueSetsUpTo(defs, 0) = {}
      BY <3>1, ValueSetsNext, Zenon
    <3> QED
      BY <3>2 DEF AllOf
  <2> DEFINE j == m - 1
             values == ValueSetsUpTo(defs, j)
  <2>3. j \in Nat /\ m = j + 1
    BY <2>2
  <2> HIDE DEF j
  <2>4. ValueSetsUpTo(defs, m) = [p \in DOMAIN defs |-> ValuesOf(defs, p, values)]
    BY <2>3, ValueSetsNext DEF ValueSets
  <2>5. \A p \in V : Regains(values, codecs, decoders, p)
    BY <1>3, <2>3
  <2> HIDE DEF values
  <2>6. x \in ValuesOf(defs, o, values)
    BY <2>0, <2>4 DEF AllOf
  <2>7. \A p \in Range(defs[o].deps) : Regains(values, codecs, decoders, p) /\ cat.types[p] = defs[p]
    BY <2>0, <2>5 DEF Same
  <2>8. ASSUME defs[o].kind = "multirange"
        PROVE  Regains(values, codecs, decoders, defs[defs[o].deps[1]].deps[1])
    <3> DEFINE p == defs[o].deps[1]
    <3>1. cat.types[p].kind = "range"
      BY <2>0, <2>1, <2>8, Zenon DEF Codec
    <3>2. p \in Range(defs[o].deps)
      BY <2>0, <2>8, OneLong DEF Described, Range
    <3> HIDE DEF p
    <3>3. defs[p].kind = "range" /\ Described(defs[p]) /\ Range(defs[p].deps) \subseteq V
      BY <2>0, <3>1, <3>2 DEF Same
    <3>4. defs[p].deps[1] \in Range(defs[p].deps)
      BY <3>3, OneLong DEF Described, Range
    <3> QED
      BY <2>5, <3>3, <3>4 DEF p
  <2>9. DecodedOf(cat, o, Output(x), decoders) = x /\ Output(x).t # "null"
    BY <1>4, <2>0, <2>1, <2>6, <2>7, <2>8, RegainsNext
  <2>10. Output(x) \in SaneTexts(K)
    BY <1>4, TextsSaneAll DEF TextsSane
  <2>11. decoders2[o][Output(x)] = x /\ o \in DOMAIN decoders2
    BY <1>2, <2>0, <2>9, <2>10
  <2> QED
    BY <2>9, <2>11, NullIs DEF Returns, DecodeOne
<1>5. \A o \in V : \A m \in Nat : Regains(ValueSetsUpTo(defs, m), codecs2, decoders2, o)
  BY <1>4 DEF Regains
<1> QED
  BY <1>5 DEF RegainsUpTo, codecs2, decoders2

LEMMA RegainsAll ==
    ASSUME NEW defs, NEW cat, NEW V, Same(defs, cat, V)
    PROVE  \A n \in Nat : RegainsUpTo(defs, cat, V, n)
<1> DEFINE S == {n \in Nat : RegainsUpTo(defs, cat, V, n)}
<1>1. 0 \in S
  <2>1. DOMAIN << >> = {}
    OBVIOUS
  <2>2. DOMAIN CodecsUpTo(cat, 0) = {}
    BY <2>1, CodecsNext, Zenon
  <2> QED
    BY <2>2 DEF RegainsUpTo, Regains, Visits
<1>2. ASSUME NEW n \in Nat, n \in S PROVE n + 1 \in S
  BY <1>2, RegainsUpToNext
<1> HIDE DEF S
<1>3. \A n \in Nat : n \in S
  BY <1>1, <1>2, SetInduction
<1> QED
  BY <1>3 DEF S

(* What is decoded by the definitions a value was written with is the      *)
(* value.                                                                  *)
LEMMA RoundTrip ==
    ASSUME NEW defs, NEW cat, NEW V, Same(defs, cat, V), NEW oid \in V,
           DOMAIN defs \subseteq Oids, HasSemanticCodec(cat, oid),
           NEW v \in Values(defs, oid), v \in SaneValues(K),
           DOMAIN cat.types \subseteq Oids
    PROVE  DecodeCatalogValue(cat, oid, Output(v)) = v
<1> DEFINE n == Depth(cat.types)
           m == Depth(defs)
<1>1. n \in Nat /\ m \in Nat /\ n # 0 /\ m # 0
  BY DepthFitsAll DEF DepthFits, Same
<1>2. /\ oid \in DOMAIN cat.types /\ oid \in DOMAIN defs
      /\ CodecsUpTo(cat, n)[oid] /\ v \in ValueSetsUpTo(defs, m)[oid]
      /\ DecodeCatalogValue(cat, oid, Output(v)) = DecodersUpTo(cat, n)[oid][Output(v)]
  BY Zenon DEF HasSemanticCodec, CodecsUpTo, Values, ValueSetsUpTo, DecodeCatalogValue, DecodersUpTo, Same
<1> HIDE DEF n, m
<1>3. \E k \in Nat : n = k + 1
  <2>1. n - 1 \in Nat /\ n = (n - 1) + 1
    BY <1>1
  <2> QED
    BY <2>1
<1>4. \E k \in Nat : m = k + 1
  <2>1. m - 1 \in Nat /\ m = (m - 1) + 1
    BY <1>1
  <2> QED
    BY <2>1
<1>5. oid \in DOMAIN CodecsUpTo(cat, n) /\ oid \in DOMAIN DecodersUpTo(cat, n)
  <2>1. PICK k \in Nat : n = k + 1
    BY <1>3
  <2>2. DOMAIN CodecsUpTo(cat, k + 1) = DOMAIN cat.types
    BY CodecsNext DEF Codecs
  <2>3. DOMAIN DecodersUpTo(cat, k + 1) = DOMAIN cat.types
    BY DecodersAt
  <2> QED
    BY <1>2, <2>1, <2>2, <2>3
<1>6. oid \in DOMAIN ValueSetsUpTo(defs, m)
  <2>1. PICK k \in Nat : m = k + 1
    BY <1>4
  <2>2. DOMAIN ValueSetsUpTo(defs, k + 1) = DOMAIN defs
    BY ValueSetsNext DEF ValueSets
  <2> QED
    BY <1>2, <2>1, <2>2
<1>7. Visits(CodecsUpTo(cat, n), oid) /\ v \in AllOf(ValueSetsUpTo(defs, m), oid)
  BY <1>2, <1>5, <1>6, Zenon DEF Visits, AllOf
<1>8. Regains(ValueSetsUpTo(defs, m), CodecsUpTo(cat, n), DecodersUpTo(cat, n), oid)
  BY <1>1, RegainsAll DEF RegainsUpTo
<1>9. Returns(DecodersUpTo(cat, n), oid, v) /\ Output(v).t # "null"
  BY <1>7, <1>8 DEF Regains
<1> QED
  BY <1>2, <1>5, <1>9, NullIs DEF Returns, DecodeOne

-----------------------------------------------------------------------------
(* Definitions with the same closure are the same.                         *)

LEMMA SameClosure ==
    ASSUME NEW defs, NEW cat, NEW oid, DOMAIN defs \subseteq Oids, DOMAIN cat.types \subseteq Oids,
           \A o \in DOMAIN defs : Described(defs[o]),
           DefinitionClosure(defs, oid) # NoClosure,
           DefinitionClosure(defs, oid) = DefinitionClosure(cat.types, oid)
    PROVE  \E V : oid \in V /\ Same(defs, cat, V)
<1> DEFINE V == Visit(ClosureDependencies(defs), {oid})
           W == Visit(ClosureDependencies(cat.types), {oid})
           list == DefinitionClosure(defs, oid).types
<1>1. /\ IsFiniteSet(DOMAIN defs) /\ DOMAIN defs \subseteq Nat
      /\ IsFiniteSet(DOMAIN cat.types) /\ DOMAIN cat.types \subseteq Nat
  BY OidsAssumption, FS_Subset
<1>2. /\ oid \in V /\ V \subseteq DOMAIN defs
      /\ \A o \in V : Range(defs[o].deps) \subseteq V
      /\ \A o \in V : <<o, defs[o]>> \in Range(list)
  <2> HIDE DEF V
  <2> QED
    BY <1>1, ClosureHas DEF V
<1>3. W \subseteq DOMAIN cat.types
      /\ \A e \in Range(list) : \E o \in W : e = <<o, cat.types[o]>>
  <2> DEFINE types2 == cat.types
  <2>1. DefinitionClosure(types2, oid) # NoClosure /\ list = DefinitionClosure(types2, oid).types
        /\ IsFiniteSet(DOMAIN types2) /\ DOMAIN types2 \subseteq Nat
        /\ W = Visit(ClosureDependencies(types2), {oid})
    BY <1>1
  <2> HIDE DEF W, list, types2
  <2>2. W \subseteq DOMAIN types2
        /\ \A e \in Range(list) : \E o \in W : e = <<o, types2[o]>>
    BY <2>1, ClosureHas
  <2> QED
    BY <2>2 DEF types2
<1> HIDE DEF V, W, list
<1>4. ASSUME NEW o \in V PROVE o \in DOMAIN cat.types /\ cat.types[o] = defs[o]
  <2>1. PICK p \in W : <<o, defs[o]>> = <<p, cat.types[p]>>
    BY <1>2, <1>3
  <2>2. o = p /\ defs[o] = cat.types[p]
    BY <2>1
  <2> QED
    BY <1>3, <2>2
<1>5. Same(defs, cat, V)
  BY <1>2, <1>4 DEF Same
<1> QED
  BY <1>2, <1>5

-----------------------------------------------------------------------------
(* A row of a type that is defined as it was is delivered as it was        *)
(* written.                                                                *)

Mapped ==
    /\ step = "streaming" /\ ~ mapping.representation => HasSemanticCodec(catalog, column)
    /\ delivered # Nothing => step \in {"streaming", "refused"}

Faithful ==
    delivered # Nothing /\ delivered.row.closure = DefinitionClosure(catalog.types, column) =>
        delivered.result = IF mapping.representation THEN Envelope(delivered.row.value)
                           ELSE delivered.row.value

LEMMA MappedKept ==
    ASSUME Mapped, Evidence, [Next]_vars
    PROVE  Mapped'
<1>1. CASE CreateType
  BY <1>1 DEF CreateType, Mapped
<1>2. CASE AlterType
  BY <1>2 DEF AlterType, Mapped
<1>3. CASE CreateTable
  BY <1>3 DEF CreateTable, Mapped, Evidence
<1>4. CASE WriteRow
  BY <1>4 DEF WriteRow, Mapped
<1>5. CASE LoadTypes
  BY <1>5 DEF LoadTypes, Mapped
<1>6. CASE LoadLabels
  BY <1>6 DEF LoadLabels, Mapped
<1>7. CASE LoadFields
  BY <1>7 DEF LoadFields, Mapped
<1>8. CASE LoadColumn
  <2> DEFINE logical == LogicalTypeWithCatalog(catalog, NativeType(types, column))
             closure == DefinitionClosure(catalog.types, column)
             captured == CapturesSourceRepresentation(catalog, column, logical)
  <2>0. step = "column" /\ UNCHANGED <<catalog, column, delivered>>
    BY <1>8 DEF LoadColumn
  <2>1. CASE Refused(logical, closure)
    <3>1. step' = "refused"
      BY <1>8, <2>1 DEF LoadColumn
    <3> QED
      BY <2>0, <3>1 DEF Mapped
  <2>2. CASE ~ Refused(logical, closure)
    <3>1. step' = "streaming"
          /\ mapping' = [logical |-> logical, closure |-> closure, representation |-> captured]
      BY <1>8, <2>2 DEF LoadColumn
    <3>2. ~ captured => HasSemanticCodec(catalog, column)
      BY Zenon DEF CapturesSourceRepresentation
    <3> HIDE DEF logical, closure, captured
    <3>3. mapping'.representation = captured
      BY <3>1
    <3>4. ~ mapping'.representation => HasSemanticCodec(catalog, column)
      BY <3>2, <3>3, Zenon
    <3>5. delivered = Nothing
      BY <2>0 DEF Mapped
    <3> QED
      BY <2>0, <3>4, <3>5, Zenon DEF Mapped
  <2> QED
    BY <2>1, <2>2
<1>9. CASE Deliver
  BY <1>9 DEF Deliver, Mapped
<1>10. CASE Restart
  BY <1>10 DEF Restart, Mapped
<1>11. CASE UNCHANGED vars
  BY <1>11 DEF vars, Mapped
<1> QED
  BY <1>1, <1>2, <1>3, <1>4, <1>5, <1>6, <1>7, <1>8, <1>9, <1>10, <1>11 DEF Next

LEMMA ImageReturns ==
    ASSUME Rows, Directories, Mapped, Evidence, step = "streaming", row # NoRow,
           row.closure = DefinitionClosure(catalog.types, column)
    PROVE  Image = IF mapping.representation THEN Envelope(row.value) ELSE row.value
<1>1. CASE mapping.representation
  BY <1>1 DEF Image
<1>2. CASE ~ mapping.representation
  <2>1. PICK defs : Written(row, column, defs)
    BY DEF Rows
  <2>2. row.value \in SaneValues(K)
    BY <2>1, WrittenSane
  <2>3. /\ DefinitionClosure(defs, column) # NoClosure
        /\ DefinitionClosure(defs, column) = DefinitionClosure(catalog.types, column)
    BY <2>1 DEF Written, Evidence
  <2>4. PICK V : column \in V /\ Same(defs, catalog, V)
    BY <2>1, <2>3, SameClosure DEF Written, Directories
  <2>5. HasSemanticCodec(catalog, column)
    BY <1>2 DEF Mapped
  <2>6. DecodeCatalogValue(catalog, column, Output(row.value)) = row.value
    BY <2>1, <2>2, <2>4, <2>5, RoundTrip DEF Written, Directories
  <2> QED
    BY <1>2, <2>6 DEF Image
<1> QED
  BY <1>1, <1>2

LEMMA FaithfulKept ==
    ASSUME Faithful, Rows, Directories, Mapped, Evidence, [Next]_vars
    PROVE  Faithful'
<1>1. CASE CreateType
  BY <1>1 DEF CreateType, Faithful
<1>2. CASE AlterType
  BY <1>2 DEF AlterType, Faithful
<1>3. CASE CreateTable
  BY <1>3 DEF CreateTable, Faithful, Rows
<1>4. CASE WriteRow
  BY <1>4 DEF WriteRow, Faithful
<1>5. CASE LoadTypes
  BY <1>5 DEF LoadTypes, Faithful, Mapped
<1>6. CASE LoadLabels
  BY <1>6 DEF LoadLabels, Faithful, Mapped
<1>7. CASE LoadFields
  BY <1>7 DEF LoadFields, Faithful, Mapped
<1>8. CASE LoadColumn
  BY <1>8 DEF LoadColumn, Faithful, Mapped
<1>9. CASE Deliver
  <2>1. step = "streaming" /\ row # NoRow /\ delivered' = [row |-> row, result |-> Image]
        /\ UNCHANGED <<column, catalog, mapping>>
    BY <1>9 DEF Deliver
  <2>2. delivered'.row = row /\ delivered'.result = Image
    BY <2>1
  <2>3. row.closure = DefinitionClosure(catalog.types, column) =>
           Image = IF mapping.representation THEN Envelope(row.value) ELSE row.value
    BY <2>1, ImageReturns
  <2> QED
    BY <2>1, <2>2, <2>3 DEF Faithful
<1>10. CASE Restart
  BY <1>10 DEF Restart, Faithful
<1>11. CASE UNCHANGED vars
  BY <1>11 DEF vars, Faithful
<1> QED
  BY <1>1, <1>2, <1>3, <1>4, <1>5, <1>6, <1>7, <1>8, <1>9, <1>10, <1>11 DEF Next

(* A row whose type is defined in the directory as it was when the row was *)
(* written is delivered, and as the value that was written: what types.rs  *)
(* decodes from the server's text is what the server wrote.                *)
THEOREM UnchangedIsDeliveredHolds == Spec => []UnchangedIsDelivered
<1> DEFINE Inv == Directories /\ Evidence /\ Descriptions /\ Rows /\ Mapped /\ Faithful
<1>1. Init => Inv
  <2>1. Init => Mapped /\ Faithful
    BY DEF Init, Mapped, Faithful
  <2> QED
    BY <2>1, InitHolds
<1>2. Inv /\ [Next]_vars => Inv'
  BY DirectoriesKept, EvidenceKept, DescriptionsKept, RowsKept, MappedKept, FaithfulKept
<1>3. Inv => UnchangedIsDelivered
  BY DEF Faithful, UnchangedIsDelivered
<1> QED
  BY <1>1, <1>2, <1>3, PTL DEF Spec

-----------------------------------------------------------------------------
(* What a type is mapped to.                                               *)

LogicalTypesUpTo(cat, n) == Iterate(LAMBDA below : LogicalTypes(cat, below), << >>, n)
PairsUpTo(p, n) == Iterate(WithParts, {p}, n)

LEMMA LogicalTypesNext ==
    ASSUME NEW cat
    PROVE  /\ LogicalTypesUpTo(cat, 0) = << >>
           /\ \A n \in Nat :
                LogicalTypesUpTo(cat, n + 1) = LogicalTypes(cat, LogicalTypesUpTo(cat, n))
<1> DEFINE it[k \in Nat] == IF k = 0 THEN << >> ELSE LogicalTypes(cat, it[k - 1])
<1>1. PICK g : Iteration(g, "logical types", cat, << >>)
  BY IterationExists
<1>2. g = [k \in Nat |-> IF k = 0 THEN << >> ELSE LogicalTypes(cat, g[k - 1])]
  BY <1>1 DEF Iteration, Step
<1>3. it = [k \in Nat |-> IF k = 0 THEN << >> ELSE LogicalTypes(cat, it[k - 1])]
  BY <1>2
<1>4. \A n \in Nat : LogicalTypesUpTo(cat, n) = it[n]
  BY DEF LogicalTypesUpTo, Iterate
<1> HIDE DEF it
<1> QED
  BY <1>3, <1>4

LEMMA PairsNext ==
    ASSUME NEW p
    PROVE  /\ PairsUpTo(p, 0) = {p}
           /\ \A n \in Nat : PairsUpTo(p, n + 1) = WithParts(PairsUpTo(p, n))
<1> DEFINE it[k \in Nat] == IF k = 0 THEN {p} ELSE WithParts(it[k - 1])
<1>1. PICK g : Iteration(g, "pairs", 0, {p})
  BY IterationExists
<1>2. g = [k \in Nat |-> IF k = 0 THEN {p} ELSE WithParts(g[k - 1])]
  BY <1>1 DEF Iteration, Step
<1>3. it = [k \in Nat |-> IF k = 0 THEN {p} ELSE WithParts(it[k - 1])]
  BY <1>2
<1>4. \A n \in Nat : PairsUpTo(p, n) = it[n]
  BY DEF PairsUpTo, Iterate
<1> HIDE DEF it
<1>5. it[0] = {p}
  BY <1>3
<1>6. ASSUME NEW n \in Nat PROVE PairsUpTo(p, n + 1) = WithParts(PairsUpTo(p, n))
  <2>1. n + 1 \in Nat /\ n + 1 # 0 /\ (n + 1) - 1 = n
    OBVIOUS
  <2>2. it[n + 1] = IF n + 1 = 0 THEN {p} ELSE WithParts(it[(n + 1) - 1])
    BY <1>3, <2>1, Zenon
  <2>3. it[n + 1] = WithParts(it[n])
    BY <2>1, <2>2
  <2> QED
    BY <1>4, <2>1, <2>3
<1> QED
  BY <1>4, <1>5, <1>6

(* What the mapping makes of type o in some round.                         *)
Scalar(t) == Logical(t, << >>, << >>)
InRound(cat, o, l) ==
    l # Unmapped /\ \E n \in Nat : o \in DOMAIN LogicalTypesUpTo(cat, n) /\ l = LogicalTypesUpTo(cat, n)[o]

(* What it makes of o when a column's declaration names o, or o's element. *)
Named(cat, o, l) ==
    \/ InRound(cat, o, l)
    \/ /\ o \in DOMAIN cat.types
       /\ cat.types[o].kind = "builtin" /\ l = Scalar("value")
    \/ /\ o \in DOMAIN cat.types
       /\ cat.types[o].kind = "enum" /\ l = Scalar("enum")

MappedTo(cat, o, l) ==
    \/ Named(cat, o, l)
    \/ /\ o \in DOMAIN cat.types /\ cat.types[o].kind = "array"
       /\ \E e : Named(cat, cat.types[o].deps[1], e) /\ l = Logical("array", <<e>>, << >>)

PartsMapped(cat, deps, parts) ==
    /\ DOMAIN parts = DOMAIN deps
    /\ \A i \in DOMAIN deps : Named(cat, deps[i], parts[i])

(* What that says, by the kind of the type.                                *)
IsMapped(l, cat, d) ==
    CASE d.kind = "pseudo" -> FALSE
      [] d.kind \in {"builtin", "extension"} -> l = Scalar("value")
      [] d.kind = "enum" -> l = Scalar("enum")
      [] d.kind \in {"domain", "composite", "array", "range"} ->
           /\ l.t = d.kind /\ l.names = d.fields
           /\ PartsMapped(cat, d.deps, l.parts)
      [] d.kind = "multirange" ->
           /\ l.t = "multirange" /\ l.names = << >>
           /\ Named(cat, cat.types[d.deps[1]].deps[1], l.parts[1])

PartOf(below, o) == IF o \in DOMAIN below THEN below[o] ELSE Unmapped

LEMMA LogicalIs ==
    ASSUME NEW t, NEW parts, NEW names, NEW l, l = Logical(t, parts, names)
    PROVE  l.t = t /\ l.parts = parts /\ l.names = names
BY DEF Logical

LEMMA PartInRound ==
    ASSUME NEW cat, NEW n \in Nat, NEW o, PartOf(LogicalTypesUpTo(cat, n), o) # Unmapped
    PROVE  Named(cat, o, PartOf(LogicalTypesUpTo(cat, n), o))
BY DEF PartOf, Named, InRound

LEMMA InRoundIs ==
    ASSUME NEW cat, NEW o, NEW l, InRound(cat, o, l), l # Raw,
           \A p \in DOMAIN cat.types : Described(cat.types[p])
    PROVE  o \in DOMAIN cat.types /\ IsMapped(l, cat, cat.types[o])
<1> DEFINE d == cat.types[o]
<1>1. PICK m \in Nat : o \in DOMAIN LogicalTypesUpTo(cat, m) /\ l = LogicalTypesUpTo(cat, m)[o]
  BY DEF InRound
<1>2. m # 0
  <2>1. DOMAIN << >> = {}
    OBVIOUS
  <2> QED
    BY <1>1, <2>1, LogicalTypesNext, Zenon
<1>3. PICK n \in Nat : m = n + 1
  <2>1. m - 1 \in Nat /\ m = (m - 1) + 1
    BY <1>2
  <2> QED
    BY <2>1
<1> DEFINE below == LogicalTypesUpTo(cat, n)
<1>4. LogicalTypesUpTo(cat, m) = [p \in DOMAIN cat.types |-> LogicalOf(cat, p, below)]
  BY <1>3, LogicalTypesNext DEF LogicalTypes
<1>5. ASSUME NEW p, PartOf(below, p) # Unmapped PROVE Named(cat, p, PartOf(below, p))
  BY <1>5, PartInRound
<1> HIDE DEF below
<1>6. o \in DOMAIN cat.types /\ l = LogicalOf(cat, o, below)
  BY <1>1, <1>4
<1>7. Described(d) /\ l # Unmapped /\ d.kind \in DefinitionKinds
  BY <1>6 DEF Described, InRound
<1> DEFINE parts == [i \in DOMAIN d.deps |-> PartOf(below, d.deps[i])]
<1>8. CASE d.kind \in {"domain", "composite", "array", "range"}
  <2>1. /\ Unmapped \notin Range(parts)
        /\ l = Logical(d.kind, parts, d.fields)
    BY <1>6, <1>7, <1>8 DEF LogicalOf, PartOf
  <2>2. \A i \in DOMAIN d.deps : parts[i] # Unmapped
    BY <2>1 DEF Range
  <2>3. PartsMapped(cat, d.deps, parts)
    BY <1>5, <2>2 DEF PartsMapped
  <2> HIDE DEF parts, d
  <2>4. l.t = d.kind /\ l.parts = parts /\ l.names = d.fields
    BY <2>1, LogicalIs
  <2>5. IsMapped(l, cat, d)
    BY <1>8, <2>3, <2>4 DEF IsMapped
  <2> QED
    BY <1>6, <2>5 DEF d
<1>9. CASE d.kind = "multirange"
  <2> DEFINE e == PartOf(below, cat.types[d.deps[1]].deps[1])
  <2>1. e # Unmapped /\ l = Logical("multirange", <<e>>, << >>)
    BY <1>6, <1>7, <1>9 DEF LogicalOf, PartOf
  <2>2. Named(cat, cat.types[d.deps[1]].deps[1], e)
    BY <1>5, <2>1
  <2> HIDE DEF e, d
  <2>3. l.t = "multirange" /\ l.parts = <<e>> /\ l.names = << >>
    BY <2>1, LogicalIs
  <2>4. l.parts[1] = e
    BY <2>3
  <2>5. IsMapped(l, cat, d)
    BY <1>9, <2>2, <2>3, <2>4 DEF IsMapped
  <2> QED
    BY <1>6, <2>5 DEF d
<1>10. CASE d.kind \in {"pseudo", "builtin", "enum", "extension"}
  <2>1. IsMapped(l, cat, d)
    BY <1>6, <1>7, <1>10 DEF LogicalOf, IsMapped, Scalar
  <2> QED
    BY <1>6, <2>1
<1> QED
  BY <1>7, <1>8, <1>9, <1>10 DEF DefinitionKinds

LEMMA MappedIs ==
    ASSUME NEW cat, NEW o, NEW l, MappedTo(cat, o, l), l # Raw,
           \A p \in DOMAIN cat.types : Described(cat.types[p])
    PROVE  o \in DOMAIN cat.types /\ IsMapped(l, cat, cat.types[o])
<1>1. CASE InRound(cat, o, l)
  BY <1>1, InRoundIs
<1>2. CASE /\ o \in DOMAIN cat.types
           /\ cat.types[o].kind = "builtin" /\ l = Scalar("value")
  BY <1>2 DEF IsMapped
<1>3. CASE /\ o \in DOMAIN cat.types
           /\ cat.types[o].kind = "enum" /\ l = Scalar("enum")
  BY <1>3 DEF IsMapped
<1>4. CASE /\ o \in DOMAIN cat.types /\ cat.types[o].kind = "array"
           /\ \E e : Named(cat, cat.types[o].deps[1], e) /\ l = Logical("array", <<e>>, << >>)
  <2> DEFINE d == cat.types[o]
  <2>1. PICK e : Named(cat, d.deps[1], e) /\ l = Logical("array", <<e>>, << >>)
    BY <1>4
  <2>2. d.kind = "array" /\ d.deps \in Seq(Nat) /\ Len(d.deps) = 1 /\ d.fields = << >>
    BY <1>4 DEF Described
  <2> HIDE DEF d
  <2>3. l.t = "array" /\ l.parts = <<e>> /\ l.names = << >>
    BY <2>1, LogicalIs
  <2>4. DOMAIN l.parts = 1..1 /\ DOMAIN d.deps = 1..1 /\ l.parts[1] = e
    BY <2>2, <2>3
  <2>5. PartsMapped(cat, d.deps, l.parts)
    BY <2>1, <2>4 DEF PartsMapped
  <2>6. IsMapped(l, cat, d)
    BY <2>2, <2>3, <2>5 DEF IsMapped
  <2> QED
    BY <1>4, <2>6 DEF d
<1> QED
  BY <1>1, <1>2, <1>3, <1>4 DEF MappedTo, Named

-----------------------------------------------------------------------------
(* What was decoded by a type, and the shape it has.                       *)

(* v was decoded with the decoder of o.                                    *)
Comes(cat, o, v) ==
    /\ o \in DOMAIN cat.types
    /\ \E n \in Nat : \E t \in SaneTexts(K) : v = DecodedOf(cat, o, t, DecodersUpTo(cat, n))

PartComes(cat, o, x) == x # Undecoded /\ (x = Null \/ Comes(cat, o, x))

(* What that says of v and its parts, by the kind of the type.             *)
IsFrom(v, cat, d) ==
    CASE d.kind = "pseudo" -> FALSE
      [] d.kind \in {"builtin", "extension"} -> v.t = "value" /\ v.names = << >> /\ v.parts = << >>
      [] d.kind = "enum" -> v.t = "enum" /\ v.names = << >> /\ v.parts = << >>
      [] d.kind \in {"domain", "array", "range"} ->
           /\ v.t = d.kind /\ v.names = << >>
           /\ \A i \in DOMAIN v.parts : PartComes(cat, d.deps[1], v.parts[i])
      [] d.kind = "composite" ->
           /\ v.t = "composite" /\ v.names = d.fields
           /\ DOMAIN v.parts = DOMAIN d.deps
           /\ \A i \in DOMAIN v.parts : PartComes(cat, d.deps[i], v.parts[i])
      [] d.kind = "multirange" ->
           /\ v.t = "multirange" /\ v.names = << >>
           /\ \A i \in DOMAIN v.parts : \A j \in DOMAIN v.parts[i].parts :
                PartComes(cat, cat.types[d.deps[1]].deps[1], v.parts[i].parts[j])

LEMMA OneComes ==
    ASSUME NEW cat, NEW n \in Nat, NEW o, NEW t, t = Null \/ t \in SaneTexts(K),
           DecodeOne(DecodersUpTo(cat, n), o, t) # Undecoded
    PROVE  PartComes(cat, o, DecodeOne(DecodersUpTo(cat, n), o, t))
<1> DEFINE below == DecodersUpTo(cat, n)
<1>1. CASE t = Null
  BY <1>1 DEF PartComes, DecodeOne
<1>2. CASE t # Null
  <2>1. o \in DOMAIN below /\ DecodeOne(below, o, t) = below[o][t]
    BY <1>2 DEF DecodeOne
  <2>2. n # 0
    <3>1. DOMAIN << >> = {}
      OBVIOUS
    <3> QED
      BY <2>1, <3>1, DecodersNext, Zenon
  <2>3. PICK k \in Nat : n = k + 1
    <3>1. n - 1 \in Nat /\ n = (n - 1) + 1
      BY <2>2
    <3> QED
      BY <3>1
  <2>4. /\ o \in DOMAIN cat.types
        /\ below[o][t] = DecodedOf(cat, o, t, DecodersUpTo(cat, k))
    BY <1>2, <2>1, <2>3, DecodersAt
  <2>5. Comes(cat, o, below[o][t])
    BY <1>2, <2>4 DEF Comes
  <2> QED
    BY <2>1, <2>5 DEF PartComes
<1> QED
  BY <1>1, <1>2

(* What is made of parts is what was decoded, or nothing.                  *)
LEMMA DecodedAs ==
    ASSUME NEW v, NEW t, NEW parts, NEW names, v = Decoded(t, parts, names), v # Undecoded
    PROVE  /\ v.t = t /\ v.parts = parts /\ v.names = names
           /\ \A i \in DOMAIN parts : parts[i] # Undecoded
<1>1. Undecoded \notin Range(parts) /\ v = Value(t, "", parts, names)
  BY DEF Decoded
<1> DEFINE w == Value(t, "", parts, names)
<1>2. v = w
  BY <1>1
<1>3. w.t = t /\ w.parts = parts /\ w.names = names
  BY DEF Value
<1> HIDE DEF w
<1>4. v.t = t /\ v.parts = parts /\ v.names = names
  BY <1>2, <1>3, Zenon
<1>5. \A i \in DOMAIN parts : parts[i] \in Range(parts)
  BY DEF Range
<1>6. \A i \in DOMAIN parts : parts[i] # Undecoded
  BY <1>1, <1>5, Zenon
<1> QED
  BY <1>4, <1>6

(* The parts of a text are texts or none.                                  *)
AreTexts(parts) == \A i \in DOMAIN parts : parts[i] = Null \/ parts[i] \in SaneTexts(K)

LEMMA FieldsCome ==
    ASSUME NEW cat, NEW n \in Nat, NEW deps, NEW texts, AreTexts(texts), NEW parts,
           parts = DecodedFields(DecodersUpTo(cat, n), deps, texts),
           \A i \in DOMAIN parts : parts[i] # Undecoded
    PROVE  DOMAIN parts = DOMAIN texts /\ \A i \in DOMAIN parts : PartComes(cat, deps[i], parts[i])
<1> DEFINE below == DecodersUpTo(cat, n)
<1>1. DOMAIN parts = DOMAIN texts
      /\ \A i \in DOMAIN parts : parts[i] = DecodeOne(below, deps[i], texts[i])
  BY DEF DecodedFields
<1> QED
  BY <1>1, OneComes DEF AreTexts

LEMMA PartsCome ==
    ASSUME NEW cat, NEW n \in Nat, NEW o, NEW texts, AreTexts(texts), NEW parts,
           parts = DecodedParts(DecodersUpTo(cat, n), o, texts),
           \A i \in DOMAIN parts : parts[i] # Undecoded
    PROVE  \A i \in DOMAIN parts : PartComes(cat, o, parts[i])
<1> DEFINE below == DecodersUpTo(cat, n)
<1>1. DOMAIN parts = DOMAIN texts
      /\ \A i \in DOMAIN parts : parts[i] = DecodeOne(below, o, texts[i])
  BY DEF DecodedParts
<1> QED
  BY <1>1, OneComes DEF AreTexts

LEMMA RangeComes ==
    ASSUME NEW cat, NEW n \in Nat, NEW o, NEW t \in SaneTexts(K), NEW v,
           v = DecodedRange(DecodersUpTo(cat, n), o, t), v # Undecoded
    PROVE  /\ v.t = "range" /\ v.names = << >>
           /\ \A i \in DOMAIN v.parts : PartComes(cat, o, v.parts[i])
<1> DEFINE parts == DecodedParts(DecodersUpTo(cat, n), o, t.parts)
<1>1. v = Decoded("range", parts, << >>)
  BY DEF DecodedRange
<1>2. AreTexts(t.parts)
  BY TextPartsSane DEF AreTexts
<1>3. (\A i \in DOMAIN parts : parts[i] # Undecoded) => \A i \in DOMAIN parts : PartComes(cat, o, parts[i])
  BY <1>2, PartsCome
<1> HIDE DEF parts
<1> QED
  BY <1>1, <1>3, DecodedAs

LEMMA LeafShaped ==
    ASSUME NEW v, NEW t, NEW s, v = Leaf(t, s)
    PROVE  v.t = t /\ v.names = << >> /\ v.parts = << >>
BY DEF Leaf, Value

LEMMA ComesIs ==
    ASSUME NEW cat, NEW o, NEW v, Comes(cat, o, v), v # Undecoded, Described(cat.types[o])
    PROVE  IsFrom(v, cat, cat.types[o])
<1> DEFINE d == cat.types[o]
<1>1. PICK n \in Nat : \E t \in SaneTexts(K) : v = DecodedOf(cat, o, t, DecodersUpTo(cat, n))
  BY DEF Comes
<1>2. PICK t \in SaneTexts(K) : v = DecodedOf(cat, o, t, DecodersUpTo(cat, n))
  BY <1>1
<1> DEFINE below == DecodersUpTo(cat, n)
<1>3. IsDecoded(v, cat, d, t, below) /\ d.kind \in DefinitionKinds
  BY <1>2, DecodedIs DEF Described
<1>4. d.deps \in Seq(Nat)
  BY DEF Described
<1>5. AreTexts(t.parts) /\ AreTexts(<<t>>)
  BY TextPartsSane DEF AreTexts
<1> HIDE DEF d
<1>6. CASE d.kind = "pseudo"
  BY <1>3, <1>6 DEF IsDecoded
<1>7. CASE d.kind \in {"builtin", "extension"}
  <2>1. v = Leaf("value", t.s)
    BY <1>3, <1>7 DEF IsDecoded
  <2> QED
    BY <1>7, <2>1, LeafShaped DEF IsFrom, d
<1>8. CASE d.kind = "enum"
  <2>1. v = Leaf("enum", t.s)
    BY <1>3, <1>8 DEF IsDecoded
  <2> QED
    BY <1>8, <2>1, LeafShaped DEF IsFrom, d
<1>9. CASE d.kind = "domain"
  <2> DEFINE x == DecodeOne(below, d.deps[1], t)
  <2>1. v = Decoded("domain", <<x>>, << >>)
    BY <1>3, <1>9 DEF IsDecoded
  <2>2. x # Undecoded => PartComes(cat, d.deps[1], x)
    BY OneComes
  <2> HIDE DEF x
  <2>3. v.t = "domain" /\ v.names = << >> /\ v.parts = <<x>> /\ x # Undecoded
    BY <2>1, DecodedAs
  <2>4. \A i \in DOMAIN v.parts : v.parts[i] = x
    BY <2>3
  <2> QED
    BY <1>9, <2>2, <2>3, <2>4 DEF IsFrom, d
<1>10. CASE d.kind = "array"
  <2> DEFINE parts == DecodedParts(below, d.deps[1], t.parts)
  <2>1. v = Decoded("array", parts, << >>)
    BY <1>3, <1>10 DEF IsDecoded
  <2>2. (\A i \in DOMAIN parts : parts[i] # Undecoded) =>
           \A i \in DOMAIN parts : PartComes(cat, d.deps[1], parts[i])
    BY <1>5, PartsCome
  <2> HIDE DEF parts
  <2>3. v.t = "array" /\ v.names = << >> /\ v.parts = parts
        /\ \A i \in DOMAIN parts : parts[i] # Undecoded
    BY <2>1, DecodedAs
  <2> QED
    BY <1>10, <2>2, <2>3 DEF IsFrom, d
<1>11. CASE d.kind = "range"
  <2>1. v = DecodedRange(below, d.deps[1], t)
    BY <1>3, <1>11 DEF IsDecoded
  <2>2. /\ v.t = "range" /\ v.names = << >>
        /\ \A i \in DOMAIN v.parts : PartComes(cat, d.deps[1], v.parts[i])
    BY <2>1, RangeComes
  <2> QED
    BY <1>11, <2>2 DEF IsFrom, d
<1>12. CASE d.kind = "composite"
  <2> DEFINE texts == RecordParts(d, t)
             parts == DecodedFields(below, d.deps, texts)
  <2>1. v = Decoded("composite", parts, d.fields) /\ Len(texts) = Len(d.deps)
    BY <1>3, <1>12 DEF IsDecoded
  <2>2. AreTexts(texts) /\ DOMAIN texts = 1..Len(texts)
    <3>1. CASE texts = t.parts
      BY <1>5, <3>1, TextPartsSane
    <3>2. CASE texts = <<Null>>
      BY <3>2 DEF AreTexts
    <3> QED
      BY <3>1, <3>2 DEF RecordParts
  <2> HIDE DEF texts
  <2>3. (\A i \in DOMAIN parts : parts[i] # Undecoded) =>
           DOMAIN parts = DOMAIN texts /\ \A i \in DOMAIN parts : PartComes(cat, d.deps[i], parts[i])
    BY <2>2, FieldsCome
  <2> HIDE DEF parts
  <2>4. v.t = "composite" /\ v.names = d.fields /\ v.parts = parts
        /\ \A i \in DOMAIN parts : parts[i] # Undecoded
    BY <2>1, DecodedAs
  <2>5. DOMAIN d.deps = 1..Len(d.deps)
    BY <1>4
  <2> QED
    BY <1>12, <2>1, <2>2, <2>3, <2>4, <2>5 DEF IsFrom, d
<1>13. CASE d.kind = "multirange"
  <2> DEFINE p == cat.types[d.deps[1]].deps[1]
             parts == DecodedRanges(below, p, t.parts)
  <2>1. v = Decoded("multirange", parts, << >>)
    BY <1>3, <1>13 DEF IsDecoded
  <2>2. DOMAIN parts = DOMAIN t.parts
        /\ \A i \in DOMAIN parts : parts[i] = DecodedRange(below, p, t.parts[i])
    BY DEF DecodedRanges
  <2>3. \A i \in DOMAIN t.parts : t.parts[i] \in SaneTexts(K)
    BY TextPartsSane
  <2> HIDE DEF parts, p
  <2>4. v.t = "multirange" /\ v.names = << >> /\ v.parts = parts
        /\ \A i \in DOMAIN parts : parts[i] # Undecoded
    BY <2>1, DecodedAs
  <2>5. ASSUME NEW i \in DOMAIN parts
        PROVE  \A j \in DOMAIN parts[i].parts : PartComes(cat, p, parts[i].parts[j])
    <3>1. parts[i] = DecodedRange(below, p, t.parts[i]) /\ parts[i] # Undecoded
          /\ t.parts[i] \in SaneTexts(K)
      BY <2>2, <2>3, <2>4
    <3> QED
      BY <3>1, RangeComes
  <2> QED
    BY <1>13, <2>4, <2>5 DEF IsFrom, d, p
<1> QED
  BY <1>3, <1>6, <1>7, <1>8, <1>9, <1>10, <1>11, <1>12, <1>13 DEF DefinitionKinds

-----------------------------------------------------------------------------
(* A value decoded by a type conforms to what the type was mapped to.      *)

(* v was decoded by the type that l was made of, or need not have been.    *)
Good(cat, v, l) ==
    \/ v = Null
    \/ l = Raw
    \/ v # Undecoded /\ \E o : MappedTo(cat, o, l) /\ Comes(cat, o, v)

GoodPairs(cat, pairs) == \A p \in pairs : Good(cat, p[1], p[2])

LEMMA PartGood ==
    ASSUME NEW cat, NEW o, NEW x, NEW l, PartComes(cat, o, x), Named(cat, o, l)
    PROVE  Good(cat, x, l)
BY DEF PartComes, Good, MappedTo

(* What one part after another is compared with.                           *)
PartType(v, l, i) == l.parts[IF v.t = "composite" THEN i ELSE 1]

LEMMA ConformedPartsAre ==
    ASSUME NEW p, NEW q \in ConformedParts(p)
    PROVE  /\ p[2] # Raw /\ Shaped(p[1], p[2])
           /\ p[1].t # "multirange" =>
                \E i \in DOMAIN p[1].parts : q = <<p[1].parts[i], PartType(p[1], p[2], i)>>
           /\ p[1].t = "multirange" =>
                \E i \in DOMAIN p[1].parts : \E j \in DOMAIN p[1].parts[i].parts :
                    q = <<p[1].parts[i].parts[j], PartType(p[1], p[2], 1)>>
<1>1. CASE p[2] = Raw \/ ~ Shaped(p[1], p[2])
  <2>1. ConformedParts(p) = {}
    BY <1>1, Zenon DEF ConformedParts
  <2> QED
    BY <2>1
<1>2. CASE p[2] # Raw /\ Shaped(p[1], p[2]) /\ p[1].t = "multirange"
  BY <1>2 DEF ConformedParts, PartType
<1>3. CASE p[2] # Raw /\ Shaped(p[1], p[2]) /\ p[1].t # "multirange"
  BY <1>3 DEF ConformedParts, PartType
<1> QED
  BY <1>1, <1>2, <1>3

LEMMA GoodShaped ==
    ASSUME NEW cat, \A o \in DOMAIN cat.types : Described(cat.types[o]),
           NEW p, Good(cat, p[1], p[2])
    PROVE  ConformsOne(p)
<1>1. CASE p[1] = Null \/ p[2] = Raw
  BY <1>1 DEF ConformsOne
<1>2. CASE p[1] # Null /\ p[2] # Raw
  <2> DEFINE v == p[1]
             l == p[2]
  <2>1. PICK o : MappedTo(cat, o, l) /\ Comes(cat, o, v) /\ v # Undecoded
    BY <1>2 DEF Good
  <2> DEFINE d == cat.types[o]
  <2>2. IsMapped(l, cat, d) /\ Described(d)
    BY <1>2, <2>1, MappedIs
  <2>3. IsFrom(v, cat, d)
    BY <2>1, <2>2, ComesIs
  <2>4. ConformsOne(p) <=> (v = Null \/ l = Raw \/ (v.t # "envelope" /\ v.t = l.t /\ v.names = l.names))
    BY DEF ConformsOne, Shaped
  <2>5. d.kind \in DefinitionKinds /\ (d.kind # "composite" => d.fields = << >>)
    BY <2>2 DEF Described
  <2>6. ASSUME NEW t, l = Scalar(t) PROVE l.t = t /\ l.names = << >>
    BY <2>6, LogicalIs DEF Scalar
  <2> HIDE DEF v, l, d
  <2>7. CASE d.kind \in {"pseudo", "builtin", "extension", "enum"}
    BY <2>2, <2>3, <2>4, <2>6, <2>7 DEF IsMapped, IsFrom
  <2>8. CASE d.kind \in {"domain", "array", "range"}
    BY <2>2, <2>3, <2>4, <2>5, <2>8 DEF IsMapped, IsFrom
  <2>9. CASE d.kind = "composite"
    BY <2>2, <2>3, <2>4, <2>9 DEF IsMapped, IsFrom
  <2>10. CASE d.kind = "multirange"
    BY <2>2, <2>3, <2>4, <2>10 DEF IsMapped, IsFrom
  <2> QED
    BY <2>5, <2>7, <2>8, <2>9, <2>10 DEF DefinitionKinds
<1> QED
  BY <1>1, <1>2

LEMMA GoodPartsOf ==
    ASSUME NEW cat, \A o \in DOMAIN cat.types : Described(cat.types[o]),
           NEW p, Good(cat, p[1], p[2]), NEW q \in ConformedParts(p)
    PROVE  Good(cat, q[1], q[2])
<1> DEFINE v == p[1]
           l == p[2]
           is(x, t) == q = <<x, t>>
<1>1. /\ l # Raw /\ Shaped(v, l)
      /\ v.t # "multirange" =>
           \E i \in DOMAIN v.parts : is(v.parts[i], PartType(v, l, i))
      /\ v.t = "multirange" =>
           \E i \in DOMAIN v.parts : \E j \in DOMAIN v.parts[i].parts :
               is(v.parts[i].parts[j], PartType(v, l, 1))
  BY ConformedPartsAre
<1>2. \A x : \A t : is(x, t) => q[1] = x /\ q[2] = t
  OBVIOUS
<1> HIDE DEF is
<1>3. CASE v = Null
  <2>1. v.t = "null" /\ v.parts = << >>
    BY <1>3, NullIs
  <2>2. DOMAIN << >> = {}
    OBVIOUS
  <2> HIDE DEF v, l
  <2>3. DOMAIN v.parts = {}
    BY <2>1, <2>2, Zenon
  <2> QED
    BY <1>1, <2>1, <2>3
<1>4. CASE v # Null
  <2>1. PICK o : MappedTo(cat, o, l) /\ Comes(cat, o, v) /\ v # Undecoded
    BY <1>1, <1>4 DEF Good
  <2> DEFINE d == cat.types[o]
  <2>2. IsMapped(l, cat, d) /\ Described(d)
    BY <1>1, <2>1, MappedIs
  <2>3. IsFrom(v, cat, d)
    BY <2>1, <2>2, ComesIs
  <2>4. d.kind \in DefinitionKinds
    BY <2>2 DEF Described
  <2>5. d.kind \in {"domain", "array", "range", "multirange"} => 1 \in DOMAIN d.deps
    BY <2>2, OneLong DEF Described
  <2>6. DOMAIN << >> = {}
    OBVIOUS
  <2> HIDE DEF v, l, d
  <2>7. CASE d.kind \in {"pseudo", "builtin", "extension", "enum"}
    <3>1. v.t # "multirange" /\ v.parts = << >>
      BY <2>3, <2>7 DEF IsFrom
    <3>2. DOMAIN v.parts = {}
      BY <2>6, <3>1, Zenon
    <3> QED
      BY <1>1, <3>1, <3>2
  <2>8. CASE d.kind \in {"domain", "array", "range"}
    <3>1. v.t = d.kind /\ v.t \notin {"multirange", "composite"}
      BY <2>3, <2>8 DEF IsFrom
    <3>2. PICK i \in DOMAIN v.parts : is(v.parts[i], PartType(v, l, i))
      BY <1>1, <3>1
    <3>3. PartType(v, l, i) = l.parts[1]
      BY <3>1 DEF PartType
    <3>4. PartComes(cat, d.deps[1], v.parts[i])
      BY <2>3, <2>8, <3>2 DEF IsFrom
    <3>5. Named(cat, d.deps[1], l.parts[1])
      BY <2>2, <2>5, <2>8 DEF IsMapped, PartsMapped
    <3> QED
      BY <1>2, <3>2, <3>3, <3>4, <3>5, PartGood
  <2>9. CASE d.kind = "composite"
    <3>1. v.t = "composite"
      BY <2>3, <2>9 DEF IsFrom
    <3>2. PICK i \in DOMAIN v.parts : is(v.parts[i], PartType(v, l, i))
      BY <1>1, <3>1
    <3>3. PartType(v, l, i) = l.parts[i]
      BY <3>1 DEF PartType
    <3>4. PartComes(cat, d.deps[i], v.parts[i]) /\ i \in DOMAIN d.deps
      BY <2>3, <2>9, <3>2 DEF IsFrom
    <3>5. Named(cat, d.deps[i], l.parts[i])
      BY <2>2, <2>9, <3>4 DEF IsMapped, PartsMapped
    <3> QED
      BY <1>2, <3>2, <3>3, <3>4, <3>5, PartGood
  <2>10. CASE d.kind = "multirange"
    <3> DEFINE s == cat.types[d.deps[1]].deps[1]
    <3>1. v.t = "multirange"
      BY <2>3, <2>10 DEF IsFrom
    <3>2. PICK i \in DOMAIN v.parts : \E j \in DOMAIN v.parts[i].parts :
             is(v.parts[i].parts[j], PartType(v, l, 1))
      BY <1>1, <3>1
    <3>3. PICK j \in DOMAIN v.parts[i].parts : is(v.parts[i].parts[j], PartType(v, l, 1))
      BY <3>2
    <3>4. PartType(v, l, 1) = l.parts[1]
      BY DEF PartType
    <3>5. PartComes(cat, s, v.parts[i].parts[j])
      BY <2>3, <2>10, <3>2, <3>3 DEF IsFrom
    <3>6. Named(cat, s, l.parts[1])
      BY <2>2, <2>10 DEF IsMapped
    <3> HIDE DEF s
    <3> QED
      BY <1>2, <3>3, <3>4, <3>5, <3>6, PartGood
  <2> QED
    BY <2>4, <2>7, <2>8, <2>9, <2>10 DEF DefinitionKinds
<1> QED
  BY <1>3, <1>4

(* A value that was decoded by its type conforms to what it was mapped to. *)
LEMMA GoodConforms ==
    ASSUME NEW cat, \A o \in DOMAIN cat.types : Described(cat.types[o]),
           NEW v, NEW l, Good(cat, v, l)
    PROVE  Conforms(v, l)
<1> DEFINE p == <<v, l>>
           S == {n \in Nat : GoodPairs(cat, PairsUpTo(p, n))}
<1>1. 0 \in S
  BY PairsNext DEF GoodPairs
<1>2. ASSUME NEW n \in Nat, n \in S PROVE n + 1 \in S
  <2> DEFINE now == PairsUpTo(p, n)
             next == PairsUpTo(p, n + 1)
  <2>1. next = WithParts(now)
    BY PairsNext
  <2>2. GoodPairs(cat, now)
    BY <1>2
  <2> HIDE DEF now, next, p
  <2>3. ASSUME NEW q \in next PROVE Good(cat, q[1], q[2])
    <3>1. q \in now \/ \E x \in now : q \in ConformedParts(x)
      BY <2>1 DEF WithParts
    <3> QED
      BY <2>2, <3>1, GoodPartsOf DEF GoodPairs
  <2>4. GoodPairs(cat, next)
    BY <2>3 DEF GoodPairs
  <2> QED
    BY <2>4 DEF next
<1> HIDE DEF S
<1>3. \A n \in Nat : n \in S
  BY <1>1, <1>2, SetInduction
<1>4. MaxNesting \in Nat
  BY KType
<1>5. GoodPairs(cat, PairsUpTo(p, MaxNesting))
  BY <1>3, <1>4 DEF S
<1>6. \A q \in PairsUpTo(p, MaxNesting) : ConformsOne(q)
  BY <1>5, GoodShaped DEF GoodPairs
<1> QED
  BY <1>6 DEF Conforms, PairsUpTo

-----------------------------------------------------------------------------
(* Whether a type has a codec.                                             *)

(* Sets that grow within D, until a round adds nothing.                    *)
Growing(F, D) ==
    /\ \A n \in Nat : F[n] \subseteq D /\ F[n] \subseteq F[n + 1]
    /\ \A n \in Nat : F[n + 1] = F[n] => F[n + 2] = F[n + 1]

LEMMA GrowthRestsOn ==
    ASSUME NEW F, NEW D, Growing(F, D), NEW n \in Nat, F[n + 1] = F[n]
    PROVE  \A m \in Nat : n <= m => F[m + 1] = F[m]
<1> DEFINE S == {m \in Nat : n <= m => F[m + 1] = F[m]}
<1>1. 0 \in S
  OBVIOUS
<1>2. ASSUME NEW m \in Nat, m \in S PROVE m + 1 \in S
  <2>1. CASE n <= m
    <3>1. F[m + 1] = F[m]
      BY <1>2, <2>1
    <3>2. F[m + 2] = F[m + 1] /\ m + 2 = (m + 1) + 1
      BY <3>1 DEF Growing
    <3> QED
      BY <3>2
  <2>2. CASE ~ (n <= m)
    <3>1. n <= m + 1 => n = m + 1
      BY <2>2
    <3> QED
      BY <3>1
  <2> QED
    BY <2>1, <2>2
<1> HIDE DEF S
<1>3. \A m \in Nat : m \in S
  BY <1>1, <1>2, SetInduction
<1> QED
  BY <1>3 DEF S

(* No more rounds add something than D has members.                        *)
LEMMA GrowthRests ==
    ASSUME NEW F, NEW D, IsFiniteSet(D), Growing(F, D)
    PROVE  F[Cardinality(D) + 1] = F[Cardinality(D)]
<1> DEFINE N == Cardinality(D)
<1>0. N \in Nat
  BY FS_CardinalityType
<1> SUFFICES ASSUME F[N + 1] # F[N] PROVE FALSE
  OBVIOUS
<1> HIDE DEF N
<1>1. \A n \in 0..N : F[n + 1] # F[n]
  BY <1>0, GrowthRestsOn
<1>2. ASSUME NEW n \in Nat
      PROVE  IsFiniteSet(F[n]) /\ Cardinality(F[n]) \in Nat /\ Cardinality(F[n]) <= N
  <2>1. F[n] \in SUBSET D
    BY DEF Growing
  <2> QED
    BY <2>1, FS_Subset, FS_CardinalityType DEF N
<1>3. ASSUME NEW n \in 0..N PROVE Cardinality(F[n]) < Cardinality(F[n + 1])
  <2>1. F[n] \subseteq F[n + 1] /\ F[n] # F[n + 1]
    BY <1>1 DEF Growing
  <2>2. n \in Nat /\ n + 1 \in Nat
    OBVIOUS
  <2> QED
    BY <1>2, <2>1, <2>2, FS_Subset
<1> DEFINE S == {n \in Nat : n <= N + 1 => n <= Cardinality(F[n])}
<1>4. 0 \in S
  BY <1>2
<1>5. ASSUME NEW n \in Nat, n \in S PROVE n + 1 \in S
  <2> SUFFICES ASSUME n + 1 <= N + 1 PROVE n + 1 <= Cardinality(F[n + 1])
    OBVIOUS
  <2>1. n \in 0..N /\ n <= Cardinality(F[n])
    BY <1>0, <1>5
  <2>2. Cardinality(F[n]) \in Nat /\ Cardinality(F[n + 1]) \in Nat
    BY <1>2
  <2> QED
    BY <1>3, <2>1, <2>2
<1> HIDE DEF S
<1>6. \A n \in Nat : n \in S
  BY <1>4, <1>5, SetInduction
<1>7. N + 1 <= Cardinality(F[N + 1]) /\ N + 1 \in Nat
  BY <1>0, <1>6 DEF S
<1>8. Cardinality(F[N + 1]) <= N /\ Cardinality(F[N + 1]) \in Nat
  BY <1>2, <1>7
<1> QED
  BY <1>0, <1>7, <1>8

(* The types found to have a codec after n rounds.                         *)
WithCodec(cat) ==
    [n \in Nat |-> {o \in DOMAIN cat.types : Visits(CodecsUpTo(cat, n), o)}]

(* More types below, more types with a codec.                              *)
LEMMA CodecGrows ==
    ASSUME NEW cat, NEW o \in DOMAIN cat.types, cat.types[o].kind \in DefinitionKinds,
           NEW less, NEW more, \A p : Visits(less, p) => Visits(more, p), Codec(cat, o, less)
    PROVE  Codec(cat, o, more)
<1> DEFINE d == cat.types[o]
<1>1. CASE d.kind = "pseudo"
  BY <1>1, Zenon DEF Codec
<1>2. CASE d.kind = "builtin"
  BY <1>2, Zenon DEF Codec
<1>3. CASE d.kind = "enum"
  BY <1>3, Zenon DEF Codec
<1>4. CASE d.kind = "multirange"
  BY <1>4, Zenon DEF Codec, Visits
<1>5. CASE d.kind = "extension"
  BY <1>5, Zenon DEF Codec
<1>6. CASE d.kind \in {"domain", "composite", "array", "range"}
  BY <1>6, Zenon DEF Codec, Visits
<1> QED
  BY <1>1, <1>2, <1>3, <1>4, <1>5, <1>6 DEF DefinitionKinds

LEMMA VisitsNext ==
    ASSUME NEW cat, NEW n \in Nat, NEW o
    PROVE  Visits(CodecsUpTo(cat, n + 1), o)
           <=> o \in DOMAIN cat.types /\ Codec(cat, o, CodecsUpTo(cat, n))
<1>1. CodecsUpTo(cat, n + 1) = [p \in DOMAIN cat.types |-> Codec(cat, p, CodecsUpTo(cat, n))]
  BY CodecsNext DEF Codecs
<1> QED
  BY <1>1, Zenon DEF Visits

VisitsMore(cat, n) ==
    \A o : Visits(CodecsUpTo(cat, n), o) => Visits(CodecsUpTo(cat, n + 1), o)

LEMMA VisitsMoreAll ==
    ASSUME NEW cat, \A o \in DOMAIN cat.types : Described(cat.types[o])
    PROVE  \A n \in Nat : VisitsMore(cat, n)
<1> DEFINE S == {n \in Nat : VisitsMore(cat, n)}
<1>1. 0 \in S
  <2>1. DOMAIN << >> = {}
    OBVIOUS
  <2>2. DOMAIN CodecsUpTo(cat, 0) = {}
    BY <2>1, CodecsNext, Zenon
  <2> QED
    BY <2>2 DEF VisitsMore, Visits
<1>2. ASSUME NEW n \in Nat, n \in S PROVE n + 1 \in S
  <2> DEFINE m == n + 1
             less == CodecsUpTo(cat, n)
             more == CodecsUpTo(cat, m)
  <2>1. \A p : Visits(less, p) => Visits(more, p)
    BY <1>2 DEF VisitsMore
  <2>2. m \in Nat
    OBVIOUS
  <2>3. ASSUME NEW o, Visits(more, o) PROVE Visits(CodecsUpTo(cat, m + 1), o)
    <3>1. o \in DOMAIN cat.types /\ Codec(cat, o, less)
      BY <2>3, VisitsNext, Zenon
    <3>2. cat.types[o].kind \in DefinitionKinds
      BY <3>1 DEF Described
    <3> HIDE DEF less, more
    <3>3. Codec(cat, o, more)
      BY <2>1, <3>1, <3>2, CodecGrows
    <3> HIDE DEF m
    <3> QED
      BY <2>2, <3>1, <3>3, VisitsNext, Zenon DEF more
  <2>4. VisitsMore(cat, m)
    BY <2>3 DEF VisitsMore
  <2> QED
    BY <2>2, <2>4
<1> HIDE DEF S
<1>3. \A n \in Nat : n \in S
  BY <1>1, <1>2, SetInduction
<1> QED
  BY <1>3 DEF S

LEMMA WithCodecGrows ==
    ASSUME NEW cat, \A o \in DOMAIN cat.types : Described(cat.types[o])
    PROVE  Growing(WithCodec(cat), DOMAIN cat.types)
<1> DEFINE F == WithCodec(cat)
           D == DOMAIN cat.types
<1>1. \A n \in Nat : F[n] = {o \in D : Visits(CodecsUpTo(cat, n), o)}
  BY DEF WithCodec
<1> HIDE DEF F
<1>2. \A n \in Nat : F[n] \subseteq D /\ F[n] \subseteq F[n + 1]
  <2> TAKE n \in Nat
  <2>1. n + 1 \in Nat /\ VisitsMore(cat, n)
    BY VisitsMoreAll
  <2> QED
    BY <1>1, <2>1 DEF VisitsMore
<1>3. ASSUME NEW n \in Nat, F[n + 1] = F[n] PROVE F[n + 2] = F[n + 1]
  <2> DEFINE m == n + 1
             less == CodecsUpTo(cat, n)
             more == CodecsUpTo(cat, m)
  <2>1. m \in Nat /\ m + 1 \in Nat /\ n + 2 = m + 1
    OBVIOUS
  <2>2. ASSUME NEW p, Visits(more, p) PROVE Visits(less, p)
    <3>1. p \in D
      BY <2>2, VisitsNext, Zenon
    <3>2. p \in F[m]
      BY <1>1, <2>1, <2>2, <3>1
    <3> QED
      BY <1>1, <1>3, <3>2
  <2> HIDE DEF less, more, m
  <2>3. ASSUME NEW o \in F[m + 1] PROVE o \in F[m]
    <3>1. o \in D /\ Visits(CodecsUpTo(cat, m + 1), o)
      BY <1>1, <2>1, <2>3
    <3>2. Codec(cat, o, more)
      BY <2>1, <3>1, VisitsNext, Zenon DEF more
    <3>3. cat.types[o].kind \in DefinitionKinds
      BY <3>1 DEF Described
    <3>4. Codec(cat, o, less)
      BY <2>2, <3>1, <3>2, <3>3, CodecGrows
    <3>5. Visits(CodecsUpTo(cat, n + 1), o)
      BY <3>1, <3>4, VisitsNext, Zenon DEF less
    <3> QED
      BY <1>1, <3>1, <3>5 DEF m
  <2>4. F[m] \subseteq F[m + 1]
    BY <1>2, <2>1
  <2>5. F[m + 1] = F[m]
    BY <2>3, <2>4
  <2> QED
    BY <2>1, <2>5 DEF m
<1> QED
  BY <1>2, <1>3 DEF Growing, F

(* Whether a type has a codec is settled when it is asked.                 *)
LEMMA CodecsSettle ==
    ASSUME NEW cat, IsFiniteSet(DOMAIN cat.types), \A o \in DOMAIN cat.types : Described(cat.types[o]),
           NEW o
    PROVE  /\ HasSemanticCodec(cat, o) <=> Visits(CodecsUpTo(cat, Depth(cat.types)), o)
           /\ HasSemanticCodec(cat, o)
              <=> o \in DOMAIN cat.types /\ Codec(cat, o, CodecsUpTo(cat, Depth(cat.types)))
<1> DEFINE N == Depth(cat.types)
           F == WithCodec(cat)
<1>1. N \in Nat /\ N + 1 \in Nat
  BY FS_CardinalityType DEF Depth
<1>2. F[N + 1] = F[N]
  <2> HIDE DEF F
  <2>1. Growing(F, DOMAIN cat.types)
    BY WithCodecGrows DEF F
  <2> QED
    BY <2>1, GrowthRests DEF Depth
<1>3. /\ F[N] = {p \in DOMAIN cat.types : Visits(CodecsUpTo(cat, N), p)}
      /\ F[N + 1] = {p \in DOMAIN cat.types : Visits(CodecsUpTo(cat, N + 1), p)}
  <2> HIDE DEF N
  <2> QED
    BY <1>1 DEF WithCodec
<1> HIDE DEF F
<1>4. HasSemanticCodec(cat, o) <=> o \in DOMAIN cat.types /\ CodecsUpTo(cat, N)[o]
  BY Zenon DEF HasSemanticCodec, CodecsUpTo
<1> HIDE DEF N
<1>5. o \in DOMAIN cat.types => o \in DOMAIN CodecsUpTo(cat, N)
  <2> SUFFICES ASSUME o \in DOMAIN cat.types PROVE o \in DOMAIN CodecsUpTo(cat, N)
    OBVIOUS
  <2>1. N # 0
    BY FS_EmptySet DEF N, Depth
  <2>2. PICK k \in Nat : N = k + 1
    <3>1. N - 1 \in Nat /\ N = (N - 1) + 1
      BY <1>1, <2>1
    <3> QED
      BY <3>1
  <2>3. DOMAIN CodecsUpTo(cat, k + 1) = DOMAIN cat.types
    BY CodecsNext DEF Codecs
  <2> QED
    BY <2>2, <2>3
<1>6. Visits(CodecsUpTo(cat, N), o) => o \in DOMAIN cat.types
  <2>1. CASE N = 0
    <3>1. DOMAIN << >> = {}
      OBVIOUS
    <3>2. DOMAIN CodecsUpTo(cat, 0) = {}
      BY <3>1, CodecsNext, Zenon
    <3> QED
      BY <2>1, <3>2 DEF Visits
  <2>2. CASE N # 0
    <3>1. PICK k \in Nat : N = k + 1
      <4>1. N - 1 \in Nat /\ N = (N - 1) + 1
        BY <1>1, <2>2
      <4> QED
        BY <4>1
    <3> QED
      BY <3>1, VisitsNext, Zenon
  <2> QED
    BY <2>1, <2>2
<1>7. HasSemanticCodec(cat, o) <=> Visits(CodecsUpTo(cat, N), o)
  BY <1>4, <1>5, <1>6, Zenon DEF Visits
<1>8. Visits(CodecsUpTo(cat, N), o) <=> Visits(CodecsUpTo(cat, N + 1), o)
  <2>1. Visits(CodecsUpTo(cat, N + 1), o) => o \in DOMAIN cat.types
    BY <1>1, VisitsNext, Zenon
  <2> QED
    BY <1>2, <1>3, <1>6, <2>1
<1>9. Visits(CodecsUpTo(cat, N + 1), o)
      <=> o \in DOMAIN cat.types /\ Codec(cat, o, CodecsUpTo(cat, N))
  BY <1>1, VisitsNext, Zenon
<1> QED
  BY <1>7, <1>8, <1>9, Zenon DEF N

-----------------------------------------------------------------------------
(* What a column is mapped to.                                             *)

Sound(cat) ==
    IsFiniteSet(DOMAIN cat.types) /\ \A o \in DOMAIN cat.types : Described(cat.types[o])

LEMMA CodecOf ==
    ASSUME NEW cat, Sound(cat), NEW o \in DOMAIN cat.types
    PROVE  /\ cat.types[o].kind = "builtin" /\ cat.types[o].supported => HasSemanticCodec(cat, o)
           /\ cat.types[o].kind = "enum" => HasSemanticCodec(cat, o)
           /\ cat.types[o].kind = "extension" /\ ExtensionCodec(cat, cat.types[o])
              => HasSemanticCodec(cat, o)
           /\ cat.types[o].kind = "array" /\ HasSemanticCodec(cat, cat.types[o].deps[1])
              => HasSemanticCodec(cat, o)
<1> DEFINE d == cat.types[o]
           below == CodecsUpTo(cat, Depth(cat.types))
<1>1. \A p : /\ HasSemanticCodec(cat, p) <=> Visits(below, p)
             /\ HasSemanticCodec(cat, p) <=> p \in DOMAIN cat.types /\ Codec(cat, p, below)
  BY CodecsSettle DEF Sound
<1> HIDE DEF below
<1>2. d.kind = "builtin" /\ d.supported => Codec(cat, o, below)
  BY Zenon DEF Codec
<1>3. d.kind = "enum" => Codec(cat, o, below)
  BY Zenon DEF Codec
<1>4. d.kind = "extension" /\ ExtensionCodec(cat, d) => Codec(cat, o, below)
  BY Zenon DEF Codec
<1>5. ASSUME d.kind = "array", HasSemanticCodec(cat, d.deps[1]) PROVE Codec(cat, o, below)
  <2>1. Range(d.deps) = {d.deps[1]}
    <3>1. d.deps \in Seq(Nat) /\ Len(d.deps) = 1
      BY <1>5 DEF Sound, Described
    <3> HIDE DEF d
    <3>2. DOMAIN d.deps = 1..1
      BY <3>1
    <3> QED
      BY <3>2 DEF Range
  <2>2. Visits(below, d.deps[1])
    BY <1>1, <1>5
  <2>3. \A p \in Range(d.deps) : Visits(below, p)
    BY <2>1, <2>2
  <2> QED
    BY <1>5, <2>3, Zenon DEF Codec, Visits
<1> QED
  BY <1>1, <1>2, <1>3, <1>4, <1>5, Zenon

LEMMA FromDefinitionInRound ==
    ASSUME NEW cat, Sound(cat), NEW o \in DOMAIN cat.types, NEW l,
           l = LogicalTypeFromDefinition(cat, o), l # Unmapped
    PROVE  InRound(cat, o, l)
<1> DEFINE N == Depth(cat.types)
<1>1. N \in Nat /\ N # 0
  BY FS_CardinalityType, FS_EmptySet DEF Depth, Sound
<1>2. l = LogicalTypesUpTo(cat, N)[o]
  BY DEF LogicalTypeFromDefinition, LogicalTypesUpTo
<1> HIDE DEF N
<1>3. PICK k \in Nat : N = k + 1
  <2>1. N - 1 \in Nat /\ N = (N - 1) + 1
    BY <1>1
  <2> QED
    BY <2>1
<1>4. DOMAIN LogicalTypesUpTo(cat, k + 1) = DOMAIN cat.types
  BY LogicalTypesNext DEF LogicalTypes
<1> QED
  BY <1>1, <1>2, <1>3, <1>4 DEF InRound

LEMMA InRoundOf ==
    ASSUME NEW cat, NEW o, NEW l, InRound(cat, o, l)
    PROVE  /\ o \in DOMAIN cat.types
           /\ \E below : l = LogicalOf(cat, o, below)
<1>1. PICK m \in Nat : o \in DOMAIN LogicalTypesUpTo(cat, m) /\ l = LogicalTypesUpTo(cat, m)[o]
  BY DEF InRound
<1>2. m # 0
  <2>1. DOMAIN << >> = {}
    OBVIOUS
  <2> QED
    BY <1>1, <2>1, LogicalTypesNext, Zenon
<1>3. PICK n \in Nat : m = n + 1
  <2>1. m - 1 \in Nat /\ m = (m - 1) + 1
    BY <1>2
  <2> QED
    BY <2>1
<1> DEFINE below == LogicalTypesUpTo(cat, n)
<1>4. LogicalTypesUpTo(cat, m) = [p \in DOMAIN cat.types |-> LogicalOf(cat, p, below)]
  BY <1>3, LogicalTypesNext DEF LogicalTypes
<1> HIDE DEF below
<1> QED
  BY <1>1, <1>4

LEMMA LogicalScalar ==
    ASSUME NEW cat, NEW o, NEW below, LogicalOf(cat, o, below) # Raw
    PROVE  /\ cat.types[o].kind = "builtin" => cat.types[o].named
           /\ cat.types[o].kind = "extension" => ExtensionCodec(cat, cat.types[o])
<1>1. ASSUME cat.types[o].kind = "builtin" PROVE cat.types[o].named
  BY <1>1, Zenon DEF LogicalOf
<1>2. ASSUME cat.types[o].kind = "extension" PROVE ExtensionCodec(cat, cat.types[o])
  BY <1>2, Zenon DEF LogicalOf
<1> QED
  BY <1>1, <1>2

-----------------------------------------------------------------------------
(* The directory and the database call the same types by the same names.   *)

Naming ==
    /\ \A o \in DOMAIN types :
          /\ types[o].schema # ""
          /\ \A p \in DOMAIN types :
                types[o].schema = "pg_catalog" /\ types[p].schema = "pg_catalog"
                /\ types[o].name = types[p].name => p = o
          /\ types[o].kind = "builtin" /\ (types[o].declared \/ types[o].named)
             => types[o].supported

AsNamed(c, d) ==
    /\ c.schema = d.schema /\ c.name = d.name
    /\ d.kind = "builtin" => /\ c.supported = d.supported /\ c.declared = d.declared
                             /\ c.named = d.named
    /\ d.kind # "composite" => c.deps = d.deps

SameNames == \A o \in DOMAIN catalog.types : AsNamed(catalog.types[o], types[o])

LEMMA CatalogSound ==
    ASSUME Directories, Descriptions
    PROVE  Sound(catalog)
<1>1. IsFiniteSet(DOMAIN catalog.types)
  BY OidsAssumption, FS_Subset DEF Directories
<1> QED
  BY <1>1 DEF Descriptions, Sound

(* A declaration names the type it is of: a search by name finds it or is  *)
(* ambiguous.                                                              *)
LEMMA FindsNamed ==
    ASSUME Directories, Descriptions, SameNames, NEW o \in DOMAIN catalog.types, NEW native,
           native.name = types[o].name, native.schema \in {"", types[o].schema}
    PROVE  FindDefinition(catalog, native) \in {0, o}
<1> DEFINE matches == {p \in DOMAIN catalog.types :
                         /\ catalog.types[p].name = native.name
                         /\ native.schema \in {"", catalog.types[p].schema}}
<1>1. o \in matches
  BY DEF SameNames, AsNamed
<1>2. IsFiniteSet(matches)
  <2>1. matches \subseteq DOMAIN catalog.types
    OBVIOUS
  <2> HIDE DEF matches
  <2> QED
    BY <2>1, CatalogSound, FS_Subset DEF Sound
<1>3. FindDefinition(catalog, native)
        = IF Cardinality(matches) = 1 THEN CHOOSE p \in matches : TRUE ELSE 0
  BY Zenon DEF FindDefinition
<1> HIDE DEF matches
<1>4. Cardinality(matches) = 1 => \E x : matches = {x}
  BY <1>2, FS_Singleton
<1>5. Cardinality(matches) = 1 => (CHOOSE p \in matches : TRUE) = o
  <2> SUFFICES ASSUME Cardinality(matches) = 1 PROVE (CHOOSE p \in matches : TRUE) = o
    OBVIOUS
  <2>1. matches = {o}
    BY <1>1, <1>4
  <2> DEFINE found == CHOOSE p \in matches : TRUE
  <2>2. found \in matches
    BY <1>1
  <2> HIDE DEF found
  <2>3. found = o
    BY <2>1, <2>2
  <2> QED
    BY <2>3 DEF found
<1> QED
  BY <1>3, <1>5

LEMMA BuiltinNamed ==
    ASSUME Descriptions, Naming, SameNames, NEW o \in DOMAIN catalog.types, NEW native,
           native.name = types[o].name,
           native.schema = IF types[o].schema = "pg_catalog" THEN "" ELSE types[o].schema
    PROVE  /\ BuiltinCatalogName(catalog, native) \in {0, o}
           /\ BuiltinCatalogName(catalog, native) = o => catalog.types[o].kind = "builtin" \/ o = 0
<1> DEFINE known == {p \in DOMAIN catalog.types :
                       /\ catalog.types[p].schema = "pg_catalog" /\ catalog.types[p].name = native.name
                       /\ catalog.types[p].kind = "builtin" /\ catalog.types[p].listed}
           found == CHOOSE p \in known : TRUE
<1>1. BuiltinCatalogName(catalog, native)
        = IF native.schema # "" \/ known = {} THEN 0 ELSE found
  BY Zenon DEF BuiltinCatalogName
<1>2. ASSUME native.schema = "", NEW p \in known
      PROVE  p = o /\ catalog.types[p].kind = "builtin"
  <2>1. o \in DOMAIN types /\ p \in DOMAIN types
    BY DEF Descriptions
  <2>2. types[o].schema = "pg_catalog"
    BY <1>2, <2>1 DEF Naming
  <2>3. types[p].schema = "pg_catalog" /\ types[p].name = types[o].name
    BY DEF SameNames, AsNamed
  <2> QED
    BY <2>1, <2>2, <2>3 DEF Naming
<1> HIDE DEF known
<1>3. known # {} => found \in known
  OBVIOUS
<1> HIDE DEF found
<1> QED
  BY <1>1, <1>2, <1>3

(* What a column's declaration is mapped to is mapped by its type, and has *)
(* a codec.                                                                *)
LEMMA DefinitionMapped ==
    ASSUME Directories, Descriptions, Naming, SameNames, NEW o \in DOMAIN catalog.types, NEW l,
           l = LogicalTypeFromDefinition(catalog, o), l \notin {Raw, Unmapped},
           HasSemanticCodec(catalog, o) \/ catalog.types[o].kind \in {"builtin", "extension"}
    PROVE  HasSemanticCodec(catalog, o) /\ Named(catalog, o, l)
<1>1. Sound(catalog)
  BY CatalogSound
<1>2. InRound(catalog, o, l)
  BY <1>1, FromDefinitionInRound
<1>3. PICK below : l = LogicalOf(catalog, o, below)
  BY <1>2, InRoundOf
<1>4. /\ catalog.types[o].kind = "builtin" => catalog.types[o].named
      /\ catalog.types[o].kind = "extension" => ExtensionCodec(catalog, catalog.types[o])
  BY <1>3, LogicalScalar
<1>5. catalog.types[o].kind = "builtin" => catalog.types[o].supported
  <2>1. o \in DOMAIN types /\ catalog.types[o].kind = types[o].kind
    BY DEF Descriptions
  <2> QED
    BY <1>4, <2>1, Zenon DEF Naming, SameNames, AsNamed
<1>6. HasSemanticCodec(catalog, o)
  BY <1>1, <1>4, <1>5, CodecOf
<1> QED
  BY <1>2, <1>6 DEF Named

LEMMA NamedMapped ==
    ASSUME Directories, Descriptions, Naming, SameNames, NEW o \in DOMAIN catalog.types, NEW native,
           native.name = types[o].name,
           native.schema = IF types[o].schema = "pg_catalog" THEN "" ELSE types[o].schema,
           native.enum => types[o].kind = "enum",
           native.declared => types[o].kind = "builtin" /\ types[o].declared,
           native.enum \in BOOLEAN, native.declared \in BOOLEAN,
           NEW l, l = NamedType(catalog, native), l \notin {Raw, Unmapped}
    PROVE  HasSemanticCodec(catalog, o) /\ Named(catalog, o, l)
<1>0. Sound(catalog) /\ o \in DOMAIN types /\ catalog.types[o].kind = types[o].kind
  BY CatalogSound DEF Descriptions
<1>1. CASE native.enum
  <2>1. l = Scalar("enum")
    BY <1>1, Zenon DEF NamedType, Scalar
  <2> QED
    BY <1>0, <1>1, <2>1, CodecOf DEF Named
<1>2. CASE ~ native.enum /\ native.declared
  <2>1. l = Scalar("value")
    BY <1>2, Zenon DEF NamedType, Scalar
  <2>2. catalog.types[o].supported /\ catalog.types[o].kind = "builtin"
    BY <1>0, <1>2, Zenon DEF Naming, SameNames, AsNamed
  <2> QED
    BY <1>0, <2>1, <2>2, CodecOf DEF Named
<1>3. CASE ~ native.enum /\ ~ native.declared
  <2> DEFINE builtin == BuiltinCatalogName(catalog, native)
             found == FindDefinition(catalog, native)
  <2>1. l = IF builtin # 0 THEN LogicalTypeFromDefinition(catalog, builtin)
            ELSE CatalogType(catalog, found)
    BY <1>3, Zenon DEF NamedType
  <2>2. builtin \in {0, o} /\ (builtin = o => catalog.types[o].kind = "builtin" \/ o = 0)
    BY BuiltinNamed
  <2>3. found \in {0, o}
    BY FindsNamed
  <2> HIDE DEF builtin, found
  <2>4. CASE builtin # 0
    <3>1. l = LogicalTypeFromDefinition(catalog, o) /\ catalog.types[o].kind = "builtin"
      BY <2>1, <2>2, <2>4
    <3> QED
      BY <3>1, DefinitionMapped
  <2>5. CASE builtin = 0
    <3>1. l = CatalogType(catalog, found)
      BY <2>1, <2>5
    <3>2. found = o /\ l = LogicalTypeFromDefinition(catalog, found)
          /\ (HasSemanticCodec(catalog, found) \/ catalog.types[found].kind = "extension")
      BY <2>3, <3>1, Zenon DEF CatalogType
    <3> QED
      BY <3>2, DefinitionMapped
  <2> QED
    BY <2>4, <2>5
<1> QED
  BY <1>1, <1>2, <1>3

(* The mapping of the column and its decoder agree.                        *)
LEMMA ColumnIsMapped ==
    ASSUME Directories, Descriptions, Naming, SameNames, column # 0,
           DefinitionClosure(catalog.types, column) # NoClosure,
           NEW l, l = LogicalTypeWithCatalog(catalog, NativeType(types, column)),
           l \notin {Raw, Unmapped}
    PROVE  HasSemanticCodec(catalog, column) /\ MappedTo(catalog, column, l)
<1> DEFINE V == Visit(ClosureDependencies(catalog.types), {column})
           defs == catalog.types
           native == NativeType(types, column)
           array == types[column].kind = "array"
           named == IF array THEN types[column].deps[1] ELSE column
           e == NamedType(catalog, native)
<1>1. Sound(catalog) /\ DOMAIN defs \subseteq Nat
  BY CatalogSound, OidsAssumption DEF Directories
<1>2. /\ column \in V /\ V \subseteq DOMAIN defs
      /\ \A o \in V : Range(defs[o].deps) \subseteq V
  <2>1. IsFiniteSet(DOMAIN defs)
    BY <1>1 DEF Sound
  <2> HIDE DEF V, defs
  <2>2. V = Visit(ClosureDependencies(defs), {column}) /\ DefinitionClosure(defs, column) # NoClosure
    BY DEF V, defs
  <2> QED
    BY <1>1, <2>1, <2>2, ClosureHas
<1> HIDE DEF V
<1>3. /\ column \in DOMAIN catalog.types /\ column \in DOMAIN types
      /\ catalog.types[column].kind = types[column].kind
      /\ Described(types[column]) /\ AsNamed(catalog.types[column], types[column])
  BY <1>2 DEF Descriptions, SameNames
<1>4. array => catalog.types[column].deps = types[column].deps
  BY <1>3 DEF AsNamed
<1>5. named \in DOMAIN catalog.types
  <2>1. CASE array
    <3>1. 1 \in DOMAIN types[column].deps
      BY <1>3, <2>1, OneLong DEF Described
    <3>2. types[column].deps[1] \in Range(types[column].deps)
      BY <3>1 DEF Range
    <3> QED
      BY <1>2, <1>4, <2>1, <3>2
  <2>2. CASE ~ array
    BY <1>3, <2>2
  <2> QED
    BY <2>1, <2>2
<1>6. /\ native.array = array
      /\ native.name = types[named].name
      /\ native.schema = IF types[named].schema = "pg_catalog" THEN "" ELSE types[named].schema
      /\ native.enum = (types[named].kind = "enum" /\ ~ array)
      /\ native.declared = (types[named].kind = "builtin" /\ types[named].declared)
  BY DEF NativeType
<1>7. named \in DOMAIN types
  BY <1>5 DEF Descriptions
<1> HIDE DEF named, native, defs
<1>8. ASSUME e \notin {Raw, Unmapped}
      PROVE  HasSemanticCodec(catalog, named) /\ Named(catalog, named, e)
  <2>1. native.enum => types[named].kind = "enum"
    BY <1>6
  <2>2. native.declared => types[named].kind = "builtin" /\ types[named].declared
    BY <1>6
  <2>3. native.enum \in BOOLEAN /\ native.declared \in BOOLEAN
    BY <1>6
  <2> HIDE DEF e
  <2> QED
    BY <1>5, <1>6, <1>8, <2>1, <2>2, <2>3, NamedMapped DEF e
<1> HIDE DEF e
<1>9. l = LogicalTypeWithCatalog(catalog, native)
  BY DEF native
<1>10. CASE ~ array
  <2>1. l = e
    BY <1>6, <1>9, <1>10, Zenon DEF LogicalTypeWithCatalog, e
  <2> QED
    BY <1>8, <1>10, <2>1 DEF MappedTo, named
<1>11. CASE array
  <2>1. e \notin {Raw, Unmapped} /\ l = Logical("array", <<e>>, << >>)
    BY <1>6, <1>9, <1>11, Zenon DEF LogicalTypeWithCatalog, e
  <2>2. named = catalog.types[column].deps[1] /\ catalog.types[column].kind = "array"
    BY <1>3, <1>4, <1>11 DEF named
  <2>3. HasSemanticCodec(catalog, column)
    BY <1>1, <1>3, <1>8, <2>1, <2>2, CodecOf
  <2> QED
    BY <1>3, <1>8, <2>1, <2>2, <2>3 DEF MappedTo
<1> QED
  BY <1>10, <1>11

-----------------------------------------------------------------------------
(* Names are kept.                                                         *)

(* A definition read or altered in part keeps its name.                    *)
LEMMA CreatedNamed ==
    ASSUME NEW name, NEW d \in NewTypes(name)
    PROVE  d.schema = "user" /\ d.kind # "builtin"
<1>1. ASSUME NEW kind, NEW deps, NEW fields, NEW labels, d = Definition(kind, name, deps, fields, labels),
             kind # "builtin"
      PROVE  d.schema = "user" /\ d.kind # "builtin"
  BY <1>1 DEF Definition
<1>2. \/ \E labels : d = Definition("enum", name, << >>, << >>, labels)
      \/ \E kind \in {"domain", "range", "multirange", "array"} : \E o :
           d = Definition(kind, name, <<o>>, << >>, << >>)
      \/ \E o : d = Definition("composite", name, <<o>>, <<1>>, << >>)
  BY DEF NewTypes
<1> QED
  BY <1>1, <1>2

LEMMA AlteredNamed ==
    ASSUME NEW o \in DOMAIN types, Described(types[o]), NEW e \in Altered(o, types[o]),
           types[o].kind \in {"enum", "composite"}
    PROVE  /\ e.schema = types[o].schema /\ e.name = types[o].name /\ e.kind = types[o].kind
           /\ e.kind = "enum" => e.deps = types[o].deps
<1> DEFINE d == types[o]
<1>1. CASE d.kind = "enum"
  <2>1. PICK l \in Labels : e = [d EXCEPT !.labels = Append(@, l)]
    BY <1>1 DEF Altered
  <2> QED
    BY <2>1 DEF Described
<1>2. CASE d.kind = "composite"
  <2>1. \/ \E p \in DOMAIN types :
             e = [d EXCEPT !.deps = Append(@, p), !.fields = Append(@, 2 + alters)]
        \/ \E i \in DOMAIN d.deps :
             e = [d EXCEPT !.deps = RemoveAt(@, i), !.fields = RemoveAt(@, i)]
    BY <1>2 DEF Altered
  <2>2. ASSUME NEW deps, NEW fields, e = [d EXCEPT !.deps = deps, !.fields = fields]
        PROVE  e.schema = d.schema /\ e.name = d.name /\ e.kind = d.kind
    BY <2>2 DEF Described
  <2>3. e.schema = d.schema /\ e.name = d.name /\ e.kind = d.kind
    BY <2>1, <2>2
  <2> QED
    BY <1>2, <2>3
<1> QED
  BY <1>1, <1>2

LEMMA LoadedNamed ==
    ASSUME NEW d, Described(d), NEW e, Loaded(e, d)
    PROVE  AsNamed(e, d)
<1>1. DOMAIN e = DOMAIN d /\ \A f \in DOMAIN d \ {"labels", "deps", "fields"} : e[f] = d[f]
  BY DEF Loaded
<1>2. d.kind # "composite" => e.deps = d.deps
  BY DEF Loaded, Described
<1> QED
  BY <1>1, <1>2 DEF AsNamed, Described

LEMMA LabelledNamed ==
    ASSUME NEW c, NEW d, Described(c), c.kind = d.kind, AsNamed(c, d), NEW labels, NEW e,
           e = [c EXCEPT !.labels = labels]
    PROVE  AsNamed(e, d)
<1>1. DOMAIN e = DOMAIN c /\ \A f \in DOMAIN c \ {"labels"} : e[f] = c[f]
  OBVIOUS
<1> QED
  BY <1>1 DEF AsNamed, Described

LEMMA FieldedNamed ==
    ASSUME NEW c, NEW d, Described(c), Described(d), c.kind = d.kind, AsNamed(c, d), NEW e,
           Fielded(e, c, d)
    PROVE  AsNamed(e, d)
<1>1. DOMAIN e = DOMAIN c /\ \A f \in DOMAIN c \ {"deps", "fields"} : e[f] = c[f]
  BY DEF Fielded
<1>2. d.kind # "composite" => e.deps = c.deps
  BY DEF Fielded, Described
<1> QED
  BY <1>1, <1>2 DEF AsNamed, Described

LEMMA NamingKept ==
    ASSUME Naming, Descriptions, [Next]_vars
    PROVE  Naming'
<1>1. CASE CreateType
  <2> DEFINE q == Min(NewOids \ DOMAIN types)
  <2>1. PICK name : \E d \in NewTypes(name) :
           types' = [p \in DOMAIN types \cup {q} |-> IF p = q THEN d ELSE types[p]]
    BY <1>1 DEF CreateType
  <2>2. PICK d \in NewTypes(name) :
           types' = [p \in DOMAIN types \cup {q} |-> IF p = q THEN d ELSE types[p]]
    BY <2>1
  <2>3. d.schema = "user" /\ d.kind # "builtin"
    BY CreatedNamed
  <2> HIDE DEF q
  <2>4. DOMAIN types' = DOMAIN types \cup {q}
        /\ \A p \in DOMAIN types' : types'[p] = IF p = q THEN d ELSE types[p]
    BY <2>2
  <2> QED
    BY <2>3, <2>4 DEF Naming
<1>2. CASE AlterType
  <2>1. PICK o \in DOMAIN types : /\ types[o].kind \in {"enum", "composite"}
                                  /\ \E d \in Altered(o, types[o]) : types' = [types EXCEPT ![o] = d]
    BY <1>2 DEF AlterType
  <2>2. PICK d \in Altered(o, types[o]) : types' = [types EXCEPT ![o] = d]
    BY <2>1
  <2>3. d.schema = types[o].schema /\ d.name = types[o].name /\ d.kind = types[o].kind
    BY <2>1, AlteredNamed DEF Descriptions
  <2>4. DOMAIN types' = DOMAIN types /\ \A p \in DOMAIN types : types'[p] = IF p = o THEN d ELSE types[p]
    BY <2>2
  <2>5. \A p \in DOMAIN types :
           /\ types'[p].schema = types[p].schema /\ types'[p].name = types[p].name
           /\ types'[p].kind = types[p].kind /\ (types[p].kind = "builtin" => types'[p] = types[p])
    BY <2>1, <2>3, <2>4
  <2>6. ASSUME NEW p \in DOMAIN types
        PROVE  types'[p].kind = "builtin" /\ (types'[p].declared \/ types'[p].named)
               => types'[p].supported
    BY <2>5, Zenon DEF Naming
  <2>7. \A p \in DOMAIN types :
           /\ types'[p].schema # ""
           /\ \A q \in DOMAIN types :
                types'[p].schema = "pg_catalog" /\ types'[q].schema = "pg_catalog"
                /\ types'[p].name = types'[q].name => q = p
    <3>1. \A p \in DOMAIN types :
             /\ types[p].schema # ""
             /\ \A q \in DOMAIN types :
                  types[p].schema = "pg_catalog" /\ types[q].schema = "pg_catalog"
                  /\ types[p].name = types[q].name => q = p
      BY Zenon DEF Naming
    <3> QED
      BY <2>5, <3>1
  <2>8. DOMAIN types' = DOMAIN types
    BY <2>4
  <2> QED
    BY <2>6, <2>7, <2>8, Zenon DEF Naming
<1>3. CASE UNCHANGED types
  BY <1>3 DEF Naming
<1> QED
  BY <1>1, <1>2, <1>3 DEF Next, CreateTable, WriteRow, LoadTypes, LoadLabels, LoadFields,
     LoadColumn, Deliver, Restart, vars

LEMMA SameNamesKept ==
    ASSUME SameNames, Descriptions, Directories, [Next]_vars
    PROVE  SameNames'
<1>1. CASE CreateType
  <2> DEFINE S == NewOids \ DOMAIN types
             q == Min(S)
  <2>1. PICK d : types' = [p \in DOMAIN types \cup {q} |-> IF p = q THEN d ELSE types[p]]
    BY <1>1 DEF CreateType
  <2>2. UNCHANGED catalog
    BY <1>1 DEF CreateType
  <2>3. q \notin DOMAIN types
    <3>1. S # {} /\ S \in SUBSET Nat
      BY <1>1, OidsAreNumbers DEF CreateType, Oids
    <3> HIDE DEF S
    <3>2. q \in S
      BY <3>1, MinIn
    <3> QED
      BY <3>2 DEF S
  <2> HIDE DEF q, S
  <2>4. \A p \in DOMAIN types : types'[p] = types[p]
    BY <2>1, <2>3
  <2> QED
    BY <2>2, <2>4 DEF SameNames, Descriptions
<1>2. CASE AlterType
  <2>1. PICK o \in DOMAIN types : /\ types[o].kind \in {"enum", "composite"}
                                  /\ \E d \in Altered(o, types[o]) : types' = [types EXCEPT ![o] = d]
    BY <1>2 DEF AlterType
  <2>2. PICK d \in Altered(o, types[o]) : types' = [types EXCEPT ![o] = d]
    BY <2>1
  <2>3. d.schema = types[o].schema /\ d.name = types[o].name /\ d.kind = types[o].kind
        /\ (d.kind = "enum" => d.deps = types[o].deps)
    BY <2>1, AlteredNamed DEF Descriptions
  <2>4. DOMAIN types' = DOMAIN types /\ \A p \in DOMAIN types : types'[p] = IF p = o THEN d ELSE types[p]
    BY <2>2
  <2>5. UNCHANGED catalog
    BY <1>2 DEF AlterType
  <2>6. ASSUME NEW p \in DOMAIN catalog.types, AsNamed(catalog.types[p], types[p])
        PROVE  AsNamed(catalog.types[p], types'[p])
    <3>1. p \in DOMAIN types
      BY DEF Descriptions
    <3>2. CASE p = o
      BY <2>1, <2>3, <2>4, <2>6, <3>1, <3>2 DEF AsNamed
    <3>3. CASE p # o
      BY <2>4, <2>6, <3>1, <3>3
    <3> QED
      BY <3>2, <3>3
  <2> QED
    BY <2>5, <2>6 DEF SameNames
<1>3. CASE LoadTypes
  <2> DEFINE load(o) == [types[o] EXCEPT !.labels = << >>,
                       !.deps = IF types[o].kind = "composite" THEN << >> ELSE @,
                       !.fields = << >>]
  <2>1. catalog'.types = [o \in DOMAIN types |-> load(o)] /\ UNCHANGED types
    <3>1. catalog' = [types |-> [o \in DOMAIN types |-> load(o)], available |-> {}]
          /\ UNCHANGED types
      BY <1>3, Zenon DEF LoadTypes
    <3> HIDE DEF load
    <3> QED
      BY <3>1
  <2>2. ASSUME NEW o \in DOMAIN types PROVE AsNamed(load(o), types[o])
    <3>1. Described(types[o])
      BY DEF Descriptions
    <3>2. Loaded(load(o), types[o])
      BY DEF Loaded
    <3> HIDE DEF load
    <3> QED
      BY <3>1, <3>2, LoadedNamed
  <2> HIDE DEF load
  <2>3. DOMAIN catalog'.types = DOMAIN types /\ \A o \in DOMAIN types : catalog'.types[o] = load(o)
    BY <2>1
  <2> QED
    BY <2>1, <2>2, <2>3 DEF SameNames
<1>4. CASE LoadLabels
  <2> DEFINE load(o) == [catalog.types[o] EXCEPT !.labels = types[o].labels]
  <2>1. catalog'.types = [o \in DOMAIN catalog.types |-> load(o)] /\ UNCHANGED types
    BY <1>4 DEF LoadLabels, Directories
  <2>2. ASSUME NEW o \in DOMAIN catalog.types PROVE AsNamed(load(o), types[o])
    <3>1. Described(catalog.types[o]) /\ catalog.types[o].kind = types[o].kind
          /\ AsNamed(catalog.types[o], types[o])
      BY DEF Descriptions, SameNames
    <3> QED
      BY <3>1, LabelledNamed
  <2> HIDE DEF load
  <2>3. DOMAIN catalog'.types = DOMAIN catalog.types
        /\ \A o \in DOMAIN catalog.types : catalog'.types[o] = load(o)
    BY <2>1
  <2> QED
    BY <2>1, <2>2, <2>3 DEF SameNames
<1>5. CASE LoadFields
  <2> DEFINE load(o) == [catalog.types[o] EXCEPT
                       !.deps = IF types[o].kind = "composite" THEN types[o].deps ELSE @,
                       !.fields = types[o].fields]
  <2>1. catalog'.types = [o \in DOMAIN catalog.types |-> load(o)] /\ UNCHANGED types
    BY <1>5 DEF LoadFields
  <2>2. ASSUME NEW o \in DOMAIN catalog.types PROVE AsNamed(load(o), types[o])
    <3>1. Described(catalog.types[o]) /\ catalog.types[o].kind = types[o].kind /\ Described(types[o])
          /\ AsNamed(catalog.types[o], types[o])
      BY DEF Descriptions, SameNames
    <3>2. Fielded(load(o), catalog.types[o], types[o])
      BY DEF Fielded
    <3> HIDE DEF load
    <3> QED
      BY <3>1, <3>2, FieldedNamed
  <2> HIDE DEF load
  <2>3. DOMAIN catalog'.types = DOMAIN catalog.types
        /\ \A o \in DOMAIN catalog.types : catalog'.types[o] = load(o)
    BY <2>1
  <2> QED
    BY <2>1, <2>2, <2>3 DEF SameNames
<1>6. CASE Restart
  <2>1. DOMAIN catalog'.types = {}
    BY <1>6 DEF Restart, NoCatalog
  <2> QED
    BY <2>1 DEF SameNames
<1>7. CASE UNCHANGED <<types, catalog>>
  BY <1>7 DEF SameNames
<1> QED
  BY <1>1, <1>2, <1>3, <1>4, <1>5, <1>6, <1>7 DEF Next, CreateTable, WriteRow,
     LoadColumn, Deliver, vars

-----------------------------------------------------------------------------
(* What is delivered has the shape mapped.                                 *)

Agreeing ==
    step = "streaming" =>
        /\ mapping.representation <=> mapping.logical = Raw
        /\ mapping.logical = Raw \/ MappedTo(catalog, column, mapping.logical)
        /\ delivered # Nothing =>
             delivered.result = Undecoded \/ Good(catalog, delivered.result, mapping.logical)

LEMMA ImageGood ==
    ASSUME Rows, Directories, Descriptions, Evidence, Agreeing, step = "streaming", row # NoRow,
           Image # Undecoded
    PROVE  Good(catalog, Image, mapping.logical)
<1>1. CASE mapping.representation
  BY <1>1 DEF Agreeing, Good
<1>2. CASE ~ mapping.representation
  <2> DEFINE t == Output(row.value)
             N == Depth(catalog.types)
  <2>1. MappedTo(catalog, column, mapping.logical)
    BY <1>2 DEF Agreeing
  <2>2. PICK defs : Written(row, column, defs)
    BY DEF Rows
  <2>3. row.value \in SaneValues(K)
    BY <2>2, WrittenSane
  <2>4. t \in SaneTexts(K)
    BY <2>3, TextsSaneAll DEF TextsSane
  <2>5. Image = DecodeCatalogValue(catalog, column, t)
    BY <1>2 DEF Image
  <2>6. column \in DOMAIN catalog.types
    BY <2>5 DEF DecodeCatalogValue
  <2>7. Image = DecodersUpTo(catalog, N)[column][t]
    BY <2>5, <2>6, Zenon DEF DecodeCatalogValue, DecodersUpTo
  <2>8. N \in Nat /\ N # 0
    BY <2>6, DepthFitsAll DEF DepthFits, Directories
  <2> HIDE DEF t, N
  <2>9. PICK k \in Nat : N = k + 1
    <3>1. N - 1 \in Nat /\ N = (N - 1) + 1
      BY <2>8
    <3> QED
      BY <3>1
  <2>10. Image = DecodedOf(catalog, column, t, DecodersUpTo(catalog, k))
    BY <2>4, <2>6, <2>7, <2>9, DecodersAt
  <2>11. Comes(catalog, column, Image)
    BY <2>4, <2>6, <2>10 DEF Comes
  <2> QED
    BY <2>1, <2>11 DEF Good
<1> QED
  BY <1>1, <1>2

LEMMA AgreeingKept ==
    ASSUME Agreeing, Rows, Directories, Descriptions, Evidence, Mapped, Naming, SameNames, [Next]_vars
    PROVE  Agreeing'
<1>1. CASE CreateType
  BY <1>1 DEF CreateType, Agreeing
<1>2. CASE AlterType
  BY <1>2 DEF AlterType, Agreeing
<1>3. CASE CreateTable
  BY <1>3 DEF CreateTable, Agreeing, Evidence
<1>4. CASE WriteRow
  BY <1>4 DEF WriteRow, Agreeing
<1>5. CASE LoadTypes
  BY <1>5 DEF LoadTypes, Agreeing
<1>6. CASE LoadLabels
  BY <1>6 DEF LoadLabels, Agreeing
<1>7. CASE LoadFields
  BY <1>7 DEF LoadFields, Agreeing
<1>8. CASE LoadColumn
  <2> DEFINE logical == LogicalTypeWithCatalog(catalog, NativeType(types, column))
             closure == DefinitionClosure(catalog.types, column)
             captured == CapturesSourceRepresentation(catalog, column, logical)
  <2>0. step = "column" /\ UNCHANGED <<catalog, column, delivered>>
    BY <1>8 DEF LoadColumn
  <2>1. CASE Refused(logical, closure)
    <3>1. step' = "refused"
      BY <1>8, <2>1 DEF LoadColumn
    <3> QED
      BY <3>1 DEF Agreeing
  <2>2. CASE ~ Refused(logical, closure)
    <3>1. mapping' = [logical |-> logical, closure |-> closure, representation |-> captured]
      BY <1>8, <2>2 DEF LoadColumn
    <3>2. logical # Unmapped /\ closure # NoClosure /\ column # 0
      BY <2>0, <2>2 DEF Refused, Evidence
    <3>3. logical # Raw => HasSemanticCodec(catalog, column) /\ MappedTo(catalog, column, logical)
      BY <3>2, ColumnIsMapped
    <3>4. captured <=> logical = Raw
      BY <3>3, Zenon DEF CapturesSourceRepresentation
    <3>5. delivered = Nothing
      BY <2>0 DEF Mapped
    <3> HIDE DEF logical, closure, captured
    <3>6. mapping'.representation = captured /\ mapping'.logical = logical
      BY <3>1
    <3>7. /\ mapping'.representation <=> mapping'.logical = Raw
          /\ mapping'.logical = Raw \/ MappedTo(catalog, column, mapping'.logical)
      BY <3>3, <3>4, <3>6, Zenon
    <3> QED
      BY <2>0, <3>5, <3>7, Zenon DEF Agreeing
  <2> QED
    BY <2>1, <2>2
<1>9. CASE Deliver
  <2>1. step = "streaming" /\ row # NoRow /\ delivered' = [row |-> row, result |-> Image]
        /\ UNCHANGED <<column, catalog, mapping>>
    BY <1>9 DEF Deliver
  <2>2. delivered'.result = Image
    BY <2>1
  <2>3. Image = Undecoded \/ Good(catalog, Image, mapping.logical)
    BY <2>1, ImageGood
  <2> QED
    BY <2>1, <2>2, <2>3, Zenon DEF Agreeing
<1>10. CASE Restart
  BY <1>10 DEF Restart, Agreeing
<1>11. CASE UNCHANGED vars
  BY <1>11 DEF vars, Agreeing
<1> QED
  BY <1>1, <1>2, <1>3, <1>4, <1>5, <1>6, <1>7, <1>8, <1>9, <1>10, <1>11 DEF Next

(* The mapping a task is planned with and the decoder agree on the column: *)
(* type_mapping.rs goes by names and declarations, types.rs by OIDs, and   *)
(* what the one calls raw the other hands on as text, and what it decodes  *)
(* has the shape the mapping says.                                         *)
THEOREM DeliveredAsMappedHolds == Spec => []DeliveredAsMapped
<1> DEFINE Inv == /\ Directories /\ Evidence /\ Descriptions /\ Rows /\ Mapped
                  /\ Naming /\ SameNames /\ Agreeing
<1>1. Init => Inv
  <2> SUFFICES ASSUME Init PROVE Inv
    OBVIOUS
  <2>1. Mapped /\ Agreeing
    BY DEF Init, Mapped, Agreeing
  <2>2. SameNames
    <3>1. DOMAIN catalog.types = {}
      BY DEF Init, NoCatalog
    <3> QED
      BY <3>1 DEF SameNames
  <2>3. Naming
    <3>1. \A o \in DOMAIN BaseTypes :
            /\ BaseTypes[o].schema # ""
            /\ \A p \in DOMAIN BaseTypes :
                 BaseTypes[o].schema = "pg_catalog" /\ BaseTypes[p].schema = "pg_catalog"
                 /\ BaseTypes[o].name = BaseTypes[p].name => p = o
      BY NamesAssumption
    <3>2. types = BaseTypes
      BY DEF Init
    <3> QED
      BY <3>1, <3>2, BuiltinsAssumption, Zenon DEF Naming
  <2> QED
    BY <2>1, <2>2, <2>3, InitHolds
<1>2. Inv /\ [Next]_vars => Inv'
  BY DirectoriesKept, EvidenceKept, DescriptionsKept, RowsKept, MappedKept, NamingKept,
     SameNamesKept, AgreeingKept
<1>3. Inv => DeliveredAsMapped
  <2> SUFFICES ASSUME Inv PROVE DeliveredAsMapped
    OBVIOUS
  <2>1. \A o \in DOMAIN catalog.types : Described(catalog.types[o])
    BY DEF Descriptions
  <2> QED
    BY <2>1, GoodConforms DEF Agreeing, DeliveredAsMapped
<1> QED
  BY <1>1, <1>2, <1>3, PTL DEF Spec
=============================================================================
