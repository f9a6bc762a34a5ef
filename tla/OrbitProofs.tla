---------------------------- MODULE OrbitProofs ----------------------------
(***************************************************************************)
(* Proofs about Orbit, for every atlas, every question and every budget.   *)
(*                                                                         *)
(* First what the module's operators compute: lists, picks and sums over   *)
(* finite sets, the balls of entities within so many links of the starts,  *)
(* the links of an entity in their order.  Then the invariant of the three *)
(* stages of an answer: the walk is a breadth-first one (WalkInv), what is *)
(* packed and what is left out make up what was offered and were split in  *)
(* order of importance (BudgetInv), what comes to rest is joined up        *)
(* (RestInv), and a retry at the advertised minimum packs all that is      *)
(* mandatory (RetryInv).                                                   *)
(***************************************************************************)
EXTENDS Orbit, FiniteSetTheorems, TLAPS

-----------------------------------------------------------------------------
(* Finite sets, their orders and their sums.                               *)

\* A set of naturals has a least element.
LEMMA Least ==
  ASSUME NEW T \in SUBSET Nat, T # {}
  PROVE \E m \in T : \A k \in T : m <= k
<1> DEFINE Up == {0 .. m : m \in T}
<1>1. \A m \in T : IsFiniteSet(0 .. m) /\ 0 .. m \in SUBSET Nat
  BY FS_Interval
<1>2. Up \subseteq FiniteSubsetsOf(Nat) /\ Up # {}
  BY <1>1 DEF FiniteSubsetsOf
<1>0. IsWellFoundedOn(StrictSubsetOrdering(Nat), FiniteSubsetsOf(Nat))
  BY FS_StrictSubsetOrderingWellFounded
<1> HIDE DEF Up
<1>3. PICK x \in Up : \A y \in Up : ~ (<<y, x>> \in StrictSubsetOrdering(Nat))
  BY <1>0, <1>2, WFMin
<1> USE DEF Up
<1>4. PICK m \in T : x = 0 .. m
  OBVIOUS
<1>5. ASSUME NEW k \in T, k < m PROVE FALSE
  <2>1. 0 .. k \in Up /\ 0 .. k \subseteq x /\ 0 .. k # x
    <3>1. m \in x /\ m \notin 0 .. k
      BY <1>4, <1>5
    <3> QED BY <3>1, <1>4, <1>5
  <2>2. <<0 .. k, x>> \in StrictSubsetOrdering(Nat)
    BY <2>1, <1>1, <1>4 DEF StrictSubsetOrdering
  <2> QED BY <2>1, <2>2, <1>3
<1> QED BY <1>5

\* In a finite set, counting those before each member numbers the members from
\* zero, one number each, when what is before is a strict total order.
LEMMA Ranked ==
  ASSUME NEW S, IsFiniteSet(S), NEW below \in [S -> SUBSET S],
         \A x \in S : x \notin below[x],
         \A x, y \in S : x = y \/ x \in below[y] \/ y \in below[x],
         \A x, y \in S : y \in below[x] => below[y] \subseteq below[x]
  PROVE  /\ Cardinality(S) \in Nat
         /\ \A x \in S : Cardinality(below[x]) \in 0 .. Cardinality(S) - 1
         /\ \A x, y \in S : Cardinality(below[x]) = Cardinality(below[y]) => x = y
         /\ \A i \in 1 .. Cardinality(S) : \E x \in S : Cardinality(below[x]) = i - 1
<1> DEFINE n == Cardinality(S)
           rank == [x \in S |-> Cardinality(below[x])]
<1>1. n \in Nat
  BY FS_CardinalityType
<1>2. \A x \in S : IsFiniteSet(below[x]) /\ Cardinality(below[x]) \in Nat
  BY FS_Subset, FS_CardinalityType
<1>3. ASSUME NEW x \in S PROVE Cardinality(below[x]) < n
  <2>1. below[x] \in SUBSET S /\ below[x] # S
    OBVIOUS
  <2>2. Cardinality(below[x]) <= n /\ (n = Cardinality(below[x]) => S = below[x])
    BY <2>1, FS_Subset
  <2> QED BY <2>1, <2>2, <1>1, <1>2
<1>4. ASSUME NEW x \in S, NEW y \in S, y \in below[x] PROVE Cardinality(below[y]) < Cardinality(below[x])
  <2>1. below[y] \in SUBSET below[x] /\ below[y] # below[x]
    BY <1>4
  <2>2. /\ Cardinality(below[y]) <= Cardinality(below[x])
        /\ Cardinality(below[x]) = Cardinality(below[y]) => below[x] = below[y]
    BY <2>1, <1>2, FS_Subset
  <2> QED BY <2>1, <2>2, <1>2
<1>5. ASSUME NEW x \in S, NEW y \in S, Cardinality(below[x]) = Cardinality(below[y]) PROVE x = y
  BY <1>2, <1>4, <1>5
<1>6. rank \in Injection(S, 0 .. n - 1)
  BY <1>1, <1>2, <1>3, <1>5 DEF Injection, IsInjective
<1>7. IsFiniteSet(0 .. n - 1) /\ Cardinality(0 .. n - 1) = n
  BY <1>1, FS_Interval
<1>8. rank \in Surjection(S, 0 .. n - 1)
  <2> HIDE DEF rank
  <2> QED BY <1>6, <1>7, FS_Injection
<1>9. ASSUME NEW i \in 1 .. n PROVE \E x \in S : Cardinality(below[x]) = i - 1
  <2>1. i - 1 \in 0 .. n - 1
    BY <1>1
  <2> QED BY <2>1, <1>8 DEF Surjection
<1> QED BY <1>1, <1>2, <1>3, <1>5, <1>9


\* What InOrder returns: the set, listed once and in full.
LEMMA Listed ==
  ASSUME NEW S, IsFiniteSet(S), NEW below \in [S -> SUBSET S],
         \A x \in S : x \notin below[x],
         \A x, y \in S : x = y \/ x \in below[y] \/ y \in below[x],
         \A x, y \in S : y \in below[x] => below[y] \subseteq below[x]
  PROVE  /\ Cardinality(S) \in Nat
         /\ InOrder(S, below) \in [1 .. Cardinality(S) -> S]
         /\ InOrder(S, below) \in Seq(S)
         /\ \A x \in S : \E i \in 1 .. Cardinality(S) : InOrder(S, below)[i] = x
         /\ ToSet(InOrder(S, below)) = S
<1> DEFINE n == Cardinality(S)
           list == InOrder(S, below)
<1>1. /\ n \in Nat
      /\ \A x \in S : Cardinality(below[x]) \in 0 .. n - 1
      /\ \A x, y \in S : Cardinality(below[x]) = Cardinality(below[y]) => x = y
      /\ \A i \in 1 .. n : \E x \in S : Cardinality(below[x]) = i - 1
  BY Ranked
<1>2. list = [i \in 1 .. n |-> CHOOSE x \in S : Cardinality(below[x]) = i - 1]
  BY DEF InOrder
<1> HIDE DEF n, list
<1>3. \A i \in 1 .. n : list[i] \in S /\ Cardinality(below[list[i]]) = i - 1
  BY <1>1, <1>2
<1>4. list \in [1 .. n -> S] /\ list \in Seq(S)
  BY <1>1, <1>2, <1>3
<1>5. ASSUME NEW x \in S PROVE \E i \in 1 .. n : list[i] = x
  <2> DEFINE i == Cardinality(below[x]) + 1
  <2>1. i \in 1 .. n /\ Cardinality(below[x]) = i - 1
    BY <1>1
  <2> HIDE DEF i
  <2> QED BY <2>1, <1>1, <1>3
<1>6. ToSet(list) = S
  BY <1>4, <1>5 DEF ToSet
<1> QED BY <1>1, <1>4, <1>5, <1>6 DEF n, list

\* Naturals, in their order.
LEMMA AscendingLists ==
  ASSUME NEW S \in SUBSET Nat, IsFiniteSet(S)
  PROVE  /\ Cardinality(S) \in Nat
         /\ Ascending(S) \in [1 .. Cardinality(S) -> S]
         /\ \A x \in S : \E i \in 1 .. Cardinality(S) : Ascending(S)[i] = x
         /\ ToSet(Ascending(S)) = S
<1> DEFINE below == [x \in S |-> {y \in S : y < x}]
<1>1. below \in [S -> SUBSET S] /\ \A x \in S : below[x] = {y \in S : y < x}
  OBVIOUS
<1>2. Ascending(S) = InOrder(S, below)
  BY Zenon DEF Ascending
<1> HIDE DEF below
<1>3. /\ \A x \in S : x \notin below[x]
      /\ \A x, y \in S : x = y \/ x \in below[y] \/ y \in below[x]
  BY <1>1
<1>4. ASSUME NEW x \in S, NEW y \in S, y \in below[x] PROVE below[y] \subseteq below[x]
  <2>1. y < x /\ below[y] = {z \in S : z < y} /\ below[x] = {z \in S : z < x}
    BY <1>1, <1>4
  <2>2. ASSUME NEW z \in S, z < y PROVE z < x
    <3>1. x \in Nat /\ y \in Nat /\ z \in Nat
      OBVIOUS
    <3> QED BY <2>1, <2>2, <3>1
  <2> QED BY <2>1, <2>2
<1>5. /\ Cardinality(S) \in Nat
      /\ InOrder(S, below) \in [1 .. Cardinality(S) -> S]
      /\ \A x \in S : \E i \in 1 .. Cardinality(S) : InOrder(S, below)[i] = x
      /\ ToSet(InOrder(S, below)) = S
  <2>1. \A x, y \in S : y \in below[x] => below[y] \subseteq below[x]
    BY <1>4
  <2>2. below \in [S -> SUBSET S]
    BY <1>1
  <2>3. InOrder(S, below) \in [1 .. Cardinality(S) -> S]
    BY <1>3, <2>1, <2>2, Listed
  <2>4. ToSet(InOrder(S, below)) = S
    BY <1>3, <2>1, <2>2, Listed
  <2>5. Cardinality(S) \in Nat
    BY FS_CardinalityType
  <2>6. \A x \in S : \E i \in 1 .. Cardinality(S) : InOrder(S, below)[i] = x
    BY <2>3, <2>4 DEF ToSet
  <2> QED BY <2>3, <2>4, <2>5, <2>6
<1> QED BY <1>2, <1>5

\* Entries of a sequence, picked by their places.
LEMMA PickedLists ==
  ASSUME NEW seq, NEW n \in Nat, NEW I \in SUBSET (1 .. n)
  PROVE  /\ Cardinality(I) \in Nat
         /\ Picked(seq, I) = [k \in 1 .. Cardinality(I) |-> Picked(seq, I)[k]]
         /\ ToSet(Picked(seq, I)) = {seq[i] : i \in I}
         /\ \A T : {seq[i] : i \in I} \subseteq T => Picked(seq, I) \in Seq(T)
<1>1. IsFiniteSet(I) /\ I \in SUBSET Nat
  <2>1. IsFiniteSet(1 .. n)
    BY FS_Interval
  <2>2. IsFiniteSet(I)
    BY <2>1, FS_Subset
  <2>3. I \subseteq Nat
    OBVIOUS
  <2> QED BY <2>2, <2>3
<1> DEFINE places == Ascending(I)
<1>2. /\ Cardinality(I) \in Nat
      /\ places \in [1 .. Cardinality(I) -> I]
      /\ \A x \in I : \E i \in 1 .. Cardinality(I) : places[i] = x
  BY <1>1, AscendingLists
<1>3. Picked(seq, I) = [k \in 1 .. Cardinality(I) |-> seq[places[k]]]
  BY DEF Picked
<1> HIDE DEF places
<1>4. ToSet(Picked(seq, I)) = {seq[places[k]] : k \in 1 .. Cardinality(I)}
  BY <1>3 DEF ToSet
<1>5. {seq[places[k]] : k \in 1 .. Cardinality(I)} = {seq[i] : i \in I}
  BY <1>2
<1>6. ASSUME NEW T, {seq[i] : i \in I} \subseteq T PROVE Picked(seq, I) \in Seq(T)
  <2>1. \A k \in 1 .. Cardinality(I) : seq[places[k]] \in T
    BY <1>2, <1>6
  <2> QED BY <2>1, <1>2, <1>3
<1> QED BY <1>2, <1>3, <1>4, <1>5, <1>6

\* What summing does with the rest of a set.
SumStep(sum, f, s) == IF s = {} THEN 0 ELSE LET x == CHOOSE x \in s : TRUE IN f[x] + sum[s \ {x}]

\* The recursion of Total has a solution over the subsets of a finite set.
LEMMA SumExists ==
  ASSUME NEW D, IsFiniteSet(D), NEW f
  PROVE  \E sum : sum = [s \in SUBSET D |-> SumStep(sum, f, s)]
<1> DEFINE Solves(m, n) == /\ m = [s \in SUBSET D |-> m[s]]
                           /\ \A s \in SUBSET D : Cardinality(s) <= n => m[s] = SumStep(m, f, s)
           Bad == {n \in Nat : ~ \E m : Solves(m, n)}
<1>0. \A s \in SUBSET D : IsFiniteSet(s) /\ Cardinality(s) \in Nat
  BY FS_Subset, FS_CardinalityType
<1>9. ASSUME NEW s \in SUBSET D, s # {}
      PROVE  LET r == s \ {CHOOSE x \in s : TRUE}
             IN r \in SUBSET D /\ Cardinality(r) = Cardinality(s) - 1
  <2>1. (CHOOSE x \in s : TRUE) \in s
    BY <1>9
  <2> QED BY <2>1, <1>0, FS_RemoveElement
<1>1. Bad = {}
  <2> SUFFICES ASSUME Bad # {} PROVE FALSE
    OBVIOUS
  <2>1. PICK n \in Bad : \A l \in Bad : n <= l
    <3>1. Bad \in SUBSET Nat
      OBVIOUS
    <3> HIDE DEF Bad
    <3> QED BY <3>1, Least
  <2>2. n \in Nat /\ ~ \E m : Solves(m, n)
    OBVIOUS
  <2>3. PICK m : m = [s \in SUBSET D |-> m[s]]
                 /\ \A s \in SUBSET D : Cardinality(s) < n => m[s] = SumStep(m, f, s)
    <3>1. CASE n = 0
      <4> DEFINE m == [s \in SUBSET D |-> 0]
      <4>1. m = [s \in SUBSET D |-> m[s]] /\ \A s \in SUBSET D : ~ (Cardinality(s) < n)
        BY <3>1, <1>0
      <4> HIDE DEF m
      <4> QED BY <4>1
    <3>2. CASE n # 0
      <4>1. n - 1 \in Nat /\ n - 1 \notin Bad
        <5> HIDE DEF Bad
        <5> QED BY <2>1, <2>2, <3>2
      <4>2. PICK m : Solves(m, n - 1)
        BY <4>1
      <4>3. \A s \in SUBSET D : Cardinality(s) < n => Cardinality(s) <= n - 1
        BY <2>2, <1>0
      <4> QED BY <4>2, <4>3
    <3> QED BY <3>1, <3>2
  <2> HIDE DEF Bad
  <2> DEFINE g == [s \in SUBSET D |-> IF Cardinality(s) = n THEN SumStep(m, f, s) ELSE m[s]]
  <2>4. /\ g = [s \in SUBSET D |-> g[s]]
        /\ \A s \in SUBSET D : Cardinality(s) = n => g[s] = SumStep(m, f, s)
        /\ \A s \in SUBSET D : Cardinality(s) < n => g[s] = m[s]
    BY <1>0, <2>2
  <2> HIDE DEF g
  <2>5. ASSUME NEW s \in SUBSET D, Cardinality(s) <= n PROVE SumStep(g, f, s) = SumStep(m, f, s)
    <3>1. CASE s = {}
      BY <3>1 DEF SumStep
    <3>2. CASE s # {}
      <4> DEFINE r == s \ {CHOOSE x \in s : TRUE}
      <4>1. r \in SUBSET D /\ Cardinality(r) < n
        BY <1>9, <1>0, <2>2, <2>5, <3>2
      <4>2. g[r] = m[r]
        BY <2>4, <4>1
      <4> QED BY <3>2, <4>2 DEF SumStep
    <3> QED BY <3>1, <3>2
  <2>6. ASSUME NEW s \in SUBSET D, Cardinality(s) <= n PROVE g[s] = SumStep(g, f, s)
    <3>1. Cardinality(s) = n \/ Cardinality(s) < n
      BY <1>0, <2>2, <2>6
    <3> QED BY <3>1, <2>3, <2>4, <2>5, <2>6
  <2> QED BY <2>2, <2>4, <2>6
<1>2. Cardinality(D) \in Nat /\ Cardinality(D) \notin Bad
  BY <1>1, FS_CardinalityType
<1>3. PICK m : Solves(m, Cardinality(D))
  BY <1>2
<1>4. \A s \in SUBSET D : Cardinality(s) <= Cardinality(D)
  BY FS_Subset
<1>5. m = [s \in SUBSET D |-> SumStep(m, f, s)]
  BY <1>3, <1>4
<1> QED BY <1>5

\* Finitely many naturals have a natural for their total.
LEMMA TotalType ==
  ASSUME NEW f, IsFiniteSet(DOMAIN f), \A x \in DOMAIN f : f[x] \in Nat
  PROVE  Total(f) \in Nat
<1> DEFINE D == DOMAIN f
           Is(m) == m = [s \in SUBSET D |-> SumStep(m, f, s)]
           It == CHOOSE m : Is(m)
<1>1. Total(f) = It[D]
  BY Zenon DEF Total, MapThenSumSet, MapThenFoldSet, SumStep
<1>2. \E m : Is(m)
  <2>1. IsFiniteSet(D)
    OBVIOUS
  <2>2. \E m : m = [s \in SUBSET D |-> SumStep(m, f, s)]
    <3> PICK S : S = D
      OBVIOUS
    <3> QED BY <2>1, SumExists
  <2> QED BY <2>2
<1>3. Is(It)
  <2> HIDE DEF Is
  <2> QED BY <1>2
<1> HIDE DEF It
<1>4. It = [s \in SUBSET D |-> SumStep(It, f, s)]
  BY <1>3
<1>5. \A s \in SUBSET D : It[s] = SumStep(It, f, s)
  BY <1>4
<1> DEFINE Bad == {n \in Nat : \E s \in SUBSET D : Cardinality(s) = n /\ It[s] \notin Nat}
<1>0. \A s \in SUBSET D : IsFiniteSet(s) /\ Cardinality(s) \in Nat
  BY FS_Subset, FS_CardinalityType
<1>6. Bad = {}
  <2> SUFFICES ASSUME Bad # {} PROVE FALSE
    OBVIOUS
  <2>1. PICK n \in Bad : \A l \in Bad : n <= l
    <3>1. Bad \in SUBSET Nat
      OBVIOUS
    <3> HIDE DEF Bad
    <3> QED BY <3>1, Least
  <2>2. PICK s \in SUBSET D : Cardinality(s) = n /\ It[s] \notin Nat
    OBVIOUS
  <2>3. s # {}
    BY <1>5, <2>2 DEF SumStep
  <2> DEFINE x == CHOOSE x \in s : TRUE
  <2>4. x \in s /\ x \in D
    BY <2>3
  <2>5. s \ {x} \in SUBSET D /\ Cardinality(s \ {x}) = n - 1 /\ n \in Nat
    BY <2>2, <2>4, <1>0, FS_RemoveElement
  <2>6. It[s] = f[x] + It[s \ {x}]
    BY <1>5, <2>3 DEF SumStep
  <2> HIDE DEF x
  <2>7. It[s \ {x}] \notin Nat
    BY <2>2, <2>4, <2>6
  <2>8. n - 1 \in Bad
    BY <2>5, <2>7, <1>0
  <2> QED BY <2>1, <2>5, <2>8
<1>7. It[D] \in Nat
  BY <1>0, <1>6
<1> QED BY <1>1, <1>7

-----------------------------------------------------------------------------
(* What the walk is given.                                                 *)

\* A database and a request as they may be.
Given == snapshot \in Snapshots /\ request \in Requests

\* The entities of an Atlas are finitely many ids; its relationships join ids, of entities or not.
LEMMA AtlasIs ==
  ASSUME Given
  PROVE  /\ Ids \subseteq Nat
         /\ Known \subseteq Ids
         /\ IsFiniteSet(Known)
         /\ snapshot.first \in Known
         /\ IsFiniteSet(snapshot.edges)
         /\ \A e \in snapshot.edges : e.id \in Nat /\ e.source \in Ids /\ e.target \in Ids
         /\ \A e, f \in snapshot.edges : e.id = f.id => e = f
BY OrbitAssumption DEF Given, Known, Edge

\* What a request asks.
LEMMA RequestIs ==
  ASSUME Given
  PROVE  /\ request.mode \in {"focus", "compare"}
         /\ request.targets \in Seq(Ids \cup {NoId})
         /\ request.depth \in Nat
         /\ request.budget \in Nat
         /\ request.dimensions \subseteq Dimensions
         /\ \A x \in Ids : request.matched[x] \in Nat
BY OrbitAssumption DEF Given

\* The relationships of an entity, all of them and no other.
LEMMA ByIdLists ==
  ASSUME Given, NEW es \in SUBSET snapshot.edges
  PROVE  /\ ById(es) \in Seq(es)
         /\ ToSet(ById(es)) = es
<1>0. IsFiniteSet(es)
  BY AtlasIs, FS_Subset
<1>1. PICK below : below = [e \in es |-> {f \in es : f.id < e.id}]
  OBVIOUS
<1>2. below \in [es -> SUBSET es] /\ \A x \in es : below[x] = {f \in es : f.id < x.id}
  BY <1>1
<1>3. \A x \in es : x.id \in Nat
  BY AtlasIs
<1>4. \A x \in es : x \notin below[x]
  BY <1>2, <1>3
<1>5. ASSUME NEW x \in es, NEW y \in es PROVE x = y \/ x \in below[y] \/ y \in below[x]
  <2>1. x.id = y.id \/ x.id < y.id \/ y.id < x.id
    BY <1>3
  <2>2. x.id = y.id => x = y
    BY AtlasIs
  <2> QED BY <2>1, <2>2, <1>2
<1>6. ASSUME NEW x \in es, NEW y \in es, y \in below[x] PROVE below[y] \subseteq below[x]
  <2>1. y.id < x.id
    BY <1>2, <1>6
  <2>2. ASSUME NEW z \in es, z.id < y.id PROVE z.id < x.id
    <3>1. x.id \in Nat /\ y.id \in Nat /\ z.id \in Nat
      BY <1>3
    <3> QED BY <2>1, <2>2, <3>1
  <2> QED BY <2>2, <1>2
<1>7. ById(es) = InOrder(es, below)
  BY <1>1 DEF ById
<1>8. \A x, y \in es : y \in below[x] => below[y] \subseteq below[x]
  BY <1>6
<1>9. InOrder(es, below) \in Seq(es) /\ ToSet(InOrder(es, below)) = es
  BY <1>0, <1>2, <1>4, <1>5, <1>8, Listed
<1> QED BY <1>7, <1>9

\* What two sequences hold, one after the other.
LEMMA Joined ==
  ASSUME NEW S, NEW T, NEW s \in Seq(S), NEW t \in Seq(T)
  PROVE  /\ s \o t \in Seq(S \cup T)
         /\ ToSet(s \o t) = ToSet(s) \cup ToSet(t)
<1>1. Len(s) \in Nat /\ Len(t) \in Nat /\ DOMAIN s = 1 .. Len(s) /\ DOMAIN t = 1 .. Len(t)
  OBVIOUS
<1>2. /\ Len(s \o t) = Len(s) + Len(t) /\ DOMAIN (s \o t) = 1 .. Len(s) + Len(t)
      /\ s \o t \in Seq(S \cup T)
  OBVIOUS
<1>3. /\ \A i \in 1 .. Len(s) : (s \o t)[i] = s[i]
      /\ \A i \in Len(s) + 1 .. Len(s) + Len(t) : (s \o t)[i] = t[i - Len(s)]
  OBVIOUS
<1>4. ASSUME NEW x \in ToSet(s \o t) PROVE x \in ToSet(s) \cup ToSet(t)
  <2>1. PICK i \in 1 .. Len(s) + Len(t) : x = (s \o t)[i]
    BY <1>2 DEF ToSet
  <2>2. CASE i <= Len(s)
    BY <1>1, <1>3, <2>1, <2>2 DEF ToSet
  <2>3. CASE ~ (i <= Len(s))
    <3>1. i - Len(s) \in 1 .. Len(t) /\ i \in Len(s) + 1 .. Len(s) + Len(t)
      BY <1>1, <2>3
    <3> QED BY <1>1, <1>3, <2>1, <3>1 DEF ToSet
  <2> QED BY <2>2, <2>3
<1>5. ASSUME NEW x \in ToSet(s) PROVE x \in ToSet(s \o t)
  <2>1. PICK i \in 1 .. Len(s) : x = s[i]
    BY <1>1 DEF ToSet
  <2>2. i \in 1 .. Len(s) + Len(t) /\ x = (s \o t)[i]
    BY <1>1, <1>3, <2>1
  <2> QED BY <1>2, <2>2 DEF ToSet
<1>6. ASSUME NEW x \in ToSet(t) PROVE x \in ToSet(s \o t)
  <2>1. PICK i \in 1 .. Len(t) : x = t[i]
    BY <1>1 DEF ToSet
  <2>2. i + Len(s) \in Len(s) + 1 .. Len(s) + Len(t) /\ i + Len(s) \in 1 .. Len(s) + Len(t)
    BY <1>1
  <2>3. (i + Len(s)) - Len(s) = i
    BY <1>1
  <2>4. x = (s \o t)[i + Len(s)]
    BY <1>3, <2>1, <2>2, <2>3
  <2> QED BY <1>2, <2>2, <2>4 DEF ToSet
<1> QED BY <1>2, <1>4, <1>5, <1>6

\* Around an entity are the relationships from it and to it.
LEMMA AroundIs ==
  ASSUME Given, NEW id
  PROVE  /\ Around(id) \in Seq(outgoing(id) \cup incoming(id))
         /\ ToSet(Around(id)) = outgoing(id) \cup incoming(id)
         /\ outgoing(id) \cup incoming(id)
              = {e \in snapshot.edges : Followed(e) /\ id \in {e.source, e.target}}
<1>1. outgoing(id) \in SUBSET snapshot.edges /\ incoming(id) \in SUBSET snapshot.edges
  BY DEF outgoing, incoming
<1>2. /\ ById(outgoing(id)) \in Seq(outgoing(id)) /\ ToSet(ById(outgoing(id))) = outgoing(id)
      /\ ById(incoming(id)) \in Seq(incoming(id)) /\ ToSet(ById(incoming(id))) = incoming(id)
  BY <1>1, ByIdLists
<1>3. /\ Around(id) \in Seq(outgoing(id) \cup incoming(id))
      /\ ToSet(Around(id)) = outgoing(id) \cup incoming(id)
  <2>1. PICK out, in : out = ById(outgoing(id)) /\ in = ById(incoming(id))
    OBVIOUS
  <2>2. out \in Seq(outgoing(id)) /\ in \in Seq(incoming(id))
    BY <1>2, <2>1
  <2>3. /\ out \o in \in Seq(outgoing(id) \cup incoming(id))
        /\ ToSet(out \o in) = ToSet(out) \cup ToSet(in)
    BY <2>2, Joined
  <2>4. Around(id) = out \o in
    BY <2>1 DEF Around
  <2> QED BY <1>2, <2>1, <2>3, <2>4
<1>4. outgoing(id) \cup incoming(id)
              = {e \in snapshot.edges : Followed(e) /\ id \in {e.source, e.target}}
  BY DEF outgoing, incoming
<1> QED BY <1>3, <1>4

\* What a visit finds: all that is beyond a relationship and was not reached yet.
LEMMA FreshIs ==
  ASSUME Given, NEW id
  PROVE  /\ Fresh(id) \in Seq(Ids)
         /\ ToSet(Fresh(id)) =
              {Beyond(e, id) : e \in outgoing(id) \cup incoming(id)} \ DOMAIN depths
<1>1. PICK around : around = Around(id)
  OBVIOUS
<1>2. PICK beyond : beyond = [i \in DOMAIN around |-> Beyond(around[i], id)]
  OBVIOUS
<1>3. PICK first : first = {i \in DOMAIN beyond : /\ beyond[i] \notin DOMAIN depths
                                                  /\ \A j \in 1 .. i - 1 : beyond[j] # beyond[i]}
  OBVIOUS
<1>4. Fresh(id) = Picked(beyond, first)
  BY <1>1, <1>2, <1>3 DEF Fresh
<1>5. /\ around \in Seq(outgoing(id) \cup incoming(id))
      /\ ToSet(around) = outgoing(id) \cup incoming(id)
  BY <1>1, AroundIs
<1> DEFINE n == Len(around)
<1>6. n \in Nat /\ DOMAIN around = 1 .. n
  BY <1>5
<1> HIDE DEF n
<1>7. DOMAIN beyond = 1 .. n /\ \A i \in 1 .. n : beyond[i] = Beyond(around[i], id)
  BY <1>2, <1>6
<1>8. first \in SUBSET (1 .. n)
  BY <1>3, <1>7
<1>9. /\ ToSet(Picked(beyond, first)) = {beyond[i] : i \in first}
      /\ \A T : {beyond[i] : i \in first} \subseteq T => Picked(beyond, first) \in Seq(T)
  BY <1>6, <1>8, PickedLists
<1>10. {beyond[i] : i \in 1 .. n} = {Beyond(e, id) : e \in outgoing(id) \cup incoming(id)}
  <2>1. ToSet(around) = {around[i] : i \in 1 .. n}
    BY <1>6 DEF ToSet
  <2> QED BY <2>1, <1>5, <1>7
<1>11. ASSUME NEW i \in 1 .. n, beyond[i] \notin DOMAIN depths PROVE \E j \in first : beyond[j] = beyond[i]
  <2> DEFINE Same == {j \in 1 .. n : beyond[j] = beyond[i]}
  <2>1. Same \in SUBSET Nat /\ Same # {}
    BY <1>6
  <2>2. PICK j \in Same : \A k \in Same : j <= k
    <3> HIDE DEF Same
    <3> QED BY <2>1, Least
  <2>3. ASSUME NEW k \in 1 .. j - 1 PROVE beyond[k] # beyond[j]
    <3>1. k \in 1 .. n /\ ~ (j <= k)
      BY <1>6, <2>2
    <3> QED BY <3>1, <2>2
  <2>4. j \in first
    BY <1>3, <1>7, <1>11, <2>2, <2>3
  <2> QED BY <2>2, <2>4
<1>12. {beyond[i] : i \in first} = {beyond[i] : i \in 1 .. n} \ DOMAIN depths
  BY <1>3, <1>7, <1>11
<1>13. {beyond[i] : i \in first} \subseteq Ids
  <2>1. \A e \in outgoing(id) \cup incoming(id) : Beyond(e, id) \in Ids
    BY AtlasIs DEF outgoing, incoming, Beyond
  <2> QED BY <2>1, <1>10, <1>12
<1> QED BY <1>4, <1>9, <1>10, <1>12, <1>13

-----------------------------------------------------------------------------
(* Where an Orbit starts.                                                  *)

\* Names without an id are left out.
LEMMA TargetsAre ==
  ASSUME Given
  PROVE  Targets \in Seq(Ids)
<1>1. PICK named : named = request.targets
  OBVIOUS
<1>2. named \in Seq(Ids \cup {NoId})
  BY <1>1, RequestIs
<1>3. Len(named) \in Nat /\ DOMAIN named = 1 .. Len(named)
  BY <1>2
<1>4. PICK I : I = {i \in DOMAIN named : named[i] # NoId}
  OBVIOUS
<1>5. I \in SUBSET (1 .. Len(named)) /\ {named[i] : i \in I} \subseteq Ids
  BY <1>2, <1>3, <1>4
<1>6. Picked(named, I) \in Seq(Ids)
  BY <1>3, <1>5, PickedLists
<1>7. Targets = Picked(named, I)
  BY <1>1, <1>4 DEF Targets
<1> QED BY <1>6, <1>7

\* The best answers to the words of the task, listed.
LEMMA BestLists ==
  ASSUME Given, NEW S \in SUBSET Known
  PROVE  InOrder(S, [x \in S |-> {y \in S : Better(y, x)}]) \in Seq(S)
<1>0. IsFiniteSet(S) /\ S \subseteq Nat /\ \A x \in S : request.matched[x] \in Nat
  BY AtlasIs, RequestIs, FS_Subset
<1>1. PICK below : below = [x \in S |-> {y \in S : Better(y, x)}]
  OBVIOUS
<1>2. below \in [S -> SUBSET S] /\ \A x \in S : below[x] = {y \in S : Better(y, x)}
  BY <1>1
<1>3. \A x, y \in S : y \in below[x] <=> Better(y, x)
  BY <1>2
<1>4. \A x \in S : x \notin below[x]
  BY <1>0, <1>3 DEF Better
<1>5. \A x, y \in S : x = y \/ x \in below[y] \/ y \in below[x]
  BY <1>0, <1>3 DEF Better
<1>6. ASSUME NEW x \in S, NEW y \in S, y \in below[x], NEW z \in S, z \in below[y] PROVE z \in below[x]
  <2>1. /\ x \in Nat /\ y \in Nat /\ z \in Nat
        /\ request.matched[x] \in Nat /\ request.matched[y] \in Nat /\ request.matched[z] \in Nat
    BY <1>0
  <2>2. Better(y, x) /\ Better(z, y)
    BY <1>3, <1>6
  <2>3. Better(z, x)
    BY <2>1, <2>2 DEF Better
  <2> QED BY <1>3, <2>3
<1>7. \A x, y \in S : y \in below[x] => below[y] \subseteq below[x]
  BY <1>2, <1>6
<1>8. InOrder(S, below) \in Seq(S)
  BY <1>0, <1>2, <1>4, <1>5, <1>7, Listed
<1> QED BY <1>1, <1>8

\* Starts are ids.
LEMMA StartsAre ==
  ASSUME Given
  PROVE  choose_starts \in Seq(Ids)
<1>1. CASE request.mode = "compare" \/ request.targets # <<>>
  BY <1>1, TargetsAre DEF choose_starts
<1>2. CASE ~ (request.mode = "compare" \/ request.targets # <<>>)
  <2>1. PICK matching : matching = {x \in Known : request.matched[x] > 0}
    OBVIOUS
  <2>2. PICK best : best = InOrder(matching, [x \in matching |-> {y \in matching : Better(y, x)}])
    OBVIOUS
  <2>3. matching \in SUBSET Known
    BY <2>1
  <2>4. best \in Seq(matching)
    BY <2>2, <2>3, BestLists
  <2>5. choose_starts = [i \in DOMAIN best \cap 1 .. MaxStarts |-> best[i]]
    BY <1>2, <2>1, <2>2 DEF choose_starts
  <2>6. Len(best) \in Nat /\ DOMAIN best = 1 .. Len(best) /\ MaxStarts \in Nat
        /\ \A i \in 1 .. Len(best) : best[i] \in Ids
    BY <2>3, <2>4, AtlasIs, OrbitAssumption
  <2> DEFINE n == IF Len(best) < MaxStarts THEN Len(best) ELSE MaxStarts
  <2>7. n \in Nat /\ DOMAIN best \cap 1 .. MaxStarts = 1 .. n
    BY <2>6
  <2> HIDE DEF n
  <2>8. \A i \in 1 .. n : best[i] \in Ids
    BY <2>6, <2>7
  <2>9. choose_starts = [i \in 1 .. n |-> best[i]]
    BY <2>5, <2>7
  <2>10. [i \in 1 .. n |-> best[i]] \in Seq(Ids)
    BY <2>7, <2>8
  <2> QED BY <2>9, <2>10
<1> QED BY <1>1, <1>2

\* Roots are ids, and are listed.
LEMMA RootsAre ==
  ASSUME Given
  PROVE  /\ Roots \subseteq Ids
         /\ Roots # {}
         /\ RootList \in Seq(Ids)
         /\ ToSet(RootList) = Roots
<1>1. PICK starts : starts = choose_starts
  OBVIOUS
<1>2. starts \in Seq(Ids)
  BY <1>1, StartsAre
<1>3. DOMAIN starts = 1 .. Len(starts) /\ Len(starts) \in Nat /\ ToSet(starts) \subseteq Ids
  BY <1>2 DEF ToSet
<1>4. CASE request.scale = Adaptive /\ starts # <<>>
  <2>1. zoom_roots = ToSet(starts) /\ RootList = starts
    BY <1>1, <1>4 DEF zoom_roots, RootList
  <2>2. ToSet(starts) # {}
    <3>1. 1 \in DOMAIN starts
      BY <1>2, <1>3, <1>4
    <3> QED BY <3>1 DEF ToSet
  <2>3. Roots = ToSet(starts)
    BY <2>1, <2>2 DEF Roots
  <2> QED BY <1>2, <1>3, <2>1, <2>2, <2>3
<1>5. CASE ~ (request.scale = Adaptive /\ starts # <<>>)
  <2>1. zoom_roots \subseteq Known
    <3>1. CASE request.scale = Adaptive
      <4>1. starts = <<>> /\ zoom_roots = ToSet(starts)
        BY <1>1, <1>5, <3>1 DEF zoom_roots
      <4> QED BY <4>1 DEF ToSet
    <3>2. CASE request.scale # Adaptive
      <4>1. \A id \in Known : ZoomedFrom(id) \subseteq Known
        BY DEF ZoomedFrom, ancestors_of, descendants_of
      <4>2. zoom_roots = UNION {ZoomedFrom(id) : id \in ToSet(choose_starts) \cap Known}
        BY <3>2 DEF zoom_roots
      <4> QED BY <4>1, <4>2
    <3> QED BY <3>1, <3>2
  <2>2. Roots \subseteq Known /\ Roots # {}
    BY <2>1, AtlasIs DEF Roots
  <2>3. RootList = Ascending(Roots)
    BY <1>1, <1>5 DEF RootList
  <2>4. IsFiniteSet(Roots) /\ Roots \in SUBSET Nat /\ Roots \subseteq Ids
    BY <2>2, AtlasIs, FS_Subset
  <2>5. /\ Cardinality(Roots) \in Nat
        /\ Ascending(Roots) \in [1 .. Cardinality(Roots) -> Roots]
        /\ ToSet(Ascending(Roots)) = Roots
    BY <2>4, AscendingLists
  <2>6. Ascending(Roots) \in Seq(Ids)
    <3>1. PICK list, n : list = Ascending(Roots) /\ n = Cardinality(Roots)
      OBVIOUS
    <3>2. n \in Nat /\ list \in [1 .. n -> Ids]
      BY <2>4, <2>5, <3>1
    <3> QED BY <3>1, <3>2
  <2> QED BY <2>2, <2>3, <2>4, <2>5, <2>6
<1> QED BY <1>4, <1>5
-----------------------------------------------------------------------------
(* Distances.                                                              *)

\* One relationship further.
Widened(S) == S \cup UNION {{e.source, e.target} :
                e \in {f \in snapshot.edges : Followed(f) /\ {f.source, f.target} \cap S # {}}}

\* Ball's recursion.
SolvesBall(ball, d, roots) ==
    ball = [n \in 0 .. d |-> IF n = 0 THEN roots ELSE Widened(ball[n - 1])]

\* It has a solution.
LEMMA BallExists ==
  ASSUME NEW d \in Nat, NEW roots
  PROVE  \E ball : SolvesBall(ball, d, roots)
<1> DEFINE Step(b, n) == IF n = 0 THEN roots ELSE Widened(b[n - 1])
           Solves(b, m) == /\ b = [n \in 0 .. d |-> b[n]]
                           /\ \A n \in 0 .. d : n <= m => b[n] = Step(b, n)
           Bad == {m \in Nat : ~ \E b : Solves(b, m)}
<1>1. Bad = {}
  <2> SUFFICES ASSUME Bad # {} PROVE FALSE
    OBVIOUS
  <2>1. PICK m \in Bad : \A l \in Bad : m <= l
    <3>1. Bad \in SUBSET Nat
      OBVIOUS
    <3> HIDE DEF Bad
    <3> QED BY <3>1, Least
  <2>2. m \in Nat /\ ~ \E b : Solves(b, m)
    OBVIOUS
  <2>3. PICK b : b = [n \in 0 .. d |-> b[n]] /\ \A n \in 0 .. d : n < m => b[n] = Step(b, n)
    <3>1. CASE m = 0
      <4> DEFINE b == [n \in 0 .. d |-> {}]
      <4>1. b = [n \in 0 .. d |-> b[n]] /\ \A n \in 0 .. d : ~ (n < m)
        BY <3>1
      <4> HIDE DEF b
      <4> QED BY <4>1
    <3>2. CASE m # 0
      <4>1. m - 1 \in Nat /\ m - 1 \notin Bad
        <5> HIDE DEF Bad
        <5> QED BY <2>1, <2>2, <3>2
      <4>2. PICK b : Solves(b, m - 1)
        BY <4>1
      <4>3. \A n \in 0 .. d : n < m => n <= m - 1
        BY <2>2
      <4> QED BY <4>2, <4>3
    <3> QED BY <3>1, <3>2
  <2> HIDE DEF Bad
  <2> DEFINE c == [n \in 0 .. d |-> IF n = m THEN Step(b, n) ELSE b[n]]
  <2>4. /\ c = [n \in 0 .. d |-> c[n]]
        /\ \A n \in 0 .. d : n = m => c[n] = Step(b, n)
        /\ \A n \in 0 .. d : n < m => c[n] = b[n]
    BY <2>2
  <2> HIDE DEF c
  <2>5. ASSUME NEW n \in 0 .. d, n <= m PROVE Step(c, n) = Step(b, n)
    <3>1. n = 0 \/ c[n - 1] = b[n - 1]
      BY <2>2, <2>4, <2>5
    <3> QED BY <3>1
  <2>6. ASSUME NEW n \in 0 .. d, n <= m PROVE c[n] = Step(c, n)
    <3>1. n = m \/ n < m
      BY <2>2, <2>6
    <3> HIDE DEF Step
    <3> QED BY <3>1, <2>3, <2>4, <2>5, <2>6
  <2> QED BY <2>2, <2>4, <2>6
<1>2. d \notin Bad
  BY <1>1
<1>3. PICK b : Solves(b, d)
  BY <1>2
<1>4. b = [n \in 0 .. d |-> b[n]] /\ \A n \in 0 .. d : b[n] = Step(b, n)
  BY <1>3
<1>5. b = [n \in 0 .. d |-> Step(b, n)]
  <2> HIDE DEF Step
  <2> QED BY <1>4
<1> QED BY <1>5 DEF SolvesBall

\* What lies within n relationships.
LEMMA BallIs ==
  ASSUME Given
  PROVE  /\ Ball[0] = Roots
         /\ \A n \in 1 .. request.depth : Ball[n] = Widened(Ball[n - 1])
<1>0. request.depth \in Nat
  BY RequestIs
<1>1. PICK roots, d : roots = Roots /\ d = request.depth
  OBVIOUS
<1> DEFINE It == CHOOSE ball : SolvesBall(ball, d, roots)
<1>2. Ball = It
  BY <1>1 DEF Ball, Widened, SolvesBall
<1>3. \E ball : SolvesBall(ball, d, roots)
  BY <1>0, <1>1, BallExists
<1>4. SolvesBall(It, d, roots)
  BY <1>3, Zenon
<1> HIDE DEF It
<1>5. It = [n \in 0 .. d |-> IF n = 0 THEN roots ELSE Widened(It[n - 1])]
  BY <1>4 DEF SolvesBall
<1>6. It[0] = roots /\ \A n \in 1 .. d : It[n] = Widened(It[n - 1])
  BY <1>0, <1>1, <1>5
<1> QED BY <1>1, <1>2, <1>6

-----------------------------------------------------------------------------
(* The walk.                                                               *)

Touches(e, x) == e \in snapshot.edges /\ Followed(e) /\ x \in {e.source, e.target}

Queued(x) == \E i \in DOMAIN queue : queue[i][1] = x

\* Who is reached is within the distance the walk gives it; the queue holds those
\* reached and not yet visited, the nearest first, none more than one relationship
\* further than the head; and whatever is next to a visited entity is reached, no more
\* than one further.
ReachedAreNear ==
    /\ DOMAIN depths \subseteq Ids
    /\ Roots \subseteq DOMAIN depths
    /\ \A r \in Roots : depths[r] = 0
    /\ \A x \in DOMAIN depths : depths[x] \in 0 .. request.depth /\ x \in Ball[depths[x]]

QueueIsOrdered ==
    /\ queue \in Seq(Ids \X Nat)
    /\ \A i \in DOMAIN queue : /\ queue[i][1] \in DOMAIN depths
                               /\ queue[i][2] = depths[queue[i][1]]
    /\ \A i, j \in DOMAIN queue : i <= j => queue[i][2] <= queue[j][2]
    /\ queue # <<>> => \A x \in DOMAIN depths : depths[x] <= queue[1][2] + 1

VisitedAreClosed ==
    \A x \in DOMAIN depths : depths[x] < request.depth /\ ~ Queued(x) =>
      \A e \in snapshot.edges : Touches(e, x) =>
        /\ e \in edges
        /\ \A y \in {e.source, e.target} : y \in DOMAIN depths /\ depths[y] <= depths[x] + 1

MetAreNear ==
    \A e \in edges : \E x \in DOMAIN depths : depths[x] < request.depth /\ Touches(e, x)

Walking == ReachedAreNear /\ QueueIsOrdered /\ VisitedAreClosed /\ MetAreNear

\* A wider ball holds a narrower one.
LEMMA BallGrows ==
  ASSUME Given, NEW m \in 0 .. request.depth, NEW n \in m .. request.depth
  PROVE  Ball[m] \subseteq Ball[n]
<1>0. request.depth \in Nat
  BY RequestIs
<1> DEFINE Bad == {k \in m .. request.depth : ~ (Ball[m] \subseteq Ball[k])}
<1>1. Bad = {}
  <2> SUFFICES ASSUME Bad # {} PROVE FALSE
    OBVIOUS
  <2>1. PICK k \in Bad : \A l \in Bad : k <= l
    <3>1. Bad \in SUBSET Nat
      BY <1>0
    <3> HIDE DEF Bad
    <3> QED BY <3>1, Least
  <2>2. k # m
    OBVIOUS
  <2>3. k - 1 \in m .. request.depth /\ k \in 1 .. request.depth /\ k - 1 \notin Bad
    <3>1. k \in m .. request.depth
      OBVIOUS
    <3> HIDE DEF Bad
    <3> QED BY <1>0, <2>1, <2>2, <3>1
  <2>4. Ball[m] \subseteq Ball[k - 1]
    BY <2>3
  <2>5. Ball[k] = Widened(Ball[k - 1])
    BY <2>3, BallIs
  <2> QED BY <2>4, <2>5 DEF Widened
<1> QED BY <1>1

\* Who has a neighbour within a distance is itself within one more.
LEMMA NextToBall ==
  ASSUME Given, NEW n \in 1 .. request.depth, NEW x \in Ball[n - 1], NEW e, Touches(e, x)
  PROVE  e.source \in Ball[n] /\ e.target \in Ball[n]
<1>1. Ball[n] = Widened(Ball[n - 1])
  BY BallIs
<1> QED BY <1>1 DEF Widened, Touches

\* When nothing nearer than k is left to visit, all within k is reached, at its distance.
LEMMA ReachedWithin ==
  ASSUME Given, Walking, NEW k \in 0 .. request.depth,
         \A i \in DOMAIN queue : k <= queue[i][2]
  PROVE  \A n \in 0 .. k : \A y \in Ball[n] : y \in DOMAIN depths /\ depths[y] <= n
<1>0. request.depth \in Nat
  BY RequestIs
<1> DEFINE Holds(n) == \A y \in Ball[n] : y \in DOMAIN depths /\ depths[y] <= n
           Bad == {n \in 0 .. k : ~ Holds(n)}
<1> SUFFICES Bad = {}
  OBVIOUS
<1> SUFFICES ASSUME Bad # {} PROVE FALSE
  OBVIOUS
<1>1. PICK n \in Bad : \A l \in Bad : n <= l
  <2>1. Bad \in SUBSET Nat
    OBVIOUS
  <2> HIDE DEF Bad
  <2> QED BY <2>1, Least
<1>2. n \in 0 .. k /\ ~ Holds(n)
  OBVIOUS
<1>3. n # 0
  <2>1. Holds(0)
    BY BallIs DEF Walking, ReachedAreNear
  <2> QED BY <1>2, <2>1
<1>4. n \in 1 .. request.depth /\ n - 1 \in 0 .. k /\ n - 1 \in Nat
  BY <1>0, <1>2, <1>3
<1>5. Holds(n - 1)
  <2>1. n - 1 \notin Bad
    <3> HIDE DEF Bad
    <3> QED BY <1>1, <1>4, <1>2
  <2> QED BY <1>4, <2>1
<1>6. PICK y \in Ball[n] : ~ (y \in DOMAIN depths /\ depths[y] <= n)
  BY <1>2
<1>7. CASE y \in Ball[n - 1]
  <2>1. y \in DOMAIN depths /\ depths[y] <= n - 1 /\ depths[y] \in Nat
    BY <1>0, <1>5, <1>7 DEF Walking, ReachedAreNear
  <2> QED BY <1>2, <1>6, <2>1
<1>8. CASE y \notin Ball[n - 1]
  <2>1. Ball[n] = Widened(Ball[n - 1])
    BY <1>4, BallIs
  <2>2. PICK e \in snapshot.edges, x \in Ball[n - 1] :
              Followed(e) /\ x \in {e.source, e.target} /\ y \in {e.source, e.target}
    BY <1>8, <2>1 DEF Widened
  <2>3. x \in DOMAIN depths /\ depths[x] <= n - 1 /\ depths[x] \in Nat
    BY <1>0, <1>5 DEF Walking, ReachedAreNear
  <2>4. depths[x] < request.depth /\ depths[x] < k /\ depths[x] + 1 <= n
    BY <1>0, <1>2, <1>4, <2>3
  <2>5. ~ Queued(x)
    BY <2>3, <2>4 DEF Queued, Walking, QueueIsOrdered
  <2>6. y \in DOMAIN depths /\ depths[y] <= depths[x] + 1
    BY <2>2, <2>3, <2>4, <2>5 DEF Touches, Walking, VisitedAreClosed
  <2>7. depths[y] \in Nat
    BY <1>0, <2>6 DEF Walking, ReachedAreNear
  <2> QED BY <1>2, <1>6, <2>3, <2>4, <2>6, <2>7
<1> QED BY <1>7, <1>8

\* What WalkIsExact says of a walk that is over.
ExactWalk ==
    LET near == IF request.depth = 0 THEN {} ELSE Ball[request.depth - 1]
    IN /\ DOMAIN depths = Ball[request.depth]
       /\ \A x \in DOMAIN depths : \A n \in 0 .. request.depth : x \in Ball[n] <=> depths[x] <= n
       /\ edges = {e \in snapshot.edges : Followed(e) /\ {e.source, e.target} \cap near # {}}

\* A walk with nothing left to visit is exact.
LEMMA WalkEnds ==
  ASSUME Given, Walking, queue = <<>>
  PROVE  ExactWalk
<1>0. request.depth \in Nat /\ request.depth \in 0 .. request.depth
  BY RequestIs
<1>1. \A n \in 0 .. request.depth : \A y \in Ball[n] : y \in DOMAIN depths /\ depths[y] <= n
  <2>1. \A i \in DOMAIN queue : request.depth <= queue[i][2]
    OBVIOUS
  <2> QED BY <1>0, <2>1, ReachedWithin
<1>2. ASSUME NEW x \in DOMAIN depths, NEW n \in 0 .. request.depth, depths[x] <= n
      PROVE  x \in Ball[n]
  <2>1. depths[x] \in 0 .. request.depth /\ x \in Ball[depths[x]] /\ n \in depths[x] .. request.depth
    BY <1>0, <1>2 DEF Walking, ReachedAreNear
  <2> QED BY <2>1, BallGrows
<1>3. ASSUME NEW x \in DOMAIN depths PROVE x \in Ball[request.depth]
  <2>1. depths[x] <= request.depth
    BY <1>0 DEF Walking, ReachedAreNear
  <2> QED BY <1>0, <1>2, <2>1
<1>4. DOMAIN depths = Ball[request.depth]
  BY <1>0, <1>1, <1>3
<1> DEFINE near == IF request.depth = 0 THEN {} ELSE Ball[request.depth - 1]
<1>5. \A x \in DOMAIN depths : depths[x] < request.depth <=> x \in near
  <2> SUFFICES ASSUME NEW x \in DOMAIN depths PROVE depths[x] < request.depth <=> x \in near
    OBVIOUS
  <2>1. depths[x] \in Nat
    BY <1>0 DEF Walking, ReachedAreNear
  <2>2. CASE request.depth = 0
    BY <2>1, <2>2
  <2>3. CASE request.depth # 0
    <3>1. request.depth - 1 \in 0 .. request.depth
      BY <1>0, <2>3
    <3>2. x \in Ball[request.depth - 1] <=> depths[x] <= request.depth - 1
      BY <1>1, <1>2, <3>1
    <3> QED BY <1>0, <2>1, <2>3, <3>2
  <2> QED BY <2>2, <2>3
<1>6. near \subseteq DOMAIN depths
  BY <1>0, <1>1
<1> HIDE DEF near
<1>7. ASSUME NEW e \in edges
      PROVE  e \in snapshot.edges /\ Followed(e) /\ {e.source, e.target} \cap near # {}
  <2>1. PICK x \in DOMAIN depths : depths[x] < request.depth /\ Touches(e, x)
    BY DEF Walking, MetAreNear
  <2> QED BY <2>1, <1>5 DEF Touches
<1>8. ASSUME NEW e \in snapshot.edges, Followed(e), NEW x \in {e.source, e.target}, x \in near
      PROVE  e \in edges
  <2>1. x \in DOMAIN depths /\ depths[x] < request.depth
    BY <1>5, <1>6, <1>8
  <2>2. ~ Queued(x)
    BY DEF Queued
  <2> QED BY <2>1, <2>2, <1>8 DEF Touches, Walking, VisitedAreClosed
<1>9. edges = {e \in snapshot.edges : Followed(e) /\ {e.source, e.target} \cap near # {}}
  BY <1>7, <1>8
<1> QED BY <1>1, <1>2, <1>4, <1>9 DEF ExactWalk, near

\* What is asked and of which Atlas decides the roots, the distances and the
\* relationships that may be followed.
LEMMA SameQuestion ==
  ASSUME UNCHANGED <<snapshot, request>>
  PROVE  /\ Roots' = Roots
         /\ Ball' = Ball
         /\ Known' = Known
         /\ \A e, x : Touches(e, x)' = Touches(e, x)
<1>1. Known' = Known
  BY DEF Known
<1>2. Roots' = Roots
  BY DEF Roots, zoom_roots, ZoomedFrom, descendants_of, ancestors_of, Known, choose_starts, scale,
         Targets, Picked, Ascending, InOrder, Better, ToSet
<1>3. Ball' = Ball
  BY DEF Ball, Followed, Roots, zoom_roots, ZoomedFrom, descendants_of, ancestors_of, Known,
         choose_starts, scale, Targets, Picked, Ascending, InOrder, Better, ToSet
<1>4. \A e, x : Touches(e, x)' = Touches(e, x)
  BY DEF Touches, Followed
<1> QED BY <1>1, <1>2, <1>3, <1>4

\* The walk starts at the roots.
LEMMA AskWalks ==
  ASSUME Given, Ask, edges = {}
  PROVE  Walking'
<1>0. /\ UNCHANGED <<snapshot, request>> /\ edges' = {}
      /\ depths' = [r \in Roots |-> 0]
      /\ queue' = [i \in DOMAIN RootList |-> <<RootList[i], 0>>]
  BY DEF Ask
<1>1. Roots' = Roots /\ Ball' = Ball /\ request.depth \in Nat
  BY <1>0, SameQuestion, RequestIs
<1>2. PICK list : list = RootList
  OBVIOUS
<1>3. list \in Seq(Ids) /\ DOMAIN list = 1 .. Len(list) /\ Len(list) \in Nat
      /\ ToSet(list) = Roots /\ Roots \subseteq Ids
  BY <1>2, RootsAre
<1>4. queue' = [i \in 1 .. Len(list) |-> <<list[i], 0>>] /\ \A i \in 1 .. Len(list) : list[i] \in Roots
  BY <1>0, <1>2, <1>3 DEF ToSet
<1>5. ReachedAreNear'
  <2>1. DOMAIN depths' = Roots /\ \A r \in Roots : depths'[r] = 0
    BY <1>0
  <2> QED BY <1>0, <1>1, <1>3, <2>1, BallIs DEF ReachedAreNear
<1>6. QueueIsOrdered'
  <2>1. queue' \in Seq(Ids \X Nat)
    BY <1>3, <1>4
  <2>2. \A i \in DOMAIN queue' : queue'[i][1] \in Roots /\ queue'[i][2] = 0
    BY <1>4
  <2>3. \A r \in Roots : r \in DOMAIN depths' /\ depths'[r] = 0
    BY <1>0
  <2>4. DOMAIN depths' = Roots
    BY <1>0
  <2>5. queue' # <<>> => 1 \in DOMAIN queue'
    BY <2>1
  <2> QED BY <2>1, <2>2, <2>3, <2>4, <2>5 DEF QueueIsOrdered
<1>7. VisitedAreClosed'
  <2>1. ASSUME NEW x \in Roots PROVE Queued(x)'
    <3>1. PICK i \in 1 .. Len(list) : x = list[i]
      BY <1>3 DEF ToSet
    <3>2. i \in DOMAIN queue' /\ queue'[i][1] = x
      BY <1>4, <3>1
    <3> QED BY <3>2 DEF Queued
  <2> QED BY <1>0, <2>1 DEF VisitedAreClosed
<1>8. MetAreNear'
  BY <1>0 DEF MetAreNear
<1> QED BY <1>5, <1>6, <1>7, <1>8 DEF Walking

\* One sequence after another, place by place.
LEMMA Appended ==
  ASSUME NEW S, NEW s \in Seq(S), NEW t \in Seq(S), NEW n, NEW k, Len(s) = n, Len(t) = k
  PROVE  /\ s \o t \in Seq(S)
         /\ DOMAIN (s \o t) = 1 .. n + k
         /\ \A i \in 1 .. n : (s \o t)[i] = s[i]
         /\ \A i \in n + 1 .. n + k : i - n \in 1 .. k /\ (s \o t)[i] = t[i - n]
<1>1. n \in Nat /\ k \in Nat
  OBVIOUS
<1>2. s \o t \in Seq(S) /\ DOMAIN (s \o t) = 1 .. n + k
  BY <1>1
<1>3. \A i \in 1 .. n : (s \o t)[i] = s[i]
  BY <1>1
<1>4. ASSUME NEW i \in n + 1 .. n + k PROVE i - n \in 1 .. k /\ (s \o t)[i] = t[i - n]
  <2>1. i \in Int /\ i - n \in 1 .. k /\ i \in Len(s) + 1 .. Len(s) + Len(t)
    BY <1>1
  <2> QED BY <2>1
<1> QED BY <1>2, <1>3, <1>4

\* A visit keeps the walk in order.
LEMMA VisitWalks ==
  ASSUME Given, Walking, Visit
  PROVE  Walking'
<1> DEFINE id == Head(queue)[1]
           d == Head(queue)[2]
<1>1. /\ queue # <<>> /\ queue \in Seq(Ids \X Nat)
      /\ Head(queue) = queue[1] /\ 1 \in DOMAIN queue
      /\ id \in DOMAIN depths /\ d = depths[id] /\ id \in Ids
  <2>1. queue # <<>> /\ queue \in Seq(Ids \X Nat)
    BY DEF Visit, Walking, QueueIsOrdered
  <2>2. Head(queue) = queue[1] /\ 1 \in DOMAIN queue
    BY <2>1
  <2> QED BY <2>1, <2>2 DEF Walking, QueueIsOrdered
<1>2. PICK found : found = IF d >= request.depth THEN <<>> ELSE Fresh(id)
  OBVIOUS
<1>3. /\ UNCHANGED <<snapshot, request>>
      /\ queue' = Tail(queue) \o [i \in DOMAIN found |-> <<found[i], d + 1>>]
      /\ depths' = FirstOf(depths, [x \in ToSet(found) |-> d + 1])
      /\ edges' = edges \cup (IF d >= request.depth THEN {} ELSE ToSet(Around(id)))
  BY <1>2 DEF Visit, Enqueued
<1>4. /\ Roots' = Roots /\ Ball' = Ball /\ request.depth \in Nat /\ request'.depth = request.depth
      /\ \A e, x : Touches(e, x)' = Touches(e, x)
  BY <1>3, SameQuestion, RequestIs
<1> HIDE DEF id, d
<1>5. /\ d \in 0 .. request.depth /\ id \in Ball[d]
      /\ \A x \in DOMAIN depths : depths[x] \in Nat
  BY <1>1, <1>4 DEF Walking, ReachedAreNear
\* What is found.
<1>6. /\ found \in Seq(Ids) /\ ToSet(found) \subseteq Ids /\ ToSet(found) \cap DOMAIN depths = {}
      /\ DOMAIN found = 1 .. Len(found) /\ Len(found) \in Nat
      /\ \A i \in DOMAIN found : found[i] \in ToSet(found)
      /\ d >= request.depth => ToSet(found) = {}
  <2>1. CASE d >= request.depth
    <3>1. found = <<>> /\ found \in Seq(Ids)
      BY <1>2, <2>1
    <3> QED BY <3>1 DEF ToSet
  <2>2. CASE ~ (d >= request.depth)
    <3>1. found = Fresh(id)
      BY <1>2, <2>2
    <3>2. found \in Seq(Ids) /\ ToSet(found) \cap DOMAIN depths = {}
      BY <3>1, FreshIs
    <3> QED BY <2>2, <3>2 DEF ToSet
  <2> QED BY <2>1, <2>2
<1>7. ASSUME d < request.depth, NEW e, Touches(e, id)
      PROVE  /\ e \in ToSet(Around(id))
             /\ Beyond(e, id) \in DOMAIN depths \cup ToSet(found)
  <2>1. ~ (d >= request.depth)
    BY <1>4, <1>5, <1>7
  <2>2. e \in outgoing(id) \cup incoming(id)
    BY <1>7, AroundIs DEF Touches
  <2>3. ToSet(found) = {Beyond(f, id) : f \in outgoing(id) \cup incoming(id)} \ DOMAIN depths
    BY <1>2, <2>1, FreshIs
  <2> QED BY <2>2, <2>3, AroundIs
<1>8. ASSUME NEW y \in ToSet(found)
      PROVE  \E e : Touches(e, id) /\ y \in {e.source, e.target} /\ d < request.depth
  <2>1. ~ (d >= request.depth) /\ d < request.depth
    BY <1>4, <1>5, <1>6, <1>8
  <2>2. PICK e \in outgoing(id) \cup incoming(id) : y = Beyond(e, id)
    BY <1>2, <2>1, <1>8, FreshIs
  <2>3. Touches(e, id)
    BY <2>2, AroundIs DEF Touches
  <2> QED BY <2>1, <2>2, <2>3 DEF Beyond
\* The new depths.
<1>9. /\ DOMAIN depths' = DOMAIN depths \cup ToSet(found)
      /\ \A x \in DOMAIN depths : depths'[x] = depths[x]
      /\ \A x \in ToSet(found) : depths'[x] = d + 1
  BY <1>3, <1>6 DEF FirstOf
<1>10. ReachedAreNear'
  <2>1. ASSUME NEW x \in ToSet(found)
        PROVE  depths'[x] \in 0 .. request.depth /\ x \in Ball[depths'[x]]
    <3>1. PICK e : Touches(e, id) /\ x \in {e.source, e.target} /\ d < request.depth
      BY <1>8, <2>1
    <3>2. d + 1 \in 1 .. request.depth /\ (d + 1) - 1 = d
      BY <1>4, <1>5, <3>1
    <3>3. x \in Ball[d + 1]
      BY <1>5, <3>1, <3>2, NextToBall
    <3> QED BY <1>9, <3>2, <3>3
  <2>2. \A x \in DOMAIN depths : depths'[x] \in 0 .. request.depth /\ x \in Ball[depths'[x]]
    BY <1>9 DEF Walking, ReachedAreNear
  <2>3. /\ DOMAIN depths' \subseteq Ids
        /\ Roots \subseteq DOMAIN depths'
        /\ \A r \in Roots : depths'[r] = 0
    BY <1>6, <1>9 DEF Walking, ReachedAreNear
  <2> QED BY <1>4, <1>9, <2>1, <2>2, <2>3 DEF ReachedAreNear
\* The new queue.
<1> DEFINE more == [i \in DOMAIN found |-> <<found[i], d + 1>>]
           n == Len(queue) - 1
           k == Len(found)
<1>11. /\ Len(queue) \in Nat /\ DOMAIN queue = 1 .. Len(queue) /\ n \in Nat /\ k \in Nat
       /\ Tail(queue) \in Seq(Ids \X Nat) /\ Len(Tail(queue)) = n
       /\ \A i \in 1 .. n : Tail(queue)[i] = queue[i + 1]
  BY <1>1, <1>6
<1>12. /\ more \in Seq(Ids \X Nat) /\ Len(more) = k
       /\ \A i \in 1 .. k : more[i] = <<found[i], d + 1>>
  BY <1>5, <1>6
<1>13. queue' = Tail(queue) \o more
  BY <1>3
<1> HIDE DEF more
<1>14. /\ queue' \in Seq(Ids \X Nat) /\ DOMAIN queue' = 1 .. n + k
       /\ \A i \in 1 .. n : queue'[i] = queue[i + 1]
       /\ \A i \in n + 1 .. n + k : queue'[i] = <<found[i - n], d + 1>>
  <2>1. PICK s, t : s = Tail(queue) /\ t = more
    OBVIOUS
  <2> HIDE DEF n, k
  <2>2. /\ s \in Seq(Ids \X Nat) /\ t \in Seq(Ids \X Nat) /\ Len(s) = n /\ Len(t) = k
    BY <1>11, <1>12, <2>1
  <2>3. /\ s \o t \in Seq(Ids \X Nat)
        /\ DOMAIN (s \o t) = 1 .. n + k
        /\ \A i \in 1 .. n : (s \o t)[i] = s[i]
        /\ \A i \in n + 1 .. n + k : i - n \in 1 .. k /\ (s \o t)[i] = t[i - n]
    BY <2>2, Appended
  <2>8. queue' = s \o t
    BY <1>13, <2>1
  <2>9. \A i \in 1 .. n : queue'[i] = queue[i + 1]
    BY <1>11, <2>1, <2>3, <2>8
  <2>10. \A i \in n + 1 .. n + k : queue'[i] = <<found[i - n], d + 1>>
    BY <1>12, <2>1, <2>3, <2>8
  <2> QED BY <2>3, <2>8, <2>9, <2>10
<1> HIDE DEF n, k
<1>15. /\ \A i \in 1 .. n : i + 1 \in DOMAIN queue
       /\ \A i \in n + 1 .. n + k : i - n \in DOMAIN found
  BY <1>6, <1>11 DEF n, k
<1>16. QueueIsOrdered'
  <2>1. ASSUME NEW i \in DOMAIN queue'
        PROVE  /\ queue'[i][1] \in DOMAIN depths' /\ queue'[i][2] = depths'[queue'[i][1]]
               /\ d <= queue'[i][2] /\ queue'[i][2] <= d + 1 /\ queue'[i][2] \in Nat
    <3>1. CASE i \in 1 .. n
      <4>1. i + 1 \in DOMAIN queue /\ queue'[i] = queue[i + 1] /\ 1 <= i + 1
        BY <1>14, <1>15, <3>1
      <4>2. queue[1][2] <= queue[i + 1][2] /\ queue[i + 1][2] = depths[queue[i + 1][1]]
            /\ queue[i + 1][1] \in DOMAIN depths
        BY <1>1, <1>11, <4>1 DEF Walking, QueueIsOrdered
      <4>3. depths[queue[i + 1][1]] <= d + 1 /\ queue[1][2] = d
        BY <1>1, <4>2 DEF Walking, QueueIsOrdered, d
      <4> QED BY <1>5, <1>9, <4>1, <4>2, <4>3
    <3>2. CASE i \in n + 1 .. n + k
      <4>1. queue'[i] = <<found[i - n], d + 1>> /\ found[i - n] \in ToSet(found)
        BY <1>6, <1>14, <1>15, <3>2
      <4> QED BY <1>5, <1>9, <4>1
    <3> QED BY <1>11, <1>14, <3>1, <3>2
  <2>2. ASSUME NEW i \in DOMAIN queue', NEW j \in DOMAIN queue', i <= j
        PROVE  queue'[i][2] <= queue'[j][2]
    <3>1. CASE j \in 1 .. n
      <4>1. i \in 1 .. n
        BY <1>11, <1>14, <2>2, <3>1
      <4>2. /\ i + 1 \in DOMAIN queue /\ j + 1 \in DOMAIN queue /\ i + 1 <= j + 1
            /\ queue'[i] = queue[i + 1] /\ queue'[j] = queue[j + 1]
        BY <1>14, <1>15, <2>2, <3>1, <4>1
      <4> QED BY <4>2 DEF Walking, QueueIsOrdered
    <3>2. CASE j \in n + 1 .. n + k
      <4>1. queue'[j][2] = d + 1
        BY <1>14, <3>2
      <4> QED BY <2>1, <4>1
    <3> QED BY <1>11, <1>14, <3>1, <3>2
  <2>3. ASSUME queue' # <<>>, NEW x \in DOMAIN depths' PROVE depths'[x] <= queue'[1][2] + 1
    <3>1. 1 \in DOMAIN queue'
      <4>1. queue' \in Seq(Ids \X Nat)
        BY <1>14
      <4> QED BY <2>3, <4>1
    <3>2. d <= queue'[1][2] /\ queue'[1][2] \in Nat
      BY <2>1, <3>1
    <3>3. depths'[x] <= d + 1 /\ depths'[x] \in Nat
      <4>1. CASE x \in DOMAIN depths
        BY <1>1, <1>5, <1>9, <4>1 DEF Walking, QueueIsOrdered, d
      <4>2. CASE x \in ToSet(found)
        BY <1>5, <1>9, <4>2
      <4> QED BY <1>9, <2>3, <4>1, <4>2
    <3> QED BY <1>5, <3>2, <3>3
  <2> QED BY <1>14, <2>1, <2>2, <2>3 DEF QueueIsOrdered
<1>17. VisitedAreClosed'
  <2> SUFFICES ASSUME NEW x \in DOMAIN depths', depths'[x] < request.depth, ~ Queued(x)',
                      NEW e \in snapshot.edges, Touches(e, x)
               PROVE  /\ e \in edges'
                      /\ \A y \in {e.source, e.target} : y \in DOMAIN depths' /\ depths'[y] <= depths'[x] + 1
    BY <1>3, <1>4 DEF VisitedAreClosed
  <2>1. x \in DOMAIN depths /\ depths'[x] = depths[x]
    <3>1. ASSUME x \in ToSet(found) PROVE FALSE
      <4>1. PICK i \in 1 .. k : x = found[i]
        BY <1>6, <3>1 DEF ToSet, k
      <4>2. n + i \in n + 1 .. n + k /\ n + i \in 1 .. n + k /\ (n + i) - n = i
        BY <1>11
      <4>3. n + i \in DOMAIN queue' /\ queue'[n + i] = <<x, d + 1>>
        BY <1>14, <4>1, <4>2
      <4>4. queue'[n + i][1] = x
        BY <4>3
      <4> QED BY <4>3, <4>4 DEF Queued
    <3> QED BY <1>9, <3>1
  <2>2. CASE x = id
    <3>1. depths[x] = d /\ d < request.depth /\ ~ (d >= request.depth)
      BY <1>1, <1>4, <1>5, <2>1, <2>2
    <3>2. e \in edges'
      BY <1>3, <1>7, <2>2, <3>1
    <3>3. ASSUME NEW y \in {e.source, e.target} PROVE y \in DOMAIN depths' /\ depths'[y] <= d + 1
      <4>1. y = id \/ y = Beyond(e, id)
        BY <2>2, <3>3 DEF Beyond, Touches
      <4>2. y \in DOMAIN depths \cup ToSet(found)
        BY <1>1, <1>7, <2>2, <3>1, <4>1
      <4>3. CASE y \in DOMAIN depths
        BY <1>1, <1>5, <1>9, <4>3 DEF Walking, QueueIsOrdered, d
      <4>4. CASE y \in ToSet(found)
        BY <1>5, <1>9, <4>4
      <4> QED BY <4>2, <4>3, <4>4
    <3> QED BY <2>1, <3>1, <3>2, <3>3
  <2>3. CASE x # id
    <3>1. ASSUME Queued(x) PROVE FALSE
      <4>1. PICK i \in DOMAIN queue : queue[i][1] = x
        BY <3>1 DEF Queued
      <4>2. i # 1
        BY <1>1, <2>3, <4>1 DEF id
      <4>3. i - 1 \in 1 .. n /\ (i - 1) + 1 = i /\ i - 1 \in 1 .. n + k
        BY <1>11, <4>2 DEF n
      <4>4. i - 1 \in DOMAIN queue' /\ queue'[i - 1] = queue[i]
        BY <1>14, <4>3
      <4> QED BY <4>1, <4>4 DEF Queued
    <3>2. /\ e \in edges
          /\ \A y \in {e.source, e.target} : y \in DOMAIN depths /\ depths[y] <= depths[x] + 1
      BY <2>1, <3>1 DEF Walking, VisitedAreClosed
    <3> QED BY <1>3, <1>9, <2>1, <3>2
  <2> QED BY <2>2, <2>3
<1>18. MetAreNear'
  <2> SUFFICES ASSUME NEW e \in edges'
               PROVE  \E x \in DOMAIN depths' : depths'[x] < request.depth /\ Touches(e, x)
    BY <1>4 DEF MetAreNear
  <2>1. CASE e \in edges
    BY <1>9, <2>1 DEF Walking, MetAreNear
  <2>2. CASE e \notin edges
    <3>1. ~ (d >= request.depth) /\ e \in ToSet(Around(id)) /\ d < request.depth
      BY <1>3, <1>4, <1>5, <2>2
    <3>2. Touches(e, id)
      BY <3>1, AroundIs DEF Touches
    <3> QED BY <1>1, <1>9, <3>1, <3>2
  <2> QED BY <2>1, <2>2
<1> QED BY <1>10, <1>16, <1>17, <1>18 DEF Walking

Phases == {"asked", "walk", "budget", "done", "refused", "invalid"}

WalkInv ==
    /\ Given
    /\ phase \in Phases
    /\ phase \in {"asked", "invalid"} => edges = {}
    /\ phase = "walk" => Walking
    /\ phase \in {"budget", "done", "refused"} => ExactWalk

\* What the walk found is not touched again.
LEMMA WalkStays ==
  ASSUME UNCHANGED <<snapshot, request, walked>>
  PROVE  ExactWalk' = ExactWalk /\ Walking' = Walking
<1>1. Roots' = Roots /\ Ball' = Ball /\ \A e, x : Touches(e, x)' = Touches(e, x)
  BY SameQuestion
<1>2. snapshot' = snapshot /\ request' = request /\ queue' = queue /\ depths' = depths /\ edges' = edges
  BY DEF walked
<1>3. \A e : Followed(e)' = Followed(e)
  BY <1>2 DEF Followed
<1>4. ExactWalk' = ExactWalk
  BY <1>1, <1>2, <1>3 DEF ExactWalk
<1>5. ReachedAreNear' = ReachedAreNear
  BY <1>1, <1>2 DEF ReachedAreNear
<1>6. QueueIsOrdered' = QueueIsOrdered
  BY <1>2 DEF QueueIsOrdered
<1>7. VisitedAreClosed' = VisitedAreClosed
  BY <1>1, <1>2 DEF VisitedAreClosed, Queued
<1>8. MetAreNear' = MetAreNear
  BY <1>1, <1>2 DEF MetAreNear
<1> QED BY <1>4, <1>5, <1>6, <1>7, <1>8 DEF Walking

LEMMA WalkInvHolds == Spec => []WalkInv
<1>1. Init => WalkInv
  BY DEF Init, WalkInv, Given, Phases
<1>2. WalkInv /\ [Next]_vars => WalkInv'
  <2> SUFFICES ASSUME WalkInv, [Next]_vars PROVE WalkInv'
    OBVIOUS
  <2>1. CASE Ask
    <3>1. Walking'
      BY <2>1, AskWalks DEF WalkInv, Ask
    <3> QED BY <2>1, <3>1 DEF Ask, WalkInv, Given, Phases
  <2>2. CASE MissingComparisonEntities
    <3>1. UNCHANGED <<snapshot, request, edges>> /\ phase = "asked" /\ phase' = "invalid"
      BY <2>2 DEF MissingComparisonEntities, walked
    <3> QED BY <3>1 DEF WalkInv, Given, Phases
  <2>3. CASE Visit
    <3>1. Walking'
      BY <2>3, VisitWalks DEF WalkInv, Visit
    <3> QED BY <2>3, <3>1 DEF Visit, WalkInv, Given, Phases
  <2>4. CASE Select
    <3>1. ExactWalk
      BY <2>4, WalkEnds DEF WalkInv, Select
    <3>2. UNCHANGED <<snapshot, request, walked>>
      BY <2>4 DEF Select
    <3>3. ExactWalk'
      BY <3>1, <3>2, WalkStays
    <3> QED BY <2>4, <3>3 DEF Select, WalkInv, Given, Phases
  <2>5. CASE Omit \/ Deliver \/ Refuse
    <3>1. UNCHANGED <<snapshot, request, walked>> /\ phase = "budget"
          /\ phase' \in {"budget", "done", "refused"}
      BY <2>5 DEF Omit, Deliver, Refuse
    <3>2. ExactWalk'
      BY <3>1, WalkStays DEF WalkInv
    <3> QED BY <3>1, <3>2 DEF WalkInv, Given, Phases
  <2>6. CASE AskAgain
    BY <2>6 DEF AskAgain, WalkInv, Given, Phases
  <2>7. CASE UNCHANGED vars
    <3>1. UNCHANGED <<snapshot, request, walked, phase>>
      BY <2>7 DEF vars
    <3>2. edges' = edges
      BY <3>1 DEF walked
    <3>3. ExactWalk' = ExactWalk /\ Walking' = Walking
      BY <3>1, WalkStays
    <3> QED BY <3>1, <3>2, <3>3 DEF WalkInv, Given, Phases
  <2> QED BY <2>1, <2>2, <2>3, <2>4, <2>5, <2>6, <2>7 DEF Next, Compile
<1> QED BY <1>1, <1>2, PTL DEF Spec

\* The walk reaches what lies within the depth asked for, each entity at its distance
\* from the nearest root, and meets the relationships of all that is nearer.
THEOREM OrbitWalkIsExact == Spec => []WalkIsExact
<1>1. WalkInv => WalkIsExact
  BY DEF WalkInv, ExactWalk, WalkIsExact
<1> QED BY <1>1, WalkInvHolds, PTL

-----------------------------------------------------------------------------
(* The selection.                                                          *)

Contents  == UNION {immediate_scale_contents(r) : r \in Roots \cap Known}
Within    == Ball[request.depth] \cap Known
Offered   == (((Roots \cap Known) \cup Contents \cup Within \cup (Sides \cap Known)) \ request.exclusions)
                \cup Spine
Mandatory == {x \in Offered : x \in Roots \/ (x \in Sides /\ x \notin Contents \cup Within)}

\* What is contained is known.
LEMMA ContentsAreKnown ==
  ASSUME Given
  PROVE  Contents \subseteq Known /\ Spine \subseteq Known /\ Spine \cap request.exclusions = {}
<1>1. ASSUME NEW r \in Known PROVE immediate_scale_contents(r) \subseteq Known
  <2>1. scale(r) \in 0 .. 4
    BY OrbitAssumption DEF Given, Known, scale, Scales, Universe, Moon
  <2>2. scale(r) <= 2 \/ scale(r) = 3 \/ scale(r) = 4
    BY <2>1
  <2>3. CASE scale(r) <= 2
    <3>1. immediate_scale_contents(r) = children_of(r)
      BY <2>1, <2>3 DEF immediate_scale_contents, System, Planet, Moon
    <3> QED BY <3>1 DEF children_of
  <2>4. CASE scale(r) = 3
    <3>1. immediate_scale_contents(r) = {d \in descendants_of(r) : scale(d) = Moon}
      BY <2>4 DEF immediate_scale_contents, System, Planet, Moon
    <3> QED BY <3>1 DEF descendants_of
  <2>5. CASE scale(r) = 4
    BY <2>5 DEF immediate_scale_contents, System, Planet, Moon
  <2> QED BY <2>2, <2>3, <2>4, <2>5
<1>2. \A r : ancestors_of(r) \subseteq Known
  BY DEF ancestors_of
<1>3. Spine \subseteq Known /\ Spine \cap request.exclusions = {}
  <2>1. ASSUME NEW y \in Spine PROVE y \in Known /\ y \notin request.exclusions
    <3>1. y \notin request.exclusions /\ \E r \in Roots \cap Known : y \in ancestors_of(r)
      BY <2>1 DEF Spine
    <3> QED BY <1>2, <3>1
  <2> QED BY <2>1
<1> QED BY <1>1, <1>3 DEF Contents

\* What an exact walk leads to being selected, and what of it is mandatory.
LEMMA SelectionIs ==
  ASSUME Given, ExactWalk, \A x \in DOMAIN depths : depths[x] \in Nat
  PROVE  /\ DOMAIN Selection = Offered
         /\ \A x \in Offered : /\ Selection[x] \in Item
                               /\ Selection[x].tokens = 0
                               /\ x \in Mandatory => Selection[x].mandatory = TRUE
                               /\ x \notin Mandatory => Selection[x].mandatory = FALSE
<1>1. PICK roots, reached, sides : /\ roots = Roots \cap Known
                                   /\ reached = DOMAIN depths \cap Known
                                   /\ sides = Sides \cap Known
  OBVIOUS
<1>2. Selection = [x \in ((roots \cup Contents \cup reached \cup sides) \ request.exclusions) \cup Spine |->
          CASE x \in roots                                    -> Chosen(TRUE, 1000)
            [] x \in Contents \ roots                         -> Chosen(FALSE, 400)
            [] x \in reached \ (roots \cup Contents)           -> Chosen(FALSE, 250 - 20 * depths[x])
            [] x \in sides \ (roots \cup Contents \cup reached) -> Chosen(TRUE, 1000)
            [] OTHER                                           -> Chosen(FALSE, 300)]
  BY <1>1 DEF Selection, Contents
<1>3. reached = Within
  BY <1>1 DEF ExactWalk, Within
<1>4. DOMAIN Selection = Offered
  BY <1>1, <1>2, <1>3 DEF Offered
<1>5. Offered \subseteq Known
  BY ContentsAreKnown DEF Offered, Within
<1>6. ASSUME NEW x \in Offered
      PROVE  /\ Selection[x] \in Item
             /\ Selection[x].tokens = 0
             /\ x \in Mandatory => Selection[x].mandatory = TRUE
             /\ x \notin Mandatory => Selection[x].mandatory = FALSE
  <2>1. x \in Mandatory <=> x \in roots \/ (x \in sides /\ x \notin roots \cup Contents \cup reached)
    BY <1>1, <1>3, <1>5 DEF Mandatory
  <2>3. CASE x \in roots
    <3>1. Selection[x] = Chosen(TRUE, 1000)
      BY <1>2, <1>4, <2>3
    <3> QED BY <2>1, <2>3, <3>1 DEF Chosen, Item
  <2>4. CASE x \in Contents \ roots
    <3>1. Selection[x] = Chosen(FALSE, 400)
      BY <1>2, <1>4, <2>4
    <3> QED BY <2>1, <2>4, <3>1 DEF Chosen, Item
  <2>5. CASE x \in reached \ (roots \cup Contents)
    <3>1. Selection[x] = Chosen(FALSE, 250 - 20 * depths[x])
      BY <1>2, <1>4, <2>5
    <3>2. 250 - 20 * depths[x] \in Int
      BY <1>1, <2>5
    <3> QED BY <2>1, <2>5, <3>1, <3>2 DEF Chosen, Item
  <2>6. CASE x \in sides \ (roots \cup Contents \cup reached)
    <3>1. Selection[x] = Chosen(TRUE, 1000)
      BY <1>2, <1>4, <2>6
    <3> QED BY <2>1, <2>6, <3>1 DEF Chosen, Item
  <2>7. CASE x \notin roots \cup Contents \cup reached \cup sides
    <3>1. Selection[x] = Chosen(FALSE, 300)
      BY <1>2, <1>4, <2>7
    <3> QED BY <2>1, <2>7, <3>1 DEF Chosen, Item
  <2> QED BY <2>3, <2>4, <2>5, <2>6, <2>7
<1> QED BY <1>4, <1>6

\* What an exact walk selects follows from what is asked and of which Atlas.
LEMMA SameAnswer ==
  ASSUME UNCHANGED <<snapshot, request>>
  PROVE  /\ Spine' = Spine
         /\ Contents' = Contents
         /\ Within' = Within
         /\ Offered' = Offered
         /\ Mandatory' = Mandatory
<1>0. Roots' = Roots /\ Ball' = Ball /\ Known' = Known
  BY SameQuestion
<1>1. Spine' = Spine
  <2>1. \A r : ancestors_of(r)' = ancestors_of(r)
    BY DEF ancestors_of, Known
  <2> QED BY <1>0, <2>1 DEF Spine
<1>2. Contents' = Contents
  <2>1. \A r : immediate_scale_contents(r)' = immediate_scale_contents(r)
    BY DEF immediate_scale_contents, scale, children_of, descendants_of, ancestors_of, Known
  <2> QED BY <1>0, <2>1 DEF Contents
<1>3. Within' = Within
  BY <1>0 DEF Within
<1>4. Sides' = Sides
  BY DEF Sides, Targets, Picked, Ascending, InOrder
<1>5. Offered' = Offered
  BY <1>0, <1>1, <1>2, <1>3, <1>4 DEF Offered
<1> QED BY <1>0, <1>1, <1>2, <1>3, <1>4, <1>5 DEF Mandatory

-----------------------------------------------------------------------------
(* The budget.                                                             *)

Packed == {"budget", "done", "refused"}
Kinds  == {"moon", "planet", "system", "entity"}

\* Something was cut, and so everything was written again.
Cut == DOMAIN omitted # {}

Tokens(x) == IF Cut THEN Cost[x] + Digits[x] ELSE Cost[x]

Joins(shown) == [e \in {l \in edges : Cut => l.source \in shown /\ l.target \in shown} |->
                   IF Cut THEN EdgeCost + EdgeDigits ELSE EdgeCost]

\* What the packet holds is what was offered and not taken away; what was taken away
\* was not mandatory and ranks below all that might go next; all costs what it costs
\* as it was last written; and every piece that is gone is counted.
NothingPacked ==
    /\ selected = Nothing /\ spine = {} /\ links = Nothing /\ omitted = Nothing
    /\ total = 0 /\ minimum = 0

PackedIsOffered ==
    /\ spine = Spine
    /\ DOMAIN selected = Offered \ DOMAIN omitted
    /\ \A x \in DOMAIN selected : /\ selected[x] \in Item
                                  /\ x \in Mandatory => selected[x].mandatory = TRUE
                                  /\ x \notin Mandatory => selected[x].mandatory = FALSE
                                  /\ selected[x].tokens = Tokens(x)
    /\ links = Joins(DOMAIN selected \cup spine)
    /\ total = Settled(selected, links, spine)

OmittedIsLowest ==
    /\ DOMAIN omitted \subseteq Offered \ Mandatory
    /\ \A x \in DOMAIN omitted :
         /\ omitted[x].mandatory = FALSE
         /\ \A y \in DOMAIN selected \ Mandatory :
              \/ selected[y].score > omitted[x].score
              \/ selected[y].score = omitted[x].score /\ y > x

Ended ==
    /\ phase = "budget" => minimum = 0
    /\ phase \in {"done", "refused"} => minimum = total
    /\ phase = "done" => total <= budget
    /\ phase = "refused" => total > budget /\ DOMAIN selected \subseteq Mandatory

OmissionsAreCounted ==
    /\ DOMAIN omissions = Kinds
    /\ \A k \in Kinds : omissions[k] = Cardinality({x \in DOMAIN omitted : category_for(x) = k})

BudgetInv ==
    /\ phase \notin Packed => NothingPacked
    /\ phase \in Packed => PackedIsOffered /\ OmittedIsLowest /\ Ended
    /\ OmissionsAreCounted

\* What is said of the cost of a thing is a natural.
LEMMA CostIs ==
  ASSUME NEW x \in Ids
  PROVE  /\ Cost[x] \in Nat /\ Cost[x] # 0 /\ Digits[x] \in Nat
         /\ Cost[x] + Digits[x] \in Nat /\ Cost[x] + Digits[x] # 0
         /\ EdgeCost \in Nat /\ EdgeCost # 0 /\ EdgeDigits \in Nat /\ Envelope \in Nat
         /\ EdgeCost + EdgeDigits \in Nat /\ EdgeCost + EdgeDigits # 0
<1>1. /\ Cost[x] \in Nat \ {0} /\ Digits[x] \in 0 .. 1 /\ EdgeCost \in Nat \ {0}
      /\ EdgeDigits \in 0 .. 1 /\ Envelope \in Nat
  BY OrbitAssumption
<1> QED BY <1>1

\* Writing the estimates leaves all but the estimates.
LEMMA EstimatedIs ==
  ASSUME NEW items, \A x \in DOMAIN items : items[x] \in Item, DOMAIN items \subseteq Ids
  PROVE  /\ DOMAIN Estimated(items) = DOMAIN items
         /\ \A x \in DOMAIN items :
              /\ Estimated(items)[x] \in Item
              /\ Estimated(items)[x].mandatory = items[x].mandatory
              /\ Estimated(items)[x].score = items[x].score
              /\ Estimated(items)[x].tokens =
                   IF items[x].tokens = 0 THEN Cost[x] ELSE Cost[x] + Digits[x]
<1>1. DOMAIN Estimated(items) = DOMAIN items
  BY DEF Estimated
<1>2. ASSUME NEW x \in DOMAIN items
      PROVE  /\ Estimated(items)[x] \in Item
             /\ Estimated(items)[x].mandatory = items[x].mandatory
             /\ Estimated(items)[x].score = items[x].score
             /\ Estimated(items)[x].tokens =
                  IF items[x].tokens = 0 THEN Cost[x] ELSE Cost[x] + Digits[x]
  <2>1. PICK item : item = items[x]
    OBVIOUS
  <2>2. Estimated(items)[x] = [item EXCEPT !.tokens = Estimate(Cost[x], Digits[x], @)]
    BY <2>1 DEF Estimated
  <2>3. PICK t : t = IF item.tokens = 0 THEN Cost[x] ELSE Cost[x] + Digits[x]
    OBVIOUS
  <2>4. t \in Nat /\ Estimate(Cost[x], Digits[x], item.tokens) = t
    BY <2>3, CostIs DEF Estimate
  <2>5. item = [mandatory |-> item.mandatory, score |-> item.score, tokens |-> item.tokens]
        /\ item.mandatory \in BOOLEAN /\ item.score \in Int
    BY <2>1 DEF Item
  <2>6. Estimated(items)[x] = [mandatory |-> item.mandatory, score |-> item.score, tokens |-> t]
    BY <2>2, <2>4, <2>5
  <2> QED BY <2>1, <2>3, <2>4, <2>5, <2>6 DEF Item
<1> QED BY <1>1, <1>2

\* What the packet is said to cost is a natural.
LEMMA SettledType ==
  ASSUME Given, NEW items, NEW lks, NEW above \in SUBSET Known,
         DOMAIN items \subseteq Known, \A x \in DOMAIN items : items[x].tokens \in Nat,
         DOMAIN lks \subseteq snapshot.edges, \A e \in DOMAIN lks : lks[e] \in Nat
  PROVE  Settled(items, lks, above) \in Nat
<1>1. IsFiniteSet(DOMAIN items) /\ IsFiniteSet(DOMAIN lks) /\ IsFiniteSet(above)
  BY AtlasIs, FS_Subset
<1>2. PICK f, g : f = [x \in DOMAIN items |-> items[x].tokens] /\ g = [x \in above |-> Cost[x]]
  OBVIOUS
<1>3. DOMAIN f = DOMAIN items /\ \A x \in DOMAIN f : f[x] \in Nat
  BY <1>2
<1>4. DOMAIN g = above /\ \A x \in DOMAIN g : g[x] \in Nat
  BY <1>2, AtlasIs, CostIs
<1>5. Total(f) \in Nat
  BY <1>1, <1>3, TotalType
<1>6. Total(g) \in Nat
  BY <1>1, <1>4, TotalType
<1>7. Total(lks) \in Nat
  BY <1>1, TotalType
<1>8. Settled(items, lks, above) = Total(f) + Total(lks) + Total(g) + Envelope
  BY <1>2 DEF Settled
<1> QED BY <1>5, <1>6, <1>7, <1>8, OrbitAssumption

\* What is optional is what is not mandatory.
LEMMA OptionalIs ==
  ASSUME PackedIsOffered
  PROVE  Optional = DOMAIN selected \ Mandatory
<1>1. ASSUME NEW x \in DOMAIN selected PROVE ~ selected[x].mandatory <=> x \notin Mandatory
  <2>1. CASE x \in Mandatory
    <3>1. selected[x].mandatory = TRUE
      BY <1>1, <2>1 DEF PackedIsOffered
    <3> QED BY <2>1, <3>1
  <2>2. CASE x \notin Mandatory
    <3>1. selected[x].mandatory = FALSE
      BY <1>1, <2>2 DEF PackedIsOffered
    <3> QED BY <2>2, <3>1
  <2> QED BY <2>1, <2>2
<1> QED BY <1>1 DEF Optional

\* Optional content has a lowest.
LEMMA RemovableExists ==
  ASSUME Given, DOMAIN selected \subseteq Known, \A x \in DOMAIN selected : selected[x] \in Item,
         Optional # {}
  PROVE  Removable # {}
<1>0. PICK S : S = Optional
  OBVIOUS
<1>1. S \subseteq Known /\ IsFiniteSet(S) /\ S \subseteq Nat /\ S # {}
      /\ \A x \in S : selected[x].score \in Int
  BY <1>0, AtlasIs, FS_Subset DEF Optional, Item
<1>2. PICK below : below = [x \in S |-> {y \in S : Outranks(x, y)}]
  OBVIOUS
<1>3. below \in [S -> SUBSET S] /\ \A x, y \in S : y \in below[x] <=> Outranks(x, y)
  BY <1>2
<1>4. \A x \in S : x \notin below[x]
  BY <1>1, <1>3 DEF Outranks
<1>5. \A x, y \in S : x = y \/ x \in below[y] \/ y \in below[x]
  BY <1>1, <1>3 DEF Outranks
<1>6. ASSUME NEW x \in S, NEW y \in S, y \in below[x], NEW z \in S, z \in below[y] PROVE z \in below[x]
  <2>1. /\ x \in Nat /\ y \in Nat /\ z \in Nat
        /\ selected[x].score \in Int /\ selected[y].score \in Int /\ selected[z].score \in Int
    BY <1>1
  <2>2. Outranks(x, y) /\ Outranks(y, z)
    BY <1>3, <1>6
  <2>3. Outranks(x, z)
    BY <2>1, <2>2 DEF Outranks
  <2> QED BY <1>3, <2>3
<1>7. \A x, y \in S : y \in below[x] => below[y] \subseteq below[x]
  BY <1>3, <1>6
<1>8. /\ Cardinality(S) \in Nat
      /\ \A i \in 1 .. Cardinality(S) : \E x \in S : Cardinality(below[x]) = i - 1
  <2>1. IsFiniteSet(S)
    BY <1>1
  <2>2. below \in [S -> SUBSET S]
    BY <1>3
  <2> QED BY <1>4, <1>5, <1>7, <2>1, <2>2, Ranked
<1>9. 1 \in 1 .. Cardinality(S)
  BY <1>1, <1>8, FS_EmptySet
<1>10. PICK x \in S : Cardinality(below[x]) = 0
  BY <1>8, <1>9
<1>11. below[x] = {}
  <2>1. below[x] \in SUBSET S
    BY <1>3
  <2>2. IsFiniteSet(below[x])
    BY <1>1, <2>1, FS_Subset
  <2> QED BY <1>10, <2>2, FS_EmptySet
<1>12. \A y \in S \ {x} : Outranks(y, x)
  BY <1>3, <1>5, <1>11
<1> QED BY <1>0, <1>12 DEF Removable

\* The category of an entity is one of four.
LEMMA CategoryIs ==
  ASSUME NEW x
  PROVE  category_for(x) \in Kinds
BY DEF category_for, Kinds

\* What is written when everything is selected.
LEMMA SelectPacks ==
  ASSUME Given, ExactWalk, \A x \in DOMAIN depths : depths[x] \in Nat,
         NothingPacked, OmissionsAreCounted, Select
  PROVE  PackedIsOffered' /\ OmittedIsLowest' /\ Ended' /\ OmissionsAreCounted'
<1>0. /\ UNCHANGED <<snapshot, request, depths, edges, omitted, omissions, minimum>>
      /\ omitted = Nothing /\ minimum = 0 /\ ~ Cut /\ ~ Cut' /\ phase' = "budget"
  BY DEF Select, NothingPacked, Cut, Nothing, walked
<1>1. Spine' = Spine /\ Offered' = Offered /\ Mandatory' = Mandatory /\ Known' = Known
  BY <1>0, SameAnswer, SameQuestion
<1>2. /\ DOMAIN Selection = Offered
      /\ \A x \in Offered : /\ Selection[x] \in Item
                            /\ Selection[x].tokens = 0
                            /\ x \in Mandatory => Selection[x].mandatory = TRUE
                            /\ x \notin Mandatory => Selection[x].mandatory = FALSE
  BY SelectionIs
<1>3. Offered \subseteq Known /\ Spine \subseteq Known /\ Known \subseteq Ids
  BY ContentsAreKnown, AtlasIs DEF Offered, Within
<1>4. PICK items : items = Selection
  OBVIOUS
<1>5. selected' = Estimated(items) /\ spine' = Spine
  BY <1>4 DEF Select
<1>6. /\ DOMAIN selected' = Offered
      /\ \A x \in Offered : /\ selected'[x] \in Item
                            /\ selected'[x].mandatory = items[x].mandatory
                            /\ selected'[x].tokens = IF items[x].tokens = 0 THEN Cost[x] ELSE Cost[x] + Digits[x]
  <2>1. \A x \in DOMAIN items : items[x] \in Item
    BY <1>2, <1>4
  <2>2. DOMAIN items \subseteq Ids /\ DOMAIN items = Offered
    BY <1>2, <1>3, <1>4
  <2> QED BY <1>5, <2>1, <2>2, EstimatedIs
<1>7. \A x \in Offered : selected'[x].tokens = Tokens(x)'
  BY <1>0, <1>2, <1>4, <1>6 DEF Tokens
<1>8. \A x \in Offered : /\ x \in Mandatory => selected'[x].mandatory = TRUE
                         /\ x \notin Mandatory => selected'[x].mandatory = FALSE
  BY <1>2, <1>4, <1>6
<1>9. links' = Joins(DOMAIN selected \cup spine)'
  <2>1. links' = [e \in edges |-> Estimate(EdgeCost, EdgeDigits, 0)]
    BY DEF Select, EstimatedLinks
  <2>2. links' = [e \in edges |-> EdgeCost]
    BY <2>1 DEF Estimate
  <2>3. Joins(DOMAIN selected \cup spine)' = [e \in edges |-> EdgeCost]
    BY <1>0 DEF Joins
  <2> QED BY <2>2, <2>3
<1>10. total' = Settled(selected', links', spine')
  BY DEF Select
<1>11. DOMAIN omitted = {} /\ DOMAIN omitted' = {}
  BY <1>0 DEF Cut
<1>12. PackedIsOffered'
  BY <1>1, <1>5, <1>6, <1>7, <1>8, <1>9, <1>10, <1>11 DEF PackedIsOffered
<1>13. OmittedIsLowest'
  BY <1>11 DEF OmittedIsLowest
<1>14. Ended'
  BY <1>0 DEF Ended
<1>15. OmissionsAreCounted'
  BY <1>0, <1>11 DEF OmissionsAreCounted
<1> QED BY <1>12, <1>13, <1>14, <1>15

\* What goes is the lowest of what may go; all that stays is written again.
LEMMA OmitPacks ==
  ASSUME Given, ExactWalk, PackedIsOffered, OmittedIsLowest, Ended, OmissionsAreCounted, Omit
  PROVE  PackedIsOffered' /\ OmittedIsLowest' /\ Ended' /\ OmissionsAreCounted'
<1>0. /\ UNCHANGED <<snapshot, request, depths, edges, spine, minimum, phase>>
      /\ phase = "budget"
      /\ total' = Settled(selected', links', spine)
  BY DEF Omit, walked
<1>1. Spine' = Spine /\ Offered' = Offered /\ Mandatory' = Mandatory /\ Known' = Known
  BY <1>0, SameAnswer, SameQuestion
<1>2. Offered \subseteq Known /\ Spine \subseteq Known /\ Known \subseteq Ids /\ Ids \subseteq Nat
  BY ContentsAreKnown, AtlasIs DEF Offered, Within
<1>3. PICK id \in Removable :
         /\ selected' = Estimated(Without(id))
         /\ links' = EstimatedLinks(Retained(Without(id)))
         /\ omissions' = [omissions EXCEPT ![category_for(id)] = @ + 1]
         /\ omitted' = FirstOf(omitted, [x \in {id} |-> selected[x]])
  BY DEF Omit
<1>4. /\ id \in DOMAIN selected \ Mandatory /\ id \in Offered /\ id \notin DOMAIN omitted
      /\ \A y \in (DOMAIN selected \ Mandatory) \ {id} : Outranks(y, id)
      /\ selected[id].mandatory = FALSE
  <2>1. Optional = DOMAIN selected \ Mandatory
    BY OptionalIs
  <2> QED BY <2>1 DEF Removable, PackedIsOffered
<1>5. /\ DOMAIN omitted' = DOMAIN omitted \cup {id}
      /\ \A x \in DOMAIN omitted : omitted'[x] = omitted[x]
      /\ omitted'[id] = selected[id]
  BY <1>3, <1>4 DEF FirstOf
<1>6. Cut'
  BY <1>5 DEF Cut
<1>7. PICK items : items = Without(id)
  OBVIOUS
<1>8. DOMAIN items = DOMAIN selected \ {id} /\ \A x \in DOMAIN items : items[x] = selected[x]
  BY <1>7 DEF Without
<1>9. /\ DOMAIN selected' = DOMAIN items
      /\ \A x \in DOMAIN items : /\ selected'[x] \in Item
                                 /\ selected'[x].mandatory = items[x].mandatory
                                 /\ selected'[x].score = items[x].score
                                 /\ selected'[x].tokens = IF items[x].tokens = 0 THEN Cost[x] ELSE Cost[x] + Digits[x]
  <2>1. \A x \in DOMAIN items : items[x] \in Item
    BY <1>8 DEF PackedIsOffered
  <2>2. DOMAIN items \subseteq Ids /\ selected' = Estimated(items)
    BY <1>2, <1>3, <1>7, <1>8 DEF PackedIsOffered
  <2> QED BY <2>1, <2>2, EstimatedIs
<1>10. DOMAIN selected' = Offered' \ DOMAIN omitted'
  BY <1>1, <1>5, <1>8, <1>9 DEF PackedIsOffered
<1>11. ASSUME NEW x \in DOMAIN selected'
       PROVE  /\ x \in DOMAIN selected
              /\ selected'[x] \in Item
              /\ selected'[x].score = selected[x].score
              /\ x \in Mandatory => selected'[x].mandatory = TRUE
              /\ x \notin Mandatory => selected'[x].mandatory = FALSE
              /\ selected'[x].tokens = Tokens(x)'
  <2>1. x \in DOMAIN selected /\ x \in Ids /\ items[x] = selected[x]
    BY <1>2, <1>8, <1>9, <1>11 DEF PackedIsOffered
  <2>2. selected[x].tokens # 0
    BY <2>1, CostIs DEF PackedIsOffered, Tokens
  <2>3. selected'[x].tokens = Tokens(x)'
    BY <1>6, <1>9, <1>11, <2>1, <2>2 DEF Tokens
  <2> QED BY <1>9, <1>11, <2>1, <2>3 DEF PackedIsOffered
<1>12. links' = Joins(DOMAIN selected \cup spine)'
  <2>1. PICK shown : shown = DOMAIN items \cup spine
    OBVIOUS
  <2>2. PICK held : held = {l \in DOMAIN links : l.source \in shown /\ l.target \in shown}
    OBVIOUS
  <2>3. Retained(items) = [e \in held |-> links[e]]
    BY <2>1, <2>2 DEF Retained
  <2>4. \A e \in held : links[e] # 0
    <3>1. \A e \in DOMAIN links : links[e] \in {EdgeCost, EdgeCost + EdgeDigits}
      BY DEF PackedIsOffered, Joins
    <3>2. 0 \notin {EdgeCost, EdgeCost + EdgeDigits}
      BY OrbitAssumption
    <3> QED BY <2>2, <3>1, <3>2
  <2>5. links' = [e \in held |-> EdgeCost + EdgeDigits]
    <3>1. links' = [e \in held |-> Estimate(EdgeCost, EdgeDigits, links[e])]
      BY <1>3, <1>7, <2>3 DEF EstimatedLinks
    <3>2. \A e \in held : Estimate(EdgeCost, EdgeDigits, links[e]) = EdgeCost + EdgeDigits
      BY <2>4 DEF Estimate
    <3> QED BY <3>1, <3>2
  <2>6. held = {l \in edges : l.source \in shown /\ l.target \in shown}
    <3>1. DOMAIN links = {l \in edges : Cut => /\ l.source \in DOMAIN selected \cup spine
                                               /\ l.target \in DOMAIN selected \cup spine}
      BY DEF PackedIsOffered, Joins
    <3>2. shown \subseteq DOMAIN selected \cup spine
      BY <1>8, <2>1
    <3> QED BY <2>2, <3>1, <3>2
  <2>7. Joins(DOMAIN selected \cup spine)' =
          [e \in {l \in edges : l.source \in shown /\ l.target \in shown} |-> EdgeCost + EdgeDigits]
    <3>1. (DOMAIN selected \cup spine)' = shown /\ edges' = edges
      BY <1>0, <1>9, <2>1
    <3> QED BY <1>6, <3>1 DEF Joins
  <2> QED BY <2>5, <2>6, <2>7
<1>13. PackedIsOffered'
  <2>1. spine' = Spine' /\ total' = Settled(selected', links', spine')
    BY <1>0, <1>1 DEF PackedIsOffered
  <2> QED BY <1>1, <1>10, <1>11, <1>12, <2>1 DEF PackedIsOffered
<1>14. OmittedIsLowest'
  <2>1. DOMAIN omitted' \subseteq Offered' \ Mandatory'
    BY <1>1, <1>4, <1>5 DEF OmittedIsLowest
  <2>2. ASSUME NEW x \in DOMAIN omitted'
        PROVE  /\ omitted'[x].mandatory = FALSE
               /\ \A y \in DOMAIN selected' \ Mandatory :
                    \/ selected'[y].score > omitted'[x].score
                    \/ selected'[y].score = omitted'[x].score /\ y > x
    <3>1. \A y \in DOMAIN selected' \ Mandatory :
              y \in (DOMAIN selected \ Mandatory) \ {id} /\ selected'[y].score = selected[y].score
      BY <1>8, <1>9, <1>11
    <3>2. CASE x \in DOMAIN omitted
      BY <1>5, <3>1, <3>2 DEF OmittedIsLowest
    <3>3. CASE x = id
      BY <1>4, <1>5, <3>1, <3>3 DEF Outranks
    <3> QED BY <1>5, <2>2, <3>2, <3>3
  <2> QED BY <1>1, <2>1, <2>2 DEF OmittedIsLowest
<1>15. Ended'
  BY <1>0 DEF Ended
<1>16. OmissionsAreCounted'
  <2>1. \A x : category_for(x)' = category_for(x)
    BY <1>0 DEF category_for, scale
  <2>2. category_for(id) \in Kinds
    BY CategoryIs
  <2>3. IsFiniteSet(DOMAIN omitted)
    BY <1>2, AtlasIs, FS_Subset DEF OmittedIsLowest
  <2>4. ASSUME NEW k \in Kinds
        PROVE  omissions'[k] = Cardinality({x \in DOMAIN omitted' : category_for(x) = k})
    <3>1. PICK S, T : /\ S = {x \in DOMAIN omitted : category_for(x) = k}
                      /\ T = {x \in DOMAIN omitted' : category_for(x) = k}
      OBVIOUS
    <3>2. IsFiniteSet(S) /\ omissions[k] = Cardinality(S)
      BY <2>3, <3>1, FS_Subset DEF OmissionsAreCounted
    <3>3. CASE category_for(id) = k
      <4>1. T = S \cup {id} /\ id \notin S
        BY <1>4, <1>5, <3>1, <3>3
      <4>2. Cardinality(T) = Cardinality(S) + 1
        BY <3>2, <4>1, FS_AddElement
      <4>3. omissions'[k] = omissions[k] + 1
        BY <1>3, <3>3 DEF OmissionsAreCounted
      <4> QED BY <3>1, <3>2, <4>2, <4>3
    <3>4. CASE category_for(id) # k
      <4>1. T = S
        BY <1>5, <3>1, <3>4
      <4>2. omissions'[k] = omissions[k]
        BY <1>3, <3>4 DEF OmissionsAreCounted
      <4> QED BY <3>1, <3>2, <4>1, <4>2
    <3> QED BY <3>3, <3>4
  <2>5. DOMAIN omissions' = Kinds
    BY <1>3 DEF OmissionsAreCounted
  <2> QED BY <2>1, <2>4, <2>5 DEF OmissionsAreCounted
<1> QED BY <1>13, <1>14, <1>15, <1>16

-----------------------------------------------------------------------------
(* The comparison, and the types of the rest.                              *)

AskedOf == IF request.dimensions = {} THEN Usual ELSE request.dimensions

Answered(c) == c.unresolved \cup {p[1] : p \in c.matches \cup c.left_only \cup c.right_only}

\* A comparison answers for every dimension it is asked about.
LEMMA ComparisonAnswers ==
  ASSUME NEW left, NEW right
  PROVE  Answered(compare_entities(left, right)) = AskedOf
<1>1. PICK dims : dims = AskedOf
  OBVIOUS
<1> DEFINE L(d) == values(left, d)
           R(d) == values(right, d)
           Both == UNION {{<<d, v>> : v \in L(d) \cap R(d)} : d \in dims}
           OnlyL == UNION {{<<d, v>> : v \in L(d) \ R(d)} : d \in dims}
           OnlyR == UNION {{<<d, v>> : v \in R(d) \ L(d)} : d \in dims}
           None == {d \in dims : L(d) = {} /\ R(d) = {}}
<1>2. PICK c : c = compare_entities(left, right)
  OBVIOUS
<1>3. c.matches = Both /\ c.left_only = OnlyL /\ c.right_only = OnlyR /\ c.unresolved = None
  BY <1>1, <1>2 DEF compare_entities, AskedOf
<1>4. Answered(c) = None \cup {p[1] : p \in Both \cup OnlyL \cup OnlyR}
  BY <1>3 DEF Answered
<1> HIDE DEF L, R
<1>5. ASSUME NEW p \in Both \cup OnlyL \cup OnlyR PROVE p[1] \in dims
  OBVIOUS
<1>6. ASSUME NEW d \in dims, d \notin None PROVE \E p \in Both \cup OnlyL \cup OnlyR : p[1] = d
  <2>1. PICK v : v \in L(d) \cup R(d)
    BY <1>6
  <2>2. v \in L(d) \cap R(d) \/ v \in L(d) \ R(d) \/ v \in R(d) \ L(d)
    BY <2>1
  <2>3. <<d, v>> \in Both \cup OnlyL \cup OnlyR
    BY <2>2
  <2> QED BY <2>3
<1>7. None \subseteq dims
  OBVIOUS
<1> HIDE DEF None, Both, OnlyL, OnlyR
<1>8. Answered(c) = dims
  BY <1>4, <1>5, <1>6, <1>7
<1> QED BY <1>1, <1>2, <1>8

RestInv ==
    /\ phase # "walk" => queue = <<>>
    /\ DOMAIN depths \subseteq Ids
    /\ again \in BOOLEAN
    /\ phase \in Packed /\ request.mode = "compare" => Answered(comparison) = AskedOf
-----------------------------------------------------------------------------
(* What a refused request would need.                                      *)

Near    == IF request.depth = 0 THEN {} ELSE Ball[request.depth - 1]
Met     == {e \in snapshot.edges : Followed(e) /\ {e.source, e.target} \cap Near # {}}
AllStay == Offered \subseteq Mandatory

NeededItems == [x \in Mandatory |-> IF AllStay THEN Cost[x] ELSE Cost[x] + Digits[x]]
NeededLinks ==
    LET shown == Mandatory \cup Spine
    IN [e \in {l \in Met : ~ AllStay => l.source \in shown /\ l.target \in shown} |->
          IF AllStay THEN EdgeCost ELSE EdgeCost + EdgeDigits]

\* The cost of what can not be left out, written as often as getting there takes.
NeededTotal ==
    Total(NeededItems) + Total(NeededLinks) + Total([x \in Spine |-> Cost[x]]) + Envelope

\* It follows from what is asked and of which Atlas.
LEMMA SameNeed ==
  ASSUME UNCHANGED <<snapshot, request>>
  PROVE  NeededTotal' = NeededTotal
<1>1. Spine' = Spine /\ Offered' = Offered /\ Mandatory' = Mandatory
  BY SameAnswer
<1>2. Ball' = Ball
  BY SameQuestion
<1>3. Met' = Met
  BY <1>2 DEF Met, Near, Followed
<1>4. AllStay' = AllStay
  BY <1>1 DEF AllStay
<1>5. NeededItems' = NeededItems
  BY <1>1, <1>4 DEF NeededItems
<1>6. NeededLinks' = NeededLinks
  BY <1>1, <1>3, <1>4 DEF NeededLinks
<1>7. PICK f : f = [x \in Spine |-> Cost[x]]
  OBVIOUS
<1>8. [x \in Spine |-> Cost[x]]' = f
  BY <1>1, <1>7
<1> QED BY <1>5, <1>6, <1>7, <1>8 DEF NeededTotal

\* And it is what a packet costs when nothing more can go.
LEMMA NeedIs ==
  ASSUME Given, ExactWalk, PackedIsOffered, OmittedIsLowest, DOMAIN selected \subseteq Mandatory
  PROVE  total = NeededTotal
<1>1. /\ DOMAIN selected = Mandatory /\ DOMAIN omitted = Offered \ Mandatory /\ spine = Spine
  BY DEF PackedIsOffered, OmittedIsLowest, Mandatory
<1>2. Cut <=> ~ AllStay
  BY <1>1 DEF Cut, AllStay
<1>3. PICK f : f = [x \in DOMAIN selected |-> selected[x].tokens]
  OBVIOUS
<1>4. f = NeededItems
  <2>1. \A x \in Mandatory : selected[x].tokens = IF AllStay THEN Cost[x] ELSE Cost[x] + Digits[x]
    BY <1>1, <1>2 DEF PackedIsOffered, Tokens
  <2> QED BY <1>1, <1>3, <2>1 DEF NeededItems
<1>5. edges = Met
  BY DEF ExactWalk, Met, Near
<1>6. links = NeededLinks
  <2>1. links = Joins(Mandatory \cup Spine)
    BY <1>1 DEF PackedIsOffered
  <2> QED BY <2>1, <1>2, <1>5 DEF Joins, NeededLinks
<1>7. total = Total(f) + Total(links) + Total([x \in Spine |-> Cost[x]]) + Envelope
  BY <1>1, <1>3 DEF PackedIsOffered, Settled
<1> QED BY <1>4, <1>6, <1>7 DEF NeededTotal

RetryInv ==
    /\ again => budget = NeededTotal
    /\ again => phase # "refused"

\* The cost of a packet is a natural.
LEMMA PackedTotal ==
  ASSUME Given, ExactWalk, PackedIsOffered
  PROVE  /\ total \in Nat
         /\ DOMAIN links \subseteq snapshot.edges
         /\ DOMAIN selected \subseteq Known
<1>1. /\ DOMAIN selected \subseteq Known /\ spine \subseteq Known
      /\ \A x \in DOMAIN selected : selected[x].tokens \in Nat
  BY ContentsAreKnown DEF PackedIsOffered, Offered, Within, Item
<1>2. DOMAIN links \subseteq snapshot.edges /\ \A e \in DOMAIN links : links[e] \in Nat
  <2>1. edges \subseteq snapshot.edges
    BY DEF ExactWalk
  <2>2. EdgeCost \in Nat /\ EdgeCost + EdgeDigits \in Nat
    BY OrbitAssumption
  <2> QED BY <2>1, <2>2 DEF PackedIsOffered, Joins
<1>3. Settled(selected, links, spine) \in Nat
  BY <1>1, <1>2, SettledType
<1> QED BY <1>1, <1>2, <1>3 DEF PackedIsOffered

OrbitInv == WalkInv /\ BudgetInv /\ RestInv /\ RetryInv

\* What is packed is not touched by a step that leaves the packet and the walk.
LEMMA PackedStays ==
  ASSUME UNCHANGED <<snapshot, request, walked, selected, spine, links, total, omissions, omitted>>
  PROVE  /\ PackedIsOffered' = PackedIsOffered
         /\ OmittedIsLowest' = OmittedIsLowest
         /\ OmissionsAreCounted' = OmissionsAreCounted
<1>1. Spine' = Spine /\ Offered' = Offered /\ Mandatory' = Mandatory
  BY SameAnswer
<1>2. edges' = edges
  BY DEF walked
<1>3. \A x : Tokens(x)' = Tokens(x)
  BY DEF Tokens, Cut
<1>4. (links = Joins(DOMAIN selected \cup spine))' = (links = Joins(DOMAIN selected \cup spine))
  BY <1>2 DEF Joins, Cut
<1>5. PackedIsOffered' = PackedIsOffered
  BY <1>1, <1>3, <1>4 DEF PackedIsOffered
<1>6. OmittedIsLowest' = OmittedIsLowest
  BY <1>1 DEF OmittedIsLowest
<1>7. OmissionsAreCounted' = OmissionsAreCounted
  BY DEF OmissionsAreCounted, category_for, scale
<1> QED BY <1>5, <1>6, <1>7

\* Nothing is omitted of an empty packet, and nothing is counted.
LEMMA NothingCounted ==
  /\ DOMAIN Nothing = {}
  /\ Cardinality({}) = 0
  /\ \A f : Cardinality({x \in DOMAIN Nothing : f}) = 0
<1>1. DOMAIN Nothing = {}
  BY DEF Nothing
<1> QED BY <1>1, FS_EmptySet

LEMMA BudgetStep ==
  ASSUME WalkInv, BudgetInv, [Next]_vars
  PROVE  BudgetInv'
<1>0. Given /\ phase \in Phases
  BY DEF WalkInv
<1>1. CASE Ask \/ MissingComparisonEntities \/ Visit
  <2>1. /\ UNCHANGED <<snapshot, selected, spine, links, omitted, total, minimum, omissions>>
        /\ phase \notin Packed /\ phase' \notin Packed
    BY <1>1 DEF Ask, MissingComparisonEntities, Visit, packet, Packed
  <2>2. NothingPacked'
    BY <2>1 DEF BudgetInv, NothingPacked, Nothing
  <2>3. OmissionsAreCounted'
    BY <2>1 DEF BudgetInv, OmissionsAreCounted, category_for, scale
  <2> QED BY <2>1, <2>2, <2>3 DEF BudgetInv
<1>2. CASE Select
  <2>1. phase = "walk" /\ queue = <<>> /\ phase' = "budget"
    BY <1>2 DEF Select
  <2>2. Walking /\ NothingPacked /\ OmissionsAreCounted
    BY <2>1 DEF WalkInv, BudgetInv, Packed
  <2>3. ExactWalk
    BY <1>0, <2>1, <2>2, WalkEnds
  <2>4. \A x \in DOMAIN depths : depths[x] \in Nat
    BY <1>0, <2>2, RequestIs DEF Walking, ReachedAreNear
  <2>5. PackedIsOffered' /\ OmittedIsLowest' /\ Ended' /\ OmissionsAreCounted'
    BY <1>0, <1>2, <2>2, <2>3, <2>4, SelectPacks
  <2> QED BY <2>1, <2>5 DEF BudgetInv, Packed
<1>3. CASE Omit
  <2>1. phase = "budget" /\ phase' = "budget"
    BY <1>3 DEF Omit
  <2>2. ExactWalk /\ PackedIsOffered /\ OmittedIsLowest /\ Ended /\ OmissionsAreCounted
    BY <2>1 DEF WalkInv, BudgetInv, Packed
  <2>3. PackedIsOffered' /\ OmittedIsLowest' /\ Ended' /\ OmissionsAreCounted'
    BY <1>0, <1>3, <2>2, OmitPacks
  <2> QED BY <2>1, <2>3 DEF BudgetInv, Packed
<1>4. CASE Deliver \/ Refuse
  <2>1. /\ UNCHANGED <<snapshot, request, budget, walked, selected, spine, links, total, omissions, omitted>>
        /\ phase = "budget" /\ minimum' = total
        /\ \/ phase' = "done" /\ total <= budget
           \/ phase' = "refused" /\ total > budget /\ Removable = {}
    BY <1>4 DEF Deliver, Refuse, Needed
  <2>2. ExactWalk /\ PackedIsOffered /\ OmittedIsLowest /\ OmissionsAreCounted
    BY <2>1 DEF WalkInv, BudgetInv, Packed
  <2>3. PackedIsOffered' /\ OmittedIsLowest' /\ OmissionsAreCounted'
    BY <2>1, <2>2, PackedStays
  <2>4. phase' = "refused" => DOMAIN selected \subseteq Mandatory
    <3>1. DOMAIN selected \subseteq Known /\ \A x \in DOMAIN selected : selected[x] \in Item
      BY <1>0, <2>2, PackedTotal DEF PackedIsOffered
    <3>2. Optional = DOMAIN selected \ Mandatory
      BY <2>2, OptionalIs
    <3>3. phase' = "refused" => Optional = {}
      BY <1>0, <2>1, <3>1, RemovableExists
    <3> QED BY <3>2, <3>3
  <2>5. Ended'
    <3>1. Mandatory' = Mandatory /\ minimum' = total' /\ budget' = budget /\ total' = total /\ selected' = selected
      BY <2>1, SameAnswer
    <3> QED BY <2>1, <2>4, <3>1 DEF Ended
  <2> QED BY <2>1, <2>3, <2>5 DEF BudgetInv, Packed
<1>5. CASE AskAgain
  <2>1. /\ phase' = "asked" /\ NothingPacked' /\ omitted' = Nothing
        /\ omissions' = [k \in DOMAIN omissions |-> 0]
    BY <1>5 DEF AskAgain, NothingPacked, Nothing
  <2>2. OmissionsAreCounted'
    <3>1. DOMAIN omissions = Kinds /\ DOMAIN omitted' = {}
      BY <2>1, NothingCounted DEF BudgetInv, OmissionsAreCounted
    <3>2. \A k \in Kinds : {x \in DOMAIN omitted' : category_for(x)' = k} = {}
      BY <3>1
    <3> QED BY <2>1, <3>1, <3>2, FS_EmptySet DEF OmissionsAreCounted
  <2> QED BY <2>1, <2>2 DEF BudgetInv, Packed
<1>6. CASE UNCHANGED vars
  <2>1. /\ UNCHANGED <<snapshot, request, walked, selected, spine, links, total, omissions, omitted>>
        /\ UNCHANGED <<phase, minimum, budget>>
    BY <1>6 DEF vars, packet
  <2>2. /\ PackedIsOffered' = PackedIsOffered /\ OmittedIsLowest' = OmittedIsLowest
        /\ OmissionsAreCounted' = OmissionsAreCounted
    BY <2>1, PackedStays
  <2>3. Mandatory' = Mandatory
    BY <2>1, SameAnswer
  <2>4. Ended' = Ended /\ NothingPacked' = NothingPacked
    BY <2>1, <2>3 DEF Ended, NothingPacked, Nothing
  <2> QED BY <2>1, <2>2, <2>4 DEF BudgetInv
<1> QED BY <1>1, <1>2, <1>3, <1>4, <1>5, <1>6 DEF Next, Compile

LEMMA RestStep ==
  ASSUME WalkInv, WalkInv', RestInv, [Next]_vars
  PROVE  RestInv'
<1>0. Given /\ phase \in Phases
  BY DEF WalkInv
<1>1. CASE Ask \/ Visit
  <2>1. phase' = "walk" /\ again' = again
    BY <1>1 DEF Ask, Visit
  <2>2. DOMAIN depths' \subseteq Ids
    BY <2>1 DEF WalkInv, Walking, ReachedAreNear
  <2> QED BY <2>1, <2>2 DEF RestInv, Packed
<1>2. CASE MissingComparisonEntities
  BY <1>2 DEF MissingComparisonEntities, RestInv, walked, Packed
<1>3. CASE Select
  <2>1. /\ UNCHANGED <<request, again>> /\ phase' = "budget" /\ queue' = <<>> /\ depths' = depths
        /\ request.mode = "compare" => comparison' = compare_entities(Targets[1], Targets[2])
    BY <1>3 DEF Select, walked
  <2>2. request.mode = "compare" => Answered(comparison') = AskedOf
    BY <2>1, ComparisonAnswers
  <2>3. (Answered(comparison) = AskedOf)' <=> Answered(comparison') = AskedOf
    BY <2>1 DEF Answered, AskedOf
  <2> QED BY <2>1, <2>2, <2>3 DEF RestInv
<1>4. CASE Omit \/ Deliver \/ Refuse
  <2>1. UNCHANGED <<request, again, queue, depths, comparison>> /\ phase = "budget" /\ phase' \in Packed
    BY <1>4 DEF Omit, Deliver, Refuse, walked, Packed
  <2>2. (Answered(comparison) = AskedOf)' <=> Answered(comparison) = AskedOf
    BY <2>1 DEF Answered, AskedOf
  <2> QED BY <2>1, <2>2 DEF RestInv, Packed
<1>5. CASE AskAgain
  BY <1>5 DEF AskAgain, RestInv, Packed, Nothing
<1>6. CASE UNCHANGED vars
  <2>1. UNCHANGED <<request, again, queue, depths, comparison, phase>>
    BY <1>6 DEF vars, walked, packet
  <2>2. (Answered(comparison) = AskedOf)' <=> Answered(comparison) = AskedOf
    BY <2>1 DEF Answered, AskedOf
  <2> QED BY <2>1, <2>2 DEF RestInv
<1> QED BY <1>1, <1>2, <1>3, <1>4, <1>5, <1>6 DEF Next, Compile

LEMMA RetryStep ==
  ASSUME WalkInv, BudgetInv, BudgetInv', RetryInv, [Next]_vars
  PROVE  RetryInv'
<1>0. Given
  BY DEF WalkInv
<1>1. NeededTotal' = NeededTotal
  <2>1. UNCHANGED <<snapshot, request>>
    BY DEF Next, Compile, Ask, MissingComparisonEntities, Visit, Select, Omit, Deliver, Refuse, AskAgain, vars
  <2> QED BY <2>1, SameNeed
<1>2. CASE Ask \/ MissingComparisonEntities \/ Visit \/ Select \/ Omit \/ Deliver
  <2>1. UNCHANGED <<again, budget>> /\ phase' # "refused"
    BY <1>2 DEF Ask, MissingComparisonEntities, Visit, Select, Omit, Deliver
  <2> QED BY <1>1, <2>1 DEF RetryInv
<1>3. CASE Refuse
  <2>1. UNCHANGED <<again, budget>> /\ UNCHANGED <<snapshot, request, selected, total, walked, spine, links, omissions, omitted>>
        /\ phase = "budget" /\ total > budget /\ phase' = "refused"
    BY <1>3 DEF Refuse
  <2>2. ExactWalk /\ PackedIsOffered /\ OmittedIsLowest
    BY <2>1 DEF WalkInv, BudgetInv, Packed
  <2>3. DOMAIN selected \subseteq Mandatory
    <3>1. DOMAIN selected' \subseteq Mandatory'
      BY <2>1 DEF BudgetInv, Packed, Ended
    <3> QED BY <2>1, <3>1, SameAnswer
  <2>4. total = NeededTotal /\ total \in Nat
    BY <1>0, <2>2, <2>3, NeedIs, PackedTotal
  <2>5. ~ again
    BY <2>1, <2>4 DEF RetryInv
  <2> QED BY <2>1, <2>5 DEF RetryInv
<1>4. CASE AskAgain
  <2>1. phase = "refused" /\ budget' = minimum /\ phase' = "asked"
    BY <1>4 DEF AskAgain
  <2>2. ExactWalk /\ PackedIsOffered /\ OmittedIsLowest /\ minimum = total /\ DOMAIN selected \subseteq Mandatory
    BY <2>1 DEF WalkInv, BudgetInv, Packed, Ended
  <2>3. total = NeededTotal
    BY <1>0, <2>2, NeedIs
  <2> QED BY <1>1, <2>1, <2>2, <2>3 DEF RetryInv
<1>5. CASE UNCHANGED vars
  <2>1. UNCHANGED <<again, budget, phase>>
    BY <1>5 DEF vars
  <2> QED BY <1>1, <2>1 DEF RetryInv
<1> QED BY <1>2, <1>3, <1>4, <1>5 DEF Next, Compile

LEMMA OrbitInvHolds == Spec => []OrbitInv
<1>1. Init => OrbitInv
  <2> SUFFICES ASSUME Init PROVE OrbitInv
    OBVIOUS
  <2>1. WalkInv
    BY DEF Init, WalkInv, Given, Phases
  <2>2. BudgetInv
    <3>1. NothingPacked /\ phase = "asked" /\ omissions = [k \in Kinds |-> 0] /\ DOMAIN omitted = {}
      BY NothingCounted DEF Init, EmptyPacket, NothingPacked, Kinds
    <3>2. \A k \in Kinds : {x \in DOMAIN omitted : category_for(x) = k} = {}
      BY <3>1
    <3>3. OmissionsAreCounted
      BY <3>1, <3>2, FS_EmptySet DEF OmissionsAreCounted
    <3> QED BY <3>1, <3>3 DEF BudgetInv, Packed
  <2>3. RestInv /\ RetryInv
    BY NothingCounted DEF Init, RestInv, RetryInv, Packed
  <2> QED BY <2>1, <2>2, <2>3 DEF OrbitInv
<1>2. OrbitInv /\ WalkInv' /\ [Next]_vars => OrbitInv'
  BY BudgetStep, RestStep, RetryStep DEF OrbitInv
<1> QED BY <1>1, <1>2, WalkInvHolds, PTL DEF Spec

\* What the budget takes away is not mandatory, ranks below all that is optional and
\* stays, and is counted under its category; a refusal comes when nothing optional is left.
THEOREM OrbitCutsAreFair == Spec => []CutsAreFair
<1>1. OrbitInv => CutsAreFair
  <2> SUFFICES ASSUME OrbitInv PROVE CutsAreFair
    OBVIOUS
  <2>0. OmissionsAreCounted
    BY DEF OrbitInv, BudgetInv
  <2>1. CASE phase \notin Packed
    <3>1. DOMAIN omitted = {}
      BY <2>1, NothingCounted DEF OrbitInv, BudgetInv, NothingPacked
    <3> QED BY <2>0, <2>1, <3>1 DEF CutsAreFair, OmissionsAreCounted, Packed
  <2>2. CASE phase \in Packed
    <3>1. PackedIsOffered /\ OmittedIsLowest /\ Ended
      BY <2>2 DEF OrbitInv, BudgetInv
    <3>2. Optional = DOMAIN selected \ Mandatory
      BY <3>1, OptionalIs
    <3>3. ASSUME NEW x \in DOMAIN omitted
          PROVE  /\ x \notin DOMAIN selected
                 /\ ~ omitted[x].mandatory
                 /\ \A y \in Optional : \/ selected[y].score > omitted[x].score
                                        \/ selected[y].score = omitted[x].score /\ y > x
      <4>1. omitted[x].mandatory = FALSE
        BY <3>1, <3>3 DEF OmittedIsLowest
      <4> QED BY <3>1, <3>2, <3>3, <4>1 DEF OmittedIsLowest, PackedIsOffered
    <3>4. phase = "refused" => Optional = {} /\ minimum > budget
      BY <3>1, <3>2 DEF Ended
    <3> QED BY <2>0, <3>3, <3>4 DEF CutsAreFair, OmissionsAreCounted
  <2> QED BY <2>1, <2>2
<1> QED BY <1>1, OrbitInvHolds, PTL

\* Who is refused and comes back with the budget the error names is not refused again.
THEOREM OrbitRetryIsGranted == Spec => []RetryIsGranted
<1>1. OrbitInv => RetryIsGranted
  BY DEF OrbitInv, RetryInv, RetryIsGranted
<1> QED BY <1>1, OrbitInvHolds, PTL

\* Every variable has its type.
THEOREM OrbitTypeCorrect == Spec => []TypeOK
<1>1. OrbitInv => TypeOK
  <2> SUFFICES ASSUME OrbitInv PROVE TypeOK
    OBVIOUS
  <2>0. Given /\ phase \in Phases
    BY DEF OrbitInv, WalkInv
  <2>1. \A i \in DOMAIN queue : queue[i] \in Ids \X Nat
    <3>1. CASE phase = "walk"
      <4>1. queue \in Seq(Ids \X Nat)
        BY <3>1 DEF OrbitInv, WalkInv, Walking, QueueIsOrdered
      <4> QED BY <4>1
    <3>2. CASE phase # "walk"
      BY <3>2 DEF OrbitInv, RestInv
    <3> QED BY <3>1, <3>2
  <2>2. edges \subseteq snapshot.edges
    <3>1. CASE phase = "walk"
      BY <3>1 DEF OrbitInv, WalkInv, Walking, MetAreNear, Touches
    <3>2. CASE phase \in Packed
      BY <3>2 DEF OrbitInv, WalkInv, ExactWalk, Packed
    <3>3. CASE phase \in {"asked", "invalid"}
      BY <3>3 DEF OrbitInv, WalkInv
    <3> QED BY <2>0, <3>1, <3>2, <3>3 DEF Phases, Packed
  <2>3. /\ DOMAIN selected \subseteq Known
        /\ \A x \in DOMAIN selected : selected[x] \in Item
        /\ spine \subseteq Known
        /\ DOMAIN links \subseteq snapshot.edges
        /\ total \in Nat /\ minimum \in Nat
    <3>1. CASE phase \notin Packed
      BY <3>1, NothingCounted DEF OrbitInv, BudgetInv, NothingPacked
    <3>2. CASE phase \in Packed
      <4>1. ExactWalk /\ PackedIsOffered /\ Ended
        BY <3>2 DEF OrbitInv, WalkInv, BudgetInv, Packed
      <4>2. total \in Nat /\ DOMAIN links \subseteq snapshot.edges /\ DOMAIN selected \subseteq Known
        BY <2>0, <4>1, PackedTotal
      <4>3. minimum \in Nat
        BY <3>2, <4>1, <4>2 DEF Ended, Packed
      <4>4. spine \subseteq Known
        BY <2>0, <4>1, ContentsAreKnown DEF PackedIsOffered
      <4> QED BY <4>1, <4>2, <4>3, <4>4 DEF PackedIsOffered
    <3> QED BY <3>1, <3>2
  <2>4. \A k \in DOMAIN omissions : omissions[k] \in Nat
    <3>1. IsFiniteSet(DOMAIN omitted)
      <4>1. DOMAIN omitted \subseteq Known
        <5>1. CASE phase \notin Packed
          BY <5>1, NothingCounted DEF OrbitInv, BudgetInv, NothingPacked
        <5>2. CASE phase \in Packed
          BY <2>0, <5>2, ContentsAreKnown DEF OrbitInv, BudgetInv, OmittedIsLowest, Offered, Within
        <5> QED BY <5>1, <5>2
      <4> QED BY <2>0, <4>1, AtlasIs, FS_Subset
    <3>2. \A k \in Kinds : Cardinality({x \in DOMAIN omitted : category_for(x) = k}) \in Nat
      <4> TAKE k \in Kinds
      <4>1. IsFiniteSet({x \in DOMAIN omitted : category_for(x) = k})
        BY <3>1, FS_Subset
      <4> QED BY <4>1, FS_CardinalityType
    <3> QED BY <3>2 DEF OrbitInv, BudgetInv, OmissionsAreCounted
  <2>5. snapshot \in Snapshots /\ DOMAIN depths \subseteq Ids /\ again \in BOOLEAN
    BY <2>0 DEF OrbitInv, RestInv, Given
  <2> QED BY <2>0, <2>1, <2>2, <2>3, <2>4, <2>5 DEF TypeOK, Phases
<1> QED BY <1>1, OrbitInvHolds, PTL

\* A packet shows no entity it was asked to leave out, its relationships join what it shows,
\* was asked to leave out or does not know, and only what it shows once anything was cut, and a
\* comparison answers for every dimension (compiler.rs, budget.rs).
THEOREM OrbitPacketIsCoherent == Spec => []PacketIsCoherent
<1>1. OrbitInv /\ TypeOK => PacketIsCoherent
  <2> SUFFICES ASSUME OrbitInv, TypeOK, phase \in Packed
               PROVE  LET shown == DOMAIN selected \cup spine
                      IN /\ shown \cap request.exclusions = {}
                         /\ \A e \in DOMAIN links :
                              IF DOMAIN omitted = {}
                              THEN {e.source, e.target} \cap Known \subseteq shown \cup request.exclusions
                              ELSE {e.source, e.target} \subseteq shown
                         /\ request.mode = "compare" =>
                              AskedOf = comparison.unresolved \cup
                                {p[1] : p \in comparison.matches \cup comparison.left_only
                                                \cup comparison.right_only}
    BY DEF PacketIsCoherent, Packed, AskedOf
  <2>0. Given /\ ExactWalk /\ PackedIsOffered /\ OmittedIsLowest /\ Ended /\ RestInv
    BY DEF OrbitInv, WalkInv, BudgetInv, Packed
  <2>1. (DOMAIN selected \cup spine) \cap request.exclusions = {}
    BY <2>0, ContentsAreKnown DEF PackedIsOffered, Offered
  <2>2. ASSUME NEW e \in DOMAIN links, NEW x \in {e.source, e.target}
        PROVE  IF DOMAIN omitted = {}
               THEN x \in Known => x \in DOMAIN selected \cup spine \cup request.exclusions
               ELSE x \in DOMAIN selected \cup spine
    <3>1. e \in edges /\ (Cut => /\ e.source \in DOMAIN selected \cup spine
                                 /\ e.target \in DOMAIN selected \cup spine)
      BY <2>0, <2>2 DEF PackedIsOffered, Joins
    <3>2. CASE Cut
      BY <2>2, <3>1, <3>2 DEF Cut
    <3>3. CASE ~ Cut
      <4> SUFFICES ASSUME x \in Known PROVE x \in DOMAIN selected \cup spine \cup request.exclusions
        BY <3>3 DEF Cut
      <4>1. request.depth \in Nat
        BY <2>0, RequestIs
      <4>2. request.depth \in 1 .. request.depth /\
            \E y \in Ball[request.depth - 1] : Touches(e, y)
        <5>1. request.depth # 0
          BY <2>0, <3>1 DEF ExactWalk
        <5>2. {e.source, e.target} \cap Ball[request.depth - 1] # {} /\ e \in snapshot.edges /\ Followed(e)
          BY <2>0, <3>1, <5>1 DEF ExactWalk
        <5> QED BY <4>1, <5>1, <5>2 DEF Touches
      <4>3. x \in Ball[request.depth]
        BY <2>0, <2>2, <4>2, NextToBall
      <4>4. x \in Offered \/ x \in request.exclusions
        BY <4>3 DEF Offered, Within
      <4> QED BY <2>0, <3>3, <4>4 DEF Cut, PackedIsOffered
    <3> QED BY <3>2, <3>3
  <2> QED BY <2>0, <2>1, <2>2 DEF PackedIsOffered, Ended, RestInv, Answered
<1> QED BY <1>1, OrbitInvHolds, OrbitTypeCorrect, PTL
=============================================================================
