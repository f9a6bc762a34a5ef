---------------------------- MODULE SymbolsProofs ----------------------------
(***************************************************************************)
(* Proofs about Symbols, for every set of files, names and constructs, any *)
(* order of the ids, and whatever a model answers.                         *)
(*                                                                         *)
(* Matching gives no stored symbol to two declarations; so two of an index *)
(* share an id only if a parse gave them one, or one of them had it from   *)
(* its line and the other from what is stored.  In a file that changes one *)
(* name at a time what is stored and what is written agree but for one     *)
(* declaration, which is what the two phases of the match rest on.  Where  *)
(* the two agree in full, the first phase finds a stored symbol for each   *)
(* declaration and gives namesakes their ids in the order of places.       *)
(***************************************************************************)
EXTENDS Symbols, FiniteSetTheorems, WellFoundedInduction, TLAPS

\* No two stand at one place.
Placed(S) == \A s, t \in S : s.file = t.file /\ s.at = t.at => s = t

\* What is stored of a file.
In(f) == {s \in stored : s.file = f}

\* Symbol s is of declaration d.
Of(s, d) == s.thing = d.thing /\ s.name = d.name /\ s.construct = d.construct

\* What is stored of a file agrees with what is written there, but for the things in X.
Agree(f, X) ==
    /\ \A s \in In(f) : s.thing \in X \/ \E l \in DOMAIN text[f] : Of(s, text[f][l])
    /\ \A l \in DOMAIN text[f] : text[f][l].thing \in X \/ \E s \in In(f) : Of(s, text[f][l])
    /\ \A s \in In(f), l \in DOMAIN text[f] :
          s.thing = text[f][l].thing => s.construct = text[f][l].construct

AtMostOne == {{}} \cup {{x} : x \in Things}

\* An id names the file it was made of; things are told apart by when they were written.
BaseInv ==
    /\ TypeOK
    /\ RefusedForReason
    /\ DOMAIN text = Files
    /\ Placed(stored)
    /\ \A s \in stored : s.id[1] = s.file /\ s.thing[1] <= edits
    /\ \A f \in Files : \A l \in DOMAIN text[f] : text[f][l].thing[1] <= edits
    /\ \A f \in Files : \A k, l \in DOMAIN text[f] : text[f][k].thing = text[f][l].thing => k = l

\* A file that is clear.
ClearInv(f) ==
    /\ touched[f] <= 1 /\ ~ Repeats(text[f])
    /\ \A s \in In(f) : s.summaries \subseteq {s.thing}
    /\ \A s, t \in In(f) : s.thing = t.thing \/ (s.name = t.name /\ kind(s) = kind(t)) => s = t
    /\ In(f) # {} => \E X \in AtMostOne : (touched[f] = 0 => X = {}) /\ Agree(f, X)

SymbolsInv ==
    /\ BaseInv
    /\ \A f \in Clear : ClearInv(f)
-----------------------------------------------------------------------------
(* Sets of symbols.                                                        *)

LEMMA PlacesAre ==
  /\ MaxPlace \in Nat
  /\ Places \subseteq Nat /\ IsFiniteSet(Places)
  /\ \A l \in Places : 0 < l /\ l <= MaxPlace
BY SymbolsAssumption, FS_Interval DEF Places

LEMMA PlacesAreFinite ==
  ASSUME NEW S \in SUBSET Symbol, Placed(S)
  PROVE  IsFiniteSet(S)
<1> DEFINE place == [s \in S |-> <<s.file, s.at>>]
<1>1. IsFiniteSet(Places)
  BY PlacesAre
<1>2. IsFiniteSet(Files \X Places)
  BY <1>1, SymbolsAssumption, FS_Product
<1>3. place \in [S -> Files \X Places]
  BY DEF Symbol
<1>4. \A s, t \in S : place[s] = place[t] => s = t
  BY DEF Placed
<1>5. place \in Injection(S, Files \X Places)
  BY <1>3, <1>4 DEF Injection, IsInjective
<1> QED BY <1>2, <1>5, FS_Injection

LEMMA StrictlyFewer ==
  ASSUME NEW B, IsFiniteSet(B), NEW A \in SUBSET B, A # B
  PROVE  Cardinality(A) # Cardinality(B)
BY FS_Subset

\* Namesakes are told apart by their ranks.
LEMMA LineRanks ==
  ASSUME NEW S \in SUBSET Symbol, Placed(S), NEW m \in S, NEW n \in S,
         Namesakes(m, n), RankByPlace(m, S) = RankByPlace(n, S)
  PROVE  m = n
<1>1. ASSUME NEW a \in S, NEW b \in S, Namesakes(a, b), a.at < b.at
      PROVE  RankByPlace(a, S) # RankByPlace(b, S)
  <2> DEFINE A == {t \in S : Namesakes(a, t) /\ t.at < a.at}
             B == {t \in S : Namesakes(b, t) /\ t.at < b.at}
  <2>1. A \subseteq B /\ a \in B /\ a \notin A
    <3>1. \A t \in S : t.at \in Nat
      BY PlacesAre DEF Symbol
    <3> QED BY <1>1, <3>1 DEF Namesakes
  <2>2. IsFiniteSet(B)
    BY PlacesAreFinite, FS_Subset
  <2>3. Cardinality(A) # Cardinality(B)
    BY <2>1, <2>2, StrictlyFewer
  <2> QED BY <2>3 DEF RankByPlace
<1>2. m.at \in Nat /\ n.at \in Nat
  BY PlacesAre DEF Symbol
<1>3. Namesakes(n, m)
  BY DEF Namesakes
<1>4. m.at = n.at
  BY <1>1, <1>2, <1>3
<1> QED BY <1>4 DEF Placed, Namesakes

LEMMA IdRanks ==
  ASSUME NEW S \in SUBSET Symbol, Placed(S), Distinct(S), NEW p \in S, NEW q \in S,
         Namesakes(p, q), RankById(p, S) = RankById(q, S)
  PROVE  p = q
<1>1. ASSUME NEW a \in S, NEW b \in S, Namesakes(a, b), Hash[a.id] < Hash[b.id]
      PROVE  RankById(a, S) # RankById(b, S)
  <2> DEFINE A == {t \in S : Namesakes(a, t) /\ Hash[t.id] < Hash[a.id]}
             B == {t \in S : Namesakes(b, t) /\ Hash[t.id] < Hash[b.id]}
  <2>1. A \subseteq B /\ a \in B /\ a \notin A
    <3>1. \A t \in S : Hash[t.id] \in Nat
      BY SymbolsAssumption DEF Symbol
    <3> QED BY <1>1, <3>1 DEF Namesakes
  <2>2. IsFiniteSet(B)
    BY PlacesAreFinite, FS_Subset
  <2>3. Cardinality(A) # Cardinality(B)
    BY <2>1, <2>2, StrictlyFewer
  <2> QED BY <2>3 DEF RankById
<1>2. Hash[p.id] \in Nat /\ Hash[q.id] \in Nat /\ p.id \in Ids /\ q.id \in Ids
  BY SymbolsAssumption DEF Symbol
<1>3. Namesakes(q, p)
  BY DEF Namesakes
<1>4. Hash[p.id] = Hash[q.id]
  BY <1>1, <1>2, <1>3
<1>5. p.id = q.id
  BY <1>2, <1>4, SymbolsAssumption
<1> QED BY <1>5 DEF Distinct
-----------------------------------------------------------------------------
(* Matching.                                                               *)

\* No two of a set of pairs have an end in common.
OneToOne(P) ==
    \A a, b \in P : a[1] = b[1] \/ a[2] = b[2] => a = b

LEMMA MovedIs ==
  ASSUME NEW new \in SUBSET Symbol, Placed(new),
         NEW old \in SUBSET Symbol, Placed(old), Distinct(old)
  PROVE  OneToOne(Moved(new, old))
<1> SUFFICES ASSUME NEW a \in Moved(new, old), NEW b \in Moved(new, old), a[1] = b[1] \/ a[2] = b[2]
             PROVE  a = b
  BY DEF OneToOne
<1>1. /\ a \in new \X old /\ b \in new \X old
      /\ Namesakes(a[1], a[2]) /\ RankByPlace(a[1], new) = RankById(a[2], old)
      /\ Namesakes(b[1], b[2]) /\ RankByPlace(b[1], new) = RankById(b[2], old)
  BY DEF Moved
<1>2. CASE a[1] = b[1]
  <2>1. Namesakes(a[2], b[2]) /\ RankById(a[2], old) = RankById(b[2], old)
    BY <1>1, <1>2 DEF Namesakes
  <2>2. a[2] = b[2]
    BY <1>1, <2>1, IdRanks
  <2> QED BY <1>1, <1>2, <2>2
<1>3. CASE a[2] = b[2]
  <2>1. Namesakes(a[1], b[1]) /\ RankByPlace(a[1], new) = RankByPlace(b[1], new)
    BY <1>1, <1>3 DEF Namesakes
  <2>2. a[1] = b[1]
    BY <1>1, <2>1, LineRanks
  <2> QED BY <1>1, <1>3, <2>2
<1> QED BY <1>2, <1>3

LEMMA RenamedIs ==
  ASSUME NEW new \in SUBSET Symbol, Placed(new), NEW old \in SUBSET Symbol
  PROVE  OneToOne(Renamed(new, old))
<1> SUFFICES ASSUME NEW a \in Renamed(new, old), NEW b \in Renamed(new, old), a[1] = b[1] \/ a[2] = b[2]
             PROVE  a = b
  BY DEF OneToOne
<1>1. /\ a \in new \X old /\ b \in new \X old
      /\ Alike(a[1], a[2]) /\ \A q \in old : Alike(a[1], q) => q = a[2]
      /\ Alike(b[1], b[2])
      /\ ~ \E m \in new : Alike(m, a[1]) /\ m.at < a[1].at
      /\ ~ \E m \in new : Alike(m, b[1]) /\ m.at < b[1].at
  BY DEF Renamed
<1>2. CASE a[1] = b[1]
  BY <1>1, <1>2
<1>3. CASE a[2] = b[2]
  <2>1. Alike(a[1], b[1]) /\ Alike(b[1], a[1])
    BY <1>1, <1>3 DEF Alike
  <2>2. a[1].at \in Nat /\ b[1].at \in Nat
    BY <1>1, PlacesAre DEF Symbol
  <2>3. a[1].at = b[1].at
    BY <1>1, <2>1, <2>2
  <2>4. a[1] = b[1]
    BY <1>1, <2>1, <2>3 DEF Placed, Alike
  <2> QED BY <1>1, <1>3, <2>4
<1> QED BY <1>2, <1>3
-----------------------------------------------------------------------------
(* What an index makes.                                                    *)

\* A parse is of one declaration, under the id of its line.
LEMMA ParsedIs ==
  ASSUME TypeOK
  PROVE  /\ Parsed \subseteq Symbol /\ Placed(Parsed)
         /\ \A n \in Parsed :
              /\ n.file \in Files \ garbled /\ n.at \in DOMAIN text[n.file]
              /\ n.id = Fresh(n) /\ n.id[1] = n.file
              /\ Of(n, text[n.file][n.at])
         /\ \A f \in Files \ garbled : \A l \in DOMAIN text[f] :
              \E n \in Parsed : n.file = f /\ n.at = l /\ Of(n, text[f][l])
<1> DEFINE Parse(f, l) == [id |-> symbol_entity_id(f, text[f][l].name, Line[l]), file |-> f,
                           name |-> text[f][l].name, construct |-> text[f][l].construct, at |-> l,
                           thing |-> text[f][l].thing, summaries |-> {}]
<1>1. ASSUME NEW f \in Files, NEW l \in DOMAIN text[f]
      PROVE  Parse(f, l) \in Symbol
  <2>1. l \in Places /\ text[f][l] \in Declaration /\ Line[l] \in Lines
    BY <1>1 DEF TypeOK, Lines
  <2> QED BY <1>1, <2>1 DEF Symbol, Declaration, Ids, symbol_entity_id
<1>2. Parsed = UNION {{Parse(f, l) : l \in DOMAIN text[f]} : f \in Files \ garbled}
  BY DEF Parsed
<1>3. \A n \in Parsed : \E f \in Files \ garbled : \E l \in DOMAIN text[f] : n = Parse(f, l)
  BY <1>2
<1>4. \A f \in Files \ garbled : \A l \in DOMAIN text[f] : Parse(f, l) \in Parsed
  <2> TAKE f \in Files \ garbled
  <2> TAKE l \in DOMAIN text[f]
  <2> HIDE DEF Parse
  <2>1. Parse(f, l) \in {Parse(f, k) : k \in DOMAIN text[f]}
    OBVIOUS
  <2> QED BY <1>2, <2>1
<1>5. \A f, l : /\ Parse(f, l).file = f /\ Parse(f, l).at = l
               /\ Parse(f, l).id = Fresh(Parse(f, l)) /\ Parse(f, l).id[1] = f
               /\ Of(Parse(f, l), text[f][l])
  BY DEF Of, Fresh, symbol_entity_id
<1> HIDE DEF Parse
<1> QED BY <1>1, <1>3, <1>4, <1>5 DEF Placed

\* What the two phases have in common.
Fits(n, p) == n.file = p.file /\ kind(n) = kind(p) /\ (n.name = p.name \/ n.construct = p.construct)

LEMMA MatchedIs ==
  ASSUME TypeOK, Placed(stored)
  PROVE  /\ OneToOne(Matched)
         /\ \A m \in Matched : /\ m[1] \in symbols(Parsed) /\ m[1] \in Parsed /\ m[2] \in stored
                               /\ Fits(m[1], m[2])
                               /\ m = <<m[1], m[2]>>
<1> DEFINE new   == symbols(Parsed)
           old   == symbols(stored)
           moved == Moved(new, old)
           rest  == Renamed(new \ {m[1] : m \in moved}, old \ {m[2] : m \in moved})
<1>1. new \in SUBSET Symbol /\ Placed(new) /\ new \subseteq Parsed
  BY ParsedIs DEF symbols, Placed
<1>2. old \in SUBSET Symbol /\ Placed(old) /\ Distinct(old) /\ old \subseteq stored
  BY DEF symbols, Placed, Distinct, TypeOK
<1>3. Matched = moved \cup rest
  BY DEF Matched
<1> HIDE DEF new, old
<1>4. OneToOne(moved)
  BY <1>1, <1>2, MovedIs
<1>5. OneToOne(rest)
  <2>1. Placed(new \ {m[1] : m \in moved})
    BY <1>1 DEF Placed
  <2> QED BY <1>1, <1>2, <2>1, RenamedIs
<1>6. \A m \in moved : m \in new \X old /\ Fits(m[1], m[2])
  BY DEF Moved, Namesakes, Fits
<1>7. \A m \in rest : /\ m \in (new \ {q[1] : q \in moved}) \X (old \ {q[2] : q \in moved})
                     /\ Fits(m[1], m[2])
  BY DEF Renamed, Alike, Fits
<1> HIDE DEF moved, rest
<1>8. \A a \in moved, b \in rest : a[1] # b[1] /\ a[2] # b[2]
  BY <1>7
<1>9. OneToOne(Matched)
  BY <1>3, <1>4, <1>5, <1>8 DEF OneToOne
<1>10. \A m \in Matched : m \in new \X old /\ Fits(m[1], m[2])
  BY <1>3, <1>6, <1>7
<1> QED BY <1>1, <1>2, <1>9, <1>10 DEF new

\* Of what changes an id some comes last, unless there is none.
LEMMA LastRemap ==
  ASSUME NEW R, R # {}, \A m \in R : m[1].at \in Places
  PROVE  \E k \in R : ~ \E m \in R : Overwrites(m, k)
<1> DEFINE Weight(m) == IF Renames(m) THEN MaxPlace - m[1].at ELSE MaxPlace + MaxPlace - m[1].at
           W == {Weight(m) : m \in R}
<1>1. \A m \in R : /\ Weight(m) \in Nat
                   /\ Renames(m) <=> Weight(m) < MaxPlace
                   /\ m[1].at \in Nat
  <2> SUFFICES ASSUME NEW m \in R
               PROVE  /\ Weight(m) \in Nat
                      /\ Renames(m) <=> Weight(m) < MaxPlace
                      /\ m[1].at \in Nat
    OBVIOUS
  <2>1. m[1].at \in Nat /\ 0 < m[1].at /\ m[1].at <= MaxPlace /\ MaxPlace \in Nat
    BY PlacesAre
  <2>2. CASE Renames(m)
    <3>1. Weight(m) = MaxPlace - m[1].at
      BY <2>2
    <3> QED BY <2>1, <2>2, <3>1
  <2>3. CASE ~Renames(m)
    <3>1. Weight(m) = MaxPlace + MaxPlace - m[1].at
      BY <2>3
    <3> QED BY <2>1, <2>3, <3>1
  <2> QED BY <2>2, <2>3
<1>2. W \subseteq Nat /\ W # {}
  BY <1>1
<1> DEFINE Less == {ss \in Nat \X Nat : ss[1] < ss[2]}
<1>10. IsWellFoundedOn(Less, Nat)
  BY NatLessThanWellFounded DEF OpToRel
<1> HIDE DEF Less, W, Weight
<1>11. \E x \in W : \A y \in W : ~ (<<y, x>> \in Less)
  BY <1>2, <1>10, WFMin
<1> USE DEF W
<1>3. PICK w \in W : \A v \in W : ~ (<<v, w>> \in Less)
  BY <1>11
<1>4. PICK k \in R : w = Weight(k)
  BY <1>3
<1>5. ASSUME NEW m \in R, Overwrites(m, k) PROVE FALSE
  <2>1. Weight(m) < Weight(k)
    <3>1. CASE Renames(m) /\ ~Renames(k)
      BY <1>1, <3>1, PlacesAre DEF Weight
    <3>2. CASE (Renames(m) <=> Renames(k)) /\ m[1].at > k[1].at
      BY <1>1, <3>2, PlacesAre DEF Weight
    <3> QED BY <1>5, <3>1, <3>2 DEF Overwrites
  <2> QED BY <1>1, <1>3, <1>4, <2>1 DEF Less
<1> QED BY <1>5

\* The id a declaration gets is that of a stored symbol matched to one that a parse gave
\* the same id as it, or the id of the parse.
LEMMA RemapIs ==
  ASSUME NEW M, \A m \in M : m[1].at \in Places, NEW id
  PROVE  /\ \/ apply_remap(id, M) = id
            \/ \E m \in M : m[1].id = id /\ apply_remap(id, M) = m[2].id
         /\ (~ \E m \in M : m[1].id = id) => apply_remap(id, M) = id
<1> DEFINE R == Remaps(id, M)
           k == CHOOSE r \in R : ~ \E m \in R : Overwrites(m, r)
<1>1. R = {m \in M : m[1].id = id /\ m[2].id # id}
  BY DEF Remaps
<1>2. apply_remap(id, M) = IF R = {} THEN id ELSE k[2].id
  BY DEF apply_remap
<1>3. R # {} => k \in R
  BY <1>1, LastRemap
<1> QED BY <1>1, <1>2, <1>3

LEMMA OnlyRemap ==
  ASSUME NEW M, NEW m \in M, m[1].at \in Places, \A j \in M : j[1].id = m[1].id => j = m
  PROVE  apply_remap(m[1].id, M) = m[2].id
<1>1. \A j \in M : j[1].id = m[1].id => j[1].at \in Places
  OBVIOUS
<1> DEFINE N == {j \in M : j[1].id = m[1].id}
<1>2. Remaps(m[1].id, M) = Remaps(m[1].id, N)
  BY DEF Remaps
<1>3. apply_remap(m[1].id, M) = apply_remap(m[1].id, N)
  BY <1>2 DEF apply_remap
<1>4. apply_remap(m[1].id, N) = m[1].id \/ apply_remap(m[1].id, N) = m[2].id
  BY <1>1, RemapIs
<1>5. CASE m[2].id = m[1].id
  BY <1>3, <1>4, <1>5
<1>6. CASE m[2].id # m[1].id
  <2>1. Remaps(m[1].id, M) = {m}
    BY <1>6 DEF Remaps
  <2>2. ~ Overwrites(m, m)
    <3>1. m[1].at \in Nat
      BY PlacesAre
    <3> QED BY <3>1 DEF Overwrites
  <2> QED BY <2>1, <2>2 DEF apply_remap
<1> QED BY <1>5, <1>6

\* The id a declaration gets, and the symbol it becomes.
NewId(n) == apply_remap(n.id, Matched)
Made(n)  == [n EXCEPT !.id = NewId(n), !.summaries = Carried(NewId(n))]

\* A parse gives no two declarations one id.
Unshared == \A a, b \in Parsed : a.id = b.id => a = b

LEMMA MatchedAt ==
  ASSUME TypeOK, Placed(stored)
  PROVE  \A m \in Matched : m[1].at \in Places
BY MatchedIs, ParsedIs DEF Symbol

LEMMA NewIdIs ==
  ASSUME TypeOK, Placed(stored), Unshared, NEW n \in Parsed
  PROVE  /\ \A m \in Matched : m[1] = n => NewId(n) = m[2].id
         /\ (~ \E m \in Matched : m[1] = n) => NewId(n) = n.id
<1>1. \A a, b \in Matched : a[1] = n /\ b[1] = n => a = b
  BY MatchedIs DEF OneToOne
<1>2. \A m \in Matched : m[1].id = n.id => m[1] = n
  BY MatchedIs DEF Unshared
<1>3. ASSUME NEW m \in Matched, m[1] = n PROVE NewId(n) = m[2].id
  <2>1. \A j \in Matched : j[1].id = m[1].id => j = m
    BY <1>1, <1>2, <1>3
  <2> QED BY <1>3, <2>1, MatchedAt, OnlyRemap DEF NewId
<1>4. ASSUME ~ \E m \in Matched : m[1] = n PROVE NewId(n) = n.id
  BY <1>2, <1>4, MatchedAt, RemapIs DEF NewId
<1> QED BY <1>3, <1>4

LEMMA MadeIs ==
  ASSUME BaseInv
  PROVE  /\ reconcile_identity = {Made(n) : n \in Parsed}
         /\ \A n \in Parsed :
              /\ Made(n) \in Symbol
              /\ Made(n).id = NewId(n) /\ Made(n).summaries = Carried(NewId(n))
              /\ Made(n).file = n.file /\ Made(n).name = n.name /\ Made(n).construct = n.construct
              /\ Made(n).at = n.at /\ Made(n).thing = n.thing
              /\ NewId(n)[1] = n.file
         /\ Placed(reconcile_identity)
<1>1. reconcile_identity = {Made(n) : n \in Parsed}
  BY DEF reconcile_identity, Made, NewId
<1>2. TypeOK /\ Placed(stored)
  BY DEF BaseInv
<1>3. ASSUME NEW n \in Parsed
      PROVE  NewId(n) \in Ids /\ NewId(n)[1] = n.file
  <2>1. n \in Symbol /\ n.id[1] = n.file
    BY <1>2, ParsedIs
  <2>2. CASE \E m \in Matched : m[1].id = n.id /\ NewId(n) = m[2].id
    <3>1. PICK m \in Matched : m[1].id = n.id /\ NewId(n) = m[2].id
      BY <2>2
    <3>2. m[2] \in stored /\ m[1].file = m[2].file /\ m[1].id[1] = m[1].file
      BY <1>2, <3>1, MatchedIs, ParsedIs DEF Fits
    <3>3. m[2] \in Symbol /\ m[2].id[1] = m[2].file
      BY <3>2 DEF BaseInv, TypeOK
    <3> QED BY <2>1, <3>1, <3>2, <3>3 DEF Symbol
  <2>3. CASE NewId(n) = n.id
    BY <2>1, <2>3 DEF Symbol
  <2> QED BY <1>2, <2>2, <2>3, MatchedAt, RemapIs DEF NewId
<1>4. \A id : Carried(id) \subseteq Things
  <2>1. \A p \in stored : p.summaries \subseteq Things
    BY <1>2 DEF TypeOK, Symbol
  <2> QED BY <2>1 DEF Carried
<1>5. ASSUME NEW n \in Parsed
      PROVE  /\ Made(n) \in Symbol
             /\ Made(n).id = NewId(n) /\ Made(n).summaries = Carried(NewId(n))
             /\ Made(n).file = n.file /\ Made(n).name = n.name /\ Made(n).construct = n.construct
             /\ Made(n).at = n.at /\ Made(n).thing = n.thing
  <2>1. n \in Symbol
    BY <1>2, ParsedIs
  <2> QED BY <1>3, <1>4, <2>1 DEF Made, Symbol
<1>6. Placed(reconcile_identity)
  <2>1. Placed(Parsed)
    BY <1>2, ParsedIs
  <2> QED BY <1>1, <1>5, <2>1 DEF Placed
<1> QED BY <1>1, <1>3, <1>5, <1>6

\* An index would be stored.
IdsDiffer == \A a, b \in Parsed : NewId(a) = NewId(b) => a = b

LEMMA IdsDifferIs == IdsDiffer => Unshared
BY DEF IdsDiffer, Unshared, NewId

LEMMA DistinctIs == BaseInv => (Distinct(reconcile_identity) <=> IdsDiffer)
<1> SUFFICES ASSUME BaseInv PROVE Distinct(reconcile_identity) <=> IdsDiffer
  OBVIOUS
<1>1. Placed(Parsed)
  BY ParsedIs DEF BaseInv
<1>2. ASSUME Distinct(reconcile_identity), NEW a \in Parsed, NEW b \in Parsed, NewId(a) = NewId(b)
      PROVE  a = b
  <2>1. Made(a) = Made(b)
    BY <1>2, MadeIs DEF Distinct
  <2>2. a.file = b.file /\ a.at = b.at
    BY <2>1, MadeIs
  <2> QED BY <1>1, <2>2 DEF Placed
<1>3. ASSUME IdsDiffer, NEW a \in Parsed, NEW b \in Parsed, Made(a).id = Made(b).id
      PROVE  Made(a) = Made(b)
  BY <1>3, MadeIs DEF IdsDiffer
<1> QED BY <1>2, <1>3, MadeIs DEF Distinct, IdsDiffer

\* The second of two that share an id has it from what is stored.
CarriedFrom(v, p) == p.id = v.id /\ Fits(v, p)

\* Where a parse gave no two one id, two symbols of an index have one only if one of them,
\* and no other, stands on the line the id was made of.
LEMMA CollisionIs ==
  ASSUME BaseInv, Unshared, NEW a \in Parsed, NEW b \in Parsed, a # b, NewId(a) = NewId(b)
  PROVE  \E u, v \in {a, b} : /\ {u, v} = {a, b}
                              /\ NewId(u) = u.id
                              /\ \E m \in Matched : m[1] = v /\ NewId(v) = m[2].id
<1>1. TypeOK /\ Placed(stored)
  BY DEF BaseInv
<1>2. \A n \in Parsed : (~ \E m \in Matched : m[1] = n) => NewId(n) = n.id
  BY <1>1, NewIdIs
<1>3. \A n \in Parsed : \A m \in Matched : m[1] = n => NewId(n) = m[2].id
  BY <1>1, NewIdIs
<1>4. CASE (\E m \in Matched : m[1] = a) /\ (\E m \in Matched : m[1] = b)
  <2>1. PICK m \in Matched, k \in Matched : m[1] = a /\ k[1] = b
    BY <1>4
  <2>2. m[2] \in stored /\ k[2] \in stored /\ m[2].id = k[2].id
    BY <1>1, <1>3, <2>1, MatchedIs
  <2>3. m[2] = k[2]
    BY <2>2 DEF BaseInv, TypeOK
  <2> QED BY <1>1, <2>1, <2>3, MatchedIs DEF OneToOne
<1>5. CASE (~ \E m \in Matched : m[1] = a) /\ (~ \E m \in Matched : m[1] = b)
  BY <1>2, <1>5 DEF Unshared
<1>6. CASE (~ \E m \in Matched : m[1] = a) /\ (\E m \in Matched : m[1] = b)
  BY <1>2, <1>3, <1>6
<1>7. CASE (\E m \in Matched : m[1] = a) /\ (~ \E m \in Matched : m[1] = b)
  BY <1>2, <1>3, <1>7
<1> QED BY <1>4, <1>5, <1>6, <1>7

LEMMA DraftIsRefusedForReason ==
  ASSUME BaseInv, NEW s \in reconcile_identity, NEW t \in reconcile_identity, s # t, s.id = t.id
  PROVE  \/ \E u, v \in reconcile_identity : u # v /\ Fresh(u) = Fresh(v)
         \/ \E u \in {s, t} : /\ u.id = Fresh(u)
                              /\ \A v \in {s, t} \ {u} : \E p \in stored : CarriedFrom(v, p)
<1>1. \A n \in Parsed : /\ Made(n) \in reconcile_identity /\ Made(n).id = NewId(n)
                        /\ Made(n).file = n.file /\ Made(n).at = n.at /\ Made(n).name = n.name
                        /\ Made(n).construct = n.construct
                        /\ Fresh(Made(n)) = n.id
  BY MadeIs, ParsedIs DEF BaseInv, Fresh
<1>2. CASE ~ Unshared
  <2>1. PICK a \in Parsed, b \in Parsed : a # b /\ a.id = b.id
    BY <1>2 DEF Unshared
  <2>2. a.file # b.file \/ a.at # b.at
    BY <2>1, ParsedIs DEF BaseInv, Placed
  <2> QED BY <1>1, <2>1, <2>2
<1>3. CASE Unshared
  <2>1. PICK a \in Parsed, b \in Parsed : s = Made(a) /\ t = Made(b)
    BY MadeIs
  <2>2. a # b /\ NewId(a) = NewId(b)
    BY <1>1, <2>1
  <2>3. PICK u \in {a, b}, v \in {a, b} :
          /\ {u, v} = {a, b} /\ NewId(u) = u.id
          /\ \E m \in Matched : m[1] = v /\ NewId(v) = m[2].id
    BY <1>3, <2>2, CollisionIs
  <2>4. PICK m \in Matched : m[1] = v /\ NewId(v) = m[2].id
    BY <2>3
  <2>5. m[2] \in stored /\ CarriedFrom(Made(v), m[2])
    BY <1>1, <2>4, MatchedIs DEF BaseInv, CarriedFrom, Fits, kind
  <2>6. Made(u).id = Fresh(Made(u)) /\ {Made(u), Made(v)} = {s, t}
    BY <1>1, <2>1, <2>3
  <2> QED BY <2>5, <2>6
<1> QED BY <1>2, <1>3

\* What is refused for a reason stays so while what is stored has the same identities.
Kin(p, q) == /\ q.id = p.id /\ q.file = p.file /\ q.name = p.name /\ q.construct = p.construct

LEMMA ReasonStays ==
  ASSUME RefusedForReason, TypeOK', UNCHANGED draft, \A p \in stored : \E q \in stored' : Kin(p, q)
  PROVE  RefusedForReason'
<1> SUFFICES ASSUME NEW s \in draft, NEW t \in draft, s # t, s.id = t.id,
                    ~ \E u, v \in draft : u # v /\ Fresh(u) = Fresh(v)
             PROVE  \E u \in {s, t} : /\ u.id = Fresh(u)
                                      /\ \A v \in {s, t} \ {u} : \E p \in stored' :
                                           /\ p.id = v.id /\ p.file = v.file /\ kind(p) = kind(v)
                                           /\ p.name = v.name \/ p.construct = v.construct
  BY DEF RefusedForReason, Fresh, kind
<1>1. PICK u \in {s, t} : /\ u.id = Fresh(u)
                          /\ \A v \in {s, t} \ {u} : \E p \in stored :
                               /\ p.id = v.id /\ p.file = v.file /\ kind(p) = kind(v)
                               /\ p.name = v.name \/ p.construct = v.construct
  BY DEF RefusedForReason
<1>2. \A p \in stored : \E q \in stored' : Kin(p, q) /\ kind(q) = kind(p)
  BY DEF Kin, kind
<1> QED BY <1>1, <1>2 DEF Kin
-----------------------------------------------------------------------------
(* Edits.                                                                  *)

\* Of file f becomes t, but for the things in X the same declarations; what is there was
\* there under another name, or is written now.
Rewrites(f, t, X) ==
    /\ DOMAIN t \subseteq Places
    /\ \A k \in DOMAIN t : t[k] \in Declaration /\ t[k].thing[1] <= edits + 1
    /\ \A k, l \in DOMAIN t : t[k].thing = t[l].thing => k = l
    /\ \A l \in DOMAIN text[f] : text[f][l].thing \in X \/ \E k \in DOMAIN t : t[k] = text[f][l]
    /\ \A k \in DOMAIN t : t[k].thing \in X \/ \E l \in DOMAIN text[f] : text[f][l] = t[k]
    /\ \A k \in DOMAIN t :
         \/ \E l \in DOMAIN text[f] : text[f][l].thing = t[k].thing /\ text[f][l].construct = t[k].construct
         \/ t[k].thing[1] = edits + 1

LEMMA InIs ==
  ASSUME UNCHANGED stored
  PROVE  \A f : In(f)' = In(f)
BY DEF In

LEMMA ClearStays ==
  ASSUME NEW g \in Files, ClearInv(g), UNCHANGED stored, text'[g] = text[g], touched'[g] = touched[g]
  PROVE  ClearInv(g)'
BY InIs DEF ClearInv, Agree, kind

LEMMA BecomesHolds ==
  ASSUME SymbolsInv, NEW f \in Files, NEW t, NEW touch \in {0, 1},
         NEW X \in AtMostOne, touch = 0 => X = {}, Rewrites(f, t, X), Becomes(f, t, touch)
  PROVE  SymbolsInv'
<1>1. /\ edits < MaxEdits /\ edits' = edits + 1
      /\ text' = [text EXCEPT ![f] = t]
      /\ still' = 0
      /\ touched' = [touched EXCEPT ![f] = IF @ + touch > 2 THEN 2 ELSE @ + touch]
      /\ muddled' = muddled \cup {g \in {f} : touched'[g] > 1 \/ Repeats(t)}
      /\ UNCHANGED <<garbled, stored, draft, inferred>>
  BY DEF Becomes
<1>2. BaseInv /\ TypeOK
  BY DEF SymbolsInv, BaseInv, TypeOK
<1>3. /\ touched \in [Files -> 0 .. 2] /\ edits \in Nat /\ edits + 1 \in 0 .. MaxEdits
      /\ DOMAIN text = Files
  BY <1>1, <1>2, SymbolsAssumption DEF TypeOK, BaseInv
<1>4. text'[f] = t /\ \A g \in Files \ {f} : text'[g] = text[g]
  BY <1>1, <1>3
<1>5. /\ touched' \in [Files -> 0 .. 2]
      /\ \A g \in Files \ {f} : touched'[g] = touched[g]
      /\ touched'[f] <= 1 => touched'[f] = touched[f] + touch
  BY <1>1, <1>3
<1>6. BaseInv'
  <2>1. TypeOK'
    <3>1. \A g \in Files : DOMAIN text'[g] \subseteq Places
                           /\ \A l \in DOMAIN text'[g] : text'[g][l] \in Declaration
      BY <1>2, <1>4 DEF TypeOK, Rewrites
    <3>2. muddled' \subseteq Files
      BY <1>1, <1>2 DEF TypeOK
    <3> QED BY <1>1, <1>2, <1>3, <1>5, <3>1, <3>2 DEF TypeOK
  <2>3. RefusedForReason'
    BY <1>1, <1>2, <2>1, ReasonStays DEF BaseInv, Kin
  <2>4. /\ DOMAIN text' = Files
        /\ \A s \in stored : s.thing[1] <= edits => s.thing[1] <= edits'
    <3>1. \A s \in stored : s.thing[1] \in Nat
      BY <1>2 DEF TypeOK, Symbol, Things
    <3> QED BY <1>1, <1>3, <3>1
  <2>5. \A g \in Files : \A l \in DOMAIN text'[g] : text'[g][l].thing[1] <= edits'
    <3>1. \A g \in Files : \A l \in DOMAIN text[g] : text[g][l].thing[1] \in Nat
      BY <1>2 DEF TypeOK, Declaration, Things
    <3> QED BY <1>1, <1>2, <1>3, <1>4, <3>1 DEF BaseInv, Rewrites
  <2>6. \A g \in Files : \A k, l \in DOMAIN text'[g] : text'[g][k].thing = text'[g][l].thing => k = l
    BY <1>2, <1>4 DEF BaseInv, Rewrites
  <2>7. Placed(stored)' /\ \A s \in stored' : s.id[1] = s.file /\ s.thing[1] <= edits'
    BY <1>1, <1>2, <2>4 DEF BaseInv, Placed
  <2> QED BY <2>1, <2>3, <2>4, <2>5, <2>6, <2>7 DEF BaseInv
<1>7. ASSUME NEW g \in Clear' PROVE ClearInv(g)'
  <2>1. g \in Clear /\ ClearInv(g) /\ g \in Files
    BY <1>1 DEF Clear, SymbolsInv
  <2>2. CASE g # f
    BY <1>1, <1>4, <1>5, <2>1, <2>2, ClearStays
  <2>3. CASE g = f
    <3>1. touched'[f] <= 1 /\ ~ Repeats(t)
      <4>1. ~(touched'[f] > 1) /\ ~ Repeats(t)
        BY <1>1, <2>3 DEF Clear
      <4> QED BY <1>5, <4>1
    <3>2. touched'[f] = touched[f] + touch /\ touched[f] \in Nat /\ In(f)' = In(f)
      BY <1>1, <1>3, <1>5, <3>1, InIs
    <3>3. ASSUME In(f) # {}
          PROVE  \E Y \in AtMostOne : (touched'[f] = 0 => Y = {}) /\ Agree(f, Y)'
      <4>1. PICK Z \in AtMostOne : (touched[f] = 0 => Z = {}) /\ Agree(f, Z)
        BY <2>1, <2>3, <3>3 DEF ClearInv
      <4>2. Z \cup X \in AtMostOne /\ (touched'[f] = 0 => Z \cup X = {})
        <5>1. touched[f] = 0 \/ touch = 0
          BY <3>1, <3>2
        <5>2. Z = {} \/ X = {}
          BY <4>1, <5>1
        <5>3. touched'[f] = 0 => touched[f] = 0 /\ touch = 0
          BY <3>2
        <5>4. Z \cup X = Z \/ Z \cup X = X
          BY <5>2
        <5> QED BY <4>1, <5>3, <5>4
      <4>3. \A s \in In(f) : s.thing \in Z \cup X \/ \E k \in DOMAIN t : Of(s, t[k])
        BY <4>1 DEF Agree, Rewrites, Of
      <4>4. \A k \in DOMAIN t : t[k].thing \in Z \cup X \/ \E s \in In(f) : Of(s, t[k])
        BY <4>1 DEF Agree, Rewrites, Of
      <4>5. ASSUME NEW s \in In(f), NEW k \in DOMAIN t, s.thing = t[k].thing
            PROVE  s.construct = t[k].construct
        <5>1. s.thing[1] <= edits /\ s.thing[1] \in Nat
          BY <1>2 DEF BaseInv, In, TypeOK, Symbol, Things
        <5>2. t[k].thing[1] # edits + 1
          BY <1>3, <4>5, <5>1
        <5>3. PICK l \in DOMAIN text[f] : text[f][l].thing = t[k].thing /\ text[f][l].construct = t[k].construct
          BY <5>2 DEF Rewrites
        <5> QED BY <4>1, <4>5, <5>3 DEF Agree
      <4>6. Agree(f, Z \cup X)'
        BY <1>4, <3>2, <4>3, <4>4, <4>5 DEF Agree
      <4> QED BY <4>2, <4>6
    <3>4. \A s \in In(f) : s.summaries \subseteq {s.thing}
      BY <2>1, <2>3 DEF ClearInv
    <3>5. \A s, u \in In(f) : s.thing = u.thing \/ (s.name = u.name /\ kind(s) = kind(u)) => s = u
      BY <2>1, <2>3 DEF ClearInv
    <3> QED BY <1>4, <2>3, <3>1, <3>2, <3>3, <3>4, <3>5 DEF ClearInv
  <2> QED BY <2>2, <2>3
<1> QED BY <1>6, <1>7 DEF SymbolsInv

LEMMA ShiftHolds ==
  ASSUME SymbolsInv, NEW f \in Files, NEW to \in [DOMAIN text[f] -> Places], Shift(f, to)
  PROVE  SymbolsInv'
<1> DEFINE D == {to[j] : j \in DOMAIN to}
           t == [k \in D |-> text[f][CHOOSE j \in DOMAIN to : to[j] = k]]
<1>1. Becomes(f, t, 0) /\ \A j, k \in DOMAIN to : j < k => to[j] < to[k]
  BY DEF Shift
<1>2. /\ DOMAIN text[f] \subseteq Places /\ \A j \in DOMAIN text[f] : text[f][j] \in Declaration
      /\ DOMAIN to = DOMAIN text[f]
  BY DEF SymbolsInv, BaseInv, TypeOK
<1>3. \A j, k \in DOMAIN to : to[j] = to[k] => j = k
  <2> SUFFICES ASSUME NEW j \in DOMAIN to, NEW k \in DOMAIN to, to[j] = to[k] PROVE j = k
    OBVIOUS
  <2>1. j \in Nat /\ k \in Nat /\ to[j] \in Nat /\ to[k] \in Nat
    BY <1>2, PlacesAre
  <2> QED BY <1>1, <2>1
<1>4. \A j \in DOMAIN text[f] : to[j] \in D /\ t[to[j]] = text[f][j]
  BY <1>2, <1>3
<1>5. DOMAIN t = D /\ D \subseteq Places /\ \A k \in D : \E j \in DOMAIN text[f] : k = to[j] /\ t[k] = text[f][j]
  <2>1. DOMAIN t = D
    OBVIOUS
  <2>2. \A k \in D : \E j \in DOMAIN text[f] : k = to[j]
    BY <1>2
  <2>3. D \subseteq Places
    BY <1>2, <2>2
  <2> HIDE DEF t, D
  <2> QED BY <1>4, <2>1, <2>2, <2>3
<1> HIDE DEF t, D
<1>6. \A j, k \in DOMAIN text[f] : text[f][j].thing = text[f][k].thing => j = k
  BY DEF SymbolsInv, BaseInv
<1>7. \A j \in DOMAIN text[f] : text[f][j].thing[1] <= edits + 1
  <2>1. \A j \in DOMAIN text[f] : text[f][j].thing[1] <= edits /\ text[f][j].thing[1] \in Nat /\ edits \in Nat
    BY <1>2 DEF SymbolsInv, BaseInv, TypeOK, Declaration, Things
  <2> QED BY <2>1
<1>8. Rewrites(f, t, {})
  <2>1. \A j, k \in DOMAIN t : t[j].thing = t[k].thing => j = k
    BY <1>5, <1>6
  <2>2. \A k \in DOMAIN t : \E j \in DOMAIN text[f] : text[f][j] = t[k]
    BY <1>5
  <2>3. \A j \in DOMAIN text[f] : \E k \in DOMAIN t : t[k] = text[f][j]
    BY <1>4, <1>5
  <2>5. \A k \in DOMAIN t : t[k] \in Declaration /\ t[k].thing[1] <= edits + 1
    BY <1>2, <1>7, <2>2
  <2> QED BY <1>5, <2>1, <2>2, <2>3, <2>5 DEF Rewrites
<1> QED BY <1>1, <1>8, BecomesHolds DEF AtMostOne

\* What was in a file has things that were told apart before this edit.
LEMMA TextIs ==
  ASSUME SymbolsInv, NEW f \in Files
  PROVE  /\ DOMAIN text[f] \subseteq Places
         /\ \A l \in DOMAIN text[f] :
              /\ text[f][l] \in Declaration
              /\ text[f][l].thing[1] <= edits + 1 /\ text[f][l].thing[1] # edits + 1
         /\ \A k, l \in DOMAIN text[f] : text[f][k].thing = text[f][l].thing => k = l
         /\ edits \in Nat
<1>1. /\ DOMAIN text[f] \subseteq Places /\ \A l \in DOMAIN text[f] : text[f][l] \in Declaration
      /\ edits \in Nat
  BY DEF SymbolsInv, BaseInv, TypeOK
<1>2. \A l \in DOMAIN text[f] : text[f][l].thing[1] <= edits /\ text[f][l].thing[1] \in Nat
  BY <1>1 DEF SymbolsInv, BaseInv, Declaration, Things
<1> QED BY <1>1, <1>2 DEF SymbolsInv, BaseInv

LEMMA WriteHolds ==
  ASSUME SymbolsInv, NEW f \in Files, NEW l \in Places, NEW name \in Names, NEW construct \in Constructs,
         Write(f, l, name, construct)
  PROVE  SymbolsInv'
<1> DEFINE d == [name |-> name, construct |-> construct, thing |-> <<edits + 1, l>>]
           t == [k \in DOMAIN text[f] \cup {l} |-> IF k = l THEN d ELSE text[f][k]]
<1>1. l \notin DOMAIN text[f] /\ Becomes(f, t, 1)
  BY DEF Write
<1>2. edits < MaxEdits
  BY <1>1 DEF Becomes
<1>3. d.thing \in Things /\ d \in Declaration /\ d.thing[1] = edits + 1
  BY <1>2, TextIs, SymbolsAssumption DEF Things, Declaration
<1>4. DOMAIN t = DOMAIN text[f] \cup {l} /\ t[l] = d /\ \A k \in DOMAIN text[f] : t[k] = text[f][k]
  BY <1>1
<1> HIDE DEF t, d
<1>5. Rewrites(f, t, {d.thing})
  <2>1. DOMAIN t \subseteq Places /\ \A k \in DOMAIN t : t[k] \in Declaration /\ t[k].thing[1] <= edits + 1
    BY <1>3, <1>4, TextIs
  <2>2. \A j, k \in DOMAIN t : t[j].thing = t[k].thing => j = k
    BY <1>3, <1>4, TextIs
  <2>3. \A k \in DOMAIN text[f] : \E j \in DOMAIN t : t[j] = text[f][k]
    BY <1>4
  <2>4. \A k \in DOMAIN t : k # l => \E j \in DOMAIN text[f] : text[f][j] = t[k]
    BY <1>4
  <2> QED BY <1>3, <1>4, <2>1, <2>2, <2>3, <2>4 DEF Rewrites
<1> QED BY <1>1, <1>3, <1>5, BecomesHolds DEF AtMostOne

LEMMA DropHolds ==
  ASSUME SymbolsInv, NEW f \in Files, NEW l \in Places, Drop(f, l)
  PROVE  SymbolsInv'
<1> DEFINE t == [k \in DOMAIN text[f] \ {l} |-> text[f][k]]
<1>1. l \in DOMAIN text[f] /\ Becomes(f, t, 1)
  BY DEF Drop
<1>2. text[f][l].thing \in Things
  BY <1>1, TextIs DEF Declaration
<1>3. DOMAIN t = DOMAIN text[f] \ {l} /\ \A k \in DOMAIN t : t[k] = text[f][k]
  OBVIOUS
<1> HIDE DEF t
<1>4. Rewrites(f, t, {text[f][l].thing})
  BY <1>3, TextIs DEF Rewrites
<1> QED BY <1>1, <1>2, <1>4, BecomesHolds DEF AtMostOne

LEMMA RenameHolds ==
  ASSUME SymbolsInv, NEW f \in Files, NEW l \in Places, NEW name \in Names, Rename(f, l, name)
  PROVE  SymbolsInv'
<1> DEFINE t == [text[f] EXCEPT ![l].name = name]
<1>1. l \in DOMAIN text[f] /\ Becomes(f, t, 1)
  BY DEF Rename
<1>2. text[f][l].thing \in Things
  BY <1>1, TextIs DEF Declaration
<1>3. /\ DOMAIN t = DOMAIN text[f] /\ \A k \in DOMAIN t \ {l} : t[k] = text[f][k]
      /\ t[l] \in Declaration /\ t[l].thing = text[f][l].thing /\ t[l].construct = text[f][l].construct
  BY <1>1, TextIs DEF Declaration
<1> HIDE DEF t
<1>4. \A k \in DOMAIN t : /\ t[k].thing = text[f][k].thing /\ t[k].construct = text[f][k].construct
                         /\ t[k] \in Declaration
  BY <1>3, TextIs
<1>5. Rewrites(f, t, {text[f][l].thing})
  <2>1. DOMAIN t \subseteq Places /\ \A k \in DOMAIN t : t[k] \in Declaration /\ t[k].thing[1] <= edits + 1
    BY <1>3, <1>4, TextIs
  <2>2. \A j, k \in DOMAIN t : t[j].thing = t[k].thing => j = k
    BY <1>3, <1>4, TextIs
  <2>3. \A k \in DOMAIN text[f] : k # l => \E j \in DOMAIN t : t[j] = text[f][k]
    BY <1>3
  <2>4. \A k \in DOMAIN t : k # l => \E j \in DOMAIN text[f] : text[f][j] = t[k]
    BY <1>3
  <2> QED BY <1>1, <1>3, <1>4, <2>1, <2>2, <2>3, <2>4 DEF Rewrites
<1> QED BY <1>1, <1>2, <1>5, BecomesHolds DEF AtMostOne

LEMMA GarbleHolds ==
  ASSUME SymbolsInv, NEW f \in Files, Garble(f)
  PROVE  SymbolsInv'
<1>1. /\ edits < MaxEdits /\ edits' = edits + 1 /\ still' = 0
      /\ garbled' = (garbled \ {f}) \cup ({f} \ garbled)
      /\ UNCHANGED <<text, stored, draft, inferred, touched, muddled>>
  BY DEF Garble
<1>2. BaseInv /\ TypeOK
  BY DEF SymbolsInv, BaseInv, TypeOK
<1>3. edits \in Nat /\ edits + 1 \in 0 .. MaxEdits
  BY <1>1, <1>2, SymbolsAssumption DEF TypeOK
<1>4. BaseInv'
  <2>1. TypeOK'
    BY <1>1, <1>2, <1>3 DEF TypeOK
  <2>2. RefusedForReason'
    BY <1>1, <1>2, <2>1, ReasonStays DEF BaseInv, Kin
  <2>3. \A s \in stored : s.id[1] = s.file /\ s.thing[1] <= edits'
    <3>1. \A s \in stored : s.thing[1] \in Nat
      BY <1>2 DEF TypeOK, Symbol, Things
    <3> QED BY <1>1, <1>2, <1>3, <3>1 DEF BaseInv
  <2>4. \A g \in Files : \A l \in DOMAIN text[g] : text[g][l].thing[1] <= edits'
    <3>1. \A g \in Files : \A l \in DOMAIN text[g] : text[g][l].thing[1] \in Nat
      BY <1>2 DEF TypeOK, Declaration, Things
    <3> QED BY <1>1, <1>2, <1>3, <3>1 DEF BaseInv
  <2> QED BY <1>1, <1>2, <2>1, <2>2, <2>3, <2>4 DEF BaseInv, Placed
<1>5. ASSUME NEW g \in Clear' PROVE ClearInv(g)'
  <2>1. g \in Files /\ ClearInv(g)
    BY <1>1 DEF Clear, SymbolsInv
  <2> QED BY <1>1, <2>1, ClearStays
<1> QED BY <1>4, <1>5 DEF SymbolsInv
-----------------------------------------------------------------------------
(* A pass of the semantic lane.                                            *)

\* The symbols in T are summarised.
Summarised(s, T) == IF s \in T THEN [s EXCEPT !.summaries = @ \cup {s.thing}] ELSE s

LEMMA SummarisedIs ==
  ASSUME NEW s \in Symbol, NEW T
  PROVE  LET u == Summarised(s, T) IN
         /\ u \in Symbol
         /\ u.id = s.id /\ u.file = s.file /\ u.name = s.name /\ u.construct = s.construct
         /\ u.at = s.at /\ u.thing = s.thing
         /\ s.summaries \subseteq u.summaries /\ u.summaries \subseteq s.summaries \cup {s.thing}
BY DEF Summarised, Symbol

\* A pass summarises some of what is stored, and what else it leaves is of its type.
LEMMA LaneIs ==
  ASSUME BaseInv, Lane
  PROVE  /\ \E T : stored' = {Summarised(s, T) : s \in stored}
         /\ \A c \in inferred' : /\ c.payload \in {"summary", "edge"} /\ c.plane \in Planes
                                 /\ c.target \in Ids \cup {Project}
         /\ UNCHANGED <<text, garbled, draft, edits, still, touched, muddled>>
<1>1. PICK answers \in [work_items -> Proposals] : semantic_pass(answers)
  BY DEF Lane
<1> DEFINE admitted == UNION {{<<c, s>> : c \in {d \in answers[s] : admit(d, s)}} : s \in DOMAIN answers}
           Summed(s) == \E a \in admitted : a[2] = s /\ a[1].payload = "summary" /\ a[1].about = "symbol"
           T == {s \in stored : Summed(s)}
           News == {[payload |-> a[1].payload, target |-> Target(a[1], a[2]), plane |-> a[1].plane] :
                      a \in {b \in admitted : \/ b[1].payload = "edge"
                                              \/ b[1].payload = "summary" /\ b[1].about = "project"}}
<1>2. /\ stored' = {IF Summed(s) THEN [s EXCEPT !.summaries = @ \cup {s.thing}] ELSE s : s \in stored}
      /\ inferred' = inferred \cup News
      /\ UNCHANGED <<text, garbled, draft, edits, still, touched, muddled>>
  BY <1>1, Zenon DEF semantic_pass, history
<1>3. stored' = {Summarised(s, T) : s \in stored}
  <2> HIDE DEF Summed
  <2>1. \A s \in stored : Summarised(s, T) = IF Summed(s) THEN [s EXCEPT !.summaries = @ \cup {s.thing}] ELSE s
    BY DEF Summarised
  <2> QED BY <1>2, <2>1
<1>4. ASSUME NEW a \in admitted
      PROVE  a[1] \in Candidate /\ a[2] \in stored
  <2>1. PICK s \in work_items : a \in {<<c, s>> : c \in {d \in answers[s] : admit(d, s)}}
    BY <1>4
  <2>2. PICK c \in answers[s] : a = <<c, s>>
    BY <2>1
  <2>3. c \in Candidate /\ s \in stored
    BY <2>1, <2>2, SymbolsAssumption DEF work_items, Wanting
  <2> QED BY <2>2, <2>3
<1> HIDE DEF admitted
<1>5. ASSUME NEW c \in News
      PROVE  /\ c.payload \in {"summary", "edge"} /\ c.plane \in Planes /\ c.target \in Ids \cup {Project}
  <2>1. PICK a \in admitted :
          /\ a[1].payload = "edge" \/ a[1].payload = "summary"
          /\ c = [payload |-> a[1].payload, target |-> Target(a[1], a[2]), plane |-> a[1].plane]
    BY <1>5
  <2>2. a[1] \in Candidate /\ a[2] \in stored
    BY <1>4
  <2>3. a[1].plane \in Planes /\ a[2].id \in Ids
    BY <2>2 DEF Candidate, BaseInv, TypeOK, Symbol
  <2>4. Target(a[1], a[2]) \in Ids \cup {Project}
    BY <2>3 DEF Target
  <2> QED BY <2>1, <2>2, <2>3, <2>4
<1> HIDE DEF News
<1>6. \A c \in inferred : /\ c.payload \in {"summary", "edge"} /\ c.plane \in Planes
                          /\ c.target \in Ids \cup {Project}
  BY DEF BaseInv, TypeOK
<1> QED BY <1>2, <1>3, <1>5, <1>6

LEMMA LaneHolds == SymbolsInv /\ Lane => SymbolsInv'
<1> SUFFICES ASSUME SymbolsInv, Lane PROVE SymbolsInv'
  OBVIOUS
<1>1. BaseInv /\ TypeOK
  BY DEF SymbolsInv, BaseInv, TypeOK
<1>2. PICK T : stored' = {Summarised(s, T) : s \in stored}
  BY <1>1, LaneIs
<1>3. UNCHANGED <<text, garbled, draft, edits, still, touched, muddled>>
  BY <1>1, LaneIs
<1>4. \A s \in stored : s \in Symbol
  BY <1>1 DEF TypeOK
<1>5. \A u \in stored' : \E s \in stored : u = Summarised(s, T) /\ s \in Symbol
  BY <1>2, <1>4
<1>6. \A s \in stored : Summarised(s, T) \in stored'
  BY <1>2
<1>7. BaseInv'
  <2>1. \A u \in stored' : u \in Symbol
    BY <1>5, SummarisedIs
  <2>2. \A u, v \in stored' : u.id = v.id => u = v
    <3> SUFFICES ASSUME NEW u \in stored', NEW v \in stored', u.id = v.id PROVE u = v
      OBVIOUS
    <3>1. PICK s \in stored, t \in stored : u = Summarised(s, T) /\ v = Summarised(t, T)
      BY <1>5
    <3>2. s.id = t.id
      BY <1>4, <3>1, SummarisedIs
    <3> QED BY <1>1, <3>1, <3>2 DEF TypeOK
  <2>3. TypeOK'
    BY <1>1, <1>3, <2>1, <2>2, LaneIs DEF TypeOK
  <2>5. RefusedForReason'
    <3>1. \A s \in stored : \E q \in stored' : Kin(s, q)
      BY <1>4, <1>6, SummarisedIs DEF Kin
    <3> QED BY <1>1, <1>3, <2>3, <3>1, ReasonStays DEF BaseInv
  <2>6. Placed(stored)'
    <3> SUFFICES ASSUME NEW u \in stored', NEW v \in stored', u.file = v.file, u.at = v.at PROVE u = v
      BY DEF Placed
    <3>1. PICK s \in stored, t \in stored : u = Summarised(s, T) /\ v = Summarised(t, T)
      BY <1>5
    <3>2. s.file = t.file /\ s.at = t.at
      BY <1>4, <3>1, SummarisedIs
    <3> QED BY <1>1, <3>1, <3>2 DEF BaseInv, Placed
  <2>7. \A u \in stored' : u.id[1] = u.file /\ u.thing[1] <= edits'
    <3> SUFFICES ASSUME NEW u \in stored' PROVE u.id[1] = u.file /\ u.thing[1] <= edits'
      OBVIOUS
    <3>1. PICK s \in stored : u = Summarised(s, T)
      BY <1>5
    <3>2. u.id = s.id /\ u.file = s.file /\ u.thing = s.thing
      BY <1>4, <3>1, SummarisedIs
    <3> QED BY <1>1, <1>3, <3>2 DEF BaseInv
  <2>8. /\ DOMAIN text' = Files
        /\ \A f \in Files : \A l \in DOMAIN text'[f] : text'[f][l].thing[1] <= edits'
        /\ \A f \in Files : \A k, l \in DOMAIN text'[f] : text'[f][k].thing = text'[f][l].thing => k = l
    BY <1>1, <1>3 DEF BaseInv
  <2> QED BY <2>3, <2>5, <2>6, <2>7, <2>8 DEF BaseInv
<1>8. ASSUME NEW f \in Clear' PROVE ClearInv(f)'
  <2>1. f \in Clear /\ f \in Files /\ ClearInv(f)
    BY <1>3 DEF Clear, SymbolsInv
  <2>2. ASSUME NEW u \in In(f)'
        PROVE  \E s \in In(f) : /\ u = Summarised(s, T)
                                /\ u.thing = s.thing /\ u.name = s.name /\ u.construct = s.construct
                                /\ u.summaries \subseteq s.summaries \cup {s.thing}
    <3>1. PICK s \in stored : u = Summarised(s, T)
      BY <1>5 DEF In
    <3> QED BY <1>4, <3>1, SummarisedIs DEF In
  <2>3. ASSUME NEW s \in In(f)
        PROVE  \E u \in In(f)' : u.thing = s.thing /\ u.name = s.name /\ u.construct = s.construct
    <3>1. s \in stored /\ s.file = f
      BY DEF In
    <3>2. Summarised(s, T) \in In(f)'
      BY <1>4, <1>6, <3>1, SummarisedIs DEF In
    <3> QED BY <1>4, <3>1, <3>2, SummarisedIs
  <2>4. touched'[f] <= 1 /\ ~ Repeats(text'[f])
    BY <1>3, <2>1 DEF ClearInv
  <2>5. \A u \in In(f)' : u.summaries \subseteq {u.thing}
    BY <2>1, <2>2 DEF ClearInv
  <2>6. \A u, v \in In(f)' : u.thing = v.thing \/ (u.name = v.name /\ kind(u) = kind(v)) => u = v
    <3> SUFFICES ASSUME NEW u \in In(f)', NEW v \in In(f)',
                        u.thing = v.thing \/ (u.name = v.name /\ kind(u) = kind(v))
                 PROVE  u = v
      BY DEF kind
    <3>1. PICK s \in In(f) : u = Summarised(s, T) /\ u.thing = s.thing /\ u.name = s.name /\ u.construct = s.construct
      BY <2>2
    <3>2. PICK t \in In(f) : v = Summarised(t, T) /\ v.thing = t.thing /\ v.name = t.name /\ v.construct = t.construct
      BY <2>2
    <3>3. s = t
      BY <2>1, <3>1, <3>2 DEF ClearInv, kind
    <3> QED BY <3>1, <3>2, <3>3
  <2>7. ASSUME In(f)' # {}
        PROVE  \E X \in AtMostOne : (touched'[f] = 0 => X = {}) /\ Agree(f, X)'
    <3>1. PICK X \in AtMostOne : (touched[f] = 0 => X = {}) /\ Agree(f, X)
      BY <2>1, <2>2, <2>7 DEF ClearInv
    <3>2. \A u \in In(f)' : u.thing \in X \/ \E l \in DOMAIN text'[f] : Of(u, text'[f][l])
      BY <1>3, <2>2, <3>1 DEF Agree, Of
    <3>3. \A l \in DOMAIN text'[f] : text'[f][l].thing \in X \/ \E u \in In(f)' : Of(u, text'[f][l])
      BY <1>3, <2>3, <3>1 DEF Agree, Of
    <3>4. \A u \in In(f)', l \in DOMAIN text'[f] :
            u.thing = text'[f][l].thing => u.construct = text'[f][l].construct
      BY <1>3, <2>2, <3>1 DEF Agree
    <3>5. Agree(f, X)'
      BY <3>2, <3>3, <3>4 DEF Agree
    <3> QED BY <1>3, <3>1, <3>5
  <2> QED BY <2>4, <2>5, <2>6, <2>7 DEF ClearInv
<1> QED BY <1>7, <1>8 DEF SymbolsInv
-----------------------------------------------------------------------------
(* An index.                                                               *)

\* The parses of a clear file, and what is stored of it.
LEMMA ClearIs ==
  ASSUME SymbolsInv, NEW f \in Clear \ garbled, NEW p0 \in In(f)
  PROVE  /\ \A m, n \in Parsed : m.file = f /\ (Namesakes(m, n) \/ SameThing(m, n)) => m = n
         /\ \A p, q \in stored : p.file = f /\ (Namesakes(p, q) \/ SameThing(p, q)) => p = q
         /\ \A n \in Parsed, p \in stored : n.file = f /\ SameThing(n, p) => n.construct = p.construct
         /\ \E X \in AtMostOne :
              /\ \A n \in Parsed : n.file = f => n.thing \in X \/ \E p \in stored : p.file = f /\ Of(p, n)
              /\ \A p \in stored : p.file = f => p.thing \in X \/ \E n \in Parsed : n.file = f /\ Of(p, n)
<1>1. TypeOK /\ ClearInv(f) /\ f \in Files \ garbled
  BY DEF SymbolsInv, BaseInv, Clear
<1>2. \A n \in Parsed : n.file = f => n.at \in DOMAIN text[f] /\ Of(n, text[f][n.at])
  BY <1>1, ParsedIs
<1>3. \A l \in DOMAIN text[f] : \E n \in Parsed : n.file = f /\ n.at = l /\ Of(n, text[f][l])
  BY <1>1, ParsedIs
<1>4. Placed(Parsed)
  BY <1>1, ParsedIs
<1>5. ASSUME NEW m \in Parsed, NEW n \in Parsed, m.file = f, Namesakes(m, n) \/ SameThing(m, n)
      PROVE  m = n
  <2>1. /\ n.file = f /\ m.at \in DOMAIN text[f] /\ n.at \in DOMAIN text[f]
        /\ Of(m, text[f][m.at]) /\ Of(n, text[f][n.at])
    BY <1>2, <1>5 DEF Namesakes, SameThing
  <2>2. m.at = n.at
    <3>1. CASE Namesakes(m, n)
      <4>1. text[f][m.at].name = text[f][n.at].name
        BY <2>1, <3>1 DEF Namesakes, Of
      <4>2. KindOf[text[f][m.at].construct] = KindOf[text[f][n.at].construct]
        BY <2>1, <3>1 DEF Namesakes, kind, Of
      <4>3. ~ Repeats(text[f])
        BY <1>1 DEF ClearInv
      <4> QED BY <2>1, <4>1, <4>2, <4>3 DEF Repeats
    <3>2. CASE SameThing(m, n)
      <4>1. text[f][m.at].thing = text[f][n.at].thing
        BY <2>1, <3>2 DEF SameThing, Of
      <4>2. \A k, l \in DOMAIN text[f] : text[f][k].thing = text[f][l].thing => k = l
        BY <1>1 DEF SymbolsInv, BaseInv
      <4> QED BY <2>1, <4>1, <4>2
    <3> QED BY <1>5, <3>1, <3>2
  <2> QED BY <1>4, <1>5, <2>1, <2>2 DEF Placed
<1>6. \A p, q \in stored : p.file = f /\ (Namesakes(p, q) \/ SameThing(p, q)) => p = q
  BY <1>1 DEF ClearInv, In, Namesakes, SameThing
<1>7. PICK X \in AtMostOne : Agree(f, X)
  BY <1>1 DEF ClearInv
<1>8. \A p \in stored : p.file = f <=> p \in In(f)
  BY DEF In
<1>9. \A n \in Parsed, p \in stored : n.file = f /\ SameThing(n, p) => n.construct = p.construct
  BY <1>2, <1>7, <1>8 DEF Agree, SameThing, Of
<1>10. \A n \in Parsed : n.file = f => n.thing \in X \/ \E p \in stored : p.file = f /\ Of(p, n)
  <2> SUFFICES ASSUME NEW n \in Parsed, n.file = f, n.thing \notin X
               PROVE  \E p \in stored : p.file = f /\ Of(p, n)
    OBVIOUS
  <2>1. n.at \in DOMAIN text[f] /\ Of(n, text[f][n.at])
    BY <1>2
  <2>2. PICK p \in In(f) : Of(p, text[f][n.at])
    BY <1>7, <2>1 DEF Agree, Of
  <2> QED BY <2>1, <2>2 DEF In, Of
<1>11. \A p \in stored : p.file = f => p.thing \in X \/ \E n \in Parsed : n.file = f /\ Of(p, n)
  <2> SUFFICES ASSUME NEW p \in stored, p.file = f, p.thing \notin X
               PROVE  \E n \in Parsed : n.file = f /\ Of(p, n)
    OBVIOUS
  <2>1. PICK l \in DOMAIN text[f] : Of(p, text[f][l])
    BY <1>7, <1>8 DEF Agree
  <2>2. PICK n \in Parsed : n.file = f /\ Of(n, text[f][l])
    BY <1>3
  <2> QED BY <2>1, <2>2 DEF Of
<1> QED BY <1>5, <1>6, <1>9, <1>10, <1>11

\* In a clear file what is matched is the same thing, and what is the same thing is matched.
LEMMA ClearMatch ==
  ASSUME SymbolsInv, NEW f \in Clear \ garbled, NEW n \in Parsed, NEW p \in stored,
         n.file = f, p.file = f
  PROVE  <<n, p>> \in Matched <=> n.thing = p.thing
<1> DEFINE new   == symbols(Parsed)
           old   == symbols(stored)
           moved == Moved(new, old)
           newer == new \ {m[1] : m \in moved}
           older == old \ {m[2] : m \in moved}
<1>1. Matched = moved \cup Renamed(newer, older)
  BY DEF Matched
<1>2. /\ \A m \in Parsed : m.file = f => m \in new
      /\ \A q \in stored : q.file = f => q \in old
      /\ new \subseteq Parsed /\ old \subseteq stored
  BY DEF symbols, Clear
<1> HIDE DEF new, old
<1> p \in In(f)
  BY DEF In
<1>3. /\ \A m, k \in Parsed : m.file = f /\ (Namesakes(m, k) \/ SameThing(m, k)) => m = k
      /\ \A q, r \in stored : q.file = f /\ (Namesakes(q, r) \/ SameThing(q, r)) => q = r
      /\ \A m \in Parsed, q \in stored : m.file = f /\ SameThing(m, q) => m.construct = q.construct
  BY ClearIs
<1>4. PICK X \in AtMostOne :
        /\ \A m \in Parsed : m.file = f => m.thing \in X \/ \E q \in stored : q.file = f /\ Of(q, m)
        /\ \A q \in stored : q.file = f => q.thing \in X \/ \E m \in Parsed : m.file = f /\ Of(q, m)
  BY ClearIs
<1>5. \A x, y \in X : x = y
  BY DEF AtMostOne
<1>6. ASSUME NEW m \in Parsed, NEW q \in stored, m.file = f, Namesakes(m, q)
      PROVE  <<m, q>> \in moved
  <2>1. m \in new /\ q \in old /\ q.file = f
    BY <1>2, <1>6 DEF Namesakes
  <2>2. {k \in new : Namesakes(m, k) /\ k.at < m.at} = {}
    <3>1. m.at \in Nat
      BY ParsedIs, PlacesAre DEF SymbolsInv, BaseInv, Symbol
    <3> QED BY <1>2, <1>3, <1>6, <3>1
  <2>3. {r \in old : Namesakes(q, r) /\ Hash[r.id] < Hash[q.id]} = {}
    <3>1. Hash[q.id] \in Nat
      BY SymbolsAssumption DEF SymbolsInv, BaseInv, TypeOK, Symbol
    <3> QED BY <1>2, <1>3, <2>1, <3>1
  <2>4. RankByPlace(m, new) = RankById(q, old)
    BY <2>2, <2>3 DEF RankByPlace, RankById
  <2> QED BY <1>6, <2>1, <2>4 DEF Moved
<1>7. ASSUME NEW m \in moved
      PROVE  m \in new \X old /\ Namesakes(m[1], m[2]) /\ m = <<m[1], m[2]>>
  BY DEF Moved
<1> HIDE DEF moved
<1>8. ASSUME NEW m \in Parsed, NEW q \in stored, m.file = f, q.file = f, Of(q, m)
      PROVE  <<m, q>> \in moved
  BY <1>6, <1>8 DEF Namesakes, Of, kind
<1>9. ASSUME NEW m \in Parsed, NEW q \in stored, m.file = f, q.file = f, Namesakes(m, q)
      PROVE  m.thing = q.thing
  <2>1. CASE m.thing \in X /\ q.thing \in X
    BY <1>5, <2>1
  <2>2. CASE m.thing \notin X
    <3>1. PICK r \in stored : r.file = f /\ Of(r, m)
      BY <1>4, <1>9, <2>2
    <3>2. Namesakes(q, r)
      BY <1>9, <3>1 DEF Namesakes, Of, kind
    <3> QED BY <1>3, <1>9, <3>1, <3>2 DEF Of
  <2>3. CASE q.thing \notin X
    <3>1. PICK k \in Parsed : k.file = f /\ Of(q, k)
      BY <1>4, <1>9, <2>3
    <3>2. Namesakes(m, k)
      BY <1>9, <3>1 DEF Namesakes, Of, kind
    <3> QED BY <1>3, <1>9, <3>1, <3>2 DEF Of
  <2> QED BY <2>1, <2>2, <2>3
<1>10. ASSUME NEW m \in newer, m.file = f
       PROVE  m \in Parsed /\ m.thing \in X
  <2>1. m \in Parsed
    BY <1>2
  <2>2. \A q \in stored : <<m, q>> \notin moved
    BY DEF newer
  <2> QED BY <1>4, <1>8, <1>10, <2>1, <2>2
<1>11. ASSUME NEW q \in older, q.file = f
       PROVE  q \in stored /\ q.thing \in X
  <2>1. q \in stored
    BY <1>2
  <2>2. \A m \in Parsed : <<m, q>> \notin moved
    BY DEF older
  <2> QED BY <1>4, <1>8, <1>11, <2>1, <2>2
<1>12. ASSUME <<n, p>> \in Matched PROVE n.thing = p.thing
  <2>1. CASE <<n, p>> \in moved
    BY <1>7, <1>9, <2>1
  <2>2. CASE <<n, p>> \in Renamed(newer, older)
    <3>1. n \in newer /\ p \in older
      BY <2>2 DEF Renamed
    <3> QED BY <1>5, <1>10, <1>11, <3>1
  <2> QED BY <1>1, <1>12, <2>1, <2>2
<1>13. ASSUME n.thing = p.thing PROVE <<n, p>> \in Matched
  <2>1. SameThing(n, p) /\ n.construct = p.construct
    BY <1>3, <1>13 DEF SameThing
  <2>2. CASE n.name = p.name
    <3>1. Of(p, n)
      BY <1>13, <2>1, <2>2 DEF Of
    <3> QED BY <1>1, <1>8, <3>1
  <2>3. CASE n.name # p.name
    <3>1. n \in newer
      <4>1. ASSUME NEW m \in moved, m[1] = n PROVE FALSE
        <5>1. m[2] \in stored /\ m[2].file = f /\ Namesakes(n, m[2])
          BY <1>2, <1>7, <4>1 DEF Namesakes
        <5>2. m[2].thing = n.thing
          BY <1>9, <5>1
        <5>3. SameThing(m[2], p)
          BY <1>13, <5>1, <5>2 DEF SameThing
        <5>4. m[2] = p
          BY <1>3, <5>1, <5>3
        <5> QED BY <2>3, <5>1, <5>4 DEF Namesakes
      <4> QED BY <1>2, <4>1
    <3>2. p \in older
      <4>1. ASSUME NEW m \in moved, m[2] = p PROVE FALSE
        <5>1. m[1] \in Parsed /\ m[1].file = f /\ Namesakes(m[1], p)
          BY <1>2, <1>7, <4>1 DEF Namesakes
        <5>2. m[1].thing = p.thing
          BY <1>9, <5>1
        <5>3. SameThing(m[1], n)
          BY <1>13, <5>1, <5>2 DEF SameThing
        <5>4. m[1] = n
          BY <1>3, <5>1, <5>3
        <5> QED BY <2>3, <5>1, <5>4 DEF Namesakes
      <4> QED BY <1>2, <4>1
    <3> HIDE DEF newer, older
    <3>3. Alike(n, p)
      BY <2>1 DEF Alike, kind
    <3>4. \A q \in older : Alike(n, q) => q = p
      <4> SUFFICES ASSUME NEW q \in older, Alike(n, q) PROVE q = p
        OBVIOUS
      <4>1. q.file = f
        BY DEF Alike
      <4>2. q \in stored /\ q.thing = p.thing
        BY <1>5, <1>11, <3>2, <4>1
      <4> QED BY <1>3, <4>1, <4>2 DEF SameThing
    <3>5. ~ \E m \in newer : Alike(m, n) /\ m.at < n.at
      <4> SUFFICES ASSUME NEW m \in newer, Alike(m, n), m.at < n.at PROVE FALSE
        OBVIOUS
      <4>1. m.file = f
        BY DEF Alike
      <4>2. m \in Parsed /\ m.thing = n.thing
        BY <1>5, <1>10, <3>1, <4>1
      <4>3. m = n
        BY <1>3, <4>1, <4>2 DEF SameThing
      <4>4. n.at \in Nat
        BY ParsedIs, PlacesAre DEF SymbolsInv, BaseInv, Symbol
      <4> QED BY <4>3, <4>4
    <3>6. <<n, p>> \in Renamed(newer, older)
      BY <3>1, <3>2, <3>3, <3>4, <3>5 DEF Renamed
    <3> QED BY <1>1, <3>6
  <2> QED BY <2>2, <2>3
<1> QED BY <1>12, <1>13

\* There, a thing that is stored keeps its id and its summaries, and nothing else is made
\* with summaries.
LEMMA ClearMade ==
  ASSUME SymbolsInv, Distinct(reconcile_identity), NEW f \in Clear \ garbled,
         NEW n \in Parsed, n.file = f
  PROVE  /\ \A p \in stored : p.file = f /\ p.thing = n.thing
                                => Made(n).id = p.id /\ Made(n).summaries = p.summaries
         /\ Made(n).summaries \subseteq {n.thing}
<1>1. BaseInv /\ TypeOK /\ Placed(stored)
  BY DEF SymbolsInv, BaseInv
<1>0. IdsDiffer /\ Unshared
  BY <1>1, DistinctIs, IdsDifferIs
<1>2. Made(n).id = NewId(n) /\ Made(n).summaries = Carried(NewId(n))
  BY <1>1, MadeIs
<1>3. ASSUME NEW m \in Parsed, NEW p \in stored, m.file = f, p.file = f, p.thing = m.thing
      PROVE  NewId(m) = p.id
  <2>1. <<m, p>> \in Matched
    BY <1>3, ClearMatch
  <2> QED BY <1>1, <1>0, <2>1, NewIdIs
<1>4. ASSUME NEW p \in stored
      PROVE  Carried(p.id) = p.summaries
  <2>1. {q \in stored : q.id = p.id} = {p}
    BY <1>1 DEF TypeOK
  <2> QED BY <2>1 DEF Carried
<1>5. \A p \in stored : p.file = f /\ p.thing = n.thing
                          => Made(n).id = p.id /\ Made(n).summaries = p.summaries
  BY <1>2, <1>3, <1>4
<1>6. CASE \E p \in stored : p.file = f /\ p.thing = n.thing
  <2>1. PICK p \in stored : p.file = f /\ p.thing = n.thing
    BY <1>6
  <2>2. p.summaries \subseteq {p.thing}
    BY <2>1 DEF SymbolsInv, ClearInv, In
  <2> QED BY <1>5, <2>1, <2>2
<1>7. CASE ~ \E p \in stored : p.file = f /\ p.thing = n.thing
  <2>1. NewId(n) = n.id
    <3>1. ~ \E m \in Matched : m[1] = n
      <4>1. SUFFICES ASSUME NEW m \in Matched, m[1] = n PROVE FALSE
        OBVIOUS
      <4>2. m[2] \in stored /\ m[2].file = f /\ m = <<n, m[2]>>
        BY <1>1, <4>1, MatchedIs DEF Fits
      <4>3. m[2].thing = n.thing
        BY <4>1, <4>2, ClearMatch
      <4> QED BY <1>7, <4>2, <4>3
    <3> QED BY <1>1, <1>0, <3>1, NewIdIs
  <2>2. ASSUME NEW q \in stored, q.id = n.id PROVE FALSE
    <3>1. q.file = f
      BY <1>1, <2>2, ParsedIs DEF BaseInv
    <3>2. q \in In(f)
      BY <3>1 DEF In
    <3>3. PICK X \in AtMostOne :
            /\ \A m \in Parsed : m.file = f => m.thing \in X \/ \E p \in stored : p.file = f /\ Of(p, m)
            /\ \A p \in stored : p.file = f => p.thing \in X \/ \E m \in Parsed : m.file = f /\ Of(p, m)
      BY <3>2, ClearIs
    <3>4. n.thing \in X
      BY <1>7, <3>3 DEF Of
    <3>5. q.thing \notin X
      BY <1>7, <3>1, <3>4 DEF AtMostOne
    <3>6. PICK m \in Parsed : m.file = f /\ Of(q, m)
      BY <3>1, <3>3, <3>5
    <3>7. NewId(m) = NewId(n)
      BY <1>3, <2>1, <2>2, <3>1, <3>6 DEF Of
    <3>8. m = n
      BY <1>0, <3>7 DEF IdsDiffer
    <3> QED BY <1>7, <3>1, <3>6, <3>8 DEF Of
  <2>3. Carried(n.id) = {}
    BY <2>2 DEF Carried
  <2> QED BY <1>2, <1>5, <2>1, <2>3
<1> QED BY <1>5, <1>6, <1>7

LEMMA IndexHolds == SymbolsInv /\ Index => SymbolsInv'
<1> SUFFICES ASSUME SymbolsInv, Index PROVE SymbolsInv'
  OBVIOUS
<1> DEFINE made == reconcile_identity
<1>1. BaseInv /\ TypeOK
  BY DEF SymbolsInv, BaseInv, TypeOK
<1>2. /\ still' = IF still < 2 THEN still + 1 ELSE still
      /\ UNCHANGED <<text, garbled, edits, muddled>>
  BY DEF Index
<1>3. still' \in 0 .. 2
  BY <1>1, <1>2 DEF TypeOK
<1>4. /\ made \in SUBSET Symbol
      /\ \A s \in made : \E n \in Parsed : s = Made(n)
  BY <1>1, MadeIs
<1>5. /\ DOMAIN text' = Files
      /\ \A f \in Files : \A l \in DOMAIN text'[f] : text'[f][l].thing[1] <= edits'
      /\ \A f \in Files : \A k, l \in DOMAIN text'[f] : text'[f][k].thing = text'[f][l].thing => k = l
  BY <1>1, <1>2 DEF BaseInv
<1>6. Clear' = Clear
  BY <1>2 DEF Clear
<1>7. CASE ~ Distinct(made)
  <2>1. draft' = made /\ UNCHANGED <<stored, inferred, touched>>
    BY <1>7 DEF Index
  <2>2. TypeOK'
    BY <1>1, <1>2, <1>3, <1>4, <2>1 DEF TypeOK
  <2>4. RefusedForReason'
    <3> SUFFICES ASSUME NEW s \in made, NEW t \in made, s # t, s.id = t.id,
                        ~ \E u, v \in made : u # v /\ Fresh(u) = Fresh(v)
                 PROVE  \E u \in {s, t} : /\ u.id = Fresh(u)
                                          /\ \A v \in {s, t} \ {u} : \E p \in stored :
                                               /\ p.id = v.id /\ p.file = v.file /\ kind(p) = kind(v)
                                               /\ p.name = v.name \/ p.construct = v.construct
      BY <2>1, <2>2 DEF RefusedForReason, Fresh, kind
    <3>1. PICK u \in {s, t} : u.id = Fresh(u) /\ \A v \in {s, t} \ {u} : \E p \in stored : CarriedFrom(v, p)
      BY <1>1, DraftIsRefusedForReason
    <3> QED BY <3>1 DEF CarriedFrom, Fits
  <2>5. BaseInv'
    BY <1>1, <1>2, <1>5, <2>1, <2>2, <2>4 DEF BaseInv, Placed
  <2>6. \A f \in Clear : ClearInv(f)'
    BY <1>2, <2>1, ClearStays DEF SymbolsInv, Clear
  <2> QED BY <1>6, <2>5, <2>6 DEF SymbolsInv
<1>8. CASE Distinct(made)
  <2>1. /\ stored' = made /\ draft' = {} /\ touched' = [f \in Files |-> 0]
        /\ inferred' = {c \in inferred : c.payload = "summary"}
    BY <1>8 DEF Index
  <2>2. TypeOK'
    <3>1. \A s, t \in stored' : s.id = t.id => s = t
      BY <1>8, <2>1 DEF Distinct
    <3> QED BY <1>1, <1>2, <1>3, <1>4, <2>1, <3>1 DEF TypeOK
  <2>4. RefusedForReason'
    BY <2>1, <2>2 DEF RefusedForReason
  <2>5. Placed(stored)'
    BY <1>1, <2>1, MadeIs DEF Placed
  <2>6. \A s \in stored' : s.id[1] = s.file /\ s.thing[1] <= edits'
    <3> SUFFICES ASSUME NEW n \in Parsed PROVE Made(n).id[1] = Made(n).file /\ Made(n).thing[1] <= edits
      BY <1>2, <1>4, <2>1
    <3>1. n.thing[1] <= edits
      BY <1>1, ParsedIs DEF BaseInv, Of
    <3> QED BY <1>1, <3>1, MadeIs
  <2>7. BaseInv'
    BY <1>5, <2>2, <2>4, <2>5, <2>6 DEF BaseInv
  <2>8. ASSUME NEW f \in Clear PROVE ClearInv(f)'
    <3>1. f \in Files /\ ClearInv(f)
      BY <2>8 DEF Clear, SymbolsInv
    <3>2. touched'[f] = 0 /\ text'[f] = text[f] /\ ~ Repeats(text'[f])
      BY <1>2, <2>1, <3>1 DEF ClearInv
    <3>3. ASSUME NEW s \in In(f)'
          PROVE  /\ f \in Clear \ garbled
                 /\ \E n \in Parsed : n.file = f /\ s = Made(n)
                 /\ s.at \in DOMAIN text[f] /\ Of(s, text[f][s.at])
      <4>1. s \in made /\ s.file = f
        BY <2>1, <3>3 DEF In
      <4>2. PICK n \in Parsed : s = Made(n)
        BY <1>4, <4>1
      <4>3. n.file = f /\ s.at = n.at /\ Of(s, n)
        BY <1>1, <4>1, <4>2, MadeIs DEF Of
      <4>4. f \in Files \ garbled /\ n.at \in DOMAIN text[f] /\ Of(n, text[f][n.at])
        BY <1>1, <4>3, ParsedIs
      <4> QED BY <2>8, <4>2, <4>3, <4>4 DEF Of
    <3>4. \A s \in In(f)' : s.summaries \subseteq {s.thing}
      BY <1>1, <1>8, <3>3, ClearMade, MadeIs
    <3>5. \A s, t \in In(f)' : s.thing = t.thing \/ (s.name = t.name /\ kind(s) = kind(t)) => s = t
      <4> SUFFICES ASSUME NEW s \in In(f)', NEW t \in In(f)',
                          s.thing = t.thing \/ (s.name = t.name /\ kind(s) = kind(t))
                   PROVE  s = t
        BY DEF kind
      <4>1. /\ s.at \in DOMAIN text[f] /\ Of(s, text[f][s.at])
            /\ t.at \in DOMAIN text[f] /\ Of(t, text[f][t.at])
        BY <3>3
      <4>2. s.at = t.at
        <5>1. CASE s.thing = t.thing
          BY <1>1, <3>1, <4>1, <5>1 DEF BaseInv, Of
        <5>2. CASE s.name = t.name /\ kind(s) = kind(t)
          <6>1. /\ text[f][s.at].name = text[f][t.at].name
                /\ KindOf[text[f][s.at].construct] = KindOf[text[f][t.at].construct]
            BY <4>1, <5>2 DEF Of, kind
          <6> QED BY <3>1, <4>1, <6>1 DEF ClearInv, Repeats
        <5> QED BY <5>1, <5>2
      <4> QED BY <2>5, <4>2 DEF Placed, In
    <3>6. In(f)' # {} => Agree(f, {})'
      <4> SUFFICES ASSUME NEW s0 \in In(f)' PROVE Agree(f, {})'
        OBVIOUS
      <4>1. f \in Files \ garbled
        BY <3>1, <3>3
      <4>2. \A s \in In(f)' : \E l \in DOMAIN text[f] : Of(s, text[f][l])
        BY <3>3
      <4>3. \A l \in DOMAIN text[f] : \E s \in In(f)' : Of(s, text[f][l])
        <5> SUFFICES ASSUME NEW l \in DOMAIN text[f] PROVE \E s \in In(f)' : Of(s, text[f][l])
          OBVIOUS
        <5>1. PICK n \in Parsed : n.file = f /\ Of(n, text[f][l])
          BY <1>1, <4>1, ParsedIs
        <5>2. Made(n) \in made /\ Made(n).file = f /\ Of(Made(n), text[f][l])
          BY <1>1, <5>1, MadeIs DEF Of
        <5> QED BY <2>1, <5>2 DEF In
      <4>4. ASSUME NEW s \in In(f)', NEW l \in DOMAIN text[f], s.thing = text[f][l].thing
            PROVE  s.construct = text[f][l].construct
        <5>1. s.at \in DOMAIN text[f] /\ Of(s, text[f][s.at])
          BY <3>3
        <5>2. s.at = l
          BY <1>1, <3>1, <4>4, <5>1 DEF BaseInv, Of
        <5> QED BY <5>1, <5>2 DEF Of
      <4> QED BY <3>2, <4>2, <4>3, <4>4 DEF Agree
    <3> QED BY <3>2, <3>4, <3>5, <3>6 DEF ClearInv, AtMostOne
  <2> QED BY <1>6, <2>7, <2>8 DEF SymbolsInv
<1> QED BY <1>7, <1>8
-----------------------------------------------------------------------------
(* Every step.                                                             *)

LEMMA InitHolds == Init => SymbolsInv
<1> SUFFICES ASSUME Init PROVE SymbolsInv
  OBVIOUS
<1>1. /\ text \in Texts /\ garbled = {} /\ stored = {} /\ draft = {} /\ inferred = {}
      /\ edits = 0 /\ still = 0 /\ touched = [f \in Files |-> 0]
      /\ muddled = {f \in Files : Repeats(text[f])}
  BY DEF Init
<1>2. /\ DOMAIN text = Files
      /\ \A f \in Files : \A l \in DOMAIN text[f] :
           l \in Places /\ text[f][l] \in Declaration /\ text[f][l].thing = <<0, l>>
  BY <1>1, SymbolsAssumption
<1>3. TypeOK
  <2>1. edits \in 0 .. MaxEdits
    BY <1>1, SymbolsAssumption
  <2> QED BY <1>1, <1>2, <2>1 DEF TypeOK
<1>4. TypeOK /\ RefusedForReason
  BY <1>1, <1>3 DEF RefusedForReason
<1>5. \A f \in Files : \A k, l \in DOMAIN text[f] : text[f][k].thing = text[f][l].thing => k = l
  BY <1>2
<1>6. \A f \in Files : \A l \in DOMAIN text[f] : text[f][l].thing[1] <= edits
  BY <1>1, <1>2
<1>7. BaseInv
  BY <1>1, <1>2, <1>4, <1>5, <1>6 DEF BaseInv, Placed
<1>8. ASSUME NEW f \in Clear PROVE ClearInv(f)
  BY <1>1 DEF Clear, ClearInv, In
<1> QED BY <1>7, <1>8 DEF SymbolsInv

LEMMA StutterHolds == SymbolsInv /\ UNCHANGED vars => SymbolsInv'
<1> SUFFICES ASSUME SymbolsInv, UNCHANGED vars PROVE SymbolsInv'
  OBVIOUS
<1>1. UNCHANGED <<text, garbled, stored, draft, inferred, edits, still, touched, muddled>>
  BY DEF vars, history
<1>2. BaseInv'
  BY <1>1 DEF SymbolsInv, BaseInv, TypeOK, RefusedForReason, Placed, Fresh, kind
<1>3. \A f \in Clear' : ClearInv(f)'
  BY <1>1, ClearStays DEF SymbolsInv, Clear
<1> QED BY <1>2, <1>3 DEF SymbolsInv

LEMMA NextHolds == SymbolsInv /\ [Next]_vars => SymbolsInv'
<1> SUFFICES ASSUME SymbolsInv, [Next]_vars PROVE SymbolsInv'
  OBVIOUS
<1>1. ASSUME NEW f \in Files, NEW to \in [DOMAIN text[f] -> Places], Shift(f, to) PROVE SymbolsInv'
  BY <1>1, ShiftHolds
<1>2. ASSUME NEW f \in Files, NEW l \in Places, Drop(f, l) PROVE SymbolsInv'
  BY <1>2, DropHolds
<1>3. ASSUME NEW f \in Files, NEW l \in Places, NEW n \in Names, Rename(f, l, n) PROVE SymbolsInv'
  BY <1>3, RenameHolds
<1>4. ASSUME NEW f \in Files, NEW l \in Places, NEW n \in Names, NEW c \in Constructs, Write(f, l, n, c)
      PROVE  SymbolsInv'
  BY <1>4, WriteHolds
<1>5. ASSUME NEW f \in Files, Garble(f) PROVE SymbolsInv'
  BY <1>5, GarbleHolds
<1>6. CASE Index
  BY <1>6, IndexHolds
<1>7. CASE Lane
  BY <1>7, LaneHolds
<1>8. CASE UNCHANGED vars
  BY <1>8, StutterHolds
<1> QED BY <1>1, <1>2, <1>3, <1>4, <1>5, <1>6, <1>7, <1>8 DEF Next
-----------------------------------------------------------------------------
(* Ids at rest.                                                            *)

Like(s, n) == /\ s.file = n.file /\ s.at = n.at /\ s.thing = n.thing
              /\ s.name = n.name /\ s.construct = n.construct

\* The symbols of S and those of N are of the same declarations.
Mirrored(S, N) ==
    /\ \A s \in S : \E n \in N : Like(s, n)
    /\ \A n \in N : \E s \in S : Like(s, n)

\* What is stored is of the files as they are, which give no two declarations one id.
Same ==
    /\ Unshared
    /\ Mirrored(stored, Parsed)
    /\ \A s \in stored : s.file \in Tests => s.id = Fresh(s)

\* The ids of namesakes are in the order of their lines.
InOrder ==
    \A s, t \in symbols(stored) : Namesakes(s, t) /\ s.at < t.at => Hash[s.id] < Hash[t.id]

\* After an index either every further one is refused, or what is stored is of the files as
\* they are; after two the ids of namesakes are in order besides.
RestInv ==
    /\ \A s, t \in stored : SameThing(s, t) => s = t
    /\ still > 0 => ~IdsDiffer \/ (Same /\ (still = 2 => InOrder))

\* Of two mirrored sets, what mirrors a part is as many.
LEMMA MirroredParts ==
  ASSUME NEW new \in SUBSET Symbol, Placed(new), NEW old \in SUBSET Symbol, Placed(old),
         Mirrored(old, new), NEW P \in SUBSET new
  PROVE  Cardinality({s \in old : \E n \in P : Like(s, n)}) = Cardinality(P)
<1> DEFINE Q == {s \in old : \E n \in P : Like(s, n)}
           f == [n \in P |-> CHOOSE s \in old : Like(s, n)]
<1>1. \A n \in P : f[n] \in old /\ Like(f[n], n)
  BY DEF Mirrored
<1>2. f \in [P -> Q]
  BY <1>1
<1>3. \A n, m \in P : f[n] = f[m] => n = m
  BY <1>1 DEF Like, Placed
<1>4. ASSUME NEW s \in Q PROVE \E n \in P : f[n] = s
  <2>1. PICK n \in P : Like(s, n)
    BY <1>4
  <2>2. f[n] \in old /\ Like(f[n], n) /\ s \in old
    BY <1>1, <1>4
  <2>3. f[n] = s
    BY <2>1, <2>2 DEF Like, Placed
  <2> QED BY <2>3
<1> HIDE DEF f, Q
<1>5. f \in Bijection(P, Q)
  BY <1>2, <1>3, <1>4 DEF Bijection, Injection, Surjection, IsInjective
<1>6. IsFiniteSet(P)
  BY PlacesAreFinite, FS_Subset
<1> QED BY <1>5, <1>6, FS_Bijection DEF ExistsBijection, Q

\* Where the stored symbols mirror the new, phase 1 finds one for each.
LEMMA MirroredIsMoved ==
  ASSUME NEW new \in SUBSET Symbol, Placed(new),
         NEW old \in SUBSET Symbol, Placed(old), Distinct(old),
         Mirrored(old, new), NEW n \in new
  PROVE  \E s \in old : <<n, s>> \in Moved(new, old)
<1> DEFINE N == {t \in new : Namesakes(n, t)}
           C == {t \in old : Namesakes(n, t)}
           c == Cardinality(C)
           r == [s \in C |-> RankById(s, old)]
<1>1. IsFiniteSet(new) /\ IsFiniteSet(old) /\ IsFiniteSet(N) /\ IsFiniteSet(C)
  BY PlacesAreFinite, FS_Subset
<1>2. Cardinality(N) = c
  <2>1. C = {s \in old : \E m \in N : Like(s, m)}
    <3>1. ASSUME NEW s \in old, NEW m \in new, Like(s, m)
          PROVE  Namesakes(n, s) <=> Namesakes(n, m)
      BY <3>1 DEF Like, Namesakes, kind
    <3> QED BY <3>1 DEF Mirrored
  <2> QED BY <2>1, MirroredParts
<1>3. c \in Nat /\ Cardinality(N) \in Nat
  BY <1>1, FS_CardinalityType
<1>4. RankByPlace(n, new) \in 0 .. c - 1
  <2> DEFINE A == {t \in new : Namesakes(n, t) /\ t.at < n.at}
  <2>1. A \subseteq N /\ n \in N /\ n \notin A
    <3>1. n.at \in Nat
      BY PlacesAre DEF Symbol
    <3> QED BY <3>1 DEF Namesakes
  <2>2. Cardinality(A) <= Cardinality(N) /\ Cardinality(A) # Cardinality(N) /\ Cardinality(A) \in Nat
    BY <1>1, <2>1, FS_Subset, FS_CardinalityType
  <2> QED BY <1>2, <1>3, <2>2 DEF RankByPlace
<1>5. ASSUME NEW s \in C PROVE RankById(s, old) \in 0 .. c - 1
  <2> DEFINE A == {t \in old : Namesakes(s, t) /\ Hash[t.id] < Hash[s.id]}
  <2>1. A \subseteq C /\ s \notin A
    <3>1. Hash[s.id] \in Nat
      BY SymbolsAssumption DEF Symbol
    <3> QED BY <3>1 DEF Namesakes
  <2>2. Cardinality(A) <= c /\ Cardinality(A) # c /\ Cardinality(A) \in Nat
    BY <1>1, <2>1, FS_Subset, FS_CardinalityType
  <2> QED BY <1>3, <2>2 DEF RankById
<1>6. r \in Injection(C, 0 .. c - 1)
  <2>1. \A s, t \in C : r[s] = r[t] => s = t
    <3>1. \A s, t \in C : Namesakes(s, t)
      BY DEF Namesakes
    <3> QED BY <3>1, IdRanks
  <2>2. r \in [C -> 0 .. c - 1]
    BY <1>5
  <2> QED BY <2>1, <2>2 DEF Injection, IsInjective
<1>7. IsFiniteSet(0 .. c - 1) /\ Cardinality(0 .. c - 1) = c
  <2> HIDE DEF c
  <2>1. c > 0 /\ c - 1 \in Int /\ 0 \in Int
    BY <1>3, <1>4
  <2>2. Cardinality(0 .. c - 1) = IF 0 > c - 1 THEN 0 ELSE (c - 1) - 0 + 1
    BY <2>1, FS_Interval
  <2>3. IsFiniteSet(0 .. c - 1)
    BY <2>1, FS_Interval
  <2> QED BY <1>3, <2>1, <2>2, <2>3
<1>8. r \in Surjection(C, 0 .. c - 1)
  <2> HIDE DEF r
  <2> QED BY <1>6, <1>7, FS_Injection
<1>9. PICK s \in C : r[s] = RankByPlace(n, new)
  BY <1>4, <1>8 DEF Surjection
<1> QED BY <1>9 DEF Moved

\* What stands in a file named like a test has the id of its line.
LEMMA TestsKeepLines ==
  ASSUME BaseInv, NEW n \in Parsed, n.file \in Tests
  PROVE  NewId(n) = n.id
<1>1. TypeOK /\ Placed(stored)
  BY DEF BaseInv
<1>2. ~ \E m \in Matched : m[1].id = n.id
  BY <1>1, MatchedIs, ParsedIs DEF symbols
<1> QED BY <1>1, <1>2, MatchedAt, RemapIs DEF NewId

LEMMA SymbolsMirrored ==
  ASSUME BaseInv, Same
  PROVE  /\ symbols(Parsed) \in SUBSET Symbol /\ Placed(symbols(Parsed))
         /\ symbols(stored) \in SUBSET Symbol /\ Placed(symbols(stored)) /\ Distinct(symbols(stored))
         /\ Mirrored(symbols(stored), symbols(Parsed))
         /\ Moved(symbols(Parsed), symbols(stored)) \subseteq Matched
<1>1. TypeOK /\ Placed(stored) /\ TypeOK
  BY DEF BaseInv, TypeOK
<1>2. Parsed \subseteq Symbol /\ Placed(Parsed)
  BY <1>1, ParsedIs
<1>3. \A s \in stored : s \in Symbol
  BY <1>1 DEF TypeOK
<1>4. Distinct(symbols(stored))
  BY <1>1 DEF TypeOK, Distinct, symbols
<1>5. Mirrored(symbols(stored), symbols(Parsed))
  BY DEF Same, Mirrored, symbols, Like
<1>6. Moved(symbols(Parsed), symbols(stored)) \subseteq Matched
  BY DEF Matched
<1> QED BY <1>1, <1>2, <1>3, <1>4, <1>5, <1>6 DEF symbols, Placed

\* Where they are of the same declarations, an index gives each the id of a stored namesake.
LEMMA SameMoves ==
  ASSUME BaseInv, Same, NEW n \in symbols(Parsed)
  PROVE  \E s \in symbols(stored) : /\ Namesakes(n, s) /\ NewId(n) = s.id
                                   /\ RankByPlace(n, symbols(Parsed)) = RankById(s, symbols(stored))
                                   /\ <<n, s>> \in Matched
<1>1. PICK s \in symbols(stored) : <<n, s>> \in Moved(symbols(Parsed), symbols(stored))
  BY SymbolsMirrored, MirroredIsMoved
<1>2. <<n, s>> \in Matched
  BY <1>1, SymbolsMirrored
<1>3. n \in Parsed /\ TypeOK /\ Placed(stored)
  BY DEF symbols, BaseInv
<1>4. NewId(n) = s.id
  BY <1>2, <1>3, NewIdIs DEF Same
<1> QED BY <1>1, <1>2, <1>4 DEF Moved

\* That index is not refused.
LEMMA SameIsStored == BaseInv /\ Same => IdsDiffer
<1> SUFFICES ASSUME BaseInv, Same, NEW a \in Parsed, NEW b \in Parsed, NewId(a) = NewId(b)
             PROVE  a = b
  BY DEF IdsDiffer
<1>1. a.file = b.file
  BY MadeIs
<1>2. CASE a.file \in Tests
  <2>1. a.id = b.id
    BY <1>1, <1>2, TestsKeepLines
  <2> QED BY <2>1 DEF Same, Unshared
<1>3. CASE a.file \notin Tests
  <2>1. a \in symbols(Parsed) /\ b \in symbols(Parsed)
    BY <1>1, <1>3 DEF symbols
  <2>2. PICK s \in symbols(stored) : NewId(a) = s.id /\ <<a, s>> \in Matched
    BY <2>1, SameMoves
  <2>3. PICK t \in symbols(stored) : NewId(b) = t.id /\ <<b, t>> \in Matched
    BY <2>1, SameMoves
  <2>4. s = t
    BY <2>2, <2>3, SymbolsMirrored DEF Distinct
  <2>5. <<a, s>> = <<b, s>>
    BY <2>2, <2>3, <2>4, MatchedIs DEF OneToOne, BaseInv
  <2> QED BY <2>5
<1> QED BY <1>2, <1>3

\* It puts the ids of namesakes in the order of their lines.
LEMMA SameIsOrdered ==
  ASSUME BaseInv, Same, NEW a \in symbols(Parsed), NEW b \in symbols(Parsed), Namesakes(a, b), a.at < b.at
  PROVE  Hash[NewId(a)] < Hash[NewId(b)]
<1> DEFINE new == symbols(Parsed)
           old == symbols(stored)
<1>1. PICK s \in old : /\ Namesakes(a, s) /\ NewId(a) = s.id
                       /\ RankByPlace(a, new) = RankById(s, old)
  BY SameMoves
<1>2. PICK t \in old : /\ Namesakes(b, t) /\ NewId(b) = t.id
                       /\ RankByPlace(b, new) = RankById(t, old)
  BY SameMoves
<1>3. /\ new \in SUBSET Symbol /\ old \in SUBSET Symbol
      /\ IsFiniteSet(new) /\ IsFiniteSet(old)
  BY SymbolsMirrored, PlacesAreFinite
<1> HIDE DEF new, old
<1>4. \A u \in new : u.at \in Nat
  BY <1>3, PlacesAre DEF Symbol
<1>5. \A u \in old : Hash[u.id] \in Nat
  BY <1>3, SymbolsAssumption DEF Symbol
<1>6. RankByPlace(a, new) < RankByPlace(b, new)
  <2> DEFINE A == {u \in new : Namesakes(a, u) /\ u.at < a.at}
             B == {u \in new : Namesakes(b, u) /\ u.at < b.at}
  <2>1. A \subseteq B /\ a \in B /\ a \notin A
    BY <1>4 DEF Namesakes, new
  <2>2. IsFiniteSet(B) /\ IsFiniteSet(A)
    BY <1>3, FS_Subset
  <2>3. Cardinality(A) <= Cardinality(B) /\ Cardinality(A) # Cardinality(B)
    BY <2>1, <2>2, FS_Subset
  <2>4. Cardinality(A) \in Nat /\ Cardinality(B) \in Nat
    BY <2>2, FS_CardinalityType
  <2> QED BY <2>3, <2>4 DEF RankByPlace
<1>7. ASSUME Hash[t.id] <= Hash[s.id] PROVE RankById(t, old) <= RankById(s, old)
  <2> DEFINE A == {u \in old : Namesakes(t, u) /\ Hash[u.id] < Hash[t.id]}
             B == {u \in old : Namesakes(s, u) /\ Hash[u.id] < Hash[s.id]}
  <2>1. A \subseteq B
    <3> SUFFICES ASSUME NEW u \in old, Namesakes(t, u), Hash[u.id] < Hash[t.id]
                 PROVE  Namesakes(s, u) /\ Hash[u.id] < Hash[s.id]
      OBVIOUS
    <3>1. Namesakes(s, u)
      BY <1>1, <1>2 DEF Namesakes
    <3>2. Hash[u.id] \in Nat /\ Hash[t.id] \in Nat /\ Hash[s.id] \in Nat
      BY <1>5
    <3> QED BY <1>7, <3>1, <3>2
  <2>2. IsFiniteSet(B)
    BY <1>3, FS_Subset
  <2>3. Cardinality(A) <= Cardinality(B)
    BY <2>1, <2>2, FS_Subset
  <2> QED BY <2>3 DEF RankById
<1>8. RankById(t, old) \in Nat /\ RankById(s, old) \in Nat
  <2>1. \A x \in old : IsFiniteSet({u \in old : Namesakes(x, u) /\ Hash[u.id] < Hash[x.id]})
    BY <1>3, FS_Subset
  <2> QED BY <2>1, FS_CardinalityType DEF RankById
<1> QED BY <1>1, <1>2, <1>5, <1>6, <1>7, <1>8

\* If they are in order, it leaves the ids as they are.
LEMMA OrderIsKept ==
  ASSUME BaseInv, Same, InOrder, NEW n \in Parsed, NEW s \in stored, Like(s, n)
  PROVE  NewId(n) = s.id
<1>1. CASE n.file \in Tests
  <2>1. NewId(n) = Fresh(n)
    BY <1>1, TestsKeepLines, ParsedIs DEF BaseInv
  <2> QED BY <1>1, <2>1 DEF Same, Like, Fresh
<1>2. CASE n.file \notin Tests
  <2> DEFINE new == symbols(Parsed)
             old == symbols(stored)
             A   == {u \in new : Namesakes(n, u) /\ u.at < n.at}
             B   == {t \in old : Namesakes(s, t) /\ Hash[t.id] < Hash[s.id]}
  <2>1. n \in new /\ s \in old
    BY <1>2 DEF symbols, Like
  <2>2. /\ new \in SUBSET Symbol /\ Placed(new) /\ old \in SUBSET Symbol /\ Placed(old)
        /\ Mirrored(old, new)
    BY SymbolsMirrored
  <2>3. \A t, u \in old : Namesakes(t, u) /\ t.at < u.at => Hash[t.id] < Hash[u.id]
    BY DEF InOrder
  <2> HIDE DEF new, old
  <2>4. \A t \in old : t.at \in Nat /\ Hash[t.id] \in Nat
    BY <2>2, PlacesAre, SymbolsAssumption DEF Symbol
  <2>5. ASSUME NEW t \in old, Namesakes(s, t)
        PROVE  t.at < s.at <=> Hash[t.id] < Hash[s.id]
    <3>1. CASE t.at < s.at
      BY <2>1, <2>3, <2>5, <3>1 DEF Namesakes
    <3>2. CASE t.at = s.at
      <4>1. t = s
        BY <2>1, <2>2, <2>5, <3>2 DEF Placed, Namesakes
      <4> QED BY <2>4, <4>1
    <3>3. CASE s.at < t.at
      <4>1. Hash[s.id] < Hash[t.id]
        BY <2>1, <2>3, <2>5, <3>3
      <4> QED BY <2>1, <2>4, <3>3, <4>1
    <3> QED BY <2>1, <2>4, <3>1, <3>2, <3>3
  <2>6. B = {t \in old : \E u \in A : Like(t, u)}
    <3>1. ASSUME NEW t \in old, NEW u \in new, Like(t, u)
          PROVE  u \in A <=> t \in B
      <4>1. Namesakes(n, u) <=> Namesakes(s, t)
        BY <3>1 DEF Namesakes, Like, kind
      <4>2. u.at < n.at <=> t.at < s.at
        BY <3>1 DEF Like
      <4> QED BY <2>5, <4>1, <4>2
    <3>2. \A t \in old : \E u \in new : Like(t, u)
      BY <2>2 DEF Mirrored
    <3> QED BY <3>1, <3>2
  <2>7. Cardinality(A) = Cardinality(B)
    BY <2>2, <2>6, MirroredParts
  <2>8. <<n, s>> \in Moved(new, old)
    BY <2>1, <2>7 DEF Moved, RankByPlace, RankById, Namesakes, Like, kind
  <2>9. <<n, s>> \in Matched
    BY <2>8, SymbolsMirrored DEF new, old
  <2> QED BY <2>9, NewIdIs DEF BaseInv, Same
<1> QED BY <1>1, <1>2

\* Both phases.
Match(new, old) ==
    LET moved == Moved(new, old)
    IN moved \cup Renamed(new \ {m[1] : m \in moved}, old \ {m[2] : m \in moved})

\* Matching takes no notice of summaries.
LEMMA CopiesMatch ==
  ASSUME NEW new \in SUBSET Symbol, NEW old \in SUBSET Symbol, Placed(old),
         NEW copy, copy \in [old -> Symbol],
         \A s \in old : /\ copy[s].id = s.id /\ copy[s].file = s.file /\ copy[s].name = s.name
                        /\ copy[s].construct = s.construct /\ copy[s].at = s.at,
         NEW old2, \A s \in old : copy[s] \in old2, \A t \in old2 : \E s \in old : t = copy[s]
  PROVE  \A n \in new, s \in old : <<n, s>> \in Match(new, old) <=> <<n, copy[s]>> \in Match(new, old2)
<1> DEFINE moved  == Moved(new, old)
           moved2 == Moved(new, old2)
           left   == old \ {m[2] : m \in moved}
           left2  == old2 \ {m[2] : m \in moved2}
           asks   == new \ {m[1] : m \in moved}
           asks2  == new \ {m[1] : m \in moved2}
<1>1. \A s, t \in old : copy[s] = copy[t] => s = t
  BY DEF Placed
<1>2. \A s, t \in old : Namesakes(copy[s], copy[t]) <=> Namesakes(s, t)
  BY DEF Namesakes, kind
<1>3. \A n \in new, s \in old : /\ Namesakes(n, copy[s]) <=> Namesakes(n, s)
                                /\ Alike(n, copy[s]) <=> Alike(n, s)
  BY DEF Namesakes, Alike, kind
<1>4. ASSUME NEW s \in old PROVE RankById(copy[s], old2) = RankById(s, old)
  <2> DEFINE A == {t \in old : Namesakes(s, t) /\ Hash[t.id] < Hash[s.id]}
             B == {t \in old2 : Namesakes(copy[s], t) /\ Hash[t.id] < Hash[copy[s].id]}
             f == [t \in A |-> copy[t]]
  <2>1. \A t \in old : copy[t] \in B <=> t \in A
    BY <1>2
  <2>2. f \in [A -> B]
    BY <2>1
  <2>3. \A t, u \in A : f[t] = f[u] => t = u
    BY <1>1
  <2>4. \A b \in B : \E t \in A : f[t] = b
    BY <2>1
  <2> HIDE DEF f, B
  <2>5. f \in Bijection(A, B)
    BY <2>2, <2>3, <2>4 DEF Bijection, Injection, Surjection, IsInjective
  <2>6. IsFiniteSet(A)
    BY PlacesAreFinite, FS_Subset
  <2>7. Cardinality(A) = Cardinality(B)
    BY <2>5, <2>6, FS_Bijection DEF ExistsBijection
  <2> QED BY <2>7 DEF RankById, B
<1>5. \A n \in new, s \in old : <<n, copy[s]>> \in moved2 <=> <<n, s>> \in moved
  BY <1>3, <1>4 DEF Moved
<1>6. \A m \in moved : m[1] \in new /\ m[2] \in old /\ m = <<m[1], m[2]>>
  BY DEF Moved
<1>7. \A m \in moved2 : m[1] \in new /\ m = <<m[1], m[2]>> /\ \E s \in old : m[2] = copy[s]
  BY DEF Moved
<1> HIDE DEF moved, moved2
<1>8. asks2 = asks
  <2>1. ASSUME NEW n \in new
        PROVE  (\E m \in moved : m[1] = n) <=> (\E m \in moved2 : m[1] = n)
    <3>1. ASSUME NEW m \in moved, m[1] = n PROVE \E k \in moved2 : k[1] = n
      <4>1. <<n, copy[m[2]]>> \in moved2
        BY <1>5, <1>6, <3>1
      <4> QED BY <4>1
    <3>2. ASSUME NEW m \in moved2, m[1] = n PROVE \E k \in moved : k[1] = n
      <4>1. PICK s \in old : m[2] = copy[s]
        BY <1>7
      <4>2. <<n, s>> \in moved
        BY <1>5, <1>7, <3>2, <4>1
      <4> QED BY <4>2
    <3> QED BY <3>1, <3>2
  <2> QED BY <2>1
<1>9. ASSUME NEW s \in old PROVE copy[s] \in left2 <=> s \in left
  <2>1. ASSUME NEW m \in moved, m[2] = s PROVE \E k \in moved2 : k[2] = copy[s]
    <3>1. <<m[1], copy[s]>> \in moved2
      BY <1>5, <1>6, <2>1
    <3> QED BY <3>1
  <2>2. ASSUME NEW m \in moved2, m[2] = copy[s] PROVE \E k \in moved : k[2] = s
    <3>1. <<m[1], s>> \in moved
      BY <1>5, <1>7, <2>2
    <3> QED BY <3>1
  <2> QED BY <2>1, <2>2
<1> HIDE DEF asks, asks2
<1>10. left \subseteq old /\ \A t \in left2 : \E s \in left : t = copy[s]
  BY <1>9
<1> HIDE DEF left, left2
<1>11. asks \subseteq new
  BY DEF asks
<1>12. ASSUME NEW n \in new, NEW s \in old
       PROVE  <<n, copy[s]>> \in Renamed(asks, left2) <=> <<n, s>> \in Renamed(asks, left)
  <2>1. copy[s] \in left2 <=> s \in left
    BY <1>9
  <2>2. (\A q \in left2 : Alike(n, q) => q = copy[s]) <=> (\A q \in left : Alike(n, q) => q = s)
    BY <1>1, <1>3, <1>9, <1>10
  <2>3. Alike(n, copy[s]) <=> Alike(n, s)
    BY <1>3
  <2>4. ASSUME NEW L, NEW q
        PROVE  <<n, q>> \in Renamed(asks, L) <=>
                 /\ n \in asks /\ q \in L /\ Alike(n, q)
                 /\ \A u \in L : Alike(n, u) => u = q
                 /\ ~ \E m \in asks : Alike(m, n) /\ m.at < n.at
    BY DEF Renamed
  <2>5. <<n, copy[s]>> \in Renamed(asks, left2) <=>
          /\ n \in asks /\ copy[s] \in left2 /\ Alike(n, copy[s])
          /\ \A u \in left2 : Alike(n, u) => u = copy[s]
          /\ ~ \E m \in asks : Alike(m, n) /\ m.at < n.at
    BY <2>4
  <2>6. <<n, s>> \in Renamed(asks, left) <=>
          /\ n \in asks /\ s \in left /\ Alike(n, s)
          /\ \A u \in left : Alike(n, u) => u = s
          /\ ~ \E m \in asks : Alike(m, n) /\ m.at < n.at
    BY <2>4
  <2> QED BY <2>1, <2>2, <2>3, <2>5, <2>6
<1>13. ASSUME NEW n \in new, NEW s \in old
       PROVE  <<n, s>> \in moved \cup Renamed(asks, left) <=> <<n, copy[s]>> \in moved2 \cup Renamed(asks2, left2)
  BY <1>5, <1>8, <1>12
<1>14. Match(new, old) = moved \cup Renamed(asks, left)
  BY DEF Match, moved, asks, left
<1>15. Match(new, old2) = moved2 \cup Renamed(asks2, left2)
  BY DEF Match, moved2, asks2, left2
<1>16. \A n \in new, s \in old : <<n, s>> \in Match(new, old) <=> <<n, copy[s]>> \in Match(new, old2)
  BY <1>13, <1>14, <1>15
<1> QED BY <1>16

\* So a pass of the lane does not change what the next index makes of the ids.
LEMMA LaneKeepsIds ==
  ASSUME BaseInv, NEW T, stored' = {Summarised(s, T) : s \in stored}, UNCHANGED <<text, garbled>>
  PROVE  IdsDiffer' <=> IdsDiffer
<1> DEFINE new  == symbols(Parsed)
           old  == symbols(stored)
           copy == [s \in old |-> Summarised(s, T)]
<1>1. Parsed' = Parsed /\ symbols(Parsed)' = new
  BY DEF Parsed, symbols
<1>2. TypeOK /\ Placed(stored) /\ \A s \in stored : s \in Symbol
  BY DEF BaseInv, TypeOK
<1>3. /\ new \in SUBSET Symbol /\ old \in SUBSET Symbol /\ Placed(old)
      /\ old \subseteq stored
  BY <1>2, ParsedIs DEF symbols, Placed
<1>4. \A s \in stored : LET u == Summarised(s, T) IN
        /\ u \in Symbol /\ u.id = s.id /\ u.file = s.file /\ u.name = s.name
        /\ u.construct = s.construct /\ u.at = s.at
  BY <1>2, SummarisedIs
<1>5. /\ copy \in [old -> Symbol]
      /\ \A s \in old : /\ copy[s].id = s.id /\ copy[s].file = s.file /\ copy[s].name = s.name
                        /\ copy[s].construct = s.construct /\ copy[s].at = s.at
  BY <1>3, <1>4
<1>6. symbols(stored)' = {copy[s] : s \in old}
  <2>1. \A s \in stored : Summarised(s, T) \in symbols(stored)' <=> s \in old
    BY <1>4 DEF symbols
  <2>2. \A u \in symbols(stored)' : \E s \in stored : u = Summarised(s, T)
    BY DEF symbols
  <2> QED BY <2>1, <2>2, <1>3
<1> HIDE DEF new, old, copy
<1> DEFINE old2 == {copy[s] : s \in old}
<1>7. Matched = Match(new, old)
  BY DEF Matched, Match, new, old
<1>8. Matched' = Match(new, old2)
  BY <1>1, <1>6 DEF Matched, Match
<1>0. (\A s \in old : copy[s] \in old2) /\ (\A t \in old2 : \E s \in old : t = copy[s])
  OBVIOUS
<1> HIDE DEF old2
<1>9. \A n \in new, s \in old : <<n, s>> \in Match(new, old) <=> <<n, copy[s]>> \in Match(new, old2)
  BY <1>3, <1>5, <1>0, CopiesMatch
<1>10. \A N, S : \A m \in Match(N, S) : m[1] \in N /\ m[2] \in S /\ m = <<m[1], m[2]>>
  BY DEF Match, Moved, Renamed
<1>11. \A m \in Match(new, old) : m[1] \in new /\ m[2] \in old /\ m = <<m[1], m[2]>>
  BY <1>10
<1>12. Unshared' <=> Unshared
  BY <1>1 DEF Unshared
<1>13. ASSUME Unshared, NEW n \in Parsed PROVE NewId(n)' = NewId(n)
  <2> DEFINE M == Match(new, old2)
  <2>0. NewId(n)' = apply_remap(n.id, M)
    BY <1>8 DEF NewId
  <2>1. \A m \in M : /\ m[1] \in Parsed /\ m[1].at \in Places /\ m[2] \in old2 /\ m = <<m[1], m[2]>>
    BY <1>2, <1>10, ParsedIs DEF new, symbols, Symbol
  <2>2. ASSUME NEW m \in M, m[1].id = n.id
        PROVE  \E s \in old : m = <<n, copy[s]>> /\ <<n, s>> \in Matched /\ NewId(n) = s.id
    <3>1. m[1] = n
      BY <1>13, <2>1, <2>2 DEF Unshared
    <3>2. PICK s \in old : m[2] = copy[s]
      BY <1>0, <2>1
    <3>3. n \in new
      BY <1>10, <3>1
    <3>4. <<n, s>> \in Matched
      BY <1>7, <1>9, <2>1, <3>1, <3>2, <3>3
    <3> QED BY <1>2, <1>13, <2>1, <3>1, <3>2, <3>4, NewIdIs
  <2>3. CASE \E m \in M : m[1].id = n.id
    <3>1. PICK m \in M : m[1].id = n.id
      BY <2>3
    <3>2. PICK s \in old : m = <<n, copy[s]>> /\ <<n, s>> \in Matched /\ NewId(n) = s.id
      BY <2>2, <3>1
    <3>3. \A j \in M : j[1].id = m[1].id => j = m
      <4> SUFFICES ASSUME NEW j \in M, j[1].id = n.id PROVE j = m
        BY <3>1
      <4>1. PICK t \in old : j = <<n, copy[t]>> /\ <<n, t>> \in Matched
        BY <2>2
      <4>2. t = s
        BY <1>2, <3>2, <4>1, MatchedIs DEF OneToOne
      <4> QED BY <3>2, <4>1, <4>2
    <3>4. apply_remap(m[1].id, M) = m[2].id
      BY <2>1, <3>3, OnlyRemap
    <3> QED BY <1>5, <2>0, <3>1, <3>2, <3>4
  <2>4. CASE ~ \E m \in M : m[1].id = n.id
    <3>1. NewId(n)' = n.id
      BY <2>0, <2>1, <2>4, RemapIs
    <3>2. ASSUME NEW m \in Matched, m[1] = n PROVE FALSE
      <4>1. <<n, copy[m[2]]>> \in M
        BY <1>7, <1>9, <1>11, <3>2
      <4> QED BY <2>4, <4>1
    <3> QED BY <1>2, <1>13, <3>1, <3>2, NewIdIs
  <2> QED BY <2>3, <2>4
<1>14. CASE Unshared
  BY <1>1, <1>13, <1>14 DEF IdsDiffer
<1>15. CASE ~Unshared
  <2>1. ~IdsDiffer
    BY <1>15, IdsDifferIs
  <2>2. ~IdsDiffer'
    BY <1>12, <1>15 DEF IdsDiffer, Unshared, NewId
  <2> QED BY <2>1, <2>2
<1> QED BY <1>14, <1>15

LEMMA RestOfState ==
  ASSUME UNCHANGED <<text, garbled, stored>>
  PROVE  /\ IdsDiffer' <=> IdsDiffer
         /\ Same' <=> Same
         /\ InOrder' <=> InOrder
<1>1. Parsed' = Parsed
  BY DEF Parsed
<1>2. Matched' = Matched
  BY <1>1 DEF Matched
<1>3. \A n : NewId(n)' = NewId(n)
  BY <1>2 DEF NewId
<1>4. IdsDiffer' <=> IdsDiffer
  BY <1>1, <1>3 DEF IdsDiffer
<1> QED BY <1>1, <1>4 DEF Same, Unshared, InOrder, Mirrored, symbols, Fresh

\* What a step may do to the stored symbols.
LEMMA StepIs ==
  ASSUME [Next]_vars
  PROVE  \/ UNCHANGED <<text, garbled, stored, still, edits>>
         \/ UNCHANGED stored /\ still' = 0
         \/ Index
         \/ Lane
<1>1. \A f \in Files : Garble(f) => UNCHANGED stored /\ still' = 0
  BY DEF Garble
<1>3. \A f \in Files : \A to \in [DOMAIN text[f] -> Places] : Shift(f, to) => UNCHANGED stored /\ still' = 0
  BY DEF Shift, Becomes
<1>2. \A f \in Files, l \in Places : LET changed == UNCHANGED stored /\ still' = 0 IN
        /\ Drop(f, l) => changed
        /\ \A m \in Names : /\ Rename(f, l, m) => changed
                            /\ \A c \in Constructs : Write(f, l, m, c) => changed
  BY DEF Drop, Rename, Write, Becomes
<1> QED BY <1>1, <1>2, <1>3 DEF Next, vars, history

LEMMA IndexRests == SymbolsInv /\ RestInv /\ Index => RestInv'
<1> SUFFICES ASSUME SymbolsInv, RestInv, Index PROVE RestInv'
  OBVIOUS
<1>1. BaseInv /\ TypeOK
  BY DEF SymbolsInv, BaseInv, TypeOK
<1>2. UNCHANGED <<text, garbled>> /\ still' = (IF still < 2 THEN still + 1 ELSE still) /\ still \in 0 .. 2
  BY <1>1 DEF Index, TypeOK
<1>3. CASE ~ Distinct(reconcile_identity)
  <2>1. UNCHANGED stored /\ ~IdsDiffer
    BY <1>1, <1>3, DistinctIs DEF Index
  <2>2. ~IdsDiffer'
    BY <1>2, <2>1, RestOfState
  <2> QED BY <2>1, <2>2 DEF RestInv, SameThing
<1>4. CASE Distinct(reconcile_identity)
  <2>1. stored' = reconcile_identity /\ IdsDiffer
    BY <1>1, <1>4, DistinctIs DEF Index
  <2>2. stored' = {Made(n) : n \in Parsed}
    BY <1>1, <2>1, MadeIs
  <2>3. \A n \in Parsed : /\ Like(Made(n), n) /\ Made(n).id = NewId(n)
                          /\ Made(n).file = n.file /\ Made(n).name = n.name /\ Made(n).at = n.at
                          /\ Made(n).construct = n.construct /\ Made(n).thing = n.thing
    BY <1>1, MadeIs DEF Like
  <2>4. Parsed' = Parsed
    BY <1>2 DEF Parsed
  <2>5. ASSUME NEW a \in Parsed, NEW b \in Parsed, a.file = b.file, a.thing = b.thing
        PROVE  a = b
    BY <1>1, <2>5, ParsedIs DEF BaseInv, Of, Placed
  <2>6. \A s, t \in stored' : SameThing(s, t) => s = t
    BY <2>2, <2>3, <2>5 DEF SameThing
  <2>7. Same'
    <3>1. Mirrored(stored', Parsed)
      BY <2>2, <2>3 DEF Mirrored
    <3>2. \A s \in stored' : s.file \in Tests => s.id = Fresh(s)
      BY <1>1, <2>2, <2>3, TestsKeepLines, ParsedIs DEF Fresh, BaseInv
    <3>3. Unshared'
      BY <2>1, <2>4, IdsDifferIs DEF Unshared
    <3> QED BY <2>4, <3>1, <3>2, <3>3 DEF Same, Fresh
  <2>8. ASSUME still' = 2 PROVE InOrder'
    <3>1. Same
      BY <1>2, <2>1, <2>8 DEF RestInv
    <3>2. ASSUME NEW a \in Parsed, NEW b \in Parsed, a.file \notin Tests,
                 Namesakes(Made(a), Made(b)), Made(a).at < Made(b).at
          PROVE  Hash[Made(a).id] < Hash[Made(b).id]
      <4>1. Namesakes(a, b) /\ a.at < b.at
        BY <2>3, <3>2 DEF Namesakes, kind
      <4>2. a \in symbols(Parsed) /\ b \in symbols(Parsed)
        BY <3>2, <4>1 DEF symbols, Namesakes
      <4>3. Hash[NewId(a)] < Hash[NewId(b)]
        BY <1>1, <3>1, <4>1, <4>2, SameIsOrdered
      <4> QED BY <2>3, <4>3
    <3> QED BY <2>2, <2>3, <3>2 DEF InOrder, symbols
  <2> QED BY <2>6, <2>7, <2>8 DEF RestInv
<1> QED BY <1>3, <1>4

LEMMA LaneRests == SymbolsInv /\ RestInv /\ Lane => RestInv'
<1> SUFFICES ASSUME SymbolsInv, RestInv, Lane PROVE RestInv'
  OBVIOUS
<1>1. BaseInv /\ \A s \in stored : s \in Symbol
  BY DEF SymbolsInv, BaseInv, TypeOK
<1>2. PICK T : stored' = {Summarised(s, T) : s \in stored}
  BY <1>1, LaneIs
<1>3. UNCHANGED <<text, garbled, still>>
  BY <1>1, LaneIs
<1>4. \A s \in stored : LET u == Summarised(s, T) IN
        /\ u.id = s.id /\ u.file = s.file /\ u.name = s.name
        /\ u.construct = s.construct /\ u.at = s.at /\ u.thing = s.thing
  BY <1>1, SummarisedIs
<1>5. \A s, t \in stored' : SameThing(s, t) => s = t
  BY <1>2, <1>4 DEF RestInv, SameThing
<1>6. IdsDiffer' <=> IdsDiffer
  BY <1>1, <1>2, <1>3, LaneKeepsIds
<1>7. Same => Same'
  <2> SUFFICES ASSUME Same PROVE Same'
    OBVIOUS
  <2>1. Parsed' = Parsed
    BY <1>3 DEF Parsed
  <2>2. Mirrored(stored', Parsed)
    BY <1>2, <1>4 DEF Same, Mirrored, Like
  <2>3. \A s \in stored' : s.file \in Tests => s.id = Fresh(s)
    BY <1>2, <1>4 DEF Same, Fresh
  <2> QED BY <2>1, <2>2, <2>3 DEF Same, Unshared, Fresh
<1>8. InOrder => InOrder'
  <2> SUFFICES ASSUME InOrder, NEW s \in stored, NEW t \in stored, s.file \notin Tests, t.file \notin Tests,
                      Namesakes(Summarised(s, T), Summarised(t, T)), Summarised(s, T).at < Summarised(t, T).at
               PROVE  Hash[Summarised(s, T).id] < Hash[Summarised(t, T).id]
    BY <1>2, <1>4 DEF InOrder, symbols
  <2>1. Namesakes(s, t) /\ s.at < t.at
    BY <1>4 DEF Namesakes, kind
  <2> QED BY <1>4, <2>1 DEF InOrder, symbols
<1> QED BY <1>3, <1>5, <1>6, <1>7, <1>8 DEF RestInv

LEMMA NextRests == SymbolsInv /\ RestInv /\ [Next]_vars => RestInv'
<1> SUFFICES ASSUME SymbolsInv, RestInv, [Next]_vars PROVE RestInv'
  OBVIOUS
<1>1. CASE UNCHANGED <<text, garbled, stored, still>>
  BY <1>1, RestOfState DEF RestInv, SameThing
<1>2. CASE UNCHANGED stored /\ still' = 0
  BY <1>2 DEF RestInv, SameThing
<1> QED BY <1>1, <1>2, StepIs, IndexRests, LaneRests

LEMMA StepRests ==
  ASSUME SymbolsInv, RestInv, [Next]_vars, still = 2,
         NEW p \in stored, NEW n \in stored', SameThing(n, p)
  PROVE  n.id = p.id
<1>1. BaseInv /\ \A s \in stored : s \in Symbol
  BY DEF SymbolsInv, BaseInv, TypeOK
<1>2. \A s, t \in stored : SameThing(s, t) => s = t
  BY DEF RestInv
<1>3. CASE UNCHANGED stored
  BY <1>2, <1>3
<1>4. CASE Lane
  <2>1. PICK T : stored' = {Summarised(s, T) : s \in stored}
    BY <1>1, <1>4, LaneIs
  <2>2. PICK s \in stored : n = Summarised(s, T)
    BY <2>1
  <2>3. n.id = s.id /\ SameThing(s, p)
    BY <1>1, <2>2, SummarisedIs DEF SameThing
  <2> QED BY <1>2, <2>3
<1>5. CASE Index /\ Distinct(reconcile_identity)
  <2>1. Same /\ InOrder
    BY <1>1, <1>5, DistinctIs DEF RestInv
  <2>2. PICK m \in Parsed : n.id = NewId(m) /\ n.file = m.file /\ n.thing = m.thing
    BY <1>1, <1>5, MadeIs DEF Index
  <2>3. PICK k \in Parsed : Like(p, k)
    BY <2>1 DEF Same, Mirrored
  <2>4. m.file = k.file /\ m.thing = k.thing
    BY <2>2, <2>3 DEF SameThing, Like
  <2>5. m = k
    BY <1>1, <2>4, ParsedIs DEF BaseInv, Of, Placed
  <2> QED BY <1>1, <2>1, <2>2, <2>3, <2>5, OrderIsKept
<1>6. Index => UNCHANGED stored \/ Distinct(reconcile_identity)
  BY DEF Index
<1> QED BY <1>3, <1>4, <1>5, <1>6, StepIs
-----------------------------------------------------------------------------
(* Theorems.                                                               *)

\* What is stored is of its type, an index is refused for a reason, and in a file that is
\* clear what is stored agrees with what is written there, but for one declaration
\* (identity.rs, service.rs).
THEOREM SymbolsInvariant == Spec => []SymbolsInv
BY InitHolds, NextHolds, PTL DEF Spec

\* Texts, symbols and what else of the model's is stored have their types, and no two
\* stored symbols have one id.
THEOREM TypeCorrect == Spec => []TypeOK
<1>1. SymbolsInv => TypeOK
  BY DEF SymbolsInv, BaseInv, TypeOK
<1> QED BY <1>1, SymbolsInvariant, PTL

\* An index is refused only because two declarations of one name begin on one line of a
\* file, in a first index too, or because one was carried away from the line where its id
\* was made, by a match with what is stored under it, and another of that name stands there
\* now (identity.rs, enrich.rs, hierarchy).
THEOREM RefusalHasReason == Spec => []RefusedForReason
<1>1. SymbolsInv => RefusedForReason
  BY DEF SymbolsInv, BaseInv
<1> QED BY <1>1, SymbolsInvariant, PTL

LEMMA SummariesHonest == Spec => []SummariesAreHonest
<1>1. SymbolsInv => SummariesAreHonest
  <2> SUFFICES ASSUME SymbolsInv, NEW s \in stored, s.file \in Clear
               PROVE  s.summaries \subseteq {s.thing}
    BY DEF SummariesAreHonest
  <2>1. ClearInv(s.file) /\ s \in In(s.file)
    BY DEF SymbolsInv, In
  <2> QED BY <2>1 DEF ClearInv
<1> QED BY <1>1, SymbolsInvariant, PTL

LEMMA StepKeepsIds ==
  ASSUME SymbolsInv, [Next]_vars, NEW p \in stored, NEW n \in stored',
         p.file \in Clear, SameThing(n, p)
  PROVE  n.id = p.id /\ p.summaries \subseteq n.summaries
<1>1. BaseInv /\ TypeOK /\ ClearInv(p.file)
  BY DEF SymbolsInv, BaseInv, TypeOK
<1>2. \A q \in stored : SameThing(q, p) => q = p
  BY <1>1 DEF ClearInv, In, SameThing
<1>3. CASE UNCHANGED stored
  BY <1>2, <1>3
<1>4. CASE Index /\ Distinct(reconcile_identity)
  <2>1. stored' = reconcile_identity
    BY <1>4 DEF Index
  <2>2. PICK m \in Parsed : n = Made(m)
    BY <1>1, <2>1, MadeIs
  <2>3. m.file = p.file /\ m.thing = p.thing
    BY <1>1, <2>2, MadeIs DEF SameThing
  <2>4. p.file \in Clear \ garbled
    BY <1>1, <2>3, ParsedIs DEF BaseInv
  <2> QED BY <1>4, <2>2, <2>3, <2>4, ClearMade
<1>5. CASE Lane
  <2>1. PICK T : stored' = {Summarised(s, T) : s \in stored}
    BY <1>1, <1>5, LaneIs
  <2>2. PICK s \in stored : n = Summarised(s, T)
    BY <2>1
  <2>3. s \in Symbol
    BY <1>1 DEF TypeOK
  <2>4. SameThing(s, p)
    BY <2>2, <2>3, SummarisedIs DEF SameThing
  <2> QED BY <1>2, <2>2, <2>3, <2>4, SummarisedIs
<1>6. UNCHANGED stored \/ (Index /\ Distinct(reconcile_identity)) \/ Lane
  <2>1. Index => UNCHANGED stored \/ Distinct(reconcile_identity)
    BY DEF Index
  <2>2. UNCHANGED vars => UNCHANGED stored
    BY DEF vars
  <2>3. \A f \in Files : Garble(f) => UNCHANGED stored
    BY DEF Garble
  <2>5. \A f \in Files : \A to \in [DOMAIN text[f] -> Places] : Shift(f, to) => UNCHANGED stored
    BY DEF Shift, Becomes
  <2>4. \A f \in Files, l \in Places :
          /\ Drop(f, l) => UNCHANGED stored
          /\ \A m \in Names : /\ Rename(f, l, m) => UNCHANGED stored
                              /\ \A c \in Constructs : Write(f, l, m, c) => UNCHANGED stored
    BY DEF Drop, Rename, Write, Becomes
  <2> QED BY <2>1, <2>2, <2>3, <2>4, <2>5 DEF Next
<1> QED BY <1>3, <1>4, <1>5, <1>6

\* In a file where names are written, dropped or changed one at a time and no two
\* declarations of a kind share a name, what is stored of a declaration keeps its id and
\* its summaries through moves and renames, and none is given to another (identity.rs).
THEOREM ClearThingsKeepIds == Spec => ThingsKeepIds
<1> DEFINE Kept == \A p \in stored, n \in stored' :
                      p.file \in Clear /\ SameThing(n, p)
                          => n.id = p.id /\ p.summaries \subseteq n.summaries
<1>1. SymbolsInv /\ [Next]_vars => Kept
  BY StepKeepsIds
<1>2. SymbolsInv /\ [Next]_vars => [Kept]_vars
  BY <1>1
<1> HIDE DEF Kept
<1>3. Spec => [][Kept]_vars
  BY <1>2, SymbolsInvariant, PTL DEF Spec
<1> USE DEF Kept
<1> QED BY <1>3, SummariesHonest, PTL DEF ThingsKeepIds

LEMMA RestAlways == Spec => [](SymbolsInv /\ RestInv)
<1>1. Init => SymbolsInv /\ RestInv
  <2>1. Init => RestInv
    BY DEF Init, RestInv
  <2> QED BY <2>1, InitHolds
<1>2. SymbolsInv /\ RestInv /\ [Next]_vars => SymbolsInv' /\ RestInv'
  BY NextHolds, NextRests
<1> QED BY <1>1, <1>2, PTL DEF Spec

\* After two indexes of an unchanged tree the ids of all declarations are at rest, in every
\* file and of namesakes too; before that they may be exchanged (identity.rs).
THEOREM IdsComeToRest == Spec => IdsSettle
<1> DEFINE Rests == still = 2 /\ edits' = edits =>
                      \A p \in stored, n \in stored' : SameThing(n, p) => n.id = p.id
<1>1. SymbolsInv /\ RestInv /\ [Next]_vars => [Rests]_vars
  BY StepRests
<1> HIDE DEF Rests
<1>2. Spec => [][Rests]_vars
  BY <1>1, RestAlways, PTL DEF Spec
<1> QED BY <1>2 DEF IdsSettle, Rests
=============================================================================
