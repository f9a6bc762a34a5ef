---------------------------- MODULE RollupProofs ----------------------------
(***************************************************************************)
(* Proofs about Rollup, for every hierarchy, policy and choice of findings. *)
(* An assessment depends on others only through the overall codes of the    *)
(* entity's children; what is neither on the list of work nor judged by     *)
(* other facts is therefore what its facts and its children make of it.     *)
(***************************************************************************)
EXTENDS Rollup, FiniteSetTheorems, SequenceTheorems, TLAPS

\* An assessment is what the entity's own facts and its children's assessments make of it.
Consistent(a, id) == a[id] = evaluate_entity(id, a)

\* Only a hierarchy that validates is evaluated.
ValidInv == green # Nothing \/ mode # "idle" => from_entities(entities)

\* Whoever is not judged by other facts is assessed by the facts there are.
CleanInv ==
    /\ DOMAIN green = All \/ dirty = All
    /\ sound /\ DOMAIN green = All => \A id \in All \ dirty : Consistent(green, id)

\* A full evaluation that takes children first never comes back to an entity.
FullInv ==
    mode = "full" /\ ChildrenFirst =>
        \A id \in DOMAIN draft : children_of(id) \subseteq DOMAIN draft /\ Consistent(draft, id)

\* What is not on the list of work is consistent; what is on it lies above a change;
\* every code that moved is reported, and nothing that does not lie above a change.
WorkInv ==
    mode = "work" =>
        /\ DOMAIN green = All
        /\ sound => \A id \in All : (\E i \in 1 .. Len(queue) : queue[i] = id) \/ Consistent(draft, id)
        /\ \A i \in 1 .. Len(queue) : queue[i] \in Above(dirty)
        /\ moved \subseteq Above(dirty)
        /\ \A id \in All \ moved : overall(draft[id]) = overall(green[id])

RollupInv ==
    /\ RecordedCounts
    /\ ValidInv
    /\ CleanInv
    /\ FullInv
    /\ WorkInv
-----------------------------------------------------------------------------
(* Codes.                                                                  *)

LEMMA WeakestIs ==
  ASSUME NEW S \in SUBSET Codes, S # {}
  PROVE  weakest(S) \in S /\ \A c \in S : weakest(S) <= c
<1>1. \E c \in S : \A d \in S : c <= d
  <2>1. \A c \in S : c \in {0, 1, 2, 3}
    BY DEF Codes, Red, Green
  <2>2. CASE 0 \in S
    BY <2>1, <2>2
  <2>3. CASE 0 \notin S /\ 1 \in S
    BY <2>1, <2>3
  <2>4. CASE 0 \notin S /\ 1 \notin S /\ 2 \in S
    BY <2>1, <2>4
  <2>5. CASE 0 \notin S /\ 1 \notin S /\ 2 \notin S
    BY <2>1, <2>5
  <2> QED BY <2>2, <2>3, <2>4, <2>5
<1> QED BY <1>1 DEF weakest

LEMMA OverallIs ==
  ASSUME NEW a \in Assessments
  PROVE  overall(a) \in Codes /\ \A axis \in Axes : overall(a) <= a[axis]
<1> DEFINE S == {a[axis] : axis \in Axes}
<1>1. S \in SUBSET Codes /\ S # {}
  BY DEF Assessments, Axes
<1>2. weakest(S) \in S /\ \A c \in S : weakest(S) <= c
  BY <1>1, WeakestIs
<1> QED BY <1>1, <1>2 DEF overall

LEMMA CodeIsCode ==
  ASSUME NEW evidence, NEW floor
  PROVE  code_from_evidence(evidence, floor) \in Codes
BY DEF code_from_evidence, Codes, Red, Unknown, Yellow, Green

\* Green takes a fresh finding that passes, strong enough and not inferred.
LEMMA GreenIsFound ==
  ASSUME NEW evidence, NEW floor, code_from_evidence(evidence, floor) = Green
  PROVE  \E e \in evidence : /\ e.snapshot = snapshot /\ e.outcome = "pass"
                             /\ e.proof >= floor /\ e.source # "inferred"
BY DEF code_from_evidence, Red, Unknown, Yellow, Green
-----------------------------------------------------------------------------
(* One assessment.                                                         *)

\* The codes that weigh on an axis.
Weights(id, axis, others) ==
    {OwnCode(id, axis)} \cup
    Contributions(id, axis, {overall(others[c]) : c \in children_of(id) \cap DOMAIN others})

LEMMA WeightsAreCodes ==
  ASSUME facts \in Facts, NEW id \in All, NEW axis \in Axes, NEW others,
         \A c \in DOMAIN others : others[c] \in Assessments
  PROVE  Weights(id, axis, others) \in SUBSET Codes /\ Weights(id, axis, others) # {}
<1> DEFINE children == {overall(others[c]) : c \in children_of(id) \cap DOMAIN others}
<1>1. children \subseteq Codes
  BY OverallIs
<1>2. OwnCode(id, axis) \in Codes
  BY CodeIsCode DEF OwnCode, Codes, Red, Green
<1>3. {code_from_evidence(e, Floors[entities[id].scale][axis]) : e \in facts.edges[id]} \subseteq Codes
  BY CodeIsCode
<1>4. {socket_contributions[r] : r \in facts.sockets[id]} \subseteq Codes
  <2>1. facts.sockets[id] \subseteq DOMAIN socket_contributions
    BY DEF Facts
  <2>2. \A r \in DOMAIN socket_contributions : socket_contributions[r] \in Codes
    BY DEF socket_contributions, Codes, Red, Unknown, Yellow, Green
  <2> QED BY <2>1, <2>2
<1>5. coherence_contributions(id) \subseteq Codes
  <2>1. PICK C \in SUBSET Conflicts : facts.conflicts \in [C -> [open : BOOLEAN, severity : Codes]]
    BY DEF Facts
  <2> QED BY <2>1 DEF coherence_contributions
<1>6. Contributions(id, axis, children) \subseteq Codes
  BY <1>1, <1>3, <1>4, <1>5 DEF Contributions
<1> QED BY <1>2, <1>6 DEF Weights

LEMMA AssessmentIs ==
  ASSUME facts \in Facts, NEW id \in All, NEW others,
         \A c \in DOMAIN others : others[c] \in Assessments
  PROVE  /\ evaluate_entity(id, others) \in Assessments
         /\ \A axis \in Axes : \A c \in Weights(id, axis, others) :
              evaluate_entity(id, others)[axis] <= c
<1>1. evaluate_entity(id, others) = [axis \in Axes |-> weakest(Weights(id, axis, others))]
  BY DEF evaluate_entity, Weights
<1>2. \A axis \in Axes : /\ weakest(Weights(id, axis, others)) \in Codes
                         /\ \A c \in Weights(id, axis, others) : weakest(Weights(id, axis, others)) <= c
  <2> TAKE axis \in Axes
  <2>1. Weights(id, axis, others) \in SUBSET Codes /\ Weights(id, axis, others) # {}
    BY WeightsAreCodes
  <2>2. /\ weakest(Weights(id, axis, others)) \in Weights(id, axis, others)
        /\ \A c \in Weights(id, axis, others) : weakest(Weights(id, axis, others)) <= c
    BY <2>1, WeakestIs
  <2> QED BY <2>1, <2>2
<1> QED BY <1>1, <1>2 DEF Assessments

\* An assessment depends on others only through the codes of the children.
LEMMA ChildrenDecide ==
  ASSUME NEW id, NEW a, NEW b,
         \A c \in children_of(id) : /\ c \in DOMAIN a <=> c \in DOMAIN b
                                    /\ c \in DOMAIN a => overall(a[c]) = overall(b[c])
  PROVE  evaluate_entity(id, a) = evaluate_entity(id, b)
<1>1. {overall(a[c]) : c \in children_of(id) \cap DOMAIN a}
        = {overall(b[c]) : c \in children_of(id) \cap DOMAIN b}
  OBVIOUS
<1> QED BY <1>1, Zenon DEF evaluate_entity

LEMMA AssessedType ==
  ASSUME NEW D, NEW a \in [D -> Assessments], NEW id, NEW x \in Assessments
  PROVE  Assessed(a, id, x) \in [D \cup {id} -> Assessments]
BY DEF Assessed
-----------------------------------------------------------------------------
(* The hierarchy.                                                          *)

LEMMA AboveIsClosed ==
  ASSUME NEW S, NoParent \notin All
  PROVE  /\ S \cap All \subseteq Above(S)
         /\ \A y \in Above(S) : entities[y].parent \in All => entities[y].parent \in Above(S)
BY DEF Above
-----------------------------------------------------------------------------
(* What an assessment is made of, before and after a step.                 *)

LEMMA SameFacts ==
  ASSUME UNCHANGED <<entities, snapshot, facts>>
  PROVE  \A id, a : evaluate_entity(id, a)' = evaluate_entity(id, a)
BY DEF evaluate_entity, children_of, All, OwnCode, Contributions, code_from_evidence,
       coherence_contributions

\* An entity whose own facts are the same is assessed as before.
LEMMA OwnFactsDecide ==
  ASSUME UNCHANGED <<entities, snapshot>>, NEW id,
         facts'.local[id] = facts.local[id],
         facts'.edges[id] = facts.edges[id],
         facts'.sockets[id] = facts.sockets[id],
         coherence_contributions(id)' = coherence_contributions(id)
  PROVE  \A a : evaluate_entity(id, a)' = evaluate_entity(id, a)
<1>1. \A e, f : code_from_evidence(e, f)' = code_from_evidence(e, f)
  BY DEF code_from_evidence
<1>2. children_of(id)' = children_of(id)
  BY DEF children_of, All
<1>3. \A axis : OwnCode(id, axis)' = OwnCode(id, axis)
  BY <1>1 DEF OwnCode
<1>4. \A axis, C : Contributions(id, axis, C)' = Contributions(id, axis, C)
  BY <1>1 DEF Contributions
<1> QED BY <1>2, <1>3, <1>4 DEF evaluate_entity
-----------------------------------------------------------------------------
(* Types.                                                                  *)

LEMMA Typed ==
  ASSUME TypeOK
  PROVE  All \subseteq Ids /\ IsFiniteSet(All) /\ NoParent \notin All
<1>1. All \subseteq Ids
  BY RollupAssumption DEF TypeOK, Listed, All
<1> QED BY <1>1, RollupAssumption, FS_Subset

\* A hierarchy is listed, also in the order of its names.
LEMMA SnapshotIsListed ==
  ASSUME NEW t \in Snapshots
  PROVE  Listed(t)
<1>1. \A e \in DOMAIN t : t[e] \in [scale : Universe .. Moon, parent : Ids \cup {NoParent},
                                    at : 1 .. Cardinality(Ids), symbol : BOOLEAN]
  BY RollupAssumption
<1>2. \A e \in DOMAIN t : t[e].at \in 1 .. Cardinality(Ids) /\ t[e] = [t[e] EXCEPT !.at = t[e].at]
  BY <1>1
<1> QED BY <1>2 DEF Listed

\* What a scan of a tree finds is well typed, and what was recorded for the snapshot is
\* among it, symbols apart.
LEMMA ScannedIs ==
  ASSUME recorded \subseteq [entity : Ids, evidence : Evidence],
         NEW tree, NEW id \in Nat,
         NEW sockets \in [DOMAIN tree -> SUBSET DOMAIN socket_contributions]
  PROVE  /\ Scanned(tree, id, sockets) \in
              [local     : [DOMAIN tree -> SUBSET Evidence],
               edges     : [DOMAIN tree -> SUBSET SUBSET Evidence],
               sockets   : [DOMAIN tree -> SUBSET DOMAIN socket_contributions],
               open      : [DOMAIN tree -> SUBSET Conflicts],
               conflicts : UNION {[C -> [open : BOOLEAN, severity : Codes]] : C \in SUBSET Conflicts}]
         /\ \A r \in recorded : r.evidence.snapshot = id /\ r.entity \in DOMAIN tree /\ ~tree[r.entity].symbol
              => r.evidence \in Scanned(tree, id, sockets).local[r.entity]
<1> DEFINE s == Scanned(tree, id, sockets)
<1>1. \A axis \in Axes, n \in 0 .. 2 : Proof(axis, "pass", n, "parsed", id) \in Evidence
  BY DEF Proof, Evidence, Outcomes, Proofs, Sources
<1>2. \A e : merge_recorded_evidence(tree, id, e) \subseteq Evidence
  BY DEF merge_recorded_evidence, Recorded
<1>3. s.local \in [DOMAIN tree -> SUBSET Evidence]
  BY <1>1, <1>2 DEF Scanned, Axes
<1>4. s.edges \in [DOMAIN tree -> SUBSET SUBSET Evidence]
  BY <1>1 DEF Scanned, Axes
<1>5. s.conflicts \in UNION {[C -> [open : BOOLEAN, severity : Codes]] : C \in SUBSET Conflicts}
  <2>1. Nothing \in [{} -> [open : BOOLEAN, severity : Codes]]
    BY DEF Nothing
  <2> QED BY <2>1 DEF Scanned
<1>6. s = [local |-> s.local, edges |-> s.edges, sockets |-> sockets,
           open |-> [e \in DOMAIN tree |-> {}], conflicts |-> s.conflicts]
  BY DEF Scanned
<1>7. ASSUME NEW r \in recorded, r.evidence.snapshot = id, r.entity \in DOMAIN tree,
             ~tree[r.entity].symbol
      PROVE  r.evidence \in s.local[r.entity]
  <2>1. r.evidence \in merge_recorded_evidence(tree, id, r.entity)
    BY <1>7 DEF merge_recorded_evidence, Recorded
  <2> QED BY <1>7, <2>1 DEF Scanned
<1> QED BY <1>3, <1>4, <1>5, <1>6, <1>7

LEMMA StampedIs ==
  ASSUME NEW f \in Findings, NEW id \in Nat
  PROVE  /\ Stamped(f, id) \in Evidence
         /\ Stamped(f, id).axis = f.axis /\ Stamped(f, id).snapshot = id
BY RollupAssumption DEF Stamped, Proof, Finding, Evidence

LEMMA InitHolds == Init => RollupInv
<1> SUFFICES ASSUME Init PROVE RollupInv
  OBVIOUS
<1>1. /\ entities \in Snapshots /\ snapshot = 0 /\ snapshot \in Nat
      /\ facts = Scanned(entities, 0, [e \in All |-> {}])
      /\ green = Nothing /\ mode = "idle" /\ draft = Nothing /\ queue = <<>>
      /\ moved = {} /\ dirty = All /\ sound = FALSE /\ changes = 0
  BY DEF Init
<1>2. recorded \subseteq [entity : Ids, evidence : Evidence]
  <2>1. PICK ledger \in Ledgers :
          recorded = {[entity |-> r.entity, evidence |-> Stamped(r.finding, 0)] : r \in ledger}
    BY DEF Init
  <2>2. \A r \in ledger : r.entity \in Ids /\ r.finding \in Finding
    BY RollupAssumption
  <2>3. \A f \in Finding : Stamped(f, 0) \in Evidence
    BY DEF Stamped, Proof, Finding, Evidence
  <2> QED BY <2>1, <2>2, <2>3
<1>3. /\ facts \in Facts
      /\ \A r \in recorded : r.evidence.snapshot = 0 /\ r.entity \in All /\ ~entities[r.entity].symbol
           => r.evidence \in facts.local[r.entity]
  <2>1. [e \in All |-> {}] \in [DOMAIN entities -> SUBSET DOMAIN socket_contributions]
    BY DEF All
  <2> QED BY <1>1, <1>2, <2>1, ScannedIs DEF Facts, All
<1>4. Listed(entities)
  BY <1>1, SnapshotIsListed
<1>5. TypeOK
  <2>1. DOMAIN draft = {} /\ draft \in [DOMAIN draft -> Assessments]
    BY <1>1 DEF Nothing
  <2>2. 0 \in 0 .. MaxChanges
    BY RollupAssumption
  <2>3. queue \in Seq(All)
    BY <1>1
  <2>4. moved \subseteq All /\ dirty \subseteq All /\ sound \in BOOLEAN
    BY <1>1
  <2>5. green \in [All -> Assessments] \cup {Nothing}
    BY <1>1
  <2> QED BY <1>1, <1>2, <1>3, <1>4, <2>1, <2>2, <2>3, <2>4, <2>5 DEF TypeOK
<1> QED BY <1>1, <1>3, <1>5 DEF RollupInv, RecordedCounts, ValidInv, CleanInv, FullInv, WorkInv
-----------------------------------------------------------------------------
(* A full evaluation.                                                      *)

LEMMA SameTree ==
  ASSUME UNCHANGED entities
  PROVE  /\ All' = All /\ \A id : children_of(id)' = children_of(id)
         /\ \A S : Above(S)' = Above(S)
         /\ Listed(entities)' = Listed(entities)
         /\ ChildrenFirst' = ChildrenFirst
BY DEF All, children_of, Above, ChildrenFirst, Before

\* Whoever leaves the facts and the assessments alone leaves CleanInv true.
LEMMA CleanStays ==
  ASSUME CleanInv, UNCHANGED <<entities, snapshot, facts, green, dirty, sound>>
  PROVE  CleanInv'
<1>1. All' = All /\ \A id, a : evaluate_entity(id, a)' = evaluate_entity(id, a)
  BY SameTree, SameFacts
<1> QED BY <1>1 DEF CleanInv, Consistent

\* What was recorded weighs as long as nothing is recorded, scanned or loaded anew.
LEMMA RecordedStays ==
  ASSUME RecordedCounts, TypeOK', UNCHANGED <<entities, snapshot, facts, recorded>>
  PROVE  RecordedCounts'
BY SameTree DEF RecordedCounts

LEMMA StartHolds == RollupInv /\ evaluate_snapshot => RollupInv'
<1> SUFFICES ASSUME RollupInv, evaluate_snapshot PROVE RollupInv'
  OBVIOUS
<1>1. /\ mode = "idle" /\ mode' = "full" /\ draft' = Nothing /\ from_entities(entities)
      /\ UNCHANGED <<entities, snapshot, facts, recorded, green, queue, moved, dirty, sound, changes>>
  BY DEF evaluate_snapshot, Evaluating, history
<1>2. DOMAIN draft' = {} /\ draft' \in [DOMAIN draft' -> Assessments]
  BY <1>1 DEF Nothing
<1>3. TypeOK'
  <2>1. TypeOK /\ All' = All /\ Listed(entities)' /\ Facts' = Facts
    BY <1>1, SameTree DEF RollupInv, RecordedCounts, TypeOK, Facts
  <2> QED BY <1>1, <1>2, <2>1 DEF TypeOK
<1>4. CleanInv'
  BY <1>1, CleanStays DEF RollupInv
<1>5. RecordedCounts'
  BY <1>1, <1>3, RecordedStays DEF RollupInv
<1>6. ValidInv' /\ FullInv' /\ WorkInv'
  BY <1>1, <1>2 DEF ValidInv, FullInv, WorkInv
<1> QED BY <1>4, <1>5, <1>6 DEF RollupInv

LEMMA EvaluateNextHolds ==
  ASSUME RollupInv, NEW id \in All, EvaluateNext(id)
  PROVE  RollupInv'
<1>1. /\ mode = "full" /\ mode' = "full" /\ Turn(id)
      /\ draft' = Assessed(draft, id, evaluate_entity(id, draft))
      /\ UNCHANGED <<entities, snapshot, facts, recorded, green, queue, moved, dirty, sound, changes>>
  BY DEF EvaluateNext, history
<1>2. TypeOK /\ All' = All /\ Listed(entities)' /\ Facts' = Facts
  BY <1>1, SameTree DEF RollupInv, RecordedCounts, TypeOK, Facts
<1>3. \A c \in DOMAIN draft : draft[c] \in Assessments
  BY <1>2 DEF TypeOK
<1>4. evaluate_entity(id, draft) \in Assessments
  BY <1>2, <1>3, AssessmentIs DEF TypeOK
<1>5. /\ DOMAIN draft' = DOMAIN draft \cup {id}
      /\ draft'[id] = evaluate_entity(id, draft)
      /\ \A y \in DOMAIN draft \ {id} : draft'[y] = draft[y]
      /\ draft' \in [DOMAIN draft' -> Assessments]
  <2> DEFINE x == evaluate_entity(id, draft)
  <2> HIDE DEF x
  <2>1. draft \in [DOMAIN draft -> Assessments] /\ x \in Assessments
    BY <1>2, <1>4 DEF TypeOK, x
  <2>2. /\ DOMAIN Assessed(draft, id, x) = DOMAIN draft \cup {id} /\ Assessed(draft, id, x)[id] = x
        /\ \A y \in DOMAIN draft \ {id} : Assessed(draft, id, x)[y] = draft[y]
        /\ Assessed(draft, id, x) \in [DOMAIN draft \cup {id} -> Assessments]
    BY <2>1, AssessedType DEF Assessed
  <2>3. draft' = Assessed(draft, id, x)
    BY <1>1 DEF x
  <2> QED BY <2>2, <2>3 DEF x
<1>6. TypeOK'
  BY <1>1, <1>2, <1>5 DEF TypeOK
<1>7. CleanInv' /\ RecordedCounts' /\ ValidInv' /\ WorkInv'
  BY <1>1, <1>6, CleanStays, RecordedStays DEF RollupInv, ValidInv, WorkInv
<1>8. FullInv'
  <2> SUFFICES ASSUME ChildrenFirst, NEW y \in DOMAIN draft'
               PROVE  children_of(y)' \subseteq DOMAIN draft' /\ Consistent(draft, y)'
    BY <1>1, SameTree DEF FullInv
  <2>1. id \notin DOMAIN draft
    BY <1>1 DEF Turn
  <2>2. children_of(y) \subseteq DOMAIN draft
    <3>1. CASE y = id
      <4> SUFFICES ASSUME NEW c \in children_of(id), c \notin DOMAIN draft PROVE FALSE
        BY <3>1
      <4>1. c \in All /\ entities[c].parent = id
        BY DEF children_of
      <4>2. Before(c, id)
        BY <4>1 DEF ChildrenFirst
      <4> QED BY <1>1, <4>1, <4>2 DEF Turn
    <3>2. CASE y # id
      BY <1>1, <1>5, <3>2 DEF RollupInv, FullInv
    <3> QED BY <3>1, <3>2
  <2>3. evaluate_entity(y, draft) = evaluate_entity(y, draft')
    BY <1>5, <2>1, <2>2, ChildrenDecide
  <2>4. draft'[y] = evaluate_entity(y, draft)
    BY <1>1, <1>5 DEF RollupInv, FullInv, Consistent
  <2>5. Consistent(draft, y)'
    BY <1>1, <2>3, <2>4, SameFacts DEF Consistent
  <2> QED BY <1>1, <1>5, <2>2, <2>5, SameTree
<1> QED BY <1>7, <1>8 DEF RollupInv

LEMMA EvaluatedHolds == RollupInv /\ Evaluated => RollupInv'
<1> SUFFICES ASSUME RollupInv, Evaluated PROVE RollupInv'
  OBVIOUS
<1>1. /\ mode = "full" /\ mode' = "idle" /\ DOMAIN draft = All /\ green' = draft /\ draft' = Nothing
      /\ dirty' = {} /\ moved' = {} /\ sound' = ChildrenFirst
      /\ UNCHANGED <<entities, snapshot, facts, recorded, queue, changes>>
  BY DEF Evaluated
<1>2. TypeOK /\ All' = All /\ Listed(entities)' /\ Facts' = Facts
  BY <1>1, SameTree DEF RollupInv, RecordedCounts, TypeOK, Facts
<1>3. TypeOK'
  <2>1. green' \in [All -> Assessments]
    BY <1>1, <1>2 DEF TypeOK
  <2>2. DOMAIN draft' = {} /\ draft' \in [DOMAIN draft' -> Assessments]
    BY <1>1 DEF Nothing
  <2>3. sound' \in BOOLEAN
    BY <1>1 DEF ChildrenFirst
  <2> QED BY <1>1, <1>2, <2>1, <2>2, <2>3 DEF TypeOK
<1>4. RecordedCounts' /\ ValidInv' /\ FullInv' /\ WorkInv'
  BY <1>1, <1>3, RecordedStays DEF RollupInv, ValidInv, FullInv, WorkInv
<1>5. CleanInv'
  <2>1. DOMAIN green' = All'
    BY <1>1, <1>2
  <2>2. ASSUME sound', NEW id \in All PROVE Consistent(green, id)'
    <3>1. draft[id] = evaluate_entity(id, draft)
      BY <1>1, <2>2 DEF RollupInv, FullInv, Consistent
    <3> QED BY <1>1, <3>1, SameFacts DEF Consistent
  <2> QED BY <1>2, <2>1, <2>2 DEF CleanInv
<1> QED BY <1>4, <1>5 DEF RollupInv
-----------------------------------------------------------------------------
(* The list of work.                                                       *)

\* What is left to visit is the rest of the list and perhaps the parent.
LEMMA ToVisitIs ==
  ASSUME queue \in Seq(All), queue # <<>>, NEW id, NEW moves \in BOOLEAN
  PROVE  LET next == ToVisit(id, moves) IN
         /\ next \in Seq(All)
         /\ \A i \in 1 .. Len(next) :
              \/ \E j \in 1 .. Len(queue) : next[i] = queue[j]
              \/ entities[id].parent \in All /\ next[i] = entities[id].parent
         /\ \A j \in 2 .. Len(queue) : \E i \in 1 .. Len(next) : next[i] = queue[j]
         /\ moves /\ entities[id].parent \in All
              => \E i \in 1 .. Len(next) : next[i] = entities[id].parent
<1> DEFINE up == IF moves /\ entities[id].parent \in All THEN <<entities[id].parent>> ELSE <<>>
           next == Tail(queue) \o up
<1>1. up \in Seq(All) /\ Tail(queue) \in Seq(All) /\ Len(Tail(queue)) = Len(queue) - 1
  OBVIOUS
<1>2. /\ next \in Seq(All) /\ Len(next) = Len(queue) - 1 + Len(up)
      /\ \A i \in 1 .. Len(queue) - 1 : next[i] = queue[i + 1]
      /\ \A i \in Len(queue) .. Len(next) : next[i] = up[i - (Len(queue) - 1)]
  <2>1. \A i \in 1 .. Len(Tail(queue)) : Tail(queue)[i] = queue[i + 1]
    OBVIOUS
  <2>2. /\ next \in Seq(All) /\ Len(next) = Len(Tail(queue)) + Len(up)
        /\ \A i \in 1 .. Len(next) :
             next[i] = IF i <= Len(Tail(queue)) THEN Tail(queue)[i] ELSE up[i - Len(Tail(queue))]
    BY <1>1, ConcatProperties
  <2> HIDE DEF next, up
  <2>3. Len(queue) \in Nat /\ Len(queue) >= 1 /\ Len(up) \in Nat
    BY <1>1
  <2> QED BY <1>1, <2>1, <2>2, <2>3
<1>3. /\ moves /\ entities[id].parent \in All => Len(up) = 1 /\ up[1] = entities[id].parent
      /\ ~(moves /\ entities[id].parent \in All) => Len(up) = 0
  OBVIOUS
<1>4. Len(queue) \in Nat /\ Len(queue) >= 1
  OBVIOUS
<1> HIDE DEF next, up
<1>5. ASSUME NEW i \in 1 .. Len(next)
      PROVE  \/ \E j \in 1 .. Len(queue) : next[i] = queue[j]
             \/ entities[id].parent \in All /\ next[i] = entities[id].parent
  <2>1. CASE i <= Len(queue) - 1
    BY <1>2, <1>4, <2>1
  <2>2. CASE i = Len(queue) /\ moves /\ entities[id].parent \in All
    BY <1>2, <1>3, <1>4, <2>2
  <2> QED BY <1>2, <1>3, <1>4, <2>1, <2>2
<1>6. ASSUME NEW j \in 2 .. Len(queue)
      PROVE  \E i \in 1 .. Len(next) : next[i] = queue[j]
  <2>1. j - 1 \in 1 .. Len(queue) - 1 /\ j - 1 \in 1 .. Len(next)
    BY <1>2, <1>3, <1>4
  <2>2. next[j - 1] = queue[j]
    BY <1>2, <1>4, <2>1
  <2> QED BY <2>1, <2>2
<1>7. ASSUME moves, entities[id].parent \in All
      PROVE  \E i \in 1 .. Len(next) : next[i] = entities[id].parent
  <2>1. Len(queue) \in 1 .. Len(next) /\ next[Len(queue)] = entities[id].parent
    BY <1>2, <1>3, <1>4, <1>7
  <2> QED BY <2>1
<1>8. ToVisit(id, moves) = next
  BY DEF ToVisit, next, up
<1> QED BY <1>2, <1>5, <1>6, <1>7, <1>8

LEMMA ReconvergeHolds == RollupInv /\ reconverge => RollupInv'
<1> SUFFICES ASSUME RollupInv, reconverge PROVE RollupInv'
  OBVIOUS
<1>1. /\ mode = "idle" /\ mode' = "work" /\ green # Nothing /\ draft' = green /\ moved' = {}
      /\ from_entities(entities)
      /\ UNCHANGED <<entities, snapshot, facts, recorded, green, dirty, sound, changes>>
  BY DEF reconverge, history
<1>2. PICK changed \in [1 .. Cardinality(dirty) -> dirty] :
        {changed[i] : i \in DOMAIN changed} = dirty /\ queue' = changed
  BY DEF reconverge
<1>3. TypeOK /\ All' = All /\ Listed(entities)' /\ Facts' = Facts /\ dirty \subseteq All
  BY <1>1, SameTree DEF RollupInv, RecordedCounts, TypeOK, Facts
<1>4. IsFiniteSet(dirty) /\ Cardinality(dirty) \in Nat
  BY <1>3, Typed, FS_Subset, FS_CardinalityType
<1>5. /\ queue' \in Seq(All) /\ Len(queue') = Cardinality(dirty)
      /\ \A i \in 1 .. Len(queue') : queue'[i] \in dirty
      /\ \A x \in dirty : \E i \in 1 .. Len(queue') : queue'[i] = x
  <2>1. \A i \in 1 .. Cardinality(dirty) : changed[i] \in All
    BY <1>3
  <2>2. changed \in Seq(All) /\ Len(changed) = Cardinality(dirty)
    BY <1>4, <2>1
  <2>3. DOMAIN changed = 1 .. Cardinality(dirty)
    OBVIOUS
  <2> QED BY <1>2, <2>2, <2>3
<1>6. green \in [All -> Assessments] /\ DOMAIN green = All
  BY <1>1, <1>3 DEF TypeOK
<1>7. TypeOK'
  BY <1>1, <1>3, <1>5, <1>6 DEF TypeOK
<1>8. CleanInv' /\ RecordedCounts' /\ ValidInv' /\ FullInv'
  BY <1>1, <1>7, CleanStays, RecordedStays DEF RollupInv, ValidInv, FullInv
<1>9. WorkInv'
  <2>1. DOMAIN green' = All'
    BY <1>1, <1>3, <1>6
  <2>2. ASSUME sound', NEW id \in All, ~ \E i \in 1 .. Len(queue') : queue'[i] = id
        PROVE  Consistent(draft, id)'
    <3>1. id \notin dirty
      BY <1>5, <2>2
    <3>2. green[id] = evaluate_entity(id, green)
      BY <1>1, <1>6, <2>2, <3>1 DEF RollupInv, CleanInv, Consistent
    <3> QED BY <1>1, <3>2, SameFacts DEF Consistent
  <2>3. dirty \subseteq Above(dirty)' /\ dirty' = dirty
    BY <1>1, <1>3, Typed, AboveIsClosed, SameTree
  <2>4. \A i \in 1 .. Len(queue') : queue'[i] \in Above(dirty)'
    BY <1>5, <2>3
  <2>5. \A id \in All : overall(draft'[id]) = overall(green'[id])
    BY <1>1
  <2> QED BY <1>1, <1>3, <2>1, <2>2, <2>4, <2>5 DEF WorkInv
<1> QED BY <1>8, <1>9 DEF RollupInv

LEMMA WorkHolds == RollupInv /\ Work => RollupInv'
<1> SUFFICES ASSUME RollupInv, Work PROVE RollupInv'
  OBVIOUS
<1> DEFINE id    == Head(queue)
           x     == evaluate_entity(id, draft)
           moves == overall(draft[id]) # overall(x)
<1>1. /\ mode = "work" /\ mode' = "work" /\ queue # <<>>
      /\ draft' = Assessed(draft, id, x)
      /\ queue' = ToVisit(id, moves)
      /\ moved' = Report(id, moves)
      /\ UNCHANGED <<entities, snapshot, facts, recorded, green, dirty, sound, changes>>
  BY DEF Work, history
<1>2. TypeOK /\ All' = All /\ Listed(entities)' /\ Facts' = Facts /\ DOMAIN draft = All
  BY <1>1, SameTree DEF RollupInv, RecordedCounts, TypeOK, Facts
<1>3. id \in All /\ 1 \in 1 .. Len(queue) /\ id = queue[1] /\ moves \in BOOLEAN
  BY <1>1, <1>2 DEF TypeOK
<1>4. draft \in [All -> Assessments] /\ x \in Assessments
  <2>1. \A c \in DOMAIN draft : draft[c] \in Assessments
    BY <1>2 DEF TypeOK
  <2> QED BY <1>2, <1>3, <2>1, AssessmentIs DEF TypeOK
<1> HIDE DEF id, x, moves
<1>5. /\ DOMAIN draft' = All /\ draft'[id] = x
      /\ \A y \in All \ {id} : draft'[y] = draft[y]
      /\ draft' \in [All -> Assessments]
  <2>1. DOMAIN draft \cup {id} = All /\ draft' = Assessed(draft, id, x)
    BY <1>1, <1>2, <1>3
  <2>2. DOMAIN draft' = All /\ draft'[id] = x /\ \A y \in All \ {id} : draft'[y] = draft[y]
    BY <1>2, <2>1 DEF Assessed
  <2>3. draft' \in [All -> Assessments]
    BY <1>2, <1>4, <2>1, AssessedType
  <2> QED BY <2>2, <2>3
<1>6. /\ queue' \in Seq(All)
      /\ \A i \in 1 .. Len(queue') :
           \/ \E j \in 1 .. Len(queue) : queue'[i] = queue[j]
           \/ entities[id].parent \in All /\ queue'[i] = entities[id].parent
      /\ \A j \in 2 .. Len(queue) : \E i \in 1 .. Len(queue') : queue'[i] = queue[j]
      /\ moves /\ entities[id].parent \in All
           => \E i \in 1 .. Len(queue') : queue'[i] = entities[id].parent
  <2>1. queue \in Seq(All)
    BY <1>2 DEF TypeOK
  <2> QED BY <1>1, <1>3, <2>1, ToVisitIs
<1>7. moved' = IF moves THEN moved \cup {id} ELSE moved
  BY <1>1 DEF Report
<1>8. TypeOK'
  BY <1>1, <1>2, <1>3, <1>5, <1>6, <1>7 DEF TypeOK
<1>9. CleanInv' /\ RecordedCounts' /\ ValidInv' /\ FullInv'
  BY <1>1, <1>8, CleanStays, RecordedStays DEF RollupInv, ValidInv, FullInv
<1>10. WorkInv'
  <2>1. /\ DOMAIN green = All
        /\ \A i \in 1 .. Len(queue) : queue[i] \in Above(dirty)
        /\ moved \subseteq Above(dirty)
        /\ \A y \in All \ moved : overall(draft[y]) = overall(green[y])
    BY <1>1 DEF RollupInv, WorkInv
  <2>2. DOMAIN green' = All' /\ Above(dirty)' = Above(dirty)
    BY <1>1, <1>2, <2>1, SameTree
  <2>3. id \in Above(dirty)
    BY <1>3, <2>1
  <2>4. entities[id].parent \in All => entities[id].parent \in Above(dirty)
    BY <1>2, <2>3, Typed, AboveIsClosed
  <2>5. \A i \in 1 .. Len(queue') : queue'[i] \in Above(dirty)
    BY <1>6, <2>1, <2>4
  <2>6. moved' \subseteq Above(dirty)
    BY <1>7, <2>1, <2>3
  <2>7. ASSUME NEW y \in All \ moved' PROVE overall(draft'[y]) = overall(green[y])
    <3>1. CASE y = id
      BY <1>5, <1>7, <2>1, <2>7, <3>1 DEF moves
    <3>2. CASE y # id
      BY <1>5, <1>7, <2>1, <2>7, <3>2
    <3> QED BY <3>1, <3>2
  <2>8. ASSUME sound, NEW y \in All, ~ \E i \in 1 .. Len(queue') : queue'[i] = y
        PROVE  Consistent(draft, y)'
    <3>1. \A c \in children_of(y) : c \in All /\ overall(draft'[c]) = overall(draft[c])
      <4> SUFFICES ASSUME NEW c \in children_of(y) PROVE c \in All /\ overall(draft'[c]) = overall(draft[c])
        OBVIOUS
      <4>1. c \in All /\ entities[c].parent = y
        BY DEF children_of
      <4>2. CASE c # id
        BY <1>5, <4>1, <4>2
      <4>3. CASE c = id
        <5>1. ~moves
          BY <1>6, <2>8, <4>1, <4>3
        <5> QED BY <1>5, <4>1, <4>3, <5>1 DEF moves
      <4> QED BY <4>2, <4>3
    <3>2. evaluate_entity(y, draft) = evaluate_entity(y, draft')
      BY <1>2, <1>5, <3>1, ChildrenDecide
    <3>3. draft'[y] = evaluate_entity(y, draft)
      <4>1. CASE y = id
        BY <1>5, <4>1 DEF x
      <4>2. CASE y # id
        <5>1. ~ \E j \in 1 .. Len(queue) : queue[j] = y
          <6> SUFFICES ASSUME NEW j \in 1 .. Len(queue), queue[j] = y PROVE FALSE
            OBVIOUS
          <6>1. j # 1
            BY <1>3, <4>2
          <6>2. j \in 2 .. Len(queue)
            BY <1>2, <6>1 DEF TypeOK
          <6> QED BY <1>6, <2>8, <6>2
        <5>2. Consistent(draft, y)
          BY <1>1, <2>8, <5>1 DEF RollupInv, WorkInv
        <5> QED BY <1>5, <4>2, <5>2 DEF Consistent
      <4> QED BY <4>1, <4>2
    <3> QED BY <1>1, <3>2, <3>3, SameFacts DEF Consistent
  <2> QED BY <1>1, <1>2, <2>2, <2>5, <2>6, <2>7, <2>8 DEF WorkInv
<1> QED BY <1>9, <1>10 DEF RollupInv

LEMMA ReconvergedHolds == RollupInv /\ Reconverged => RollupInv'
<1> SUFFICES ASSUME RollupInv, Reconverged PROVE RollupInv'
  OBVIOUS
<1>1. /\ mode = "work" /\ mode' = "idle" /\ queue = <<>> /\ green' = draft /\ draft' = Nothing
      /\ dirty' = {}
      /\ UNCHANGED <<entities, snapshot, facts, recorded, queue, moved, sound, changes>>
  BY DEF Reconverged, history
<1>2. TypeOK /\ All' = All /\ Listed(entities)' /\ Facts' = Facts /\ DOMAIN draft = All
  BY <1>1, SameTree DEF RollupInv, RecordedCounts, TypeOK, Facts
<1>3. TypeOK'
  <2>1. green' \in [All -> Assessments]
    BY <1>1, <1>2 DEF TypeOK
  <2>2. DOMAIN draft' = {} /\ draft' \in [DOMAIN draft' -> Assessments]
    BY <1>1 DEF Nothing
  <2> QED BY <1>1, <1>2, <2>1, <2>2 DEF TypeOK
<1>4. RecordedCounts' /\ ValidInv' /\ FullInv' /\ WorkInv'
  BY <1>1, <1>3, RecordedStays DEF RollupInv, ValidInv, FullInv, WorkInv
<1>5. CleanInv'
  <2>1. ASSUME sound', NEW id \in All PROVE Consistent(green, id)'
    <3>1. ~ \E i \in 1 .. Len(queue) : queue[i] = id
      BY <1>1
    <3>2. draft[id] = evaluate_entity(id, draft)
      BY <1>1, <2>1, <3>1 DEF RollupInv, WorkInv, Consistent
    <3> QED BY <1>1, <3>2, SameFacts DEF Consistent
  <2> QED BY <1>1, <1>2, <2>1 DEF CleanInv
<1> QED BY <1>4, <1>5 DEF RollupInv
-----------------------------------------------------------------------------
(* New snapshots, and new facts about the one in hand.                     *)

\* A new scan leaves nothing of what was judged by older facts.
LEMMA ScanHolds ==
  ASSUME RollupInv, mode = "idle", NEW id \in Nat,
         NEW sockets \in [DOMAIN entities' -> SUBSET DOMAIN socket_contributions],
         Listed(entities'), snapshot' = id, facts' = Scanned(entities', id, sockets),
         dirty' = DOMAIN entities', green' = Nothing, moved' = {}, changes' \in 0 .. MaxChanges,
         UNCHANGED <<recorded, mode, draft, queue, sound>>
  PROVE  RollupInv'
<1>1. /\ recorded \subseteq [entity : Ids, evidence : Evidence]
      /\ draft = Nothing /\ queue = <<>> /\ sound \in BOOLEAN
  BY DEF RollupInv, RecordedCounts, TypeOK
<1>2. /\ facts' \in Facts'
      /\ \A r \in recorded : r.evidence.snapshot = id /\ r.entity \in All' /\ ~entities'[r.entity].symbol
           => r.evidence \in facts'.local[r.entity]
  BY <1>1, ScannedIs DEF Facts, All
<1>3. TypeOK'
  <2>1. DOMAIN draft' = {} /\ draft' \in [DOMAIN draft' -> Assessments]
    BY <1>1 DEF Nothing
  <2>2. queue' \in Seq(All') /\ moved' \subseteq All' /\ dirty' \subseteq All'
    BY <1>1 DEF All
  <2> QED BY <1>1, <1>2, <2>1, <2>2 DEF TypeOK
<1>4. RecordedCounts'
  BY <1>2, <1>3 DEF RecordedCounts
<1>5. ValidInv' /\ CleanInv' /\ FullInv' /\ WorkInv'
  BY DEF ValidInv, CleanInv, FullInv, WorkInv, All, Nothing
<1> QED BY <1>4, <1>5 DEF RollupInv

LEMMA EditHolds == RollupInv /\ Edit => RollupInv'
<1> SUFFICES ASSUME RollupInv, Edit PROVE RollupInv'
  OBVIOUS
<1>1. PICK tree \in {t \in Snapshots : from_entities(t)} : \E sockets \in Sockets(tree) :
        entities' = tree /\ facts' = Scanned(tree, snapshot + 1, sockets) /\ dirty' = DOMAIN tree
  BY DEF Edit
<1>2. PICK sockets \in Sockets(tree) :
        entities' = tree /\ facts' = Scanned(tree, snapshot + 1, sockets) /\ dirty' = DOMAIN tree
  BY <1>1
<1>3. sockets \in [DOMAIN tree -> SUBSET DOMAIN socket_contributions]
  <2>1. \A r \in Resolutions : {r} \subseteq DOMAIN socket_contributions
    BY RollupAssumption DEF socket_contributions
  <2> QED BY <2>1 DEF Sockets
<1>4. /\ mode = "idle" /\ changes' \in 0 .. MaxChanges
      /\ snapshot' = snapshot + 1 /\ snapshot + 1 \in Nat /\ green' = Nothing /\ moved' = {}
      /\ UNCHANGED <<recorded, mode, draft, queue, sound>>
  BY RollupAssumption DEF Edit, Change, RollupInv, RecordedCounts, TypeOK
<1>5. Listed(entities')
  BY <1>1, <1>2, SnapshotIsListed
<1> QED BY <1>2, <1>3, <1>4, <1>5, ScanHolds

LEMMA RescanHolds == RollupInv /\ Rescan => RollupInv'
<1> SUFFICES ASSUME RollupInv, Rescan PROVE RollupInv'
  OBVIOUS
<1>1. /\ mode = "idle" /\ changes' \in 0 .. MaxChanges
      /\ facts' = Scanned(entities', snapshot, facts.sockets) /\ dirty' = DOMAIN entities'
      /\ green' = Nothing /\ moved' = {} /\ snapshot \in Nat /\ snapshot' = snapshot
      /\ UNCHANGED <<entities, recorded, mode, draft, queue, sound>>
  BY RollupAssumption DEF Rescan, Change, All, RollupInv, RecordedCounts, TypeOK
<1>2. facts.sockets \in [DOMAIN entities' -> SUBSET DOMAIN socket_contributions] /\ Listed(entities')
  BY <1>1 DEF RollupInv, RecordedCounts, TypeOK, Facts, All
<1> QED BY <1>1, <1>2, ScanHolds

LEMMA LoadedIs ==
  ASSUME TypeOK, entities' = Loaded
  PROVE  /\ All' = All /\ Listed(entities')
         /\ \A e \in All : entities'[e].symbol = entities[e].symbol
         /\ from_entities(entities) => from_entities(entities')
<1>1. PICK t \in Snapshots :
        /\ DOMAIN t = All
        /\ \A e \in All : \E n \in 1 .. Cardinality(Ids) : entities[e] = [t[e] EXCEPT !.at = n]
  BY DEF TypeOK, Listed, All
<1>2. DOMAIN entities' = All
  BY DEF Loaded
<1>3. ASSUME NEW e \in All
      PROVE  /\ entities'[e].symbol = entities[e].symbol
             /\ entities'[e].scale = entities[e].scale /\ entities'[e].parent = entities[e].parent
             /\ \E n \in 1 .. Cardinality(Ids) : entities'[e] = [t[e] EXCEPT !.at = n]
  <2>1. t[e] \in [scale : Universe .. Moon, parent : Ids \cup {NoParent},
                  at : 1 .. Cardinality(Ids), symbol : BOOLEAN]
    BY <1>1, RollupAssumption
  <2>2. PICK n \in 1 .. Cardinality(Ids) : entities[e] = [t[e] EXCEPT !.at = n]
    BY <1>1
  <2>3. entities'[e] = [entities[e] EXCEPT !.at = ByName[e]]
    BY DEF Loaded
  <2>4. ByName[e] \in 1 .. Cardinality(Ids)
    BY Typed, RollupAssumption
  <2>5. /\ entities'[e] = [t[e] EXCEPT !.at = ByName[e]] /\ entities'[e].symbol = entities[e].symbol
        /\ entities'[e].scale = entities[e].scale /\ entities'[e].parent = entities[e].parent
    BY <2>1, <2>2, <2>3
  <2> QED BY <2>4, <2>5
<1>4. ASSUME from_entities(entities) PROVE from_entities(entities')
  <2> DEFINE Roots(tree) == {e \in All : tree[e].scale = Universe /\ tree[e].parent = NoParent}
  <2>1. Roots(entities') = Roots(entities)
    BY <1>3
  <2>2. /\ Cardinality(Roots(entities)) = 1
        /\ \A e \in All \ Roots(entities) :
             /\ entities[e].parent \in All
             /\ allowed(entities[entities[e].parent].scale, entities[e].scale)
        /\ \A S \in (SUBSET All) \ {{}} : ~ \A e \in S : entities[e].parent \in S
    BY <1>4 DEF from_entities, All
  <2>3. Cardinality(Roots(entities')) = 1
    BY <2>1, <2>2
  <2>4. ASSUME NEW e \in All \ Roots(entities')
        PROVE  /\ entities'[e].parent \in All
               /\ allowed(entities'[entities'[e].parent].scale, entities'[e].scale)
    <3>1. /\ entities[e].parent \in All
          /\ allowed(entities[entities[e].parent].scale, entities[e].scale)
      BY <2>1, <2>2, <2>4
    <3> QED BY <1>3, <3>1
  <2>5. \A S \in (SUBSET All) \ {{}} : ~ \A e \in S : entities'[e].parent \in S
    BY <1>3, <2>2
  <2> QED BY <1>2, <2>3, <2>4, <2>5 DEF from_entities
<1> QED BY <1>1, <1>2, <1>3, <1>4 DEF Listed, All

LEMMA EvidenceHolds ==
  ASSUME RollupInv, NEW e \in All, NEW f \in Findings, NEW r \in BOOLEAN, EvidenceCommand(e, f, r)
  PROVE  RollupInv'
<1> DEFINE targets  == IF r THEN {x \in All : e \in Above({x})} ELSE {e}
           stamped  == Stamped(f, snapshot)
           replaced == {q \in recorded : /\ q.entity \in targets
                                         /\ q.evidence.axis = f.axis
                                         /\ q.evidence.snapshot = snapshot}
<1>1. /\ mode = "idle" /\ mode' = "full" /\ draft' = Nothing /\ dirty' = All /\ green # Nothing
      /\ changes' \in 0 .. MaxChanges /\ entities' = Loaded
      /\ UNCHANGED <<snapshot, green, queue, moved, sound>>
  BY RollupAssumption DEF EvidenceCommand, Change, Evaluating, RollupInv, RecordedCounts, TypeOK
<1>2. /\ recorded' = (recorded \ replaced) \cup {[entity |-> x, evidence |-> stamped] : x \in targets}
      /\ facts' = [facts EXCEPT !.conflicts = Nothing,
                      !.local = [x \in All |-> IF x \in targets THEN @[x] \cup {stamped} ELSE @[x]]]
  BY Zenon DEF EvidenceCommand
<1>3. targets \subseteq All
  OBVIOUS
<1>4. TypeOK
  BY DEF RollupInv, RecordedCounts
<1>5. stamped \in Evidence
  BY <1>4, StampedIs DEF TypeOK
<1> HIDE DEF targets, stamped
<1>6. /\ All' = All /\ Listed(entities') /\ \A x \in All : entities'[x].symbol = entities[x].symbol
      /\ All \subseteq Ids /\ from_entities(entities')
  BY <1>1, <1>4, LoadedIs, Typed DEF RollupInv, ValidInv
<1>7. /\ facts' \in Facts'
      /\ \A x \in All : facts.local[x] \subseteq facts'.local[x]
      /\ \A x \in targets : stamped \in facts'.local[x]
  <2> DEFINE local == [x \in All |-> IF x \in targets THEN facts.local[x] \cup {stamped} ELSE facts.local[x]]
  <2>1. facts \in Facts
    BY <1>4 DEF TypeOK
  <2>2. local \in [All -> SUBSET Evidence]
    BY <1>5, <2>1 DEF Facts
  <2>3. Nothing \in UNION {[C -> [open : BOOLEAN, severity : Codes]] : C \in SUBSET Conflicts}
    <3>1. Nothing \in [{} -> [open : BOOLEAN, severity : Codes]]
      BY DEF Nothing
    <3> QED BY <3>1
  <2>4. facts' = [facts EXCEPT !.conflicts = Nothing, !.local = local]
    BY <1>2
  <2> HIDE DEF local
  <2>5. facts' \in Facts /\ facts'.local = local /\ Facts' = Facts
    BY <1>6, <2>1, <2>2, <2>3, <2>4 DEF Facts
  <2> QED BY <1>3, <2>5 DEF local
<1>8. recorded' \subseteq [entity : Ids, evidence : Evidence]
  BY <1>2, <1>3, <1>4, <1>5, <1>6 DEF TypeOK
<1>9. TypeOK'
  <2>1. DOMAIN draft' = {} /\ draft' \in [DOMAIN draft' -> Assessments]
    BY <1>1 DEF Nothing
  <2>2. queue' \in Seq(All') /\ moved' \subseteq All' /\ dirty' \subseteq All' /\ queue' = <<>>
    BY <1>1, <1>4, <1>6 DEF TypeOK
  <2>3. green' \in [All' -> Assessments] \cup {Nothing} /\ snapshot' \in Nat /\ sound' \in BOOLEAN
    BY <1>1, <1>4, <1>6 DEF TypeOK
  <2> QED BY <1>1, <1>6, <1>7, <1>8, <2>1, <2>2, <2>3 DEF TypeOK
<1>10. RecordedCounts'
  <2> SUFFICES ASSUME NEW q \in recorded', q.evidence.snapshot = snapshot', q.entity \in All',
                      ~entities'[q.entity].symbol
               PROVE  q.evidence \in facts'.local[q.entity]
    BY <1>9 DEF RecordedCounts
  <2>1. CASE q \in recorded
    <3>1. q.entity \in All /\ ~entities[q.entity].symbol /\ q.evidence.snapshot = snapshot
      BY <1>1, <1>6
    <3>2. q.evidence \in facts.local[q.entity]
      BY <2>1, <3>1 DEF RollupInv, RecordedCounts
    <3> QED BY <1>7, <3>1, <3>2
  <2>2. CASE q \in {[entity |-> x, evidence |-> stamped] : x \in targets}
    <3>1. PICK x \in targets : q = [entity |-> x, evidence |-> stamped]
      BY <2>2
    <3>2. x \in All /\ stamped \in facts'.local[x]
      BY <1>3, <1>7, <3>1
    <3> QED BY <3>1, <3>2
  <2> QED BY <1>2, <2>1, <2>2
<1>11. ValidInv' /\ CleanInv' /\ FullInv' /\ WorkInv'
  BY <1>1, <1>6 DEF ValidInv, CleanInv, FullInv, WorkInv, Nothing
<1> QED BY <1>10, <1>11 DEF RollupInv

\* Whoever is judged by the same facts stays as it was assessed.
LEMMA CleanGrows ==
  ASSUME CleanInv, UNCHANGED <<entities, snapshot, green, sound>>,
         dirty \subseteq dirty', dirty' \subseteq All,
         \A id \in All \ dirty' : \A a : evaluate_entity(id, a)' = evaluate_entity(id, a)
  PROVE  CleanInv'
<1>1. All' = All
  BY SameTree
<1>2. ASSUME sound, DOMAIN green = All, NEW id \in All \ dirty'
      PROVE  Consistent(green, id)'
  <2>1. green[id] = evaluate_entity(id, green)
    BY <1>2 DEF CleanInv, Consistent
  <2> QED BY <1>2, <2>1 DEF Consistent
<1> QED BY <1>1, <1>2 DEF CleanInv

LEMMA CoherenceStays ==
  ASSUME NEW id, facts'.open[id] = facts.open[id],
         \A d \in facts.open[id] :
            /\ d \in DOMAIN facts'.conflicts <=> d \in DOMAIN facts.conflicts
            /\ d \in DOMAIN facts.conflicts => facts'.conflicts[d] = facts.conflicts[d]
  PROVE  coherence_contributions(id)' = coherence_contributions(id)
BY DEF coherence_contributions

\* A change of the facts of an idle snapshot that names whom it touches.
LEMMA TouchHolds ==
  ASSUME RollupInv, mode = "idle", facts' \in Facts, dirty \subseteq dirty', dirty' \subseteq All,
         \A x \in All : facts.local[x] \subseteq facts'.local[x],
         \A id \in All \ dirty' : \A a : evaluate_entity(id, a)' = evaluate_entity(id, a),
         changes' \in 0 .. MaxChanges,
         UNCHANGED <<entities, snapshot, recorded, green, mode, draft, queue, moved, sound>>
  PROVE  RollupInv'
<1>1. TypeOK /\ All' = All /\ Listed(entities)' /\ Facts' = Facts
  BY SameTree DEF RollupInv, RecordedCounts, TypeOK, Facts
<1>2. TypeOK'
  BY <1>1 DEF TypeOK
<1>3. RecordedCounts'
  <2> SUFFICES ASSUME NEW q \in recorded, q.evidence.snapshot = snapshot, q.entity \in All,
                      ~entities[q.entity].symbol
               PROVE  q.evidence \in facts'.local[q.entity]
    BY <1>1, <1>2 DEF RecordedCounts
  <2>1. q.evidence \in facts.local[q.entity]
    BY DEF RollupInv, RecordedCounts
  <2> QED BY <2>1
<1>4. CleanInv'
  BY CleanGrows DEF RollupInv
<1>5. ValidInv' /\ FullInv' /\ WorkInv'
  BY DEF RollupInv, ValidInv, FullInv, WorkInv
<1> QED BY <1>3, <1>4, <1>5 DEF RollupInv

LEMMA ObserveHolds ==
  ASSUME RollupInv, NEW e \in All, NEW f \in Findings, Observe(e, f)
  PROVE  RollupInv'
<1>1. /\ mode = "idle" /\ changes' \in 0 .. MaxChanges
      /\ facts' = [facts EXCEPT !.local[e] = @ \cup {Stamped(f, snapshot)}]
      /\ dirty' = dirty \cup {e}
      /\ UNCHANGED <<entities, snapshot, recorded, green, mode, draft, queue, moved, sound>>
  BY RollupAssumption DEF Observe, Change, RollupInv, RecordedCounts, TypeOK
<1>2. TypeOK /\ facts \in Facts /\ dirty \subseteq All /\ Stamped(f, snapshot) \in Evidence
  BY StampedIs DEF RollupInv, RecordedCounts, TypeOK
<1>3. /\ facts' \in Facts
      /\ \A x \in All : facts.local[x] \subseteq facts'.local[x]
      /\ \A x \in All \ {e} : facts'.local[x] = facts.local[x]
      /\ facts'.edges = facts.edges /\ facts'.sockets = facts.sockets
      /\ facts'.open = facts.open /\ facts'.conflicts = facts.conflicts
  BY <1>1, <1>2 DEF Facts
<1>4. ASSUME NEW id \in All \ dirty'
      PROVE  \A a : evaluate_entity(id, a)' = evaluate_entity(id, a)
  <2>1. id # e
    BY <1>1, <1>4
  <2>2. coherence_contributions(id)' = coherence_contributions(id)
    BY <1>3, CoherenceStays
  <2> QED BY <1>1, <1>3, <2>1, <2>2, OwnFactsDecide
<1> QED BY <1>1, <1>2, <1>3, <1>4, TouchHolds

LEMMA ContradictHolds ==
  ASSUME RollupInv, NEW c \in Conflicts, NEW those \in Disputes, NEW severity \in {Red, Yellow},
         Contradict(c, those, severity)
  PROVE  RollupInv'
<1> DEFINE new == [open |-> TRUE, severity |-> severity]
<1>1. /\ mode = "idle" /\ changes' \in 0 .. MaxChanges
      /\ c \notin DOMAIN facts.conflicts /\ \A x \in All : c \notin facts.open[x]
      /\ those \subseteq All /\ dirty' = dirty \cup those
      /\ UNCHANGED <<entities, snapshot, recorded, green, mode, draft, queue, moved, sound>>
  BY RollupAssumption DEF Contradict, Change, RollupInv, RecordedCounts, TypeOK
<1>2. facts' = [facts EXCEPT
          !.conflicts = [x \in DOMAIN facts.conflicts \cup {c} |->
                            IF x = c THEN new ELSE facts.conflicts[x]],
          !.open = [x \in All |-> IF x \in those THEN facts.open[x] \cup {c} ELSE facts.open[x]]]
  BY DEF Contradict
<1>3. TypeOK /\ facts \in Facts /\ dirty \subseteq All
  BY DEF RollupInv, RecordedCounts, TypeOK
<1>4. new \in [open : BOOLEAN, severity : Codes]
  BY DEF Codes, Red, Yellow, Green
<1> HIDE DEF new
<1>5. /\ facts' \in Facts
      /\ facts'.local = facts.local /\ facts'.edges = facts.edges /\ facts'.sockets = facts.sockets
      /\ \A x \in All \ those : facts'.open[x] = facts.open[x]
      /\ DOMAIN facts'.conflicts = DOMAIN facts.conflicts \cup {c}
      /\ \A d \in DOMAIN facts.conflicts : facts'.conflicts[d] = facts.conflicts[d]
  <2> DEFINE conflicts == [x \in DOMAIN facts.conflicts \cup {c} |-> IF x = c THEN new ELSE facts.conflicts[x]]
             open == [x \in All |-> IF x \in those THEN facts.open[x] \cup {c} ELSE facts.open[x]]
  <2>1. conflicts \in UNION {[C -> [open : BOOLEAN, severity : Codes]] : C \in SUBSET Conflicts}
    <3>1. PICK C \in SUBSET Conflicts : facts.conflicts \in [C -> [open : BOOLEAN, severity : Codes]]
      BY <1>3 DEF Facts
    <3>2. conflicts \in [C \cup {c} -> [open : BOOLEAN, severity : Codes]] /\ C \cup {c} \in SUBSET Conflicts
      BY <1>4, <3>1
    <3> HIDE DEF conflicts
    <3> QED BY <3>2
  <2>2. open \in [All -> SUBSET Conflicts]
    BY <1>3 DEF Facts
  <2>3. facts' = [facts EXCEPT !.conflicts = conflicts, !.open = open]
    BY <1>2
  <2> HIDE DEF conflicts, open
  <2>4. /\ facts' \in Facts /\ facts'.conflicts = conflicts /\ facts'.open = open
        /\ facts'.local = facts.local /\ facts'.edges = facts.edges /\ facts'.sockets = facts.sockets
    BY <1>3, <2>1, <2>2, <2>3 DEF Facts
  <2> QED BY <1>1, <2>4 DEF conflicts, open
<1>6. ASSUME NEW id \in All \ dirty'
      PROVE  \A a : evaluate_entity(id, a)' = evaluate_entity(id, a)
  <2>1. id \notin those
    BY <1>1, <1>6
  <2>2. \A d \in facts.open[id] : d # c
    BY <1>1, <1>6
  <2>3. coherence_contributions(id)' = coherence_contributions(id)
    BY <1>5, <2>1, <2>2, CoherenceStays
  <2> QED BY <1>1, <1>5, <2>3, OwnFactsDecide
<1> QED BY <1>1, <1>3, <1>5, <1>6, TouchHolds

LEMMA ReconcileHolds ==
  ASSUME RollupInv, NEW c \in Conflicts, Reconcile(c)
  PROVE  RollupInv'
<1>1. /\ mode = "idle" /\ changes' \in 0 .. MaxChanges /\ c \in DOMAIN facts.conflicts
      /\ facts' = [facts EXCEPT !.conflicts[c].open = FALSE]
      /\ dirty' = dirty \cup {x \in All : c \in facts.open[x]}
      /\ UNCHANGED <<entities, snapshot, recorded, green, mode, draft, queue, moved, sound>>
  BY RollupAssumption DEF Reconcile, Change, RollupInv, RecordedCounts, TypeOK
<1>2. TypeOK /\ facts \in Facts /\ dirty \subseteq All
  BY DEF RollupInv, RecordedCounts, TypeOK
<1>3. /\ facts' \in Facts
      /\ facts'.local = facts.local /\ facts'.edges = facts.edges /\ facts'.sockets = facts.sockets
      /\ facts'.open = facts.open
      /\ DOMAIN facts'.conflicts = DOMAIN facts.conflicts
      /\ \A d \in DOMAIN facts.conflicts \ {c} : facts'.conflicts[d] = facts.conflicts[d]
  <2> DEFINE conflicts == [facts.conflicts EXCEPT ![c].open = FALSE]
  <2>1. conflicts \in UNION {[C -> [open : BOOLEAN, severity : Codes]] : C \in SUBSET Conflicts}
    <3>1. PICK C \in SUBSET Conflicts : facts.conflicts \in [C -> [open : BOOLEAN, severity : Codes]]
      BY <1>2 DEF Facts
    <3>2. conflicts \in [C -> [open : BOOLEAN, severity : Codes]]
      BY <1>1, <3>1
    <3> HIDE DEF conflicts
    <3> QED BY <3>2
  <2>2. facts' = [facts EXCEPT !.conflicts = conflicts]
    BY <1>1, <1>2 DEF Facts
  <2>3. DOMAIN conflicts = DOMAIN facts.conflicts /\ \A d \in DOMAIN facts.conflicts \ {c} : conflicts[d] = facts.conflicts[d]
    OBVIOUS
  <2> HIDE DEF conflicts
  <2> QED BY <1>2, <2>1, <2>2, <2>3 DEF Facts
<1>4. ASSUME NEW id \in All \ dirty'
      PROVE  \A a : evaluate_entity(id, a)' = evaluate_entity(id, a)
  <2>1. c \notin facts.open[id]
    BY <1>1, <1>4
  <2>2. coherence_contributions(id)' = coherence_contributions(id)
    BY <1>3, <2>1, CoherenceStays
  <2> QED BY <1>1, <1>3, <2>2, OwnFactsDecide
<1> QED BY <1>1, <1>2, <1>3, <1>4, TouchHolds
-----------------------------------------------------------------------------
(* The invariant and what follows from it.                                 *)

LEMMA StutterHolds == RollupInv /\ UNCHANGED vars => RollupInv'
<1> SUFFICES ASSUME RollupInv, UNCHANGED vars PROVE RollupInv'
  OBVIOUS
<1>1. UNCHANGED <<entities, snapshot, facts, recorded, green, mode, draft, queue, moved, dirty, sound, changes>>
  BY DEF vars, history
<1>2. TypeOK /\ All' = All /\ Listed(entities)' /\ Facts' = Facts
  BY <1>1, SameTree DEF RollupInv, RecordedCounts, TypeOK, Facts
<1>3. TypeOK'
  BY <1>1, <1>2 DEF TypeOK
<1>4. RecordedCounts' /\ CleanInv'
  BY <1>1, <1>3, RecordedStays, CleanStays DEF RollupInv
<1>5. \A id, a : evaluate_entity(id, a)' = evaluate_entity(id, a)
  BY <1>1, SameFacts
<1>6. \A id : Consistent(draft, id)' = Consistent(draft, id)
  BY <1>1, <1>5 DEF Consistent
<1>7. FullInv'
  BY <1>1, <1>6, SameTree DEF RollupInv, FullInv
<1>8. WorkInv'
  <2>1. Above(dirty)' = Above(dirty)
    BY <1>1, SameTree
  <2> QED BY <1>1, <1>2, <1>6, <2>1 DEF RollupInv, WorkInv
<1>9. ValidInv'
  BY <1>1 DEF RollupInv, ValidInv
<1> QED BY <1>4, <1>7, <1>8, <1>9 DEF RollupInv

LEMMA NextHolds == RollupInv /\ [Next]_vars => RollupInv'
<1> SUFFICES ASSUME RollupInv, [Next]_vars PROVE RollupInv'
  OBVIOUS
<1>1. CASE evaluate_snapshot
  BY <1>1, StartHolds
<1>2. CASE reconverge
  BY <1>2, ReconvergeHolds
<1>3. CASE Running
  BY <1>3, EvaluateNextHolds, EvaluatedHolds, WorkHolds, ReconvergedHolds DEF Running
<1>4. CASE Edit
  BY <1>4, EditHolds
<1>5. CASE Rescan
  BY <1>5, RescanHolds
<1>6. ASSUME NEW e \in All, NEW f \in Findings,
             Observe(e, f) \/ \E r \in BOOLEAN : EvidenceCommand(e, f, r)
      PROVE  RollupInv'
  BY <1>6, ObserveHolds, EvidenceHolds
<1>7. ASSUME NEW c \in Conflicts,
             \/ \E those \in Disputes, severity \in {Red, Yellow} : Contradict(c, those, severity)
             \/ Reconcile(c)
      PROVE  RollupInv'
  BY <1>7, ContradictHolds, ReconcileHolds
<1>8. CASE UNCHANGED vars
  BY <1>8, StutterHolds
<1> QED BY <1>1, <1>2, <1>3, <1>4, <1>5, <1>6, <1>7, <1>8 DEF Next

\* The inductive invariant holds of every behaviour: in the middle of an evaluation what
\* is left to visit is all that may not be what its facts and its children make of it.
THEOREM RollupInvariant == Spec => []RollupInv
<1>1. Init => RollupInv
  BY InitHolds
<1>2. RollupInv /\ [Next]_vars => RollupInv'
  BY NextHolds
<1> QED BY <1>1, <1>2, PTL DEF Spec

\* Every variable has a value of its type; in between evaluations nothing is half done.
THEOREM TypeCorrect == Spec => []TypeOK
<1>1. RollupInv => TypeOK
  BY DEF RollupInv, RecordedCounts
<1> QED BY <1>1, RollupInvariant, PTL

\* What is recorded for an entity weighs on it, whatever is scanned and loaded since.
THEOREM RecordedEvidenceCounts == Spec => []RecordedCounts
<1>1. RollupInv => RecordedCounts
  BY DEF RollupInv
<1> QED BY <1>1, RollupInvariant, PTL

\* The incremental evaluation leaves what a full one would (green/incremental.rs:3-8).
THEOREM IncrementalIsFull == Spec => []Settled
<1>1. RollupInv => Settled
  BY DEF RollupInv, CleanInv, Settled, Consistent
<1> QED BY <1>1, RollupInvariant, PTL

\* reconverge reports what moved, and nothing that does not lie above a change.
THEOREM ReportIsHonest == Spec => MovedIsHonest
<1> DEFINE Honest == mode = "work" /\ mode' = "idle" =>
                       /\ {id \in All : overall(green'[id]) # overall(green[id])} \subseteq moved
                       /\ moved \subseteq Above(dirty)
<1>1. RollupInv /\ [Next]_vars => [Honest]_vars
  <2> SUFFICES ASSUME RollupInv, Next, mode = "work", mode' = "idle" PROVE Honest
    OBVIOUS
  <2>1. Reconverged
    BY DEF Next, Running, evaluate_snapshot, reconverge, EvaluateNext, Evaluated, Work, Edit, Rescan,
           Observe, EvidenceCommand, Contradict, Reconcile, Change
  <2>2. green' = draft
    BY <2>1 DEF Reconverged
  <2> QED BY <2>2 DEF RollupInv, WorkInv
<1> QED BY <1>1, RollupInvariant, PTL DEF Spec, MovedIsHonest
-----------------------------------------------------------------------------
(* What Green rests on, in whatever order a full evaluation takes entities. *)

\* An assessment is no better than the entity's own evidence makes it, nor than any
\* child that is judged before the entity.
Founded(a, id) ==
    /\ \A axis \in Axes : a[id][axis] <= OwnCode(id, axis)
    /\ \A c \in children_of(id) : Before(c, id) =>
         c \in DOMAIN a /\ a[id]["structure"] <= overall(a[c])

\* So is every assessment but of those on the list of work and those judged by other
\* facts than it was made from.
FoundedInv ==
    /\ DOMAIN green = All => \A id \in All \ dirty : Founded(green, id)
    /\ mode = "full" => \A id \in DOMAIN draft : Founded(draft, id)
    /\ mode = "work" => \A id \in All : (\E i \in 1 .. Len(queue) : queue[i] = id) \/ Founded(draft, id)

\* A judgement rests on the entity's own evidence and on the children at hand.
LEMMA JudgedIsFounded ==
  ASSUME facts \in Facts, NEW id \in All, NEW others,
         \A c \in DOMAIN others : others[c] \in Assessments
  PROVE  /\ \A axis \in Axes : evaluate_entity(id, others)[axis] <= OwnCode(id, axis)
         /\ \A c \in children_of(id) \cap DOMAIN others :
              evaluate_entity(id, others)["structure"] <= overall(others[c])
<1>1. \A axis \in Axes : \A c \in Weights(id, axis, others) :
         evaluate_entity(id, others)[axis] <= c
  BY AssessmentIs
<1>2. \A axis \in Axes : OwnCode(id, axis) \in Weights(id, axis, others)
  BY DEF Weights
<1>3. \A c \in children_of(id) \cap DOMAIN others :
         overall(others[c]) \in Weights(id, "structure", others)
  BY DEF Weights, Contributions
<1> QED BY <1>1, <1>2, <1>3 DEF Axes

\* It stays founded as long as its own evidence is the same.
LEMMA FoundedStays ==
  ASSUME UNCHANGED <<entities, snapshot>>, NEW id, facts'.local[id] = facts.local[id]
  PROVE  \A a : Founded(a, id)' = Founded(a, id)
<1>1. children_of(id)' = children_of(id) /\ \A c : Before(c, id)' = Before(c, id)
  BY DEF children_of, All, Before
<1>2. \A axis : OwnCode(id, axis)' = OwnCode(id, axis)
  BY DEF OwnCode, code_from_evidence
<1> QED BY <1>1, <1>2 DEF Founded

LEMMA FoundedNext ==
  ASSUME RollupInv, FoundedInv, NEW id \in All, EvaluateNext(id)
  PROVE  FoundedInv'
<1>1. /\ mode = "full" /\ mode' = "full" /\ Turn(id)
      /\ draft' = Assessed(draft, id, evaluate_entity(id, draft))
      /\ UNCHANGED <<entities, snapshot, facts, green, dirty>>
  BY DEF EvaluateNext
<1>2. facts \in Facts /\ \A c \in DOMAIN draft : draft[c] \in Assessments
  BY DEF RollupInv, RecordedCounts, TypeOK
<1> DEFINE x == evaluate_entity(id, draft)
<1>3. /\ \A axis \in Axes : x[axis] <= OwnCode(id, axis)
      /\ \A c \in children_of(id) \cap DOMAIN draft : x["structure"] <= overall(draft[c])
  BY <1>2, JudgedIsFounded
<1> HIDE DEF x
<1>4. draft' = Assessed(draft, id, x) /\ id \notin DOMAIN draft
  BY <1>1 DEF x, Turn
<1>5. /\ DOMAIN draft' = DOMAIN draft \cup {id} /\ draft'[id] = x
      /\ \A y \in DOMAIN draft : draft'[y] = draft[y]
  BY <1>4 DEF Assessed
<1>6. ASSUME NEW y \in DOMAIN draft' PROVE Founded(draft', y)
  <2>1. CASE y = id
    <3>1. ASSUME NEW c \in children_of(id), Before(c, id) PROVE c \in DOMAIN draft
      BY <1>1, <3>1 DEF Turn, children_of
    <3> QED BY <1>3, <1>5, <2>1, <3>1 DEF Founded
  <2>2. CASE y # id
    <3>1. Founded(draft, y)
      BY <1>1, <1>5, <2>2 DEF FoundedInv
    <3> QED BY <1>5, <2>2, <3>1 DEF Founded
  <2> QED BY <2>1, <2>2
<1>7. \A a, y : Founded(a, y)' = Founded(a, y)
  BY <1>1, FoundedStays
<1>8. DOMAIN green' = All' => \A y \in All' \ dirty' : Founded(green, y)'
  BY <1>1, <1>7, SameTree DEF FoundedInv
<1>9. \A y \in DOMAIN draft' : Founded(draft, y)'
  BY <1>6, <1>7
<1> QED BY <1>1, <1>8, <1>9 DEF FoundedInv

LEMMA FoundedWork ==
  ASSUME RollupInv, FoundedInv, Work
  PROVE  FoundedInv'
<1> DEFINE id    == Head(queue)
           x     == evaluate_entity(id, draft)
           moves == overall(draft[id]) # overall(x)
<1>1. /\ mode = "work" /\ mode' = "work" /\ queue # <<>>
      /\ draft' = Assessed(draft, id, x) /\ queue' = ToVisit(id, moves)
      /\ UNCHANGED <<entities, snapshot, facts, green, dirty>>
  BY DEF Work
<1>2. /\ facts \in Facts /\ DOMAIN draft = All /\ queue \in Seq(All)
      /\ \A c \in DOMAIN draft : draft[c] \in Assessments
  BY <1>1 DEF RollupInv, RecordedCounts, TypeOK
<1>3. id \in All /\ id = queue[1] /\ moves \in BOOLEAN
  BY <1>1, <1>2
<1>4. /\ \A axis \in Axes : x[axis] <= OwnCode(id, axis)
      /\ \A c \in children_of(id) \cap DOMAIN draft : x["structure"] <= overall(draft[c])
  BY <1>2, <1>3, JudgedIsFounded
<1> HIDE DEF id, x, moves
<1>5. /\ DOMAIN draft' = All /\ draft'[id] = x
      /\ \A y \in All \ {id} : draft'[y] = draft[y]
  BY <1>1, <1>2, <1>3 DEF Assessed
<1>6. /\ \A j \in 2 .. Len(queue) : \E i \in 1 .. Len(queue') : queue'[i] = queue[j]
      /\ moves /\ entities[id].parent \in All
           => \E i \in 1 .. Len(queue') : queue'[i] = entities[id].parent
  BY <1>1, <1>2, <1>3, ToVisitIs
<1>7. ASSUME NEW y \in All, ~ \E i \in 1 .. Len(queue') : queue'[i] = y
      PROVE  Founded(draft', y)
  <2>1. \A c \in children_of(y) : c \in All /\ overall(draft'[c]) = overall(draft[c])
    <3> SUFFICES ASSUME NEW c \in children_of(y)
                 PROVE  c \in All /\ overall(draft'[c]) = overall(draft[c])
      OBVIOUS
    <3>1. c \in All /\ entities[c].parent = y
      BY DEF children_of
    <3>2. CASE c # id
      BY <1>5, <3>1, <3>2
    <3>3. CASE c = id
      <4>1. ~moves
        BY <1>6, <1>7, <3>1, <3>3
      <4> QED BY <1>5, <3>1, <3>3, <4>1 DEF moves
    <3> QED BY <3>2, <3>3
  <2>2. CASE y = id
    BY <1>2, <1>4, <1>5, <2>1, <2>2 DEF Founded
  <2>3. CASE y # id
    <3>1. ~ \E j \in 1 .. Len(queue) : queue[j] = y
      <4> SUFFICES ASSUME NEW j \in 1 .. Len(queue), queue[j] = y PROVE FALSE
        OBVIOUS
      <4>1. j # 1
        BY <1>3, <2>3
      <4>2. j \in 2 .. Len(queue)
        BY <1>2, <4>1
      <4> QED BY <1>6, <1>7, <4>2
    <3>2. Founded(draft, y)
      BY <1>1, <3>1 DEF FoundedInv
    <3> QED BY <1>2, <1>5, <2>1, <2>3, <3>2 DEF Founded
  <2> QED BY <2>2, <2>3
<1>8. \A a, y : Founded(a, y)' = Founded(a, y)
  BY <1>1, FoundedStays
<1>9. DOMAIN green' = All' => \A y \in All' \ dirty' : Founded(green, y)'
  BY <1>1, <1>8, SameTree DEF FoundedInv
<1>10. \A y \in All' : (\E i \in 1 .. Len(queue') : queue'[i] = y) \/ Founded(draft, y)'
  BY <1>1, <1>7, <1>8, SameTree
<1> QED BY <1>1, <1>9, <1>10 DEF FoundedInv

\* Adding to the facts leaves founded what is not named as touched.
LEMMA FoundedTouch ==
  ASSUME FoundedInv, mode' = "idle", dirty \subseteq dirty',
         UNCHANGED <<entities, snapshot, green>>,
         \A id \in All \ dirty' : facts'.local[id] = facts.local[id]
  PROVE  FoundedInv'
<1>1. All' = All
  BY DEF All
<1>2. ASSUME DOMAIN green = All, NEW id \in All \ dirty' PROVE Founded(green, id)'
  <2>1. Founded(green, id)
    BY <1>2 DEF FoundedInv
  <2> QED BY <2>1, FoundedStays
<1> QED BY <1>1, <1>2 DEF FoundedInv

LEMMA FoundedHolds == RollupInv /\ FoundedInv /\ [Next]_vars => FoundedInv'
<1> SUFFICES ASSUME RollupInv, FoundedInv, [Next]_vars PROVE FoundedInv'
  OBVIOUS
<1>1. CASE evaluate_snapshot
  <2>1. /\ mode' = "full" /\ DOMAIN draft' = {}
        /\ UNCHANGED <<entities, snapshot, facts, green, dirty>>
    BY <1>1 DEF evaluate_snapshot, Evaluating, Nothing
  <2>2. \A a, y : Founded(a, y)' = Founded(a, y)
    BY <2>1, FoundedStays
  <2> QED BY <2>1, <2>2, SameTree DEF FoundedInv
<1>2. CASE reconverge
  <2>1. /\ mode' = "work" /\ green # Nothing /\ draft' = green
        /\ UNCHANGED <<entities, snapshot, facts, green, dirty>>
    BY <1>2 DEF reconverge
  <2>2. \A a, y : Founded(a, y)' = Founded(a, y)
    BY <2>1, FoundedStays
  <2>3. DOMAIN green = All
    BY <2>1 DEF RollupInv, RecordedCounts, TypeOK
  <2>4. \A x \in dirty : \E i \in 1 .. Len(queue') : queue'[i] = x
    <3>1. PICK changed \in [1 .. Cardinality(dirty) -> dirty] :
            {changed[i] : i \in DOMAIN changed} = dirty /\ queue' = changed
      BY <1>2 DEF reconverge
    <3>2. Cardinality(dirty) \in Nat
      BY Typed, FS_Subset, FS_CardinalityType DEF RollupInv, RecordedCounts, TypeOK
    <3>3. DOMAIN changed = 1 .. Cardinality(dirty) /\ Len(changed) = Cardinality(dirty)
      BY <3>2
    <3> QED BY <3>1, <3>3
  <2> QED BY <2>1, <2>2, <2>3, <2>4, SameTree DEF FoundedInv
<1>3. CASE Running
  <2>1. ASSUME NEW id \in All, EvaluateNext(id) PROVE FoundedInv'
    BY <2>1, FoundedNext
  <2>2. CASE Evaluated
    <3>1. /\ mode = "full" /\ mode' = "idle" /\ DOMAIN draft = All /\ green' = draft
          /\ UNCHANGED <<entities, snapshot, facts>>
      BY <2>2 DEF Evaluated
    <3>2. \A a, y : Founded(a, y)' = Founded(a, y)
      BY <3>1, FoundedStays
    <3> QED BY <3>1, <3>2, SameTree DEF FoundedInv
  <2>3. CASE Work
    BY <2>3, FoundedWork
  <2>4. CASE Reconverged
    <3>1. /\ mode = "work" /\ mode' = "idle" /\ queue = <<>> /\ green' = draft
          /\ UNCHANGED <<entities, snapshot, facts>>
      BY <2>4 DEF Reconverged
    <3>2. \A a, y : Founded(a, y)' = Founded(a, y)
      BY <3>1, FoundedStays
    <3>3. \A y \in All : Founded(draft, y)
      BY <3>1 DEF FoundedInv
    <3> QED BY <3>1, <3>2, <3>3, SameTree DEF FoundedInv
  <2> QED BY <1>3, <2>1, <2>2, <2>3, <2>4 DEF Running
<1>4. CASE Edit \/ Rescan
  <2>1. mode' = "idle" /\ dirty' = All'
    BY <1>4 DEF Edit, Rescan, Change, All
  <2> QED BY <2>1 DEF FoundedInv
<1>5. ASSUME NEW e \in All, NEW f \in Findings, Observe(e, f) PROVE FoundedInv'
  <2>1. /\ mode' = "idle" /\ dirty' = dirty \cup {e}
        /\ facts' = [facts EXCEPT !.local[e] = @ \cup {Stamped(f, snapshot)}]
        /\ UNCHANGED <<entities, snapshot, green>>
    BY <1>5 DEF Observe, Change
  <2>2. facts \in Facts
    BY DEF RollupInv, RecordedCounts, TypeOK
  <2>3. \A id \in All \ dirty' : facts'.local[id] = facts.local[id]
    BY <2>1, <2>2 DEF Facts
  <2> QED BY <2>1, <2>3, FoundedTouch
<1>6. ASSUME NEW e \in All, NEW f \in Findings, NEW r \in BOOLEAN, EvidenceCommand(e, f, r)
      PROVE  FoundedInv'
  <2>1. mode' = "full" /\ DOMAIN draft' = {} /\ dirty' = All
    BY <1>6 DEF EvidenceCommand, Evaluating, Nothing
  <2>2. entities' = Loaded
    BY <1>6 DEF EvidenceCommand
  <2>3. All' = All
    BY <2>2 DEF All, Loaded
  <2> QED BY <2>1, <2>3 DEF FoundedInv
<1>7. ASSUME NEW c \in Conflicts,
             \/ \E those \in Disputes, severity \in {Red, Yellow} : Contradict(c, those, severity)
             \/ Reconcile(c)
      PROVE  FoundedInv'
  <2>1. /\ mode' = "idle" /\ dirty \subseteq dirty' /\ UNCHANGED <<entities, snapshot, green>>
    BY <1>7 DEF Contradict, Reconcile, Change
  <2>2. facts' = [facts EXCEPT !.conflicts = facts'.conflicts, !.open = facts'.open]
    BY <1>7 DEF Contradict, Reconcile, RollupInv, RecordedCounts, TypeOK, Facts
  <2>3. facts'.local = facts.local
    BY <2>2 DEF RollupInv, RecordedCounts, TypeOK, Facts
  <2> QED BY <2>1, <2>3, FoundedTouch
<1>8. CASE UNCHANGED vars
  <2>1. UNCHANGED <<entities, snapshot, facts, green, mode, draft, queue, dirty>>
    BY <1>8 DEF vars
  <2>2. \A a, y : Founded(a, y)' = Founded(a, y)
    BY <2>1, FoundedStays
  <2> QED BY <2>1, <2>2, SameTree DEF FoundedInv
<1> QED BY <1>1, <1>2, <1>3, <1>4, <1>5, <1>6, <1>7, <1>8 DEF Next

\* Whoever is Green is an entity whose children, as far as it hears of them, are.
LEMMA GreenComesFromBelow ==
  ASSUME facts \in Facts, green \in [All -> Assessments],
         NEW y \in All, entities[y].parent \in All, Before(y, entities[y].parent),
         Founded(green, entities[y].parent), overall(green[y]) # Green
  PROVE  overall(green[entities[y].parent]) # Green
<1> DEFINE p == entities[y].parent
<1>1. overall(green[y]) \in Codes /\ overall(green[p]) <= green[p]["structure"]
      /\ overall(green[p]) \in Codes /\ green[p]["structure"] \in Codes
  BY OverallIs DEF Axes, Assessments
<1>2. green[p]["structure"] <= overall(green[y])
  BY DEF Founded, children_of
<1> QED BY <1>1, <1>2 DEF Codes, Red, Green

LEMMA EarnedHolds == RollupInv /\ FoundedInv => GreenIsEarned
<1> SUFFICES ASSUME RollupInv, FoundedInv, mode = "idle", dirty = {},
                    NEW id \in DOMAIN green, overall(green[id]) = Green,
                    NEW x \in All, id \in HeardBy({x}), NEW axis \in Axes \ {"freshness"}
             PROVE  \E e \in facts.local[x] :
                       /\ e.axis = axis /\ e.outcome = "pass" /\ e.source # "inferred"
                       /\ e.proof >= Floors[entities[x].scale][axis]
                       /\ e.snapshot = snapshot
  BY DEF GreenIsEarned, Earned
<1>1. facts \in Facts /\ green \in [All -> Assessments] /\ green # Nothing
  BY DEF RollupInv, RecordedCounts, TypeOK, Nothing
<1>2. \A y \in All : Founded(green, y)
  BY <1>1 DEF FoundedInv
<1> DEFINE T == {y \in All : overall(green[y]) # Green}
<1>3. ASSUME NEW y \in T, entities[y].parent \in All, Before(y, entities[y].parent)
      PROVE  entities[y].parent \in T
  BY <1>1, <1>2, <1>3, GreenComesFromBelow
<1>4. overall(green[x]) = Green
  <2> SUFFICES ASSUME x \in T PROVE FALSE
    OBVIOUS
  <2>1. T \in SUBSET All /\ {x} \cap All \subseteq T
    OBVIOUS
  <2>2. id \in T
    BY <1>3, <2>1 DEF HeardBy
  <2> QED BY <2>2
<1>5. OwnCode(x, axis) = Green
  <2>1. Green <= green[x][axis] /\ green[x][axis] \in Codes
    BY <1>1, <1>4, OverallIs DEF Assessments
  <2>2. green[x][axis] <= OwnCode(x, axis)
    BY <1>2 DEF Founded
  <2>3. OwnCode(x, axis) \in Codes
    BY CodeIsCode DEF OwnCode, Codes, Red, Green
  <2> QED BY <2>1, <2>2, <2>3 DEF Codes, Red, Green
<1>6. code_from_evidence({e \in facts.local[x] : e.axis = axis}, Floors[entities[x].scale][axis]) = Green
  BY <1>5 DEF OwnCode
<1> QED BY <1>6, GreenIsFound

\* Green is earned, by the entity and by everything it hears of, in whatever order a full
\* evaluation takes them: each has evidence that passes, that is strong enough and that
\* no model inferred.
THEOREM GreenIsEarnedBelow == Spec => []GreenIsEarned
<1>1. Init => FoundedInv
  BY DEF Init, FoundedInv, Nothing, All
<1>2. RollupInv /\ FoundedInv /\ [Next]_vars => FoundedInv'
  BY FoundedHolds
<1>3. RollupInv /\ FoundedInv => GreenIsEarned
  BY EarnedHolds
<1> QED BY <1>1, <1>2, <1>3, RollupInvariant, PTL DEF Spec
=============================================================================
