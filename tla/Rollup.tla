------------------------------- MODULE Rollup -------------------------------
(***************************************************************************)
(* Green: the assessment of every entity of an Atlas from its evidence, its *)
(* relationships, its sockets, its contradictions and its children.        *)
(*                                                                         *)
(* evaluate_snapshot assesses every entity, scale by scale; reconverge only *)
(* those a change can reach, with a list of work.  The `evidence` command   *)
(* records what a tool or a person found, and a rescan builds the facts     *)
(* anew and merges what was recorded for the same snapshot.                *)
(***************************************************************************)
EXTENDS Naturals, Sequences, FiniteSets

CONSTANTS
    Ids,         \* entities
    NoParent,    \* the parent of a root
    Snapshots,   \* hierarchies: [id -> [scale, parent, at, symbol]], at = place in the list
    ByName,      \* the order of names, in which the database lists entities of a scale
    Findings,    \* what may be recorded: evidence without its snapshot
    Ledgers,     \* what may have been recorded for the snapshot at the start
    Conflicts,   \* ids of contradictions
    Disputes,    \* sets of entities a contradiction may be about
    Floors,      \* the policy: Floors[scale][axis] is the weakest proof that counts
    Resolutions, \* what a required socket may be resolved to after an edit
    MaxChanges   \* bound on edits, findings and contradictions

Axes == {"content", "structure", "integration", "verification", "freshness", "coherence"}

\* GreenCode, in its order.
Red == 0
Unknown == 1
Yellow == 2
Green == 3
Codes == Red .. Green

\* ScopeScale::rank
Universe == 0
Moon == 4

Proofs   == 0 .. 7   \* ProofStrength, in its order
Outcomes == {"pass", "warning", "fail"}
Sources  == {"declared", "parsed", "observed", "inferred", "human"}

Finding == [axis : Axes, outcome : Outcomes, proof : Proofs, source : Sources]

ASSUME RollupAssumption ==
    /\ NoParent \notin Ids /\ IsFiniteSet(Ids)
    /\ \A t \in Snapshots :
         /\ DOMAIN t \subseteq Ids
         /\ t \in [DOMAIN t -> [scale : Universe .. Moon, parent : Ids \cup {NoParent},
                                at : 1 .. Cardinality(Ids), symbol : BOOLEAN]]
         /\ \A a, b \in DOMAIN t : t[a].at = t[b].at => a = b
    /\ ByName \in [Ids -> 1 .. Cardinality(Ids)]
    /\ \A a, b \in Ids : ByName[a] = ByName[b] => a = b
    /\ Findings \subseteq Finding
    /\ \A ledger \in Ledgers : ledger \subseteq [entity : Ids, finding : Finding]
    /\ Floors \in [Universe .. Moon -> [Axes -> Proofs]]
    /\ Resolutions \subseteq {"unresolved", "no_match", "ambiguous", "rejected",
                              "unconfirmed", "confirmed"}
    /\ Disputes \subseteq SUBSET Ids
    /\ MaxChanges \in Nat

VARIABLES
    entities,  \* the hierarchy in hand
    snapshot,  \* its id; evidence of another one is stale
    facts,     \* what entities are judged by: evidence, sockets, contradictions
    recorded,  \* evidence.json: [entity, evidence]
    green,     \* the assessments in the snapshot
    mode,      \* "idle"; "full": evaluate_snapshot; "work": reconverge
    draft,     \* the assessments made so far
    queue,     \* reconverge's list of work
    moved,     \* entities whose overall code moved
    dirty,     \* entities judged by other facts than their assessment was made from
    sound,     \* history: the last full evaluation took every child before its parent
    changes    \* edits, findings and contradictions so far

history == <<sound, changes>>
vars    == <<entities, snapshot, facts, recorded, green, mode, draft, queue, moved, dirty, history>>

Nothing  == [x \in {} |-> {}]   \* a map without an entry
All      == DOMAIN entities
Evidence == [axis : Axes, outcome : Outcomes, proof : Proofs, source : Sources, snapshot : Nat]

Proof(axis, outcome, proof, source, id) ==
    [axis |-> axis, outcome |-> outcome, proof |-> proof, source |-> source, snapshot |-> id]

Stamped(f, id) == Proof(f.axis, f.outcome, f.proof, f.source, id)
-----------------------------------------------------------------------------
(* The hierarchy.                                                          *)

children_of(id) == {c \in All : entities[c].parent = id}

\* A set of entities with everything above it.
Above(S) == {x \in All : \A T \in SUBSET All :
                (S \cap All \subseteq T /\ \A y \in T : entities[y].parent \in T \cup {NoParent})
                    => x \in T}

allowed(parent, child) ==
    <<parent, child>> \in {<<0, 1>>, <<1, 2>>, <<1, 3>>, <<2, 2>>, <<2, 3>>, <<3, 4>>, <<4, 4>>}

\* One universe without a parent; every other entity below one of a scale that may
\* hold it; and no circle.
from_entities(tree) ==
    LET all   == DOMAIN tree
        roots == {e \in all : tree[e].scale = Universe /\ tree[e].parent = NoParent}
    IN /\ Cardinality(roots) = 1
       /\ \A e \in all \ roots :
            /\ tree[e].parent \in all
            /\ allowed(tree[tree[e].parent].scale, tree[e].scale)
       /\ \A S \in (SUBSET all) \ {{}} : ~ \A e \in S : tree[e].parent \in S

\* The order of a full evaluation: small scales first, entities of a scale in the
\* order of the list (the sort is stable).
Before(a, b) ==
    \/ entities[a].scale > entities[b].scale
    \/ entities[a].scale = entities[b].scale /\ entities[a].at < entities[b].at

\* It takes every child before its parent: no symbol is listed after its file.
ChildrenFirst == \A c \in All : entities[c].parent \in All => Before(c, entities[c].parent)
-----------------------------------------------------------------------------
(* The assessment of one entity.                                           *)

weakest(codes) == CHOOSE c \in codes : \A d \in codes : c <= d

\* Mutant: what a model inferred may turn an axis Green.
code_from_evidenceInferred(evidence, floor) ==
    LET fresh == {e \in evidence : e.snapshot = snapshot}
        Says(outcome) == \E e \in fresh : e.outcome = outcome
    IN IF fresh = {} THEN Unknown
       ELSE IF Says("fail") THEN Red
       ELSE IF Says("warning") THEN Yellow
       ELSE IF Says("pass") THEN Green
       ELSE Unknown

code_from_evidence(evidence, floor) ==
    LET fresh == {e \in evidence : e.snapshot = snapshot}
        Says(outcome) == \E e \in fresh : e.outcome = outcome
    IN IF fresh = {} THEN Unknown
       ELSE IF Says("fail") THEN Red
       ELSE IF Says("warning") THEN Yellow
       ELSE IF \E e \in fresh : /\ e.outcome = "pass" /\ e.proof >= floor
                                /\ e.source # "inferred" THEN Green
       ELSE Unknown

\* What a required socket that is not optional adds to the integration axis; a confirmed
\* one adds nothing, and Green lowers nothing.
socket_contributions ==
    [unresolved |-> Unknown, no_match |-> Red, ambiguous |-> Yellow,
     rejected |-> Red, unconfirmed |-> Yellow, confirmed |-> Green]

\* What the open contradictions of an entity add to the coherence axis; an id that
\* names no contradiction of the snapshot adds nothing.
coherence_contributions(id) ==
    {facts.conflicts[c].severity :
        c \in {d \in facts.open[id] \cap DOMAIN facts.conflicts : facts.conflicts[d].open}}

\* What weighs on an axis beside the entity's own evidence.
Contributions(id, axis, children) ==
    IF axis = "structure" THEN children
    ELSE IF axis = "integration"
    THEN {code_from_evidence(e, Floors[entities[id].scale][axis]) : e \in facts.edges[id]}
         \cup {socket_contributions[r] : r \in facts.sockets[id]}
    ELSE IF axis = "coherence" THEN coherence_contributions(id)
    ELSE {}

\* Every entity of a snapshot is stamped with the snapshot's id.
OwnCode(id, axis) ==
    IF axis = "freshness" THEN Green
    ELSE code_from_evidence({e \in facts.local[id] : e.axis = axis},
                            Floors[entities[id].scale][axis])

overall(assessment) == weakest({assessment[axis] : axis \in Axes})

\* evaluate_entity, given the assessments of others that are at hand.
evaluate_entity(id, others) ==
    LET children == {overall(others[c]) : c \in children_of(id) \cap DOMAIN others}
    IN [axis \in Axes |-> weakest({OwnCode(id, axis)} \cup Contributions(id, axis, children))]

Assessed(a, id, assessment) == [x \in DOMAIN a \cup {id} |-> IF x = id THEN assessment ELSE a[x]]
-----------------------------------------------------------------------------
(* What entities are judged by.                                            *)

\* The evidence recorded for entity e of snapshot id.
Recorded(e, id) == {r.evidence : r \in {q \in recorded : q.entity = e /\ q.evidence.snapshot = id}}

\* Mutant: nothing is merged below the planets.
merge_recorded_evidenceGroups(tree, id, e) == IF tree[e].scale = Moon THEN {} ELSE Recorded(e, id)

\* A scan merges it before the symbols are there.
merge_recorded_evidence(tree, id, e) == IF tree[e].symbol THEN {} ELSE Recorded(e, id)

\* The facts of a tree that has just been scanned and parsed: content and structure
\* are there, what contains something says so, nothing else is known.
Scanned(tree, id, sockets) ==
    LET parsed(e)   == {Proof(axis, "pass", IF tree[e].symbol THEN 2 ELSE 1, "parsed", id) :
                            axis \in {"content", "structure"}}
        contains(e) == {{Proof("integration", "pass", 1, "parsed", id)} :
                            c \in {d \in DOMAIN tree : tree[d].parent = e /\ ~tree[d].symbol}}
    IN [local     |-> [e \in DOMAIN tree |-> parsed(e) \cup merge_recorded_evidence(tree, id, e)],
        edges     |-> [e \in DOMAIN tree |-> contains(e)],
        sockets   |-> sockets,
        open      |-> [e \in DOMAIN tree |-> {}],
        conflicts |-> Nothing]

\* Sockets that files of a tree may have after an edit.
Sockets(tree) ==
    [DOMAIN tree -> {{}}] \cup
    {[e \in DOMAIN tree |-> IF e = f THEN {r} ELSE {}] :
        f \in {e \in DOMAIN tree : tree[e].scale = Moon /\ ~tree[e].symbol}, r \in Resolutions}

Init ==
    /\ entities \in Snapshots
    /\ snapshot = 0
    /\ \E ledger \in Ledgers :
         recorded = {[entity |-> r.entity, evidence |-> Stamped(r.finding, 0)] : r \in ledger}
    /\ facts = Scanned(entities, 0, [e \in All |-> {}])
    /\ green = Nothing
    /\ mode = "idle"
    /\ draft = Nothing
    /\ queue = <<>>
    /\ moved = {}
    /\ dirty = All
    /\ sound = FALSE
    /\ changes = 0
-----------------------------------------------------------------------------
(* Actions.                                                                *)

Change == mode = "idle" /\ changes < MaxChanges /\ changes' = changes + 1

\* A full evaluation begins: nothing of the last one is used.
Evaluating ==
    /\ mode' = "full"
    /\ draft' = Nothing

\* `index` or the service, after an edit: a new snapshot, perhaps of another shape ...
Edit ==
    /\ Change
    /\ \E tree \in {t \in Snapshots : from_entities(t)} : \E sockets \in Sockets(tree) :
        /\ entities' = tree
        /\ facts' = Scanned(tree, snapshot + 1, sockets)
        /\ dirty' = DOMAIN tree
    /\ snapshot' = snapshot + 1
    /\ green' = Nothing
    /\ moved' = {}
    /\ UNCHANGED <<recorded, mode, draft, queue, sound>>

\* ... or of the same tree: the same snapshot, its facts built anew.
Rescan ==
    /\ Change
    /\ facts' = Scanned(entities, snapshot, facts.sockets)
    /\ dirty' = All
    /\ green' = Nothing
    /\ moved' = {}
    /\ UNCHANGED <<entities, snapshot, recorded, mode, draft, queue, sound>>

\* The database lists entities by scale, then by name, and keeps no contradiction.
Loaded == [e \in All |-> [entities[e] EXCEPT !.at = ByName[e]]]

\* `evidence`, for one entity or for all it contains: the snapshot is loaded, the
\* finding recorded in the place of an older one, added to the entity, and the whole
\* snapshot is evaluated.
EvidenceCommand(e, finding, recursive) ==
    /\ Change
    /\ green # Nothing
    /\ LET targets == IF recursive THEN {x \in All : e \in Above({x})} ELSE {e}
           stamped == Stamped(finding, snapshot)
           replaced == {r \in recorded : /\ r.entity \in targets
                                         /\ r.evidence.axis = finding.axis
                                         /\ r.evidence.snapshot = snapshot}
       IN /\ recorded' = (recorded \ replaced) \cup {[entity |-> x, evidence |-> stamped] : x \in targets}
          /\ facts' = [facts EXCEPT !.conflicts = Nothing,
                           !.local = [x \in All |-> IF x \in targets THEN @[x] \cup {stamped} ELSE @[x]]]
          /\ dirty' = All
    /\ entities' = Loaded
    /\ Evaluating
    /\ UNCHANGED <<snapshot, green, queue, moved, sound>>

\* Whoever holds a snapshot adds evidence to an entity ...
Observe(e, finding) ==
    /\ Change
    /\ facts' = [facts EXCEPT !.local[e] = @ \cup {Stamped(finding, snapshot)}]
    /\ dirty' = dirty \cup {e}
    /\ UNCHANGED <<entities, snapshot, recorded, green, mode, draft, queue, moved, sound>>

\* ... records a contradiction between some entities, under an id of its own ...
Contradict(c, those, severity) ==
    /\ Change
    /\ those \subseteq All
    /\ c \notin DOMAIN facts.conflicts \cup UNION {facts.open[x] : x \in All}
    /\ facts' = [facts EXCEPT
          !.conflicts = [x \in DOMAIN @ \cup {c} |-> IF x = c THEN [open |-> TRUE, severity |-> severity] ELSE @[x]],
          !.open = [x \in All |-> IF x \in those THEN @[x] \cup {c} ELSE @[x]]]
    /\ dirty' = dirty \cup those
    /\ UNCHANGED <<entities, snapshot, recorded, green, mode, draft, queue, moved, sound>>

\* ... or settles one.
Reconcile(c) ==
    /\ Change
    /\ c \in DOMAIN facts.conflicts /\ facts.conflicts[c].open
    /\ facts' = [facts EXCEPT !.conflicts[c].open = FALSE]
    /\ dirty' = dirty \cup {x \in All : c \in facts.open[x]}
    /\ UNCHANGED <<entities, snapshot, recorded, green, mode, draft, queue, moved, sound>>

\* A hierarchy that does not validate is not evaluated.
evaluate_snapshot ==
    /\ mode = "idle" /\ dirty # {}
    /\ from_entities(entities)
    /\ Evaluating
    /\ UNCHANGED <<entities, snapshot, facts, recorded, green, queue, moved, dirty, history>>

\* Its loop: the next entity in the order, judged with the children assessed so far.
Turn(id) == id \in All \ DOMAIN draft /\ ~ \E x \in All \ DOMAIN draft : Before(x, id)

EvaluateNext(id) ==
    /\ mode = "full" /\ Turn(id)
    /\ draft' = Assessed(draft, id, evaluate_entity(id, draft))
    /\ UNCHANGED <<entities, snapshot, facts, recorded, green, mode, queue, moved, dirty, history>>

Evaluated ==
    /\ mode = "full" /\ DOMAIN draft = All
    /\ green' = draft
    /\ mode' = "idle"
    /\ draft' = Nothing
    /\ dirty' = {}
    /\ moved' = {}
    /\ sound' = ChildrenFirst
    /\ UNCHANGED <<entities, snapshot, facts, recorded, queue, changes>>

\* reconverge, told in some order which entities are judged by other facts.
reconverge ==
    /\ mode = "idle" /\ dirty # {} /\ green # Nothing
    /\ from_entities(entities)
    /\ \E changed \in [1 .. Cardinality(dirty) -> dirty] :
        /\ {changed[i] : i \in DOMAIN changed} = dirty
        /\ queue' = changed
    /\ mode' = "work"
    /\ draft' = green
    /\ moved' = {}
    /\ UNCHANGED <<entities, snapshot, facts, recorded, green, dirty, history>>

\* Mutant: the loop stops at the entity that moved.
ToVisitStops(id, moves) == Tail(queue)

\* Mutant: the entity stays on the list.
ToVisitPeeks(id, moves) == IF moves THEN queue ELSE Tail(queue) \o <<id>>

\* What is left to visit after the first entity of the list: its parent is next only if
\* its overall code moves.
ToVisit(id, moves) ==
    Tail(queue) \o (IF moves /\ entities[id].parent \in All THEN <<entities[id].parent>> ELSE <<>>)

\* Mutant: what has no parent is not reported.
ReportBelowRoot(id, moves) == IF moves /\ entities[id].parent \in All THEN moved \cup {id} ELSE moved

Report(id, moves) == IF moves THEN moved \cup {id} ELSE moved

\* Its loop: the first entity of the list is judged anew.
Work ==
    /\ mode = "work" /\ queue # <<>>
    /\ LET id == Head(queue)
           assessment == evaluate_entity(id, draft)
           moves == overall(draft[id]) # overall(assessment)
       IN /\ draft' = Assessed(draft, id, assessment)
          /\ queue' = ToVisit(id, moves)
          /\ moved' = Report(id, moves)
    /\ UNCHANGED <<entities, snapshot, facts, recorded, green, mode, dirty, history>>

Reconverged ==
    /\ mode = "work" /\ queue = <<>>
    /\ green' = draft
    /\ mode' = "idle"
    /\ draft' = Nothing
    /\ dirty' = {}
    /\ UNCHANGED <<entities, snapshot, facts, recorded, queue, moved, history>>

Running == (\E id \in All : EvaluateNext(id)) \/ Evaluated \/ Work \/ Reconverged

Next ==
    \/ evaluate_snapshot \/ reconverge
    \/ Running
    \/ Edit
    \/ Rescan
    \/ \E e \in All, f \in Findings : Observe(e, f) \/ \E r \in BOOLEAN : EvidenceCommand(e, f, r)
    \/ \E c \in Conflicts : \/ \E those \in Disputes, severity \in {Red, Yellow} : Contradict(c, those, severity)
                            \/ Reconcile(c)

Spec     == Init /\ [][Next]_vars
LiveSpec == Spec /\ WF_vars(Running)
-----------------------------------------------------------------------------
(* Properties.                                                             *)

Assessments == [Axes -> Codes]
Facts == [local : [All -> SUBSET Evidence], edges : [All -> SUBSET SUBSET Evidence],
          sockets : [All -> SUBSET DOMAIN socket_contributions], open : [All -> SUBSET Conflicts],
          conflicts : UNION {[C -> [open : BOOLEAN, severity : Codes]] : C \in SUBSET Conflicts}]

\* A tree is one of the hierarchies, perhaps listed in another order.
Listed(tree) ==
    \E t \in Snapshots :
        /\ DOMAIN t = DOMAIN tree
        /\ \A e \in DOMAIN tree : \E n \in 1 .. Cardinality(Ids) : tree[e] = [t[e] EXCEPT !.at = n]

\* Every variable has a value of its type; in between evaluations nothing is half done.
TypeOK ==
    /\ Listed(entities)
    /\ snapshot \in Nat
    /\ facts \in Facts
    /\ recorded \subseteq [entity : Ids, evidence : Evidence]
    /\ green \in [All -> Assessments] \cup {Nothing}
    /\ DOMAIN draft \subseteq All /\ draft \in [DOMAIN draft -> Assessments]
    /\ mode \in {"idle", "full", "work"}
    /\ mode = "idle" => draft = Nothing
    /\ mode = "work" => DOMAIN draft = All
    /\ queue \in Seq(All)
    /\ mode # "work" => queue = <<>>
    /\ moved \subseteq All /\ dirty \subseteq All
    /\ sound \in BOOLEAN
    /\ changes \in 0 .. MaxChanges

\* What evaluate_snapshot leaves, and reconverge after it however often, is what every
\* entity's own facts and its children's assessments make of it - provided the full
\* evaluation took children before their parents.  There is one such assignment for a
\* hierarchy, so the incremental one is the full one (green/incremental.rs:3-8).
Settled ==
    mode = "idle" /\ dirty = {} /\ sound
        => \A id \in All : green[id] = evaluate_entity(id, green)

\* An entity has on every axis but freshness evidence of this snapshot that passes, that
\* is strong enough and that no model inferred.
Earned(id) ==
    \A axis \in Axes \ {"freshness"} : \E e \in facts.local[id] :
        /\ e.axis = axis /\ e.outcome = "pass" /\ e.source # "inferred"
        /\ e.proof >= Floors[entities[id].scale][axis]
        /\ e.snapshot = snapshot

\* A set of entities with everything above it that is judged after what it contains:
\* a file listed before its symbols (as every index lists them) does not hear of them,
\* nor a system of a system listed after it; every coarser scale hears of both.
HeardBy(S) == {x \in All : \A T \in SUBSET All :
                  (/\ S \cap All \subseteq T
                   /\ \A y \in T : entities[y].parent \in All /\ Before(y, entities[y].parent)
                                      => entities[y].parent \in T)
                      => x \in T}

\* At rest, an entity is Green only on evidence of its own and of everything it hears
\* of, however deep - also where a full evaluation took a file before its symbols: the
\* file is then Green on its own evidence, whatever the symbols are, and the scales
\* above it on the file's.
GreenIsEarned ==
    mode = "idle" /\ dirty = {}
        => \A id \in DOMAIN green : overall(green[id]) = Green =>
             \A x \in All : id \in HeardBy({x}) => Earned(x)

\* reconverge reports every entity whose overall code moved, and none but those it was
\* told of and those above them.
MovedIsHonest ==
    [][mode = "work" /\ mode' = "idle" =>
         /\ {id \in All : overall(green'[id]) # overall(green[id])} \subseteq moved
         /\ moved \subseteq Above(dirty)]_vars

\* What is recorded for an entity of this snapshot weighs on it, also after a rescan,
\* unless it is a symbol.
RecordedCounts ==
    /\ TypeOK
    /\ \A r \in recorded :
          r.evidence.snapshot = snapshot /\ r.entity \in All /\ ~entities[r.entity].symbol
              => r.evidence \in facts.local[r.entity]

\* An evaluation that has begun comes to an end.
EvaluationEnds == (mode # "idle") ~> (mode = "idle")
=============================================================================
