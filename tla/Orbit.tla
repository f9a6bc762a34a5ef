-------------------------------- MODULE Orbit --------------------------------
(***************************************************************************)
(* The Orbit: the part of an Atlas that a task is given to read, within a   *)
(* budget of tokens.                                                       *)
(*                                                                         *)
(* compile_orbit picks where to start, zooms to the scale asked for, walks  *)
(* the module map around it, selects, and enforce_budget takes the lowest   *)
(* ranked content away until the packet fits, or refuses and names the      *)
(* budget it would take; a caller may come back with that budget.           *)
(***************************************************************************)
EXTENDS Integers, Sequences, FiniteSets, FiniteSetsExt, SequencesExt

CONSTANTS
    Ids,         \* ids of entities, ordered as the code orders them
    NoId,        \* a reference without an id, the parent of a universe
    Snapshots,   \* what the database may hold
    Requests,    \* what may be asked
    Values,      \* what entities declare: capabilities, purposes, risks, uncertainty
    Cost,        \* tokens of an entity before its estimate is written into it
    Digits,      \* what writing the estimate adds
    EdgeCost,    \* tokens of a relationship
    EdgeDigits,  \* what writing its estimate adds
    Envelope,    \* tokens of the packet around its contents (120)
    MaxStarts    \* entities a task's words may start from (8)

\* ScopeScale::rank; Adaptive is the OrbitScale that is none of them.
Universe == 0
System   == 2
Planet   == 3
Moon     == 4
Scales   == Universe .. Moon
Adaptive == 5

Fields     == {"purpose", "capabilities", "summary", "verification", "decisions", "risks", "uncertainty",
               "none"}
Dimensions == {"purpose", "responsibility", "capabilities", "interfaces", "architecture",
               "implementation", "verification", "decisions", "risks", "dependencies"}

Edge == [id : Nat, source : Ids, target : Ids, inferred : BOOLEAN]
Item == [mandatory : BOOLEAN, score : Int, tokens : Nat]

ASSUME OrbitAssumption ==
    /\ Ids \subseteq Nat
    /\ NoId \notin Ids
    /\ \A s \in Snapshots :
         /\ DOMAIN s.tree \subseteq Ids
         /\ IsFiniteSet(DOMAIN s.tree)
         /\ s.first \in DOMAIN s.tree
         /\ \A x \in DOMAIN s.tree :
              /\ s.tree[x].scale \in Scales
              /\ s.tree[x].parent \in DOMAIN s.tree \cup {NoId}
              /\ s.tree[x].parent \in Ids => s.tree[s.tree[x].parent].scale <= s.tree[x].scale
              /\ s.said[x] \in [Fields -> SUBSET Values]
         /\ IsFiniteSet(s.edges)
         /\ s.edges \subseteq Edge
         /\ \A e, f \in s.edges : e.id = f.id => e = f
    /\ \A r \in Requests :
         /\ r.mode \in {"focus", "compare"}
         /\ r.scale \in Scales \cup {Adaptive}
         /\ r.targets \in Seq(Ids \cup {NoId})
         /\ r.exclusions \subseteq Ids
         /\ r.depth \in Nat
         /\ r.inferred \in BOOLEAN
         /\ \A x \in Ids : r.matched[x] \in Nat
         /\ r.dimensions \subseteq Dimensions
         /\ r.budget \in Nat
    /\ \A x \in Ids : Cost[x] \in Nat \ {0} /\ Digits[x] \in 0 .. 1
    /\ EdgeCost \in Nat \ {0}
    /\ EdgeDigits \in 0 .. 1
    /\ Envelope \in Nat
    /\ MaxStarts \in Nat

VARIABLES
    snapshot,      \* what was loaded
    request,       \* what is asked
    budget,        \* token_budget: the request's, then what the error named
    phase,         \* "asked", "walk", "budget"; "done", "refused" or "invalid" at the end
    queue,         \* entities the walk has still to visit, with their depth
    depths,        \* entities reached, with their depth
    edges,         \* relationships met
    selected,      \* entities in the packet, as Items
    spine,         \* what lies above the roots
    links,         \* relationships in the packet, with their estimates
    comparison,    \* of the two sides
    total,         \* estimated_total_tokens
    omissions,     \* omission_counts
    minimum,       \* minimum_required_tokens, of the packet or of the refusal
    omitted,       \* history: what was taken away
    again          \* history: the caller came back with the budget it was told

walked  == <<queue, depths, edges>>
packet  == <<selected, spine, links, comparison, total, omissions, minimum>>
vars    == <<snapshot, request, budget, phase, walked, packet, omitted, again>>

Nothing == [x \in {} |-> 0]
Known   == DOMAIN snapshot.tree

\* The members of a finite set, each after all that come before it.
InOrder(S, before) ==
    [i \in 1 .. Cardinality(S) |-> CHOOSE x \in S : Cardinality(before[x]) = i - 1]

Ascending(S) == InOrder(S, [x \in S |-> {y \in S : y < x}])

\* What a sequence has in the places I.
Picked(seq, I) == LET places == Ascending(I) IN [k \in 1 .. Cardinality(I) |-> seq[places[k]]]

\* Whose entry is there first stays: `or_insert`.
FirstOf(f, g) ==
    [x \in DOMAIN f \cup DOMAIN g |-> IF x \in DOMAIN f THEN f[x] ELSE g[x]]

Total(f) == MapThenSumSet(LAMBDA x : f[x], DOMAIN f)
-----------------------------------------------------------------------------
(* The hierarchy and the module map.                                       *)

scale(id)       == snapshot.tree[id].scale
children_of(id) == {c \in Known : snapshot.tree[c].parent = id}

ancestors_of(id) ==
    LET above[x \in Known] == LET parent == snapshot.tree[x].parent IN
                              IF parent \in Known THEN {parent} \cup above[parent] ELSE {}
    IN above[id] \cap Known

descendants_of(id) == {x \in Known : id \in ancestors_of(x)}

Followed(e) == request.inferred \/ ~ e.inferred
outgoing(id) == {e \in snapshot.edges : e.source = id /\ Followed(e)}
incoming(id) == {e \in snapshot.edges : e.target = id /\ Followed(e)}

ById(es) == InOrder(es, [e \in es |-> {f \in es : f.id < e.id}])

\* The relationships of an entity in the order the walk takes them.
Around(id) == ById(outgoing(id)) \o ById(incoming(id))

Beyond(e, id) == IF e.source = id THEN e.target ELSE e.source
-----------------------------------------------------------------------------
(* Where an Orbit starts.                                                  *)

Targets == Picked(request.targets, {i \in DOMAIN request.targets : request.targets[i] # NoId})
Sides   == {Targets[i] : i \in DOMAIN Targets \cap 1 .. 2}

\* A comparison without two entities to compare is refused at once.
Comparable == Len(Targets) >= 2 /\ Sides \subseteq Known

\* The better answer to the words of the task: more of them, then the smaller id.
Better(a, b) ==
    \/ request.matched[a] > request.matched[b]
    \/ request.matched[a] = request.matched[b] /\ a < b

\* In the order they are named, or the best answers to the words of the task.
choose_starts ==
    IF request.mode = "compare" \/ request.targets # <<>>
    THEN Targets
    ELSE LET matching == {x \in Known : request.matched[x] > 0}
             best == InOrder(matching, [x \in matching |-> {y \in matching : Better(y, x)}])
         IN [i \in DOMAIN best \cap 1 .. MaxStarts |-> best[i]]

\* From one entity to those of the scale asked for: itself, what holds it (the
\* outermost, where systems are nested), or all of what it holds.
ZoomedFrom(id) ==
    LET above == {a \in ancestors_of(id) : scale(a) = request.scale}
    IN IF scale(id) = request.scale THEN {id}
       ELSE IF scale(id) > request.scale
       THEN {a \in above : ancestors_of(a) \cap above = {}}
       ELSE {d \in descendants_of(id) : scale(d) = request.scale}

zoom_roots ==
    IF request.scale = Adaptive THEN ToSet(choose_starts)
    ELSE UNION {ZoomedFrom(id) : id \in ToSet(choose_starts) \cap Known}

Roots == LET zoomed == zoom_roots IN IF zoomed = {} THEN {snapshot.first} ELSE zoomed

\* Starts that are not zoomed keep their order, and may be named twice.
RootList ==
    LET starts == choose_starts
    IN IF request.scale = Adaptive /\ starts # <<>> THEN starts ELSE Ascending(Roots)

immediate_scale_contents(root) ==
    CASE scale(root) <= System -> children_of(root)
      [] scale(root) = Planet  -> {d \in descendants_of(root) : scale(d) = Moon}
      [] scale(root) = Moon    -> {}
-----------------------------------------------------------------------------
(* Comparison of two entities.                                             *)

Usual == {"purpose", "capabilities", "architecture", "verification", "decisions", "risks"}

FieldOf(dimension) ==
    CASE dimension \in {"purpose", "responsibility"}       -> "purpose"
      [] dimension \in {"capabilities", "interfaces"}      -> "capabilities"
      [] dimension \in {"architecture", "implementation"}  -> "summary"
      [] dimension = "dependencies"                        -> "none"
      [] dimension \in {"verification", "decisions", "risks"} -> dimension

values(id, dimension) ==
    IF FieldOf(dimension) = "none" THEN {} ELSE snapshot.said[id][FieldOf(dimension)]

compare_entities(left, right) ==
    LET dims    == IF request.dimensions = {} THEN Usual ELSE request.dimensions
        L(d)    == values(left, d)
        R(d)    == values(right, d)
        Each(S(_)) == UNION {{<<d, v>> : v \in S(d)} : d \in dims}
        Both(d) == L(d) \cap R(d)
        OnlyL(d) == L(d) \ R(d)
        OnlyR(d) == R(d) \ L(d)
    IN [left        |-> left,
        right       |-> right,
        matches     |-> Each(Both),
        left_only   |-> Each(OnlyL),
        right_only  |-> Each(OnlyR),
        differences |-> {d \in dims : L(d) # {} /\ R(d) # {} /\ L(d) # R(d)},
        unresolved  |-> {d \in dims : L(d) = {} /\ R(d) = {}}]

NoComparison == [left |-> NoId, right |-> NoId, matches |-> {}, left_only |-> {},
                 right_only |-> {}, differences |-> {}, unresolved |-> {}]
-----------------------------------------------------------------------------
(* The request, and the walk of the module map: breadth first, from all     *)
(* roots at once.                                                          *)

EmptyPacket ==
    /\ selected = Nothing /\ spine = {} /\ links = Nothing /\ comparison = NoComparison
    /\ total = 0 /\ omissions = [k \in {"moon", "planet", "system", "entity"} |-> 0]
    /\ minimum = 0

Init ==
    /\ snapshot \in Snapshots
    /\ request \in Requests
    /\ budget = request.budget
    /\ phase = "asked"
    /\ queue = <<>> /\ depths = Nothing /\ edges = {}
    /\ EmptyPacket
    /\ omitted = Nothing
    /\ again = FALSE

Ask ==
    /\ phase = "asked"
    /\ request.mode = "compare" => Comparable
    /\ phase' = "walk"
    /\ LET list == RootList IN queue' = [i \in DOMAIN list |-> <<list[i], 0>>]
    /\ depths' = [r \in Roots |-> 0]
    /\ UNCHANGED <<snapshot, request, budget, edges, packet, omitted, again>>

MissingComparisonEntities ==
    /\ phase = "asked"
    /\ request.mode = "compare"
    /\ ~ Comparable
    /\ phase' = "invalid"
    /\ UNCHANGED <<snapshot, request, budget, walked, packet, omitted, again>>

\* The entities a visit reaches first, in the order of the relationships.
Fresh(id) ==
    LET around == Around(id)
        beyond == [i \in DOMAIN around |-> Beyond(around[i], id)]
        first  == {i \in DOMAIN beyond : /\ beyond[i] \notin DOMAIN depths
                                         /\ \A j \in 1 .. i - 1 : beyond[j] # beyond[i]}
    IN Picked(beyond, first)

\* Mutant: the newest is visited first.
EnqueuedFirst(id, depth, found) ==
    [i \in DOMAIN found |-> <<found[i], depth + 1>>] \o Tail(queue)

\* Mutant: who is visited stays in the queue.
EnqueuedPeeks(id, depth, found) == queue \o [i \in DOMAIN found |-> <<found[i], depth + 1>>]

\* The queue after a visit to `id` at `depth` that reached `found`.
Enqueued(id, depth, found) == Tail(queue) \o [i \in DOMAIN found |-> <<found[i], depth + 1>>]

Visit ==
    /\ phase = "walk"
    /\ queue # <<>>
    /\ LET id    == Head(queue)[1]
           depth == Head(queue)[2]
           found == IF depth >= request.depth THEN <<>> ELSE Fresh(id)
       IN /\ queue' = Enqueued(id, depth, found)
          /\ depths' = FirstOf(depths, [x \in ToSet(found) |-> depth + 1])
          /\ edges' = edges \cup (IF depth >= request.depth THEN {} ELSE ToSet(Around(id)))
    /\ UNCHANGED <<snapshot, request, budget, phase, packet, omitted, again>>
-----------------------------------------------------------------------------
(* The selection.                                                          *)

Chosen(mandatory, score) == [mandatory |-> mandatory, score |-> score, tokens |-> 0]

\* Mutant: what is to be left out stays in the spine.
SpineWhole == UNION {ancestors_of(r) : r \in Roots \cap Known}

Spine == (UNION {ancestors_of(r) : r \in Roots \cap Known}) \ request.exclusions

\* The first reason to be selected counts: a root, the contents of one, a neighbour,
\* a side of the comparison; what was asked to be left out leaves, and what is above a
\* root comes last.
Selection ==
    LET roots    == Roots \cap Known
        contents == UNION {immediate_scale_contents(r) : r \in roots}
        reached  == DOMAIN depths \cap Known
        sides    == Sides \cap Known
    IN [x \in ((roots \cup contents \cup reached \cup sides) \ request.exclusions) \cup Spine |->
          CASE x \in roots                                    -> Chosen(TRUE, 1000)
            [] x \in contents \ roots                         -> Chosen(FALSE, 400)
            [] x \in reached \ (roots \cup contents)           -> Chosen(FALSE, 250 - 20 * depths[x])
            [] x \in sides \ (roots \cup contents \cup reached) -> Chosen(TRUE, 1000)
            [] OTHER                                           -> Chosen(FALSE, 300)]
-----------------------------------------------------------------------------
(* The budget.                                                             *)

\* An estimate is made of what is written, the previous estimate included: a zero
\* at first.
Estimate(cost, digits, previous) == IF previous = 0 THEN cost ELSE cost + digits

Estimated(items)    == [x \in DOMAIN items |->
                          [items[x] EXCEPT !.tokens = Estimate(Cost[x], Digits[x], @)]]
EstimatedLinks(lks) == [e \in DOMAIN lks |-> Estimate(EdgeCost, EdgeDigits, lks[e])]

\* settle_estimates: what the packet is said to cost.  The comparison, the uncertainty, the
\* task and the reasons are written into the packet too; for them, however long, there is
\* nothing but the envelope.
Settled(items, lks, above) ==
    Total([x \in DOMAIN items |-> items[x].tokens]) + Total(lks)
      + Total([x \in above |-> Cost[x]]) + Envelope

Select ==
    /\ phase = "walk"
    /\ queue = <<>>
    /\ phase' = "budget"
    /\ spine' = Spine
    /\ selected' = Estimated(Selection)
    /\ links' = EstimatedLinks([e \in edges |-> 0])
    /\ comparison' = IF request.mode = "compare"
                     THEN compare_entities(Targets[1], Targets[2]) ELSE NoComparison
    /\ total' = Settled(selected', links', spine')
    /\ UNCHANGED <<snapshot, request, budget, walked, omissions, minimum, omitted, again>>

category_for(id) ==
    CASE scale(id) = Moon   -> "moon"
      [] scale(id) = Planet -> "planet"
      [] scale(id) = System -> "system"
      [] OTHER              -> "entity"

Optional == {x \in DOMAIN selected : ~ selected[x].mandatory}

\* Mutant: of equals, the largest id goes.
OutranksByNewest(a, b) ==
    \/ selected[a].score > selected[b].score
    \/ selected[a].score = selected[b].score /\ a < b

Outranks(a, b) ==
    \/ selected[a].score > selected[b].score
    \/ selected[a].score = selected[b].score /\ a > b

\* What goes first: the lowest score, then the smallest id.
Removable == {x \in Optional : \A y \in Optional \ {x} : Outranks(y, x)}

Without(id) == [x \in DOMAIN selected \ {id} |-> selected[x]]

\* The relationships both ends of which are still shown.
Retained(items) ==
    LET shown == DOMAIN items \cup spine
    IN [e \in {l \in DOMAIN links : l.source \in shown /\ l.target \in shown} |-> links[e]]

Omit ==
    /\ phase = "budget"
    /\ total > budget
    /\ \E id \in Removable :
         /\ selected' = Estimated(Without(id))
         /\ links' = EstimatedLinks(Retained(Without(id)))
         /\ omissions' = [omissions EXCEPT ![category_for(id)] = @ + 1]
         /\ omitted' = FirstOf(omitted, [x \in {id} |-> selected[x]])
    /\ total' = Settled(selected', links', spine)
    /\ UNCHANGED <<snapshot, request, budget, phase, walked, spine, comparison, minimum, again>>

Deliver ==
    /\ phase = "budget"
    /\ total <= budget
    /\ phase' = "done"
    /\ minimum' = total
    /\ UNCHANGED <<snapshot, request, budget, walked, selected, spine, links, comparison, total,
                   omissions, omitted, again>>

\* Mutant: the spine and the relationships are forgotten.
NeededMandatory == Total([x \in DOMAIN selected |-> selected[x].tokens]) + Envelope

Needed == total

Refuse ==
    /\ phase = "budget"
    /\ total > budget
    /\ Removable = {}
    /\ phase' = "refused"
    /\ minimum' = Needed
    /\ UNCHANGED <<snapshot, request, budget, walked, selected, spine, links, comparison, total,
                   omissions, omitted, again>>

\* A caller that was refused asks again, with the budget the error names.
AskAgain ==
    /\ phase = "refused"
    /\ ~ again
    /\ again' = TRUE
    /\ budget' = minimum
    /\ phase' = "asked"
    /\ queue' = <<>> /\ depths' = Nothing /\ edges' = {}
    /\ selected' = Nothing /\ spine' = {} /\ links' = Nothing /\ comparison' = NoComparison
    /\ total' = 0 /\ omissions' = [k \in DOMAIN omissions |-> 0] /\ minimum' = 0
    /\ omitted' = Nothing
    /\ UNCHANGED <<snapshot, request>>

Compile == Ask \/ MissingComparisonEntities \/ Visit \/ Select \/ Omit \/ Deliver \/ Refuse

Next == Compile \/ AskAgain

Spec == Init /\ [][Next]_vars

\* Compilation is one call: nothing stops it half-way.
LiveSpec == Spec /\ WF_vars(Compile)
-----------------------------------------------------------------------------
\* Every variable has its type.
TypeOK ==
    /\ snapshot \in Snapshots
    /\ phase \in {"asked", "walk", "budget", "done", "refused", "invalid"}
    /\ \A i \in DOMAIN queue : queue[i] \in Ids \X Nat
    /\ DOMAIN depths \subseteq Ids
    /\ edges \subseteq snapshot.edges
    /\ DOMAIN selected \subseteq Known
    /\ \A x \in DOMAIN selected : selected[x] \in Item
    /\ spine \subseteq Known
    /\ DOMAIN links \subseteq snapshot.edges
    /\ {total, minimum} \cup {omissions[k] : k \in DOMAIN omissions} \subseteq Nat
    /\ again \in BOOLEAN

\* The entities no further than n relationships from a root.
Ball ==
    LET roots == Roots
        Wider(S) == S \cup UNION {{e.source, e.target} :
                      e \in {f \in snapshot.edges : Followed(f) /\ {f.source, f.target} \cap S # {}}}
        ball[n \in 0 .. request.depth] == IF n = 0 THEN roots ELSE Wider(ball[n - 1])
    IN ball

\* The walk (compiler.rs:218-260) reaches what lies within the depth asked for and
\* nothing else, each at its true distance from the nearest root whichever root or
\* relationship came first, and meets the relationships of all that is nearer than
\* the depth: scores, and so what a budget leaves, rest on it.
WalkIsExact ==
    phase \in {"budget", "done", "refused"} =>
      LET ball == Ball
          near == IF request.depth = 0 THEN {} ELSE ball[request.depth - 1]
      IN /\ DOMAIN depths = ball[request.depth]
         /\ \A x \in DOMAIN depths : \A n \in 0 .. request.depth :
              x \in ball[n] <=> depths[x] <= n
         /\ edges = {e \in snapshot.edges : Followed(e) /\ {e.source, e.target} \cap near # {}}

\* What a budget takes away (budget.rs:80-110) was not mandatory and ranked below
\* all that is left of the optional content; every piece is counted under its
\* category, and a refusal comes only when nothing optional is left.
CutsAreFair ==
    /\ \A x \in DOMAIN omitted :
         /\ x \notin DOMAIN selected
         /\ ~ omitted[x].mandatory
         /\ \A y \in Optional : \/ selected[y].score > omitted[x].score
                                \/ selected[y].score = omitted[x].score /\ y > x
    /\ \A k \in DOMAIN omissions :
         omissions[k] = Cardinality({x \in DOMAIN omitted : category_for(x) = k})
    /\ phase = "refused" => Optional = {} /\ minimum > budget

\* A packet is well typed and of one piece: it shows entities of the Atlas only,
\* whatever ids were asked about, and none it was asked to leave out, not even in the
\* spine; its relationships join what it shows, was asked to leave out or does not
\* know, and only what it shows once anything was cut; and a comparison answers for
\* every dimension it was asked about (compiler.rs:118-156, budget.rs:97-107).
PacketIsCoherent ==
    LET shown == DOMAIN selected \cup spine
        asked == IF request.dimensions = {} THEN Usual ELSE request.dimensions
    IN /\ TypeOK
       /\ phase \in {"budget", "done", "refused"} =>
         /\ shown \cap request.exclusions = {}
         /\ \A e \in DOMAIN links :
              IF DOMAIN omitted = {}
              THEN {e.source, e.target} \cap Known \subseteq shown \cup request.exclusions
              ELSE {e.source, e.target} \subseteq shown
         /\ request.mode = "compare" =>
              asked = comparison.unresolved \cup
                        {p[1] : p \in comparison.matches \cup comparison.left_only
                                        \cup comparison.right_only}

\* "The budget this request would actually need" (budget.rs:13) is enough: who is
\* refused and comes back with it is not refused again, although estimates grow as
\* they are written and content was cut in between.
RetryIsGranted == again => phase # "refused"

\* Every request is answered (budget.rs:80: the loop ends, although a cut may leave
\* the packet no cheaper).
CompileEnds == []<>(phase \in {"done", "refused", "invalid"})
=============================================================================
