------------------------------ MODULE Symbols ------------------------------
(***************************************************************************)
(* The identities of declarations, and what a model says of them.          *)
(*                                                                         *)
(* Every index parses the files anew and gives a declaration an id made of  *)
(* its file, its name and its line.  reconcile_identity then puts the ids  *)
(* of the stored snapshot in their place where a declaration seems to be    *)
(* the same, and carries the summaries the model wrote for it.  In between, *)
(* the semantic lane asks the model about what has no summary yet and       *)
(* admits its answers.                                                     *)
(***************************************************************************)
EXTENDS Naturals, FiniteSets

CONSTANTS
    Files,      \* paths, which stay as they are
    Tests,      \* those whose name says test or spec: not of kind File
    Names,      \* names of declarations
    MaxPlace,   \* bound on the length of a file, in places of declarations
    Line,       \* the line of a place: a line may have several, in the order of the parse
    Constructs, \* what the parser calls a declaration, its fingerprint
    KindOf,     \* the kind it becomes, which several constructs may share
    Described,  \* kinds the model is asked about
    Hash,       \* the order of ids, which are hashes
    ByName,     \* the order of names
    Texts,      \* what the files may hold at the start
    Project,    \* the entity of the whole project
    Protected,  \* entities with a protected decision
    Mute,       \* names the model has nothing to say about
    Proposals,  \* what the model may answer
    Budget,     \* how many symbols the model is asked about in a pass
    MaxEdits    \* bound on edits

Places == 1 .. MaxPlace
Lines  == {Line[l] : l \in Places}
Ids    == Files \X Names \X Lines
Kinds  == {KindOf[c] : c \in Constructs}

\* A declaration; thing tells declarations apart whatever they are called (history).
Things      == (0 .. MaxEdits) \X Places
Declaration == [name : Names, construct : Constructs, thing : Things]

\* An entity for a declaration; its summaries by the things they were written of.
Symbol == [id : Ids, file : Files, name : Names, construct : Constructs, at : Places,
           thing : Things, summaries : SUBSET Things]

\* What the model proposes, about the symbol it was asked about or about the project.
Planes    == {"declared", "observed", "inferred"}
Candidate == [payload : {"summary", "edge", "context"}, about : {"symbol", "project"},
              pinned : BOOLEAN, confident : BOOLEAN, plane : Planes]

ASSUME SymbolsAssumption ==
    /\ Tests \subseteq Files /\ IsFiniteSet(Files)
    /\ MaxPlace \in Nat /\ MaxEdits \in Nat /\ Budget \in Nat
    /\ Line \in [Places -> Nat]
    /\ \A k, l \in Places : k < l => Line[k] <= Line[l]
    /\ KindOf \in [Constructs -> Kinds]
    /\ Hash \in [Ids -> Nat]
    /\ \A i, j \in Ids : Hash[i] = Hash[j] => i = j
    /\ ByName \in [Names -> Nat]
    /\ \A m, n \in Names : ByName[m] = ByName[n] => m = n
    /\ \A text \in Texts :
         /\ DOMAIN text = Files
         /\ \A f \in Files : \A l \in DOMAIN text[f] :
              /\ l \in Places
              /\ text[f][l] \in Declaration
              /\ text[f][l].thing = <<0, l>>
    /\ \A P \in Proposals : \A c \in P : c \in Candidate

VARIABLES
    text,     \* the files
    garbled,  \* those that can be neither read nor parsed at present
    stored,   \* the symbols in the database
    draft,    \* history: what the last index made, if it was refused
    inferred, \* what else of the model's is in the database: [payload, target, plane]
    edits,    \* edits so far
    still,    \* history: indexes since the last edit, up to two
    touched,  \* history: names written, dropped or changed since the last index, up to two
    muddled   \* history: files where that was more than one at once, or where namesakes stood

history == <<edits, still, touched, muddled>>
vars    == <<text, garbled, stored, draft, inferred, history>>
-----------------------------------------------------------------------------
(* Parsing and matching.                                                   *)

kind(s) == KindOf[s.construct]

symbol_entity_id(file, name, line) == <<file, name, line>>

\* The id of a declaration of what it is and where it stands, as a parse makes it.
Fresh(s) == symbol_entity_id(s.file, s.name, Line[s.at])

\* What enrich adds for the declarations of the files that can be parsed, nested ones
\* and several on a line included; nothing keeps their ids apart.
Parsed == UNION {{[id |-> symbol_entity_id(f, text[f][l].name, Line[l]), file |-> f,
                   name |-> text[f][l].name, construct |-> text[f][l].construct, at |-> l,
                   thing |-> text[f][l].thing, summaries |-> {}] : l \in DOMAIN text[f]} :
                 f \in Files \ garbled}

\* Only what stands in a file of kind File is matched.
symbols(S) == {s \in S : s.file \notin Tests}

\* Mutant: the kind is not compared.
NamesakesOfAnyKind(s, t) == s.file = t.file /\ s.name = t.name

Namesakes(s, t) == s.file = t.file /\ s.name = t.name /\ kind(s) = kind(t)

Alike(s, t) == s.file = t.file /\ kind(s) = kind(t) /\ s.construct = t.construct

\* How many of S come before s: the parser lists symbols by place, the database by name and id.
RankByPlace(s, S) == Cardinality({t \in S : Namesakes(s, t) /\ t.at < s.at})

\* Mutant: the database lists the last place first.
RankByPlaceDown(s, S) == Cardinality({t \in S : Namesakes(s, t) /\ t.at > s.at})

RankById(s, S) == Cardinality({t \in S : Namesakes(s, t) /\ Hash[t.id] < Hash[s.id]})

\* Phase 1: namesakes, the first of the new with the first of the old, and so on.
Moved(new, old) ==
    {m \in new \X old : Namesakes(m[1], m[2]) /\ RankByPlace(m[1], new) = RankById(m[2], old)}

\* Mutant: all that ask are given it.
RenamedShared(new, old) ==
    {m \in new \X old : Alike(m[1], m[2]) /\ \A q \in old : Alike(m[1], q) => q = m[2]}

\* Phase 2, for what is left: the one of the same construct, if it is the only one; it
\* goes to the first that asks.
Renamed(new, old) ==
    {m \in new \X old :
        /\ Alike(m[1], m[2])
        /\ \A q \in old : Alike(m[1], q) => q = m[2]
        /\ ~ \E n \in new : Alike(n, m[1]) /\ n.at < m[1].at}

Matched ==
    LET new   == symbols(Parsed)
        old   == symbols(stored)
        moved == Moved(new, old)
    IN moved \cup Renamed(new \ {m[1] : m \in moved}, old \ {m[2] : m \in moved})

\* The summaries of the stored symbol of an id.
Carried(id) == UNION {p.summaries : p \in {q \in stored : q.id = id}}

\* What puts another id in the place of one, and which of them counts: the last, and
\* those of phase 2 (whose names differ) come after those of phase 1.
Remaps(id, matched) == {m \in matched : m[1].id = id /\ m[2].id # id}
Renames(m) == m[1].name # m[2].name
Overwrites(m, k) ==
    \/ Renames(m) /\ ~Renames(k)
    \/ (Renames(m) <=> Renames(k)) /\ m[1].at > k[1].at

\* Of declarations that a parse gave one id, all are given the same other one.
apply_remap(id, matched) ==
    LET remaps == Remaps(id, matched)
    IN IF remaps = {} THEN id
       ELSE (CHOOSE k \in remaps : ~ \E m \in remaps : Overwrites(m, k))[2].id

reconcile_identity ==
    LET matched == Matched
    IN {LET id == apply_remap(n.id, matched) IN [n EXCEPT !.id = id, !.summaries = Carried(id)] :
            n \in Parsed}

\* The hierarchy refuses two entities of one id.
Distinct(S) == \A s, t \in S : s.id = t.id => s = t
-----------------------------------------------------------------------------
(* Actions.                                                                *)

\* The names of f that occur twice for one kind.
Repeats(t) == \E k, l \in DOMAIN t :
    k # l /\ t[k].name = t[l].name /\ KindOf[t[k].construct] = KindOf[t[l].construct]

Init ==
    /\ text \in Texts
    /\ garbled = {}
    /\ stored = {}
    /\ draft = {}
    /\ inferred = {}
    /\ edits = 0
    /\ still = 0
    /\ touched = [f \in Files |-> 0]
    /\ muddled = {f \in Files : Repeats(text[f])}

Becomes(f, t, touch) ==
    /\ edits < MaxEdits
    /\ text' = [text EXCEPT ![f] = t]
    /\ edits' = edits + 1
    /\ still' = 0
    /\ touched' = [touched EXCEPT ![f] = IF @ + touch > 2 THEN 2 ELSE @ + touch]
    /\ muddled' = muddled \cup {g \in {f} : touched'[g] > 1 \/ Repeats(t)}
    /\ UNCHANGED <<garbled, stored, draft, inferred>>

\* What is written stays, in its order, at other places: lines are put in or taken out,
\* broken or joined.
Shift(f, to) ==
    /\ \A k, l \in DOMAIN to : k < l => to[k] < to[l]
    /\ \E l \in DOMAIN to : to[l] # l
    /\ Becomes(f, [k \in {to[j] : j \in DOMAIN to} |-> text[f][CHOOSE j \in DOMAIN to : to[j] = k]], 0)

\* A declaration is written, dropped, or given another name.
Write(f, l, name, construct) ==
    /\ l \notin DOMAIN text[f]
    /\ Becomes(f, [k \in DOMAIN text[f] \cup {l} |->
                      IF k = l THEN [name |-> name, construct |-> construct, thing |-> <<edits + 1, l>>]
                      ELSE text[f][k]], 1)

Drop(f, l) ==
    /\ l \in DOMAIN text[f]
    /\ Becomes(f, [k \in DOMAIN text[f] \ {l} |-> text[f][k]], 1)

Rename(f, l, name) ==
    /\ l \in DOMAIN text[f] /\ text[f][l].name # name
    /\ Becomes(f, [text[f] EXCEPT ![l].name = name], 1)

\* A file can no longer be parsed, or can again.
Garble(f) ==
    /\ edits < MaxEdits
    /\ garbled' = (garbled \ {f}) \cup ({f} \ garbled)
    /\ edits' = edits + 1
    /\ still' = 0
    /\ UNCHANGED <<text, stored, draft, inferred, touched, muddled>>

\* An index: what it made is stored unless it is refused; of the model's own only the
\* summaries are carried.
Index ==
    LET made == reconcile_identity
    IN /\ IF Distinct(made)
          THEN /\ stored' = made
               /\ draft' = {}
               /\ inferred' = {c \in inferred : c.payload = "summary"}
               /\ touched' = [f \in Files |-> 0]
          ELSE draft' = made /\ UNCHANGED <<stored, inferred, touched>>
       /\ still' = IF still < 2 THEN still + 1 ELSE still
       /\ UNCHANGED <<text, garbled, edits, muddled>>

\* What the model is asked about: symbols without a summary, in the database's order.
Wanting == {s \in stored : kind(s) \in Described /\ s.summaries = {}}
Listed(s, t) == \/ ByName[s.name] < ByName[t.name]
                \/ s.name = t.name /\ Hash[s.id] < Hash[t.id]

\* Mutant: those with a summary are asked about again.
work_itemsAgain ==
    LET asked == {s \in stored : kind(s) \in Described}
    IN {s \in asked : Cardinality({t \in asked : Listed(t, s)}) < Budget}

work_items == {s \in Wanting : Cardinality({t \in Wanting : Listed(t, s)}) < Budget}

Target(c, s) == IF c.about = "project" THEN Project ELSE s.id

\* Whatever was not seen in this snapshot, says it is surer than sure, or claims to have
\* been observed.
rejected(c) ==
    \/ ~c.pinned
    \/ c.payload \in {"summary", "context"} /\ ~c.confident
    \/ c.payload = "edge" /\ c.plane = "observed"

\* What concerns a protected entity is left to a person; of an edge, only where it
\* begins is looked at.
admit(c, s) == ~rejected(c) /\ Target(c, s) \notin Protected

\* A pass: what the model answers for each symbol, and what of it is admitted.  The
\* database has no table for context records.
semantic_pass(answers) ==
    LET admitted == UNION {{<<c, s>> : c \in {d \in answers[s] : admit(d, s)}} : s \in DOMAIN answers}
        Summed(s) == \E a \in admitted : a[2] = s /\ a[1].payload = "summary" /\ a[1].about = "symbol"
    IN /\ admitted # {}
       /\ stored' = {IF Summed(s) THEN [s EXCEPT !.summaries = @ \cup {s.thing}] ELSE s : s \in stored}
       /\ inferred' = inferred \cup
            {[payload |-> a[1].payload, target |-> Target(a[1], a[2]), plane |-> a[1].plane] :
                a \in {b \in admitted : \/ b[1].payload = "edge"
                                        \/ b[1].payload = "summary" /\ b[1].about = "project"}}
       /\ UNCHANGED <<text, garbled, draft, history>>

Lane == \E answers \in [work_items -> Proposals] :
            /\ \A s \in work_items : s.name \in Mute => answers[s] = {}
            /\ semantic_pass(answers)

\* A pass in which the model says something of everything it can.
Answered == \E answers \in [work_items -> Proposals] :
            /\ \A s \in work_items :
                 IF s.name \in Mute THEN answers[s] = {}
                 ELSE \E c \in answers[s] : c.payload = "summary" /\ c.about = "symbol" /\ admit(c, s)
            /\ semantic_pass(answers)

Next ==
    \/ \E f \in Files :
         \/ \E to \in [DOMAIN text[f] -> Places] : Shift(f, to)
         \/ \E l \in Places : \/ Drop(f, l)
                              \/ \E n \in Names : Rename(f, l, n) \/ \E c \in Constructs : Write(f, l, n, c)
         \/ Garble(f)
    \/ Index
    \/ Lane

Spec     == Init /\ [][Next]_vars
LiveSpec == Spec /\ WF_vars(Answered)
-----------------------------------------------------------------------------
(* Properties.                                                             *)

TypeOK ==
    /\ \A f \in Files : DOMAIN text[f] \subseteq Places
                        /\ \A l \in DOMAIN text[f] : text[f][l] \in Declaration
    /\ garbled \subseteq Files
    /\ \A s \in stored \cup draft : s \in Symbol
    /\ \A s, t \in stored : s.id = t.id => s = t
    /\ \A c \in inferred : /\ c.payload \in {"summary", "edge"} /\ c.plane \in Planes
                           /\ c.target \in Ids \cup {Project}
    /\ edits \in 0 .. MaxEdits
    /\ still \in 0 .. 2
    /\ touched \in [Files -> 0 .. 2]
    /\ muddled \subseteq Files

SameThing(s, t) == s.file = t.file /\ s.thing = t.thing

Clear == Files \ (muddled \cup Tests)

\* In a file where names were written, dropped or changed one at a time, and where no two
\* declarations of a kind shared a name, a summary stays with the declaration it was
\* written of, through moves and renames (identity.rs:9-14).
SummariesAreHonest ==
    \A s \in stored : s.file \in Clear => s.summaries \subseteq {s.thing}

\* There, a declaration that is stored again keeps its id and what was said of it, and
\* nothing is said of it that was not.
ThingsKeepIds ==
    /\ []SummariesAreHonest
    /\ [][\A p \in stored, n \in stored' :
             p.file \in Clear /\ SameThing(n, p)
                 => n.id = p.id /\ p.summaries \subseteq n.summaries]_vars

\* After two indexes of an unchanged tree the ids of all declarations are at rest,
\* namesakes included.
IdsSettle ==
    [][still = 2 /\ edits' = edits => \A p \in stored, n \in stored' : SameThing(n, p) => n.id = p.id]_vars

\* An index is refused only because two declarations of one name begin on one line of a
\* file - in its first index too - or because a declaration was carried away from the line
\* where its id was made, by a match with what is stored under it, and another of that
\* name stands there now.
RefusedForReason ==
    /\ TypeOK
    /\ \A s, t \in draft : s # t /\ s.id = t.id =>
         \/ \E u, v \in draft : u # v /\ Fresh(u) = Fresh(v)
         \/ \E u \in {s, t} : /\ u.id = Fresh(u)
                              /\ \A v \in {s, t} \ {u} : \E p \in stored :
                                   /\ p.id = v.id /\ p.file = v.file /\ kind(p) = kind(v)
                                   /\ p.name = v.name \/ p.construct = v.construct

\* Once the editing stops, everything that can be described is.
LaneDrains == <>[](\A s \in Wanting : s.name \in Mute)

\* A rescan is stable: the same file, symbol and line always yield the same entity id
\* (enrich.rs:205-206).
RescanIsStable ==
    [][still > 0 /\ edits' = edits => \A p \in stored, n \in stored' : SameThing(n, p) => n.id = p.id]_vars
=============================================================================
