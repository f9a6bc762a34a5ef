------------------------------- MODULE Codec -------------------------------
(***************************************************************************)
(* The tree of ATLAS.idx files and the database that is rebuilt from the   *)
(* one at its root: which folders have a file, what each file says, where  *)
(* its pointers lead, and what comes back when the database is lost.       *)
(*                                                                         *)
(* A line is a record of what it says; that its fields are quoted so that  *)
(* they are read as they were written is taken from escape.rs. A write of  *)
(* the tree is one step: its failure half-way is in Resident, its races    *)
(* with other writers are in Store.                                        *)
(***************************************************************************)
EXTENDS Naturals, Sequences, SequencesExt

CONSTANTS
    ScanOrder,   \* paths of files, each its directories and its name, in the order of a scan
    Systems,     \* names of groups: Root and the directories at the top, in alphabetical order
    Root,        \* the name of the groups of the files at the top
    Exporting,   \* files with a declaration they export, of one and the same name
    Requiring,   \* files that import that name
    Goals,       \* goals PURPOSE.md may state
    Galaxy,      \* the scope of the whole project
    Missing,     \* no snapshot, no parent, no path, no colour
    MaxEdits,    \* bound on the edits of the project ...
    MaxBeside,   \* ... and on those of it if others change the root's file, before and after
    MaxTouches   \* bound on the changes others make to the root's file

Files == Range(ScanOrder)
Top   == <<>>

VARIABLES
    tree,    \* the files there are
    goals,   \* what PURPOSE.md states
    db,      \* the snapshot in the database
    idx,     \* idx[d]: the ATLAS.idx in directory d
    edits,   \* edits so far
    touches, \* changes of the root's file so far
    altered, \* history: the database came out of a root that others had changed
    wrote    \* history: the snapshot the files were written from, unless an altered one

cvars == <<tree, goals, db, idx, edits, touches, altered, wrote>>
-----------------------------------------------------------------------------
(* A scan with its index.                                                  *)

\* group_keys: the system and the planet of a file.
SystemName(p) == IF Len(p) > 1 THEN p[1] ELSE Root
PlanetName(p) == IF Len(p) > 2 THEN Front(p) ELSE <<SystemName(p)>>

Id(kind, of) == [kind |-> kind, of |-> of]
Universe  == Id("universe", <<>>)
Project   == Id("galaxy", <<>>)
System(n) == Id("system", <<n>>)
Planet(n) == Id("planet", n)
File(p)   == Id("file", p)
Symbol(p) == Id("symbol", p)

\* The things a tree is made of, and all there may be.
IdsOf(t) == {Universe, Project} \cup {System(SystemName(p)) : p \in t}
            \cup {Planet(PlanetName(p)) : p \in t} \cup {File(p) : p \in t}
            \cup {Symbol(p) : p \in t \cap Exporting}
AllIds == IdsOf(Files)

ASSUME CodecAssumption ==
    /\ ScanOrder \in Seq(Files) /\ Files \subseteq Seq(UNION {Range(p) : p \in Files})
    /\ \A p \in Files : Len(p) > 0
    /\ Systems \in Seq(Range(Systems)) /\ Root \in Range(Systems)
    /\ \A p \in Files : Len(p) > 1 => p[1] \in Range(Systems)
    /\ Exporting \cup Requiring \subseteq Files
    /\ Galaxy \notin AllIds
    /\ Missing \notin AllIds /\ \A i \in AllIds : Missing # i.of
    /\ MaxEdits \in Nat /\ MaxBeside \in 0 .. MaxEdits /\ MaxTouches \in Nat

Parsed  == "parsed"    \* evidence with fingerprint and message
Bare    == "bare"      \* without

\* atlas_entity and symbol_entity. Of what an entity says, `says` has what is there or
\* not: a summary, an inferred one, a span, a protected decision, an uncertainty.
Entity(scale, parent, path, says, clauses, sockets) ==
    [scale |-> scale, parent |-> parent, path |-> path, says |-> says, clauses |-> clauses,
     evidence |-> {Parsed}, green |-> [code |-> Missing, reasons |-> {}], sockets |-> sockets]

Unresolved == [kind |-> "unresolved", to |-> {}]
Provided(p) == Symbol(p)    \* the id of its socket
Required(p) == File(p)

\* resolve_sockets, for the one name: what becomes of a requirement in tree t.
Resolution(t) ==
    LET providers == {Provided(p) : p \in t \cap Exporting}
    IN [kind |-> IF \E s \in providers : providers = {s} THEN "fit" ELSE "hole", to |-> providers]

\* The entities of a scan of tree t with goals g, the index included. A PURPOSE.md that
\* states goals is taken to state a protected decision too.
ScanOf(t, g) ==
    LET galaxy    == Entity("galaxy", Universe, Missing,
                            {IF g = {} THEN "uncertain" ELSE "protected"}, g, {})
        planet(n) == Entity("planet", System(n[1]), n, {}, {}, {})
        file(p)   == Entity("moon", Planet(PlanetName(p)), p, {"summary"}, {},
                            IF p \in Requiring
                            THEN {[id |-> Required(p), resolution |-> Resolution(t)]} ELSE {})
        symbol(p) == Entity("moon", File(p), p, {"span"}, {},
                            {[id |-> Provided(p), resolution |-> Unresolved]})
    IN [i \in IdsOf(t) |->
          CASE i = Universe      -> Entity("universe", Missing, Missing, {}, {}, {})
            [] i = Project       -> galaxy
            [] i.kind = "system" -> Entity("system", Project, i.of, {}, {}, {})
            [] i.kind = "planet" -> planet(i.of)
            [] i.kind = "file"   -> file(i.of)
            [] i.kind = "symbol" -> symbol(i.of)]

Edge(from, to, kind) == [from |-> from, to |-> to, kind |-> kind, evidence |-> {Parsed}]

\* Containment, and the import of a file another one names.
EdgesOf(t, ents) ==
    {Edge(ents[i].parent, i, "contains") : i \in DOMAIN ents \ {Universe}}
    \cup {e \in {Edge(File(p), File(q), "imports") : p \in t \cap Requiring, q \in t \cap Exporting} :
             e.from # e.to}

\* What evaluate_snapshot makes of it: an import nobody provides fails, and with it all
\* that contains the file; nothing has been verified, so the rest is not known.
Colour(t, i) ==
    LET failed == IF Resolution(t).to = {} THEN t \cap Requiring ELSE {}
    IN IF \E p \in failed :
            i \in {File(p), Planet(PlanetName(p)), System(SystemName(p)), Project, Universe}
       THEN "red" ELSE "unknown"

\* `top` is the entity that stands for the root.
Snapshot(id, ents, top, edges) == [id |-> id, ents |-> ents, top |-> top, edges |-> edges]

\* The groups that stand for the root. Of several the last in the order of the
\* snapshot counts.
AtTop(i) == i.kind = "system" \/ i = Planet(<<Root>>)

LastOf(place) ==
    IF DOMAIN place = {} THEN Missing
    ELSE CHOOSE i \in DOMAIN place : \A j \in DOMAIN place : place[j] <= place[i]

\* In the order of the scan: where the first of its files is, a system before its planet.
Discovered(t) ==
    LET groups(p) == {System(SystemName(p)), Planet(PlanetName(p))}
        first(i) == CHOOSE n \in DOMAIN ScanOrder :
                      /\ ScanOrder[n] \in t /\ i \in groups(ScanOrder[n])
                      /\ \A m \in 1 .. n - 1 : ScanOrder[m] \in t => i \notin groups(ScanOrder[m])
    IN LastOf([i \in {j \in UNION {groups(p) : p \in t} : AtTop(j)} |->
                 2 * first(i) + (IF i.kind = "system" THEN 0 ELSE 1)])

\* In the order in which load_snapshot lists them: by scale, then by name.
ByName(ents) ==
    LastOf([i \in {j \in DOMAIN ents : AtTop(j)} |->
              IF i.kind = "system" THEN CHOOSE n \in DOMAIN Systems : Systems[n] = i.of[1] ELSE 0])
Loaded(s) == Snapshot(s.id, s.ents, ByName(s.ents), s.edges)

\* replace_snapshot has rows for entities and edges, and for nothing else.
Stored(s) == Snapshot(s.id, s.ents, Missing, s.edges)
-----------------------------------------------------------------------------
(* The encoder: the lines of a snapshot in a scope.                        *)

\* in_scope: the whole snapshot, or an entity with its direct children.
Visible(s, scope) ==
    IF scope = Galaxy THEN DOMAIN s.ents
                      ELSE {i \in DOMAIN s.ents : i = scope \/ s.ents[i].parent = scope}

EntityLines(s, seen) ==
    {[tag |-> "entity", id |-> i, scale |-> s.ents[i].scale, parent |-> s.ents[i].parent,
      path |-> s.ents[i].path] : i \in seen}

\* The source of a summary tells a parsed one from an inferred one.
SummaryLines(s, seen) ==
    {[tag |-> "summary", id |-> i, source |-> "parsed"] : i \in {j \in seen : "summary" \in s.ents[j].says}}
    \cup {[tag |-> "summary", id |-> [inferred |-> i], source |-> "inferred"] :
            i \in {j \in seen : "inferred" \in s.ents[j].says}}

EdgesSeen(s, seen) == {e \in s.edges : e.from \in seen \/ e.to \in seen}
EdgeId(e)          == [from |-> e.from, to |-> e.to, kind |-> e.kind]
EdgeLines(s, seen) ==
    {[tag |-> "edge", id |-> EdgeId(e), from |-> e.from, to |-> e.to, kind |-> e.kind] :
       e \in EdgesSeen(s, seen)}

\* Purpose clauses are written as constraints, under an id made of the entity's.
ClauseLines(s, seen) ==
    UNION {{[tag |-> "constraint", id |-> [purpose |-> i], text |-> c] : c \in s.ents[i].clauses} :
             i \in seen}

\* Evidence is keyed by its target, an entity or an edge; the fingerprint and the
\* message are not among the fields.
EvidenceLines(s, seen) ==
    {[tag |-> "evidence", target |-> i] : i \in {j \in seen : s.ents[j].evidence # {}}}
    \cup {[tag |-> "evidence", target |-> EdgeId(e)] :
            e \in {d \in EdgesSeen(s, seen) : d.evidence # {}}}

\* A colour is written without its reasons, if there is one.
GreenLines(s, seen) ==
    {[tag |-> "green", target |-> i, code |-> s.ents[i].green.code] :
       i \in {j \in seen : s.ents[j].green.code # Missing}}

\* Pointers to the files of the folders below.
ChildLines(s, scope) ==
    {[tag |-> "child", id |-> i, path |-> s.ents[i].path] :
       i \in {j \in DOMAIN s.ents : /\ scope # Galaxy
                                    /\ s.ents[j].parent = scope
                                    /\ s.ents[j].scale # "moon"
                                    /\ s.ents[j].path # Missing}}

SocketLines(s, seen) ==
    UNION {{[tag |-> "socket", id |-> k.id, entity |-> i] : k \in s.ents[i].sockets} : i \in seen}

\* A fit or a hole, on a line of its own.
ResolutionLines(s, seen) ==
    UNION {{[tag |-> k.resolution.kind, socket |-> k.id, to |-> k.resolution.to] :
              k \in {j \in s.ents[i].sockets : j.resolution # Unresolved}} : i \in seen}

UncertaintyLines(s, seen) ==
    {[tag |-> "uncertainty", id |-> [uncertainty |-> i]] :
       i \in {j \in seen : "uncertain" \in s.ents[j].says}}

\* encode_atlas_idx. The snapshots of this program have no records, conflicts or
\* sources: nothing fills them, and load_snapshot leaves them empty.
encode_atlas_idx(s, scope) ==
    LET seen == Visible(s, scope)
    IN [scale |-> IF scope = Galaxy THEN "galaxy" ELSE "folder",
        snapshot |-> s.id,
        lines |-> UNION {EntityLines(s, seen), SummaryLines(s, seen), EdgeLines(s, seen),
                         ClauseLines(s, seen), EvidenceLines(s, seen), GreenLines(s, seen),
                         ChildLines(s, scope), SocketLines(s, seen), ResolutionLines(s, seen),
                         UncertaintyLines(s, seen)}]
-----------------------------------------------------------------------------
(* The decoder.                                                            *)

Tagged(text, tag) == {l \in text.lines : l.tag = tag}

\* Mutant: the holes are not put back on their sockets.
SocketsOfFits(text, i) ==
    {[id |-> k.id,
      resolution |-> IF \E l \in Tagged(text, "fit") : l.socket = k.id
                     THEN LET l == CHOOSE l \in Tagged(text, "fit") : l.socket = k.id
                          IN [kind |-> "fit", to |-> l.to]
                     ELSE Unresolved] :
       k \in {l \in Tagged(text, "socket") : l.entity = i}}

\* The sockets of an entity, with the fits and the holes of the file attached.
SocketsOf(text, i) ==
    LET answers == Tagged(text, "fit") \cup Tagged(text, "hole")
        about(id) == {l \in answers : l.socket = id}
    IN {[id |-> k.id,
         resolution |-> IF about(k.id) = {} THEN Unresolved
                        ELSE LET l == CHOOSE l \in about(k.id) : TRUE
                             IN [kind |-> l.tag, to |-> l.to]] :
          k \in {l \in Tagged(text, "socket") : l.entity = i}}

\* The evidence of an entity: every target that is a UUID is taken for an entity's, an
\* edge's among them.
EvidenceOf(text, i) == {Bare : l \in {k \in Tagged(text, "evidence") : k.target = i}}

\* parse_green, attached to its entity; one without a line has none.
GreenOf(text, i) ==
    LET given == {l \in Tagged(text, "green") : l.target = i}
    IN [code |-> IF given = {} THEN Missing ELSE (CHOOSE l \in given : TRUE).code,
        reasons |-> {}]

\* parse_entity, with what the other lines attach to it.
DecodedEntity(text, l) ==
    [scale |-> l.scale, parent |-> l.parent, path |-> l.path,
     says |-> {}, clauses |-> {}, evidence |-> EvidenceOf(text, l.id),
     green |-> GreenOf(text, l.id), sockets |-> SocketsOf(text, l.id)]

DecodedEdge(l) == [from |-> l.from, to |-> l.to, kind |-> l.kind, evidence |-> {}]

\* Summaries and constraints come back as context records, not on their entities.
DecodedRecords(text) == Tagged(text, "summary") \cup Tagged(text, "constraint")

Readable(text) == Tagged(text, "unreadable") = {}

\* decode_atlas_idx, of a text it can read. Lines it does not know are set aside.
decode_atlas_idx(text) ==
    LET lines == Tagged(text, "entity")
    IN [id |-> text.snapshot,
        ents |-> [i \in {l.id : l \in lines} |->
                    DecodedEntity(text, CHOOSE l \in lines : l.id = i)],
        top |-> Missing,
        edges |-> {DecodedEdge(l) : l \in Tagged(text, "edge")},
        records |-> DecodedRecords(text)]
-----------------------------------------------------------------------------
(* The tree of files.                                                      *)

\* folder_paths: the folder an entity stands for; what hangs off the galaxy, and the
\* group of the files at the top, stand for the root.
Folders(s) == {i \in DOMAIN s.ents : s.ents[i].scale # "moon" /\ s.ents[i].path # Missing}
FolderOf(s, i) ==
    IF s.ents[i].parent = Project \/ s.ents[i].path = <<Root>> THEN Top ELSE s.ents[i].path

\* folder_to_entity.
EntityOf(s, d) == IF d = Top THEN s.top
                             ELSE CHOOSE i \in Folders(s) : FolderOf(s, i) = d

\* Mutant: only an entity without a parent is given one.
snapshot_with_inferred_parentsMissing(s) ==
    Snapshot(s.id, [i \in DOMAIN s.ents |->
                      IF i \in Folders(s) /\ s.ents[i].parent = Missing
                      THEN [s.ents[i] EXCEPT !.parent = EntityOf(s, Front(FolderOf(s, i)))]
                      ELSE s.ents[i]], s.top, s.edges)

\* snapshot_with_inferred_parents: every folder below the root is hung under the
\* folder that holds it, if an entity stands for that one.
snapshot_with_inferred_parents(s) ==
    LET standing == {FolderOf(s, i) : i \in Folders(s)}
        below    == {i \in Folders(s) : /\ FolderOf(s, i) # Top
                                        /\ Front(FolderOf(s, i)) \in standing}
    IN Snapshot(s.id, [i \in DOMAIN s.ents |->
                         IF i \in below
                         THEN [s.ents[i] EXCEPT !.parent = EntityOf(s, Front(FolderOf(s, i)))]
                         ELSE s.ents[i]], s.top, s.edges)

\* write_projections: the root's file is the whole snapshot as it is; every other
\* folder an entity stands for has one of its own. No file is ever removed.
write_projections(s) ==
    LET hung    == snapshot_with_inferred_parents(s)
        written == {FolderOf(s, i) : i \in Folders(s)} \cup {Top}
    IN idx' = [d \in written \cup DOMAIN idx |->
                 IF d = Top          THEN encode_atlas_idx(s, Galaxy)
                 ELSE IF d \in written THEN encode_atlas_idx(hung, EntityOf(s, d))
                 ELSE idx[d]]
-----------------------------------------------------------------------------
(* What happens.                                                           *)

CInit ==
    /\ tree \in SUBSET Files
    /\ goals = Goals
    /\ db = Missing
    /\ idx = <<>>
    /\ edits = 0 /\ touches = 0
    /\ altered = FALSE
    /\ wrote = Missing

\* A file comes or goes, or PURPOSE.md is rewritten.
Edit ==
    /\ edits < (IF touches > 0 THEN MaxBeside ELSE MaxEdits)
    /\ edits' = edits + 1
    /\ \/ /\ \E p \in Files : tree' = IF p \in tree THEN tree \ {p} ELSE tree \cup {p}
          /\ UNCHANGED goals
       \/ /\ goals' \in SUBSET Goals \ {goals}
          /\ UNCHANGED tree
    /\ UNCHANGED <<db, idx, touches, altered, wrote>>

\* reconcile_once: the index with the summaries of the database carried over and with
\* its colours, the database, the files.
Scan ==
    LET fresh == ScanOf(tree, goals)
        known(i) == IF db # Missing /\ i \in DOMAIN db.ents THEN db.ents[i].says \cap {"inferred"}
                                                             ELSE {}
        described == [i \in DOMAIN fresh |-> [fresh[i] EXCEPT !.says = @ \cup known(i)]]
        coloured == [i \in DOMAIN fresh |->
                       [described[i] EXCEPT !.green = [code |-> Colour(tree, i), reasons |-> {"given"}]]]
        snapshot == Snapshot(<<tree, goals>>, coloured, Discovered(tree), EdgesOf(tree, fresh))
    IN /\ db' = Stored(snapshot)
       /\ write_projections(snapshot)
       /\ altered' = FALSE
       /\ wrote' = Stored(snapshot)
       /\ UNCHANGED <<tree, goals, edits, touches>>

\* semantic_pass: the model describes a symbol nobody described.
Lane ==
    /\ db # Missing
    /\ \E i \in DOMAIN db.ents :
        /\ i.kind = "symbol"
        /\ "inferred" \notin db.ents[i].says
        /\ LET described == [db.ents EXCEPT ![i].says = @ \cup {"inferred"}]
               snapshot  == Snapshot(db.id, described, Loaded(db).top, db.edges)
           IN /\ db' = Stored(snapshot)
              /\ write_projections(snapshot)
              /\ wrote' = IF altered THEN Missing ELSE Stored(snapshot)
    /\ UNCHANGED <<tree, goals, edits, touches, altered>>

\* The database is deleted.
Lose ==
    /\ db' = Missing
    /\ altered' = FALSE
    /\ UNCHANGED <<tree, goals, idx, edits, touches, wrote>>

\* The lines of a text that reach the database, and whether those of the root's file are
\* the ones it was written with.
Reaching == {"entity", "edge", "evidence", "green", "socket", "fit", "hole"}
Agree(text, other) == \A tag \in Reaching : Tagged(text, tag) = Tagged(other, tag)
Untouched == wrote # Missing /\ Agree(idx[Top], encode_atlas_idx(wrote, Galaxy))

\* rebuild_repository_from_portable: it refuses a root of another scope, one it cannot
\* read and one without entities, and the database two rows of one key; what is no
\* entity and no edge has no row.
Rebuild ==
    /\ Top \in DOMAIN idx
    /\ idx[Top].scale = "galaxy"
    /\ Readable(idx[Top])
    /\ Tagged(idx[Top], "entity") # {}
    /\ \A k, l \in Tagged(idx[Top], "entity") : k.id = l.id => k = l
    /\ LET decoded == decode_atlas_idx(idx[Top])
       IN db' = Stored(Snapshot(decoded.id, decoded.ents, decoded.top, decoded.edges))
    /\ altered' = ~Untouched
    /\ UNCHANGED <<tree, goals, idx, edits, touches, wrote>>

\* Lines that come to be in the root's file without its writer: one of a later kind, one
\* that cannot be read, an import, or an entity's out of another folder's file, as a merge
\* of two versions may bring it. A second copy of a line is not modelled: of an entity or
\* an edge it is refused as two rows of one key.
Foreign ==
    {[tag |-> tag] : tag \in {"future", "unreadable"}}
    \cup EdgeLines([edges |-> {Edge(File(p), File(q), "imports") : p \in Requiring, q \in Exporting}],
                  {File(p) : p \in Files})
    \cup UNION {Tagged(idx[d], "entity") : d \in DOMAIN idx \ {Top}}

\* Others write the root too: an earlier version left a folder's text there, an editor or
\* a merge puts a line in or takes any line out.
Touch ==
    /\ Top \in DOMAIN idx
    /\ edits <= MaxBeside
    /\ touches < MaxTouches
    /\ touches' = touches + 1
    /\ \/ \E d \in DOMAIN idx \ {Top} : idx' = [idx EXCEPT ![Top] = idx[d]]
       \/ \E l \in Foreign \ idx[Top].lines : idx' = [idx EXCEPT ![Top].lines = @ \cup {l}]
       \/ \E l \in idx[Top].lines : idx' = [idx EXCEPT ![Top].lines = @ \ {l}]
    /\ UNCHANGED <<tree, goals, db, edits, altered, wrote>>

CNext == Edit \/ Scan \/ Lane \/ Lose \/ Rebuild \/ Touch
CSpec == CInit /\ [][CNext]_cvars
-----------------------------------------------------------------------------
(* Properties.                                                             *)

\* What is to survive of a snapshot: every entity with its place and its identity,
\* every edge, every socket with its fit or hole, every colour. What is not: summaries,
\* purpose, protection, uncertainty and spans, the evidence of edges, the reasons of
\* colours and the proof they ask for, the fingerprint and message of evidence, the
\* snapshot a colour or a socket names and the time a socket was observed.
Surviving(s) ==
    LET kept(e) == [scale |-> e.scale, parent |-> e.parent, path |-> e.path, says |-> {},
                    clauses |-> {}, evidence |-> {Bare},
                    green |-> [code |-> e.green.code, reasons |-> {}], sockets |-> e.sockets]
    IN Snapshot(s.id, [i \in DOMAIN s.ents |-> kept(s.ents[i])], Missing,
                {[from |-> e.from, to |-> e.to, kind |-> e.kind, evidence |-> {}] : e \in s.edges})

\* However often the database is lost, whatever becomes of the lines of the root's file
\* that do not reach it (summaries, constraints, uncertainties, kinds of a later version)
\* and whoever wrote the file last: as long as the lines that do reach it are there and no
\* others, a rebuild that does not refuse gives back all that survives of the snapshot the
\* root was written from, and nothing else; and once is as good as twice.
RebuildRestores ==
    [][Rebuild /\ Untouched => /\ db' = Surviving(wrote)
                               /\ Surviving(db') = db']_cvars

\* The folders with files of their own in the tree a snapshot is of.
HomeFolders(s) == {Front(p) : p \in s.id[1]} \ {Top, <<Root>>}

\* After a write of the tree, unless by the lane from a database that came out of an
\* altered root, the file of a folder lists its own files; its pointers lead to files of
\* the same snapshot and, followed on, to just those folders below it to which every
\* folder on the way has files of its own. Files of folders that are gone are left
\* behind, and no pointer leads to one.
NavigationIsExact ==
    wrote # Missing =>
      LET home == HomeFolders(wrote)
          below(d) == {l.path : l \in Tagged(idx[d], "child")}
          reached(d) == {e \in home : \A S \in SUBSET home :
                           below(d) \subseteq S /\ (\A f \in S : below(f) \subseteq S) => e \in S}
      IN \A d \in home :
           /\ idx[d].scale = "folder" /\ idx[d].snapshot = wrote.id
           /\ {l.id : l \in {k \in Tagged(idx[d], "entity") : k.scale = "moon"}}
                = {File(p) : p \in {q \in wrote.id[1] : Front(q) = d}}
           /\ below(d) \subseteq home
           /\ reached(d) = {e \in home : /\ IsStrictPrefix(d, e)
                                         /\ \A n \in Len(d) .. Len(e) : SubSeq(e, 1, n) \in home}
=============================================================================
