------------------------------- MODULE Store -------------------------------
(***************************************************************************)
(* The processes that share the files of one project: reconciliations of   *)
(* the service and `scan` commands, `evidence` commands, passes of the     *)
(* semantic lane, and `rebuild` commands.  Nothing locks: the database has *)
(* transactions, ATLAS.idx and evidence.json are replaced by renaming a    *)
(* temporary file of a fixed name.                                         *)
(*                                                                         *)
(* A snapshot has an id (the content of the tree it was scanned from),     *)
(* entities with the evidence recorded on them and the model's summaries,  *)
(* and edges.  It is whole, or the front part of one.                      *)
(***************************************************************************)
EXTENDS Naturals, FiniteSets

CONSTANTS
    Procs,      \* processes
    Jobs,       \* what a process may be started for
    Facts,      \* what evidence may say
    MaxEdits,   \* bound on the edits of the tree
    MaxStarts,  \* bound on the processes started
    MaxStops    \* bound on the processes that stop half-way

AllJobs == {"scan", "evidence", "enrich", "rebuild"}

ASSUME StoreAssumption ==
    /\ Jobs \subseteq AllJobs
    /\ MaxEdits \in Nat
    /\ MaxStarts \in Nat
    /\ MaxStops \in Nat

VARIABLES
    tree,      \* content of the tree
    db,        \* the snapshot in the database
    evidence,  \* evidence.json
    idx,       \* ATLAS.idx
    temp,      \* .ATLAS.idx.tmp
    pc,        \* pc[p]: what process p does next
    job,       \* job[p]: what it was started for
    snap,      \* snap[p]: the snapshot it assembles
    kept,      \* kept[p]: the evidence it read
    handle,    \* handle[p]: the file it has open for writing goes by this name
    recorded,  \* history: evidence written to evidence.json
    quiet,     \* history: nobody else did anything since p began
    crossed,   \* history: two processes had evidence.json in hand at once
    overlap,   \* history: two processes wrote ATLAS.idx at once
    starts,    \* processes started so far
    stops      \* processes stopped half-way

shared == <<tree, db, evidence, idx, temp>>
locals == <<pc, job, snap, kept, handle>>
ghosts == <<recorded, quiet, crossed, overlap, starts, stops>>
vars   == <<shared, locals, ghosts>>

\* Evidence is recorded on what the scan makes, a file or a group of files, or on a
\* symbol, which only the enrichment behind the scan adds.
Bearers  == {"file", "symbol"}
Record   == [fact : Facts, id : Nat, on : Bearers]
Entities == [of : Nat, ev : SUBSET Record, sum : BOOLEAN]
Snapshot == [id : Nat, ents : Entities, edges : Nat, whole : BOOLEAN]

Absent     == [id |-> 0, ents |-> [of |-> 0, ev |-> {}, sum |-> FALSE], edges |-> 0, whole |-> TRUE]
Scanned(t) == [id |-> t, ents |-> [of |-> t, ev |-> {}, sum |-> FALSE], edges |-> t, whole |-> TRUE]

\* A file: there is none, it has no bytes yet, the front part of a snapshot's text,
\* all of it, or the bytes of two writers.
File          == [text : {"none", "empty", "part", "full", "mixed"}, of : Snapshot]
Text(text, s) == [text |-> text, of |-> s]
None  == Text("none", Absent)
Empty == Text("empty", Absent)
Mixed == Text("mixed", Absent)

Points == {"idle", "id", "ents", "edges", "tree", "merge", "read", "write", "propose",
           "restore", "replace", "create", "part", "rest", "rename"}

TypeOK ==
    /\ tree \in Nat
    /\ db \in Snapshot
    /\ evidence \subseteq Record
    /\ idx \in File
    /\ temp \in File
    /\ pc \in [Procs -> Points]
    /\ job \in [Procs -> AllJobs]
    /\ snap \in [Procs -> Snapshot]
    /\ kept \in [Procs -> SUBSET Record]
    /\ handle \in [Procs -> {"none", "temp", "idx", "lost"}]
    /\ \A p \in Procs : handle[p] # "none" <=> pc[p] \in {"part", "rest", "rename"}
    /\ recorded \subseteq Record
    /\ quiet \in [Procs -> BOOLEAN]
    /\ crossed \in BOOLEAN
    /\ overlap \in BOOLEAN
    /\ starts \in Nat
    /\ stops \in Nat

\* A project nobody has scanned: no rows, no files.
Init ==
    /\ tree = 1
    /\ db = Absent
    /\ evidence = {}
    /\ idx = None
    /\ temp = None
    /\ pc = [p \in Procs |-> "idle"]
    /\ job = [p \in Procs |-> "scan"]
    /\ snap = [p \in Procs |-> Absent]
    /\ kept = [p \in Procs |-> {}]
    /\ handle = [p \in Procs |-> "none"]
    /\ recorded = {}
    /\ quiet = [p \in Procs |-> FALSE]
    /\ crossed = FALSE
    /\ overlap = FALSE
    /\ starts = 0
    /\ stops = 0

\* Somebody edits the tree.
Edit ==
    /\ tree < MaxEdits
    /\ tree' = tree + 1
    /\ quiet' = [p \in Procs |-> FALSE]
    /\ UNCHANGED <<db, evidence, idx, temp, locals, recorded, crossed, overlap, starts, stops>>

-----------------------------------------------------------------------------
(* Steps of a process.                                                     *)

\* Process p does something: nobody else is undisturbed any more.
Disturb(p) == quiet' = [q \in Procs |-> q = p /\ quiet[p]]

Goto(p, point) == pc' = [pc EXCEPT ![p] = point]

Start(p) ==
    /\ pc[p] = "idle"
    /\ starts < MaxStarts
    /\ starts' = starts + 1
    /\ \E j \in Jobs :
        /\ job' = [job EXCEPT ![p] = j]
        /\ Goto(p, IF j = "rebuild" THEN "restore" ELSE "id")
    /\ quiet' = [q \in Procs |-> q = p]
    /\ UNCHANGED <<shared, snap, kept, handle, recorded, crossed, overlap, stops>>

\* The process is done, or ends with an error: its files are closed.
Finish(p) ==
    /\ Goto(p, "idle")
    /\ job' = [job EXCEPT ![p] = "scan"]
    /\ snap' = [snap EXCEPT ![p] = Absent]
    /\ kept' = [kept EXCEPT ![p] = {}]
    /\ handle' = [handle EXCEPT ![p] = "none"]

\* load_snapshot, first statement: the id.  Without one there is no snapshot, which
\* a scan takes for "no previous snapshot" and the others for an error.
LoadId(p) ==
    /\ pc[p] = "id"
    /\ \/ /\ db # Absent
          /\ snap' = [snap EXCEPT ![p].id = db.id]
          /\ Goto(p, "ents")
          /\ UNCHANGED <<job, kept, handle>>
       \/ /\ db = Absent /\ job[p] = "scan"
          /\ Goto(p, "tree")
          /\ UNCHANGED <<job, snap, kept, handle>>
       \/ /\ db = Absent /\ job[p] # "scan"
          /\ Finish(p)
    /\ Disturb(p)
    /\ UNCHANGED <<shared, recorded, crossed, overlap, starts, stops>>

\* Second statement: the entities, of whatever snapshot is there by now.
LoadEntities(p) ==
    /\ pc[p] = "ents"
    /\ snap' = [snap EXCEPT ![p].ents = db.ents, ![p].whole = db.whole]
    /\ Goto(p, "edges")
    /\ Disturb(p)
    /\ UNCHANGED <<shared, job, kept, handle, recorded, crossed, overlap, starts, stops>>

\* Third statement: the edges.
LoadEdges(p) ==
    /\ pc[p] = "edges"
    /\ \/ /\ job[p] = "enrich" /\ snap[p].ents.sum
          /\ Finish(p)
       \/ /\ job[p] = "enrich" => ~snap[p].ents.sum
          /\ snap' = [snap EXCEPT ![p].edges = db.edges]
          /\ Goto(p, IF job[p] = "scan" THEN "tree"
                     ELSE IF job[p] = "evidence" THEN "read" ELSE "propose")
          /\ UNCHANGED <<job, kept, handle>>
    /\ Disturb(p)
    /\ UNCHANGED <<shared, recorded, crossed, overlap, starts, stops>>

\* Mutant: the summaries are not carried over.
ScanTreeForgets(p) ==
    /\ pc[p] = "tree"
    /\ snap' = [snap EXCEPT ![p] = Scanned(tree)]
    /\ Goto(p, "merge")
    /\ Disturb(p)
    /\ UNCHANGED <<shared, job, kept, handle, recorded, crossed, overlap, starts, stops>>

\* The scan reads the tree; reconcile_identity carries the summaries of the previous
\* snapshot over to what is still there.
ScanTree(p) ==
    /\ pc[p] = "tree"
    /\ snap' = [snap EXCEPT ![p] = [Scanned(tree) EXCEPT !.ents.sum = snap[p].ents.sum]]
    /\ Goto(p, "merge")
    /\ Disturb(p)
    /\ UNCHANGED <<shared, job, kept, handle, recorded, crossed, overlap, starts, stops>>

\* Mutant: evidence on any snapshot is merged.
MergeAllEvidence(p) ==
    /\ pc[p] = "merge"
    /\ snap' = [snap EXCEPT ![p].ents.ev = {r \in evidence : r.on = "file"}]
    /\ Goto(p, "replace")
    /\ Disturb(p)
    /\ UNCHANGED <<shared, job, kept, handle, recorded, crossed, overlap, starts, stops>>

\* The evidence a scan of tree t finds a place for: that on this very snapshot, and
\* not on symbols, which the snapshot does not have yet.
Mergeable(t) == {r \in evidence : r.id = t /\ r.on = "file"}

\* merge_recorded_evidence.
MergeEvidence(p) ==
    /\ pc[p] = "merge"
    /\ snap' = [snap EXCEPT ![p].ents.ev = Mergeable(snap[p].id)]
    /\ Goto(p, "replace")
    /\ Disturb(p)
    /\ UNCHANGED <<shared, job, kept, handle, recorded, crossed, overlap, starts, stops>>

\* Another process holds what it read of evidence.json and has yet to write it.
InHand(q) == pc[q] = "write"

\* `evidence` reads evidence.json ...
ReadEvidence(p) ==
    /\ pc[p] = "read"
    /\ kept' = [kept EXCEPT ![p] = evidence]
    /\ Goto(p, "write")
    /\ crossed' = (crossed \/ \E q \in Procs \ {p} : InHand(q))
    /\ Disturb(p)
    /\ UNCHANGED <<shared, job, snap, handle, recorded, overlap, starts, stops>>

\* What one command records: a fact on one entity, or with --recursive on all it
\* contains as well.
NewEvidence(t) ==
    {{[fact |-> f, id |-> t, on |-> b] : b \in on} : f \in Facts, on \in (SUBSET Bearers) \ {{}}}

\* Mutant: the file is replaced by the new evidence alone.
WriteEvidenceAlone(p) ==
    /\ pc[p] = "write"
    /\ \E new \in NewEvidence(snap[p].id) :
        /\ evidence' = new
        /\ recorded' = recorded \cup new
        /\ snap' = [snap EXCEPT ![p].ents.ev = @ \cup new]
    /\ Goto(p, "replace")
    /\ Disturb(p)
    /\ UNCHANGED <<tree, db, idx, temp, job, kept, handle, crossed, overlap, starts, stops>>

\* ... adds its own, on the snapshot it loaded, and writes the file again.
WriteEvidence(p) ==
    /\ pc[p] = "write"
    /\ \E new \in NewEvidence(snap[p].id) :
        /\ evidence' = kept[p] \cup new
        /\ recorded' = recorded \cup new
        /\ snap' = [snap EXCEPT ![p].ents.ev = @ \cup new]
    /\ Goto(p, "replace")
    /\ Disturb(p)
    /\ UNCHANGED <<tree, db, idx, temp, job, kept, handle, crossed, overlap, starts, stops>>

\* The model answers and its proposal is admitted, or it is not and nothing is stored.
Propose(p) ==
    /\ pc[p] = "propose"
    /\ \/ /\ snap' = [snap EXCEPT ![p].ents.sum = TRUE]
          /\ Goto(p, "replace")
          /\ UNCHANGED <<job, kept, handle>>
       \/ Finish(p)
    /\ Disturb(p)
    /\ UNCHANGED <<shared, recorded, crossed, overlap, starts, stops>>

\* What decoding ATLAS.idx may yield.  There is no end mark: the front part of a file
\* is a snapshot too.  A summary comes back as a record, and the database has no
\* place for records.
Decoded(file) ==
    {[s EXCEPT !.ents.sum = FALSE] : s \in
        IF file.text = "full" THEN {file.of}
        ELSE IF file.text = "part" THEN {[file.of EXCEPT !.whole = FALSE]}
        ELSE IF file.text = "mixed" THEN {[Scanned(t) EXCEPT !.whole = FALSE] : t \in 1 .. tree}
        ELSE {}}

\* `rebuild` reads ATLAS.idx, or refuses to.
Restore(p) ==
    /\ pc[p] = "restore"
    /\ \/ \E s \in Decoded(idx) :
            /\ snap' = [snap EXCEPT ![p] = s]
            /\ Goto(p, "replace")
            /\ UNCHANGED <<job, kept, handle>>
       \/ /\ idx.text # "full"
          /\ Finish(p)
    /\ Disturb(p)
    /\ UNCHANGED <<shared, recorded, crossed, overlap, starts, stops>>

\* replace_snapshot: one transaction.
Replace(p) ==
    /\ pc[p] = "replace"
    /\ db' = snap[p]
    /\ \/ job[p] = "rebuild" /\ Finish(p)
       \/ job[p] # "rebuild" /\ Goto(p, "create") /\ UNCHANGED <<job, snap, kept, handle>>
    /\ Disturb(p)
    /\ UNCHANGED <<tree, evidence, idx, temp, recorded, crossed, overlap, starts, stops>>

\* Mutant: the text is written where it belongs at once.
CreateInPlace(p) ==
    /\ pc[p] = "create"
    /\ idx' = Empty
    /\ temp' = Text("full", snap[p])
    /\ handle' = [handle EXCEPT ![p] = "idx"]
    /\ Goto(p, "part")
    /\ overlap' = (overlap \/ \E q \in Procs \ {p} : handle[q] # "none")
    /\ Disturb(p)
    /\ UNCHANGED <<tree, db, evidence, job, snap, kept, recorded, crossed, starts, stops>>

\* atomic_write opens the temporary file: whoever has it open too sees it truncated.
Create(p) ==
    /\ pc[p] = "create"
    /\ temp' = Empty
    /\ handle' = [handle EXCEPT ![p] = "temp"]
    /\ Goto(p, "part")
    /\ overlap' = (overlap \/ \E q \in Procs \ {p} : handle[q] # "none")
    /\ Disturb(p)
    /\ UNCHANGED <<tree, db, evidence, idx, job, snap, kept, recorded, crossed, starts, stops>>

\* The file p has open now holds this.
Hold(p, file) ==
    /\ temp' = IF handle[p] = "temp" THEN file ELSE temp
    /\ idx' = IF handle[p] = "idx" THEN file ELSE idx

Held(p) == IF handle[p] = "temp" THEN temp ELSE IF handle[p] = "idx" THEN idx ELSE Empty

\* write_all has written some of the text ...
WritePart(p) ==
    /\ pc[p] = "part"
    /\ Hold(p, IF Held(p) = Empty THEN Text("part", snap[p]) ELSE Mixed)
    /\ Goto(p, "rest")
    /\ Disturb(p)
    /\ UNCHANGED <<tree, db, evidence, job, snap, kept, handle, recorded, crossed, overlap, starts, stops>>

\* ... and the rest of it; a longer text of another writer may show behind it.
WriteRest(p) ==
    /\ pc[p] = "rest"
    /\ \E file \in (IF Held(p) = Text("part", snap[p]) THEN {Text("full", snap[p])}
                     ELSE {Text("full", snap[p]), Mixed}) :
          Hold(p, file)
    /\ Goto(p, "rename")
    /\ Disturb(p)
    /\ UNCHANGED <<tree, db, evidence, job, snap, kept, handle, recorded, crossed, overlap, starts, stops>>

\* rename: ATLAS.idx is now the file that went by the temporary name, whoever wrote
\* it, and who still has it open goes on writing it; without one it is an error.
Rename(p) ==
    /\ pc[p] = "rename"
    /\ \/ /\ temp # None
          /\ idx' = temp
          /\ temp' = None
          /\ handle' = [q \in Procs |-> IF q = p THEN "none"
                                        ELSE IF handle[q] = "idx" THEN "lost"
                                        ELSE IF handle[q] = "temp" THEN "idx" ELSE handle[q]]
       \/ /\ temp = None
          /\ handle' = [handle EXCEPT ![p] = "none"]
          /\ UNCHANGED <<idx, temp>>
    /\ Goto(p, "idle")
    /\ job' = [job EXCEPT ![p] = "scan"]
    /\ snap' = [snap EXCEPT ![p] = Absent]
    /\ kept' = [kept EXCEPT ![p] = {}]
    /\ Disturb(p)
    /\ UNCHANGED <<tree, db, evidence, recorded, crossed, overlap, starts, stops>>

\* A crash, or an error (the database is locked, a disk is full): the process ends
\* where it is.
Stop(p) ==
    /\ pc[p] # "idle"
    /\ stops < MaxStops
    /\ stops' = stops + 1
    /\ Finish(p)
    /\ Disturb(p)
    /\ UNCHANGED <<shared, recorded, crossed, overlap, starts>>

Step(p) ==
    \/ Start(p) \/ LoadId(p) \/ LoadEntities(p) \/ LoadEdges(p)
    \/ ScanTree(p) \/ MergeEvidence(p)
    \/ ReadEvidence(p) \/ WriteEvidence(p)
    \/ Propose(p)
    \/ Restore(p)
    \/ Replace(p)
    \/ Create(p) \/ WritePart(p) \/ WriteRest(p) \/ Rename(p)
    \/ Stop(p)

Next == Edit \/ \E p \in Procs : Step(p)

Spec == Init /\ [][Next]_vars
-----------------------------------------------------------------------------
(* What the shared store promises.                                         *)

\* A scan nobody disturbs heals everything but one thing: whatever earlier processes
\* overwrote, lost, tore or left behind half-done, the database then shows the tree
\* with all evidence recorded on its files and groups, and ATLAS.idx shows the
\* database.  Evidence recorded on symbols it leaves out (scan.rs:308 merges before the
\* enrichment adds them).
QuietScanHeals ==
    [][\A p \in Procs :
         pc[p] = "rename" /\ pc'[p] = "idle" /\ stops' = stops /\ job[p] = "scan" /\ quiet[p] =>
             /\ db = [Scanned(tree) EXCEPT !.ents.ev = Mergeable(tree), !.ents.sum = db.ents.sum]
             /\ idx' = Text("full", db)]_vars

\* Whatever went on before, a process nobody disturbs undoes nothing when it replaces
\* the snapshot: the tree shown is no older, the model's summaries stay (semantic.rs:
\* "A persisted enrichment survives the next reconcile"), and if it is the same tree so
\* does the evidence recorded on it, that on symbols excepted if the process is a scan,
\* unless two `evidence` commands crossed.  Not a rebuild, which may go back to an older
\* ATLAS.idx.
UndisturbedUndoesNothing ==
    [][\A p \in Procs :
         pc[p] = "replace" /\ pc'[p] = "create" /\ quiet[p] =>
             /\ db.id <= db'.id
             /\ db.ents.sum => db'.ents.sum
             /\ ~crossed /\ db.id = db'.id =>
                    {r \in db.ents.ev : r.id = db.id /\ (job[p] = "scan" => r.on = "file")}
                        \subseteq db'.ents.ev]_vars

\* As long as no two processes wrote it at once, ATLAS.idx is never the front part of
\* a file, wherever writers stop, and a rebuild from it never fills the database with
\* the front part of a snapshot (rebuild.rs: "Every failure path here is closed").
WholeUnlessOverlap ==
    ~overlap => idx.text \in {"none", "full"} /\ idx.of.whole /\ db.whole

\* Evidence that was recorded stays in evidence.json, through scans, crashes and
\* stale snapshots, as long as no two `evidence` commands cross.
EvidenceIsKept == ~crossed => recorded \subseteq evidence
=============================================================================
