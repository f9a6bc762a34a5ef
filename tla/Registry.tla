------------------------------ MODULE Registry ------------------------------
(***************************************************************************)
(* The ids of files and of the groups they form (systems and planets): the *)
(* identity registry that carries them from one scan to the next while     *)
(* files are written, deleted and renamed, scans overlap, and scans stop   *)
(* between the registry and the database.  The registry is replaced by     *)
(* renaming a temporary file of a fixed name, which nothing locks.         *)
(*                                                                         *)
(* A walk of the tree is one step: what it sees while files move is what   *)
(* it would see in some tree that holds still.                             *)
(***************************************************************************)
EXTENDS Naturals, FiniteSets

CONSTANTS
    Paths,      \* paths a file may have
    SystemOf,   \* the system a path belongs to
    PlanetOf,   \* the planet a path belongs to
    Contents,   \* what a file may hold
    Gone,       \* no such file
    Procs,      \* processes that scan: the service, `scan` commands
    MaxEdits,   \* bound on the edits of the tree ...
    MaxRaced    \* ... and, if scans overlap, on those before and after they do

ASSUME RegistryAssumption ==
    /\ Gone \notin Contents
    /\ SystemOf \in [Paths -> STRING]
    /\ PlanetOf \in [Paths -> STRING]
    /\ \A p, q \in Paths : PlanetOf[p] = PlanetOf[q] => SystemOf[p] = SystemOf[q]
    /\ MaxEdits \in Nat /\ MaxRaced \in 0 .. MaxEdits

VARIABLES
    disk,      \* disk[p]: the file's content
    registry,  \* the records of identities.json
    torn,      \* identities.json is not the text of a registry
    temp,      \* .identities.json.tmp
    handle,    \* handle[s]: the file process s has open for writing goes by this name
    db,        \* the ids the database shows
    pc,        \* pc[s]: what process s does next
    mine,      \* mine[s]: the records it holds: those it read, then those it made
    edits,     \* edits of the tree so far
    basis,     \* history: the tree the registry in place was made from
    from,      \* history: from[s]: the tree process s walked
    absent,    \* history: absent[s]: files that were gone at some time since s walked
    stays,     \* history: stays[p]: the id p was shown under, if it was there ever since
    overlap,   \* history: two scans were under way at once
    crossed    \* history: two scans saved the registry at once

files   == <<registry, torn, temp, handle, basis>>
history == <<from, absent, stays, overlap, crossed>>
vars    == <<disk, db, pc, mine, edits, files, history>>

Kinds == {"file", "system", "planet"}
None  == [none |-> TRUE]
Empty == [p \in Paths |-> Gone]   \* the tree without a file

\* The id a thing of that kind is given when it is first seen under that key.
stable_id(kind, key) == [kind |-> kind, key |-> key]

\* A file: there is none, it has no bytes yet, all of the text of the records of a tree,
\* or bytes of two writers or of one that stopped.
File(text, records, tree) == [text |-> text, records |-> records, basis |-> tree]
NoFile    == File("none", {}, Empty)
Truncated == File("empty", {}, Empty)
Mixed     == File("mixed", {}, Empty)

Record(kind, key, id, print) == [kind |-> kind, key |-> key, id |-> id, print |-> print]

Init ==
    /\ disk \in [Paths -> Contents \cup {Gone}]
    /\ registry = {}
    /\ torn = FALSE
    /\ temp = NoFile
    /\ handle = [s \in Procs |-> "none"]
    /\ db = {}
    /\ pc = [s \in Procs |-> "idle"]
    /\ mine = [s \in Procs |-> {}]
    /\ edits = 0
    /\ basis = Empty
    /\ from = [s \in Procs |-> Empty]
    /\ absent = [s \in Procs |-> {}]
    /\ stays = [p \in Paths |-> None]
    /\ overlap = FALSE
    /\ crossed = FALSE
-----------------------------------------------------------------------------
(* What a scan makes of the tree and of the records `previous` it read.     *)

Present == {p \in Paths : disk[p] # Gone}

At(records, kind, key) == {r \in records : r.kind = kind /\ r.key = key}

\* Mutant: the other thing need not be gone.
MovedOrCopied(previous, kind, print, current) ==
    {r \in previous : r.kind = kind /\ r.print = print}

\* The records of that kind and content whose key is no longer there.
Moved(previous, kind, print, current) ==
    {r \in previous : r.kind = kind /\ r.print = print /\ r.key \notin current}

\* Mutant: the content counts for more than the path.
reconcile_idByContent(previous, kind, key, print, current) ==
    LET here  == At(previous, kind, key)
        moved == Moved(previous, kind, print, current)
    IN IF Cardinality(moved) = 1 THEN (CHOOSE r \in moved : TRUE).id
       ELSE IF here # {} THEN (CHOOSE r \in here : TRUE).id
       ELSE stable_id(kind, key)

\* The record at this key keeps its id; otherwise the one thing of that kind and
\* content that is no longer at its key has moved here; otherwise it is new.
reconcile_id(previous, kind, key, print, current) ==
    LET here  == At(previous, kind, key)
        moved == Moved(previous, kind, print, current)
    IN IF here # {} THEN (CHOOSE r \in here : TRUE).id
       ELSE IF Cardinality(moved) = 1 THEN (CHOOSE r \in moved : TRUE).id
       ELSE stable_id(kind, key)

FileId(previous, p) == reconcile_id(previous, "file", p, disk[p], Present)

FileRecords(previous) ==
    {Record("file", p, FileId(previous, p), disk[p]) : p \in Present}

\* The groups the files make up; a group's content is the ids of its files.
GroupRecords(previous, kind, Of) ==
    LET current    == {Of[p] : p \in Present}
        Makeup(key) == {FileId(previous, p) : p \in {q \in Present : Of[q] = key}}
    IN {Record(kind, key, reconcile_id(previous, kind, key, Makeup(key), current), Makeup(key)) :
          key \in current}

Records(previous) ==
    FileRecords(previous) \cup GroupRecords(previous, "system", SystemOf)
                          \cup GroupRecords(previous, "planet", PlanetOf)

Shared(records, kinds) ==
    \E r, q \in records : r # q /\ r.kind \in kinds /\ r.kind = q.kind /\ r.id = q.id

\* Two files of one id are a duplicate entity, which the hierarchy refuses.  Groups
\* of one id are not: the scan adds a group only if no entity has its id yet.
Refused(records) == Shared(records, {"file"})
-----------------------------------------------------------------------------
(* Actions.                                                                *)

\* No other scan is under way.
Alone(s) == \A t \in Procs \ {s} : pc[t] = "idle"

\* The process has records of its own.
Holding(s) == pc[s] \in {"save", "write", "rename", "commit"}

\* The tree after an edit; absent files are so to whoever is scanning.
Becomes(tree) ==
    /\ edits < (IF overlap THEN MaxRaced ELSE MaxEdits)
    /\ edits' = edits + 1
    /\ disk' = tree
    /\ LET gone == {p \in Paths : tree[p] = Gone} IN
        /\ absent' = [s \in Procs |-> IF Holding(s) THEN absent[s] \cup gone
                                                                     ELSE {}]
        /\ stays' = [p \in Paths |-> IF p \in gone THEN None ELSE stays[p]]
    /\ UNCHANGED <<files, db, pc, mine, from, overlap, crossed>>

\* A file is written or deleted ...
Write(p) == \E c \in (Contents \cup {Gone}) \ {disk[p]} : Becomes([disk EXCEPT ![p] = c])

\* ... or renamed.
Rename(p, q) ==
    /\ disk[p] # Gone /\ disk[q] = Gone
    /\ Becomes([disk EXCEPT ![p] = Gone, ![q] = disk[p]])

\* A scan reads the registry, or fails on what it finds there ...
Load(s) ==
    /\ pc[s] = "idle"
    /\ ~torn
    /\ Alone(s) \/ edits <= MaxRaced
    /\ mine' = [mine EXCEPT ![s] = registry]
    /\ pc' = [pc EXCEPT ![s] = "walk"]
    /\ overlap' = (overlap \/ ~Alone(s))
    /\ UNCHANGED <<disk, files, db, edits, from, absent, stays, crossed>>

\* ... walks the tree and gives out the ids; if the hierarchy refuses them, the
\* scan can only Stop, with nothing written.
Walk(s) ==
    /\ pc[s] = "walk"
    /\ ~Refused(Records(mine[s]))
    /\ mine' = [mine EXCEPT ![s] = Records(mine[s])]
    /\ from' = [from EXCEPT ![s] = disk]
    /\ absent' = [absent EXCEPT ![s] = {}]
    /\ pc' = [pc EXCEPT ![s] = "save"]
    /\ UNCHANGED <<disk, files, db, edits, stays, overlap, crossed>>

\* Mutant: the registry is written where it belongs at once.
CreateInPlace(s) ==
    /\ pc[s] = "save"
    /\ torn' = TRUE
    /\ registry' = {}
    /\ basis' = Empty
    /\ temp' = File("whole", mine[s], from[s])
    /\ handle' = [handle EXCEPT ![s] = "place"]
    /\ crossed' = (crossed \/ \E t \in Procs \ {s} : handle[t] # "none")
    /\ pc' = [pc EXCEPT ![s] = "write"]
    /\ UNCHANGED <<disk, db, mine, edits, from, absent, stays, overlap>>

\* It saves them.  atomic_write opens the temporary file: whoever has it open too sees
\* it truncated.
Create(s) ==
    /\ pc[s] = "save"
    /\ temp' = Truncated
    /\ handle' = [handle EXCEPT ![s] = "temp"]
    /\ crossed' = (crossed \/ \E t \in Procs \ {s} : handle[t] # "none")
    /\ pc' = [pc EXCEPT ![s] = "write"]
    /\ UNCHANGED <<disk, registry, torn, db, mine, edits, basis, from, absent, stays, overlap>>

\* This file is identities.json now.
InPlace(file) ==
    /\ registry' = file.records
    /\ basis' = file.basis
    /\ torn' = (file.text # "whole")

\* The file s has open now holds this.
Hold(s, file) ==
    \/ handle[s] = "temp" /\ temp' = file /\ UNCHANGED <<registry, basis, torn>>
    \/ handle[s] = "place" /\ InPlace(file) /\ UNCHANGED temp
    \/ handle[s] = "lost" /\ UNCHANGED <<registry, basis, torn, temp>>

\* Nobody but s has written to the file it has open.
Untouched(s) ==
    /\ handle[s] = "temp" /\ temp = Truncated
    /\ \A t \in Procs \ {s} : handle[t] # "temp"

\* Mutant: records of files that are gone are kept.
WriteMerged(s) ==
    /\ pc[s] = "write"
    /\ LET merged == mine[s] \cup {r \in registry : \A q \in mine[s] : <<q.kind, q.key>> # <<r.kind, r.key>>}
       IN \E file \in {File("whole", merged, from[s])} \cup (IF Untouched(s) THEN {} ELSE {Mixed}) :
              Hold(s, file)
    /\ pc' = [pc EXCEPT ![s] = "rename"]
    /\ UNCHANGED <<disk, db, mine, edits, handle, from, absent, stays, overlap, crossed>>

\* write_all: the text is there, unless another writer's bytes show behind or in it.
WriteAll(s) ==
    /\ pc[s] = "write"
    /\ \E file \in {File("whole", mine[s], from[s])} \cup (IF Untouched(s) THEN {} ELSE {Mixed}) :
          Hold(s, file)
    /\ pc' = [pc EXCEPT ![s] = "rename"]
    /\ UNCHANGED <<disk, db, mine, edits, handle, from, absent, stays, overlap, crossed>>

\* rename: identities.json is now the file that went by the temporary name, whoever
\* wrote it; who still has it open goes on writing it.  Without one the scan fails.
Replace(s) ==
    /\ pc[s] = "rename"
    /\ temp # NoFile
    /\ InPlace(temp)
    /\ temp' = NoFile
    /\ handle' = [t \in Procs |-> IF t = s THEN "none"
                                  ELSE IF handle[t] = "place" THEN "lost"
                                  ELSE IF handle[t] = "temp" THEN "place" ELSE handle[t]]
    /\ pc' = [pc EXCEPT ![s] = "commit"]
    /\ UNCHANGED <<disk, db, mine, edits, from, absent, stays, overlap, crossed>>

\* ... and, when the index is complete, the database.
Commit(s) ==
    /\ pc[s] = "commit"
    /\ db' = mine[s]
    /\ stays' = [p \in Paths |->
                    IF stays[p] = None /\ p \notin absent[s]
                    THEN LET shown == {r.id : r \in {q \in mine[s] : q.kind = "file" /\ q.key = p}}
                         IN IF shown = {} THEN None ELSE CHOOSE id \in shown : TRUE
                    ELSE stays[p]]
    /\ pc' = [pc EXCEPT ![s] = "idle"]
    /\ mine' = [mine EXCEPT ![s] = {}]
    /\ from' = [from EXCEPT ![s] = Empty]
    /\ absent' = [absent EXCEPT ![s] = {}]
    /\ UNCHANGED <<disk, files, edits, overlap, crossed>>

\* The scan or the index fails, the commit fails, or the process ends, with some of
\* what it was writing in the file.
Stop(s) ==
    /\ pc[s] # "idle"
    /\ \/ UNCHANGED <<registry, torn, temp, basis>>
       \/ pc[s] = "write" /\ Hold(s, Mixed)
    /\ handle' = [handle EXCEPT ![s] = "none"]
    /\ pc' = [pc EXCEPT ![s] = "idle"]
    /\ mine' = [mine EXCEPT ![s] = {}]
    /\ from' = [from EXCEPT ![s] = Empty]
    /\ absent' = [absent EXCEPT ![s] = {}]
    /\ UNCHANGED <<disk, db, edits, stays, overlap, crossed>>

Next ==
    \/ \E p \in Paths : Write(p)
    \/ \E p, q \in Paths : Rename(p, q)
    \/ \E s \in Procs :
          \/ Load(s) \/ Walk(s)
          \/ Create(s) \/ WriteAll(s) \/ Replace(s)
          \/ Commit(s) \/ Stop(s)

Spec == Init /\ [][Next]_vars
-----------------------------------------------------------------------------
(* Properties.                                                             *)

Ids == {[kind |-> k, key |-> p] : k \in {"file"}, p \in Paths}
       \cup {[kind |-> k, key |-> SystemOf[p]] : k \in {"system"}, p \in Paths}
       \cup {[kind |-> k, key |-> PlanetOf[p]] : k \in {"planet"}, p \in Paths}

Wellformed(records) ==
    /\ \A r \in records :
        /\ r.id \in Ids /\ stable_id(r.kind, r.key) \in Ids
        /\ r.id.kind = r.kind
        /\ r.print \in (IF r.kind = "file" THEN Contents ELSE (SUBSET Ids) \ {{}})
    /\ \A r, q \in records : r.kind = q.kind /\ r.key = q.key => r = q

\* Every variable has its type, and a registry, the database or a scan in hand holds
\* at most one record for a key.
TypeOK ==
    /\ disk \in [Paths -> Contents \cup {Gone}]
    /\ Wellformed(registry) /\ Wellformed(temp.records) /\ Wellformed(db)
    /\ torn \in BOOLEAN
    /\ temp = File(temp.text, temp.records, temp.basis)
    /\ temp.text \in {"none", "empty", "whole", "mixed"}
    /\ temp.basis \in [Paths -> Contents \cup {Gone}]
    /\ handle \in [Procs -> {"none", "temp", "place", "lost"}]
    /\ pc \in [Procs -> {"idle", "walk", "save", "write", "rename", "commit"}]
    /\ \A s \in Procs : handle[s] # "none" <=> pc[s] \in {"write", "rename"}
    /\ DOMAIN mine = Procs /\ \A s \in Procs : Wellformed(mine[s])
    /\ edits \in 0 .. MaxEdits
    /\ basis \in [Paths -> Contents \cup {Gone}]
    /\ from \in [Procs -> [Paths -> Contents \cup {Gone}]]
    /\ absent \in [Procs -> SUBSET Paths]
    /\ stays \in [Paths -> Ids \cup {None}]
    /\ overlap \in BOOLEAN /\ crossed \in BOOLEAN

\* As long as no two scans saved it at once, identities.json is a registry, wherever
\* scans overlap otherwise and stop: the next scan can begin (atomic_write).
RegistryIsWhole == ~crossed => ~torn

\* While the tree is as it was when the registry was made, a scan that could read it
\* succeeds and gives every file and group the id it has, even one that follows a scan
\* stopped before its commit or two that saved at once (scan_project_with).
StillTreeStillIds == basis = disk => Records(registry) = registry /\ ~Refused(registry)

\* If scans never overlap, a file shown under an id and there ever since is shown
\* under that id, whatever its content is, whatever others do and wherever scans
\* stopped (reconcile_id, whose first choice is the record at the path).
StayingFilesKeepTheirIds ==
    ~overlap => \A p \in Paths : stays[p] # None =>
                    \A r \in At(db, "file", p) : r.id = stays[p]

\* A scan is refused for two reasons only: a path is used again while the id derived
\* from it lives on in a file that moved away, or two new files are copies of one
\* that is gone (reconcile_id).
RefusedForReason ==
    Refused(Records(registry)) =>
        LET new == {p \in Present : At(registry, "file", p) = {}} IN
        \/ \E p \in new : \E r \in registry :
                r.kind = "file" /\ r.key # p /\ r.id = stable_id("file", p)
        \/ \E p, q \in new : p # q /\ disk[p] = disk[q] /\ \E r \in registry :
                r.kind = "file" /\ r.key \notin Present /\ r.print = disk[p]
=============================================================================
