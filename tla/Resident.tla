------------------------------ MODULE Resident ------------------------------
(***************************************************************************)
(* The resident service of creature-context: run_service_multi and what it *)
(* drives, the watcher, the durable event journal with its applied         *)
(* markers, the coordinator, and one reconciliation (scan, store commit,   *)
(* projections) at a time, for several roots in one thread.                *)
(*                                                                         *)
(* The content of a file is the number of the edit that wrote it, so the   *)
(* database and the ATLAS.idx projection of a root are functions from      *)
(* files to edit numbers.  An event carries, besides its id, the state of  *)
(* the tree when the watcher observed it (need, a history field): a        *)
(* reconciliation begun after that has to produce a snapshot at least      *)
(* that new.                                                               *)
(***************************************************************************)
EXTENDS Naturals, FiniteSets

CONSTANTS
    N,               \* number of roots one daemon serves
    Files,           \* source files of a root
    Unwatched,       \* those of them the watcher never speaks of: the scanner reads a
                     \* file called x.tmp or target, the watcher drops its path
    Outputs,         \* paths the service itself writes under a root
    Broken,          \* roots whose reconciliation fails every time
    InitialMayFail,  \* may the reconciliation at start-up fail transiently
    MayIngest,       \* may a client append events with `ingest`
    MaxEdits,        \* bound on the edits of a behaviour
    MaxFaults,       \* bound on crashes and transient failures, together
    MaxEvents        \* bound on the event ids a behaviour may draw

Roots == 1 .. N

ASSUME ResidentAssumption ==
    /\ N \in Nat \ {0}
    /\ Broken \subseteq Roots
    /\ Files \cap Outputs = {}
    /\ Unwatched \subseteq Files
    /\ InitialMayFail \in BOOLEAN
    /\ MayIngest \in BOOLEAN
    /\ MaxEdits \in Nat
    /\ MaxFaults \in Nat
    /\ MaxEvents \in Nat

VARIABLES
    disk,      \* disk[r][f]: last edit of file f
    store,     \* store[r][f]: the edit the committed snapshot read
    proj,      \* proj[r][f]: the edit the root ATLAS.idx describes
    folders,   \* folders[r][f]: the edit the ATLAS.idx of f's folder describes
    journal,   \* journal[r]: events in .creature/journal.jsonl
    marks,     \* marks[r]: events whose id is in journal.applied
    raw,       \* raw[r]: notifications the backend has not handed over
    chan,      \* chan[r]: events in the watcher's mpsc channel
    pending,   \* pending[r]: Coordinator::pending
    done,      \* done[r]: Coordinator::applied
    watching,  \* roots whose RuntimeWatcher exists
    current,   \* history: roots reconciled since the service started
    untold,    \* history, untold[r]: files whose last edit reached the watcher as no
               \* more than an event of kind Other
    pc,        \* where the service thread is
    cur,       \* the root it is working on
    boot,      \* the reconciliation running is the one at start-up
    todo,      \* files the scan has yet to read, or whose folder's ATLAS.idx has
               \* yet to be written
    seen,      \* seen[f]: the edit the running scan read
    edits,     \* edits made so far
    nextId,    \* next event id (Uuid::now_v7: ids grow)
    faults     \* crashes and transient failures so far

diskVars   == <<store, proj, folders, journal, marks>>
watchVars  == <<raw, chan, watching, nextId>>
memVars    == <<pending, done, current>>
threadVars == <<pc, cur, boot, todo, seen>>
vars == <<disk, diskVars, watchVars, memVars, untold, threadVars, edits, faults>>

Versions == [Files -> Nat]
Event    == [id : Nat, need : Versions]
Paths    == Files \cup Outputs
Lost     == [kind |-> "Err", path |-> "none"]
Flagged  == [kind |-> "Other", path |-> "none"]
Note     == [kind : {"Change", "Access"}, path : Paths] \cup {Lost, Flagged}
Steps    == {"down", "failed", "open", "scan", "project", "folders", "drain", "mark", "tick"}
Up       == pc \notin {"down", "failed"}

AtMost(x, y) == \A f \in Files : x[f] <= y[f]
Oldest(E)    == {e \in E : \A o \in E : e.id <= o.id}

TypeOK ==
    /\ disk \in [Roots -> Versions]
    /\ store \in [Roots -> Versions]
    /\ proj \in [Roots -> Versions]
    /\ folders \in [Roots -> Versions]
    /\ journal \in [Roots -> SUBSET Event]
    /\ marks \in [Roots -> SUBSET Event]
    /\ raw \in [Roots -> SUBSET Note]
    /\ chan \in [Roots -> SUBSET Event]
    /\ pending \in [Roots -> SUBSET Event]
    /\ done \in [Roots -> SUBSET Event]
    /\ watching \subseteq Roots
    /\ current \subseteq Roots
    /\ untold \in [Roots -> SUBSET Files]
    /\ pc \in Steps
    /\ cur \in Roots
    /\ boot \in BOOLEAN
    /\ todo \subseteq Files
    /\ seen \in Versions
    /\ edits \in Nat
    /\ nextId \in Nat
    /\ faults \in Nat

None   == [r \in Roots |-> {}]
Blank  == [f \in Files |-> 0]

\* A tree whose files were all written before the service first runs, and a
\* project nobody has scanned.
Init ==
    /\ disk = [r \in Roots |-> [f \in Files |-> 1]]
    /\ store = [r \in Roots |-> Blank]
    /\ proj = [r \in Roots |-> Blank]
    /\ folders = [r \in Roots |-> Blank]
    /\ journal = None
    /\ marks = None
    /\ raw = None
    /\ chan = None
    /\ pending = None
    /\ done = None
    /\ watching = {}
    /\ current = {}
    /\ untold = None
    /\ pc = "down"
    /\ cur = 1
    /\ boot = FALSE
    /\ todo = {}
    /\ seen = Blank
    /\ edits = 1
    /\ nextId = 1
    /\ faults = 0

-----------------------------------------------------------------------------
(* The world outside the service thread.                                   *)

\* Notifications appended to the backend's queue of r, if r is watched.
Notify(r, notes) ==
    raw' = [raw EXCEPT ![r] = IF r \in watching THEN @ \cup notes ELSE @]

\* Somebody saves file f.  The backend reports the change, or drops it and reports
\* an error instead, or (inotify's and FSEvents' queue overrun) an event of kind
\* Other with the rescan flag.
Edit(r, f) ==
    /\ edits < MaxEdits
    /\ edits' = edits + 1
    /\ disk' = [disk EXCEPT ![r][f] = edits + 1]
    /\ \E note \in {[kind |-> "Change", path |-> f], Lost, Flagged} :
        /\ Notify(r, {note})
        /\ untold' = [untold EXCEPT ![r] = IF note = Flagged /\ r \in watching
                                           THEN @ \cup {f} ELSE @ \ {f}]
    /\ UNCHANGED <<diskVars, chan, watching, nextId, memVars, threadVars, faults>>

\* Mutant: the service's own outputs are not filtered.
RelevantUnfiltered(note) == note = Lost \/ note.kind = "Change"

\* The filter of the watcher's callback: what becomes a RuntimeEvent.  An error
\* becomes an Overflow.  Reads are noise, an event of kind Other is dropped whatever
\* flag it carries, and so is every path of the service's own outputs and every
\* path with an excluded name or ending.
Relevant(note) ==
    \/ note = Lost
    \/ note.kind = "Change" /\ note.path \in Files \ Unwatched

\* The watcher's callback, on the backend's thread.
Callback(r) ==
    /\ nextId < MaxEvents
    /\ \E note \in raw[r] :
        /\ raw' = [raw EXCEPT ![r] = @ \ {note}]
        /\ \/ /\ Relevant(note)
              /\ chan' = [chan EXCEPT ![r] = @ \cup {[id |-> nextId, need |-> disk[r]]}]
              /\ nextId' = nextId + 1
           \/ /\ ~Relevant(note)
              /\ UNCHANGED <<chan, nextId>>
    /\ UNCHANGED <<untold, disk, diskVars, watching, memVars, threadVars, edits, faults>>

\* `creature-context ingest`, another process: an event of the client's goes
\* straight to the journal.
Ingest(r) ==
    /\ MayIngest
    /\ nextId < MaxEvents
    /\ journal' = [journal EXCEPT ![r] = @ \cup {[id |-> nextId, need |-> disk[r]]}]
    /\ nextId' = nextId + 1
    /\ UNCHANGED <<untold, disk, store, proj, folders, marks, raw, chan, watching, memVars,
                   threadVars, edits, faults>>

-----------------------------------------------------------------------------
(* The service thread.                                                     *)

\* The process ends: everything in memory is gone, what was written stays.
Halt(step) ==
    /\ pc' = step
    /\ cur' = 1
    /\ boot' = FALSE
    /\ todo' = {}
    /\ seen' = Blank
    /\ raw' = None
    /\ chan' = None
    /\ pending' = None
    /\ done' = None
    /\ watching' = {}
    /\ current' = {}
    /\ untold' = None
    /\ UNCHANGED <<disk, diskVars, edits, nextId>>

Start ==
    /\ ~Up
    /\ pc' = "open"
    /\ UNCHANGED <<untold, disk, diskVars, watchVars, memVars, cur, boot, todo, seen, edits,
                   faults>>

\* The reconciliation of root r starts.
BeginScan(r, initial) ==
    /\ pc' = "scan"
    /\ cur' = r
    /\ boot' = initial
    /\ todo' = Files
    /\ seen' = Blank

\* The loop moves on from root cur: to the next one, or to the idle part.
Leave ==
    /\ pc' = IF cur < N THEN "drain" ELSE "tick"
    /\ cur' = IF cur < N THEN cur + 1 ELSE 1
    /\ boot' = FALSE
    /\ todo' = {}
    /\ seen' = Blank

\* The reconciliation at start-up of cur is over, well or badly.
LeaveInitial == IF cur < N THEN BeginScan(cur + 1, TRUE) ELSE Leave

\* WatchedRoot::open: seed the applied set from the markers, then watch.  Only
\* when every root is open does the first reconciliation begin.
Open ==
    /\ pc = "open"
    /\ done' = [done EXCEPT ![cur] = marks[cur]]
    /\ watching' = watching \cup {cur}
    /\ IF cur < N THEN /\ cur' = cur + 1
                       /\ UNCHANGED <<pc, boot, todo, seen>>
                  ELSE BeginScan(1, TRUE)
    /\ UNCHANGED <<untold, disk, diskVars, raw, chan, nextId, pending, current, edits, faults>>

\* collect_files reads one file.  Reading is itself something a backend reports.
ReadFile(f) ==
    /\ pc = "scan"
    /\ f \in todo
    /\ todo' = todo \ {f}
    /\ seen' = [seen EXCEPT ![f] = disk[cur][f]]
    /\ Notify(cur, {[kind |-> "Access", path |-> f]})
    /\ UNCHANGED <<untold, disk, diskVars, chan, watching, nextId, memVars, pc, cur, boot,
                   edits, faults>>

\* Mutant: the snapshot is committed before every file was read.
CommitPartial ==
    /\ pc = "scan"
    /\ cur \notin Broken
    /\ store' = [store EXCEPT ![cur] = seen]
    /\ pc' = "project"
    /\ UNCHANGED <<untold, disk, proj, folders, journal, marks, watchVars, memVars, cur, boot,
                   todo, seen, edits, faults>>

\* replace_snapshot: one transaction.
Commit ==
    /\ pc = "scan"
    /\ todo = {}
    /\ cur \notin Broken
    /\ store' = [store EXCEPT ![cur] = seen]
    /\ pc' = "project"
    /\ UNCHANGED <<untold, disk, proj, folders, journal, marks, watchVars, memVars, cur, boot,
                   todo, seen, edits, faults>>

\* write_projections writes the root ATLAS.idx, which carries the whole snapshot.
Project ==
    /\ pc = "project"
    /\ proj' = [proj EXCEPT ![cur] = seen]
    /\ Notify(cur, [kind : {"Change"}, path : Outputs])
    /\ pc' = "folders"
    /\ todo' = Files
    /\ UNCHANGED <<untold, disk, store, folders, journal, marks, chan, watching, nextId,
                   memVars, cur, boot, seen, edits, faults>>

\* Then the ATLAS.idx of every other folder, one file after another.
WriteFolder(f) ==
    /\ pc = "folders"
    /\ f \in todo
    /\ todo' = todo \ {f}
    /\ folders' = [folders EXCEPT ![cur][f] = seen[f]]
    /\ Notify(cur, [kind : {"Change"}, path : Outputs])
    /\ UNCHANGED <<untold, disk, store, proj, journal, marks, chan, watching, nextId, memVars,
                   pc, cur, boot, seen, edits, faults>>

\* The reconciliation returns Ok.
Reconciled ==
    /\ pc = "folders"
    /\ todo = {}
    /\ \/ /\ boot
          /\ current' = current \cup {cur}
          /\ LeaveInitial
       \/ /\ ~boot
          /\ pc' = "mark"
          /\ UNCHANGED <<current, cur, boot, todo, seen>>
    /\ UNCHANGED <<untold, disk, diskVars, watchVars, pending, done, edits, faults>>

\* Mutant: the error is ignored and the batch marked.
GiveUpMarks ==
    /\ pc \in {"scan", "project", "folders"}
    /\ \/ boot /\ LeaveInitial
       \/ ~boot /\ pc' = "mark" /\ UNCHANGED <<cur, boot, todo, seen>>
    /\ UNCHANGED <<untold, disk, diskVars, watchVars, memVars, edits>>

\* Mutant: the batch of a failed reconciliation is dropped.
GiveUpForgets ==
    /\ pc \in {"scan", "project", "folders"}
    /\ \/ boot /\ LeaveInitial
       \/ ~boot /\ Leave
    /\ pending' = [pending EXCEPT ![cur] = {}]
    /\ UNCHANGED <<untold, disk, diskVars, watchVars, done, current, edits>>

\* Mutant: a failed reconciliation is tried again at once.
GiveUpRetries ==
    /\ pc \in {"scan", "project", "folders"}
    /\ \/ boot /\ LeaveInitial
       \/ ~boot /\ BeginScan(cur, FALSE)
    /\ UNCHANGED <<untold, disk, diskVars, watchVars, memVars, edits>>

\* The reconciliation returns an error: it is logged and the root is left, with
\* its events still pending.
GiveUp ==
    /\ pc \in {"scan", "project", "folders"}
    /\ \/ boot /\ LeaveInitial
       \/ ~boot /\ Leave
    /\ UNCHANGED <<untold, disk, diskVars, watchVars, memVars, edits>>

BrokenRootFails ==
    /\ pc = "scan"
    /\ cur \in Broken
    /\ GiveUp
    /\ UNCHANGED faults

\* One event is drained: journalled before it is queued.
Drain ==
    /\ pc = "drain"
    /\ \E e \in Oldest(chan[cur]) :
        /\ journal' = [journal EXCEPT ![cur] = @ \cup {e}]
        /\ pending' = [pending EXCEPT ![cur] = @ \cup {e}]
        /\ chan' = [chan EXCEPT ![cur] = @ \ {e}]
    /\ UNCHANGED <<untold, disk, store, proj, folders, marks, raw, watching, nextId, done,
                   current, threadVars, edits, faults>>

\* try_recv finds nothing: Coordinator::settle drops what is already applied,
\* and a batch that is not empty is reconciled.
Settle ==
    /\ pc = "drain"
    /\ chan[cur] = {}
    /\ pending' = [pending EXCEPT ![cur] = @ \ done[cur]]
    /\ \/ pending[cur] \subseteq done[cur] /\ Leave
       \/ ~(pending[cur] \subseteq done[cur]) /\ BeginScan(cur, FALSE)
    /\ UNCHANGED <<untold, disk, diskVars, watchVars, done, current, edits, faults>>

\* The snapshot has committed: the batch is marked, one id at a time.
MarkOne ==
    /\ pc = "mark"
    /\ \E e \in Oldest(pending[cur] \ done[cur]) :
        /\ marks' = [marks EXCEPT ![cur] = @ \cup {e}]
        /\ done' = [done EXCEPT ![cur] = @ \cup {e}]
    /\ UNCHANGED <<untold, disk, store, proj, folders, journal, watchVars, pending, current,
                   threadVars, edits, faults>>

\* All of it is marked: the batch is dropped.
ClearPending ==
    /\ pc = "mark"
    /\ pending[cur] \subseteq done[cur]
    /\ pending' = [pending EXCEPT ![cur] = {}]
    /\ Leave
    /\ UNCHANGED <<untold, disk, diskVars, watchVars, done, current, edits, faults>>

\* The debounce sleep ends and no shutdown was asked for.
Tick ==
    /\ pc = "tick"
    /\ pc' = "drain"
    /\ UNCHANGED <<untold, disk, diskVars, watchVars, memVars, cur, boot, todo, seen, edits,
                   faults>>

Service ==
    \/ Open
    \/ \E f \in Files : ReadFile(f)
    \/ Commit
    \/ Project
    \/ \E f \in Files : WriteFolder(f)
    \/ Reconciled
    \/ BrokenRootFails
    \/ Drain
    \/ Settle
    \/ MarkOne
    \/ ClearPending
    \/ Tick

-----------------------------------------------------------------------------
(* What goes wrong, and the operator.                                      *)

Fault ==
    /\ faults < MaxFaults
    /\ faults' = faults + 1

\* A file vanishes under the scan, the database is busy, a write fails.
TransientFailure ==
    /\ boot => InitialMayFail
    /\ GiveUp
    /\ Fault

\* The process dies at any instruction.
Crash ==
    /\ Up
    /\ Halt("down")
    /\ Fault

\* An error the loop propagates: opening a root, appending an event, writing a
\* marker.  run_service_multi returns it and the service of every root ends.
JournalFailure ==
    /\ \/ pc = "open"
       \/ pc = "drain" /\ chan[cur] # {}
       \/ pc = "mark" /\ pending[cur] # {}
    /\ Halt("failed")
    /\ Fault

\* SIGTERM or SIGINT: the loop sees the flag between two rounds.
Shutdown ==
    /\ pc = "tick"
    /\ Halt("down")
    /\ Fault

Next ==
    \/ \E r \in Roots, f \in Files : Edit(r, f)
    \/ \E r \in Roots : Callback(r) \/ Ingest(r)
    \/ Start
    \/ Service
    \/ TransientFailure
    \/ Crash
    \/ JournalFailure
    \/ Shutdown

\* The two threads that run whenever they can: the service loop and the
\* backend's.  Nobody promises to edit, to fail, or to start the service.
Fairness ==
    /\ WF_vars(Service)
    /\ \A r \in Roots : WF_vars(Callback(r))

Spec == Init /\ [][Next]_vars

FairSpec == Spec /\ Fairness
-----------------------------------------------------------------------------
(* What the service promises.                                              *)

\* The database is a mirror of the tree, and ATLAS.idx one of the database.
Database   == INSTANCE Mirror WITH Root <- Roots, Item <- Files, source <- disk, view <- store
Projection == INSTANCE Mirror WITH Root <- Roots, Item <- Files, source <- store, view <- proj
Subtrees   == INSTANCE Mirror WITH Root <- Roots, Item <- Files, source <- proj, view <- folders

\* Every commit of the service moves the database forward, file by file, to
\* versions the tree has had, whatever the edits during the scan and the crashes
\* (service.rs reconcile_once_cached over repository.rs replace_snapshot).
DatabaseMirrorsTree == Database!MirrorSpec

\* ATLAS.idx is never ahead of the database and never goes back, although it is
\* written after the commit and a crash or an error may come between the two.
ProjectionMirrorsDatabase == Projection!MirrorSpec

\* The ATLAS.idx of a folder is never ahead of the root's and never goes back: a
\* write that stops half-way leaves folders behind, and none that contradicts
\* what a rebuild from the root file would restore.
FoldersMirrorProjection == Subtrees!MirrorSpec

\* The three together: of the tree, the database, the root's ATLAS.idx and those of
\* the folders, none is ever ahead of the one it is made from and none goes back,
\* wherever a reconciliation stops and the service is killed (service.rs:62-91).
CopiesAreMirrors ==
    DatabaseMirrorsTree /\ ProjectionMirrorsDatabase /\ FoldersMirrorProjection

\* An applied marker on disk is never premature: the database, the root ATLAS.idx
\* and those of the folders show everything the tree held when the event was
\* observed, so the restart that skips the event loses nothing (service.rs: "Mark applied only after the
\* snapshot has committed").
AppliedIsServed ==
    \A r \in Roots : \A e \in marks[r] :
        AtMost(e.need, store[r]) /\ AtMost(e.need, proj[r]) /\ AtMost(e.need, folders[r])

\* The last edit of f is still on its way to the coordinator, or with it.
OnItsWay(r, f) ==
    \/ Lost \in raw[r]
    \/ [kind |-> "Change", path |-> f] \in raw[r]
    \/ \E e \in chan[r] : e.need[f] = disk[r][f]
InHand(r, f) == \E e \in pending[r] : e.need[f] = disk[r][f]

\* The watcher never takes up the last edit of f.
Unheard(r, f) == f \in Unwatched \cup untold[r]

\* No silent staleness: once a root was reconciled at start-up, a file whose last
\* edit its ATLAS.idx lacks always has a notification or an event that will bring
\* the root back to a reconciliation, through edits during a scan, notifications
\* lost with an error and failed reconciliations (service.rs: "a transient failure
\* must not silently drop observed changes").  Two kinds of edit the watcher never
\* takes up, and only these: one of a file whose path it drops, and one told by no
\* more than the rescan flag of an event of kind Other.
NoSilentStaleness ==
    \A r \in current : \A f \in Files :
        folders[r][f] # disk[r][f] => OnItsWay(r, f) \/ InHand(r, f) \/ Unheard(r, f)

\* If the service stays up, the database and the ATLAS.idx files of every root that can
\* be reconciled come to show, and go on showing, every file whose last edit the
\* watcher let through or was told of by an error (edits are bounded), another root
\* that fails for ever notwithstanding.
Converges ==
    <>[]Up => <>[](\A r \in Roots \ Broken : \A f \in Files :
        \/ Unheard(r, f)
        \/ store[r][f] = disk[r][f] /\ proj[r][f] = disk[r][f] /\ folders[r][f] = disk[r][f])

\* If the service stays up it comes to rest: its own reads and writes, which the
\* backend reports too, never keep it reconciling (watcher.rs: "Without those
\* exclusions the service would watch its own output and reconcile forever").
ComesToRest ==
    <>[]Up => <>[](\A r \in Roots \ Broken :
        /\ raw[r] = {} /\ chan[r] = {} /\ pending[r] = {}
        /\ cur = r => pc \in {"drain", "tick"})
=============================================================================
