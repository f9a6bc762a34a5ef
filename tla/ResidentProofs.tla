--------------------------- MODULE ResidentProofs ---------------------------
(* Proofs about Resident, for every number of roots, every set of files    *)
(* and every bound.                                                        *)
EXTENDS Resident, TLAPS

-----------------------------------------------------------------------------
(* The inductive invariant.                                                *)

\* The last edit of f is on its way to the coordinator, or the watcher never takes it up.
Noticed(r, f) == OnItsWay(r, f) \/ Unheard(r, f)

\* The four stages of a root never overtake each other.
StagesInv ==
    \A r \in Roots : /\ AtMost(store[r], disk[r])
                     /\ AtMost(proj[r], store[r])
                     /\ AtMost(folders[r], proj[r])

\* A file holds an edit already made, and an event tells of a past state.
PastInv ==
    \A r \in Roots :
        /\ \A f \in Files : disk[r][f] <= edits
        /\ \A e \in chan[r] \cup pending[r] : AtMost(e.need, disk[r])

\* What a process that is not running keeps in memory: nothing.
DownInv ==
    ~Up => /\ cur = 1 /\ ~boot
           /\ watching = {}
           /\ current = {}
           /\ \A r \in Roots : raw[r] = {} /\ chan[r] = {} /\ pending[r] = {}

\* Every root is watched before the first one is scanned.
OpenInv ==
    /\ pc = "open" => /\ ~boot
                      /\ current = {}
                      /\ watching = 1 .. (cur - 1)
    /\ Up /\ pc # "open" => watching = Roots

\* Nothing is drained before the loop.
BootInv ==
    /\ pc = "open" \/ boot => \A r \in Roots : pending[r] = {}
    /\ boot => pc \in {"scan", "project", "folders"}

\* What the scan of cur has read is newer than the database, at least as new as
\* the batch it serves, and if it is stale already a notification says so.
ReadWell(f) ==
    /\ store[cur][f] <= seen[f]
    /\ seen[f] <= disk[cur][f]
    /\ seen[f] # disk[cur][f] => Noticed(cur, f)
    /\ \A e \in pending[cur] : e.need[f] <= seen[f]

ScanInv    == pc = "scan" => \A f \in Files \ todo : ReadWell(f)
ProjectInv == pc \in {"project", "folders"} => seen = store[cur] /\ \A f \in Files : ReadWell(f)

\* The root's ATLAS.idx is written, and the folders' of all but todo.
FoldersInv == pc = "folders" => seen = proj[cur] /\ \A f \in Files \ todo : folders[cur][f] = seen[f]

\* A batch is marked when the ATLAS.idx files show it.
MarkInv ==
    pc = "mark" =>
        /\ \A f \in Files : folders[cur][f] # disk[cur][f] => Noticed(cur, f)
        /\ \A e \in pending[cur] : AtMost(e.need, folders[cur])

\* The coordinator takes for applied only what the journal marks so.
DoneInv == \A r \in Roots : done[r] \subseteq marks[r]

ServiceInv ==
    /\ TypeOK
    /\ StagesInv
    /\ PastInv
    /\ DownInv
    /\ OpenInv
    /\ BootInv
    /\ ScanInv
    /\ ProjectInv
    /\ FoldersInv
    /\ MarkInv
    /\ AppliedIsServed
    /\ NoSilentStaleness

-----------------------------------------------------------------------------
(* Type correctness.                                                       *)

LEMMA BlankType == Blank \in Versions /\ None \in [Roots -> SUBSET Event]
                                     /\ None \in [Roots -> SUBSET Note]
                                     /\ None \in [Roots -> SUBSET Files]
  BY DEF Blank, Versions, None

LEMMA RootOne == 1 \in Roots /\ N \in Nat \ {0} /\ \A r \in Roots : r < N => r + 1 \in Roots
  BY ResidentAssumption DEF Roots

\* Every state of the service is well typed.
LEMMA TypeInit == Init => TypeOK
<1>1. [f \in Files |-> 1] \in Versions
  BY DEF Versions
<1> SUFFICES ASSUME Init PROVE TypeOK
  OBVIOUS
<1>2. /\ disk \in [Roots -> Versions]
      /\ store \in [Roots -> Versions]
      /\ proj \in [Roots -> Versions]
      /\ folders \in [Roots -> Versions]
      /\ seen \in Versions
  BY <1>1, BlankType DEF Init
<1>3. /\ journal \in [Roots -> SUBSET Event] /\ marks \in [Roots -> SUBSET Event]
      /\ raw \in [Roots -> SUBSET Note]
      /\ chan \in [Roots -> SUBSET Event] /\ pending \in [Roots -> SUBSET Event]
      /\ done \in [Roots -> SUBSET Event] /\ untold \in [Roots -> SUBSET Files]
  BY BlankType DEF Init
<1>4. /\ watching \subseteq Roots /\ current \subseteq Roots /\ todo \subseteq Files
      /\ pc \in Steps /\ cur \in Roots /\ boot \in BOOLEAN
      /\ edits \in Nat /\ nextId \in Nat /\ faults \in Nat
  BY RootOne DEF Init, Steps
<1> QED BY <1>2, <1>3, <1>4 DEF TypeOK

LEMMA HaltType ==
  ASSUME TypeOK, NEW step \in Steps, Halt(step), faults' \in Nat
  PROVE  TypeOK'
  BY BlankType, RootOne DEF Halt, TypeOK, diskVars

LEMMA LeaveType ==
  ASSUME TypeOK, Leave
  PROVE  pc' \in Steps /\ cur' \in Roots /\ boot' \in BOOLEAN /\ todo' \subseteq Files
           /\ seen' \in Versions
  BY BlankType, RootOne DEF Leave, TypeOK, Steps

LEMMA LeaveInitialType ==
  ASSUME TypeOK, LeaveInitial
  PROVE  pc' \in Steps /\ cur' \in Roots /\ boot' \in BOOLEAN /\ todo' \subseteq Files
           /\ seen' \in Versions
  BY BlankType, RootOne, LeaveType DEF LeaveInitial, BeginScan, TypeOK, Steps

LEMMA NotifyType ==
  ASSUME TypeOK, NEW r \in Roots, NEW notes \in SUBSET Note, Notify(r, notes)
  PROVE  raw' \in [Roots -> SUBSET Note]
  BY DEF Notify, TypeOK

LEMMA TypeNext == TypeOK /\ [Next]_vars => TypeOK'
<1> SUFFICES ASSUME TypeOK, [Next]_vars PROVE TypeOK'
  OBVIOUS
<1>1. ASSUME NEW r \in Roots, NEW f \in Files, Edit(r, f) PROVE TypeOK'
  <2>1. PICK note \in {[kind |-> "Change", path |-> f], Lost, Flagged} :
           /\ Notify(r, {note})
           /\ untold' = [untold EXCEPT ![r] = IF note = Flagged /\ r \in watching
                                              THEN @ \cup {f} ELSE @ \ {f}]
    BY <1>1 DEF Edit
  <2>5. untold' \in [Roots -> SUBSET Files]
    BY <2>1 DEF TypeOK
  <2>2. {note} \in SUBSET Note
    BY <2>1 DEF Note, Paths
  <2>3. raw' \in [Roots -> SUBSET Note]
    BY <2>1, <2>2, NotifyType
  <2>4. disk' \in [Roots -> Versions] /\ edits' \in Nat
    BY <1>1 DEF Edit, TypeOK, Versions
  <2> QED BY <1>1, <2>3, <2>4, <2>5 DEF Edit, TypeOK, diskVars, memVars, threadVars
<1>2. ASSUME NEW r \in Roots, Callback(r) PROVE TypeOK'
  BY <1>2 DEF Callback, TypeOK, Event, diskVars, memVars, threadVars
<1>3. ASSUME NEW r \in Roots, Ingest(r) PROVE TypeOK'
  BY <1>3 DEF Ingest, TypeOK, Event, memVars, threadVars
<1>4. CASE Start
  BY <1>4 DEF Start, TypeOK, Steps, diskVars, watchVars, memVars
<1>5. CASE Open
  <2>1. pc' \in Steps /\ cur' \in Roots /\ boot' \in BOOLEAN /\ todo' \subseteq Files
           /\ seen' \in Versions
    BY <1>5, BlankType, RootOne DEF Open, BeginScan, TypeOK, Steps
  <2> QED BY <1>5, <2>1 DEF Open, TypeOK, diskVars
<1>6. ASSUME NEW f \in Files, ReadFile(f) PROVE TypeOK'
  <2>1. {[kind |-> "Access", path |-> f]} \in SUBSET Note
    BY DEF Note, Paths
  <2>2. raw' \in [Roots -> SUBSET Note]
    BY <1>6, <2>1, NotifyType DEF ReadFile, TypeOK
  <2> QED BY <1>6, <2>2 DEF ReadFile, TypeOK, Versions, diskVars, memVars
<1>7. CASE Commit
  BY <1>7 DEF Commit, TypeOK, Steps, watchVars, memVars
<1>8. CASE Project
  <2>1. [kind : {"Change"}, path : Outputs] \in SUBSET Note
    BY DEF Note, Paths
  <2>2. raw' \in [Roots -> SUBSET Note]
    BY <1>8, <2>1, NotifyType DEF Project, TypeOK
  <2> QED BY <1>8, <2>2 DEF Project, TypeOK, Steps, memVars
<1>19. ASSUME NEW f \in Files, WriteFolder(f) PROVE TypeOK'
  <2>1. [kind : {"Change"}, path : Outputs] \in SUBSET Note
    BY DEF Note, Paths
  <2>2. raw' \in [Roots -> SUBSET Note]
    BY <1>19, <2>1, NotifyType DEF WriteFolder, TypeOK
  <2> QED BY <1>19, <2>2 DEF WriteFolder, TypeOK, Versions, memVars
<1>20. CASE Reconciled
  <2>1. pc' \in Steps /\ cur' \in Roots /\ boot' \in BOOLEAN /\ todo' \subseteq Files
           /\ seen' \in Versions /\ current' \subseteq Roots
    BY <1>20, LeaveInitialType DEF Reconciled, TypeOK, Steps
  <2> QED BY <1>20, <2>1 DEF Reconciled, TypeOK, diskVars, watchVars
<1>9. ASSUME GiveUp, faults' \in Nat PROVE TypeOK'
  <2>1. pc' \in Steps /\ cur' \in Roots /\ boot' \in BOOLEAN /\ todo' \subseteq Files
           /\ seen' \in Versions
    BY <1>9, LeaveType, LeaveInitialType DEF GiveUp
  <2> QED BY <1>9, <2>1 DEF GiveUp, TypeOK, diskVars, watchVars, memVars
<1>10. CASE Drain
  BY <1>10 DEF Drain, Oldest, TypeOK, threadVars
<1>11. CASE Settle
  <2>1. pc' \in Steps /\ cur' \in Roots /\ boot' \in BOOLEAN /\ todo' \subseteq Files
           /\ seen' \in Versions
    BY <1>11, LeaveType, BlankType DEF Settle, BeginScan, TypeOK, Steps
  <2> QED BY <1>11, <2>1 DEF Settle, TypeOK, diskVars, watchVars
<1>12. CASE MarkOne
  BY <1>12 DEF MarkOne, Oldest, TypeOK, watchVars, threadVars
<1>13. CASE ClearPending
  <2>1. pc' \in Steps /\ cur' \in Roots /\ boot' \in BOOLEAN /\ todo' \subseteq Files
           /\ seen' \in Versions
    BY <1>13, LeaveType DEF ClearPending
  <2> QED BY <1>13, <2>1 DEF ClearPending, TypeOK, diskVars, watchVars
<1>14. CASE Tick
  BY <1>14 DEF Tick, TypeOK, Steps, diskVars, watchVars, memVars
<1>15. CASE BrokenRootFails
  BY <1>9, <1>15 DEF BrokenRootFails, TypeOK
<1>16. CASE TransientFailure
  BY <1>9, <1>16 DEF TransientFailure, Fault, TypeOK
<1>17. CASE Crash \/ JournalFailure \/ Shutdown
  BY <1>17, HaltType DEF Crash, JournalFailure, Shutdown, Fault, Steps, TypeOK
<1>18. CASE UNCHANGED vars
  BY <1>18 DEF vars, TypeOK, diskVars, watchVars, memVars, threadVars
<1> QED
  BY <1>1, <1>2, <1>3, <1>4, <1>5, <1>6, <1>7, <1>8, <1>10, <1>11, <1>12, <1>13, <1>14,
     <1>15, <1>16, <1>17, <1>18, <1>19, <1>20 DEF Next, Service

-----------------------------------------------------------------------------
(* One lemma per action: it preserves the rest of the invariant.           *)

\* Where nothing is said of the scan, the projection and the marking.
Between ==
    \/ pc \in {"down", "failed", "open", "drain", "tick"}
    \/ /\ pc = "scan"
       /\ todo = Files

LEMMA BetweenStages == ASSUME Between' PROVE ScanInv' /\ ProjectInv' /\ FoldersInv' /\ MarkInv'
  BY DEF Between, ScanInv, ProjectInv, FoldersInv, MarkInv

LEMMA LeaveBetween == ASSUME Leave PROVE Between' /\ ~boot' /\ pc' \in {"drain", "tick"}
<1>1. pc' = "drain" \/ pc' = "tick"
  BY DEF Leave
<1>2. ~boot'
  BY DEF Leave
<1> QED BY <1>1, <1>2 DEF Between

LEMMA LeaveInitialBetween ==
  ASSUME LeaveInitial PROVE Between' /\ pc' \in {"drain", "tick", "scan"} /\ (boot' => pc' = "scan")
  BY LeaveBetween DEF LeaveInitial, BeginScan, Between

LEMMA InitInv == Init => ServiceInv
<1> SUFFICES ASSUME Init PROVE ServiceInv
  OBVIOUS
<1>1. TypeOK
  BY TypeInit
<1>2. StagesInv
  BY DEF StagesInv, AtMost, Init, Blank
<1>3. /\ PastInv /\ DownInv /\ OpenInv /\ BootInv /\ AppliedIsServed /\ NoSilentStaleness
  BY DEF PastInv, DownInv, OpenInv, BootInv, AppliedIsServed, NoSilentStaleness, Noticed, Init, None, Up
<1>4. ScanInv /\ ProjectInv /\ FoldersInv /\ MarkInv
  BY DEF ScanInv, ProjectInv, FoldersInv, MarkInv, Init
<1> QED BY <1>1, <1>2, <1>3, <1>4 DEF ServiceInv

LEMMA EditStep ==
  ASSUME ServiceInv, TypeOK', NEW r \in Roots, NEW f \in Files, Edit(r, f)
  PROVE  ServiceInv'
<1> USE DEF ServiceInv
<1>0. PICK note \in {[kind |-> "Change", path |-> f], Lost, Flagged} :
         /\ raw' = [raw EXCEPT ![r] = IF r \in watching THEN @ \cup {note} ELSE @]
         /\ untold' = [untold EXCEPT ![r] = IF note = Flagged /\ r \in watching
                                            THEN @ \cup {f} ELSE @ \ {f}]
  BY DEF Edit, Notify
<1>1. /\ \A s \in Roots, g \in Files : disk[s][g] \in Nat /\ disk[s][g] <= disk'[s][g]
      /\ \A s \in Roots, g \in Files : disk'[s][g] \in Nat /\ disk'[s][g] <= edits'
      /\ \A s \in Roots, g \in Files : s # r \/ g # f => disk'[s][g] = disk[s][g]
  BY DEF Edit, TypeOK, Versions, PastInv
<1>2. UNCHANGED <<diskVars, chan, watching, memVars, threadVars>>
  BY DEF Edit
<1>3. \A s \in Roots, g \in Files : Noticed(s, g) /\ (s # r \/ g # f) => Noticed(s, g)'
  BY <1>0, <1>1, <1>2 DEF Noticed, OnItsWay, Unheard, TypeOK
<1>4. r \in watching => Noticed(r, f)'
  BY <1>0 DEF Noticed, OnItsWay, Unheard, TypeOK
<1>5. StagesInv'
  BY <1>1, <1>2 DEF StagesInv, AtMost, diskVars, TypeOK, Versions
<1>6. PastInv'
  BY <1>1, <1>2 DEF PastInv, AtMost, memVars, TypeOK, Versions, Event
<1>7. DownInv'
  BY <1>0, <1>2 DEF DownInv, Up, memVars, threadVars, TypeOK
<1>8. OpenInv' /\ BootInv'
  BY <1>2 DEF OpenInv, BootInv, Up, memVars, threadVars
<1>9. ScanInv'
  <2> SUFFICES ASSUME pc = "scan", NEW g \in Files \ todo PROVE ReadWell(g)'
    BY <1>2 DEF ScanInv, threadVars
  <2>1. cur \in Roots /\ cur \in watching /\ ReadWell(g)
    BY DEF ScanInv, OpenInv, Up, TypeOK
  <2> QED BY <1>1, <1>2, <1>3, <1>4, <2>1 DEF ReadWell, TypeOK, Versions, diskVars, memVars, threadVars
<1>10. ProjectInv' /\ FoldersInv'
  <2>1. FoldersInv'
    BY <1>2 DEF FoldersInv, diskVars, threadVars
  <2> SUFFICES ASSUME pc \in {"project", "folders"}, NEW g \in Files
               PROVE  seen = store[cur] /\ ReadWell(g)'
    BY <1>2, <2>1 DEF ProjectInv, diskVars, threadVars
  <2>2. cur \in Roots /\ cur \in watching /\ ReadWell(g) /\ seen = store[cur]
    BY DEF ProjectInv, OpenInv, Up, TypeOK
  <2> QED BY <1>1, <1>2, <1>3, <1>4, <2>2 DEF ReadWell, TypeOK, Versions, diskVars, memVars, threadVars
<1>11. MarkInv'
  <2> SUFFICES ASSUME pc = "mark"
               PROVE  /\ \A g \in Files : folders[cur][g] # disk'[cur][g] => Noticed(cur, g)'
                      /\ \A e \in pending[cur] : AtMost(e.need, folders[cur])
    BY <1>2 DEF MarkInv, AtMost, diskVars, memVars, threadVars, Noticed, OnItsWay, Unheard
  <2>1. cur \in Roots /\ cur \in watching
    BY DEF OpenInv, Up, TypeOK
  <2>2. \A g \in Files : folders[cur][g] # disk'[cur][g] => Noticed(cur, g)'
    BY <1>1, <1>2, <1>3, <1>4, <2>1 DEF MarkInv, threadVars
  <2> QED BY <2>2 DEF MarkInv
<1>12. AppliedIsServed'
  BY <1>2 DEF AppliedIsServed, AtMost, diskVars
<1>13. NoSilentStaleness'
  <2> SUFFICES ASSUME NEW s \in current, NEW g \in Files, folders[s][g] # disk'[s][g]
               PROVE  Noticed(s, g)' \/ InHand(s, g)'
    BY <1>2 DEF NoSilentStaleness, Noticed, diskVars, memVars
  <2>1. s \in Roots /\ s \in watching
    BY DEF DownInv, OpenInv, Up, TypeOK
  <2> QED BY <1>1, <1>2, <1>3, <1>4, <2>1 DEF NoSilentStaleness, Noticed, InHand, memVars
<1> QED BY <1>5, <1>6, <1>7, <1>8, <1>9, <1>10, <1>11, <1>12, <1>13

LEMMA CallbackStep ==
  ASSUME ServiceInv, TypeOK', NEW r \in Roots, Callback(r)
  PROVE  ServiceInv'
<1> USE DEF ServiceInv
<1>1. PICK note \in raw[r] :
        /\ raw' = [raw EXCEPT ![r] = @ \ {note}]
        /\ \/ /\ Relevant(note)
              /\ chan' = [chan EXCEPT ![r] = @ \cup {[id |-> nextId, need |-> disk[r]]}]
           \/ /\ ~Relevant(note)
              /\ UNCHANGED chan
  BY DEF Callback
<1>2. UNCHANGED <<untold, disk, diskVars, watching, memVars, threadVars, edits>>
  BY DEF Callback
<1>3. note = Lost \/ (note.kind = "Change" /\ note.path \in Files \ Unwatched) => Relevant(note)
  BY DEF Relevant
<1>4. \A s \in Roots, g \in Files : Noticed(s, g) => Noticed(s, g)'
  <2> SUFFICES ASSUME NEW s \in Roots, NEW g \in Files, Noticed(s, g) PROVE Noticed(s, g)'
    OBVIOUS
  <2>1. CASE s = r /\ Relevant(note)
    <3>1. [id |-> nextId, need |-> disk[r]] \in chan'[r]
      BY <1>1, <2>1 DEF TypeOK
    <3> QED BY <1>2, <2>1, <3>1 DEF Noticed, OnItsWay, Unheard
  <2>2. CASE s # r \/ ~Relevant(note)
    BY <1>1, <1>2, <1>3, <2>2 DEF Noticed, OnItsWay, Unheard, TypeOK
  <2> QED BY <2>1, <2>2
<1>5. Up
  BY <1>1 DEF DownInv
<1>6. StagesInv' /\ AppliedIsServed'
  BY <1>2 DEF StagesInv, AppliedIsServed, AtMost, diskVars
<1>7. PastInv'
  <2>1. \A s \in Roots : \A e \in chan'[s] : e \in chan[s] \/ (s = r /\ e.need = disk[r])
    BY <1>1 DEF TypeOK
  <2>2. AtMost(disk[r], disk[r])
    BY DEF AtMost, TypeOK, Versions
  <2>3. \A s \in Roots : \A e \in chan'[s] \cup pending[s] : AtMost(e.need, disk[s])
    BY <2>1, <2>2 DEF PastInv
  <2> QED BY <1>2, <2>3 DEF PastInv, AtMost, memVars
<1>8. DownInv' /\ OpenInv' /\ BootInv'
  BY <1>2, <1>5 DEF DownInv, OpenInv, BootInv, Up, memVars, threadVars
<1>9. \A g \in Files : cur \in Roots /\ ReadWell(g) => ReadWell(g)'
  BY <1>2, <1>4 DEF ReadWell, diskVars, memVars, threadVars
<1>10. ScanInv' /\ ProjectInv' /\ FoldersInv'
  BY <1>2, <1>9 DEF ScanInv, ProjectInv, FoldersInv, TypeOK, diskVars, threadVars
<1>11. MarkInv'
  BY <1>2, <1>4 DEF MarkInv, AtMost, TypeOK, diskVars, memVars, threadVars
<1>12. NoSilentStaleness'
  BY <1>2, <1>4 DEF NoSilentStaleness, Noticed, InHand, TypeOK, diskVars, memVars
<1> QED BY <1>5, <1>6, <1>7, <1>8, <1>10, <1>11, <1>12

LEMMA IngestStep ==
  ASSUME ServiceInv, TypeOK', NEW r \in Roots, Ingest(r)
  PROVE  ServiceInv'
<1> USE DEF ServiceInv
<1>1. UNCHANGED <<untold, disk, store, proj, folders, marks, raw, chan, watching, memVars, threadVars, edits>>
  BY DEF Ingest
<1>2. \A s \in Roots, g \in Files : Noticed(s, g) => Noticed(s, g)'
  BY <1>1 DEF Noticed, OnItsWay, Unheard
<1>3. StagesInv' /\ AppliedIsServed' /\ PastInv'
  BY <1>1 DEF StagesInv, AppliedIsServed, PastInv, AtMost, memVars
<1>4. DownInv' /\ OpenInv' /\ BootInv'
  BY <1>1 DEF DownInv, OpenInv, BootInv, Up, memVars, threadVars
<1>5. \A g \in Files : cur \in Roots /\ ReadWell(g) => ReadWell(g)'
  BY <1>1, <1>2 DEF ReadWell, memVars, threadVars
<1>6. ScanInv' /\ ProjectInv' /\ FoldersInv' /\ MarkInv'
  BY <1>1, <1>2, <1>5 DEF ScanInv, ProjectInv, FoldersInv, MarkInv, AtMost, TypeOK, memVars, threadVars
<1>7. NoSilentStaleness'
  BY <1>1, <1>2 DEF NoSilentStaleness, Noticed, InHand, TypeOK, memVars
<1> QED BY <1>3, <1>4, <1>6, <1>7

LEMMA HaltStep ==
  ASSUME ServiceInv, TypeOK', NEW step \in {"down", "failed"}, Halt(step)
  PROVE  ServiceInv'
<1> USE DEF ServiceInv
<1>1. StagesInv' /\ AppliedIsServed'
  BY DEF Halt, StagesInv, AppliedIsServed, AtMost, diskVars
<1>2. PastInv'
  BY DEF Halt, PastInv, AtMost, None
<1>3. DownInv' /\ OpenInv' /\ BootInv'
  BY DEF Halt, DownInv, OpenInv, BootInv, Up, None
<1>4. ScanInv' /\ ProjectInv' /\ FoldersInv' /\ MarkInv'
  BY DEF Halt, ScanInv, ProjectInv, FoldersInv, MarkInv
<1>5. NoSilentStaleness'
  BY DEF Halt, NoSilentStaleness, Noticed
<1> QED BY <1>1, <1>2, <1>3, <1>4, <1>5

LEMMA StartStep ==
  ASSUME ServiceInv, TypeOK', Start
  PROVE  ServiceInv'
<1> USE DEF ServiceInv
<1>1. /\ ~Up /\ pc' = "open"
      /\ UNCHANGED <<untold, disk, diskVars, watchVars, memVars, cur, boot, todo, seen, edits>>
  BY DEF Start
<1>2. StagesInv' /\ AppliedIsServed' /\ PastInv'
  BY <1>1 DEF StagesInv, AppliedIsServed, PastInv, AtMost, diskVars, watchVars, memVars
<1>3. DownInv' /\ BootInv'
  BY <1>1 DEF DownInv, BootInv, Up, memVars
<1>4. OpenInv'
  <2>1. cur = 1 /\ ~boot /\ current = {} /\ watching = {}
    BY <1>1 DEF DownInv
  <2>2. 1 .. (1 - 1) = {}
    OBVIOUS
  <2> QED BY <1>1, <2>1, <2>2 DEF OpenInv, watchVars, memVars
<1>5. ScanInv' /\ ProjectInv' /\ FoldersInv' /\ MarkInv'
  BY <1>1, BetweenStages DEF Between
<1>6. NoSilentStaleness'
  BY <1>1 DEF DownInv, NoSilentStaleness, Noticed, memVars
<1> QED BY <1>2, <1>3, <1>4, <1>5, <1>6

LEMMA OpenStep ==
  ASSUME ServiceInv, TypeOK', Open
  PROVE  ServiceInv'
<1> USE DEF ServiceInv
<1>1. /\ pc = "open" /\ ~boot /\ current = {} /\ watching = 1 .. (cur - 1)
      /\ UNCHANGED <<untold, disk, diskVars, raw, chan, pending, current, edits>>
      /\ watching' = watching \cup {cur}
      /\ cur \in Roots
  BY DEF Open, OpenInv, TypeOK
<1>2. \/ pc' = "open" /\ cur' = cur + 1 /\ boot' = boot /\ cur < N
      \/ pc' = "scan" /\ todo' = Files /\ cur' = 1 /\ ~(cur < N)
  BY <1>1 DEF Open, BeginScan
<1>3. StagesInv' /\ AppliedIsServed' /\ PastInv'
  BY <1>1 DEF StagesInv, AppliedIsServed, PastInv, AtMost, diskVars
<1>4. DownInv' /\ BootInv'
  BY <1>1, <1>2 DEF DownInv, BootInv, Up
<1>5. OpenInv'
  <2>1. watching' = 1 .. cur
    BY <1>1 DEF Roots
  <2>2. CASE pc' = "open"
    BY <1>1, <1>2, <2>1, <2>2 DEF OpenInv, Roots
  <2>3. CASE pc' = "scan"
    BY <1>1, <1>2, <2>1, <2>3, ResidentAssumption DEF OpenInv, Roots
  <2> QED BY <1>2, <2>2, <2>3
<1>6. ScanInv' /\ ProjectInv' /\ FoldersInv' /\ MarkInv'
  BY <1>2, BetweenStages DEF Between
<1>7. NoSilentStaleness'
  BY <1>1 DEF NoSilentStaleness, Noticed
<1> QED BY <1>3, <1>4, <1>5, <1>6, <1>7

LEMMA ReadFileStep ==
  ASSUME ServiceInv, TypeOK', NEW f \in Files, ReadFile(f)
  PROVE  ServiceInv'
<1> USE DEF ServiceInv
<1>1. /\ pc = "scan" /\ cur \in Roots /\ cur \in watching /\ Up
      /\ f \in todo /\ todo' = todo \ {f}
      /\ seen' = [seen EXCEPT ![f] = disk[cur][f]]
      /\ UNCHANGED <<untold, disk, diskVars, chan, watching, memVars, pc, cur, boot, edits>>
      /\ raw' = [raw EXCEPT ![cur] = @ \cup {[kind |-> "Access", path |-> f]}]
  BY DEF ReadFile, Notify, OpenInv, Up, TypeOK
<1>2. \A s \in Roots, g \in Files : Noticed(s, g) => Noticed(s, g)'
  BY <1>1 DEF Noticed, OnItsWay, Unheard, TypeOK
<1>3. StagesInv' /\ AppliedIsServed' /\ PastInv'
  BY <1>1 DEF StagesInv, AppliedIsServed, PastInv, AtMost, diskVars, memVars
<1>4. DownInv' /\ OpenInv' /\ BootInv'
  BY <1>1 DEF DownInv, OpenInv, BootInv, Up, memVars
<1>5. ReadWell(f)'
  <2>1. seen'[f] = disk[cur][f]
    BY <1>1 DEF TypeOK, Versions
  <2>2. store[cur][f] <= disk[cur][f] /\ disk[cur][f] <= disk[cur][f]
    BY <1>1 DEF StagesInv, AtMost, TypeOK, Versions
  <2>3. \A e \in pending[cur] : e.need[f] <= disk[cur][f]
    BY <1>1 DEF PastInv, AtMost
  <2> QED BY <1>1, <2>1, <2>2, <2>3 DEF ReadWell, diskVars, memVars
<1>6. ASSUME NEW g \in Files \ todo PROVE ReadWell(g)'
  <2>1. ReadWell(g) /\ seen'[g] = seen[g]
    BY <1>1, <1>6 DEF ScanInv, TypeOK, Versions
  <2> QED BY <1>1, <1>2, <2>1 DEF ReadWell, diskVars, memVars
<1>7. ScanInv' /\ ProjectInv' /\ FoldersInv' /\ MarkInv'
  BY <1>1, <1>5, <1>6 DEF ScanInv, ProjectInv, FoldersInv, MarkInv
<1>8. NoSilentStaleness'
  BY <1>1, <1>2 DEF NoSilentStaleness, Noticed, InHand, TypeOK, diskVars, memVars
<1> QED BY <1>3, <1>4, <1>7, <1>8

LEMMA CommitStep ==
  ASSUME ServiceInv, TypeOK', Commit
  PROVE  ServiceInv'
<1> USE DEF ServiceInv
<1>1. /\ pc = "scan" /\ pc' = "project" /\ cur \in Roots /\ todo = {}
      /\ store' = [store EXCEPT ![cur] = seen]
      /\ UNCHANGED <<untold, disk, proj, folders, marks, raw, chan, watching, memVars, cur, boot, seen, edits>>
  BY DEF Commit, watchVars, TypeOK
<1>2. \A g \in Files : ReadWell(g)
  BY <1>1 DEF ScanInv
<1>3. \A s \in Roots, g \in Files : Noticed(s, g)' <=> Noticed(s, g)
  BY <1>1 DEF Noticed, OnItsWay, Unheard
<1>4. \A s \in Roots, g \in Files :
         /\ store[s][g] \in Nat /\ store'[s][g] \in Nat /\ proj[s][g] \in Nat
         /\ folders[s][g] \in Nat /\ folders[s][g] <= proj[s][g]
         /\ store[s][g] <= store'[s][g] /\ store'[s][g] <= disk[s][g]
         /\ proj[s][g] <= store[s][g]
  BY <1>1, <1>2 DEF ReadWell, StagesInv, AtMost, TypeOK, Versions
<1>5. StagesInv'
  BY <1>1, <1>4 DEF StagesInv, AtMost
<1>6. AppliedIsServed'
  <2> SUFFICES ASSUME NEW s \in Roots, NEW e \in marks[s], NEW g \in Files
               PROVE  e.need[g] <= store'[s][g] /\ e.need[g] <= proj[s][g] /\ e.need[g] <= folders[s][g]
    BY <1>1 DEF AppliedIsServed, AtMost
  <2>1. e.need[g] \in Nat /\ e.need[g] <= store[s][g] /\ e.need[g] <= proj[s][g]
          /\ e.need[g] <= folders[s][g]
    BY DEF AppliedIsServed, AtMost, TypeOK, Event, Versions
  <2> QED BY <1>4, <2>1
<1>7. PastInv' /\ DownInv' /\ OpenInv' /\ BootInv'
  BY <1>1 DEF PastInv, DownInv, OpenInv, BootInv, Up, AtMost, memVars
<1>8. ScanInv' /\ FoldersInv' /\ MarkInv'
  BY <1>1 DEF ScanInv, FoldersInv, MarkInv
<1>9. ProjectInv'
  <2>1. store'[cur] = seen
    BY <1>1 DEF TypeOK
  <2>2. \A g \in Files : seen[g] <= seen[g]
    BY DEF TypeOK, Versions
  <2>3. ASSUME NEW g \in Files PROVE ReadWell(g)'
    BY <1>1, <1>2, <1>3, <2>1, <2>2 DEF ReadWell, memVars
  <2> QED BY <1>1, <2>1, <2>3 DEF ProjectInv
<1>10. NoSilentStaleness'
  BY <1>1, <1>3 DEF NoSilentStaleness, Noticed, InHand, TypeOK, memVars
<1> QED BY <1>5, <1>6, <1>7, <1>8, <1>9, <1>10

LEMMA ProjectStep ==
  ASSUME ServiceInv, TypeOK', Project
  PROVE  ServiceInv'
<1> USE DEF ServiceInv
<1>1. /\ pc = "project" /\ pc' = "folders" /\ Up /\ Up' /\ cur \in Roots /\ seen = store[cur]
      /\ todo' = Files
      /\ proj' = [proj EXCEPT ![cur] = seen]
      /\ UNCHANGED <<untold, disk, store, folders, marks, chan, watching, memVars, cur, boot, seen, edits>>
      /\ \E notes : raw' = [raw EXCEPT ![cur] = IF cur \in watching THEN @ \cup notes ELSE @]
  BY DEF Project, Notify, ProjectInv, Up, TypeOK
<1>2. \A s \in Roots, g \in Files : Noticed(s, g) => Noticed(s, g)'
  BY <1>1 DEF Noticed, OnItsWay, Unheard, TypeOK
<1>3. \A g \in Files : ReadWell(g)
  BY <1>1 DEF ProjectInv
<1>4. \A s \in Roots, g \in Files :
         /\ store[s][g] \in Nat /\ proj'[s][g] \in Nat /\ proj[s][g] \in Nat
         /\ folders[s][g] \in Nat /\ folders[s][g] <= proj[s][g]
         /\ proj'[s][g] <= store[s][g] /\ proj[s][g] <= proj'[s][g]
  BY <1>1 DEF StagesInv, AtMost, TypeOK, Versions
<1>5. StagesInv'
  BY <1>1, <1>4 DEF StagesInv, AtMost
<1>6. AppliedIsServed'
  <2> SUFFICES ASSUME NEW s \in Roots, NEW e \in marks[s], NEW g \in Files
               PROVE  e.need[g] <= store[s][g] /\ e.need[g] <= proj'[s][g] /\ e.need[g] <= folders[s][g]
    BY <1>1 DEF AppliedIsServed, AtMost
  <2>1. e.need[g] \in Nat /\ e.need[g] <= store[s][g] /\ e.need[g] <= proj[s][g]
          /\ e.need[g] <= folders[s][g]
    BY DEF AppliedIsServed, AtMost, TypeOK, Event, Versions
  <2> QED BY <1>4, <2>1
<1>7. PastInv' /\ DownInv' /\ OpenInv' /\ BootInv'
  BY <1>1 DEF PastInv, DownInv, OpenInv, BootInv, Up, AtMost, memVars
<1>8. ScanInv' /\ MarkInv'
  BY <1>1 DEF ScanInv, MarkInv
<1>9. proj'[cur] = seen
  BY <1>1 DEF TypeOK
<1>10. ProjectInv' /\ FoldersInv'
  <2>1. \A g \in Files : ReadWell(g)'
    BY <1>1, <1>2, <1>3 DEF ReadWell, memVars
  <2> QED BY <1>1, <1>9, <2>1 DEF ProjectInv, FoldersInv
<1>11. NoSilentStaleness'
  BY <1>1, <1>2 DEF NoSilentStaleness, Noticed, InHand, TypeOK, memVars
<1> QED BY <1>5, <1>6, <1>7, <1>8, <1>10, <1>11

LEMMA WriteFolderStep ==
  ASSUME ServiceInv, TypeOK', NEW f \in Files, WriteFolder(f)
  PROVE  ServiceInv'
<1> USE DEF ServiceInv
<1>1. /\ pc = "folders" /\ Up /\ cur \in Roots /\ seen = store[cur] /\ seen = proj[cur]
      /\ todo' = todo \ {f}
      /\ folders' = [folders EXCEPT ![cur][f] = seen[f]]
      /\ UNCHANGED <<untold, disk, store, proj, marks, chan, watching, memVars, pc, cur, boot, seen, edits>>
      /\ \E notes : raw' = [raw EXCEPT ![cur] = IF cur \in watching THEN @ \cup notes ELSE @]
  BY DEF WriteFolder, Notify, ProjectInv, FoldersInv, Up, TypeOK
<1>2. \A s \in Roots, g \in Files : Noticed(s, g) => Noticed(s, g)'
  BY <1>1 DEF Noticed, OnItsWay, Unheard, TypeOK
<1>3. \A g \in Files : ReadWell(g)
  BY <1>1 DEF ProjectInv
<1>4. \A s \in Roots, g \in Files :
         /\ proj[s][g] \in Nat /\ folders[s][g] \in Nat /\ folders'[s][g] \in Nat
         /\ folders'[s][g] <= proj[s][g] /\ folders[s][g] <= folders'[s][g]
         /\ s # cur \/ g # f => folders'[s][g] = folders[s][g]
  BY <1>1 DEF StagesInv, AtMost, TypeOK, Versions
<1>5. StagesInv'
  BY <1>1, <1>4 DEF StagesInv, AtMost
<1>6. AppliedIsServed'
  <2> SUFFICES ASSUME NEW s \in Roots, NEW e \in marks[s], NEW g \in Files
               PROVE  e.need[g] <= store[s][g] /\ e.need[g] <= proj[s][g] /\ e.need[g] <= folders'[s][g]
    BY <1>1 DEF AppliedIsServed, AtMost
  <2>1. e.need[g] \in Nat /\ e.need[g] <= store[s][g] /\ e.need[g] <= proj[s][g]
          /\ e.need[g] <= folders[s][g]
    BY DEF AppliedIsServed, AtMost, TypeOK, Event, Versions
  <2> QED BY <1>4, <2>1
<1>7. PastInv' /\ DownInv' /\ OpenInv' /\ BootInv'
  BY <1>1 DEF PastInv, DownInv, OpenInv, BootInv, Up, AtMost, memVars
<1>8. ScanInv' /\ MarkInv'
  BY <1>1 DEF ScanInv, MarkInv
<1>9. ProjectInv' /\ FoldersInv'
  <2>1. \A g \in Files : ReadWell(g)'
    BY <1>1, <1>2, <1>3 DEF ReadWell, memVars
  <2>2. \A g \in Files \ todo' : folders'[cur][g] = seen[g]
    BY <1>1, <1>4 DEF FoldersInv, TypeOK, Versions
  <2> QED BY <1>1, <2>1, <2>2 DEF ProjectInv, FoldersInv
<1>10. NoSilentStaleness'
  <2> SUFFICES ASSUME NEW s \in current, NEW g \in Files, folders'[s][g] # disk[s][g]
               PROVE  Noticed(s, g)' \/ InHand(s, g)
    BY <1>1 DEF NoSilentStaleness, Noticed, InHand, memVars
  <2>1. s \in Roots
    BY DEF TypeOK
  <2>2. CASE s = cur /\ g = f
    <3>1. folders'[s][g] = seen[g]
      BY <1>1, <2>2 DEF TypeOK, Versions
    <3> QED BY <1>2, <1>3, <2>1, <2>2, <3>1 DEF ReadWell
  <2>3. CASE s # cur \/ g # f
    BY <1>2, <1>4, <2>1, <2>3 DEF NoSilentStaleness, Noticed
  <2> QED BY <2>2, <2>3
<1> QED BY <1>5, <1>6, <1>7, <1>8, <1>9, <1>10

LEMMA ReconciledStep ==
  ASSUME ServiceInv, TypeOK', Reconciled
  PROVE  ServiceInv'
<1> USE DEF ServiceInv
<1>1. /\ pc = "folders" /\ Up /\ Up' /\ cur \in Roots /\ watching = Roots /\ pc' # "open"
      /\ UNCHANGED <<untold, disk, diskVars, watchVars, pending, edits>>
  BY LeaveInitialBetween DEF Reconciled, OpenInv, Up, TypeOK
<1>2. \A g \in Files : /\ ReadWell(g)
                        /\ folders[cur][g] = seen[g]
  BY <1>1 DEF Reconciled, ProjectInv, FoldersInv
<1>3. StagesInv' /\ AppliedIsServed' /\ PastInv'
  BY <1>1 DEF StagesInv, AppliedIsServed, PastInv, AtMost, diskVars, watchVars
<1>4. DownInv' /\ OpenInv'
  BY <1>1 DEF DownInv, OpenInv, watchVars
<1>5. \A s \in Roots, g \in Files : Noticed(s, g)' <=> Noticed(s, g)
  BY <1>1 DEF Noticed, OnItsWay, Unheard, watchVars
<1>6. NoSilentStaleness'
  <2> SUFFICES ASSUME NEW s \in current', NEW g \in Files, folders[s][g] # disk[s][g]
               PROVE  Noticed(s, g) \/ InHand(s, g)
    BY <1>1, <1>5 DEF NoSilentStaleness, Noticed, InHand, TypeOK, diskVars
  <2>1. CASE s = cur
    BY <1>2, <2>1 DEF ReadWell
  <2>2. CASE s # cur
    <3>1. s \in current
      BY <2>2 DEF Reconciled
    <3> QED BY <3>1 DEF NoSilentStaleness, Noticed
  <2> QED BY <2>1, <2>2
<1>7. CASE boot
  <2>1. LeaveInitial
    BY <1>7 DEF Reconciled
  <2>2. ScanInv' /\ ProjectInv' /\ FoldersInv' /\ MarkInv'
    BY <2>1, LeaveInitialBetween, BetweenStages
  <2>3. BootInv'
    BY <1>1, <1>7, <2>1, LeaveInitialBetween DEF BootInv
  <2> QED BY <1>3, <1>4, <1>6, <2>2, <2>3
<1>8. CASE ~boot
  <2>1. pc' = "mark" /\ cur' = cur /\ boot' = boot
    BY <1>8 DEF Reconciled
  <2>2. ScanInv' /\ ProjectInv' /\ FoldersInv' /\ BootInv'
    BY <1>8, <2>1 DEF ScanInv, ProjectInv, FoldersInv, BootInv
  <2>3. MarkInv'
    <3>1. \A g \in Files : folders[cur][g] # disk[cur][g] => Noticed(cur, g)
      BY <1>2 DEF ReadWell
    <3>2. \A e \in pending[cur] : AtMost(e.need, folders[cur])
      BY <1>2 DEF ReadWell, AtMost
    <3> QED BY <1>1, <1>5, <2>1, <3>1, <3>2 DEF MarkInv, AtMost, diskVars
  <2> QED BY <1>3, <1>4, <1>6, <2>2, <2>3
<1> QED BY <1>7, <1>8

LEMMA GiveUpStep ==
  ASSUME ServiceInv, TypeOK', GiveUp
  PROVE  ServiceInv'
<1> USE DEF ServiceInv
<1>1. /\ pc \in {"scan", "project", "folders"} /\ Up /\ watching = Roots
      /\ UNCHANGED <<untold, disk, diskVars, watchVars, memVars, edits>>
      /\ Between' /\ pc' \in {"drain", "tick", "scan"}
      /\ boot' => boot /\ pc' = "scan"
  BY LeaveBetween, LeaveInitialBetween DEF GiveUp, OpenInv, Up
<1>2. ScanInv' /\ ProjectInv' /\ FoldersInv' /\ MarkInv'
  BY <1>1, BetweenStages
<1>3. StagesInv' /\ AppliedIsServed' /\ PastInv'
  BY <1>1 DEF StagesInv, AppliedIsServed, PastInv, AtMost, diskVars, watchVars, memVars
<1>4. DownInv' /\ OpenInv' /\ BootInv'
  BY <1>1 DEF DownInv, OpenInv, BootInv, Up, watchVars, memVars
<1>5. NoSilentStaleness'
  BY <1>1 DEF NoSilentStaleness, Noticed, InHand, OnItsWay, Unheard, diskVars, watchVars, memVars
<1> QED BY <1>2, <1>3, <1>4, <1>5

LEMMA DrainStep ==
  ASSUME ServiceInv, TypeOK', Drain
  PROVE  ServiceInv'
<1> USE DEF ServiceInv
<1>1. /\ pc = "drain" /\ Up /\ cur \in Roots
      /\ UNCHANGED <<untold, disk, store, proj, folders, marks, raw, watching, done, current, threadVars, edits>>
  BY DEF Drain, Up, TypeOK
<1>2. PICK e \in chan[cur] : /\ pending' = [pending EXCEPT ![cur] = @ \cup {e}]
                            /\ chan' = [chan EXCEPT ![cur] = @ \ {e}]
  BY DEF Drain, Oldest
<1>3. ScanInv' /\ ProjectInv' /\ FoldersInv' /\ MarkInv'
  BY <1>1 DEF ScanInv, ProjectInv, FoldersInv, MarkInv, threadVars
<1>4. StagesInv' /\ AppliedIsServed'
  BY <1>1 DEF StagesInv, AppliedIsServed, AtMost
<1>5. \A s \in Roots : chan'[s] \cup pending'[s] = chan[s] \cup pending[s]
  BY <1>1, <1>2 DEF TypeOK
<1>6. PastInv'
  BY <1>1, <1>5 DEF PastInv, AtMost
<1>7. DownInv' /\ OpenInv' /\ BootInv'
  BY <1>1 DEF DownInv, OpenInv, BootInv, Up, threadVars
<1>8. NoSilentStaleness'
  <2> SUFFICES ASSUME NEW s \in current, NEW g \in Files, folders[s][g] # disk[s][g]
               PROVE  (Noticed(s, g) \/ InHand(s, g))'
    BY <1>1 DEF NoSilentStaleness, Noticed
  <2>1. s \in Roots /\ (Noticed(s, g) \/ InHand(s, g))
    BY DEF NoSilentStaleness, Noticed, TypeOK
  <2> QED BY <1>1, <1>5, <2>1 DEF Noticed, OnItsWay, Unheard, InHand
<1> QED BY <1>3, <1>4, <1>6, <1>7, <1>8

LEMMA SettleStep ==
  ASSUME ServiceInv, DoneInv, TypeOK', Settle
  PROVE  ServiceInv'
<1> USE DEF ServiceInv
<1>1. /\ pc = "drain" /\ Up /\ cur \in Roots /\ ~boot /\ watching = Roots
      /\ UNCHANGED <<untold, disk, diskVars, watchVars, current, edits>>
      /\ pending' = [pending EXCEPT ![cur] = @ \ done[cur]]
      /\ Between' /\ ~boot' /\ pc' \in {"drain", "tick", "scan"}
  BY LeaveBetween DEF Settle, BeginScan, Between, Up, BootInv, OpenInv, TypeOK
<1>2. ScanInv' /\ ProjectInv' /\ FoldersInv' /\ MarkInv'
  BY <1>1, BetweenStages
<1>3. StagesInv' /\ AppliedIsServed'
  BY <1>1 DEF StagesInv, AppliedIsServed, AtMost, diskVars
<1>4. PastInv'
  <2>1. \A s \in Roots : pending'[s] \subseteq pending[s]
    BY <1>1 DEF TypeOK
  <2> QED BY <1>1, <2>1 DEF PastInv, AtMost, watchVars
<1>5. DownInv' /\ OpenInv' /\ BootInv'
  BY <1>1 DEF DownInv, OpenInv, BootInv, Up, watchVars
<1>6. NoSilentStaleness'
  <2> SUFFICES ASSUME NEW s \in current, NEW g \in Files, folders[s][g] # disk[s][g]
               PROVE  (Noticed(s, g) \/ InHand(s, g))'
    BY <1>1 DEF NoSilentStaleness, Noticed, diskVars
  <2>1. s \in Roots /\ (Noticed(s, g) \/ InHand(s, g))
    BY DEF NoSilentStaleness, Noticed, TypeOK
  <2>2. CASE Noticed(s, g)
    BY <1>1, <2>2 DEF Noticed, OnItsWay, Unheard, watchVars
  <2>3. CASE InHand(s, g)
    <3>1. PICK e \in pending[s] : e.need[g] = disk[s][g]
      BY <2>3 DEF InHand
    <3>2. /\ folders[s][g] \in Nat /\ proj[s][g] \in Nat /\ store[s][g] \in Nat /\ disk[s][g] \in Nat
          /\ folders[s][g] <= proj[s][g] /\ proj[s][g] <= store[s][g] /\ store[s][g] <= disk[s][g]
      BY <2>1 DEF StagesInv, AtMost, TypeOK, Versions
    <3>3. e \notin marks[s]
      BY <2>1, <3>1, <3>2 DEF AppliedIsServed, AtMost
    <3>4. e \in pending'[s]
      BY <1>1, <2>1, <3>3 DEF DoneInv, TypeOK
    <3> QED BY <1>1, <3>1, <3>4 DEF InHand
  <2> QED BY <2>1, <2>2, <2>3
<1> QED BY <1>2, <1>3, <1>4, <1>5, <1>6

LEMMA MarkOneStep ==
  ASSUME ServiceInv, TypeOK', MarkOne
  PROVE  ServiceInv'
<1> USE DEF ServiceInv
<1>1. /\ pc = "mark" /\ Up /\ cur \in Roots
      /\ UNCHANGED <<untold, disk, store, proj, folders, watchVars, pending, current, threadVars, edits>>
  BY DEF MarkOne, Up, TypeOK
<1>2. PICK e \in pending[cur] : marks' = [marks EXCEPT ![cur] = @ \cup {e}]
  BY DEF MarkOne, Oldest
<1>3. AppliedIsServed'
  <2>1. \A g \in Files : /\ e.need[g] <= folders[cur][g]
                          /\ folders[cur][g] <= proj[cur][g] /\ proj[cur][g] <= store[cur][g]
    BY <1>1 DEF MarkInv, StagesInv, AtMost
  <2>2. \A g \in Files : /\ e.need[g] \in Nat /\ folders[cur][g] \in Nat
                          /\ proj[cur][g] \in Nat /\ store[cur][g] \in Nat
    BY <1>1 DEF TypeOK, Versions, Event
  <2>3. AtMost(e.need, proj[cur]) /\ AtMost(e.need, store[cur]) /\ AtMost(e.need, folders[cur])
    BY <2>1, <2>2 DEF AtMost
  <2>4. \A s \in Roots : \A d \in marks'[s] : d \in marks[s] \/ (s = cur /\ d = e)
    BY <1>2 DEF TypeOK
  <2>5. \A s \in Roots : \A d \in marks'[s] :
           AtMost(d.need, store[s]) /\ AtMost(d.need, proj[s]) /\ AtMost(d.need, folders[s])
    BY <2>3, <2>4 DEF AppliedIsServed
  <2> QED BY <1>1, <2>5 DEF AppliedIsServed, AtMost
<1>4. StagesInv' /\ PastInv'
  BY <1>1 DEF StagesInv, PastInv, AtMost, watchVars
<1>5. DownInv' /\ OpenInv' /\ BootInv'
  BY <1>1 DEF DownInv, OpenInv, BootInv, Up, watchVars, threadVars
<1>6. ScanInv' /\ ProjectInv' /\ FoldersInv'
  BY <1>1 DEF ScanInv, ProjectInv, FoldersInv, threadVars
<1>7. MarkInv'
  BY <1>1 DEF MarkInv, AtMost, Noticed, OnItsWay, Unheard, watchVars, threadVars
<1>8. NoSilentStaleness'
  BY <1>1 DEF NoSilentStaleness, Noticed, InHand, OnItsWay, Unheard, watchVars
<1> QED BY <1>3, <1>4, <1>5, <1>6, <1>7, <1>8

LEMMA ClearPendingStep ==
  ASSUME ServiceInv, TypeOK', ClearPending
  PROVE  ServiceInv'
<1> USE DEF ServiceInv
<1>1. /\ pc = "mark" /\ Up /\ cur \in Roots /\ watching = Roots
      /\ UNCHANGED <<untold, disk, diskVars, watchVars, current, edits>>
      /\ pending' = [pending EXCEPT ![cur] = {}]
      /\ Between' /\ ~boot' /\ pc' \in {"drain", "tick"}
  BY LeaveBetween DEF ClearPending, Up, OpenInv, TypeOK
<1>2. ScanInv' /\ ProjectInv' /\ FoldersInv' /\ MarkInv'
  BY <1>1, BetweenStages
<1>3. StagesInv' /\ AppliedIsServed'
  BY <1>1 DEF StagesInv, AppliedIsServed, AtMost, diskVars
<1>4. PastInv'
  <2>1. \A s \in Roots : pending'[s] \subseteq pending[s]
    BY <1>1 DEF TypeOK
  <2> QED BY <1>1, <2>1 DEF PastInv, AtMost, watchVars
<1>5. DownInv' /\ OpenInv' /\ BootInv'
  BY <1>1 DEF DownInv, OpenInv, BootInv, Up, watchVars
<1>6. NoSilentStaleness'
  <2> SUFFICES ASSUME NEW s \in current, NEW g \in Files, folders[s][g] # disk[s][g]
               PROVE  Noticed(s, g) \/ (s # cur /\ InHand(s, g))
    BY <1>1 DEF NoSilentStaleness, Noticed, InHand, OnItsWay, Unheard, TypeOK, diskVars, watchVars
  <2>1. Noticed(s, g) \/ InHand(s, g)
    BY DEF NoSilentStaleness, Noticed
  <2> QED BY <1>1, <2>1 DEF MarkInv
<1> QED BY <1>2, <1>3, <1>4, <1>5, <1>6

LEMMA TickStep ==
  ASSUME ServiceInv, TypeOK', Tick
  PROVE  ServiceInv'
<1> USE DEF ServiceInv
<1>1. /\ pc = "tick" /\ pc' = "drain" /\ Up
      /\ UNCHANGED <<untold, disk, diskVars, watchVars, memVars, cur, boot, edits>>
  BY DEF Tick, Up
<1>2. ScanInv' /\ ProjectInv' /\ FoldersInv' /\ MarkInv'
  BY <1>1, BetweenStages DEF Between
<1>3. StagesInv' /\ AppliedIsServed' /\ PastInv'
  BY <1>1 DEF StagesInv, AppliedIsServed, PastInv, AtMost, diskVars, watchVars, memVars
<1>4. DownInv' /\ OpenInv' /\ BootInv'
  BY <1>1 DEF DownInv, OpenInv, BootInv, Up, watchVars, memVars
<1>5. NoSilentStaleness'
  BY <1>1 DEF NoSilentStaleness, Noticed, InHand, OnItsWay, Unheard, diskVars, watchVars, memVars
<1> QED BY <1>2, <1>3, <1>4, <1>5

LEMMA StutterStep ==
  ASSUME ServiceInv, UNCHANGED vars
  PROVE  ServiceInv'
<1> USE DEF vars, diskVars, watchVars, memVars, threadVars
<1>1. TypeOK' /\ StagesInv' /\ PastInv' /\ AppliedIsServed'
  BY DEF ServiceInv, TypeOK, StagesInv, PastInv, AppliedIsServed, AtMost
<1>2. DownInv' /\ OpenInv' /\ BootInv'
  BY DEF ServiceInv, DownInv, OpenInv, BootInv, Up
<1>3. ScanInv' /\ ProjectInv' /\ FoldersInv' /\ MarkInv'
  BY DEF ServiceInv, ScanInv, ProjectInv, FoldersInv, MarkInv, ReadWell, Noticed, OnItsWay, Unheard, AtMost
<1>4. NoSilentStaleness'
  BY DEF ServiceInv, NoSilentStaleness, Noticed, InHand, OnItsWay, Unheard
<1> QED BY <1>1, <1>2, <1>3, <1>4 DEF ServiceInv

-----------------------------------------------------------------------------
(* The theorems.                                                           *)

\* Only Open, MarkOne and the end of the process touch what the coordinator
\* takes for applied.
LEMMA DoneNext == TypeOK /\ DoneInv /\ [Next]_vars => DoneInv'
<1> SUFFICES ASSUME TypeOK, DoneInv, [Next]_vars PROVE DoneInv'
  OBVIOUS
<1>1. CASE Open
  BY <1>1 DEF Open, DoneInv, TypeOK, diskVars
<1>2. CASE MarkOne
  BY <1>2 DEF MarkOne, DoneInv, TypeOK
<1>3. CASE Crash \/ JournalFailure \/ Shutdown
  BY <1>3 DEF Crash, JournalFailure, Shutdown, Halt, None, DoneInv
<1>4. CASE UNCHANGED <<marks, done>>
  BY <1>4 DEF DoneInv
<1>5. Open \/ MarkOne \/ Crash \/ JournalFailure \/ Shutdown \/ UNCHANGED <<marks, done>>
  BY DEF Next, Service, Edit, Callback, Ingest, Start, ReadFile, Commit, Project, WriteFolder, Reconciled, GiveUp,
         BrokenRootFails, TransientFailure, Drain, Settle, ClearPending, Tick, vars, diskVars,
         watchVars, memVars
<1> QED BY <1>1, <1>2, <1>3, <1>4, <1>5

LEMMA ServiceNext == ServiceInv /\ DoneInv /\ [Next]_vars => ServiceInv'
<1> SUFFICES ASSUME ServiceInv, DoneInv, [Next]_vars PROVE ServiceInv'
  OBVIOUS
<1>1. TypeOK'
  BY TypeNext DEF ServiceInv
<1>2. ASSUME NEW r \in Roots, NEW f \in Files, Edit(r, f) PROVE ServiceInv'
  BY <1>1, <1>2, EditStep
<1>3. ASSUME NEW r \in Roots, Callback(r) \/ Ingest(r) PROVE ServiceInv'
  BY <1>1, <1>3, CallbackStep, IngestStep
<1>4. CASE Start \/ Open \/ Commit \/ Project \/ Reconciled \/ Drain \/ Settle \/ MarkOne \/ ClearPending \/ Tick
  BY <1>1, <1>4, StartStep, OpenStep, CommitStep, ProjectStep, ReconciledStep, DrainStep, SettleStep,
     MarkOneStep, ClearPendingStep, TickStep
<1>5. ASSUME NEW f \in Files, ReadFile(f) \/ WriteFolder(f) PROVE ServiceInv'
  BY <1>1, <1>5, ReadFileStep, WriteFolderStep
<1>6. CASE BrokenRootFails \/ TransientFailure
  BY <1>1, <1>6, GiveUpStep DEF BrokenRootFails, TransientFailure
<1>7. CASE Crash \/ JournalFailure \/ Shutdown
  BY <1>1, <1>7, HaltStep DEF Crash, JournalFailure, Shutdown
<1>8. CASE UNCHANGED vars
  BY <1>8, StutterStep
<1> QED BY <1>2, <1>3, <1>4, <1>5, <1>6, <1>7, <1>8 DEF Next, Service

\* The invariant holds in every behaviour of the service.
THEOREM ServiceInvariant == Spec => [](ServiceInv /\ DoneInv)
<1>1. Init => ServiceInv /\ DoneInv
  BY InitInv DEF DoneInv, Init, None
<1>2. ServiceInv /\ DoneInv /\ [Next]_vars => (ServiceInv /\ DoneInv)'
  BY ServiceNext, DoneNext DEF ServiceInv
<1> QED BY <1>1, <1>2, PTL DEF Spec

\* Every state of the service is well typed.
THEOREM TypeCorrect == Spec => []TypeOK
<1>1. ServiceInv => TypeOK
  BY DEF ServiceInv
<1> QED BY <1>1, ServiceInvariant, PTL

\* No marker in journal.applied is premature: whatever crashes and failures
\* there are, the database and ATLAS.idx show all a marked event announced.
THEOREM MarkersAreServed == Spec => []AppliedIsServed
<1>1. ServiceInv => AppliedIsServed
  BY DEF ServiceInv
<1> QED BY <1>1, ServiceInvariant, PTL

\* No file of a root reconciled at start-up is silently stale.
THEOREM StalenessIsNoticed == Spec => []NoSilentStaleness
<1>1. ServiceInv => NoSilentStaleness
  BY DEF ServiceInv
<1> QED BY <1>1, ServiceInvariant, PTL

-----------------------------------------------------------------------------
(* The database mirrors the tree, and ATLAS.idx mirrors the database.      *)

LEMMA SourcesMove ==
  ASSUME TypeOK, [Next]_vars
  PROVE  \/ UNCHANGED <<disk, store, proj, folders>>
         \/ (\E r \in Roots, f \in Files : Edit(r, f)) /\ UNCHANGED <<store, proj, folders>>
         \/ Commit /\ UNCHANGED <<disk, proj, folders>>
         \/ Project /\ UNCHANGED <<disk, store, folders>>
         \/ (\E f \in Files : WriteFolder(f)) /\ UNCHANGED <<disk, store, proj>>
<1>1. CASE \E r \in Roots, f \in Files : Edit(r, f)
  BY <1>1 DEF Edit, diskVars
<1>2. CASE Commit
  BY <1>2 DEF Commit
<1>3. CASE Project
  BY <1>3 DEF Project
<1>4. CASE \E f \in Files : WriteFolder(f)
  BY <1>4 DEF WriteFolder
<1>5. \/ \E r \in Roots, f \in Files : Edit(r, f)
      \/ Commit \/ Project
      \/ \E f \in Files : WriteFolder(f)
      \/ UNCHANGED <<disk, store, proj, folders>>
  BY DEF Next, Service, Callback, Ingest, Start, Open, ReadFile, Reconciled, GiveUp,
         BrokenRootFails, TransientFailure, Drain, Settle, MarkOne, ClearPending, Tick, Crash,
         JournalFailure, Shutdown, Halt, vars, diskVars
<1> QED BY <1>1, <1>2, <1>3, <1>4, <1>5

LEMMA EditMoves ==
  ASSUME ServiceInv, NEW r \in Roots, NEW f \in Files, Edit(r, f)
  PROVE  AtMost(disk[r], disk'[r]) /\ \A s \in Roots \ {r} : disk'[s] = disk[s]
  BY DEF ServiceInv, Edit, PastInv, AtMost, TypeOK, Versions

LEMMA CommitMoves ==
  ASSUME ServiceInv, Commit
  PROVE  /\ cur \in Roots
         /\ AtMost(store[cur], store'[cur])
         /\ AtMost(store'[cur], disk[cur])
         /\ \A s \in Roots \ {cur} : store'[s] = store[s]
  BY DEF ServiceInv, Commit, ScanInv, ReadWell, AtMost, TypeOK

LEMMA ProjectMoves ==
  ASSUME ServiceInv, Project
  PROVE  /\ cur \in Roots
         /\ AtMost(proj[cur], proj'[cur])
         /\ AtMost(proj'[cur], store[cur])
         /\ \A s \in Roots \ {cur} : proj'[s] = proj[s]
<1>1. cur \in Roots /\ proj' = [proj EXCEPT ![cur] = store[cur]]
  BY DEF ServiceInv, Project, ProjectInv, TypeOK
<1>2. AtMost(proj[cur], store[cur]) /\ AtMost(store[cur], store[cur])
  BY <1>1 DEF ServiceInv, StagesInv, AtMost, TypeOK, Versions
<1> QED BY <1>1, <1>2 DEF ServiceInv, TypeOK

LEMMA WriteFolderMoves ==
  ASSUME ServiceInv, NEW f \in Files, WriteFolder(f)
  PROVE  /\ cur \in Roots
         /\ AtMost(folders[cur], folders'[cur])
         /\ AtMost(folders'[cur], proj[cur])
         /\ \A s \in Roots \ {cur} : folders'[s] = folders[s]
<1>1. cur \in Roots /\ folders' = [folders EXCEPT ![cur][f] = proj[cur][f]]
  BY DEF ServiceInv, WriteFolder, FoldersInv, TypeOK
<1>2. AtMost(folders[cur], proj[cur]) /\ \A g \in Files : proj[cur][g] <= proj[cur][g]
  BY <1>1 DEF ServiceInv, StagesInv, TypeOK, Versions
<1>3. \A g \in Files : folders[cur][g] <= folders[cur][g]
  BY <1>1 DEF ServiceInv, TypeOK, Versions
<1> QED BY <1>1, <1>2, <1>3 DEF ServiceInv, AtMost, TypeOK, Versions

\* Every step of the service is, seen from the database, an edit of the tree, a
\* publication of versions between what the database held and what the tree
\* holds, or nothing.
THEOREM DatabaseIsMirror == Spec => DatabaseMirrorsTree
<1>1. Init => Database!MirrorInit
  BY DEF Init, Blank, Database!MirrorInit, Database!UpTo
<1>2. ServiceInv /\ [Next]_vars => [Database!MirrorNext]_(Database!mirrorVars)
  <2> SUFFICES ASSUME ServiceInv, [Next]_vars,  ~UNCHANGED <<disk, store>>
               PROVE  Database!MirrorNext
    BY DEF Database!mirrorVars
  <2>1. \/ \E r \in Roots, f \in Files : Edit(r, f) /\ store' = store
        \/ Commit /\ disk' = disk
    BY SourcesMove DEF ServiceInv
  <2>2. ASSUME NEW r \in Roots, NEW f \in Files, Edit(r, f), store' = store
        PROVE  Database!Change(r)
    BY <2>2, EditMoves DEF Database!Change, Database!UpTo, AtMost
  <2>3. ASSUME Commit, disk' = disk PROVE cur \in Roots /\ Database!Publish(cur)
    BY <2>3, CommitMoves DEF Database!Publish, Database!UpTo, AtMost
  <2> QED BY <2>1, <2>2, <2>3 DEF Database!MirrorNext
<1> QED BY <1>1, <1>2, ServiceInvariant, PTL DEF Spec, DatabaseMirrorsTree, Database!MirrorSpec

\* The same of ATLAS.idx, whose source is the database.
THEOREM ProjectionIsMirror == Spec => ProjectionMirrorsDatabase
<1>1. Init => Projection!MirrorInit
  BY DEF Init, Blank, Projection!MirrorInit, Projection!UpTo
<1>2. ServiceInv /\ [Next]_vars => [Projection!MirrorNext]_(Projection!mirrorVars)
  <2> SUFFICES ASSUME ServiceInv, [Next]_vars,  ~UNCHANGED <<store, proj>>
               PROVE  Projection!MirrorNext
    BY DEF Projection!mirrorVars
  <2>1. \/ Commit /\ proj' = proj
        \/ Project /\ store' = store
    BY SourcesMove DEF ServiceInv
  <2>2. ASSUME Commit, proj' = proj PROVE cur \in Roots /\ Projection!Change(cur)
    BY <2>2, CommitMoves DEF Projection!Change, Projection!UpTo, AtMost
  <2>3. ASSUME Project, store' = store PROVE cur \in Roots /\ Projection!Publish(cur)
    BY <2>3, ProjectMoves DEF Projection!Publish, Projection!UpTo, AtMost
  <2> QED BY <2>1, <2>2, <2>3 DEF Projection!MirrorNext
<1> QED BY <1>1, <1>2, ServiceInvariant, PTL DEF Spec, ProjectionMirrorsDatabase, Projection!MirrorSpec

\* The same of the folders' ATLAS.idx files, whose source is the root's.
THEOREM FoldersAreMirrors == Spec => FoldersMirrorProjection
<1>1. Init => Subtrees!MirrorInit
  BY DEF Init, Blank, Subtrees!MirrorInit, Subtrees!UpTo
<1>2. ServiceInv /\ [Next]_vars => [Subtrees!MirrorNext]_(Subtrees!mirrorVars)
  <2> SUFFICES ASSUME ServiceInv, [Next]_vars,  ~UNCHANGED <<proj, folders>>
               PROVE  Subtrees!MirrorNext
    BY DEF Subtrees!mirrorVars
  <2>1. \/ Project /\ folders' = folders
        \/ \E f \in Files : WriteFolder(f) /\ proj' = proj
    BY SourcesMove DEF ServiceInv
  <2>2. ASSUME Project, folders' = folders PROVE cur \in Roots /\ Subtrees!Change(cur)
    BY <2>2, ProjectMoves DEF Subtrees!Change, Subtrees!UpTo, AtMost
  <2>3. ASSUME NEW f \in Files, WriteFolder(f), proj' = proj
        PROVE  cur \in Roots /\ Subtrees!Publish(cur)
    BY <2>3, WriteFolderMoves DEF Subtrees!Publish, Subtrees!UpTo, AtMost
  <2> QED BY <2>1, <2>2, <2>3 DEF Subtrees!MirrorNext
<1> QED BY <1>1, <1>2, ServiceInvariant, PTL DEF Spec, FoldersMirrorProjection, Subtrees!MirrorSpec

\* The chain of copies: tree, database, ATLAS.idx of the root, those of the folders.
THEOREM ChainOfMirrors == Spec => CopiesAreMirrors
  BY DatabaseIsMirror, ProjectionIsMirror, FoldersAreMirrors DEF CopiesAreMirrors
=============================================================================
