---------------------------- MODULE StoreProofs ----------------------------
(***************************************************************************)
(* Four promises of the unlocked store, for any number of processes, edits *)
(* and stops: ATLAS.idx and the database hold whole snapshots unless two   *)
(* processes wrote ATLAS.idx at once; recorded evidence stays unless two   *)
(* `evidence` commands cross; and a process nobody disturbs undoes         *)
(* nothing, and a scan heals what it finds, but for what is recorded on    *)
(* symbols.                                                                *)
(***************************************************************************)
EXTENDS Store, TLAPS

(* Types.                                                                  *)

LEMMA AbsentType == Absent \in Snapshot /\ Absent.whole
BY DEF Absent, Snapshot, Entities, Record

LEMMA ScannedType ==
    ASSUME NEW t \in Nat
    PROVE  Scanned(t) \in Snapshot /\ Scanned(t).whole
BY DEF Scanned, Snapshot, Entities, Record

LEMMA TextType ==
    ASSUME NEW s \in Snapshot
    PROVE  Text("part", s) \in File /\ Text("full", s) \in File
BY DEF Text, File

LEMMA FixedTexts ==
    /\ None \in File /\ Empty \in File /\ Mixed \in File
    /\ None # Empty
    /\ None.text = "none"
    /\ None.of.whole
BY AbsentType DEF None, Empty, Mixed, Text, File

\* What a file decodes to is a snapshot; the text of a whole snapshot decodes to whole ones.
LEMMA DecodedType ==
    ASSUME NEW file \in File, tree \in Nat, NEW s \in Decoded(file)
    PROVE  /\ s \in Snapshot
           /\ file.text \in {"none", "full"} /\ file.of.whole => s.whole
<1>1. PICK o : /\ s = [o EXCEPT !.ents.sum = FALSE]
               /\ o \in IF file.text = "full" THEN {file.of}
                        ELSE IF file.text = "part" THEN {[file.of EXCEPT !.whole = FALSE]}
                        ELSE IF file.text = "mixed"
                             THEN {[Scanned(t) EXCEPT !.whole = FALSE] : t \in 1 .. tree}
                        ELSE {}
    BY DEF Decoded
<1>2. file.of \in Snapshot
    BY DEF File
<1>3. o \in Snapshot
    <2>1. [file.of EXCEPT !.whole = FALSE] \in Snapshot
        BY <1>2 DEF Snapshot
    <2>2. ASSUME NEW t \in 1 .. tree PROVE [Scanned(t) EXCEPT !.whole = FALSE] \in Snapshot
        <3>1. t \in Nat
            BY <2>2
        <3>2. Scanned(t) \in Snapshot
            BY <3>1, ScannedType
        <3> QED BY <3>2 DEF Snapshot
    <2> QED BY <1>1, <1>2, <2>1, <2>2
<1>4. s \in Snapshot /\ s.whole = o.whole
    <2>1. o.ents \in Entities
        BY <1>3 DEF Snapshot
    <2>2. [o.ents EXCEPT !.sum = FALSE] \in Entities
        BY <2>1 DEF Entities
    <2>3. s = [o EXCEPT !.ents = [o.ents EXCEPT !.sum = FALSE]]
        BY <1>1
    <2> QED BY <1>3, <2>2, <2>3 DEF Snapshot
<1>5. file.text \in {"none", "full"} => o = file.of
    BY <1>1
<1> QED BY <1>4, <1>5

LEMMA NewEvidenceType ==
    ASSUME NEW t \in Nat, NEW new \in NewEvidence(t)
    PROVE  new \subseteq Record
BY DEF NewEvidence, Record, Bearers

LEMMA TypeInit == StoreAssumption /\ Init => TypeOK
<1> SUFFICES ASSUME Init PROVE TypeOK
    OBVIOUS
<1>1. job \in [Procs -> AllJobs] /\ pc \in [Procs -> Points]
    BY DEF Init, AllJobs, Points
<1>2. snap \in [Procs -> Snapshot] /\ db \in Snapshot
    BY AbsentType DEF Init
<1>3. kept \in [Procs -> SUBSET Record]
    BY DEF Init
<1>4. idx \in File /\ temp \in File
    BY FixedTexts DEF Init
<1>5. \A p \in Procs : handle[p] # "none" <=> pc[p] \in {"part", "rest", "rename"}
    BY DEF Init
<1> QED BY <1>1, <1>2, <1>3, <1>4, <1>5 DEF Init, TypeOK

\* A process that has finished.
LEMMA TypeFinish ==
    ASSUME TypeOK, NEW p \in Procs, Finish(p)
    PROVE  /\ pc' \in [Procs -> Points]
           /\ job' \in [Procs -> AllJobs]
           /\ snap' \in [Procs -> Snapshot]
           /\ kept' \in [Procs -> SUBSET Record]
           /\ handle' \in [Procs -> {"none", "temp", "idx", "lost"}]
           /\ \A q \in Procs : handle'[q] # "none" <=> pc'[q] \in {"part", "rest", "rename"}
<1>1. pc' \in [Procs -> Points] /\ job' \in [Procs -> AllJobs]
    BY DEF TypeOK, Finish, Goto, Points, AllJobs
<1>2. snap' \in [Procs -> Snapshot]
    BY AbsentType DEF TypeOK, Finish
<1>3. kept' \in [Procs -> SUBSET Record]
    BY DEF TypeOK, Finish
<1>4. handle' \in [Procs -> {"none", "temp", "idx", "lost"}]
    BY DEF TypeOK, Finish
<1>5. \A q \in Procs : handle'[q] # "none" <=> pc'[q] \in {"part", "rest", "rename"}
    BY DEF TypeOK, Finish, Goto
<1> QED BY <1>1, <1>2, <1>3, <1>4, <1>5

\* A process that goes on to a point where it has no file open.
LEMMA TypeGoto ==
    ASSUME TypeOK, NEW p \in Procs, NEW point \in Points, Goto(p, point),
           pc[p] \notin {"part", "rest", "rename"},
           point \notin {"part", "rest", "rename"}, UNCHANGED handle
    PROVE  /\ pc' \in [Procs -> Points]
           /\ handle' \in [Procs -> {"none", "temp", "idx", "lost"}]
           /\ \A q \in Procs : handle'[q] # "none" <=> pc'[q] \in {"part", "rest", "rename"}
BY DEF TypeOK, Goto

LEMMA TypeDisturb ==
    ASSUME NEW p \in Procs, Disturb(p)
    PROVE  quiet' \in [Procs -> BOOLEAN]
BY DEF Disturb

LEMMA TypeNext == StoreAssumption /\ TypeOK /\ [Next]_vars => TypeOK'
<1> SUFFICES ASSUME StoreAssumption, TypeOK, [Next]_vars PROVE TypeOK'
    OBVIOUS
<1> USE DEF shared
<1>1. CASE Edit
    BY <1>1 DEF Edit, locals, TypeOK
<1>2. ASSUME NEW p \in Procs, Start(p) PROVE TypeOK'
    <2>1. PICK j \in Jobs : /\ job' = [job EXCEPT ![p] = j]
                            /\ Goto(p, IF j = "rebuild" THEN "restore" ELSE "id")
        BY <1>2 DEF Start
    <2>2. job' \in [Procs -> AllJobs]
        BY <2>1 DEF TypeOK, StoreAssumption
    <2>3. pc' \in [Procs -> Points]
          /\ \A q \in Procs : handle'[q] # "none" <=> pc'[q] \in {"part", "rest", "rename"}
        BY <1>2, <2>1 DEF Start, Goto, TypeOK, Points
    <2>4. quiet' \in [Procs -> BOOLEAN]
        BY <1>2 DEF Start
    <2> QED BY <1>2, <2>2, <2>3, <2>4 DEF Start, TypeOK
<1>3. ASSUME NEW p \in Procs, LoadId(p) PROVE TypeOK'
    <2>1. CASE db # Absent /\ snap' = [snap EXCEPT ![p].id = db.id] /\ Goto(p, "ents")
               /\ UNCHANGED <<job, kept, handle>>
        <3>1. [snap[p] EXCEPT !.id = db.id] \in Snapshot
            BY DEF TypeOK, Snapshot
        <3>2. snap' \in [Procs -> Snapshot]
            BY <2>1, <3>1 DEF TypeOK
        <3> QED BY <1>3, <2>1, <3>2, TypeGoto, TypeDisturb DEF LoadId, TypeOK, Points
    <2>2. CASE Goto(p, "tree") /\ UNCHANGED <<job, snap, kept, handle>>
        BY <1>3, <2>2, TypeGoto, TypeDisturb DEF LoadId, TypeOK, Points
    <2>3. CASE Finish(p)
        BY <1>3, <2>3, TypeFinish, TypeDisturb DEF LoadId, TypeOK
    <2> QED BY <1>3, <2>1, <2>2, <2>3 DEF LoadId
<1>4. ASSUME NEW p \in Procs, LoadEntities(p) PROVE TypeOK'
    <2>1. [snap[p] EXCEPT !.ents = db.ents, !.whole = db.whole] \in Snapshot
        BY DEF TypeOK, Snapshot
    <2>2. snap' \in [Procs -> Snapshot]
        BY <1>4, <2>1 DEF LoadEntities, TypeOK
    <2> QED BY <1>4, <2>2, TypeGoto, TypeDisturb DEF LoadEntities, TypeOK, Points
<1>5. ASSUME NEW p \in Procs, LoadEdges(p) PROVE TypeOK'
    <2>1. CASE Finish(p)
        BY <1>5, <2>1, TypeFinish, TypeDisturb DEF LoadEdges, TypeOK
    <2>2. CASE /\ snap' = [snap EXCEPT ![p].edges = db.edges]
               /\ Goto(p, IF job[p] = "scan" THEN "tree"
                          ELSE IF job[p] = "evidence" THEN "read" ELSE "propose")
               /\ UNCHANGED <<job, kept, handle>>
        <3>1. [snap[p] EXCEPT !.edges = db.edges] \in Snapshot
            BY DEF TypeOK, Snapshot
        <3>2. snap' \in [Procs -> Snapshot]
            BY <2>2, <3>1 DEF TypeOK
        <3>3. PICK point \in {"tree", "read", "propose"} : Goto(p, point)
            BY <2>2
        <3> QED BY <1>5, <2>2, <3>2, <3>3, TypeGoto, TypeDisturb DEF LoadEdges, TypeOK, Points
    <2> QED BY <1>5, <2>1, <2>2 DEF LoadEdges
<1>6. ASSUME NEW p \in Procs, ScanTree(p) PROVE TypeOK'
    <2>1. Scanned(tree) \in Snapshot
        BY ScannedType DEF TypeOK
    <2>2. [Scanned(tree) EXCEPT !.ents.sum = snap[p].ents.sum] \in Snapshot
        BY <2>1 DEF TypeOK, Snapshot, Entities, Scanned
    <2>3. snap' \in [Procs -> Snapshot]
        BY <1>6, <2>2 DEF ScanTree, TypeOK
    <2> QED BY <1>6, <2>3, TypeGoto, TypeDisturb DEF ScanTree, TypeOK, Points
<1>7. ASSUME NEW p \in Procs, MergeEvidence(p) PROVE TypeOK'
    <2> DEFINE ev == Mergeable(snap[p].id)
    <2>1. ev \subseteq Record
        BY DEF TypeOK, Mergeable
    <2>2. [snap[p].ents EXCEPT !.ev = ev] \in Entities
        BY <2>1 DEF TypeOK, Snapshot, Entities
    <2>3. [snap[p] EXCEPT !.ents = [snap[p].ents EXCEPT !.ev = ev]] \in Snapshot
        BY <2>2 DEF TypeOK, Snapshot
    <2>4. snap' = [snap EXCEPT ![p] = [snap[p] EXCEPT !.ents = [snap[p].ents EXCEPT !.ev = ev]]]
        BY <1>7 DEF MergeEvidence
    <2>5. snap' \in [Procs -> Snapshot]
        BY <2>3, <2>4 DEF TypeOK
    <2> QED BY <1>7, <2>5, TypeGoto, TypeDisturb DEF MergeEvidence, TypeOK, Points
<1>8. ASSUME NEW p \in Procs, ReadEvidence(p) PROVE TypeOK'
    <2>1. kept' \in [Procs -> SUBSET Record]
        BY <1>8 DEF ReadEvidence, TypeOK
    <2>2. crossed' \in BOOLEAN
        BY <1>8 DEF ReadEvidence, TypeOK
    <2> QED BY <1>8, <2>1, <2>2, TypeGoto, TypeDisturb DEF ReadEvidence, TypeOK, Points
<1>9. ASSUME NEW p \in Procs, WriteEvidence(p) PROVE TypeOK'
    <2>1. PICK new \in NewEvidence(snap[p].id) :
              /\ evidence' = kept[p] \cup new
              /\ recorded' = recorded \cup new
              /\ snap' = [snap EXCEPT ![p].ents.ev = @ \cup new]
        BY <1>9 DEF WriteEvidence
    <2> DEFINE ev == snap[p].ents.ev \cup new
    <2>2. new \subseteq Record
        BY NewEvidenceType DEF TypeOK, Snapshot
    <2>3. evidence' \subseteq Record /\ recorded' \subseteq Record
        BY <2>1, <2>2 DEF TypeOK
    <2>4. ev \subseteq Record
        BY <2>2 DEF TypeOK, Snapshot, Entities
    <2>5. [snap[p].ents EXCEPT !.ev = ev] \in Entities
        BY <2>4 DEF TypeOK, Snapshot, Entities
    <2>6. [snap[p] EXCEPT !.ents = [snap[p].ents EXCEPT !.ev = ev]] \in Snapshot
        BY <2>5 DEF TypeOK, Snapshot
    <2>7. snap' = [snap EXCEPT ![p] = [snap[p] EXCEPT !.ents = [snap[p].ents EXCEPT !.ev = ev]]]
        BY <2>1
    <2>8. snap' \in [Procs -> Snapshot]
        BY <2>6, <2>7 DEF TypeOK
    <2> QED BY <1>9, <2>3, <2>8, TypeGoto, TypeDisturb DEF WriteEvidence, TypeOK, Points
<1>10. ASSUME NEW p \in Procs, Propose(p) PROVE TypeOK'
    <2>1. CASE snap' = [snap EXCEPT ![p].ents.sum = TRUE] /\ Goto(p, "replace")
               /\ UNCHANGED <<job, kept, handle>>
        <3>1. [snap[p].ents EXCEPT !.sum = TRUE] \in Entities
            <4>1. snap[p].ents \in Entities
                BY DEF TypeOK, Snapshot
            <4> QED BY <4>1 DEF Entities
        <3>2. [snap[p] EXCEPT !.ents = [snap[p].ents EXCEPT !.sum = TRUE]] \in Snapshot
            BY <3>1 DEF TypeOK, Snapshot
        <3>3. snap' = [snap EXCEPT ![p] = [snap[p] EXCEPT !.ents = [snap[p].ents EXCEPT !.sum = TRUE]]]
            BY <2>1
        <3>4. snap' \in [Procs -> Snapshot]
            BY <3>2, <3>3 DEF TypeOK
        <3> QED BY <1>10, <2>1, <3>4, TypeGoto, TypeDisturb DEF Propose, TypeOK, Points
    <2>2. CASE Finish(p)
        BY <1>10, <2>2, TypeFinish, TypeDisturb DEF Propose, TypeOK
    <2> QED BY <1>10, <2>1, <2>2 DEF Propose
<1>11. ASSUME NEW p \in Procs, Restore(p) PROVE TypeOK'
    <2>1. ASSUME NEW s \in Decoded(idx), snap' = [snap EXCEPT ![p] = s], Goto(p, "replace"),
                 UNCHANGED <<job, kept, handle>>
          PROVE  TypeOK'
        <3>1. s \in Snapshot
            BY DecodedType DEF TypeOK
        <3>2. snap' \in [Procs -> Snapshot]
            BY <2>1, <3>1 DEF TypeOK
        <3> QED BY <1>11, <2>1, <3>2, TypeGoto, TypeDisturb DEF Restore, TypeOK, Points
    <2>2. CASE Finish(p)
        BY <1>11, <2>2, TypeFinish, TypeDisturb DEF Restore, TypeOK
    <2> QED BY <1>11, <2>1, <2>2 DEF Restore
<1>12. ASSUME NEW p \in Procs, Replace(p) PROVE TypeOK'
    <2>1. db' \in Snapshot
        BY <1>12 DEF Replace, TypeOK
    <2>2. CASE Finish(p)
        BY <1>12, <2>1, <2>2, TypeFinish, TypeDisturb DEF Replace, TypeOK
    <2>3. CASE Goto(p, "create") /\ UNCHANGED <<job, snap, kept, handle>>
        BY <1>12, <2>1, <2>3, TypeGoto, TypeDisturb DEF Replace, TypeOK, Points
    <2> QED BY <1>12, <2>2, <2>3 DEF Replace
<1>13. ASSUME NEW p \in Procs, Create(p) PROVE TypeOK'
    <2>1. temp' \in File
        BY <1>13, FixedTexts DEF Create
    <2>2. /\ pc' \in [Procs -> Points]
          /\ handle' \in [Procs -> {"none", "temp", "idx", "lost"}]
          /\ \A q \in Procs : handle'[q] # "none" <=> pc'[q] \in {"part", "rest", "rename"}
        BY <1>13 DEF Create, Goto, TypeOK, Points
    <2>3. overlap' \in BOOLEAN
        BY <1>13 DEF Create, TypeOK
    <2> QED BY <1>13, <2>1, <2>2, <2>3, TypeDisturb DEF Create, TypeOK
<1>14. ASSUME NEW p \in Procs, WritePart(p) PROVE TypeOK'
    <2>1. temp' \in File /\ idx' \in File
        BY <1>14, FixedTexts, TextType DEF WritePart, Hold, TypeOK
    <2>2. /\ pc' \in [Procs -> Points]
          /\ \A q \in Procs : handle'[q] # "none" <=> pc'[q] \in {"part", "rest", "rename"}
        BY <1>14 DEF WritePart, Goto, TypeOK, Points
    <2> QED BY <1>14, <2>1, <2>2, TypeDisturb DEF WritePart, TypeOK
<1>15. ASSUME NEW p \in Procs, WriteRest(p) PROVE TypeOK'
    <2>1. PICK file \in {Text("full", snap[p]), Mixed} : Hold(p, file)
        BY <1>15 DEF WriteRest
    <2>2. file \in File
        BY <2>1, FixedTexts, TextType DEF TypeOK
    <2>3. temp' \in File /\ idx' \in File
        BY <2>1, <2>2 DEF Hold, TypeOK
    <2>4. /\ pc' \in [Procs -> Points]
          /\ \A q \in Procs : handle'[q] # "none" <=> pc'[q] \in {"part", "rest", "rename"}
        BY <1>15 DEF WriteRest, Goto, TypeOK, Points
    <2> QED BY <1>15, <2>3, <2>4, TypeDisturb DEF WriteRest, TypeOK
<1>16. ASSUME NEW p \in Procs, Rename(p) PROVE TypeOK'
    <2>1. temp' \in File /\ idx' \in File
        BY <1>16, FixedTexts DEF Rename, TypeOK
    <2>2. handle' \in [Procs -> {"none", "temp", "idx", "lost"}]
          /\ \A q \in Procs : handle'[q] = "none" <=> q = p \/ handle[q] = "none"
        BY <1>16 DEF Rename, TypeOK
    <2>3. /\ pc' \in [Procs -> Points]
          /\ \A q \in Procs : handle'[q] # "none" <=> pc'[q] \in {"part", "rest", "rename"}
        BY <1>16, <2>2 DEF Rename, Goto, TypeOK, Points
    <2>4. job' \in [Procs -> AllJobs] /\ kept' \in [Procs -> SUBSET Record]
        BY <1>16 DEF Rename, TypeOK, AllJobs
    <2>5. snap' \in [Procs -> Snapshot]
        BY <1>16, AbsentType DEF Rename, TypeOK
    <2> QED BY <1>16, <2>1, <2>2, <2>3, <2>4, <2>5, TypeDisturb DEF Rename, TypeOK
<1>17. ASSUME NEW p \in Procs, Stop(p) PROVE TypeOK'
    BY <1>17, TypeFinish, TypeDisturb DEF Stop, TypeOK
<1>18. CASE UNCHANGED vars
    BY <1>18 DEF vars, locals, ghosts, TypeOK
<1> QED BY <1>1, <1>2, <1>3, <1>4, <1>5, <1>6, <1>7, <1>8, <1>9, <1>10, <1>11, <1>12,
           <1>13, <1>14, <1>15, <1>16, <1>17, <1>18 DEF Next, Step

\* Every state of the store is well typed, and a process has a file open exactly while
\* it writes ATLAS.idx.
THEOREM TypeCorrect == Spec => []TypeOK
BY TypeInit, TypeNext, StoreAssumption, PTL DEF Spec

-----------------------------------------------------------------------------
(* Whole snapshots.                                                        *)

\* As long as no two processes wrote ATLAS.idx at once, at most one has its temporary
\* file open, under that name, and the file holds what that process has written of it.
WholeInv ==
    ~overlap =>
        /\ \A p, q \in Procs : handle[p] # "none" /\ handle[q] # "none" => p = q
        /\ \A p \in Procs : handle[p] \in {"none", "temp"}
        /\ \A p \in Procs : pc[p] = "part" => temp = Empty
        /\ \A p \in Procs : pc[p] = "rest" => temp = Text("part", snap[p])
        /\ \A p \in Procs : pc[p] = "rename" => temp = Text("full", snap[p])
        /\ \A p \in Procs : snap[p].whole
        /\ idx.text \in {"none", "full"} /\ idx.of.whole
        /\ db.whole

LEMMA WholeInit == Init => WholeInv
BY AbsentType, FixedTexts DEF Init, WholeInv

\* A step that leaves the files alone, after which every snapshot is still whole.
LEMMA WholeElsewhere ==
    ASSUME TypeOK, TypeOK', WholeInv, NEW p \in Procs,
           UNCHANGED <<idx, temp, overlap>>,
           \A q \in Procs \ {p} : pc'[q] = pc[q] /\ snap'[q] = snap[q] /\ handle'[q] = handle[q],
           handle'[p] = "none",
           ~overlap => snap'[p].whole /\ db'.whole
    PROVE  WholeInv'
<1>1. pc'[p] \notin {"part", "rest", "rename"}
    BY DEF TypeOK
<1> QED BY <1>1 DEF WholeInv

LEMMA WholeFinish ==
    ASSUME TypeOK, NEW p \in Procs, Finish(p)
    PROVE  /\ \A q \in Procs \ {p} : pc'[q] = pc[q] /\ snap'[q] = snap[q] /\ handle'[q] = handle[q]
           /\ handle'[p] = "none"
           /\ snap'[p].whole
BY AbsentType DEF Finish, Goto, TypeOK

\* A process that is not writing ATLAS.idx and goes on with the snapshot s.
LEMMA WholeGoto ==
    ASSUME TypeOK, TypeOK', WholeInv, NEW p \in Procs, NEW point, Goto(p, point),
           pc[p] \notin {"part", "rest", "rename"},
           NEW s, snap' = [snap EXCEPT ![p] = s],
           idx' = idx, temp' = temp, overlap' = overlap, handle' = handle,
           ~overlap => s.whole /\ db'.whole
    PROVE  WholeInv'
<1>1. \A q \in Procs \ {p} : pc'[q] = pc[q] /\ snap'[q] = snap[q] /\ handle'[q] = handle[q]
    BY DEF Goto, TypeOK
<1>2. handle'[p] = "none" /\ snap'[p] = s
    BY DEF TypeOK
<1> QED BY <1>1, <1>2, WholeElsewhere

\* What the snapshots a process starts from are, to begin with.
LEMMA WholeSources ==
    ASSUME WholeInv, NEW p \in Procs
    PROVE  ~overlap => snap[p].whole /\ db.whole
BY DEF WholeInv

LEMMA WholeNext == TypeOK /\ TypeOK' /\ WholeInv /\ [Next]_vars => WholeInv'
<1> SUFFICES ASSUME TypeOK, TypeOK', WholeInv, [Next]_vars PROVE WholeInv'
    OBVIOUS
<1> USE DEF shared
<1>1. CASE Edit
    BY <1>1 DEF Edit, locals, WholeInv
<1>2. ASSUME NEW p \in Procs, Start(p) PROVE WholeInv'
    <2>1. /\ \A q \in Procs \ {p} : pc'[q] = pc[q] /\ snap'[q] = snap[q] /\ handle'[q] = handle[q]
          /\ handle'[p] = "none" /\ snap'[p] = snap[p]
        BY <1>2 DEF Start, Goto, TypeOK
    <2> QED BY <1>2, <2>1, WholeElsewhere DEF Start, WholeInv
<1>3. ASSUME NEW p \in Procs, LoadId(p) PROVE WholeInv'
    <2>1. CASE Finish(p)
        BY <1>3, <2>1, WholeSources, WholeFinish, WholeElsewhere DEF LoadId
    <2>2. CASE snap' = [snap EXCEPT ![p].id = db.id] /\ Goto(p, "ents") /\ UNCHANGED handle
        <3>1. snap' = [snap EXCEPT ![p] = [snap[p] EXCEPT !.id = db.id]]
            BY <2>2
        <3>2. [snap[p] EXCEPT !.id = db.id].whole = snap[p].whole
            BY DEF TypeOK, Snapshot
        <3> QED BY <1>3, <2>2, <3>1, <3>2, WholeSources, WholeGoto DEF LoadId
    <2>3. CASE Goto(p, "tree") /\ UNCHANGED <<snap, handle>>
        <3>1. snap' = [snap EXCEPT ![p] = snap[p]]
            BY <2>3 DEF TypeOK
        <3> QED BY <1>3, <2>3, <3>1, WholeSources, WholeGoto DEF LoadId
    <2> QED BY <1>3, <2>1, <2>2, <2>3 DEF LoadId
<1>4. ASSUME NEW p \in Procs, LoadEntities(p) PROVE WholeInv'
    <2>1. [snap[p] EXCEPT !.ents = db.ents, !.whole = db.whole].whole = db.whole
        BY DEF TypeOK, Snapshot
    <2>2. snap' = [snap EXCEPT ![p] = [snap[p] EXCEPT !.ents = db.ents, !.whole = db.whole]]
        BY <1>4 DEF LoadEntities, TypeOK, Snapshot
    <2> QED BY <1>4, <2>1, <2>2, WholeSources, WholeGoto DEF LoadEntities
<1>5. ASSUME NEW p \in Procs, LoadEdges(p) PROVE WholeInv'
    <2>1. CASE Finish(p)
        BY <1>5, <2>1, WholeSources, WholeFinish, WholeElsewhere DEF LoadEdges
    <2>2. ASSUME NEW point, Goto(p, point), snap' = [snap EXCEPT ![p].edges = db.edges],
                 UNCHANGED handle
          PROVE  WholeInv'
        <3>1. [snap[p] EXCEPT !.edges = db.edges].whole = snap[p].whole
            BY DEF TypeOK, Snapshot
        <3> QED BY <1>5, <2>2, <3>1, WholeSources, WholeGoto DEF LoadEdges
    <2> QED BY <1>5, <2>1, <2>2 DEF LoadEdges
<1>6. ASSUME NEW p \in Procs, ScanTree(p) PROVE WholeInv'
    <2>1. [Scanned(tree) EXCEPT !.ents.sum = snap[p].ents.sum].whole
        BY DEF Scanned
    <2> QED BY <1>6, <2>1, WholeSources, WholeGoto DEF ScanTree
<1>7. ASSUME NEW p \in Procs, MergeEvidence(p) PROVE WholeInv'
    <2> DEFINE s == [snap[p] EXCEPT !.ents.ev = Mergeable(snap[p].id)]
    <2>1. s.whole = snap[p].whole
        BY DEF TypeOK, Snapshot
    <2>2. snap' = [snap EXCEPT ![p] = s]
        BY <1>7 DEF MergeEvidence
    <2> QED BY <1>7, <2>1, <2>2, WholeSources, WholeGoto DEF MergeEvidence
<1>8. ASSUME NEW p \in Procs, ReadEvidence(p) PROVE WholeInv'
    <2>1. snap' = [snap EXCEPT ![p] = snap[p]]
        BY <1>8 DEF ReadEvidence, TypeOK
    <2> QED BY <1>8, <2>1, WholeSources, WholeGoto DEF ReadEvidence
<1>9. ASSUME NEW p \in Procs, WriteEvidence(p) PROVE WholeInv'
    <2>1. PICK new : snap' = [snap EXCEPT ![p].ents.ev = @ \cup new]
        BY <1>9 DEF WriteEvidence
    <2> DEFINE s == [snap[p] EXCEPT !.ents.ev = snap[p].ents.ev \cup new]
    <2>2. s.whole = snap[p].whole
        BY DEF TypeOK, Snapshot
    <2>3. snap' = [snap EXCEPT ![p] = s]
        BY <2>1
    <2> QED BY <1>9, <2>2, <2>3, WholeSources, WholeGoto DEF WriteEvidence
<1>10. ASSUME NEW p \in Procs, Propose(p) PROVE WholeInv'
    <2>1. CASE Finish(p)
        BY <1>10, <2>1, WholeSources, WholeFinish, WholeElsewhere DEF Propose
    <2>2. CASE snap' = [snap EXCEPT ![p].ents.sum = TRUE] /\ Goto(p, "replace") /\ UNCHANGED handle
        <3> DEFINE s == [snap[p] EXCEPT !.ents.sum = TRUE]
        <3>1. s.whole = snap[p].whole
            BY DEF TypeOK, Snapshot
        <3>2. snap' = [snap EXCEPT ![p] = s]
            BY <2>2
        <3> QED BY <1>10, <2>2, <3>1, <3>2, WholeSources, WholeGoto DEF Propose
    <2> QED BY <1>10, <2>1, <2>2 DEF Propose
<1>11. ASSUME NEW p \in Procs, Restore(p) PROVE WholeInv'
    <2>1. CASE Finish(p)
        BY <1>11, <2>1, WholeSources, WholeFinish, WholeElsewhere DEF Restore
    <2>2. ASSUME NEW s \in Decoded(idx), snap' = [snap EXCEPT ![p] = s], Goto(p, "replace"),
                 UNCHANGED handle
          PROVE  WholeInv'
        <3>1. ~overlap => s.whole
            BY DecodedType DEF TypeOK, WholeInv
        <3> QED BY <1>11, <2>2, <3>1, WholeSources, WholeGoto DEF Restore
    <2> QED BY <1>11, <2>1, <2>2 DEF Restore
<1>12. ASSUME NEW p \in Procs, Replace(p) PROVE WholeInv'
    <2>1. ~overlap => db'.whole
        BY <1>12 DEF Replace, WholeInv
    <2>2. CASE Finish(p)
        BY <1>12, <2>1, <2>2, WholeFinish, WholeElsewhere DEF Replace
    <2>3. CASE Goto(p, "create") /\ UNCHANGED <<snap, handle>>
        <3>1. snap' = [snap EXCEPT ![p] = snap[p]]
            BY <2>3 DEF TypeOK
        <3> QED BY <1>12, <2>1, <2>3, <3>1, WholeSources, WholeGoto DEF Replace
    <2> QED BY <1>12, <2>2, <2>3 DEF Replace
<1>13. ASSUME NEW p \in Procs, Create(p) PROVE WholeInv'
    <2>1. ~overlap' => ~overlap /\ \A q \in Procs \ {p} : handle[q] = "none"
        BY <1>13 DEF Create, TypeOK
    <2>2. ASSUME ~overlap', NEW q \in Procs \ {p}
          PROVE  handle'[q] = "none" /\ pc'[q] \notin {"part", "rest", "rename"}
        BY <1>13, <2>1, <2>2 DEF Create, TypeOK
    <2>3. temp' = Empty /\ handle'[p] = "temp" /\ pc'[p] = "part"
        BY <1>13 DEF Create, Goto, TypeOK
    <2> QED BY <1>13, <2>1, <2>2, <2>3 DEF Create, WholeInv
<1>14. ASSUME NEW p \in Procs, WritePart(p) PROVE WholeInv'
    <2>1. handle[p] # "none" /\ pc'[p] = "rest"
        BY <1>14 DEF WritePart, Goto, TypeOK
    <2>2. ASSUME ~overlap PROVE handle[p] = "temp" /\ temp = Empty /\ idx' = idx
                                /\ temp' = Text("part", snap[p])
        BY <1>14, <2>1, <2>2 DEF WritePart, Hold, Held, WholeInv
    <2>3. ASSUME ~overlap, NEW q \in Procs \ {p} PROVE pc'[q] \notin {"part", "rest", "rename"}
        BY <1>14, <2>1, <2>3 DEF WritePart, WholeInv, TypeOK
    <2> QED BY <1>14, <2>1, <2>2, <2>3 DEF WritePart, WholeInv
<1>15. ASSUME NEW p \in Procs, WriteRest(p) PROVE WholeInv'
    <2>1. handle[p] # "none" /\ pc'[p] = "rename"
        BY <1>15 DEF WriteRest, Goto, TypeOK
    <2>2. ASSUME ~overlap PROVE handle[p] = "temp" /\ Held(p) = Text("part", snap[p])
        BY <1>15, <2>1, <2>2 DEF WriteRest, Held, WholeInv
    <2>3. ASSUME ~overlap PROVE idx' = idx /\ temp' = Text("full", snap[p])
        BY <1>15, <2>2, <2>3 DEF WriteRest, Hold
    <2>4. ASSUME ~overlap, NEW q \in Procs \ {p} PROVE pc'[q] \notin {"part", "rest", "rename"}
        BY <1>15, <2>1, <2>4 DEF WriteRest, WholeInv, TypeOK
    <2> QED BY <1>15, <2>1, <2>3, <2>4 DEF WriteRest, WholeInv
<1>16. ASSUME NEW p \in Procs, Rename(p) PROVE WholeInv'
    <2>1. ASSUME ~overlap, NEW q \in Procs \ {p} PROVE handle[q] = "none"
        BY <1>16, <2>1 DEF Rename, WholeInv, TypeOK
    <2>2. ASSUME ~overlap, NEW q \in Procs
          PROVE  handle'[q] = "none" /\ pc'[q] \notin {"part", "rest", "rename"}
        BY <1>16, <2>1, <2>2 DEF Rename, Goto, TypeOK
    <2>3. ASSUME ~overlap, NEW q \in Procs PROVE snap'[q].whole
        BY <1>16, <2>3, AbsentType DEF Rename, WholeInv, TypeOK
    <2>4. ASSUME ~overlap PROVE idx'.text \in {"none", "full"} /\ idx'.of.whole
        <3>1. temp = Text("full", snap[p]) /\ snap[p].whole
            BY <1>16, <2>4 DEF Rename, WholeInv
        <3>2. idx' = temp \/ idx' = idx
            BY <1>16 DEF Rename
        <3> QED BY <2>4, <3>1, <3>2 DEF Text, WholeInv
    <2> QED BY <1>16, <2>2, <2>3, <2>4 DEF Rename, WholeInv
<1>17. ASSUME NEW p \in Procs, Stop(p) PROVE WholeInv'
    BY <1>17, WholeFinish, WholeElsewhere DEF Stop, WholeInv
<1>18. CASE UNCHANGED vars
    BY <1>18 DEF vars, locals, ghosts, WholeInv
<1> QED BY <1>1, <1>2, <1>3, <1>4, <1>5, <1>6, <1>7, <1>8, <1>9, <1>10, <1>11, <1>12,
           <1>13, <1>14, <1>15, <1>16, <1>17, <1>18 DEF Next, Step

\* As long as no two processes wrote it at once, ATLAS.idx is never the front part of a
\* file, and no rebuild fills the database with the front part of a snapshot, wherever
\* processes stop.
THEOREM SnapshotsStayWhole == Spec => []WholeUnlessOverlap
<1>1. WholeInv => WholeUnlessOverlap
    BY DEF WholeInv, WholeUnlessOverlap
<1> QED BY <1>1, WholeInit, WholeNext, TypeCorrect, PTL DEF Spec

-----------------------------------------------------------------------------
(* Recorded evidence.                                                      *)

\* As long as no two `evidence` commands crossed, only one has evidence.json in hand, and
\* what it holds is what the file holds.
EvidenceInv ==
    ~crossed =>
        /\ recorded \subseteq evidence
        /\ \A p \in Procs : pc[p] = "write" => kept[p] = evidence
        /\ \A p, q \in Procs : pc[p] = "write" /\ pc[q] = "write" => p = q

LEMMA EvidenceInit == Init => EvidenceInv
BY DEF Init, EvidenceInv

\* A step that leaves the evidence alone.
LEMMA EvidenceElsewhere ==
    ASSUME EvidenceInv, NEW p \in Procs, UNCHANGED <<evidence, recorded, crossed>>,
           \A q \in Procs \ {p} : pc'[q] = pc[q] /\ kept'[q] = kept[q],
           pc'[p] # "write"
    PROVE  EvidenceInv'
BY DEF EvidenceInv

LEMMA EvidenceFinish ==
    ASSUME TypeOK, NEW p \in Procs, Finish(p)
    PROVE  /\ \A q \in Procs \ {p} : pc'[q] = pc[q] /\ kept'[q] = kept[q]
           /\ pc'[p] # "write"
BY DEF Finish, Goto, TypeOK

LEMMA EvidenceGoto ==
    ASSUME TypeOK, NEW p \in Procs, NEW point, Goto(p, point), UNCHANGED kept, point # "write"
    PROVE  /\ \A q \in Procs \ {p} : pc'[q] = pc[q] /\ kept'[q] = kept[q]
           /\ pc'[p] # "write"
BY DEF Goto, TypeOK

LEMMA EvidenceNext == TypeOK /\ EvidenceInv /\ [Next]_vars => EvidenceInv'
<1> SUFFICES ASSUME TypeOK, EvidenceInv, [Next]_vars PROVE EvidenceInv'
    OBVIOUS
<1> USE DEF shared
<1>1. CASE Edit
    BY <1>1 DEF Edit, locals, EvidenceInv
<1>2. ASSUME NEW p \in Procs, Start(p) PROVE EvidenceInv'
    <2>1. PICK point \in {"restore", "id"} : Goto(p, point)
        BY <1>2 DEF Start
    <2> QED BY <1>2, <2>1, EvidenceGoto, EvidenceElsewhere DEF Start
<1>3. ASSUME NEW p \in Procs, LoadId(p) PROVE EvidenceInv'
    BY <1>3, EvidenceFinish, EvidenceGoto, EvidenceElsewhere DEF LoadId
<1>4. ASSUME NEW p \in Procs, LoadEntities(p) PROVE EvidenceInv'
    BY <1>4, EvidenceGoto, EvidenceElsewhere DEF LoadEntities
<1>5. ASSUME NEW p \in Procs, LoadEdges(p) PROVE EvidenceInv'
    <2>1. CASE Finish(p)
        BY <1>5, <2>1, EvidenceFinish, EvidenceElsewhere DEF LoadEdges
    <2>2. CASE UNCHANGED kept /\ \E point \in {"tree", "read", "propose"} : Goto(p, point)
        BY <1>5, <2>2, EvidenceGoto, EvidenceElsewhere DEF LoadEdges
    <2> QED BY <1>5, <2>1, <2>2 DEF LoadEdges
<1>6. ASSUME NEW p \in Procs, ScanTree(p) \/ MergeEvidence(p) PROVE EvidenceInv'
    BY <1>6, EvidenceGoto, EvidenceElsewhere DEF ScanTree, MergeEvidence
<1>7. ASSUME NEW p \in Procs, ReadEvidence(p) PROVE EvidenceInv'
    <2>1. kept'[p] = evidence /\ \A q \in Procs \ {p} : kept'[q] = kept[q] /\ pc'[q] = pc[q]
        BY <1>7 DEF ReadEvidence, Goto, TypeOK
    <2>2. ~crossed' => ~crossed /\ \A q \in Procs \ {p} : pc[q] # "write"
        BY <1>7 DEF ReadEvidence, InHand
    <2> QED BY <1>7, <2>1, <2>2 DEF ReadEvidence, EvidenceInv
<1>8. ASSUME NEW p \in Procs, WriteEvidence(p) PROVE EvidenceInv'
    <2>1. PICK new : evidence' = kept[p] \cup new /\ recorded' = recorded \cup new
        BY <1>8 DEF WriteEvidence
    <2>2. pc[p] = "write" /\ pc'[p] # "write" /\ \A q \in Procs \ {p} : pc'[q] = pc[q]
        BY <1>8 DEF WriteEvidence, Goto, TypeOK
    <2> QED BY <1>8, <2>1, <2>2 DEF WriteEvidence, EvidenceInv
<1>9. ASSUME NEW p \in Procs, Propose(p) \/ Restore(p) \/ Replace(p) PROVE EvidenceInv'
    BY <1>9, EvidenceFinish, EvidenceGoto, EvidenceElsewhere DEF Propose, Restore, Replace
<1>10. ASSUME NEW p \in Procs, Create(p) \/ WritePart(p) \/ WriteRest(p) PROVE EvidenceInv'
    BY <1>10, EvidenceGoto, EvidenceElsewhere DEF Create, WritePart, WriteRest
<1>11. ASSUME NEW p \in Procs, Rename(p) PROVE EvidenceInv'
    <2>1. /\ \A q \in Procs \ {p} : pc'[q] = pc[q] /\ kept'[q] = kept[q]
          /\ pc'[p] # "write"
        BY <1>11 DEF Rename, Goto, TypeOK
    <2> QED BY <1>11, <2>1, EvidenceElsewhere DEF Rename
<1>12. ASSUME NEW p \in Procs, Stop(p) PROVE EvidenceInv'
    BY <1>12, EvidenceFinish, EvidenceElsewhere DEF Stop
<1>13. CASE UNCHANGED vars
    BY <1>13 DEF vars, locals, ghosts, EvidenceInv
<1> QED BY <1>1, <1>2, <1>3, <1>4, <1>5, <1>6, <1>7, <1>8, <1>9, <1>10, <1>11, <1>12,
           <1>13 DEF Next, Step

\* Evidence that was recorded stays in evidence.json, whatever scans, rebuilds, stale
\* snapshots and stopped processes do, as long as no two `evidence` commands cross.
THEOREM RecordedEvidenceStays == Spec => []EvidenceIsKept
<1>1. EvidenceInv => EvidenceIsKept
    BY DEF EvidenceInv, EvidenceIsKept
<1> QED BY <1>1, EvidenceInit, EvidenceNext, TypeCorrect, PTL DEF Spec
-----------------------------------------------------------------------------
(* Processes that nobody disturbs.                                         *)

\* What a process is started for decides where it goes.
JobInv ==
    \A p \in Procs :
        /\ pc[p] \in {"id", "ents", "edges"} => job[p] # "rebuild"
        /\ pc[p] \in {"tree", "merge"} => job[p] = "scan"
        /\ pc[p] \in {"read", "write"} => job[p] = "evidence"
        /\ pc[p] = "propose" => job[p] = "enrich"
        /\ pc[p] = "restore" => job[p] = "rebuild"

\* A snapshot of a tree there was, with evidence somebody recorded.
Sane(s) == s.id <= tree /\ s.ents.ev \subseteq recorded

SaneInv ==
    /\ Sane(db) /\ Sane(idx.of) /\ Sane(temp.of)
    /\ \A p \in Procs : Sane(snap[p])

\* The snapshot is of the tree as it is, with what the model said before.
Current(s) == s.id = tree /\ s.ents.of = tree /\ s.edges = tree /\ s.whole

\* The database has what it had when p loaded it; so has what p makes of it, until p
\* replaces it; then the file p writes holds what p has written.
Undisturbed(p) ==
    /\ pc[p] = "ents" => snap[p].id = db.id
    /\ pc[p] \in {"edges", "read", "write", "propose"} => snap[p].id = db.id /\ snap[p].ents = db.ents
    /\ pc[p] \in {"tree", "merge"} => (db.ents.sum => snap[p].ents.sum)
    /\ pc[p] = "merge" => Current(snap[p])
    /\ pc[p] = "replace" /\ job[p] # "rebuild" =>
          /\ db.id <= snap[p].id
          /\ db.ents.sum => snap[p].ents.sum
          /\ ~crossed /\ db.id = snap[p].id =>
                {r \in db.ents.ev : r.id = db.id /\ (job[p] = "scan" => r.on = "file")} \subseteq snap[p].ents.ev
    /\ pc[p] \in {"replace", "create", "part", "rest", "rename"} /\ job[p] = "scan" =>
          Current(snap[p]) /\ snap[p].ents.ev = Mergeable(tree)
    /\ pc[p] \in {"create", "part", "rest", "rename"} => db = snap[p]
    /\ pc[p] \in {"part", "rest", "rename"} => handle[p] = "temp"
    /\ pc[p] = "part" => temp = Empty
    /\ pc[p] = "rest" => temp = Text("part", snap[p])
    /\ pc[p] = "rename" => temp = Text("full", snap[p])

\* What is filed, or in hand to be filed, somebody recorded.
FiledInv ==
    /\ evidence \subseteq recorded
    /\ \A p \in Procs : kept[p] \subseteq recorded

QuietInv ==
    /\ JobInv
    /\ SaneInv
    /\ \A p \in Procs : quiet[p] => Undisturbed(p)

LEMMA FiledNext == TypeOK /\ FiledInv /\ [Next]_vars => FiledInv'
<1> SUFFICES ASSUME TypeOK, FiledInv, [Next]_vars PROVE FiledInv'
    OBVIOUS
<1> USE DEF shared
<1>1. ASSUME UNCHANGED <<evidence, recorded, kept>> PROVE FiledInv'
    BY <1>1 DEF FiledInv
<1>2. ASSUME NEW p \in Procs, Finish(p), UNCHANGED <<evidence, recorded>> PROVE FiledInv'
    BY <1>2 DEF FiledInv, Finish, TypeOK
<1>3. ASSUME NEW p \in Procs, ReadEvidence(p) PROVE FiledInv'
    BY <1>3 DEF FiledInv, ReadEvidence, TypeOK
<1>4. ASSUME NEW p \in Procs, WriteEvidence(p) PROVE FiledInv'
    BY <1>4 DEF FiledInv, WriteEvidence
<1>5. ASSUME NEW p \in Procs, Rename(p) PROVE FiledInv'
    BY <1>5 DEF FiledInv, Rename, TypeOK
<1>6. ASSUME NEW p \in Procs, LoadId(p) \/ LoadEdges(p) \/ Propose(p) \/ Restore(p) \/ Replace(p) \/ Stop(p)
      PROVE  FiledInv'
    BY <1>1, <1>2, <1>6 DEF LoadId, LoadEdges, Propose, Restore, Replace, Stop
<1>7. ASSUME NEW p \in Procs, Start(p) \/ LoadEntities(p) \/ ScanTree(p) \/ MergeEvidence(p) \/ Create(p)
                              \/ WritePart(p) \/ WriteRest(p)
      PROVE  FiledInv'
    BY <1>1, <1>7 DEF Start, LoadEntities, ScanTree, MergeEvidence, Create, WritePart, WriteRest
<1>8. CASE Edit \/ UNCHANGED vars
    BY <1>1, <1>8 DEF Edit, locals, vars, ghosts
<1> QED BY <1>3, <1>4, <1>5, <1>6, <1>7, <1>8 DEF Next, Step

LEMMA QuietInit == Init => QuietInv
<1> SUFFICES ASSUME Init PROVE QuietInv
    OBVIOUS
<1>1. Absent.id = 0 /\ Absent.ents.ev = {} /\ None.of = Absent
    BY DEF Absent, None, Text
<1>2. JobInv
    BY DEF Init, JobInv
<1>3. SaneInv
    BY <1>1 DEF Init, SaneInv, Sane
<1> QED BY <1>2, <1>3 DEF Init, QuietInv

\* A step of p: the others were where they are, and are disturbed.
LEMMA JobStep ==
    ASSUME JobInv, NEW p \in Procs,
           \A q \in Procs \ {p} : pc'[q] = pc[q] /\ job'[q] = job[q],
           /\ pc'[p] \in {"id", "ents", "edges"} => job'[p] # "rebuild"
           /\ pc'[p] \in {"tree", "merge"} => job'[p] = "scan"
           /\ pc'[p] \in {"read", "write"} => job'[p] = "evidence"
           /\ pc'[p] = "propose" => job'[p] = "enrich"
           /\ pc'[p] = "restore" => job'[p] = "rebuild"
    PROVE  JobInv'
BY DEF JobInv

\* No step makes a sane snapshot less so.
LEMMA SaneStays ==
    ASSUME TypeOK, TypeOK', [Next]_vars
    PROVE  tree <= tree' /\ recorded \subseteq recorded'
<1>1. CASE Edit
    BY <1>1 DEF Edit, TypeOK
<1>2. ASSUME NEW p \in Procs, WriteEvidence(p) PROVE tree <= tree' /\ recorded \subseteq recorded'
    BY <1>2 DEF WriteEvidence, TypeOK
<1>3. ASSUME UNCHANGED <<tree, recorded>> PROVE tree <= tree' /\ recorded \subseteq recorded'
    BY <1>3 DEF TypeOK
<1>4. ASSUME NEW p \in Procs, Step(p), ~WriteEvidence(p) PROVE UNCHANGED <<tree, recorded>>
    BY <1>4 DEF Step, Start, LoadId, LoadEntities, LoadEdges, ScanTree, MergeEvidence, ReadEvidence, Propose,
                Restore, Replace, Create, WritePart, WriteRest, Rename, Stop, shared
<1>5. UNCHANGED vars => UNCHANGED <<tree, recorded>>
    BY DEF vars, shared, ghosts
<1> QED BY <1>1, <1>2, <1>3, <1>4, <1>5 DEF Next

LEMMA SaneStep ==
    ASSUME TypeOK, TypeOK', [Next]_vars, SaneInv, NEW p \in Procs,
           \A q \in Procs \ {p} : snap'[q] = snap[q],
           Sane(snap[p])',
           db' \in {db, snap[p]},
           idx'.of \in {idx.of, temp.of, snap[p], Absent},
           temp'.of \in {temp.of, snap[p], Absent}
    PROVE  SaneInv'
<1>1. tree <= tree' /\ recorded \subseteq recorded' /\ tree \in Nat /\ tree' \in Nat
    BY SaneStays DEF TypeOK
<1>2. Sane(Absent)
    BY <1>1 DEF Sane, Absent
<1>3. ASSUME NEW s \in Snapshot, Sane(s) PROVE Sane(s)'
    <2>1. s.id \in Nat
        BY DEF Snapshot
    <2> QED BY <1>1, <1>3, <2>1 DEF Sane
<1>4. /\ db \in Snapshot /\ idx.of \in Snapshot /\ temp.of \in Snapshot /\ Absent \in Snapshot
      /\ \A q \in Procs : snap[q] \in Snapshot
    BY AbsentType DEF TypeOK, File
<1>5. Sane(db)' /\ Sane(idx.of)' /\ Sane(temp.of)'
    <2>1. Sane(db)' /\ Sane(idx.of)' /\ Sane(temp.of)' <=> /\ db'.id <= tree' /\ db'.ents.ev \subseteq recorded'
                                                         /\ idx'.of.id <= tree' /\ idx'.of.ents.ev \subseteq recorded'
                                                         /\ temp'.of.id <= tree' /\ temp'.of.ents.ev \subseteq recorded'
        BY DEF Sane
    <2>2. \A s \in {db, idx.of, temp.of, snap[p], Absent} : s.id <= tree' /\ s.ents.ev \subseteq recorded'
        BY <1>2, <1>3, <1>4 DEF SaneInv, Sane
    <2> QED BY <2>1, <2>2
<1>6. \A q \in Procs : Sane(snap[q])'
    BY <1>3, <1>4 DEF SaneInv, Sane
<1> QED BY <1>5, <1>6 DEF SaneInv

\* A snapshot with other evidence, or another word on summaries.
LEMMA EvUpdated ==
    ASSUME NEW s \in Snapshot, NEW E
    PROVE  LET u == [s EXCEPT !.ents.ev = E] IN
           /\ u.id = s.id /\ u.edges = s.edges /\ u.whole = s.whole
           /\ u.ents.of = s.ents.of /\ u.ents.ev = E /\ u.ents.sum = s.ents.sum
<1>1. s.ents \in Entities
    BY DEF Snapshot
<1>2. PICK e : e = [s.ents EXCEPT !.ev = E]
    OBVIOUS
<1>3. e.of = s.ents.of /\ e.ev = E /\ e.sum = s.ents.sum
    BY <1>1, <1>2 DEF Entities
<1>4. [s EXCEPT !.ents.ev = E] = [s EXCEPT !.ents = e]
    BY <1>2
<1>5. LET u == [s EXCEPT !.ents = e]
      IN  u.ents = e /\ u.id = s.id /\ u.edges = s.edges /\ u.whole = s.whole
    BY DEF Snapshot
<1> QED BY <1>3, <1>4, <1>5

LEMMA SumUpdated ==
    ASSUME NEW s \in Snapshot, NEW b
    PROVE  LET u == [s EXCEPT !.ents.sum = b] IN
           /\ u.id = s.id /\ u.edges = s.edges /\ u.whole = s.whole
           /\ u.ents.of = s.ents.of /\ u.ents.ev = s.ents.ev /\ u.ents.sum = b
<1>1. s.ents \in Entities
    BY DEF Snapshot
<1>2. PICK e : e = [s.ents EXCEPT !.sum = b]
    OBVIOUS
<1>3. e.of = s.ents.of /\ e.ev = s.ents.ev /\ e.sum = b
    BY <1>1, <1>2 DEF Entities
<1>4. [s EXCEPT !.ents.sum = b] = [s EXCEPT !.ents = e]
    BY <1>2
<1>5. LET u == [s EXCEPT !.ents = e]
      IN  u.ents = e /\ u.id = s.id /\ u.edges = s.edges /\ u.whole = s.whole
    BY DEF Snapshot
<1> QED BY <1>3, <1>4, <1>5

\* What a file decodes to is as sane as the file.
LEMMA DecodedSane ==
    ASSUME NEW file \in File, tree \in Nat, Sane(file.of), NEW s \in Decoded(file)
    PROVE  Sane(s)
<1>1. PICK o : /\ s = [o EXCEPT !.ents.sum = FALSE]
               /\ o \in IF file.text = "full" THEN {file.of}
                        ELSE IF file.text = "part" THEN {[file.of EXCEPT !.whole = FALSE]}
                        ELSE IF file.text = "mixed"
                             THEN {[Scanned(t) EXCEPT !.whole = FALSE] : t \in 1 .. tree}
                        ELSE {}
    BY DEF Decoded
<1>2. file.of \in Snapshot
    BY DEF File
<1>3. o \in Snapshot /\ o.id <= tree /\ o.ents.ev \subseteq recorded
    <2>1. /\ [file.of EXCEPT !.whole = FALSE] \in Snapshot
          /\ [file.of EXCEPT !.whole = FALSE].id = file.of.id
          /\ [file.of EXCEPT !.whole = FALSE].ents = file.of.ents
        BY <1>2 DEF Snapshot
    <2>2. ASSUME NEW t \in 1 .. tree
          PROVE  LET u == [Scanned(t) EXCEPT !.whole = FALSE]
                 IN  u \in Snapshot /\ u.id <= tree /\ u.ents.ev = {}
        <3>1. Scanned(t) \in Snapshot /\ Scanned(t).id = t /\ Scanned(t).ents.ev = {}
            BY <2>2, ScannedType DEF Scanned
        <3>2. /\ [Scanned(t) EXCEPT !.whole = FALSE] \in Snapshot
              /\ [Scanned(t) EXCEPT !.whole = FALSE].id = Scanned(t).id
              /\ [Scanned(t) EXCEPT !.whole = FALSE].ents = Scanned(t).ents
            BY <3>1 DEF Snapshot
        <3> QED BY <2>2, <3>1, <3>2
    <2>3. CASE file.text = "full"
        BY <1>1, <1>2, <2>3 DEF Sane
    <2>4. CASE file.text = "part"
        BY <1>1, <2>1, <2>4 DEF Sane
    <2>5. CASE file.text = "mixed"
        BY <1>1, <2>2, <2>5
    <2> QED BY <1>1, <2>3, <2>4, <2>5
<1> QED BY <1>1, <1>3, SumUpdated DEF Sane

\* A process that has finished leaves nobody undisturbed behind.
LEMMA QuietFinish ==
    ASSUME TypeOK, TypeOK', QuietInv, [Next]_vars, NEW p \in Procs, Finish(p), Disturb(p),
           db' \in {db, snap[p]}, UNCHANGED <<idx, temp>>
    PROVE  QuietInv'
<1>1. /\ pc'[p] = "idle" /\ snap'[p] = Absent
      /\ \A q \in Procs \ {p} : pc'[q] = pc[q] /\ job'[q] = job[q] /\ snap'[q] = snap[q]
    BY DEF Finish, Goto, TypeOK
<1>2. JobInv'
    BY <1>1, JobStep DEF QuietInv
<1>3. Sane(snap[p])'
    BY <1>1 DEF Sane, Absent, TypeOK
<1>4. SaneInv'
    BY <1>1, <1>3, SaneStep DEF QuietInv
<1>5. \A q \in Procs : quiet'[q] => Undisturbed(q)'
    BY <1>1 DEF Disturb, Undisturbed
<1> QED BY <1>2, <1>4, <1>5 DEF QuietInv

\* A process that goes on with the snapshot s.
LEMMA QuietGoto ==
    ASSUME TypeOK, TypeOK', QuietInv, [Next]_vars, NEW p \in Procs, Disturb(p),
           \A q \in Procs \ {p} : pc'[q] = pc[q] /\ snap'[q] = snap[q],
           UNCHANGED job, db' \in {db, snap[p]}, UNCHANGED <<idx, temp>>,
           snap'[p].id <= tree', snap'[p].ents.ev \subseteq recorded',
           /\ pc'[p] \in {"ents", "edges"} => job[p] # "rebuild"
           /\ pc'[p] \in {"tree", "merge"} => job[p] = "scan"
           /\ pc'[p] \in {"read", "write"} => job[p] = "evidence"
           /\ pc'[p] = "propose" => job[p] = "enrich"
           /\ pc'[p] \notin {"id", "restore"},
           quiet[p] => Undisturbed(p)'
    PROVE  QuietInv'
<1>1. JobInv'
    BY JobStep DEF QuietInv
<1>2. Sane(snap[p])'
    BY DEF Sane
<1>3. SaneInv'
    BY <1>2, SaneStep DEF QuietInv
<1>4. \A q \in Procs : quiet'[q] => Undisturbed(q)'
    BY DEF Disturb
<1> QED BY <1>1, <1>3, <1>4 DEF QuietInv

LEMMA QuietNext == TypeOK /\ TypeOK' /\ EvidenceInv /\ FiledInv /\ QuietInv /\ [Next]_vars => QuietInv'
<1> SUFFICES ASSUME TypeOK, TypeOK', EvidenceInv, FiledInv, QuietInv, [Next]_vars PROVE QuietInv'
    OBVIOUS
<1> USE DEF shared
<1>0. /\ tree \in Nat /\ db \in Snapshot /\ \A p \in Procs : snap[p] \in Snapshot
      /\ db.id \in Nat /\ db.id <= tree /\ db.ents.ev \subseteq recorded
      /\ \A p \in Procs : snap[p].id \in Nat /\ snap[p].id <= tree /\ snap[p].ents.ev \subseteq recorded
    BY DEF TypeOK, Snapshot, QuietInv, SaneInv, Sane
<1>1. CASE Edit
    <2>1. UNCHANGED <<db, idx, temp, pc, job, snap>> /\ \A q \in Procs : quiet'[q] = FALSE
        BY <1>1 DEF Edit, locals
    <2>2. JobInv'
        BY <2>1 DEF QuietInv, JobInv
    <2>3. SaneInv'
        <3>1. tree <= tree' /\ recorded \subseteq recorded' /\ tree' \in Nat
            BY SaneStays DEF TypeOK
        <3>2. idx.of.id \in Nat /\ temp.of.id \in Nat
            BY DEF TypeOK, File, Snapshot
        <3> QED BY <1>0, <2>1, <3>1, <3>2 DEF QuietInv, SaneInv, Sane
    <2> QED BY <2>1, <2>2, <2>3 DEF QuietInv
<1>2. ASSUME NEW p \in Procs, Start(p) PROVE QuietInv'
    <2>1. /\ UNCHANGED <<db, idx, temp, snap, tree, recorded>>
          /\ \A q \in Procs \ {p} : pc'[q] = pc[q] /\ job'[q] = job[q] /\ quiet'[q] = FALSE
          /\ pc'[p] = IF job'[p] = "rebuild" THEN "restore" ELSE "id"
        BY <1>2 DEF Start, Goto, TypeOK
    <2>2. JobInv'
        BY <2>1, JobStep DEF QuietInv
    <2>3. SaneInv'
        BY <2>1 DEF QuietInv, SaneInv, Sane
    <2>4. Undisturbed(p)'
        BY <2>1 DEF Undisturbed
    <2> QED BY <2>1, <2>2, <2>3, <2>4 DEF QuietInv
<1>3. ASSUME NEW p \in Procs, LoadId(p) PROVE QuietInv'
    <2>0. pc[p] = "id" /\ Disturb(p) /\ UNCHANGED <<tree, db, evidence, idx, temp, recorded, crossed>>
        BY <1>3 DEF LoadId
    <2>1. CASE Finish(p)
        BY <2>0, <2>1, QuietFinish
    <2>2. CASE db # Absent /\ snap' = [snap EXCEPT ![p].id = db.id] /\ Goto(p, "ents") /\ UNCHANGED job
        <3>1. PICK s : snap' = [snap EXCEPT ![p] = s] /\ s.id = db.id /\ s.ents = snap[p].ents
            <4> DEFINE u == [snap[p] EXCEPT !.id = db.id]
            <4>1. snap' = [snap EXCEPT ![p] = u] /\ u.id = db.id /\ u.ents = snap[p].ents
                BY <1>0, <2>2 DEF Snapshot
            <4> HIDE DEF u
            <4> QED BY <4>1
        <3>2. pc'[p] = "ents" /\ snap'[p] = s
            BY <2>2, <3>1 DEF Goto, TypeOK
        <3>3. Undisturbed(p)'
            BY <2>0, <3>1, <3>2 DEF Undisturbed
        <3>4. job[p] # "rebuild"
            BY <2>0 DEF QuietInv, JobInv
        <3>5. s.id <= tree' /\ s.ents.ev \subseteq recorded'
            BY <1>0, <2>0, <3>1
        <3>8. /\ pc'[p] = "ents" /\ snap'[p].id <= tree' /\ snap'[p].ents.ev \subseteq recorded'
              /\ \A q \in Procs \ {p} : pc'[q] = pc[q] /\ snap'[q] = snap[q]
            BY <2>0, <2>2, <3>1, <3>5 DEF Goto, TypeOK
        <3> QED BY <2>0, <2>2, <3>3, <3>4, <3>8, QuietGoto
    <2>3. CASE db = Absent /\ job[p] = "scan" /\ Goto(p, "tree") /\ UNCHANGED <<job, snap>>
        <3>1. snap' = [snap EXCEPT ![p] = snap[p]] /\ pc'[p] = "tree" /\ db'.ents.sum = FALSE
            BY <2>0, <2>3 DEF Goto, TypeOK, Absent
        <3>2. Undisturbed(p)'
            BY <3>1 DEF Undisturbed
        <3>8. /\ pc'[p] = "tree" /\ snap'[p].id <= tree' /\ snap'[p].ents.ev \subseteq recorded'
              /\ \A q \in Procs \ {p} : pc'[q] = pc[q] /\ snap'[q] = snap[q]
            BY <1>0, <2>0, <2>3 DEF Goto, TypeOK
        <3> QED BY <2>0, <2>3, <3>2, <3>8, QuietGoto
    <2> QED BY <1>3, <2>1, <2>2, <2>3 DEF LoadId
<1>4. ASSUME NEW p \in Procs, LoadEntities(p) PROVE QuietInv'
    <2>0. /\ pc[p] = "ents" /\ Disturb(p) /\ Goto(p, "edges")
          /\ UNCHANGED <<tree, db, evidence, idx, temp, recorded, crossed, job>>
        BY <1>4 DEF LoadEntities
    <2>1. PICK s : snap' = [snap EXCEPT ![p] = s] /\ s.id = snap[p].id /\ s.ents = db.ents
        <3> DEFINE u == [snap[p] EXCEPT !.ents = db.ents, !.whole = db.whole]
        <3>1. snap' = [snap EXCEPT ![p] = u] /\ u.id = snap[p].id /\ u.ents = db.ents
            BY <1>0, <1>4 DEF LoadEntities, Snapshot
        <3> HIDE DEF u
        <3> QED BY <3>1
    <2>2. pc'[p] = "edges" /\ snap'[p] = s
        BY <2>0, <2>1 DEF Goto, TypeOK
    <2>3. quiet[p] => Undisturbed(p)'
        BY <2>0, <2>1, <2>2 DEF QuietInv, Undisturbed
    <2>4. job[p] # "rebuild"
        BY <2>0 DEF QuietInv, JobInv
    <2>8. /\ pc'[p] = "edges" /\ snap'[p].id <= tree' /\ snap'[p].ents.ev \subseteq recorded'
          /\ \A q \in Procs \ {p} : pc'[q] = pc[q] /\ snap'[q] = snap[q]
        BY <1>0, <2>0, <2>1 DEF Goto, TypeOK
    <2> QED BY <2>0, <2>3, <2>4, <2>8, QuietGoto
<1>5. ASSUME NEW p \in Procs, LoadEdges(p) PROVE QuietInv'
    <2>0. pc[p] = "edges" /\ Disturb(p) /\ UNCHANGED <<tree, db, evidence, idx, temp, recorded, crossed>>
        BY <1>5 DEF LoadEdges
    <2>1. CASE Finish(p)
        BY <2>0, <2>1, QuietFinish
    <2>2. CASE /\ snap' = [snap EXCEPT ![p].edges = db.edges]
               /\ Goto(p, IF job[p] = "scan" THEN "tree"
                          ELSE IF job[p] = "evidence" THEN "read" ELSE "propose")
               /\ UNCHANGED job
        <3> DEFINE point == IF job[p] = "scan" THEN "tree"
                           ELSE IF job[p] = "evidence" THEN "read" ELSE "propose"
        <3>1. PICK s : snap' = [snap EXCEPT ![p] = s] /\ s.id = snap[p].id /\ s.ents = snap[p].ents
            <4> DEFINE u == [snap[p] EXCEPT !.edges = db.edges]
            <4>1. snap' = [snap EXCEPT ![p] = u] /\ u.id = snap[p].id /\ u.ents = snap[p].ents
                BY <1>0, <2>2 DEF Snapshot
            <4> HIDE DEF u
            <4> QED BY <4>1
        <3>2. /\ point \in {"tree", "read", "propose"} /\ Goto(p, point)
              /\ point = "tree" => job[p] = "scan"
              /\ point = "read" => job[p] = "evidence"
              /\ point = "propose" => job[p] = "enrich"
            BY <2>0, <2>2 DEF QuietInv, JobInv, TypeOK, AllJobs
        <3> HIDE DEF point
        <3>3. pc'[p] = point /\ snap'[p] = s
            BY <3>1, <3>2 DEF Goto, TypeOK
        <3>4. quiet[p] => Undisturbed(p)'
            BY <2>0, <3>1, <3>2, <3>3 DEF QuietInv, Undisturbed
        <3>8. /\ pc'[p] = point /\ snap'[p].id <= tree' /\ snap'[p].ents.ev \subseteq recorded'
              /\ \A q \in Procs \ {p} : pc'[q] = pc[q] /\ snap'[q] = snap[q]
            BY <1>0, <2>0, <2>2, <3>1, <3>2 DEF Goto, TypeOK
        <3> QED BY <2>0, <2>2, <3>2, <3>4, <3>8, QuietGoto
    <2> QED BY <1>5, <2>1, <2>2 DEF LoadEdges
<1>6. ASSUME NEW p \in Procs, ScanTree(p) PROVE QuietInv'
    <2>0. /\ pc[p] = "tree" /\ Disturb(p) /\ Goto(p, "merge")
          /\ UNCHANGED <<tree, db, evidence, idx, temp, recorded, crossed, job>>
        BY <1>6 DEF ScanTree
    <2>1. PICK s : /\ snap' = [snap EXCEPT ![p] = s]
                   /\ Current(s) /\ s.ents.ev = {} /\ s.ents.sum = snap[p].ents.sum
        <3> DEFINE u == [Scanned(tree) EXCEPT !.ents.sum = snap[p].ents.sum]
        <3>1. Scanned(tree) \in Snapshot /\ Current(Scanned(tree)) /\ Scanned(tree).ents.ev = {}
            BY <1>0, ScannedType DEF Scanned, Current
        <3>2. Current(u) /\ u.ents.ev = {} /\ u.ents.sum = snap[p].ents.sum
            BY <3>1, SumUpdated DEF Current
        <3>3. snap' = [snap EXCEPT ![p] = u]
            BY <1>6 DEF ScanTree
        <3> HIDE DEF u
        <3> QED BY <3>2, <3>3
    <2>2. pc'[p] = "merge" /\ snap'[p] = s
        BY <2>0, <2>1 DEF Goto, TypeOK
    <2>3. quiet[p] => Undisturbed(p)'
        BY <2>0, <2>1, <2>2 DEF QuietInv, Undisturbed, Current
    <2>4. job[p] = "scan"
        BY <2>0 DEF QuietInv, JobInv
    <2>5. s.id <= tree'
        BY <1>0, <2>0, <2>1 DEF Current
    <2>8. /\ pc'[p] = "merge" /\ snap'[p].id <= tree' /\ snap'[p].ents.ev \subseteq recorded'
          /\ \A q \in Procs \ {p} : pc'[q] = pc[q] /\ snap'[q] = snap[q]
        BY <1>0, <2>0, <2>1, <2>5 DEF Goto, TypeOK
    <2> QED BY <2>0, <2>3, <2>4, <2>8, QuietGoto
<1>7. ASSUME NEW p \in Procs, MergeEvidence(p) PROVE QuietInv'
    <2>0. /\ pc[p] = "merge" /\ Disturb(p) /\ Goto(p, "replace")
          /\ UNCHANGED <<tree, db, evidence, idx, temp, recorded, crossed, job>>
        BY <1>7 DEF MergeEvidence
    <2>b. snap[p] \in Snapshot
        BY <1>0
    <2>a. PICK ev : ev = Mergeable(snap[p].id)
        OBVIOUS
    <2>1. PICK s : /\ snap' = [snap EXCEPT ![p] = s] /\ s.id = snap[p].id /\ s.edges = snap[p].edges
                   /\ s.whole = snap[p].whole /\ s.ents.of = snap[p].ents.of /\ s.ents.ev = ev
                   /\ s.ents.sum = snap[p].ents.sum
        <3> DEFINE u == [snap[p] EXCEPT !.ents.ev = ev]
        <3>1. snap' = [snap EXCEPT ![p] = u]
            BY <1>7, <2>a DEF MergeEvidence
        <3>2. /\ u.id = snap[p].id /\ u.edges = snap[p].edges /\ u.whole = snap[p].whole
              /\ u.ents.of = snap[p].ents.of /\ u.ents.ev = ev /\ u.ents.sum = snap[p].ents.sum
            BY <2>b, EvUpdated, Zenon
        <3> HIDE DEF u
        <3> QED BY <3>1, <3>2
    <2>2. pc'[p] = "replace" /\ snap'[p] = s
        BY <2>0, <2>1 DEF Goto, TypeOK
    <2>3. ASSUME quiet[p] PROVE Undisturbed(p)'
        <3>1. Current(snap[p]) /\ (db.ents.sum => snap[p].ents.sum)
            BY <2>0, <2>3 DEF QuietInv, Undisturbed
        <3>2. Current(s)' /\ s.id = tree /\ ev = Mergeable(tree) /\ ev = Mergeable(tree)'
            BY <2>0, <2>a, <2>1, <3>1 DEF Current, Mergeable
        <3>3. ~crossed /\ db.id = s.id => {r \in db.ents.ev : r.id = db.id /\ r.on = "file"} \subseteq ev
            BY <1>0, <3>2 DEF EvidenceInv, Mergeable
        <3>4. job[p] = "scan"
            BY <2>0 DEF QuietInv, JobInv
        <3> QED BY <1>0, <2>0, <2>1, <2>2, <3>1, <3>2, <3>3, <3>4 DEF Undisturbed, Current
    <2>4. ev \subseteq recorded'
        BY <2>0, <2>a DEF FiledInv, Mergeable
    <2>8. /\ pc'[p] = "replace" /\ snap'[p].id <= tree' /\ snap'[p].ents.ev \subseteq recorded'
          /\ \A q \in Procs \ {p} : pc'[q] = pc[q] /\ snap'[q] = snap[q]
        BY <1>0, <2>0, <2>1, <2>4 DEF Goto, TypeOK
    <2> QED BY <2>0, <2>3, <2>8, QuietGoto
<1>8. ASSUME NEW p \in Procs, ReadEvidence(p) PROVE QuietInv'
    <2>0. /\ pc[p] = "read" /\ Disturb(p) /\ Goto(p, "write")
          /\ UNCHANGED <<tree, db, evidence, idx, temp, recorded, job, snap>>
        BY <1>8 DEF ReadEvidence
    <2>1. snap' = [snap EXCEPT ![p] = snap[p]] /\ pc'[p] = "write"
        BY <2>0 DEF Goto, TypeOK
    <2>2. quiet[p] => Undisturbed(p)'
        BY <2>0, <2>1 DEF QuietInv, Undisturbed
    <2>3. job[p] = "evidence"
        BY <2>0 DEF QuietInv, JobInv
    <2>8. /\ pc'[p] = "write" /\ snap'[p].id <= tree' /\ snap'[p].ents.ev \subseteq recorded'
          /\ \A q \in Procs \ {p} : pc'[q] = pc[q] /\ snap'[q] = snap[q]
        BY <1>0, <2>0 DEF Goto, TypeOK
    <2> QED BY <2>0, <2>2, <2>3, <2>8, QuietGoto
<1>9. ASSUME NEW p \in Procs, WriteEvidence(p) PROVE QuietInv'
    <2>0. /\ pc[p] = "write" /\ Disturb(p) /\ Goto(p, "replace")
          /\ UNCHANGED <<tree, db, idx, temp, crossed, job>>
        BY <1>9 DEF WriteEvidence
    <2>1. PICK new : /\ recorded' = recorded \cup new
                     /\ snap' = [snap EXCEPT ![p].ents.ev = @ \cup new]
        BY <1>9 DEF WriteEvidence
    <2>b. snap[p] \in Snapshot
        BY <1>0
    <2>a. PICK ev : ev = snap[p].ents.ev \cup new
        OBVIOUS
    <2>2. PICK s : /\ snap' = [snap EXCEPT ![p] = s] /\ s.id = snap[p].id
                   /\ s.ents.ev = ev /\ s.ents.sum = snap[p].ents.sum
        <3> DEFINE u == [snap[p] EXCEPT !.ents.ev = ev]
        <3>1. snap' = [snap EXCEPT ![p] = u]
            BY <2>a, <2>1
        <3>2. u.id = snap[p].id /\ u.ents.ev = ev /\ u.ents.sum = snap[p].ents.sum
            BY <2>b, EvUpdated, Zenon
        <3> HIDE DEF u
        <3> QED BY <3>1, <3>2
    <2>3. pc'[p] = "replace" /\ snap'[p] = s
        BY <2>0, <2>2 DEF Goto, TypeOK
    <2>4. job[p] = "evidence"
        BY <2>0 DEF QuietInv, JobInv
    <2>5. quiet[p] => Undisturbed(p)'
        BY <1>0, <2>0, <2>a, <2>2, <2>3, <2>4 DEF QuietInv, Undisturbed
    <2>6. ev \subseteq recorded'
        BY <1>0, <2>a, <2>1
    <2>8. /\ pc'[p] = "replace" /\ snap'[p].id <= tree' /\ snap'[p].ents.ev \subseteq recorded'
          /\ \A q \in Procs \ {p} : pc'[q] = pc[q] /\ snap'[q] = snap[q]
        BY <1>0, <2>0, <2>2, <2>6 DEF Goto, TypeOK
    <2> QED BY <2>0, <2>5, <2>8, QuietGoto
<1>10. ASSUME NEW p \in Procs, Propose(p) PROVE QuietInv'
    <2>0. /\ pc[p] = "propose" /\ Disturb(p)
          /\ UNCHANGED <<tree, db, evidence, idx, temp, recorded, crossed>>
        BY <1>10 DEF Propose
    <2>1. CASE Finish(p)
        BY <2>0, <2>1, QuietFinish
    <2>2. CASE snap' = [snap EXCEPT ![p].ents.sum = TRUE] /\ Goto(p, "replace") /\ UNCHANGED job
        <3>1. PICK s : /\ snap' = [snap EXCEPT ![p] = s] /\ s.id = snap[p].id
                       /\ s.ents.ev = snap[p].ents.ev /\ s.ents.sum = TRUE
            <4> DEFINE u == [snap[p] EXCEPT !.ents.sum = TRUE]
            <4>1. snap' = [snap EXCEPT ![p] = u]
                BY <2>2
            <4>2. u.id = snap[p].id /\ u.ents.ev = snap[p].ents.ev /\ u.ents.sum = TRUE
                BY <1>0, SumUpdated
            <4> HIDE DEF u
            <4> QED BY <4>1, <4>2
        <3>2. pc'[p] = "replace" /\ snap'[p] = s
            BY <2>2, <3>1 DEF Goto, TypeOK
        <3>3. job[p] = "enrich"
            BY <2>0 DEF QuietInv, JobInv
        <3>4. quiet[p] => Undisturbed(p)'
            BY <1>0, <2>0, <2>2, <3>1, <3>2, <3>3 DEF QuietInv, Undisturbed
        <3>8. /\ pc'[p] = "replace" /\ snap'[p].id <= tree' /\ snap'[p].ents.ev \subseteq recorded'
              /\ \A q \in Procs \ {p} : pc'[q] = pc[q] /\ snap'[q] = snap[q]
            BY <1>0, <2>0, <2>2, <3>1 DEF Goto, TypeOK
        <3> QED BY <2>0, <2>2, <3>4, <3>8, QuietGoto
    <2> QED BY <1>10, <2>1, <2>2 DEF Propose
<1>11. ASSUME NEW p \in Procs, Restore(p) PROVE QuietInv'
    <2>0. /\ pc[p] = "restore" /\ Disturb(p)
          /\ UNCHANGED <<tree, db, evidence, idx, temp, recorded, crossed>>
        BY <1>11 DEF Restore
    <2>1. CASE Finish(p)
        BY <2>0, <2>1, QuietFinish
    <2>2. ASSUME NEW s \in Decoded(idx), snap' = [snap EXCEPT ![p] = s], Goto(p, "replace"), UNCHANGED job
          PROVE  QuietInv'
        <3>1. pc'[p] = "replace" /\ job[p] = "rebuild"
            BY <2>0, <2>2 DEF Goto, TypeOK, QuietInv, JobInv
        <3>2. Undisturbed(p)'
            BY <2>2, <3>1 DEF Undisturbed
        <3>3. s.id <= tree /\ s.ents.ev \subseteq recorded
            BY <1>0, DecodedSane DEF QuietInv, SaneInv, TypeOK, Sane
        <3>8. /\ pc'[p] = "replace" /\ snap'[p].id <= tree' /\ snap'[p].ents.ev \subseteq recorded'
              /\ \A q \in Procs \ {p} : pc'[q] = pc[q] /\ snap'[q] = snap[q]
            BY <2>0, <2>2, <3>3 DEF Goto, TypeOK
        <3> QED BY <2>0, <2>2, <3>2, <3>8, QuietGoto
    <2> QED BY <1>11, <2>1, <2>2 DEF Restore
<1>12. ASSUME NEW p \in Procs, Replace(p) PROVE QuietInv'
    <2>0. /\ pc[p] = "replace" /\ Disturb(p) /\ db' = snap[p]
          /\ UNCHANGED <<tree, evidence, idx, temp, recorded, crossed>>
        BY <1>12 DEF Replace
    <2>1. CASE Finish(p)
        BY <2>0, <2>1, QuietFinish
    <2>2. CASE job[p] # "rebuild" /\ Goto(p, "create") /\ UNCHANGED <<job, snap>>
        <3>1. snap' = [snap EXCEPT ![p] = snap[p]] /\ pc'[p] = "create"
            BY <2>2 DEF Goto, TypeOK
        <3>2. quiet[p] => Undisturbed(p)'
            BY <2>0, <2>2, <3>1 DEF QuietInv, Undisturbed, Current, Mergeable
        <3>8. /\ pc'[p] = "create" /\ snap'[p].id <= tree' /\ snap'[p].ents.ev \subseteq recorded'
              /\ \A q \in Procs \ {p} : pc'[q] = pc[q] /\ snap'[q] = snap[q]
            BY <1>0, <2>0, <2>2 DEF Goto, TypeOK
        <3> QED BY <2>0, <2>2, <3>2, <3>8, QuietGoto
    <2> QED BY <1>12, <2>1, <2>2 DEF Replace
<1>13. ASSUME NEW p \in Procs, Create(p) \/ WritePart(p) \/ WriteRest(p) PROVE QuietInv'
    <2>0. /\ pc[p] \in {"create", "part", "rest"} /\ Disturb(p)
          /\ pc'[p] = IF pc[p] = "create" THEN "part" ELSE IF pc[p] = "part" THEN "rest" ELSE "rename"
          /\ UNCHANGED <<tree, db, evidence, recorded, job, snap>>
          /\ \A q \in Procs \ {p} : pc'[q] = pc[q]
        BY <1>13 DEF Create, WritePart, WriteRest, Goto, TypeOK
    <2>1. JobInv'
        BY <2>0, JobStep DEF QuietInv
    <2>2. idx'.of \in {idx.of, snap[p], Absent} /\ temp'.of \in {temp.of, snap[p], Absent}
        <3>1. Empty.of = Absent /\ Mixed.of = Absent /\ \A text, s : Text(text, s).of = s
            BY DEF Empty, Mixed, Text
        <3> QED BY <1>13, <3>1 DEF Create, WritePart, WriteRest, Hold
    <2>3. SaneInv'
        BY <1>0, <2>0, <2>2, SaneStep DEF QuietInv, Sane
    <2>4. ASSUME quiet[p] PROVE Undisturbed(p)'
        <3>1. Undisturbed(p)
            BY <2>4 DEF QuietInv
        <3>2. CASE Create(p)
            <4>1. pc[p] = "create" /\ temp' = Empty /\ handle'[p] = "temp"
                BY <3>2 DEF Create, TypeOK
            <4> QED BY <2>0, <3>1, <4>1 DEF Undisturbed, Current, Mergeable
        <3>3. CASE WritePart(p)
            <4>1. pc[p] = "part" /\ temp' = Text("part", snap[p]) /\ handle'[p] = "temp"
                BY <3>1, <3>3 DEF WritePart, Hold, Held, Undisturbed
            <4> QED BY <2>0, <3>1, <4>1 DEF Undisturbed, Current, Mergeable
        <3>4. CASE WriteRest(p)
            <4>1. pc[p] = "rest" /\ temp' = Text("full", snap[p]) /\ handle'[p] = "temp"
                BY <3>1, <3>4 DEF WriteRest, Hold, Held, Undisturbed
            <4> QED BY <2>0, <3>1, <4>1 DEF Undisturbed, Current, Mergeable
        <3> QED BY <1>13, <3>2, <3>3, <3>4
    <2>5. \A q \in Procs : quiet'[q] => Undisturbed(q)'
        BY <2>0, <2>4 DEF Disturb
    <2> QED BY <2>1, <2>3, <2>5 DEF QuietInv
<1>14. ASSUME NEW p \in Procs, Rename(p) PROVE QuietInv'
    <2>0. /\ pc'[p] = "idle" /\ snap'[p] = Absent /\ Disturb(p)
          /\ \A q \in Procs \ {p} : pc'[q] = pc[q] /\ job'[q] = job[q] /\ snap'[q] = snap[q]
          /\ UNCHANGED <<tree, db, recorded>>
        BY <1>14 DEF Rename, Goto, TypeOK
    <2>1. JobInv'
        BY <2>0, JobStep DEF QuietInv
    <2>2. idx'.of \in {idx.of, temp.of} /\ temp'.of \in {temp.of, Absent}
        BY <1>14 DEF Rename, None, Text
    <2>3. Sane(snap[p])'
        BY <1>0, <2>0 DEF Sane, Absent
    <2>4. SaneInv'
        BY <2>0, <2>2, <2>3, SaneStep DEF QuietInv
    <2>5. \A q \in Procs : quiet'[q] => Undisturbed(q)'
        BY <2>0 DEF Disturb, Undisturbed
    <2> QED BY <2>1, <2>4, <2>5 DEF QuietInv
<1>15. ASSUME NEW p \in Procs, Stop(p) PROVE QuietInv'
    BY <1>15, QuietFinish DEF Stop
<1>16. CASE UNCHANGED vars
    BY <1>16 DEF vars, locals, ghosts, QuietInv, JobInv, SaneInv, Sane, Undisturbed, Current, Mergeable
<1> QED BY <1>1, <1>2, <1>3, <1>4, <1>5, <1>6, <1>7, <1>8, <1>9, <1>10, <1>11, <1>12,
           <1>13, <1>14, <1>15, <1>16 DEF Next, Step

-----------------------------------------------------------------------------
LEMMA QuietAlways == Spec => [](TypeOK /\ EvidenceInv /\ FiledInv /\ QuietInv)
<1>1. Init => TypeOK /\ EvidenceInv /\ FiledInv /\ QuietInv
    BY StoreAssumption, TypeInit, EvidenceInit, QuietInit DEF Init, FiledInv
<1>2. TypeOK /\ [Next]_vars => TypeOK'
    BY StoreAssumption, TypeNext
<1>3. TypeOK /\ TypeOK' /\ EvidenceInv /\ FiledInv /\ QuietInv /\ [Next]_vars
      => EvidenceInv' /\ FiledInv' /\ QuietInv'
    BY EvidenceNext, FiledNext, QuietNext
<1> QED BY <1>1, <1>2, <1>3, PTL DEF Spec

\* A step of the system that moves p is a step of p.
LEMMA MovedByItself ==
    ASSUME TypeOK, [Next]_vars, NEW p \in Procs, pc'[p] # pc[p]
    PROVE  Step(p)
<1>1. ASSUME NEW q \in Procs, Step(q), q # p PROVE pc'[p] = pc[p]
    BY <1>1 DEF TypeOK, Goto, Finish, Step, Start, LoadId, LoadEntities, LoadEdges, ScanTree, MergeEvidence,
                ReadEvidence, WriteEvidence, Propose, Restore, Replace, Create, WritePart, WriteRest, Rename, Stop
<1>2. CASE Edit
    BY <1>2 DEF Edit, locals
<1>3. CASE UNCHANGED vars
    BY <1>3 DEF vars, locals
<1> QED BY <1>1, <1>2, <1>3 DEF Next

\* A process nobody disturbs undoes nothing when it replaces the snapshot, whatever
\* any number of others did before it began, but that a scan drops what is recorded on
\* symbols.
THEOREM UndoesNothing == Spec => UndisturbedUndoesNothing
<1>1. ASSUME TypeOK, QuietInv, [Next]_vars, NEW p \in Procs,
             pc[p] = "replace", pc'[p] = "create", quiet[p]
      PROVE  /\ db.id <= db'.id
             /\ db.ents.sum => db'.ents.sum
             /\ ~crossed /\ db.id = db'.id =>
                    {r \in db.ents.ev : r.id = db.id /\ (job[p] = "scan" => r.on = "file")}
                        \subseteq db'.ents.ev
    <2>1. Step(p)
        BY <1>1, MovedByItself
    <2>2. Replace(p)
        BY <1>1, <2>1 DEF Step, Start, LoadId, LoadEntities, LoadEdges, ScanTree, MergeEvidence, ReadEvidence,
              WriteEvidence, Propose, Restore, Create, WritePart, WriteRest, Rename, Stop, Finish, Goto, TypeOK
    <2>3. db' = snap[p] /\ job[p] # "rebuild"
        BY <1>1, <2>2 DEF Replace, Finish, Goto, TypeOK
    <2> QED BY <1>1, <2>3 DEF QuietInv, Undisturbed
<1>2. TypeOK /\ EvidenceInv /\ FiledInv /\ QuietInv /\ [Next]_vars =>
        [\A p \in Procs :
           pc[p] = "replace" /\ pc'[p] = "create" /\ quiet[p] =>
             /\ db.id <= db'.id
             /\ db.ents.sum => db'.ents.sum
             /\ ~crossed /\ db.id = db'.id =>
                    {r \in db.ents.ev : r.id = db.id /\ (job[p] = "scan" => r.on = "file")}
                        \subseteq db'.ents.ev]_vars
    BY <1>1
<1> QED BY <1>2, QuietAlways, PTL DEF Spec, UndisturbedUndoesNothing

\* A scan nobody disturbs leaves the database showing the tree with all evidence on its
\* files and groups (and none on its symbols), and ATLAS.idx showing the database,
\* whatever it found there.
THEOREM QuietScansHeal == Spec => QuietScanHeals
<1>1. ASSUME TypeOK, QuietInv, [Next]_vars, NEW p \in Procs,
             pc[p] = "rename", pc'[p] = "idle", stops' = stops, job[p] = "scan", quiet[p]
      PROVE  /\ db = [Scanned(tree) EXCEPT !.ents.ev = Mergeable(tree), !.ents.sum = db.ents.sum]
             /\ idx' = Text("full", db)
    <2>1. Step(p)
        BY <1>1, MovedByItself
    <2>2. Rename(p)
        <3>1. ~Stop(p)
            BY <1>1 DEF Stop, TypeOK
        <3> QED BY <1>1, <2>1, <3>1 DEF Step, Start, LoadId, LoadEntities, LoadEdges, ScanTree, MergeEvidence,
              ReadEvidence, WriteEvidence, Propose, Restore, Replace, Create, WritePart, WriteRest
    <2>3. /\ db = snap[p] /\ temp = Text("full", db)
          /\ Current(db) /\ db.ents.ev = Mergeable(tree)
        BY <1>1 DEF QuietInv, Undisturbed
    <2>4. idx' = Text("full", db)
        BY <2>2, <2>3 DEF Rename, Text, None
    <2>5. db = [Scanned(tree) EXCEPT !.ents.ev = Mergeable(tree), !.ents.sum = db.ents.sum]
        <3>1. PICK ev : ev = Mergeable(tree)
            OBVIOUS
        <3>2. /\ db \in Snapshot /\ db.ents \in Entities
              /\ db.id = tree /\ db.edges = tree /\ db.whole = TRUE /\ db.ents.of = tree /\ db.ents.ev = ev
            BY <1>1, <2>3, <3>1 DEF TypeOK, Snapshot, Current
        <3>3. [Scanned(tree) EXCEPT !.ents.ev = ev, !.ents.sum = db.ents.sum] =
              [id |-> tree, ents |-> [of |-> tree, ev |-> ev, sum |-> db.ents.sum], edges |-> tree, whole |-> TRUE]
            <4> DEFINE s == Scanned(tree)
            <4>1. s \in Snapshot /\ s.ents.of = tree /\ s.id = tree /\ s.edges = tree /\ s.whole = TRUE
                BY <1>1, ScannedType DEF Scanned, TypeOK
            <4>2. PICK u : u = [s EXCEPT !.ents.ev = ev]
                OBVIOUS
            <4>3. /\ u.id = tree /\ u.edges = tree /\ u.whole = TRUE /\ u.ents.of = tree /\ u.ents.ev = ev
                BY <4>1, <4>2, EvUpdated
            <4>4. ev \subseteq Record
                BY <1>1, <3>1 DEF TypeOK, Mergeable
            <4>5. u \in Snapshot
                BY <4>1, <4>2, <4>4 DEF Snapshot, Entities
            <4>6. PICK v : v = [u EXCEPT !.ents.sum = db.ents.sum]
                OBVIOUS
            <4>7. v \in Snapshot /\ v.id = tree /\ v.edges = tree /\ v.whole = TRUE
                  /\ v.ents.of = tree /\ v.ents.ev = ev /\ v.ents.sum = db.ents.sum
                <5>1. v.id = tree /\ v.edges = tree /\ v.whole = TRUE
                      /\ v.ents.of = tree /\ v.ents.ev = ev /\ v.ents.sum = db.ents.sum
                    BY <4>3, <4>5, <4>6, SumUpdated
                <5>2. v \in Snapshot
                    BY <3>2, <4>5, <4>6 DEF Snapshot, Entities
                <5> QED BY <5>1, <5>2
            <4>8. v.ents = [of |-> tree, ev |-> ev, sum |-> db.ents.sum]
                <5>1. v.ents \in Entities
                    BY <4>7 DEF Snapshot
                <5> QED BY <4>7, <5>1 DEF Entities
            <4>9. v = [id |-> tree, ents |-> [of |-> tree, ev |-> ev, sum |-> db.ents.sum],
                       edges |-> tree, whole |-> TRUE]
                BY <4>7, <4>8 DEF Snapshot
            <4> QED BY <4>2, <4>6, <4>9
        <3>4. db.ents = [of |-> tree, ev |-> ev, sum |-> db.ents.sum]
            BY <3>2 DEF Entities
        <3>5. db = [id |-> tree, ents |-> [of |-> tree, ev |-> ev, sum |-> db.ents.sum],
                    edges |-> tree, whole |-> TRUE]
            BY <3>2, <3>4 DEF Snapshot
        <3> QED BY <3>1, <3>3, <3>5
    <2> QED BY <2>4, <2>5
<1>2. TypeOK /\ EvidenceInv /\ FiledInv /\ QuietInv /\ [Next]_vars =>
        [\A p \in Procs :
           pc[p] = "rename" /\ pc'[p] = "idle" /\ stops' = stops /\ job[p] = "scan" /\ quiet[p] =>
             /\ db = [Scanned(tree) EXCEPT !.ents.ev = Mergeable(tree), !.ents.sum = db.ents.sum]
             /\ idx' = Text("full", db)]_vars
    BY <1>1
<1> QED BY <1>2, QuietAlways, PTL DEF Spec, QuietScanHeals
=============================================================================
