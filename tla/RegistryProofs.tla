--------------------------- MODULE RegistryProofs ---------------------------
(***************************************************************************)
(* Proofs about Registry, for every set of paths, contents and processes   *)
(* and every bound.                                                        *)
(***************************************************************************)
EXTENDS Registry, FiniteSetTheorems, TLAPS

(* The inductive invariants.                                               *)

FileIds(records, Of, key) == {r.id : r \in {q \in records : q.kind = "file" /\ Of[q.key] = key}}

There(tree) == {p \in Paths : tree[p] # Gone}

\* The records of that kind are those of the groups the files make up.
GroupsSettled(records, tree, kind, Of) ==
    /\ \A r \in records : r.kind = kind =>
            r.key \in {Of[p] : p \in There(tree)} /\ r.print = FileIds(records, Of, r.key)
    /\ \A p \in There(tree) : At(records, kind, Of[p]) # {}

\* The records are those of a scan of that tree, whatever their ids.
Settled(records, tree) ==
    /\ \A r \in records : r.kind \in Kinds /\ r = Record(r.kind, r.key, r.id, r.print)
    /\ \A r \in records : r.kind = "file" => r.key \in There(tree) /\ r.print = tree[r.key]
    /\ \A p \in There(tree) : At(records, "file", p) # {}
    /\ GroupsSettled(records, tree, "system", SystemOf)
    /\ GroupsSettled(records, tree, "planet", PlanetOf)

\* ... and no two of its files have one id.
Good(records, tree) == ~Shared(records, {"file"}) /\ Settled(records, tree)

\* What is saved, being saved or to be saved is good.
GoodInv ==
    /\ Good(registry, basis) /\ Good(temp.records, temp.basis)
    /\ \A s \in Procs : Holding(s) => Good(mine[s], from[s])

\* As long as no two scans saved at once, the temporary file is that of one scan and
\* holds what it has written.
WholeInv ==
    /\ crossed => overlap
    /\ ~crossed =>
        /\ \A s, t \in Procs : handle[s] # "none" /\ handle[t] # "none" => s = t
        /\ \A s \in Procs : handle[s] \in {"none", "temp"}
        /\ \A s \in Procs : pc[s] = "write" => temp = Truncated
        /\ \A s \in Procs : pc[s] = "rename" => temp = File("whole", mine[s], from[s])
        /\ ~torn

Carries(records, p, id) == \E r \in At(records, "file", p) : r.id = id

\* Without an overlap: what stays is in the registry under its id, and in what a scan
\* holds; a scan has the registry it read, and commits the registry it wrote.
StaysInv ==
    ~overlap =>
        /\ \A s, t \in Procs : pc[s] # "idle" /\ pc[t] # "idle" => s = t
        /\ \A p \in Paths : stays[p] # None =>
                /\ disk[p] # Gone
                /\ Carries(registry, p, stays[p])
                /\ \A s \in Procs : Holding(s) => Carries(mine[s], p, stays[p])
        /\ \A s \in Procs : pc[s] \in {"walk", "commit"} => mine[s] = registry
        /\ \A s \in Procs, p \in Paths :
                Holding(s) /\ p \notin absent[s] /\ At(mine[s], "file", p) # {} => disk[p] # Gone
        /\ StayingFilesKeepTheirIds
-----------------------------------------------------------------------------
(* What reconcile_id returns.                                              *)

\* It is the id of the record at the key, or that of a record of the same kind and
\* content whose key is gone, or the one derived from the key.
LEMMA IdOrigin ==
    ASSUME NEW R, NEW kind, NEW key, NEW print, NEW current,
           NEW id, id = reconcile_id(R, kind, key, print, current)
    PROVE  \/ \E r \in At(R, kind, key) : id = r.id
           \/ At(R, kind, key) = {} /\ \E r \in Moved(R, kind, print, current) : id = r.id
           \/ At(R, kind, key) = {} /\ id = stable_id(kind, key)
<1>1. CASE At(R, kind, key) # {}
  BY <1>1 DEF reconcile_id
<1>2. CASE At(R, kind, key) = {} /\ Cardinality(Moved(R, kind, print, current)) = 1
  <2>1. Moved(R, kind, print, current) # {}
    BY <1>2, FS_EmptySet
  <2> QED BY <1>2, <2>1 DEF reconcile_id
<1>3. CASE At(R, kind, key) = {} /\ Cardinality(Moved(R, kind, print, current)) # 1
  BY <1>3 DEF reconcile_id
<1> QED BY <1>1, <1>2, <1>3

\* A record that has a place keeps its id.
LEMMA IdIsKept ==
    ASSUME NEW R, Wellformed(R), NEW kind, NEW key, NEW print, NEW current,
           NEW r \in At(R, kind, key)
    PROVE  reconcile_id(R, kind, key, print, current) = r.id
<1>1. \A q \in At(R, kind, key) : q = r
  BY DEF At, Wellformed
<1> QED BY <1>1 DEF reconcile_id

\* The ids it gives to a kind are ids of that kind.
LEMMA IdIsOfKind ==
    ASSUME NEW R, Wellformed(R), NEW kind, NEW key, NEW print, NEW current,
           stable_id(kind, key) \in Ids
    PROVE  /\ reconcile_id(R, kind, key, print, current) \in Ids
           /\ reconcile_id(R, kind, key, print, current).kind = kind
<1>1. stable_id(kind, key).kind = kind
  BY DEF stable_id
<1>2. \A r \in At(R, kind, key) : r.id \in Ids /\ r.id.kind = kind
  BY DEF At, Wellformed
<1>3. \A r \in Moved(R, kind, print, current) : r.id \in Ids /\ r.id.kind = kind
  BY DEF Moved, Wellformed
<1> QED BY <1>1, <1>2, <1>3, IdOrigin
-----------------------------------------------------------------------------
(* What a scan makes.                                                      *)

LEMMA KeysHaveIds ==
    ASSUME NEW p \in Paths
    PROVE  /\ stable_id("file", p) \in Ids
           /\ stable_id("system", SystemOf[p]) \in Ids
           /\ stable_id("planet", PlanetOf[p]) \in Ids
BY DEF stable_id, Ids

\* A record of a scan is of a file that is there, or of a group of such files.
LEMMA RecordOf ==
    ASSUME NEW R, NEW r \in Records(R)
    PROVE  \/ \E p \in Present : r = Record("file", p, FileId(R, p), disk[p])
           \/ r \in GroupRecords(R, "system", SystemOf)
           \/ r \in GroupRecords(R, "planet", PlanetOf)
BY DEF Records, FileRecords

LEMMA FileRecordFields ==
    ASSUME NEW R, Wellformed(R), NEW p \in Present, disk \in [Paths -> Contents \cup {Gone}],
           NEW r, r = Record("file", p, FileId(R, p), disk[p])
    PROVE  /\ r.kind = "file" /\ r.key = p /\ r.id = FileId(R, p) /\ r.print = disk[p]
           /\ r.id \in Ids /\ r.id.kind = "file" /\ stable_id("file", p) \in Ids
           /\ r.print \in Contents
<1>1. p \in Paths /\ disk[p] # Gone
  BY DEF Present
<1>2. FileId(R, p) \in Ids /\ FileId(R, p).kind = "file"
  BY <1>1, KeysHaveIds, IdIsOfKind DEF FileId
<1> QED BY <1>1, <1>2, KeysHaveIds DEF Record

GroupPrint(R, Of, key) == {FileId(R, p) : p \in {q \in Present : Of[q] = key}}

\* What a group record of a scan looks like.
GroupRecordOk(R, kind, Of, r) ==
    \E p \in Present :
        /\ r = Record(kind, Of[p], r.id, GroupPrint(R, Of, Of[p]))
        /\ r.kind = kind /\ r.key = Of[p] /\ r.print = GroupPrint(R, Of, Of[p])
        /\ r.id \in Ids /\ r.id.kind = kind /\ stable_id(kind, Of[p]) \in Ids
        /\ r.print \in (SUBSET Ids) \ {{}}

LEMMA GroupRecordFields ==
    ASSUME NEW R, Wellformed(R), disk \in [Paths -> Contents \cup {Gone}],
           NEW kind \in {"system", "planet"},
           NEW Of, Of = IF kind = "system" THEN SystemOf ELSE PlanetOf,
           NEW r \in GroupRecords(R, kind, Of)
    PROVE  GroupRecordOk(R, kind, Of, r)
<1> DEFINE id(p) == reconcile_id(R, kind, Of[p], GroupPrint(R, Of, Of[p]), {Of[q] : q \in Present})
<1>1. PICK p \in Present : r = Record(kind, Of[p], id(p), GroupPrint(R, Of, Of[p]))
  BY DEF GroupRecords, GroupPrint
<1>2. p \in Paths
  BY DEF Present
<1>3. stable_id(kind, Of[p]) \in Ids
  BY <1>2, KeysHaveIds
<1>4. id(p) \in Ids /\ id(p).kind = kind
  BY <1>3, IdIsOfKind
<1>5. \A q \in Present : FileId(R, q) \in Ids
  BY FileRecordFields
<1>6. GroupPrint(R, Of, Of[p]) \in (SUBSET Ids) \ {{}}
  BY <1>5 DEF GroupPrint
<1>7. r.kind = kind /\ r.key = Of[p] /\ r.print = GroupPrint(R, Of, Of[p]) /\ r.id = id(p)
  BY <1>1 DEF Record
<1> QED BY <1>1, <1>3, <1>4, <1>6, <1>7 DEF GroupRecordOk

LEMMA RecordCases ==
    ASSUME NEW R, Wellformed(R), disk \in [Paths -> Contents \cup {Gone}],
           NEW r \in Records(R)
    PROVE  /\ r.kind \in Kinds /\ r.id \in Ids /\ r.id.kind = r.kind
           /\ stable_id(r.kind, r.key) \in Ids
           /\ r.print \in (IF r.kind = "file" THEN Contents ELSE (SUBSET Ids) \ {{}})
           /\ r = Record(r.kind, r.key, r.id, r.print)
           /\ r.kind = "file" => /\ r.key \in Present /\ r.print = disk[r.key]
                                 /\ r.id = FileId(R, r.key)
           /\ r.kind = "system" => r \in GroupRecords(R, "system", SystemOf)
           /\ r.kind = "planet" => r \in GroupRecords(R, "planet", PlanetOf)
<1>1. CASE \E p \in Present : r = Record("file", p, FileId(R, p), disk[p])
  <2>1. PICK p \in Present : r = Record("file", p, FileId(R, p), disk[p])
    BY <1>1
  <2>2. /\ r.kind = "file" /\ r.key = p /\ r.id = FileId(R, p) /\ r.print = disk[p]
        /\ r.id \in Ids /\ r.id.kind = "file" /\ stable_id("file", p) \in Ids
        /\ r.print \in Contents
    BY <2>1, FileRecordFields
  <2> QED BY <2>1, <2>2 DEF Kinds
<1>2. CASE r \in GroupRecords(R, "system", SystemOf)
  <2>1. PICK p \in Present :
           /\ r = Record("system", SystemOf[p], r.id, GroupPrint(R, SystemOf, SystemOf[p]))
           /\ r.kind = "system" /\ r.key = SystemOf[p]
           /\ r.print = GroupPrint(R, SystemOf, SystemOf[p])
           /\ r.id \in Ids /\ r.id.kind = "system" /\ stable_id("system", SystemOf[p]) \in Ids
           /\ r.print \in (SUBSET Ids) \ {{}}
    <3>1. GroupRecordOk(R, "system", SystemOf, r)
      BY <1>2, GroupRecordFields
    <3> QED BY <3>1 DEF GroupRecordOk
  <2>2. r = Record(r.kind, r.key, r.id, r.print)
    BY <2>1
  <2>3. r.kind \in Kinds /\ r.kind # "file"
    BY <2>1 DEF Kinds
  <2>4. r.kind # "planet"
    BY <2>1
  <2>5. r.print \in (IF r.kind = "file" THEN Contents ELSE (SUBSET Ids) \ {{}})
    BY <2>1, <2>3
  <2>6. r.id.kind = r.kind /\ r.id \in Ids /\ stable_id(r.kind, r.key) \in Ids
    BY <2>1
  <2>7. r.kind = "system" => r \in GroupRecords(R, "system", SystemOf)
    BY <1>2
  <2> QED BY <2>2, <2>3, <2>4, <2>5, <2>6, <2>7
<1>3. CASE r \in GroupRecords(R, "planet", PlanetOf)
  <2>1. PICK p \in Present :
           /\ r = Record("planet", PlanetOf[p], r.id, GroupPrint(R, PlanetOf, PlanetOf[p]))
           /\ r.kind = "planet" /\ r.key = PlanetOf[p]
           /\ r.print = GroupPrint(R, PlanetOf, PlanetOf[p])
           /\ r.id \in Ids /\ r.id.kind = "planet" /\ stable_id("planet", PlanetOf[p]) \in Ids
           /\ r.print \in (SUBSET Ids) \ {{}}
    <3>1. GroupRecordOk(R, "planet", PlanetOf, r)
      BY <1>3, GroupRecordFields
    <3> QED BY <3>1 DEF GroupRecordOk
  <2>2. r = Record(r.kind, r.key, r.id, r.print)
    BY <2>1
  <2>3. r.kind \in Kinds /\ r.kind # "file"
    BY <2>1 DEF Kinds
  <2>4. r.kind # "system"
    BY <2>1
  <2> QED BY <1>3, <2>1, <2>2, <2>3, <2>4
<1> QED BY <1>1, <1>2, <1>3, RecordOf

\* There is one group record for a key.
LEMMA GroupRecordAlone ==
    ASSUME NEW R, NEW kind, NEW Of, NEW r \in GroupRecords(R, kind, Of),
           NEW q \in GroupRecords(R, kind, Of), r.key = q.key
    PROVE  r = q
<1> DEFINE Made(key) == Record(kind, key,
                            reconcile_id(R, kind, key, GroupPrint(R, Of, key), {Of[p] : p \in Present}),
                            GroupPrint(R, Of, key))
<1>1. \A x \in GroupRecords(R, kind, Of) : \E key : x = Made(key)
  BY DEF GroupRecords, GroupPrint
<1>2. \A key : Made(key).key = key
  BY DEF Record
<1> HIDE DEF Made
<1> QED BY <1>1, <1>2

LEMMA RecordsWellformed ==
    ASSUME NEW R, Wellformed(R), disk \in [Paths -> Contents \cup {Gone}]
    PROVE  Wellformed(Records(R))
<1>1. ASSUME NEW r \in Records(R), NEW q \in Records(R), r.kind = q.kind, r.key = q.key
      PROVE  r = q
  <2>1. CASE r.kind = "file"
    <3>1. /\ r.key \in Present /\ r.id = FileId(R, r.key) /\ r.print = disk[r.key]
          /\ r = Record(r.kind, r.key, r.id, r.print)
      BY <2>1, RecordCases
    <3>2. /\ q.id = FileId(R, q.key) /\ q.print = disk[q.key]
          /\ q = Record(q.kind, q.key, q.id, q.print)
      BY <1>1, <2>1, RecordCases
    <3> QED BY <1>1, <3>1, <3>2
  <2>2. CASE r.kind = "system"
    <3>1. /\ r \in GroupRecords(R, "system", SystemOf)
          /\ q \in GroupRecords(R, "system", SystemOf)
      BY <1>1, <2>2, RecordCases
    <3> QED BY <1>1, <3>1, GroupRecordAlone
  <2>3. CASE r.kind = "planet"
    <3>1. /\ r \in GroupRecords(R, "planet", PlanetOf)
          /\ q \in GroupRecords(R, "planet", PlanetOf)
      BY <1>1, <2>3, RecordCases
    <3> QED BY <1>1, <3>1, GroupRecordAlone
  <2>4. r.kind \in Kinds
    BY RecordCases
  <2> QED BY <2>1, <2>2, <2>3, <2>4 DEF Kinds
<1>2. ASSUME NEW r \in Records(R)
      PROVE  /\ r.id \in Ids /\ stable_id(r.kind, r.key) \in Ids
             /\ r.id.kind = r.kind
             /\ r.print \in (IF r.kind = "file" THEN Contents ELSE (SUBSET Ids) \ {{}})
  BY <1>2, RecordCases
<1> QED BY <1>1, <1>2 DEF Wellformed

\* The file records of a scan: one for each file that is there.
LEMMA FilesAt ==
    ASSUME NEW R, Wellformed(R), disk \in [Paths -> Contents \cup {Gone}], NEW p \in Present
    PROVE  /\ Record("file", p, FileId(R, p), disk[p]) \in At(Records(R), "file", p)
           /\ \A r \in At(Records(R), "file", p) : r.id = FileId(R, p)
<1>1. Record("file", p, FileId(R, p), disk[p]) \in Records(R)
  BY DEF Records, FileRecords
<1>2. \A r \in At(Records(R), "file", p) : r.id = FileId(R, p)
  BY RecordCases DEF At
<1> QED BY <1>1, <1>2 DEF At, Record

\* A file whose record was read under an id is there under it.
LEMMA CarriedOn ==
    ASSUME NEW R, Wellformed(R), disk \in [Paths -> Contents \cup {Gone}], NEW p \in Present,
           NEW id, Carries(R, p, id)
    PROVE  Carries(Records(R), p, id)
<1>1. PICK r \in At(R, "file", p) : r.id = id
  BY DEF Carries
<1>2. FileId(R, p) = id
  BY <1>1, IdIsKept DEF FileId
<1>3. Record("file", p, FileId(R, p), disk[p]).id = id
  BY <1>2 DEF Record
<1> QED BY <1>3, FilesAt DEF Carries
-----------------------------------------------------------------------------
(* A scan of the tree the records came from gives the same records.        *)

LEMMA PrintsAgree ==
    ASSUME NEW R, NEW S, NEW Of, NEW key,
           \A r \in S : r.kind = "file" => r.key \in Present /\ r.id = FileId(R, r.key),
           \A p \in Present : At(S, "file", p) # {}
    PROVE  GroupPrint(R, Of, key) = FileIds(S, Of, key)
<1>1. ASSUME NEW id \in GroupPrint(R, Of, key)
      PROVE  id \in FileIds(S, Of, key)
  <2>1. PICK p \in Present : Of[p] = key /\ id = FileId(R, p)
    BY <1>1 DEF GroupPrint
  <2>2. PICK r \in S : r.kind = "file" /\ r.key = p
    BY DEF At
  <2> QED BY <2>1, <2>2 DEF FileIds
<1>2. ASSUME NEW id \in FileIds(S, Of, key)
      PROVE  id \in GroupPrint(R, Of, key)
  <2>1. PICK r \in S : r.kind = "file" /\ Of[r.key] = key /\ id = r.id
    BY <1>2 DEF FileIds
  <2> QED BY <2>1 DEF GroupPrint
<1> QED BY <1>1, <1>2

LEMMA GroupsAreSettled ==
    ASSUME NEW R, Wellformed(R), disk \in [Paths -> Contents \cup {Gone}],
           NEW kind \in {"system", "planet"},
           NEW Of, Of = IF kind = "system" THEN SystemOf ELSE PlanetOf
    PROVE  GroupsSettled(Records(R), disk, kind, Of)
<1>1. There(disk) = Present
  BY DEF There, Present
<1>2. \A key : GroupPrint(R, Of, key) = FileIds(Records(R), Of, key)
  <2>1. \A r \in Records(R) : r.kind = "file" => r.key \in Present /\ r.id = FileId(R, r.key)
    BY RecordCases
  <2>2. \A p \in Present : At(Records(R), "file", p) # {}
    BY FilesAt
  <2> QED BY <2>1, <2>2, PrintsAgree
<1>3. ASSUME NEW r \in Records(R), r.kind = kind
      PROVE  r.key \in {Of[p] : p \in Present} /\ r.print = FileIds(Records(R), Of, r.key)
  <2>1. r \in GroupRecords(R, kind, Of)
    <3>1. CASE kind = "system"
      BY <1>3, <3>1, RecordCases
    <3>2. CASE kind = "planet"
      BY <1>3, <3>2, RecordCases
    <3> QED BY <3>1, <3>2
  <2>2. GroupRecordOk(R, kind, Of, r)
    BY <2>1, GroupRecordFields
  <2>3. PICK p \in Present : r.key = Of[p] /\ r.print = GroupPrint(R, Of, Of[p])
    BY <2>2 DEF GroupRecordOk
  <2> QED BY <1>2, <2>3
<1>4. ASSUME NEW p \in Present
      PROVE  At(Records(R), kind, Of[p]) # {}
  <2> DEFINE made == Record(kind, Of[p],
                            reconcile_id(R, kind, Of[p], GroupPrint(R, Of, Of[p]),
                                         {Of[q] : q \in Present}),
                            GroupPrint(R, Of, Of[p]))
  <2>1. made \in GroupRecords(R, kind, Of)
    BY DEF GroupRecords, GroupPrint
  <2>2. made \in Records(R)
    <3>1. CASE kind = "system"
      BY <2>1, <3>1 DEF Records
    <3>2. CASE kind = "planet"
      BY <2>1, <3>2 DEF Records
    <3> QED BY <3>1, <3>2
  <2>3. made.kind = kind /\ made.key = Of[p]
    BY DEF Record
  <2> HIDE DEF made
  <2> QED BY <2>2, <2>3 DEF At
<1> QED BY <1>1, <1>3, <1>4 DEF GroupsSettled

LEMMA RecordsSettled ==
    ASSUME NEW R, Wellformed(R), disk \in [Paths -> Contents \cup {Gone}]
    PROVE  Settled(Records(R), disk)
<1>1. There(disk) = Present
  BY DEF There, Present
<1>2. \A r \in Records(R) : r.kind \in Kinds /\ r = Record(r.kind, r.key, r.id, r.print)
  BY RecordCases
<1>3. \A r \in Records(R) : r.kind = "file" => r.key \in Present /\ r.print = disk[r.key]
  BY RecordCases
<1>4. \A p \in Present : At(Records(R), "file", p) # {}
  BY FilesAt
<1>5. GroupsSettled(Records(R), disk, "system", SystemOf)
  BY GroupsAreSettled
<1>6. GroupsSettled(Records(R), disk, "planet", PlanetOf)
  BY GroupsAreSettled
<1> QED BY <1>1, <1>2, <1>3, <1>4, <1>5, <1>6 DEF Settled

LEMMA GroupsAreStill ==
    ASSUME NEW R, Wellformed(R), disk \in [Paths -> Contents \cup {Gone}], Settled(R, disk),
           NEW kind, NEW Of, GroupsSettled(R, disk, kind, Of)
    PROVE  GroupRecords(R, kind, Of) = {r \in R : r.kind = kind}
<1> DEFINE current == {Of[q] : q \in Present}
           Made(key) == Record(kind, key,
                            reconcile_id(R, kind, key, GroupPrint(R, Of, key), current),
                            GroupPrint(R, Of, key))
<1>1. There(disk) = Present
  BY DEF There, Present
<1>2. \A key : GroupPrint(R, Of, key) = FileIds(R, Of, key)
  <2>1. \A r \in R : r.kind = "file" => r.key \in Present
    BY <1>1 DEF Settled
  <2>2. \A r \in R : r.kind = "file" => r.id = FileId(R, r.key)
    BY IdIsKept DEF FileId, At
  <2>3. \A p \in Present : At(R, "file", p) # {}
    BY <1>1 DEF Settled
  <2> QED BY <2>1, <2>2, <2>3, PrintsAgree
<1>3. GroupRecords(R, kind, Of) = {Made(key) : key \in current}
  BY DEF GroupRecords, GroupPrint
<1>4. ASSUME NEW r \in R, r.kind = kind
      PROVE  r = Made(r.key)
  <2>1. r = Record(kind, r.key, r.id, r.print)
    BY <1>4 DEF Settled
  <2>2. r.print = GroupPrint(R, Of, r.key)
    BY <1>2, <1>4 DEF GroupsSettled
  <2>3. reconcile_id(R, kind, r.key, r.print, current) = r.id
    BY <1>4, IdIsKept DEF At
  <2> QED BY <2>1, <2>2, <2>3
<1>5. \A r \in R : r.kind = kind => r.key \in current
  BY <1>1 DEF GroupsSettled
<1>6. \A key \in current : \E r \in R : r.kind = kind /\ r.key = key
  BY <1>1 DEF GroupsSettled, At
<1> HIDE DEF current, Made
<1>7. \A r \in R : r.kind = kind => r \in {Made(key) : key \in current}
  BY <1>4, <1>5
<1>8. \A key \in current : Made(key) \in {r \in R : r.kind = kind}
  BY <1>4, <1>6
<1> QED BY <1>3, <1>7, <1>8

LEMMA SettledIsStill ==
    ASSUME NEW R, Wellformed(R), disk \in [Paths -> Contents \cup {Gone}], Settled(R, disk)
    PROVE  Records(R) = R
<1>1. There(disk) = Present
  BY DEF There, Present
<1>2. FileRecords(R) = {r \in R : r.kind = "file"}
  <2>1. ASSUME NEW r \in R, r.kind = "file"
        PROVE  r.key \in Present /\ r = Record("file", r.key, FileId(R, r.key), disk[r.key])
    <3>1. r.key \in Present /\ r.print = disk[r.key] /\ r = Record("file", r.key, r.id, r.print)
      BY <1>1, <2>1 DEF Settled
    <3>2. FileId(R, r.key) = r.id
      BY <2>1, IdIsKept DEF FileId, At
    <3> QED BY <3>1, <3>2
  <2>2. \A p \in Present : \E r \in R : r.kind = "file" /\ r.key = p
    BY <1>1 DEF Settled, At
  <2> QED BY <2>1, <2>2 DEF FileRecords
<1>3. GroupRecords(R, "system", SystemOf) = {r \in R : r.kind = "system"}
  BY GroupsAreStill DEF Settled
<1>4. GroupRecords(R, "planet", PlanetOf) = {r \in R : r.kind = "planet"}
  BY GroupsAreStill DEF Settled
<1>5. \A r \in R : r.kind \in {"file", "system", "planet"}
  BY DEF Settled, Kinds
<1> QED BY <1>2, <1>3, <1>4, <1>5 DEF Records
-----------------------------------------------------------------------------
(* Why a scan is refused.                                                  *)

\* Either of two records of one id carries the other's, or both took that of a third.
LEMMA ReasonOfRefusal ==
    ASSUME Wellformed(registry), ~Shared(registry, {"file"}), disk \in [Paths -> Contents \cup {Gone}]
    PROVE  RefusedForReason
<1> DEFINE new == {p \in Present : At(registry, "file", p) = {}}
           reused == \E p \in new : \E r \in registry :
                        r.kind = "file" /\ r.key # p /\ r.id = stable_id("file", p)
           copied == \E p, q \in new : p # q /\ disk[p] = disk[q] /\ \E r \in registry :
                        r.kind = "file" /\ r.key \notin Present /\ r.print = disk[p]
<1> SUFFICES ASSUME NEW r \in Records(registry), NEW q \in Records(registry),
                    r # q, r.kind = "file", q.kind = "file", r.id = q.id
             PROVE  reused \/ copied
  BY DEF RefusedForReason, Refused, Shared
<1>1. r.key \in Present /\ r.id = FileId(registry, r.key) /\ q.key \in Present
      /\ q.id = FileId(registry, q.key) /\ r.key # q.key
  <2>1. r.key # q.key
    BY RecordsWellformed DEF Wellformed
  <2> QED BY <2>1, RecordCases
<1> DEFINE kept(x, id)  == \E y \in registry : y.kind = "file" /\ y.key = x /\ id = y.id
           took(x, id)  == x \in new /\ \E y \in registry : /\ y.kind = "file" /\ y.key \notin Present
                                                        /\ y.print = disk[x] /\ id = y.id
           fresh(x, id) == x \in new /\ id = stable_id("file", x)
<1>2. ASSUME NEW x \in Present
      PROVE  kept(x, FileId(registry, x)) \/ took(x, FileId(registry, x)) \/ fresh(x, FileId(registry, x))
  <2> DEFINE id == FileId(registry, x)
  <2>1. id = reconcile_id(registry, "file", x, disk[x], Present)
    BY DEF FileId
  <2>2. \/ \E y \in At(registry, "file", x) : id = y.id
        \/ At(registry, "file", x) = {} /\ \E y \in Moved(registry, "file", disk[x], Present) : id = y.id
        \/ At(registry, "file", x) = {} /\ id = stable_id("file", x)
    BY <2>1, IdOrigin
  <2> QED BY <2>2 DEF At, Moved
<1>3. \A y, z \in registry : y.kind = "file" /\ z.kind = "file" /\ y.id = z.id => y = z
  BY DEF Shared
<1>5. ASSUME NEW x \in Present, NEW z \in Present, x # z, NEW id, kept(x, id)
      PROVE  ~kept(z, id) /\ ~took(z, id) /\ (fresh(z, id) => reused)
  BY <1>3, <1>5
<1>6. ASSUME NEW x \in Present, NEW z \in Present, x # z, NEW id, took(x, id)
      PROVE  (took(z, id) => copied) /\ (fresh(z, id) => reused)
  BY <1>3, <1>6
<1>7. ASSUME NEW x \in Present, NEW z \in Present, x # z, NEW id, fresh(x, id)
      PROVE  ~fresh(z, id)
  BY <1>7 DEF stable_id
<1> HIDE DEF kept, took, fresh, new, reused, copied
<1> QED BY <1>1, <1>2, <1>5, <1>6, <1>7
-----------------------------------------------------------------------------
(* The invariants are inductive.                                           *)

Inv == TypeOK /\ GoodInv /\ WholeInv /\ StaysInv

\* A file the processes may find or leave.
FileOk(file) ==
    /\ file = File(file.text, file.records, file.basis)
    /\ file.text \in {"none", "empty", "whole", "mixed"}
    /\ Wellformed(file.records) /\ Good(file.records, file.basis)
    /\ file.basis \in [Paths -> Contents \cup {Gone}]

LEMMA NothingIsFine ==
    /\ Wellformed({}) /\ Good({}, Empty) /\ Empty \in [Paths -> Contents \cup {Gone}]
    /\ FileOk(NoFile) /\ FileOk(Truncated) /\ FileOk(Mixed)
    /\ NoFile # Truncated /\ \A records, tree : File("whole", records, tree) # NoFile
<1>1. There(Empty) = {} /\ Empty \in [Paths -> Contents \cup {Gone}]
  BY DEF There, Empty
<1>2. GroupsSettled({}, Empty, "system", SystemOf) /\ GroupsSettled({}, Empty, "planet", PlanetOf)
  BY <1>1 DEF GroupsSettled
<1>3. Wellformed({}) /\ Good({}, Empty)
  BY <1>1, <1>2 DEF Wellformed, Good, Settled, Shared
<1> QED BY <1>1, <1>3 DEF FileOk, NoFile, Truncated, Mixed, File

\* The temporary file is one, and so is what a scan writes.
LEMMA FilesAreOk ==
    ASSUME Inv
    PROVE  /\ FileOk(temp)
           /\ \A s \in Procs : Holding(s) => FileOk(File("whole", mine[s], from[s]))
<1>1. FileOk(temp)
  BY DEF Inv, TypeOK, GoodInv, FileOk
<1>2. ASSUME NEW s \in Procs, Holding(s) PROVE FileOk(File("whole", mine[s], from[s]))
  BY <1>2 DEF Inv, TypeOK, GoodInv, FileOk, File
<1> QED BY <1>1, <1>2

\* Writing to the file one has open leaves good files, and only that one changed.
LEMMA HoldKeeps ==
    ASSUME Inv, NEW s \in Procs, NEW file, FileOk(file), Hold(s, file)
    PROVE  /\ FileOk(temp')
           /\ Wellformed(registry') /\ Good(registry', basis') /\ torn' \in BOOLEAN
           /\ basis' \in [Paths -> Contents \cup {Gone}]
           /\ handle[s] = "temp" => temp' = file /\ UNCHANGED <<registry, basis, torn>>
<1>1. FileOk(temp) /\ Wellformed(registry) /\ Good(registry, basis) /\ torn \in BOOLEAN
      /\ basis \in [Paths -> Contents \cup {Gone}]
  BY FilesAreOk DEF Inv, TypeOK, GoodInv
<1>2. CASE handle[s] = "temp"
  BY <1>1, <1>2 DEF Hold
<1>3. CASE handle[s] # "temp"
  BY <1>1, <1>3 DEF Hold, InPlace, FileOk
<1> QED BY <1>2, <1>3

LEMMA InitInv == Init => Inv
<1> SUFFICES ASSUME Init PROVE Inv
  OBVIOUS
<1> USE DEF Init
<1>1. TypeOK
  <2>1. /\ from \in [Procs -> [Paths -> Contents \cup {Gone}]]
        /\ basis \in [Paths -> Contents \cup {Gone}]
    BY NothingIsFine
  <2>2. edits \in 0 .. MaxEdits
    BY RegistryAssumption
  <2>3. Wellformed(registry) /\ Wellformed(db) /\ \A s \in Procs : Wellformed(mine[s])
    BY NothingIsFine
  <2>4. FileOk(temp)
    BY NothingIsFine
  <2>5. pc \in [Procs -> {"idle", "walk", "save", "write", "rename", "commit"}] /\ DOMAIN mine = Procs
    OBVIOUS
  <2>6. /\ handle \in [Procs -> {"none", "temp", "place", "lost"}]
        /\ \A s \in Procs : handle[s] # "none" <=> pc[s] \in {"write", "rename"}
    OBVIOUS
  <2>7. absent \in [Procs -> SUBSET Paths] /\ stays \in [Paths -> Ids \cup {None}]
    OBVIOUS
  <2> QED BY <2>1, <2>2, <2>3, <2>4, <2>5, <2>6, <2>7 DEF TypeOK, FileOk
<1>2. GoodInv
  BY NothingIsFine DEF GoodInv, Holding, FileOk
<1>3. WholeInv
  BY DEF WholeInv
<1>4. StaysInv
  BY DEF StaysInv, StayingFilesKeepTheirIds, Holding, None
<1> QED BY <1>1, <1>2, <1>3, <1>4 DEF Inv

\* An edit touches nothing a scan holds.
LEMMA BecomesInv ==
    ASSUME Inv, NEW tree \in [Paths -> Contents \cup {Gone}], Becomes(tree)
    PROVE  Inv'
<1> USE DEF Becomes, files
<1>1. TypeOK'
  <2>1. edits' \in 0 .. MaxEdits
    <3>1. CASE overlap
      BY <3>1, RegistryAssumption DEF Inv, TypeOK
    <3>2. CASE ~overlap
      BY <3>2, RegistryAssumption DEF Inv, TypeOK
    <3> QED BY <3>1, <3>2
  <2>2. absent' \in [Procs -> SUBSET Paths]
    BY DEF Inv, TypeOK
  <2>3. stays' \in [Paths -> Ids \cup {None}]
    BY DEF Inv, TypeOK
  <2> QED BY <2>1, <2>2, <2>3 DEF Inv, TypeOK
<1>2. GoodInv'
  BY DEF Inv, GoodInv, Holding
<1>3. WholeInv'
  BY DEF Inv, WholeInv
<1>4. StaysInv'
  <2> SUFFICES ASSUME ~overlap PROVE StaysInv'
    BY DEF StaysInv
  <2>1. \A p \in Paths : /\ stays'[p] # None => stays'[p] = stays[p] /\ disk'[p] # Gone
                         /\ \A s \in Procs : Holding(s) /\ p \notin absent'[s] =>
                                p \notin absent[s] /\ disk'[p] # Gone
    BY DEF Inv, TypeOK, Holding
  <2>2. \A s \in Procs : Holding(s)' <=> Holding(s)
    BY DEF Holding
  <2>3. StayingFilesKeepTheirIds'
    BY <2>1 DEF Inv, StaysInv, StayingFilesKeepTheirIds
  <2>4. /\ \A s, t \in Procs : pc'[s] # "idle" /\ pc'[t] # "idle" => s = t
        /\ \A s \in Procs : pc'[s] \in {"walk", "commit"} => mine'[s] = registry'
    BY DEF Inv, StaysInv
  <2>5. \A p \in Paths : stays'[p] # None =>
                /\ disk'[p] # Gone
                /\ Carries(registry', p, stays'[p])
                /\ \A s \in Procs : Holding(s)' => Carries(mine'[s], p, stays'[p])
    BY <2>1, <2>2 DEF Inv, StaysInv
  <2>6. \A s \in Procs, p \in Paths :
            Holding(s)' /\ p \notin absent'[s] /\ At(mine'[s], "file", p) # {} => disk'[p] # Gone
    BY <2>1, <2>2
  <2> QED BY <2>3, <2>4, <2>5, <2>6 DEF StaysInv
<1> QED BY <1>1, <1>2, <1>3, <1>4 DEF Inv

LEMMA LoadInv ==
    ASSUME Inv, NEW s \in Procs, Load(s)
    PROVE  Inv'
<1> USE DEF Load, files
<1>1. TypeOK'
  BY DEF Inv, TypeOK
<1>2. GoodInv'
  BY DEF Inv, TypeOK, GoodInv, Holding
<1>3. WholeInv'
  BY DEF Inv, TypeOK, WholeInv
<1>4. StaysInv'
  <2> SUFFICES ASSUME ~overlap' PROVE StaysInv'
    BY DEF StaysInv
  <2>1. ~overlap /\ \A t \in Procs \ {s} : pc[t] = "idle"
    BY DEF Inv, TypeOK, Alone
  <2>2. pc'[s] = "walk" /\ mine'[s] = registry /\ \A t \in Procs \ {s} : pc'[t] = "idle"
    BY <2>1 DEF Inv, TypeOK
  <2>3. StayingFilesKeepTheirIds'
    BY <2>1 DEF Inv, StaysInv, StayingFilesKeepTheirIds
  <2> QED BY <2>1, <2>2, <2>3 DEF Inv, StaysInv, Holding
<1> QED BY <1>1, <1>2, <1>3, <1>4 DEF Inv

LEMMA WalkInv ==
    ASSUME Inv, NEW s \in Procs, Walk(s)
    PROVE  Inv'
<1> USE DEF Walk, files
<1>1. Wellformed(mine[s]) /\ disk \in [Paths -> Contents \cup {Gone}]
  BY DEF Inv, TypeOK
<1>2. mine'[s] = Records(mine[s]) /\ \A t \in Procs \ {s} : mine'[t] = mine[t]
  BY DEF Inv, TypeOK
<1>3. Wellformed(Records(mine[s])) /\ Good(Records(mine[s]), disk)
  BY <1>1, RecordsWellformed, RecordsSettled DEF Good, Refused
<1>4. TypeOK'
  BY <1>2, <1>3 DEF Inv, TypeOK
<1>5. /\ pc'[s] = "save" /\ from'[s] = disk /\ absent'[s] = {}
      /\ \A t \in Procs \ {s} : pc'[t] = pc[t] /\ from'[t] = from[t] /\ absent'[t] = absent[t]
  BY DEF Inv, TypeOK
<1>6. GoodInv'
  BY <1>2, <1>3, <1>5 DEF Inv, GoodInv, Holding
<1>7. WholeInv'
  BY <1>2, <1>5 DEF Inv, WholeInv
<1>8. StaysInv'
  <2> SUFFICES ASSUME ~overlap PROVE StaysInv'
    BY DEF StaysInv
  <2>1. mine[s] = registry /\ \A t \in Procs \ {s} : pc[t] = "idle"
    BY DEF Inv, StaysInv
  <2>2. \A t \in Procs : Holding(t)' => t = s
    BY <2>1, <1>5 DEF Holding
  <2>3. ASSUME NEW p \in Paths, stays[p] # None
        PROVE  disk[p] # Gone /\ Carries(registry, p, stays[p]) /\ Carries(mine'[s], p, stays[p])
    <3>1. disk[p] # Gone /\ Carries(registry, p, stays[p])
      BY <2>3 DEF Inv, StaysInv
    <3>2. Carries(Records(mine[s]), p, stays[p])
      BY <1>1, <2>1, <3>1, CarriedOn DEF Present
    <3> QED BY <1>2, <3>1, <3>2
  <2>4. \A p \in Paths : At(mine'[s], "file", p) # {} => disk[p] # Gone
    BY <1>1, <1>2, RecordCases DEF At, Present
  <2>5. StayingFilesKeepTheirIds'
    BY DEF Inv, StaysInv, StayingFilesKeepTheirIds
  <2>6. \A t, u \in Procs : pc'[t] # "idle" /\ pc'[u] # "idle" => t = u
    BY <2>1, <1>5
  <2>7. \A t \in Procs : pc'[t] \notin {"walk", "commit"}
    BY <2>1, <1>5
  <2> QED BY <2>2, <2>3, <2>4, <2>5, <2>6, <2>7 DEF StaysInv
<1> QED BY <1>4, <1>6, <1>7, <1>8 DEF Inv

\* A step of a scan on the files of the registry that leaves identities.json as it is.
LEMMA SavingKeepsStays ==
    ASSUME Inv, NEW s \in Procs, Holding(s), Holding(s)', pc'[s] # "commit",
           \A t \in Procs \ {s} : pc'[t] = pc[t],
           ~overlap => UNCHANGED registry,
           UNCHANGED <<disk, db, mine, absent, stays, overlap>>
    PROVE  StaysInv'
<1> SUFFICES ASSUME ~overlap PROVE StaysInv'
  BY DEF StaysInv
<1>1. \A t \in Procs : Holding(t)' <=> Holding(t)
  BY DEF Holding
<1>2. pc[s] # "idle" /\ pc'[s] \notin {"idle", "walk", "commit"}
  BY DEF Holding
<1>3. StayingFilesKeepTheirIds'
  BY DEF Inv, StaysInv, StayingFilesKeepTheirIds
<1>4. /\ \A t, u \in Procs : pc'[t] # "idle" /\ pc'[u] # "idle" => t = u
      /\ \A t \in Procs : pc'[t] \in {"walk", "commit"} => mine'[t] = registry'
  BY <1>2 DEF Inv, StaysInv
<1>5. \A p \in Paths : stays'[p] # None =>
            /\ disk'[p] # Gone
            /\ Carries(registry', p, stays'[p])
            /\ \A t \in Procs : Holding(t)' => Carries(mine'[t], p, stays'[p])
  BY <1>1 DEF Inv, StaysInv
<1>6. \A t \in Procs, p \in Paths :
          Holding(t)' /\ p \notin absent'[t] /\ At(mine'[t], "file", p) # {} => disk'[p] # Gone
  BY <1>1 DEF Inv, StaysInv
<1> QED BY <1>3, <1>4, <1>5, <1>6 DEF StaysInv

LEMMA CreateInv ==
    ASSUME Inv, NEW s \in Procs, Create(s)
    PROVE  Inv'
<1> USE DEF Create
<1>1. /\ pc[s] = "save" /\ pc'[s] = "write" /\ \A t \in Procs \ {s} : pc'[t] = pc[t]
      /\ handle'[s] = "temp" /\ \A t \in Procs \ {s} : handle'[t] = handle[t]
      /\ Holding(s) /\ \A t \in Procs : Holding(t)' <=> Holding(t)
  BY DEF Inv, TypeOK, Holding
<1>2. TypeOK'
  <2>1. FileOk(temp')
    BY NothingIsFine
  <2>2. crossed' \in BOOLEAN
    BY DEF Inv, TypeOK
  <2>3. \A t \in Procs : handle'[t] # "none" <=> pc'[t] \in {"write", "rename"}
    BY <1>1 DEF Inv, TypeOK
  <2>4. /\ handle' \in [Procs -> {"none", "temp", "place", "lost"}]
        /\ pc' \in [Procs -> {"idle", "walk", "save", "write", "rename", "commit"}]
    BY DEF Inv, TypeOK
  <2> QED BY <2>1, <2>2, <2>3, <2>4 DEF Inv, TypeOK, FileOk
<1>3. GoodInv'
  BY <1>1, NothingIsFine DEF Inv, GoodInv, FileOk
<1>4. WholeInv'
  <2>1. crossed' => overlap'
    <3> SUFFICES ASSUME NEW t \in Procs \ {s}, handle[t] # "none" PROVE overlap
      BY DEF Inv, WholeInv
    <3>1. pc[t] # "idle"
      BY DEF Inv, TypeOK
    <3> QED BY <1>1, <3>1 DEF Inv, StaysInv
  <2>2. ~crossed' => ~crossed /\ \A t \in Procs \ {s} : handle[t] = "none" /\ pc'[t] \notin {"write", "rename"}
    BY <1>1 DEF Inv, TypeOK
  <2> QED BY <1>1, <2>1, <2>2 DEF Inv, WholeInv
<1>5. StaysInv'
  BY <1>1, SavingKeepsStays
<1> QED BY <1>2, <1>3, <1>4, <1>5 DEF Inv

LEMMA WriteAllInv ==
    ASSUME Inv, NEW s \in Procs, WriteAll(s)
    PROVE  Inv'
<1>1. PICK file : /\ file = File("whole", mine[s], from[s]) \/ (file = Mixed /\ ~Untouched(s))
                  /\ Hold(s, file)
  BY DEF WriteAll
<1>2. /\ pc[s] = "write" /\ pc'[s] = "rename" /\ \A t \in Procs \ {s} : pc'[t] = pc[t]
      /\ Holding(s) /\ \A t \in Procs : Holding(t)' <=> Holding(t)
      /\ UNCHANGED <<disk, db, mine, edits, handle, from, absent, stays, overlap, crossed>>
  BY DEF WriteAll, Inv, TypeOK, Holding
<1>3. FileOk(file)
  BY <1>1, <1>2, FilesAreOk, NothingIsFine
<1>4. /\ FileOk(temp') /\ Wellformed(registry') /\ Good(registry', basis') /\ torn' \in BOOLEAN
      /\ basis' \in [Paths -> Contents \cup {Gone}]
      /\ handle[s] = "temp" => temp' = file /\ UNCHANGED <<registry, basis, torn>>
  BY <1>1, <1>3, HoldKeeps
<1>5. TypeOK'
  <2>1. \A t \in Procs : handle'[t] # "none" <=> pc'[t] \in {"write", "rename"}
    BY <1>2 DEF Inv, TypeOK
  <2>2. pc' \in [Procs -> {"idle", "walk", "save", "write", "rename", "commit"}]
    BY DEF Inv, TypeOK, WriteAll
  <2> QED BY <1>2, <1>4, <2>1, <2>2 DEF Inv, TypeOK, FileOk
<1>6. GoodInv'
  BY <1>2, <1>4 DEF Inv, GoodInv, FileOk
<1>7. WholeInv'
  <2> SUFFICES ASSUME ~crossed PROVE WholeInv'
    BY <1>2 DEF Inv, WholeInv
  <2>1. handle[s] = "temp" /\ \A t \in Procs \ {s} : handle[t] = "none" /\ pc'[t] \notin {"write", "rename"}
    BY <1>2 DEF Inv, TypeOK, WholeInv
  <2>2. Untouched(s)
    BY <1>2, <2>1 DEF Inv, WholeInv, Untouched
  <2>3. temp' = File("whole", mine[s], from[s]) /\ torn' = torn
    BY <1>1, <1>4, <2>1, <2>2
  <2> QED BY <1>2, <2>1, <2>3 DEF Inv, WholeInv
<1>8. StaysInv'
  <2>1. ~overlap => UNCHANGED registry
    BY <1>2, <1>4 DEF Inv, TypeOK, WholeInv
  <2> QED BY <1>2, <2>1, SavingKeepsStays
<1> QED BY <1>5, <1>6, <1>7, <1>8 DEF Inv

LEMMA ReplaceInv ==
    ASSUME Inv, NEW s \in Procs, Replace(s)
    PROVE  Inv'
<1> USE DEF Replace, InPlace
<1>1. /\ pc[s] = "rename" /\ pc'[s] = "commit" /\ \A t \in Procs \ {s} : pc'[t] = pc[t]
      /\ Holding(s) /\ \A t \in Procs : Holding(t)' <=> Holding(t)
  BY DEF Inv, TypeOK, Holding
<1>2. handle' \in [Procs -> {"none", "temp", "place", "lost"}]
      /\ \A t \in Procs : handle'[t] = "none" <=> t = s \/ handle[t] = "none"
  BY DEF Inv, TypeOK
<1>3. FileOk(temp) /\ FileOk(temp')
  BY FilesAreOk, NothingIsFine
<1>4. TypeOK'
  <2>1. \A t \in Procs : handle'[t] # "none" <=> pc'[t] \in {"write", "rename"}
    BY <1>1, <1>2 DEF Inv, TypeOK
  <2>2. pc' \in [Procs -> {"idle", "walk", "save", "write", "rename", "commit"}]
    BY DEF Inv, TypeOK
  <2> QED BY <1>2, <1>3, <2>1, <2>2 DEF Inv, TypeOK, FileOk
<1>5. GoodInv'
  BY <1>1, <1>3 DEF Inv, GoodInv, FileOk
<1>6. ~crossed => /\ temp = File("whole", mine[s], from[s])
                  /\ \A t \in Procs : handle'[t] = "none" /\ pc'[t] \notin {"write", "rename"}
  <2> SUFFICES ASSUME ~crossed PROVE /\ temp = File("whole", mine[s], from[s])
                                     /\ \A t \in Procs : handle[t] # "none" => t = s
    BY <1>2, <1>4 DEF TypeOK
  <2>1. handle[s] # "none"
    BY <1>1 DEF Inv, TypeOK
  <2> QED BY <1>1, <2>1 DEF Inv, WholeInv
<1>7. ~crossed => registry' = mine[s] /\ ~torn'
  <2> SUFFICES ASSUME ~crossed PROVE temp.records = mine[s] /\ temp.text = "whole"
    OBVIOUS
  <2> QED BY <1>6 DEF File
<1>8. WholeInv'
  BY <1>6, <1>7 DEF Inv, WholeInv
<1>9. StaysInv'
  <2> SUFFICES ASSUME ~overlap PROVE StaysInv'
    BY DEF StaysInv
  <2>1. registry' = mine[s] /\ \A t \in Procs \ {s} : pc'[t] = "idle"
    BY <1>1, <1>7 DEF Inv, StaysInv, WholeInv
  <2>2. StayingFilesKeepTheirIds'
    BY DEF Inv, StaysInv, StayingFilesKeepTheirIds
  <2>3. \A p \in Paths : stays'[p] # None =>
                /\ disk'[p] # Gone
                /\ Carries(registry', p, stays'[p])
                /\ \A t \in Procs : Holding(t)' => Carries(mine'[t], p, stays'[p])
    BY <1>1, <2>1 DEF Inv, StaysInv
  <2>4. \A t \in Procs, p \in Paths :
            Holding(t)' /\ p \notin absent'[t] /\ At(mine'[t], "file", p) # {} => disk'[p] # Gone
    BY <1>1 DEF Inv, StaysInv
  <2> QED BY <2>1, <2>2, <2>3, <2>4 DEF StaysInv
<1> QED BY <1>4, <1>5, <1>8, <1>9 DEF Inv

\* The id under which records show a file.
Shown(records, p) == {r.id : r \in {q \in records : q.kind = "file" /\ q.key = p}}

LEMMA CommitInv ==
    ASSUME Inv, NEW s \in Procs, Commit(s)
    PROVE  Inv'
<1> USE DEF files
<1>1. /\ pc'[s] = "idle" /\ mine'[s] = {} /\ Holding(s) /\ pc[s] = "commit"
      /\ \A t \in Procs \ {s} : pc'[t] = pc[t] /\ mine'[t] = mine[t] /\ from'[t] = from[t]
                               /\ absent'[t] = absent[t] /\ (Holding(t)' <=> Holding(t))
      /\ ~(Holding(s)')
  BY DEF Inv, TypeOK, Holding, Commit
<1>2. \A p \in Paths : stays'[p] = IF stays[p] = None /\ p \notin absent[s]
                                    THEN IF Shown(mine[s], p) = {} THEN None
                                         ELSE CHOOSE id \in Shown(mine[s], p) : TRUE
                                    ELSE stays[p]
  BY DEF Commit, Shown
<1>3. TypeOK'
  <2>1. \A p \in Paths : Shown(mine[s], p) \subseteq Ids
    BY DEF Inv, TypeOK, Wellformed, Shown
  <2>2. \A p \in Paths : stays'[p] \in Ids \cup {None}
    BY <1>2, <2>1 DEF Inv, TypeOK
  <2>3. stays' \in [Paths -> Ids \cup {None}]
    BY <2>2 DEF Commit
  <2> QED BY <2>3, NothingIsFine DEF Inv, TypeOK, Commit
<1>4. GoodInv'
  BY <1>1 DEF Inv, GoodInv, Commit
<1>5. WholeInv'
  BY <1>1 DEF Inv, WholeInv, Commit
<1>6. StaysInv'
  <2> SUFFICES ASSUME ~overlap PROVE StaysInv'
    BY DEF StaysInv, Commit
  <2>1. \A t \in Procs : pc'[t] = "idle"
    BY <1>1 DEF Inv, StaysInv
  <2>2. mine[s] = registry
    BY <1>1 DEF Inv, StaysInv
  <2>3. ASSUME NEW p \in Paths, stays'[p] # None
        PROVE  disk[p] # Gone /\ Carries(registry, p, stays'[p])
    <3>1. CASE stays[p] # None
      BY <1>2, <3>1 DEF Inv, StaysInv
    <3>2. CASE stays[p] = None
      <4>1. p \notin absent[s] /\ stays'[p] \in Shown(mine[s], p)
        BY <1>2, <2>3, <3>2
      <4>2. Carries(registry, p, stays'[p]) /\ At(mine[s], "file", p) # {}
        BY <2>2, <4>1 DEF Shown, Carries, At
      <4> QED BY <1>1, <4>1, <4>2 DEF Inv, StaysInv
    <3> QED BY <3>1, <3>2
  <2>4. StayingFilesKeepTheirIds'
    <3> SUFFICES ASSUME NEW p \in Paths, stays'[p] # None, NEW r \in At(db', "file", p)
                 PROVE  r.id = stays'[p]
      BY DEF StayingFilesKeepTheirIds
    <3>1. db' = registry
      BY <2>2 DEF Commit
    <3>2. PICK q \in At(registry, "file", p) : q.id = stays'[p]
      BY <2>3 DEF Carries
    <3>3. r = q
      BY <3>1 DEF Inv, TypeOK, Wellformed, At
    <3> QED BY <3>2, <3>3
  <2>5. \A t \in Procs : ~(Holding(t)')
    BY <2>1 DEF Holding
  <2>6. \A p \in Paths : stays'[p] # None =>
                /\ disk'[p] # Gone
                /\ Carries(registry', p, stays'[p])
    BY <2>3 DEF Commit
  <2> QED BY <2>1, <2>4, <2>5, <2>6 DEF StaysInv
<1> QED BY <1>3, <1>4, <1>5, <1>6 DEF Inv

LEMMA StopInv ==
    ASSUME Inv, NEW s \in Procs, Stop(s)
    PROVE  Inv'
<1>1. /\ pc'[s] = "idle" /\ mine'[s] = {} /\ ~(Holding(s)') /\ handle'[s] = "none"
      /\ \A t \in Procs \ {s} : pc'[t] = pc[t] /\ mine'[t] = mine[t] /\ from'[t] = from[t]
                               /\ absent'[t] = absent[t] /\ (Holding(t)' <=> Holding(t))
                               /\ handle'[t] = handle[t]
      /\ UNCHANGED <<disk, db, edits, stays, overlap, crossed>>
  BY DEF Stop, Inv, TypeOK, Holding
<1>2. /\ FileOk(temp') /\ Wellformed(registry') /\ Good(registry', basis') /\ torn' \in BOOLEAN
      /\ basis' \in [Paths -> Contents \cup {Gone}]
      /\ ~crossed => UNCHANGED <<registry, basis, torn>>
  <2>1. CASE UNCHANGED <<registry, torn, temp, basis>>
    BY <2>1, FilesAreOk DEF Inv, TypeOK, GoodInv
  <2>2. CASE pc[s] = "write" /\ Hold(s, Mixed)
    <3>1. ~crossed => handle[s] = "temp"
      BY <2>2 DEF Inv, TypeOK, WholeInv
    <3> QED BY <2>2, <3>1, HoldKeeps, NothingIsFine
  <2> QED BY <2>1, <2>2 DEF Stop
<1>3. TypeOK'
  <2>1. /\ handle' \in [Procs -> {"none", "temp", "place", "lost"}]
        /\ pc' \in [Procs -> {"idle", "walk", "save", "write", "rename", "commit"}]
        /\ DOMAIN mine' = Procs /\ from' \in [Procs -> [Paths -> Contents \cup {Gone}]]
        /\ absent' \in [Procs -> SUBSET Paths]
    BY NothingIsFine DEF Stop, Inv, TypeOK
  <2>2. \A t \in Procs : handle'[t] # "none" <=> pc'[t] \in {"write", "rename"}
    BY <1>1 DEF Inv, TypeOK
  <2>3. \A t \in Procs : Wellformed(mine'[t])
    BY <1>1, NothingIsFine DEF Inv, TypeOK
  <2> QED BY <1>1, <1>2, <2>1, <2>2, <2>3 DEF Inv, TypeOK, FileOk
<1>4. GoodInv'
  BY <1>1, <1>2 DEF Inv, GoodInv, FileOk
<1>5. WholeInv'
  <2> SUFFICES ASSUME ~crossed PROVE WholeInv'
    BY <1>1 DEF Inv, WholeInv
  <2>1. torn' = FALSE
    BY <1>2 DEF Inv, WholeInv
  <2>2. ASSUME NEW t \in Procs \ {s}, handle[t] # "none" PROVE temp' = temp
    <3>1. handle[s] = "none"
      BY <2>2 DEF Inv, WholeInv
    <3> QED BY <3>1 DEF Stop, Inv, TypeOK
  <2>3. \A t \in Procs \ {s} : pc'[t] \in {"write", "rename"} => handle[t] # "none"
    BY <1>1 DEF Inv, TypeOK
  <2> QED BY <1>1, <2>1, <2>2, <2>3 DEF Inv, WholeInv
<1>6. StaysInv'
  <2> SUFFICES ASSUME ~overlap PROVE StaysInv'
    BY <1>1 DEF StaysInv
  <2>1. StayingFilesKeepTheirIds'
    BY <1>1 DEF Inv, StaysInv, StayingFilesKeepTheirIds
  <2>2. registry' = registry
    BY <1>2 DEF Inv, WholeInv
  <2> QED BY <1>1, <2>1, <2>2 DEF Inv, StaysInv
<1> QED BY <1>3, <1>4, <1>5, <1>6 DEF Inv

LEMMA NextInv == Inv /\ [Next]_vars => Inv'
<1> SUFFICES ASSUME Inv, [Next]_vars PROVE Inv'
  OBVIOUS
<1>1. CASE \E p \in Paths : Write(p)
  <2>1. PICK p \in Paths, c \in Contents \cup {Gone} : Becomes([disk EXCEPT ![p] = c])
    BY <1>1 DEF Write
  <2>2. [disk EXCEPT ![p] = c] \in [Paths -> Contents \cup {Gone}]
    BY DEF Inv, TypeOK
  <2> QED BY <2>1, <2>2, BecomesInv
<1>2. CASE \E p, q \in Paths : Rename(p, q)
  <2>1. PICK p \in Paths, q \in Paths : Becomes([disk EXCEPT ![p] = Gone, ![q] = disk[p]])
    BY <1>2 DEF Rename
  <2>2. [disk EXCEPT ![p] = Gone, ![q] = disk[p]] \in [Paths -> Contents \cup {Gone}]
    BY DEF Inv, TypeOK
  <2> QED BY <2>1, <2>2, BecomesInv
<1>3. CASE \E s \in Procs : Load(s) \/ Walk(s) \/ Create(s) \/ WriteAll(s) \/ Replace(s) \/ Commit(s) \/ Stop(s)
  BY <1>3, LoadInv, WalkInv, CreateInv, WriteAllInv, ReplaceInv, CommitInv, StopInv
<1>4. CASE UNCHANGED vars
  <2> USE <1>4 DEF vars, files, history
  <2>1. TypeOK'
    BY DEF Inv, TypeOK
  <2>2. GoodInv'
    BY DEF Inv, GoodInv, Holding
  <2>3. WholeInv'
    BY DEF Inv, WholeInv
  <2>4. StaysInv'
    BY DEF Inv, StaysInv, StayingFilesKeepTheirIds, Holding
  <2> QED BY <2>1, <2>2, <2>3, <2>4 DEF Inv
<1> QED BY <1>1, <1>2, <1>3, <1>4 DEF Next

-----------------------------------------------------------------------------
(* The theorems.                                                           *)

\* The inductive invariant: who holds which records, and what they show.
THEOREM RegistryInvariant == Spec => []Inv
BY InitInv, NextInv, PTL DEF Spec

\* Every state of the registry is well typed, with one record for a key at most.
THEOREM TypeCorrect == Spec => []TypeOK
<1>1. Inv => TypeOK
  BY DEF Inv
<1> QED BY <1>1, RegistryInvariant, PTL

\* As long as no two scans saved it at once, identities.json can be read, for any
\* number of scans that overlap otherwise and stop anywhere.
THEOREM RegistryStaysWhole == Spec => []RegistryIsWhole
<1>1. Inv => RegistryIsWhole
  BY DEF Inv, WholeInv, RegistryIsWhole
<1> QED BY <1>1, RegistryInvariant, PTL

\* A scan of the tree the registry was made from gives out the ids it holds.
THEOREM StillnessKeepsIds == Spec => []StillTreeStillIds
<1>1. Inv => StillTreeStillIds
  <2> SUFFICES ASSUME Inv, basis = disk PROVE Records(registry) = registry /\ ~Refused(registry)
    BY DEF StillTreeStillIds
  <2>1. Wellformed(registry) /\ Settled(registry, disk) /\ disk \in [Paths -> Contents \cup {Gone}]
    BY DEF Inv, TypeOK, GoodInv, Good
  <2>2. ~Refused(registry)
    BY DEF Inv, GoodInv, Good, Refused
  <2> QED BY <2>1, <2>2, SettledIsStill
<1> QED BY <1>1, RegistryInvariant, PTL

\* A file that stays keeps the id it was shown under, if scans do not overlap,
\* whatever the others do and wherever a scan stops.
THEOREM StayingKeepsIds == Spec => []StayingFilesKeepTheirIds
<1>1. Inv => StayingFilesKeepTheirIds
  BY DEF Inv, StaysInv, StayingFilesKeepTheirIds
<1> QED BY <1>1, RegistryInvariant, PTL

\* A scan is refused only for a path used again or for two copies of a file gone.
THEOREM RefusalHasReason == Spec => []RefusedForReason
<1>1. Inv => RefusedForReason
  BY ReasonOfRefusal DEF Inv, TypeOK, GoodInv, Good
<1> QED BY <1>1, RegistryInvariant, PTL
=============================================================================
