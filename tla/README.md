# TLA+ models of creature-context

TLA+ specifications of the Creature Context workspace (`crates/*`), the TLC
runs that check them on small instances, and TLAPS proofs of the properties that
hold for every value of the constants. Sources are named as in the repository;
`PROJECT.json` maps every definition to the lines it models.

    tlc -workers 2 -config resident_one.cfg MCResident.tla    # one run
    tlapm ResidentProofs.tla                                  # the proofs

## 1. The system

`creature-context run` is a resident daemon that keeps a derived picture (the
*Atlas*) of one or several source trees current: in a SQLite database
(`.creature/atlas.db`) and in `ATLAS.idx` files beside the sources. The other
commands (`scan`, `evidence`, `ingest`, `rebuild`, `permission`, ...) are
processes of their own that read and write the same files. There is no lock
between processes.

| component | state | operations | what makes it correct |
|---|---|---|---|
| watcher (`context-runtime/watcher.rs`) | mpsc channel of events | callback on the backend's thread, `try_recv` | no change is dropped unreported; own output never feeds back |
| coordinator (`coordinator.rs`) | pending events, applied ids | enqueue, settle, mark_applied, clear_pending | a batch stays until it was reconciled |
| service loop (`service.rs`) | one `WatchedRoot` per root | open, reconcile, drain, mark, tick | converges, comes to rest, survives failures and restarts; marks nothing early |
| durable journal (`context-store/jsonl.rs`) | `journal.jsonl`, `journal.applied` | append, mark_applied, read_all, pending | nothing acknowledged is lost unreported, nothing is fabricated, whatever was cut short |
| repository (`repository.rs`) | SQLite tables | replace_snapshot (one transaction), load_snapshot (three SELECTs) | every load is a snapshot somebody stored; no update is lost |
| projections (`projections.rs`) | root and folder `ATLAS.idx` | write_projections, atomic_write | never ahead of the database, never torn |
| semantic lane (`semantic.rs`, `context-model/lane.rs`, `context/admission.rs`) | none of its own | load, propose, admit, apply, replace | never overwrites newer facts; admits only what the gates allow |
| CLI writers (`context-cli/main.rs`, `commands/*`) | evidence file | scan, evidence, rebuild, ingest | commute with the daemon |
| index pipeline (`context-parsers/index.rs`, `enrich.rs`, `incremental.rs`) | parse cache | index_project_cached | an incremental index equals a full one |
| scanner and file identity (`context-core/scan.rs`) | identity registry | scan_project_with, reconcile_id | ids are unique and survive a rename |
| symbol identity (`identity.rs`) | none | reconcile_identity, apply_remap | ids stay unique, moved symbols keep theirs |
| sockets (`sockets.rs`) | socket resolutions | resolve_sockets | a hole means no provider |
| Green (`green/*`) | assessments | evaluate_snapshot, reconverge | incremental equals full; a gate never passes on weak proof |
| hierarchy, module map (`atlas/*`) | entity tree | from_entities, traversals | acyclic, scales nest |
| Orbit (`orbit/*`) | packet | compile_orbit, enforce_budget | within the budget, spine kept |
| authority (`authority/*`, `permissions.rs`, `commands/permission.rs`) | append-only ledger | append, supersede, evaluate | deny wins, superseded rules never decide |
| universe registry (`universe/registry.rs`) | galaxies, links | register, link, resolve, save, load | only linked galaxies resolve |
| project init (`project.rs`) | `.creature` files | init_project, load_identity | one identity per project |

**Interaction.** The backend's thread and the service thread share only the
mpsc channel of each root. Service thread, semantic lane (a blocking task the
loop awaits) and CLI processes share the files. The journal is written by the
service, by `ingest` and by `scan`; the service reads from it, at start-up, only
the applied markers.

**Hard behaviours.** Edits during a scan; dropped notifications; a
reconciliation that fails after any of its writes; a crash between any two
writes and the restart after it; writes cut short by a crash; processes that
interleave on the same files; caches and snapshots that are stale when used;
arithmetic of a packet that contains its own size. `PROJECT.json` lists each
hazard at its line with the property that covers it, or the reason none does.

## 2. The modules

### Mirror, Resident, MCResident, ResidentProofs

`Mirror` is the abstract specification of a derived copy: per root and per item
it holds a version the source has had and never goes back. Nothing is said of
how it is computed, and a publication need not be an atomic picture of the
source, because the scanner reads files one after another.

`Resident` is the daemon: `run_service_multi` with all it drives.

| in the module | in the code |
|---|---|
| `disk[r][f]` | the tree; content is the number of the edit that wrote it |
| `store`, `proj`, `folders` | what the committed snapshot, the root `ATLAS.idx` and the folders' `ATLAS.idx` show of file `f` |
| `journal`, `marks` | events in `journal.jsonl`, ids in `journal.applied` |
| `raw`, `chan` | the backend's queue, the watcher's channel |
| `pending`, `done` | `Coordinator::pending`, `Coordinator::applied` |
| `pc`, `cur`, `boot`, `todo`, `seen` | where the one service thread is: the root, whether it is at the start-up reconciliation, the files still to read or write, what the scan has read |
| `Unwatched` (constant) | source files the scanner reads and the watcher never speaks of: any path ending in `.tmp` or with a component `target`, `node_modules`, `.build` or `.git` (`watcher.rs:83-85`) |
| `Lost`, `Flagged` | the two ways a backend tells of lost notifications: an error, or an event of kind Other with the rescan flag, on which the callback returns (`watcher.rs:67`) |
| `current`, `untold`, `need` of an event | history: roots reconciled since the start, files whose last edit came to no more than a `Flagged`, the tree when the event was observed |

The actions follow the loop: `Open` per root, `BeginScan`/`ReadFile`/`Commit`/
`Project`/`WriteFolder`/`Reconciled` for one `reconcile_once_cached`, `Drain` per
event (journal, then enqueue), `Settle`, `MarkOne` per marker, `ClearPending`,
`Tick`. `TransientFailure` is the reconciliation's `Err` at any of its writes,
`BrokenRootFails` the root that fails every time, `JournalFailure` the errors the
loop propagates with `?`, `Crash` and `Shutdown` the end of the process. `Edit`,
`Callback` and `Ingest` run beside it.

Abstractions: the order of events in a channel is the order of their ids, so the
channel is a set; files are neither created nor deleted (a deletion is an edit
to the scanner); a folder holds one file; the parse, the identities and Green
are functions of the files and not modelled here; the semantic lane is in
`Symbols` and `Store`.

### Journal, MCJournal, DurableProofs

`Journal` is `jsonl.rs` at the level of lines: a line is the event it parses as,
text that does not parse (`Garbage`) or bytes that are not UTF-8 (`Split`).
`Glue` is what an append makes of an unterminated text: the new text alone if
there was none, a wreck otherwise, because `append_line` never looks at how the
file ends. `Status` and `Entries` are `read_all_with_findings`, `AppliedIds` and
`Pending` the other reads. `TornAppend` and `TornMark` are writes cut short; the
line of `scan` (`ForeignPiece`, `ForeignEnd`) is written piece by piece, so
others may land inside it. `Resident` uses the journal as two sets, which is
what it is as long as nothing is cut short. The specification's names bear a `J`
(`JInit`, `JNext`, `JSpec`, `JTypeOK`), as `Codec`'s bear a `C`, so that one module of
proofs can extend both.

### Index, MCIndex, IndexProofs

`Index` is `index_project_cached` with the parse cache a resident service keeps
from one reconciliation to the next.

| in the module | in the code |
|---|---|
| `disk[f]` | the text of file `f`, or `Gone` |
| `prints[f]` | the fingerprint the scan took of `f` (the text it read) |
| `cache[t]` | the `ParsedFile` cached under the fingerprint of text `t` |
| `parses[f]`, `index[f]` | the parse of `f` in the snapshot being made, in the published one |
| `quiet` | history: no file changed since the running index began |
| `raced`, `spoken` | history: texts that were edited away between their fingerprint and the end of the index; grammars a text was met under - both for as long as the cache keeps an entry of the text |

`Fingerprint` is the scan reading one file, `Retain` the cache's `retain_only`,
`Hit` and `Miss` the two arms of the enrichment loop (a miss reads the file a
second time), `Publish`/`Fail` how the index ends, `Restart` a new process with
an empty cache. The resolution of imported names over the published parses
(`Resolution`: a fit, an ambiguity, unresolved, no match) is `resolve_sockets` with
the humility pass after it.

`Trusted(f)` is the condition under which an entry for the text of `f` can be relied on:
no edit caught it between fingerprint and parse, and no file of another grammar had
it, since the cache began to keep it. Texts come back in every way they can: a file is
copied over another, an edit is undone, a deleted file restored.

Abstractions: files are visited in any order; only files with a grammar exist; a
text exports and imports sets of names, each once. The identities and Green
assessments computed on the way are in `Symbols` and `Rollup`.

### Store, MCStore, StoreProofs

`Store` is what the processes do to each other through the files they share:
`scan` (and the service's reconciliation, which is the same function),
`evidence`, a pass of the semantic lane, `rebuild`.

| in the module | in the code |
|---|---|
| `tree` | the content of the source tree; edits are numbered, the number stands for the snapshot id the scan computes |
| `db` | the rows of the database: id, entities (with evidence and the model's summaries), edges |
| `evidence` | `.creature/evidence.json`: records with the snapshot id they were made on and what they are recorded `on`: a file (or group), or a symbol |
| `idx`, `temp`, `handle` | the root `ATLAS.idx`, `.ATLAS.idx.tmp`, and by which name the file a process has open goes now |
| `pc`, `job`, `snap`, `kept` | where each process is and what it holds in memory |
| `quiet`, `crossed`, `overlap`, `recorded` | history the properties speak of |

Each statement that another process can get between is an action: the three
`SELECT`s of `load_snapshot`, the reading of the tree, `evidence.json` read and
written back, the one transaction of `replace_snapshot`, and creating, writing
and renaming the temporary file. A rename moves the file whoever wrote it, and
who has it open goes on writing it under its new name. `Stop` is a crash or an
error anywhere. A rebuild decodes the front part of a file as a smaller
snapshot, because the text has no end mark, and loses the model's summaries,
which come back as records the database does not store. `MergeEvidence` finds a place
for what was recorded on files and groups only (`Mergeable`): it runs before the
enrichment adds the symbols (`scan.rs:308`).

Abstractions: an edit never restores an earlier tree; `evidence.json` is replaced
in one step (two processes that write it at once, through one temporary file, are
`crossed`, of which nothing is promised); Green is in `Rollup`, identities in `Registry` and `Symbols`; a
summary is there or not.

### Registry, MCRegistry, RegistryProofs

`Registry` is how files, systems and planets get their ids: the identity registry
(`.creature/identities.json`) that carries them from one scan to the next.

| in the module | in the code |
|---|---|
| `disk[p]` | the content of the file at path `p`, or `Gone` |
| `registry`, `torn` | the records of `identities.json`, and whether it is not the text of a registry |
| `temp`, `handle[s]` | `.identities.json.tmp`, and by which name the file process `s` has open goes now |
| `db` | the ids of the published snapshot |
| `pc[s]`, `mine[s]` | where scanning process `s` is, and the `IdentityRecord`s it read (`walk`) or made (afterwards) |
| `basis`, `from`, `absent`, `stays`, `overlap`, `crossed` | history: the tree behind the registry and behind a scan in hand, files gone since, the id a file that stayed was shown under, two scans at once, two saves at once |

`Load` reads the registry, `Walk` is the rest of `scan_project_with` up to the
hierarchy's check: ids by `reconcile_id` (the record at the path, else the one
record of that kind and content whose path is gone, else `stable_id` of the
path), first for files, then for the groups, whose content is the ids of their
files. `Create`, `WriteAll` and `Replace` save the registry through a temporary file
of a fixed name, so that overlapping scans may write into each other's text or rename
it; a registry that cannot be read fails the next `Load`. `Commit` replaces the database,
`Stop` is an error or a crash anywhere. `Write` and `Rename` change the tree at any moment.

Abstractions: a walk is one step (that the tree moves under it is `Resident`'s
subject); hashes do not collide, so an id is the kind and path it was derived
from; the limits that cut a walk short are left out.

### Symbols, MCSymbols, SymbolsProofs

`Symbols` is what becomes of the declarations in files from one index to the
next, and of what a model says of them in between.

| in the module | in the code |
|---|---|
| `text[f]` | the declarations of file `f`, by place, in the order of the parse; `Line` says which line a place is on, and several may share one |
| `stored` | the symbols in the database, with their summaries |
| `draft` | the symbols of an index that was refused |
| `inferred` | relationships and project summaries of the model's in the database |
| `garbled` | files that cannot be read or parsed at present |
| `thing` of a declaration | history: tells declarations apart whatever they are called and wherever they stand |
| `still`, `touched`, `muddled` | history: indexes since the last edit, and in which files more than one name changed at once or two of a kind shared a name |

`Index` is `index_project_cached` from the parse on: `Parsed` gives fresh ids made of
file, name and line (`Fresh`), the same to two declarations of one name on one line;
`reconcile_identity` matches by name and kind (`Moved`), then by construct where that leaves one
candidate (`Renamed`), and carries the summaries; `apply_remap` changes the ids in one pass over
a map in which a later entry for an id overwrites an earlier one (`Remaps`,
`Overwrites`); the hierarchy refuses two entities of one id. Edits write, drop and rename
declarations and shift them along the places (`Shift`), onto one line and apart. `Lane` is a pass of
the semantic lane: `work_items` in the order of the database up to the budget,
any answers, `admit` with its reasons, and the application. `Answered` is a pass
in which the model answers well whatever it can; it exists for fairness only.

Abstractions: files keep their paths (`Registry` has the others); a hash is an
order of the ids and does not collide; a summary is the thing it was written of.

### Rollup, MCRollup, RollupProofs

`Rollup` is Green: `evaluate_snapshot` entity by entity in its order, `reconverge`
with its list of work, and what changes the facts they judge by.

| in the module | in the code |
|---|---|
| `entities`, `snapshot` | the hierarchy in hand and its id |
| `facts` | evidence, relationships, sockets and contradictions of each entity |
| `recorded` | `.creature/evidence.json` |
| `green`, `draft` | the assessments in the snapshot, and those made so far |
| `queue`, `moved`, `mode` | `reconverge`'s list of work and report; which of the two runs |
| `dirty`, `sound` | history: who is judged by other facts than it was; whether the last full evaluation took children first |

`Edit`, `Rescan` and `EvidenceCommand` are followed by a full evaluation as the
code does; `Observe`, `Contradict` and `Reconcile` are what a caller of `reconverge`
may have changed (`Contradict` records a contradiction under an id of its own).
`from_entities` is the hierarchy with its checks. `HeardBy` says whom an entity's
failure reaches: those above it that are judged after what they contain, which a file with
symbols is not (an index lists symbols after their file, and both are of one scale).

Abstractions: the six axes are judged by the same three tables as in the code, the
reasons are wording; a floor of proof is given by the policy.

### Orbit, MCOrbit, OrbitProofs

`Orbit` is `compile_orbit`: `Ask` is the request, the starts and the zoom, `Visit` one
turn of the walk's loop, `Select` the selection and the comparison, `Omit` one turn
of `enforce_budget`'s loop, `Deliver` and `Refuse` its ends. `AskAgain` is the caller
who returns with the budget a refusal named (`budget` is the request's at first, then that). The
estimate of an item depends on the estimate written in it the time before, as in the code
(`Estimate`), so it grows by the digits the first pass put in. What the code sorts is a
sequence in the order it sorts by (`InOrder`, `Ascending`, `ById`), what it sums a
`Total`, what it enters unless something is there a `FirstOf`. `Settled` is what
`settle_estimates` adds up; it is not the cost of the packet, which also carries the
comparison, the uncertainties, the task and the reasons of the selection (see the
divergences), and no property takes it for that.

What a database may hold is a finite tree of entities whose parents are never of a
finer scale (the hierarchy refuses any other), and finitely many relationships with ids of
their own (the table's primary key). Where a relationship ends is not assumed: the code's own
writers join entities, but the lane stores what a model proposes as it is
(`lane.rs:83`), so an end may be the id of nothing.

Abstractions: a text is the number of tokens it takes (`Cost`, `Digits`), the words of
a task are the number of them an entity matches; rings, reasons and the digest
are wording.

### Authority, MCAuthority, DurableProofs

`Authority` is the ledger (`rules`, `supersessions`, `uses`) and the matcher. `Record`
and `RecordUse` are single transactions; `permission supersede` reads (`ReadRule`)
and writes (`Supersede`) in two, so commands interleave between them and may
choose an id that is taken (`GiveUp`). `resource_matches` is the matcher's
recursion over two slices, kept as the places of the path from which the rest of the
pattern matches; `evaluate` is its answer at the present time.

Abstractions: subject and scope are carried and never read by the code; several
actions would behave alike.

### Codec, MCCodec, DurableProofs

`Codec` is the tree of `ATLAS.idx` files and `rebuild`.

| in the module | in the code |
|---|---|
| `tree`, `goals` | the files there are, what `PURPOSE.md` states |
| `db` | the rows of the database |
| `idx[d]` | the `ATLAS.idx` in directory `d`: its scope, its snapshot, its lines |
| `wrote`, `altered` | history: the snapshot the root's file was written from, if not one that came out of an altered root; whether the database came out of a root others had changed |
| `edits`, `touches` | edits of the tree, changes others made to the root's file, so far |

A line is a record of what it says. `encode_atlas_idx` and `decode_atlas_idx` are
translated line kind by line kind, in both scopes, with what each leaves out:
evidence without its message, a colour without its reasons, a summary that comes
back as a context record. What an entity has or has not (a summary, an inferred
one, a span, a protected decision, an uncertainty) is a member of `says` or is not. Of
the order of a snapshot one thing shows in a file, which group of those that may stand for the
root comes last, and a snapshot keeps it as `top`: the order in which the scan found them
at first, that of their names after a load. `snapshot_with_inferred_parents` and
`write_projections` decide which directories get a file and where its pointers
lead. `Scan` is a reconciliation, `Lane` a pass that adds a summary, `Lose` the
deletion of the database, `Rebuild` the command with its refusals, `Touch` others
who change the root's file: an older version that left a folder's text there, an editor or a
merge that takes any one line out or puts one in (`Foreign`: of a kind this version does not
know, one that cannot be read, an import, an entity's line out of another folder's
file). `Agree` compares two texts by the lines that reach the database, and `Untouched` says
that the root's are those `wrote` was written as.

What survives a rebuild (`Surviving`): every entity with its place and identity, every relationship,
every socket with its fit or hole, every colour. What does not: summaries, purpose, protection,
uncertainty, spans, the evidence of relationships, the reasons of colours and the proof they ask
for, the fingerprint and message of evidence, the snapshot a colour or a socket names, and when a
socket was observed.

Abstractions: fields come back as they were written (`escape.rs`); one name is
exported and imported; the whole tree is written in one step (its failure half-way is
`Resident`'s subject, its races `Store`'s); an entity is Red or not known, which is
what its sockets make of it before anything was verified.

### How the modules compose

Each module takes from the others what they promise. `Resident` uses
`Journal`'s two sets and `Mirror` three times over, by `INSTANCE`. `Store` has the
reconciliation of `Resident` as one of its processes and gives `Codec` and `Rollup`
a database that changes in one step. `Index` gives `Symbols` the parses,
`Registry` the files' ids; `Symbols` refuses an index by the rule that `Rollup`
(`from_entities`) has in full. `Rollup` computes the colours `Codec` writes, and
`Orbit` reads the hierarchy and the relationships all of them leave.

## 3. The runs

| run | bounds | shows |
|---|---|---|
| `resident_one` | 1 root, 2 files, one of which the watcher drops; 2 edits after the first contents, 2 faults, 2 events | safety of the daemon and the three refinements of `Mirror` |
| `resident_live` | 2 roots, 1 file, first root broken, 2 edits after the first contents, 1 fault, 3 events, no ingest | convergence and rest under fairness, though one root can never be reconciled |
| `journal_all` | 3 events, 2 cuts, 1 foreign line | safety of the reader under cuts and interleaved writers; a torn marker costs one marker |
| `index_all` | 3 files in 2 languages, 4 texts that come back, 3 edits, 1 failure or restart | a cached index equals the full one wherever the cache can be trusted; holes are holes |
| `store_all` | 2 processes at a time, 4 in all, 2 edits, 1 stop | what the unlocked store still promises |
| `registry_all` | 3 files in 2 systems and 3 planets, any initial tree, 2 processes: 3 edits while scans do not overlap, 1 if they do (939K states up to symmetry) | what ids promise under edits, overlaps and stops; the registry stays readable unless two save at once |
| `symbols_all` | 2 files, 2 names, 4 places on 3 lines, 3 constructs, 2 edits, 1 symbol a pass | what ids and summaries of declarations promise, and when an index is refused; all that can be described is |
| `symbols_swap` | the same, 1 edit | a violation: two declarations of one name exchange their ids at a rescan of an unchanged tree |
| `rollup_all` | 3 hierarchies of 4 and 5 entities, 2 changes | an incremental evaluation equals the full one and ends; nothing is Green without proof of its own and of all it hears of |
| `orbit_all` | 9 entities, 8 relationships, some 2,400 requests | the walk is exact, the cuts are fair, the packet is coherent, the budget a refusal names is enough, every request is answered |
| `authority_all` | 3 ids, 2 patterns, 4 paths, 2 commands, 1 tick of the clock | denials stand, the ledger is a history, the matcher is a glob |
| `codec_all` | 5 files in 4 directories, any initial tree, 2 edits, or 1 change of the root's file by others | pointers lead where they should, a rebuild restores what can be restored |

**Bounds.** Two edits after the contents the files begin with are the least that lets an edit
race the reconciliation another one caused, of the same file or of another; two events are the least that let
one be observed while the other is in hand; two faults
are the least that let a failure follow a restart; two files the least that give a
snapshot that never was (one file old, one new). In `Index`, three files let one
import what two others may provide, and the
four texts are one that imports, one that exports, one that defines without
exporting and one that is not UTF-8. Any file may take any text at any moment: one edit
puts a text under another grammar or catches it between fingerprint and parse, a second
brings it back, a third changes something else. That the entries go wrong in these two ways
and in no other is what `IndexIsTrue` says; both happen within the bounds. In `Store`, three processes leave the
store in any state that overlapping can produce (one may stop half-way), and the
fourth is the undisturbed one the action properties speak of; what needs a fifth
is left to the proofs. In `Registry`, any
tree to begin with and three edits let a file move, its old path be used again and the file
come back, or two copies be made of a file that goes; when scans overlap one edit
(`MaxRaced`) lets them hold the records of two trees. The number of scans is not bounded.

In `Symbols`, two edits let a declaration move away from its line and another be
written there, and the texts at the start have two declarations of one name on one line:
the two reasons an index is refused for. With a budget of one, a pass
leaves something waiting; passes and indexes are not bounded. In `Rollup`, the
hierarchies are a planet with two files (siblings that change at once), a file with
its symbol (evaluated before and after it, as the list has them) and a circle;
two changes let a contradiction be settled, evidence be recorded before a rescan
and a finding meet an older one. In `Orbit`, the Atlas has systems one in the other,
a circle of four relationships, an inferred one, an inferred one to no entity, and a file that names itself;
budgets go from less than the envelope and the spine take to more than everything
does. In `Authority`, three ids let a rule be superseded twice or its replacement
be superseded; the two patterns have wild segments of either kind at the front, in the middle
and at the end. In `Codec`, directories lie three deep, any may
be without files of its own, one has the name of the group of the files at the top;
two edits let a folder go and come back, or go and leave its file behind; one change of
the root's file is enough to bring it into any state `Untouched` tells apart, and is tried at every
initial tree with no edit beside it (`MaxBeside = 0`), because what a scan wrote does not depend on how
the tree came about; scans, passes, losses and rebuilds are not bounded.

The proofs remove the bounds for the invariants they are about.

**Fairness.** Weak fairness of `Service` (one thread that the runtime keeps
scheduling) and of `Callback(r)` (the backend's thread) in `Resident`; of the two loops of Green
(`Running`) in `Rollup` and of `Compile` in `Orbit`, which are one function's too.
None for edits, faults, `Start`, `Index` of `Symbols`, the steps of `Index` or `ingest`: nobody
promises those (an index that failed is not retried until something changes).
The liveness properties of `Resident` are
conditional on the service staying up in the end (`<>[]Up`), because nothing in
the code restarts it. `Converges` needs `InitialMayFail = FALSE`: a start-up
reconciliation that fails is not retried. It leaves out a file whose last edit the watcher
never takes up (`Unheard`): one it drops by path, or one told of by no more than the rescan
flag. `LaneDrains` assumes passes in which the model
says something admissible of every symbol it is asked about (`Answered`); that is a
promise of the partner, not of this code, and without it the lane does not drain
(see the list below).

**Deadlock** is checked except where the bound on writes, edits, uses or processes
leaves nothing to do (`journal_all`, `store_all`, `authority_all`, `symbols_*`,
`rollup_all`), where a request has been answered (`orbit_all`), and where the registry
is torn, so that every scan fails (`registry_all`).

**Types.** The type invariants are proved, so most runs do not repeat them; those of
`Rollup`, `Symbols` and `Orbit` are checked as parts of `RecordedCounts`,
`RefusedForReason` and `PacketIsCoherent`. `Codec` states none: the shape of its
files and snapshots is part of `CodecInv`, which is proved.

### Divergences

`symbols_swap` shows one in a run. The others were met while modelling; the models
have the code's behaviour, and where a property would fail for one it names it as
an exception.

*Service.* A file whose path ends in `.tmp` or has a component `target`, `node_modules`,
`.build` or `.git` is dropped by the watcher (`watcher.rs:83-85`) although the scanner may index
it (`scan.rs:382-413`): an edit of it alone is not taken up. The overrun of a queue that
a backend reports by the rescan flag of an event of kind Other is dropped too (`watcher.rs:67`), though
`watcher.rs:9-11` says that "A watcher error becomes an `Overflow` event rather than being
swallowed: the stream may have dropped notifications, so truth must be re-established
by a rescan". `NoSilentStaleness` and `Converges` name both (`Unheard`). An ingested
event is never taken up by a running service
(`ingest.rs:9-10` against `service.rs:176`). An event that was journalled is not
replayed after a crash (`events.rs:5-6`, `service.rs:177-178` against `:114`). One
root's unwritable journal ends the service for all (`service.rs:141-143` against
`:179`). A root that keeps failing keeps the semantic lane idle for every root
(`service.rs:212`). Which root an idle tick serves depends on the clock.

*Journal.* A crash can corrupt the journal (`jsonl.rs:14-16` against `:106`): a line
cut short is glued to the next, one cut inside a UTF-8 character makes
`read_all` fail with an I/O error instead of the finding its comment promises, an
applied marker glued to a torn one is lost. The line `scan` appends is not one
the journal's reader accepts.

*Index.* The parse cache is keyed by content alone (`incremental.rs:62`), while a parse depends
on the grammar, chosen by extension, and is made from the file as it is at enrichment, not as it
was fingerprinted (`enrich.rs:111-123`). So a text that is copied or renamed into another language is
served the first one's parse, and a text edited while it is indexed has the parse of its
successor, for as long as some file has that text. `index.rs:44-46` says of the cache "The
result is identical — only the work done to reach it differs", `incremental.rs:13-14` that it "produces
exactly what a fresh parse produces". `IndexIsTrue` says that these two are the only ways to
differ (`Trusted`). The names in a file that is not UTF-8 are
taken as missing (`no_match`) though the file may well provide them.

*Store.* A scan merges recorded evidence before the enrichment adds the symbols (`scan.rs:308`), so
what was recorded on a symbol is left out of the database at every scan, although
`docs/architecture.md:38-39` says that records "are merged into the canonical graph during
scanning". A semantic pass loads the snapshot, waits for the model and replaces what a `scan` or
`evidence` command committed meanwhile (`semantic.rs:75`; `semantic.rs:11-12` says "there is no
concurrent writer to guard against"). A torn `load_snapshot` is stored back by `evidence`.

*Identities.* Two scans that save the registry at once write one temporary file, so
`identities.json` may be installed half-written, and then every scan fails; `RegistryIsWhole` leaves this
out (`crossed`). Ids of two kinds of things can coincide (`PURPOSE.md:12` against
`scan.rs:471`). An index is refused, the first one too, if two declarations of one name begin
on one line: the parser collects them all (`adapter.rs:416-440`), and their id is made of file, name and
line and nothing else (`enrich.rs:207`), with no look for duplicates (`:129-143`). `typedef struct Foo {...} Foo;` is
enough. It is refused for ever, too, once a new declaration is written at
the line where a moved one got its id. An id that is used again may change its kind and
carry another's summary. Declarations of a file named like a test are never
reconciled.

*Semantic lane.* With a budget of one, a symbol whose answers are never admitted
keeps all behind it waiting. Relationships of the declared plane are admitted (`admission.rs:68` turns
down the observed one only) and pushed into the snapshot, where they stay until the next index, and only
their source is checked for protection, not their target (`admission.rs:34-40`); `lane.rs:73-74` says of
an admitted one that "admission has already guaranteed it is on the inferred plane", `partner.rs:6-8`
that inference cannot "overwrite a protected human decision". Candidates left for review are counted and
dropped; the lane's relationships are gone at the next index. The database drops
context records.

*Green.* Evidence recorded again
keeps the older failure in memory until the next scan. A full evaluation orders by
scale alone, so a file is judged before its symbols, which are of the same scale, and can be Green above
a Red one, and everything above it with it, although `docs/architecture.md:35` says "Required
failures and insufficient proof roll upward" (`evaluator.rs:12`); this is the case after every
index. After a load the order depends on names. `GreenIsEarned` speaks of that case as well: it asks for
the proof of all an entity hears of (`HeardBy`), not of all below it. `Settled` is about full
evaluations that took children first (`sound`): after another one the incremental evaluation,
which does look at the symbols, would rightly differ.

*Orbit.* A packet may be larger than its budget: `settle_estimates` (`budget.rs:51-68`) adds up the selected
entities, the relationships, the spine and a fixed envelope, while the comparison
(`compiler.rs:132-152`), the uncertainty of every entity of the Atlas (`compiler.rs:175-179`), the task and the
reasons of the selection are in the packet and in no sum; `docs/architecture.md:21` calls the view
"token-bounded". No property says that a packet fits. A side of a comparison, or a focus, that was already selected as a root's
contents stays optional and may be cut (`compiler.rs:132-152`). Relationships may name
entities that were excluded as long as nothing was cut; the comparison quotes an
excluded side. A relationship a model proposed to an id that is no entity is in the packet
until something is cut. `minimum_required_tokens` of a delivered packet is its total. An
Adaptive request for an unknown id gives a packet with nothing but what such relationships lead to.

*Authority.* `evaluate` ignores subject and scope, "once" included; nothing outside tests calls
`evaluate`, `superseded_ids` or `record_use`. A rule may be superseded twice.
`record_use` takes any id.

*ATLAS.idx.* A round trip is not an identity (`idx_roundtrip.rs:53` says "encode/decode must be a true
identity", `portable_rebuild.rs:91` "deleting it must lose nothing"): `RebuildRestores` names
what survives. Evidence of relationships is lost because the decoder takes their ids for
entities' (`decode.rs:578` against `:609-620`); the snapshot that a colour or a socket names and the time a
socket was observed come back empty (`decode.rs:316`, `347-348`, `641-663`). A rebuild accepts a root from
which lines are missing, or into which others came, and succeeds (`rebuild.rs:76-99`: it refuses what it
cannot read, an empty snapshot, and rows of one key), because nothing in the file says how many lines there
were; `commands/rebuild.rs:6` says "a rebuild that silently restores a partial snapshot is the failure this
command exists to make impossible" (so do `rebuild.rs:7-10` and `tests/portable_rebuild.rs:9-11`).
`RebuildRestores` is about roots whose lines are those they were written with. Until the next scan after a rebuild
nothing is protected from the semantic lane (`semantic.rs:50`). The purpose
clauses a rebuild reads do not come back as constraints (`decode.rs:407-411`). The parent a top-level folder's
own file names is whichever group comes last at the root
(`projections.rs:104-124`), so one snapshot may be written in two ways. No folder's file
lists symbols, though `encode.rs:474-476` says deeper descendants live in their own folder's. A
directory called `root` is merged with the group of the files at the top and gets
no file. A folder below a directory without files of its own cannot be reached by pointers from
above. Files of folders that are gone stay. A rebuild opens, and so creates, the
database before it can fail (`rebuild.rs:52-53`).

## 4. The proofs

`ResidentProofs` proves, for every number of roots, set of files and bound:
`TypeOK`, `AppliedIsServed`, `NoSilentStaleness` and that `Resident` implements
`Mirror` three times over (`ChainOfMirrors`, the property `CopiesAreMirrors`). The
inductive invariant `ServiceInv` says what each
point of the thread may rely on: the four stages never overtake each other
(`StagesInv`); an event is older than the tree (`PastInv`); a file already read by
the scan is at least as new as the batch, and if it is stale again a notification
is on its way (`ScanInv`, kept through `ProjectInv` and `FoldersInv` to
`MarkInv`). Without the last, clearing the batch could not be shown to lose
nothing. `DoneInv` (the coordinator takes for applied only what is marked) is
proved beside it. One lemma per action; the refinements follow from lemmas on
what each of the four publishing actions may change.

`DurableProofs` is about what is on disk for good. Its first part proves that a read that succeeds returns what was journalled, all of it and
nothing else (`ReadsReturnTheJournal`, from `LossIsReported` and `ReadsAreGenuine`),
`UnmarkedStaysPending` and `CutLosesNothing`, for every set of events and bound. The invariant `Kept`
says that the line of an acknowledged event is still there, as itself or
swallowed by a wreck the reader reports. `CutCostsOneMarker` needs to know more of the
marker file: `LostInv` counts the markers a reader misses and says that text without an
end behind the last marker is a cut that has not cost its marker yet.

`IndexProofs` proves `IndexIsTrue` for any files, languages, texts and bounds, texts that come back
included. The invariant `TrustInv` has three parts. `PrintInv`: a file that no longer has the text its
fingerprint says was caught (`raced`), and its grammar is noted (`spoken`). `CacheInv`: the
entry of a text no edit caught is the parse of that text by a grammar it was met under.
`VisitedInv`: as long as no file changed, what the running index has taken up is true of every
trusted file. An entry of a trusted text can then only be the parse of its file, whatever
was edited, copied or undone before and however indexes failed. `HolesAreReal` follows
(`TrueHoles`): the parses the resolution looks at are those of the files, and a fit is
the one file that exports the name, which is where the tree has to be finite.

`StoreProofs` proves `WholeUnlessOverlap` and `EvidenceIsKept` for any number of
processes, edits and stops. `WholeInv` says that without an overlap one process
at most has the temporary file open, under that name, and that the file holds
exactly what that process has written so far; `EvidenceInv` that without a
crossing one `evidence` command at most has the file in hand, and what it holds is
what the file holds.

The two action properties of `Store` are about the process nobody disturbs.
`Undisturbed` follows it: what it has loaded is what the database holds, until it
replaces it; what it is about to store is no older, keeps the summaries and, for the
same tree, the evidence on it; afterwards the temporary file holds what it has written.
It rests on `JobInv` (what a process is started for decides where it goes), `SaneInv` (no
snapshot anywhere is of a tree there has not been, or has evidence nobody recorded),
`FiledInv` (nor has `evidence.json`) and `EvidenceInv`. Of the evidence a scan is only held to what is
recorded on files and groups, which is all it merges. The attempt showed that
`UndisturbedUndoesNothing` had promised too much, beyond the reach of the run's four
processes: a load torn by a scan in between carries the *older* tree's
evidence on the newer tree's id, `evidence` stores that, and the next scan, undisturbed, drops it. What
stays is the evidence recorded on the tree shown, which is what the property now says.

`RegistryProofs` proves every property of `registry_all` for any set of paths,
contents and processes. The lemmas on `reconcile_id` say where an id comes from
(`IdOrigin`), that a record at its path keeps its id (`IdIsKept`) and that records
of a scan have one record a key (`RecordsWellformed`); `SettledIsStill` says that a
scan of the tree the records came from gives back the records, and
`ReasonOfRefusal` splits on the origins of two equal ids. The invariant is
`GoodInv` (which tree the records are of, and that no two files of one id are among them, for the registry,
the temporary file and every scan in hand), `WholeInv` (unless two scans saved at once, one has the temporary
file open at most, and it holds what that scan has written) and `StaysInv` (without an overlap one
scan at most is under way, what it read is the registry, and what stays is carried
by every set of records that can be committed).

The second part of `DurableProofs` proves `HistoryIsWhole`, `DenialStands` and `MatcherIsGlob` for any ids, patterns,
paths and commands. The history needs `CommandsRead` (what a command has read is a row of
the ledger, as it was read), because the replacement is written from a copy that
may be old; `DenialStands` then follows from `LedgerAppends` (rows stay where they are, links are only
added) by a lemma on what decides. `MatcherIsGlob` holds for patterns and paths of
any length. It is an induction over the pattern from its end, and the library's induction theorems
take an operator, so it is written as the least place where the claim would fail: `Least` (any
numbers have a least, from the well-foundedness of finite sets) gives first that the matcher's
recursion has a solution (`MatcherExists`), then that the solution holds the places from which
the rest of the pattern covers the rest of the path (`MatcherFindsCovers`). The two steps are that an
ordinary segment takes exactly the next one (`CoversByOne`), and that `**` takes any number of them
(`CoversByAny`).

The third part proves `NavigationIsExact` and `RebuildRestores` for any files, in directories of any
depth. The invariant is `CodecInv`. Unless it came out of an altered root, the database holds a snapshot that is
`Whole` (`StoredInv`), and so does `wrote`: of a tree, with just the entities of its things, each in the place its id says, with
one socket at most, which bears the id of its entity, and with relationships that start at
entities. Every file is a text, and all but the root's are folders' (`TextsInv`). The
root's is a folder's that others put there, or bears the snapshot of `wrote`, whatever became of its lines
(`RootInv`). What is decoded from an altered one is still `Sound`: its things are among those there may be,
so a pass of the lane that writes it out again leaves every file a text (`LaneAlters`). A rebuild from a root that
is `Untouched` reads what `wrote` was written as: the decoder looks at the lines of each kind, and
`Agree` says these are the same. The text says which lines it has of each kind (`LinesByTag`), and what the decoder makes of them is
what survives of the snapshot (`SocketsBack`, `RoundTrip`), whole again
(`SurvivingWhole`). For the pointers, `Hung` says who the parent of a thing is once the folders have been
put in, and `FileSays` what the file of a folder points to: the folders right below it that have
files of their own. That the folders reached from there are those to which every folder on the way has one
(`Reaches`) is an induction along a path, written as the least place at which it would leave
the set; `WritesNavigate` puts it together, and `NavigationSame` keeps it over the steps
that write no folder's file. `NavigationIsExact` speaks of the least set closed under
pointers for this reason: it can be reasoned about, which a transitive closure computed by
a recursion cannot.

`RollupProofs` proves every safety property of `rollup_all` for any finite hierarchy, policy and
findings, with one lemma per action. An assessment depends on its entity's
facts and, of all others, only on its children's overall codes. `CleanInv` says that at
rest everyone who is not judged by other facts than it was (`dirty`) is as its facts and children
make it, which gives `Settled`. In the middle of `reconverge`, what is not consistent in that
sense is on the list, what is on the list lies above a change, and every code that moved is
reported (`WorkInv`); when the list is empty this is `CleanInv` again. During a full evaluation
that takes children first, what was done is right and is not returned to, because what it
depends on was done before (`FullInv`). `ValidInv` says that only a hierarchy that passed
its checks is ever evaluated. `GreenIsEarned` has an invariant of its own that holds in whatever order a full
evaluation takes entities (`FoundedInv`): an assessment is no better than the entity's own evidence, nor than
any child judged before the entity, a file listed before its symbols included. No induction over depth is needed
then: whoever is not Green has a parent that is not, if the parent hears of it
(`GreenComesFromBelow`), so the entities that are not Green form a set closed under the step from an entity
to such a parent, which is what `HeardBy` is the least of; whatever a Green entity hears of is therefore Green,
each by evidence of its own. `MovedIsHonest` reads the report off `WorkInv`, `RecordedCounts`
follows the evidence from the file to the facts.

`SymbolsProofs` proves every safety property of `symbols_all` for any files, names, order of ids
and answers of a model. Matching is one-to-one (`MatchedIs`): ranks tell namesakes
apart in the new list and in the old, so two declarations never get one stored symbol, and two
ids coincide only if two declarations of one name begin on one line, or one of the ids was made of its line
while the other was carried (`RefusedForReason`). `apply_remap` looks an id up in a map in which a later entry
has overwritten an earlier one: `LastRemap` shows that one entry comes last, and `RemapIs`
what the lookup returns. For
`ThingsKeepIds` the invariant `ClearInv` says that in a clear file what is stored and what
is written agree but for one declaration, written, dropped or renamed since;
`ClearMatch` shows that the first phase then matches all others, and the second the one that
is left or nothing. `IdsSettle` rests on `RestInv`: after an index of files that
no longer change, either the next one is refused, and so is every later one, or what is stored is
of the declarations there are. In the second case there are as many stored namesakes as written ones,
so ranks meet for each (an injection between sets of one size), nothing is refused, and
the ids come out in the order of lines; from then on matching leaves them where they are.
A pass of the lane in between makes no difference (`CopiesMatch`: matching takes no notice of
summaries).

`OrbitProofs` proves every safety property of `orbit_all` for any Atlas, request, budget and
table of costs. The model is made of recursions and folds (a sum, lists in an order, the
entities within a distance), and nothing can be said of one before it is shown to have
a solution: `SumExists`, `BallExists` and `Ranked` do so, each by a least counterexample, and
`TotalType`, `BallIs`, `Listed` and `AscendingLists` say what they are. The invariant has four
parts. `WalkInv`: the queue is ordered by distance, none in it more than one further than the next;
whatever is next to a visited entity is reached, no more than one further; so all that is nearer than
the next visit is reached at its true distance (`ReachedWithin`), and at the end this is
`ExactWalk`. `BudgetInv`: what is packed is what was offered but for what was omitted, with
the estimates its history gives it; what was omitted was optional and the lowest; the counts are those of what was
omitted. `RestInv` is about types and the comparison. `RetryInv`: the budget a caller comes back with is
`NeededTotal`, which depends on the request and the Atlas alone, since a refusal comes only when nothing
optional is left, and then what is in the packet is what no budget takes away, whatever the
first budget was. The attempt to prove `PacketIsCoherent` without assuming where
relationships end showed that it had promised too much: what it says now leaves out, before
a cut, the ends that are no entities.

The proofs rest on the constants' assumptions (`ResidentAssumption`,
`JournalAssumption`, `IndexAssumption`, `StoreAssumption`,
`RegistryAssumption`, `RollupAssumption`, `SymbolsAssumption`, `OrbitAssumption`, `CodecAssumption` and
the five of `Authority`), which TLC evaluates in the runs. Files and entities are finite sets where
something is counted or listed: `Files` in `IndexAssumption` and `SymbolsAssumption`, `Ids` in
`RollupAssumption`, the entities and relationships of a database in `OrbitAssumption`;
the files of `Codec` come in a sequence, the order of the scan.

**Model-checked only.** Liveness (`Converges`, `ComesToRest`,
`LaneDrains`, `EvaluationEnds`, `CompileEnds`): the prover does not reason about
fairness or `ENABLED`. All the other properties of the runs have a theorem, except the one
`symbols_swap` shows violated.

## 5. Plan

Done: all modules with their runs, and proofs of all their safety and action properties.

Next, in this order:

1. What a caller may build on beyond the listed properties: that an index of unchanged files is
   stored or refused once and for all, and that an undisturbed `evidence` keeps what
   `UndisturbedUndoesNothing` promises of a scan.
2. `Project`: `init_project` run twice and cut short; `Universe`: the registry's
   links and resolution.

The set of runs is kept small: one per module, a second where liveness needs another
instance, and one that shows a divergence. The other divergences are in the list above.

## 6. Not modelled

- *Project initialisation.* Every module starts from a project that has its
  identity. Two `init` commands at once and a crash between its writes are a
  hazard listed without a property.
- *Universe registry.* A map in memory, saved as one file; nothing but its tests calls it.
- *Parsers.* Their content is the grammar's.
- *Limits of a scan, summaries it words, text formats and quoting.* Data the properties do not tell apart.
- *Context records, sources and conflicts in `ATLAS.idx`.* No snapshot of this
  program has any; `encode_orbit_idx` is output.
- *The platforms' supervisors and file tags, the SQLite activity journal* (two single
  INSERTs nobody reads), *the whole-file stubs of `docs/stub-manifest.txt`.*

`PROJECT.json` lists each with its reason.
