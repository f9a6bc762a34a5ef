------------------------------- MODULE Journal -------------------------------
(***************************************************************************)
(* The durable event journal: .creature/journal.jsonl and its sibling      *)
(* journal.applied (context-store jsonl.rs), with the three kinds of       *)
(* process that write them: the resident service (events and markers), the *)
(* `ingest` command (events) and the `scan` command (a line of its own).   *)
(*                                                                         *)
(* A line is the event it parses as, or one of two wrecks: text that is    *)
(* not an event, and bytes that are not UTF-8.  The file is its terminated *)
(* lines and the unterminated text behind them.  An event or a marker is   *)
(* appended as one whole line in one O_APPEND write and synced; a crash    *)
(* (or a full disk) keeps a prefix of that line.  The line of `scan` is    *)
(* formatted straight into the file, piece by piece.                       *)
(*                                                                         *)
(* What every module has (initial states, steps, types) bears a J here, so  *)
(* that the proofs can extend this module beside Authority.                 *)
(***************************************************************************)
EXTENDS Naturals, Sequences, FiniteSets

CONSTANTS
    Events,     \* events that may be journalled, each with its own id
    Garbage,    \* text that does not parse as an event
    Split,      \* bytes cut inside a character: not UTF-8
    Nothing,    \* no unterminated text
    MaxTears,   \* bound on the writes cut short
    MaxForeign  \* bound on the lines `scan` appends

ASSUME JournalAssumption ==
    /\ Events \cap {Garbage, Split, Nothing} = {}
    /\ Garbage # Split /\ Garbage # Nothing /\ Split # Nothing
    /\ MaxTears \in Nat
    /\ MaxForeign \in Nat

VARIABLES
    lines,      \* journal.jsonl: the terminated lines
    tail,       \* and the text after the last newline
    marked,     \* journal.applied: the terminated lines that are an id
    markTail,   \* and the text after the last newline
    begun,      \* history: events whose append was started
    acked,      \* history: events whose append returned Ok
    markBegun,  \* history: events whose marker was started
    markAcked,  \* history: events whose mark_applied returned Ok
    tears,      \* writes cut short
    foreign,    \* lines `scan` started
    ended       \* and finished

journalVars == <<lines, tail, begun, acked>>
markVars    == <<marked, markTail, markBegun, markAcked>>
scanVars    == <<foreign, ended>>
jvars       == <<journalVars, markVars, tears, scanVars>>

Line == Events \cup {Garbage, Split}
Leftover == Line \cup {Nothing}

JTypeOK ==
    /\ lines \in Seq(Line)
    /\ tail \in Leftover
    /\ marked \subseteq Events
    /\ markTail \in Events \cup {Garbage, Nothing}
    /\ begun \subseteq Events /\ acked \subseteq begun
    /\ markBegun \subseteq Events /\ markAcked \subseteq markBegun
    /\ tears \in Nat /\ foreign \in Nat /\ ended \in Nat

JInit ==
    /\ lines = <<>> /\ tail = Nothing
    /\ marked = {} /\ markTail = Nothing
    /\ begun = {} /\ acked = {} /\ markBegun = {} /\ markAcked = {}
    /\ tears = 0 /\ foreign = 0 /\ ended = 0

-----------------------------------------------------------------------------
(* What a reader sees.                                                     *)

\* What text becomes when more is written behind it: an append never looks at
\* how the file ends.
Glue(old, new) ==
    IF old = Nothing THEN new ELSE IF Split \in {old, new} THEN Split ELSE Garbage

InFile(x) == tail = x \/ \E i \in DOMAIN lines : lines[i] = x

\* Mutant: lines that do not parse are skipped.
StatusSkips == IF InFile(Split) THEN "io" ELSE "ok"

\* read_all_with_findings: reading lines fails on bytes that are not UTF-8; of
\* text that is not an event only the last line may be, and only unterminated.
Status ==
    CASE InFile(Split)                                -> "io"
      [] \E i \in DOMAIN lines : lines[i] = Garbage   -> "corrupt"
      [] OTHER                                        -> "ok"

Entries    == {e \in Events : InFile(e)}
AppliedIds == marked \cup ({markTail} \cap Events)
Pending    == Entries \ AppliedIds

-----------------------------------------------------------------------------
(* Writing.                                                                *)

\* append: the service journals an event, or `ingest` does.
AppendEntry(e) ==
    /\ e \notin begun
    /\ lines' = Append(lines, Glue(tail, e))
    /\ tail' = Nothing
    /\ begun' = begun \cup {e}
    /\ acked' = acked \cup {e}
    /\ UNCHANGED <<markVars, tears, scanVars>>

\* Mutant: the file is opened truncating instead of appending.
TornAppendTruncates(e) ==
    /\ tears < MaxTears
    /\ e \notin begun
    /\ \E part \in {Garbage, Split, e} : tail' = part
    /\ lines' = <<>>
    /\ begun' = begun \cup {e}
    /\ tears' = tears + 1
    /\ UNCHANGED <<acked, markVars, scanVars>>

\* The process dies in append with a prefix of the line on disk: part of the
\* text, part of a character, or all of it but the newline.
TornAppend(e) ==
    /\ tears < MaxTears
    /\ e \notin begun
    /\ \E part \in {Garbage, Split, e} : tail' = Glue(tail, part)
    /\ begun' = begun \cup {e}
    /\ tears' = tears + 1
    /\ UNCHANGED <<lines, acked, markVars, scanVars>>

\* `scan` appends {"event":"scan",...}, which is no RuntimeEvent: writeln! hands
\* the formatter's pieces to the unbuffered file one by one ...
ForeignPiece ==
    /\ \/ foreign < MaxForeign /\ foreign' = foreign + 1
       \/ ended < foreign /\ foreign' = foreign
    /\ tail' = Glue(tail, Garbage)
    /\ UNCHANGED <<lines, begun, acked, markVars, tears, ended>>

\* ... the newline last, which ends whatever line is open by then.
ForeignEnd ==
    /\ ended < foreign
    /\ ended' = ended + 1
    /\ lines' = IF tail = Nothing THEN lines ELSE Append(lines, tail)
    /\ tail' = Nothing
    /\ UNCHANGED <<begun, acked, markVars, tears, foreign>>

\* Mutant: everything journalled so far is marked with it.
MarkAppliedAll(e) ==
    /\ e \in acked \ markBegun
    /\ marked' = marked \cup acked
    /\ markTail' = Nothing
    /\ markBegun' = markBegun \cup {e}
    /\ markAcked' = markAcked \cup {e}
    /\ UNCHANGED <<journalVars, tears, scanVars>>

\* Mutant: the marker is written without its newline.
MarkAppliedUnended(e) ==
    /\ e \in acked \ markBegun
    /\ markTail' = Glue(markTail, e)
    /\ markBegun' = markBegun \cup {e}
    /\ markAcked' = markAcked \cup {e}
    /\ UNCHANGED <<journalVars, marked, tears, scanVars>>

\* mark_applied: the service marks an event it has journalled and worked off.
MarkApplied(e) ==
    /\ e \in acked \ markBegun
    /\ marked' = marked \cup ({Glue(markTail, e)} \cap Events)
    /\ markTail' = Nothing
    /\ markBegun' = markBegun \cup {e}
    /\ markAcked' = markAcked \cup {e}
    /\ UNCHANGED <<journalVars, tears, scanVars>>

TornMark(e) ==
    /\ tears < MaxTears
    /\ e \in acked \ markBegun
    /\ \E part \in {Garbage, e} : markTail' = Glue(markTail, part)
    /\ markBegun' = markBegun \cup {e}
    /\ tears' = tears + 1
    /\ UNCHANGED <<journalVars, marked, markAcked, scanVars>>

JNext ==
    \/ \E e \in Events : AppendEntry(e) \/ TornAppend(e) \/ MarkApplied(e) \/ TornMark(e)
    \/ ForeignPiece
    \/ ForeignEnd

JSpec == JInit /\ [][JNext]_jvars

-----------------------------------------------------------------------------
(* What the journal promises.                                              *)

\* Whatever was torn and whoever else wrote, a read that succeeds leaves out no
\* event whose append returned: damage is reported, never skipped (jsonl.rs:
\* "reported rather than skipped").
NoSilentLoss == Status = "ok" => acked \subseteq Entries

\* A read that succeeds returns only events somebody journalled, and none twice:
\* a half-written line never passes for a record (jsonl.rs: "Replaying it as
\* though it parsed would fabricate an event that never happened").
NothingFabricated ==
    /\ Entries \subseteq begun
    /\ \A i, j \in DOMAIN lines : i # j => lines[i] # lines[j] \/ lines[i] \notin Events
    /\ \A i \in DOMAIN lines : lines[i] = tail => tail \notin Events

\* What a read that succeeds returns is what was journalled: all that was
\* acknowledged, nothing that was not written, nothing twice, through writes cut
\* short and the lines of `scan` (jsonl.rs:106-175).
ReadsAreFaithful == NoSilentLoss /\ NothingFabricated

\* Work nobody finished is handed back at the restart: an event whose marker was
\* never begun is pending in every read that succeeds.
UnmarkedStaysPending == Status = "ok" => acked \ markBegun \subseteq Pending

\* A journal that could be read before a write was cut short can be read after it,
\* unless the cut split a character.
CutLosesNothing ==
    [][tears' > tears /\ Status = "ok" /\ tail' # Split
         => Status' = "ok" /\ acked \subseteq Entries']_jvars

\* A write cut short costs at most one marker whose mark_applied returned: the
\* restart repeats no more work than the crashes account for (jsonl.rs: "A restart
\* must not reprocess work already applied").
CutCostsOneMarker == Cardinality(markAcked \ AppliedIds) <= tears
=============================================================================
