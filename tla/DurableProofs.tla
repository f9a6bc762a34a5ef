--------------------------- MODULE DurableProofs ---------------------------
(***************************************************************************)
(* Proofs about what outlives a process: the event journal, for every set  *)
(* of events and every bound; the ledger of permissions, for every set of  *)
(* ids, rules, paths and commands; and the tree of ATLAS.idx files with    *)
(* the database rebuilt from it, for every set of files and directories of *)
(* any depth.                                                              *)
(*                                                                         *)
(* The journal's lines, the ledger's history and the tree's texts are      *)
(* invariants of the steps.  What the matcher computes for every pattern   *)
(* and path is an induction over the pattern from its end, and where the   *)
(* pointers of the tree lead one along a path; each is written as the      *)
(* least place where it would fail.                                        *)
(***************************************************************************)
EXTENDS Journal, Authority, Codec, FiniteSetTheorems, SequenceTheorems, TLAPS

\* Any numbers have a least among them: the induction the proofs below rest on.
LEMMA Least ==
  ASSUME NEW T \in SUBSET Nat, T # {}
  PROVE \E m \in T : \A k \in T : m <= k
<1> DEFINE Up == {0 .. m : m \in T}
<1>1. \A m \in T : IsFiniteSet(0 .. m) /\ 0 .. m \in SUBSET Nat
  BY FS_Interval
<1>2. Up \subseteq FiniteSubsetsOf(Nat) /\ Up # {}
  BY <1>1 DEF FiniteSubsetsOf
<1>0. IsWellFoundedOn(StrictSubsetOrdering(Nat), FiniteSubsetsOf(Nat))
  BY FS_StrictSubsetOrderingWellFounded
<1> HIDE DEF Up
<1>3. PICK x \in Up : \A y \in Up : ~ (<<y, x>> \in StrictSubsetOrdering(Nat))
  BY <1>0, <1>2, WFMin
<1> USE DEF Up
<1>4. PICK m \in T : x = 0 .. m
  OBVIOUS
<1>5. ASSUME NEW k \in T, k < m PROVE FALSE
  <2>1. 0 .. k \in Up /\ 0 .. k \subseteq x /\ 0 .. k # x
    <3>1. m \in x /\ m \notin 0 .. k
      BY <1>4, <1>5
    <3> QED BY <3>1, <1>4, <1>5
  <2>2. <<0 .. k, x>> \in StrictSubsetOrdering(Nat)
    BY <2>1, <1>1, <1>4 DEF StrictSubsetOrdering
  <2> QED BY <2>1, <2>2, <1>3
<1> QED BY <1>5
-----------------------------------------------------------------------------
(* The event journal.                                                      *)

\* A line that an append wrote stays, as itself or swallowed by a wreck: either
\* way a read returns the event or fails.
Kept ==
    \A e \in acked : \E i \in DOMAIN lines : lines[i] = e \/ lines[i] \in {Garbage, Split}

\* The markers a reader finds were all begun.
MarksInv == AppliedIds \subseteq markBegun

JournalInv ==
    /\ JTypeOK
    /\ Kept
    /\ MarksInv
    /\ NothingFabricated

\* What an append leaves: the new text alone, or a wreck.
LEMMA GlueFacts ==
  ASSUME NEW old \in Leftover, NEW new \in Line
  PROVE  /\ Glue(old, new) \in Line
         /\ Glue(old, new) \in {new, Garbage, Split}
         /\ Glue(old, new) \in Events => Glue(old, new) = new
<1>0. Garbage \notin Events /\ Split \notin Events
  BY JournalAssumption
<1>1. CASE old = Nothing
  <2>1. Glue(old, new) = new
    BY <1>1, JournalAssumption DEF Glue, Line
  <2> QED BY <2>1
<1>2. CASE old # Nothing /\ Split \in {old, new}
  <2>1. Glue(old, new) = Split
    BY <1>2 DEF Glue
  <2> QED BY <1>0, <2>1 DEF Line
<1>3. CASE old # Nothing /\ Split \notin {old, new}
  <2>1. Glue(old, new) = Garbage
    BY <1>3 DEF Glue
  <2> QED BY <1>0, <2>1 DEF Line
<1> QED BY <1>1, <1>2, <1>3

LEMMA GlueMark ==
  ASSUME NEW old \in Events \cup {Garbage, Nothing}, NEW new \in Events \cup {Garbage}
  PROVE  Glue(old, new) \in {new, Garbage}
  BY JournalAssumption DEF Glue

\* Appending keeps every line where it is.
LEMMA AppendFacts ==
  ASSUME JTypeOK, NEW x \in Line
  PROVE  /\ Append(lines, x) \in Seq(Line)
         /\ DOMAIN Append(lines, x) = 1 .. Len(lines) + 1
         /\ \A i \in DOMAIN lines : Append(lines, x)[i] = lines[i]
         /\ Append(lines, x)[Len(lines) + 1] = x
         /\ DOMAIN lines = 1 .. Len(lines) /\ Len(lines) \in Nat
  BY DEF JTypeOK

LEMMA JournalInit == JInit => JournalInv
<1> SUFFICES ASSUME JInit PROVE JournalInv
  OBVIOUS
<1>1. lines = <<>> /\ DOMAIN lines = {} /\ Nothing \notin Events
  BY JournalAssumption DEF JInit
<1>2. JTypeOK
  BY DEF JInit, JTypeOK, Leftover
<1>3. Kept /\ MarksInv /\ NothingFabricated
  BY <1>1 DEF JInit, Kept, MarksInv, NothingFabricated, Entries, InFile, AppliedIds
<1> QED BY <1>2, <1>3 DEF JournalInv

\* An append that completes keeps the invariant.
LEMMA WholeLine ==
  ASSUME JournalInv, NEW x \in Events, AppendEntry(x)
  PROVE  Kept' /\ MarksInv' /\ NothingFabricated'
<1> DEFINE g == Glue(tail, x)
           n == Len(lines) + 1
<1>0. /\ x \in Line /\ x \notin begun /\ tail' = Nothing /\ lines' = Append(lines, g)
      /\ UNCHANGED markVars /\ begun' = begun \cup {x} /\ acked' = acked \cup {x}
  BY DEF AppendEntry, Line
<1>1. g \in Line /\ g \in {x, Garbage, Split} /\ (g \in Events => g = x)
  BY <1>0, GlueFacts DEF JournalInv, JTypeOK
<1>2. /\ lines' \in Seq(Line) /\ DOMAIN lines' = 1 .. n
      /\ \A i \in DOMAIN lines : lines'[i] = lines[i]
      /\ lines'[n] = g
      /\ DOMAIN lines = 1 .. (n - 1) /\ n \in Nat \ {0}
  BY <1>0, <1>1, AppendFacts DEF JournalInv
<1> HIDE DEF g, n
<1>3. Kept'
  BY <1>0, <1>1, <1>2 DEF JournalInv, Kept
<1>4. MarksInv'
  BY <1>0 DEF JournalInv, MarksInv, AppliedIds, markVars
<1>5. \A i \in DOMAIN lines : lines[i] \in Events => lines[i] \in begun
  BY DEF JournalInv, NothingFabricated, Entries, InFile
<1>6. \A i \in DOMAIN lines' : i \in DOMAIN lines \/ i = n
  BY <1>2
<1>7. Nothing \notin Line
  BY JournalAssumption DEF Line
<1>8. NothingFabricated'
  <2>1. (Entries \subseteq begun)'
    BY <1>0, <1>1, <1>2, <1>5, <1>6, <1>7, JournalAssumption DEF Entries, InFile
  <2>2. \A i, j \in DOMAIN lines' : i # j => lines'[i] # lines'[j] \/ lines'[i] \notin Events
    BY <1>0, <1>1, <1>2, <1>5, <1>6 DEF JournalInv, NothingFabricated
  <2>3. \A i \in DOMAIN lines' : lines'[i] = tail' => tail' \notin Events
    BY <1>0, JournalAssumption
  <2> QED BY <2>1, <2>2, <2>3 DEF NothingFabricated
<1> QED BY <1>3, <1>4, <1>8

\* A newline turns the open text into a line, and changes nothing else.
LEMMA EndOfLine ==
  ASSUME JournalInv, ForeignEnd
  PROVE  Kept' /\ MarksInv' /\ NothingFabricated'
<1>1. UNCHANGED <<begun, acked, markVars>> /\ tail' = Nothing
  BY DEF ForeignEnd
<1>2. MarksInv'
  BY <1>1 DEF JournalInv, MarksInv, AppliedIds, markVars
<1>3. Nothing \notin Events
  BY JournalAssumption
<1>4. CASE tail = Nothing
  <2>1. lines' = lines
    BY <1>4 DEF ForeignEnd
  <2> QED BY <1>1, <1>2, <1>4, <2>1 DEF JournalInv, Kept, NothingFabricated, Entries, InFile
<1>5. CASE tail # Nothing
  <2> DEFINE n == Len(lines) + 1
  <2>1. tail \in Line
    BY <1>5 DEF JournalInv, JTypeOK, Leftover
  <2>2. /\ DOMAIN lines' = 1 .. n /\ DOMAIN lines = 1 .. (n - 1) /\ n \in Nat \ {0}
        /\ \A i \in DOMAIN lines : lines'[i] = lines[i]
        /\ lines'[n] = tail
    BY <1>5, <2>1, AppendFacts DEF ForeignEnd, JournalInv
  <2> HIDE DEF n
  <2>3. Kept'
    BY <1>1, <2>2 DEF JournalInv, Kept
  <2>4. \A i \in DOMAIN lines' : i \in DOMAIN lines \/ i = n
    BY <2>2
  <2>5. (Entries \subseteq begun)'
    BY <1>1, <1>3, <2>2, <2>4 DEF JournalInv, NothingFabricated, Entries, InFile
  <2>6. \A i, j \in DOMAIN lines' : i # j => lines'[i] # lines'[j] \/ lines'[i] \notin Events
    BY <2>2, <2>4 DEF JournalInv, NothingFabricated
  <2>7. NothingFabricated'
    BY <1>1, <1>3, <2>5, <2>6 DEF NothingFabricated
  <2> QED BY <1>2, <2>3, <2>7
<1> QED BY <1>4, <1>5

LEMMA TypeNext == JTypeOK /\ [JNext]_jvars => JTypeOK'
<1> SUFFICES ASSUME JTypeOK, [JNext]_jvars PROVE JTypeOK'
  OBVIOUS
<1>1. ASSUME NEW e \in Events, AppendEntry(e) PROVE JTypeOK'
  <2>1. Append(lines, Glue(tail, e)) \in Seq(Line)
    BY GlueFacts, AppendFacts DEF JTypeOK, Line
  <2> QED BY <1>1, <2>1 DEF AppendEntry, JTypeOK, Leftover, markVars, scanVars
<1>2. ASSUME NEW e \in Events, TornAppend(e) PROVE JTypeOK'
  <2>1. PICK part \in {Garbage, Split, e} : tail' = Glue(tail, part)
    BY <1>2 DEF TornAppend
  <2>2. tail' \in Leftover
    BY <2>1, GlueFacts DEF JTypeOK, Line, Leftover
  <2> QED BY <1>2, <2>2 DEF TornAppend, JTypeOK, markVars, scanVars
<1>3. ASSUME NEW e \in Events, MarkApplied(e) PROVE JTypeOK'
  <2>1. /\ marked' \subseteq Events /\ markTail' = Nothing
        /\ markBegun' \subseteq Events /\ markAcked' \subseteq markBegun'
    BY <1>3 DEF MarkApplied, JTypeOK
  <2> QED BY <1>3, <2>1 DEF MarkApplied, JTypeOK, journalVars, scanVars
<1>4. ASSUME NEW e \in Events, TornMark(e) PROVE JTypeOK'
  <2>1. PICK part \in {Garbage, e} : markTail' = Glue(markTail, part)
    BY <1>4 DEF TornMark
  <2>2. markTail' \in {part, Garbage}
    BY <2>1, GlueMark DEF JTypeOK
  <2>3. markBegun' \subseteq Events /\ markAcked' \subseteq markBegun' /\ tears' \in Nat
    BY <1>4 DEF TornMark, JTypeOK
  <2> QED BY <1>4, <2>2, <2>3 DEF TornMark, JTypeOK, journalVars, scanVars
<1>5. CASE ForeignPiece
  <2>1. tail' \in Leftover
    BY <1>5, GlueFacts DEF ForeignPiece, JTypeOK, Line, Leftover
  <2> QED BY <1>5, <2>1 DEF ForeignPiece, JTypeOK, markVars
<1>7. CASE ForeignEnd
  <2>1. lines' \in Seq(Line)
    BY <1>7, AppendFacts DEF ForeignEnd, JTypeOK, Leftover
  <2> QED BY <1>7, <2>1 DEF ForeignEnd, JTypeOK, Leftover, markVars
<1>6. CASE UNCHANGED jvars
  BY <1>6 DEF jvars, journalVars, markVars, scanVars, JTypeOK
<1> QED BY <1>1, <1>2, <1>3, <1>4, <1>5, <1>6, <1>7 DEF JNext

LEMMA JournalNext == JournalInv /\ [JNext]_jvars => JournalInv'
<1> SUFFICES ASSUME JournalInv, [JNext]_jvars PROVE JournalInv'
  OBVIOUS
<1>0. JTypeOK'
  BY TypeNext DEF JournalInv
<1>1. ASSUME NEW e \in Events, AppendEntry(e) PROVE JournalInv'
  BY <1>0, <1>1, WholeLine DEF JournalInv
<1>2. ASSUME NEW e \in Events, TornAppend(e) PROVE JournalInv'
  <2>1. tail' \in {e, Garbage, Split}
    BY <1>2, GlueFacts DEF TornAppend, JournalInv, JTypeOK, Line
  <2>2. Kept' /\ MarksInv'
    BY <1>2 DEF TornAppend, JournalInv, Kept, MarksInv, AppliedIds, markVars
  <2>3. e \notin begun /\ lines' = lines /\ begun' = begun \cup {e}
    BY <1>2 DEF TornAppend
  <2>4. \A i \in DOMAIN lines : lines[i] \in Events => lines[i] \in begun
    BY DEF JournalInv, NothingFabricated, Entries, InFile
  <2>5. NothingFabricated'
    BY <2>1, <2>3, <2>4, JournalAssumption DEF JournalInv, NothingFabricated, Entries, InFile
  <2> QED BY <1>0, <2>2, <2>5 DEF JournalInv
<1>3. ASSUME NEW e \in Events, MarkApplied(e) PROVE JournalInv'
  <2>1. Glue(markTail, e) \in {e, Garbage}
    BY GlueMark DEF JournalInv, JTypeOK
  <2>2. MarksInv'
    BY <1>3, <2>1, JournalAssumption DEF MarkApplied, JournalInv, MarksInv, AppliedIds
  <2> QED BY <1>0, <1>3, <2>2 DEF MarkApplied, JournalInv, Kept, NothingFabricated, Entries, InFile,
                                journalVars
<1>4. ASSUME NEW e \in Events, TornMark(e) PROVE JournalInv'
  <2>1. markTail' \in {e, Garbage}
    BY <1>4, GlueMark DEF TornMark, JournalInv, JTypeOK
  <2>2. MarksInv'
    BY <1>4, <2>1, JournalAssumption DEF TornMark, JournalInv, MarksInv, AppliedIds
  <2> QED BY <1>0, <1>4, <2>2 DEF TornMark, JournalInv, Kept, NothingFabricated, Entries, InFile,
                                journalVars
<1>5. CASE ForeignPiece
  <2>1. tail' \in {Garbage, Split} /\ tail' \notin Events
    BY <1>5, GlueFacts, JournalAssumption DEF ForeignPiece, JournalInv, JTypeOK, Line
  <2> QED BY <1>0, <1>5, <2>1 DEF ForeignPiece, JournalInv, Kept, MarksInv, AppliedIds,
                                NothingFabricated, Entries, InFile, markVars
<1>7. CASE ForeignEnd
  BY <1>0, <1>7, EndOfLine DEF JournalInv
<1>6. CASE UNCHANGED jvars
  BY <1>0, <1>6 DEF jvars, journalVars, markVars, scanVars, JournalInv, Kept, MarksInv, AppliedIds,
                    NothingFabricated, Entries, InFile
<1> QED BY <1>1, <1>2, <1>3, <1>4, <1>5, <1>6, <1>7 DEF JNext

\* The inductive invariant of the journal: types, every acknowledged event still in the
\* file, no marker nobody began.
THEOREM JournalInvariant == JSpec => []JournalInv
  BY JournalInit, JournalNext, PTL DEF JSpec

\* A read that succeeds leaves out no acknowledged event, whatever was torn.
THEOREM LossIsReported == JSpec => []NoSilentLoss
<1>1. JournalInv => NoSilentLoss
  <2> SUFFICES ASSUME JournalInv, Status = "ok", NEW e \in acked PROVE e \in Entries
    BY DEF NoSilentLoss
  <2>1. ~InFile(Split) /\ \A i \in DOMAIN lines : lines[i] # Garbage
    BY DEF Status
  <2>2. \E i \in DOMAIN lines : lines[i] = e
    BY <2>1 DEF JournalInv, Kept, InFile
  <2> QED BY <2>2 DEF JournalInv, JTypeOK, Entries, InFile
<1> QED BY <1>1, JournalInvariant, PTL

\* A read never returns an event nobody journalled, nor one twice.
THEOREM ReadsAreGenuine == JSpec => []NothingFabricated
<1>1. JournalInv => NothingFabricated
  BY DEF JournalInv
<1> QED BY <1>1, JournalInvariant, PTL

\* So a read that succeeds returns what was journalled.
THEOREM ReadsReturnTheJournal == JSpec => []ReadsAreFaithful
  BY LossIsReported, ReadsAreGenuine, PTL DEF ReadsAreFaithful

\* Every state of the journal is well typed.
THEOREM JournalTypeCorrect == JSpec => []JTypeOK
<1>1. JournalInv => JTypeOK
  BY DEF JournalInv
<1> QED BY <1>1, JournalInvariant, PTL

\* An event whose marker was never begun is handed back by every read that succeeds.
THEOREM UnfinishedIsPending == JSpec => []UnmarkedStaysPending
<1>1. JournalInv /\ NoSilentLoss => UnmarkedStaysPending
  BY DEF JournalInv, MarksInv, NoSilentLoss, UnmarkedStaysPending, Pending
<1> QED BY <1>1, JournalInvariant, LossIsReported, PTL

\* A write cut short, outside a character, leaves a readable journal readable and
\* loses nothing acknowledged.
THEOREM TornWriteLosesNothing == JSpec => CutLosesNothing
<1>1. ASSUME JournalInv, [JNext]_jvars, NoSilentLoss', tears' > tears, Status = "ok", tail' # Split
      PROVE  Status' = "ok" /\ acked \subseteq Entries'
  <2>1. lines' = lines /\ acked' = acked
    <3>1. tears \in Nat
      BY <1>1 DEF JournalInv, JTypeOK
    <3>2. ASSUME NEW e \in Events, AppendEntry(e) \/ MarkApplied(e) PROVE FALSE
      BY <1>1, <3>1, <3>2 DEF AppendEntry, MarkApplied
    <3>3. ~ForeignPiece /\ ~ForeignEnd /\ ~UNCHANGED jvars
      BY <1>1, <3>1 DEF ForeignPiece, ForeignEnd, jvars
    <3> QED BY <1>1, <3>2, <3>3 DEF JNext, TornAppend, TornMark, journalVars
  <2>2. \A i \in DOMAIN lines : lines[i] # Split /\ lines[i] # Garbage
    BY <1>1 DEF Status, InFile
  <2>3. Status' = "ok"
    BY <1>1, <2>1, <2>2 DEF Status, InFile
  <2> QED BY <1>1, <2>1, <2>3 DEF NoSilentLoss
<1>2. JournalInv /\ NoSilentLoss' /\ [JNext]_jvars
        => [tears' > tears /\ Status = "ok" /\ tail' # Split
              => Status' = "ok" /\ acked \subseteq Entries']_jvars
  BY <1>1
<1> QED BY <1>2, JournalInvariant, LossIsReported, PTL DEF JSpec, CutLosesNothing
-----------------------------------------------------------------------------
(* What a cut may cost.                                                    *)

\* Markers whose mark_applied returned and that a reader does not find.
Lost == markAcked \ AppliedIds

\* The text behind the last marker is there because a write was cut short; the next
\* marker may be lost to it, and it is gone then.
LostInv ==
    /\ IsFiniteSet(markAcked)
    /\ markTail \notin markAcked
    /\ IF markTail = Nothing THEN Cardinality(Lost) <= tears ELSE Cardinality(Lost) < tears

LEMMA LostInit == JInit => LostInv
<1> SUFFICES ASSUME JInit PROVE LostInv
  OBVIOUS
<1>1. markAcked = {} /\ markTail = Nothing /\ tears = 0 /\ Lost = {}
  BY DEF JInit, Lost
<1> QED BY <1>1, FS_EmptySet DEF LostInv

\* What mark_applied may lose is its own marker.
LEMMA LostMark ==
  ASSUME JTypeOK, LostInv, NEW e \in Events, MarkApplied(e)
  PROVE  LostInv'
<1>1. /\ e \in acked \ markBegun /\ markAcked' = markAcked \cup {e}
      /\ marked' = marked \cup ({Glue(markTail, e)} \cap Events) /\ markTail' = Nothing
      /\ tears' = tears
  BY DEF MarkApplied
<1>2. IsFiniteSet(markAcked) /\ IsFiniteSet(markAcked')
  BY <1>1, FS_AddElement DEF LostInv
<1>3. IsFiniteSet(Lost) /\ IsFiniteSet(Lost') /\ Cardinality(Lost) \in Nat /\ Cardinality(Lost') \in Nat
  BY <1>2, FS_Subset, FS_CardinalityType DEF Lost
<1>4. markTail' \notin markAcked'
  BY <1>1, JournalAssumption DEF JTypeOK
<1>5. tears \in Nat
  BY DEF JTypeOK
<1>6. CASE markTail = Nothing
  <2>1. Glue(markTail, e) = e
    BY <1>6 DEF Glue
  <2>2. Lost' \subseteq Lost
    BY <1>1, <1>6, <2>1, JournalAssumption DEF Lost, AppliedIds
  <2>3. Cardinality(Lost') <= Cardinality(Lost)
    BY <1>3, <2>2, FS_Subset
  <2> QED BY <1>1, <1>2, <1>3, <1>4, <1>5, <1>6, <2>3 DEF LostInv
<1>7. CASE markTail # Nothing
  <2>1. Lost' \subseteq Lost \cup {e}
    BY <1>1 DEF Lost, AppliedIds, LostInv
  <2>2. /\ IsFiniteSet(Lost \cup {e})
        /\ Cardinality(Lost \cup {e}) \in Nat /\ Cardinality(Lost \cup {e}) <= Cardinality(Lost) + 1
    <3> DEFINE L == Lost
    <3>1. IsFiniteSet(L) /\ Cardinality(L) \in Nat
      BY <1>3
    <3> HIDE DEF L
    <3>2. /\ IsFiniteSet(L \cup {e})
          /\ Cardinality(L \cup {e}) = IF e \in L THEN Cardinality(L) ELSE Cardinality(L) + 1
      BY <3>1, FS_AddElement
    <3>3. Cardinality(L \cup {e}) \in Nat /\ Cardinality(L \cup {e}) <= Cardinality(L) + 1
      BY <3>1, <3>2
    <3> QED BY <3>2, <3>3 DEF L
  <2>3. Cardinality(Lost') <= Cardinality(Lost) + 1
    <3>1. Cardinality(Lost') <= Cardinality(Lost \cup {e})
      BY <2>1, <2>2, FS_Subset
    <3> QED BY <1>3, <2>2, <3>1
  <2>4. Cardinality(Lost) < tears
    BY <1>7 DEF LostInv
  <2>5. Cardinality(Lost') <= tears'
    BY <1>1, <1>3, <1>5, <2>3, <2>4
  <2> QED BY <1>1, <1>2, <1>4, <2>5 DEF LostInv
<1> QED BY <1>6, <1>7

\* A cut leaves text behind, and costs no marker yet.
LEMMA LostTorn ==
  ASSUME JTypeOK, LostInv, NEW e \in Events, TornMark(e)
  PROVE  LostInv'
<1>1. /\ e \in acked \ markBegun /\ tears' = tears + 1 /\ UNCHANGED <<marked, markAcked>>
      /\ \E part \in {Garbage, e} : markTail' = Glue(markTail, part)
  BY DEF TornMark
<1>2. markTail' \in {e, Garbage}
  BY <1>1, GlueMark DEF JTypeOK
<1>3. markTail' # Nothing /\ markTail' \notin markAcked'
  BY <1>1, <1>2, JournalAssumption DEF JTypeOK
<1>4. Lost' \subseteq Lost
  BY <1>1 DEF Lost, AppliedIds, LostInv
<1>5. IsFiniteSet(Lost) /\ Cardinality(Lost) \in Nat
  BY FS_Subset, FS_CardinalityType DEF Lost, LostInv
<1>6. Cardinality(Lost') <= Cardinality(Lost) /\ Cardinality(Lost') \in Nat
  BY <1>4, <1>5, FS_Subset, FS_CardinalityType
<1>7. Cardinality(Lost) <= tears /\ tears \in Nat
  BY <1>5 DEF LostInv, JTypeOK
<1>8. Cardinality(Lost') < tears'
  BY <1>1, <1>5, <1>6, <1>7
<1> QED BY <1>1, <1>3, <1>8 DEF LostInv

LEMMA LostNext == JTypeOK /\ LostInv /\ [JNext]_jvars => LostInv'
<1> SUFFICES ASSUME JTypeOK, LostInv, [JNext]_jvars PROVE LostInv'
  OBVIOUS
<1>1. ASSUME UNCHANGED markVars, tears' = tears \/ tears' = tears + 1 PROVE LostInv'
  <2>1. IsFiniteSet(Lost) /\ Cardinality(Lost) \in Nat /\ tears \in Nat
    BY FS_Subset, FS_CardinalityType DEF Lost, LostInv, JTypeOK
  <2>2. UNCHANGED <<markTail, markAcked>> /\ Lost' = Lost
    BY <1>1 DEF markVars, Lost, AppliedIds
  <2> QED BY <1>1, <2>1, <2>2 DEF LostInv
<1>2. ASSUME NEW e \in Events, AppendEntry(e) \/ TornAppend(e) PROVE LostInv'
  BY <1>1, <1>2 DEF AppendEntry, TornAppend
<1>3. CASE ForeignPiece \/ ForeignEnd \/ UNCHANGED jvars
  BY <1>1, <1>3 DEF ForeignPiece, ForeignEnd, jvars
<1> QED BY <1>2, <1>3, LostMark, LostTorn DEF JNext

\* A write cut short costs at most one marker whose mark_applied returned, however many
\* markers and cuts there are (jsonl.rs: "A restart must not reprocess work already
\* applied").
THEOREM CutCostsAMarker == JSpec => []CutCostsOneMarker
<1>1. JSpec => []LostInv
  BY LostInit, LostNext, JournalTypeCorrect, PTL DEF JSpec
<1>2. JTypeOK /\ LostInv => CutCostsOneMarker
  <2> SUFFICES ASSUME JTypeOK, LostInv PROVE Cardinality(Lost) <= tears
    BY DEF CutCostsOneMarker, Lost
  <2>1. IsFiniteSet(Lost) /\ Cardinality(Lost) \in Nat /\ tears \in Nat
    BY FS_Subset, FS_CardinalityType DEF Lost, LostInv, JTypeOK
  <2> QED BY <2>1 DEF LostInv
<1> QED BY <1>1, <1>2, JournalTypeCorrect, PTL
-----------------------------------------------------------------------------
(* The ledger of permissions.                                              *)

\* What a command has read is a row of the ledger, as it was read.
CommandsRead ==
    \A c \in Commands : command[c].running =>
        \E i \in DOMAIN rules : rules[i] = command[c].existing

AuthorityInv ==
    /\ TypeOK
    /\ CommandsRead
    /\ HistoryIsWhole

LEMMA AuthorityInit == Init => AuthorityInv
<1> SUFFICES ASSUME Init PROVE AuthorityInv
  OBVIOUS
<1>1. rules = <<>> /\ DOMAIN rules = {} /\ supersessions = {} /\ uses = <<>>
  BY DEF Init
<1>2. TypeOK
  BY <1>1, BoundAssumption DEF Init, TypeOK
<1>3. CommandsRead
  BY DEF Init, CommandsRead, Idle
<1>4. HistoryIsWhole
  BY <1>1 DEF HistoryIsWhole
<1> QED BY <1>2, <1>3, <1>4 DEF AuthorityInv

\* Rows stay where they are when one is appended.
LEMMA RowsStay ==
  ASSUME NEW rule \in Rule, rules \in Seq(Rule), rules' = Append(rules, rule)
  PROVE  /\ rules' \in Seq(Rule)
         /\ DOMAIN rules = 1 .. Len(rules) /\ Len(rules) \in Nat
         /\ DOMAIN rules' = 1 .. Len(rules) + 1
         /\ \A i \in DOMAIN rules : rules'[i] = rules[i]
         /\ rules'[Len(rules) + 1] = rule
  OBVIOUS

\* A row with an id of its own, and the link it stands for, keep the history whole.
LEMMA HistoryGrows ==
  ASSUME TypeOK, HistoryIsWhole, NEW rule \in Rule,
         rules' = Append(rules, rule),
         rule.id \notin Taken,
         \/ rule.supersedes = NoId /\ supersessions' = supersessions
         \/ /\ supersessions' = supersessions \cup {<<rule.supersedes, rule.id>>}
            /\ \E i \in DOMAIN rules :
                 /\ rules[i].id = rule.supersedes
                 /\ rule.action = rules[i].action /\ rule.resource = rules[i].resource
                 /\ rule.expires = rules[i].expires /\ rule.decision # rules[i].decision
  PROVE  HistoryIsWhole'
<1> DEFINE n == Len(rules) + 1
<1>1. /\ DOMAIN rules = 1 .. Len(rules) /\ Len(rules) \in Nat /\ DOMAIN rules' = 1 .. n
      /\ \A i \in DOMAIN rules : rules'[i] = rules[i]
      /\ rules'[n] = rule
  BY RowsStay DEF TypeOK
<1>2. \A i \in DOMAIN rules : rules[i].id # rule.id
  BY DEF Taken
<1>3. \A i, j \in DOMAIN rules' : rules'[i].id = rules'[j].id => i = j
  <2> TAKE i, j \in DOMAIN rules'
  <2> HAVE rules'[i].id = rules'[j].id
  <2>1. CASE i = n /\ j # n
    BY <1>1, <1>2, <2>1
  <2>2. CASE i # n /\ j = n
    BY <1>1, <1>2, <2>2
  <2>3. CASE i # n /\ j # n
    BY <1>1, <2>3 DEF HistoryIsWhole
  <2> QED BY <2>1, <2>2, <2>3
<1>4. ASSUME NEW s \in supersessions'
      PROVE  \E i, j \in DOMAIN rules' :
               rules'[i].id = s[1] /\ rules'[j].id = s[2] /\ Replaces(j, i)'
  <2>1. CASE s \in supersessions
    <3>1. PICK i \in DOMAIN rules, j \in DOMAIN rules :
            rules[i].id = s[1] /\ rules[j].id = s[2] /\ Replaces(j, i)
      BY <2>1 DEF HistoryIsWhole
    <3>2. rules'[i] = rules[i] /\ rules'[j] = rules[j] /\ {i, j} \subseteq DOMAIN rules'
      BY <1>1
    <3>3. Replaces(j, i)'
      BY <3>1, <3>2 DEF Replaces
    <3> QED BY <3>1, <3>2, <3>3
  <2>2. CASE s \notin supersessions
    <3>1. s = <<rule.supersedes, rule.id>>
      BY <2>2
    <3>2. PICK i \in DOMAIN rules :
            /\ rules[i].id = rule.supersedes
            /\ rule.action = rules[i].action /\ rule.resource = rules[i].resource
            /\ rule.expires = rules[i].expires /\ rule.decision # rules[i].decision
      BY <2>2
    <3>3. rules'[i] = rules[i] /\ i < n /\ {i, n} \subseteq DOMAIN rules'
      BY <1>1
    <3>4. PICK j \in DOMAIN rules' : j = n
      BY <3>3
    <3>5. rules'[j] = rule /\ i < j
      BY <1>1, <3>3, <3>4
    <3>6. Replaces(j, i)'
      BY <3>2, <3>3, <3>5 DEF Replaces
    <3> QED BY <3>1, <3>2, <3>3, <3>5, <3>6
  <2> QED BY <2>1, <2>2
<1>5. ASSUME NEW j \in DOMAIN rules', rules'[j].supersedes # NoId
      PROVE  <<rules'[j].supersedes, rules'[j].id>> \in supersessions'
  <2>1. CASE j = n
    BY <1>1, <1>5, <2>1
  <2>2. CASE j # n
    <3>1. j \in DOMAIN rules /\ rules'[j] = rules[j]
      BY <1>1, <2>2
    <3> QED BY <1>5, <3>1 DEF HistoryIsWhole
  <2> QED BY <2>1, <2>2
<1> QED BY <1>3, <1>4, <1>5 DEF HistoryIsWhole

LEMMA RecordKeeps ==
  ASSUME AuthorityInv, NEW id \in Ids, NEW action \in Actions, NEW resource \in Resources,
         NEW decision \in Decisions, NEW expires \in Expiries,
         Record(id, action, resource, decision, expires)
  PROVE  AuthorityInv'
<1> DEFINE rule == [id |-> id, action |-> action, resource |-> resource,
                    decision |-> decision, expires |-> expires, supersedes |-> NoId]
<1>1. rule \in Rule /\ rules' = Append(rules, rule) /\ id \notin Taken
      /\ UNCHANGED <<supersessions, uses, command, clock>>
  BY DEF Record, Rule
<1>2. rules' \in Seq(Rule) /\ DOMAIN rules \subseteq DOMAIN rules'
      /\ \A i \in DOMAIN rules : rules'[i] = rules[i]
  BY <1>1, RowsStay DEF AuthorityInv, TypeOK
<1>3. TypeOK'
  BY <1>1, <1>2 DEF AuthorityInv, TypeOK
<1>4. CommandsRead'
  BY <1>1, <1>2 DEF AuthorityInv, CommandsRead
<1>5. HistoryIsWhole'
  BY <1>1, HistoryGrows DEF AuthorityInv
<1> QED BY <1>3, <1>4, <1>5 DEF AuthorityInv

LEMMA RecordUseKeeps ==
  ASSUME AuthorityInv, NEW id \in Ids, RecordUse(id)
  PROVE  AuthorityInv'
<1>1. /\ uses' \in Seq(Ids)
      /\ UNCHANGED <<rules, supersessions, command, clock>>
  BY DEF AuthorityInv, TypeOK, RecordUse
<1>2. TypeOK'
  <2>1. rules' \in Seq(Rule) /\ supersessions' \subseteq Ids \X Ids /\ clock' \in 0 .. MaxClock
    BY <1>1 DEF AuthorityInv, TypeOK
  <2>2. command' \in [Commands -> {Idle} \cup [running : {TRUE}, existing : Rule, new : Ids]]
    BY <1>1 DEF AuthorityInv, TypeOK
  <2> QED BY <1>1, <2>1, <2>2 DEF TypeOK
<1>3. CommandsRead' /\ HistoryIsWhole'
  BY <1>1 DEF AuthorityInv, CommandsRead, HistoryIsWhole, Replaces
<1> QED BY <1>2, <1>3 DEF AuthorityInv

LEMMA ReadRuleKeeps ==
  ASSUME AuthorityInv, NEW c \in Commands, NEW i \in DOMAIN rules, NEW new \in Ids,
         ReadRule(c, i, new)
  PROVE  AuthorityInv'
<1>1. rules[i] \in Rule
  BY DEF AuthorityInv, TypeOK
<1>2. TypeOK'
  BY <1>1 DEF AuthorityInv, TypeOK, ReadRule
<1>3. CommandsRead'
  BY DEF AuthorityInv, TypeOK, CommandsRead, ReadRule
<1>4. HistoryIsWhole'
  BY DEF AuthorityInv, HistoryIsWhole, Replaces, ReadRule
<1> QED BY <1>2, <1>3, <1>4 DEF AuthorityInv

LEMMA IdleKeeps ==
  ASSUME AuthorityInv, NEW c \in Commands, command' = [command EXCEPT ![c] = Idle],
         rules' \in Seq(Rule), DOMAIN rules \subseteq DOMAIN rules',
         \A i \in DOMAIN rules : rules'[i] = rules[i]
  PROVE  CommandsRead' /\ command' \in [Commands -> {Idle} \cup
                 [running : {TRUE}, existing : Rule, new : Ids]]
  BY DEF AuthorityInv, TypeOK, CommandsRead, Idle

LEMMA GiveUpKeeps ==
  ASSUME AuthorityInv, NEW c \in Commands, GiveUp(c)
  PROVE  AuthorityInv'
<1>1. TypeOK' /\ CommandsRead'
  BY IdleKeeps DEF AuthorityInv, TypeOK, GiveUp
<1>2. HistoryIsWhole'
  BY DEF AuthorityInv, HistoryIsWhole, Replaces, GiveUp
<1> QED BY <1>1, <1>2 DEF AuthorityInv

\* A command that runs has read a rule.
LEMMA RunningRead ==
  ASSUME TypeOK, NEW c \in Commands, command[c].running
  PROVE  command[c].existing \in Rule /\ command[c].new \in Ids
<1>1. command[c] \in {Idle} \cup [running : {TRUE}, existing : Rule, new : Ids]
  BY DEF TypeOK
<1>2. command[c] # Idle
  BY DEF Idle
<1>3. command[c] \in [running : {TRUE}, existing : Rule, new : Ids]
  BY <1>1, <1>2
<1> QED BY <1>3

\* A replacement is a rule, of the same shape and the other decision.
LEMMA ReplacementIsRule ==
  ASSUME NEW c \in Commands, command[c].existing \in Rule, command[c].new \in Ids
  PROVE  LET rule == Replacement(c)  old == command[c].existing
         IN  /\ rule \in Rule
             /\ rule.id = command[c].new /\ rule.supersedes = old.id
             /\ rule.action = old.action /\ rule.resource = old.resource
             /\ rule.expires = old.expires /\ rule.decision # old.decision
  BY DEF Replacement, Rule, Flipped, Decisions

LEMMA SupersedeKeeps ==
  ASSUME AuthorityInv, NEW c \in Commands, Supersede(c)
  PROVE  AuthorityInv'
<1> DEFINE old  == command[c].existing
           rule == Replacement(c)
<1>1. command[c].running
  BY DEF Supersede
<1>2. old \in Rule /\ command[c].new \in Ids
  BY <1>1, RunningRead DEF AuthorityInv
<1>3. /\ rule \in Rule
      /\ rule.id = command[c].new /\ rule.supersedes = old.id
      /\ rule.action = old.action /\ rule.resource = old.resource
      /\ rule.expires = old.expires /\ rule.decision # old.decision
  BY <1>2, ReplacementIsRule
<1>4. /\ rules' = Append(rules, rule) /\ rule.id \notin Taken
      /\ supersessions' = supersessions \cup {<<rule.supersedes, rule.id>>}
      /\ command' = [command EXCEPT ![c] = Idle] /\ UNCHANGED <<uses, clock>>
  BY <1>3 DEF Supersede, Insertable
<1>5. rules' \in Seq(Rule) /\ DOMAIN rules \subseteq DOMAIN rules'
      /\ \A i \in DOMAIN rules : rules'[i] = rules[i]
  BY <1>3, <1>4, RowsStay DEF AuthorityInv, TypeOK
<1>6. CommandsRead' /\ command' \in [Commands -> {Idle} \cup
         [running : {TRUE}, existing : Rule, new : Ids]]
  BY <1>4, <1>5, IdleKeeps
<1>7. <<rule.supersedes, rule.id>> \in Ids \X Ids
  BY <1>2, <1>3 DEF Rule
<1>8. TypeOK'
  BY <1>4, <1>5, <1>6, <1>7 DEF AuthorityInv, TypeOK
<1>9. PICK i \in DOMAIN rules : rules[i] = old
  BY <1>1 DEF AuthorityInv, CommandsRead
<1>10. HistoryIsWhole'
  BY <1>3, <1>4, <1>9, HistoryGrows DEF AuthorityInv
<1> QED BY <1>6, <1>8, <1>10 DEF AuthorityInv

LEMMA TickKeeps ==
  ASSUME AuthorityInv, Tick
  PROVE  AuthorityInv'
<1>1. /\ clock' \in 0 .. MaxClock
      /\ UNCHANGED <<rules, supersessions, uses, command>>
  BY BoundAssumption DEF AuthorityInv, TypeOK, Tick
<1>2. TypeOK'
  <2>1. rules' \in Seq(Rule) /\ supersessions' \subseteq Ids \X Ids /\ uses' \in Seq(Ids)
    BY <1>1 DEF AuthorityInv, TypeOK
  <2>2. command' \in [Commands -> {Idle} \cup [running : {TRUE}, existing : Rule, new : Ids]]
    BY <1>1 DEF AuthorityInv, TypeOK
  <2> QED BY <1>1, <2>1, <2>2 DEF TypeOK
<1>3. CommandsRead' /\ HistoryIsWhole'
  BY <1>1 DEF AuthorityInv, CommandsRead, HistoryIsWhole, Replaces
<1> QED BY <1>2, <1>3 DEF AuthorityInv

\* What the ledger keeps, whichever commands run at once and whatever ids are picked.
THEOREM AuthorityInvariant == Spec => []AuthorityInv
<1>1. AuthorityInv /\ [Next]_vars => AuthorityInv'
  <2> SUFFICES ASSUME AuthorityInv, [Next]_vars PROVE AuthorityInv'
    OBVIOUS
  <2>1. CASE UNCHANGED vars
    <3>1. TypeOK'
      BY <2>1 DEF AuthorityInv, TypeOK, vars
    <3>2. CommandsRead' /\ HistoryIsWhole'
      BY <2>1 DEF AuthorityInv, CommandsRead, HistoryIsWhole, Replaces, vars
    <3> QED BY <3>1, <3>2 DEF AuthorityInv
  <2>2. CASE Next
    BY <2>2, RecordKeeps, RecordUseKeeps, ReadRuleKeeps, SupersedeKeeps, GiveUpKeeps, TickKeeps
       DEF Next
  <2> QED BY <2>1, <2>2
<1> QED BY <1>1, AuthorityInit, PTL DEF Spec

\* Every state of the ledger is well typed.
THEOREM AuthorityTypeCorrect == Spec => []TypeOK
<1>1. AuthorityInv => TypeOK
  BY DEF AuthorityInv
<1> QED BY <1>1, AuthorityInvariant, PTL

\* The ledger is a history: ids name one rule for ever, and what is set aside is set
\* aside by a later rule that says the opposite.
THEOREM LedgerIsHistory == Spec => []HistoryIsWhole
<1>1. AuthorityInv => HistoryIsWhole
  BY DEF AuthorityInv
<1> QED BY <1>1, AuthorityInvariant, PTL

\* A path is denied exactly if some live denial speaks to it.
LEMMA DenialDecides ==
  ASSUME NEW action, NEW path
  PROVE  Denied(action, path) <=>
           \E i \in Applicable(action, path) : rules[i].decision = "deny"
<1> DEFINE rows == Applicable(action, path)
           deciding == Deciders(rows)
<1>1. CASE \E i \in rows : rules[i].decision = "deny"
  <2>1. deciding = {i \in rows : rules[i].decision = "deny"} /\ deciding # {}
    BY <1>1 DEF Deciders
  <2>2. (CHOOSE i \in deciding : TRUE) \in deciding
    BY <2>1
  <2>3. rules[CHOOSE i \in deciding : TRUE].decision = "deny"
    BY <2>1, <2>2
  <2> QED BY <1>1, <2>1, <2>3 DEF Denied, evaluate
<1>2. CASE ~ \E i \in rows : rules[i].decision = "deny"
  <2>1. deciding = rows
    BY <1>2 DEF Deciders
  <2>2. CASE rows = {}
    BY <1>2, <2>1, <2>2 DEF Denied, evaluate
  <2>3. CASE rows # {}
    <3>1. (CHOOSE i \in deciding : TRUE) \in rows
      BY <2>1, <2>3
    <3>2. rules[CHOOSE i \in deciding : TRUE].decision # "deny"
      BY <1>2, <3>1
    <3> QED BY <1>2, <2>1, <2>3, <3>2 DEF Denied, evaluate
  <2> QED BY <2>2, <2>3
<1> QED BY <1>1, <1>2

\* The same of the next state.
LEMMA DenialDecidesNext ==
  ASSUME NEW action, NEW path
  PROVE  (Denied(action, path) <=>
           \E i \in Applicable(action, path) : rules[i].decision = "deny")'
  BY DenialDecides, PTL

\* No step changes or removes a row.
LEMMA LedgerAppends ==
  ASSUME AuthorityInv, [Next]_vars
  PROVE  \A i \in DOMAIN rules : i \in DOMAIN rules' /\ rules'[i] = rules[i]
<1>1. CASE UNCHANGED rules
  BY <1>1
<1>2. CASE \E rule \in Rule : rules' = Append(rules, rule)
  <2>1. PICK rule \in Rule : rules' = Append(rules, rule)
    BY <1>2
  <2> QED BY <2>1, RowsStay DEF AuthorityInv, TypeOK
<1>3. ASSUME NEW id \in Ids, NEW action \in Actions, NEW resource \in Resources,
             NEW decision \in Decisions, NEW expires \in Expiries,
             Record(id, action, resource, decision, expires)
      PROVE  \E rule \in Rule : rules' = Append(rules, rule)
  BY <1>3 DEF Record, Rule
<1>4. ASSUME NEW c \in Commands, Supersede(c)
      PROVE  \E rule \in Rule : rules' = Append(rules, rule)
  <2>1. command[c].existing \in Rule /\ command[c].new \in Ids
    BY <1>4, RunningRead DEF AuthorityInv, Supersede
  <2>2. Replacement(c) \in Rule
    BY <2>1, ReplacementIsRule
  <2> QED BY <1>4, <2>2 DEF Supersede
<1> QED BY <1>1, <1>2, <1>3, <1>4 DEF Next, RecordUse, ReadRule, GiveUp, Tick, vars

\* A denial is lifted only by superseding it, or by its end.
THEOREM DenialsStand == Spec => DenialStands
<1>1. AuthorityInv /\ AuthorityInv' /\ [Next]_vars =>
        \A action \in Actions, path \in Paths :
          (Denied(action, path) /\ ~ Denied(action, path)') =>
             \A i \in Applicable(action, path) :
               rules[i].decision = "deny" =>
                  \/ rules[i].id \in superseded_ids' \ superseded_ids
                  \/ clock' > clock /\ rules[i].expires \in 0 .. clock' - 1
  <2> SUFFICES ASSUME AuthorityInv, AuthorityInv', [Next]_vars, NEW action \in Actions, NEW path \in Paths,
                      ~ Denied(action, path)',
                      NEW i \in Applicable(action, path), rules[i].decision = "deny"
               PROVE  \/ rules[i].id \in superseded_ids' \ superseded_ids
                      \/ clock' > clock /\ rules[i].expires \in 0 .. clock' - 1
    OBVIOUS
  <2>1. /\ i \in DOMAIN rules /\ rules[i].id \notin superseded_ids /\ ~ Expired(rules[i])
        /\ rules[i].action = action /\ resource_matches[rules[i].resource][path]
    BY DEF Applicable
  <2>2. i \in DOMAIN rules' /\ rules'[i] = rules[i]
    BY <2>1, LedgerAppends
  <2>3. Denied(action, path)' <=>
           \E j \in Applicable(action, path)' : rules'[j].decision = "deny"
    BY DenialDecidesNext
  <2>4. i \notin Applicable(action, path)'
    BY <2>2, <2>3
  <2>5. rules[i].id \in superseded_ids' \/ Expired(rules[i])'
    BY <2>1, <2>2, <2>4 DEF Applicable
  <2>6. CASE rules[i].id \in superseded_ids'
    BY <2>1, <2>6
  <2>7. CASE Expired(rules[i])'
    <3>1. rules[i].expires \in Nat
      <4>1. rules[i] \in Rule
        BY <2>1 DEF AuthorityInv, TypeOK
      <4>2. rules[i].expires # Never
        BY <2>2, <2>7 DEF Expired
      <4> QED BY <4>1, <4>2, ExpiryAssumption DEF Rule
    <3>2. clock \in Nat /\ clock' \in Nat
      BY BoundAssumption DEF AuthorityInv, TypeOK
    <3>3. rules[i].expires < clock' /\ ~ (rules[i].expires < clock)
      BY <2>1, <2>2, <2>7 DEF Expired
    <3> QED BY <3>1, <3>2, <3>3
  <2> QED BY <2>5, <2>6, <2>7
<1> QED BY <1>1, AuthorityInvariant, PTL DEF Spec, DenialStands
-----------------------------------------------------------------------------
(* The matcher.                                                            *)

\* What the matcher says of the pattern's i-th segment, by what it says of the rest.
MatchStep(match, pat, path, i) ==
    IF i > Len(pat) THEN {Len(path) + 1}
    ELSE IF pat[i] = AnySegments THEN {j \in 1 .. Len(path) + 1 : \E k \in match[i + 1] : j <= k}
    ELSE {j \in 1 .. Len(path) : pat[i] \in {OneSegment, path[j]} /\ j + 1 \in match[i + 1]}

\* The matcher's recursion has a solution, from the end of the pattern to its start.
LEMMA MatcherExists ==
  ASSUME NEW pat, Len(pat) \in Nat, NEW path
  PROVE  \E match : match = [i \in 1 .. Len(pat) + 1 |-> MatchStep(match, pat, path, i)]
<1> DEFINE D == 1 .. Len(pat) + 1
           Solves(m, n) == /\ m = [i \in D |-> m[i]]
                           /\ \A i \in D : n <= i => m[i] = MatchStep(m, pat, path, i)
           Bad == {k \in 0 .. Len(pat) : ~ \E m : Solves(m, Len(pat) + 1 - k)}
<1>1. Bad = {}
  <2> SUFFICES ASSUME Bad # {} PROVE FALSE
    OBVIOUS
  <2>1. PICK k \in Bad : \A l \in Bad : k <= l
    <3>1. Bad \in SUBSET Nat
      OBVIOUS
    <3> HIDE DEF Bad
    <3> QED BY <3>1, Least
  <2> DEFINE n == Len(pat) + 1 - k
  <2>2. k \in Nat /\ k <= Len(pat) /\ n \in D /\ ~ \E m : Solves(m, n)
    OBVIOUS
  <2>3. PICK m : m = [i \in D |-> m[i]] /\ \A i \in D : n < i => m[i] = MatchStep(m, pat, path, i)
    <3>1. CASE k = 0
      <4> DEFINE m == [i \in D |-> {}]
      <4>1. m = [i \in D |-> m[i]] /\ \A i \in D : ~ (n < i)
        BY <3>1
      <4> HIDE DEF m
      <4> QED BY <4>1
    <3>2. CASE k # 0
      <4>1. k - 1 \in 0 .. Len(pat) /\ k - 1 \notin Bad
        BY <2>1, <2>2, <3>2
      <4>2. PICK m : Solves(m, Len(pat) + 1 - (k - 1))
        BY <4>1
      <4>3. \A i \in D : n < i => Len(pat) + 1 - (k - 1) <= i
        BY <2>2
      <4> QED BY <4>2, <4>3
    <3> QED BY <3>1, <3>2
  <2> HIDE DEF n, Bad
  <2> DEFINE s == [i \in D |-> IF i = n THEN MatchStep(m, pat, path, i) ELSE m[i]]
  <2>4. s[n] = MatchStep(m, pat, path, n) /\ \A i \in D : n < i => s[i] = m[i]
    BY <2>2
  <2>5. s = [i \in D |-> s[i]]
    OBVIOUS
  <2> HIDE DEF s
  <2>6. ASSUME NEW i \in D, n <= i PROVE MatchStep(s, pat, path, i) = MatchStep(m, pat, path, i)
    <3>1. i > Len(pat) \/ s[i + 1] = m[i + 1]
      BY <2>2, <2>4, <2>6
    <3> QED BY <3>1 DEF MatchStep
  <2>7. \A i \in D : n <= i => s[i] = MatchStep(s, pat, path, i)
    <3> SUFFICES ASSUME NEW i \in D, n <= i PROVE s[i] = MatchStep(s, pat, path, i)
      OBVIOUS
    <3>1. n = i \/ n < i
      BY <2>2
    <3> QED BY <3>1, <2>3, <2>4, <2>6
  <2> QED BY <2>2, <2>5, <2>7
<1>2. Len(pat) \notin Bad
  BY <1>1
<1>3. PICK m : Solves(m, 1)
  BY <1>2
<1>4. m = [i \in D |-> MatchStep(m, pat, path, i)]
  BY <1>3
<1> QED BY <1>4

LEMMA MatcherIs ==
  ASSUME NEW pat, Len(pat) \in Nat, NEW path
  PROVE  \E match : /\ match = [i \in 1 .. Len(pat) + 1 |-> MatchStep(match, pat, path, i)]
                    /\ segments_match(pat, path) = (1 \in match[1])
<1> DEFINE Is(match) == match = [i \in 1 .. Len(pat) + 1 |-> MatchStep(match, pat, path, i)]
           It == CHOOSE match : Is(match)
<1>1. segments_match(pat, path) = (1 \in It[1])
  BY Zenon DEF segments_match, MatchStep
<1>2. \E match : Is(match)
  BY MatcherExists
<1> HIDE DEF Is
<1>3. Is(It)
  BY <1>2
<1> QED BY <1>1, <1>3 DEF Is

\* A cover of the path from its j-th segment on by the pattern from its i-th on.
Fits(f, pat, path, i, j) ==
    /\ f \in [j .. Len(path) -> i .. Len(pat)]
    /\ \A a, b \in j .. Len(path) : a <= b => f[a] <= f[b]
    /\ \A x \in i .. Len(pat) : pat[x] # AnySegments =>
          \E y \in j .. Len(path) : /\ \A k \in j .. Len(path) : f[k] = x <=> k = y
                                    /\ pat[x] \in {OneSegment, path[y]}

CoversFrom(pat, path, i, j) == \E f : Fits(f, pat, path, i, j)

\* Nothing covers nothing, and only that.
LEMMA CoversAtEnd ==
  ASSUME NEW pat, Len(pat) \in Nat, NEW path, Len(path) \in Nat,
         NEW j \in 1 .. Len(path) + 1
  PROVE  CoversFrom(pat, path, Len(pat) + 1, j) <=> j = Len(path) + 1
<1>1. Len(pat) + 1 .. Len(pat) = {}
  OBVIOUS
<1>2. ASSUME NEW f, Fits(f, pat, path, Len(pat) + 1, j) PROVE j = Len(path) + 1
  <2>1. j \notin j .. Len(path)
    BY <1>1, <1>2 DEF Fits
  <2> QED BY <2>1
<1>3. ASSUME j = Len(path) + 1 PROVE CoversFrom(pat, path, Len(pat) + 1, j)
  <2>1. j .. Len(path) = {}
    BY <1>3
  <2>2. Fits([x \in {} |-> x], pat, path, Len(pat) + 1, j)
    BY <1>1, <2>1 DEF Fits
  <2> QED BY <2>2 DEF CoversFrom
<1> QED BY <1>2, <1>3 DEF CoversFrom

\* A segment that is not "**" takes the first of the path.
LEMMA CoversByOne ==
  ASSUME NEW pat, Len(pat) \in Nat, NEW path, Len(path) \in Nat,
         NEW i \in 1 .. Len(pat), pat[i] # AnySegments,
         NEW j \in 1 .. Len(path) + 1
  PROVE  CoversFrom(pat, path, i, j)
           <=> /\ j <= Len(path)
               /\ pat[i] \in {OneSegment, path[j]}
               /\ CoversFrom(pat, path, i + 1, j + 1)
<1>1. ASSUME NEW f, Fits(f, pat, path, i, j)
      PROVE  /\ j <= Len(path)
             /\ pat[i] \in {OneSegment, path[j]}
             /\ CoversFrom(pat, path, i + 1, j + 1)
  <2>1. i \in i .. Len(pat)
    OBVIOUS
  <2>2. PICK y \in j .. Len(path) : /\ \A k \in j .. Len(path) : f[k] = i <=> k = y
                                    /\ pat[i] \in {OneSegment, path[y]}
    BY <1>1, <2>1 DEF Fits
  <2>3. j \in j .. Len(path) /\ f[j] \in i .. Len(pat) /\ f[j] <= f[y] /\ f[y] = i
    BY <1>1, <2>2 DEF Fits
  <2>4. j = y
    <3>1. f[j] = i
      BY <2>3
    <3> QED BY <2>2, <2>3, <3>1
  <2> DEFINE g == [k \in j + 1 .. Len(path) |-> f[k]]
  <2>5. \A k \in j + 1 .. Len(path) : k \in j .. Len(path) /\ f[k] \in i + 1 .. Len(pat)
    <3> SUFFICES ASSUME NEW k \in j + 1 .. Len(path)
                 PROVE  k \in j .. Len(path) /\ f[k] \in i + 1 .. Len(pat)
      OBVIOUS
    <3>1. k \in j .. Len(path) /\ k # j
      OBVIOUS
    <3>2. f[k] \in i .. Len(pat) /\ f[k] # i
      BY <1>1, <2>2, <2>4, <3>1 DEF Fits
    <3> QED BY <3>1, <3>2
  <2>6. g \in [j + 1 .. Len(path) -> i + 1 .. Len(pat)]
    BY <2>5
  <2>7. \A a, b \in j + 1 .. Len(path) : a <= b => g[a] <= g[b]
    BY <1>1, <2>5 DEF Fits
  <2>8. ASSUME NEW x \in i + 1 .. Len(pat), pat[x] # AnySegments
        PROVE  \E z \in j + 1 .. Len(path) :
                  /\ \A k \in j + 1 .. Len(path) : g[k] = x <=> k = z
                  /\ pat[x] \in {OneSegment, path[z]}
    <3>1. x \in i .. Len(pat) /\ x # i
      OBVIOUS
    <3>2. PICK z \in j .. Len(path) : /\ \A k \in j .. Len(path) : f[k] = x <=> k = z
                                      /\ pat[x] \in {OneSegment, path[z]}
      BY <1>1, <2>8, <3>1 DEF Fits
    <3>3. z # j
      <4>1. f[j] = i
        BY <2>3, <2>4
      <4>2. f[z] = x
        BY <3>2
      <4> QED BY <4>1, <4>2, <3>1
    <3>4. z \in j + 1 .. Len(path)
      BY <3>2, <3>3
    <3> QED BY <3>2, <3>4, <2>5
  <2> HIDE DEF g
  <2>9. Fits(g, pat, path, i + 1, j + 1)
    BY <2>6, <2>7, <2>8 DEF Fits
  <2> QED BY <2>2, <2>4, <2>9 DEF CoversFrom
<1>2. ASSUME j <= Len(path), pat[i] \in {OneSegment, path[j]},
             NEW g, Fits(g, pat, path, i + 1, j + 1)
      PROVE  CoversFrom(pat, path, i, j)
  <2> DEFINE f == [k \in j .. Len(path) |-> IF k = j THEN i ELSE g[k]]
  <2>1. \A k \in j .. Len(path) : k # j => k \in j + 1 .. Len(path)
    OBVIOUS
  <2>2. \A k \in j + 1 .. Len(path) :
           k \in j .. Len(path) /\ k # j /\ f[k] = g[k] /\ f[k] \in i + 1 .. Len(pat)
    BY <1>2 DEF Fits
  <2>3. j \in j .. Len(path) /\ f[j] = i
    BY <1>2
  <2>4. f \in [j .. Len(path) -> i .. Len(pat)]
    <3>1. i \in i .. Len(pat) /\ i + 1 .. Len(pat) \subseteq i .. Len(pat)
      OBVIOUS
    <3>2. f = [k \in j .. Len(path) |-> f[k]]
      OBVIOUS
    <3> HIDE DEF f
    <3>3. \A k \in j .. Len(path) : f[k] \in i .. Len(pat)
      <4> TAKE k \in j .. Len(path)
      <4>1. CASE k = j
        BY <2>3, <3>1, <4>1
      <4>2. CASE k # j
        BY <2>1, <2>2, <3>1, <4>2
      <4> QED BY <4>1, <4>2
    <3> QED BY <3>2, <3>3
  <2> HIDE DEF f
  <2>5. ASSUME NEW a \in j .. Len(path), NEW b \in j .. Len(path), a <= b PROVE f[a] <= f[b]
    <3>1. CASE a = j
      BY <2>3, <2>4, <3>1
    <3>2. CASE a # j
      <4>1. a \in j + 1 .. Len(path) /\ b \in j + 1 .. Len(path)
        BY <2>5, <3>2
      <4> QED BY <1>2, <4>1, <2>2, <2>5 DEF Fits
    <3> QED BY <3>1, <3>2
  <2>6. ASSUME NEW x \in i .. Len(pat), pat[x] # AnySegments
        PROVE  \E y \in j .. Len(path) :
                  /\ \A k \in j .. Len(path) : f[k] = x <=> k = y
                  /\ pat[x] \in {OneSegment, path[y]}
    <3>1. CASE x = i
      <4>1. \A k \in j .. Len(path) : f[k] = i <=> k = j
        <5> SUFFICES ASSUME NEW k \in j .. Len(path), k # j PROVE f[k] # i
          BY <2>3
        <5> QED BY <2>1, <2>2
      <4> QED BY <1>2, <2>3, <3>1, <4>1
    <3>2. CASE x # i
      <4>1. x \in i + 1 .. Len(pat)
        BY <3>2
      <4>2. PICK y \in j + 1 .. Len(path) : /\ \A k \in j + 1 .. Len(path) : g[k] = x <=> k = y
                                            /\ pat[x] \in {OneSegment, path[y]}
        BY <1>2, <2>6, <4>1 DEF Fits
      <4>3. y \in j .. Len(path) /\ y # j
        BY <2>2
      <4>4. \A k \in j .. Len(path) : f[k] = x <=> k = y
        <5> TAKE k \in j .. Len(path)
        <5>1. CASE k = j
          BY <2>3, <3>2, <4>3, <5>1
        <5>2. CASE k # j
          BY <2>1, <2>2, <4>2, <5>2
        <5> QED BY <5>1, <5>2
      <4> QED BY <4>2, <4>3, <4>4
    <3> QED BY <3>1, <3>2
  <2>7. Fits(f, pat, path, i, j)
    BY <2>4, <2>5, <2>6 DEF Fits
  <2> QED BY <2>7 DEF CoversFrom
<1> QED BY <1>1, <1>2 DEF CoversFrom

\* A "**" takes as many as are left over, or none.
LEMMA CoversByAny ==
  ASSUME NEW pat, Len(pat) \in Nat, NEW path, Len(path) \in Nat,
         NEW i \in 1 .. Len(pat), pat[i] = AnySegments,
         NEW j \in 1 .. Len(path) + 1
  PROVE  CoversFrom(pat, path, i, j)
           <=> \E k \in 1 .. Len(path) + 1 : j <= k /\ CoversFrom(pat, path, i + 1, k)
<1>1. ASSUME NEW f, Fits(f, pat, path, i, j)
      PROVE  \E k \in 1 .. Len(path) + 1 : j <= k /\ CoversFrom(pat, path, i + 1, k)
  <2> DEFINE Rest == {k \in j .. Len(path) + 1 : k \in j .. Len(path) => f[k] # i}
  <2>1. Rest \in SUBSET Nat /\ Len(path) + 1 \in Rest
    OBVIOUS
  <2>2. PICK k \in Rest : \A l \in Rest : k <= l
    <3> HIDE DEF Rest
    <3> QED BY <2>1, Least
  <2>3. k \in 1 .. Len(path) + 1 /\ j <= k
    OBVIOUS
  <2>4. \A l \in j .. Len(path) : l < k => f[l] = i
    <3> SUFFICES ASSUME NEW l \in j .. Len(path), l < k, f[l] # i PROVE FALSE
      OBVIOUS
    <3>1. l \in Rest
      OBVIOUS
    <3> QED BY <2>2, <2>3, <3>1
  <2>5. \A l \in k .. Len(path) : l \in j .. Len(path) /\ f[l] \in i + 1 .. Len(pat)
    <3> SUFFICES ASSUME NEW l \in k .. Len(path)
                 PROVE  l \in j .. Len(path) /\ f[l] \in i + 1 .. Len(pat)
      OBVIOUS
    <3>1. l \in j .. Len(path) /\ k \in j .. Len(path) /\ k <= l
      BY <2>3
    <3>2. f[k] # i
      BY <3>1
    <3>3. f[k] \in i .. Len(pat) /\ f[l] \in i .. Len(pat) /\ f[k] <= f[l]
      BY <1>1, <3>1 DEF Fits
    <3> QED BY <3>1, <3>2, <3>3
  <2> HIDE DEF Rest
  <2> DEFINE g == [l \in k .. Len(path) |-> f[l]]
  <2>6. g \in [k .. Len(path) -> i + 1 .. Len(pat)]
    BY <2>5
  <2>7. \A a, b \in k .. Len(path) : a <= b => g[a] <= g[b]
    BY <1>1, <2>5 DEF Fits
  <2>8. ASSUME NEW x \in i + 1 .. Len(pat), pat[x] # AnySegments
        PROVE  \E z \in k .. Len(path) :
                  /\ \A l \in k .. Len(path) : g[l] = x <=> l = z
                  /\ pat[x] \in {OneSegment, path[z]}
    <3>1. x \in i .. Len(pat) /\ x # i
      OBVIOUS
    <3>2. PICK z \in j .. Len(path) : /\ \A l \in j .. Len(path) : f[l] = x <=> l = z
                                      /\ pat[x] \in {OneSegment, path[z]}
      BY <1>1, <2>8, <3>1 DEF Fits
    <3>3. ~ (z < k)
      <4>1. f[z] = x
        BY <3>2
      <4> QED BY <4>1, <2>4, <3>1, <3>2
    <3>4. z \in k .. Len(path)
      BY <2>3, <3>2, <3>3
    <3> QED BY <3>2, <3>4, <2>5
  <2> HIDE DEF g
  <2>9. Fits(g, pat, path, i + 1, k)
    BY <2>6, <2>7, <2>8 DEF Fits
  <2> QED BY <2>3, <2>9 DEF CoversFrom
<1>2. ASSUME NEW k \in 1 .. Len(path) + 1, j <= k, NEW g, Fits(g, pat, path, i + 1, k)
      PROVE  CoversFrom(pat, path, i, j)
  <2> DEFINE f == [l \in j .. Len(path) |-> IF l < k THEN i ELSE g[l]]
  <2>1. \A l \in k .. Len(path) : l \in j .. Len(path) /\ f[l] = g[l] /\ f[l] \in i + 1 .. Len(pat)
    <3>1. \A l \in k .. Len(path) : l \in j .. Len(path) /\ ~ (l < k)
      BY <1>2
    <3>2. \A l \in k .. Len(path) : g[l] \in i + 1 .. Len(pat)
      BY <1>2 DEF Fits
    <3>3. \A l \in k .. Len(path) : f[l] = g[l]
      BY <3>1
    <3> HIDE DEF f
    <3> QED BY <3>1, <3>2, <3>3
  <2>2. \A l \in j .. Len(path) : l \in k .. Len(path) \/ (l < k /\ f[l] = i)
    BY <1>2
  <2>3. f \in [j .. Len(path) -> i .. Len(pat)]
    <3>1. i \in i .. Len(pat) /\ i + 1 .. Len(pat) \subseteq i .. Len(pat)
      OBVIOUS
    <3>2. f = [l \in j .. Len(path) |-> f[l]]
      OBVIOUS
    <3> HIDE DEF f
    <3>3. \A l \in j .. Len(path) : f[l] \in i .. Len(pat)
      BY <2>1, <2>2, <3>1
    <3> QED BY <3>2, <3>3
  <2> HIDE DEF f
  <2>4. ASSUME NEW a \in j .. Len(path), NEW b \in j .. Len(path), a <= b PROVE f[a] <= f[b]
    <3>1. CASE a \in k .. Len(path)
      <4>1. b \in k .. Len(path)
        BY <2>4, <3>1
      <4> QED BY <1>2, <4>1, <3>1, <2>1, <2>4 DEF Fits
    <3>2. CASE a \notin k .. Len(path)
      BY <2>2, <2>3, <3>2
    <3> QED BY <3>1, <3>2
  <2>5. ASSUME NEW x \in i .. Len(pat), pat[x] # AnySegments
        PROVE  \E y \in j .. Len(path) :
                  /\ \A l \in j .. Len(path) : f[l] = x <=> l = y
                  /\ pat[x] \in {OneSegment, path[y]}
    <3>1. x \in i + 1 .. Len(pat) /\ x # i
      BY <2>5
    <3>2. PICK y \in k .. Len(path) : /\ \A l \in k .. Len(path) : g[l] = x <=> l = y
                                      /\ pat[x] \in {OneSegment, path[y]}
      BY <1>2, <2>5, <3>1 DEF Fits
    <3>3. \A l \in j .. Len(path) : f[l] = x <=> l = y
      <4> TAKE l \in j .. Len(path)
      <4>1. CASE l \in k .. Len(path)
        BY <2>1, <3>2, <4>1
      <4>2. CASE l < k /\ f[l] = i
        BY <3>1, <3>2, <4>2
      <4> QED BY <2>2, <4>1, <4>2
    <3> QED BY <2>1, <3>2, <3>3
  <2>6. Fits(f, pat, path, i, j)
    BY <2>3, <2>4, <2>5 DEF Fits
  <2> QED BY <2>6 DEF CoversFrom
<1> QED BY <1>1, <1>2 DEF CoversFrom

\* What the matcher's recursion finds are the covers, from the end of the pattern on.
LEMMA MatcherFindsCovers ==
  ASSUME NEW pat, Len(pat) \in Nat, NEW path, Len(path) \in Nat,
         NEW match, match = [i \in 1 .. Len(pat) + 1 |-> MatchStep(match, pat, path, i)]
  PROVE  match[1] = {j \in 1 .. Len(path) + 1 : CoversFrom(pat, path, 1, j)}
<1> DEFINE Starts(i) == {j \in 1 .. Len(path) + 1 : CoversFrom(pat, path, i, j)}
           Bad == {k \in 0 .. Len(pat) : match[Len(pat) + 1 - k] # Starts(Len(pat) + 1 - k)}
<1> HIDE DEF Starts
<1>1. \A i \in 1 .. Len(pat) + 1 : match[i] = MatchStep(match, pat, path, i)
  OBVIOUS
<1>2. Bad = {}
  <2> SUFFICES ASSUME Bad # {} PROVE FALSE
    OBVIOUS
  <2>1. PICK k \in Bad : \A l \in Bad : k <= l
    <3>1. Bad \in SUBSET Nat
      OBVIOUS
    <3> HIDE DEF Bad
    <3> QED BY <3>1, Least
  <2> DEFINE i == Len(pat) + 1 - k
  <2>2. k \in 0 .. Len(pat) /\ i \in 1 .. Len(pat) + 1 /\ match[i] # Starts(i)
    OBVIOUS
  <2>3. CASE k = 0
    <3>1. i = Len(pat) + 1 /\ match[i] = {Len(path) + 1}
      BY <1>1, <2>3 DEF MatchStep
    <3> HIDE DEF i
    <3>2. Starts(i) = {Len(path) + 1}
      BY <3>1, CoversAtEnd DEF Starts
    <3> QED BY <2>2, <3>1, <3>2
  <2>4. CASE k # 0
    <3>1. k - 1 \in 0 .. Len(pat) /\ Len(pat) + 1 - (k - 1) = i + 1 /\ i \in 1 .. Len(pat)
      BY <2>2, <2>4
    <3>2. i \in 1 .. Len(pat) /\ match[i + 1] = Starts(i + 1)
      <4>1. k - 1 \notin Bad
        <5> HIDE DEF Bad, i
        <5> QED BY <2>1, <2>2, <3>1
      <4>2. match[Len(pat) + 1 - (k - 1)] = Starts(Len(pat) + 1 - (k - 1))
        BY <3>1, <4>1
      <4> HIDE DEF i
      <4> QED BY <3>1, <4>2
    <3> HIDE DEF i, Bad
    <3>3. match[i] = MatchStep(match, pat, path, i) /\ ~ (i > Len(pat))
      BY <1>1, <2>2, <3>2
    <3>4. CASE pat[i] = AnySegments
      <4>1. match[i] = {j \in 1 .. Len(path) + 1 : \E l \in Starts(i + 1) : j <= l}
        BY <3>2, <3>3, <3>4 DEF MatchStep
      <4>2. \A j \in 1 .. Len(path) + 1 :
               CoversFrom(pat, path, i, j) <=> \E l \in Starts(i + 1) : j <= l
        BY <3>2, <3>4, CoversByAny DEF Starts
      <4> QED BY <2>2, <4>1, <4>2 DEF Starts
    <3>5. CASE pat[i] # AnySegments
      <4>1. match[i] = {j \in 1 .. Len(path) : pat[i] \in {OneSegment, path[j]} /\ j + 1 \in Starts(i + 1)}
        BY <3>2, <3>3, <3>5 DEF MatchStep
      <4>2. \A j \in 1 .. Len(path) + 1 :
               CoversFrom(pat, path, i, j)
                 <=> j \in 1 .. Len(path) /\ pat[i] \in {OneSegment, path[j]} /\ j + 1 \in Starts(i + 1)
        <5> TAKE j \in 1 .. Len(path) + 1
        <5>1. j <= Len(path) <=> j \in 1 .. Len(path)
          OBVIOUS
        <5>2. j <= Len(path) => j + 1 \in 1 .. Len(path) + 1
          OBVIOUS
        <5> QED BY <3>2, <3>5, <5>1, <5>2, CoversByOne DEF Starts
      <4>3. 1 .. Len(path) \subseteq 1 .. Len(path) + 1
        OBVIOUS
      <4> QED BY <2>2, <4>1, <4>2, <4>3 DEF Starts
    <3> QED BY <3>4, <3>5
  <2> QED BY <2>3, <2>4
<1>3. Len(pat) \in 0 .. Len(pat) /\ Len(pat) + 1 - Len(pat) = 1
  OBVIOUS
<1>4. match[1] = Starts(1)
  <2>1. match[Len(pat) + 1 - Len(pat)] = Starts(Len(pat) + 1 - Len(pat))
    BY <1>2, <1>3
  <2> QED BY <1>3, <2>1
<1> QED BY <1>4 DEF Starts

\* For any pattern and path whatever, the matcher says yes exactly to what is covered.
LEMMA MatcherCovers ==
  ASSUME NEW S, NEW pat \in Seq(S), NEW R, NEW path \in Seq(R)
  PROVE  segments_match(pat, path) = Covers(pat, path)
<1>1. /\ Len(pat) \in Nat /\ DOMAIN pat = 1 .. Len(pat)
      /\ Len(path) \in Nat /\ DOMAIN path = 1 .. Len(path)
  OBVIOUS
<1>2. PICK match : /\ match = [i \in 1 .. Len(pat) + 1 |-> MatchStep(match, pat, path, i)]
                   /\ segments_match(pat, path) = (1 \in match[1])
  BY <1>1, MatcherIs
<1>3. match[1] = {j \in 1 .. Len(path) + 1 : CoversFrom(pat, path, 1, j)}
  BY <1>1, <1>2, MatcherFindsCovers
<1>4. 1 \in 1 .. Len(path) + 1
  BY <1>1
<1>5. (1 \in match[1]) <=> CoversFrom(pat, path, 1, 1)
  BY <1>3, <1>4
<1>6. CoversFrom(pat, path, 1, 1) <=> Covers(pat, path)
  <2> DEFINE Places == [DOMAIN path -> DOMAIN pat]
             Right(f) == /\ \A i, j \in DOMAIN path : i <= j => f[i] <= f[j]
                         /\ \A i \in DOMAIN pat : pat[i] # AnySegments =>
                              \E j \in DOMAIN path : /\ \A k \in DOMAIN path : f[k] = i <=> k = j
                                                     /\ pat[i] \in {OneSegment, path[j]}
  <2>1. \A f : Fits(f, pat, path, 1, 1) <=> f \in Places /\ Right(f)
    BY <1>1, Zenon DEF Fits
  <2>2. Covers(pat, path) <=> \E f \in Places : Right(f)
    BY Zenon DEF Covers
  <2> HIDE DEF Places, Right
  <2> QED BY <2>1, <2>2 DEF CoversFrom
<1>7. Covers(pat, path) \in BOOLEAN
  BY DEF Covers
<1> QED BY <1>2, <1>5, <1>6, <1>7

\* For any rules and paths, the matcher's recursion (decision.rs:19-44) says yes to the paths a
\* pattern covers, and to no other, whatever the place and number of its wild segments.
THEOREM MatcherIsCovering == Spec => []MatcherIsGlob
<1>1. TypeOK => MatcherIsGlob
  <2> SUFFICES ASSUME TypeOK, NEW i \in DOMAIN rules, NEW path \in Paths
               PROVE  resource_matches[rules[i].resource][path] = Covered[rules[i].resource][path]
    BY DEF MatcherIsGlob
  <2>1. rules[i].resource \in Resources
    <3>1. rules[i] \in Rule
      BY DEF TypeOK
    <3> QED BY <3>1 DEF Rule
  <2>2. segments_match(rules[i].resource, path) = Covers(rules[i].resource, path)
    BY <2>1, PatternAssumption, PathAssumption, MatcherCovers
  <2> QED BY <2>1, <2>2 DEF resource_matches, Covered
<1> QED BY <1>1, AuthorityTypeCorrect, PTL
-----------------------------------------------------------------------------
(* The ATLAS.idx tree: what a text says.                                   *)

\* A requirement met or missing, or nothing decided.
Answers(s) ==
    \A i \in DOMAIN s.ents : \A k \in s.ents[i].sockets :
        k.resolution = Unresolved \/ k.resolution.kind \in {"fit", "hole"}

\* The lines of a text, one kind apart from the other.
LEMMA LinesByTag ==
  ASSUME NEW s, NEW scope, Answers(s), NEW text,
         text.lines = encode_atlas_idx(s, scope).lines
  PROVE  /\ Tagged(text, "entity") = EntityLines(s, Visible(s, scope))
         /\ Tagged(text, "edge") = EdgeLines(s, Visible(s, scope))
         /\ Tagged(text, "evidence") = EvidenceLines(s, Visible(s, scope))
         /\ Tagged(text, "green") = GreenLines(s, Visible(s, scope))
         /\ Tagged(text, "child") = ChildLines(s, scope)
         /\ Tagged(text, "socket") = SocketLines(s, Visible(s, scope))
         /\ Tagged(text, "fit") \cup Tagged(text, "hole") = ResolutionLines(s, Visible(s, scope))
<1> PICK seen : seen = Visible(s, scope)
  OBVIOUS
<1>0. seen \subseteq DOMAIN s.ents
  BY DEF Visible
<1>1. \A l \in EntityLines(s, seen) : l.tag = "entity"
  BY DEF EntityLines
<1>2. \A l \in SummaryLines(s, seen) : l.tag = "summary"
  BY DEF SummaryLines
<1>3. \A l \in EdgeLines(s, seen) : l.tag = "edge"
  BY DEF EdgeLines
<1>4. \A l \in ClauseLines(s, seen) : l.tag = "constraint"
  BY DEF ClauseLines
<1>5. \A l \in EvidenceLines(s, seen) : l.tag = "evidence"
  BY DEF EvidenceLines
<1>6. \A l \in GreenLines(s, seen) : l.tag = "green"
  BY DEF GreenLines
<1>7. \A l \in ChildLines(s, scope) : l.tag = "child"
  BY DEF ChildLines
<1>8. \A l \in SocketLines(s, seen) : l.tag = "socket"
  BY DEF SocketLines
<1>9. \A l \in ResolutionLines(s, seen) : l.tag \in {"fit", "hole"}
  <2> SUFFICES ASSUME NEW l \in ResolutionLines(s, seen) PROVE l.tag \in {"fit", "hole"}
    OBVIOUS
  <2>1. PICK i \in seen : l \in {[tag |-> k.resolution.kind, socket |-> k.id, to |-> k.resolution.to] :
              k \in {j \in s.ents[i].sockets : j.resolution # Unresolved}}
    BY DEF ResolutionLines
  <2>2. PICK k \in s.ents[i].sockets : /\ k.resolution # Unresolved
                                       /\ l = [tag |-> k.resolution.kind, socket |-> k.id, to |-> k.resolution.to]
    BY <2>1
  <2>3. k.resolution.kind \in {"fit", "hole"}
    BY <1>0, <2>2 DEF Answers
  <2> QED BY <2>2, <2>3
<1>10. \A l \in UncertaintyLines(s, seen) : l.tag = "uncertainty"
  BY DEF UncertaintyLines
<1>12. text.lines = EntityLines(s, seen) \cup SummaryLines(s, seen) \cup EdgeLines(s, seen)
                    \cup ClauseLines(s, seen) \cup EvidenceLines(s, seen) \cup GreenLines(s, seen)
                    \cup ChildLines(s, scope) \cup SocketLines(s, seen)
                    \cup ResolutionLines(s, seen) \cup UncertaintyLines(s, seen)
  <2>1. encode_atlas_idx(s, scope).lines =
           UNION {EntityLines(s, seen), SummaryLines(s, seen), EdgeLines(s, seen),
                  ClauseLines(s, seen), EvidenceLines(s, seen), GreenLines(s, seen),
                  ChildLines(s, scope), SocketLines(s, seen), ResolutionLines(s, seen),
                  UncertaintyLines(s, seen)}
    BY DEF encode_atlas_idx
  <2> QED BY <2>1
<1>13. Tagged(text, "entity") = EntityLines(s, seen)
  BY <1>1, <1>2, <1>3, <1>4, <1>5, <1>6, <1>7, <1>8, <1>9, <1>10, <1>12 DEF Tagged
<1>14. Tagged(text, "edge") = EdgeLines(s, seen)
  BY <1>1, <1>2, <1>3, <1>4, <1>5, <1>6, <1>7, <1>8, <1>9, <1>10, <1>12 DEF Tagged
<1>15. Tagged(text, "evidence") = EvidenceLines(s, seen)
  BY <1>1, <1>2, <1>3, <1>4, <1>5, <1>6, <1>7, <1>8, <1>9, <1>10, <1>12 DEF Tagged
<1>16. Tagged(text, "green") = GreenLines(s, seen)
  BY <1>1, <1>2, <1>3, <1>4, <1>5, <1>6, <1>7, <1>8, <1>9, <1>10, <1>12 DEF Tagged
<1>17. Tagged(text, "child") = ChildLines(s, scope)
  BY <1>1, <1>2, <1>3, <1>4, <1>5, <1>6, <1>7, <1>8, <1>9, <1>10, <1>12 DEF Tagged
<1>18. Tagged(text, "socket") = SocketLines(s, seen)
  BY <1>1, <1>2, <1>3, <1>4, <1>5, <1>6, <1>7, <1>8, <1>9, <1>10, <1>12 DEF Tagged
<1>19. Tagged(text, "fit") \cup Tagged(text, "hole") = ResolutionLines(s, seen)
  BY <1>1, <1>2, <1>3, <1>4, <1>5, <1>6, <1>7, <1>8, <1>9, <1>10, <1>12 DEF Tagged
<1> QED BY <1>13, <1>14, <1>15, <1>16, <1>17, <1>18, <1>19

\* Where a thing stands follows from its id.
PlacedAs(e, i) ==
    /\ i = Universe => e.scale = "universe" /\ e.parent = Missing /\ e.path = Missing
    /\ i = Project => e.scale = "galaxy" /\ e.parent = Universe /\ e.path = Missing
    /\ i.kind = "system" => e.scale = "system" /\ e.parent = Project /\ e.path = i.of
    /\ i.kind = "planet" => e.scale = "planet" /\ e.parent = System(i.of[1]) /\ e.path = i.of
    /\ i.kind = "file" => e.scale = "moon" /\ e.parent = Planet(PlanetName(i.of)) /\ e.path = i.of
    /\ i.kind = "symbol" => e.scale = "moon" /\ e.parent = File(i.of) /\ e.path = i.of

\* Nothing decided, or a fit or a hole.
IsResolution(r) ==
    \/ r = Unresolved
    \/ r.kind \in {"fit", "hole"} /\ r = [kind |-> r.kind, to |-> r.to]

\* An entity has evidence, and at most one socket, which bears its id.
IsEntity(e, i) ==
    /\ e = [scale |-> e.scale, parent |-> e.parent, path |-> e.path, says |-> e.says,
            clauses |-> e.clauses, evidence |-> e.evidence, green |-> e.green,
            sockets |-> e.sockets]
    /\ e.evidence # {}
    /\ \A k \in e.sockets : k = [id |-> i, resolution |-> k.resolution] /\ IsResolution(k.resolution)
    /\ \A k, l \in e.sockets : k = l
    /\ PlacedAs(e, i)

\* A snapshot of a tree, as a scan makes it, the lane describes it and a rebuild
\* brings it back.
Whole(s) ==
    /\ s = Snapshot(s.id, s.ents, s.top, s.edges)
    /\ s.id[1] \subseteq Files
    /\ s.ents = [i \in IdsOf(s.id[1]) |-> s.ents[i]]
    /\ \A i \in IdsOf(s.id[1]) : IsEntity(s.ents[i], i)
    /\ \A e \in s.edges : e.from \in IdsOf(s.id[1])

\* What a snapshot comes back as.
Rebuilt(text) ==
    LET decoded == decode_atlas_idx(text)
    IN Stored(Snapshot(decoded.id, decoded.ents, decoded.top, decoded.edges))

\* The sockets of an entity are read back with their fits and holes: there is one for an
\* entity at most, and it bears the id of the entity.
LEMMA SocketsBack ==
  ASSUME NEW s, NEW ids, ids = DOMAIN s.ents, \A i \in ids : IsEntity(s.ents[i], i), NEW text,
         Tagged(text, "socket") = SocketLines(s, ids),
         Tagged(text, "fit") \cup Tagged(text, "hole") = ResolutionLines(s, ids),
         NEW i \in ids
  PROVE  SocketsOf(text, i) = s.ents[i].sockets
<1> PICK socks : socks = s.ents[i].sockets
  OBVIOUS
<1>1. /\ \A k \in socks : k = [id |-> i, resolution |-> k.resolution] /\ IsResolution(k.resolution)
      /\ \A k, l \in socks : k = l
  BY DEF IsEntity
<1>2. ASSUME NEW j \in ids, NEW k \in s.ents[j].sockets PROVE k.id = j
  <2>1. k = [id |-> j, resolution |-> k.resolution]
    BY DEF IsEntity
  <2> QED BY <2>1
<1> PICK told : told = ResolutionLines(s, ids)
  OBVIOUS
<1> DEFINE about(id) == {l \in told : l.socket = id}
           back(k) == [id |-> k.id,
                       resolution |-> IF about(k.id) = {} THEN Unresolved
                                      ELSE LET l == CHOOSE l \in about(k.id) : TRUE
                                           IN [kind |-> l.tag, to |-> l.to]]
           those == {l \in SocketLines(s, ids) : l.entity = i}
<1>3. SocketsOf(text, i) = {back(k) : k \in those}
  BY DEF SocketsOf
<1>4. \A l \in those : l.id = i /\ socks # {}
  <2> SUFFICES ASSUME NEW l \in those PROVE l.id = i /\ socks # {}
    OBVIOUS
  <2>1. PICK j \in ids : l \in {[tag |-> "socket", id |-> k.id, entity |-> j] : k \in s.ents[j].sockets}
    BY DEF SocketLines
  <2>2. PICK k \in s.ents[j].sockets : l = [tag |-> "socket", id |-> k.id, entity |-> j]
    BY <2>1
  <2>3. j = i
    BY <2>2
  <2> QED BY <1>2, <2>2, <2>3
<1>5. socks # {} => \E l \in those : l.id = i
  <2> SUFFICES ASSUME NEW k \in socks PROVE \E l \in those : l.id = i
    OBVIOUS
  <2>1. PICK l : l = [tag |-> "socket", id |-> k.id, entity |-> i]
    OBVIOUS
  <2>2. l \in SocketLines(s, ids)
    BY <2>1 DEF SocketLines
  <2>3. k.id = i
    BY <1>2
  <2> QED BY <2>1, <2>2, <2>3
<1>6. ASSUME NEW k \in socks, k.resolution # Unresolved
      PROVE  about(i) = {[tag |-> k.resolution.kind, socket |-> i, to |-> k.resolution.to]}
  <2> PICK line : line = [tag |-> k.resolution.kind, socket |-> k.id, to |-> k.resolution.to]
    OBVIOUS
  <2>1. k.id = i
    BY <1>2
  <2>2. line \in told
    <3>1. line \in {[tag |-> m.resolution.kind, socket |-> m.id, to |-> m.resolution.to] :
              m \in {j \in s.ents[i].sockets : j.resolution # Unresolved}}
      BY <1>6
    <3> QED BY <3>1 DEF ResolutionLines
  <2>3. ASSUME NEW l \in about(i) PROVE l = line
    <3>1. PICK j \in ids : l \in {[tag |-> m.resolution.kind, socket |-> m.id, to |-> m.resolution.to] :
              m \in {n \in s.ents[j].sockets : n.resolution # Unresolved}}
      BY DEF ResolutionLines
    <3>2. PICK m \in s.ents[j].sockets :
              l = [tag |-> m.resolution.kind, socket |-> m.id, to |-> m.resolution.to]
      BY <3>1
    <3>3. j = i
      BY <1>2, <3>2
    <3>4. m = k
      BY <1>1, <3>3
    <3> QED BY <3>2, <3>4
  <2> QED BY <2>1, <2>2, <2>3
<1>7. ASSUME NEW k \in socks, k.resolution = Unresolved PROVE about(i) = {}
  <2> SUFFICES ASSUME NEW l \in about(i) PROVE FALSE
    OBVIOUS
  <2>1. PICK j \in ids : l \in {[tag |-> m.resolution.kind, socket |-> m.id, to |-> m.resolution.to] :
            m \in {n \in s.ents[j].sockets : n.resolution # Unresolved}}
    BY DEF ResolutionLines
  <2>2. PICK m \in s.ents[j].sockets : /\ m.resolution # Unresolved
            /\ l = [tag |-> m.resolution.kind, socket |-> m.id, to |-> m.resolution.to]
    BY <2>1
  <2>3. j = i
    BY <1>2, <2>2
  <2>4. m = k
    BY <1>1, <2>3
  <2> QED BY <1>7, <2>2, <2>4
<1>8. ASSUME NEW k \in socks, NEW l, l.id = i PROVE back(l) = k
  <2>1. k = [id |-> i, resolution |-> k.resolution] /\ IsResolution(k.resolution)
    BY <1>1
  <2>2. CASE k.resolution = Unresolved
    <3>1. about(l.id) = {}
      BY <1>7, <1>8, <2>2
    <3> QED BY <1>8, <2>1, <2>2, <3>1
  <2>3. CASE k.resolution # Unresolved
    <3>1. PICK line : line = [tag |-> k.resolution.kind, socket |-> i, to |-> k.resolution.to]
      OBVIOUS
    <3>2. about(l.id) = {line}
      BY <1>6, <1>8, <2>3, <3>1
    <3>3. (CHOOSE m \in about(l.id) : TRUE) = line /\ about(l.id) # {}
      BY <3>2
    <3>4. back(l) = [id |-> l.id, resolution |-> [kind |-> line.tag, to |-> line.to]]
      BY <3>3
    <3>5. k.resolution = [kind |-> k.resolution.kind, to |-> k.resolution.to]
      BY <2>1, <2>3 DEF IsResolution
    <3>6. line.tag = k.resolution.kind /\ line.to = k.resolution.to
      BY <3>1
    <3> QED BY <1>8, <2>1, <3>4, <3>5, <3>6
  <2> QED BY <2>2, <2>3
<1> HIDE DEF back, those
<1>9. CASE socks = {}
  <2>1. those = {}
    BY <1>4, <1>9
  <2> QED BY <1>3, <1>9, <2>1
<1>10. CASE socks # {}
  <2>1. PICK k \in socks : socks = {k}
    BY <1>1, <1>10
  <2>2. \A l \in those : back(l) = k
    BY <1>4, <1>8
  <2>3. PICK l \in those : l.id = i
    BY <1>5, <1>10
  <2> QED BY <1>3, <2>1, <2>2, <2>3
<1> QED BY <1>9, <1>10

\* A text that agrees with that of a snapshot in the lines that reach the database, and
\* says whatever else, comes back as all that survives.
LEMMA RoundTrip ==
  ASSUME NEW s, Whole(s), NEW text, text.snapshot = s.id,
         Agree(text, encode_atlas_idx(s, Galaxy))
  PROVE  Rebuilt(text) = Surviving(s)
<1> PICK ids, ents : ids = IdsOf(s.id[1]) /\ ents = s.ents
  OBVIOUS
<1>0. DOMAIN ents = ids /\ \A i \in ids : IsEntity(ents[i], i)
  BY DEF Whole
<1>1. Visible(s, Galaxy) = ids
  BY <1>0 DEF Visible
<1>2. Answers(s)
  BY <1>0 DEF Answers, IsEntity, IsResolution
<1>3. /\ Tagged(text, "entity") = EntityLines(s, ids)
      /\ Tagged(text, "edge") = EdgeLines(s, ids)
      /\ Tagged(text, "evidence") = EvidenceLines(s, ids)
      /\ Tagged(text, "green") = GreenLines(s, ids)
      /\ Tagged(text, "socket") = SocketLines(s, ids)
      /\ Tagged(text, "fit") \cup Tagged(text, "hole") = ResolutionLines(s, ids)
  <2>1. PICK seen : seen = Visible(s, Galaxy)
    OBVIOUS
  <2>2. /\ Tagged(text, "entity") = EntityLines(s, seen)
        /\ Tagged(text, "edge") = EdgeLines(s, seen)
        /\ Tagged(text, "evidence") = EvidenceLines(s, seen)
        /\ Tagged(text, "green") = GreenLines(s, seen)
        /\ Tagged(text, "socket") = SocketLines(s, seen)
        /\ Tagged(text, "fit") \cup Tagged(text, "hole") = ResolutionLines(s, seen)
    <3>1. PICK own : own = encode_atlas_idx(s, Galaxy)
      OBVIOUS
    <3>2. /\ Tagged(own, "entity") = EntityLines(s, seen)
          /\ Tagged(own, "edge") = EdgeLines(s, seen)
          /\ Tagged(own, "evidence") = EvidenceLines(s, seen)
          /\ Tagged(own, "green") = GreenLines(s, seen)
          /\ Tagged(own, "socket") = SocketLines(s, seen)
          /\ Tagged(own, "fit") \cup Tagged(own, "hole") = ResolutionLines(s, seen)
      BY <1>2, <2>1, <3>1, LinesByTag
    <3>3. \A tag \in Reaching : Tagged(text, tag) = Tagged(own, tag)
      BY <3>1 DEF Agree
    <3> QED BY <3>2, <3>3 DEF Reaching
  <2> QED BY <1>1, <2>1, <2>2
<1> DEFINE LineOf(i) == [tag |-> "entity", id |-> i, scale |-> ents[i].scale, parent |-> ents[i].parent,
                       path |-> ents[i].path]
<1>4. EntityLines(s, ids) = {LineOf(i) : i \in ids}
  BY DEF EntityLines
<1>5. {l.id : l \in EntityLines(s, ids)} = ids
  <2>1. \A l \in EntityLines(s, ids) : l.id \in ids
    BY <1>4
  <2>2. \A i \in ids : LineOf(i) \in EntityLines(s, ids) /\ LineOf(i).id = i
    BY <1>4
  <2> HIDE DEF LineOf
  <2> QED BY <2>1, <2>2
<1>6. ASSUME NEW i \in ids
      PROVE  (CHOOSE l \in EntityLines(s, ids) : l.id = i) = LineOf(i)
  <2>1. \A l \in EntityLines(s, ids) : l.id = i => l = LineOf(i)
    BY <1>4
  <2>2. LineOf(i) \in EntityLines(s, ids) /\ LineOf(i).id = i
    BY <1>4
  <2> HIDE DEF LineOf
  <2> QED BY <2>1, <2>2
<1>7. ASSUME NEW i \in ids PROVE GreenOf(text, i) = [code |-> ents[i].green.code, reasons |-> {}]
  <2> PICK code : code = ents[i].green.code
    OBVIOUS
  <2> PICK given : given = {l \in GreenLines(s, ids) : l.target = i}
    OBVIOUS
  <2>1. \A l \in given : l.code = code /\ code # Missing
    BY DEF GreenLines
  <2>2. ASSUME code # Missing PROVE given # {}
    <3>1. [tag |-> "green", target |-> i, code |-> code] \in GreenLines(s, ids)
      BY <2>2 DEF GreenLines
    <3> QED BY <3>1
  <2>3. GreenOf(text, i) = [code |-> IF given = {} THEN Missing ELSE (CHOOSE l \in given : TRUE).code,
                            reasons |-> {}]
    BY <1>3 DEF GreenOf
  <2> QED BY <2>1, <2>2, <2>3
<1>8. ASSUME NEW i \in ids PROVE EvidenceOf(text, i) = {Bare}
  <2>1. [tag |-> "evidence", target |-> i] \in EvidenceLines(s, ids)
    BY <1>0 DEF EvidenceLines, IsEntity
  <2>2. \E l \in EvidenceLines(s, ids) : l.target = i
    BY <2>1
  <2> QED BY <1>3, <2>2 DEF EvidenceOf
<1>9. ASSUME NEW i \in ids PROVE SocketsOf(text, i) = ents[i].sockets
  BY <1>0, <1>3, SocketsBack
<1>10. ASSUME NEW i \in ids
       PROVE  DecodedEntity(text, CHOOSE l \in EntityLines(s, ids) : l.id = i)
                = [scale |-> ents[i].scale, parent |-> ents[i].parent, path |-> ents[i].path,
                   says |-> {}, clauses |-> {}, evidence |-> {Bare},
                   green |-> [code |-> ents[i].green.code, reasons |-> {}],
                   sockets |-> ents[i].sockets]
  <2> HIDE DEF LineOf
  <2>1. PICK l : l = LineOf(i)
    OBVIOUS
  <2>2. l.scale = ents[i].scale /\ l.parent = ents[i].parent /\ l.path = ents[i].path /\ l.id = i
    BY <2>1 DEF LineOf
  <2>3. DecodedEntity(text, l)
                = [scale |-> ents[i].scale, parent |-> ents[i].parent, path |-> ents[i].path,
                   says |-> {}, clauses |-> {}, evidence |-> {Bare},
                   green |-> [code |-> ents[i].green.code, reasons |-> {}],
                   sockets |-> ents[i].sockets]
    BY <1>7, <1>8, <1>9, <2>2 DEF DecodedEntity
  <2> QED BY <1>6, <2>1, <2>3
<1>11. {DecodedEdge(l) : l \in EdgeLines(s, ids)}
          = {[from |-> e.from, to |-> e.to, kind |-> e.kind, evidence |-> {}] : e \in s.edges}
  <2> DEFINE line(e) == [tag |-> "edge", id |-> EdgeId(e), from |-> e.from, to |-> e.to, kind |-> e.kind]
             bare(e) == [from |-> e.from, to |-> e.to, kind |-> e.kind, evidence |-> {}]
  <2>1. EdgesSeen(s, ids) = s.edges
    BY DEF Whole, EdgesSeen
  <2>2. EdgeLines(s, ids) = {line(e) : e \in s.edges}
    BY <2>1 DEF EdgeLines
  <2>3. \A e \in s.edges : DecodedEdge(line(e)) = bare(e)
    BY DEF DecodedEdge
  <2> HIDE DEF line, bare
  <2>4. {DecodedEdge(l) : l \in EdgeLines(s, ids)} = {bare(e) : e \in s.edges}
    BY <2>2, <2>3
  <2> QED BY <2>4 DEF bare
<1>12. decode_atlas_idx(text).id = s.id /\ decode_atlas_idx(text).top = Missing
  BY DEF decode_atlas_idx
<1>13. decode_atlas_idx(text).edges
          = {[from |-> e.from, to |-> e.to, kind |-> e.kind, evidence |-> {}] : e \in s.edges}
  BY <1>3, <1>11 DEF decode_atlas_idx
<1>14. decode_atlas_idx(text).ents
         = [i \in ids |-> [scale |-> ents[i].scale, parent |-> ents[i].parent, path |-> ents[i].path,
                   says |-> {}, clauses |-> {}, evidence |-> {Bare},
                   green |-> [code |-> ents[i].green.code, reasons |-> {}],
                   sockets |-> ents[i].sockets]]
  BY <1>3, <1>5, <1>10 DEF decode_atlas_idx
<1> QED BY <1>0, <1>12, <1>13, <1>14 DEF Rebuilt, Surviving, Stored, Snapshot

\* What survives of a snapshot is a snapshot of the same tree, and survives as it is.
LEMMA SurvivingWhole ==
  ASSUME NEW s, Whole(s)
  PROVE  Whole(Surviving(s)) /\ Surviving(s).id = s.id /\ Surviving(Surviving(s)) = Surviving(s)
<1> PICK ids, ents : ids = IdsOf(s.id[1]) /\ ents = s.ents
  OBVIOUS
<1>0. DOMAIN ents = ids /\ (\A i \in ids : IsEntity(ents[i], i)) /\ \A e \in s.edges : e.from \in ids
  BY DEF Whole
<1> DEFINE kept(e) == [scale |-> e.scale, parent |-> e.parent, path |-> e.path, says |-> {},
                       clauses |-> {}, evidence |-> {Bare},
                       green |-> [code |-> e.green.code, reasons |-> {}], sockets |-> e.sockets]
           bare(e) == [from |-> e.from, to |-> e.to, kind |-> e.kind, evidence |-> {}]
           new == [i \in ids |-> kept(ents[i])]
           left == {bare(e) : e \in s.edges}
<1>1. Surviving(s) = Snapshot(s.id, new, Missing, left)
  BY <1>0 DEF Surviving
<1>2. \A e : kept(kept(e)) = kept(e)
  OBVIOUS
<1>3. \A e : bare(bare(e)) = bare(e)
  OBVIOUS
<1>4. \A i \in ids : IsEntity(kept(ents[i]), i)
  <2> SUFFICES ASSUME NEW i \in ids PROVE IsEntity(kept(ents[i]), i)
    OBVIOUS
  <2>1. IsEntity(ents[i], i)
    BY <1>0
  <2>2. PICK e : e = kept(ents[i])
    OBVIOUS
  <2>3. e.sockets = ents[i].sockets /\ e.scale = ents[i].scale /\ e.parent = ents[i].parent
        /\ e.path = ents[i].path /\ e.evidence = {Bare}
    BY <2>2
  <2>4. e = [scale |-> e.scale, parent |-> e.parent, path |-> e.path, says |-> e.says,
            clauses |-> e.clauses, evidence |-> e.evidence, green |-> e.green,
            sockets |-> e.sockets]
    BY <2>2
  <2>5. PlacedAs(e, i)
    BY <2>1, <2>3 DEF IsEntity, PlacedAs
  <2>6. e.evidence # {}
    BY <2>3
  <2>7. /\ \A k \in e.sockets : k = [id |-> i, resolution |-> k.resolution] /\ IsResolution(k.resolution)
        /\ \A k, l \in e.sockets : k = l
    BY <2>1, <2>3 DEF IsEntity
  <2>8. IsEntity(e, i)
    BY <2>4, <2>5, <2>6, <2>7 DEF IsEntity
  <2> QED BY <2>2, <2>8
<1>5. \A e \in left : e.from \in ids
  BY <1>0
<1>6. PICK t : t = Surviving(s)
  OBVIOUS
<1>7. t = Snapshot(t.id, t.ents, t.top, t.edges) /\ t.id = s.id /\ t.ents = new /\ t.edges = left
  BY <1>1, <1>6 DEF Snapshot
<1>8. \A i \in ids : IsEntity(t.ents[i], i)
  BY <1>4, <1>7
<1>9. t.ents = [i \in ids |-> t.ents[i]] /\ DOMAIN t.ents = ids /\ \A i \in ids : t.ents[i] = kept(ents[i])
  BY <1>7
<1>10. Whole(t)
  <2>1. s.id[1] \subseteq Files
    BY DEF Whole
  <2> QED BY <1>5, <1>7, <1>8, <1>9, <2>1 DEF Whole
<1>11. Surviving(t) = t
  <2> HIDE DEF kept, bare
  <2>1. [i \in DOMAIN t.ents |-> kept(t.ents[i])] = new
    BY <1>2, <1>9
  <2>2. {bare(e) : e \in t.edges} = left
    BY <1>3, <1>7
  <2>3. Surviving(t) = Snapshot(t.id, [i \in DOMAIN t.ents |-> kept(t.ents[i])], Missing,
                                {bare(e) : e \in t.edges})
    BY DEF Surviving, kept, bare
  <2> QED BY <1>1, <1>6, <1>7, <2>1, <2>2, <2>3
<1> QED BY <1>6, <1>7, <1>10, <1>11

\* Storing a snapshot keeps all of it but the order of its listing.
LEMMA StoredWhole ==
  ASSUME NEW s, Whole(s)
  PROVE  Whole(Stored(s)) /\ Surviving(Stored(s)) = Surviving(s) /\ Stored(s).id = s.id
         /\ Stored(s).ents = s.ents /\ Stored(s).edges = s.edges
<1>1. PICK t : t = Stored(s)
  OBVIOUS
<1>2. t.id = s.id /\ t.ents = s.ents /\ t.edges = s.edges /\ t = Snapshot(t.id, t.ents, t.top, t.edges)
  BY <1>1 DEF Stored, Snapshot
<1>3. Whole(t)
  BY <1>2 DEF Whole
<1>4. Surviving(t) = Surviving(s)
  BY <1>2 DEF Surviving
<1> QED BY <1>1, <1>2, <1>3, <1>4

\* A thing made with at most one socket, in its place, is an entity.
LEMMA IsMade ==
  ASSUME NEW scale, NEW parent, NEW path, NEW says, NEW clauses, NEW sockets, NEW i,
         PlacedAs(Entity(scale, parent, path, says, clauses, sockets), i),
         \A k \in sockets : k = [id |-> i, resolution |-> k.resolution] /\ IsResolution(k.resolution),
         \A k, l \in sockets : k = l
  PROVE  IsEntity(Entity(scale, parent, path, says, clauses, sockets), i)
<1>1. PICK e : e = Entity(scale, parent, path, says, clauses, sockets)
  OBVIOUS
<1>2. e.evidence # {} /\ e.sockets = sockets
  BY <1>1 DEF Entity
<1>3. e = [scale |-> e.scale, parent |-> e.parent, path |-> e.path, says |-> e.says,
            clauses |-> e.clauses, evidence |-> e.evidence, green |-> e.green,
            sockets |-> e.sockets]
  BY <1>1 DEF Entity
<1>4. IsEntity(e, i)
  BY <1>1, <1>2, <1>3 DEF IsEntity
<1> QED BY <1>1, <1>4

\* What a thing is follows from its id.
LEMMA Kinds ==
  ASSUME NEW t \in SUBSET Files, NEW i \in IdsOf(t)
  PROVE  \/ i = Universe
         \/ i = Project
         \/ i = System(i.of[1]) /\ i.kind = "system" /\ \E p \in t : i = System(SystemName(p))
         \/ i = Planet(i.of) /\ i.kind = "planet" /\ \E p \in t : i.of = PlanetName(p)
         \/ i = File(i.of) /\ i.kind = "file" /\ i.of \in t
         \/ i = Symbol(i.of) /\ i.kind = "symbol" /\ i.of \in t \cap Exporting
BY DEF IdsOf, Universe, Project, System, Planet, File, Symbol, Id

\* The entities a scan makes.
LEMMA ScanMakes ==
  ASSUME NEW t \in SUBSET Files, NEW g, NEW i \in IdsOf(t)
  PROVE  IsEntity(ScanOf(t, g)[i], i)
<1> PICK e : e = ScanOf(t, g)[i]
  OBVIOUS
<1>1. IsResolution(Resolution(t)) /\ IsResolution(Unresolved)
  BY DEF Resolution, IsResolution
<1>2. CASE i = Universe
  <2>2. i.kind = "universe"
    BY <1>2 DEF Universe, Id
  <2>3. i # Project
    BY <2>2 DEF Project, Id
  <2>1. e = Entity("universe", Missing, Missing, {}, {}, {})
    BY <1>2, <2>2, <2>3 DEF ScanOf
  <2>4. PlacedAs(e, i)
    BY <2>1, <2>2, <2>3 DEF PlacedAs, Entity
  <2> QED BY <2>1, <2>4, IsMade
<1>3. CASE i = Project
  <2>0. i.kind = "galaxy"
    BY <1>3 DEF Project, Id
  <2>1. i # Universe
    BY <2>0 DEF Universe, Id
  <2>2. PICK says : says = {IF g = {} THEN "uncertain" ELSE "protected"}
    OBVIOUS
  <2>3. e = Entity("galaxy", Universe, Missing, says, g, {})
    BY <1>3, <2>0, <2>1, <2>2 DEF ScanOf
  <2>4. PlacedAs(e, i)
    BY <2>0, <2>1, <2>3, <1>3 DEF PlacedAs, Entity
  <2> QED BY <2>3, <2>4, IsMade
<1>4. ASSUME i # Universe, i # Project PROVE IsEntity(e, i)
  <2>1. CASE i.kind = "system"
    <3>1. e = Entity("system", Project, i.of, {}, {}, {})
      BY <1>4, <2>1 DEF ScanOf
    <3>2. PlacedAs(e, i)
      BY <1>4, <2>1, <3>1 DEF PlacedAs, Entity
    <3> QED BY <3>1, <3>2, IsMade
  <2>2. CASE i.kind = "planet"
    <3>1. e = Entity("planet", System(i.of[1]), i.of, {}, {}, {})
      BY <1>4, <2>2 DEF ScanOf
    <3>2. PlacedAs(e, i)
      BY <1>4, <2>2, <3>1 DEF PlacedAs, Entity
    <3> QED BY <3>1, <3>2, IsMade
  <2>3. CASE i.kind = "file"
    <3>1. PICK sockets : /\ e = Entity("moon", Planet(PlanetName(i.of)), i.of, {"summary"}, {}, sockets)
                         /\ sockets \subseteq {[id |-> Required(i.of), resolution |-> Resolution(t)]}
      BY <1>4, <2>3 DEF ScanOf
    <3>2. PlacedAs(e, i)
      BY <1>4, <2>3, <3>1 DEF PlacedAs, Entity
    <3>3. Required(i.of) = i
      BY <1>4, <2>3, Kinds DEF Required
    <3>4. PICK k : k = [id |-> i, resolution |-> Resolution(t)]
      OBVIOUS
    <3>5. k = [id |-> i, resolution |-> k.resolution] /\ IsResolution(k.resolution)
      BY <1>1, <3>4
    <3>6. sockets \subseteq {k}
      BY <3>1, <3>3, <3>4
    <3>7. \A l \in sockets : l = [id |-> i, resolution |-> l.resolution] /\ IsResolution(l.resolution)
      BY <3>5, <3>6
    <3>8. \A l, m \in sockets : l = m
      BY <3>6
    <3> QED BY <3>1, <3>2, <3>7, <3>8, IsMade
  <2>4. CASE i.kind = "symbol"
    <3>1. e = Entity("moon", File(i.of), i.of, {"span"}, {}, {[id |-> Provided(i.of), resolution |-> Unresolved]})
      BY <1>4, <2>4 DEF ScanOf
    <3>2. PlacedAs(e, i)
      BY <1>4, <2>4, <3>1 DEF PlacedAs, Entity
    <3>3. Provided(i.of) = i
      BY <1>4, <2>4, Kinds DEF Provided
    <3>4. PICK k : k = [id |-> i, resolution |-> Unresolved]
      OBVIOUS
    <3>5. k = [id |-> i, resolution |-> k.resolution] /\ IsResolution(k.resolution)
      BY <1>1, <3>4
    <3>6. PICK sockets : sockets = {k}
      OBVIOUS
    <3>7. \A l \in sockets : l = [id |-> i, resolution |-> l.resolution] /\ IsResolution(l.resolution)
      BY <3>5, <3>6
    <3>8. \A l, m \in sockets : l = m
      BY <3>6
    <3>9. e = Entity("moon", File(i.of), i.of, {"span"}, {}, sockets)
      BY <3>1, <3>3, <3>4, <3>6
    <3> QED BY <3>2, <3>7, <3>8, <3>9, IsMade
  <2> QED BY <1>4, <2>1, <2>2, <2>3, <2>4, Kinds
<1> QED BY <1>2, <1>3, <1>4

\* An entity with other things said of it, or another colour, is the same entity.
LEMMA SaidOtherwise ==
  ASSUME NEW e, NEW i, IsEntity(e, i), NEW f, NEW says, NEW green,
         f = [scale |-> e.scale, parent |-> e.parent, path |-> e.path, says |-> says,
              clauses |-> e.clauses, evidence |-> e.evidence, green |-> green,
              sockets |-> e.sockets]
  PROVE  IsEntity(f, i)
<1>1. f.scale = e.scale /\ f.parent = e.parent /\ f.path = e.path /\ f.evidence = e.evidence
      /\ f.sockets = e.sockets
  OBVIOUS
<1>2. f = [scale |-> f.scale, parent |-> f.parent, path |-> f.path, says |-> f.says,
            clauses |-> f.clauses, evidence |-> f.evidence, green |-> f.green,
            sockets |-> f.sockets]
  OBVIOUS
<1>3. PlacedAs(f, i)
  BY <1>1 DEF IsEntity, PlacedAs
<1> QED BY <1>1, <1>2, <1>3 DEF IsEntity

-----------------------------------------------------------------------------
(* The matcher.                                                            *)

\* Any numbers have a least among them: the induction the proofs below rest on.
\* Places that are bounded have a last one.
LEMMA LastExists ==
  ASSUME NEW place, DOMAIN place # {}, NEW b \in Nat, \A i \in DOMAIN place : place[i] \in 0 .. b
  PROVE  LastOf(place) \in DOMAIN place
<1> DEFINE back == {b - place[i] : i \in DOMAIN place}
<1>1. back \in SUBSET Nat /\ back # {}
  OBVIOUS
<1>2. PICK m \in back : \A k \in back : m <= k
  <2> HIDE DEF back
  <2> QED BY <1>1, Least
<1>3. PICK i \in DOMAIN place : m = b - place[i]
  BY <1>2
<1>4. \A j \in DOMAIN place : place[j] <= place[i]
  <2> SUFFICES ASSUME NEW j \in DOMAIN place PROVE place[j] <= place[i]
    OBVIOUS
  <2>1. b - place[i] <= b - place[j]
    BY <1>2, <1>3
  <2> QED BY <2>1
<1> QED BY <1>4 DEF LastOf

\* Of the groups of a scan that stand at the top one is the last, in either order.
Standing(s) == s.id[1] # {} => s.top \in IdsOf(s.id[1]) /\ AtTop(s.top)

\* Ids of different kinds differ, and say what they are of.
LEMMA IdKinds ==
  /\ Universe.kind = "universe" /\ Project.kind = "galaxy"
  /\ \A n : System(n).kind = "system" /\ System(n).of = <<n>>
  /\ \A n : Planet(n).kind = "planet" /\ Planet(n).of = n
  /\ \A n : File(n).kind = "file" /\ File(n).of = n
  /\ \A n : Symbol(n).kind = "symbol" /\ Symbol(n).of = n
BY DEF Universe, Project, System, Planet, File, Symbol, Id

\* What a file brings with it.
LEMMA GroupsOf ==
  ASSUME NEW t \in SUBSET Files
  PROVE  /\ \A p \in t : System(SystemName(p)) \in IdsOf(t) /\ Planet(PlanetName(p)) \in IdsOf(t)
                         /\ File(p) \in IdsOf(t)
         /\ \A p \in t \cap Exporting : Symbol(p) \in IdsOf(t)
         /\ Universe \in IdsOf(t) /\ Project \in IdsOf(t)
BY DEF IdsOf

\* In the order of the scan: every group is that of some first file.
LEMMA DiscoveredStands ==
  ASSUME NEW t \in SUBSET Files, t # {}
  PROVE  Discovered(t) \in IdsOf(t) /\ AtTop(Discovered(t))
<1> DEFINE groups(p) == {System(SystemName(p)), Planet(PlanetName(p))}
           is(i, n) == /\ ScanOrder[n] \in t /\ i \in groups(ScanOrder[n])
                       /\ \A m \in 1 .. n - 1 : ScanOrder[m] \in t => i \notin groups(ScanOrder[m])
           first(i) == CHOOSE n \in DOMAIN ScanOrder : is(i, n)
           all == UNION {groups(p) : p \in t}
           tops == {j \in all : AtTop(j)}
           place == [i \in tops |-> 2 * first(i) + (IF i.kind = "system" THEN 0 ELSE 1)]
<1>1. Discovered(t) = LastOf(place)
  BY DEF Discovered
<1>2. all \subseteq IdsOf(t)
  BY GroupsOf
<1>3. tops # {}
  <2>1. PICK p : p \in t
    OBVIOUS
  <2>2. System(SystemName(p)) \in all /\ AtTop(System(SystemName(p)))
    BY <2>1, IdKinds DEF AtTop
  <2> HIDE DEF all
  <2> QED BY <2>2
<1>4. ScanOrder \in Seq(Files) /\ DOMAIN ScanOrder = 1 .. Len(ScanOrder) /\ Len(ScanOrder) \in Nat
  BY CodecAssumption
<1>5. \A p \in Files : \E n \in DOMAIN ScanOrder : p = ScanOrder[n]
  BY DEF Files, Range
<1>6. ASSUME NEW i \in all PROVE first(i) \in DOMAIN ScanOrder
  <2>1. PICK p \in t : i \in groups(p)
    OBVIOUS
  <2>2. PICK n \in DOMAIN ScanOrder : p = ScanOrder[n]
    BY <1>5
  <2> DEFINE at == {k \in DOMAIN ScanOrder : ScanOrder[k] \in t /\ i \in groups(ScanOrder[k])}
  <2>3. at \in SUBSET Nat /\ at # {}
    BY <1>4, <2>1, <2>2
  <2>4. PICK k \in at : \A l \in at : k <= l
    <3> HIDE DEF at
    <3> QED BY <2>3, Least
  <2>5. is(i, k) /\ k \in DOMAIN ScanOrder
    <3> HIDE DEF groups
    <3>1. ASSUME NEW m \in 1 .. k - 1, ScanOrder[m] \in t, i \in groups(ScanOrder[m]) PROVE FALSE
      <4>1. m \in DOMAIN ScanOrder /\ k \in DOMAIN ScanOrder /\ m < k
        BY <1>4, <2>4
      <4>2. m \in at
        BY <3>1, <4>1
      <4> QED BY <1>4, <2>4, <4>1, <4>2
    <3> QED BY <2>4, <3>1
  <2> HIDE DEF is
  <2> QED BY <2>5
<1> HIDE DEF first, all
<1>7. \A i \in DOMAIN place : place[i] \in 0 .. 2 * Len(ScanOrder) + 1
  BY <1>4, <1>6
<1>8. LastOf(place) \in tops
  <2>1. DOMAIN place = tops /\ 2 * Len(ScanOrder) + 1 \in Nat
    BY <1>4
  <2> HIDE DEF place, tops
  <2> QED BY <1>3, <1>7, <2>1, LastExists
<1> QED BY <1>1, <1>2, <1>8

\* In the order of a load: every system has a place among the names.
LEMMA ByNameStands ==
  ASSUME NEW t \in SUBSET Files, t # {}, NEW ents, DOMAIN ents = IdsOf(t)
  PROVE  ByName(ents) \in IdsOf(t) /\ AtTop(ByName(ents))
<1> DEFINE tops == {j \in DOMAIN ents : AtTop(j)}
           at(i) == CHOOSE n \in DOMAIN Systems : Systems[n] = i.of[1]
           place == [i \in tops |-> IF i.kind = "system" THEN at(i) ELSE 0]
<1>1. ByName(ents) = LastOf(place)
  BY DEF ByName
<1>3. tops # {}
  <2>1. PICK p : p \in t
    OBVIOUS
  <2>2. System(SystemName(p)) \in IdsOf(t) /\ AtTop(System(SystemName(p)))
    BY <2>1, IdKinds, GroupsOf DEF AtTop
  <2> QED BY <2>2
<1>4. Systems \in Seq(Range(Systems)) /\ DOMAIN Systems = 1 .. Len(Systems) /\ Len(Systems) \in Nat
  BY CodecAssumption
<1>5. \A n \in Range(Systems) : \E k \in DOMAIN Systems : n = Systems[k]
  BY DEF Range
<1>6. \A p \in t : SystemName(p) \in Range(Systems)
  BY CodecAssumption DEF SystemName
<1>7. ASSUME NEW i \in tops, i.kind = "system" PROVE at(i) \in DOMAIN Systems
  <2>1. PICK p \in t : i = System(SystemName(p))
    BY <1>7, Kinds, IdKinds
  <2>2. i.of[1] = SystemName(p)
    BY <2>1, IdKinds
  <2>3. \E n \in DOMAIN Systems : Systems[n] = i.of[1]
    BY <1>5, <1>6, <2>2
  <2> QED BY <2>3
<1> HIDE DEF at
<1>8. \A i \in DOMAIN place : place[i] \in 0 .. Len(Systems)
  BY <1>4, <1>7
<1>9. LastOf(place) \in tops
  <2>1. DOMAIN place = tops
    OBVIOUS
  <2> HIDE DEF place, tops
  <2> QED BY <1>3, <1>4, <1>8, <2>1, LastExists
<1> QED BY <1>1, <1>9

\* An entity of which one field is set is what it was in every other one.
LEMMA FieldSet ==
  ASSUME NEW e, NEW i, IsEntity(e, i), NEW x
  PROVE  /\ [e EXCEPT !.says = x]
                = [scale |-> e.scale, parent |-> e.parent, path |-> e.path, says |-> x,
                   clauses |-> e.clauses, evidence |-> e.evidence, green |-> e.green,
                   sockets |-> e.sockets]
         /\ [e EXCEPT !.green = x]
                = [scale |-> e.scale, parent |-> e.parent, path |-> e.path, says |-> e.says,
                   clauses |-> e.clauses, evidence |-> e.evidence, green |-> x,
                   sockets |-> e.sockets]
         /\ [e EXCEPT !.parent = x]
                = [scale |-> e.scale, parent |-> x, path |-> e.path, says |-> e.says,
                   clauses |-> e.clauses, evidence |-> e.evidence, green |-> e.green,
                   sockets |-> e.sockets]
<1> PICK sc, pa, pt, sa, cl, ev, gr, so :
      /\ sc = e.scale /\ pa = e.parent /\ pt = e.path /\ sa = e.says
      /\ cl = e.clauses /\ ev = e.evidence /\ gr = e.green /\ so = e.sockets
  OBVIOUS
<1>1. e = [scale |-> sc, parent |-> pa, path |-> pt, says |-> sa,
            clauses |-> cl, evidence |-> ev, green |-> gr, sockets |-> so]
  BY DEF IsEntity
<1>2. [[scale |-> sc, parent |-> pa, path |-> pt, says |-> sa,
            clauses |-> cl, evidence |-> ev, green |-> gr, sockets |-> so]
              EXCEPT !.says = x]
             = [scale |-> sc, parent |-> pa, path |-> pt, says |-> x,
            clauses |-> cl, evidence |-> ev, green |-> gr, sockets |-> so]
  OBVIOUS
<1>3. [[scale |-> sc, parent |-> pa, path |-> pt, says |-> sa,
            clauses |-> cl, evidence |-> ev, green |-> gr, sockets |-> so]
              EXCEPT !.green = x]
             = [scale |-> sc, parent |-> pa, path |-> pt, says |-> sa,
            clauses |-> cl, evidence |-> ev, green |-> x, sockets |-> so]
  OBVIOUS
<1>4. [[scale |-> sc, parent |-> pa, path |-> pt, says |-> sa,
            clauses |-> cl, evidence |-> ev, green |-> gr, sockets |-> so]
              EXCEPT !.parent = x]
             = [scale |-> sc, parent |-> x, path |-> pt, says |-> sa,
            clauses |-> cl, evidence |-> ev, green |-> gr, sockets |-> so]
  OBVIOUS
<1>5. [e EXCEPT !.says = x]
             = [scale |-> sc, parent |-> pa, path |-> pt, says |-> x,
            clauses |-> cl, evidence |-> ev, green |-> gr, sockets |-> so]
  BY <1>1, <1>2, Zenon
<1>6. [e EXCEPT !.green = x]
             = [scale |-> sc, parent |-> pa, path |-> pt, says |-> sa,
            clauses |-> cl, evidence |-> ev, green |-> x, sockets |-> so]
  BY <1>1, <1>3, Zenon
<1>7. [e EXCEPT !.parent = x]
             = [scale |-> sc, parent |-> x, path |-> pt, says |-> sa,
            clauses |-> cl, evidence |-> ev, green |-> gr, sockets |-> so]
  BY <1>1, <1>4, Zenon
<1> QED BY <1>5, <1>6, <1>7, Zenon

\* So another summary leaves it the entity it was.
LEMMA SaysSet ==
  ASSUME NEW e, NEW i, IsEntity(e, i), NEW x
  PROVE  IsEntity([e EXCEPT !.says = x], i)
<1>1. PICK f : f = [scale |-> e.scale, parent |-> e.parent, path |-> e.path, says |-> x,
                    clauses |-> e.clauses, evidence |-> e.evidence, green |-> e.green,
                    sockets |-> e.sockets]
  OBVIOUS
<1>2. IsEntity(f, i)
  BY <1>1, SaidOtherwise
<1>3. [e EXCEPT !.says = x] = f
  BY <1>1, FieldSet, Zenon
<1> QED BY <1>2, <1>3

\* And so does another colour.
LEMMA GreenSet ==
  ASSUME NEW e, NEW i, IsEntity(e, i), NEW x
  PROVE  IsEntity([e EXCEPT !.green = x], i)
<1>1. PICK f : f = [scale |-> e.scale, parent |-> e.parent, path |-> e.path, says |-> e.says,
                    clauses |-> e.clauses, evidence |-> e.evidence, green |-> x,
                    sockets |-> e.sockets]
  OBVIOUS
<1>2. IsEntity(f, i)
  BY <1>1, SaidOtherwise
<1>3. [e EXCEPT !.green = x] = f
  BY <1>1, FieldSet, Zenon
<1> QED BY <1>2, <1>3

\* The parent of a thing is one of the tree's things too.
LEMMA ParentThere ==
  ASSUME NEW t \in SUBSET Files, NEW i \in IdsOf(t), i # Universe, NEW e, IsEntity(e, i)
  PROVE  e.parent \in IdsOf(t)
<1>0. PlacedAs(e, i)
  BY DEF IsEntity
<1>1. CASE i = Project
  BY <1>0, <1>1, GroupsOf DEF PlacedAs
<1>2. CASE i.kind = "system"
  BY <1>0, <1>2, GroupsOf DEF PlacedAs
<1>3. CASE i.kind = "planet"
  <2>1. PICK p \in t : i.of = PlanetName(p)
    BY <1>3, Kinds, IdKinds
  <2>2. p \in Seq(UNION {Range(q) : q \in Files}) /\ Len(p) > 0
    BY CodecAssumption
  <2>3. PlanetName(p)[1] = SystemName(p)
    BY <2>2 DEF PlanetName, SystemName, Front
  <2>4. e.parent = System(SystemName(p))
    BY <1>0, <1>3, <2>1, <2>3 DEF PlacedAs
  <2> QED BY <2>4, GroupsOf
<1>4. CASE i.kind = "file"
  <2>1. i.of \in t
    BY <1>4, Kinds, IdKinds
  <2> QED BY <1>0, <1>4, <2>1, GroupsOf DEF PlacedAs
<1>5. CASE i.kind = "symbol"
  <2>1. i.of \in t
    BY <1>5, Kinds, IdKinds
  <2> QED BY <1>0, <1>5, <2>1, GroupsOf DEF PlacedAs
<1> QED BY <1>1, <1>2, <1>3, <1>4, <1>5, Kinds

\* What a scan makes of a tree is whole, and one of its groups stands at the top.
LEMMA ScanWhole ==
  ASSUME tree \in SUBSET Files, Scan
  PROVE  \E s : /\ Whole(s) /\ Standing(s) /\ write_projections(s)
                /\ db' = Stored(s) /\ wrote' = Stored(s)
                /\ ~altered' /\ UNCHANGED tree
<1> DEFINE fresh == ScanOf(tree, goals)
           known(i) == IF db # Missing /\ i \in DOMAIN db.ents THEN db.ents[i].says \cap {"inferred"}
                                                               ELSE {}
           described == [i \in DOMAIN fresh |-> [fresh[i] EXCEPT !.says = @ \cup known(i)]]
           coloured == [i \in DOMAIN fresh |->
                       [described[i] EXCEPT !.green = [code |-> Colour(tree, i), reasons |-> {"given"}]]]
           snapshot == Snapshot(<<tree, goals>>, coloured, Discovered(tree), EdgesOf(tree, fresh))
<1>1. /\ write_projections(snapshot) /\ db' = Stored(snapshot) /\ wrote' = Stored(snapshot)
      /\ ~altered' /\ UNCHANGED tree
  BY DEF Scan
<1> PICK ids : ids = IdsOf(tree)
  OBVIOUS
<1>2. DOMAIN fresh = ids
  BY DEF ScanOf
<1>3. \A i \in ids : IsEntity(fresh[i], i)
  BY ScanMakes
<1> HIDE DEF fresh
<1>4. ASSUME NEW i \in ids PROVE IsEntity(coloured[i], i)
  <2>1. IsEntity([fresh[i] EXCEPT !.says = fresh[i].says \cup known(i)], i)
    BY <1>3, SaysSet
  <2>2. described[i] = [fresh[i] EXCEPT !.says = fresh[i].says \cup known(i)]
    BY <1>2, Zenon
  <2>3. IsEntity(described[i], i)
    BY <2>1, <2>2
  <2> HIDE DEF described
  <2>4. PICK g : g = [code |-> Colour(tree, i), reasons |-> {"given"}]
    OBVIOUS
  <2>5. IsEntity([described[i] EXCEPT !.green = g], i)
    BY <2>3, GreenSet
  <2>6. coloured[i] = [described[i] EXCEPT !.green = g]
    BY <1>2, <2>4, Zenon
  <2> QED BY <2>5, <2>6
<1>5. \A e \in EdgesOf(tree, fresh) : e.from \in ids
  <2> SUFFICES ASSUME NEW e \in EdgesOf(tree, fresh) PROVE e.from \in ids
    OBVIOUS
  <2>1. CASE \E i \in ids \ {Universe} : e = Edge(fresh[i].parent, i, "contains")
    BY <1>3, <2>1, ParentThere DEF Edge
  <2>2. CASE \E p \in tree, q \in tree : e = Edge(File(p), File(q), "imports")
    BY <2>2, GroupsOf DEF Edge
  <2> QED BY <1>2, <2>1, <2>2 DEF EdgesOf
<1> HIDE DEF coloured
<1>6. PICK s : s = snapshot
  OBVIOUS
<1>7. DOMAIN coloured = ids /\ coloured = [i \in ids |-> coloured[i]]
  BY <1>2 DEF coloured
<1>8. /\ s = Snapshot(s.id, s.ents, s.top, s.edges) /\ s.id[1] = tree /\ s.ents = coloured
      /\ s.top = Discovered(tree) /\ s.edges = EdgesOf(tree, fresh)
  BY <1>6 DEF Snapshot
<1>9. Whole(s)
  BY <1>4, <1>5, <1>7, <1>8 DEF Whole
<1>10. Standing(s)
  BY <1>8, DiscoveredStands DEF Standing
<1> QED BY <1>1, <1>6, <1>9, <1>10

\* And so is what the lane makes of a snapshot that is.
LEMMA LaneWhole ==
  ASSUME Whole(db), ~altered, Lane
  PROVE  \E s : /\ Whole(s) /\ Standing(s) /\ write_projections(s)
                /\ db' = Stored(s) /\ wrote' = Stored(s)
                /\ ~altered' /\ UNCHANGED tree
<1>1. PICK i \in DOMAIN db.ents :
        LET described == [db.ents EXCEPT ![i].says = @ \cup {"inferred"}]
            snapshot  == Snapshot(db.id, described, Loaded(db).top, db.edges)
        IN /\ db' = Stored(snapshot)
           /\ write_projections(snapshot)
           /\ wrote' = Stored(snapshot)
  BY Zenon DEF Lane
<1> PICK ids, ents : ids = IdsOf(db.id[1]) /\ ents = db.ents
  OBVIOUS
<1>0. /\ DOMAIN ents = ids /\ (\A j \in ids : IsEntity(ents[j], j)) /\ \A e \in db.edges : e.from \in ids
      /\ db.id[1] \subseteq Files
  BY DEF Whole
<1> PICK x : x = ents[i].says \cup {"inferred"}
  OBVIOUS
<1> DEFINE described == [ents EXCEPT ![i].says = x]
           snapshot  == Snapshot(db.id, described, Loaded(db).top, db.edges)
<1>2. described = [j \in ids |-> IF j = i THEN [ents[i] EXCEPT !.says = x] ELSE ents[j]]
  BY <1>0, Zenon
<1>3. db' = Stored(snapshot) /\ write_projections(snapshot) /\ wrote' = Stored(snapshot)
  BY <1>1
<1> HIDE DEF described
<1>4. \A j \in ids : IsEntity(described[j], j)
  <2>1. IsEntity([ents[i] EXCEPT !.says = x], i)
    BY <1>0, SaysSet
  <2>2. PICK f : f = [ents[i] EXCEPT !.says = x]
    OBVIOUS
  <2>3. described = [j \in ids |-> IF j = i THEN f ELSE ents[j]]
    BY <1>2, <2>2
  <2> QED BY <1>0, <2>1, <2>2, <2>3
<1>5. DOMAIN described = ids /\ described = [j \in ids |-> described[j]]
  BY <1>2
<1>6. PICK s : s = snapshot
  OBVIOUS
<1>7. /\ s = Snapshot(s.id, s.ents, s.top, s.edges) /\ s.id = db.id /\ s.ents = described
      /\ s.top = ByName(ents) /\ s.edges = db.edges
  BY <1>6 DEF Snapshot, Loaded
<1>8. Whole(s)
  BY <1>0, <1>4, <1>5, <1>7 DEF Whole
<1>9. Standing(s)
  BY <1>0, <1>7, ByNameStands DEF Standing
<1>10. ~altered' /\ UNCHANGED tree
  BY DEF Lane
<1> QED BY <1>3, <1>6, <1>8, <1>9, <1>10

-----------------------------------------------------------------------------
(* The ATLAS.idx tree: where its pointers lead.                            *)

\* What directories and files may be named.
Names == UNION {Range(p) : p \in Files}

\* The first segments of a path.
LEMMA Cuts ==
  ASSUME NEW S, NEW p \in Seq(S), NEW n \in 0 .. Len(p)
  PROVE  /\ SubSeq(p, 1, n) \in Seq(S) /\ Len(SubSeq(p, 1, n)) = n
         /\ \A i \in 1 .. n : SubSeq(p, 1, n)[i] = p[i]
         /\ \A m \in 0 .. n : SubSeq(SubSeq(p, 1, n), 1, m) = SubSeq(p, 1, m)
<1>1. ASSUME NEW q \in Seq(S), NEW k \in 0 .. Len(q)
      PROVE  /\ SubSeq(q, 1, k) \in Seq(S) /\ Len(SubSeq(q, 1, k)) = k
             /\ \A i \in 1 .. k : SubSeq(q, 1, k)[i] = q[i]
  <2>1. Len(q) \in Nat /\ (\A i \in 1 .. k : q[i] \in S) /\ k \in Int /\ 1 \in Int
    BY LenProperties, ElementOfSeq
  <2> QED BY <2>1, SubSeqProperties
<1>2. Len(p) \in Nat
  BY LenProperties
<1> PICK cut : cut = SubSeq(p, 1, n)
  OBVIOUS
<1>3. cut \in Seq(S) /\ Len(cut) = n /\ \A i \in 1 .. n : cut[i] = p[i]
  BY <1>1
<1>4. ASSUME NEW m \in 0 .. n PROVE SubSeq(cut, 1, m) = SubSeq(p, 1, m)
  <2>1. m \in 0 .. Len(cut) /\ m \in 0 .. Len(p)
    BY <1>2, <1>3
  <2>2. PICK a, b : a = SubSeq(cut, 1, m) /\ b = SubSeq(p, 1, m)
    OBVIOUS
  <2>3. /\ a \in Seq(S) /\ Len(a) = m /\ \A i \in 1 .. m : a[i] = cut[i]
        /\ b \in Seq(S) /\ Len(b) = m /\ \A i \in 1 .. m : b[i] = p[i]
    BY <1>1, <1>3, <2>1, <2>2
  <2>4. \A i \in 1 .. m : a[i] = b[i]
    <3>1. \A i \in 1 .. m : i \in 1 .. n
      BY <1>2
    <3> QED BY <1>3, <2>3, <3>1, Zenon
  <2>5. a = b
    BY <2>3, <2>4, SeqEqual
  <2> QED BY <2>2, <2>5
<1> QED BY <1>3, <1>4

\* A path and the directory it is in; the planet of a file is that directory, or the
\* root's group.
LEMMA PathFacts ==
  ASSUME NEW p \in Files
  PROVE  /\ p \in Seq(Names) /\ Len(p) \in Nat /\ Len(p) > 0
         /\ Front(p) \in Seq(Names) /\ Len(Front(p)) = Len(p) - 1
         /\ Len(p) = 1 => Front(p) = Top
         /\ PlanetName(p) = IF Len(p) > 1 THEN Front(p) ELSE <<Root>>
<1>1. p \in Seq(Names) /\ Len(p) \in Nat /\ Len(p) > 0
  BY CodecAssumption DEF Names
<1>2. Front(p) \in Seq(Names) /\ Len(Front(p)) = Len(p) - 1
      /\ \A i \in 1 .. Len(p) - 1 : Front(p)[i] = p[i]
  <2>1. Len(p) - 1 \in 0 .. Len(p)
    BY <1>1
  <2> QED BY <1>1, <2>1, Cuts DEF Front
<1>3. Len(p) = 1 => Front(p) = Top
  BY <1>2, EmptySeq DEF Top
<1>4. ASSUME Len(p) = 2 PROVE Front(p) = <<p[1]>>
  <2>1. PICK a, b : a = Front(p) /\ b = <<p[1]>>
    OBVIOUS
  <2>2. b \in Seq(Names) /\ Len(b) = 1 /\ b[1] = p[1]
    BY <1>1, <1>4, <2>1, ElementOfSeq
  <2>3. a \in Seq(Names) /\ Len(a) = 1 /\ a[1] = p[1]
    BY <1>2, <1>4, <2>1
  <2>4. \A i \in 1 .. Len(a) : a[i] = b[i]
    BY <2>2, <2>3
  <2> QED BY <2>1, <2>2, <2>3, <2>4, SeqEqual
<1>5. PlanetName(p) = IF Len(p) > 1 THEN Front(p) ELSE <<Root>>
  <2>1. CASE Len(p) > 2
    BY <2>1 DEF PlanetName
  <2>2. CASE Len(p) = 2
    BY <1>4, <2>2 DEF PlanetName, SystemName
  <2>3. CASE Len(p) = 1
    BY <2>3 DEF PlanetName, SystemName
  <2>4. Len(p) > 2 \/ Len(p) = 2 \/ Len(p) = 1
    <3>1. \A n \in Nat : n > 0 => n > 2 \/ n = 2 \/ n = 1
      OBVIOUS
    <3> QED BY <1>1, <3>1, Zenon
  <2> QED BY <2>1, <2>2, <2>3, <2>4
<1> QED BY <1>1, <1>2, <1>3, <1>5

\* The folders with files of their own are the groups of a scan, the one of the files at
\* the top left out.
LEMMA HomeAre ==
  ASSUME NEW s, s.id[1] \subseteq Files
  PROVE  /\ \A e \in HomeFolders(s) : /\ e \in Seq(Names) /\ Len(e) \in Nat /\ Len(e) > 0
                                      /\ e # Top /\ e # <<Root>>
         /\ \A p \in s.id[1] : PlanetName(p) # <<Root>> =>
                                   PlanetName(p) = Front(p) /\ Front(p) \in HomeFolders(s)
         /\ \A p \in s.id[1], e \in HomeFolders(s) : Front(p) = e <=> PlanetName(p) = e
         /\ \A e \in HomeFolders(s) : \E p \in s.id[1] : e = Front(p)
<1>1. \A p \in s.id[1] : p \in Files
  OBVIOUS
<1>2. ASSUME NEW e \in HomeFolders(s)
      PROVE  \E p \in s.id[1] : e = Front(p) /\ e # Top /\ e # <<Root>>
  BY DEF HomeFolders
<1>3. ASSUME NEW e \in HomeFolders(s)
      PROVE  e \in Seq(Names) /\ Len(e) \in Nat /\ Len(e) > 0 /\ e # Top /\ e # <<Root>>
  <2>1. PICK p \in s.id[1] : e = Front(p) /\ e # Top /\ e # <<Root>>
    BY <1>2
  <2>2. Len(p) # 1
    BY <1>1, <2>1, PathFacts
  <2> QED BY <1>1, <2>1, <2>2, PathFacts
<1>4. ASSUME NEW p \in s.id[1], PlanetName(p) # <<Root>>
      PROVE  PlanetName(p) = Front(p) /\ Front(p) \in HomeFolders(s)
  <2>1. Len(p) > 1 /\ PlanetName(p) = Front(p) /\ Len(Front(p)) > 0
    BY <1>1, <1>4, PathFacts
  <2>2. Front(p) # Top
    BY <2>1 DEF Top
  <2> QED BY <1>4, <2>1, <2>2 DEF HomeFolders
<1>5. ASSUME NEW p \in s.id[1], NEW e \in HomeFolders(s)
      PROVE  Front(p) = e <=> PlanetName(p) = e
  BY <1>1, <1>3, PathFacts
<1> QED BY <1>2, <1>3, <1>4, <1>5

\* The groups of a scan are what stands for folders.
LEMMA FoldersAre ==
  ASSUME NEW s, Whole(s), NEW i \in IdsOf(s.id[1])
  PROVE  /\ i \in Folders(s) <=> i.kind \in {"system", "planet"}
         /\ i.kind = "system" => FolderOf(s, i) = Top
         /\ i.kind = "planet" => FolderOf(s, i) = IF i.of = <<Root>> THEN Top ELSE i.of
<1> PICK e : e = s.ents[i]
  OBVIOUS
<1>1. PlacedAs(e, i) /\ DOMAIN s.ents = IdsOf(s.id[1])
  BY DEF Whole, IsEntity
<1>2. Missing # i.of
  <2>1. i \in AllIds
    BY DEF Whole, IdsOf, AllIds
  <2> QED BY <2>1, CodecAssumption
<1>3. i \in Folders(s) <=> e.scale # "moon" /\ e.path # Missing
  BY <1>1 DEF Folders
<1>4. CASE i = Universe
  BY <1>1, <1>3, <1>4, IdKinds DEF PlacedAs
<1>5. CASE i = Project
  BY <1>1, <1>3, <1>5, IdKinds DEF PlacedAs
<1>6. CASE i.kind = "system"
  BY <1>1, <1>2, <1>3, <1>6 DEF PlacedAs, FolderOf
<1>7. CASE i.kind = "planet"
  <2>1. e.parent # Project
    BY <1>1, <1>7, IdKinds DEF PlacedAs
  <2> QED BY <1>1, <1>2, <1>3, <1>7, <2>1 DEF PlacedAs, FolderOf
<1>8. CASE i.kind = "file"
  BY <1>1, <1>3, <1>8 DEF PlacedAs
<1>9. CASE i.kind = "symbol"
  BY <1>1, <1>3, <1>9 DEF PlacedAs
<1> QED BY <1>4, <1>5, <1>6, <1>7, <1>8, <1>9, Kinds DEF Whole

\* The entity of a folder with files of its own is its group.
LEMMA EntityOfHome ==
  ASSUME NEW s, Whole(s), NEW d \in HomeFolders(s)
  PROVE  /\ Planet(d) \in Folders(s) /\ Planet(d) \in IdsOf(s.id[1])
         /\ FolderOf(s, Planet(d)) = d /\ EntityOf(s, d) = Planet(d)
<1> PICK ids : ids = IdsOf(s.id[1])
  OBVIOUS
<1>0. s.id[1] \subseteq Files /\ DOMAIN s.ents = ids
  BY DEF Whole
<1>1. d # Top /\ d # <<Root>> /\ \E p \in s.id[1] : PlanetName(p) = d
  BY <1>0, HomeAre
<1>2. Planet(d) \in ids
  BY <1>0, <1>1, GroupsOf
<1>3. Planet(d) \in Folders(s) /\ FolderOf(s, Planet(d)) = d
  <2>1. PICK i : i = Planet(d)
    OBVIOUS
  <2>2. i.kind = "planet" /\ i.of = d /\ i \in IdsOf(s.id[1])
    BY <1>2, <2>1, IdKinds
  <2>3. i \in Folders(s) /\ FolderOf(s, i) = d
    BY <1>1, <2>2, FoldersAre
  <2> QED BY <2>1, <2>3
<1>4. ASSUME NEW i \in Folders(s), FolderOf(s, i) = d PROVE i = Planet(d)
  <2>1. i \in ids
    BY <1>0 DEF Folders
  <2>2. i.kind \in {"system", "planet"}
    BY <2>1, FoldersAre
  <2>3. i.kind = "planet" /\ i.of = d
    BY <1>1, <1>4, <2>1, <2>2, FoldersAre
  <2> QED BY <1>0, <2>1, <2>3, Kinds, IdKinds
<1>5. EntityOf(s, d) = Planet(d)
  <2>1. EntityOf(s, d) = CHOOSE i \in Folders(s) : FolderOf(s, i) = d
    BY <1>1 DEF EntityOf
  <2> QED BY <1>3, <1>4, <2>1
<1> QED BY <1>2, <1>3, <1>5

\* Hung under the folders that hold them, the groups below a folder with files of its
\* own are those of its subfolders with files of their own, and its files its own.
LEMMA Hung ==
  ASSUME NEW s, Whole(s), Standing(s), NEW hung, hung = snapshot_with_inferred_parents(s),
         NEW i \in IdsOf(s.id[1])
  PROVE  /\ hung.id = s.id /\ DOMAIN hung.ents = IdsOf(s.id[1])
         /\ hung.ents[i].scale = s.ents[i].scale /\ hung.ents[i].path = s.ents[i].path
         /\ hung.ents[i].sockets = s.ents[i].sockets
         /\ \A d \in HomeFolders(s) :
               hung.ents[i].parent = Planet(d)
                 <=> \/ i.kind = "planet" /\ i.of \in HomeFolders(s) /\ Front(i.of) = d
                     \/ i.kind = "file" /\ Front(i.of) = d
<1> PICK ids, home, ents : ids = IdsOf(s.id[1]) /\ home = HomeFolders(s) /\ ents = s.ents
  OBVIOUS
<1>0. /\ s.id[1] \subseteq Files /\ DOMAIN ents = ids /\ \A j \in ids : IsEntity(ents[j], j) /\ PlacedAs(ents[j], j)
  BY DEF Whole, IsEntity
<1> DEFINE standing == {FolderOf(s, j) : j \in Folders(s)}
           below == {j \in Folders(s) : FolderOf(s, j) # Top /\ Front(FolderOf(s, j)) \in standing}
           new(j) == IF j \in below
                     THEN [ents[j] EXCEPT !.parent = EntityOf(s, Front(FolderOf(s, j)))]
                     ELSE ents[j]
<1>1. hung = Snapshot(s.id, [j \in ids |-> new(j)], s.top, s.edges)
  BY <1>0 DEF snapshot_with_inferred_parents
<1>2. hung.id = s.id /\ hung.ents = [j \in ids |-> new(j)]
  BY <1>1 DEF Snapshot
<1> PICK parent : parent = IF i \in below THEN EntityOf(s, Front(FolderOf(s, i))) ELSE ents[i].parent
  OBVIOUS
<1>3. /\ hung.ents[i].scale = ents[i].scale /\ hung.ents[i].path = ents[i].path
      /\ hung.ents[i].sockets = ents[i].sockets /\ hung.ents[i].parent = parent
  <2>1. hung.ents[i] = new(i)
    BY <1>2
  <2>2. CASE i \in below
    <3>1. IsEntity(ents[i], i) /\ parent = EntityOf(s, Front(FolderOf(s, i)))
      BY <1>0, <2>2
    <3>2. new(i) = [ents[i] EXCEPT !.parent = parent]
      BY <2>2, <3>1, Zenon
    <3>3. PICK f : f = [scale |-> ents[i].scale, parent |-> parent, path |-> ents[i].path,
                        says |-> ents[i].says, clauses |-> ents[i].clauses,
                        evidence |-> ents[i].evidence, green |-> ents[i].green,
                        sockets |-> ents[i].sockets]
      OBVIOUS
    <3>4. [ents[i] EXCEPT !.parent = parent] = f
      BY <3>1, <3>3, FieldSet, Zenon
    <3> QED BY <2>1, <3>2, <3>3, <3>4
  <2>3. CASE i \notin below
    BY <2>1, <2>3
  <2> QED BY <2>2, <2>3
<1>4. \A j \in Folders(s) : FolderOf(s, j) \in home \cup {Top}
  <2> SUFFICES ASSUME NEW j \in Folders(s), FolderOf(s, j) # Top PROVE FolderOf(s, j) \in home
    OBVIOUS
  <2>1. j \in ids
    BY <1>0 DEF Folders
  <2>2. j.kind = "planet" /\ FolderOf(s, j) = j.of /\ j.of # <<Root>>
    BY <2>1, FoldersAre
  <2>3. PICK p \in s.id[1] : j.of = PlanetName(p)
    BY <1>0, <2>1, <2>2, Kinds, IdKinds
  <2> QED BY <1>0, <2>2, <2>3, HomeAre
<1>5. \A d \in home : d \in standing
  BY EntityOfHome
<1>6. ASSUME NEW d \in home
      PROVE  parent = Planet(d)
                 <=> \/ i.kind = "planet" /\ i.of \in home /\ Front(i.of) = d
                     \/ i.kind = "file" /\ Front(i.of) = d
  <2>0. d # Top /\ d # <<Root>>
    BY <1>0, HomeAre
  <2>1. CASE i.kind = "planet" /\ i.of \in home
    <3>1. i \in Folders(s) /\ FolderOf(s, i) = i.of /\ i.of # Top
      BY <1>0, <2>1, FoldersAre, HomeAre
    <3>2. CASE Front(i.of) \in home
      <4>1. i \in below
        BY <1>5, <3>1, <3>2
      <4>2. parent = Planet(Front(i.of))
        BY <3>1, <3>2, <4>1, EntityOfHome
      <4> QED BY <2>1, <4>2, IdKinds
    <3>3. CASE Front(i.of) \notin home /\ i \in below
      <4>1. Front(i.of) = Top
        BY <1>4, <3>1, <3>3
      <4>2. parent = s.top
        BY <3>1, <3>3, <4>1 DEF EntityOf
      <4>3. s.id[1] # {}
        BY <1>0, <2>1, Kinds, IdKinds
      <4>4. AtTop(s.top)
        BY <4>3 DEF Standing
      <4>5. parent # Planet(d)
        BY <2>0, <4>2, <4>4, IdKinds DEF AtTop
      <4> QED BY <2>1, <3>3, <4>5
    <3>4. CASE Front(i.of) \notin home /\ i \notin below
      <4>1. parent = System(i.of[1])
        BY <1>0, <2>1, <3>4 DEF PlacedAs
      <4> QED BY <2>1, <3>4, <4>1, IdKinds
    <3> QED BY <3>2, <3>3, <3>4
  <2>2. ASSUME ~(i.kind = "planet" /\ i.of \in home) PROVE i \notin below
    <3> SUFFICES ASSUME i \in Folders(s), FolderOf(s, i) # Top PROVE FALSE
      OBVIOUS
    <3>1. i.kind = "planet" /\ FolderOf(s, i) = i.of
      BY FoldersAre
    <3> QED BY <1>4, <2>2, <3>1
  <2>3. CASE i.kind = "planet" /\ i.of \notin home
    <3>1. parent = System(i.of[1])
      BY <1>0, <2>2, <2>3 DEF PlacedAs
    <3> QED BY <2>3, <3>1, IdKinds
  <2>4. CASE i.kind = "file"
    <3>1. i.of \in s.id[1]
      BY <1>0, <2>4, Kinds, IdKinds
    <3>2. parent = Planet(PlanetName(i.of))
      BY <1>0, <2>2, <2>4 DEF PlacedAs
    <3>3. Front(i.of) = d <=> PlanetName(i.of) = d
      BY <1>0, <3>1, HomeAre
    <3> QED BY <2>4, <3>2, <3>3, IdKinds
  <2>5. CASE i = Universe
    <3>1. parent = Missing
      BY <1>0, <2>2, <2>5, IdKinds DEF PlacedAs
    <3>2. Planet(d) \in AllIds
      BY <1>0, EntityOfHome DEF IdsOf, AllIds
    <3> QED BY <2>5, <3>1, <3>2, IdKinds, CodecAssumption
  <2>6. CASE i.kind = "system" \/ i.kind = "symbol" \/ i = Project
    <3>1. parent \in {Project, File(i.of), Universe}
      BY <1>0, <2>2, <2>6, IdKinds DEF PlacedAs
    <3> QED BY <2>6, <3>1, IdKinds
  <2> QED BY <1>0, <2>1, <2>3, <2>4, <2>5, <2>6, Kinds
<1> QED BY <1>0, <1>2, <1>3, <1>6

\* What the file of a folder says of its own files and of the folders below.
FileIsOf(text, s, d) ==
    /\ text.scale = "folder" /\ text.snapshot = s.id
    /\ {l.id : l \in {k \in Tagged(text, "entity") : k.scale = "moon"}}
         = {File(p) : p \in {q \in s.id[1] : Front(q) = d}}
    /\ {l.path : l \in Tagged(text, "child")} = {e \in HomeFolders(s) : Front(e) = d}

LEMMA FileSays ==
  ASSUME NEW s, Whole(s), Standing(s), NEW d \in HomeFolders(s), NEW text,
         text = encode_atlas_idx(snapshot_with_inferred_parents(s), Planet(d))
  PROVE  FileIsOf(text, s, d)
<1> PICK ids, home, ents : ids = IdsOf(s.id[1]) /\ home = HomeFolders(s) /\ ents = s.ents
  OBVIOUS
<1> PICK hung, scope : hung = snapshot_with_inferred_parents(s) /\ scope = Planet(d)
  OBVIOUS
<1>0. /\ s.id[1] \subseteq Files /\ DOMAIN ents = ids
      /\ \A j \in ids : IsEntity(ents[j], j) /\ PlacedAs(ents[j], j)
  BY DEF Whole, IsEntity
<1>1. scope # Galaxy
  <2>1. scope \in AllIds
    BY <1>0, EntityOfHome DEF IdsOf, AllIds
  <2> QED BY <2>1, CodecAssumption
<1>2. /\ hung.id = s.id /\ DOMAIN hung.ents = ids
      /\ \A i \in ids : /\ hung.ents[i].scale = ents[i].scale /\ hung.ents[i].path = ents[i].path
                        /\ hung.ents[i].sockets = ents[i].sockets
                        /\ hung.ents[i].parent = scope
                              <=> \/ i.kind = "planet" /\ i.of \in home /\ Front(i.of) = d
                                  \/ i.kind = "file" /\ Front(i.of) = d
  <2>1. Universe \in ids
    BY <1>0, GroupsOf
  <2> QED BY <2>1, Hung
<1>3. Answers(hung)
  <2>1. \A i \in ids : \A k \in ents[i].sockets : IsResolution(k.resolution)
    <3> SUFFICES ASSUME NEW i \in ids, NEW k \in ents[i].sockets PROVE IsResolution(k.resolution)
      OBVIOUS
    <3>1. IsEntity(ents[i], i)
      BY <1>0
    <3> QED BY <3>1 DEF IsEntity
  <2>2. DOMAIN hung.ents = ids /\ \A i \in ids : hung.ents[i].sockets = ents[i].sockets
    BY <1>2
  <2> QED BY <2>1, <2>2 DEF Answers, IsResolution
<1>4. text.scale = "folder" /\ text.snapshot = s.id
  BY <1>1, <1>2 DEF encode_atlas_idx
<1>5. /\ Tagged(text, "entity") = EntityLines(hung, Visible(hung, scope))
      /\ Tagged(text, "child") = ChildLines(hung, scope)
  <2>1. text.lines = encode_atlas_idx(hung, scope).lines
    OBVIOUS
  <2> QED BY <1>3, <2>1, LinesByTag
<1> DEFINE line(i) == [tag |-> "entity", id |-> i, scale |-> hung.ents[i].scale,
                       parent |-> hung.ents[i].parent, path |-> hung.ents[i].path]
           pointer(i) == [tag |-> "child", id |-> i, path |-> hung.ents[i].path]
           seen == {i \in ids : i = scope \/ hung.ents[i].parent = scope}
           under == {i \in ids : hung.ents[i].parent = scope /\ ents[i].scale # "moon"
                                 /\ ents[i].path # Missing}
<1>6. Tagged(text, "entity") = {line(i) : i \in seen}
  BY <1>1, <1>2, <1>5 DEF EntityLines, Visible
<1>7. Tagged(text, "child") = {pointer(i) : i \in under}
  BY <1>1, <1>2, <1>5 DEF ChildLines
<1>8. \A i : line(i).id = i /\ line(i).scale = hung.ents[i].scale /\ pointer(i).path = hung.ents[i].path
  OBVIOUS
<1>9. {l.id : l \in {k \in Tagged(text, "entity") : k.scale = "moon"}} = {i \in seen : ents[i].scale = "moon"}
  <2> HIDE DEF line
  <2>1. \A i \in seen : line(i).scale = ents[i].scale
    BY <1>2, <1>8
  <2>2. ASSUME NEW i \in seen, ents[i].scale = "moon"
        PROVE  i \in {l.id : l \in {k \in Tagged(text, "entity") : k.scale = "moon"}}
    <3>1. line(i) \in {k \in Tagged(text, "entity") : k.scale = "moon"} /\ line(i).id = i
      BY <1>6, <1>8, <2>1, <2>2
    <3> QED BY <3>1
  <2>3. ASSUME NEW l \in {k \in Tagged(text, "entity") : k.scale = "moon"}
        PROVE  l.id \in {i \in seen : ents[i].scale = "moon"}
    <3>1. PICK i \in seen : l = line(i)
      BY <1>6
    <3> QED BY <1>8, <2>1, <3>1
  <2> HIDE DEF seen
  <2> QED BY <2>2, <2>3
<1>10. {i \in seen : ents[i].scale = "moon"} = {File(p) : p \in {q \in s.id[1] : Front(q) = d}}
  <2>1. ASSUME NEW i \in seen, ents[i].scale = "moon"
        PROVE  i = File(i.of) /\ i.of \in s.id[1] /\ Front(i.of) = d
    <3>1. i \in ids /\ PlacedAs(ents[i], i)
      BY <1>0
    <3>2. i.kind # "planet"
      BY <2>1, <3>1 DEF PlacedAs
    <3>3. hung.ents[i].parent = scope
      BY <3>2, IdKinds
    <3>4. i.kind = "file" /\ Front(i.of) = d
      BY <1>2, <3>1, <3>2, <3>3
    <3>5. i = File(i.of) /\ i.of \in s.id[1]
      BY <1>0, <3>1, <3>4, Kinds, IdKinds
    <3> QED BY <3>4, <3>5
  <2>2. ASSUME NEW p \in s.id[1], Front(p) = d
        PROVE  File(p) \in seen /\ ents[File(p)].scale = "moon"
    <3>1. PICK i : i = File(p)
      OBVIOUS
    <3>2. i \in ids /\ i.kind = "file" /\ i.of = p
      BY <1>0, <3>1, GroupsOf, IdKinds
    <3>3. hung.ents[i].parent = scope
      BY <1>2, <2>2, <3>2
    <3>4. ents[i].scale = "moon"
      BY <1>0, <3>2 DEF PlacedAs
    <3> QED BY <3>1, <3>2, <3>3, <3>4
  <2> HIDE DEF seen
  <2> QED BY <2>1, <2>2
<1>11. {l.path : l \in Tagged(text, "child")} = {ents[i].path : i \in under}
  <2> HIDE DEF pointer
  <2>1. \A i \in under : pointer(i).path = ents[i].path
    BY <1>2, <1>8
  <2> HIDE DEF under
  <2> QED BY <1>7, <2>1
<1>12. {ents[i].path : i \in under} = {e \in home : Front(e) = d}
  <2>1. ASSUME NEW i \in under PROVE ents[i].path \in home /\ Front(ents[i].path) = d
    <3>1. i \in ids /\ PlacedAs(ents[i], i) /\ hung.ents[i].parent = scope /\ ents[i].scale # "moon"
      BY <1>0
    <3>2. i.kind # "file"
      BY <3>1 DEF PlacedAs
    <3>3. i.kind = "planet" /\ i.of \in home /\ Front(i.of) = d
      BY <1>2, <3>1, <3>2
    <3>4. ents[i].path = i.of
      BY <3>1, <3>3 DEF PlacedAs
    <3> QED BY <3>3, <3>4
  <2>2. ASSUME NEW e \in home, Front(e) = d PROVE \E i \in under : ents[i].path = e
    <3>1. PICK i : i = Planet(e)
      OBVIOUS
    <3>2. i \in ids /\ i \in Folders(s) /\ i.kind = "planet" /\ i.of = e
      BY <1>0, <3>1, EntityOfHome, IdKinds
    <3>3. hung.ents[i].parent = scope
      BY <1>2, <2>2, <3>2
    <3>4. ents[i].path = e
      BY <1>0, <3>2 DEF PlacedAs
    <3>5. ents[i].scale # "moon" /\ ents[i].path # Missing
      BY <3>2 DEF Folders
    <3> QED BY <3>2, <3>3, <3>4, <3>5
  <2> HIDE DEF under
  <2> QED BY <2>1, <2>2
<1> QED BY <1>4, <1>9, <1>10, <1>11, <1>12 DEF FileIsOf

\* Where pointers lead that are followed on, and the folders below a folder that are
\* linked to it.
Followed(home, next, d) ==
    {e \in home : \A S \in SUBSET home :
        next[d] \subseteq S /\ (\A f \in S : next[f] \subseteq S) => e \in S}
Linked(home, d) ==
    {e \in home : /\ IsStrictPrefix(d, e)
                  /\ \A n \in Len(d) .. Len(e) : SubSeq(e, 1, n) \in home}

\* Pointers from folder to folder lead to just those that are linked by folders with
\* files of their own.
LEMMA Reaches ==
  ASSUME NEW home, \A e \in home : e \in Seq(Names) /\ Len(e) \in Nat /\ Len(e) > 0,
         NEW d \in home, NEW below, below = [f \in home |-> {e \in home : Front(e) = f}]
  PROVE  Followed(home, below, d) = Linked(home, d)
<1> DEFINE chained(e) == /\ IsStrictPrefix(d, e)
                         /\ \A n \in Len(d) .. Len(e) : SubSeq(e, 1, n) \in home
           closed(S) == below[d] \subseteq S /\ \A f \in S : below[f] \subseteq S
           chain == {e \in home : chained(e)}
<1>1. \A f \in home, e \in home : e \in below[f] <=> Front(e) = f
  OBVIOUS
<1>2. ASSUME NEW e \in home
      PROVE  /\ Len(e) \in Nat /\ Len(e) > 0 /\ SubSeq(e, 1, Len(e)) = e /\ e \in Seq(Names)
             /\ \A n \in 0 .. Len(e) : /\ Len(SubSeq(e, 1, n)) = n
                                       /\ \A m \in 0 .. n : SubSeq(SubSeq(e, 1, n), 1, m) = SubSeq(e, 1, m)
             /\ Len(Front(e)) = Len(e) - 1
  <2>1. Len(e) \in Nat /\ Len(e) > 0 /\ e \in Seq(Names)
    OBVIOUS
  <2>2. SubSeq(e, 1, Len(e)) = e
    BY <2>1, SubSeqFull
  <2>3. ASSUME NEW n \in 0 .. Len(e)
        PROVE  /\ Len(SubSeq(e, 1, n)) = n
               /\ \A m \in 0 .. n : SubSeq(SubSeq(e, 1, n), 1, m) = SubSeq(e, 1, m)
    BY <2>1, Cuts
  <2>4. Len(e) - 1 \in 0 .. Len(e)
    BY <2>1
  <2> QED BY <2>1, <2>2, <2>3, <2>4 DEF Front
<1>3. ASSUME NEW f \in home, f = d \/ chained(f), NEW e \in home, Front(e) = f
      PROVE  chained(e)
  <2>1. Len(f) = Len(e) - 1 /\ SubSeq(e, 1, Len(f)) = f
    BY <1>2, <1>3 DEF Front
  <2>2. Len(d) <= Len(f) /\ SubSeq(f, 1, Len(d)) = d
    <3>1. CASE f = d
      BY <1>2, <3>1
    <3>2. CASE chained(f)
      BY <1>2, <3>2 DEF IsStrictPrefix, IsPrefix
    <3> QED BY <1>3, <3>1, <3>2
  <2>3. SubSeq(e, 1, Len(d)) = d
    <3>1. Len(f) \in 0 .. Len(e) /\ Len(d) \in 0 .. Len(f)
      BY <1>2, <2>1, <2>2
    <3>2. SubSeq(SubSeq(e, 1, Len(f)), 1, Len(d)) = SubSeq(e, 1, Len(d))
      BY <1>2, <3>1
    <3> QED BY <2>1, <2>2, <3>2
  <2>4. Len(d) < Len(e) /\ Len(d) <= Len(e)
    BY <1>2, <2>1, <2>2
  <2>5. IsStrictPrefix(d, e)
    BY <1>2, <2>3, <2>4 DEF IsStrictPrefix, IsPrefix
  <2>6. ASSUME NEW n \in Len(d) .. Len(e) PROVE SubSeq(e, 1, n) \in home
    <3>1. CASE n = Len(e)
      BY <1>2, <3>1
    <3>2. CASE n # Len(e)
      <4>1. n \in 0 .. Len(f) /\ n \in Len(d) .. Len(f) /\ Len(f) \in 0 .. Len(e)
        BY <1>2, <2>1, <3>2
      <4>2. SubSeq(e, 1, n) = SubSeq(f, 1, n)
        BY <1>2, <2>1, <4>1
      <4>3. SubSeq(f, 1, n) \in home
        <5>1. CASE f = d
          <6>1. n = Len(f)
            BY <1>2, <4>1, <5>1
          <6> QED BY <1>2, <6>1
        <5>2. CASE chained(f)
          BY <4>1, <5>2
        <5> QED BY <1>3, <5>1, <5>2
      <4> QED BY <4>2, <4>3
    <3> QED BY <3>1, <3>2
  <2> QED BY <2>5, <2>6
<1>4. closed(chain) /\ chain \in SUBSET home
  <2> HIDE DEF chained
  <2>1. below[d] \subseteq chain
    BY <1>1, <1>3
  <2>2. ASSUME NEW f \in chain PROVE below[f] \subseteq chain
    BY <1>1, <1>3
  <2> QED BY <2>1, <2>2
<1>5. ASSUME NEW e \in home, chained(e), NEW S \in SUBSET home, closed(S) PROVE e \in S
  <2> DEFINE out == {n \in Len(d) + 1 .. Len(e) : SubSeq(e, 1, n) \notin S}
  <2>0. Len(d) \in Nat /\ Len(e) \in Nat /\ Len(d) < Len(e) /\ SubSeq(e, 1, Len(d)) = d
    <3>1. Len(d) <= Len(e) /\ SubSeq(e, 1, Len(d)) = d /\ d # e
      BY <1>2, <1>5 DEF IsStrictPrefix, IsPrefix
    <3>2. Len(d) # Len(e)
      BY <1>2, <3>1
    <3> QED BY <1>2, <3>1, <3>2
  <2>1. ASSUME out # {} PROVE FALSE
    <3>1. out \in SUBSET Nat
      BY <2>0
    <3>2. PICK n \in out : \A m \in out : n <= m
      <4> HIDE DEF out
      <4> QED BY <2>1, <3>1, Least
    <3>3. n \in Len(d) + 1 .. Len(e) /\ SubSeq(e, 1, n) \notin S
      OBVIOUS
    <3>4. PICK g, f : g = SubSeq(e, 1, n) /\ f = SubSeq(e, 1, n - 1)
      OBVIOUS
    <3>5. n \in Len(d) .. Len(e) /\ n - 1 \in Len(d) .. Len(e) /\ n \in 0 .. Len(e) /\ n - 1 \in 0 .. n
      BY <2>0, <3>3
    <3>6. g \in home /\ f \in home
      BY <1>5, <3>4, <3>5
    <3>7. Front(g) = f
      <4>1. Len(g) = n
        BY <1>2, <3>4, <3>5
      <4> QED BY <1>2, <3>4, <3>5, <4>1 DEF Front
    <3>8. CASE n - 1 = Len(d)
      <4>1. f = d
        BY <2>0, <3>4, <3>8
      <4>2. g \in below[d]
        BY <1>1, <3>6, <3>7, <4>1
      <4> QED BY <1>5, <3>3, <3>4, <4>2
    <3>9. CASE n - 1 # Len(d)
      <4>1. n - 1 \in Len(d) + 1 .. Len(e) /\ ~(n <= n - 1)
        BY <2>0, <3>3, <3>9
      <4>2. f \in S
        BY <3>2, <3>4, <4>1
      <4>3. g \in below[f]
        BY <1>1, <3>6, <3>7
      <4> QED BY <1>5, <3>3, <3>4, <4>2, <4>3
    <3> QED BY <3>8, <3>9
  <2>2. Len(e) \in Len(d) + 1 .. Len(e)
    BY <2>0
  <2>3. SubSeq(e, 1, Len(e)) \in S
    BY <2>1, <2>2
  <2> QED BY <1>2, <2>3
<1> HIDE DEF chained, closed, chain
<1>6. {e \in home : \A S \in SUBSET home : closed(S) => e \in S} = {e \in home : chained(e)}
  BY <1>4, <1>5 DEF chain
<1> QED BY <1>6 DEF chained, closed, Followed, Linked

\* The fields of a text.
IsText(x) == x = [scale |-> x.scale, snapshot |-> x.snapshot, lines |-> x.lines]

\* It speaks of the things there may be.
Speaks(x) == \A l \in Tagged(x, "entity") : l.id \in AllIds

\* Every file is a text, and all but the root's say they are a folder's.
TextsInv ==
    \A d \in DOMAIN idx : /\ IsText(idx[d]) /\ Speaks(idx[d])
                          /\ d # Top => idx[d].scale = "folder"

\* The root's file is a folder's text somebody put there, or bears the name of the whole
\* snapshot it was last written from, whatever others made of its lines.
RootInv ==
    Top \in DOMAIN idx /\ wrote # Missing =>
        /\ Whole(wrote)
        /\ \/ idx[Top].scale = "folder"
           \/ idx[Top].scale = "galaxy" /\ idx[Top].snapshot = wrote.id

\* A snapshot whose things are among those there may be, however many of them are missing.
Sound(s) == DOMAIN s.ents \subseteq AllIds /\ Answers(s)

\* Unless it came out of an altered root the database holds a snapshot of some tree, whole.
StoredInv == db # Missing => Sound(db) /\ (~altered => Whole(db))

\* The database and the files hold snapshots, whole unless altered; every folder of the
\* last whole one has a file.
CodecInv ==
    /\ tree \subseteq Files
    /\ StoredInv
    /\ TextsInv
    /\ RootInv
    /\ wrote # Missing => HomeFolders(wrote) \subseteq DOMAIN idx
    /\ NavigationIsExact

\* A whole snapshot is sound.
LEMMA WholeSound == ASSUME NEW s, Whole(s) PROVE Sound(s)
<1>1. DOMAIN s.ents = IdsOf(s.id[1]) /\ s.id[1] \subseteq Files
  BY DEF Whole
<1>2. DOMAIN s.ents \subseteq AllIds
  BY <1>1 DEF IdsOf, AllIds
<1>3. Answers(s)
  BY <1>1 DEF Answers, Whole, IsEntity, IsResolution
<1> QED BY <1>2, <1>3 DEF Sound

\* The text of a sound one speaks of its things.
LEMMA SoundSpeaks ==
  ASSUME NEW s, Sound(s), NEW scope
  PROVE  Speaks(encode_atlas_idx(s, scope))
<1> PICK text, seen : text = encode_atlas_idx(s, scope) /\ seen = Visible(s, scope)
  OBVIOUS
<1>1. Tagged(text, "entity") = EntityLines(s, seen)
  BY LinesByTag DEF Sound
<1>2. seen \subseteq AllIds
  BY DEF Sound, Visible
<1> QED BY <1>1, <1>2 DEF Speaks, EntityLines

\* Hung under the folders that hold its things, it is as sound.
LEMMA HungSound ==
  ASSUME NEW s, Sound(s)
  PROVE  Sound(snapshot_with_inferred_parents(s))
<1> PICK hung, ents : hung = snapshot_with_inferred_parents(s) /\ ents = s.ents
  OBVIOUS
<1> DEFINE standing == {FolderOf(s, j) : j \in Folders(s)}
           below == {j \in Folders(s) : FolderOf(s, j) # Top /\ Front(FolderOf(s, j)) \in standing}
           new(j) == IF j \in below
                     THEN [ents[j] EXCEPT !.parent = EntityOf(s, Front(FolderOf(s, j)))]
                     ELSE ents[j]
<1>1. hung.ents = [j \in DOMAIN ents |-> new(j)]
  BY DEF snapshot_with_inferred_parents, Snapshot
<1>2. ASSUME NEW j \in DOMAIN ents PROVE new(j).sockets = ents[j].sockets
  <2>1. \A x : [ents[j] EXCEPT !.parent = x].sockets = ents[j].sockets
    OBVIOUS
  <2> QED BY <2>1
<1> HIDE DEF new
<1>3. DOMAIN hung.ents = DOMAIN ents /\ \A j \in DOMAIN ents : hung.ents[j].sockets = ents[j].sockets
  BY <1>1, <1>2
<1> QED BY <1>3 DEF Sound, Answers

\* And so is what a text is decoded to.
LEMMA RebuiltSound ==
  ASSUME NEW text, Speaks(text)
  PROVE  Sound(Rebuilt(text))
<1> PICK t, those : t = Rebuilt(text) /\ those = Tagged(text, "entity")
  OBVIOUS
<1>1. t.ents = [i \in {l.id : l \in those} |-> DecodedEntity(text, CHOOSE l \in those : l.id = i)]
  BY DEF Rebuilt, Stored, Snapshot, decode_atlas_idx
<1>2. DOMAIN t.ents \subseteq AllIds
  BY <1>1 DEF Speaks
<1>3. ASSUME NEW l, NEW k \in DecodedEntity(text, l).sockets
      PROVE  k.resolution = Unresolved \/ k.resolution.kind \in {"fit", "hole"}
  <2> DEFINE answers == Tagged(text, "fit") \cup Tagged(text, "hole")
             about(id) == {m \in answers : m.socket = id}
             said(id) == IF about(id) = {} THEN Unresolved
                         ELSE LET m == CHOOSE m \in about(id) : TRUE
                              IN [kind |-> m.tag, to |-> m.to]
  <2>1. k \in SocketsOf(text, l.id)
    BY DEF DecodedEntity
  <2>2. PICK id : k = [id |-> id, resolution |-> said(id)]
    BY <2>1 DEF SocketsOf
  <2>3. k.resolution = said(id)
    BY <2>2
  <2>4. \A m \in answers : m.tag \in {"fit", "hole"}
    BY DEF Tagged
  <2> QED BY <2>3, <2>4
<1>4. Answers(t)
  BY <1>1, <1>3 DEF Answers
<1> QED BY <1>2, <1>4 DEF Sound

\* The text of a snapshot does not say in what order things were listed.
LEMMA StoredSays ==
  ASSUME NEW s
  PROVE  encode_atlas_idx(Stored(s), Galaxy) = encode_atlas_idx(s, Galaxy)
<1> PICK t : t = Stored(s)
  OBVIOUS
<1>1. t.id = s.id /\ t.ents = s.ents /\ t.edges = s.edges
  BY DEF Stored, Snapshot
<1>2. Visible(t, Galaxy) = Visible(s, Galaxy)
  BY <1>1 DEF Visible
<1> PICK seen : seen = Visible(s, Galaxy)
  OBVIOUS
<1>3. EdgesSeen(t, seen) = EdgesSeen(s, seen)
  BY <1>1 DEF EdgesSeen
<1>4. /\ EntityLines(t, seen) = EntityLines(s, seen) /\ SummaryLines(t, seen) = SummaryLines(s, seen)
      /\ EdgeLines(t, seen) = EdgeLines(s, seen)
      /\ ClauseLines(t, seen) = ClauseLines(s, seen)
      /\ EvidenceLines(t, seen) = EvidenceLines(s, seen)
      /\ GreenLines(t, seen) = GreenLines(s, seen)
      /\ ChildLines(t, Galaxy) = ChildLines(s, Galaxy)
      /\ SocketLines(t, seen) = SocketLines(s, seen)
      /\ ResolutionLines(t, seen) = ResolutionLines(s, seen)
      /\ UncertaintyLines(t, seen) = UncertaintyLines(s, seen)
  BY <1>1, <1>3 DEF EntityLines, SummaryLines, EdgeLines, ClauseLines, EvidenceLines, GreenLines,
                    ChildLines, SocketLines, ResolutionLines, UncertaintyLines
<1> QED BY <1>1, <1>2, <1>4, Zenon DEF encode_atlas_idx

\* A write of the tree, of however altered a snapshot.
LEMMA WritesTexts ==
  ASSUME TextsInv, NEW s, Sound(s), write_projections(s)
  PROVE  TextsInv'
<1> PICK hung, written : /\ hung = snapshot_with_inferred_parents(s)
                         /\ written = {FolderOf(s, i) : i \in Folders(s)} \cup {Top}
  OBVIOUS
<1>1. idx' = [d \in written \cup DOMAIN idx |->
                 IF d = Top          THEN encode_atlas_idx(s, Galaxy)
                 ELSE IF d \in written THEN encode_atlas_idx(hung, EntityOf(s, d))
                 ELSE idx[d]]
  BY DEF write_projections
<1>2. DOMAIN idx' = written \cup DOMAIN idx
  BY <1>1
<1>3. \A c : Speaks(encode_atlas_idx(s, c)) /\ Speaks(encode_atlas_idx(hung, c))
  BY HungSound, SoundSpeaks
<1>5. \A t, c : IsText(encode_atlas_idx(t, c)) /\ (c # Galaxy => encode_atlas_idx(t, c).scale = "folder")
  BY DEF IsText, encode_atlas_idx
<1>6. ASSUME NEW d \in DOMAIN idx'
      PROVE  IsText(idx'[d]) /\ Speaks(idx'[d]) /\ (d # Top => idx'[d].scale = "folder")
  <2>1. CASE d = Top
    <3>1. idx'[d] = encode_atlas_idx(s, Galaxy)
      BY <1>1, <1>2, <2>1
    <3> QED BY <1>3, <1>5, <2>1, <3>1
  <2>2. CASE d # Top /\ d \in written
    <3>1. PICK i \in Folders(s) : FolderOf(s, i) = d
      BY <2>2
    <3>2. EntityOf(s, d) \in Folders(s)
      BY <2>2, <3>1 DEF EntityOf
    <3>3. EntityOf(s, d) \in AllIds
      BY <3>2 DEF Folders, Sound
    <3>4. EntityOf(s, d) # Galaxy
      BY <3>3, CodecAssumption
    <3>5. idx'[d] = encode_atlas_idx(hung, EntityOf(s, d))
      BY <1>1, <1>2, <2>2
    <3> QED BY <1>3, <1>5, <2>2, <3>4, <3>5
  <2>3. CASE d # Top /\ d \notin written
    <3>1. d \in DOMAIN idx /\ idx'[d] = idx[d]
      BY <1>1, <1>2, <2>3
    <3> QED BY <2>3, <3>1 DEF TextsInv
  <2> QED BY <2>1, <2>2, <2>3
<1> QED BY <1>6 DEF TextsInv, IsText, Speaks, Tagged

\* A write of the tree of a whole one.
LEMMA Written ==
  ASSUME NEW s, Whole(s), Standing(s), write_projections(s)
  PROVE  /\ Top \in DOMAIN idx' /\ idx'[Top] = encode_atlas_idx(s, Galaxy)
         /\ \A d \in HomeFolders(s) :
              /\ d \in DOMAIN idx'
              /\ idx'[d] = encode_atlas_idx(snapshot_with_inferred_parents(s), Planet(d))
<1> PICK hung, written : /\ hung = snapshot_with_inferred_parents(s)
                         /\ written = {FolderOf(s, i) : i \in Folders(s)} \cup {Top}
  OBVIOUS
<1>0. s.id[1] \subseteq Files /\ DOMAIN s.ents = IdsOf(s.id[1])
  BY DEF Whole
<1>1. idx' = [d \in written \cup DOMAIN idx |->
                 IF d = Top          THEN encode_atlas_idx(s, Galaxy)
                 ELSE IF d \in written THEN encode_atlas_idx(hung, EntityOf(s, d))
                 ELSE idx[d]]
  BY DEF write_projections
<1>2. DOMAIN idx' = written \cup DOMAIN idx
  BY <1>1
<1>3. Top \in DOMAIN idx' /\ idx'[Top] = encode_atlas_idx(s, Galaxy)
  BY <1>1, <1>2
<1>4. ASSUME NEW d \in HomeFolders(s)
      PROVE  d \in DOMAIN idx' /\ idx'[d] = encode_atlas_idx(hung, Planet(d))
  <2>1. d # Top
    BY <1>0, HomeAre
  <2>2. d \in written
    BY EntityOfHome
  <2>3. EntityOf(s, d) = Planet(d)
    BY EntityOfHome
  <2> QED BY <1>1, <1>2, <2>1, <2>2, <2>3
<1> QED BY <1>3, <1>4

\* After it the tree can be followed.
LEMMA WritesNavigate ==
  ASSUME NEW s, Whole(s), Standing(s), wrote' = Stored(s),
         \A d \in HomeFolders(s) :
              idx'[d] = encode_atlas_idx(snapshot_with_inferred_parents(s), Planet(d))
  PROVE  NavigationIsExact'
<1> DEFINE home == HomeFolders(wrote')
<1>0. s.id[1] \subseteq Files
  BY DEF Whole
<1>1. home = HomeFolders(s) /\ wrote'.id = s.id
  BY DEF HomeFolders, Stored, Snapshot
<1> HIDE DEF home
<1> PICK linked : linked = [f \in home |-> {e \in home : Front(e) = f}]
  OBVIOUS
<1> DEFINE below(d) == {l.path : l \in Tagged(idx'[d], "child")}
           reached(d) == {e \in home : \A S \in SUBSET home :
                           below(d) \subseteq S /\ (\A f \in S : below(f) \subseteq S) => e \in S}
<1>2. ASSUME NEW d \in home PROVE FileIsOf(idx'[d], s, d) /\ below(d) = linked[d]
  <2>1. d \in HomeFolders(s)
    BY <1>1
  <2>2. PICK text : text = idx'[d]
    OBVIOUS
  <2>3. text = encode_atlas_idx(snapshot_with_inferred_parents(s), Planet(d))
    BY <2>1, <2>2
  <2>4. FileIsOf(text, s, d)
    BY <2>1, <2>3, FileSays
  <2>5. linked[d] = {e \in HomeFolders(s) : Front(e) = d}
    BY <1>1
  <2> QED BY <2>2, <2>4, <2>5 DEF FileIsOf
<1> HIDE DEF below
<1>3. ASSUME NEW d \in home PROVE reached(d) = Linked(home, d)
  <2>1. \A e \in home : e \in Seq(Names) /\ Len(e) \in Nat /\ Len(e) > 0
    BY <1>0, <1>1, HomeAre
  <2>2. Followed(home, linked, d) = Linked(home, d)
    BY <2>1, Reaches
  <2>3. \A S \in SUBSET home :
          (below(d) \subseteq S /\ \A f \in S : below(f) \subseteq S)
            <=> (linked[d] \subseteq S /\ \A f \in S : linked[f] \subseteq S)
    BY <1>2
  <2>4. reached(d) = Followed(home, linked, d)
    BY <2>3 DEF Followed
  <2> QED BY <2>2, <2>4
<1>4. \A d \in home : below(d) \subseteq home
  BY <1>2
<1> HIDE DEF reached
<1>5. \A d \in home :
           /\ idx'[d].scale = "folder" /\ idx'[d].snapshot = wrote'.id
           /\ {l.id : l \in {k \in Tagged(idx'[d], "entity") : k.scale = "moon"}}
                = {File(p) : p \in {q \in wrote'.id[1] : Front(q) = d}}
           /\ below(d) \subseteq home
           /\ reached(d) = {e \in home : /\ IsStrictPrefix(d, e)
                                         /\ \A n \in Len(d) .. Len(e) : SubSeq(e, 1, n) \in home}
  BY <1>1, <1>2, <1>3, <1>4 DEF FileIsOf, Linked
<1> QED BY <1>5, Zenon DEF NavigationIsExact, below, reached, home

\* NavigationIsExact of any tree of files and any snapshot it was written from.
NavigationOf(files, s) ==
      LET home == HomeFolders(s)
          below(d) == {l.path : l \in Tagged(files[d], "child")}
          reached(d) == {e \in home : \A S \in SUBSET home :
                           below(d) \subseteq S /\ (\A f \in S : below(f) \subseteq S) => e \in S}
      IN \A d \in home :
           /\ files[d].scale = "folder" /\ files[d].snapshot = s.id
           /\ {l.id : l \in {k \in Tagged(files[d], "entity") : k.scale = "moon"}}
                = {File(p) : p \in {q \in s.id[1] : Front(q) = d}}
           /\ below(d) \subseteq home
           /\ reached(d) = {e \in home : /\ IsStrictPrefix(d, e)
                                         /\ \A n \in Len(d) .. Len(e) : SubSeq(e, 1, n) \in home}

\* It is a matter of the files of the folders with files of their own, and of no other.
LEMMA NavigationSame ==
  ASSUME NEW f, NEW g, NEW s, \A d \in HomeFolders(s) : f[d] = g[d], NavigationOf(f, s)
  PROVE  NavigationOf(g, s)
<1> DEFINE home == HomeFolders(s)
           below(files, d) == {l.path : l \in Tagged(files[d], "child")}
           reached(files, d) ==
               {e \in home : \A S \in SUBSET home :
                   below(files, d) \subseteq S /\ (\A h \in S : below(files, h) \subseteq S) => e \in S}
           lists(files, d) == {l.id : l \in {k \in Tagged(files[d], "entity") : k.scale = "moon"}}
           own(d) == {File(p) : p \in {q \in s.id[1] : Front(q) = d}}
           linked(d) == {e \in home : /\ IsStrictPrefix(d, e)
                                     /\ \A n \in Len(d) .. Len(e) : SubSeq(e, 1, n) \in home}
           exact(files, d) == /\ files[d].scale = "folder" /\ files[d].snapshot = s.id
                              /\ lists(files, d) = own(d)
                              /\ below(files, d) \subseteq home
                              /\ reached(files, d) = linked(d)
<1>1. \A files : NavigationOf(files, s) <=> \A d \in home : exact(files, d)
  BY Zenon DEF NavigationOf
<1>2. \A d \in home : below(f, d) = below(g, d) /\ lists(f, d) = lists(g, d)
  OBVIOUS
<1> HIDE DEF below, lists, own, linked, home
<1>3. ASSUME NEW d \in home PROVE reached(f, d) = reached(g, d)
  <2>1. \A S \in SUBSET home :
          (below(f, d) \subseteq S /\ \A h \in S : below(f, h) \subseteq S)
            <=> (below(g, d) \subseteq S /\ \A h \in S : below(g, h) \subseteq S)
    BY <1>2
  <2> QED BY <2>1
<1> HIDE DEF reached
<1>4. ASSUME NEW d \in home, exact(f, d) PROVE exact(g, d)
  <2>1. f[d] = g[d]
    BY DEF home
  <2> QED BY <1>2, <1>3, <1>4, <2>1
<1> QED BY <1>1, <1>4

\* A step that touches no file but the root's keeps the tree navigable.
LEMMA NavigationKept ==
  ASSUME wrote # Missing => HomeFolders(wrote) \subseteq DOMAIN idx, NavigationIsExact,
         UNCHANGED wrote, \A d \in DOMAIN idx \ {Top} : idx'[d] = idx[d]
  PROVE  NavigationIsExact'
<1>1. NavigationIsExact <=> (wrote # Missing => NavigationOf(idx, wrote))
  BY Zenon DEF NavigationIsExact, NavigationOf
<1>2. NavigationIsExact' <=> (wrote' # Missing => NavigationOf(idx', wrote'))
  BY Zenon DEF NavigationIsExact, NavigationOf
<1>3. ASSUME wrote # Missing PROVE NavigationOf(idx', wrote)
  <2>1. \A d \in HomeFolders(wrote) : idx[d] = idx'[d]
    BY <1>3 DEF HomeFolders
  <2>2. NavigationOf(idx, wrote)
    BY <1>1, <1>3
  <2>3. PICK f, g, s : f = idx /\ g = idx' /\ s = wrote
    OBVIOUS
  <2>4. NavigationOf(g, s)
    BY <2>1, <2>2, <2>3, NavigationSame
  <2> QED BY <2>3, <2>4
<1> QED BY <1>2, <1>3

\* A step that leaves the files and what they were written from keeps what is said of them.
LEMMA FilesKept ==
  ASSUME CodecInv, UNCHANGED <<idx, wrote>>
  PROVE  TextsInv' /\ RootInv' /\ NavigationIsExact'
<1>1. TextsInv' /\ RootInv'
  BY DEF CodecInv, TextsInv, RootInv, IsText, Speaks, Tagged
<1>2. NavigationIsExact'
  BY NavigationKept DEF CodecInv
<1> QED BY <1>1, <1>2

\* At first there is no file and no snapshot.
LEMMA CodecInit == CInit => CodecInv
<1> SUFFICES ASSUME CInit PROVE CodecInv
  OBVIOUS
<1>1. db = Missing /\ wrote = Missing /\ tree \subseteq Files
  BY DEF CInit
<1>2. DOMAIN idx = {}
  BY DEF CInit
<1>3. TextsInv /\ RootInv /\ StoredInv
  BY <1>1, <1>2 DEF TextsInv, RootInv, StoredInv
<1> QED BY <1>1, <1>3 DEF CodecInv, NavigationIsExact

\* A write of the tree, by whichever of the two.
LEMMA WriteKeeps ==
  ASSUME CodecInv, NEW s, Whole(s), Standing(s), write_projections(s), db' = Stored(s),
         wrote' = Stored(s), ~altered', UNCHANGED tree
  PROVE  CodecInv'
<1>1. TextsInv'
  BY WholeSound, WritesTexts DEF CodecInv
<1>2. /\ Top \in DOMAIN idx' /\ idx'[Top] = encode_atlas_idx(s, Galaxy)
      /\ \A d \in HomeFolders(s) :
              /\ d \in DOMAIN idx'
              /\ idx'[d] = encode_atlas_idx(snapshot_with_inferred_parents(s), Planet(d))
  BY Written
<1>3. Whole(db') /\ Whole(wrote') /\ wrote'.id = s.id
  BY StoredWhole
<1>4. RootInv' /\ StoredInv'
  <2>1. idx'[Top].scale = "galaxy" /\ idx'[Top].snapshot = wrote'.id
    BY <1>2, <1>3 DEF encode_atlas_idx
  <2>2. RootInv'
    BY <1>3, <2>1 DEF RootInv
  <2>3. Sound(db')
    BY <1>3, WholeSound
  <2> QED BY <1>3, <2>2, <2>3 DEF StoredInv, Whole, Sound, Answers
<1>5. NavigationIsExact'
  BY <1>2, WritesNavigate
<1>6. HomeFolders(wrote') = HomeFolders(s)
  BY <1>3 DEF HomeFolders
<1>7. tree' \subseteq Files
  BY DEF CodecInv
<1> QED BY <1>1, <1>2, <1>3, <1>4, <1>5, <1>6, <1>7 DEF CodecInv

\* What the lane writes of an altered database is sound, and nothing is said of its files.
LEMMA LaneAlters ==
  ASSUME CodecInv, Lane, altered
  PROVE  CodecInv'
<1>1. PICK i \in DOMAIN db.ents :
        LET described == [db.ents EXCEPT ![i].says = @ \cup {"inferred"}]
            snapshot  == Snapshot(db.id, described, Loaded(db).top, db.edges)
        IN /\ db' = Stored(snapshot)
           /\ write_projections(snapshot)
           /\ wrote' = Missing
  BY Zenon DEF Lane
<1> PICK ents : ents = db.ents
  OBVIOUS
<1>2. Sound(db) /\ TextsInv /\ tree \subseteq Files
  BY DEF Lane, CodecInv, StoredInv
<1> PICK x : x = ents[i].says \cup {"inferred"}
  OBVIOUS
<1> DEFINE described == [ents EXCEPT ![i].says = x]
           snapshot  == Snapshot(db.id, described, Loaded(db).top, db.edges)
<1>3. described = [j \in DOMAIN ents |-> IF j = i THEN [ents[i] EXCEPT !.says = x] ELSE ents[j]]
  BY Zenon
<1>4. db' = Stored(snapshot) /\ write_projections(snapshot) /\ wrote' = Missing
  BY <1>1
<1>5. DOMAIN described = DOMAIN ents /\ \A j \in DOMAIN ents : described[j].sockets = ents[j].sockets
  <2>1. [ents[i] EXCEPT !.says = x].sockets = ents[i].sockets
    OBVIOUS
  <2>2. PICK f : f = [ents[i] EXCEPT !.says = x]
    OBVIOUS
  <2>3. described = [j \in DOMAIN ents |-> IF j = i THEN f ELSE ents[j]]
    BY <1>3, <2>2
  <2> HIDE DEF described
  <2> QED BY <2>1, <2>2, <2>3
<1> HIDE DEF described
<1>6. PICK s : s = snapshot
  OBVIOUS
<1>7. s.ents = described
  BY <1>6 DEF Snapshot
<1>8. Sound(s)
  BY <1>2, <1>5, <1>7 DEF Sound, Answers
<1>9. Sound(Stored(s))
  BY <1>8 DEF Sound, Answers, Stored, Snapshot
<1>10. TextsInv'
  BY <1>2, <1>4, <1>6, <1>8, WritesTexts
<1>11. altered' /\ tree' = tree
  BY DEF Lane
<1>12. StoredInv'
  <2>1. Sound(db')
    BY <1>4, <1>6, <1>9
  <2> QED BY <1>11, <2>1 DEF StoredInv, Sound, Answers
<1> QED BY <1>2, <1>4, <1>10, <1>11, <1>12 DEF CodecInv, RootInv, NavigationIsExact

\* A rebuild from a root with the lines it was written with brings back what survives.
LEMMA RebuildBrings ==
  ASSUME CodecInv, Rebuild, Untouched
  PROVE  Whole(wrote) /\ db' = Surviving(wrote)
<1> PICK text : text = idx[Top]
  OBVIOUS
<1>1. Top \in DOMAIN idx /\ text.scale = "galaxy" /\ db' = Rebuilt(text)
  BY DEF Rebuild, Rebuilt
<1>2. wrote # Missing /\ Agree(text, encode_atlas_idx(wrote, Galaxy))
  BY DEF Untouched
<1>3. Whole(wrote) /\ text.snapshot = wrote.id
  BY <1>1, <1>2 DEF CodecInv, RootInv
<1>4. Rebuilt(text) = Surviving(wrote)
  BY <1>2, <1>3, RoundTrip
<1> QED BY <1>1, <1>3, <1>4

\* An edit of the tree or of PURPOSE.md touches no file of the project's own.
LEMMA EditKeeps == CodecInv /\ Edit => CodecInv'
<1> SUFFICES ASSUME CodecInv, Edit PROVE CodecInv'
  OBVIOUS
<1>1. tree' \subseteq Files
  BY DEF CodecInv, Edit
<1>2. UNCHANGED <<db, idx, wrote, altered>>
  BY DEF Edit
<1>3. TextsInv' /\ RootInv' /\ NavigationIsExact'
  BY <1>2, FilesKept
<1>4. StoredInv'
  BY <1>2 DEF CodecInv, StoredInv
<1> QED BY <1>1, <1>2, <1>3, <1>4 DEF CodecInv

\* The root's file is all that others touch.
LEMMA TouchKeeps == CodecInv /\ Touch => CodecInv'
<1> SUFFICES ASSUME CodecInv, Touch PROVE CodecInv'
  OBVIOUS
<1>0. UNCHANGED <<tree, goals, db, altered, wrote>> /\ Top \in DOMAIN idx
  BY DEF Touch
<1>1. PICK text : /\ IsText(text) /\ Speaks(text)
                  /\ idx' = [idx EXCEPT ![Top] = text]
                  /\ \/ text.scale = "folder"
                     \/ text.scale = idx[Top].scale /\ text.snapshot = idx[Top].snapshot
  <2>1. CASE \E d \in DOMAIN idx \ {Top} : idx' = [idx EXCEPT ![Top] = idx[d]]
    BY <2>1 DEF CodecInv, TextsInv
  <2>2. CASE \E l : \/ l \in Foreign /\ idx' = [idx EXCEPT ![Top].lines = @ \cup {l}]
                    \/ idx' = [idx EXCEPT ![Top].lines = @ \ {l}]
    <3>1. PICK old : old = idx[Top]
      OBVIOUS
    <3>2. IsText(old) /\ Speaks(old)
      BY <1>0, <3>1 DEF CodecInv, TextsInv
    <3>3. \A l \in Foreign : l.tag = "entity" => l.id \in AllIds
      <4>1. ASSUME NEW d \in DOMAIN idx \ {Top}, NEW l \in Tagged(idx[d], "entity") PROVE l.id \in AllIds
        BY <4>1 DEF CodecInv, TextsInv, Speaks
      <4>2. \A t, seen : \A l \in EdgeLines(t, seen) : l.tag = "edge"
        BY DEF EdgeLines
      <4> QED BY <4>1, <4>2 DEF Foreign
    <3>4. PICK all : /\ idx' = [idx EXCEPT ![Top].lines = all]
                     /\ \A l \in all : l.tag = "entity" => l.id \in AllIds
      <4>1. PICK l : \/ l \in Foreign /\ idx' = [idx EXCEPT ![Top].lines = @ \cup {l}]
                     \/ idx' = [idx EXCEPT ![Top].lines = @ \ {l}]
        BY <2>2
      <4>2. \A m \in old.lines : m.tag = "entity" => m.id \in AllIds
        BY <3>2 DEF Speaks, Tagged
      <4>3. CASE l \in Foreign /\ idx' = [idx EXCEPT ![Top].lines = @ \cup {l}]
        <5>1. PICK more : more = old.lines \cup {l}
          OBVIOUS
        <5>2. idx' = [idx EXCEPT ![Top].lines = more]
          BY <3>1, <4>3, <5>1, Zenon
        <5>3. \A m \in more : m.tag = "entity" => m.id \in AllIds
          BY <3>3, <4>2, <4>3, <5>1
        <5> HIDE DEF Foreign
        <5> QED BY <5>2, <5>3, Zenon
      <4>4. CASE idx' = [idx EXCEPT ![Top].lines = @ \ {l}]
        <5>1. PICK less : less = old.lines \ {l}
          OBVIOUS
        <5>2. idx' = [idx EXCEPT ![Top].lines = less]
          BY <3>1, <4>4, <5>1, Zenon
        <5> QED BY <4>2, <5>1, <5>2
      <4> QED BY <4>1, <4>3, <4>4
    <3>5. PICK text : text = [scale |-> old.scale, snapshot |-> old.snapshot, lines |-> all]
      OBVIOUS
    <3>6. [old EXCEPT !.lines = all] = text
      <4>1. PICK sc, sn, li : sc = old.scale /\ sn = old.snapshot /\ li = old.lines
        OBVIOUS
      <4>2. old = [scale |-> sc, snapshot |-> sn, lines |-> li]
        BY <3>2, <4>1 DEF IsText
      <4>3. [[scale |-> sc, snapshot |-> sn, lines |-> li] EXCEPT !.lines = all]
                     = [scale |-> sc, snapshot |-> sn, lines |-> all]
        OBVIOUS
      <4>4. [old EXCEPT !.lines = all] = [scale |-> sc, snapshot |-> sn, lines |-> all]
        BY <4>2, <4>3, Zenon
      <4> QED BY <3>5, <4>1, <4>4
    <3>7. idx' = [idx EXCEPT ![Top] = [old EXCEPT !.lines = all]]
      BY <3>1, <3>4, Zenon
    <3>8. idx' = [idx EXCEPT ![Top] = text]
      BY <3>6, <3>7, Zenon
    <3>9. text.scale = old.scale /\ text.snapshot = old.snapshot /\ text.lines = all /\ IsText(text)
      BY <3>5 DEF IsText
    <3>10. Speaks(text)
      BY <3>4, <3>9 DEF Speaks, Tagged
    <3> QED BY <3>1, <3>8, <3>9, <3>10
  <2> QED BY <2>1, <2>2 DEF Touch
<1>2. DOMAIN idx' = DOMAIN idx /\ idx'[Top] = text /\ \A d \in DOMAIN idx \ {Top} : idx'[d] = idx[d]
  BY <1>0, <1>1
<1>3. TextsInv'
  BY <1>1, <1>2 DEF CodecInv, TextsInv, IsText, Speaks, Tagged
<1>4. RootInv' /\ StoredInv'
  <2>1. wrote # Missing => Whole(wrote')
    BY <1>0 DEF CodecInv, RootInv
  <2> QED BY <1>0, <1>1, <1>2, <2>1 DEF RootInv, StoredInv, CodecInv
<1>5. NavigationIsExact'
  BY <1>0, <1>2, NavigationKept DEF CodecInv
<1> QED BY <1>0, <1>2, <1>3, <1>4, <1>5 DEF CodecInv

\* Every step keeps the invariant.
LEMMA CodecNext == CodecInv /\ [CNext]_cvars => CodecInv'
<1> SUFFICES ASSUME CodecInv, [CNext]_cvars PROVE CodecInv'
  OBVIOUS
<1>1. CASE Edit
  BY <1>1, EditKeeps
<1>2. CASE Scan
  <2>1. tree \in SUBSET Files
    BY DEF CodecInv
  <2> QED BY <1>2, <2>1, ScanWhole, WriteKeeps
<1>3. CASE Lane
  <2>1. CASE altered
    BY <1>3, <2>1, LaneAlters
  <2>2. CASE ~altered
    <3>1. Whole(db)
      BY <1>3, <2>2 DEF CodecInv, StoredInv, Lane
    <3> QED BY <1>3, <2>2, <3>1, LaneWhole, WriteKeeps
  <2> QED BY <2>1, <2>2
<1>4. CASE Lose
  <2>1. db' = Missing /\ UNCHANGED <<tree, idx, wrote>>
    BY <1>4 DEF Lose
  <2>2. TextsInv' /\ RootInv' /\ NavigationIsExact'
    BY <2>1, FilesKept
  <2>3. StoredInv'
    BY <2>1 DEF StoredInv
  <2> QED BY <2>1, <2>2, <2>3 DEF CodecInv
<1>5. CASE Rebuild
  <2>1. UNCHANGED <<tree, idx, wrote>>
    BY <1>5 DEF Rebuild
  <2>2. TextsInv' /\ RootInv' /\ NavigationIsExact'
    BY <2>1, FilesKept
  <2>3. altered' = ~Untouched
    BY <1>5 DEF Rebuild
  <2>4. Untouched => Whole(db')
    BY <1>5, RebuildBrings, SurvivingWhole
  <2>5. Sound(db')
    <3>1. db' = Rebuilt(idx[Top]) /\ Speaks(idx[Top])
      BY <1>5 DEF Rebuild, Rebuilt, CodecInv, TextsInv
    <3> QED BY <3>1, RebuiltSound
  <2>6. StoredInv'
    BY <2>3, <2>4, <2>5 DEF StoredInv, Whole, Sound, Answers
  <2> QED BY <2>1, <2>2, <2>6 DEF CodecInv
<1>6. CASE Touch
  BY <1>6, TouchKeeps
<1>7. CASE UNCHANGED cvars
  <2>1. UNCHANGED <<tree, db, idx, altered, wrote>>
    BY <1>7 DEF cvars
  <2>2. TextsInv' /\ RootInv' /\ NavigationIsExact'
    BY <2>1, FilesKept
  <2>3. StoredInv'
    BY <2>1 DEF CodecInv, StoredInv
  <2> QED BY <2>1, <2>2, <2>3 DEF CodecInv
<1> QED BY <1>1, <1>2, <1>3, <1>4, <1>5, <1>6, <1>7 DEF CNext

\* The inductive invariant of the tree of files and its database: unless an altered root
\* was restored, both hold snapshots of some tree, whole, and the root's file names the
\* one it was written from or is no galaxy's.
THEOREM CodecInvariant == CSpec => []CodecInv
<1>1. CInit => CodecInv
  BY CodecInit
<1>2. CodecInv /\ [CNext]_cvars => CodecInv'
  BY CodecNext
<1> QED BY <1>1, <1>2, PTL DEF CSpec

\* write_projections: every folder with files of its own lists them, and its pointers
\* lead, followed on, to just the folders below that are linked by such folders.
THEOREM PointersLeadThere == CSpec => []NavigationIsExact
<1>1. CodecInv => NavigationIsExact
  BY DEF CodecInv
<1> QED BY <1>1, CodecInvariant, PTL

\* rebuild_repository_from_portable: from a root whose lines that reach the database are
\* those it was written with it brings back all that survives of the snapshot it was
\* written from and nothing else, and once is as good as twice.
THEOREM RebuildsRestore == CSpec => RebuildRestores
<1>1. CodecInv /\ [CNext]_cvars =>
        [Rebuild /\ Untouched => db' = Surviving(wrote) /\ Surviving(db') = db']_cvars
  <2> SUFFICES ASSUME CodecInv, Rebuild, Untouched
               PROVE  db' = Surviving(wrote) /\ Surviving(db') = db'
    OBVIOUS
  <2>1. Whole(wrote) /\ db' = Surviving(wrote)
    BY RebuildBrings
  <2>2. Surviving(Surviving(wrote)) = Surviving(wrote)
    BY <2>1, SurvivingWhole
  <2> QED BY <2>1, <2>2
<1> QED BY <1>1, CodecInvariant, PTL DEF CSpec, RebuildRestores
=============================================================================
