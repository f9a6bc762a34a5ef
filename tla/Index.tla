------------------------------- MODULE Index -------------------------------
(***************************************************************************)
(* The deterministic index of one root (index_project_cached): the scan    *)
(* fingerprints every file, the enrichment parses each file or takes the   *)
(* parse from the cache of the daemon, sockets are resolved over all of    *)
(* them.  Files are read twice, once by the scan and once by a parse that  *)
(* misses the cache, and people edit in between.                           *)
(*                                                                         *)
(* A text stands for its fingerprint.  A parse is the text it was made of  *)
(* and the grammar that made it; of a text only the names it exports, the  *)
(* names it defines unseen (private, or expanded from a macro) and the     *)
(* names it imports matter.                                                *)
(***************************************************************************)
EXTENDS Naturals, FiniteSets

CONSTANTS
    Files,      \* source files with a grammar
    Lang,       \* Lang[f]: the grammar of f, by its extension
    Texts,      \* contents a file may have
    NonUtf8,    \* those read_to_string refuses
    Gone,       \* "content" of a file that does not exist
    Names,      \* names a text may define or import
    Exports, Inner, Imports,   \* names of a text
    Tree,       \* the tree before the first index
    MaxEdits,   \* bound on the edits of a behaviour
    MaxFails    \* bound on failed indexes and restarts

ASSUME IndexAssumption ==
    /\ IsFiniteSet(Files)
    /\ NonUtf8 \subseteq Texts
    /\ Gone \notin Texts
    /\ Tree \in [Files -> Texts \cup {Gone}]
    /\ Exports \in [Texts -> SUBSET Names]
    /\ Inner \in [Texts -> SUBSET Names]
    /\ Imports \in [Texts -> SUBSET Names]
    /\ MaxEdits \in Nat
    /\ MaxFails \in Nat

VARIABLES
    disk,      \* disk[f]: the text of f
    cache,     \* ParseCache of the daemon
    pc,        \* where the index is
    todo,      \* files the phase has yet to visit
    prints,    \* prints[f]: the fingerprint the scan took
    parses,    \* parses[f]: the parse the enrichment used
    index,     \* index[f]: the parse in the published snapshot
    quiet,     \* history: no file changed since the running index began
    raced,     \* history: texts of files edited between their fingerprint and the end of
               \* the index, as long as the cache keeps them
    spoken,    \* history: <<text, grammar>> for every file fingerprinted, as long as the
               \* cache keeps the text
    edits,     \* edits so far
    fails      \* failures so far

history == <<raced, spoken>>
vars == <<disk, cache, pc, todo, prints, parses, index, quiet, history, edits, fails>>

Grammars == {Lang[f] : f \in Files}
NoParse  == [lang |-> "none", text |-> Gone]
Parse    == [lang : Grammars, text : Texts] \cup {NoParse}

\* adapter::parse of a file's source, and of nothing readable.
ParseOf(f, text) ==
    IF text \in Texts \ NonUtf8 THEN [lang |-> Lang[f], text |-> text] ELSE NoParse

TypeOK ==
    /\ disk \in [Files -> Texts \cup {Gone}]
    /\ cache \in [Texts -> Parse]
    /\ pc \in {"idle", "scan", "enrich"}
    /\ todo \subseteq Files
    /\ prints \in [Files -> Texts \cup {Gone}]
    /\ parses \in [Files -> Parse]
    /\ index \in [Files -> Parse]
    /\ quiet \in BOOLEAN
    /\ raced \subseteq Texts
    /\ spoken \subseteq Texts \X Grammars
    /\ edits \in Nat
    /\ fails \in Nat
    /\ pc = "enrich" => \A f \in todo : prints[f] # Gone

Unscanned == [f \in Files |-> Gone]
Nothing   == [f \in Files |-> NoParse]
Empty     == [t \in Texts |-> NoParse]

Init ==
    /\ disk = Tree
    /\ cache = Empty
    /\ pc = "idle"
    /\ todo = {}
    /\ prints = Unscanned
    /\ parses = Nothing
    /\ index = Nothing
    /\ quiet = FALSE
    /\ raced = {}
    /\ spoken = {}
    /\ edits = 0
    /\ fails = 0

\* Somebody writes, copies over, restores or deletes a file.
Edit(f) ==
    /\ edits < MaxEdits
    /\ edits' = edits + 1
    /\ \E text \in (Texts \cup {Gone}) \ {disk[f]} : disk' = [disk EXCEPT ![f] = text]
    /\ quiet' = FALSE
    /\ raced' = raced \cup ({prints[f]} \ {Gone})
    /\ UNCHANGED <<cache, pc, todo, prints, parses, index, spoken, fails>>

Begin ==
    /\ pc = "idle"
    /\ pc' = "scan"
    /\ todo' = Files
    /\ quiet' = TRUE
    /\ UNCHANGED <<disk, cache, prints, parses, index, history, edits, fails>>

\* collect_files reads f, if it is there, and scan_project_with hashes it.
Fingerprint(f) ==
    /\ pc = "scan"
    /\ f \in todo
    /\ todo' = todo \ {f}
    /\ prints' = [prints EXCEPT ![f] = disk[f]]
    /\ spoken' = spoken \cup (({disk[f]} \ {Gone}) \X {Lang[f]})
    /\ UNCHANGED <<disk, cache, pc, parses, index, quiet, raced, edits, fails>>

Live == {prints[f] : f \in Files} \ {Gone}

\* Mutant: the parses of texts no file has any more stay.
RetainAll ==
    /\ pc = "scan"
    /\ todo = {}
    /\ pc' = "enrich"
    /\ todo' = {f \in Files : prints[f] # Gone}
    /\ raced' = raced \cap Live
    /\ spoken' = {s \in spoken : s[1] \in Live}
    /\ UNCHANGED <<disk, cache, prints, parses, index, quiet, edits, fails>>

\* The enrichment begins by dropping the parses of texts no file has any more.
Retain ==
    /\ pc = "scan"
    /\ todo = {}
    /\ pc' = "enrich"
    /\ todo' = {f \in Files : prints[f] # Gone}
    /\ cache' = [t \in Texts |-> IF t \in Live THEN cache[t] ELSE NoParse]
    /\ raced' = raced \cap Live
    /\ spoken' = {s \in spoken : s[1] \in Live}
    /\ UNCHANGED <<disk, prints, parses, index, quiet, edits, fails>>

\* The cache knows the fingerprint: neither read nor parsed.
Hit(f) ==
    /\ pc = "enrich"
    /\ f \in todo
    /\ cache[prints[f]] # NoParse
    /\ todo' = todo \ {f}
    /\ parses' = [parses EXCEPT ![f] = cache[prints[f]]]
    /\ UNCHANGED <<disk, cache, pc, prints, index, quiet, history, edits, fails>>

\* The cache does not: f is read, now, and parsed, and the parse kept under the
\* fingerprint of the scan.  An unreadable file is left as the scanner made it.
Miss(f) ==
    /\ pc = "enrich"
    /\ f \in todo
    /\ cache[prints[f]] = NoParse
    /\ todo' = todo \ {f}
    /\ parses' = [parses EXCEPT ![f] = ParseOf(f, disk[f])]
    /\ cache' = [cache EXCEPT ![prints[f]] = ParseOf(f, disk[f])]
    /\ UNCHANGED <<disk, pc, prints, index, quiet, history, edits, fails>>

\* The running index ends, well or badly, and its variables with it.
End ==
    /\ pc' = "idle"
    /\ todo' = {}
    /\ prints' = Unscanned
    /\ parses' = Nothing

\* The snapshot is complete, and stored by the caller.
Publish ==
    /\ pc = "enrich"
    /\ todo = {}
    /\ End
    /\ index' = parses
    /\ UNCHANGED <<disk, cache, quiet, history, edits, fails>>

\* A file vanishes under the scan, the hierarchy or the store refuses the
\* snapshot: no snapshot, and the cache stays as it is by then.
Fail ==
    /\ pc \in {"scan", "enrich"}
    /\ fails < MaxFails
    /\ fails' = fails + 1
    /\ End
    /\ UNCHANGED <<disk, cache, index, quiet, history, edits>>

\* The daemon restarts with an empty cache; the snapshot is in the database.
Restart ==
    /\ fails < MaxFails
    /\ fails' = fails + 1
    /\ End
    /\ cache' = Empty
    /\ raced' = {}
    /\ spoken' = {}
    /\ UNCHANGED <<disk, index, quiet, edits>>

Indexing ==
    \/ Begin
    \/ \E f \in Files : Fingerprint(f) \/ Hit(f) \/ Miss(f)
    \/ Retain
    \/ Publish

Next ==
    \/ \E f \in Files : Edit(f)
    \/ Indexing
    \/ Fail
    \/ Restart

Spec == Init /\ [][Next]_vars
-----------------------------------------------------------------------------
(* Sockets.                                                                *)

ExportsOf(p) == IF p.text \in Texts THEN Exports[p.text] ELSE {}
DefinesOf(p) == IF p.text \in Texts THEN Exports[p.text] \cup Inner[p.text] ELSE {}
ImportsOf(p) == IF p.text \in Texts THEN Imports[p.text] ELSE {}

\* The providers resolve_sockets finds; a text is taken to export a name once.
Providers(name) == {f \in Files : name \in ExportsOf(index[f])}

\* Mutant: a name without a provider is a hole, whoever may define it unseen.
ResolutionWithoutHumility(name) ==
    CASE Cardinality(Providers(name)) = 1 -> "fit"
      [] Cardinality(Providers(name)) > 1 -> "ambiguous"
      [] Providers(name) = {}             -> "no_match"

\* resolve_sockets and the humility pass: what becomes of a required name.
Resolution(name) ==
    CASE Cardinality(Providers(name)) = 1 -> "fit"
      [] Cardinality(Providers(name)) > 1 -> "ambiguous"
      [] Providers(name) = {} /\ (\E f \in Files : name \in DefinesOf(index[f])) -> "unresolved"
      [] Providers(name) = {} /\ ~(\E f \in Files : name \in DefinesOf(index[f])) -> "no_match"
-----------------------------------------------------------------------------
(* What the index promises.                                                *)

\* What the cache may say of f, by the code's own rule that content decides the
\* parse, is the parse of f: the text was not caught in an edit between fingerprint
\* and parse, nor met in a file of another grammar, since the cache began to keep it.
Trusted(f) ==
    /\ disk[f] \notin raced
    /\ \A lang \in Grammars : <<disk[f], lang>> \in spoken => lang = Lang[f]

\* An index no edit disturbed shows every file as parsed by its own grammar from its
\* own text, whatever was edited, copied, undone, deleted and restored before, however
\* indexes failed and the daemon restarted (index.rs: "The result is identical").  The
\* exceptions are the two ways a cache entry can be wrong, and they last no longer
\* than the entry: an undisturbed index that meets no file of that text, and a
\* restart, end them.
IndexIsTrue ==
    [][Publish /\ quiet =>
          \A f \in Files : Trusted(f) => index'[f] = ParseOf(f, disk[f])]_vars

\* A no_match in an undisturbed index of trusted texts is a name no readable file of
\* the tree defines, seen or unseen, and a fit a name exactly one of them exports
\* (enrich.rs: "degrade explicitly, never fabricate").
HolesAreReal ==
    [][Publish /\ quiet /\ (\A f \in Files : Trusted(f)) =>
          \A f \in Files : \A name \in ImportsOf(index'[f]) :
            LET readable == {g \in Files : disk[g] \in Texts \ NonUtf8}
            IN /\ Resolution(name)' = "no_match" =>
                    \A g \in readable : name \notin Exports[disk[g]] \cup Inner[disk[g]]
               /\ Resolution(name)' = "fit" =>
                    Cardinality({g \in readable : name \in Exports[disk[g]]}) = 1]_vars
=============================================================================
