---------------------------- MODULE IndexProofs ----------------------------
(***************************************************************************)
(* Where the parse cache can be trusted, and what an index made with it    *)
(* says, for every tree, every history of edits and failures, and every    *)
(* assignment of texts to names.                                           *)
(***************************************************************************)
EXTENDS Index, FiniteSetTheorems, TLAPS

(* Types.                                                                  *)

\* ParseOf yields a parse, and NoParse where there is no text.
LEMMA ParseOfType ==
    ASSUME IndexAssumption, NEW f \in Files, NEW text \in Texts \cup {Gone}
    PROVE  /\ ParseOf(f, text) \in Parse
           /\ ParseOf(f, Gone) = NoParse
<1>1. ParseOf(f, Gone) = NoParse
    BY DEF IndexAssumption, ParseOf
<1>2. CASE text \in Texts \ NonUtf8
    <2>1. ParseOf(f, text) = [lang |-> Lang[f], text |-> text]
        BY <1>2 DEF ParseOf
    <2>2. Lang[f] \in Grammars
        BY DEF Grammars
    <2> QED BY <1>1, <1>2, <2>1, <2>2 DEF Parse
<1>3. CASE text \notin Texts \ NonUtf8
    BY <1>1, <1>3 DEF ParseOf, Parse
<1> QED BY <1>2, <1>3

LEMMA TypeInit == IndexAssumption /\ Init => TypeOK
<1> SUFFICES ASSUME IndexAssumption, Init PROVE TypeOK
    OBVIOUS
<1>1. NoParse \in Parse
    BY DEF Parse
<1>2. disk \in [Files -> Texts \cup {Gone}]
    <2>1. Tree \in [Files -> Texts \cup {Gone}]
        BY DEF IndexAssumption
    <2>2. disk = Tree
        BY DEF Init
    <2> QED BY <2>1, <2>2
<1>3. cache \in [Texts -> Parse] /\ parses \in [Files -> Parse] /\ index \in [Files -> Parse]
    BY <1>1 DEF Init, Nothing, Empty
<1>4. prints \in [Files -> Texts \cup {Gone}]
    BY DEF Init, Unscanned
<1> QED BY <1>2, <1>3, <1>4 DEF Init, TypeOK

LEMMA TypeNext == IndexAssumption /\ TypeOK /\ [Next]_vars => TypeOK'
<1> SUFFICES ASSUME IndexAssumption, TypeOK, [Next]_vars PROVE TypeOK'
    OBVIOUS
<1> USE DEF TypeOK
<1>1. ASSUME NEW f \in Files, Edit(f) PROVE TypeOK'
    <2>1. PICK text \in Texts \cup {Gone} : disk' = [disk EXCEPT ![f] = text]
        BY <1>1 DEF Edit
    <2>2. raced' \subseteq Texts
        BY <1>1 DEF Edit
    <2>3. disk' \in [Files -> Texts \cup {Gone}]
        BY <2>1
    <2>4. UNCHANGED <<cache, pc, todo, prints, parses, index, spoken, fails>> /\ quiet' = FALSE
          /\ edits' \in Nat
        BY <1>1 DEF Edit
    <2> QED BY <2>2, <2>3, <2>4
<1>2. CASE Begin
    BY <1>2 DEF Begin, history
<1>3. ASSUME NEW f \in Files, Fingerprint(f) PROVE TypeOK'
    <2>1. Lang[f] \in Grammars
        BY DEF Grammars
    <2>2. spoken' \subseteq Texts \X Grammars
        BY <1>3, <2>1 DEF Fingerprint
    <2> QED BY <1>3, <2>2 DEF Fingerprint
<1>4. CASE Retain
    BY <1>4 DEF Retain, Live, Parse
<1>5. ASSUME NEW f \in Files, Hit(f) PROVE TypeOK'
    <2>1. prints[f] \in Texts
        BY <1>5 DEF Hit
    <2>2. cache[prints[f]] \in Parse
        BY <2>1
    <2> QED BY <1>5, <2>2 DEF Hit, history, history
<1>6. ASSUME NEW f \in Files, Miss(f) PROVE TypeOK'
    <2>1. ParseOf(f, disk[f]) \in Parse
        BY ParseOfType
    <2> QED BY <1>6, <2>1 DEF Miss, history, history
<1>7. CASE Publish
    BY <1>7 DEF Publish, End, Unscanned, Nothing, Parse, history
<1>8. CASE Fail
    BY <1>8 DEF Fail, End, Unscanned, Nothing, Parse, history
<1>9. CASE Restart
    BY <1>9 DEF Restart, End, Unscanned, Nothing, Empty, Parse
<1>10. CASE UNCHANGED vars
    BY <1>10 DEF vars, history
<1> QED BY <1>1, <1>2, <1>3, <1>4, <1>5, <1>6, <1>7, <1>8, <1>9, <1>10 DEF Next, Indexing

\* Every variable keeps its type, and the enrichment visits only files the scan
\* found (enrich_snapshot_cached iterates over the snapshot's entities).
THEOREM TypeCorrect == Spec => []TypeOK
<1>1. Init => TypeOK
    BY IndexAssumption, TypeInit
<1>2. TypeOK /\ [Next]_vars => TypeOK'
    BY IndexAssumption, TypeNext
<1> QED BY <1>1, <1>2, PTL DEF Spec

-----------------------------------------------------------------------------
(* The inductive invariant.                                                *)

\* A file that no longer has the text its fingerprint says was caught racing, and
\* the grammar it would be parsed by is known to the history.
PrintInv ==
    \A f \in Files : prints[f] # Gone =>
        /\ prints[f] # disk[f] => prints[f] \in raced
        /\ <<prints[f], Lang[f]>> \in spoken

\* The entry of a text no race has touched is the parse of that text by a grammar
\* in which it was met.
CacheInv ==
    \A t \in Texts \ raced : cache[t] # NoParse =>
        /\ t \notin NonUtf8
        /\ \E lang \in Grammars : <<t, lang>> \in spoken /\ cache[t] = [lang |-> lang, text |-> t]

\* As long as no file changed, what the running index has visited is true.
VisitedInv ==
    /\ pc \in {"idle", "scan"} => parses = Nothing
    /\ pc \in {"scan", "enrich"} /\ quiet =>
          \A f \in Files : pc = "enrich" \/ f \notin todo => prints[f] = disk[f]
    /\ pc = "enrich" /\ quiet =>
          \A f \in Files \ todo : Trusted(f) => parses[f] = ParseOf(f, disk[f])

TrustInv == PrintInv /\ CacheInv /\ VisitedInv

-----------------------------------------------------------------------------
(* One lemma per group of actions.                                         *)

LEMMA TrustInit == IndexAssumption /\ Init => TrustInv
    BY DEF IndexAssumption, Init, TrustInv, PrintInv, CacheInv, VisitedInv, Unscanned, Empty

\* An edit of a file with a fingerprint marks the text as raced.
LEMMA TrustEdit ==
    ASSUME IndexAssumption, TypeOK, TrustInv, NEW f \in Files, Edit(f)
    PROVE  TrustInv'
<1> USE DEF TypeOK, TrustInv
<1>1. /\ UNCHANGED <<cache, pc, todo, prints, parses, spoken>> /\ ~quiet'
      /\ raced' = raced \cup ({prints[f]} \ {Gone})
      /\ \A g \in Files : g # f => disk'[g] = disk[g]
    BY DEF Edit
<1>2. PrintInv'
    BY <1>1 DEF PrintInv
<1>3. CacheInv'
    BY <1>1 DEF CacheInv, NoParse
<1>4. VisitedInv'
    BY <1>1 DEF VisitedInv, Nothing
<1> QED BY <1>2, <1>3, <1>4

\* The steps of an index leave the disk alone and keep what it has visited true.
LEMMA TrustIndexing ==
    ASSUME IndexAssumption, TypeOK, TypeOK', TrustInv, Indexing
    PROVE  TrustInv'
<1> USE DEF TypeOK, TrustInv
<1>1. CASE Begin
    <2>1. /\ UNCHANGED <<disk, cache, prints, parses, raced, spoken>>
          /\ pc = "idle" /\ pc' = "scan" /\ todo' = Files
        BY <1>1 DEF Begin, history
    <2> QED BY <2>1 DEF PrintInv, CacheInv, VisitedInv, NoParse, Nothing
<1>2. ASSUME NEW f \in Files, Fingerprint(f) PROVE TrustInv'
    <2>1. /\ UNCHANGED <<disk, cache, pc, parses, quiet, raced>>
          /\ prints' = [prints EXCEPT ![f] = disk[f]]
          /\ spoken' = spoken \cup (({disk[f]} \ {Gone}) \X {Lang[f]})
          /\ todo' = todo \ {f} /\ pc = "scan"
        BY <1>2 DEF Fingerprint
    <2>2. PrintInv'
        BY <2>1 DEF PrintInv
    <2>3. CacheInv'
        BY <2>1 DEF CacheInv, NoParse
    <2>4. VisitedInv'
        BY <2>1 DEF VisitedInv, Nothing
    <2> QED BY <2>2, <2>3, <2>4
<1>3. CASE Retain
    <2>1. /\ UNCHANGED <<disk, prints, parses, quiet>>
          /\ pc = "scan" /\ todo = {} /\ pc' = "enrich"
          /\ todo' = {f \in Files : prints[f] # Gone}
          /\ cache' = [t \in Texts |-> IF t \in Live THEN cache[t] ELSE NoParse]
          /\ raced' = raced \cap Live
          /\ spoken' = {s \in spoken : s[1] \in Live}
        BY <1>3 DEF Retain
    <2>2. \A f \in Files : prints[f] # Gone => prints[f] \in Live
        BY DEF Live
    <2>3. PrintInv'
        BY <2>1, <2>2 DEF PrintInv
    <2>4. CacheInv'
        BY <2>1 DEF CacheInv, NoParse
    <2>5. VisitedInv'
        <3> SUFFICES ASSUME quiet
                     PROVE  \A f \in Files : /\ prints[f] = disk[f]
                                             /\ f \notin todo' => parses[f] = ParseOf(f, disk[f])
            BY <2>1 DEF VisitedInv, ParseOf
        <3>1. \A f \in Files : prints[f] = disk[f] /\ parses[f] = NoParse
            BY <2>1 DEF VisitedInv, Nothing
        <3> QED BY <3>1, <2>1, ParseOfType
    <2> QED BY <2>3, <2>4, <2>5
<1>4. ASSUME NEW f \in Files, Hit(f) PROVE TrustInv'
    <2>1. /\ UNCHANGED <<disk, cache, pc, prints, quiet, raced, spoken>>
          /\ parses' = [parses EXCEPT ![f] = cache[prints[f]]]
          /\ todo' = todo \ {f} /\ pc = "enrich" /\ f \in todo /\ cache[prints[f]] # NoParse
          /\ prints[f] \in Texts
        BY <1>4 DEF Hit, history
    <2>2. quiet /\ Trusted(f) => cache[prints[f]] = ParseOf(f, disk[f])
        <3> SUFFICES ASSUME quiet, Trusted(f) PROVE cache[prints[f]] = ParseOf(f, disk[f])
            OBVIOUS
        <3>1. prints[f] = disk[f] /\ disk[f] \in Texts \ raced
            BY <2>1 DEF VisitedInv, Trusted
        <3>2. disk[f] \notin NonUtf8
            BY <2>1, <3>1 DEF CacheInv
        <3>3. PICK lang \in Grammars : <<disk[f], lang>> \in spoken
                                       /\ cache[disk[f]] = [lang |-> lang, text |-> disk[f]]
            BY <2>1, <3>1 DEF CacheInv
        <3>4. lang = Lang[f]
            BY <3>3 DEF Trusted
        <3> QED BY <3>1, <3>2, <3>3, <3>4 DEF ParseOf
    <2>3. VisitedInv'
        BY <2>1, <2>2 DEF VisitedInv, ParseOf, Trusted
    <2> QED BY <2>1, <2>3 DEF PrintInv, CacheInv, NoParse
<1>5. ASSUME NEW f \in Files, Miss(f) PROVE TrustInv'
    <2> DEFINE new == ParseOf(f, disk[f])
    <2>1. /\ UNCHANGED <<disk, pc, prints, quiet, raced, spoken>>
          /\ parses' = [parses EXCEPT ![f] = new]
          /\ cache' = [cache EXCEPT ![prints[f]] = new]
          /\ todo' = todo \ {f} /\ pc = "enrich" /\ prints[f] \in Texts /\ prints[f] # Gone
        BY <1>5 DEF Miss, history, IndexAssumption
    <2>2. CacheInv'
        <3> SUFFICES ASSUME NEW t \in Texts \ raced, cache'[t] # NoParse
                     PROVE  /\ t \notin NonUtf8
                            /\ \E lang \in Grammars : /\ <<t, lang>> \in spoken
                                                      /\ cache'[t] = [lang |-> lang, text |-> t]
            BY <2>1 DEF CacheInv, NoParse
        <3>1. CASE t = prints[f]
            <4>1. disk[f] = t /\ <<t, Lang[f]>> \in spoken
                BY <2>1, <3>1 DEF PrintInv
            <4>2. cache'[t] = ParseOf(f, t)
                BY <2>1, <3>1, <4>1
            <4>3. t \notin NonUtf8 /\ cache'[t] = [lang |-> Lang[f], text |-> t]
                BY <4>2 DEF ParseOf
            <4>4. Lang[f] \in Grammars
                BY DEF Grammars
            <4> QED BY <4>1, <4>3, <4>4
        <3>2. CASE t # prints[f]
            BY <2>1, <3>2 DEF CacheInv
        <3> QED BY <3>1, <3>2
    <2>3. VisitedInv'
        BY <2>1 DEF VisitedInv, ParseOf, Trusted
    <2> QED BY <2>1, <2>2, <2>3 DEF PrintInv
<1>6. CASE Publish
    <2>1. /\ UNCHANGED <<disk, cache, raced, spoken>>
          /\ pc' = "idle" /\ prints' = Unscanned /\ parses' = Nothing
        BY <1>6 DEF Publish, End, history
    <2> QED BY <2>1 DEF PrintInv, CacheInv, VisitedInv, NoParse, Unscanned
<1> QED BY <1>1, <1>2, <1>3, <1>4, <1>5, <1>6 DEF Indexing

\* A failed index forgets what it read, a restart the cache as well.
LEMMA TrustFailure ==
    ASSUME IndexAssumption, TypeOK, TrustInv, Fail \/ Restart
    PROVE  TrustInv'
<1> USE DEF TypeOK, TrustInv
<1>1. /\ pc' = "idle" /\ prints' = Unscanned /\ parses' = Nothing
      /\ \/ UNCHANGED <<cache, raced, spoken>>
         \/ cache' = Empty
    BY DEF Fail, Restart, End, history
<1>2. PrintInv' /\ VisitedInv'
    BY <1>1 DEF PrintInv, VisitedInv, Unscanned
<1>3. CacheInv'
    BY <1>1 DEF CacheInv, Empty, NoParse
<1> QED BY <1>2, <1>3

LEMMA TrustNext == IndexAssumption /\ TypeOK /\ TrustInv /\ [Next]_vars => TrustInv'
<1> SUFFICES ASSUME IndexAssumption, TypeOK, TrustInv, [Next]_vars PROVE TrustInv'
    OBVIOUS
<1>1. TypeOK'
    BY TypeNext
<1>2. ASSUME NEW f \in Files, Edit(f) PROVE TrustInv'
    BY <1>2, TrustEdit
<1>3. CASE Indexing
    BY <1>1, <1>3, TrustIndexing
<1>4. CASE Fail \/ Restart
    BY <1>4, TrustFailure
<1>5. CASE UNCHANGED vars
    BY <1>5 DEF vars, history, TrustInv, PrintInv, CacheInv, VisitedInv, Trusted, ParseOf, NoParse
<1> QED BY <1>2, <1>3, <1>4, <1>5 DEF Next

\* The invariant holds throughout.
THEOREM TrustHolds == Spec => [](TypeOK /\ TrustInv)
<1>1. Init => TypeOK /\ TrustInv
    BY IndexAssumption, TypeInit, TrustInit
<1>2. TypeOK /\ TrustInv /\ [Next]_vars => (TypeOK /\ TrustInv)'
    BY IndexAssumption, TypeNext, TrustNext
<1> QED BY <1>1, <1>2, PTL DEF Spec

\* The daemon's undisturbed index is the full index of every file whose text the cache
\* can be trusted with (index.rs: "The result is identical"), whatever is edited, copied
\* and undone before, while an index runs or not, and whatever fails.
THEOREM CacheCanBeTrusted == Spec => IndexIsTrue
<1>1. TypeOK /\ TrustInv /\ [Next]_vars =>
        [Publish /\ quiet =>
            \A f \in Files : Trusted(f) => index'[f] = ParseOf(f, disk[f])]_vars
    <2> SUFFICES ASSUME TrustInv, Publish, quiet, NEW f \in Files, Trusted(f)
                 PROVE  index'[f] = ParseOf(f, disk[f])
        OBVIOUS
    <2> QED BY DEF Publish, TrustInv, VisitedInv
<1> QED BY <1>1, TrustHolds, PTL DEF IndexIsTrue, Spec

-----------------------------------------------------------------------------
(* Sockets: what a true index says of them is true.                        *)

\* Every file is indexed as it is.
TrueIndex == \A f \in Files : index[f] = ParseOf(f, disk[f])

\* What the sockets then say of a name.
TrueNames ==
    \A name \in Names :
        LET readable == {g \in Files : disk[g] \in Texts \ NonUtf8}
        IN /\ Resolution(name) = "no_match" =>
                \A g \in readable : name \notin Exports[disk[g]] \cup Inner[disk[g]]
           /\ Resolution(name) = "fit" =>
                Cardinality({g \in readable : name \in Exports[disk[g]]}) = 1

LEMMA TrueHoles == TypeOK /\ TrueIndex => TrueNames
<1> SUFFICES ASSUME TypeOK, TrueIndex, NEW name \in Names
             PROVE  LET readable == {g \in Files : disk[g] \in Texts \ NonUtf8}
                    IN /\ Resolution(name) = "no_match" =>
                            \A g \in readable : name \notin Exports[disk[g]] \cup Inner[disk[g]]
                       /\ Resolution(name) = "fit" =>
                            Cardinality({g \in readable : name \in Exports[disk[g]]}) = 1
    BY DEF TrueNames
<1> USE IndexAssumption
<1> DEFINE readable == {g \in Files : disk[g] \in Texts \ NonUtf8}
           defines  == \E g \in Files : name \in DefinesOf(index[g])
           count    == Cardinality(Providers(name))
<1>1. ASSUME NEW g \in Files
      PROVE  /\ g \in readable => /\ ExportsOf(index[g]) = Exports[disk[g]]
                                  /\ DefinesOf(index[g]) = Exports[disk[g]] \cup Inner[disk[g]]
             /\ g \notin readable => ExportsOf(index[g]) = {}
    <2>1. index[g] = ParseOf(g, disk[g])
        BY DEF TrueIndex
    <2>2. CASE g \in readable
        <3>1. index[g].text = disk[g] /\ disk[g] \in Texts
            BY <2>1, <2>2 DEF ParseOf
        <3> QED BY <2>2, <3>1 DEF ExportsOf, DefinesOf
    <2>3. CASE g \notin readable
        <3>1. index[g].text = Gone
            BY <2>1, <2>3 DEF ParseOf, NoParse
        <3> QED BY <2>3, <3>1 DEF ExportsOf, IndexAssumption
    <2> QED BY <2>2, <2>3
<1>2. Providers(name) = {g \in readable : name \in Exports[disk[g]]}
    BY <1>1 DEF Providers
<1>3. IsFiniteSet(Providers(name)) /\ count \in Nat /\ (count = 0 <=> Providers(name) = {})
    <2>1. IsFiniteSet(Providers(name))
        BY FS_Subset DEF Providers, IndexAssumption
    <2> QED BY <2>1, FS_CardinalityType, FS_EmptySet
<1>4. CASE count = 1
    <2>1. Resolution(name) = "fit"
        BY <1>3, <1>4 DEF Resolution
    <2> QED BY <1>2, <1>4, <2>1
<1>5. CASE count > 1
    <2>1. Resolution(name) = "ambiguous"
        BY <1>3, <1>5 DEF Resolution
    <2> QED BY <2>1
<1>6. CASE Providers(name) = {} /\ defines
    <2>1. Resolution(name) = "unresolved"
        BY <1>3, <1>6 DEF Resolution
    <2> QED BY <2>1
<1>7. CASE Providers(name) = {} /\ ~defines
    <2>1. Resolution(name) = "no_match"
        BY <1>3, <1>7 DEF Resolution
    <2>2. \A g \in readable : name \notin Exports[disk[g]] \cup Inner[disk[g]]
        BY <1>1, <1>7
    <2> QED BY <2>1, <2>2
<1> QED BY <1>3, <1>4, <1>5, <1>6, <1>7

\* A name an undisturbed index of trusted texts calls missing is defined in no readable
\* file, and one it says fits is exported by exactly one (enrich.rs: "degrade explicitly,
\* never fabricate"), in any tree of finitely many files.
THEOREM HolesAreTrue == Spec => HolesAreReal
<1>1. TypeOK' /\ TrueIndex' => TrueNames'
    BY TrueHoles, PTL
<1>2. TypeOK /\ TypeOK' /\ TrustInv /\ [Next]_vars =>
        [Publish /\ quiet /\ (\A f \in Files : Trusted(f)) =>
            \A f \in Files : \A name \in ImportsOf(index'[f]) :
              LET readable == {g \in Files : disk[g] \in Texts \ NonUtf8}
              IN /\ Resolution(name)' = "no_match" =>
                      \A g \in readable : name \notin Exports[disk[g]] \cup Inner[disk[g]]
                 /\ Resolution(name)' = "fit" =>
                      Cardinality({g \in readable : name \in Exports[disk[g]]}) = 1]_vars
    <2> SUFFICES ASSUME TypeOK, TypeOK', TrustInv, Publish, quiet, \A f \in Files : Trusted(f),
                        NEW f \in Files, NEW name \in ImportsOf(index'[f])
                 PROVE  LET readable == {g \in Files : disk[g] \in Texts \ NonUtf8}
                        IN /\ Resolution(name)' = "no_match" =>
                                \A g \in readable : name \notin Exports[disk[g]] \cup Inner[disk[g]]
                           /\ Resolution(name)' = "fit" =>
                                Cardinality({g \in readable : name \in Exports[disk[g]]}) = 1
        OBVIOUS
    <2>1. disk' = disk
        BY DEF Publish
    <2>2. TrueIndex'
        BY <2>1 DEF TrueIndex, Publish, TrustInv, VisitedInv, ParseOf
    <2>3. TrueNames'
        BY <1>1, <2>2
    <2>4. name \in Names
        BY IndexAssumption DEF ImportsOf, IndexAssumption, TypeOK
    <2> QED BY <2>1, <2>3, <2>4 DEF TrueNames
<1> QED BY <1>2, TrustHolds, PTL DEF HolesAreReal, Spec
=============================================================================
