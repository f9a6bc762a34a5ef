------------------------------ MODULE MCRollup ------------------------------
(***************************************************************************)
(* Instances of Rollup: hierarchies of five entities.                      *)
(***************************************************************************)
EXTENDS Rollup

CONSTANTS u, g, p, f, s   \* universe, galaxy, planet, file, symbol or second file

Entity(scale, parent, at, symbol) ==
    [scale |-> scale, parent |-> parent, at |-> at, symbol |-> symbol]

Base(x) ==
    CASE x = u -> Entity(0, NoParent, 1, FALSE)
      [] x = g -> Entity(1, u, 2, FALSE)
      [] x = p -> Entity(3, g, 3, FALSE)
      [] x = f -> Entity(4, p, 4, FALSE)

\* A planet with two files.
Flat == [x \in {u, g, p, f, s} |-> IF x = s THEN Entity(4, p, 5, FALSE) ELSE Base(x)]

\* A file and its symbol, as the parser lists them; the database lists the symbol first.
Parsed == [x \in {u, g, p, f, s} |-> IF x = s THEN Entity(4, f, 5, TRUE) ELSE Base(x)]

\* A circle of two systems beside a sound chain: refused.
Circle == [x \in {u, g, p, f} |-> IF x = p THEN Entity(2, f, 3, FALSE)
                                 ELSE IF x = f THEN Entity(2, p, 4, FALSE) ELSE Base(x)]

MCSnapshots  == {Flat, Parsed, Circle}
MCByName     == [x \in {u, g, p, f, s} |-> CASE x = s -> 1 [] x = f -> 2 [] x = p -> 3
                                           [] x = g -> 4 [] x = u -> 5]
MCFloors     == [scale \in 0 .. 4 |-> [axis \in Axes |-> 1]]

Found(axis, outcome, source) ==
    [axis |-> axis, outcome |-> outcome, proof |-> 6, source |-> source]

MCFindings   == {Found("verification", "pass", "human"), Found("verification", "fail", "observed"),
                 Found("coherence", "pass", "inferred")}
\* Nothing recorded; or every axis that is judged by it passed, for all entities.
MCLedgers    == {{}, [entity : {u, g, p, f, s},
                      finding : {Found(axis, "pass", "human") :
                                     axis \in {"verification", "integration", "coherence"}}]}
MCDisputes   == {{s}, {f, s}, {g, f}, {p}}
=============================================================================
