------------------------------- MODULE MCOrbit -------------------------------
(***************************************************************************)
(* An instance of Orbit: one Atlas of nine entities, the requests that tell *)
(* its cases apart.                                                        *)
(***************************************************************************)
EXTENDS Orbit, TLC

\* A universe, a galaxy, two systems one in the other, two planets, two files and a
\* symbol.  The ids are in another order than the hierarchy.
Entry(level, parent) == [scale |-> level, parent |-> parent]
Tree == 5 :> Entry(0, 0) @@ 9 :> Entry(1, 5) @@ 3 :> Entry(2, 9) @@ 8 :> Entry(2, 3)
          @@ 2 :> Entry(3, 8) @@ 4 :> Entry(3, 9) @@ 6 :> Entry(4, 2) @@ 1 :> Entry(4, 6)
          @@ 7 :> Entry(4, 4)

Relationship(id, source, target, inferred) ==
    [id |-> id, source |-> source, target |-> target, inferred |-> inferred]

\* A circle 6 - 7 - 4 - 2, a shortcut by inference, a file that names itself, what a
\* model inferred of an entity there is not.
Graph == {Relationship(1, 6, 7, FALSE), Relationship(2, 7, 4, FALSE), Relationship(3, 2, 4, FALSE),
          Relationship(4, 6, 2, FALSE), Relationship(5, 1, 4, TRUE), Relationship(6, 6, 1, FALSE),
          Relationship(7, 7, 7, FALSE), Relationship(8, 4, 10, TRUE)}

Said(x) == [f \in Fields |-> CASE x = 2 /\ f = "purpose"      -> {"login"}
                               [] x = 4 /\ f = "purpose"      -> {"billing"}
                               [] x \in {2, 4} /\ f = "risks" -> {"untested"}
                               [] x = 4 /\ f = "capabilities" -> {"billing"}
                               [] x = 1 /\ f = "uncertainty"  -> {"untested"}
                               [] OTHER -> {}]

MCSnapshots == {[first |-> 5, tree |-> Tree, edges |-> Graph, said |-> [x \in 1 .. 9 |-> Said(x)]]}

Matches(A, B) == [x \in 0 .. 10 |-> IF x \in A THEN 2 ELSE IF x \in B THEN 1 ELSE 0]

\* 10 is the id of nothing, 0 no id at all.
MCFocus ==
    [mode : {"focus"}, scale : 0 .. 5,
     targets : {<<>>, <<0>>, <<10>>, <<6>>, <<8>>, <<7, 1, 7>>, <<1, 6>>},
     exclusions : {{}, {2, 9}}, depth : {0, 1, 2}, inferred : BOOLEAN,
     matched : {Matches({7}, {1, 2})}, dimensions : {{}}, budget : {4, 16, 24, 60}]

MCCompare ==
    [mode : {"compare"}, scale : {1, 3, 5},
     targets : {<<2>>, <<2, 4>>, <<0, 4, 2>>, <<4, 10>>, <<6, 4>>},
     exclusions : {{}, {4}}, depth : {0, 2}, inferred : {FALSE},
     matched : {Matches({}, {})}, dimensions : {{}, {"interfaces", "dependencies"}},
     budget : {4, 18, 60}]

MCRequests == MCFocus \cup MCCompare

MCCost   == [x \in 0 .. 10 |-> IF x \in {2, 6} THEN 3 ELSE IF x = 1 THEN 1 ELSE 2]
MCDigits == [x \in 0 .. 10 |-> IF x \in {2, 3, 7, 9} THEN 1 ELSE 0]
=============================================================================
