---------------------------- MODULE MCRegistry ----------------------------
(***************************************************************************)
(* Instances of Registry: three paths, two in one system and two planets,  *)
(* one in another; two contents; one process or two.                       *)
(***************************************************************************)
EXTENDS Registry, TLC

CONSTANTS
    Ax, Aby, Cx,   \* a/x, a/b/y and c/x
    c1, c2, s1, s2

MCPaths    == {Ax, Aby, Cx}
MCSystemOf == (Ax :> "a") @@ (Aby :> "a") @@ (Cx :> "c")
MCPlanetOf == (Ax :> "a/a") @@ (Aby :> "a/a/b") @@ (Cx :> "c/c")
MCSymmetry == Permutations({c1, c2}) \cup Permutations({s1, s2})
===========================================================================
