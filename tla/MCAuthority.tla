----------------------------- MODULE MCAuthority -----------------------------
(***************************************************************************)
(* An instance of Authority: a directory with all below it, and every key   *)
(* that is not at the top, written with two wild segments of either kind.   *)
(***************************************************************************)
EXTENDS Authority, TLC

MCResources == {<<"src", "**">>, <<"**", "*", "**", "key">>}
MCPaths     == {<<"src">>, <<"lib">>, <<"src", "key">>, <<"src", "lib", "key">>}
MCSymmetry  == Permutations(Commands) \cup Permutations(Ids)
=============================================================================
