----------------------------- MODULE MCResident -----------------------------
(* Constants of the runs of Resident.                                      *)
EXTENDS Resident

OneFile   == {"a.rs"}
TwoFiles  == {"a.rs", "b.rs"}
AtlasIdx  == {"ATLAS.idx"}
SourceAndTmp == {"a.rs", "b.tmp"}
Tmp       == {"b.tmp"}
NoFile    == {}
NoRoot    == {}
FirstRoot == {1}
=============================================================================
