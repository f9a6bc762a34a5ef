------------------------------ MODULE MCIndex ------------------------------
(* Constants of the runs of Index.  The text "user" imports what "lib" exports, *)
(* "macro" expands to and "latin" exports in an encoding of its own.            *)
EXTENDS Index

ThreeFiles == {"a", "b", "c"}

TwoLangs == [f \in Files |-> IF f = "a" THEN "js" ELSE "ts"]

AllTexts   == {"user", "lib", "macro", "latin"}
Latin      == {"latin"}
OneName    == {"Thing"}

ExportsIn == [t \in Texts |-> IF t \in {"lib", "latin"} THEN OneName ELSE {}]
InnerIn   == [t \in Texts |-> IF t = "macro" THEN OneName ELSE {}]
ImportsIn == [t \in Texts |-> IF t = "user" THEN OneName ELSE {}]

UserLib  == [f \in Files |-> IF f = "a" THEN "user" ELSE IF f = "b" THEN "lib" ELSE Gone]
=============================================================================
