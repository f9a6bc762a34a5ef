------------------------------ MODULE MCSymbols ------------------------------
(***************************************************************************)
(* Instances of Symbols: one file of each kind, two names, four places.  *)
(***************************************************************************)
EXTENDS Symbols

CONSTANTS f, t, a, b, fn, method, type

\* Of four places the first two are on one line.
MCLine == [l \in Places |-> IF l = 1 THEN 1 ELSE l - 1]

\* Ids of later lines come first.
MCHash == [i \in Files \X Names \X (1 .. 3) |->
            (IF i[1] = f THEN 0 ELSE 100) + (IF i[2] = a THEN 0 ELSE 10) + (3 - i[3])]
MCByName == [n \in Names |-> IF n = a THEN 1 ELSE 2]
MCKindOf == [c \in Constructs |-> IF c = type THEN "type" ELSE "function"]

Decl(n, c, l) == [name |-> n, construct |-> c, thing |-> <<0, l>>]
Empty == [l \in {} |-> {}]
One(n, c) == [l \in {1} |-> Decl(n, c, 1)]
Two(m, c, n, d, l) == [k \in {1, l} |-> IF k = 1 THEN Decl(m, c, 1) ELSE Decl(n, d, l)]

\* Two namesakes on two lines; one declaration in a file of each kind; or a type and what
\* is written of it under its name, on one line.
MCTexts == {[x \in Files |-> IF x = f THEN Two(a, fn, a, fn, 3) ELSE Empty],
            [x \in Files |-> One(a, IF x = f THEN fn ELSE type)],
            [x \in Files |-> IF x = f THEN Two(a, type, a, fn, 2) ELSE Empty]}

Answer(payload, about, pinned, confident, plane) ==
    [payload |-> payload, about |-> about, pinned |-> pinned, confident |-> confident, plane |-> plane]
Good == Answer("summary", "symbol", TRUE, TRUE, "inferred")

\* A good answer with a remark; and whatever is not to be admitted.
MCProposals == {{Good, Answer("edge", "symbol", TRUE, TRUE, "declared")},
                {Answer("edge", "symbol", TRUE, TRUE, "observed"),
                 Answer("summary", "project", TRUE, TRUE, "inferred"),
                 Answer("summary", "symbol", FALSE, TRUE, "inferred")}}
=============================================================================
