------------------------------- MODULE Mirror -------------------------------
(***************************************************************************)
(* What a derived copy promises, with nothing said of how it is computed:  *)
(* for every root, each item of the copy holds a version the source has    *)
(* had, and no item ever goes back to an older version.  A publication     *)
(* need not be an atomic picture of the source (the scanner reads files    *)
(* one after another), so every item may sit anywhere between what the     *)
(* copy held and what the source holds now.                                *)
(***************************************************************************)
EXTENDS Naturals

CONSTANTS Root, Item

VARIABLES
    source,   \* source[r][i]: version of item i of root r at the origin
    view      \* view[r][i]: the version the copy holds, 0 if never published

mirrorVars == <<source, view>>

\* x is nowhere newer than y.
UpTo(x, y) == \A i \in Item : x[i] <= y[i]

MirrorInit ==
    \A r \in Root : UpTo(view[r], source[r])

\* The origin moves on, in one root.
Change(r) ==
    /\ UpTo(source[r], source'[r])
    /\ \A s \in Root \ {r} : source'[s] = source[s]
    /\ UNCHANGED view

\* The copy of one root is replaced.
Publish(r) ==
    /\ UpTo(view[r], view'[r])
    /\ UpTo(view'[r], source[r])
    /\ \A s \in Root \ {r} : view'[s] = view[s]
    /\ UNCHANGED source

MirrorNext == \E r \in Root : Change(r) \/ Publish(r)

MirrorSpec == MirrorInit /\ [][MirrorNext]_mirrorVars
=============================================================================
