--------------------------- MODULE AtomicInstall ---------------------------
(***************************************************************************)
(* What the fetcher promises to everything that reads a downloaded file: a *)
(* reader finds no file or one whole publication, the file changes in one  *)
(* step, never back to an older publication, and it never disappears.      *)
(***************************************************************************)
EXTENDS Integers

CONSTANT LastPub   \* publications are numbered 0..LastPub

VARIABLES
    published,  \* the newest publication
    file        \* the publication a reader finds, or -1 for no file

absVars == <<published, file>>

Init == published = 0 /\ file = -1

Publish ==
    /\ published < LastPub
    /\ published' = published + 1
    /\ UNCHANGED file

Install ==
    /\ file' \in 0..published
    /\ file' >= file
    /\ UNCHANGED published

Next == Publish \/ Install

Spec == Init /\ [][Next]_absVars
=============================================================================
