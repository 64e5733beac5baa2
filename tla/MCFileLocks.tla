---------------------------- MODULE MCFileLocks ----------------------------
(* Four handles in two processes, two in each. *)
EXTENDS FileLocks, TLC

CONSTANTS h1, h2, h3, h4, proc1, proc2

MCHandle  == {h1, h2, h3, h4}
MCProcess == {proc1, proc2}
MCOwner   == (h1 :> proc1) @@ (h2 :> proc1) @@ (h3 :> proc2) @@ (h4 :> proc2)

\* Handles of one process are interchangeable.
SameProcess == Permutations({h1, h2}) \cup Permutations({h3, h4})

=============================================================================
