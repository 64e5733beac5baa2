--------------------------- MODULE SqlTransaction ---------------------------
(***************************************************************************)
(* What a connection promises of transactions over all its databases: one  *)
(* current image and one committed image of them together, a stack of      *)
(* savepoints that snapshot the current image, and a commit or a rollback  *)
(* that takes every database at once.  Outside a transaction nothing is    *)
(* uncommitted.                                                            *)
(***************************************************************************)
EXTENDS Sequences, Naturals

CONSTANTS Db, Image, Name

VARIABLES committed, current, marks, begun

vars == <<committed, current, marks, begun>>

Open == begun \/ marks # <<>>

Init == /\ committed \in [Db -> Image]
        /\ current = committed
        /\ marks = <<>> /\ begun = FALSE

\* The innermost savepoint of that name.
Last(n) == CHOOSE i \in 1 .. Len(marks) :
             marks[i].name = n /\ \A j \in i + 1 .. Len(marks) : marks[j].name # n

Has(n) == \E i \in 1 .. Len(marks) : marks[i].name = n

\* One statement changes one database, and is its own transaction outside one.
Statement ==
  /\ current' \in [Db -> Image]
  /\ \E d \in Db : \A e \in Db \ {d} : current'[e] = current[e]
  /\ committed' = IF Open THEN committed ELSE current'
  /\ UNCHANGED <<marks, begun>>

Begin == /\ ~begun /\ begun' = TRUE
         /\ UNCHANGED <<committed, current, marks>>

Savepoint == /\ \E n \in Name : marks' = Append(marks, [name |-> n, image |-> current])
             /\ UNCHANGED <<committed, current, begun>>

End == /\ marks' = <<>> /\ begun' = FALSE

Commit == Open /\ committed' = current /\ UNCHANGED current /\ End

Rollback == Open /\ current' = committed /\ UNCHANGED committed /\ End

\* Releasing the outermost savepoint of a transaction no BEGIN opened ends it.
Release ==
  \E n \in Name :
    /\ Has(n)
    /\ IF Last(n) = 1 /\ ~begun
       THEN Commit \/ Rollback
       ELSE /\ marks' = SubSeq(marks, 1, Last(n) - 1)
            /\ UNCHANGED <<committed, current, begun>>

RollbackTo ==
  \E n \in Name :
    /\ Has(n)
    /\ current' = marks[Last(n)].image
    /\ marks' = SubSeq(marks, 1, Last(n))
    /\ UNCHANGED <<committed, begun>>

Next == Statement \/ Begin \/ Savepoint \/ Release \/ RollbackTo \/ Commit \/ Rollback

Spec == Init /\ [][Next]_vars

=============================================================================
