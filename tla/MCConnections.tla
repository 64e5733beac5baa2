--------------------------- MODULE MCConnections ---------------------------
(***************************************************************************)
(* Connections of a file of up to two pages.  A behaviour follows one      *)
(* `part':                                                                 *)
(*   "two"    two connections, in threads or processes of their own or     *)
(*            taking turns on one thread                                   *)
(*   "alone"  one connection, with header pragmas and VACUUM               *)
(***************************************************************************)
EXTENDS Connections, TLC

CONSTANTS k0, k1, k2

VARIABLE part

MCConn == {k1, k2}
MCSymmetry == Permutations(MCConn)

Alone == INSTANCE Connections WITH
           Conn <- {k0}, MaxCommit <- 3, MaxSaves <- 0, Pragmas <- TRUE, Vacuums <- TRUE

MCInit ==
  \/ part = "two" /\ Init
  \/ part = "alone" /\ Alone!Init /\ ~threaded

\* A connection on its own that has used up its commits waits at commit.
MCNext ==
  /\ UNCHANGED part
  /\ \/ part = "two" /\ Next
     \/ part = "alone" /\ (Alone!Next \/ UNCHANGED vars)

MCSpec == MCInit /\ [][MCNext]_<<part, vars>>

=============================================================================
