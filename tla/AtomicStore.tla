---------------------------- MODULE AtomicStore ----------------------------
(***************************************************************************)
(* What WritePager::commit promises of the database file: the image that   *)
(* survives a crash changes only by taking on, in one step, the whole of a *)
(* staged transaction, and a transaction that has not taken effect may be  *)
(* dropped without trace.                                                  *)
(***************************************************************************)
CONSTANTS Image,   \* database images
          None     \* "no transaction is being committed"

VARIABLES image,   \* the image a crash would leave, after recovery
          staged   \* the image the running commit is about to install

storeVars == <<image, staged>>

StoreInit == image \in Image /\ staged = None

Stage ==
  /\ staged = None
  /\ staged' \in Image
  /\ UNCHANGED image

Install ==
  /\ staged # None
  /\ image' = staged
  /\ staged' = None

\* The commit was interrupted before it took effect.
Drop ==
  /\ staged # None
  /\ staged' = None
  /\ UNCHANGED image

StoreNext == Stage \/ Install \/ Drop

StoreSpec == StoreInit /\ [][StoreNext]_storeVars

=============================================================================
