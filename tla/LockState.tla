----------------------------- MODULE LockState -----------------------------
(***************************************************************************)
(* The aggregate lock state of one file (struct LockState of vfs/mod.rs)   *)
(* as a value, with its two transitions.  A VFS keeps one such value per   *)
(* path; every open handle of the path goes through it.                    *)
(***************************************************************************)
EXTENDS Naturals

\* enum LockLevel, in the order its derived PartialOrd gives it.
Unlocked  == 0
Shared    == 1
Reserved  == 2
Pending   == 3
Exclusive == 4

LockLevel == Unlocked .. Exclusive

LockStates == [shared : Nat, reserved : BOOLEAN, pending : BOOLEAN, exclusive : BOOLEAN]

NoLocks == [shared |-> 0, reserved |-> FALSE, pending |-> FALSE, exclusive |-> FALSE]

\* Mutant of CanAcquire: EXCLUSIVE does not wait for the readers.
CanAcquireOverReaders(s, from, to) ==
  \/ to <= from
  \/ to = Shared /\ ~s.pending /\ ~s.exclusive
  \/ to = Reserved /\ ~s.reserved /\ ~s.exclusive
  \/ to = Pending /\ ~s.pending /\ ~s.exclusive
  \/ to = Exclusive /\ ~s.exclusive

\* acquire(from, to) returns Ok: no other handle holds an incompatible lock.
CanAcquire(s, from, to) ==
  \/ to <= from
  \/ to = Shared /\ ~s.pending /\ ~s.exclusive
  \/ to = Reserved /\ ~s.reserved /\ ~s.exclusive
  \/ to = Pending /\ ~s.pending /\ ~s.exclusive
  \/ to = Exclusive /\ ~s.exclusive /\ s.shared <= (IF from >= Shared THEN 1 ELSE 0)

\* The state acquire(from, to) leaves behind when it returns Ok.
Acquire(s, from, to) ==
  IF to <= from THEN s
  ELSE CASE to = Shared    -> [s EXCEPT !.shared = @ + 1]
         [] to = Reserved  -> [s EXCEPT !.reserved = TRUE]
         [] to = Pending   -> [s EXCEPT !.pending = TRUE]
         [] to = Exclusive -> [s EXCEPT !.pending = TRUE, !.exclusive = TRUE]

\* release(from, to): every lock between the two levels is dropped; the count
\* of readers saturates at zero.
Drops(from, to, level) == from >= level /\ to < level

Release(s, from, to) ==
  [ shared    |-> IF Drops(from, to, Shared) /\ s.shared > 0 THEN s.shared - 1 ELSE s.shared,
    reserved  |-> s.reserved /\ ~Drops(from, to, Reserved),
    pending   |-> s.pending /\ ~Drops(from, to, Pending),
    exclusive |-> s.exclusive /\ ~Drops(from, to, Exclusive) ]

HasWriteIntent(s) == s.reserved \/ s.pending \/ s.exclusive

=============================================================================
