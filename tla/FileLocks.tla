----------------------------- MODULE FileLocks -----------------------------
(***************************************************************************)
(* Advisory locking of one database file by handles in several processes.  *)
(*                                                                         *)
(* Inside a process every handle of the path shares one CpLock             *)
(* (vfs/std_file.rs): the aggregate LockState plus a single OS lock that   *)
(* the process drives off the aggregate.  A process whose OS locking is    *)
(* disabled is also the in-memory VFS (vfs/memory.rs), which has no OS     *)
(* lock at all.  The handles make the calls the pager makes                *)
(* (pager/write.rs): SHARED to read, RESERVED to write, EXCLUSIVE to flush *)
(* a commit or to replay a hot journal, and the RESERVED a checkpoint      *)
(* takes and gives back.                                                   *)
(***************************************************************************)
EXTENDS LockState, FiniteSets

CONSTANTS
  Handle,     \* open handles of the file
  Process,    \* operating-system processes
  Owner,      \* the process of each handle
  OsMayFail,  \* processes whose platform may refuse OS locking altogether
  NoEntry     \* "no checkpoint is running" for a handle

ASSUME FiniteHandles == IsFiniteSet(Handle)
ASSUME OwnerType == Owner \in [Handle -> Process]
ASSUME OsMayFailType == OsMayFail \subseteq Process
ASSUME NoEntryType == NoEntry \notin LockLevel

VARIABLES
  level,  \* StdFile.level / MemoryFile.level: what each handle holds
  state,  \* CpLock.state: the aggregate of each process
  os,     \* CpLock.os_level, the OS lock really held, CpLock.os_disabled
  entry,  \* the local `entry` of a running checkpoint_mode
  task    \* pager calls, or the two steps of recover_hot_journal at open

vars == <<level, state, os, entry, task>>

HandlesOf(p) == {h \in Handle : Owner[h] = p}

NoOsLock == [level |-> Unlocked, held |-> Unlocked, disabled |-> FALSE]

OsLock == [level : {Unlocked, Shared, Exclusive},
           held : {Unlocked, Shared, Exclusive}, disabled : BOOLEAN]

TypeOK ==
  /\ level \in [Handle -> LockLevel]
  /\ state \in [Process -> LockStates]
  /\ os \in [Process -> OsLock]
  /\ entry \in [Handle -> {Unlocked, Shared, NoEntry}]
  /\ task \in [Handle -> {"pager", "recover", "hot"}]

Init ==
  /\ level = [h \in Handle |-> Unlocked]
  /\ state = [p \in Process |-> NoLocks]
  /\ os = [p \in Process |-> NoOsLock]
  /\ entry = [h \in Handle |-> NoEntry]
  /\ task = [h \in Handle |-> "pager"]

-----------------------------------------------------------------------------
(***************************************************************************)
(* The OS lock                                                             *)
(***************************************************************************)

\* The operating system grants p a whole-file lock: compatible with what the
\* other processes really hold.
OsGrants(p, want) ==
  \A q \in Process \ {p} :
    IF want = Exclusive THEN os[q].held = Unlocked ELSE os[q].held # Exclusive

DesiredOs(s) ==
  IF HasWriteIntent(s) THEN Exclusive ELSE IF s.shared > 0 THEN Shared ELSE Unlocked

\* What a refused try_lock leaves of the lock held before: nothing (flock gives
\* the old lock up before it asks for the new one) or all of it, by platform.
\* os_level does not change either way.
AfterRefusal(o) == {o, [o EXCEPT !.held = Unlocked]}

Granted(o, want) == [o EXCEPT !.level = want, !.held = want]

\* The outcomes of reconcile() for process p whose OS lock is o and whose
\* aggregate is s.
Reconcile(p, o, s) ==
  LET want == DesiredOs(s) IN
  IF o.disabled \/ want = o.level
  THEN {[busy |-> FALSE, os |-> o]}
  ELSE (IF want = Unlocked \/ OsGrants(p, want)
        THEN {[busy |-> FALSE, os |-> Granted(o, want)]}
        ELSE {[busy |-> TRUE, os |-> r] : r \in AfterRefusal(o)})
       \cup
       (IF want # Unlocked /\ p \in OsMayFail
        THEN {[busy |-> FALSE, os |-> [NoOsLock EXCEPT !.disabled = TRUE]]}
        ELSE {})

-----------------------------------------------------------------------------
(***************************************************************************)
(* File::lock and File::unlock                                             *)
(***************************************************************************)

\* lock(to) returns Ok.
LockOk(h, to) ==
  LET p == Owner[h]
      s == Acquire(state[p], level[h], to)
  IN  /\ CanAcquire(state[p], level[h], to)
      /\ \E r \in Reconcile(p, os[p], s) :
           /\ ~r.busy
           /\ os' = [os EXCEPT ![p] = r.os]
      /\ state' = [state EXCEPT ![p] = s]
      /\ level' = [level EXCEPT ![h] = to]

\* Mutant of LockRefused: the process-local acquire is not undone.
LockRefusedKeeps(h, to) ==
  LET p    == Owner[h]
      s    == Acquire(state[p], level[h], to)
  IN  /\ CanAcquire(state[p], level[h], to)
      /\ \E r \in Reconcile(p, os[p], s) : r.busy /\ os' = [os EXCEPT ![p] = r.os]
      /\ state' = [state EXCEPT ![p] = s]
      /\ UNCHANGED level

\* lock(to) returns Busy because of another process: the process-local acquire
\* is undone and the OS lock reconciled again.  (A Busy from the aggregate
\* itself changes nothing.)
LockRefused(h, to) ==
  LET p    == Owner[h]
      s    == Acquire(state[p], level[h], to)
      back == Release(s, to, level[h])
  IN  /\ CanAcquire(state[p], level[h], to)
      /\ \E r \in Reconcile(p, os[p], s) :
           /\ r.busy
           /\ \E again \in Reconcile(p, r.os, back) : os' = [os EXCEPT ![p] = again.os]
      /\ state' = [state EXCEPT ![p] = back]
      /\ UNCHANGED level

UnlockTo(h, to) ==
  LET p == Owner[h]
      s == Release(state[p], level[h], to)
  IN  /\ state' = [state EXCEPT ![p] = s]
      /\ \E r \in Reconcile(p, os[p], s) : os' = [os EXCEPT ![p] = r.os]
      /\ level' = [level EXCEPT ![h] = IF to < @ THEN to ELSE @]

-----------------------------------------------------------------------------
(***************************************************************************)
(* The calls the pager makes                                               *)
(***************************************************************************)

\* begin_read_txn, begin_autocommit_read and acquire_write_intent: SHARED from
\* nothing.
LockShared(h) ==
  /\ level[h] = Unlocked
  /\ LockOk(h, Shared) \/ LockRefused(h, Shared)
  /\ UNCHANGED <<entry, task>>

\* acquire_write_intent: RESERVED on top of SHARED.
LockReserved(h) ==
  /\ level[h] = Shared
  /\ task[h] = "pager"
  /\ LockOk(h, Reserved) \/ LockRefused(h, Reserved)
  /\ UNCHANGED <<entry, task>>

\* acquire_exclusive: EXCLUSIVE on top of RESERVED, to flush a commit.
LockExclusive(h) ==
  /\ level[h] = Reserved
  /\ task[h] = "pager"
  /\ entry[h] = NoEntry
  /\ LockOk(h, Exclusive) \/ LockRefused(h, Exclusive)
  /\ UNCHANGED <<entry, task>>

\* release_locks, end_read_txn, end_autocommit_read, the end of
\* recover_hot_journal, and dropping the handle.
Unlock(h) ==
  /\ level[h] # Unlocked
  /\ entry[h] = NoEntry
  /\ UnlockTo(h, Unlocked)
  /\ task' = [task EXCEPT ![h] = "pager"]
  /\ UNCHANGED entry

\* recover_hot_journal: a connection that opens the file and finds a journal
\* takes SHARED first.
RecoverOpen(h) ==
  /\ level[h] = Unlocked
  /\ \/ LockOk(h, Shared) /\ task' = [task EXCEPT ![h] = "recover"]
     \/ LockRefused(h, Shared) /\ UNCHANGED task
  /\ UNCHANGED entry

\* recover_hot_journal_locked: check_reserved_lock found no write intent in
\* this process.  The answer may be stale by the time the next lock is asked.
RecoverCheck(h) ==
  /\ task[h] = "recover"
  /\ ~HasWriteIntent(state[Owner[h]])
  /\ task' = [task EXCEPT ![h] = "hot"]
  /\ UNCHANGED <<level, state, os, entry>>

\* recover_hot_journal_locked: EXCLUSIVE straight from SHARED to replay the
\* journal, or RESERVED to discard it next to an empty database.
RecoverLock(h) ==
  /\ task[h] = "hot"
  /\ level[h] = Shared
  /\ \E to \in {Reserved, Exclusive} : LockOk(h, to) \/ LockRefused(h, to)
  /\ UNCHANGED <<entry, task>>

\* checkpoint_mode, FULL and above: RESERVED from whatever level the
\* connection holds, nothing on an idle connection, remembered in `entry`.
CheckpointLock(h) ==
  /\ level[h] \in {Unlocked, Shared}
  /\ task[h] = "pager"
  /\ \/ LockOk(h, Reserved) /\ entry' = [entry EXCEPT ![h] = level[h]]
     \/ LockRefused(h, Reserved) /\ UNCHANGED entry
  /\ UNCHANGED task

\* checkpoint_mode gives RESERVED back: unlock(entry).
CheckpointUnlock(h) ==
  /\ entry[h] # NoEntry
  /\ UnlockTo(h, entry[h])
  /\ entry' = [entry EXCEPT ![h] = NoEntry]
  /\ UNCHANGED task

\* A process dies: its handles are gone and the OS drops its lock.
ProcessDies(p) ==
  /\ level' = [h \in Handle |-> IF Owner[h] = p THEN Unlocked ELSE level[h]]
  /\ state' = [state EXCEPT ![p] = NoLocks]
  /\ os' = [os EXCEPT ![p] = NoOsLock]
  /\ entry' = [h \in Handle |-> IF Owner[h] = p THEN NoEntry ELSE entry[h]]
  /\ task' = [h \in Handle |-> IF Owner[h] = p THEN "pager" ELSE task[h]]

Next ==
  \/ \E h \in Handle : \/ LockShared(h) \/ LockReserved(h) \/ LockExclusive(h) \/ Unlock(h)
                       \/ RecoverOpen(h) \/ RecoverCheck(h) \/ RecoverLock(h)
                       \/ CheckpointLock(h) \/ CheckpointUnlock(h)
  \/ \E p \in Process : ProcessDies(p)

Spec == Init /\ [][Next]_vars

-----------------------------------------------------------------------------
(***************************************************************************)
(* Properties                                                              *)
(***************************************************************************)

\* The handles of p that came to their lock through SHARED: all that hold one,
\* but for a checkpoint of an idle connection, which goes to RESERVED at once.
Readers(p) == {h \in HandlesOf(p) : level[h] >= Shared /\ entry[h] # Unlocked}

\* The aggregate counts them ("Number of handles currently holding a SHARED
\* (read) lock", vfs/mod.rs).
Counts(p) == state[p].shared = Cardinality(Readers(p))

\* Handle h, which holds nothing, asks for RESERVED to checkpoint, or gives the
\* RESERVED of such a checkpoint back.
IdleCheckpoint(h) ==
  (level[h] = Unlocked /\ CheckpointLock(h)) \/ (entry[h] = Unlocked /\ CheckpointUnlock(h))

\* A reader is forgotten in one way only: the release at the end of a checkpoint
\* of an idle connection (or of its refused RESERVED), which drops a SHARED that
\* acquire never counted.  No refusal and undo of another request, no upgrade, no
\* recovery and no death of a process loses a reader; and none is counted that is
\* not there, which would keep EXCLUSIVE away for good.
ReaderCountKept ==
  [][\A p \in Process :
       /\ state'[p].shared <= Cardinality(Readers(p)')
       /\ Counts(p) => Counts(p)' \/ \E h \in HandlesOf(p) : IdleCheckpoint(h)]_vars

\* The OS lock of p is in use, and p holds what it believes it holds: no refused
\* conversion has taken its shared lock away.
KeepsOsLock(p) == ~os[p].disabled /\ os[p].held = os[p].level

\* Two handles are coordinated when neither is in a checkpoint of an idle
\* connection, their processes have not lost a reader, and they share a process
\* or both processes keep their OS locks.
Coordinated(g, h) ==
  /\ entry[g] # Unlocked /\ entry[h] # Unlocked
  /\ Counts(Owner[g]) /\ Counts(Owner[h])
  /\ Owner[g] = Owner[h] \/ (KeepsOsLock(Owner[g]) /\ KeepsOsLock(Owner[h]))

\* A handle that flushes a commit or replays a journal (EXCLUSIVE) is alone on
\* the file: no other coordinated handle holds any lock.
ExclusiveExcludes ==
  \A g, h \in Handle :
    g # h /\ Coordinated(g, h) /\ level[g] = Exclusive => level[h] = Unlocked

\* At most one of the coordinated handles has write intent, so two write
\* transactions are never open at once.
SingleWriter ==
  \A g, h \in Handle :
    g # h /\ Coordinated(g, h) /\ level[g] >= Reserved => level[h] < Reserved

\* The pessimistic mapping of CpLock: a process with write intent really holds
\* the OS lock exclusively, and one that only reads holds it at least shared,
\* so a foreign process cannot write under an open read transaction.
OsLockCovers ==
  \A h \in Handle :
    LET p == Owner[h] IN
    KeepsOsLock(p) /\ Counts(p) /\ entry[h] # Unlocked
      => /\ level[h] >= Shared => os[p].held # Unlocked
         /\ level[h] >= Reserved => os[p].held = Exclusive

\* A refused conversion takes only a shared lock away: a process with write
\* intent keeps the exclusive OS lock whatever others ask for.
OnlySharedLost ==
  \A p \in Process :
    ~os[p].disabled /\ ~KeepsOsLock(p) => os[p].level = Shared /\ os[p].held = Unlocked

=============================================================================
