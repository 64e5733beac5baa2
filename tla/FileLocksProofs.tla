-------------------------- MODULE FileLocksProofs --------------------------
(***************************************************************************)
(* Proofs about FileLocks, for any number of handles and processes, with   *)
(* no condition on what the handles do or what the platform makes of a     *)
(* refused conversion.  The two ways a process comes to disagree with its  *)
(* handles, a reader forgotten by the checkpoint of an idle connection and *)
(* a shared OS lock lost to a refused conversion, are steps of the model;  *)
(* the invariant says how much of the coordination survives them.          *)
(***************************************************************************)
EXTENDS FileLocks, FiniteSetTheorems, TLAPS

\* The aggregate of process p: it counts no reader that is not there, and its
\* EXCLUSIVE is that of a handle.
AggregateOK(p) ==
  /\ state[p].shared <= Cardinality(Readers(p))
  /\ state[p].pending <=> state[p].exclusive
  /\ state[p].exclusive <=> \E h \in HandlesOf(p) : level[h] = Exclusive
  /\ state[p].exclusive => state[p].shared <= 1

\* One handle of p at most is EXCLUSIVE.
OneExclusive(p) ==
  \A g, h \in HandlesOf(p) : level[g] = Exclusive /\ level[h] = Exclusive => g = h

\* What a process that has forgotten no reader excludes among its readers.
OneWriter(p) ==
  Counts(p) => /\ \A h \in Readers(p) : level[h] = Reserved => state[p].reserved
               /\ \A g, h \in Readers(p) :
                    level[g] >= Reserved /\ level[h] >= Reserved => g = h

\* What an OS lock o has to do with an aggregate s: os_level follows it; the
\* lock really held is that one, or none where only SHARED is wanted.
Follows(o, s) ==
  IF o.disabled THEN o.held = Unlocked
  ELSE /\ o.level = DesiredOs(s)
       /\ o.held \in {o.level, Unlocked}
       /\ o.level = Exclusive => o.held = Exclusive

\* An OS lock o of p next to the locks the other processes really hold.
Compatible(p, o) ==
  \A q \in Process \ {p} : /\ o.held = Exclusive => os[q].held = Unlocked
                           /\ os[q].held = Exclusive => o.held = Unlocked

\* All that is said of one process.
ProcessOK(p) ==
  /\ AggregateOK(p) /\ OneExclusive(p) /\ OneWriter(p)
  /\ Follows(os[p], state[p]) /\ Compatible(p, os[p])

\* No handle ever asks for PENDING.
LocksType ==
  /\ level \in [Handle -> LockLevel \ {Pending}]
  /\ state \in [Process -> LockStates]
  /\ os \in [Process -> OsLock]
  /\ entry \in [Handle -> {Unlocked, Shared, NoEntry}]
  /\ task \in [Handle -> {"pager", "recover", "hot"}]

\* The inductive invariant.  A checkpoint in progress holds RESERVED.
LockInv ==
  /\ LocksType
  /\ \A p \in Process : ProcessOK(p)
  /\ \A h \in Handle : entry[h] # NoEntry => level[h] = Reserved

\* What the pager asks for: SHARED from nothing, RESERVED and EXCLUSIVE from
\* SHARED, EXCLUSIVE from RESERVED, and RESERVED from nothing, to checkpoint.
Request(from, to) ==
  \/ from = Unlocked /\ to \in {Shared, Reserved}
  \/ from = Shared /\ to \in {Reserved, Exclusive}
  \/ from = Reserved /\ to = Exclusive

\* The ways it gives locks back: everything, or RESERVED only.
Downgrade(from, to) ==
  \/ from \in {Shared, Reserved, Exclusive} /\ to = Unlocked
  \/ from = Reserved /\ to = Shared

USE DEF Unlocked, Shared, Reserved, Pending, Exclusive

-----------------------------------------------------------------------------
(***************************************************************************)
(* The aggregate as a value                                                *)
(***************************************************************************)

\* acquire leaves a well-formed aggregate, with the lock asked for in it.
LEMMA AcquireFields ==
  ASSUME NEW s \in LockStates, NEW from, NEW to, Request(from, to)
  PROVE  LET a == Acquire(s, from, to) IN
         /\ a \in LockStates
         /\ a.shared = IF to = Shared THEN s.shared + 1 ELSE s.shared
         /\ a.reserved <=> (s.reserved \/ to = Reserved)
         /\ a.pending <=> (s.pending \/ to = Exclusive)
         /\ a.exclusive <=> (s.exclusive \/ to = Exclusive)
<1>1. CASE to = Shared
  <2>1. Acquire(s, from, to) = [s EXCEPT !.shared = @ + 1]
    BY <1>1 DEF Request, Acquire
  <2> QED
    BY <1>1, <2>1 DEF LockStates
<1>2. CASE to = Reserved
  <2>1. Acquire(s, from, to) = [s EXCEPT !.reserved = TRUE]
    BY <1>2 DEF Request, Acquire
  <2>2. Acquire(s, from, to) = [shared |-> s.shared, reserved |-> TRUE, pending |-> s.pending,
                                exclusive |-> s.exclusive]
    BY <2>1, Zenon DEF LockStates
  <2>3. Acquire(s, from, to) \in LockStates
    BY <2>2 DEF LockStates
  <2>4. Acquire(s, from, to).reserved
    BY <2>2
  <2> QED
    BY <1>2, <2>2, <2>3, <2>4
<1>3. CASE to = Exclusive
  <2>1. Acquire(s, from, to) = [s EXCEPT !.pending = TRUE, !.exclusive = TRUE]
    BY <1>3 DEF Request, Acquire
  <2>2. Acquire(s, from, to) = [shared |-> s.shared, reserved |-> s.reserved, pending |-> TRUE,
                                exclusive |-> TRUE]
    BY <2>1, Zenon DEF LockStates
  <2>3. Acquire(s, from, to) \in LockStates
    BY <2>2 DEF LockStates
  <2>4. Acquire(s, from, to).pending /\ Acquire(s, from, to).exclusive
    BY <2>2
  <2> QED
    BY <1>3, <2>2, <2>3, <2>4
<1> QED
  BY <1>1, <1>2, <1>3 DEF Request

\* release leaves a well-formed aggregate.
LEMMA ReleaseType ==
  ASSUME NEW s \in LockStates, NEW from, NEW to
  PROVE  Release(s, from, to) \in LockStates
BY DEF Release, LockStates

\* release drops what lies between the two levels.
LEMMA ReleaseFields ==
  ASSUME NEW s \in LockStates, NEW from, NEW to, Downgrade(from, to)
  PROVE  LET r == Release(s, from, to) IN
         /\ r.shared = IF to = Unlocked /\ s.shared > 0 THEN s.shared - 1 ELSE s.shared
         /\ r.reserved <=> (s.reserved /\ from < Reserved)
         /\ r.pending <=> (s.pending /\ from # Exclusive)
         /\ r.exclusive <=> (s.exclusive /\ from # Exclusive)
<1> DEFINE r == Release(s, from, to)
<1>1. /\ r.reserved <=> s.reserved /\ ~Drops(from, to, Reserved)
      /\ r.pending <=> s.pending /\ ~Drops(from, to, Pending)
      /\ r.exclusive <=> s.exclusive /\ ~Drops(from, to, Exclusive)
  BY Zenon DEF Release
<1>2. r.shared = IF Drops(from, to, Shared) /\ s.shared > 0 THEN s.shared - 1 ELSE s.shared
  BY Zenon DEF Release
<1> QED
  BY <1>1, <1>2 DEF Drops, Downgrade

\* release never makes the process want a stronger OS lock.
LEMMA ReleaseLowers ==
  ASSUME NEW s \in LockStates, NEW from, NEW to
  PROVE  DesiredOs(Release(s, from, to)) <= DesiredOs(s)
BY DEF Release, LockStates, DesiredOs, HasWriteIntent

\* A request that is undone leaves the flags as they were when there was no
\* write intent, and the count of readers but for RESERVED from nothing.
LEMMA UndoneFields ==
  ASSUME NEW s \in LockStates, ~HasWriteIntent(s), NEW from, NEW to, Request(from, to)
  PROVE  LET b == Release(Acquire(s, from, to), to, from) IN
         /\ b \in LockStates /\ ~HasWriteIntent(b)
         /\ b.shared = IF from = Unlocked /\ to = Reserved /\ s.shared > 0
                       THEN s.shared - 1 ELSE s.shared
<1> DEFINE a == Acquire(s, from, to)
           b == Release(a, to, from)
<1>1. /\ a \in LockStates
      /\ a.shared = IF to = Shared THEN s.shared + 1 ELSE s.shared
      /\ a.reserved <=> (s.reserved \/ to = Reserved)
      /\ a.pending <=> (s.pending \/ to = Exclusive)
      /\ a.exclusive <=> (s.exclusive \/ to = Exclusive)
  BY AcquireFields
<1>2. b \in LockStates
  BY <1>1, ReleaseType
<1> HIDE DEF a
<1>3. /\ b.reserved <=> a.reserved /\ ~Drops(to, from, Reserved)
      /\ b.pending <=> a.pending /\ ~Drops(to, from, Pending)
      /\ b.exclusive <=> a.exclusive /\ ~Drops(to, from, Exclusive)
  BY Zenon DEF Release
<1>4. b.shared = IF Drops(to, from, Shared) /\ a.shared > 0 THEN a.shared - 1 ELSE a.shared
  BY Zenon DEF Release
<1> HIDE DEF b
<1>5. ~HasWriteIntent(b)
  BY <1>1, <1>3 DEF HasWriteIntent, Drops, Request
<1>6. b.shared = IF from = Unlocked /\ to = Reserved /\ s.shared > 0
                 THEN s.shared - 1 ELSE s.shared
  BY <1>1, <1>4 DEF Drops, Request, LockStates
<1> QED
  BY <1>2, <1>5, <1>6 DEF a, b

-----------------------------------------------------------------------------
(***************************************************************************)
(* The OS lock                                                             *)
(***************************************************************************)

\* reconcile() leaves a well-formed OS lock.
LEMMA ReconcileType ==
  ASSUME NEW p, NEW o \in OsLock, NEW s, NEW r \in Reconcile(p, o, s)
  PROVE  r.os \in OsLock
<1> DEFINE want == DesiredOs(s)
<1>1. want \in {Unlocked, Shared, Exclusive}
  BY DEF DesiredOs
<1>2. \/ r = [busy |-> FALSE, os |-> o]
      \/ r = [busy |-> FALSE, os |-> [NoOsLock EXCEPT !.disabled = TRUE]]
      \/ r = [busy |-> FALSE, os |-> Granted(o, want)]
      \/ \E x \in AfterRefusal(o) : r = [busy |-> TRUE, os |-> x]
  BY DEF Reconcile
<1> HIDE DEF want
<1>3. \A x \in AfterRefusal(o) : x \in OsLock
  BY DEF AfterRefusal, OsLock
<1>4. Granted(o, want) \in OsLock
  BY <1>1, Zenon DEF Granted, OsLock
<1>5. [NoOsLock EXCEPT !.disabled = TRUE] \in OsLock
  BY Zenon DEF NoOsLock, OsLock
<1>6. PICK x \in OsLock, b \in BOOLEAN : r = [busy |-> b, os |-> x]
  BY <1>2, <1>3, <1>4, <1>5, Zenon
<1> QED
  BY <1>6

\* What one call of reconcile() does, from a lock o that follows an aggregate t:
\* it follows s, or reports contention; it never breaks the OS's exclusion; and
\* it cannot fail when the process wants no more than it has.
LEMMA ReconcileStep ==
  ASSUME LocksType, NEW p \in Process, NEW o \in OsLock, NEW t \in LockStates,
         Follows(o, t), Compatible(p, o),
         NEW s \in LockStates, NEW r \in Reconcile(p, o, s)
  PROVE  /\ r.os \in OsLock
         /\ r.busy \in BOOLEAN
         /\ r.busy => /\ ~o.disabled /\ DesiredOs(s) # o.level
                      /\ r.os \in {o, [o EXCEPT !.held = Unlocked]}
         /\ ~r.busy => Follows(r.os, s)
         /\ DesiredOs(s) <= o.level => ~r.busy
         /\ Compatible(p, r.os)
<1> DEFINE want == DesiredOs(s)
<1>1. want \in {Unlocked, Shared, Exclusive} /\ o.level \in {Unlocked, Shared, Exclusive}
  BY DEF DesiredOs, OsLock
<1>2. CASE o.disabled \/ want = o.level
  <2>1. r = [busy |-> FALSE, os |-> o]
    BY <1>2 DEF Reconcile
  <2> QED
    BY <1>2, <2>1 DEF Follows
<1>3. CASE ~o.disabled /\ want # o.level
  <2>1. CASE r = [busy |-> FALSE, os |-> [NoOsLock EXCEPT !.disabled = TRUE]]
    <3>1. r.os = [level |-> Unlocked, held |-> Unlocked, disabled |-> TRUE]
      BY <2>1, Zenon DEF NoOsLock
    <3>2. r.os \in OsLock /\ r.os.held = Unlocked /\ r.os.disabled /\ ~r.busy
      BY <2>1, <3>1, Zenon DEF OsLock
    <3>3. r.busy \in BOOLEAN
      BY <2>1
    <3>4. Follows(r.os, s)
      BY <3>2 DEF Follows
    <3>5. Compatible(p, r.os)
      BY <3>2 DEF Compatible
    <3> QED
      BY <3>2, <3>3, <3>4, <3>5
  <2>2. CASE r = [busy |-> FALSE, os |-> Granted(o, want)] /\ (want = Unlocked \/ OsGrants(p, want))
    <3>1. r.os \in OsLock /\ r.os.held = want /\ r.os.level = want /\ ~r.os.disabled /\ ~r.busy
      BY <1>1, <1>3, <2>2, Zenon DEF Granted, OsLock
    <3>2. Follows(r.os, s)
      BY <3>1 DEF Follows
    <3>3. Compatible(p, r.os)
      BY <1>1, <2>2, <3>1 DEF Compatible, OsGrants
    <3> QED
      BY <2>2, <3>1, <3>2, <3>3
  <2>3. CASE /\ \E x \in AfterRefusal(o) : r = [busy |-> TRUE, os |-> x]
             /\ want # Unlocked /\ ~OsGrants(p, want)
    <3>0. r.busy = TRUE /\ r.os \in {o, [o EXCEPT !.held = Unlocked]}
      <4>1. PICK x \in {o, [o EXCEPT !.held = Unlocked]} : r = [busy |-> TRUE, os |-> x]
        BY <2>3, Zenon DEF AfterRefusal
      <4>2. r.busy = TRUE /\ r.os = x
        BY <4>1, Zenon
      <4> QED
        BY <4>1, <4>2
    <3>1. ~(DesiredOs(s) <= o.level)
      <4>1. SUFFICES ASSUME want = Shared, o.level = Exclusive
                     PROVE  OsGrants(p, want)
        BY <1>1, <1>3, <2>3
      <4>2. o.held = Exclusive
        BY <1>3, <4>1 DEF Follows
      <4> QED
        BY <4>1, <4>2 DEF Compatible, OsGrants
    <3>2. r.os \in OsLock /\ (r.os.held = o.held \/ r.os.held = Unlocked)
      BY <3>0 DEF OsLock
    <3>3. Compatible(p, r.os)
      BY <3>2 DEF Compatible
    <3> QED
      BY <1>3, <3>0, <3>1, <3>2, <3>3, Zenon
  <2>4. \/ r = [busy |-> FALSE, os |-> [NoOsLock EXCEPT !.disabled = TRUE]]
        \/ /\ r = [busy |-> FALSE, os |-> Granted(o, want)]
           /\ want = Unlocked \/ OsGrants(p, want)
        \/ /\ \E x \in AfterRefusal(o) : r = [busy |-> TRUE, os |-> x]
           /\ want # Unlocked /\ ~OsGrants(p, want)
    BY <1>3 DEF Reconcile
  <2> QED
    BY <2>1, <2>2, <2>3, <2>4, Zenon
<1> QED
  BY <1>2, <1>3

-----------------------------------------------------------------------------
(***************************************************************************)
(* Handles of one process                                                  *)
(***************************************************************************)

\* The readers of a process are finitely many.
LEMMA ReadersFinite ==
  ASSUME NEW p
  PROVE  /\ IsFiniteSet(Readers(p))
         /\ Cardinality(Readers(p)) \in Nat
<1>1. Readers(p) \subseteq Handle
  BY DEF Readers, HandlesOf
<1> QED
  BY <1>1, FiniteHandles, FS_Subset, FS_CardinalityType

\* Two members make a set of at least two elements.
LEMMA TwoMembers ==
  ASSUME NEW S, IsFiniteSet(S), NEW g \in S, NEW h \in S, g # h
  PROVE  Cardinality(S) >= 2
<1>1. IsFiniteSet({g}) /\ Cardinality({g}) = 1
  BY FS_Singleton, Zenon
<1>2. Cardinality({g} \cup {h}) = 2 /\ IsFiniteSet({g} \cup {h})
  BY <1>1, FS_AddElement
<1>3. {g} \cup {h} \subseteq S
  OBVIOUS
<1> QED
  BY <1>2, <1>3, FS_Subset, FS_CardinalityType

\* Where one reader is counted and none is forgotten, there is no other.
LEMMA OnlyReader ==
  ASSUME NEW p, Counts(p), state[p].shared <= 1, NEW g \in Readers(p), NEW h \in Readers(p)
  PROVE  g = h
<1>1. SUFFICES ASSUME g # h PROVE FALSE
  OBVIOUS
<1>2. Cardinality(Readers(p)) >= 2 /\ Cardinality(Readers(p)) \in Nat
  BY <1>1, ReadersFinite, TwoMembers
<1> QED
  BY <1>2 DEF Counts

\* A step that replaces the aggregate, the levels and the OS lock of one process
\* consistently does not touch the others.
LEMMA OneProcessStep ==
  ASSUME LockInv, NEW p \in Process, NEW s \in LockStates, NEW o \in OsLock,
         LocksType', state' = [state EXCEPT ![p] = s], os' = [os EXCEPT ![p] = o],
         \A h \in Handle : Owner[h] # p => level'[h] = level[h] /\ entry'[h] = entry[h],
         AggregateOK(p)', OneExclusive(p)', OneWriter(p)', Follows(o, s), Compatible(p, o)
  PROVE  /\ \A q \in Process : ProcessOK(q)'
         /\ \A q \in Process : q # p => (Counts(q)' <=> Counts(q))
<1>1. state'[p] = s /\ os'[p] = o
  BY DEF LockInv, LocksType
<1>2. Compatible(p, o)'
  BY DEF LockInv, LocksType, Compatible
<1>3. ProcessOK(p)'
  BY <1>1, <1>2 DEF ProcessOK, Follows, DesiredOs, HasWriteIntent
<1>4. ASSUME NEW q \in Process, q # p
      PROVE  ProcessOK(q)' /\ (Counts(q)' <=> Counts(q))
  <2>1. /\ HandlesOf(q)' = HandlesOf(q)
        /\ \A g \in HandlesOf(q) : level'[g] = level[g] /\ entry'[g] = entry[g]
    BY <1>4 DEF HandlesOf
  <2>2. state'[q] = state[q] /\ os'[q] = os[q]
    BY <1>4 DEF LockInv, LocksType
  <2>3. /\ Readers(q)' = Readers(q)
        /\ \A g \in Readers(q) : level'[g] = level[g]
    BY <2>1 DEF Readers
  <2>4. Counts(q)' <=> Counts(q)
    BY <2>2, <2>3 DEF Counts
  <2>5. AggregateOK(q) /\ OneExclusive(q) /\ OneWriter(q) /\ Follows(os[q], state[q])
        /\ Compatible(q, os[q])
    BY DEF LockInv, ProcessOK
  <2>6. AggregateOK(q)'
    BY <2>1, <2>2, <2>3, <2>5 DEF AggregateOK
  <2>7. OneExclusive(q)'
    BY <2>1, <2>5 DEF OneExclusive
  <2>8. OneWriter(q)'
    BY <2>2, <2>3, <2>4, <2>5 DEF OneWriter
  <2>9. Compatible(q, os[q])'
    <3>1. SUFFICES ASSUME NEW x \in Process \ {q}
                   PROVE  /\ os'[q].held = Exclusive => os'[x].held = Unlocked
                          /\ os'[x].held = Exclusive => os'[q].held = Unlocked
      BY DEF Compatible
    <3>2. CASE x = p
      BY <1>1, <1>4, <2>2, <3>2 DEF Compatible
    <3>3. CASE x # p
      <4>1. os'[x] = os[x]
        BY <3>3 DEF LockInv, LocksType
      <4> QED
        BY <2>2, <2>5, <4>1 DEF Compatible
    <3> QED
      BY <3>2, <3>3
  <2> QED
    BY <2>2, <2>4, <2>5, <2>6, <2>7, <2>8, <2>9 DEF ProcessOK, Follows, DesiredOs, HasWriteIntent
<1> QED
  BY <1>3, <1>4

-----------------------------------------------------------------------------
(***************************************************************************)
(* Every lock call keeps what is said of the processes                     *)
(***************************************************************************)

\* A granted request.
LEMMA GrantedStep ==
  ASSUME LockInv, NEW h \in Handle, NEW to, Request(level[h], to), LockOk(h, to),
         LocksType', entry[h] # Unlocked,
         \A g \in Handle \ {h} : entry'[g] = entry[g],
         entry'[h] = Unlocked <=> level[h] = Unlocked /\ to = Reserved
  PROVE  /\ \A q \in Process : ProcessOK(q)'
         /\ \A q \in Process : Counts(q) => Counts(q)'
<1> DEFINE p == Owner[h]
           s == Acquire(state[p], level[h], to)
<1>1. /\ p \in Process
      /\ state[p] \in LockStates
      /\ os[p] \in OsLock
      /\ CanAcquire(state[p], level[h], to)
      /\ state' = [state EXCEPT ![p] = s]
  BY OwnerType, Zenon DEF LockInv, LocksType, LockOk
<1>2. /\ level[h] \in {Unlocked, Shared, Reserved}
      /\ to \in {Shared, Reserved, Exclusive}
      /\ level'[h] = to
      /\ \A g \in Handle \ {h} : level'[g] = level[g]
  BY Zenon DEF LockInv, LocksType, LockOk, Request
<1>3. state'[p] = s
  BY <1>1 DEF LockInv, LocksType
<1>4. PICK r \in Reconcile(p, os[p], s) : ~r.busy /\ os' = [os EXCEPT ![p] = r.os]
  BY Zenon DEF LockOk
<1>5. /\ s \in LockStates
      /\ s.shared = IF to = Shared THEN state[p].shared + 1 ELSE state[p].shared
      /\ s.reserved <=> (state[p].reserved \/ to = Reserved)
      /\ s.pending <=> (state[p].pending \/ to = Exclusive)
      /\ s.exclusive <=> (state[p].exclusive \/ to = Exclusive)
  BY <1>1, AcquireFields
<1>6. AggregateOK(p) /\ OneExclusive(p) /\ OneWriter(p) /\ Follows(os[p], state[p])
      /\ Compatible(p, os[p])
  BY <1>1 DEF LockInv, ProcessOK
<1>7. h \in HandlesOf(p) /\ HandlesOf(p) \subseteq Handle /\ HandlesOf(p)' = HandlesOf(p)
  BY DEF HandlesOf
<1>8. Readers(p)' = IF to = Shared THEN Readers(p) \cup {h} ELSE Readers(p)
  BY <1>2, <1>7 DEF Readers, Request
<1>9. /\ Cardinality(Readers(p))' = Cardinality(Readers(p)) + (IF to = Shared THEN 1 ELSE 0)
      /\ Cardinality(Readers(p)) \in Nat
  <2>1. to = Shared => h \notin Readers(p)
    BY <1>2 DEF Readers, Request
  <2>2. to = Shared => Cardinality(Readers(p) \cup {h}) = Cardinality(Readers(p)) + 1
    BY <2>1, ReadersFinite, FS_AddElement, Zenon
  <2> QED
    BY <1>8, <2>2, ReadersFinite
<1>10. Counts(p)' <=> Counts(p)
  BY <1>1, <1>3, <1>5, <1>9 DEF Counts, LockStates
<1> HIDE DEF s
<1>11. AggregateOK(p)'
  <2>1. (state[p].shared <= Cardinality(Readers(p)))'
    BY <1>1, <1>3, <1>5, <1>6, <1>9 DEF AggregateOK, LockStates
  <2>2. (state[p].pending <=> state[p].exclusive)'
    BY <1>3, <1>5, <1>6 DEF AggregateOK
  <2>3. (state[p].exclusive <=> \E g \in HandlesOf(p) : level[g] = Exclusive)'
    BY <1>2, <1>3, <1>5, <1>6, <1>7 DEF AggregateOK
  <2>4. (state[p].exclusive => state[p].shared <= 1)'
    BY <1>1, <1>2, <1>3, <1>5, <1>6 DEF AggregateOK, CanAcquire, Request
  <2> QED
    BY <2>1, <2>2, <2>3, <2>4 DEF AggregateOK
<1>12. OneExclusive(p)'
  <2>1. to = Exclusive => \A g \in HandlesOf(p) : level[g] # Exclusive
    BY <1>1, <1>2, <1>6 DEF AggregateOK, CanAcquire, Request
  <2> QED
    BY <1>2, <1>6, <1>7, <2>1 DEF OneExclusive
<1>13. OneWriter(p)'
  <2>0. SUFFICES ASSUME Counts(p)
                 PROVE  /\ \A g \in Readers(p)' : level'[g] = Reserved => s.reserved
                        /\ \A f, g \in Readers(p)' :
                             level'[f] >= Reserved /\ level'[g] >= Reserved => f = g
    BY <1>3, <1>10 DEF OneWriter
  <2>1. /\ \A g \in Readers(p) : level[g] = Reserved => state[p].reserved
        /\ \A f, g \in Readers(p) : level[f] >= Reserved /\ level[g] >= Reserved => f = g
        /\ Readers(p) \subseteq HandlesOf(p)
        /\ \A g \in Readers(p) : level[g] \in {Shared, Reserved, Exclusive}
    BY <1>6, <1>7, <2>0 DEF OneWriter, Readers, LockInv, LocksType, LockLevel
  <2>2. CASE to = Shared
    BY <1>2, <1>5, <1>7, <1>8, <2>1, <2>2
  <2>3. CASE to = Reserved
    <3>1. ~state[p].reserved /\ ~state[p].exclusive
      BY <1>1, <2>3 DEF CanAcquire, Request
    <3>2. \A g \in Readers(p) : level[g] = Shared
      BY <1>6, <2>1, <3>1 DEF AggregateOK
    <3> QED
      BY <1>2, <1>5, <1>7, <1>8, <2>1, <2>3, <3>2
  <2>4. CASE to = Exclusive
    <3>1. state[p].shared <= 1 /\ h \in Readers(p)
      BY <1>1, <1>2, <1>7, <2>4 DEF CanAcquire, Request, Readers
    <3>2. \A g \in Readers(p) : g = h
      BY <2>0, <3>1, OnlyReader
    <3> QED
      BY <1>2, <1>8, <2>4, <3>2
  <2> QED
    BY <1>2, <2>2, <2>3, <2>4
<1>14. r.os \in OsLock /\ Follows(r.os, s) /\ Compatible(p, r.os)
  BY <1>1, <1>4, <1>5, <1>6, ReconcileStep DEF LockInv
<1>15. \A g \in Handle : Owner[g] # p => level'[g] = level[g] /\ entry'[g] = entry[g]
  BY <1>2
<1> HIDE DEF p
<1>16. /\ \A q \in Process : ProcessOK(q)'
       /\ \A q \in Process : q # p => (Counts(q)' <=> Counts(q))
  BY <1>1, <1>4, <1>5, <1>11, <1>12, <1>13, <1>14, <1>15, OneProcessStep, Zenon
<1> QED
  BY <1>10, <1>16

\* A refused request and its undo.
LEMMA RefusedStep ==
  ASSUME LockInv, NEW h \in Handle, NEW to, Request(level[h], to), LockRefused(h, to),
         LocksType', UNCHANGED entry
  PROVE  /\ \A q \in Process : ProcessOK(q)'
         /\ \A q \in Process : Counts(q) =>
              Counts(q)' \/ (q = Owner[h] /\ level[h] = Unlocked /\ to = Reserved)
<1> DEFINE p == Owner[h]
           s == Acquire(state[p], level[h], to)
           back == Release(s, to, level[h])
<1>1. /\ p \in Process
      /\ state[p] \in LockStates
      /\ os[p] \in OsLock
      /\ state' = [state EXCEPT ![p] = back]
      /\ level' = level
  BY OwnerType, Zenon DEF LockInv, LocksType, LockRefused
<1>2. state'[p] = back
  BY <1>1 DEF LockInv, LocksType
<1>3. PICK r \in Reconcile(p, os[p], s) :
        r.busy /\ \E again \in Reconcile(p, r.os, back) : os' = [os EXCEPT ![p] = again.os]
  BY Zenon DEF LockRefused
<1>4. AggregateOK(p) /\ OneExclusive(p) /\ OneWriter(p) /\ Follows(os[p], state[p])
      /\ Compatible(p, os[p])
  BY <1>1 DEF LockInv, ProcessOK
<1>5. s \in LockStates /\ (HasWriteIntent(state[p]) => HasWriteIntent(s))
  BY <1>1, AcquireFields DEF HasWriteIntent
<1>6. /\ r.os \in OsLock /\ Compatible(p, r.os)
      /\ ~os[p].disabled /\ DesiredOs(s) # os[p].level
      /\ r.os \in {os[p], [os[p] EXCEPT !.held = Unlocked]}
  BY <1>1, <1>3, <1>4, <1>5, ReconcileStep DEF LockInv
<1>7. ~HasWriteIntent(state[p])
  BY <1>4, <1>5, <1>6 DEF Follows, DesiredOs
<1>8. /\ back \in LockStates /\ ~HasWriteIntent(back)
      /\ back.shared = IF level[h] = Unlocked /\ to = Reserved /\ state[p].shared > 0
                       THEN state[p].shared - 1 ELSE state[p].shared
  BY <1>1, <1>7, UndoneFields
<1> HIDE DEF back
<1>9. Follows(r.os, state[p])
  <2>1. r.os.level = os[p].level /\ r.os.disabled = os[p].disabled
        /\ (r.os.held = os[p].held \/ r.os.held = Unlocked)
    BY <1>1, <1>6 DEF OsLock
  <2>2. os[p].level # Exclusive
    BY <1>4, <1>6, <1>7 DEF Follows, DesiredOs
  <2> QED
    BY <1>4, <1>6, <2>1, <2>2 DEF Follows
<1>10. PICK again \in Reconcile(p, r.os, back) : os' = [os EXCEPT ![p] = again.os]
  BY <1>3, Zenon
<1>11. DesiredOs(back) <= r.os.level
  <2>1. r.os.level = DesiredOs(state[p])
    BY <1>1, <1>6, <1>9 DEF Follows, OsLock
  <2> QED
    BY <1>1, <1>7, <1>8, <2>1 DEF DesiredOs, LockStates
<1>12. again.os \in OsLock /\ Follows(again.os, back) /\ Compatible(p, again.os)
  BY <1>1, <1>6, <1>8, <1>9, <1>10, <1>11, ReconcileStep DEF LockInv
<1>13. HandlesOf(p)' = HandlesOf(p) /\ Readers(p)' = Readers(p)
  BY <1>1 DEF HandlesOf, Readers
<1>14. Cardinality(Readers(p)) \in Nat
  BY ReadersFinite
<1>15. AggregateOK(p)'
  BY <1>1, <1>2, <1>4, <1>7, <1>8, <1>13, <1>14 DEF AggregateOK, HasWriteIntent, LockStates
<1>16. OneExclusive(p)'
  BY <1>1, <1>4, <1>13 DEF OneExclusive
<1>17. OneWriter(p)'
  <2>1. Counts(p)' => Counts(p)
    BY <1>1, <1>2, <1>4, <1>8, <1>13, <1>14 DEF Counts, AggregateOK, LockStates
  <2> QED
    BY <1>1, <1>4, <1>7, <1>13, <2>1 DEF OneWriter, HasWriteIntent
<1>18. Counts(p) => Counts(p)' \/ (level[h] = Unlocked /\ to = Reserved)
  BY <1>1, <1>2, <1>8, <1>13 DEF Counts, LockStates
<1>19. \A g \in Handle : Owner[g] # p => level'[g] = level[g] /\ entry'[g] = entry[g]
  BY <1>1
<1> HIDE DEF p, s
<1>20. /\ \A q \in Process : ProcessOK(q)'
       /\ \A q \in Process : q # p => (Counts(q)' <=> Counts(q))
  BY <1>1, <1>8, <1>10, <1>12, <1>15, <1>16, <1>17, <1>19, OneProcessStep, Zenon
<1> QED
  BY <1>18, <1>20 DEF p

\* A release: by a reader, or by the checkpoint of an idle connection.
LEMMA ReleaseStep ==
  ASSUME LockInv, NEW h \in Handle, NEW to, Downgrade(level[h], to), UnlockTo(h, to),
         LocksType', entry'[h] # Unlocked, entry[h] = Unlocked => to = Unlocked,
         \A g \in Handle \ {h} : entry'[g] = entry[g]
  PROVE  /\ level' = [level EXCEPT ![h] = to]
         /\ \A q \in Process : ProcessOK(q)'
         /\ \A q \in Process : Counts(q) => Counts(q)' \/ (q = Owner[h] /\ entry[h] = Unlocked)
<1> DEFINE p == Owner[h]
           s == Release(state[p], level[h], to)
<1>1. /\ p \in Process
      /\ state[p] \in LockStates
      /\ os[p] \in OsLock
      /\ state' = [state EXCEPT ![p] = s]
  BY OwnerType, Zenon DEF LockInv, LocksType, UnlockTo
<1>2. /\ level[h] \in {Shared, Reserved, Exclusive}
      /\ to \in {Unlocked, Shared}
      /\ to < level[h]
      /\ to = Shared => level[h] = Reserved
  BY DEF Downgrade
<1>3. /\ level' = [level EXCEPT ![h] = to]
      /\ level'[h] = to
      /\ \A g \in Handle \ {h} : level'[g] = level[g]
  BY <1>2 DEF LockInv, LocksType, UnlockTo
<1>4. state'[p] = s
  BY <1>1 DEF LockInv, LocksType
<1>5. PICK r \in Reconcile(p, os[p], s) : os' = [os EXCEPT ![p] = r.os]
  BY Zenon DEF UnlockTo
<1>6. /\ s \in LockStates
      /\ s.shared = IF to = Unlocked /\ state[p].shared > 0
                    THEN state[p].shared - 1 ELSE state[p].shared
      /\ s.reserved <=> (state[p].reserved /\ level[h] < Reserved)
      /\ s.pending <=> (state[p].pending /\ level[h] # Exclusive)
      /\ s.exclusive <=> (state[p].exclusive /\ level[h] # Exclusive)
  BY <1>1, ReleaseType, ReleaseFields
<1>7. AggregateOK(p) /\ OneExclusive(p) /\ OneWriter(p) /\ Follows(os[p], state[p])
      /\ Compatible(p, os[p])
  BY <1>1 DEF LockInv, ProcessOK
<1>8. h \in HandlesOf(p) /\ HandlesOf(p) \subseteq Handle /\ HandlesOf(p)' = HandlesOf(p)
  BY DEF HandlesOf
<1>9. DesiredOs(s) <= DesiredOs(state[p])
  BY <1>1, ReleaseLowers
<1> HIDE DEF s
<1>10. /\ Readers(p)' = IF to = Unlocked THEN Readers(p) \ {h} ELSE Readers(p)
       /\ h \in Readers(p) <=> entry[h] # Unlocked
  BY <1>2, <1>3, <1>8 DEF Readers
<1>11. /\ Cardinality(Readers(p))' = Cardinality(Readers(p))
              - (IF to = Unlocked /\ entry[h] # Unlocked THEN 1 ELSE 0)
       /\ Cardinality(Readers(p)) \in Nat /\ Cardinality(Readers(p))' \in Nat
  <2>1. CASE h \in Readers(p) /\ to = Unlocked
    <3>1. /\ Cardinality(Readers(p) \ {h}) = Cardinality(Readers(p)) - 1
          /\ Cardinality(Readers(p) \ {h}) \in Nat
          /\ Cardinality(Readers(p)) \in Nat
      BY <2>1, ReadersFinite, FS_RemoveElement, FS_CardinalityType
    <3> QED
      BY <1>10, <2>1, <3>1
  <2>2. CASE ~(h \in Readers(p) /\ to = Unlocked)
    <3>1. Readers(p)' = Readers(p)
      BY <1>10, <2>2
    <3> QED
      BY <1>10, <2>2, <3>1, ReadersFinite
  <2> QED
    BY <2>1, <2>2
<1>12. AggregateOK(p)'
  <2>1. (state[p].shared <= Cardinality(Readers(p)))'
    BY <1>1, <1>4, <1>6, <1>7, <1>11 DEF AggregateOK, LockStates
  <2>2. (state[p].pending <=> state[p].exclusive)'
    BY <1>4, <1>6, <1>7 DEF AggregateOK
  <2>3. (state[p].exclusive <=> \E g \in HandlesOf(p) : level[g] = Exclusive)'
    BY <1>2, <1>3, <1>4, <1>6, <1>7, <1>8 DEF AggregateOK, OneExclusive
  <2>4. (state[p].exclusive => state[p].shared <= 1)'
    BY <1>1, <1>4, <1>6, <1>7 DEF AggregateOK, LockStates
  <2> QED
    BY <2>1, <2>2, <2>3, <2>4 DEF AggregateOK
<1>13. OneExclusive(p)'
  BY <1>2, <1>3, <1>7, <1>8 DEF OneExclusive
<1>14. OneWriter(p)'
  <2>1. SUFFICES ASSUME Counts(p)', Readers(p)' # {}
                 PROVE  /\ \A g \in Readers(p)' : level'[g] = Reserved => s.reserved
                        /\ \A f, g \in Readers(p)' :
                             level'[f] >= Reserved /\ level'[g] >= Reserved => f = g
    BY <1>4 DEF OneWriter
  <2>2. Cardinality(Readers(p))' # 0
    <3>1. IsFiniteSet(Readers(p)')
      BY <1>10, ReadersFinite, FS_RemoveElement, Zenon
    <3> QED
      BY <2>1, <3>1, FS_EmptySet, Zenon
  <2>3. Counts(p) /\ entry[h] # Unlocked
    BY <1>1, <1>2, <1>4, <1>6, <1>7, <1>11, <2>1, <2>2 DEF Counts, AggregateOK, LockStates
  <2>4. /\ \A g \in Readers(p) : level[g] = Reserved => state[p].reserved
        /\ \A f, g \in Readers(p) : level[f] >= Reserved /\ level[g] >= Reserved => f = g
        /\ Readers(p) \subseteq Handle /\ h \in Readers(p)
    BY <1>7, <1>8, <1>10, <2>3 DEF OneWriter, Readers
  <2> QED
    BY <1>2, <1>3, <1>6, <1>10, <2>4
<1>15. Counts(p) => Counts(p)' \/ entry[h] = Unlocked
  BY <1>1, <1>2, <1>4, <1>6, <1>11 DEF Counts, LockStates
<1>16. r.os \in OsLock /\ Follows(r.os, s) /\ Compatible(p, r.os)
  <2>1. /\ r.os \in OsLock /\ Compatible(p, r.os)
        /\ r.busy => ~os[p].disabled
        /\ ~r.busy => Follows(r.os, s)
        /\ DesiredOs(s) <= os[p].level => ~r.busy
    BY <1>1, <1>5, <1>6, <1>7, ReconcileStep DEF LockInv
  <2> QED
    BY <1>7, <1>9, <2>1 DEF Follows
<1>17. \A g \in Handle : Owner[g] # p => level'[g] = level[g] /\ entry'[g] = entry[g]
  BY <1>3
<1> HIDE DEF p
<1>18. /\ \A q \in Process : ProcessOK(q)'
       /\ \A q \in Process : q # p => (Counts(q)' <=> Counts(q))
  BY <1>1, <1>5, <1>6, <1>12, <1>13, <1>14, <1>16, <1>17, OneProcessStep, Zenon
<1> QED
  BY <1>3, <1>15, <1>18 DEF p

\* The death of a process.
LEMMA DeathStep ==
  ASSUME LockInv, NEW p \in Process, ProcessDies(p)
  PROVE  LockInv' /\ \A q \in Process : Counts(q) => Counts(q)'
<1>1. LocksType'
  BY DEF LockInv, LocksType, ProcessDies, LockLevel, LockStates, NoLocks, OsLock, NoOsLock
<1>2. /\ \A h \in Handle : Owner[h] # p => level'[h] = level[h] /\ entry'[h] = entry[h]
      /\ \A h \in HandlesOf(p) : level'[h] = Unlocked
      /\ HandlesOf(p)' = HandlesOf(p)
  BY DEF ProcessDies, HandlesOf
<1>3. state'[p] = NoLocks
  BY DEF LockInv, LocksType, ProcessDies
<1>4. Readers(p)' = {} /\ Cardinality(Readers(p))' = 0
  BY <1>2, FS_EmptySet DEF Readers
<1>5. Counts(p)' /\ AggregateOK(p)' /\ OneExclusive(p)' /\ OneWriter(p)'
  BY <1>2, <1>3, <1>4 DEF Counts, AggregateOK, OneExclusive, OneWriter, NoLocks
<1>6. /\ NoLocks \in LockStates /\ NoOsLock \in OsLock
      /\ Follows(NoOsLock, NoLocks) /\ Compatible(p, NoOsLock)
  BY DEF NoLocks, LockStates, NoOsLock, OsLock, Follows, Compatible, DesiredOs, HasWriteIntent
<1>7. /\ \A q \in Process : ProcessOK(q)'
      /\ \A q \in Process : q # p => (Counts(q)' <=> Counts(q))
  <2>1. state' = [state EXCEPT ![p] = NoLocks] /\ os' = [os EXCEPT ![p] = NoOsLock]
    BY DEF ProcessDies
  <2> QED
    BY <1>1, <1>2, <1>5, <1>6, <2>1, OneProcessStep, Zenon
<1>8. \A h \in Handle : entry'[h] # NoEntry => level'[h] = Reserved
  BY DEF LockInv, ProcessDies
<1> QED
  BY <1>1, <1>5, <1>7, <1>8 DEF LockInv

-----------------------------------------------------------------------------
(***************************************************************************)
(* The invariant                                                           *)
(***************************************************************************)

\* All locks are free at the start.
LEMMA LockInit == Init => LockInv
<1> SUFFICES ASSUME Init PROVE LockInv
  OBVIOUS
<1>1. LocksType
  BY DEF Init, LocksType, LockLevel, LockStates, NoLocks, OsLock, NoOsLock
<1>2. ASSUME NEW p \in Process
      PROVE  ProcessOK(p)
  <2>1. Readers(p) = {} /\ Cardinality(Readers(p)) = 0
        /\ \A h \in HandlesOf(p) : level[h] = Unlocked
    BY FS_EmptySet DEF Init, Readers, HandlesOf
  <2>2. state[p] = NoLocks /\ \A q \in Process : os[q] = NoOsLock
    BY DEF Init
  <2>3. AggregateOK(p) /\ OneExclusive(p) /\ OneWriter(p)
    BY <2>1, <2>2 DEF AggregateOK, OneExclusive, OneWriter, NoLocks
  <2>4. Follows(os[p], state[p]) /\ Compatible(p, os[p])
    BY <2>2 DEF Follows, Compatible, NoLocks, NoOsLock, DesiredOs, HasWriteIntent
  <2> QED
    BY <2>3, <2>4 DEF ProcessOK
<1> QED
  BY <1>1, <1>2 DEF LockInv, Init

\* The locks keep their types in a step that asks for one.
LEMMA RequestType ==
  ASSUME LockInv, NEW h \in Handle, NEW to, Request(level[h], to),
         LockOk(h, to) \/ LockRefused(h, to),
         entry' \in [Handle -> {Unlocked, Shared, NoEntry}],
         task' \in [Handle -> {"pager", "recover", "hot"}]
  PROVE  LocksType'
<1> DEFINE p == Owner[h]
           s == Acquire(state[p], level[h], to)
           back == Release(s, to, level[h])
<1>1. p \in Process /\ state[p] \in LockStates /\ os[p] \in OsLock
  BY OwnerType DEF LockInv, LocksType
<1>2. s \in LockStates /\ back \in LockStates
  BY <1>1, AcquireFields, ReleaseType
<1>3. to \in LockLevel \ {Pending}
  BY DEF Request, LockLevel
<1>4. level' \in [Handle -> LockLevel \ {Pending}]
  BY <1>3, Zenon DEF LockInv, LocksType, LockOk, LockRefused
<1>5. state' \in [Process -> LockStates]
  <2>1. state' = [state EXCEPT ![p] = s] \/ state' = [state EXCEPT ![p] = back]
    BY Zenon DEF LockOk, LockRefused
  <2> HIDE DEF s, back
  <2> QED
    BY <1>2, <2>1 DEF LockInv, LocksType
<1>6. os' \in [Process -> OsLock]
  <2>1. \A r \in Reconcile(p, os[p], s) : r.os \in OsLock
    BY <1>1, ReconcileType
  <2>2. \A r \in Reconcile(p, os[p], s) : \A x \in Reconcile(p, r.os, back) : x.os \in OsLock
    BY <2>1, ReconcileType
  <2>3. \E o \in OsLock : os' = [os EXCEPT ![p] = o]
    BY <2>1, <2>2, Zenon DEF LockOk, LockRefused
  <2> QED
    BY <2>3, Zenon DEF LockInv, LocksType
<1> QED
  BY <1>4, <1>5, <1>6 DEF LocksType

\* The locks keep their types in a step that gives one back.
LEMMA ReleasedType ==
  ASSUME LockInv, NEW h \in Handle, NEW to, Downgrade(level[h], to), UnlockTo(h, to),
         entry' \in [Handle -> {Unlocked, Shared, NoEntry}],
         task' \in [Handle -> {"pager", "recover", "hot"}]
  PROVE  LocksType'
<1> DEFINE p == Owner[h]
           s == Release(state[p], level[h], to)
<1>1. p \in Process /\ s \in LockStates /\ os[p] \in OsLock
  BY OwnerType, ReleaseType DEF LockInv, LocksType
<1>2. to \in LockLevel \ {Pending}
  BY DEF Downgrade, LockLevel
<1>3. level' \in [Handle -> LockLevel \ {Pending}]
  BY <1>2 DEF LockInv, LocksType, UnlockTo
<1>4. state' \in [Process -> LockStates]
  <2>1. state' = [state EXCEPT ![p] = s]
    BY DEF UnlockTo
  <2> HIDE DEF s
  <2> QED
    BY <1>1, <2>1 DEF LockInv, LocksType
<1>5. os' \in [Process -> OsLock]
  <2>1. \A r \in Reconcile(p, os[p], s) : r.os \in OsLock
    BY <1>1, ReconcileType
  <2>2. \E o \in OsLock : os' = [os EXCEPT ![p] = o]
    BY <2>1, Zenon DEF UnlockTo
  <2> QED
    BY <2>2, Zenon DEF LockInv, LocksType
<1> QED
  BY <1>3, <1>4, <1>5 DEF LocksType

\* What a step must do to the invariant and to the counts.
Good == /\ LockInv'
        /\ \A p \in Process :
             Counts(p) => Counts(p)' \/ \E h \in HandlesOf(p) : IdleCheckpoint(h)

\* A request that is not a checkpoint's.
LEMMA PlainRequest ==
  ASSUME LockInv, NEW h \in Handle, NEW to, Request(level[h], to), entry[h] = NoEntry,
         ~(level[h] = Unlocked /\ to = Reserved),
         LockOk(h, to) \/ LockRefused(h, to), UNCHANGED entry,
         task' \in [Handle -> {"pager", "recover", "hot"}]
  PROVE  Good
<1>1. LocksType'
  BY RequestType DEF LockInv, LocksType
<1>2. NoEntry # Unlocked
  BY NoEntryType DEF LockLevel
<1>3. /\ \A q \in Process : ProcessOK(q)'
      /\ \A q \in Process : Counts(q) => Counts(q)'
  <2>1. CASE LockOk(h, to)
    BY <1>1, <1>2, <2>1, GrantedStep
  <2>2. CASE LockRefused(h, to)
    BY <1>1, <2>2, RefusedStep
  <2> QED
    BY <2>1, <2>2
<1>4. \A g \in Handle \ {h} : level'[g] = level[g]
  BY Zenon DEF LockOk, LockRefused, LockInv, LocksType
<1>5. \A g \in Handle : entry'[g] # NoEntry => level'[g] = Reserved
  BY <1>4 DEF LockInv
<1> QED
  BY <1>1, <1>3, <1>5 DEF Good, LockInv

\* Every step of every handle, and every process death, keeps the invariant and,
\* but for the checkpoint of an idle connection, the counts.
LEMMA LockStep ==
  ASSUME LockInv, [Next]_vars
  PROVE  Good
<1>0. /\ NoEntry # Shared /\ NoEntry # Unlocked
      /\ entry \in [Handle -> {Unlocked, Shared, NoEntry}]
      /\ task \in [Handle -> {"pager", "recover", "hot"}]
      /\ \A h \in Handle : level[h] \in LockLevel \ {Pending}
      /\ \A h \in Handle : level[h] # Reserved => entry[h] = NoEntry
  BY NoEntryType DEF LockLevel, LockInv, LocksType
<1>1. ASSUME NEW h \in Handle, LockShared(h)
      PROVE  Good
  BY <1>0, <1>1, PlainRequest DEF LockShared, Request
<1>2. ASSUME NEW h \in Handle, LockReserved(h)
      PROVE  Good
  BY <1>0, <1>2, PlainRequest DEF LockReserved, Request
<1>3. ASSUME NEW h \in Handle, LockExclusive(h)
      PROVE  Good
  BY <1>0, <1>3, PlainRequest DEF LockExclusive, Request
<1>4. ASSUME NEW h \in Handle, Unlock(h)
      PROVE  Good
  <2>1. Downgrade(level[h], Unlocked)
    BY <1>0, <1>4 DEF Unlock, Downgrade, LockLevel
  <2>2. LocksType'
    BY <1>0, <1>4, <2>1, ReleasedType DEF Unlock
  <2>3. /\ level' = [level EXCEPT ![h] = Unlocked]
        /\ \A q \in Process : ProcessOK(q)'
        /\ \A q \in Process : Counts(q) => Counts(q)'
    BY <1>0, <1>4, <2>1, <2>2, ReleaseStep DEF Unlock
  <2>4. \A g \in Handle : entry'[g] # NoEntry => level'[g] = Reserved
    BY <1>4, <2>3 DEF Unlock, LockInv, LocksType
  <2> QED
    BY <2>2, <2>3, <2>4 DEF Good, LockInv
<1>5. ASSUME NEW h \in Handle, RecoverOpen(h)
      PROVE  Good
  <2>1. LockOk(h, Shared) \/ LockRefused(h, Shared)
    BY <1>5 DEF RecoverOpen
  <2>2. UNCHANGED entry /\ task' \in [Handle -> {"pager", "recover", "hot"}]
    BY <1>0, <1>5 DEF RecoverOpen
  <2> QED
    BY <1>0, <1>5, <2>1, <2>2, PlainRequest DEF RecoverOpen, Request
<1>6. ASSUME NEW h \in Handle, RecoverLock(h)
      PROVE  Good
  <2>1. PICK to \in {Reserved, Exclusive} : LockOk(h, to) \/ LockRefused(h, to)
    BY <1>6 DEF RecoverLock
  <2> QED
    BY <1>0, <1>6, <2>1, PlainRequest DEF RecoverLock, Request
<1>7. ASSUME UNCHANGED <<level, state, os, entry>>,
             task' \in [Handle -> {"pager", "recover", "hot"}]
      PROVE  Good
  <2>1. \A p \in Process : Readers(p)' = Readers(p) /\ HandlesOf(p)' = HandlesOf(p)
    BY <1>7 DEF Readers, HandlesOf
  <2>2. \A p \in Process : Counts(p)' <=> Counts(p)
    BY <1>7, <2>1 DEF Counts
  <2>3. \A p \in Process : ProcessOK(p)'
    BY <1>7, <2>1, <2>2 DEF LockInv, ProcessOK, AggregateOK, OneExclusive, OneWriter, Compatible
  <2>4. LocksType'
    BY <1>7 DEF LockInv, LocksType
  <2> QED
    BY <1>7, <2>2, <2>3, <2>4 DEF Good, LockInv
<1>8. ASSUME NEW h \in Handle, RecoverCheck(h)
      PROVE  Good
  BY <1>0, <1>7, <1>8 DEF RecoverCheck
<1>9. ASSUME NEW h \in Handle, CheckpointLock(h)
      PROVE  Good
  <2>1. /\ level[h] \in {Unlocked, Shared} /\ Request(level[h], Reserved) /\ entry[h] = NoEntry
        /\ LockOk(h, Reserved) \/ LockRefused(h, Reserved)
    BY <1>0, <1>9 DEF CheckpointLock, Request
  <2>2. LocksType'
    <3>1. /\ entry' \in [Handle -> {Unlocked, Shared, NoEntry}]
          /\ task' \in [Handle -> {"pager", "recover", "hot"}]
      BY <1>0, <1>9, <2>1 DEF CheckpointLock
    <3> QED
      BY <2>1, <3>1, RequestType
  <2>3. CASE LockOk(h, Reserved) /\ entry' = [entry EXCEPT ![h] = level[h]]
    <3>1. /\ entry'[h] = level[h] /\ \A g \in Handle \ {h} : entry'[g] = entry[g]
      BY <1>0, <2>3
    <3>2. /\ \A q \in Process : ProcessOK(q)'
          /\ \A q \in Process : Counts(q) => Counts(q)'
      BY <1>0, <2>1, <2>2, <2>3, <3>1, GrantedStep
    <3>3. level' = [level EXCEPT ![h] = Reserved]
      BY <2>3 DEF LockOk
    <3>4. \A g \in Handle : entry'[g] # NoEntry => level'[g] = Reserved
      BY <3>1, <3>3 DEF LockInv, LocksType
    <3> QED
      BY <2>2, <3>2, <3>4 DEF Good, LockInv
  <2>4. CASE LockRefused(h, Reserved) /\ UNCHANGED entry
    <3>1. /\ \A q \in Process : ProcessOK(q)'
          /\ \A q \in Process : Counts(q) => Counts(q)' \/ (q = Owner[h] /\ level[h] = Unlocked)
      BY <2>1, <2>2, <2>4, RefusedStep
    <3>2. \A g \in Handle : entry'[g] # NoEntry => level'[g] = Reserved
      BY <2>4 DEF LockRefused, LockInv
    <3>3. \A q \in Process : Counts(q) =>
            Counts(q)' \/ \E g \in HandlesOf(q) : IdleCheckpoint(g)
      BY <1>9, <3>1, Zenon DEF IdleCheckpoint, HandlesOf
    <3> QED
      BY <2>2, <3>1, <3>2, <3>3 DEF Good, LockInv
  <2> QED
    BY <1>9, <2>3, <2>4 DEF CheckpointLock
<1>10. ASSUME NEW h \in Handle, CheckpointUnlock(h)
       PROVE  Good
  <2>1. /\ level[h] = Reserved /\ entry[h] \in {Unlocked, Shared}
        /\ UnlockTo(h, entry[h]) /\ Downgrade(level[h], entry[h])
    BY <1>0, <1>10 DEF CheckpointUnlock, LockInv, Downgrade
  <2>2. /\ entry'[h] = NoEntry /\ \A g \in Handle \ {h} : entry'[g] = entry[g]
        /\ entry' \in [Handle -> {Unlocked, Shared, NoEntry}]
        /\ task' \in [Handle -> {"pager", "recover", "hot"}]
    BY <1>0, <1>10 DEF CheckpointUnlock
  <2>3. LocksType'
    BY <2>1, <2>2, ReleasedType
  <2>4. /\ level' = [level EXCEPT ![h] = entry[h]]
        /\ \A q \in Process : ProcessOK(q)'
        /\ \A q \in Process : Counts(q) => Counts(q)' \/ (q = Owner[h] /\ entry[h] = Unlocked)
    BY <1>0, <2>1, <2>2, <2>3, ReleaseStep
  <2>5. \A g \in Handle : entry'[g] # NoEntry => level'[g] = Reserved
    BY <2>2, <2>4 DEF LockInv, LocksType
  <2>6. \A q \in Process : Counts(q) =>
          Counts(q)' \/ \E g \in HandlesOf(q) : IdleCheckpoint(g)
    BY <1>10, <2>4, Zenon DEF IdleCheckpoint, HandlesOf
  <2> QED
    BY <2>3, <2>4, <2>5, <2>6 DEF Good, LockInv
<1>11. ASSUME NEW p \in Process, ProcessDies(p)
       PROVE  Good
  BY <1>11, DeathStep DEF Good
<1>12. CASE UNCHANGED vars
  BY <1>0, <1>7, <1>12 DEF vars
<1> QED
  BY <1>1, <1>2, <1>3, <1>4, <1>5, <1>6, <1>8, <1>9, <1>10, <1>11, <1>12 DEF Next

\* What the OS lock covers, of one handle.
LEMMA Covers ==
  ASSUME LockInv, NEW h \in Handle, KeepsOsLock(Owner[h]), Counts(Owner[h]), entry[h] # Unlocked
  PROVE  /\ level[h] >= Shared => os[Owner[h]].held # Unlocked
         /\ level[h] >= Reserved => os[Owner[h]].held = Exclusive
<1> DEFINE p == Owner[h]
<1>1. /\ p \in Process
      /\ level[h] \in LockLevel \ {Pending}
      /\ state[p] \in LockStates
      /\ AggregateOK(p) /\ OneWriter(p)
      /\ os[p].held = DesiredOs(state[p])
  BY OwnerType DEF LockInv, LocksType, ProcessOK, Follows, KeepsOsLock
<1>2. level[h] >= Shared => h \in Readers(p) /\ state[p].shared > 0
  <2>1. level[h] >= Shared => h \in Readers(p)
    BY DEF Readers, HandlesOf
  <2>2. state[p].shared = 0 => Readers(p) = {}
    BY ReadersFinite, FS_EmptySet, Zenon DEF Counts
  <2> QED
    BY <1>1, <2>1, <2>2 DEF LockStates
<1>3. level[h] >= Reserved => HasWriteIntent(state[p])
  BY <1>1, <1>2 DEF AggregateOK, OneWriter, HasWriteIntent, HandlesOf, LockLevel
<1> QED
  BY <1>1, <1>2, <1>3 DEF DesiredOs, LockLevel

\* What LockInv says of any two handles, in one process or in two.
LEMMA Consequences ==
  ASSUME LockInv
  PROVE  TypeOK /\ ExclusiveExcludes /\ SingleWriter /\ OsLockCovers /\ OnlySharedLost
<1>1. TypeOK
  BY DEF LockInv, LocksType, TypeOK
<1>2. OsLockCovers
  BY Covers DEF OsLockCovers
<1>3. OnlySharedLost
  BY DEF LockInv, LocksType, OsLock, ProcessOK, Follows, KeepsOsLock, OnlySharedLost
<1>4. ASSUME NEW g \in Handle, NEW h \in Handle, g # h, Coordinated(g, h)
      PROVE  /\ level[g] = Exclusive => level[h] = Unlocked
             /\ level[g] >= Reserved => level[h] < Reserved
  <2>1. level[g] \in LockLevel \ {Pending} /\ level[h] \in LockLevel \ {Pending}
    BY DEF LockInv, LocksType
  <2>2. CASE Owner[g] = Owner[h]
    <3> DEFINE p == Owner[g]
    <3>1. p \in Process /\ AggregateOK(p) /\ OneWriter(p) /\ Counts(p)
          /\ entry[g] # Unlocked /\ entry[h] # Unlocked
      BY <1>4, OwnerType DEF LockInv, ProcessOK, Coordinated
    <3>2. /\ level[g] >= Shared => g \in Readers(p)
          /\ level[h] >= Shared => h \in Readers(p)
      BY <2>2, <3>1 DEF Readers, HandlesOf
    <3>3. level[g] >= Reserved /\ level[h] >= Reserved => FALSE
      BY <1>4, <2>1, <3>1, <3>2 DEF OneWriter, LockLevel
    <3>4. level[g] = Exclusive /\ level[h] >= Shared => FALSE
      <4>1. SUFFICES ASSUME level[g] = Exclusive, level[h] >= Shared PROVE FALSE
        OBVIOUS
      <4>2. state[p].shared <= 1
        BY <3>1, <4>1 DEF AggregateOK, HandlesOf
      <4> QED
        BY <1>4, <3>1, <3>2, <4>1, <4>2, OnlyReader
    <3> QED
      BY <2>1, <3>3, <3>4 DEF LockLevel
  <2>3. CASE Owner[g] # Owner[h]
    <3>1. /\ KeepsOsLock(Owner[g]) /\ KeepsOsLock(Owner[h])
          /\ Counts(Owner[g]) /\ Counts(Owner[h])
          /\ entry[g] # Unlocked /\ entry[h] # Unlocked
      BY <1>4, <2>3 DEF Coordinated
    <3>2. os[Owner[g]].held = Exclusive => os[Owner[h]].held = Unlocked
      BY <2>3, OwnerType DEF LockInv, ProcessOK, Compatible
    <3>3. /\ level[g] >= Reserved => os[Owner[g]].held = Exclusive
          /\ level[h] >= Shared => os[Owner[h]].held # Unlocked
      BY <3>1, Covers
    <3> QED
      BY <2>1, <3>2, <3>3 DEF LockLevel
  <2> QED
    BY <2>2, <2>3
<1>5. ExclusiveExcludes
  BY <1>4 DEF ExclusiveExcludes
<1>6. SingleWriter
  BY <1>4 DEF SingleWriter
<1> QED
  BY <1>1, <1>2, <1>3, <1>5, <1>6

-----------------------------------------------------------------------------

\* The lock tables are well formed in every behaviour.
THEOREM TypeCorrect == Spec => []TypeOK
<1>1. LockInv /\ [Next]_vars => LockInv'
  BY LockStep DEF Good
<1> QED
  BY <1>1, LockInit, Consequences, PTL DEF Spec

\* A commit or a journal replay is alone on the file, and there is at most one
\* writer, among the handles whose processes have neither forgotten a reader nor
\* lost their OS lock: the locks of vfs/mod.rs and the OS lock of vfs/std_file.rs
\* together exclude, in any number of processes with any number of handles each.
THEOREM Exclusion == Spec => [](ExclusiveExcludes /\ SingleWriter)
<1>1. LockInv /\ [Next]_vars => LockInv'
  BY LockStep DEF Good
<1> QED
  BY <1>1, LockInit, Consequences, PTL DEF Spec

\* The count of readers is never too high, and becomes too low only where the
\* checkpoint of an idle connection releases a SHARED it never took.
THEOREM AggregateFaithful == Spec => ReaderCountKept
<1>1. LockInv /\ [Next]_vars => LockInv'
  BY LockStep DEF Good
<1>2. LockInv /\ [Next]_vars =>
        [\A p \in Process :
           /\ state'[p].shared <= Cardinality(Readers(p)')
           /\ Counts(p) => Counts(p)' \/ \E h \in HandlesOf(p) : IdleCheckpoint(h)]_vars
  <2>1. SUFFICES ASSUME LockInv, [Next]_vars, NEW p \in Process
                 PROVE  /\ state'[p].shared <= Cardinality(Readers(p)')
                        /\ Counts(p) => Counts(p)' \/ \E h \in HandlesOf(p) : IdleCheckpoint(h)
    OBVIOUS
  <2>2. Good
    BY <2>1, LockStep
  <2>3. AggregateOK(p)'
    BY <2>2 DEF Good, LockInv, ProcessOK
  <2>4. state'[p].shared <= Cardinality(Readers(p)')
    BY <2>3 DEF AggregateOK
  <2> QED
    BY <2>2, <2>4 DEF Good
<1> QED
  BY <1>1, <1>2, LockInit, PTL DEF Spec, ReaderCountKept

\* A process that has not forgotten a reader is covered by the OS lock it keeps,
\* and a refused conversion never takes more than a shared lock away.
THEOREM OsLockFaithful == Spec => [](OsLockCovers /\ OnlySharedLost)
<1>1. LockInv /\ [Next]_vars => LockInv'
  BY LockStep DEF Good
<1> QED
  BY <1>1, LockInit, Consequences, PTL DEF Spec

=============================================================================
