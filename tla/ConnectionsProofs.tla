------------------------- MODULE ConnectionsProofs -------------------------
(***************************************************************************)
(* Theorems about Connections, for any finite set of connections, any file *)
(* size and any number of commits and savepoints; and the invariant of the *)
(* clean-page cache for connections that take turns on one thread.         *)
(***************************************************************************)
EXTENDS ConnectionSteps

USE DEF Unlocked, Shared, Reserved, Pending, Exclusive

-----------------------------------------------------------------------------
(***************************************************************************)
(* Transactions keep the invariant                                         *)
(***************************************************************************)

\* BEGIN, savepoints, ROLLBACK and COMMIT up to the flush
LEMMA TransactionKeeps ==
  ASSUME IInv, NEW c \in Conn, threaded' = threaded,
         Transaction(c), ~FlushHeader(c), ~FlushPages(c)
  PROVE  IInv'
<1> DEFINE k == pager[c]
           v == Revalidated(k)
<1>0. /\ FileOK /\ k \in Pager /\ inTx \in [Conn -> BOOLEAN] /\ Place(k, pc[c], disk)
      /\ k.held \in {Unlocked, Shared, Reserved, Exclusive}
      /\ pc[c] # "flushing" => Working(k, disk)
  BY InvFacts
<1>1. pc[c] = "idle" => /\ Working(k, disk) /\ k.held # Exclusive
                        /\ v \in Pager /\ Working(v, disk)
                        /\ v.held = k.held /\ v.header = k.header /\ v.saves = k.saves
  <2>1. pc[c] = "idle" => Working(k, disk) /\ k.held # Exclusive
    BY <1>0 DEF Place
  <2> QED
    BY <1>0, <2>1, RevalidatedWorks
<1>2. pc' = pc => pc' = [pc EXCEPT ![c] = pc[c]]
  BY DEF IInv, Types
\* A step between statements that keeps the locks
<1>3. ASSUME NEW r, r \in Pager, Working(r, disk), r.held = k.held, r.header = k.header,
             pc[c] = "idle", Set(c, r), locks' = locks, disk' = disk, pc' = pc,
             inTx' \in [Conn -> BOOLEAN]
      PROVE  IInv'
  <2>1. Moves(c, r, "idle")
    BY <1>0, <1>1, <1>2, <1>3 DEF Moves, Place, Set, Label
  <2> QED
    BY <1>3, <2>1, StepWithoutLocking
<1> HIDE DEF v
<1>4. CASE Begin(c)
  <2>1. pc[c] = "idle" /\ Set(c, v) /\ UNCHANGED <<disk, locks, pc>>
    BY <1>4 DEF Begin, At, v
  <2>2. inTx' \in [Conn -> BOOLEAN]
    BY <1>0, <1>4 DEF Begin
  <2> QED
    BY <1>1, <1>3, <2>1, <2>2
<1>5. CASE OpenSavepoint(c)
  <2> DEFINE r == [v EXCEPT !.saves = Append(@, [overlay |-> v.overlay, header |-> v.header,
                                                 pageCount |-> v.pageCount])]
  <2>1. pc[c] = "idle" /\ Set(c, r) /\ UNCHANGED <<disk, locks, pc, inTx>>
    BY <1>5 DEF OpenSavepoint, At, v
  <2>2. r \in Pager /\ Working(r, disk) /\ r.held = v.held /\ r.header = v.header
    BY <1>0, <1>1, <2>1, SavepointOpened
  <2> HIDE DEF r
  <2> QED
    BY <1>0, <1>1, <1>3, <2>1, <2>2
<1>6. CASE RollbackTo(c)
  <2>1. pc[c] = "idle" /\ UNCHANGED <<disk, locks, pc, inTx>>
    BY <1>6 DEF RollbackTo, At
  <2>2. PICK i \in 1 .. Len(k.saves) :
          Set(c, [v EXCEPT !.overlay = v.saves[i].overlay, !.header = v.saves[i].header,
                           !.pageCount = v.saves[i].pageCount, !.saves = SubSeq(@, 1, i)])
    BY <1>6, Zenon DEF RollbackTo, v
  <2> DEFINE r == [v EXCEPT !.overlay = v.saves[i].overlay, !.header = v.saves[i].header,
                            !.pageCount = v.saves[i].pageCount, !.saves = SubSeq(@, 1, i)]
  <2>3. r \in Pager /\ Working(r, disk) /\ r.held = v.held /\ r.header = v.header
    BY <1>0, <1>1, <2>1, <2>2, SavepointRestored, Zenon
  <2>4. Set(c, r)
    BY <2>2
  <2> HIDE DEF r
  <2> QED
    BY <1>0, <1>1, <1>3, <2>1, <2>3, <2>4
<1>7. CASE ReleaseSavepoint(c)
  <2>1. pc[c] = "idle" /\ UNCHANGED <<disk, locks, pc, inTx>>
    BY <1>7 DEF ReleaseSavepoint, At
  <2>2. PICK i \in 1 .. Len(k.saves) : Set(c, [v EXCEPT !.saves = SubSeq(@, 1, i - 1)])
    BY <1>7 DEF ReleaseSavepoint, v
  <2> DEFINE n == i - 1
             r == [v EXCEPT !.saves = SubSeq(@, 1, n)]
  <2>3. n \in 0 .. Len(v.saves)
    BY <1>0, <1>1, <2>1 DEF Pager
  <2>4. Set(c, r)
    BY <2>2
  <2> HIDE DEF n
  <2>5. r \in Pager /\ Working(r, disk) /\ r.held = v.held /\ r.header = v.header
    BY <1>0, <1>1, <2>1, <2>3, SavepointReleased, Zenon
  <2> HIDE DEF r
  <2> QED
    BY <1>0, <1>1, <1>3, <2>1, <2>4, <2>5
<1>8. CASE Rollback(c)
  <2> DEFINE q == Discarded(v)
             r == Released(q)
  <2>1. pc[c] = "idle" /\ UNCHANGED <<disk, pc>> /\ Set(c, r) /\ Unlock(c)
    BY <1>8 DEF Rollback, At, v
  <2>2. inTx' \in [Conn -> BOOLEAN]
    BY <1>0, <1>8 DEF Rollback
  <2>3. q \in Pager /\ Working(q, disk) /\ q.header = k.header /\ q.overlay = Clean
    BY <1>0, <1>1, <2>1, DiscardedWorks
  <2> HIDE DEF q
  <2>4. r \in Pager /\ Working(r, disk) /\ r.held = Unlocked /\ r.header = k.header
    BY <1>0, <2>3, ReleasedWorks
  <2> HIDE DEF r
  <2>5. Moves(c, r, "idle")
    BY <1>0, <1>2, <2>1, <2>2, <2>4 DEF Moves, Place, Set, Label
  <2> QED
    BY <2>1, <2>4, <2>5, StepUnlocking
<1>9. CASE StartCommit(c)
  <2>1. pc[c] = "idle" /\ Set(c, v) /\ Goto(c, "commit") /\ UNCHANGED <<disk, locks, inTx>>
    BY <1>9 DEF StartCommit, At, v
  <2>2. Moves(c, v, "commit")
    BY <1>0, <1>1, <2>1 DEF Moves, Place, Set, Goto, Label
  <2> QED
    BY <1>1, <2>1, <2>2, StepWithoutLocking
<1>10. CASE CommitNothing(c)
  <2> DEFINE r == Released(k)
  <2>1. /\ pc[c] = "commit" /\ Working(k, disk) /\ k.overlay = Clean
        /\ Unlock(c) /\ Set(c, r) /\ Goto(c, "idle") /\ disk' = disk
    BY <1>0, <1>10 DEF CommitNothing, At
  <2>2. inTx' \in [Conn -> BOOLEAN]
    BY <1>0, <1>10 DEF CommitNothing
  <2>3. r \in Pager /\ Working(r, disk) /\ r.held = Unlocked /\ r.header = k.header
    BY <1>0, <2>1, ReleasedWorks
  <2> HIDE DEF r
  <2>4. Moves(c, r, "idle")
    BY <1>0, <2>1, <2>2, <2>3 DEF Moves, Place, Set, Goto, Label
  <2> QED
    BY <2>1, <2>3, <2>4, StepUnlocking
<1>11. CASE CommitLock(c)
  <2>1. /\ pc[c] = "commit" /\ Working(k, disk) /\ k.overlay # Clean /\ k.held = Reserved
        /\ disk.page[1] < MaxCommit /\ UNCHANGED <<disk, inTx>>
    <3>1. /\ pc[c] = "commit" /\ k.overlay # Clean /\ disk.page[1] < MaxCommit
          /\ UNCHANGED <<disk, inTx>>
      BY <1>11 DEF CommitLock, At
    <3>2. Working(k, disk) /\ k.held # Exclusive
      BY <1>0, <3>1 DEF Place
    <3>3. ~(k.held < Reserved)
      BY <3>1, <3>2 DEF Working
    <3> QED
      BY <1>0, <3>1, <3>2, <3>3
  <2>2. CASE CanLock(c, Exclusive)
    <3> DEFINE r == [k EXCEPT !.held = Exclusive]
    <3>1. Lock(c, Exclusive) /\ Set(c, r) /\ Goto(c, "flush")
      BY <1>11, <2>1, <2>2 DEF CommitLock
    <3>2. /\ r.held = Exclusive /\ r.header = k.header /\ r.committed = k.committed
          /\ r.overlay = k.overlay /\ r.saves = k.saves /\ r.cache = k.cache
          /\ r.diskPages = k.diskPages /\ r.pageCount = k.pageCount
      BY <1>0 DEF Pager
    <3>3. r \in Pager
      <4>1. Exclusive \in LockLevel \ {Pending}
        BY DEF LockLevel
      <4> QED
        BY <1>0, <4>1 DEF Pager
    <3> HIDE DEF r
    <3>4. Stamped(r, disk) /\ Settled(r) /\ Nested(r)
      BY <2>1, <3>2 DEF Working, Stamped, Settled, Nested
    <3>5. Current(r, disk)
      BY <2>1, <3>2 DEF Working, Current
    <3>6. CacheOK(r, disk)
      BY <2>1, <3>2 DEF Working, CacheOK
    <3>7. r.header.cc = disk.cc /\ ~(r.held < Reserved)
      BY <2>1, <3>2 DEF Working
    <3>8. Working(r, disk)
      BY <3>4, <3>5, <3>6, <3>7 DEF Working
    <3>9. Moves(c, r, "flush")
      BY <1>0, <2>1, <3>1, <3>2, <3>3, <3>8 DEF Moves, Place, Set, Goto, Label
    <3> QED
      BY <2>1, <2>2, <3>1, <3>2, <3>9, StepLocking
  <2>3. CASE ~CanLock(c, Exclusive)
    <3>1. Goto(c, "idle") /\ pager' = [pager EXCEPT ![c] = k] /\ locks' = locks
      BY <1>11, <2>1, <2>3 DEF CommitLock, IInv, Types
    <3>2. Moves(c, k, "idle")
      BY <1>0, <2>1, <3>1 DEF Moves, Place, Goto, Label
    <3> QED
      BY <3>1, <3>2, StepWithoutLocking
  <2> QED
    BY <2>2, <2>3
<1> QED
  BY <1>4, <1>5, <1>6, <1>7, <1>8, <1>9, <1>10, <1>11 DEF Transaction

-----------------------------------------------------------------------------
(***************************************************************************)
(* The two steps of the flush, the only ones that change the file          *)
(***************************************************************************)

\* A connection that holds EXCLUSIVE is alone.
LEMMA FlushAlone ==
  ASSUME IInv, NEW c \in Conn, pc[c] \in {"flush", "flushing"}
  PROVE  /\ pager[c].held = Exclusive
         /\ \A d \in Conn : d # c => pager[d].held = Unlocked /\ pc[d] \notin {"flush", "flushing"}
<1>1. pager[c].held = Exclusive
  BY DEF IInv, PagerOK, Place
<1>2. \A d \in Conn : d # c => pager[d].held = Unlocked
  BY <1>1, HeldLevels DEF IInv, LockOK
<1>3. \A d \in Conn : pc[d] \in {"flush", "flushing"} => pager[d].held = Exclusive
  BY DEF IInv, PagerOK, Place
<1> QED
  BY <1>1, <1>2, <1>3

\* A pager whose header is older than the file expects nothing of it.
LEMMA StaleWorks ==
  ASSUME NEW k \in Pager, NEW l \in Label, NEW d, NEW e, PagerOK(k, l, d),
         k.held = Unlocked, l # "flushing",
         d.cc \in Serial, e.cc \in Serial, k.header.cc < e.cc
  PROVE  PagerOK(k, l, e)
<1>1. k.header.cc \in Serial
  BY DEF Pager, Header
<1>2. Place(k, l, e)
  BY DEF PagerOK, Place
<1>3. Stamped(k, e)
  BY <1>1, PageBounds DEF PagerOK, Working, Stamped, Serial
<1>4. k.header.cc # e.cc
  BY <1>1, PageBounds DEF Serial
<1> QED
  BY <1>2, <1>3, <1>4 DEF PagerOK, Working

\* The header goes first: the counter moves past everyone else's.
LEMMA FlushHeaderKeeps ==
  ASSUME IInv, NEW c \in Conn, threaded' = threaded, FlushHeader(c)
  PROVE  IInv'
<1> DEFINE k == pager[c]
           n == disk.cc + 1
           h == [cc |-> n, base |-> n]
           r == [k EXCEPT !.header = h, !.overlay[1] = Content(k, 1)]
<1>1. /\ pc[c] = "flush" /\ FileOK /\ k \in Pager /\ Working(k, disk) /\ k.held = Exclusive
      /\ disk.page[1] < MaxCommit
      /\ \A d \in Conn : d # c => pager[d].held = Unlocked /\ pc[d] \notin {"flush", "flushing"}
  BY InvFacts, FlushAlone DEF FlushHeader, At, Place
<1>2. /\ k.header.cc = disk.cc /\ disk.page[1] = disk.cc /\ disk.cc \in Serial /\ 1 \in Page
      /\ n \in Serial /\ n \in Int /\ disk.cc < n /\ Current(k, disk)
  BY <1>1, PageBounds DEF Working, FileOK, DiskOK, Disk, Serial, Page
<1>3. /\ disk' = [disk EXCEPT !.cc = n, !.page[1] = n]
      /\ pager' = [pager EXCEPT ![c] = r] /\ pc' = [pc EXCEPT ![c] = "flushing"]
      /\ locks' = locks /\ inTx' = inTx
  BY <1>2 DEF FlushHeader, Set, Goto
<1>4. /\ disk' \in Disk /\ disk'.cc = n /\ disk'.page[1] = n
      /\ \A p \in Page : disk'.page[p] # None <=> disk.page[p] # None
  <2>1. n # None /\ disk.page[1] # None
    BY <1>2, NoneIsNoNumber DEF Serial
  <2>2. disk \in Disk
    BY <1>1 DEF FileOK
  <2> QED
    BY <1>2, <1>3, <2>1, <2>2, Zenon DEF Disk
<1>5. DiskOK' /\ SizeOf(disk') = SizeOf(disk)
  <2>1. PICK m \in 1 .. MaxPage : HasSize(disk, m)
    BY <1>1 DEF FileOK, DiskOK
  <2>2. HasSize(disk', m)
    BY <1>4, <2>1 DEF HasSize
  <2>3. SizeOf(disk') = m /\ SizeOf(disk) = m
    BY <2>1, <2>2, SizeIs, PageBounds
  <2> QED
    BY <1>4, <2>1, <2>2, <2>3 DEF DiskOK
<1>6. Content(k, 1) \in Serial \cup {New, None}
  BY <1>1, <1>2 DEF Content, Pager, Overlay, FileOK, Disk
<1>7. /\ r \in Pager /\ r.held = Exclusive /\ r.header = h /\ r.committed = k.committed
      /\ r.pageCount = k.pageCount /\ r.overlay = [k.overlay EXCEPT ![1] = Content(k, 1)]
  <2>1. h \in Header
    BY <1>2 DEF Header
  <2> QED
    BY <1>1, <1>2, <1>6, <2>1, Zenon DEF Pager, Overlay
<1> HIDE DEF r
<1>8. /\ \A d \in Conn : pager'[d] = IF d = c THEN r ELSE pager[d]
      /\ \A d \in Conn : pc'[d] = IF d = c THEN "flushing" ELSE pc[d]
  BY <1>3 DEF IInv, Types
<1>9. Types'
  <2>1. pager' \in [Conn -> Pager] /\ pc' \in [Conn -> Label]
    BY <1>3, <1>7 DEF IInv, Types, Label
  <2> QED
    BY <1>3, <1>4, <2>1 DEF IInv, Types
<1>10. LockOK(locks', Held')
  <2>1. Held' = Held
    BY <1>1, <1>7, <1>8 DEF Held
  <2> QED
    BY <1>3, <2>1 DEF IInv
<1>11. Flushing(r, disk')
  <2>1. Stamped(r, disk')
    BY <1>1, <1>2, <1>4, <1>7 DEF Stamped, Working
  <2>2. Extends(r.overlay, r.pageCount, disk')
    <3>1. \A p \in Page : p # 1 => r.overlay[p] = k.overlay[p]
      BY <1>1, <1>7 DEF Pager, Overlay
    <3>2. SizeOf(disk) \in 1 .. MaxPage /\ SizeOf(disk) \in Nat
      BY <1>1, DiskSize, PageBounds DEF FileOK
    <3>3. Extends(k.overlay, k.pageCount, disk) /\ k.pageCount \in Nat
      BY <1>1, <1>2 DEF Pager, Current, Fits
    <3>4. 1 <= k.pageCount /\ SizeOf(disk) <= k.pageCount
      BY <3>2, <3>3 DEF Extends
    <3>5. ASSUME NEW p \in Page
          PROVE  /\ r.overlay[p] # None => p <= k.pageCount
                 /\ SizeOf(disk) < p /\ p <= k.pageCount => r.overlay[p] # None
      <4>1. CASE p = 1
        BY <3>2, <3>4, <4>1
      <4>2. CASE p # 1
        BY <3>1, <3>3, <3>5, <4>2 DEF Extends
      <4> QED
        BY <4>1, <4>2
    <3> QED
      BY <1>5, <1>7, <3>4, <3>5 DEF Extends
  <2> QED
    BY <1>4, <1>7, <2>1, <2>2 DEF Flushing
<1>12. \A d \in Conn : d # c => pager'[d].header.cc < disk'.cc
  <2>1. SUFFICES ASSUME NEW d \in Conn, d # c PROVE pager[d].header.cc < n
    BY <1>4, <1>8
  <2>2. Stamped(pager[d], disk) /\ pager[d].header.cc \in Serial
    BY <1>1, <2>1, InvFacts, Zenon DEF IInv, PagerOK, Working, Pager, Header
  <2> QED
    BY <1>2, <2>2, PageBounds DEF Stamped, Serial
<1>13. ASSUME NEW d \in Conn PROVE PagerOK(pager'[d], pc'[d], disk')
  <2>1. CASE d = c
    BY <1>7, <1>8, <1>11, <2>1 DEF PagerOK, Place
  <2>2. CASE d # c
    <3>1. /\ pager[d] \in Pager /\ pc[d] \in Label /\ PagerOK(pager[d], pc[d], disk)
          /\ pager[d].held = Unlocked /\ pc[d] # "flushing"
      BY <1>1, <2>2 DEF IInv, Types
    <3> QED
      BY <1>2, <1>4, <1>8, <1>12, <2>2, <3>1, StaleWorks
  <2> QED
    BY <2>1, <2>2
<1>14. \A d, e \in Conn : d # e /\ pc'[e] = "flushing" => pager'[d].header.cc < disk'.cc
  BY <1>1, <1>8, <1>12
<1> QED
  BY <1>5, <1>9, <1>10, <1>13, <1>14 DEF IInv

\* The other pages, the truncation and the end of the commit.
LEMMA FlushPagesKeeps ==
  ASSUME IInv, NEW c \in Conn, threaded' = threaded, FlushPages(c)
  PROVE  IInv'
<1> DEFINE k == pager[c]
           n == k.pageCount
           r == [Released(k) EXCEPT !.diskPages = n, !.overlay = Clean,
                                    !.committed = k.header, !.saves = <<>>]
<1>1. /\ pc[c] = "flushing" /\ FileOK /\ k \in Pager /\ Flushing(k, disk) /\ k.held = Exclusive
      /\ \A d \in Conn : d # c => pager[d].held = Unlocked /\ pc[d] \notin {"flush", "flushing"}
  BY InvFacts, FlushAlone DEF FlushPages, At, IInv, PagerOK
<1>2. /\ SizeOf(disk) \in 1 .. MaxPage /\ n \in 1 .. MaxPage
      /\ Extends(k.overlay, n, disk) /\ 1 \in Page
      /\ \A p \in Page : disk.page[p] # None <=> p <= SizeOf(disk)
  BY <1>1, DiskSize, PageBounds DEF Flushing, Extends, FileOK, Pager, Page
<1>3. /\ disk' = [disk EXCEPT !.page = [p \in Page |->
                     IF p > n THEN None
                     ELSE IF k.overlay[p] # None THEN disk.page[1] ELSE disk.page[p]]]
      /\ pager' = [pager EXCEPT ![c] = r] /\ pc' = [pc EXCEPT ![c] = "idle"]
      /\ inTx' = [inTx EXCEPT ![c] = FALSE] /\ Unlock(c)
  BY DEF FlushPages, Set, Goto
<1>4. /\ disk' \in Disk /\ disk'.cc = disk.cc
      /\ \A p \in Page : disk'.page[p] =
           IF p > n THEN None ELSE IF k.overlay[p] # None THEN disk.page[1] ELSE disk.page[p]
  <2>1. disk \in Disk /\ \A p \in Page : disk.page[p] \in Serial \cup {None}
    BY <1>1 DEF FileOK, Disk
  <2> QED
    BY <1>2, <1>3, <2>1 DEF Disk
<1>5. disk'.page[1] = disk.page[1] /\ disk.page[1] = disk.cc /\ disk.page[1] # None
  BY <1>1, <1>2, <1>4 DEF FileOK, DiskOK
<1>6. HasSize(disk', n)
  BY <1>2, <1>4, <1>5, PageBounds DEF HasSize, Extends, Page
<1>7. DiskOK' /\ SizeOf(disk') = n
  <2>1. SizeOf(disk') = n
    BY <1>2, <1>6, SizeIs, PageBounds
  <2> QED
    BY <1>2, <1>4, <1>5, <1>6, <2>1 DEF DiskOK
<1>8. /\ r \in Pager /\ r.held = Unlocked /\ r.header = k.header /\ r.committed = k.header
      /\ r.overlay = Clean /\ r.saves = <<>> /\ r.diskPages = n /\ r.pageCount = n
      /\ r.token = None
  <2> DEFINE q == [k EXCEPT !.cache = Clean, !.token = None, !.held = Unlocked]
  <2>1. Released(k) = q
    BY <1>1 DEF Released, CacheDropped, Pager
  <2>2. /\ q \in Pager /\ q.held = Unlocked /\ q.header = k.header /\ q.pageCount = n
        /\ q.token = None
    <3>1. Unlocked \in LockLevel \ {Pending} /\ None \in Serial \cup {None}
      BY DEF LockLevel
    <3> QED
      BY <1>1, <3>1, CleanFits, Zenon DEF Pager
  <2> HIDE DEF q
  <2>3. <<>> \in Seq(Savepoint)
    OBVIOUS
  <2>4. \A e \in Seq(Savepoint) :
          LET x == [q EXCEPT !.diskPages = n, !.overlay = Clean, !.committed = k.header, !.saves = e]
          IN  /\ x \in Pager /\ x.held = Unlocked /\ x.header = k.header /\ x.committed = k.header
              /\ x.overlay = Clean /\ x.saves = e /\ x.diskPages = n /\ x.pageCount = n
              /\ x.token = None
    BY <1>1, <2>2, CleanFits, Zenon DEF Pager
  <2> QED
    BY <2>1, <2>3, <2>4, Zenon
<1> HIDE DEF r
<1>9. /\ \A d \in Conn : pager'[d] = IF d = c THEN r ELSE pager[d]
      /\ \A d \in Conn : pc'[d] = IF d = c THEN "idle" ELSE pc[d]
  BY <1>3 DEF IInv, Types
<1>10. locks' \in LockStates /\ LockOK(locks', Held')
  <2>1. Held \in Levels /\ Held[c] = k.held
    BY HeldLevels DEF IInv
  <2>2. Held' = [Held EXCEPT ![c] = Unlocked]
    BY <1>8, <1>9, Zenon DEF Held
  <2>3. locks' = Release(locks, Held[c], Unlocked)
    BY <1>3, <2>1 DEF Unlock
  <2> QED
    BY <2>1, <2>2, <2>3, LockDropped, Zenon DEF IInv, Types
<1>11. Types'
  <2>1. pager' \in [Conn -> Pager] /\ pc' \in [Conn -> Label] /\ inTx' \in [Conn -> BOOLEAN]
    BY <1>3, <1>8 DEF IInv, Types, Label
  <2> QED
    BY <1>4, <1>10, <2>1 DEF IInv, Types
<1>12. Working(r, disk')
  <2>1. Stamped(r, disk')
    BY <1>1, <1>4, <1>8 DEF Stamped, Flushing
  <2>2. Settled(r) /\ Nested(r)
    BY <1>8 DEF Settled, Nested
  <2>3. Fits(Clean, n, disk')
    BY <1>2, <1>7, PageBounds DEF Fits, Extends, Derived, Clean, Page
  <2>4. Current(r, disk')
    BY <1>7, <1>8, <2>3 DEF Current
  <2> QED
    BY <1>8, <2>1, <2>2, <2>4 DEF Working
<1>13. ASSUME NEW d \in Conn PROVE PagerOK(pager'[d], pc'[d], disk')
  <2>1. CASE d = c
    BY <1>8, <1>9, <1>12, <2>1 DEF PagerOK, Place
  <2>2. CASE d # c
    <3>1. /\ pager[d] \in Pager /\ pc[d] \in Label /\ PagerOK(pager[d], pc[d], disk)
          /\ pager[d].held = Unlocked /\ pc[d] # "flushing"
          /\ pager[d].header.cc < disk.cc /\ disk.cc \in Serial
      BY <1>1, <2>2 DEF IInv, Types, Disk
    <3> QED
      BY <1>4, <1>9, <2>2, <3>1, StaleWorks
  <2> QED
    BY <2>1, <2>2
<1>14. \A e \in Conn : pc'[e] # "flushing"
  BY <1>1, <1>9
<1> QED
  BY <1>7, <1>10, <1>11, <1>13, <1>14 DEF IInv

-----------------------------------------------------------------------------
(***************************************************************************)
(* Connections that take turns: what the token promises                    *)
(***************************************************************************)

\* Where a SELECT has validated its cache and reads through it.
Looking == {"validated", "reading"}

\* A method that leaves the cache, its token and the page bound alone
LEMMA FreshKept ==
  ASSUME NEW k, NEW r, NEW l, NEW m, NEW d, Fresh(k, m, d), l \notin Looking,
         r.token = k.token, r.diskPages = k.diskPages, r.cache = k.cache,
         r.held < Reserved => k.held < Reserved
  PROVE  Fresh(r, l, d)
BY DEF Fresh, CacheOK, Looking

\* ... or drops the token with the cache.
LEMMA FreshDropped ==
  ASSUME FileOK, NEW r, NEW l, r.token = None, l \notin Looking
  PROVE  Fresh(r, l, disk)
<1>1. disk.cc # None
  BY NoneIsNoNumber, PageBounds DEF FileOK, Disk, Serial
<1> QED
  BY <1>1 DEF Fresh, Looking

\* Releasing the lock at the end of a statement keeps the promise of the token.
LEMMA FreshReleased ==
  ASSUME FileOK, NEW k \in Pager, NEW l, NEW m, Fresh(k, m, disk), l \notin Looking
  PROVE  Fresh(Released(k), l, disk)
<1>1. CASE k.held = Unlocked
  <2>1. Released(k) = k
    BY <1>1 DEF Released
  <2> QED
    BY <2>1, FreshKept
<1>2. CASE k.held # Unlocked
  <2>1. Released(k).token = None
    BY <1>2 DEF Released, CacheDropped, Pager
  <2> QED
    BY <2>1, FreshDropped
<1> QED
  BY <1>1, <1>2

\* Revalidation makes the token true of the file (revalidate_read_cache).
LEMMA FreshRevalidated ==
  ASSUME FileOK, NEW k \in Pager, NEW l, NEW m, Fresh(k, m, disk)
  PROVE  Fresh(Revalidated(k), l, disk)
<1> DEFINE r == Revalidated(k)
<1>1. CASE k.held >= Reserved \/ k.token = disk.cc
  <2>1. r = k
    BY <1>1 DEF Revalidated
  <2> QED
    BY <1>1, <2>1 DEF Fresh, CacheOK
<1>2. CASE ~(k.held >= Reserved \/ k.token = disk.cc)
  <2>1. r = [k EXCEPT !.cache = Clean, !.token = disk.cc,
                      !.diskPages = SizeOf(disk), !.pageCount = SizeOf(disk)]
    BY <1>2 DEF Revalidated
  <2>2. r.token = disk.cc /\ r.diskPages = SizeOf(disk) /\ r.cache = Clean
    BY <2>1 DEF Pager
  <2>3. disk.cc <= disk.cc
    BY PageBounds DEF FileOK, Disk, Serial
  <2>4. CacheOK(r, disk)
    BY <2>2 DEF CacheOK, Clean
  <2> QED
    BY <2>2, <2>3, <2>4 DEF Fresh
<1> QED
  BY <1>1, <1>2

\* Reading a page caches the page of the file.
LEMMA FreshRead ==
  ASSUME FileOK, NEW k \in Pager, NEW l, Fresh(k, l, disk), NEW p \in Page
  PROVE  Fresh(PageRead(k, p), l, disk)
<1> DEFINE r == PageRead(k, p)
<1>1. CASE r = k
  BY <1>1
<1>2. CASE r # k
  <2>1. k.overlay[p] = None /\ Cacheable(k) /\ r = [k EXCEPT !.cache[p] = Content(k, p)]
    BY <1>2 DEF PageRead
  <2>2. /\ r.held = k.held /\ r.token = k.token /\ r.diskPages = k.diskPages
        /\ r.cache = [k.cache EXCEPT ![p] = Content(k, p)]
    BY <2>1 DEF Pager
  <2>3. Content(k, p) = IF k.cache[p] # None THEN k.cache[p] ELSE disk.page[p]
    BY <2>1 DEF Content
  <2>4. \A x \in Page : r.cache[x] = IF x = p THEN Content(k, p) ELSE k.cache[x]
    BY <2>2 DEF Pager
  <2>5. CacheOK(k, disk) => CacheOK(r, disk)
    BY <2>3, <2>4 DEF CacheOK
  <2> QED
    BY <2>2, <2>5 DEF Fresh
<1> QED
  BY <1>1, <1>2

\* A step of the connection whose turn it is
LEMMA TurnStep ==
  ASSUME Types, TurnInv, ~threaded, NEW c \in Conn, Runs(c), NEW k, NEW l, l # "flushing",
         disk' = disk, pager' = [pager EXCEPT ![c] = k], pc' = [pc EXCEPT ![c] = l],
         Fresh(k, l, disk)
  PROVE  TurnInv'
<1>1. /\ \A d \in Conn : pager'[d] = IF d = c THEN k ELSE pager[d]
      /\ \A d \in Conn : pc'[d] = IF d = c THEN l ELSE pc[d]
  BY DEF Types
<1>2. \A d \in Conn : d # c => pc'[d] = "idle"
  BY <1>1 DEF Runs
<1>3. \A d \in Conn : Fresh(pager'[d], pc'[d], disk')
  BY <1>1 DEF TurnInv
<1>4. \A d \in Conn : pc'[d] # "flushing"
  BY <1>1, <1>2
<1> QED
  BY <1>2, <1>3, <1>4 DEF TurnInv

\* The steps of a SELECT keep the promise of every token.
LEMMA QueryTurn ==
  ASSUME IInv, TurnInv, ~threaded, NEW c \in Conn, Query(c)
  PROVE  TurnInv'
<1> DEFINE k == pager[c]
<1>0. /\ FileOK /\ k \in Pager /\ Fresh(k, pc[c], disk) /\ Types
      /\ k.held \in {Unlocked, Shared, Reserved, Exclusive}
  BY InvFacts DEF TurnInv, IInv
<1> DEFINE r == [k EXCEPT !.held = IF @ < Shared THEN Shared ELSE @]
<1>1. /\ r.token = k.token /\ r.diskPages = k.diskPages /\ r.cache = k.cache
      /\ (r.held < Reserved <=> k.held < Reserved)
  BY <1>0 DEF Pager
<1>2. CASE LockForSelect(c)
  <2>1. Fresh(r, "locked", disk)
    BY <1>0, <1>1, FreshKept, Zenon DEF Looking
  <2> QED
    BY <1>0, <1>2, <2>1, TurnStep, Zenon DEF LockForSelect, At, Set, Goto
<1>3. CASE ValidateForSelect(c) \/ ValidateInTransaction(c)
  <2>1. PICK l \in {"reading", "validated"} : Goto(c, l)
    BY <1>3 DEF ValidateForSelect, ValidateInTransaction
  <2>2. Fresh(Revalidated(k), l, disk)
    BY <1>0, FreshRevalidated
  <2>3. Runs(c) /\ disk' = disk /\ Set(c, Revalidated(k))
    BY <1>3 DEF ValidateForSelect, ValidateInTransaction, At
  <2> QED
    BY <1>0, <2>1, <2>2, <2>3, TurnStep, Zenon DEF Set, Goto
<1>4. CASE LockInTransaction(c)
  <2>1. pc[c] = "validated" /\ Runs(c) /\ disk' = disk
    BY <1>4 DEF LockInTransaction, At
  <2>2. CASE Set(c, r) /\ Goto(c, "reading")
    <3>1. Fresh(r, "reading", disk)
      BY <1>0, <1>1, <2>1 DEF Fresh, CacheOK
    <3> QED
      BY <1>0, <2>1, <2>2, <3>1, TurnStep, Zenon DEF Set, Goto
  <2>3. CASE pager' = pager /\ Goto(c, "idle")
    <3>1. Fresh(k, "idle", disk) /\ pager' = [pager EXCEPT ![c] = k]
      BY <1>0, <2>3, FreshKept DEF Looking, Types
    <3> QED
      BY <1>0, <2>1, <2>3, <3>1, TurnStep, Zenon DEF Goto
  <2> QED
    BY <1>4, <2>2, <2>3 DEF LockInTransaction
<1>5. CASE EndSelect(c)
  <2>1. Runs(c) /\ disk' = disk /\ Goto(c, "idle")
    BY <1>5 DEF EndSelect, At
  <2>2. CASE Set(c, [k EXCEPT !.held = Unlocked]) /\ k.held = Shared
    <3> DEFINE u == [k EXCEPT !.held = Unlocked]
    <3>1. Fresh(u, "idle", disk)
      <4>1. u.token = k.token /\ u.diskPages = k.diskPages /\ u.cache = k.cache
        BY <1>0 DEF Pager
      <4>2. k.held < Reserved
        BY <2>2
      <4> HIDE DEF u, k
      <4> QED
        BY <1>0, <4>1, <4>2, FreshKept DEF Looking
    <3> QED
      BY <1>0, <2>1, <2>2, <3>1, TurnStep, Zenon DEF Set, Goto
  <2>3. CASE pager' = pager
    <3>1. Fresh(k, "idle", disk) /\ pager' = [pager EXCEPT ![c] = k]
      BY <1>0, <2>3, FreshKept DEF Looking, Types
    <3> QED
      BY <1>0, <2>1, <2>3, <3>1, TurnStep, Zenon DEF Goto
  <2> QED
    BY <1>5, <2>2, <2>3 DEF EndSelect
<1>6. ASSUME NEW p \in Page, ReadPage(c, p)
      PROVE  TurnInv'
  <2>1. Fresh(PageRead(k, p), pc[c], disk)
    BY <1>0, FreshRead
  <2>2. pc' = [pc EXCEPT ![c] = pc[c]] /\ pc[c] # "flushing"
    BY <1>0, <1>6 DEF ReadPage, Types
  <2> QED
    BY <1>0, <1>6, <2>1, <2>2, TurnStep, Zenon DEF ReadPage, Set
<1> QED
  BY <1>2, <1>3, <1>4, <1>5, <1>6 DEF Query

\* The steps of a write keep it.
LEMMA WriteTurn ==
  ASSUME IInv, TurnInv, ~Pragmas, ~Vacuums, ~threaded, NEW c \in Conn, Write(c)
  PROVE  TurnInv'
<1> DEFINE k == pager[c]
<1>0. /\ FileOK /\ k \in Pager /\ Fresh(k, pc[c], disk) /\ Types
      /\ k.held \in {Unlocked, Shared, Reserved, Exclusive}
      /\ Place(k, pc[c], disk) /\ (pc[c] # "flushing" => Working(k, disk))
  BY InvFacts DEF TurnInv, IInv
\* The pager stays as it is.
<1>1. ASSUME NEW l, l \notin Looking \cup {"flushing"}, Goto(c, l), Runs(c), disk' = disk, pager' = pager
      PROVE  TurnInv'
  <2>1. Fresh(k, l, disk) /\ pager' = [pager EXCEPT ![c] = k]
    BY <1>0, <1>1, FreshKept DEF Types
  <2> QED
    BY <1>0, <1>1, <2>1, TurnStep, Zenon DEF Goto
<1>2. CASE StartWrite(c)
  <2>1. Fresh(Revalidated(k), "intent", disk)
    BY <1>0, FreshRevalidated
  <2> QED
    BY <1>0, <1>2, <2>1, TurnStep, Zenon DEF StartWrite, At, Set, Goto
<1>3. CASE IntentShared(c)
  <2>1. Runs(c) /\ disk' = disk
    BY <1>3 DEF IntentShared, At
  <2>2. CASE k.held = Unlocked /\ Set(c, [k EXCEPT !.held = Shared]) /\ Goto(c, "reserve")
    <3> DEFINE u == [k EXCEPT !.held = Shared]
    <3>1. Fresh(u, "reserve", disk)
      <4>1. u.token = k.token /\ u.diskPages = k.diskPages /\ u.cache = k.cache
        BY <1>0 DEF Pager
      <4>2. k.held < Reserved
        BY <2>2
      <4> HIDE DEF u, k
      <4> QED
        BY <1>0, <4>1, <4>2, FreshKept DEF Looking
    <3> QED
      BY <1>0, <2>1, <2>2, <3>1, TurnStep, Zenon DEF Set, Goto
  <2>3. CASE pager' = pager /\ \E l \in {"writing", "upgrade", "idle"} : Goto(c, l)
    BY <1>1, <2>1, <2>3 DEF Looking
  <2> QED
    BY <1>3, <2>2, <2>3 DEF IntentShared
<1>4. CASE IntentReserved(c)
  <2>1. Runs(c) /\ disk' = disk
    BY <1>4 DEF IntentReserved
  <2>2. CASE CanLock(c, Reserved)
    <3> DEFINE q == [CacheDropped(k) EXCEPT !.held = Reserved]
               r == Refreshed(q)
    <3>1. q.token = None /\ DOMAIN q = DOMAIN k
      BY <1>0 DEF CacheDropped, Pager
    <3>2. r.token = q.token
      <4>1. "token" \in DOMAIN q
        BY <1>0, <3>1 DEF Pager
      <4> HIDE DEF q
      <4> QED
        BY <4>1 DEF Refreshed, Adopted
    <3> HIDE DEF q
    <3>3. Fresh(r, "writing", disk)
      BY <1>0, <3>1, <3>2, FreshDropped DEF Looking
    <3> HIDE DEF r
    <3>4. Set(c, r) /\ Goto(c, "writing")
      BY <1>4, <2>2 DEF IntentReserved, q, r
    <3> QED
      BY <1>0, <2>1, <3>3, <3>4, TurnStep, Zenon DEF Set, Goto
  <2>3. CASE Set(c, Released(k)) /\ Goto(c, "idle")
    <3>1. Fresh(Released(k), "idle", disk)
      BY <1>0, FreshReleased DEF Looking
    <3> QED
      BY <1>0, <2>1, <2>3, <3>1, TurnStep, Zenon DEF Set, Goto
  <2>4. CASE pager' = pager /\ Goto(c, "idle")
    BY <1>1, <2>1, <2>4 DEF Looking
  <2> QED
    BY <1>4, <2>2, <2>3, <2>4 DEF IntentReserved
<1>5. CASE AllocatePage(c)
  <2> DEFINE r == [k EXCEPT !.pageCount = k.pageCount + 1, !.overlay[k.pageCount + 1] = New]
  <2>1. r.token = k.token /\ r.diskPages = k.diskPages /\ r.cache = k.cache /\ r.held = k.held
    BY <1>0 DEF Pager
  <2>2. /\ pc[c] = "writing" /\ Runs(c) /\ disk' = disk /\ Set(c, r)
        /\ pc' = [pc EXCEPT ![c] = "writing"]
    BY <1>0, <1>5 DEF AllocatePage, At, Types
  <2> HIDE DEF r
  <2>3. Fresh(r, "writing", disk)
    BY <1>0, <2>1, FreshKept DEF Looking
  <2> QED
    BY <1>0, <2>2, <2>3, TurnStep, Zenon DEF Set
<1>6. CASE AbortWrite(c)
  <2> DEFINE q == Discarded(k)
             r == Released(q)
  <2>1. pc[c] = "writing" /\ Runs(c) /\ disk' = disk /\ Set(c, r) /\ Goto(c, "idle")
    BY <1>6 DEF AbortWrite, At
  <2>2. q \in Pager
    BY <1>0, <2>1, DiscardedWorks
  <2>3. q.token = k.token /\ q.diskPages = k.diskPages /\ q.cache = k.cache /\ q.held = k.held
    BY <1>0 DEF Discarded, Pager
  <2> HIDE DEF q
  <2>4. Fresh(q, "idle", disk)
    BY <1>0, <2>3, FreshKept DEF Looking
  <2>5. Fresh(r, "idle", disk)
    BY <1>0, <2>2, <2>4, FreshReleased DEF Looking
  <2> QED
    BY <1>0, <2>1, <2>5, TurnStep, Zenon DEF Set, Goto
<1>7. CASE EndWrite(c)
  <2>1. Runs(c) /\ disk' = disk /\ pager' = pager /\ \E l \in {"idle", "commit"} : Goto(c, l)
    BY <1>7 DEF EndWrite, At
  <2> QED
    BY <1>1, <2>1 DEF Looking
<1>8. ASSUME NEW p \in Page, WritePage(c, p)
      PROVE  TurnInv'
  <2> DEFINE q == PageRead(k, p)
             r == [q EXCEPT !.overlay[p] = Content(k, p)]
  <2>1. /\ pc[c] = "writing" /\ Runs(c) /\ disk' = disk /\ Set(c, r)
        /\ pc' = [pc EXCEPT ![c] = "writing"]
    BY <1>0, <1>8 DEF WritePage, At, Types
  <2>2. q \in Pager /\ Fresh(q, "writing", disk)
    BY <1>0, <2>1, FreshRead, PageReadWorks
  <2> HIDE DEF q
  <2>3. r.token = q.token /\ r.diskPages = q.diskPages /\ r.cache = q.cache /\ r.held = q.held
    BY <2>2 DEF Pager
  <2> HIDE DEF r
  <2>4. Fresh(r, "writing", disk)
    BY <2>2, <2>3, FreshKept DEF Looking
  <2> QED
    BY <1>0, <2>1, <2>4, TurnStep, Zenon DEF Set
<1> QED
  BY <1>2, <1>3, <1>4, <1>5, <1>6, <1>7, <1>8, Zenon DEF Write, PragmaHeader, Vacuum

\* Transaction control keeps it, flushing apart.
LEMMA TransactionTurn ==
  ASSUME IInv, TurnInv, ~threaded, NEW c \in Conn, Transaction(c), ~FlushHeader(c), ~FlushPages(c)
  PROVE  TurnInv'
<1> DEFINE k == pager[c]
           v == Revalidated(k)
<1>0. /\ FileOK /\ k \in Pager /\ Fresh(k, pc[c], disk) /\ Types /\ Runs(c)
      /\ Place(k, pc[c], disk) /\ (pc[c] # "flushing" => Working(k, disk))
  BY InvFacts, Zenon DEF TurnInv, IInv, Transaction, Begin, OpenSavepoint, RollbackTo, ReleaseSavepoint,
                  Rollback, StartCommit, CommitNothing, CommitLock, At
<1>1. pc[c] = "idle" => v \in Pager /\ Working(v, disk)
  BY <1>0, RevalidatedWorks
<1>2. Fresh(v, "idle", disk) /\ Fresh(v, "commit", disk)
  BY <1>0, FreshRevalidated
<1>3. pc' = pc => pc' = [pc EXCEPT ![c] = pc[c]]
  BY <1>0 DEF Types
<1> HIDE DEF v
\* Between statements, with the cache as the revalidation left it
<1>4. ASSUME NEW r, pc[c] = "idle", pc' = pc, disk' = disk, Set(c, r),
             r.token = v.token, r.diskPages = v.diskPages, r.cache = v.cache, r.held = v.held
      PROVE  TurnInv'
  <2>1. Fresh(r, "idle", disk)
    BY <1>2, <1>4, FreshKept DEF Looking
  <2> QED
    BY <1>0, <1>3, <1>4, <2>1, TurnStep, Zenon DEF Set
<1>5. CASE Begin(c)
  <2>1. pc[c] = "idle" /\ Set(c, v) /\ UNCHANGED <<disk, pc>>
    BY <1>5 DEF Begin, At, v
  <2> QED
    BY <1>4, <2>1
<1>6. CASE OpenSavepoint(c)
  <2> DEFINE e == Append(v.saves, [overlay |-> v.overlay, header |-> v.header,
                                   pageCount |-> v.pageCount])
             r == [v EXCEPT !.saves = e]
  <2>1. pc[c] = "idle" /\ Set(c, r) /\ UNCHANGED <<disk, pc>>
    BY <1>6 DEF OpenSavepoint, At, v
  <2> HIDE DEF e
  <2>2. r.token = v.token /\ r.diskPages = v.diskPages /\ r.cache = v.cache /\ r.held = v.held
    BY <1>1, <2>1 DEF Pager
  <2> QED
    BY <1>4, <2>1, <2>2, Zenon
<1>7. CASE RollbackTo(c)
  <2>1. pc[c] = "idle" /\ UNCHANGED <<disk, pc>>
    BY <1>7 DEF RollbackTo, At
  <2>2. PICK i \in 1 .. Len(k.saves) :
          Set(c, [v EXCEPT !.overlay = v.saves[i].overlay, !.header = v.saves[i].header,
                           !.pageCount = v.saves[i].pageCount, !.saves = SubSeq(@, 1, i)])
    BY <1>7, Zenon DEF RollbackTo, v
  <2> DEFINE e == SubSeq(v.saves, 1, i)
             r == [v EXCEPT !.overlay = v.saves[i].overlay, !.header = v.saves[i].header,
                            !.pageCount = v.saves[i].pageCount, !.saves = e]
  <2>3. Set(c, r)
    BY <2>2
  <2> HIDE DEF e
  <2>4. r.token = v.token /\ r.diskPages = v.diskPages /\ r.cache = v.cache /\ r.held = v.held
    BY <1>1, <2>1 DEF Pager
  <2> QED
    BY <1>4, <2>1, <2>3, <2>4, Zenon
<1>8. CASE ReleaseSavepoint(c)
  <2>1. pc[c] = "idle" /\ UNCHANGED <<disk, pc>>
    BY <1>8 DEF ReleaseSavepoint, At
  <2>2. PICK i \in 1 .. Len(k.saves) : Set(c, [v EXCEPT !.saves = SubSeq(@, 1, i - 1)])
    BY <1>8 DEF ReleaseSavepoint, v
  <2> DEFINE e == SubSeq(v.saves, 1, i - 1)
             r == [v EXCEPT !.saves = e]
  <2>3. Set(c, r)
    BY <2>2
  <2> HIDE DEF e
  <2>4. r.token = v.token /\ r.diskPages = v.diskPages /\ r.cache = v.cache /\ r.held = v.held
    BY <1>1, <2>1 DEF Pager
  <2> QED
    BY <1>4, <2>1, <2>3, <2>4, Zenon
<1>9. CASE Rollback(c)
  <2> DEFINE q == Discarded(v)
             r == Released(q)
  <2>1. pc[c] = "idle" /\ UNCHANGED <<disk, pc>> /\ Set(c, r)
    BY <1>9 DEF Rollback, At, v
  <2>2. q \in Pager
    BY <1>0, <1>1, <2>1, DiscardedWorks
  <2>3. q.token = v.token /\ q.diskPages = v.diskPages /\ q.cache = v.cache /\ q.held = v.held
    BY <1>1, <2>1 DEF Discarded, Pager
  <2> HIDE DEF q
  <2>4. Fresh(q, "idle", disk)
    BY <1>2, <2>3, FreshKept DEF Looking
  <2>5. Fresh(r, "idle", disk)
    BY <1>0, <2>2, <2>4, FreshReleased DEF Looking
  <2> QED
    BY <1>0, <1>3, <2>1, <2>5, TurnStep, Zenon DEF Set
<1>10. CASE StartCommit(c)
  BY <1>0, <1>2, <1>10, TurnStep, Zenon DEF StartCommit, v, Set, Goto
<1>11. CASE CommitNothing(c)
  <2>1. Fresh(Released(k), "idle", disk)
    BY <1>0, FreshReleased DEF Looking
  <2> QED
    BY <1>0, <1>11, <2>1, TurnStep, Zenon DEF CommitNothing, Set, Goto
<1>12. CASE CommitLock(c)
  <2>1. pc[c] = "commit" /\ disk' = disk /\ ~(k.held < Reserved) /\ k.held >= Reserved
    <3>1. pc[c] = "commit" /\ disk' = disk /\ k.overlay # Clean
      BY <1>12 DEF CommitLock, At
    <3>2. Working(k, disk) /\ k.held \in {Unlocked, Shared, Reserved, Exclusive}
      BY <1>0, <3>1, InvFacts
    <3> QED
      BY <3>1, <3>2 DEF Working
  <2>2. CASE Set(c, [k EXCEPT !.held = Exclusive]) /\ Goto(c, "flush")
    <3> DEFINE r == [k EXCEPT !.held = Exclusive]
    <3>1. /\ r.token = k.token /\ r.diskPages = k.diskPages /\ r.cache = k.cache
          /\ r.held = Exclusive
      BY <1>0 DEF Pager
    <3> HIDE DEF r
    <3>2. Fresh(r, "flush", disk)
      BY <1>0, <3>1, FreshKept DEF Looking
    <3> QED
      BY <1>0, <2>1, <2>2, <3>2, TurnStep, Zenon DEF Set, Goto, r
  <2>3. CASE pager' = pager /\ Goto(c, "idle")
    <3>1. Fresh(k, "idle", disk) /\ pager' = [pager EXCEPT ![c] = k]
      BY <1>0, <2>3, FreshKept DEF Looking, Types
    <3> QED
      BY <1>0, <2>1, <2>3, <3>1, TurnStep, Zenon DEF Goto
  <2> QED
    BY <1>12, <2>1, <2>2, <2>3 DEF CommitLock
<1> QED
  BY <1>5, <1>6, <1>7, <1>8, <1>9, <1>10, <1>11, <1>12 DEF Transaction

\* The flush moves the counter past every token, and drops its own.
LEMMA FlushTurn ==
  ASSUME IInv, TurnInv, ~threaded, NEW c \in Conn, FlushHeader(c) \/ FlushPages(c)
  PROVE  TurnInv'
<1> DEFINE k == pager[c]
<1>0. /\ FileOK /\ k \in Pager /\ Types /\ Runs(c) /\ Place(k, pc[c], disk)
      /\ (pc[c] # "flushing" => Working(k, disk)) /\ disk.cc \in Serial
      /\ \A d \in Conn : Fresh(pager[d], pc[d], disk)
      /\ \A d \in Conn : pager[d].token \in Serial \cup {None}
      /\ \A d \in Conn : d # c => pc[d] = "idle"
  BY InvFacts DEF TurnInv, IInv, FlushHeader, FlushPages, At, Types, Disk, Pager, Runs
<1>1. disk.cc \in Int /\ None # disk.cc
  BY <1>0, NoneIsNoNumber DEF Serial
<1>2. CASE FlushHeader(c)
  <2> DEFINE h == [cc |-> k.header.cc + 1, base |-> disk.page[1] + 1]
             x == Content(k, 1)
             r == [k EXCEPT !.header = h, !.overlay[1] = x]
  <2>1. pc[c] = "flush" /\ k.held = Exclusive /\ k.header.cc = disk.cc
    BY <1>0, <1>2 DEF FlushHeader, At, Place, Working
  <2>2. /\ disk' = [disk EXCEPT !.cc = h.cc, !.page[1] = h.base]
        /\ pager' = [pager EXCEPT ![c] = r] /\ pc' = [pc EXCEPT ![c] = "flushing"]
    BY <1>2 DEF FlushHeader, Set, Goto
  <2>3. disk'.cc = disk.cc + 1
    BY <1>0, <2>1, <2>2 DEF FileOK, Disk
  <2> HIDE DEF h, x
  <2>4. r.token = k.token /\ r.held = Exclusive
    BY <1>0, <2>1 DEF Pager
  <2> HIDE DEF r
  <2>5. /\ \A d \in Conn : pager'[d] = IF d = c THEN r ELSE pager[d]
        /\ \A d \in Conn : pc'[d] = IF d = c THEN "flushing" ELSE pc[d]
    BY <1>0, <2>2 DEF Types
  <2>6. \A d \in Conn : /\ pager[d].token # disk'.cc
                        /\ pager[d].token # None => pager[d].token <= disk'.cc
    <3>1. SUFFICES ASSUME NEW d \in Conn
                   PROVE  /\ pager[d].token # disk'.cc
                          /\ pager[d].token # None => pager[d].token <= disk'.cc
      OBVIOUS
    <3>2. CASE pager[d].token = None
      <4>1. disk.cc + 1 \in Int
        BY <1>1
      <4> QED
        BY <2>3, <3>2, <4>1, NoneIsNoNumber
    <3>3. CASE pager[d].token # None
      <4>1. pager[d].token \in Int /\ pager[d].token <= disk.cc
        BY <1>0, <3>3 DEF Fresh, Serial
      <4> QED
        BY <1>1, <2>3, <4>1
    <3> QED
      BY <3>2, <3>3
  <2>7. \A d \in Conn : Fresh(pager'[d], pc'[d], disk')
    <3>1. ASSUME NEW d \in Conn, d # c PROVE Fresh(pager'[d], pc'[d], disk')
      BY <1>0, <2>5, <2>6, <3>1 DEF Fresh
    <3>2. Fresh(r, "flushing", disk')
      BY <2>4, <2>6 DEF Fresh
    <3> QED
      BY <2>5, <3>1, <3>2
  <2>8. \A d \in Conn : d # c => pc'[d] = "idle"
    BY <1>0, <2>5
  <2>9. \A d \in Conn : d # c => pager'[d].token # disk'.cc
    BY <2>5, <2>6
  <2> QED
    BY <2>5, <2>7, <2>8, <2>9 DEF TurnInv
<1>3. CASE FlushPages(c)
  <2> DEFINE r == [Released(k) EXCEPT !.diskPages = k.pageCount, !.overlay = Clean,
                                      !.committed = k.header, !.saves = <<>>]
  <2>1. pc[c] = "flushing" /\ k.held = Exclusive
    BY <1>0, <1>3 DEF FlushPages, At, Place
  <2>2. /\ pager' = [pager EXCEPT ![c] = r] /\ pc' = [pc EXCEPT ![c] = "idle"]
        /\ disk'.cc = disk.cc
    BY <1>0, <1>3 DEF FlushPages, Set, Goto, FileOK, Disk
  <2>3. r.token = None
    <3>1. Released(k) = [k EXCEPT !.cache = Clean, !.token = None, !.held = Unlocked]
      BY <1>0, <2>1 DEF Released, CacheDropped, Pager
    <3>2. Released(k).token = None /\ "token" \in DOMAIN Released(k)
      BY <1>0, <3>1 DEF Pager
    <3> QED
      BY <3>2
  <2> HIDE DEF r
  <2>4. /\ \A d \in Conn : pager'[d] = IF d = c THEN r ELSE pager[d]
        /\ \A d \in Conn : pc'[d] = IF d = c THEN "idle" ELSE pc[d]
    BY <1>0, <2>2 DEF Types
  <2>5. \A d \in Conn : d # c => pager[d].token # disk.cc
    BY <2>1 DEF TurnInv
  <2>6. \A d \in Conn : pc'[d] = "idle"
    BY <1>0, <2>4
  <2>7. \A d \in Conn : Fresh(pager'[d], pc'[d], disk')
    <3>1. ASSUME NEW d \in Conn, d # c PROVE Fresh(pager'[d], pc'[d], disk')
      BY <1>0, <2>2, <2>4, <2>5, <2>6, <3>1 DEF Fresh
    <3>2. Fresh(r, "idle", disk')
      BY <1>1, <2>2, <2>3 DEF Fresh
    <3> QED
      BY <2>4, <2>6, <3>1, <3>2
  <2> QED
    BY <2>6, <2>7 DEF TurnInv
<1> QED
  BY <1>2, <1>3

-----------------------------------------------------------------------------
(***************************************************************************)
(* Theorems.  ~Pragmas and ~Vacuums: no connection runs PRAGMA             *)
(* user_version = n, which stages page 1 without a write lock, or VACUUM,  *)
(* which replaces the file in place.                                       *)
(***************************************************************************)

\* Every step keeps the invariant.
LEMMA StepInv ==
  ASSUME ~Pragmas, ~Vacuums, Inv, [Next]_vars
  PROVE  Inv'
<1>1. CASE UNCHANGED vars
  <2>1. Held' = Held /\ DiskOK' = DiskOK /\ Types' = Types
    BY <1>1 DEF vars, Held, DiskOK, Types
  <2>2. IInv'
    BY <1>1, <2>1 DEF vars, Inv, IInv
  <2>3. ~threaded' => TurnInv'
    BY <1>1 DEF vars, Inv, TurnInv
  <2> QED
    BY <2>2, <2>3 DEF Inv
<1>2. ASSUME NEW c \in Conn, threaded' = threaded, Query(c) \/ Write(c) \/ Transaction(c)
      PROVE  Inv'
  <2>1. IInv'
    BY <1>2, QueryKeeps, WriteKeeps, TransactionKeeps, FlushHeaderKeeps, FlushPagesKeeps DEF Inv
  <2>2. ~threaded => TurnInv'
    BY <1>2, QueryTurn, WriteTurn, TransactionTurn, FlushTurn DEF Inv
  <2> QED
    BY <1>2, <2>1, <2>2 DEF Inv
<1> QED
  BY <1>1, <1>2 DEF Next

\* The inductive invariant of the pagers and the lock table.
THEOREM Coordinated ==
  ASSUME ~Pragmas, ~Vacuums
  PROVE  Spec => []Inv
<1>1. Inv /\ [Next]_vars => Inv'
  BY StepInv
<1> QED
  BY <1>1, InitInv, PTL DEF Spec

\* Every variable keeps its type.
THEOREM TypeCorrect ==
  ASSUME ~Pragmas, ~Vacuums
  PROVE  Spec => []TypeOK
<1>1. Inv => TypeOK
  <2> SUFFICES ASSUME Inv PROVE TypeOK
    OBVIOUS
  <2>1. Types
    BY DEF Inv, IInv
  <2>2. \A c \in Conn : pager[c] \in Pager
    BY <2>1 DEF Types
  <2> QED
    BY <2>1, <2>2 DEF TypeOK, Types, Pager, Disk, Label
<1> QED
  BY <1>1, Coordinated, PTL

\* However many connections race for the file, none commits over another's change:
\* the pages a writer has staged were derived from the pages it will overwrite
\* (begin_write, refresh_foreign_state).
THEOREM NoUpdateIsLost ==
  ASSUME ~Pragmas, ~Vacuums
  PROVE  Spec => []NoLostUpdate
<1>1. Inv => NoLostUpdate
  <2> SUFFICES ASSUME Inv, NEW c \in DOMAIN pager, Writer(c), NEW p \in Page
               PROVE  pager[c].overlay[p] \in {None, IF disk.page[p] = None THEN New
                                                     ELSE disk.page[p]}
    BY DEF NoLostUpdate
  <2>1. c \in Conn /\ IInv
    BY DEF Inv, IInv, Types
  <2>2. Working(pager[c], disk) /\ pager[c].held >= Reserved
    BY <2>1, InvFacts DEF Writer
  <2> QED
    BY <2>2 DEF Working, Current, Fits, Derived
<1> QED
  BY <1>1, Coordinated, PTL

\* Every statement works on the file as it is: a writer's header, size, savepoints
\* and cache are the file's from its RESERVED lock on, whatever the other threads
\* do, and so are a SELECT's cache and page bound while connections take turns
\* (acquire_write_intent, adopt_committed_header, revalidate_read_cache).
THEOREM ReadsAreCommitted ==
  ASSUME ~Pragmas, ~Vacuums
  PROVE  Spec => []StatementsReadCommitted
<1>1. ASSUME Inv PROVE HeaderCurrent
  <2> SUFFICES ASSUME NEW c \in DOMAIN pager, Writer(c)
               PROVE  /\ pager[c].header = DiskHeader /\ pager[c].committed = DiskHeader
                      /\ pager[c].diskPages = SizeOf(disk)
                      /\ \A i \in DOMAIN pager[c].saves :
                           /\ pager[c].saves[i].header = DiskHeader
                           /\ pager[c].saves[i].overlay = Clean
                                => pager[c].saves[i].pageCount = SizeOf(disk)
    BY DEF HeaderCurrent
  <2> DEFINE k == pager[c]
  <2>1. c \in Conn /\ IInv
    BY <1>1 DEF Inv, IInv, Types
  <2>2. Working(k, disk) /\ k.held >= Reserved /\ k \in Pager /\ FileOK
    BY <2>1, InvFacts DEF Writer
  <2>3. k.header.cc = disk.cc /\ k.header.base = disk.cc /\ k.header \in Header
    BY <2>2 DEF Working, Stamped, Pager
  <2>4. k.header = DiskHeader
    BY <2>2, <2>3 DEF DiskHeader, Header, FileOK, DiskOK
  <2>5. k.committed = k.header /\ Current(k, disk)
        /\ \A i \in DOMAIN k.saves : k.saves[i].header = k.header
    BY <2>2 DEF Working, Settled
  <2>6. \A i \in DOMAIN k.saves : k.saves[i].overlay = Clean => k.saves[i].pageCount = SizeOf(disk)
    <3>1. SUFFICES ASSUME NEW i \in DOMAIN k.saves, k.saves[i].overlay = Clean
                   PROVE  k.saves[i].pageCount = SizeOf(disk)
      OBVIOUS
    <3>2. k.saves[i] \in Savepoint
      BY <2>2, <3>1 DEF Pager
    <3>3. Fits(Clean, k.saves[i].pageCount, disk)
      BY <2>5, <3>1 DEF Current
    <3> QED
      BY <2>2, <3>2, <3>3, CleanFits DEF Savepoint
  <2> QED
    BY <2>4, <2>5, <2>6 DEF Current
<1>2. ASSUME Inv PROVE WriterReadsCommitted
  <2> SUFFICES ASSUME NEW c \in DOMAIN pager, pc[c] = "writing" PROVE Coherent(c)
    BY DEF WriterReadsCommitted
  <2>1. c \in Conn /\ IInv
    BY <1>2 DEF Inv, IInv, Types
  <2>2. Working(pager[c], disk) /\ pager[c].held >= Reserved
    BY <2>1, InvFacts DEF Place
  <2> QED
    BY <2>2 DEF Working, Current, CacheOK, Coherent
<1>3. ASSUME Inv, ~threaded PROVE ReadsCommitted
  <2> SUFFICES ASSUME NEW c \in DOMAIN pager, pc[c] \in {"reading", "writing"} PROVE Coherent(c)
    BY DEF ReadsCommitted
  <2>1. c \in Conn /\ IInv /\ TurnInv
    BY <1>3 DEF Inv, IInv, Types
  <2>2. /\ Working(pager[c], disk) /\ Fresh(pager[c], pc[c], disk)
        /\ pager[c].held \in {Unlocked, Shared, Reserved, Exclusive}
    BY <2>1, InvFacts DEF TurnInv
  <2>3. CASE pager[c].held >= Reserved
    BY <2>2, <2>3 DEF Working, Current, CacheOK, Coherent
  <2>4. CASE ~(pager[c].held >= Reserved)
    <3>1. pc[c] = "reading"
      BY <2>1, <2>4, InvFacts DEF Place
    <3>2. pager[c].held < Reserved /\ pager[c].token = disk.cc
      BY <2>2, <2>4, <3>1 DEF Fresh
    <3> QED
      BY <2>2, <3>2 DEF Fresh, CacheOK, Coherent
  <2> QED
    BY <2>3, <2>4
<1>4. Inv => StatementsReadCommitted
  BY <1>1, <1>2, <1>3 DEF StatementsReadCommitted
<1> QED
  BY <1>4, Coordinated, PTL

\* The file stays as it is while anyone holds SHARED, and every commit moves the
\* change counter forward (acquire_exclusive before the flush; commit stamps the
\* counter after the file's own).
THEOREM SnapshotsAreStable ==
  ASSUME ~Pragmas, ~Vacuums
  PROVE  Spec => StableUnderShared
<1> DEFINE Stable == /\ \A c \in DOMAIN pager :
                          pager[c].held = Shared /\ pager'[c].held = Shared => disk' = disk
                     /\ disk'.page[1] # disk.page[1] =>
                          disk'.cc > disk.cc \/ \E c \in DOMAIN pager : Vacuumed(c)
<1>1. ASSUME Inv, [Next]_vars PROVE [Stable]_vars
  <2>1. CASE disk' = disk
    BY <2>1
  <2>2. CASE disk' # disk
    <3>1. PICK c \in Conn : FlushHeader(c) \/ FlushPages(c)
      <4>1. ~UNCHANGED vars
        BY <2>2 DEF vars
      <4>2. PICK c \in Conn : Query(c) \/ Write(c) \/ Transaction(c)
        BY <1>1, <4>1 DEF Next
      <4>3. ~Query(c)
        BY <2>2 DEF Query, LockForSelect, ValidateForSelect, ValidateInTransaction,
                    LockInTransaction, EndSelect, ReadPage
      <4>4. ~Write(c)
        BY <2>2, Zenon DEF Write, StartWrite, IntentShared, IntentReserved, AllocatePage,
                    AbortWrite, EndWrite, PragmaHeader, Vacuum, WritePage
      <4>5. Transaction(c) => FlushHeader(c) \/ FlushPages(c)
        BY <2>2, Zenon DEF Transaction, Begin, OpenSavepoint, RollbackTo, ReleaseSavepoint, Rollback,
                    StartCommit, CommitNothing, CommitLock
      <4> QED
        BY <4>2, <4>3, <4>4, <4>5
    <3>2. pc[c] \in {"flush", "flushing"} /\ IInv /\ DOMAIN pager = Conn
      BY <1>1, <3>1 DEF FlushHeader, FlushPages, At, Inv, IInv, Types
    <3>3. \A d \in Conn : pager[d].held # Shared
      BY <3>2, FlushAlone
    <3>4. FileOK /\ pager[c] \in Pager /\ 1 \in Page
      BY <3>2, InvFacts, PageBounds DEF Page
    <3>5. CASE FlushHeader(c)
      <4>1. pager[c].header.cc = disk.cc /\ disk.cc \in Int
        BY <3>2, <3>4, <3>5, InvFacts DEF FlushHeader, At, Working, Place, FileOK, Disk, Serial
      <4>2. disk'.cc = pager[c].header.cc + 1
        BY <3>4, <3>5 DEF FlushHeader, FileOK, Disk
      <4> QED
        BY <3>2, <3>3, <4>1, <4>2
    <3>6. CASE FlushPages(c)
      <4>1. pager[c].pageCount \in Nat /\ 1 <= pager[c].pageCount
        BY <3>2, <3>4, <3>6, DiskSize
           DEF FlushPages, At, Pager, FileOK, IInv, PagerOK, Flushing, Extends
      <4>2. disk'.page[1] = disk.page[1]
        BY <3>4, <3>6, <4>1 DEF FlushPages, FileOK, Disk
      <4> QED
        BY <3>2, <3>3, <4>2
    <3> QED
      BY <3>1, <3>5, <3>6
  <2> QED
    BY <2>1, <2>2
<1>2. Inv /\ [Next]_vars => [Stable]_vars
  BY <1>1
<1> QED
  BY <1>2, Coordinated, PTL DEF Spec, StableUnderShared

=============================================================================
