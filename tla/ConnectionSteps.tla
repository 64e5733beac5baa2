-------------------------- MODULE ConnectionSteps --------------------------
(***************************************************************************)
(* What the proofs about Connections rest on: the inductive invariant of   *)
(* the file, the lock table and the pagers, one lemma for each lock        *)
(* operation and each pager method, and that reading and writing keep the  *)
(* invariant.  ConnectionsProofs has the transactions and the theorems.    *)
(*                                                                         *)
(* The invariant says of every pager, in every state, that what it has     *)
(* staged, and what each savepoint would bring back, extends and is        *)
(* derived from the file, as long as its cached header is the file's       *)
(* (Working, Current).  A foreign commit moves the change counter past     *)
(* that header, so it asks nothing of the others; RESERVED adopts the      *)
(* file's header again.                                                    *)
(***************************************************************************)
EXTENDS Connections, FiniteSetTheorems, TLAPS

\* Where a connection is in a statement, what a pager holds, and what is in the file.
Label == {"idle", "locked", "validated", "reading", "intent", "reserve",
          "upgrade", "writing", "commit", "flush", "flushing"}

\* The pager of one connection, held at a level the pager asks for.
Pager == [held : LockLevel \ {Pending}, header : Header, committed : Header, overlay : Overlay,
          diskPages : 0 .. MaxPage, pageCount : 0 .. MaxPage,
          cache : [Page -> Serial \cup {None}], token : Serial \cup {None},
          saves : Seq(Savepoint)]

\* The file: its change counter and its pages.
Disk == [cc : Serial, page : [Page -> Serial \cup {None}]]

\* The type of every variable.
Types ==
  /\ disk \in Disk
  /\ locks \in LockStates
  /\ pager \in [Conn -> Pager]
  /\ inTx \in [Conn -> BOOLEAN]
  /\ pc \in [Conn -> Label]
  /\ threaded \in BOOLEAN

\* The connections that hold a lock, by their levels h.
Holders(h) == {c \in Conn : h[c] >= Shared}

\* The lock table s counts exactly the locks the connections hold.
LockOK(s, h) ==
  /\ s.shared = Cardinality(Holders(h))
  /\ s.pending <=> s.exclusive
  /\ s.exclusive <=> \E c \in Conn : h[c] = Exclusive
  /\ s.reserved <=> \E c \in Conn : h[c] >= Reserved
  /\ \A c, d \in Conn : c # d => /\ h[c] >= Reserved => h[d] < Reserved
                                 /\ h[c] = Exclusive => h[d] = Unlocked

\* The level each pager holds.
Held == [c \in Conn |-> pager[c].held]

\* The file d has exactly the pages 1 .. n, and page 1 carries the counter.
HasSize(d, n) == \A p \in Page : d.page[p] # None <=> p <= n

\* The counter is the one on page 1, and the file has no hole.
DiskOK == /\ disk.cc = disk.page[1]
          /\ \E n \in 1 .. MaxPage : HasSize(disk, n)

\* Staged pages ov with page count n extend the file d without a hole, ...
Extends(ov, n, d) ==
  /\ SizeOf(d) <= n
  /\ \A p \in Page : ov[p] # None => p <= n
  /\ \A p \in Page : SizeOf(d) < p /\ p <= n => ov[p] # None

\* ... and are derived from what they will overwrite.
Derived(ov, d) ==
  \A p \in Page : ov[p] \in {None, IF d.page[p] = None THEN New ELSE d.page[p]}

\* Staged pages that may be written over the file.
Fits(ov, n, d) == Extends(ov, n, d) /\ Derived(ov, d)

\* The cached headers are headers some commit wrote, none of them in the future.
Stamped(k, d) ==
  /\ k.header.base = k.header.cc /\ k.committed.base = k.committed.cc
  /\ k.header.cc <= d.cc

\* No header is staged: page 1 is written by the flush alone.
Settled(k) ==
  /\ k.header = k.committed
  /\ \A i \in DOMAIN k.saves : k.saves[i].header = k.header

\* Pages stay staged until a commit or a rollback: what was staged when a savepoint
\* was taken still is when a later one is, and now.
Nested(k) ==
  /\ k.overlay = Clean => \A i \in DOMAIN k.saves : k.saves[i].overlay = Clean
  /\ \A i, j \in DOMAIN k.saves :
       i <= j /\ k.saves[j].overlay = Clean => k.saves[i].overlay = Clean

\* What is staged, and what a savepoint brings back, fits the file.
Current(k, d) ==
  /\ k.diskPages = SizeOf(d)
  /\ Fits(k.overlay, k.pageCount, d)
  /\ \A i \in DOMAIN k.saves : Fits(k.saves[i].overlay, k.saves[i].pageCount, d)

\* Every cached page is the page of the file.
CacheOK(k, d) == \A p \in Page : k.cache[p] \in {None, d.page[p]}

\* The lock level each place in a statement implies.
Place(k, l, d) ==
  /\ l \in {"flush", "flushing"} <=> k.held = Exclusive
  /\ l \in {"reserve", "upgrade"} => k.held = Shared
  /\ l = "writing" => k.held >= Reserved
  /\ l = "flush" => d.page[1] < MaxCommit

\* A pager that is not in the middle of a flush.
Working(k, d) ==
  /\ Stamped(k, d) /\ Settled(k) /\ Nested(k)
  /\ k.held < Reserved => k.overlay = Clean
  /\ k.header.cc = d.cc => Current(k, d)
  /\ k.held >= Reserved => k.header.cc = d.cc /\ CacheOK(k, d)

\* Between the header and the other pages.
Flushing(k, d) ==
  /\ Stamped(k, d)
  /\ k.header.cc = d.cc /\ Extends(k.overlay, k.pageCount, d)

\* A pager k at the place l of a statement, on the file d.
PagerOK(k, l, d) ==
  /\ Place(k, l, d)
  /\ l # "flushing" => Working(k, d)
  /\ l = "flushing" => Flushing(k, d)

\* The inductive invariant of connections on any threads; while one flushes, every
\* other pager knows that its header is old.
IInv ==
  /\ Types /\ LockOK(locks, Held) /\ DiskOK
  /\ \A c \in Conn : PagerOK(pager[c], pc[c], disk)
  /\ \A c, d \in Conn : c # d /\ pc[d] = "flushing" => pager[c].header.cc < disk.cc

\* What the token of the clean-page cache promises.
Fresh(k, l, d) ==
  /\ k.token # None => k.token <= d.cc
  /\ k.held < Reserved /\ k.token = d.cc => k.diskPages = SizeOf(d) /\ CacheOK(k, d)
  /\ l \in {"validated", "reading"} => k.held >= Reserved \/ k.token = d.cc

\* Connections that take turns
TurnInv ==
  /\ \A c, d \in Conn : c # d /\ pc[d] # "idle" => pc[c] = "idle"
  /\ \A c \in Conn : Fresh(pager[c], pc[c], disk)
  /\ \A c, d \in Conn : c # d /\ pc[d] = "flushing" => pager[c].token # disk.cc

\* The inductive invariant of the specification.
Inv == IInv /\ (~threaded => TurnInv)

USE DEF Unlocked, Shared, Reserved, Pending, Exclusive

-----------------------------------------------------------------------------
(***************************************************************************)
(* The size of the file                                                    *)
(***************************************************************************)

\* SizeOf names the size of a file without holes.
LEMMA SizeIs ==
  ASSUME NEW d, NEW n \in 0 .. MaxPage, HasSize(d, n)
  PROVE  SizeOf(d) = n
<1> DEFINE there == {p \in Page : d.page[p] # None}
<1>1. there = 1 .. n
  BY PageBounds DEF HasSize, Page
<1>2. \A m \in 0 .. MaxPage : there = 1 .. m => m = n
  <2>1. SUFFICES ASSUME NEW m \in 0 .. MaxPage, 1 .. n = 1 .. m
                 PROVE  m = n
    BY <1>1
  <2>2. \A i \in Int : i \in 1 .. n <=> i \in 1 .. m
    BY <2>1
  <2>3. m >= 1 => m \in 1 .. n
    BY <2>2, PageBounds
  <2>4. n >= 1 => n \in 1 .. m
    BY <2>2, PageBounds
  <2> QED
    BY <2>3, <2>4, PageBounds
<1> QED
  BY <1>1, <1>2 DEF SizeOf

\* The file of a reachable state has a size, and it is at least one page.
LEMMA DiskSize ==
  ASSUME DiskOK
  PROVE  /\ SizeOf(disk) \in 1 .. MaxPage
         /\ \A p \in Page : disk.page[p] # None <=> p <= SizeOf(disk)
<1>1. PICK n \in 1 .. MaxPage : HasSize(disk, n)
  BY DEF DiskOK
<1>2. SizeOf(disk) = n
  BY <1>1, SizeIs, PageBounds
<1> QED
  BY <1>1, <1>2 DEF HasSize

-----------------------------------------------------------------------------
(***************************************************************************)
(* The lock table                                                          *)
(***************************************************************************)

\* What the connections may hold: the pager never asks for PENDING.
Levels == [Conn -> LockLevel \ {Pending}]

\* The holders of a lock can be counted.
LEMMA HoldersFinite ==
  ASSUME NEW h
  PROVE  IsFiniteSet(Holders(h)) /\ Cardinality(Holders(h)) \in Nat
<1>1. Holders(h) \subseteq Conn
  BY DEF Holders
<1> QED
  BY <1>1, FiniteConn, FS_Subset, FS_CardinalityType

\* EXCLUSIVE is granted only to the one holder of a lock.
LEMMA OnlyHolder ==
  ASSUME NEW s, NEW h \in Levels, LockOK(s, h), NEW c \in Conn, h[c] >= Shared, s.shared <= 1
  PROVE  \A d \in Conn : d # c => h[d] = Unlocked
<1>1. SUFFICES ASSUME NEW d \in Conn, d # c, h[d] # Unlocked
               PROVE  FALSE
  OBVIOUS
<1>2. {c} \cup {d} \subseteq Holders(h)
  BY <1>1 DEF Holders, Levels, LockLevel
<1>3. IsFiniteSet({c}) /\ Cardinality({c}) = 1
  BY FS_Singleton, Zenon
<1>4. IsFiniteSet({c} \cup {d}) /\ Cardinality({c} \cup {d}) = 2
  <2>1. d \notin {c}
    BY <1>1
  <2>2. IsFiniteSet({c} \cup {d}) /\ Cardinality({c} \cup {d}) = Cardinality({c}) + 1
    BY <1>3, <2>1, FS_AddElement, Zenon
  <2> QED
    BY <1>3, <2>2
<1>5. Cardinality(Holders(h)) >= 2 /\ Cardinality(Holders(h)) \in Nat
  BY <1>2, <1>4, HoldersFinite, FS_Subset, FS_CardinalityType
<1> QED
  BY <1>5 DEF LockOK

\* lock(to), granted: SHARED from nothing, RESERVED from SHARED, EXCLUSIVE from RESERVED.
LEMMA LockTaken ==
  ASSUME NEW s \in LockStates, NEW h \in Levels, LockOK(s, h), NEW c \in Conn,
         NEW to, <<h[c], to>> \in {<<Unlocked, Shared>>, <<Shared, Reserved>>, <<Reserved, Exclusive>>},
         CanAcquire(s, h[c], to)
  PROVE  /\ Acquire(s, h[c], to) \in LockStates
         /\ LockOK(Acquire(s, h[c], to), [h EXCEPT ![c] = to])
<1> DEFINE a == Acquire(s, h[c], to)
           g == [h EXCEPT ![c] = to]
<1>1. g \in Levels /\ g[c] = to /\ \A d \in Conn : d # c => g[d] = h[d]
  BY DEF Levels, LockLevel
<1>2. CASE h[c] = Unlocked /\ to = Shared
  <2>1. a = [s EXCEPT !.shared = @ + 1] /\ ~s.pending /\ ~s.exclusive
    BY <1>2 DEF Acquire, CanAcquire
  <2>2. Holders(g) = Holders(h) \cup {c} /\ c \notin Holders(h)
    BY <1>1, <1>2 DEF Holders
  <2>3. Cardinality(Holders(g)) = Cardinality(Holders(h)) + 1
    BY <2>2, HoldersFinite, FS_AddElement, Zenon
  <2>4. /\ a \in LockStates /\ a.shared = s.shared + 1 /\ (a.reserved <=> s.reserved)
        /\ ~a.pending /\ ~a.exclusive
    BY <2>1 DEF LockStates
  <2>5. (\E d \in Conn : g[d] >= Reserved) <=> (\E d \in Conn : h[d] >= Reserved)
    BY <1>1, <1>2
  <2>6. ~\E d \in Conn : h[d] = Exclusive
    BY <2>1 DEF LockOK
  <2> QED
    BY <1>1, <1>2, <2>3, <2>4, <2>5, <2>6 DEF LockOK, Levels, LockLevel
<1>3. CASE h[c] = Shared /\ to = Reserved
  <2>1. a = [s EXCEPT !.reserved = TRUE] /\ ~s.reserved /\ ~s.exclusive
    BY <1>3 DEF Acquire, CanAcquire
  <2>2. Holders(g) = Holders(h)
    BY <1>1, <1>3 DEF Holders
  <2>3. a = [shared |-> s.shared, reserved |-> TRUE, pending |-> s.pending, exclusive |-> s.exclusive]
    BY <2>1, Zenon DEF LockStates
  <2>4. a \in LockStates
    BY <2>3 DEF LockStates
  <2>5. a.reserved
    BY <2>3
  <2>6. \A d \in Conn : h[d] < Reserved
    BY <2>1 DEF LockOK, Levels, LockLevel
  <2> QED
    BY <1>1, <1>3, <2>2, <2>3, <2>4, <2>5, <2>6 DEF LockOK, Levels, LockLevel
<1>4. CASE h[c] = Reserved /\ to = Exclusive
  <2>1. a = [s EXCEPT !.pending = TRUE, !.exclusive = TRUE] /\ s.shared <= 1
    BY <1>4 DEF Acquire, CanAcquire
  <2>2. Holders(g) = Holders(h)
    BY <1>1, <1>4 DEF Holders
  <2>3. a = [shared |-> s.shared, reserved |-> s.reserved, pending |-> TRUE, exclusive |-> TRUE]
    BY <2>1, Zenon DEF LockStates
  <2>4. a \in LockStates
    BY <2>3 DEF LockStates
  <2>5. a.pending /\ a.exclusive
    BY <2>3
  <2>6. \A d \in Conn : d # c => h[d] = Unlocked
    BY <1>4, <2>1, OnlyHolder
  <2>7. s.reserved
    BY <1>4 DEF LockOK
  <2>8. a.reserved
    BY <2>3, <2>7
  <2> QED
    BY <1>1, <1>4, <2>2, <2>3, <2>4, <2>5, <2>6, <2>8 DEF LockOK, Levels, LockLevel
<1> QED
  BY <1>2, <1>3, <1>4

\* release: everything the connection holds.
LEMMA LockDropped ==
  ASSUME NEW s \in LockStates, NEW h \in Levels, LockOK(s, h), NEW c \in Conn
  PROVE  /\ Release(s, h[c], Unlocked) \in LockStates
         /\ LockOK(Release(s, h[c], Unlocked), [h EXCEPT ![c] = Unlocked])
<1> DEFINE r == Release(s, h[c], Unlocked)
           g == [h EXCEPT ![c] = Unlocked]
<1>1. g \in Levels /\ g[c] = Unlocked /\ \A d \in Conn : d # c => g[d] = h[d]
  BY DEF Levels, LockLevel
<1>2. r \in LockStates
  BY DEF Release, LockStates
<1>3. /\ r.shared = IF h[c] >= Shared /\ s.shared > 0 THEN s.shared - 1 ELSE s.shared
      /\ r.reserved <=> s.reserved /\ h[c] < Reserved
      /\ r.pending <=> s.pending /\ h[c] # Exclusive
      /\ r.exclusive <=> s.exclusive /\ h[c] # Exclusive
  <2>1. /\ r.reserved <=> s.reserved /\ ~Drops(h[c], Unlocked, Reserved)
        /\ r.pending <=> s.pending /\ ~Drops(h[c], Unlocked, Pending)
        /\ r.exclusive <=> s.exclusive /\ ~Drops(h[c], Unlocked, Exclusive)
    BY Zenon DEF Release
  <2>2. r.shared = IF h[c] >= Shared /\ s.shared > 0 THEN s.shared - 1 ELSE s.shared
    BY DEF Release, Drops
  <2>3. h[c] \in LockLevel \ {Pending}
    BY DEF Levels
  <2> QED
    BY <2>1, <2>2, <2>3 DEF Drops, LockLevel
<1>4. r.shared = Cardinality(Holders(g))
  <2>1. CASE h[c] = Unlocked
    <3>1. Holders(g) = Holders(h)
      BY <1>1, <2>1 DEF Holders
    <3> QED
      BY <1>3, <2>1, <3>1 DEF LockOK
  <2>2. CASE h[c] # Unlocked
    <3>1. h[c] >= Shared
      BY <2>2 DEF Levels, LockLevel
    <3>2. Holders(g) = Holders(h) \ {c} /\ c \in Holders(h)
      BY <1>1, <3>1 DEF Holders
    <3>3. Cardinality(Holders(g)) = Cardinality(Holders(h)) - 1
      BY <3>2, HoldersFinite, FS_RemoveElement, Zenon
    <3>4. Cardinality(Holders(g)) \in Nat /\ Cardinality(Holders(h)) \in Nat
      BY HoldersFinite
    <3> QED
      BY <1>3, <3>1, <3>3, <3>4 DEF LockOK
  <2> QED
    BY <2>1, <2>2
<1>5. (\E d \in Conn : g[d] >= Reserved) <=> r.reserved
  BY <1>1, <1>3 DEF LockOK, Levels, LockLevel
<1>6. (\E d \in Conn : g[d] = Exclusive) <=> r.exclusive
  BY <1>1, <1>3 DEF LockOK, Levels, LockLevel
<1> QED
  BY <1>1, <1>2, <1>3, <1>4, <1>5, <1>6 DEF LockOK, Levels, LockLevel

-----------------------------------------------------------------------------
(***************************************************************************)
(* The pager's methods keep a pager in order                               *)
(***************************************************************************)

\* The part of the invariant about the file.
FileOK == disk \in Disk /\ DiskOK

\* Nothing staged is derived from anything.
LEMMA CleanFits ==
  ASSUME FileOK
  PROVE  /\ Fits(Clean, SizeOf(disk), disk)
         /\ Clean \in Overlay /\ Clean \in [Page -> Serial \cup {None}]
         /\ SizeOf(disk) \in 0 .. MaxPage
         /\ \A n \in 0 .. MaxPage : Fits(Clean, n, disk) => n = SizeOf(disk)
<1>1. /\ SizeOf(disk) \in 1 .. MaxPage
      /\ \A p \in Page : disk.page[p] # None <=> p <= SizeOf(disk)
  BY DiskSize DEF FileOK
<1>2. Clean \in Overlay /\ Clean \in [Page -> Serial \cup {None}] /\ \A p \in Page : Clean[p] = None
  BY DEF Clean, Overlay
<1>3. Fits(Clean, SizeOf(disk), disk)
  BY <1>1, <1>2, PageBounds DEF Fits, Extends, Derived, Page
<1>4. ASSUME NEW n \in 0 .. MaxPage, Fits(Clean, n, disk)
      PROVE  n = SizeOf(disk)
  <2>1. n \in Page => ~(SizeOf(disk) < n)
    BY <1>2, <1>4, PageBounds DEF Fits, Extends
  <2> QED
    BY <1>1, <1>4, <2>1, PageBounds DEF Fits, Extends, Page
<1> QED
  BY <1>1, <1>2, <1>3, <1>4, PageBounds

\* revalidate_read_cache
LEMMA RevalidatedWorks ==
  ASSUME FileOK, NEW k \in Pager, Working(k, disk)
  PROVE  LET r == Revalidated(k) IN
         /\ r \in Pager /\ Working(r, disk)
         /\ r.held = k.held /\ r.header = k.header /\ r.committed = k.committed
         /\ r.overlay = k.overlay /\ r.saves = k.saves
<1> DEFINE r == Revalidated(k)
<1>1. CASE r = k
  BY <1>1
<1>2. CASE r # k
  <2>1. /\ k.held < Reserved
        /\ r = [k EXCEPT !.cache = Clean, !.token = disk.cc,
                         !.diskPages = SizeOf(disk), !.pageCount = SizeOf(disk)]
    BY <1>2 DEF Revalidated, Pager, LockLevel
  <2>2. /\ r.held = k.held /\ r.header = k.header /\ r.committed = k.committed
        /\ r.overlay = k.overlay /\ r.saves = k.saves
        /\ r.diskPages = SizeOf(disk) /\ r.pageCount = SizeOf(disk)
    BY <2>1 DEF Pager
  <2>3. r \in Pager
    BY <2>1, CleanFits, Zenon DEF Pager, FileOK, Disk
  <2>4. k.overlay = Clean
    BY <2>1 DEF Working
  <2>5. k.header.cc = disk.cc => Current(r, disk)
    BY <2>2, <2>4, CleanFits DEF Working, Current
  <2>6. Stamped(r, disk) /\ Settled(r) /\ Nested(r)
    BY <2>2 DEF Working, Stamped, Settled, Nested
  <2> QED
    BY <2>1, <2>2, <2>3, <2>4, <2>5, <2>6 DEF Working, Pager, LockLevel
<1> QED
  BY <1>1, <1>2

\* read_page
LEMMA PageReadWorks ==
  ASSUME FileOK, NEW k \in Pager, Working(k, disk), NEW p \in Page
  PROVE  LET r == PageRead(k, p) IN
         /\ r \in Pager /\ Working(r, disk)
         /\ r.held = k.held /\ r.header = k.header /\ r.committed = k.committed
         /\ r.overlay = k.overlay /\ r.saves = k.saves
         /\ r.diskPages = k.diskPages /\ r.pageCount = k.pageCount
<1> DEFINE r == PageRead(k, p)
<1>1. CASE r = k
  BY <1>1
<1>2. CASE r # k
  <2>1. k.overlay[p] = None /\ r = [k EXCEPT !.cache[p] = Content(k, p)]
    BY <1>2 DEF PageRead
  <2>2. /\ Content(k, p) \in Serial \cup {None}
        /\ k.held >= Reserved => Content(k, p) \in {None, disk.page[p]}
    BY <2>1 DEF Content, Pager, FileOK, Disk, Working, CacheOK
  <2>3. /\ r.held = k.held /\ r.header = k.header /\ r.committed = k.committed
        /\ r.overlay = k.overlay /\ r.saves = k.saves
        /\ r.diskPages = k.diskPages /\ r.pageCount = k.pageCount
        /\ r.cache = [k.cache EXCEPT ![p] = Content(k, p)]
    BY <2>1 DEF Pager
  <2>4. r \in Pager
    BY <2>1, <2>2 DEF Pager
  <2>5. k.held >= Reserved => CacheOK(r, disk)
    BY <2>2, <2>3 DEF CacheOK, Working, Pager
  <2>6. k.header.cc = disk.cc => Current(r, disk)
    BY <2>3 DEF Working, Current
  <2>7. Stamped(r, disk) /\ Settled(r) /\ Nested(r)
    BY <2>3 DEF Working, Stamped, Settled, Nested
  <2> QED
    BY <2>3, <2>4, <2>5, <2>6, <2>7 DEF Working
<1> QED
  BY <1>1, <1>2

\* SHARED taken or given back
LEMMA LowLockWorks ==
  ASSUME FileOK, NEW k \in Pager, Working(k, disk), k.held < Reserved,
         NEW to \in {Unlocked, Shared}
  PROVE  LET r == [k EXCEPT !.held = to] IN
         /\ r \in Pager /\ Working(r, disk)
         /\ r.held = to /\ r.header = k.header /\ r.overlay = k.overlay
<1> DEFINE r == [k EXCEPT !.held = to]
<1>1. /\ r.held = to /\ r.header = k.header /\ r.committed = k.committed
      /\ r.overlay = k.overlay /\ r.saves = k.saves
      /\ r.diskPages = k.diskPages /\ r.pageCount = k.pageCount
  BY DEF Pager
<1>2. r \in Pager
  BY DEF Pager, LockLevel
<1>3. Stamped(r, disk) /\ Settled(r) /\ Nested(r)
  BY <1>1 DEF Working, Stamped, Settled, Nested
<1>4. k.header.cc = disk.cc => Current(r, disk)
  BY <1>1 DEF Working, Current
<1> QED
  BY <1>1, <1>2, <1>3, <1>4 DEF Working

\* release_locks with nothing staged
LEMMA ReleasedWorks ==
  ASSUME FileOK, NEW k \in Pager, Working(k, disk), k.overlay = Clean
  PROVE  LET r == Released(k) IN
         /\ r \in Pager /\ Working(r, disk)
         /\ r.held = Unlocked /\ r.header = k.header
<1> DEFINE r == Released(k)
<1>1. CASE k.held = Unlocked
  BY <1>1 DEF Released
<1>2. CASE k.held # Unlocked
  <2>1. r = [k EXCEPT !.cache = Clean, !.token = None, !.held = Unlocked]
    BY <1>2 DEF Released, CacheDropped, Pager
  <2>2. /\ r.held = Unlocked /\ r.header = k.header /\ r.committed = k.committed
        /\ r.overlay = k.overlay /\ r.saves = k.saves
        /\ r.diskPages = k.diskPages /\ r.pageCount = k.pageCount
    BY <2>1 DEF Pager
  <2>3. r \in Pager
    <3>1. Unlocked \in LockLevel \ {Pending} /\ None \in Serial \cup {None}
      BY DEF LockLevel
    <3> QED
      BY <2>1, <3>1, CleanFits, Zenon DEF Pager
  <2>4. Stamped(r, disk) /\ Settled(r) /\ Nested(r)
    BY <2>2 DEF Working, Stamped, Settled, Nested
  <2>5. k.header.cc = disk.cc => Current(r, disk)
    BY <2>2 DEF Working, Current
  <2> QED
    BY <2>2, <2>3, <2>4, <2>5 DEF Working
<1> QED
  BY <1>1, <1>2

\* rollback
LEMMA DiscardedWorks ==
  ASSUME FileOK, NEW k \in Pager, Working(k, disk)
  PROVE  LET r == Discarded(k) IN
         /\ r \in Pager /\ Working(r, disk)
         /\ r.held = k.held /\ r.header = k.header /\ r.overlay = Clean
<1> DEFINE r == Discarded(k)
<1>1. /\ r.held = k.held /\ r.header = k.committed /\ r.committed = k.committed
      /\ r.overlay = Clean /\ r.saves = <<>>
      /\ r.diskPages = k.diskPages /\ r.pageCount = k.diskPages /\ r.cache = k.cache
  BY DEF Discarded, Pager
<1>2. r \in Pager
  <2>1. <<>> \in Seq(Savepoint)
    OBVIOUS
  <2>2. \A e \in Seq(Savepoint) :
          [k EXCEPT !.overlay = Clean, !.header = k.committed,
                    !.pageCount = k.diskPages, !.saves = e] \in Pager
    BY CleanFits, Zenon DEF Pager
  <2> QED
    BY <2>1, <2>2, Zenon DEF Discarded
<1>3. k.committed = k.header
  BY DEF Working, Settled
<1>4. Stamped(r, disk) /\ Settled(r) /\ Nested(r)
  BY <1>1, <1>3 DEF Working, Stamped, Settled, Nested
<1>5. k.header.cc = disk.cc => Current(r, disk)
  BY <1>1, CleanFits DEF Working, Current
<1>6. k.held >= Reserved => CacheOK(r, disk)
  BY <1>1 DEF Working, CacheOK
<1> QED
  BY <1>1, <1>2, <1>3, <1>4, <1>5, <1>6 DEF Working

\* adopt_committed_header, with nothing staged: every savepoint is re-stamped.
LEMMA AdoptedWorks ==
  ASSUME FileOK, NEW k \in Pager, k.overlay = Clean, Nested(k),
         k.diskPages = SizeOf(disk), k.pageCount = SizeOf(disk), CacheOK(k, disk)
  PROVE  LET r == Adopted(k, DiskHeader) IN
         /\ r \in Pager /\ Working(r, disk)
         /\ r.held = k.held /\ r.header.cc = disk.cc
<1> DEFINE r == Adopted(k, DiskHeader)
           saves == [i \in DOMAIN k.saves |->
                       IF k.saves[i].overlay = Clean
                       THEN [k.saves[i] EXCEPT !.header = DiskHeader, !.pageCount = k.pageCount]
                       ELSE k.saves[i]]
<1>1. r = [k EXCEPT !.header = DiskHeader, !.committed = DiskHeader, !.saves = saves]
  BY DEF Adopted
<1>2. DiskHeader \in Header /\ DiskHeader.cc = disk.cc /\ DiskHeader.base = disk.cc
  BY PageBounds DEF DiskHeader, Header, FileOK, Disk, DiskOK
<1>3. /\ k.saves \in Seq(Savepoint) /\ Len(k.saves) \in Nat
      /\ DOMAIN k.saves = 1 .. Len(k.saves)
      /\ \A i \in DOMAIN k.saves : k.saves[i] \in Savepoint /\ k.saves[i].overlay = Clean
  BY DEF Pager, Nested
<1>4. DOMAIN saves = DOMAIN k.saves
  OBVIOUS
<1>5. \A i \in DOMAIN k.saves :
        /\ saves[i] \in Savepoint
        /\ saves[i].overlay = Clean /\ saves[i].header = DiskHeader
        /\ saves[i].pageCount = SizeOf(disk)
  BY <1>2, <1>3, CleanFits, Zenon DEF Savepoint
<1>6. saves \in Seq(Savepoint)
  <2>1. saves \in [1 .. Len(k.saves) -> Savepoint]
    BY <1>3, <1>5, Zenon
  <2> HIDE DEF saves
  <2> QED
    BY <1>3, <2>1
<1> HIDE DEF saves
<1>7. /\ r.held = k.held /\ r.header = DiskHeader /\ r.committed = DiskHeader
      /\ r.overlay = k.overlay /\ r.saves = saves
      /\ r.diskPages = k.diskPages /\ r.pageCount = k.pageCount /\ r.cache = k.cache
  BY <1>1 DEF Pager
<1>8. r \in Pager
  BY <1>1, <1>2, <1>6, Zenon DEF Pager
<1>9. Stamped(r, disk) /\ Settled(r) /\ Nested(r)
  <2>1. Stamped(r, disk)
    BY <1>2, <1>7, PageBounds DEF Stamped, FileOK, Disk, Serial
  <2>2. Settled(r)
    BY <1>4, <1>5, <1>7 DEF Settled
  <2>3. Nested(r)
    BY <1>4, <1>5, <1>7 DEF Nested
  <2> QED
    BY <2>1, <2>2, <2>3
<1>10. Current(r, disk) /\ CacheOK(r, disk)
  <2>1. Current(r, disk)
    BY <1>4, <1>5, <1>7, CleanFits DEF Current
  <2>2. CacheOK(r, disk)
    BY <1>7 DEF CacheOK
  <2> QED
    BY <2>1, <2>2
<1> QED
  BY <1>2, <1>7, <1>8, <1>9, <1>10 DEF Working

\* acquire_write_intent's RESERVED: the cache goes, the header is refreshed.
LEMMA ReservedWorks ==
  ASSUME FileOK, NEW k \in Pager, Working(k, disk), k.held = Shared
  PROVE  LET r == Refreshed([CacheDropped(k) EXCEPT !.held = Reserved]) IN
         /\ r \in Pager /\ Working(r, disk) /\ r.held = Reserved
<1> DEFINE q == [CacheDropped(k) EXCEPT !.held = Reserved]
           r == Refreshed(q)
<1>1. q = [k EXCEPT !.cache = Clean, !.token = None, !.held = Reserved]
  BY DEF CacheDropped, Pager
<1>2. /\ q \in Pager
      /\ q.held = Reserved /\ q.header = k.header /\ q.committed = k.committed
      /\ q.overlay = k.overlay /\ q.saves = k.saves
      /\ q.diskPages = k.diskPages /\ q.pageCount = k.pageCount /\ q.cache = Clean
  <2>1. q \in Pager
    <3>1. Reserved \in LockLevel \ {Pending} /\ None \in Serial \cup {None}
      BY DEF LockLevel
    <3> QED
      BY <1>1, <3>1, CleanFits, Zenon DEF Pager
  <2> QED
    BY <1>1, <2>1, Zenon DEF Pager
<1>3. k.overlay = Clean /\ k.header = k.committed /\ Nested(k)
  BY DEF Working, Settled
<1>4. CacheOK(q, disk)
  BY <1>2 DEF CacheOK, Clean
<1>5. CASE disk.cc = k.header.cc
  <2>1. r = q
    BY <1>2, <1>5 DEF Refreshed
  <2>2. Stamped(q, disk) /\ Settled(q) /\ Nested(q)
    BY <1>2 DEF Working, Stamped, Settled, Nested
  <2>3. Current(q, disk)
    BY <1>2, <1>5 DEF Working, Current
  <2> QED
    BY <1>2, <1>3, <1>4, <1>5, <2>1, <2>2, <2>3, Zenon DEF Working
<1>6. CASE disk.cc # k.header.cc
  <2> DEFINE s == [q EXCEPT !.diskPages = SizeOf(disk), !.pageCount = SizeOf(disk)]
  <2>1. r = Adopted(s, DiskHeader)
    BY <1>2, <1>3, <1>6 DEF Refreshed
  <2>2. /\ s \in Pager
        /\ s.held = Reserved /\ s.overlay = Clean /\ s.saves = k.saves
        /\ s.diskPages = SizeOf(disk) /\ s.pageCount = SizeOf(disk) /\ s.cache = Clean
    BY <1>2, <1>3, CleanFits, Zenon DEF Pager
  <2>3. Nested(s) /\ CacheOK(s, disk)
    BY <1>2, <1>3, <1>4, <2>2 DEF Nested, CacheOK
  <2> QED
    BY <2>1, <2>2, <2>3, AdoptedWorks, Zenon
<1> QED
  BY <1>5, <1>6

\* write_page: the page staged is the file's.
LEMMA PageStaged ==
  ASSUME FileOK, NEW k \in Pager, Working(k, disk), k.held >= Reserved,
         NEW p \in Page, InRange(k, p), k.overlay[p] = None
  PROVE  LET r == [PageRead(k, p) EXCEPT !.overlay[p] = Content(k, p)] IN
         /\ r \in Pager /\ Working(r, disk)
         /\ r.held = k.held /\ r.header = k.header
<1> DEFINE q == PageRead(k, p)
           r == [q EXCEPT !.overlay[p] = Content(k, p)]
<1>1. /\ q \in Pager /\ Working(q, disk)
      /\ q.held = k.held /\ q.header = k.header /\ q.committed = k.committed
      /\ q.overlay = k.overlay /\ q.saves = k.saves
      /\ q.diskPages = k.diskPages /\ q.pageCount = k.pageCount
  BY PageReadWorks
<1> HIDE DEF q
<1>2. /\ k.header.cc = disk.cc /\ Current(k, disk) /\ CacheOK(k, disk)
      /\ \A x \in Page : disk.page[x] # None <=> x <= SizeOf(disk)
  BY DiskSize DEF Working, FileOK
<1>3. Content(k, p) = disk.page[p] /\ disk.page[p] # None /\ disk.page[p] \in Serial
  BY <1>2 DEF Content, InRange, Current, CacheOK, FileOK, Disk
<1>4. /\ r \in Pager
      /\ r.held = k.held /\ r.header = k.header /\ r.committed = k.committed
      /\ r.saves = k.saves
      /\ r.diskPages = k.diskPages /\ r.pageCount = k.pageCount /\ r.cache = q.cache
      /\ r.overlay = [k.overlay EXCEPT ![p] = disk.page[p]]
  BY <1>1, <1>3, Zenon DEF Pager, Overlay
<1> HIDE DEF r
<1>5. r.overlay[p] # None /\ r.overlay # Clean
  BY <1>3, <1>4 DEF Pager, Overlay, Clean
<1>6. Stamped(r, disk) /\ Settled(r) /\ Nested(r)
  BY <1>4, <1>5 DEF Working, Stamped, Settled, Nested
<1>7. Fits(r.overlay, r.pageCount, disk)
  <2>1. /\ \A x \in Page : r.overlay[x] = IF x = p THEN disk.page[p] ELSE k.overlay[x]
        /\ Fits(k.overlay, k.pageCount, disk)
    BY <1>2, <1>4 DEF Current, Pager, Overlay
  <2>2. Derived(r.overlay, disk)
    BY <1>3, <2>1 DEF Fits, Derived
  <2>3. SizeOf(disk) \in 1 .. MaxPage /\ p <= SizeOf(disk) /\ k.pageCount \in Nat
    BY <1>2, <1>3, DiskSize DEF FileOK, Pager
  <2>4. Extends(r.overlay, r.pageCount, disk)
    BY <1>3, <1>4, <2>1, <2>3, PageBounds DEF Fits, Extends, Page
  <2> QED
    BY <2>2, <2>4 DEF Fits
<1>8. Current(r, disk) /\ CacheOK(r, disk)
  BY <1>1, <1>2, <1>4, <1>7 DEF Current, CacheOK, Working
<1>9. Working(r, disk)
  BY <1>2, <1>4, <1>6, <1>8 DEF Working, Pager, LockLevel
<1> QED
  BY <1>4, <1>9 DEF r, q

\* allocate_page past the end
LEMMA PageAllocated ==
  ASSUME FileOK, NEW k \in Pager, Working(k, disk), k.held >= Reserved, k.pageCount < MaxPage
  PROVE  LET n == k.pageCount + 1
             r == [k EXCEPT !.pageCount = n, !.overlay[n] = New] IN
         /\ r \in Pager /\ Working(r, disk)
         /\ r.held = k.held /\ r.header = k.header
<1> DEFINE n == k.pageCount + 1
           r == [k EXCEPT !.pageCount = n, !.overlay[n] = New]
<1>1. n \in Page /\ n \in 0 .. MaxPage
  BY PageBounds DEF Page, Pager
<1>2. /\ k.header.cc = disk.cc /\ Current(k, disk) /\ CacheOK(k, disk)
      /\ SizeOf(disk) \in 1 .. MaxPage
      /\ \A x \in Page : disk.page[x] # None <=> x <= SizeOf(disk)
  BY DiskSize DEF Working, FileOK
<1>3. SizeOf(disk) <= k.pageCount /\ disk.page[n] = None
  BY <1>1, <1>2 DEF Current, Fits, Extends, Pager
<1>4. /\ r \in Pager
      /\ r.held = k.held /\ r.header = k.header /\ r.committed = k.committed
      /\ r.saves = k.saves
      /\ r.diskPages = k.diskPages /\ r.pageCount = n /\ r.cache = k.cache
      /\ r.overlay = [k.overlay EXCEPT ![n] = New]
  BY <1>1, Zenon DEF Pager, Overlay
<1> HIDE DEF r
<1>5. New # None
  BY NoneIsNoNumber DEF New
<1>6. r.overlay[n] # None /\ r.overlay # Clean
  BY <1>1, <1>4, <1>5 DEF Pager, Overlay, Clean
<1>7. Stamped(r, disk) /\ Settled(r) /\ Nested(r)
  BY <1>4, <1>6 DEF Working, Stamped, Settled, Nested
<1>8. Fits(r.overlay, r.pageCount, disk)
  <2>1. /\ \A x \in Page : r.overlay[x] = IF x = n THEN New ELSE k.overlay[x]
        /\ Fits(k.overlay, k.pageCount, disk)
    BY <1>1, <1>2, <1>4 DEF Current, Pager, Overlay
  <2>2. Derived(r.overlay, disk)
    BY <1>3, <2>1 DEF Fits, Derived
  <2>3. Extends(r.overlay, r.pageCount, disk)
    <3>1. k.pageCount \in Nat
      BY DEF Pager
    <3> QED
      BY <1>1, <1>2, <1>3, <1>4, <1>5, <2>1, <3>1, PageBounds DEF Fits, Extends, Page
  <2> QED
    BY <2>2, <2>3 DEF Fits
<1>9. Current(r, disk) /\ CacheOK(r, disk)
  BY <1>2, <1>4, <1>8 DEF Current, CacheOK
<1>10. Working(r, disk)
  BY <1>2, <1>4, <1>7, <1>9 DEF Working, Pager, LockLevel
<1> QED
  BY <1>4, <1>10 DEF r

\* SAVEPOINT
LEMMA SavepointOpened ==
  ASSUME FileOK, NEW k \in Pager, Working(k, disk)
  PROVE  LET r == [k EXCEPT !.saves = Append(@, [overlay |-> k.overlay, header |-> k.header,
                                                 pageCount |-> k.pageCount])] IN
         /\ r \in Pager /\ Working(r, disk)
         /\ r.held = k.held /\ r.header = k.header
<1> DEFINE v == [overlay |-> k.overlay, header |-> k.header, pageCount |-> k.pageCount]
           r == [k EXCEPT !.saves = Append(@, v)]
           n == Len(k.saves)
<1>1. v \in Savepoint /\ v.overlay = k.overlay /\ v.header = k.header /\ v.pageCount = k.pageCount
  BY DEF Savepoint, Pager
<1> HIDE DEF v
<1>2. k.saves \in Seq(Savepoint) /\ n \in Nat /\ DOMAIN k.saves = 1 .. n
  BY DEF Pager
<1>3. /\ Append(k.saves, v) \in Seq(Savepoint)
      /\ DOMAIN Append(k.saves, v) = 1 .. n + 1
      /\ \A i \in 1 .. n : Append(k.saves, v)[i] = k.saves[i]
      /\ Append(k.saves, v)[n + 1] = v
  BY <1>1, <1>2
<1>4. /\ r \in Pager
      /\ r.held = k.held /\ r.header = k.header /\ r.committed = k.committed
      /\ r.overlay = k.overlay /\ r.saves = Append(k.saves, v)
      /\ r.diskPages = k.diskPages /\ r.pageCount = k.pageCount /\ r.cache = k.cache
  BY <1>3, Zenon DEF Pager
<1> HIDE DEF r
<1>5. \A i \in DOMAIN r.saves : \/ i \in DOMAIN k.saves /\ r.saves[i] = k.saves[i]
                                \/ i = n + 1 /\ r.saves[i] = v
  BY <1>2, <1>3, <1>4
<1>6. Stamped(r, disk)
  BY <1>4 DEF Working, Stamped
<1>7. Settled(r)
  BY <1>1, <1>4, <1>5 DEF Working, Settled
<1>8. Nested(r)
  <2>1. k.overlay = Clean => \A i \in DOMAIN r.saves : r.saves[i].overlay = Clean
    BY <1>1, <1>5 DEF Working, Nested
  <2>2. ASSUME NEW i \in DOMAIN r.saves, NEW j \in DOMAIN r.saves, i <= j,
               r.saves[j].overlay = Clean
        PROVE  r.saves[i].overlay = Clean
    <3>1. CASE j = n + 1
      <4>1. k.overlay = Clean
        BY <1>1, <1>3, <1>4, <2>2, <3>1
      <4> QED
        BY <2>1, <4>1
    <3>2. CASE j \in DOMAIN k.saves /\ r.saves[j] = k.saves[j]
      <4>1. i \in DOMAIN k.saves /\ r.saves[i] = k.saves[i]
        BY <1>2, <1>5, <2>2, <3>2
      <4> QED
        BY <2>2, <3>2, <4>1 DEF Working, Nested
    <3> QED
      BY <1>5, <3>1, <3>2
  <2> QED
    BY <1>4, <2>1, <2>2 DEF Nested
<1>9. k.header.cc = disk.cc => Current(r, disk)
  BY <1>1, <1>4, <1>5 DEF Working, Current
<1>10. k.held >= Reserved => CacheOK(r, disk)
  BY <1>4 DEF Working, CacheOK
<1>11. Working(r, disk)
  BY <1>4, <1>6, <1>7, <1>8, <1>9, <1>10 DEF Working
<1> QED
  BY <1>4, <1>11 DEF r, v

\* The savepoints that remain after ROLLBACK TO or RELEASE.
LEMMA SavesCut ==
  ASSUME NEW k \in Pager, NEW n \in 0 .. Len(k.saves)
  PROVE  /\ SubSeq(k.saves, 1, n) \in Seq(Savepoint)
         /\ DOMAIN SubSeq(k.saves, 1, n) = 1 .. n
         /\ 1 .. n \subseteq DOMAIN k.saves
         /\ \A i \in 1 .. n : SubSeq(k.saves, 1, n)[i] = k.saves[i]
<1>1. k.saves \in Seq(Savepoint) /\ Len(k.saves) \in Nat /\ DOMAIN k.saves = 1 .. Len(k.saves)
  BY DEF Pager
<1>2. \A i \in 1 .. n : i \in 1 .. Len(k.saves) /\ k.saves[i] \in Savepoint
  BY <1>1
<1>3. SubSeq(k.saves, 1, n) = [i \in 1 .. n |-> k.saves[i]]
  BY <1>1
<1>4. SubSeq(k.saves, 1, n) \in [1 .. n -> Savepoint]
  BY <1>2, <1>3, Zenon
<1>5. SubSeq(k.saves, 1, n) \in Seq(Savepoint)
  BY <1>1, <1>4
<1> QED
  BY <1>1, <1>2, <1>3, <1>5

\* RELEASE
LEMMA SavepointReleased ==
  ASSUME FileOK, NEW k \in Pager, Working(k, disk), NEW n \in 0 .. Len(k.saves)
  PROVE  LET r == [k EXCEPT !.saves = SubSeq(@, 1, n)] IN
         /\ r \in Pager /\ Working(r, disk)
         /\ r.held = k.held /\ r.header = k.header
<1> DEFINE c == SubSeq(k.saves, 1, n)
           r == [k EXCEPT !.saves = c]
<1>1. /\ c \in Seq(Savepoint) /\ DOMAIN c \subseteq DOMAIN k.saves
      /\ \A i \in DOMAIN c : c[i] = k.saves[i]
  BY SavesCut
<1> HIDE DEF c
<1>2. /\ r \in Pager
      /\ r.held = k.held /\ r.header = k.header /\ r.committed = k.committed
      /\ r.overlay = k.overlay /\ r.saves = c
      /\ r.diskPages = k.diskPages /\ r.pageCount = k.pageCount /\ r.cache = k.cache
  BY <1>1 DEF Pager
<1> HIDE DEF r
<1>3. Stamped(r, disk) /\ Settled(r) /\ Nested(r)
  BY <1>1, <1>2 DEF Working, Stamped, Settled, Nested
<1>4. k.header.cc = disk.cc => Current(r, disk)
  BY <1>1, <1>2 DEF Working, Current
<1>5. k.held >= Reserved => CacheOK(r, disk)
  BY <1>2 DEF Working, CacheOK
<1>6. Working(r, disk)
  BY <1>2, <1>3, <1>4, <1>5 DEF Working
<1> QED
  BY <1>2, <1>6 DEF r, c

\* ROLLBACK TO: the savepoint's overlay is one the pager could have staged.
LEMMA SavepointRestored ==
  ASSUME FileOK, NEW k \in Pager, Working(k, disk), NEW i \in 1 .. Len(k.saves)
  PROVE  LET r == [k EXCEPT !.overlay = k.saves[i].overlay, !.header = k.saves[i].header,
                            !.pageCount = k.saves[i].pageCount,
                            !.saves = SubSeq(@, 1, i)] IN
         /\ r \in Pager /\ Working(r, disk)
         /\ r.held = k.held /\ r.header = k.header
<1> DEFINE c == SubSeq(k.saves, 1, i)
           v == k.saves[i]
           r == [k EXCEPT !.overlay = v.overlay, !.header = v.header,
                          !.pageCount = v.pageCount, !.saves = c]
<1>1. i \in 0 .. Len(k.saves) /\ i \in Nat
  BY DEF Pager
<1>2. /\ c \in Seq(Savepoint) /\ DOMAIN c = 1 .. i /\ DOMAIN c \subseteq DOMAIN k.saves
      /\ \A j \in DOMAIN c : c[j] = k.saves[j]
  BY <1>1, SavesCut
<1>3. i \in DOMAIN k.saves /\ v \in Savepoint
  BY DEF Pager
<1>4. v.header = k.header /\ k.header = k.committed
  BY <1>3 DEF Working, Settled
<1>5. k.overlay = Clean => v.overlay = Clean
  BY <1>3 DEF Working, Nested
<1>6. \A j \in DOMAIN c : v.overlay = Clean => k.saves[j].overlay = Clean
  BY <1>1, <1>2, <1>3 DEF Working, Nested
<1>7. k.header.cc = disk.cc => Fits(v.overlay, v.pageCount, disk)
  BY <1>3 DEF Working, Current
<1> HIDE DEF c, v
<1>8. /\ r \in Pager
      /\ r.held = k.held /\ r.header = k.header /\ r.committed = k.committed
      /\ r.overlay = v.overlay /\ r.saves = c
      /\ r.diskPages = k.diskPages /\ r.pageCount = v.pageCount /\ r.cache = k.cache
  BY <1>2, <1>3, <1>4, Zenon DEF Pager, Savepoint
<1> HIDE DEF r
<1>9. Stamped(r, disk) /\ Settled(r) /\ Nested(r)
  BY <1>2, <1>6, <1>8 DEF Working, Stamped, Settled, Nested
<1>10. k.header.cc = disk.cc => Current(r, disk)
  BY <1>2, <1>7, <1>8 DEF Working, Current
<1>11. k.held >= Reserved => CacheOK(r, disk)
  BY <1>8 DEF Working, CacheOK
<1>12. Working(r, disk)
  BY <1>5, <1>8, <1>9, <1>10, <1>11 DEF Working
<1> QED
  BY <1>8, <1>12 DEF r, c, v

-----------------------------------------------------------------------------
(***************************************************************************)
(* Steps that leave the file alone                                         *)
(***************************************************************************)

\* The connection may move its pager to k and its statement to l.
Moves(c, k, l) ==
  /\ k \in Pager /\ l \in Label /\ l # "flushing" /\ pc[c] # "flushing"
  /\ Place(k, l, disk) /\ Working(k, disk)
  /\ k.header = pager[c].header \/ k.held >= Reserved
  /\ disk' = disk /\ inTx' \in [Conn -> BOOLEAN] /\ threaded' = threaded
  /\ pager' = [pager EXCEPT ![c] = k] /\ pc' = [pc EXCEPT ![c] = l]

\* The levels the pagers hold, as one function.
LEMMA HeldLevels ==
  ASSUME Types
  PROVE  Held \in Levels /\ \A c \in Conn : Held[c] = pager[c].held
BY DEF Types, Held, Levels, Pager

\* A step of one connection that leaves the file alone keeps the invariant when it
\* leaves that pager in order and the lock table counts its lock.
LEMMA OwnStep ==
  ASSUME IInv, NEW c \in Conn, NEW k, NEW l, Moves(c, k, l),
         locks' \in LockStates, LockOK(locks', [Held EXCEPT ![c] = k.held])
  PROVE  IInv'
<1>1. /\ \A d \in Conn : pager'[d] = IF d = c THEN k ELSE pager[d]
      /\ \A d \in Conn : pc'[d] = IF d = c THEN l ELSE pc[d]
  BY DEF Moves, IInv, Types
<1>2. Types'
  BY DEF Moves, IInv, Types
<1>3. Held' = [Held EXCEPT ![c] = k.held]
  BY <1>1, Zenon DEF Held
<1>4. LockOK(locks', Held')
  BY <1>3
<1>5. DiskOK'
  BY DEF Moves, IInv, DiskOK, HasSize
<1>6. ASSUME NEW d \in Conn
      PROVE  PagerOK(pager'[d], pc'[d], disk')
  BY <1>1, <1>6 DEF IInv, Moves, PagerOK
<1>7. ASSUME NEW d \in Conn, NEW e \in Conn, d # e, pc'[e] = "flushing"
      PROVE  pager'[d].header.cc < disk'.cc
  <2>1. e # c /\ pc[e] = "flushing" /\ disk' = disk
    BY <1>1, <1>7 DEF Moves
  <2>2. CASE d # c
    BY <1>1, <1>7, <2>1, <2>2 DEF IInv
  <2>3. CASE d = c
    <3>1. pager'[e].held = Exclusive
      BY <1>1, <2>1 DEF IInv, PagerOK, Place
    <3>2. Held'[e] = Exclusive /\ Held'[c] = k.held
      BY <1>1, <3>1 DEF Held
    <3>3. k.held = Unlocked
      BY <1>4, <2>1, <3>2 DEF LockOK
    <3>4. k.header = pager[c].header
      BY <3>3 DEF Moves
    <3> QED
      BY <1>1, <1>7, <2>1, <2>3, <3>4 DEF IInv
  <2> QED
    BY <2>2, <2>3
<1> QED
  BY <1>2, <1>4, <1>5, <1>6, <1>7 DEF IInv

\* ... keeping the lock it has,
LEMMA StepWithoutLocking ==
  ASSUME IInv, NEW c \in Conn, NEW k, NEW l, Moves(c, k, l),
         k.held = pager[c].held, locks' = locks
  PROVE  IInv'
<1>1. [Held EXCEPT ![c] = k.held] = Held
  BY DEF Held
<1>2. locks' \in LockStates /\ LockOK(locks', Held)
  BY DEF IInv, Types
<1> QED
  BY <1>1, <1>2, OwnStep

\* ... with a lock it is granted,
LEMMA StepLocking ==
  ASSUME IInv, NEW c \in Conn, NEW k, NEW l, Moves(c, k, l),
         <<pager[c].held, k.held>> \in {<<Unlocked, Shared>>, <<Shared, Reserved>>, <<Reserved, Exclusive>>},
         CanLock(c, k.held), Lock(c, k.held)
  PROVE  IInv'
<1>1. Held \in Levels /\ Held[c] = pager[c].held
  BY HeldLevels DEF IInv
<1>2. locks \in LockStates /\ LockOK(locks, Held)
  BY DEF IInv, Types
<1>3. locks' = Acquire(locks, Held[c], k.held) /\ CanAcquire(locks, Held[c], k.held)
  BY <1>1 DEF Lock, CanLock
<1>4. locks' \in LockStates /\ LockOK(locks', [Held EXCEPT ![c] = k.held])
  BY <1>1, <1>2, <1>3, LockTaken
<1> QED
  BY <1>4, OwnStep

\* ... or giving up what it has.
LEMMA StepUnlocking ==
  ASSUME IInv, NEW c \in Conn, NEW k, NEW l, Moves(c, k, l),
         k.held = Unlocked, Unlock(c)
  PROVE  IInv'
<1>1. Held \in Levels /\ Held[c] = pager[c].held
  BY HeldLevels DEF IInv
<1>2. locks \in LockStates /\ LockOK(locks, Held)
  BY DEF IInv, Types
<1>3. locks' = Release(locks, Held[c], Unlocked)
  BY <1>1 DEF Unlock
<1>4. locks' \in LockStates /\ LockOK(locks', [Held EXCEPT ![c] = k.held])
  BY <1>1, <1>2, <1>3, LockDropped
<1> QED
  BY <1>4, OwnStep

\* The state of connection c and the file in a state of the invariant.
LEMMA InvFacts ==
  ASSUME IInv, NEW c \in Conn
  PROVE  /\ FileOK /\ pager[c] \in Pager /\ pc[c] \in Label /\ inTx \in [Conn -> BOOLEAN]
         /\ pager[c].held \in {Unlocked, Shared, Reserved, Exclusive}
         /\ Place(pager[c], pc[c], disk)
         /\ pc[c] # "flushing" => Working(pager[c], disk)
<1>1. pager[c] \in Pager
  BY DEF IInv, Types
<1>2. pager[c].held \in {Unlocked, Shared, Reserved, Exclusive}
  BY <1>1 DEF Pager, LockLevel
<1> QED
  BY <1>1, <1>2 DEF IInv, Types, FileOK, PagerOK

\* The invariant holds of connections just opened on a new file.
LEMMA InitInv == Init => Inv
<1> SUFFICES ASSUME Init PROVE Inv
  OBVIOUS
<1>1. disk \in Disk /\ disk.cc = 0 /\ disk.page[1] = 0
  BY PageBounds DEF Init, Disk, Serial, Page
<1>2. HasSize(disk, InitPages)
  <2>1. 0 # None
    BY NoneIsNoNumber
  <2> QED
    BY <2>1, PageBounds DEF Init, HasSize, Page
<1>3. DiskOK /\ SizeOf(disk) = InitPages
  BY <1>1, <1>2, SizeIs, PageBounds DEF DiskOK
<1>4. FileOK
  BY <1>1, <1>3 DEF FileOK
<1>5. ASSUME NEW c \in Conn
      PROVE  /\ pager[c] \in Pager /\ pc[c] = "idle"
             /\ pager[c].held = Unlocked /\ pager[c].overlay = Clean /\ pager[c].saves = <<>>
             /\ pager[c].header = DiskHeader /\ pager[c].committed = DiskHeader
             /\ pager[c].diskPages = SizeOf(disk) /\ pager[c].pageCount = SizeOf(disk)
             /\ pager[c].token = None
  <2>1. DiskHeader \in Header
    BY <1>1, PageBounds DEF DiskHeader, Header, Disk, Serial
  <2>2. <<>> \in Seq(Savepoint)
    OBVIOUS
  <2>3. Unlocked \in LockLevel \ {Pending} /\ None \in Serial \cup {None}
    BY DEF LockLevel
  <2>4. \A e \in Seq(Savepoint) :
          [held |-> Unlocked, header |-> DiskHeader, committed |-> DiskHeader,
           overlay |-> Clean, diskPages |-> InitPages, pageCount |-> InitPages,
           cache |-> Clean, token |-> None, saves |-> e] \in Pager
    BY <1>3, <1>4, <2>1, <2>3, CleanFits DEF Pager
  <2>5. pager[c] = [held |-> Unlocked, header |-> DiskHeader, committed |-> DiskHeader,
           overlay |-> Clean, diskPages |-> InitPages, pageCount |-> InitPages,
           cache |-> Clean, token |-> None, saves |-> <<>>]
    BY <1>5 DEF Init
  <2> QED
    BY <1>3, <1>5, <2>2, <2>4, <2>5, Zenon DEF Init
<1>6. Types
  <2>1. pager \in [Conn -> Pager]
    BY <1>5, Zenon DEF Init
  <2>2. pc \in [Conn -> Label] /\ inTx \in [Conn -> BOOLEAN] /\ threaded \in BOOLEAN
    BY DEF Init, Label
  <2>3. locks \in LockStates
    BY DEF Init, NoLocks, LockStates
  <2> QED
    BY <1>1, <2>1, <2>2, <2>3 DEF Types
<1>7. LockOK(locks, Held)
  <2>1. \A c \in Conn : Held[c] = Unlocked
    BY <1>5 DEF Held
  <2>2. Holders(Held) = {}
    BY <2>1 DEF Holders
  <2>3. Cardinality(Holders(Held)) = 0
    BY <2>2, FS_EmptySet
  <2> QED
    BY <2>1, <2>3 DEF LockOK, Init, NoLocks
<1>8. ASSUME NEW c \in Conn
      PROVE  PagerOK(pager[c], pc[c], disk)
  <2>1. DiskHeader.cc = disk.cc /\ DiskHeader.base = disk.cc
    BY <1>1 DEF DiskHeader
  <2>2. Stamped(pager[c], disk) /\ Settled(pager[c]) /\ Nested(pager[c])
    BY <1>1, <1>5, <2>1 DEF Stamped, Settled, Nested
  <2>3. Current(pager[c], disk)
    BY <1>4, <1>5, CleanFits DEF Current
  <2>4. Place(pager[c], pc[c], disk)
    BY <1>5 DEF Place
  <2> QED
    BY <1>5, <2>2, <2>3, <2>4 DEF PagerOK, Working
<1>9. IInv
  BY <1>3, <1>5, <1>6, <1>7, <1>8 DEF IInv
<1>10. TurnInv
  <2>1. \A c \in Conn : Fresh(pager[c], pc[c], disk)
    <3>1. None # disk.cc
      BY <1>1, NoneIsNoNumber
    <3> QED
      BY <1>5, <3>1 DEF Fresh
  <2> QED
    BY <1>5, <2>1 DEF TurnInv
<1> QED
  BY <1>9, <1>10 DEF Inv

-----------------------------------------------------------------------------
(***************************************************************************)
(* Reading and writing keep the invariant                                  *)
(***************************************************************************)

\* query
LEMMA QueryKeeps ==
  ASSUME IInv, NEW c \in Conn, threaded' = threaded, Query(c)
  PROVE  IInv'
<1> DEFINE k == pager[c]
<1>0. /\ FileOK /\ k \in Pager /\ inTx \in [Conn -> BOOLEAN] /\ Place(k, pc[c], disk)
      /\ k.held \in {Unlocked, Shared, Reserved, Exclusive}
      /\ pc[c] # "flushing" => Working(k, disk)
  BY InvFacts
<1>1. CASE LockForSelect(c)
  <2> DEFINE r == [k EXCEPT !.held = IF @ < Shared THEN Shared ELSE @]
  <2>1. pc[c] = "idle" /\ Working(k, disk)
    BY <1>0, <1>1 DEF LockForSelect, At
  <2>2. CASE k.held = Unlocked
    <3>1. r = [k EXCEPT !.held = Shared]
      BY <2>2
    <3>2. r \in Pager /\ Working(r, disk) /\ r.held = Shared /\ r.header = k.header
      <4>1. k.held < Reserved /\ Shared \in {Unlocked, Shared}
        BY <2>2
      <4> HIDE DEF k, r
      <4> QED
        BY <1>0, <2>1, <3>1, <4>1, LowLockWorks, Zenon
    <3>3. Moves(c, r, "locked")
      BY <1>0, <1>1, <2>1, <3>2 DEF Moves, Place, LockForSelect, Set, Goto, Label
    <3> QED
      BY <1>1, <2>2, <3>2, <3>3, StepLocking, Zenon DEF LockForSelect
  <2>3. CASE k.held # Unlocked
    <3>1. r = k
      BY <1>0, <2>3 DEF Pager
    <3>2. k.held # Exclusive
      BY <1>0, <2>1 DEF Place
    <3>3. Moves(c, k, "locked")
      BY <1>0, <1>1, <2>1, <3>1, <3>2, Zenon DEF Moves, Place, LockForSelect, Set, Goto, Label
    <3>4. locks' = locks
      BY <1>0, <1>1, <2>3 DEF LockForSelect, Lock, Acquire
    <3> QED
      BY <3>3, <3>4, StepWithoutLocking
  <2> QED
    BY <2>2, <2>3
<1>2. CASE ValidateForSelect(c) \/ ValidateInTransaction(c)
  <2>1. pc[c] \in {"locked", "idle"} /\ Working(k, disk)
    BY <1>0, <1>2 DEF ValidateForSelect, ValidateInTransaction, At
  <2>2. /\ Revalidated(k) \in Pager /\ Working(Revalidated(k), disk)
        /\ Revalidated(k).held = k.held /\ Revalidated(k).header = k.header
    BY <1>0, <2>1, RevalidatedWorks
  <2>3. k.held # Exclusive
    BY <1>0, <2>1 DEF Place
  <2>4. PICK l \in {"reading", "validated"} : Goto(c, l)
    BY <1>2 DEF ValidateForSelect, ValidateInTransaction
  <2>5. Moves(c, Revalidated(k), l)
    BY <1>0, <1>2, <2>1, <2>2, <2>3, <2>4
       DEF Moves, Place, ValidateForSelect, ValidateInTransaction, Set, Goto, Label
  <2> QED
    BY <1>2, <2>2, <2>5, StepWithoutLocking DEF ValidateForSelect, ValidateInTransaction
<1>3. CASE LockInTransaction(c)
  <2> DEFINE r == [k EXCEPT !.held = IF @ < Shared THEN Shared ELSE @]
  <2>1. pc[c] = "validated" /\ Working(k, disk) /\ k.held # Exclusive
    BY <1>0, <1>3 DEF LockInTransaction, At, Place
  <2>2. CASE ~CanLock(c, Shared)
    <3>1. pager' = [pager EXCEPT ![c] = k] /\ locks' = locks
      BY <1>3, <2>2 DEF LockInTransaction, IInv, Types
    <3>2. Moves(c, k, "idle")
      BY <1>0, <1>3, <2>1, <2>2, <3>1 DEF Moves, Place, LockInTransaction, Goto, Label
    <3> QED
      BY <3>1, <3>2, StepWithoutLocking
  <2>3. CASE CanLock(c, Shared) /\ k.held = Unlocked
    <3>1. r = [k EXCEPT !.held = Shared]
      BY <2>3
    <3>2. r \in Pager /\ Working(r, disk) /\ r.held = Shared /\ r.header = k.header
      <4>1. k.held < Reserved /\ Shared \in {Unlocked, Shared}
        BY <2>3
      <4> HIDE DEF k, r
      <4> QED
        BY <1>0, <2>1, <3>1, <4>1, LowLockWorks, Zenon
    <3>3. Moves(c, r, "reading")
      BY <1>0, <1>3, <2>1, <2>3, <3>2 DEF Moves, Place, LockInTransaction, Set, Goto, Label
    <3> QED
      BY <1>3, <2>3, <3>2, <3>3, StepLocking, Zenon DEF LockInTransaction
  <2>4. CASE CanLock(c, Shared) /\ k.held # Unlocked
    <3>1. r = k
      BY <1>0, <2>4 DEF Pager
    <3>2. Moves(c, k, "reading")
      BY <1>0, <1>3, <2>1, <2>4, <3>1 DEF Moves, Place, LockInTransaction, Set, Goto, Label
    <3>3. locks' = locks
      BY <1>0, <1>3, <2>4 DEF LockInTransaction, Lock, Acquire
    <3> QED
      BY <3>2, <3>3, StepWithoutLocking
  <2> QED
    BY <2>2, <2>3, <2>4
<1>4. CASE EndSelect(c)
  <2>1. pc[c] = "reading" /\ Working(k, disk) /\ k.held # Exclusive
    BY <1>0, <1>4 DEF EndSelect, At, Place
  <2>2. CASE ~inTx[c] /\ k.held = Shared
    <3>1. /\ [k EXCEPT !.held = Unlocked] \in Pager /\ Working([k EXCEPT !.held = Unlocked], disk)
          /\ [k EXCEPT !.held = Unlocked].held = Unlocked
          /\ [k EXCEPT !.held = Unlocked].header = k.header
      <4>1. k.held < Reserved /\ Unlocked \in {Unlocked, Shared}
        BY <2>2
      <4> HIDE DEF k
      <4> QED
        BY <1>0, <2>1, <4>1, LowLockWorks, Zenon
    <3>2. Moves(c, [k EXCEPT !.held = Unlocked], "idle")
      BY <1>0, <1>4, <2>1, <2>2, <3>1 DEF Moves, Place, EndSelect, Set, Goto, Label
    <3> QED
      BY <1>4, <2>2, <3>1, <3>2, StepUnlocking, Zenon DEF EndSelect
  <2>3. CASE ~(~inTx[c] /\ k.held = Shared)
    <3>1. pager' = [pager EXCEPT ![c] = k] /\ locks' = locks
      BY <1>4, <2>3 DEF EndSelect, IInv, Types
    <3>2. Moves(c, k, "idle")
      BY <1>0, <1>4, <2>1, <3>1 DEF Moves, Place, EndSelect, Goto, Label
    <3> QED
      BY <3>1, <3>2, StepWithoutLocking
  <2> QED
    BY <2>2, <2>3
<1>5. ASSUME NEW p \in Page, ReadPage(c, p)
      PROVE  IInv'
  <2>1. pc[c] \in {"reading", "writing"} /\ Working(k, disk)
    BY <1>0, <1>5 DEF ReadPage
  <2>2. /\ PageRead(k, p) \in Pager /\ Working(PageRead(k, p), disk)
        /\ PageRead(k, p).held = k.held /\ PageRead(k, p).header = k.header
    BY <1>0, <2>1, PageReadWorks
  <2>3. pc' = [pc EXCEPT ![c] = pc[c]]
    BY <1>5 DEF ReadPage, IInv, Types
  <2>4. Moves(c, PageRead(k, p), pc[c])
    BY <1>0, <1>5, <2>1, <2>2, <2>3, Zenon DEF Moves, Place, ReadPage, Set, Label
  <2> QED
    BY <1>5, <2>2, <2>4, StepWithoutLocking DEF ReadPage
<1> QED
  BY <1>1, <1>2, <1>3, <1>4, <1>5 DEF Query

\* execute: the statements that write.  ~Pragmas and ~Vacuums leave out
\* PragmaHeader and Vacuum, which work under weaker locks.
LEMMA WriteKeeps ==
  ASSUME IInv, ~Pragmas, ~Vacuums, NEW c \in Conn, threaded' = threaded, Write(c)
  PROVE  IInv'
<1> DEFINE k == pager[c]
<1>0. /\ FileOK /\ k \in Pager /\ inTx \in [Conn -> BOOLEAN] /\ Place(k, pc[c], disk)
      /\ k.held \in {Unlocked, Shared, Reserved, Exclusive}
      /\ pc[c] # "flushing" => Working(k, disk)
  BY InvFacts
<1>1. CASE StartWrite(c)
  <2>1. pc[c] = "idle" /\ Working(k, disk) /\ k.held # Exclusive
    BY <1>0, <1>1 DEF StartWrite, At, Place
  <2>2. /\ Revalidated(k) \in Pager /\ Working(Revalidated(k), disk)
        /\ Revalidated(k).held = k.held /\ Revalidated(k).header = k.header
    BY <1>0, <2>1, RevalidatedWorks
  <2>3. Moves(c, Revalidated(k), "intent")
    BY <1>0, <1>1, <2>1, <2>2 DEF Moves, Place, StartWrite, Set, Goto, Label
  <2> QED
    BY <1>1, <2>2, <2>3, StepWithoutLocking DEF StartWrite
<1>2. CASE IntentShared(c)
  <2>1. pc[c] = "intent" /\ Working(k, disk) /\ k.held # Exclusive
    BY <1>0, <1>2 DEF IntentShared, At, Place
  <2>2. CASE Goto(c, "writing") /\ k.held >= Reserved /\ UNCHANGED <<locks, pager>>
    <3>1. pager' = [pager EXCEPT ![c] = k]
      BY <2>2 DEF IInv, Types
    <3>2. Moves(c, k, "writing")
      BY <1>0, <1>2, <2>1, <2>2, <3>1, Zenon DEF Moves, Place, IntentShared, Goto, Label
    <3> QED
      BY <2>2, <3>2, StepWithoutLocking
  <2>3. CASE Goto(c, "upgrade") /\ k.held = Shared /\ UNCHANGED <<locks, pager>>
    <3>1. pager' = [pager EXCEPT ![c] = k]
      BY <2>3 DEF IInv, Types
    <3>2. Moves(c, k, "upgrade")
      BY <1>0, <1>2, <2>1, <2>3, <3>1, Zenon DEF Moves, Place, IntentShared, Goto, Label
    <3> QED
      BY <2>3, <3>2, StepWithoutLocking
  <2>4. CASE /\ k.held = Unlocked /\ CanLock(c, Shared) /\ Lock(c, Shared)
             /\ Set(c, [k EXCEPT !.held = Shared]) /\ Goto(c, "reserve")
    <3> DEFINE r == [k EXCEPT !.held = Shared]
    <3>1. r \in Pager /\ Working(r, disk) /\ r.held = Shared /\ r.header = k.header
      <4>1. k.held < Reserved /\ Shared \in {Unlocked, Shared}
        BY <2>4
      <4> HIDE DEF k
      <4> QED
        BY <1>0, <2>1, <4>1, LowLockWorks, Zenon
    <3>2. Moves(c, r, "reserve")
      BY <1>0, <1>2, <2>1, <2>4, <3>1 DEF Moves, Place, IntentShared, Set, Goto, Label
    <3> QED
      BY <2>4, <3>1, <3>2, StepLocking, Zenon
  <2>5. CASE Goto(c, "idle") /\ UNCHANGED <<locks, pager>>
    <3>1. pager' = [pager EXCEPT ![c] = k]
      BY <2>5 DEF IInv, Types
    <3>2. Moves(c, k, "idle")
      BY <1>0, <1>2, <2>1, <2>5, <3>1, Zenon DEF Moves, Place, IntentShared, Goto, Label
    <3> QED
      BY <2>5, <3>2, StepWithoutLocking
  <2> QED
    BY <1>2, <2>2, <2>3, <2>4, <2>5 DEF IntentShared
<1>3. CASE IntentReserved(c)
  <2>1. pc[c] \in {"reserve", "upgrade"} /\ Working(k, disk) /\ k.held = Shared
    BY <1>0, <1>3 DEF IntentReserved, Place
  <2>2. CASE CanLock(c, Reserved)
    <3> DEFINE r == Refreshed([CacheDropped(k) EXCEPT !.held = Reserved])
    <3>1. r \in Pager /\ Working(r, disk) /\ r.held = Reserved
      BY <1>0, <2>1, ReservedWorks
    <3> HIDE DEF r
    <3>2. Set(c, r) /\ Goto(c, "writing") /\ Lock(c, Reserved)
      BY <1>3, <2>2 DEF IntentReserved, r
    <3>3. Moves(c, r, "writing")
      BY <1>0, <1>3, <2>1, <3>1, <3>2 DEF Moves, Place, IntentReserved, Set, Goto, Label
    <3> QED
      BY <2>1, <2>2, <3>1, <3>2, <3>3, StepLocking
  <2>3. CASE ~CanLock(c, Reserved) /\ pc[c] = "reserve"
    <3>1. k.overlay = Clean
      BY <2>1 DEF Working
    <3>2. /\ Released(k) \in Pager /\ Working(Released(k), disk)
          /\ Released(k).held = Unlocked /\ Released(k).header = k.header
      BY <1>0, <2>1, <3>1, ReleasedWorks
    <3>3. Moves(c, Released(k), "idle")
      BY <1>0, <1>3, <2>1, <2>3, <3>2 DEF Moves, Place, IntentReserved, Set, Goto, Label
    <3> QED
      BY <1>3, <2>3, <3>2, <3>3, StepUnlocking DEF IntentReserved
  <2>4. CASE ~CanLock(c, Reserved) /\ pc[c] # "reserve"
    <3>1. pager' = [pager EXCEPT ![c] = k] /\ locks' = locks
      BY <1>3, <2>4 DEF IntentReserved, IInv, Types
    <3>2. Moves(c, k, "idle")
      BY <1>0, <1>3, <2>1, <2>4, <3>1 DEF Moves, Place, IntentReserved, Goto, Label
    <3> QED
      BY <3>1, <3>2, StepWithoutLocking
  <2> QED
    BY <2>2, <2>3, <2>4
<1>4. CASE AllocatePage(c)
  <2> DEFINE r == [k EXCEPT !.pageCount = k.pageCount + 1, !.overlay[k.pageCount + 1] = New]
  <2>1. pc[c] = "writing" /\ Working(k, disk) /\ k.held >= Reserved /\ k.pageCount < MaxPage
    BY <1>0, <1>4 DEF AllocatePage, At, Place
  <2>2. r \in Pager /\ Working(r, disk) /\ r.held = k.held /\ r.header = k.header
    BY <1>0, <2>1, PageAllocated, Zenon
  <2> HIDE DEF r
  <2>3. pc' = [pc EXCEPT ![c] = "writing"] /\ Set(c, r) /\ locks' = locks
    BY <1>4, <2>1 DEF AllocatePage, IInv, Types, r
  <2>4. Moves(c, r, "writing")
    BY <1>0, <1>4, <2>1, <2>2, <2>3, Zenon DEF Moves, Place, AllocatePage, Set, Label
  <2> QED
    BY <2>2, <2>3, <2>4, StepWithoutLocking
<1>5. CASE AbortWrite(c)
  <2> DEFINE q == Discarded(k)
             r == Released(q)
  <2>1. pc[c] = "writing" /\ Working(k, disk)
    BY <1>0, <1>5 DEF AbortWrite, At
  <2>2. q \in Pager /\ Working(q, disk) /\ q.header = k.header /\ q.overlay = Clean
    BY <1>0, <2>1, DiscardedWorks
  <2> HIDE DEF q
  <2>3. r \in Pager /\ Working(r, disk) /\ r.held = Unlocked /\ r.header = k.header
    BY <1>0, <2>2, ReleasedWorks
  <2> HIDE DEF r
  <2>4. Set(c, r) /\ Goto(c, "idle") /\ Unlock(c) /\ disk' = disk /\ inTx' = inTx
    BY <1>5 DEF AbortWrite, q, r
  <2>5. Moves(c, r, "idle")
    BY <1>0, <2>1, <2>3, <2>4 DEF Moves, Place, Set, Goto, Label
  <2> QED
    BY <2>3, <2>4, <2>5, StepUnlocking
<1>6. CASE EndWrite(c)
  <2>1. pc[c] = "writing" /\ Working(k, disk) /\ k.held # Exclusive
    BY <1>0, <1>6 DEF EndWrite, At, Place
  <2>2. PICK l \in {"idle", "commit"} : Goto(c, l)
    BY <1>6 DEF EndWrite
  <2>3. pager' = [pager EXCEPT ![c] = k] /\ locks' = locks
    BY <1>6 DEF EndWrite, IInv, Types
  <2>4. Moves(c, k, l)
    BY <1>0, <1>6, <2>1, <2>2, <2>3, Zenon DEF Moves, Place, EndWrite, Goto, Label
  <2> QED
    BY <2>3, <2>4, StepWithoutLocking
<1>7. ASSUME NEW p \in Page, WritePage(c, p)
      PROVE  IInv'
  <2> DEFINE r == [PageRead(k, p) EXCEPT !.overlay[p] = Content(k, p)]
  <2>1. /\ pc[c] = "writing" /\ Working(k, disk) /\ k.held >= Reserved
        /\ InRange(k, p) /\ k.overlay[p] = None
    BY <1>0, <1>7 DEF WritePage, At, Place
  <2>2. r \in Pager /\ Working(r, disk) /\ r.held = k.held /\ r.header = k.header
    BY <1>0, <2>1, PageStaged
  <2> HIDE DEF r
  <2>3. pc' = [pc EXCEPT ![c] = "writing"] /\ Set(c, r) /\ locks' = locks
    BY <1>7, <2>1 DEF WritePage, IInv, Types, r
  <2>4. Moves(c, r, "writing")
    BY <1>0, <1>7, <2>1, <2>2, <2>3, Zenon DEF Moves, Place, WritePage, Set, Label
  <2> QED
    BY <2>2, <2>3, <2>4, StepWithoutLocking
<1> QED
  BY <1>1, <1>2, <1>3, <1>4, <1>5, <1>6, <1>7, Zenon DEF Write, PragmaHeader, Vacuum

=============================================================================
