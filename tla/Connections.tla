---------------------------- MODULE Connections ----------------------------
(***************************************************************************)
(* Connections of one database in rollback-journal mode: what each pager   *)
(* (pager/write.rs) caches of the file, and the statement protocol of      *)
(* exec/mod.rs that is meant to keep it coherent with foreign commits.     *)
(*                                                                         *)
(* A page's content is the serial number of the commit that wrote it.      *)
(* Every commit writes page 1, so page 1's serial names the header too; a  *)
(* cached header remembers the commit it was parsed from as its `base`.    *)
(* A staged page remembers the content it was derived from.  Crashes are   *)
(* the subject of RollbackJournal; here every flush completes.             *)
(***************************************************************************)
EXTENDS LockState, Integers, Sequences, FiniteSets

CONSTANTS
  Conn,        \* connections, each with its own pager and file handle
  MaxPage,     \* bound: pages the file may grow to
  InitPages,   \* pages of the file at first
  MaxCommit,   \* bound: commits
  MaxSaves,    \* bound: open savepoints of a connection
  Pragmas,     \* PRAGMA user_version / application_id = n is issued too
  Vacuums,     \* VACUUM is issued too, outside transactions
  None         \* absent page, clean page, empty cache slot or token

ASSUME PageBounds == /\ MaxPage \in Nat /\ InitPages \in 1 .. MaxPage
                     /\ MaxCommit \in Nat /\ MaxSaves \in Nat
ASSUME FlagTypes == Pragmas \in BOOLEAN /\ Vacuums \in BOOLEAN
ASSUME NoneIsNoNumber == None \notin Int
ASSUME FiniteConn == IsFiniteSet(Conn)

VARIABLES
  disk,     \* the file: change counter, page contents
  locks,    \* LockState of the path
  pager,    \* WritePager of each connection
  inTx,     \* Connection.in_tx
  pc,       \* where the running statement of each connection is
  threaded  \* the connections run in threads or processes of their own, or on one

vars == <<disk, locks, pager, inTx, pc, threaded>>

Page == 1 .. MaxPage
Serial == 0 .. MaxCommit
New == -1     \* content a freshly allocated page is derived from

Header == [cc : Serial, base : Serial]
Overlay == [Page -> Serial \cup {New, None}]
Savepoint == [overlay : Overlay, header : Header, pageCount : 0 .. MaxPage]

Clean == [p \in Page |-> None]

SizeOf(d) == LET there == {p \in Page : d.page[p] # None}
             IN  CHOOSE n \in 0 .. MaxPage : there = 1 .. n

DiskHeader == [cc |-> disk.cc, base |-> disk.page[1]]

TypeOK ==
  /\ disk \in [cc : Serial, page : [Page -> Serial \cup {None}]]
  /\ locks \in LockStates
  /\ \A c \in Conn :
       /\ pager[c].held \in LockLevel
       /\ pager[c].header \in Header /\ pager[c].committed \in Header
       /\ pager[c].overlay \in Overlay
       /\ pager[c].diskPages \in 0 .. MaxPage /\ pager[c].pageCount \in 0 .. MaxPage
       /\ pager[c].cache \in [Page -> Serial \cup {None}]
       /\ pager[c].token \in Serial \cup {None}
       /\ pager[c].saves \in Seq(Savepoint)
  /\ inTx \in [Conn -> BOOLEAN]
  /\ pc \in [Conn -> {"idle", "locked", "validated", "reading", "intent", "reserve",
                      "upgrade", "writing", "commit", "flush", "flushing"}]
  /\ threaded \in BOOLEAN

\* Every connection opened the same file, with nothing cached.
Init ==
  /\ disk = [cc |-> 0, page |-> [p \in Page |-> IF p <= InitPages THEN 0 ELSE None]]
  /\ locks = NoLocks
  /\ pager = [c \in Conn |->
       [held |-> Unlocked, header |-> DiskHeader, committed |-> DiskHeader,
        overlay |-> Clean, diskPages |-> InitPages, pageCount |-> InitPages,
        cache |-> Clean, token |-> None, saves |-> <<>>]]
  /\ inTx = [c \in Conn |-> FALSE]
  /\ pc = [c \in Conn |-> "idle"]
  /\ threaded \in BOOLEAN

-----------------------------------------------------------------------------
(***************************************************************************)
(* The pager's methods, as functions of its state k and the file           *)
(***************************************************************************)

CacheDropped(k) == [k EXCEPT !.cache = Clean, !.token = None]

\* Mutant of Revalidated: a moved counter drops the pages, the page bound stays.
RevalidatedKeepingBound(k) ==
  IF k.held >= Reserved \/ k.token = disk.cc THEN k
  ELSE [k EXCEPT !.cache = Clean, !.token = disk.cc]

\* revalidate_read_cache: a moved change counter drops the cache and
\* re-derives the page bound.
Revalidated(k) ==
  IF k.held >= Reserved \/ k.token = disk.cc THEN k
  ELSE [k EXCEPT !.cache = Clean, !.token = disk.cc,
                 !.diskPages = SizeOf(disk), !.pageCount = SizeOf(disk)]

Cacheable(k) == k.held >= Reserved \/ k.token # None

\* The bytes read_page returns for a page within range.
Content(k, p) ==
  IF k.overlay[p] # None THEN k.overlay[p]
  ELSE IF Cacheable(k) /\ k.cache[p] # None THEN k.cache[p] ELSE disk.page[p]

InRange(k, p) == k.overlay[p] # None \/ p <= k.diskPages

\* read_page fills the cache with what it took from the file.
PageRead(k, p) ==
  IF k.overlay[p] = None /\ Cacheable(k) THEN [k EXCEPT !.cache[p] = Content(k, p)] ELSE k

\* adopt_committed_header: savepoints with nothing staged are re-stamped.
Adopted(k, h) ==
  [k EXCEPT !.header = h, !.committed = h,
            !.saves = [i \in DOMAIN @ |->
              IF @[i].overlay = Clean
              THEN [@[i] EXCEPT !.header = h, !.pageCount = k.pageCount] ELSE @[i]]]

\* Mutant of Refreshed: the committed header parsed at open is kept.
RefreshedNot(k) == k

\* refresh_foreign_state
Refreshed(k) ==
  IF k.overlay # Clean \/ k.header # k.committed \/ disk.cc = k.header.cc THEN k
  ELSE Adopted([k EXCEPT !.diskPages = SizeOf(disk), !.pageCount = SizeOf(disk)], DiskHeader)

\* rollback, without its release_locks
Discarded(k) == [k EXCEPT !.overlay = Clean, !.header = k.committed,
                          !.pageCount = k.diskPages, !.saves = <<>>]

-----------------------------------------------------------------------------
(***************************************************************************)
(* Locks.  File::lock(to) succeeds only when the other handles allow it.   *)
(***************************************************************************)

CanLock(c, to) == CanAcquire(locks, pager[c].held, to)

Lock(c, to) == locks' = Acquire(locks, pager[c].held, to)

Unlock(c) == locks' = Release(locks, pager[c].held, Unlocked)

\* release_locks: the cache goes with the lock.
Released(k) == IF k.held = Unlocked THEN k ELSE [CacheDropped(k) EXCEPT !.held = Unlocked]

Set(c, k) == pager' = [pager EXCEPT ![c] = k]

Goto(c, label) == pc' = [pc EXCEPT ![c] = label]

\* Connections of one thread switch between statements only.
Runs(c) == threaded \/ \A other \in Conn \ {c} : pc[other] = "idle"

At(c, label) == pc[c] = label /\ Runs(c)

-----------------------------------------------------------------------------
(***************************************************************************)
(* query: an autocommit SELECT locks, then revalidates; inside a           *)
(* transaction it revalidates, then locks.                                 *)
(***************************************************************************)

\* begin_autocommit_read
LockForSelect(c) ==
  /\ At(c, "idle") /\ ~inTx[c] /\ CanLock(c, Shared)
  /\ Lock(c, Shared)
  /\ Set(c, [pager[c] EXCEPT !.held = IF @ < Shared THEN Shared ELSE @])
  /\ Goto(c, "locked")
  /\ UNCHANGED <<disk, inTx>>

ValidateForSelect(c) ==
  /\ At(c, "locked")
  /\ Set(c, Revalidated(pager[c]))
  /\ Goto(c, "reading")
  /\ UNCHANGED <<disk, locks, inTx>>

ValidateInTransaction(c) ==
  /\ At(c, "idle") /\ inTx[c]
  /\ Set(c, Revalidated(pager[c]))
  /\ Goto(c, "validated")
  /\ UNCHANGED <<disk, locks, inTx>>

\* ensure_read_txn_lock, begin_read_txn: SHARED, or the statement fails with Busy.
LockInTransaction(c) ==
  /\ At(c, "validated")
  /\ \/ /\ CanLock(c, Shared) /\ Lock(c, Shared)
        /\ Set(c, [pager[c] EXCEPT !.held = IF @ < Shared THEN Shared ELSE @])
        /\ Goto(c, "reading")
     \/ ~CanLock(c, Shared) /\ Goto(c, "idle") /\ UNCHANGED <<locks, pager>>
  /\ UNCHANGED <<disk, inTx>>

ReadPage(c, p) ==
  /\ pc[c] \in {"reading", "writing"} /\ Runs(c)
  /\ InRange(pager[c], p)
  /\ Set(c, PageRead(pager[c], p))
  /\ UNCHANGED <<disk, locks, inTx, pc>>

\* The statement returns; end_autocommit_read gives a transient SHARED back
\* and leaves the cache to the next revalidation.
EndSelect(c) ==
  /\ At(c, "reading")
  /\ IF ~inTx[c] /\ pager[c].held = Shared
     THEN Unlock(c) /\ Set(c, [pager[c] EXCEPT !.held = Unlocked])
     ELSE UNCHANGED <<locks, pager>>
  /\ Goto(c, "idle")
  /\ UNCHANGED <<disk, inTx>>

-----------------------------------------------------------------------------
(***************************************************************************)
(* execute: every statement revalidates first, whatever lock it holds      *)
(***************************************************************************)

Begin(c) ==
  /\ At(c, "idle") /\ ~inTx[c]
  /\ Set(c, Revalidated(pager[c]))
  /\ inTx' = [inTx EXCEPT ![c] = TRUE]
  /\ UNCHANGED <<disk, locks, pc>>

\* SAVEPOINT inside a transaction
OpenSavepoint(c) ==
  /\ At(c, "idle") /\ inTx[c] /\ Len(pager[c].saves) < MaxSaves
  /\ LET k == Revalidated(pager[c])
     IN  Set(c, [k EXCEPT !.saves = Append(@, [overlay |-> k.overlay, header |-> k.header,
                                               pageCount |-> k.pageCount])])
  /\ UNCHANGED <<disk, locks, inTx, pc>>

RollbackTo(c) ==
  /\ At(c, "idle") /\ inTx[c]
  /\ \E i \in 1 .. Len(pager[c].saves) :
       LET k == Revalidated(pager[c])
       IN  Set(c, [k EXCEPT !.overlay = k.saves[i].overlay, !.header = k.saves[i].header,
                            !.pageCount = k.saves[i].pageCount,
                            !.saves = SubSeq(@, 1, i)])
  /\ UNCHANGED <<disk, locks, inTx, pc>>

ReleaseSavepoint(c) ==
  /\ At(c, "idle") /\ inTx[c]
  /\ \E i \in 1 .. Len(pager[c].saves) :
       LET k == Revalidated(pager[c]) IN Set(c, [k EXCEPT !.saves = SubSeq(@, 1, i - 1)])
  /\ UNCHANGED <<disk, locks, inTx, pc>>

Rollback(c) ==
  /\ At(c, "idle") /\ inTx[c]
  /\ Unlock(c)
  /\ Set(c, Released(Discarded(Revalidated(pager[c]))))
  /\ inTx' = [inTx EXCEPT ![c] = FALSE]
  /\ UNCHANGED <<disk, pc>>

\* A statement for which statement_writes_db holds: begin_write comes next.
StartWrite(c) ==
  /\ At(c, "idle")
  /\ Set(c, Revalidated(pager[c]))
  /\ Goto(c, "intent")
  /\ UNCHANGED <<disk, locks, inTx>>

\* acquire_write_intent up to SHARED; Busy fails the statement.
IntentShared(c) ==
  /\ At(c, "intent")
  /\ \/ /\ pager[c].held >= Reserved
        /\ Goto(c, "writing") /\ UNCHANGED <<locks, pager>>
     \/ /\ pager[c].held = Shared
        /\ Goto(c, "upgrade") /\ UNCHANGED <<locks, pager>>
     \/ /\ pager[c].held = Unlocked /\ CanLock(c, Shared) /\ Lock(c, Shared)
        /\ Set(c, [pager[c] EXCEPT !.held = Shared]) /\ Goto(c, "reserve")
     \/ /\ pager[c].held = Unlocked /\ ~CanLock(c, Shared)
        /\ Goto(c, "idle") /\ UNCHANGED <<locks, pager>>
  /\ UNCHANGED <<disk, inTx>>

\* ... and RESERVED, which drops the cache and refreshes the header.  When it
\* is refused, a lock this call took ("reserve") is given back.
IntentReserved(c) ==
  /\ pc[c] \in {"reserve", "upgrade"} /\ Runs(c)
  /\ \/ /\ CanLock(c, Reserved) /\ Lock(c, Reserved)
        /\ Set(c, Refreshed([CacheDropped(pager[c]) EXCEPT !.held = Reserved]))
        /\ Goto(c, "writing")
     \/ /\ ~CanLock(c, Reserved)
        /\ IF pc[c] = "reserve" THEN Unlock(c) /\ Set(c, Released(pager[c]))
                                ELSE UNCHANGED <<locks, pager>>
        /\ Goto(c, "idle")
  /\ UNCHANGED <<disk, inTx>>

\* The statement reads a page and stages its new content with write_page.
WritePage(c, p) ==
  /\ At(c, "writing")
  /\ InRange(pager[c], p) /\ pager[c].overlay[p] = None /\ disk.page[1] < MaxCommit
  /\ LET k == PageRead(pager[c], p)
     IN  Set(c, [k EXCEPT !.overlay[p] = Content(pager[c], p)])
  /\ UNCHANGED <<disk, locks, inTx, pc>>

\* allocate_page past the end (the freelist is the subject of Pages)
AllocatePage(c) ==
  /\ At(c, "writing") /\ pager[c].pageCount < MaxPage /\ disk.page[1] < MaxCommit
  /\ LET n == pager[c].pageCount + 1
     IN  Set(c, [pager[c] EXCEPT !.pageCount = n, !.overlay[n] = New])
  /\ UNCHANGED <<disk, locks, inTx, pc>>

\* run_dml_atomic on an error in autocommit
AbortWrite(c) ==
  /\ At(c, "writing") /\ ~inTx[c]
  /\ Unlock(c)
  /\ Set(c, Released(Discarded(pager[c])))
  /\ Goto(c, "idle")
  /\ UNCHANGED <<disk, inTx>>

\* The statement succeeds; outside a transaction it commits.
EndWrite(c) ==
  /\ At(c, "writing")
  /\ Goto(c, IF inTx[c] THEN "idle" ELSE "commit")
  /\ UNCHANGED <<disk, locks, pager, inTx>>

\* PRAGMA user_version = n: header_mut stages page 1 under whatever lock is held.
PragmaHeader(c) ==
  /\ Pragmas
  /\ At(c, "idle")
  /\ LET k == Revalidated(pager[c])
     IN  Set(c, IF k.overlay[1] # None THEN k
                ELSE [PageRead(k, 1) EXCEPT !.overlay[1] = Content(k, 1)])
  /\ Goto(c, IF inTx[c] THEN "idle" ELSE "commit")
  /\ UNCHANGED <<disk, locks, inTx>>

\* VACUUM under the write intent: replace_image overwrites the file in place
\* with an image built elsewhere, header and change counter included.  A
\* non-zero user_version is then re-stamped through an ordinary commit.
Vacuum(c) ==
  /\ Vacuums
  /\ At(c, "writing") /\ ~inTx[c] /\ disk.page[1] + 1 < MaxCommit
  /\ \E n \in Page, cc \in Serial, restamp \in BOOLEAN :
       LET base == disk.page[1] + 1
           h == [cc |-> cc, base |-> base]
       IN  /\ cc < MaxCommit
           /\ disk' = [cc |-> cc, page |-> [p \in Page |-> IF p <= n THEN base ELSE None]]
           /\ Set(c, [pager[c] EXCEPT !.header = h, !.committed = h, !.cache = Clean,
                                      !.diskPages = n, !.pageCount = n,
                                      !.overlay = IF restamp THEN [Clean EXCEPT ![1] = base]
                                                             ELSE Clean])
  /\ Goto(c, "commit")
  /\ UNCHANGED <<locks, inTx>>

-----------------------------------------------------------------------------
(***************************************************************************)
(* commit                                                                  *)
(***************************************************************************)

\* COMMIT
StartCommit(c) ==
  /\ At(c, "idle") /\ inTx[c]
  /\ Set(c, Revalidated(pager[c]))
  /\ Goto(c, "commit")
  /\ UNCHANGED <<disk, locks, inTx>>

\* Nothing staged: the locks are released, the savepoints are not.
CommitNothing(c) ==
  /\ At(c, "commit") /\ pager[c].overlay = Clean
  /\ Unlock(c)
  /\ Set(c, Released(pager[c]))
  /\ inTx' = [inTx EXCEPT ![c] = FALSE]
  /\ Goto(c, "idle")
  /\ UNCHANGED disk

\* Mutant of CommitLock: the flush starts under RESERVED.
CommitLockReserved(c) ==
  /\ At(c, "commit") /\ pager[c].overlay # Clean /\ disk.page[1] < MaxCommit
  /\ pager[c].held >= Reserved
  /\ Goto(c, "flush")
  /\ UNCHANGED <<disk, locks, pager, inTx>>

\* acquire_exclusive.  RESERVED may be missing when only header_mut staged;
\* Busy leaves everything staged and the transaction as it was.
CommitLock(c) ==
  /\ At(c, "commit") /\ pager[c].overlay # Clean /\ disk.page[1] < MaxCommit
  /\ \/ /\ pager[c].held < Reserved /\ CanLock(c, Shared) /\ CanLock(c, Reserved)
        /\ locks' = Acquire(Acquire(locks, pager[c].held, Shared), Shared, Reserved)
        /\ Set(c, Refreshed([CacheDropped(pager[c]) EXCEPT !.held = Reserved]))
        /\ UNCHANGED pc
     \/ /\ pager[c].held < Reserved /\ ~(CanLock(c, Shared) /\ CanLock(c, Reserved))
        /\ Set(c, IF pager[c].held = Unlocked /\ CanLock(c, Shared)
                  THEN CacheDropped(pager[c]) ELSE pager[c])
        /\ Goto(c, "idle") /\ UNCHANGED locks
     \/ /\ pager[c].held >= Reserved /\ CanLock(c, Exclusive) /\ Lock(c, Exclusive)
        /\ Set(c, [pager[c] EXCEPT !.held = Exclusive]) /\ Goto(c, "flush")
     \/ /\ pager[c].held >= Reserved /\ ~CanLock(c, Exclusive)
        /\ Goto(c, "idle") /\ UNCHANGED <<locks, pager>>
  /\ UNCHANGED <<disk, inTx>>

\* Dirty pages are written in page order: page 1, with the header re-stamped
\* from the cached one, first.
FlushHeader(c) ==
  /\ At(c, "flush")
  /\ LET h == [cc |-> pager[c].header.cc + 1, base |-> disk.page[1] + 1]
     IN  /\ disk' = [disk EXCEPT !.cc = h.cc, !.page[1] = h.base]
         /\ Set(c, [pager[c] EXCEPT !.header = h, !.overlay[1] = Content(pager[c], 1)])
  /\ Goto(c, "flushing")
  /\ UNCHANGED <<locks, inTx>>

\* The other pages, truncate to page_count, and the end of commit.
FlushPages(c) ==
  /\ At(c, "flushing")
  /\ disk' = [disk EXCEPT !.page = [p \in Page |->
                IF p > pager[c].pageCount THEN None
                ELSE IF pager[c].overlay[p] # None THEN disk.page[1] ELSE disk.page[p]]]
  /\ Unlock(c)
  /\ Set(c, [Released(pager[c]) EXCEPT !.diskPages = pager[c].pageCount, !.overlay = Clean,
                                       !.committed = pager[c].header, !.saves = <<>>])
  /\ inTx' = [inTx EXCEPT ![c] = FALSE]
  /\ Goto(c, "idle")

-----------------------------------------------------------------------------
Query(c) == LockForSelect(c) \/ ValidateForSelect(c) \/ ValidateInTransaction(c)
              \/ LockInTransaction(c) \/ EndSelect(c) \/ \E p \in Page : ReadPage(c, p)

Write(c) == StartWrite(c) \/ IntentShared(c) \/ IntentReserved(c) \/ AllocatePage(c)
              \/ AbortWrite(c) \/ EndWrite(c) \/ PragmaHeader(c)
              \/ Vacuum(c) \/ \E p \in Page : WritePage(c, p)

Transaction(c) == Begin(c) \/ OpenSavepoint(c) \/ RollbackTo(c) \/ ReleaseSavepoint(c)
                    \/ Rollback(c) \/ StartCommit(c) \/ CommitNothing(c) \/ CommitLock(c)
                    \/ FlushHeader(c) \/ FlushPages(c)

Next == UNCHANGED threaded /\ \E c \in Conn : Query(c) \/ Write(c) \/ Transaction(c)

Spec == Init /\ [][Next]_vars

-----------------------------------------------------------------------------
(***************************************************************************)
(* Properties                                                              *)
(***************************************************************************)

Writer(c) == pager[c].held >= Reserved /\ pc[c] # "flushing"

\* What a writer is about to flush was derived from what it will overwrite:
\* every staged page from the page now in the file, every new page from past
\* its end.  (begin_write: without it the writer "re-writing them drops the
\* foreign commit's rows".)
NoLostUpdate ==
  \A c \in DOMAIN pager : Writer(c) =>
    \A p \in Page : pager[c].overlay[p] \in {None, IF disk.page[p] = None THEN New
                                                   ELSE disk.page[p]}

\* A writer's header, and the header each of its savepoints would bring back,
\* is the file's: ROLLBACK TO never resurrects the state before a foreign
\* commit (adopt_committed_header).
HeaderCurrent ==
  \A c \in DOMAIN pager : Writer(c) =>
    /\ pager[c].header = DiskHeader /\ pager[c].committed = DiskHeader
    /\ pager[c].diskPages = SizeOf(disk)
    /\ \A i \in DOMAIN pager[c].saves :
         LET s == pager[c].saves[i]
         IN  /\ s.header = DiskHeader
             /\ s.overlay = Clean => s.pageCount = SizeOf(disk)

Coherent(c) ==
  /\ pager[c].diskPages = SizeOf(disk)
  /\ \A p \in Page : Cacheable(pager[c]) => pager[c].cache[p] \in {None, disk.page[p]}

\* A writer works on the file as it is: acquire_write_intent leaves nothing in
\* the cache, and no page bound, that predates its RESERVED lock.
WriterReadsCommitted == \A c \in DOMAIN pager : pc[c] = "writing" => Coherent(c)

\* So does every SELECT (revalidate_read_cache: a moved counter "drops
\* the entire cache").  It holds while connections take turns on one thread: other
\* threads may commit between the unlocked look at the counter and the lock.
ReadsCommitted == \A c \in DOMAIN pager : pc[c] \in {"reading", "writing"} => Coherent(c)

\* Every statement works on the file as it is.  A writer's header, size, savepoints and
\* cache are the file's from RESERVED on (adopt_committed_header, acquire_write_intent);
\* a SELECT's cache and page bound are while connections take turns
\* (revalidate_read_cache).
StatementsReadCommitted ==
  HeaderCurrent /\ WriterReadsCommitted /\ (~threaded => ReadsCommitted)

\* VACUUM replaces the file, change counter included.
Vacuumed(c) == pc[c] = "writing" /\ pc'[c] = "commit"

\* The file does not change while a connection holds SHARED: an open read
\* transaction "must keep the database's committed snapshot stable".  And whoever
\* comes later can tell: every commit moves the change counter, "SQLite's
\* monotonic `the file changed' token", forward.
StableUnderShared ==
  [][ /\ \A c \in DOMAIN pager :
           pager[c].held = Shared /\ pager'[c].held = Shared => disk' = disk
      /\ disk'.page[1] # disk.page[1] =>
           disk'.cc > disk.cc \/ \E c \in DOMAIN pager : Vacuumed(c) ]_vars

\* A statement that is running sees the header of the newest commit
\* (query_params: "so this statement sees the newest committed data").  It does
\* not hold: revalidate_read_cache leaves the parsed header alone.
ReadsNewestHeader ==
  \A c \in Conn : pc[c] = "reading" /\ pager[c].overlay = Clean => pager[c].header = DiskHeader

\* Outside a transaction, between statements, nothing is staged and no write
\* lock is held.
AutocommitLeavesNothing ==
  \A c \in DOMAIN pager : pc[c] = "idle" /\ ~inTx[c] =>
    pager[c].overlay = Clean /\ pager[c].held < Reserved

=============================================================================
