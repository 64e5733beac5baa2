-------------------------------- MODULE Wal --------------------------------
(***************************************************************************)
(* Connections of one process in WAL mode, each used by a thread of its    *)
(* own, over the shared wal-index and the main file: the WAL half of       *)
(* pager/write.rs.  The connections are open and attached to the log; the  *)
(* -wal file, what a crash does to it, and opens are not modelled here.    *)
(*                                                                         *)
(* A page's content is the serial number of the commit that wrote it.  To  *)
(* compare with, the model keeps the history of committed images, and with *)
(* each connection its `view', the number of the image it took its         *)
(* snapshot of.  `lapses' records the two interleavings that the code      *)
(* lets happen and does not survive; the properties hold until the first.  *)
(***************************************************************************)
EXTENDS LockState, WalIndex

CONSTANTS
  Conn,          \* connections
  Modes,         \* the modes PRAGMA wal_checkpoint is asked for
  MaxPage,       \* bound: pages the database may grow to
  MaxCommit,     \* bound: commits
  None           \* absent page, clean page, no mark

VARIABLES
  main,     \* page contents of the main file
  index,    \* the shared wal-index
  locks,    \* LockState of the path
  conn,     \* WritePager and WalRuntime of each connection
  inTx,     \* Connection.in_tx
  pc,       \* where the running statement of each connection is
  job,      \* locals of the running checkpoint_mode of each connection
  history,  \* the committed images, oldest first
  lapses    \* the interleavings without protection that have happened

vars == <<main, index, locks, conn, inTx, pc, job, history, lapses>>

Page == 1 .. MaxPage
Serial == 0 .. MaxCommit
New == MaxCommit + 1     \* what a freshly allocated page is derived from
Clean == [p \in Page |-> None]

\* A file is as long as its last page.
SizeOf(image) ==
  CHOOSE n \in 0 .. MaxPage :
    /\ n # 0 => image[n] # None
    /\ \A p \in Page : image[p] # None => p <= n

Frame == [page : Page, size : 0 .. MaxPage, data : Serial]
Image == [Page -> Serial \cup {None}]
NoJob == [mode |-> None]

TypeOK ==
  /\ main \in Image
  /\ index.log \in Seq(Frame) /\ index.backfill \in Nat /\ index.readers \in Seq(Nat)
  /\ locks \in LockStates
  /\ \A c \in Conn :
       /\ conn[c].held \in LockLevel
       /\ conn[c].snapshot \in Nat /\ conn[c].mark \in Nat \cup {None}
       /\ conn[c].dbSize \in 1 .. MaxPage /\ conn[c].pageCount \in 1 .. MaxPage
       /\ conn[c].overlay \in [Page -> Serial \cup {New, None}]
       /\ conn[c].view \in 0 .. Len(history)
  /\ inTx \in [Conn -> BOOLEAN]
  /\ pc \in [Conn -> {"idle", "reading", "writing", "append", "collect", "copy",
                      "publish", "finish", "restart", "end"}]
  /\ history \in Seq(Image)
  /\ lapses \subseteq {"stale upgrade", "two copies"}

\* The state after PRAGMA journal_mode = WAL, one commit and the opens: page 1
\* is in the main file and, newer, in the log.
Init ==
  /\ main = [Clean EXCEPT ![1] = 0]
  /\ index = [log |-> <<[page |-> 1, size |-> 1, data |-> 1]>>, backfill |-> 0,
              readers |-> <<>>]
  /\ locks = NoLocks
  /\ history = <<[Clean EXCEPT ![1] = 1]>>
  /\ conn = [c \in Conn |->
       [held |-> Unlocked, snapshot |-> 1, mark |-> None, dbSize |-> 1,
        pageCount |-> 1, overlay |-> Clean, view |-> 1]]
  /\ inTx = [c \in Conn |-> FALSE]
  /\ pc = [c \in Conn |-> "idle"]
  /\ job = [c \in Conn |-> NoJob]
  /\ lapses = {}

-----------------------------------------------------------------------------
At(c, label) == pc[c] = label

Goto(c, label) == pc' = [pc EXCEPT ![c] = label]

Set(c, k) == conn' = [conn EXCEPT ![c] = k]

CanLock(c, to) == CanAcquire(locks, conn[c].held, to)

Lock(c, to) == locks' = Acquire(locks, conn[c].held, to)

Raised(k, to) == [k EXCEPT !.held = IF @ < to THEN to ELSE @]

\* read_page for a page that is in range
Content(c, p) ==
  IF conn[c].overlay[p] # None THEN conn[c].overlay[p]
  ELSE IF InLog(index, p, conn[c].snapshot) THEN FindFrame(index, p, conn[c].snapshot)
  ELSE main[p]

\* A snapshot of the newest commit: the mark and the size go together.
Snapshot(k) ==
  [k EXCEPT !.snapshot = MxFrame(index), !.view = Len(history),
            !.dbSize = SnapshotDbSize(index, MxFrame(index), SizeOf(main))]

\* revalidate_read_cache: a pinned reader and a writer keep their snapshot.
Revalidated(k) == IF k.held >= Reserved \/ k.mark # None THEN k ELSE Snapshot(k)

\* release_locks and end_read_txn: locks and the reader's mark go together.
Released(k) == [k EXCEPT !.held = Unlocked, !.mark = None]

Unpinned(k) == IF k.mark = None THEN index ELSE UnregisterReader(index, k.mark)

-----------------------------------------------------------------------------
(***************************************************************************)
(* Reading                                                                 *)
(***************************************************************************)

\* An autocommit SELECT: SHARED, then the newest snapshot, not registered.
StartSelect(c) ==
  /\ At(c, "idle") /\ ~inTx[c] /\ CanLock(c, Shared)
  /\ Lock(c, Shared)
  /\ Set(c, Revalidated(Raised(conn[c], Shared)))
  /\ Goto(c, "reading")
  /\ UNCHANGED <<main, index, inTx, job, history>>

EndSelect(c) ==
  /\ At(c, "reading")
  /\ IF conn[c].held = Shared
     THEN locks' = Release(locks, Shared, Unlocked) /\ Set(c, [conn[c] EXCEPT !.held = Unlocked])
     ELSE UNCHANGED <<locks, conn>>
  /\ Goto(c, "idle")
  /\ UNCHANGED <<main, index, inTx, job, history>>

Begin(c) ==
  /\ At(c, "idle") /\ ~inTx[c]
  /\ Set(c, Revalidated(conn[c]))
  /\ inTx' = [inTx EXCEPT ![c] = TRUE]
  /\ UNCHANGED <<main, index, locks, pc, job, history>>

\* Mutant of ReadInTransaction: the snapshot is taken but not registered.
ReadInTransactionUnregistered(c) ==
  /\ At(c, "idle") /\ inTx[c] /\ conn[c].mark = None /\ CanLock(c, Shared)
  /\ Lock(c, Shared)
  /\ Set(c, [Snapshot(Raised(conn[c], Shared)) EXCEPT !.mark = MxFrame(index)])
  /\ UNCHANGED <<main, index, inTx, pc, job, history>>

\* The first SELECT of a transaction: begin_read_txn pins and registers.
ReadInTransaction(c) ==
  /\ At(c, "idle") /\ inTx[c] /\ conn[c].mark = None /\ CanLock(c, Shared)
  /\ Lock(c, Shared)
  /\ index' = RegisterReader(index, MxFrame(index))
  /\ Set(c, [Snapshot(Raised(conn[c], Shared)) EXCEPT !.mark = MxFrame(index)])
  /\ UNCHANGED <<main, inTx, pc, job, history>>

-----------------------------------------------------------------------------
(***************************************************************************)
(* Writing                                                                 *)
(***************************************************************************)

\* begin_write: RESERVED, then refresh_foreign_state, which leaves a pinned
\* snapshot and staged changes alone.
StartWrite(c) ==
  /\ At(c, "idle") /\ Len(history) < MaxCommit
  /\ CanLock(c, Shared) /\ CanLock(c, Reserved)
  /\ locks' = Acquire(Acquire(locks, conn[c].held, Shared), Raised(conn[c], Shared).held, Reserved)
  /\ LET k == Snapshot(conn[c])
     IN  Set(c, Raised(IF conn[c].held < Reserved /\ conn[c].mark = None /\ conn[c].overlay = Clean
                       THEN [k EXCEPT !.pageCount = k.dbSize] ELSE conn[c], Reserved))
  /\ Goto(c, "writing")
  /\ UNCHANGED <<main, index, inTx, job, history>>

WritePage(c, p) ==
  /\ At(c, "writing") /\ p <= conn[c].dbSize /\ conn[c].overlay[p] = None
  /\ Set(c, [conn[c] EXCEPT !.overlay[p] = Content(c, p)])
  /\ UNCHANGED <<main, index, locks, inTx, pc, job, history>>

AllocatePage(c) ==
  /\ At(c, "writing") /\ conn[c].pageCount < MaxPage
  /\ LET n == conn[c].pageCount + 1
     IN  Set(c, [conn[c] EXCEPT !.pageCount = n, !.overlay[n] = New])
  /\ UNCHANGED <<main, index, locks, inTx, pc, job, history>>

\* A statement of an open transaction ends without committing.
EndWrite(c) ==
  /\ At(c, "writing") /\ inTx[c]
  /\ Goto(c, "idle")
  /\ UNCHANGED <<main, index, locks, conn, inTx, job, history>>

\* ROLLBACK, or an autocommit statement that failed
Rollback(c) ==
  /\ \/ At(c, "idle") /\ inTx[c]
     \/ At(c, "writing") /\ ~inTx[c]
  /\ locks' = Release(locks, conn[c].held, Unlocked)
  /\ index' = Unpinned(conn[c])
  /\ Set(c, [Released(conn[c]) EXCEPT !.overlay = Clean, !.pageCount = conn[c].dbSize])
  /\ inTx' = [inTx EXCEPT ![c] = FALSE]
  /\ Goto(c, "idle")
  /\ UNCHANGED <<main, job, history>>

Committing(c) == \/ At(c, "idle") /\ inTx[c]
                 \/ At(c, "writing") /\ ~inTx[c]

CommitNothing(c) ==
  /\ Committing(c) /\ conn[c].overlay = Clean
  /\ locks' = Release(locks, conn[c].held, Unlocked)
  /\ index' = Unpinned(conn[c])
  /\ Set(c, Released(conn[c]))
  /\ inTx' = [inTx EXCEPT ![c] = FALSE]
  /\ Goto(c, "idle")
  /\ UNCHANGED <<main, job, history>>

\* Mutant of StartCommit: a log that is partly backfilled restarts.
StartCommitPartly(c) ==
  /\ Committing(c) /\ conn[c].overlay # Clean
  /\ index' = IF index.backfill > 0 /\ Marks(index) = {} THEN RestartHdr(index) ELSE index
  /\ Goto(c, "append")
  /\ UNCHANGED <<main, locks, conn, inTx, job, history>>

\* commit_wal: a log that is backfilled and unread restarts; then the frames
\* go to the -wal file.
StartCommit(c) ==
  /\ Committing(c) /\ conn[c].overlay # Clean
  /\ index' = IF /\ MxFrame(index) > 0
                 /\ index.backfill = MxFrame(index)
                 /\ Marks(index) = {}
              THEN RestartHdr(index) ELSE index
  /\ Goto(c, "append")
  /\ UNCHANGED <<main, locks, conn, inTx, job, history>>

Staged(k) == {p \in Page : p = 1 \/ k.overlay[p] # None}

\* The image this commit is meant to produce: its pages over the newest image.
NewImage(k) ==
  [p \in Page |-> IF p \in Staged(k) THEN Len(history) + 1 ELSE history[Len(history)][p]]

\* The pages of the overlay's BTreeMap as it is iterated: ascending.
Ascending(pages) ==
  CHOOSE s \in UNION {[1 .. n -> pages] : n \in 0 .. MaxPage} :
    /\ {s[i] : i \in DOMAIN s} = pages
    /\ \A i, j \in DOMAIN s : i < j => s[i] < s[j]

\* One frame per staged page in page order, page 1 included; the last one
\* carries the database size.
CommitLog(k) ==
  LET pages == Ascending(Staged(k))
  IN  [i \in DOMAIN pages |->
         [page |-> pages[i], size |-> IF i = Len(pages) THEN k.pageCount ELSE 0,
          data |-> Len(history) + 1]]

\* The synced frames are published in the index; the locks are released.
EndCommit(c) ==
  /\ At(c, "append")
  /\ LET ix == AppendFrames(index, CommitLog(conn[c]))
     IN  /\ index' = IF conn[c].mark = None THEN ix ELSE UnregisterReader(ix, conn[c].mark)
         /\ Set(c, [Released(conn[c]) EXCEPT !.snapshot = MxFrame(ix), !.overlay = Clean,
                                             !.dbSize = conn[c].pageCount,
                                             !.view = Len(history) + 1])
  /\ history' = Append(history, NewImage(conn[c]))
  /\ locks' = Release(locks, conn[c].held, Unlocked)
  /\ inTx' = [inTx EXCEPT ![c] = FALSE]
  /\ Goto(c, "idle")
  /\ UNCHANGED <<main, job>>

-----------------------------------------------------------------------------
(***************************************************************************)
(* checkpoint_mode, one index or file access at a time                     *)
(***************************************************************************)

\* The RESERVED lock (or the downgrade to PASSIVE), then the locals of
\* checkpoint_locked.
StartCheckpoint(c, mode) ==
  /\ At(c, "idle")
  /\ LET took == mode # "passive" /\ conn[c].held < Reserved /\ CanLock(c, Reserved)
         busy == mode # "passive" /\ conn[c].held < Reserved /\ ~CanLock(c, Reserved)
         mx   == MxFrame(index)
         safe == IF Marks(index) = {} \/ Least(Marks(index)) > mx THEN mx ELSE Least(Marks(index))
     IN  /\ locks' = IF took THEN Acquire(locks, conn[c].held, Reserved) ELSE locks
         /\ Set(c, IF took THEN [Revalidated(conn[c]) EXCEPT !.held = Reserved]
                           ELSE Revalidated(conn[c]))
         /\ job' = [job EXCEPT ![c] =
              [mode |-> IF busy THEN "passive" ELSE mode, entry |-> conn[c].held, took |-> took,
               mx |-> mx, safe |-> safe, size |-> FullDbSize(index), pages |-> {}]]
         /\ Goto(c, IF index.backfill < safe THEN "collect" ELSE "finish")
  /\ UNCHANGED <<main, index, inTx, history>>

CollectPages(c) ==
  /\ At(c, "collect")
  /\ job' = [job EXCEPT ![c].pages = BackfillPages(index, job[c].safe)]
  /\ Goto(c, "copy")
  /\ UNCHANGED <<main, index, locks, conn, inTx, history>>

\* The pages go to the main file; after the whole log it gets its size.
CopyPages(c) ==
  /\ At(c, "copy")
  /\ main' = [p \in Page |->
       IF \E f \in job[c].pages : f.page = p /\ p <= job[c].size
       THEN (CHOOSE f \in job[c].pages : f.page = p).data
       ELSE IF job[c].safe = job[c].mx /\ p > job[c].size THEN None ELSE main[p]]
  /\ Goto(c, "publish")
  /\ UNCHANGED <<index, locks, conn, inTx, job, history>>

PublishBackfill(c) ==
  /\ At(c, "publish")
  /\ index' = SetBackfill(index, job[c].safe)
  /\ Goto(c, "finish")
  /\ UNCHANGED <<main, locks, conn, inTx, job, history>>

\* Only TRUNCATE restarts the log itself, once it is backfilled and unread.
\* The index is unlocked between the question and the restart.
AskToRestart(c) ==
  /\ At(c, "finish")
  /\ Goto(c, IF job[c].mode = "truncate" /\ index.backfill >= job[c].mx /\ Marks(index) = {}
             THEN "restart" ELSE "end")
  /\ UNCHANGED <<main, index, locks, conn, inTx, job, history>>

\* A reader that registered in between loses its frames; its view says so.
RestartLog(c) ==
  /\ At(c, "restart")
  /\ index' = RestartHdr(index)
  /\ conn' = [d \in Conn |-> IF d # c /\ conn[d].mark # None
                             THEN [conn[d] EXCEPT !.view = 0] ELSE conn[d]]
  /\ Goto(c, "end")
  /\ UNCHANGED <<main, locks, inTx, job, history>>

\* The connection's own view moves on unless it is pinned; the lock goes back
\* to what it was.
EndCheckpoint(c) ==
  /\ At(c, "end")
  /\ Set(c, [conn[c] EXCEPT
       !.held = IF job[c].took THEN job[c].entry ELSE @,
       !.snapshot = IF conn[c].mark = None THEN MxFrame(index) ELSE @,
       !.dbSize = IF conn[c].mark = None /\ job[c].size # 0 THEN job[c].size ELSE @,
       !.view = IF conn[c].mark = None THEN Len(history) ELSE @])
  /\ locks' = IF job[c].took THEN Release(locks, conn[c].held, job[c].entry) ELSE locks
  /\ job' = [job EXCEPT ![c] = NoJob]
  /\ Goto(c, "idle")
  /\ UNCHANGED <<main, index, inTx, history>>

-----------------------------------------------------------------------------
Read(c) == StartSelect(c) \/ EndSelect(c) \/ Begin(c) \/ ReadInTransaction(c)

Write(c) == StartWrite(c) \/ AllocatePage(c) \/ EndWrite(c) \/ Rollback(c)
              \/ CommitNothing(c) \/ StartCommit(c) \/ EndCommit(c)
              \/ \E p \in Page : WritePage(c, p)

Checkpoint(c) == CollectPages(c) \/ CopyPages(c) \/ PublishBackfill(c) \/ AskToRestart(c)
                   \/ RestartLog(c) \/ EndCheckpoint(c)
                   \/ \E mode \in Modes : StartCheckpoint(c, mode)

\* A transaction that has read goes on to write: refresh_foreign_state returns
\* early for a pinned reader, which builds on a snapshot that is no longer the
\* newest, or on the page count of an earlier one.
StaleUpgrade(c) ==
  /\ At(c, "idle") /\ pc'[c] = "writing"
  /\ conn[c].held < Reserved /\ conn[c].mark # None
  /\ conn[c].view # Len(history) \/ conn[c].pageCount # conn[c].dbSize

Copying == {"collect", "copy", "publish"}

\* A checkpoint starts to copy while another does: PASSIVE takes no lock.
SecondCopy(c) ==
  /\ At(c, "idle") /\ pc'[c] = "collect"
  /\ \E d \in Conn : pc[d] \in Copying

Lapses(c) == (IF StaleUpgrade(c) THEN {"stale upgrade"} ELSE {})
               \cup (IF SecondCopy(c) THEN {"two copies"} ELSE {})

Next == \E c \in Conn : /\ Read(c) \/ Write(c) \/ Checkpoint(c)
                        /\ lapses' = lapses \cup Lapses(c)

Spec == Init /\ [][Next]_vars

\* The part of the behaviours the properties speak of; TLC goes no further.
Sound == lapses = {}

-----------------------------------------------------------------------------
(***************************************************************************)
(* Properties                                                              *)
(***************************************************************************)

SnapshotImage(c) == history[conn[c].view]

\* c reads exactly the image it took its snapshot of: its own staged pages
\* aside, every page and the size.
ReadsItsSnapshot(c) ==
  /\ conn[c].dbSize = SizeOf(SnapshotImage(c))
  /\ \A p \in 1 .. conn[c].dbSize : conn[c].overlay[p] = None => Content(c, p) = SnapshotImage(c)[p]

\* Repeatable read: a reader with a registered mark (begin_read_txn) keeps its image
\* through every commit, checkpoint and restart of the log by the others.  Only
\* TRUNCATE may take it away, from a reader that registered between its asking for
\* readers and its dropping the log (checkpoint_locked), and a lapse.
RepeatableRead ==
  Sound => \A c \in Conn : conn[c].mark # None /\ conn[c].view # 0 => ReadsItsSnapshot(c)

\* An autocommit SELECT reads one image to its end.  It does not hold:
\* begin_autocommit_read registers no mark that a checkpoint could respect.
StatementRead == \A c \in Conn : pc[c] = "reading" => ReadsItsSnapshot(c)

\* What a new reader would see: the log over the main file.
NewestImage ==
  LET mx == MxFrame(index)
      size == SnapshotDbSize(index, mx, SizeOf(main))
  IN  [p \in Page |-> CASE p > size            -> None
                        [] InLog(index, p, mx) -> FindFrame(index, p, mx)
                        [] OTHER               -> main[p]]

\* Between them the log and the main file hold the newest committed image.
NewestKept == NewestImage = history[Len(history)]

\* Dropping the log up to nBackfill loses nothing that the main file does not have.
BackfilledInMain ==
  /\ index.backfill <= MxFrame(index)
  /\ \A i \in 1 .. index.backfill :
       i = Newest(FramesOf(index, index.log[i].page, 0, MxFrame(index)))
         /\ index.log[i].page <= FullDbSize(index)
         => main[index.log[i].page] = index.log[i].data

\* A writer builds on the newest commit.
WritesOnNewest ==
  \A c \in Conn : pc[c] \in {"writing", "append"} => conn[c].view = Len(history)

\* No commit is lost, whatever checkpoints and restarts of the log have run
\* (checkpoint_locked, restart_hdr): the newest committed image is there; nBackfill
\* tells the truth ("frames <= this mark are durable in the main file"); and a writer
\* builds on the newest commit ("a concurrent process's commit can't land between
\* navigation and the write and be clobbered").  All of it until a transaction
\* writes on a stale snapshot or two checkpoints copy at the same time.
NothingLost == Sound => NewestKept /\ BackfilledInMain /\ WritesOnNewest

=============================================================================
