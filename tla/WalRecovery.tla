---------------------------- MODULE WalRecovery ----------------------------
(***************************************************************************)
(* The write-ahead log of one process on files whose unsynced writes a     *)
(* crash may lose: commit_wal, the checkpoints, and what the next open     *)
(* (attach_wal) makes of the -wal file it finds.  Module Wal has the       *)
(* interleaving of several connections and no crashes; here there is one   *)
(* connection, and readers appear only as the mark that limits a           *)
(* checkpoint.                                                             *)
(*                                                                         *)
(* A page's content is the serial number of the commit that wrote it.  A   *)
(* frame's checksum is ideal: it names the salt and every frame from the   *)
(* head of the log to this one.                                            *)
(***************************************************************************)
EXTENDS WalIndex, FiniteSets

CONSTANTS
  MaxPage,     \* bound: pages the database may grow to
  MaxCommit,   \* bound: commits
  MaxCrash,    \* bound: crashes
  Devices,     \* kinds of storage: "ordered", "reordering"
  None         \* no frame in a slot, no header, no page

Page == 1 .. MaxPage
Serial == 0 .. MaxCommit
Slot == 1 .. MaxPage * MaxCommit     \* frames of the -wal file

VARIABLES
  wal,      \* the -wal file as last synced: its header's salt, its frames
  walQ,     \* writes to it since, in order
  main,     \* the database file as last synced
  mainQ,    \* writes to it since
  ix,       \* the wal-index of the process
  salt,     \* the salts in force in the index
  mode,     \* "wal", "rollback" (opened with nothing in the log) or "closed"
  pc,       \* where the running commit or checkpoint is
  want,     \* image of the last commit that returned
  maybe,    \* image of the commit that is running, else want
  commits, crashes,
  device,   \* a reordering device may persist unsynced writes of a file in any order
  exposed   \* since the open: "inPlace", a commit has overwritten the log from its
            \* head; "vacuum", a VACUUM is replacing the file

vars == <<wal, walQ, main, mainQ, ix, salt, mode, pc, want, maybe, commits, crashes, device, exposed>>
setting == <<device, exposed>>

Image == [Page -> Serial \cup {None}]
SizeOf(img) == Cardinality({p \in Page : img[p] # None})

Empty == [salt |-> None, frame |-> [s \in Slot |-> None]]
NewIndex == [log |-> <<>>, backfill |-> 0, readers |-> <<>>]

Init ==
  /\ wal = Empty /\ walQ = <<>> /\ mainQ = <<>>
  /\ main = [p \in Page |-> IF p = 1 THEN 0 ELSE None]
  /\ ix = NewIndex /\ salt = 1
  /\ mode = "wal" /\ pc = "idle"
  /\ want = main /\ maybe = main
  /\ commits = 0 /\ crashes = 0
  /\ device \in Devices /\ exposed = {}

----------------------------------------------------------------------------
(* Files.  A write is a header, a frame at a slot, a page, or a truncation. *)

WriteWal(f, w) ==
  CASE w.kind = "header" -> [f EXCEPT !.salt = w.salt]
    [] w.kind = "frame"  -> [f EXCEPT !.frame[w.slot] = w.frame]
    [] OTHER             -> Empty

WriteMain(f, w) ==
  IF w.kind = "page" THEN [f EXCEPT ![w.page] = w.data]
  ELSE [p \in Page |-> IF p <= w.size THEN f[p] ELSE None]

\* The writes of q at the positions of s reach the file, in their order.
Persist(f, q, s, Write(_, _)) ==
  LET done[i \in 0 .. Len(q)] ==
        IF i = 0 THEN f
        ELSE IF i \in s THEN Write(done[i - 1], q[i]) ELSE done[i - 1]
  IN  done[Len(q)]

WalNow == Persist(wal, walQ, 1 .. Len(walQ), WriteWal)
MainNow == Persist(main, mainQ, 1 .. Len(mainQ), WriteMain)

\* What a crash may leave of q: a prefix, or any part of it.
Survivors(q) == IF device = "reordering" THEN SUBSET (1 .. Len(q)) ELSE {1 .. n : n \in 0 .. Len(q)}

----------------------------------------------------------------------------
(* Reading through the index. *)

View == [p \in Page |->
           IF p > SnapshotDbSize(ix, MxFrame(ix), SizeOf(MainNow)) THEN None
           ELSE IF InLog(ix, p, MxFrame(ix)) THEN FindFrame(ix, p, MxFrame(ix))
           ELSE MainNow[p]]

----------------------------------------------------------------------------
(* commit_wal *)

\* The frames of a commit of image img that writes pages ps, in page order; the
\* last one carries the size.
FramesFor(img, ps) ==
  [i \in 1 .. Cardinality(ps) |->
     LET p == CHOOSE q \in ps : Cardinality({r \in ps : r <= q}) = i
     IN  [page |-> p, data |-> img[p],
          size |-> IF i = Cardinality(ps) THEN SizeOf(img) ELSE 0]]

\* Every frame of the log is in the main file and nobody reads from it.
RestartLog == MxFrame(ix) > 0 /\ ix.backfill = MxFrame(ix) /\ ix.readers = <<>>

\* A frame on disk: the salts it was written under and the running checksum.
OnDisk(log, i, s) == [page |-> log[i].page, size |-> log[i].size, data |-> log[i].data,
                      salt |-> s, sum |-> <<s, SubSeq(log, 1, i)>>]

\* The log restarts when it may, a new log gets a header, the frames follow; all
\* of it is one run of writes with no sync inside.
StartCommit ==
  /\ mode = "wal" /\ pc = "idle" /\ commits < MaxCommit
  /\ \E ps \in SUBSET Page :
       /\ 1 \in ps
       /\ \E n \in SizeOf(View) .. MaxPage :
            /\ \A p \in Page : p > SizeOf(View) /\ p <= n => p \in ps
            /\ \A p \in ps : p <= n
       /\ LET img == [p \in Page |-> IF p \in ps THEN commits + 1 ELSE View[p]]
              old == IF RestartLog THEN RestartHdr(ix) ELSE ix
              s   == IF RestartLog THEN salt + 1 ELSE salt
              log == old.log \o FramesFor(img, ps)
              new == [i \in 1 .. Cardinality(ps) |->
                        [kind |-> "frame", slot |-> Len(old.log) + i,
                         frame |-> OnDisk(log, Len(old.log) + i, s)]]
          IN  /\ ix' = old /\ salt' = s /\ maybe' = img
              /\ walQ' = walQ \o (IF old.log = <<>> THEN <<[kind |-> "header", salt |-> s]>>
                                                   ELSE <<>>) \o new
  /\ pc' = "appended" /\ commits' = commits + 1
  /\ exposed' = IF RestartLog THEN exposed \cup {"inPlace"} ELSE exposed
  /\ UNCHANGED <<wal, main, mainQ, mode, want, crashes, device>>

\* sync, then the frames are published in the index.
SyncCommit ==
  /\ pc = "appended" /\ mode = "wal"
  /\ wal' = WalNow /\ walQ' = <<>>
  /\ LET new == SelectSeq(walQ, LAMBDA w : w.kind = "frame")
     IN  ix' = AppendFrames(ix, [i \in 1 .. Len(new) |->
                 [page |-> new[i].frame.page, size |-> new[i].frame.size,
                  data |-> new[i].frame.data]])
  /\ want' = maybe /\ pc' = "idle"
  /\ UNCHANGED <<main, mainQ, salt, mode, maybe, commits, crashes, setting>>

----------------------------------------------------------------------------
(* checkpoint_locked *)

\* A reader starts, and pins its mark; it ends.
PinReader ==
  /\ mode = "wal" /\ pc = "idle" /\ ix.readers = <<>>
  /\ ix' = RegisterReader(ix, MxFrame(ix))
  /\ UNCHANGED <<wal, walQ, main, mainQ, salt, mode, pc, want, maybe, commits, crashes, setting>>

UnpinReader ==
  /\ mode = "wal" /\ pc = "idle" /\ ix.readers # <<>>
  /\ ix' = UnregisterReader(ix, ix.readers[1])
  /\ UNCHANGED <<wal, walQ, main, mainQ, salt, mode, pc, want, maybe, commits, crashes, setting>>

Safe == IF Marks(ix) = {} \/ Least(Marks(ix)) >= MxFrame(ix) THEN MxFrame(ix)
        ELSE Least(Marks(ix))

\* The newest safe frame of each page is written to the main file, which is cut
\* to its size when that was the whole log.
CheckpointWrite ==
  /\ mode = "wal" /\ pc = "idle" /\ ix.backfill < Safe
  /\ LET fs == BackfillPages(ix, Safe)
         page(p) == CHOOSE f \in fs : f.page = p
         ps == {p \in Page : (\E f \in fs : f.page = p) /\ p <= FullDbSize(ix)}
         nth(i) == CHOOSE p \in ps : Cardinality({q \in ps : q <= p}) = i
         writes == [i \in 1 .. Cardinality(ps) |->
                      [kind |-> "page", page |-> nth(i), data |-> page(nth(i)).data]]
     IN  mainQ' = mainQ \o writes \o (IF Safe = MxFrame(ix)
                                      THEN <<[kind |-> "cut", size |-> FullDbSize(ix)]>>
                                      ELSE <<>>)
  /\ pc' = "backfilled"
  /\ UNCHANGED <<wal, walQ, main, ix, salt, mode, want, maybe, commits, crashes, setting>>

\* Only a complete backfill is synced before it is recorded.
CheckpointRecord ==
  /\ mode = "wal" /\ pc = "backfilled"
  /\ IF Safe = MxFrame(ix) THEN main' = MainNow /\ mainQ' = <<>> ELSE UNCHANGED <<main, mainQ>>
  /\ ix' = SetBackfill(ix, Safe)
  /\ pc' = "idle"
  /\ UNCHANGED <<wal, walQ, salt, mode, want, maybe, commits, crashes, setting>>

\* TRUNCATE of a log that is all in the main file: the index restarts, then the
\* file is cut and synced.
CheckpointTruncate ==
  /\ mode = "wal" /\ pc = "idle"
  /\ ix.backfill = MxFrame(ix) /\ ix.readers = <<>>
  /\ walQ = <<>> /\ wal # Empty
  /\ ix' = RestartHdr(ix) /\ salt' = salt + 1
  /\ walQ' = <<[kind |-> "truncate"]>> /\ pc' = "truncated"
  /\ UNCHANGED <<wal, main, mainQ, mode, want, maybe, commits, crashes, setting>>

SyncTruncate ==
  /\ mode = "wal" /\ pc = "truncated"
  /\ wal' = WalNow /\ walQ' = <<>> /\ pc' = "idle"
  /\ UNCHANGED <<main, mainQ, ix, salt, mode, want, maybe, commits, crashes, setting>>

----------------------------------------------------------------------------
(* VACUUM: replace_image.  The new image overwrites the file, which is cut    *)
(* and synced; then the log is cut and synced, and the index reset with salts *)
(* made from the page count.                                                  *)

VacuumWrite ==
  /\ mode # "closed" /\ pc = "idle" /\ commits < MaxCommit
  /\ \E n \in 1 .. SizeOf(View) :
       LET img == [p \in Page |-> IF p <= n THEN commits + 1 ELSE None]
       IN  /\ mainQ' = mainQ \o [i \in 1 .. n + 1 |->
                                  IF i <= n THEN [kind |-> "page", page |-> i, data |-> img[i]]
                                  ELSE [kind |-> "cut", size |-> n]]
           /\ maybe' = img
  /\ pc' = "vacuumed" /\ commits' = commits + 1 /\ exposed' = exposed \cup {"vacuum"}
  /\ UNCHANGED <<wal, walQ, main, ix, salt, mode, want, crashes, device>>

VacuumSync ==
  /\ pc = "vacuumed"
  /\ main' = MainNow /\ mainQ' = <<>>
  /\ walQ' = IF mode = "wal" THEN Append(walQ, [kind |-> "truncate"]) ELSE walQ
  /\ pc' = "vacuumSynced"
  /\ UNCHANGED <<wal, ix, salt, mode, want, maybe, commits, crashes, setting>>

VacuumReset ==
  /\ pc = "vacuumSynced"
  /\ wal' = WalNow /\ walQ' = <<>>
  /\ IF mode = "wal" THEN /\ ix' = [NewIndex EXCEPT !.readers = ix.readers]
                          /\ salt' = 100 * SizeOf(main)
     ELSE UNCHANGED <<ix, salt>>
  /\ want' = maybe /\ pc' = "idle" /\ exposed' = exposed \ {"vacuum"}
  /\ UNCHANGED <<main, mainQ, mode, maybe, commits, crashes, device>>

----------------------------------------------------------------------------
(* Crash and open *)

Crash ==
  /\ mode # "closed" /\ crashes < MaxCrash
  /\ \E s \in Survivors(walQ) : wal' = Persist(wal, walQ, s, WriteWal)
  /\ \E s \in Survivors(mainQ) : main' = Persist(main, mainQ, s, WriteMain)
  /\ walQ' = <<>> /\ mainQ' = <<>>
  /\ ix' = NewIndex /\ mode' = "closed" /\ pc' = "idle"
  /\ crashes' = crashes + 1
  /\ UNCHANGED <<salt, want, maybe, commits, setting>>

\* The frames that the scan accepts: the salts are the header's and the running
\* checksum is right.
Valid(f, i) ==
  \A k \in 1 .. i :
    /\ f.frame[k] # None /\ f.frame[k].salt = f.salt
    /\ f.frame[k].sum = <<f.salt, [j \in 1 .. k |-> [page |-> f.frame[j].page,
                                                    data |-> f.frame[j].data,
                                                    size |-> f.frame[j].size]]>>

\* Mutant of Scanned: the last valid frame ends the log, commit or not.
ScannedToTheEnd(f) ==
  LET good == {i \in Slot : f.salt # None /\ Valid(f, i)}
  IN  IF good = {} THEN <<>>
      ELSE [j \in 1 .. Newest(good) |-> [page |-> f.frame[j].page, data |-> f.frame[j].data,
                                         size |-> f.frame[j].size]]

\* The log up to the last commit frame.
Scanned(f) ==
  LET good == {i \in Slot : f.salt # None /\ Valid(f, i) /\ f.frame[i].size # 0}
  IN  IF good = {} THEN <<>>
      ELSE [j \in 1 .. Newest(good) |-> [page |-> f.frame[j].page, data |-> f.frame[j].data,
                                         size |-> f.frame[j].size]]

\* attach_wal in a new process: with a committed log the index is seeded from it,
\* with none the connection is not in WAL mode.
Open ==
  /\ mode = "closed"
  /\ ix' = [NewIndex EXCEPT !.log = Scanned(wal)]
  /\ salt' = IF Scanned(wal) = <<>> THEN salt ELSE wal.salt
  /\ mode' = IF Scanned(wal) = <<>> THEN "rollback" ELSE "wal"
  /\ pc' = "opened"
  /\ UNCHANGED <<wal, walQ, main, mainQ, want, maybe, commits, crashes, setting>>

\* The crash is decided: what the open found is the state from here on.
Opened ==
  /\ pc = "opened"
  /\ want' = View /\ maybe' = View /\ pc' = "idle" /\ exposed' = {}
  /\ UNCHANGED <<wal, walQ, main, mainQ, ix, salt, mode, commits, crashes, device>>

\* A commit of a connection that found no log goes to the main file, through the
\* rollback journal (module RollbackJournal has its steps).
RollbackCommit ==
  /\ mode = "rollback" /\ pc = "idle" /\ commits < MaxCommit
  /\ \E ps \in SUBSET {p \in Page : main[p] # None} :
       /\ 1 \in ps
       /\ main' = [p \in Page |-> IF p \in ps THEN commits + 1 ELSE main[p]]
  /\ want' = main' /\ maybe' = main' /\ commits' = commits + 1
  /\ UNCHANGED <<wal, walQ, mainQ, ix, salt, mode, pc, crashes, setting>>

\* set_wal_mode: any old -wal file is cut before the index starts afresh, with
\* salts made from the change counter.
SetWalMode ==
  /\ mode = "rollback" /\ pc = "idle"
  /\ wal' = Empty
  /\ ix' = NewIndex /\ salt' = 10 * (commits + 1) /\ mode' = "wal"
  /\ UNCHANGED <<walQ, main, mainQ, pc, want, maybe, commits, crashes, setting>>

----------------------------------------------------------------------------
(* WalReader::open, the scan of a read-only connection: frames wait in      *)
(* `pending' until a commit frame publishes them.                           *)

\* A file that is long enough for a header and has no valid one is Corrupt to
\* it, where attach_wal goes on with the main file alone.
ReaderRefuses(f) == f.salt = None /\ \E i \in Slot : f.frame[i] # None

ReaderScan(f) ==
  LET at[i \in 0 .. MaxPage * MaxCommit] ==
        IF i = 0 THEN [frames |-> [p \in Page |-> None], pending |-> <<>>, size |-> 0,
                       stop |-> f.salt = None]
        ELSE LET s == at[i - 1]
                 pending == Append(s.pending, f.frame[i])
                 newest(p) == {k \in DOMAIN pending : pending[k].page = p}
             IN  IF s.stop \/ ~Valid(f, i) THEN [s EXCEPT !.stop = TRUE]
                 ELSE IF f.frame[i].size = 0 THEN [s EXCEPT !.pending = pending]
                 ELSE [frames |-> [p \in Page |-> IF newest(p) = {} THEN s.frames[p]
                                                  ELSE pending[Newest(newest(p))].data],
                       pending |-> <<>>, size |-> f.frame[i].size, stop |-> FALSE]
  IN  at[MaxPage * MaxCommit]

\* Mutant of ReaderView: the size of the main file is used throughout.
ReaderViewMainSize ==
  [p \in Page |-> IF p > SizeOf(main) THEN None
                  ELSE IF ReaderScan(wal).frames[p] # None THEN ReaderScan(wal).frames[p]
                  ELSE main[p]]

ReaderView ==
  LET s == ReaderScan(wal)
      size == IF s.size # 0 THEN s.size ELSE SizeOf(main)
  IN  [p \in Page |-> IF p > size THEN None
                      ELSE IF s.frames[p] # None THEN s.frames[p] ELSE main[p]]

Next ==
  \/ StartCommit \/ SyncCommit \/ PinReader \/ UnpinReader
  \/ CheckpointWrite \/ CheckpointRecord \/ CheckpointTruncate \/ SyncTruncate
  \/ VacuumWrite \/ VacuumSync \/ VacuumReset
  \/ Crash \/ Open \/ Opened \/ RollbackCommit \/ SetWalMode

Spec == Init /\ [][Next]_vars

----------------------------------------------------------------------------

TypeOK ==
  /\ wal.salt \in Nat \cup {None}
  /\ main \in Image /\ want \in Image /\ maybe \in Image
  /\ ix.backfill \in 0 .. MxFrame(ix) /\ salt \in Nat
  /\ mode \in {"wal", "rollback", "closed"}
  /\ pc \in {"idle", "appended", "backfilled", "truncated", "opened", "vacuumed", "vacuumSynced"}

\* What an open finds is the last commit that returned or the one that was
\* running, whole: no acknowledged commit is lost, none comes back in part, and
\* none is taken back by an older log that is still lying in the -wal file.  On a
\* reordering device this needs a log that was not overwritten in place; on no
\* device does it hold while VACUUM replaces the file (replace_image has no journal).
Recovered ==
  (pc = "opened" /\ exposed \subseteq IF device = "ordered" THEN {"inPlace"} ELSE {})
    => View \in {want, maybe}

\* The same on every device and for every log: after a restart the old frames
\* must fail the comparison of salts (restart_hdr).
OldFramesRefused == (pc = "opened" /\ "vacuum" \notin exposed) => View \in {want, maybe}

\* The read-only reader and the writer's open, two scans of the same file, make
\* the same database of it (WalReader::open, attach_wal).  The reader refuses the
\* file only where a crash has kept frames of a new log and lost its header, which
\* takes a device that reorders writes.
ReadersAgree ==
  pc = "opened" =>
    IF ReaderRefuses(wal) THEN device = "reordering" ELSE ReaderView = View

\* Between statements the connection reads what it committed last, through any
\* number of checkpoints, restarts and truncations of the log.
ReadsOwnCommits == (pc = "idle" /\ mode # "closed") => View = want

\* Every frame that a checkpoint has declared copied and durable is: the log may
\* be overwritten once all of it is (nBackfill, walRestartLog).
RestartIsSafe ==
  (RestartLog /\ exposed \subseteq {"inPlace"}) => \A p \in Page :
    InLog(ix, p, MxFrame(ix)) => main[p] = FindFrame(ix, p, MxFrame(ix))

=============================================================================
