------------------------------ MODULE MCStorage ------------------------------
(***************************************************************************)
(* The specifications of how pages are used and kept: the tree of a table, *)
(* the tree of an index, the file under auto-vacuum, and the -wal file     *)
(* through crashes and opens.  A behaviour follows one of them, `part'.    *)
(*                                                                         *)
(* Table pages hold two or three rows and interior pages three children:   *)
(* three levels from eight rows on, and splits of interior pages below the *)
(* root in the largest table.  Index pages hold three to five entries.  A  *)
(* pointer-map page describes three pages.  The log is that of a database  *)
(* of two pages.                                                           *)
(***************************************************************************)
EXTENDS Naturals, Sequences

CONSTANT None    \* no frame in a slot of the log, no header, no page

VARIABLES part, st, ops,
          rows, kind, desc,
          roots, largest, mode, lock, saved, dirty,
          wal, walQ, main, mainQ, ix, salt, walMode, pc, want, maybe, commits, crashes,
          device, exposed

fileVars == <<roots, largest, mode, lock, saved, dirty>>
logVars == <<wal, walQ, main, mainQ, ix, salt, walMode, pc, want, maybe, commits, crashes,
             device, exposed>>
vars == <<part, st, ops, rows, kind, desc, fileVars, logVars>>

TableLoads == {<<0, 2>>, <<3, 2>>, <<6, 2>>, <<8, 2>>, <<16, 1>>}
IndexLoads == {<<<<>>, 3>>, <<<<1, 2, 1, 3, 1, 2>>, 3>>, <<<<3, 1, 2, 3, 1, 2, 3, 1, 2, 1, 1, 1>>, 2>>,
               <<[i \in 1 .. 24 |-> IF i < 10 THEN 1 ELSE 1 + (i % 3)], 1>>}

T == INSTANCE TableBtree WITH
       MaxLeaves <- 1, Root <- 1, Body <- 6, Usable <- 32, KeySize <- 5, MaxRow <- 34,
       MaxOps <- 2, Loads <- TableLoads, Kinds <- {"user", "catalog"}
I == INSTANCE IndexBtree WITH
       MaxLeaves <- 1, Root <- 1, Usable <- 48, Keys <- {0, 1, 2, 3}, MaxOps <- 3, Loads <- IndexLoads
A == INSTANCE AutoVacuum WITH
       MaxLeaves <- 1, PerMap <- 3, LockPages <- {0, 8}, Limits <- {0, 1, 2}, MaxPages <- 12, MaxOps <- 6
R == INSTANCE WalRecovery WITH
       MaxPage <- 2, MaxCommit <- 4, MaxCrash <- 2, Devices <- {"ordered", "reordering"},
       mode <- walMode

NoTable == rows = 0 /\ kind = 0
NoFile == roots = 0 /\ largest = 0 /\ mode = 0 /\ lock = 0 /\ saved = 0 /\ dirty = 0
NoLog == /\ wal = 0 /\ walQ = 0 /\ main = 0 /\ mainQ = 0 /\ ix = 0 /\ salt = 0 /\ walMode = 0
         /\ pc = 0 /\ want = 0 /\ maybe = 0 /\ commits = 0 /\ crashes = 0 /\ device = 0
         /\ exposed = 0

Init ==
  \/ part = "table" /\ T!Init /\ desc = 0 /\ NoFile /\ NoLog
  \/ part = "index" /\ I!Init /\ kind = 0 /\ NoFile /\ NoLog
  \/ part = "file" /\ A!Init /\ NoTable /\ desc = 0 /\ NoLog
  \/ part = "crash" /\ R!Init /\ st = 0 /\ ops = 0 /\ NoTable /\ desc = 0 /\ NoFile
Next ==
  /\ UNCHANGED part
  /\ \/ part = "table" /\ T!Next /\ UNCHANGED <<desc, fileVars, logVars>>
     \/ part = "index" /\ I!Next /\ UNCHANGED <<kind, fileVars, logVars>>
     \/ part = "file" /\ A!Next /\ UNCHANGED <<rows, kind, desc, logVars>>
     \/ part = "crash" /\ R!Next /\ UNCHANGED <<st, ops, rows, kind, desc, fileVars>>

Spec == Init /\ [][Next]_vars

----------------------------------------------------------------------------
\* Whatever splits, balances, compactions and rebuilds they went through: a scan of a
\* table's tree gives its rows in ascending order, each once, and a seek finds every row
\* and the next one above a gap; an index holds one entry for every row, in key order,
\* and its seeks and range scans return what the table has, over all leaves and the
\* dividers between them.  Pages fit their bytes and leaves are at one depth, so that the
\* serializers never refuse a page, and next_rowid gives a rowid that no row has to
\* tables whose deletions end in compact_table.
TreesServe ==
  /\ part = "table" => /\ T!TypeOK /\ T!WellFormed /\ T!ScanIsTable /\ T!SeekFinds
                       /\ T!RowidFreeWhenCompacted
  /\ part = "index" => I!WellFormed /\ I!IndexIsTable /\ I!SeeksComplete

\* Every page of the file is in a tree, on the freelist, a pointer-map page or the
\* lock-byte page, and only one of these: no insert, balance, delete, clear or vacuum
\* leaks a page or uses it twice.
PagesAccounted ==
  /\ part = "table" => T!PagesAccounted
  /\ part = "index" => I!PagesAccounted
  /\ part = "file" => A!TypeOK /\ A!EachPageOnce

\* After a commit the pointer map says of every page what the trees and the
\* freelist say, and the header names the largest root.
PtrmapTrue == part = "file" => A!PtrmapTrue

\* Commit and incremental_vacuum move pages, but every tree keeps its root page and
\* what can be reached from it, in the same places; and a commit in full mode leaves a
\* free page only when a root or the lock-byte page at the end is in the way.
VacuumKeepsTrees ==
  [][/\ part = "file" /\ (A!Commit \/ A!IncrementalVacuum) =>
          \A r \in roots \cup {1} : A!Shape(st', r) = A!Shape(st, r)
     /\ part = "file" /\ mode = "full" /\ A!Commit =>
          st'.nfree = 0 \/ A!Count(st') \in roots \cup {lock}]_vars

\* What attach_wal makes of the files after a crash is the last commit that returned or
\* the one that was running, whole (WalRecovery says for which devices and logs); and
\* every frame that a checkpoint has declared copied and durable is, so that the log may
\* be overwritten once all of it is (walRestartLog).
Recovered == part = "crash" => R!Recovered /\ R!RestartIsSafe

\* The read-only reader and the writer's open, two scans of the same -wal file, make
\* the same database of it (or the reader refuses it, which takes a device that reorders
\* writes: WalRecovery); and between statements the connection reads what it
\* committed last, through any number of checkpoints and restarts of the log.
ReadersAgree == part = "crash" => R!ReadersAgree /\ R!ReadsOwnCommits

=============================================================================
