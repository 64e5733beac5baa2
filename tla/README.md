# graphitesql in TLA+

graphitesql is a re-implementation of SQLite in safe Rust: a SQL front end, a
bytecode and a tree-walking executor, b-trees, and a pager that commits through
a rollback journal or a write-ahead log.  This directory holds TLA+ models of
its parts, the TLC configurations that check them on small instances, and TLAPS
proofs of the results that matter most.  Source paths below are relative to the
repository (`src/pager/write.rs`); a bare line number belongs to the file named
before it, and `exec/mod.rs` stands for `src/exec/mod.rs`.  `PROJECT.json` maps
every definition to the lines it was translated from and lists, for every part
of the system, what is modelled and what is not.

## 1. The system and its models

A statement runs in the executor, which opens a read or a write transaction on
the pager of each database it uses; the pager takes file locks through the VFS;
b-trees read and stage pages in the pager; a commit flushes the staged pages
through the journal or appends them to the WAL; the next open of a crashed
database recovers it under the same locks.  Several connections of one process
share the lock table and the WAL index; processes meet only in the OS lock and
in the files.  Virtual tables keep their data in ordinary tables, which they
write by statements of their own.

| Part | Source | Modules |
|---|---|---|
| File locks | `vfs/` | `LockState`, `FileLocks` |
| Rollback-journal commit and recovery | `pager/write.rs` | `RollbackJournal`, which implements `AtomicStore` |
| Pagers of several connections, rollback mode | `pager/write.rs`, `pcache.rs` | `Connections` on `LockState` |
| WAL in one process | `pager/wal.rs`, `pager/write.rs` | `Wal` on `LockState` and `WalIndex` |
| The `-wal` file, crashes, recovery, the read-only reader | `pager/wal.rs`, `pager/write.rs` | `WalRecovery` on `WalIndex` |
| Freelist; spreading cells over pages | `pager/write.rs`, `btree/balance.rs` | `Pages` |
| B-trees and cursors | `btree/` | `TableBtree`, `IndexBtree` on `Pages` |
| Auto-vacuum and pointer map | `pager/write.rs`, `btree/ptrmap.rs` | `AutoVacuum` on `Pages` |
| Transactions, savepoints, hooks, attached databases | `exec/mod.rs` | `Transactions`, which implements `SqlTransaction` |
| INSERT, UPDATE, DELETE: conflicts, triggers, foreign keys | `exec/mod.rs` | `Dml` (rowid tables), `WithoutRowid` |
| Schema changes | `exec/mod.rs` | `Catalog`, `Rename` |
| Access paths, skipped sorts, joins | `exec/mod.rs`, `btree/index_writer.rs` | `ScanSource`, `Joins` |
| Compiled and tree-walking engines | `exec/vdbe.rs`, `exec/eval.rs` | `Vdbe` |
| Window functions; WITH, recursion, compounds | `exec/mod.rs` | `Windows`, `Ctes` |
| FTS5 | `fts5_index.rs`, `vtab.rs`, `exec/mod.rs` | `Fts5Segment` (pages of a segment), `Fts5` (index and queries) |
| R-tree, geopoly; `series`, generate_series | `vtab.rs`, `geopoly.rs`, `exec/mod.rs` | `RTree`, `Series` |
| Sessions and changesets | `session.rs`, `exec/mod.rs` | `Session` |
| C interface | `capi.rs` | `Capi` |
| Comparison, affinity, collation | `value.rs`, `exec/eval.rs` | `Values`, used by the query modules |

`MC*` modules instantiate these for TLC; `RollbackJournal` and `Wal` are checked as
they are.  Most of them follow several
specifications: a variable `part`, chosen in the initial state, says which one a
behaviour follows, and the variables of the others rest.  Operators whose comment
says "Mutant of" are plausible mistakes in the operator below them; nothing else
refers to them.

## 2. State and actions

Every module starts with a comment on what its state stands for.  The
conventions they share:

* One action is the code between two points where something else can happen:
  another thread, a crash, a nested statement, a callback.  Everything the code
  does in between, rebuilds and trailing saves included, is in that action.
* Data is as small as the property allows.  A page's content is the number of
  the commit that wrote it (`Connections`, `Wal`, `WalRecovery`), so that a lost
  update shows as a mismatch; a change to a database is an element of a set
  (`Transactions`), so that an image is the set of changes it holds; a stored
  statement is the record of what it names (`Catalog`, `Rename`); SQL values are
  numbers ordered like the values they stand for (`Values`).
* Variables marked `history` are read by properties only.
* Bounds are constants named `Max...`, and conjuncts of guards.

**FileLocks.**  `level[h]` is `StdFile.level`, `state[p]` and `os[p]` the two halves
of the `CpLock` that the handles of a process share.  An action is one `lock` or
`unlock` with its reconciliation; a refused OS lock is undone inside the call.

**RollbackJournal.**  `db` and `jrn` are the files as the process sees them,
`dbDisk` and `jrnDisk` what a crash would leave: an unsynced write is lost, kept
or torn.  `pc` walks through the I/O calls of `commit` and of recovery.

**Connections.**  `pager[c]` has the fields of `WritePager` that copy the file
(header, committed header, page bounds, clean cache and its token) and those of
the transaction (overlay, savepoints, lock).  `query_params` is `LockForSelect`,
`ValidateForSelect` outside a transaction and `ValidateInTransaction`,
`LockInTransaction` inside; a write is `StartWrite`, `IntentShared`,
`IntentReserved`, `WritePage`..., `EndWrite`; a commit is `CommitLock`,
`FlushHeader` (page 1 goes first), `FlushPages`.

**Wal, WalRecovery.**  `index` is the shared `WalIndex`, `conn[c]` the snapshot,
mark and overlay of a connection, `job[c]` the locals of a running checkpoint.
Each `index.with` and each file access is a step.  `history` is the sequence of
committed images and `conn[c].view`, read by properties only, the one that a
transaction reads; it becomes 0 when TRUNCATE drops the log under a registered
reader, which the code lets happen (section 7).  `lapses` records the other two such
interleavings, and TLC goes no further than the first (`Sound`): the properties are
about what comes before.  `WalRecovery` has one
connection and the file: frames with salts and chained checksums, opens, crashes
on devices that keep or reorder unsynced writes.

**Transactions.**  `disk[d]`, `work[d]` and `saves[d]` are the committed image, the
image shown and the savepoint stack of the pager of database `d`; `inTx`,
`openSaves`, `deferFk`, `fkOn` are fields of the connection, `catalog[d]` its cached
schema.  An action is one statement, whole.  `faults` is chosen initially: which
of the situations below a behaviour may meet.

| Fault | The situation |
|---|---|
| `busy` | another connection holds a lock when a database is to commit |
| `ddlFails` | a DDL statement fails after it has staged pages |
| `cleanCommit` | COMMIT finds nothing staged in main although savepoints are open |
| `deferOff` | `PRAGMA defer_foreign_keys = OFF` |
| `fkOff` | `PRAGMA foreign_keys` is switched |
| `attachInTx` | ATTACH or DETACH inside a transaction |

**Dml, WithoutRowid.**  Calls that run other statements (triggers, foreign-key
actions) are frames of a stack.  The table, its UNIQUE index and the session's
record are separate, as on disk, and drift apart exactly where the code lets them.

**Storage.**  A store is a sequence of pages, each a list of cells with sizes, and
the freelist in the header.  `AutoVacuum` moves whole pages.

**ScanSource, Joins.**  A query over one table picks a path (rowid, index, OR of
indexes, scan) and says which terms and which ORDER BY it has already honoured.  A
join folds its tables left to right, each by a seek, an automatic index or a scan, and
may reorder them; a table whose columns an index covers is scanned in that index's
order, which `PlainRowidScan` has to know when the outer rows are pinned to rowid
order.  The property compares with the nested loop over the tables as written.

**Vdbe.**  `Program` is the compiler for the modelled SELECTs: over one table, over a
join it can loop over, or else over the cross product taken as a single cursor.  `Next`
is one instruction; `Answer` is the tree walker.  The two are separate translations of
separate code, and the property compares them.

## 3. Runs

| Run | Instance | What it shows |
|---|---|---|
| `file_locks` | 2 processes, 2 handles each; checkpoints of idle and of reading connections; process death; platforms without OS locks, and with conversions that keep or lose the old lock (47,520 states) | `ReaderCountKept`: a process counts no reader too many, and forgets one only through the checkpoint of an idle connection; `ExclusiveExcludes`: EXCLUSIVE is alone among the handles whose processes have neither forgotten a reader nor lost their OS lock |
| `connections` | 2 connections racing or taking turns, 2 pages, 2 commits, 1 savepoint; or one alone with header pragmas and VACUUM, 3 commits (998,615) | `NoLostUpdate`; `StatementsReadCommitted`: each statement reads one committed image; `StableUnderShared`: nobody changes the file under a reader, and the counter moves with every commit |
| `journal` | rollback journal on 3 pages, 2 contents (70,764) | `Atomic`, `WriteAhead`, `ImplementsStore`, through crashes at every step of commit and recovery |
| `wal` | 2 connections, 2 pages, 3 commits, checkpoints in every mode, up to the first lapse (1,283,764) | `NothingLost`: log and main file hold the newest commit, nBackfill tells the truth, writers build on the newest commit; `RepeatableRead` |
| `sql` | main and one attached database, 3 statements, 2 savepoints, one fault at a time; one statement on rowid tables under every conflict clause, trigger and foreign-key action; two on WITHOUT ROWID tables (368,013) | `OneTransaction`, `ForeignKeysCommitted`, `CleanBetween`; `IndexesAgree`, `ForeignKeysHold`, `SessionComplete`; `Terminates` |
| `storage` | a table started with up to 16 rows, in three levels, an index with up to 24 entries, a file of 12 pages with a pointer-map page every 4; the `-wal` file of 2 pages with 4 commits and 2 crashes (463,543) | `TreesServe`, `PagesAccounted`, `PtrmapTrue`, `VacuumKeepsTrees`; `Recovered`, `ReadersAgree` of the `-wal` file |
| `schema` | 4 DDL statements on 3 names; RENAME and DROP COLUMN beside a view and a trigger over 3 tables (479,355) | `CatalogSound`, `RowsKept`, `RenameKeepsMeaning` |
| `access` | tables of 2 or 3 rows with 1 or 2 indexes, 1 or 2 WHERE terms; joins of 2 and 3 tables (3,520,694) | `PathKeepsAnswer`, `SortElisionSound`, `JoinIsNestedLoop` |
| `engines` | thousands of SELECTs on 3 databases; windows over up to 5 rows; up to 3 CTEs (454,596) | `EnginesAgree`, `Halts`, `WindowsByDefinition`, `WithAnswers` |
| `extensions` | changesets of 2 databases; FTS5 segments on pages of 16 and 19 bytes; an FTS5 table of 3 documents and 4 statements; 5 C calls; an R-tree of up to 5 rows; `series` and generate_series at the ends of the integers (512,122) | `Converges`; `SegmentReadsBack`; `IndexIsContent`, `MatchServesTheDocuments`; `CurrentRowStands`; `RTreeIsTable`; `SeriesComplete` |
| `journal_io_error` | as `journal`, with I/O errors | violation of `Atomic` (section 7) |
| `busy_commit` | as `connections` | violation of `AutocommitLeavesNothing` (section 7) |

**Why the bounds are enough.**  Four handles give every pairing (same process,
different processes) with a third party present.  Two pages let page 1, which
every commit writes, disagree with another; two commits let a stale reader miss
one and write the next; three in `Wal` let the log restart in between, and four
in `WalRecovery` let a restarted log lie in front of old frames through a crash.
Two savepoints nest, and two names let a name be reused above another.  Storage
pages of two or three cells reach splits below the root with few rows; a trunk
page with room for one leaf fills up at once.  Three documents with batches of
two postings trigger merges, promotions and crisis merges.  Every initial
database of the query runs was chosen for ties, NULLs, keys equal under NOCASE
and texts that look like numbers, which is where the paths differ.
`Permutations` of connections, and of the handles of a process, are symmetries of
safety runs in which nothing tells them apart.

**Deadlock** is checked in `file_locks`, `connections`, `journal`, `wal` and `sql`;
the other runs are bounded sequences of operations that end.

**Fairness** is assumed in two places, both inside one call of the library, where
nothing but the code itself decides to go on: the row loop of a statement
(`Terminates`) and the instruction loop of the machine (`Halts`).  There is no other
liveness: a refused lock is returned as Busy, the library never retries, and
PENDING is never requested, so readers may starve a writer.

## 4. What is proved

With TLAPS, for every value of the constants that satisfies the assumptions
named.  Each component's invariant was checked by TLC before it was proved.  The
proofs have one lemma per lock operation, pager method or statement, and the
theorems follow from the invariant.

**`FileLocksProofs`**, for any processes and handles, with no hypothesis on the
platform or on the lock a checkpoint starts from.  `TypeCorrect`; `Exclusion`
(`ExclusiveExcludes`, and one writer at a time); `AggregateFaithful`
(`ReaderCountKept`, an action property); `OsLockFaithful` (the OS lock covers what
the handles hold, and a refused conversion takes only a shared lock away).  A process
that has forgotten a reader (`~Counts`) or lost its OS lock (`~KeepsOsLock`) is in the
model and set apart by what is true of it at that moment, not by an assumption.
`LockInv` says that the count is never too high, that EXCLUSIVE in the table is that
of one handle and came with at most one reader counted, and that `os_level` follows
the table.  What makes it inductive is `OneWriter`, conditional on `Counts`: a count
that was too low becomes right again only when no reader is left, so nothing has to be
said of a process in between.  A refused request is undone exactly, because it was
refused only where the process had no write intent.  `reconcile`'s change from the
exclusive to the shared OS lock is one step here; on platforms that release in between
another process may come first, and the call then waits for it.

**`RollbackJournalProofs`**, for any number of pages, contents, transactions and
crashes.  `TypeCorrect`; `CommitAtomic` (`Atomic`, and an acknowledged commit is
durable); `JournalWriteAhead` (`WriteAhead`); `Refinement` (`ImplementsStore`).
Hypotheses: the database exists (`InitPages > 0`) and no transaction shrinks it
(`~MayShrink`).  `JournalInv` says for each program counter what the four files
hold.  `Atomic` alone is not inductive: it does not say what the disk holds in the
middle of a commit, namely that the journal there has every original of the pages
about to be overwritten and restores `before` from any mixture of old, new and torn
pages.

**`ConnectionSteps`, `ConnectionsProofs`**, for any number of connections, pages,
commits and savepoints.  `Coordinated` (the invariant);
`NoUpdateIsLost` (`NoLostUpdate`); `ReadsAreCommitted` (`StatementsReadCommitted`);
`SnapshotsAreStable` (`StableUnderShared`, an action property).  Hypotheses: no
header pragmas and no VACUUM (`~Pragmas`, `~Vacuums`): both write the header or the
file outside the lock protocol (section 7).  The invariant ties three things
together: the lock table counts exactly the locks the pagers hold; the file has
no holes and its page 1 carries the counter; and for each pager, as long as its
header is the file's, what it has staged, and what each of its savepoints would
bring back, extends the file without a hole and is derived from what it will
overwrite.  The condition on the header is what makes it inductive: a foreign
commit moves the counter past a stale pager's header and so asks nothing of what
that pager has, and RESERVED adopts the file's header before the pager may write.
Savepoints are part of it because a ROLLBACK TO brings an old overlay back under a
header that was adopted since.  While connections take turns, the invariant also
covers the clean cache and its token.

**`TransactionSteps`, `TransactionsProofs`**, for any number of attached databases,
savepoint names, statements and open savepoints, and any
combination of faults.  `Consistent` (the invariant); `TypeCorrect`;
`KeysHoldCommitted` (`ForeignKeysCommitted`); `CleanBetweenTransactions`
(`CleanBetween`); `Refinement` (`OneTransaction`).  Assumptions: the bounds are
natural numbers (`Bounds`) and no attached database is called main
(`AttachedNames`).  There are no hypotheses on the faults: each property names the
faults it does not survive.  Nothing of the three is inductive as it stands.  The
invariant `Inv` adds:

* `Keys`: not only what is committed, but every image that a COMMIT or a ROLLBACK TO
  can still bring back (the one shown and those of all savepoints of main) has
  orphaned child rows only inside BEGIN, and orphans of immediate keys only while
  `defer_foreign_keys` is on.  COMMIT's scan then suffices, although it runs once and
  looks at the keys deferred at that moment only.
* `Nested`: once a savepoint of main, or main itself, shows the committed image, so
  do all savepoints outside it.  A clean pager keeps its savepoints when it commits
  (`pager/write.rs` 1728); `Nested` says that what they would bring back is then
  committed already.
* `Settled`: the connection's counter is the height of main's stack.  It decides
  whether RELEASE ends the transaction.
* `Aligned`: the newest savepoints of every attached database have the names of
  main's, in order; older ones may lie below.  SAVEPOINT, RELEASE and ROLLBACK TO
  search each stack for the name separately, and alignment is why all of them cut
  at the same height (`SameHeight`, `Cuts`).
* `Known`: every image holds changes of statements so far only, so that the next
  statement's change is new and a statement that wrote leaves its pager dirty.
* `Detached`: a database that is not attached has nothing staged.

`Refinement` maps the stacks of all pagers to the one stack of `SqlTransaction`:
at each height, each database's image at its own, aligned position.  Each action is
shown to be a step of `SqlTransaction` or a stutter, by what it does to the pagers:
it commits, rolls back or leaves alone all attached databases, writes one, opens a
savepoint, or cuts the stacks at one height.

**`WalSteps`, `WalProofs`**, for any number of connections, pages and commits and all
modes of checkpoint.  `WalKeepsCommits` (`NothingLost`); `WalRepeatableRead`
(`RepeatableRead`).  The theorems assume of the constants that the bounds are natural
numbers (`Bounds`) and nothing of what connections do.  The properties hold up to the
first lapse: `lapses` records that a transaction that had read went on to write on a
snapshot, or with a page count, that was no longer the newest, and that two
checkpoints copied at the same time.  The code lets both happen and then loses
commits (section 7); neither can be taken out of `lapses`.  `RepeatableRead` excepts
the one reader that registers between TRUNCATE's look at the readers and its restart
of the log (`view = 0`).

`NothingLost` speaks of the states between steps of a checkpoint only in so far as
the log covers for the main file; it says nothing of the pages the checkpoint is
about to write.  The inductive invariant is `Sound => WalInv /\ Apart /\ PinInv`, the
three together: an upgrade keeps `WalInv` because of what `PinInv` says of the
reader's snapshot, and a copy because no other is under way (`Apart`).  `WalInv` says:

* `LogOK`: the newest frame of each page is the newest image's page, and where
  there is none the main file's page is; the last frame has the image's size; and
  every frame up to nBackfill that no later frame replaces is in the main file.
* `WriterOK`: a holder of RESERVED reads the newest image, and its overlay extends
  it without a hole; who does not hold RESERVED has nothing staged.  A checkpoint
  that takes RESERVED for its own length is told apart (`Borrowed`).
* `CopyOK`, for each program counter of a checkpoint: the frames it has collected
  are those of the log, all that are newest up to `safe` among them, and once
  copied they are in the main file, although others append all the while.  A page
  beyond the size at which it truncates the file has a frame behind `mx`.
* `JobOK`: with RESERVED nothing is appended after `mx`, so that a restart finds the
  log wholly backfilled.

`PinInv`, for readers, adds that the marks in the index are those of the
connections, with multiplicity (`Registered`: two readers may share a mark, and one
of them leaving must not unpin the other); that the log up to a reader's mark, over
the main file, is the image it reads (`PinIs`); and that a checkpoint under way will
not write a page over one that a reader still takes from the main file
(`SparedBy`): it collects frames up to the least mark at its start, and readers
that come later have marks at least as high.  A reader's mark never exceeds the
length of the log, because a log is only restarted once nobody is registered.

## 5. What is only model-checked

* Liveness (`Terminates`, `Halts`): fairness and ENABLED are out of the prover's
  reach.
* The `-wal` file (`Recovered`, `ReadersAgree`).  What a crash leaves of a queue of
  writes, and what a scan with a running checksum accepts, are recursive functions
  of the queue and the file.
* `Connections` with header pragmas and VACUUM, for one connection: the hypotheses
  of the theorems exclude them.
* Storage, DML, schema, queries, FTS5, R-tree, sessions and the C interface.  Trees,
  folds, queries and programs are recursive data: what a recursive definition
  computes for every input needs induction with an operator parameter, which the
  installed provers cannot instantiate.

## 6. What is not modelled

Parsing and printing of SQL, byte encodings, scalar functions, dates, JSON and
number formatting are sequential functions of data, with unit tests; floating
point and text algorithms are out of TLC's reach.  The command line and the wasm
bindings are input and output.  Byte layouts are abstracted to records that are
whole or torn, and a checksum is taken to detect a torn record; the exception is
`Fts5Segment`, which keeps bytes because page boundaries are its subject.  Two
processes on one WAL are not modelled: the code's index is in-process and offers no
coordination.  `PROJECT.json` has the reason for each part and each gap inside a
modelled part.

## 7. Where the code and what it says differ

Two of them are runs that expect a violation:

* `journal_io_error`: after an I/O error in `commit`, `rollback` clears memory only
  (`pager/write.rs` 1656); the open connection reads a half-written file, although
  line 7 calls ROLLBACK "trivial and always correct".
* `busy_commit`: an autocommit write whose commit is refused stays staged with
  RESERVED held (`exec/mod.rs` 6851), and the next statement commits it, although
  line 6738 says "this statement is its own transaction".

The others were met while modelling.  Properties of the passing runs set them apart
by a condition or a constant, named here, and the definition in brackets fails
without it.

**Locks and journals**

* A FULL checkpoint from no lock takes RESERVED without SHARED, and its release
  takes another reader off the count (`pager/write.rs` 2063).
  [`ExclusiveExcludes` without `Counts`, or without `entry # Unlocked`]
* Converting a `flock` is not atomic; a refused conversion may lose the shared lock,
  and `reconcile` (`vfs/std_file.rs` 132) goes on as if it held it.
  [`ExclusiveExcludes` without `KeepsOsLock`]
* The first commit of a new database journals no page, and `recover` ignores a count
  of 0 (2425).  Pages cut off by auto-vacuum are in no journal record (2383).
  [`Atomic`, `InitPages = 0`; `MayShrink = TRUE`]
* `execute`, and `query` inside a transaction, look at the change counter before they
  lock (`exec/mod.rs` 4062); in a race the token may be taken in the middle of a
  flush, with the new counter and the old size, and survives a Busy lock followed by
  an empty COMMIT.  `StatementsReadCommitted` therefore asks for reads only while
  connections take turns.
* `revalidate_read_cache` leaves the parsed header alone.  [`ReadsNewestHeader`]
* `header_mut` stages page 1 without a lock, which switches `refresh_foreign_state`
  off; VACUUM's `replace_image` rewrites the file under RESERVED, bypasses the journal
  and replaces the counter (460, 2186).  [`Pragmas`, `Vacuums`]
* A WAL transaction that has read and then writes builds on its old snapshot and drops
  what was committed since (947); `begin_read_txn` takes the newest size but keeps the
  old page count, so that even an upgrade of the newest snapshot may cut pages off.
  [`NothingLost` without `StaleUpgrade` in `Lapses`]
* Nothing keeps two checkpoints apart: the slower one writes older pages over newer
  ones after the log was restarted (2117).  [`NothingLost` without `SecondCopy` in `Lapses`]
* TRUNCATE asks for readers and restarts the log in two accesses to the index (2145):
  a reader that registers in between loses its frames.  An autocommit SELECT registers
  no mark (825).  [`RepeatableRead` without `view # 0`; `StatementRead`]
* A `-wal` file with a bad header is Corrupt to a read-only open (`pager/wal.rs` 85-102,
  `exec/mod.rs` 790), although the comment on it says that then "the main file is used
  alone", which is what an open for writing does (2247-2262).  A crash leaves such a
  file on a device that reorders writes.  [`ReadersAgree` without `ReaderRefuses`]
* A restarted log overwrites the old one in place with one sync; on a device that
  reorders writes old frames can be read again (`pager/wal.rs` 354-358).
  [`OldFramesRefused`]

**Storage**

* `allocate_page` skips the lock-byte page only in auto-vacuum mode (`pager/write.rs`
  1084).
* Inserting a rowid that exists, or an index entry that exists, leaks the old
  overflow chain.
* Growing page 1, `expect("deepen always yields >= 2 leaves")` can be false.
* Deletions from the catalog do not compact its tree, and the last leaf may be empty
  when `next_rowid` looks there (`exec/mod.rs` 15915-15953, 22640).
  [`NextRowidIsFree`]

**Transactions** (the faults of section 2)

* A COMMIT that finds an attached database busy has committed main, and fails.
* A failed DDL statement leaves staged pages and a stale schema.
* A COMMIT with a clean main keeps its savepoints.
* `defer_foreign_keys = OFF` and `foreign_keys` take effect inside a transaction and
  let an orphan be committed; ATTACH and DETACH are accepted there.
* OR ROLLBACK clears neither the defer flag nor the pending FTS5 terms and fires no
  rollback hook; the commit hook is asked only when main is dirty; under SAVEPOINT
  without BEGIN deferred keys are checked at once.

**INSERT, UPDATE, DELETE**

* UPDATE and DO UPDATE look for conflicts in indexes they rebuild only at the end
  (13229, 13277): two rows set to one UNIQUE value are both stored.  The comment at
  11959-11963 relies on indexes maintained row by row.  [`UniqueHolds`]
* OR FAIL keeps the rows written but skips the statement's epilogue (6866-6872);
  likewise on WITHOUT ROWID tables (33709).
* UPDATE OR REPLACE runs neither foreign-key actions nor the session for the rows it
  removes, and rows prepared earlier come back.  REPLACE on WITHOUT ROWID tables
  enforces no foreign keys, and its snapshot rewrite loses nested writes.
* INSERT OR REPLACE with ON DELETE SET DEFAULT whose default is the key being removed
  leaves an orphan: the cascade enforces before deleting (9413), against 9185-9187.
* An UPDATE of a WITHOUT ROWID parent runs the actions against the unwritten table
  (34166, 34207), and those check no uniqueness.
* A BEFORE trigger between the foreign-key check and the write can orphan a row;
  RAISE(IGNORE) in a trigger of DO UPDATE is not consumed; keys that refer to their
  own table are checked against the row being changed.
* A row at the largest rowid is recorded in `sqlite_sequence` one too low, because the
  counter saturates (11425); 11663 calls it "the largest rowid assigned or seen".
* `changeset_apply`: an UPDATE that violates UNIQUE fails without asking the handler
  (10193), against `session.rs` 1555-1558.

**Schema**

* RENAME TABLE leaves the names of automatic indexes (22357, 50734), which then count
  as ordinary ones; 8157-8159 says what goes wrong without them.  It does not update
  `sqlite_sequence`.  Renaming a virtual table ignores triggers and views.
* `schema_rowids_for` goes by name and also removes a trigger of that name; DROP VIEW
  leaves INSTEAD OF triggers; an automatic index can be dropped.
* RENAME COLUMN: the errors at 16221 and 16241 leave the savepoint open; in a trigger
  `INSERT INTO b(x) SELECT x FROM a` the target column is renamed too, against the
  comment at 50169.
* DROP COLUMN shifts columns of a table with a VIRTUAL column (16896-16902, 37813)
  and treats a WITHOUT ROWID table as a rowid table.
* ADD COLUMN does not look at a generated expression (16022-16099), where CREATE TABLE
  does: a column that reads a name the table does not have, or itself, is accepted and
  every row of the table is an error to read from then on; a STORED one is NULL in the
  rows that were there.  [`RowsKept` without its last case]

**Queries**

* Seeks that compare otherwise than the WHERE clause, so that rows are lost although
  `btree/index_writer.rs` 90-93 says a path "never drops a matching row": a partial
  DESC index read ascending (18345, 18604-18605); IN and OR without comparing
  collations (18966, 19057); two constraints on a column with different collations
  (18129, 45676-45679); IS with COLLATE; bounds on the rowid not coerced after an
  equality prefix (18241-18252).  A WITHOUT ROWID key IN a list with values equal
  under NOCASE returns a row twice (17076-17082).  [`PathKeepsAnswer` without `exact`]
* Sorts skipped although the path taken gives another order: OR of seeks, the NOT NULL
  covering walk, a rowid list before an index, a range on a secondary index of a table
  with a DESC key.  [`OrderByHonoured`]
* Join seeks that do not compare collations (31316-31331) or affinities (31367-31395,
  against the comment at 31319-31328); an inner column equated with the driver counts
  as constant for the sort.  [`JoinIsNestedLoop` without `unforeseen`]
* The engines differ (`exec/vdbe.rs` 316-318 says they never do) on ORDER BY with a
  computed LIMIT 0 (5899-5903), BETWEEN with a NULL bound (`exec/eval.rs` 801-826), IS
  under a collation (5965-5977), and the row a bare column comes from beside a lone
  min or max (`exec/mod.rs` 38649, 46888-46903).  [`EnginesAgree` without `Differs`]
* Windows: RANGE with an offset over texts or NULLs (44155-44185); min and max ignore
  the collation (44314); a bare column of a windowed aggregate comes from the first
  row (38540-38553).
* WITH: a UNION recursion keeps duplicates met in one round (15668-15674, against
  15664-15666) [`UnionRowsNew`]; a CTE named only inside a nested WITH is dropped
  (against 43151-43152) [`NeverDropsReferenced`]; the LIMIT of the outer query counts
  rows that the recursion's OFFSET drops (15689, 15700); a view run while a CTE of the
  same name is bound reads the CTE.

**Full text**

* detail=none: an empty position list panics (`fts5_index.rs` 481-492); the marker of
  a deleted posting with content is lost when read back (2165-2168).
* An UPDATE whose incremental delete gives up leaves the old terms, against
  `exec/mod.rs` 37165-37170 [`IndexNeverWrong`]; 'rebuild' in a transaction with
  inserts out of order makes COMMIT fail; INSERT OR REPLACE of one rowid twice in a
  statement.
* The index path returns too few rows for a prefix within one column (1926, against
  2466-2469) and for a MATCH under OR or NOT in the WHERE clause (`exec/mod.rs` 26556,
  against 14579-14581); a NEAR distance is cut to 32 bits (14644).  [`IndexIsSuperset`]

**Spatial tables and series**

* A statement outside a transaction that fails at a later row keeps the earlier ones:
  `rtree_write_build_aux` (35267-35299) rewrites the shadow tables by statements that
  commit, so that the statement's savepoint no longer undoes them, although 6754-6757
  says "so no partial change survives".  [`NoPartialChange`]
* The automatic id (13993-14005), an UPDATE of the id that replaces another row
  (14466-14484), and series rowids that depend on the WHERE clause (`vtab.rs` 866-880).
* `generate_series WHERE start = .. AND step = ..` without a stop takes only the start
  (30571-30576) and then fails its own WHERE, against 30544-30547, "never widens or
  narrows the result incorrectly"; 30515-30517 says that its bare form is no table.
  [`SeriesComplete` without `StepAlone`]

**C interface**

* Named and numbered parameters mixed are numbered otherwise by `scan_params`
  (`capi.rs` 205-285) than by the parser; a data-changing WITH counts as a query
  (174-188).
* A pointer does not survive a second call of the accessor it came from (1268-1270,
  1293-1294, 1878, 3485), nor a text pointer `sqlite3_column_name` (1205), against 149-150
  and the comment at 1198.  [`CurrentRowStands` of every pointer]  `sqlite3_data_count` after DONE (against 1142-1143); a step after an
  error returns DONE.
* A blob handle writes the whole value back and reports success when the row is gone;
  `serialize` inside a transaction reads staged pages.
