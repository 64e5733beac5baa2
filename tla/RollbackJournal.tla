-------------------------- MODULE RollbackJournal --------------------------
(***************************************************************************)
(* The rollback-journal commit of WritePager (pager/write.rs), one I/O     *)
(* call per step, on files whose unsynced contents a crash may lose or     *)
(* tear page by page, and the hot-journal recovery that the next open      *)
(* runs.  A commit holds the EXCLUSIVE lock throughout (module FileLocks), *)
(* so one writer is enough; a crash may strike at any step, those of the   *)
(* recovery included.                                                      *)
(*                                                                         *)
(* A file is a function from page numbers to contents; pages past its end  *)
(* are Absent.  A crash is a power failure, or the death of the process    *)
(* followed by the operating system writing its cache out.                 *)
(***************************************************************************)
EXTENDS Integers

CONSTANTS
  MaxPage,     \* bound on the page numbers of the model
  Val,         \* page contents a transaction writes
  Absent,      \* the page is past the end of the file (or not in the overlay)
  Torn,        \* an interrupted write or zero fill: no page of any transaction
  NoHeader,    \* the journal has no valid header sector
  NoImage,     \* no commit is running
  InitPages,   \* pages of the database at the start (0: being created)
  MayShrink    \* transactions may drop pages from the end (auto-vacuum)

ASSUME MaxPageType == MaxPage \in Nat \ {0}
ASSUME InitPagesType == InitPages \in 0 .. MaxPage
ASSUME MayShrinkType == MayShrink \in BOOLEAN
ASSUME ValDistinct == Absent \notin Val /\ Torn \notin Val /\ Absent # Torn
ASSUME NoHeaderType == NoHeader \notin 0 .. MaxPage

Page    == 1 .. MaxPage
Content == Val \cup {Absent, Torn}
File    == [Page -> Content]

ASSUME NoImageType == NoImage \notin File

\* The file has exactly n pages.
Sized(f, n) == \A p \in Page : f[p] # Absent <=> p <= n

Images == {f \in [Page -> Val \cup {Absent}] : \E n \in 0 .. MaxPage : Sized(f, n)}

\* The journal: `orig` is the database size in its header, `counted` says that
\* the record count in its header is not zero, and `recs` are its page records,
\* packed in ascending page order.
Journal == [orig : (0 .. MaxPage) \cup {NoHeader}, counted : BOOLEAN, recs : File]

NoPages == [p \in Page |-> Absent]

EmptyJournal == [orig |-> NoHeader, counted |-> FALSE, recs |-> NoPages]

VARIABLES
  db, dbDisk,     \* the database file: as I/O calls see it, and as last synced
  jrn, jrnDisk,   \* the journal file, likewise
  pc,             \* the next I/O call of commit or of recover
  todo,           \* pages the current loop has still to write
  overlay,        \* WritePager.overlay: the dirty pages, Absent elsewhere
  pageCount,      \* WritePager.page_count
  diskPages,      \* WritePager.disk_pages
  before, after,  \* the images before and after the transaction begun last
  acked           \* commit has returned Ok for it

vars == <<db, dbDisk, jrn, jrnDisk, pc, todo, overlay, pageCount, diskPages,
          before, after, acked>>

CommitStep == {"jtruncate", "jheader", "jrecord", "jcount", "jsync",
               "write", "sync", "jclear", "jclearsync"}
RecoverStep == {"open", "replay", "rsync", "rclear", "rclearsync"}

TypeOK ==
  /\ db \in File /\ dbDisk \in File
  /\ jrn \in Journal /\ jrnDisk \in Journal
  /\ pc \in {"idle", "failed"} \cup CommitStep \cup RecoverStep
  /\ todo \in SUBSET Page
  /\ overlay \in [Page -> Val \cup {Absent}]
  /\ pageCount \in 0 .. MaxPage /\ diskPages \in 0 .. MaxPage
  /\ before \in File /\ after \in File
  /\ acked \in BOOLEAN

Init ==
  /\ db \in {f \in [Page -> Val \cup {Absent}] : Sized(f, InitPages)}
  /\ dbDisk = db /\ before = db /\ after = db
  /\ jrn = EmptyJournal /\ jrnDisk = EmptyJournal
  /\ pc = "idle" /\ todo = {} /\ overlay = NoPages
  /\ pageCount = InitPages /\ diskPages = InitPages
  /\ acked = TRUE

Dirty == {p \in Page : overlay[p] # Absent}

\* The first page of the loop, in the order of the overlay's BTreeMap.
IsFirst(p) == p \in todo /\ \A q \in todo : p <= q

\* set_len: the file is cut, or extended with zeros.
Resized(f, n) ==
  [p \in Page |-> IF p > n THEN Absent ELSE IF f[p] = Absent THEN Torn ELSE f[p]]

\* The image of the staged transaction.
Staged(f, ov, n) ==
  [p \in Page |-> IF p > n THEN Absent ELSE IF ov[p] # Absent THEN ov[p] ELSE f[p]]

-----------------------------------------------------------------------------
(***************************************************************************)
(* commit                                                                  *)
(***************************************************************************)

\* A transaction has staged its pages and calls commit.  Page 1 is always
\* restamped with the header, and every page past the old end was staged by
\* allocate_page.
Begin(ov, n) ==
  /\ pc = "idle"
  /\ ov[1] # Absent
  /\ n >= IF MayShrink THEN 1 ELSE diskPages
  /\ \A p \in Page : /\ p > n => ov[p] = Absent
                     /\ diskPages < p /\ p <= n => ov[p] # Absent
  /\ overlay' = ov /\ pageCount' = n
  /\ before' = db /\ after' = Staged(db, ov, n)
  /\ acked' = FALSE
  /\ pc' = "jtruncate"
  /\ UNCHANGED <<db, dbDisk, jrn, jrnDisk, todo, diskPages>>

\* write_journal: empty the file, write the header sector with a record count
\* of zero, then the original of every dirty page that is on disk.
JTruncate ==
  /\ pc = "jtruncate"
  /\ jrn' = EmptyJournal
  /\ pc' = "jheader"
  /\ UNCHANGED <<db, dbDisk, jrnDisk, todo, overlay, pageCount, diskPages, before, after, acked>>

\* Mutant of JHeader: the last page on disk is not journalled.
JHeaderMissesLast ==
  /\ pc = "jheader"
  /\ jrn' = [jrn EXCEPT !.orig = diskPages]
  /\ todo' = {p \in Dirty : p < diskPages}
  /\ pc' = "jrecord"
  /\ UNCHANGED <<db, dbDisk, jrnDisk, overlay, pageCount, diskPages, before, after, acked>>

JHeader ==
  /\ pc = "jheader"
  /\ jrn' = [jrn EXCEPT !.orig = diskPages]
  /\ todo' = {p \in Dirty : p <= diskPages}
  /\ pc' = "jrecord"
  /\ UNCHANGED <<db, dbDisk, jrnDisk, overlay, pageCount, diskPages, before, after, acked>>

JRecord(p) ==
  /\ pc = "jrecord"
  /\ IsFirst(p)
  /\ jrn' = [jrn EXCEPT !.recs[p] = db[p]]
  /\ todo' = todo \ {p}
  /\ UNCHANGED <<db, dbDisk, jrnDisk, pc, overlay, pageCount, diskPages, before, after, acked>>

\* The records are synced before the header counts them, and the count is
\* synced before the database file is touched.
JRecordSync ==
  /\ pc = "jrecord"
  /\ todo = {}
  /\ jrnDisk' = jrn
  /\ pc' = "jcount"
  /\ UNCHANGED <<db, dbDisk, jrn, todo, overlay, pageCount, diskPages, before, after, acked>>

JCount ==
  /\ pc = "jcount"
  /\ jrn' = [jrn EXCEPT !.counted = \E p \in Page : jrn.recs[p] # Absent]
  /\ pc' = "jsync"
  /\ UNCHANGED <<db, dbDisk, jrnDisk, todo, overlay, pageCount, diskPages, before, after, acked>>

\* Mutant of JCountSync: the sync of the count is missing.
JCountNotSynced ==
  /\ pc = "jsync"
  /\ todo' = Dirty
  /\ pc' = "write"
  /\ UNCHANGED <<db, dbDisk, jrn, jrnDisk, overlay, pageCount, diskPages, before, after, acked>>

JCountSync ==
  /\ pc = "jsync"
  /\ jrnDisk' = jrn
  /\ todo' = Dirty
  /\ pc' = "write"
  /\ UNCHANGED <<db, dbDisk, jrn, overlay, pageCount, diskPages, before, after, acked>>

WritePage(p) ==
  /\ pc = "write"
  /\ IsFirst(p)
  /\ db' = [db EXCEPT ![p] = overlay[p]]
  /\ todo' = todo \ {p}
  /\ UNCHANGED <<dbDisk, jrn, jrnDisk, pc, overlay, pageCount, diskPages, before, after, acked>>

Truncate ==
  /\ pc = "write"
  /\ todo = {}
  /\ db' = Resized(db, pageCount)
  /\ pc' = "sync"
  /\ UNCHANGED <<dbDisk, jrn, jrnDisk, todo, overlay, pageCount, diskPages, before, after, acked>>

Sync ==
  /\ pc = "sync"
  /\ dbDisk' = db
  /\ pc' = "jclear"
  /\ UNCHANGED <<db, jrn, jrnDisk, todo, overlay, pageCount, diskPages, before, after, acked>>

JClear ==
  /\ pc = "jclear"
  /\ jrn' = EmptyJournal
  /\ pc' = "jclearsync"
  /\ UNCHANGED <<db, dbDisk, jrnDisk, todo, overlay, pageCount, diskPages, before, after, acked>>

\* The last sync; commit drops the overlay and returns Ok.
JClearSync ==
  /\ pc = "jclearsync"
  /\ jrnDisk' = jrn
  /\ overlay' = NoPages
  /\ diskPages' = pageCount
  /\ acked' = TRUE
  /\ pc' = "idle"
  /\ UNCHANGED <<db, dbDisk, jrn, todo, pageCount, before, after>>

-----------------------------------------------------------------------------
(***************************************************************************)
(* Crash and recovery                                                      *)
(***************************************************************************)

\* What the disk may hold of a file after a crash: each page as last synced,
\* as last written, or torn between the two.
Survives(old, new) == IF old = new THEN {old} ELSE {old, new, Torn}

FileAfterCrash == {f \in File : \A p \in Page : f[p] \in Survives(dbDisk[p], db[p])}

\* The journal is emptied before it is rewritten: either the truncation was
\* lost and the old journal is back whole, or it held and each later write
\* reached the disk or not.
LostOr(lost, old, new) == IF old = new THEN {new} ELSE {new} \cup lost

RecordsAfterCrash ==
  {f \in File : \A p \in Page :
     f[p] \in LostOr({Torn, Absent}, jrnDisk.recs[p], jrn.recs[p])}

JournalAfterCrash ==
  {jrnDisk} \cup
  {[orig |-> o, counted |-> c, recs |-> r] :
     o \in LostOr({NoHeader}, jrnDisk.orig, jrn.orig),
     c \in LostOr({FALSE}, jrnDisk.counted, jrn.counted),
     r \in RecordsAfterCrash}

Crash ==
  /\ \E f \in FileAfterCrash : db' = f /\ dbDisk' = f
  /\ \E j \in JournalAfterCrash : jrn' = j /\ jrnDisk' = j
  /\ pc' = "open"
  /\ todo' = {} /\ overlay' = NoPages
  /\ UNCHANGED <<pageCount, diskPages, before, after, acked>>

\* The records recover() plays back: it stops at the first bad checksum.
Playable(j) == {p \in Page : j.recs[p] # Absent /\ \A q \in 1 .. p : j.recs[q] # Torn}

\* recover() plays something back.
Hot(j) == j.orig # NoHeader /\ j.counted /\ Playable(j) # {}

\* The page count open() derives from the size of the file.
PagesOf(f) ==
  CHOOSE n \in 0 .. MaxPage :
    (n > 0 => f[n] # Absent) /\ \A p \in Page : p > n => f[p] = Absent

\* recover_hot_journal finds nothing to play back: no journal, a database of
\* length zero (the journal is discarded), or a journal that is not hot.
OpenClean ==
  /\ pc = "open"
  /\ db = NoPages \/ ~Hot(jrn)
  /\ jrn' = IF db = NoPages THEN EmptyJournal ELSE jrn
  /\ pageCount' = PagesOf(db) /\ diskPages' = PagesOf(db)
  /\ pc' = "idle"
  /\ UNCHANGED <<db, dbDisk, jrnDisk, todo, overlay, before, after, acked>>

OpenHot ==
  /\ pc = "open"
  /\ db # NoPages
  /\ Hot(jrn)
  /\ todo' = Playable(jrn)
  /\ pc' = "replay"
  /\ UNCHANGED <<db, dbDisk, jrn, jrnDisk, overlay, pageCount, diskPages, before, after, acked>>

Replay(p) ==
  /\ pc = "replay"
  /\ IsFirst(p)
  /\ db' = [db EXCEPT ![p] = jrn.recs[p]]
  /\ todo' = todo \ {p}
  /\ UNCHANGED <<dbDisk, jrn, jrnDisk, pc, overlay, pageCount, diskPages, before, after, acked>>

RTruncate ==
  /\ pc = "replay"
  /\ todo = {}
  /\ db' = Resized(db, jrn.orig)
  /\ pc' = "rsync"
  /\ UNCHANGED <<dbDisk, jrn, jrnDisk, todo, overlay, pageCount, diskPages, before, after, acked>>

\* Mutant of RSync: recovery clears the journal without syncing the database.
RNotSynced ==
  /\ pc = "rsync"
  /\ pc' = "rclear"
  /\ UNCHANGED <<db, dbDisk, jrn, jrnDisk, todo, overlay, pageCount, diskPages, before, after, acked>>

RSync ==
  /\ pc = "rsync"
  /\ dbDisk' = db
  /\ pc' = "rclear"
  /\ UNCHANGED <<db, jrn, jrnDisk, todo, overlay, pageCount, diskPages, before, after, acked>>

RClear ==
  /\ pc = "rclear"
  /\ jrn' = EmptyJournal
  /\ pc' = "rclearsync"
  /\ UNCHANGED <<db, dbDisk, jrnDisk, todo, overlay, pageCount, diskPages, before, after, acked>>

RClearSync ==
  /\ pc = "rclearsync"
  /\ jrnDisk' = jrn
  /\ pageCount' = PagesOf(db) /\ diskPages' = PagesOf(db)
  /\ pc' = "idle"
  /\ UNCHANGED <<db, dbDisk, jrn, todo, overlay, before, after, acked>>

-----------------------------------------------------------------------------

Next ==
  \/ \E ov \in [Page -> Val \cup {Absent}], n \in Page : Begin(ov, n)
  \/ JTruncate \/ JHeader \/ JRecordSync \/ JCount \/ JCountSync
  \/ Truncate \/ Sync \/ JClear \/ JClearSync
  \/ Crash \/ OpenClean \/ OpenHot \/ RTruncate \/ RSync \/ RClear \/ RClearSync
  \/ \E p \in Page : JRecord(p) \/ WritePage(p) \/ Replay(p)

Spec == Init /\ [][Next]_vars

-----------------------------------------------------------------------------
(***************************************************************************)
(* An I/O call of commit fails: commit returns the error with the overlay  *)
(* still staged.  The application rolls back (rollback forgets the overlay *)
(* and touches no file) or commits again.                                  *)
(***************************************************************************)

IoError ==
  /\ pc \in CommitStep
  /\ pc' = "failed"
  /\ UNCHANGED <<db, dbDisk, jrn, jrnDisk, todo, overlay, pageCount, diskPages, before, after, acked>>

Rollback ==
  /\ pc = "failed"
  /\ overlay' = NoPages
  /\ pageCount' = diskPages
  /\ todo' = {}
  /\ pc' = "idle"
  /\ UNCHANGED <<db, dbDisk, jrn, jrnDisk, diskPages, before, after, acked>>

Retry ==
  /\ pc = "failed"
  /\ pc' = "jtruncate"
  /\ UNCHANGED <<db, dbDisk, jrn, jrnDisk, todo, overlay, pageCount, diskPages, before, after, acked>>

FaultSpec == Init /\ [][Next \/ IoError \/ Rollback \/ Retry]_vars

-----------------------------------------------------------------------------
(***************************************************************************)
(* Properties                                                              *)
(***************************************************************************)

\* What the disk holds once recovery has run on it: a hot journal is played
\* back, otherwise the file is as it is.
Restored(f, j) ==
  Resized([p \in Page |-> IF p \in Playable(j) THEN j.recs[p] ELSE f[p]], j.orig)

View == IF Hot(jrnDisk) THEN Restored(dbDisk, jrnDisk) ELSE dbDisk

\* commit is atomic ("Atomically flush all staged changes to the database
\* file", write.rs): whenever the database is open and no commit is running,
\* through any number of crashes and interrupted recoveries, it holds the image
\* before the last transaction or the image after it, and the latter if commit
\* returned Ok.
Atomic ==
  pc = "idle" => /\ db \in {before, after}
                 /\ acked => db = after

\* Once commit has returned Ok the transaction is on disk: no crash, not even
\* one during a later recovery, brings the old image back.
Durable == acked => View = after

\* Write-ahead: from the first page commit overwrites until the database file is
\* synced, the journal on disk restores the whole of the old image.
WriteAhead ==
  pc \in {"write", "sync"} => Hot(jrnDisk) /\ Restored(db, jrnDisk) = before

\* The commit and the recovery implement the store of AtomicStore: what
\* survives a crash is only ever replaced by the whole image being committed.
Store == INSTANCE AtomicStore WITH
           Image <- Images, None <- NoImage,
           image <- View, staged <- IF pc \in CommitStep THEN after ELSE NoImage

ImplementsStore == Store!StoreSpec

=============================================================================
