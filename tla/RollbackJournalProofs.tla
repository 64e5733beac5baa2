----------------------- MODULE RollbackJournalProofs -----------------------
(***************************************************************************)
(* Atomicity of the rollback-journal commit, for databases and page        *)
(* contents of any size.                                                   *)
(*                                                                         *)
(* The theorems have two hypotheses, which are the two conditions under    *)
(* which the code keeps its promise: the database has a page on disk       *)
(* already (it is not being created), and no commit drops pages from the   *)
(* end of the file (auto-vacuum).  Runs of MCRollbackJournal show what     *)
(* happens without each of them.                                           *)
(***************************************************************************)
EXTENDS RollbackJournal, TLAPS

\* A non-empty database image of n pages.
Good(f, n) == n \in Page /\ f \in [Page -> Val \cup {Absent}] /\ Sized(f, n)

\* The overlay of a commit that does not shrink the file.
OverlayOK ==
  /\ overlay[1] # Absent
  /\ pageCount \in Page /\ diskPages <= pageCount
  /\ \A p \in Page : /\ p > pageCount => overlay[p] = Absent
                     /\ diskPages < p /\ p <= pageCount => overlay[p] # Absent

\* The journal of the running commit, with the pages of S not yet recorded.
JournalOf(S, c) ==
  [orig |-> diskPages, counted |-> c,
   recs |-> [p \in Page |-> IF p \in Dirty /\ p <= diskPages /\ p \notin S
                            THEN before[p] ELSE Absent]]

\* The journal restores `before` from any file that agrees with it on the pages
\* that have no record.
JournalOK(j) ==
  /\ j.orig \in Page
  /\ j.counted
  /\ Good(before, j.orig)
  /\ Playable(j) # {}
  /\ \A p \in Playable(j) : p <= j.orig /\ j.recs[p] = before[p]

\* Playing journal j back over file f restores every page of the old file.
Covers(f, j) ==
  /\ f[1] # Absent
  /\ \A p \in Page : p <= j.orig /\ p \notin Playable(j) => f[p] = before[p]

\* No transaction is half written.
Clean ==
  /\ dbDisk = db /\ jrn = jrnDisk
  /\ ~Hot(jrn)
  /\ db \in {before, after}
  /\ acked => db = after
  /\ \E n \in Page : Good(db, n)

\* A transaction may be half written, and the journal on disk can undo it.
Undoable ==
  /\ ~acked
  /\ JournalOK(jrnDisk)
  /\ Covers(db, jrnDisk) /\ Covers(dbDisk, jrnDisk)

\* A commit is under way: `before` is the old file, `after` the one it writes.
Committing == ~acked /\ OverlayOK /\ Good(before, diskPages) /\ after = Staged(before, overlay, pageCount)

\* The commit has not touched the database file, and no journal is hot.
Journalling == Committing /\ db = before /\ dbDisk = before /\ ~Hot(jrnDisk)

\* The file when the pages of `todo` are still to be written.
HalfWritten ==
  [p \in Page |-> IF p \in Dirty \ todo THEN overlay[p] ELSE before[p]]

\* What holds at each step of a commit and of a recovery.
PhaseOK ==
  /\ pc = "idle" => Clean /\ Good(db, diskPages)
  /\ pc = "jtruncate" => Journalling /\ jrn = jrnDisk
  /\ pc = "jheader" => Journalling /\ jrn = EmptyJournal
  /\ pc = "jrecord" =>
       /\ Journalling /\ jrn = JournalOf(todo, FALSE)
       /\ todo \subseteq {p \in Dirty : p <= diskPages}
  /\ pc = "jcount" => Journalling /\ jrn = JournalOf({}, FALSE) /\ jrnDisk = jrn
  /\ pc = "jsync" => Journalling /\ jrn = JournalOf({}, TRUE) /\ jrnDisk = JournalOf({}, FALSE)
  /\ pc = "write" =>
       /\ Committing /\ Undoable
       /\ jrn = JournalOf({}, TRUE) /\ jrnDisk = jrn
       /\ todo \subseteq Dirty /\ dbDisk = before
       /\ db = HalfWritten
  /\ pc = "sync" => Committing /\ Undoable /\ jrnDisk = jrn /\ db = after
  /\ pc = "jclear" => Committing /\ Undoable /\ jrnDisk = jrn /\ db = after /\ dbDisk = after
  /\ pc = "jclearsync" => Committing /\ Undoable /\ jrn = EmptyJournal /\ db = after /\ dbDisk = after
  /\ pc = "open" => dbDisk = db /\ jrn = jrnDisk /\ (Clean \/ Undoable)
  /\ pc = "replay" =>
       /\ Undoable /\ jrn = jrnDisk
       /\ todo \subseteq Playable(jrn)
       /\ \A p \in Playable(jrn) \ todo : db[p] = before[p]
  /\ pc = "rsync" => Undoable /\ jrn = jrnDisk /\ db = before
  /\ pc = "rclear" => Undoable /\ jrn = jrnDisk /\ db = before /\ dbDisk = before
  /\ pc = "rclearsync" => Undoable /\ jrn = EmptyJournal /\ db = before /\ dbDisk = before

\* The inductive invariant.
JournalInv == TypeOK /\ pc # "failed" /\ PhaseOK

USE MaxPageType, InitPagesType, ValDistinct, NoHeaderType

-----------------------------------------------------------------------------
(***************************************************************************)
(* Files and journals                                                      *)
(***************************************************************************)

\* A journal without a header or without a count is not hot.
LEMMA NotHot ==
  ASSUME NEW j, j.orig = NoHeader \/ ~j.counted
  PROVE  ~Hot(j)
BY DEF Hot

\* A journal that can undo a transaction is hot.
LEMMA UsableIsHot ==
  ASSUME NEW j, JournalOK(j)
  PROVE  Hot(j)
BY DEF Hot, JournalOK, Page

\* The size of an image is the one open() reads off the file.
LEMMA PagesOfGood ==
  ASSUME NEW f, NEW n, Good(f, n)
  PROVE  PagesOf(f) = n
<1> DEFINE IsSize(m) == (m > 0 => f[m] # Absent) /\ \A p \in Page : p > m => f[p] = Absent
<1>1. n \in 0 .. MaxPage /\ IsSize(n)
  BY DEF Good, Sized, Page
<1>2. \A m \in 0 .. MaxPage : IsSize(m) => m = n
  BY DEF Good, Sized, Page
<1> QED
  BY <1>1, <1>2 DEF PagesOf

\* The image a commit installs is a good one.
LEMMA StagedGood ==
  ASSUME TypeOK, Committing
  PROVE  Good(after, pageCount)
<1>1. after \in [Page -> Val \cup {Absent}]
  BY DEF TypeOK, Committing, OverlayOK, Good, Sized, Staged, Page
<1>2. Sized(after, pageCount)
  BY DEF TypeOK, Committing, OverlayOK, Good, Sized, Staged, Page
<1> QED
  BY <1>1, <1>2 DEF Committing, OverlayOK, Good

\* The finished journal of a commit holds the original of every dirty page that
\* was on disk, page 1 among them, so it undoes whatever the commit writes.
LEMMA CommitJournal ==
  ASSUME TypeOK, Committing
  PROVE  LET j == JournalOf({}, TRUE) IN
         /\ Playable(j) = {p \in Dirty : p <= diskPages}
         /\ JournalOK(j)
<1> DEFINE j == JournalOf({}, TRUE)
<1>1. /\ j.orig = diskPages /\ diskPages \in Page /\ j.counted
      /\ \A p \in Page : j.recs[p] = IF p \in Dirty /\ p <= diskPages THEN before[p] ELSE Absent
  BY DEF JournalOf, Committing, Good
<1>2. \A p \in Page : j.recs[p] # Torn
  BY <1>1, Zenon DEF Committing, Good
<1>3. \A p \in Page : p <= diskPages => before[p] # Absent
  BY DEF Committing, Good, Sized
<1>4. \A p \in Page : 1 .. p \subseteq Page
  BY DEF Page
<1>5. Playable(j) = {p \in Dirty : p <= diskPages}
  BY <1>1, <1>2, <1>3, <1>4, Zenon DEF Playable, Dirty
<1>6. 1 \in Playable(j)
  <2>1. 1 \in Page /\ 1 <= diskPages
    BY <1>1 DEF Page
  <2>2. 1 \in Dirty
    BY <2>1 DEF Committing, OverlayOK, Dirty
  <2> QED
    BY <1>5, <2>1, <2>2, Zenon
<1> QED
  BY <1>1, <1>5, <1>6, Zenon DEF JournalOK, Committing, Dirty

\* Playing the journal back gives the old image.
LEMMA RestoredIsBefore ==
  ASSUME NEW f, NEW j, JournalOK(j), Covers(f, j)
  PROVE  Restored(f, j) = before
<1>1. \A p \in Page : p <= j.orig => before[p] # Absent
  BY DEF JournalOK, Good, Sized
<1>2. \A p \in Page : p > j.orig => before[p] = Absent
  BY DEF JournalOK, Good, Sized, Page
<1>3. before = [p \in Page |-> before[p]]
  BY DEF JournalOK, Good
<1>4. \A p \in Page : Restored(f, j)[p] = before[p]
  BY <1>1, <1>2 DEF Restored, Resized, JournalOK, Covers, Page
<1> QED
  BY <1>3, <1>4 DEF Restored, Resized

\* What is on disk in each phase, once recovered.
LEMMA ViewOf ==
  ASSUME TypeOK
  PROVE  /\ Clean => View = db
         /\ Journalling => View = before
         /\ Undoable => View = before
<1>1. Clean => View = db
  BY DEF Clean, View
<1>2. Journalling => View = before
  BY DEF Journalling, View
<1>3. Undoable => View = before
  BY UsableIsHot, RestoredIsBefore DEF Undoable, View
<1> QED
  BY <1>1, <1>2, <1>3

-----------------------------------------------------------------------------
(***************************************************************************)
(* Types                                                                   *)
(***************************************************************************)

\* Every step of commit, of recovery and every crash keeps the types.
LEMMA TypeStep ==
  ASSUME JournalInv, Next
  PROVE  TypeOK'
<1> USE DEF TypeOK, JournalInv
<1>0. EmptyJournal \in Journal /\ NoPages \in File /\ NoPages \in [Page -> Val \cup {Absent}]
  BY DEF EmptyJournal, Journal, NoPages, File, Content
<1>1. ASSUME NEW ov \in [Page -> Val \cup {Absent}], NEW n \in Page, Begin(ov, n)
      PROVE  TypeOK'
  <2>1. Staged(db, ov, n) \in File
    BY DEF Staged, File, Content
  <2>2. n \in 0 .. MaxPage
    BY DEF Page
  <2> QED
    BY <1>1, <2>1, <2>2, Zenon DEF Begin, CommitStep
<1>2. CASE JTruncate
  BY <1>0, <1>2 DEF JTruncate, CommitStep
<1>3. CASE JHeader
  <2>1. [jrn EXCEPT !.orig = diskPages] \in Journal
    BY DEF Journal
  <2> QED
    BY <1>3, <2>1 DEF JHeader, CommitStep, Dirty
<1>4. ASSUME NEW p \in Page, JRecord(p)
      PROVE  TypeOK'
  <2>1. [jrn EXCEPT !.recs[p] = db[p]] \in Journal
    BY DEF Journal, File
  <2> QED
    BY <1>4, <2>1 DEF JRecord
<1>5. CASE JRecordSync
  BY <1>5 DEF JRecordSync, CommitStep
<1>6. CASE JCount
  <2>1. [jrn EXCEPT !.counted = \E p \in Page : jrn.recs[p] # Absent] \in Journal
    BY Zenon DEF Journal
  <2> QED
    BY <1>6, <2>1 DEF JCount, CommitStep
<1>7. CASE JCountSync
  BY <1>7 DEF JCountSync, CommitStep, Dirty
<1>8. ASSUME NEW p \in Page, WritePage(p)
      PROVE  TypeOK'
  BY <1>8 DEF WritePage, File, Content
<1>9. \A n : Resized(db, n) \in File
  BY DEF Resized, File, Content
<1>10. CASE Truncate
  BY <1>9, <1>10 DEF Truncate, CommitStep
<1>11. CASE Sync
  BY <1>11 DEF Sync, CommitStep
<1>12. CASE JClear
  BY <1>0, <1>12 DEF JClear, CommitStep
<1>13. CASE JClearSync
  BY <1>0, <1>13 DEF JClearSync
<1>14. CASE Crash
  <2>1. FileAfterCrash \subseteq File
    BY DEF FileAfterCrash
  <2>2. ASSUME NEW j \in JournalAfterCrash
        PROVE  j \in Journal
    <3>1. CASE j = jrnDisk
      BY <3>1
    <3>2. CASE j # jrnDisk
      <4>1. PICK o \in LostOr({NoHeader}, jrnDisk.orig, jrn.orig),
                 c \in LostOr({FALSE}, jrnDisk.counted, jrn.counted),
                 r \in RecordsAfterCrash :
              j = [orig |-> o, counted |-> c, recs |-> r]
        BY <3>2 DEF JournalAfterCrash
      <4>2. o \in (0 .. MaxPage) \cup {NoHeader} /\ c \in BOOLEAN /\ r \in File
        BY Zenon DEF LostOr, RecordsAfterCrash, Journal
      <4> QED
        BY <4>1, <4>2 DEF Journal
    <3> QED
      BY <3>1, <3>2
  <2> QED
    BY <1>0, <1>14, <2>1, <2>2 DEF Crash, RecoverStep
<1>15. CASE OpenClean
  <2>1. PagesOf(db) \in 0 .. MaxPage
    <3>1. CASE db = NoPages
      BY <3>1 DEF PagesOf, NoPages, Page
    <3>2. CASE Clean
      BY <3>2, PagesOfGood DEF Clean, Good, Page
    <3>3. ~Undoable \/ db = NoPages
      BY <1>15, UsableIsHot DEF OpenClean, PhaseOK, Undoable
    <3> QED
      BY <1>15, <3>1, <3>2, <3>3 DEF OpenClean, PhaseOK
  <2> QED
    BY <1>0, <1>15, <2>1 DEF OpenClean
<1>16. CASE OpenHot
  BY <1>16 DEF OpenHot, RecoverStep, Playable
<1>17. ASSUME NEW p \in Page, Replay(p)
       PROVE  TypeOK'
  BY <1>17 DEF Replay, File, Journal
<1>18. CASE RTruncate
  BY <1>9, <1>18 DEF RTruncate, RecoverStep
<1>19. CASE RSync
  BY <1>19 DEF RSync, RecoverStep
<1>20. CASE RClear
  BY <1>0, <1>20 DEF RClear, RecoverStep
<1>21. CASE RClearSync
  <2>1. PagesOf(db) \in 0 .. MaxPage
    BY <1>21, PagesOfGood DEF RClearSync, PhaseOK, Undoable, JournalOK, Good, Page
  <2> QED
    BY <1>21, <2>1 DEF RClearSync
<1> QED
  BY <1>1, <1>2, <1>3, <1>4, <1>5, <1>6, <1>7, <1>8, <1>10, <1>11, <1>12, <1>13, <1>14,
     <1>15, <1>16, <1>17, <1>18, <1>19, <1>20, <1>21 DEF Next

-----------------------------------------------------------------------------
(***************************************************************************)
(* The steps of commit                                                     *)
(***************************************************************************)

\* commit starts from a clean database.
LEMMA BeginStep ==
  ASSUME ~MayShrink, JournalInv,
         NEW ov \in [Page -> Val \cup {Absent}], NEW n \in Page, Begin(ov, n)
  PROVE  PhaseOK'
<1>1. Clean /\ Good(db, diskPages)
  BY DEF JournalInv, PhaseOK, Begin
<1>2. Good(before, diskPages)'
  BY <1>1 DEF Begin, Good, Sized
<1>3. OverlayOK'
  BY <1>1 DEF Begin, OverlayOK, Good, Page
<1>4. Committing'
  BY <1>2, <1>3 DEF Begin, Committing
<1>5. (~Hot(jrnDisk))'
  BY <1>1 DEF Begin, Clean
<1>6. Journalling' /\ (jrn = jrnDisk)'
  BY <1>1, <1>4, <1>5 DEF Begin, Clean, Journalling
<1> QED
  BY <1>6 DEF Begin, PhaseOK

\* While the journal is being written the database is untouched and the journal
\* on disk is not hot.
LEMMA JournallingStep ==
  ASSUME JournalInv,
         \/ JTruncate \/ JHeader \/ JRecordSync \/ JCount
         \/ \E p \in Page : JRecord(p)
  PROVE  PhaseOK'
<1>1. Journalling
  BY Zenon DEF JournalInv, PhaseOK, JTruncate, JHeader, JRecordSync, JCount, JRecord
<1>2. /\ UNCHANGED <<db, dbDisk, overlay, pageCount, diskPages, before, after, acked>>
      /\ Dirty' = Dirty
  BY DEF JTruncate, JHeader, JRecordSync, JCount, JRecord, Dirty
<1>3. Committing'
  BY <1>1, <1>2 DEF Journalling, Committing, OverlayOK
<1>4. ASSUME (~Hot(jrnDisk))' PROVE Journalling'
  BY <1>1, <1>2, <1>3, <1>4 DEF Journalling
<1>5. ASSUME NEW S, NEW c PROVE JournalOf(S, c)' = JournalOf(S, c)
  BY <1>2 DEF JournalOf
<1>6. CASE JTruncate
  BY <1>1, <1>4, <1>6 DEF JTruncate, PhaseOK, Journalling
<1>7. CASE JHeader
  <2>1. jrn = EmptyJournal
    BY <1>7 DEF JournalInv, PhaseOK, JHeader
  <2>2. jrn' = [orig |-> diskPages, counted |-> FALSE, recs |-> NoPages]
    BY <1>7, <2>1, Zenon DEF JHeader, EmptyJournal
  <2>3. JournalOf(todo', FALSE) = [orig |-> diskPages, counted |-> FALSE, recs |-> NoPages]
    BY <1>7, Zenon DEF JHeader, JournalOf, NoPages
  <2>4. (jrn = JournalOf(todo, FALSE))'
    BY <1>2, <2>2, <2>3 DEF JournalOf
  <2> QED
    BY <1>1, <1>2, <1>4, <1>7, <2>4, Zenon DEF JHeader, PhaseOK, Journalling
<1>8. ASSUME NEW p \in Page, JRecord(p)
      PROVE  PhaseOK'
  <2>1. jrn = JournalOf(todo, FALSE) /\ p \in todo /\ todo \subseteq {q \in Dirty : q <= diskPages}
    BY <1>8 DEF JournalInv, PhaseOK, JRecord, IsFirst
  <2>2. jrn' = JournalOf(todo \ {p}, FALSE)
    <3>1. [jrn.recs EXCEPT ![p] = db[p]] = JournalOf(todo \ {p}, FALSE).recs
      BY <1>1, <2>1 DEF JournalOf, Journalling
    <3>2. jrn' = [orig |-> diskPages, counted |-> FALSE, recs |-> [jrn.recs EXCEPT ![p] = db[p]]]
      BY <1>8, <2>1, Zenon DEF JRecord, JournalOf
    <3> QED
      BY <3>1, <3>2, Zenon DEF JournalOf
  <2>3. (jrn = JournalOf(todo, FALSE))'
    <3>1. todo' = todo \ {p}
      BY <1>8 DEF JRecord
    <3>2. JournalOf(todo, FALSE)' = JournalOf(todo \ {p}, FALSE)
      BY <1>2, <3>1 DEF JournalOf
    <3> QED
      BY <2>2, <3>2, Zenon
  <2> QED
    BY <1>1, <1>2, <1>4, <1>8, <2>1, <2>3, Zenon DEF JRecord, PhaseOK, Journalling
<1>9. CASE JRecordSync
  <2>1. jrn = JournalOf({}, FALSE)
    BY <1>9 DEF JournalInv, PhaseOK, JRecordSync
  <2>2. ~Hot(jrn)
    BY <2>1, NotHot DEF JournalOf
  <2>3. (jrn = JournalOf({}, FALSE) /\ jrnDisk = jrn)' /\ (~Hot(jrnDisk))'
    BY <1>2, <1>9, <2>1, <2>2 DEF JournalOf, JRecordSync
  <2> QED
    BY <1>4, <1>9, <2>3 DEF JRecordSync, PhaseOK
<1>10. CASE JCount
  <2>1. jrn = JournalOf({}, FALSE) /\ jrnDisk = jrn
    BY <1>10 DEF JournalInv, PhaseOK, JCount
  <2>2. 1 \in Page /\ 1 \in Dirty /\ 1 <= diskPages /\ before[1] # Absent
    BY <1>1 DEF Journalling, Committing, OverlayOK, Good, Sized, Dirty, Page
  <2>3. jrn.recs[1] # Absent
    BY <2>1, <2>2 DEF JournalOf
  <2>4. jrn' = JournalOf({}, TRUE)
    BY <1>10, <2>1, <2>2, <2>3, Zenon DEF JCount, JournalOf
  <2>5. (jrn = JournalOf({}, TRUE) /\ jrnDisk = JournalOf({}, FALSE))'
    BY <1>2, <1>10, <2>1, <2>4, Zenon DEF JCount, JournalOf
  <2>6. (~Hot(jrnDisk))'
    BY <1>1, <1>10 DEF JCount, Journalling
  <2> QED
    BY <1>4, <1>10, <2>5, <2>6, Zenon DEF JCount, PhaseOK
<1> QED
  BY <1>6, <1>7, <1>8, <1>9, <1>10

\* The journal becomes hot and can undo everything that follows.
LEMMA JCountSyncStep ==
  ASSUME JournalInv, JCountSync
  PROVE  PhaseOK'
<1>1. Journalling /\ jrn = JournalOf({}, TRUE)
  BY DEF JournalInv, PhaseOK, JCountSync
<1>2. JournalOK(jrn)
  BY <1>1, CommitJournal, Zenon DEF JournalInv, Journalling
<1>3. before[1] # Absent
  BY <1>1 DEF Journalling, Committing, Good, Sized, Page
<1>4. Covers(before, jrn)
  BY <1>3 DEF Covers
<1>5. /\ UNCHANGED <<db, dbDisk, jrn, overlay, pageCount, diskPages, before, after, acked>>
      /\ jrnDisk' = jrn /\ todo' = Dirty /\ Dirty' = Dirty /\ pc' = "write"
  BY DEF JCountSync, Dirty
<1>6. Committing'
  BY <1>1, <1>5 DEF Journalling, Committing, OverlayOK
<1>7. Undoable'
  BY <1>1, <1>2, <1>4, <1>5, Zenon DEF Journalling, Committing, Undoable, JournalOK, Covers
<1>8. (jrn = JournalOf({}, TRUE))'
  BY <1>1, <1>5 DEF JournalOf
<1>9. db' = [p \in Page |-> IF p \in Dirty' \ todo' THEN overlay'[p] ELSE before'[p]]
  BY <1>1, <1>5 DEF Journalling, Committing, Good
<1> QED
  BY <1>1, <1>5, <1>6, <1>7, <1>8, <1>9, Zenon DEF PhaseOK, HalfWritten, Journalling

\* Writing the pages, cutting the file and syncing it stay within what the
\* journal covers.
LEMMA WritingStep ==
  ASSUME JournalInv,
         Truncate \/ Sync \/ JClear \/ \E p \in Page : WritePage(p)
  PROVE  PhaseOK'
<1>1. Committing /\ Undoable /\ jrnDisk = jrn
  BY Zenon DEF JournalInv, PhaseOK, Truncate, Sync, JClear, WritePage
<1>2. /\ UNCHANGED <<jrnDisk, overlay, pageCount, diskPages, before, after, acked>>
      /\ Dirty' = Dirty
  BY DEF Truncate, Sync, JClear, WritePage, Dirty
<1>3. Committing'
  BY <1>1, <1>2 DEF Committing, OverlayOK
<1>4. ASSUME Covers(db', jrnDisk), Covers(dbDisk', jrnDisk) PROVE Undoable'
  BY <1>1, <1>2, <1>4 DEF Undoable, JournalOK, Covers
<1>5. CASE JClear
  BY <1>1, <1>2, <1>3, <1>4, <1>5 DEF JournalInv, PhaseOK, JClear, Undoable
<1>6. CASE Sync
  BY <1>1, <1>2, <1>3, <1>4, <1>6 DEF JournalInv, PhaseOK, Sync, Undoable
<1>7. ASSUME NEW p \in Page, WritePage(p)
      PROVE  PhaseOK'
  <2>1. /\ jrn = JournalOf({}, TRUE) /\ todo \subseteq Dirty /\ dbDisk = before
        /\ db = [q \in Page |-> IF q \in Dirty \ todo THEN overlay[q] ELSE before[q]]
        /\ p \in todo
    BY <1>7 DEF JournalInv, PhaseOK, HalfWritten, WritePage, IsFirst
  <2>2. Playable(jrnDisk) = {q \in Dirty : q <= diskPages} /\ jrnDisk.orig = diskPages
    BY <1>1, <2>1, CommitJournal DEF JournalInv, JournalOf
  <2>3. db' = [db EXCEPT ![p] = overlay[p]] /\ todo' = todo \ {p} /\ UNCHANGED <<dbDisk, jrn, pc>>
    BY <1>7 DEF WritePage
  <2>4. db' = [q \in Page |-> IF q \in Dirty \ (todo \ {p}) THEN overlay[q] ELSE before[q]]
    BY <2>1, <2>3
  <2>5. Covers(db', jrnDisk)
    <3>1. 1 \in Page /\ overlay[p] # Absent /\ before[1] # Absent
      BY <1>1, <2>1 DEF Committing, OverlayOK, Good, Sized, Dirty, Page
    <3>2. db'[1] # Absent
      BY <1>1, <2>1, <2>3, <3>1 DEF Undoable, Covers
    <3>3. \A q \in Page : q # p => db'[q] = db[q]
      BY <2>1, <2>3
    <3>4. p <= diskPages => p \in Playable(jrnDisk)
      BY <2>1, <2>2
    <3> QED
      BY <1>1, <2>2, <3>2, <3>3, <3>4 DEF Undoable, Covers
  <2>6. Undoable'
    BY <1>1, <1>4, <2>3, <2>5 DEF Undoable
  <2>7. (jrn = JournalOf({}, TRUE))'
    BY <1>2, <2>1, <2>3 DEF JournalOf
  <2> QED
    BY <1>1, <1>2, <1>3, <1>7, <2>1, <2>3, <2>4, <2>6, <2>7, Zenon DEF PhaseOK, HalfWritten, WritePage
<1>8. CASE Truncate
  <2>1. /\ jrn = JournalOf({}, TRUE) /\ dbDisk = before
        /\ db = [q \in Page |-> IF q \in Dirty THEN overlay[q] ELSE before[q]]
        /\ db' = Resized(db, pageCount)
    BY <1>8 DEF JournalInv, PhaseOK, HalfWritten, Truncate
  <2>2. \A q \in Page : q <= pageCount => db[q] # Absent
    BY <1>1, <2>1 DEF Committing, OverlayOK, Good, Sized, Dirty, Page
  <2>3. db' = after
    <3>1. after = [q \in Page |-> IF q > pageCount THEN Absent
                                 ELSE IF overlay[q] # Absent THEN overlay[q] ELSE before[q]]
      BY <1>1 DEF Committing, Staged
    <3>2. db' = [q \in Page |-> IF q > pageCount THEN Absent
                               ELSE IF db[q] = Absent THEN Torn ELSE db[q]]
      BY <2>1 DEF Resized
    <3>3. pageCount \in Nat
      BY <1>1 DEF Committing, OverlayOK, Page
    <3>4. \A q \in Page : after[q] = db'[q]
      BY <2>1, <2>2, <3>1, <3>2, <3>3 DEF Dirty, Page
    <3> QED
      BY <3>1, <3>2, <3>4
  <2>4. Covers(db', jrnDisk)
    <3>1. jrnDisk.orig <= pageCount /\ jrnDisk.orig \in Page /\ pageCount \in Page
      BY <1>1, <2>1 DEF Committing, OverlayOK, Undoable, JournalOK, JournalOf
    <3>2. \A q \in Page : q <= pageCount => db'[q] = db[q]
      BY <2>1, <2>2, <3>1 DEF Resized, Page
    <3> QED
      BY <1>1, <3>1, <3>2 DEF Undoable, Covers, Page
  <2>5. Undoable'
    BY <1>1, <1>4, <1>8, <2>4 DEF Undoable, Truncate
  <2> QED
    BY <1>1, <1>2, <1>3, <1>8, <2>3, <2>5 DEF PhaseOK, Truncate
<1> QED
  BY <1>5, <1>6, <1>7, <1>8

\* The journal is cleared and synced: the transaction is in.
LEMMA JClearSyncStep ==
  ASSUME JournalInv, JClearSync
  PROVE  PhaseOK'
<1>1. Committing /\ jrn = EmptyJournal /\ db = after /\ dbDisk = after
  BY DEF JournalInv, PhaseOK, JClearSync
<1>2. Good(after, pageCount) /\ pageCount \in Page
  BY <1>1, StagedGood DEF JournalInv, Good
<1>3. ~Hot(jrn)
  BY <1>1, NotHot DEF EmptyJournal
<1>4. Clean'
  BY <1>1, <1>2, <1>3 DEF JClearSync, Clean, Good, Sized
<1>5. Good(db, diskPages)'
  BY <1>1, <1>2 DEF JClearSync, Good, Sized
<1> QED
  BY <1>4, <1>5 DEF JClearSync, PhaseOK

-----------------------------------------------------------------------------
(***************************************************************************)
(* Crash and recovery                                                      *)
(***************************************************************************)

\* A synced file survives as it is.
LEMMA SyncedFile ==
  ASSUME TypeOK, NEW f \in FileAfterCrash, dbDisk = db
  PROVE  f = db
<1>1. \A p \in Page : f[p] = db[p]
  BY DEF FileAfterCrash, Survives
<1> QED
  BY <1>1 DEF TypeOK, FileAfterCrash, File

\* A page on which the file on disk and the file in memory agree survives.
LEMMA CoveredFile ==
  ASSUME TypeOK, NEW j, JournalOK(j), Covers(db, j), Covers(dbDisk, j), NEW f \in FileAfterCrash
  PROVE  Covers(f, j)
<1>1. 1 \in Page
  BY DEF Page
<1>2. f[1] # Absent
  BY <1>1, Zenon DEF FileAfterCrash, Survives, Covers
<1>3. \A p \in Page : p <= j.orig /\ p \notin Playable(j) => f[p] = before[p]
  BY Zenon DEF FileAfterCrash, Survives, Covers
<1> QED
  BY <1>2, <1>3 DEF Covers

\* What a crash can do to the journal.
LEMMA CrashedJournal ==
  ASSUME TypeOK, NEW j \in JournalAfterCrash
  PROVE  /\ jrn = jrnDisk => j = jrn
         /\ jrn.orig = NoHeader => j = jrnDisk \/ j.orig = NoHeader
         /\ ~jrn.counted => j = jrnDisk \/ ~j.counted
         /\ jrn.orig = jrnDisk.orig /\ jrn.recs = jrnDisk.recs
              => j = jrnDisk \/ j = jrn \/ ~j.counted
<1>1. CASE j = jrnDisk
  BY <1>1
<1>2. CASE j # jrnDisk
  <2>1. PICK o \in LostOr({NoHeader}, jrnDisk.orig, jrn.orig),
             c \in LostOr({FALSE}, jrnDisk.counted, jrn.counted),
             r \in RecordsAfterCrash :
          j = [orig |-> o, counted |-> c, recs |-> r]
    BY <1>2 DEF JournalAfterCrash
  <2>2. jrn.orig = jrnDisk.orig => j.orig = jrn.orig
    BY <2>1 DEF LostOr
  <2>3. jrn.orig = NoHeader => j.orig = NoHeader
    BY <2>1 DEF LostOr
  <2>4. j.counted = jrn.counted \/ j.counted = FALSE
    BY <2>1, Zenon DEF LostOr
  <2>5. jrn.recs = jrnDisk.recs => j.recs = jrn.recs
    <3>1. SUFFICES ASSUME jrn.recs = jrnDisk.recs
                   PROVE  r = jrn.recs
      BY <2>1
    <3>2. \A p \in Page : r[p] = jrn.recs[p]
      BY <3>1 DEF RecordsAfterCrash, LostOr
    <3>3. r \in File /\ jrn.recs \in File
      BY DEF RecordsAfterCrash, TypeOK, Journal
    <3> QED
      BY <3>2, <3>3 DEF File
  <2>6. j = [orig |-> j.orig, counted |-> j.counted, recs |-> j.recs]
    BY <2>1
  <2>7. jrn = [orig |-> jrn.orig, counted |-> jrn.counted, recs |-> jrn.recs]
    BY DEF TypeOK, Journal
  <2>8. jrn = jrnDisk => j.counted = jrn.counted
    BY <2>1 DEF LostOr
  <2> QED
    BY <2>2, <2>3, <2>4, <2>5, <2>6, <2>7, <2>8
<1> QED
  BY <1>1, <1>2

\* A crash leaves a clean database or one that the journal can undo.
LEMMA CrashStep ==
  ASSUME JournalInv, Crash
  PROVE  PhaseOK'
<1> USE DEF JournalInv
<1>1. PICK f \in FileAfterCrash : db' = f /\ dbDisk' = f
  BY DEF Crash
<1>2. PICK j \in JournalAfterCrash : jrn' = j /\ jrnDisk' = j
  BY DEF Crash
<1>3. UNCHANGED <<before, after, acked>> /\ pc' = "open"
  BY DEF Crash
<1>4. SUFFICES (Clean \/ Undoable)'
  BY <1>1, <1>2, <1>3 DEF PhaseOK
<1>5. ASSUME dbDisk = db, ~Hot(j), db \in {before, after}, acked => db = after, NEW n, Good(db, n)
      PROVE  Clean'
  <2>1. db' = db
    BY <1>1, <1>5, SyncedFile
  <2>2. n \in Page
    BY <1>5 DEF Good
  <2> QED
    BY <1>1, <1>2, <1>3, <1>5, <2>1, <2>2 DEF Clean, Good, Sized
<1>6. ASSUME Undoable, j = jrnDisk
      PROVE  Undoable'
  <2>1. Covers(f, jrnDisk)
    BY <1>6, CoveredFile DEF Undoable
  <2> QED
    BY <1>1, <1>2, <1>3, <1>6, <2>1 DEF Undoable, JournalOK, Covers
<1>7. CASE pc = "idle"
  BY <1>5, <1>7, CrashedJournal DEF PhaseOK, Clean
<1>8. CASE pc \in {"jtruncate", "jheader", "jrecord", "jcount"}
  <2>1. Journalling
    BY <1>8, Zenon DEF PhaseOK
  <2>2. jrn = jrnDisk \/ ~jrn.counted
    BY <1>8 DEF PhaseOK, EmptyJournal, JournalOf
  <2>3. ~Hot(j)
    BY <2>1, <2>2, CrashedJournal, NotHot DEF Journalling
  <2> QED
    BY <1>5, <2>1, <2>3 DEF Journalling, Committing
<1>9. CASE pc = "jsync"
  <2>1. Journalling /\ jrn = JournalOf({}, TRUE) /\ jrnDisk = JournalOf({}, FALSE)
    BY <1>9 DEF PhaseOK
  <2>2. j = jrn \/ ~Hot(j)
    BY <2>1, CrashedJournal, NotHot DEF JournalOf, Journalling
  <2>3. CASE ~Hot(j)
    BY <1>5, <2>1, <2>3 DEF Journalling, Committing
  <2>4. CASE j = jrn
    <3>1. JournalOK(j)
      BY <2>1, <2>4, CommitJournal, Zenon DEF Journalling
    <3>2. f = before
      BY <2>1, SyncedFile DEF Journalling
    <3>3. Covers(f, j)
      BY <2>1, <3>2 DEF Covers, Journalling, Committing, Good, Sized, Page
    <3>4. Undoable'
      BY <1>1, <1>2, <1>3, <2>1, <3>1, <3>3 DEF Undoable, JournalOK, Covers, Journalling, Committing
    <3> QED
      BY <3>4
  <2> QED
    BY <2>2, <2>3, <2>4
<1>10. CASE pc \in {"write", "sync", "jclear", "replay", "rsync", "rclear"}
  <2>1. Undoable /\ jrn = jrnDisk
    BY <1>10, Zenon DEF PhaseOK
  <2> QED
    BY <1>6, <2>1, CrashedJournal
<1>11. CASE pc \in {"jclearsync", "rclearsync"}
  <2>1. Undoable /\ jrn = EmptyJournal /\ dbDisk = db
    BY <1>11 DEF PhaseOK
  <2>2. j = jrnDisk \/ ~Hot(j)
    BY <2>1, CrashedJournal, NotHot DEF EmptyJournal
  <2>3. db \in {before, after} /\ \E n : Good(db, n)
    BY <1>11, StagedGood DEF PhaseOK, Undoable, JournalOK
  <2> QED
    BY <1>5, <1>6, <2>1, <2>2, <2>3 DEF Undoable
<1>12. CASE pc = "open"
  <2>1. j = jrnDisk
    BY <1>12, CrashedJournal DEF PhaseOK
  <2> QED
    BY <1>5, <1>6, <1>12, <2>1 DEF PhaseOK, Clean
<1> QED
  BY <1>7, <1>8, <1>9, <1>10, <1>11, <1>12 DEF TypeOK, CommitStep, RecoverStep

\* Each step of recovery keeps the transaction undoable until it is undone.
LEMMA RecoveryStep ==
  ASSUME JournalInv,
         \/ OpenClean \/ OpenHot \/ RTruncate \/ RSync \/ RClear \/ RClearSync
         \/ \E p \in Page : Replay(p)
  PROVE  PhaseOK'
<1> USE DEF JournalInv
<1>1. UNCHANGED <<before, after, acked>>
  BY DEF OpenClean, OpenHot, RTruncate, RSync, RClear, RClearSync, Replay
<1>2. ASSUME Undoable, jrnDisk' = jrnDisk, Covers(db', jrnDisk), Covers(dbDisk', jrnDisk)
      PROVE  Undoable'
  BY <1>1, <1>2 DEF Undoable, JournalOK, Covers
<1>3. ASSUME Undoable
      PROVE  /\ Hot(jrnDisk) /\ db # NoPages
             /\ Covers(before, jrnDisk)
             /\ Good(before, jrnDisk.orig)
  <2>1. before[1] # Absent /\ 1 \in Page
    BY <1>3 DEF Undoable, JournalOK, Good, Sized, Page
  <2> QED
    BY <1>3, <2>1, UsableIsHot DEF Undoable, Covers, NoPages, JournalOK
<1>4. CASE OpenClean
  <2>1. Clean
    BY <1>3, <1>4 DEF OpenClean, PhaseOK
  <2>2. PICK n \in Page : Good(db, n)
    BY <2>1 DEF Clean
  <2>3. db # NoPages
    BY <2>2 DEF Good, Sized, NoPages, Page
  <2>4. jrn' = jrn /\ diskPages' = n
    BY <1>4, <2>2, <2>3, PagesOfGood DEF OpenClean
  <2>5. Clean' /\ Good(db, diskPages)'
    BY <1>1, <1>4, <2>1, <2>2, <2>4 DEF OpenClean, Clean, Good, Sized
  <2> QED
    BY <1>4, <2>5 DEF OpenClean, PhaseOK
<1>5. CASE OpenHot
  <2>1. Undoable /\ jrn = jrnDisk
    BY <1>5 DEF OpenHot, PhaseOK, Clean
  <2>2. Undoable'
    BY <1>2, <1>5, <2>1 DEF OpenHot, Undoable
  <2> QED
    BY <1>5, <2>1, <2>2 DEF OpenHot, PhaseOK
<1>6. ASSUME NEW p \in Page, Replay(p)
      PROVE  PhaseOK'
  <2>1. /\ Undoable /\ jrn = jrnDisk /\ p \in todo /\ todo \subseteq Playable(jrn)
        /\ \A q \in Playable(jrn) \ todo : db[q] = before[q]
    BY <1>6 DEF Replay, PhaseOK, IsFirst
  <2>2. jrn.recs[p] = before[p] /\ p <= jrn.orig /\ p \in Playable(jrn)
    BY <2>1 DEF Undoable, JournalOK
  <2>3. before[p] # Absent
    BY <1>3, <2>1, <2>2 DEF Good, Sized
  <2>4. db' = [db EXCEPT ![p] = before[p]] /\ UNCHANGED <<dbDisk, jrn, jrnDisk, pc>>
    BY <1>6, <2>2 DEF Replay
  <2>5. db'[p] = before[p] /\ \A q \in Page : q # p => db'[q] = db[q]
    BY <2>4 DEF TypeOK, File
  <2>6. Covers(db', jrnDisk)
    BY <2>1, <2>2, <2>3, <2>5 DEF Undoable, Covers, Page
  <2>7. Undoable'
    BY <1>2, <2>1, <2>4, <2>6 DEF Undoable
  <2>8. \A q \in Playable(jrn) \ (todo \ {p}) : db'[q] = before[q]
    BY <2>1, <2>5 DEF Playable
  <2> QED
    BY <1>1, <1>6, <2>1, <2>4, <2>7, <2>8 DEF Replay, PhaseOK
<1>7. CASE RTruncate
  <2>1. /\ Undoable /\ jrn = jrnDisk
        /\ \A q \in Playable(jrn) : db[q] = before[q]
        /\ db' = Resized(db, jrn.orig)
    BY <1>7 DEF RTruncate, PhaseOK
  <2>2. /\ Good(before, jrn.orig) /\ Covers(db, jrn) /\ Covers(before, jrnDisk)
    BY <1>3, <2>1 DEF Undoable
  <2>3. \A q \in Page : db'[q] = before[q]
    BY <2>1, <2>2 DEF Good, Sized, Covers, Resized, Page
  <2>4. db' = before
    BY <2>1, <2>2, <2>3 DEF Good, Resized
  <2>5. Undoable'
    BY <1>2, <1>7, <2>1, <2>2, <2>4 DEF RTruncate, Undoable
  <2> QED
    BY <1>1, <1>7, <2>1, <2>4, <2>5 DEF RTruncate, PhaseOK
<1>8. CASE RSync
  <2>1. Undoable /\ jrn = jrnDisk /\ db = before
    BY <1>8 DEF RSync, PhaseOK
  <2>2. Undoable'
    BY <1>2, <1>3, <1>8, <2>1 DEF RSync, Undoable
  <2> QED
    BY <1>1, <1>8, <2>1, <2>2 DEF RSync, PhaseOK
<1>9. CASE RClear
  <2>1. Undoable /\ jrn = jrnDisk /\ db = before /\ dbDisk = before
    BY <1>9 DEF RClear, PhaseOK
  <2>2. Undoable'
    BY <1>2, <1>9, <2>1 DEF RClear, Undoable
  <2> QED
    BY <1>1, <1>9, <2>1, <2>2 DEF RClear, PhaseOK
<1>10. CASE RClearSync
  <2>1. Undoable /\ jrn = EmptyJournal /\ db = before /\ dbDisk = before
    BY <1>10 DEF RClearSync, PhaseOK
  <2>2. Good(db, jrnDisk.orig) /\ diskPages' = jrnDisk.orig
    BY <1>3, <1>10, <2>1, PagesOfGood DEF RClearSync
  <2>3. ~Hot(jrn)
    BY <2>1, NotHot DEF EmptyJournal
  <2>4. Clean' /\ Good(db, diskPages)'
    BY <1>1, <1>10, <2>1, <2>2, <2>3 DEF RClearSync, Clean, Good, Sized, Undoable
  <2> QED
    BY <1>10, <2>4 DEF RClearSync, PhaseOK
<1> QED
  BY <1>4, <1>5, <1>6, <1>7, <1>8, <1>9, <1>10

-----------------------------------------------------------------------------
(***************************************************************************)
(* The invariant and the theorems                                          *)
(***************************************************************************)

\* A database that exists is clean at the start.
LEMMA JournalInit ==
  ASSUME InitPages > 0, Init
  PROVE  JournalInv
<1>1. db \in [Page -> Val \cup {Absent}] /\ Good(db, InitPages) /\ InitPages \in Page
  BY DEF Init, Good, Page
<1>2. EmptyJournal \in Journal /\ NoPages \in [Page -> Val \cup {Absent}]
  BY DEF EmptyJournal, Journal, NoPages, File, Content
<1>3. db \in File
  BY <1>1 DEF File, Content
<1>4. TypeOK
  BY <1>2, <1>3 DEF Init, TypeOK
<1>5. ~Hot(EmptyJournal)
  BY NotHot DEF EmptyJournal
<1>6. Clean /\ Good(db, diskPages)
  BY <1>1, <1>5 DEF Init, Clean
<1> QED
  BY <1>4, <1>6 DEF Init, JournalInv, PhaseOK

\* Every step keeps the invariant.
LEMMA JournalStep ==
  ASSUME ~MayShrink, JournalInv, [Next]_vars
  PROVE  JournalInv'
<1>1. CASE UNCHANGED vars
  <2>1. Clean' <=> Clean
    BY <1>1 DEF vars, Clean
  <2>2. Undoable' <=> Undoable
    BY <1>1 DEF vars, Undoable, JournalOK, Covers
  <2>3. Dirty' = Dirty
    BY <1>1 DEF vars, Dirty
  <2>4. Committing' <=> Committing
    BY <1>1 DEF vars, Committing, OverlayOK
  <2>5. Journalling' <=> Journalling
    BY <1>1, <2>4 DEF vars, Journalling
  <2>6. /\ JournalOf({}, FALSE)' = JournalOf({}, FALSE)
        /\ JournalOf({}, TRUE)' = JournalOf({}, TRUE)
        /\ JournalOf(todo, FALSE)' = JournalOf(todo, FALSE)
    BY <1>1, <2>3 DEF vars, JournalOf
  <2>7. HalfWritten' = HalfWritten
    BY <1>1, <2>3 DEF vars, HalfWritten
  <2>8. TypeOK' /\ pc' # "failed"
    BY <1>1 DEF vars, JournalInv, TypeOK
  <2>9. PhaseOK'
    <3>1. CASE pc \in {"idle", "open", "sync", "jclear", "jclearsync", "rsync", "rclear", "rclearsync"}
      BY <1>1, <2>1, <2>2, <2>4, <3>1, Zenon DEF vars, JournalInv, PhaseOK
    <3>2. CASE pc \in {"jtruncate", "jheader", "jcount", "jsync"}
      BY <1>1, <2>5, <2>6, <3>2, Zenon DEF vars, JournalInv, PhaseOK
    <3>3. CASE pc = "jrecord"
      BY <1>1, <2>3, <2>5, <2>6, <3>3, Zenon DEF vars, JournalInv, PhaseOK
    <3>4. CASE pc = "write"
      BY <1>1, <2>2, <2>3, <2>4, <2>6, <2>7, <3>4, Zenon DEF vars, JournalInv, PhaseOK
    <3>5. CASE pc = "replay"
      BY <1>1, <2>2, <3>5 DEF vars, JournalInv, PhaseOK
    <3> QED
      BY <3>1, <3>2, <3>3, <3>4, <3>5 DEF JournalInv, TypeOK, CommitStep, RecoverStep
  <2> QED
    BY <2>8, <2>9 DEF JournalInv
<1>2. CASE Next
  <2>1. TypeOK'
    BY <1>2, TypeStep
  <2>2. PhaseOK'
    BY <1>2, BeginStep, JournallingStep, JCountSyncStep, WritingStep, JClearSyncStep, CrashStep,
       RecoveryStep DEF Next
  <2>3. pc' # "failed"
    BY <1>2 DEF Next, JournalInv, Begin, JTruncate, JHeader, JRecordSync, JCount, JCountSync,
       Truncate, Sync, JClear, JClearSync, Crash, OpenClean, OpenHot, RTruncate, RSync, RClear,
       RClearSync, JRecord, WritePage, Replay
  <2> QED
    BY <2>1, <2>2, <2>3 DEF JournalInv
<1> QED
  BY <1>1, <1>2

\* What the invariant says about the image on disk.
LEMMA JournalConsequences ==
  ASSUME JournalInv
  PROVE  TypeOK /\ Atomic /\ Durable /\ WriteAhead
<1> USE DEF JournalInv
<1>1. Atomic
  BY DEF PhaseOK, Clean, Atomic
<1>2. Durable
  <2>1. SUFFICES ASSUME acked PROVE View = after
    BY DEF Durable
  <2>2. Clean
    BY <2>1 DEF PhaseOK, Undoable, Journalling, Committing, TypeOK, CommitStep, RecoverStep
  <2> QED
    BY <2>1, <2>2, ViewOf DEF Clean
<1>3. WriteAhead
  BY UsableIsHot, RestoredIsBefore, Zenon DEF PhaseOK, Undoable, WriteAhead
<1> QED
  BY <1>1, <1>2, <1>3

\* Types are preserved by commit, crash and recovery.
THEOREM TypeCorrect ==
  ASSUME InitPages > 0, ~MayShrink
  PROVE  Spec => []TypeOK
<1>1. Init => JournalInv
  BY JournalInit
<1>2. JournalInv /\ [Next]_vars => JournalInv'
  BY JournalStep
<1>3. JournalInv => TypeOK
  BY JournalConsequences
<1> QED
  BY <1>1, <1>2, <1>3, PTL DEF Spec

\* The commit is atomic and durable for any number of pages, page contents,
\* transactions, crashes and interrupted recoveries, as long as the database
\* already exists and no transaction shrinks it.
THEOREM CommitAtomic ==
  ASSUME InitPages > 0, ~MayShrink
  PROVE  Spec => [](Atomic /\ Durable)
<1>1. Init => JournalInv
  BY JournalInit
<1>2. JournalInv /\ [Next]_vars => JournalInv'
  BY JournalStep
<1>3. JournalInv => Atomic /\ Durable
  BY JournalConsequences
<1> QED
  BY <1>1, <1>2, <1>3, PTL DEF Spec

\* The journal on disk undoes the commit from its first write to the database
\* file until the file is synced.
THEOREM JournalWriteAhead ==
  ASSUME InitPages > 0, ~MayShrink
  PROVE  Spec => []WriteAhead
<1>1. Init => JournalInv
  BY JournalInit
<1>2. JournalInv /\ [Next]_vars => JournalInv'
  BY JournalStep
<1>3. JournalInv => WriteAhead
  BY JournalConsequences
<1> QED
  BY <1>1, <1>2, <1>3, PTL DEF Spec

-----------------------------------------------------------------------------
(***************************************************************************)
(* Refinement                                                              *)
(***************************************************************************)

\* The image on disk in each phase, and the images of the abstract store.
Visible ==
  /\ pc \in CommitStep => View = before /\ after \in Images /\ after # NoImage
  /\ pc \in RecoverStep \ {"open"} => View = before
  /\ pc = "idle" => View = db
  /\ View \in Images

\* What a reader of the file sees follows from the phase.
LEMMA ViewPhase == JournalInv => Visible
<1> SUFFICES ASSUME JournalInv PROVE Visible
  OBVIOUS
<1> USE DEF JournalInv
<1>1. ASSUME NEW f, NEW n, Good(f, n)
      PROVE  f \in Images /\ f # NoImage
  <2>1. f \in File /\ n \in 0 .. MaxPage
    BY <1>1 DEF Good, File, Content, Page
  <2> QED
    BY <1>1, <2>1, NoImageType DEF Good, Images
<1>2. pc \in CommitStep => Committing /\ View = before
  BY ViewOf, Zenon DEF PhaseOK, CommitStep, Journalling
<1>3. pc \in CommitStep => after \in Images /\ after # NoImage /\ before \in Images
  BY <1>1, <1>2, StagedGood DEF Committing
<1>4. pc \in RecoverStep \ {"open"} => View = before /\ View \in Images
  BY <1>1, ViewOf DEF PhaseOK, RecoverStep, Undoable, JournalOK
<1>5. pc \in {"idle", "open"} => View \in Images
  BY <1>1, ViewOf, Zenon DEF PhaseOK, Clean, Undoable, JournalOK
<1>6. pc = "idle" => View = db
  BY ViewOf DEF PhaseOK
<1> QED
  BY <1>2, <1>3, <1>4, <1>5, <1>6 DEF TypeOK, CommitStep, RecoverStep, Visible

\* A crash during a commit lets it take effect whole or not at all; a crash at
\* any other time changes nothing.
LEMMA CrashView ==
  ASSUME JournalInv, JournalInv', Crash
  PROVE  /\ pc \in CommitStep => View' \in {before, after}
         /\ pc \notin CommitStep => View' = View
<1> USE DEF JournalInv
<1>1. PICK f \in FileAfterCrash : db' = f /\ dbDisk' = f
  BY DEF Crash
<1>2. PICK j \in JournalAfterCrash : jrn' = j /\ jrnDisk' = j
  BY DEF Crash
<1>3. UNCHANGED <<before, after, acked>> /\ pc' = "open"
  BY DEF Crash
<1>4. (Clean' /\ View' = db' /\ db' \in {before, after}) \/ (Undoable' /\ View' = before)
  <2>1. Clean' \/ Undoable'
    BY <1>3 DEF PhaseOK
  <2>2. Clean' => View' = db'
    BY <1>1 DEF Clean, View
  <2>3. Undoable' => View' = before'
    <3>1. ASSUME Undoable'
          PROVE  Hot(j) /\ Restored(f, j) = before
      <4>1. JournalOK(j) /\ Covers(f, j)
        BY <1>1, <1>2, <1>3, <3>1 DEF Undoable, JournalOK, Covers
      <4> QED
        BY <4>1, UsableIsHot, RestoredIsBefore
    <3> QED
      BY <1>1, <1>2, <1>3, <3>1 DEF View
  <2> QED
    BY <1>3, <2>1, <2>2, <2>3 DEF Clean
<1>5. ASSUME dbDisk = db, jrn = jrnDisk PROVE View' = View
  <2>1. f = db /\ j = jrn
    BY <1>5, SyncedFile, CrashedJournal
  <2> QED
    BY <1>1, <1>2, <1>5, <2>1 DEF View
<1>6. CASE pc \in CommitStep
  BY <1>4, <1>6
<1>7. CASE pc \in {"idle", "open"}
  BY <1>5, <1>7 DEF PhaseOK, Clean, CommitStep
<1>8. CASE pc \in {"replay", "rsync", "rclear"}
  <2>1. Undoable /\ jrn = jrnDisk
    BY <1>8 DEF PhaseOK
  <2>2. Hot(j)
    BY <2>1, CrashedJournal, UsableIsHot DEF Undoable
  <2>3. ~Clean'
    BY <1>2, <2>2 DEF Clean
  <2> QED
    BY <1>4, <1>8, <2>1, <2>3, ViewOf DEF CommitStep
<1>9. CASE pc = "rclearsync"
  <2>1. Undoable /\ db = before /\ dbDisk = before
    BY <1>9 DEF PhaseOK
  <2>2. f = before
    BY <2>1, SyncedFile
  <2> QED
    BY <1>1, <1>4, <1>9, <2>1, <2>2, ViewOf DEF CommitStep
<1> QED
  BY <1>6, <1>7, <1>8, <1>9 DEF TypeOK, RecoverStep

\* commit and recovery implement the atomic store: the image that survives a
\* crash is replaced, in one step, by the whole image being committed.
THEOREM Refinement ==
  ASSUME InitPages > 0, ~MayShrink
  PROVE  Spec => ImplementsStore
<1>a. JournalInv => Visible
  BY ViewPhase
<1>0. (JournalInv => Visible) /\ (JournalInv => Visible)'
  BY <1>a, PTL
<1>1. Init => Store!StoreInit
  <2>1. ASSUME Init PROVE View \in Images /\ pc = "idle"
    BY <2>1, JournalInit, ViewPhase DEF Init, Visible
  <2> QED
    BY <2>1 DEF Store!StoreInit, CommitStep
<1>2. JournalInv /\ JournalInv' /\ [Next]_vars => [Store!StoreNext]_(Store!storeVars)
  <2> SUFFICES ASSUME JournalInv, JournalInv', [Next]_vars
               PROVE  [Store!StoreNext]_(Store!storeVars)
    OBVIOUS
  <2>v. Visible /\ Visible'
    BY <1>0
  <2> USE DEF Store!StoreNext, Store!storeVars
  <2>1. ASSUME NEW ov \in [Page -> Val \cup {Absent}], NEW n \in Page, Begin(ov, n)
        PROVE  Store!Stage
    <3>1. pc = "idle" /\ pc' = "jtruncate" /\ before' = db
      BY <2>1 DEF Begin
    <3>2. View = db /\ View' = before' /\ after' \in Images
      BY <3>1, <2>v DEF Visible, CommitStep
    <3> QED
      BY <3>1, <3>2 DEF Store!Stage, CommitStep
  <2>2. ASSUME pc \in CommitStep, pc' \in CommitStep, UNCHANGED <<before, after>>
        PROVE  UNCHANGED Store!storeVars
    BY <2>2, <2>v DEF Visible
  <2>3. ASSUME pc \in RecoverStep \ {"open"}, pc' \in RecoverStep \ {"open"}, UNCHANGED before
        PROVE  UNCHANGED Store!storeVars
    BY <2>3, <2>v DEF Visible, RecoverStep, CommitStep
  <2>4. ASSUME pc \notin CommitStep, pc' \notin CommitStep, UNCHANGED <<dbDisk, jrnDisk>>
        PROVE  UNCHANGED Store!storeVars
    BY <2>4 DEF View
  <2>5. CASE JClearSync
    <3>1. pc = "jclearsync" /\ pc' = "idle" /\ db' = after
      BY <2>5 DEF JClearSync, JournalInv, PhaseOK
    <3>2. View' = db' /\ after # NoImage
      BY <3>1, <2>v DEF Visible, CommitStep
    <3> QED
      BY <3>1, <3>2 DEF Store!Install, CommitStep
  <2>6. CASE Crash
    <3>1. pc' = "open"
      BY <2>6 DEF Crash
    <3>2. CASE pc \in CommitStep
      BY <2>6, <3>1, <3>2, <2>v, CrashView DEF Visible, Store!Install, Store!Drop, CommitStep
    <3>3. CASE pc \notin CommitStep
      BY <2>6, <3>1, <3>3, CrashView DEF CommitStep
    <3> QED
      BY <3>2, <3>3
  <2>7. CASE RClearSync
    <3>1. pc = "rclearsync" /\ pc' = "idle" /\ db' = before
      BY <2>7 DEF RClearSync, JournalInv, PhaseOK
    <3> QED
      BY <3>1, <2>v DEF Visible, RecoverStep, CommitStep
  <2>8. CASE OpenClean \/ OpenHot
    BY <2>4, <2>8 DEF OpenClean, OpenHot, CommitStep
  <2>9. CASE RTruncate \/ RSync \/ RClear \/ \E p \in Page : Replay(p)
    BY <2>3, <2>9 DEF RTruncate, RSync, RClear, Replay, RecoverStep
  <2>10. CASE \/ JTruncate \/ JHeader \/ JRecordSync \/ JCount \/ JCountSync
             \/ Truncate \/ Sync \/ JClear
             \/ \E p \in Page : JRecord(p) \/ WritePage(p)
    BY <2>2, <2>10 DEF JTruncate, JHeader, JRecordSync, JCount, JCountSync, Truncate, Sync, JClear,
                       JRecord, WritePage, CommitStep
  <2>11. CASE UNCHANGED vars
    BY <2>11 DEF vars, View
  <2> QED
    BY <2>1, <2>5, <2>6, <2>7, <2>8, <2>9, <2>10, <2>11 DEF Next
<1>3. Init => JournalInv
  BY JournalInit
<1>4. JournalInv /\ [Next]_vars => JournalInv'
  BY JournalStep
<1> QED
  BY <1>1, <1>2, <1>3, <1>4, PTL DEF Spec, ImplementsStore, Store!StoreSpec

=============================================================================
