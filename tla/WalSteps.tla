------------------------------ MODULE WalSteps ------------------------------
(***************************************************************************)
(* The inductive invariant of Wal, and that reading, writing and           *)
(* committing keep it.  WalProofs has the checkpoints and the theorems.    *)
(***************************************************************************)
EXTENDS Wal, WellFoundedInduction, TLAPS

\* What the constants are.
Bounds == /\ MaxPage \in Nat \ {0}
          /\ MaxCommit \in Nat
          /\ None \notin Nat

-----------------------------------------------------------------------------
(***************************************************************************)
(* The inductive invariant                                                 *)
(***************************************************************************)

\* Page contents; the bounds of Wal on serial numbers are not needed here.
Pic == [Page -> Nat \cup {None}]

Entry == [page : Page, size : 0 .. MaxPage, data : Nat]

Index == [log : Seq(Entry), backfill : Nat, readers : Seq(Nat)]

WalConn == [held : Unlocked .. Reserved, snapshot : Nat, mark : Nat \cup {None},
            dbSize : Page, pageCount : Page, overlay : Pic, view : Nat]

Job == [mode : Modes \cup {"passive"}, entry : Unlocked .. Reserved, took : BOOLEAN,
        mx : Nat, safe : Nat, size : 0 .. MaxPage, pages : SUBSET Entry]

Labels == {"idle", "reading", "writing", "append", "collect", "copy", "publish",
           "finish", "restart", "end"}

Checkpointing == Copying \cup {"finish", "restart", "end"}

Types ==
  /\ main \in Pic
  /\ index \in Index
  /\ locks \in LockStates
  /\ conn \in [Conn -> WalConn]
  /\ inTx \in [Conn -> BOOLEAN]
  /\ pc \in [Conn -> Labels]
  /\ job \in [Conn -> Job \cup {NoJob}]
  /\ history \in Seq(Pic) /\ Len(history) > 0

\* The newest committed image.
Last == history[Len(history)]

\* An image has the pages 1 .. n and no others.
Whole(img, n) == \A p \in Page : img[p] # None <=> p <= n

\* Every committed image is whole.
Images == \A h \in 1 .. Len(history) : \E n \in Page : Whole(history[h], n)

\* Frame i is the newest one of its page up to mx.
Final(log, i, mx) == \A j \in i + 1 .. mx : log[j].page # log[i].page

\* The log up to mx over the main file m is the image.
Shows(log, m, mx, img) ==
  \A p \in Page : img[p] # None =>
    /\ \A i \in 1 .. mx : log[i].page = p /\ Final(log, i, mx) => log[i].data = img[p]
    /\ (\A i \in 1 .. mx : log[i].page # p) => m[p] = img[p]

\* The log, backfilled up to b, and the main file m against the newest image.
LogIs(log, b, m, img) ==
  /\ Shows(log, m, Len(log), img)
  /\ Len(log) > 0 => log[Len(log)].size = SizeOf(img)
  /\ \A i \in 1 .. Len(log) : img[log[i].page] # None
  /\ \A p \in Page : m[p] # None => img[p] # None
  /\ b <= Len(log)
  /\ \A i \in 1 .. b : Final(log, i, Len(log)) => m[log[i].page] = log[i].data

LogOK == LogIs(index.log, index.backfill, main, Last)

\* One connection at most holds RESERVED, and the file's lock state shows it.
Holds(c) == conn[c].held = Reserved

LockOK ==
  /\ \A c \in Conn : Holds(c) => locks.reserved
  /\ \A c, d \in Conn : Holds(c) /\ Holds(d) => c = d

\* RESERVED taken for the length of a checkpoint only
Borrowed(c) == pc[c] \in Checkpointing /\ job[c].took

\* A writer, and a connection that is none.
WriterOK(c) ==
  IF Holds(c) /\ ~Borrowed(c)
  THEN /\ conn[c].view = Len(history)
       /\ conn[c].dbSize = SizeOf(Last)
       /\ conn[c].dbSize <= conn[c].pageCount
       /\ \A p \in Page : conn[c].overlay[p] # None => p <= conn[c].pageCount
       /\ \A p \in conn[c].dbSize + 1 .. conn[c].pageCount : conn[c].overlay[p] # None
  ELSE conn[c].overlay = Clean /\ pc[c] \notin {"writing", "append"}

\* A checkpoint with the locals j, between its first look at the log and its
\* last.
CopyIs(at, j, log, b, m, img) ==
  /\ b < j.safe /\ j.safe <= j.mx /\ j.mx <= Len(log)
  /\ \A i \in 1 .. j.mx : log[i].page <= j.size
  /\ \A p \in Page : j.size < p /\ img[p] # None =>
       \E i \in j.mx + 1 .. Len(log) : log[i].page = p
  /\ at = "copy" =>
       /\ \A f \in j.pages : \E i \in b + 1 .. j.safe : f = log[i]
       /\ \A f, g \in j.pages : f.page = g.page => f = g
       /\ \A i \in b + 1 .. j.safe : Final(log, i, Len(log)) => log[i] \in j.pages
  /\ at = "publish" =>
       \A i \in 1 .. j.safe : Final(log, i, Len(log)) => m[log[i].page] = log[i].data

CopyOK(c) == CopyIs(pc[c], job[c], index.log, index.backfill, main, Last)

\* The locals of a checkpoint.  With RESERVED nothing is appended meanwhile.
JobOK(c) ==
  LET j == job[c]
  IN  /\ j \in Job
      /\ j.took => Holds(c) /\ j.entry < Reserved
      /\ j.mode # "passive" => Holds(c)
      /\ Holds(c) => /\ j.size \in {0, SizeOf(Last)}
                     /\ pc[c] # "end" => j.mx = Len(index.log)
      /\ pc[c] = "restart" => j.mode = "truncate" /\ index.backfill = Len(index.log)

WalInv ==
  /\ Types
  /\ Images
  /\ LogOK
  /\ LockOK
  /\ \A c \in Conn : WriterOK(c)
  /\ \A c \in Conn : pc[c] \in Checkpointing => JobOK(c)
  /\ \A c \in Conn : pc[c] \in Copying => CopyOK(c)

-----------------------------------------------------------------------------
(***************************************************************************)
(* Frame numbers and images                                                *)
(***************************************************************************)

\* A non-empty set of frame numbers has a newest one, which Newest finds.
LEMMA NewestIn ==
  ASSUME NEW n \in Nat, NEW S \in SUBSET (0 .. n), S # {}
  PROVE  Newest(S) \in S /\ \A j \in S : j <= Newest(S)
<1> DEFINE T == {n - i : i \in S}
<1>0. PICK i0 \in S : TRUE
  BY Zenon
<1>1. T \subseteq Nat /\ n - i0 \in T
  OBVIOUS
<1>2. \E x \in T : \A y \in T : ~(<<y, x>> \in OpToRel(<, Nat))
  BY <1>1, WFMin, NatLessThanWellFounded, Zenon
<1>3. PICK x \in T : \A y \in T : ~(y < x)
  BY <1>1, <1>2, Zenon DEF OpToRel
<1>4. PICK i \in S : x = n - i
  BY <1>3
<1>5. \A j \in S : j <= i
  BY <1>3, <1>4
<1> QED
  BY <1>4, <1>5, Zenon DEF Newest

\* A non-empty set of marks has a least one, which Least finds.
LEMMA LeastIn ==
  ASSUME NEW S \in SUBSET Nat, S # {}
  PROVE  Least(S) \in S /\ \A j \in S : Least(S) <= j
<1>1. \E x \in S : \A y \in S : ~(<<y, x>> \in OpToRel(<, Nat))
  BY WFMin, NatLessThanWellFounded, Zenon
<1>2. PICK x \in S : \A y \in S : ~(y < x)
  BY <1>1, Zenon DEF OpToRel
<1>3. \A y \in S : x <= y
  BY <1>2
<1> QED
  BY <1>3, Zenon DEF Least

\* A page that is in the log up to mx has a newest frame there.
LEMMA FinalFrame ==
  ASSUME NEW log \in Seq(Entry), NEW mx \in 0 .. Len(log), NEW p \in Page,
         \E i \in 1 .. mx : log[i].page = p
  PROVE  \E i \in 1 .. mx : log[i].page = p /\ Final(log, i, mx)
<1> DEFINE S == {i \in 1 .. mx : log[i].page = p}
<1>1. S \in SUBSET (0 .. mx) /\ S # {} /\ mx \in Nat
  OBVIOUS
<1>2. Newest(S) \in S /\ \A j \in S : j <= Newest(S)
  BY <1>1, NewestIn, Zenon
<1>3. Final(log, Newest(S), mx)
  BY <1>2 DEF Final
<1> QED
  BY <1>2, <1>3

\* find_frame against Shows: what a reader at mx finds in the log, or else in
\* the main file.
LEMMA ReadsImage ==
  ASSUME NEW ix \in Index, NEW m \in Pic, NEW mx \in 0 .. Len(ix.log), NEW img \in Pic,
         Shows(ix.log, m, mx, img), NEW p \in Page, img[p] # None
  PROVE  (IF InLog(ix, p, mx) THEN FindFrame(ix, p, mx) ELSE m[p]) = img[p]
<1> DEFINE S == FramesOf(ix, p, 0, mx)
<1>0. ix.log \in Seq(Entry) /\ mx \in Nat
  BY DEF Index
<1>1. S = {i \in 1 .. mx : ix.log[i].page = p}
  BY <1>0 DEF FramesOf, Frames
<1>2. CASE S # {}
  <2>1. S \in SUBSET (0 .. mx)
    BY <1>1
  <2>2. Newest(S) \in S /\ \A j \in S : j <= Newest(S)
    BY <1>0, <1>2, <2>1, NewestIn, Zenon
  <2>3. Final(ix.log, Newest(S), mx) /\ ix.log[Newest(S)].page = p /\ Newest(S) \in 1 .. mx
    BY <1>0, <1>1, <2>2 DEF Final
  <2> HIDE DEF S
  <2> QED
    BY <1>2, <2>3 DEF Shows, InLog, FindFrame, S
<1>3. CASE S = {}
  <2>1. \A i \in 1 .. mx : ix.log[i].page # p
    BY <1>1, <1>3
  <2> QED
    BY <1>3, <2>1 DEF Shows, InLog
<1> QED
  BY <1>2, <1>3

\* The size of an image is the number of its last page.
LEMMA SizeIs ==
  ASSUME Bounds, NEW img, NEW n \in Page, Whole(img, n)
  PROVE  SizeOf(img) = n
<1> DEFINE Is(m) == /\ m # 0 => img[m] # None
                    /\ \A p \in Page : img[p] # None => p <= m
<1>1. n \in 0 .. MaxPage /\ img[n] # None /\ Is(n)
  BY DEF Whole, Page, Bounds
<1>2. ASSUME NEW m \in 0 .. MaxPage, Is(m)
      PROVE  m = n
  <2>1. n <= m
    BY <1>1, <1>2
  <2>2. m # 0 => m \in Page /\ m <= n
    BY <1>2 DEF Whole, Page, Bounds
  <2> QED
    BY <2>1, <2>2 DEF Page, Bounds
<1> HIDE DEF Is
<1>3. SizeOf(img) = CHOOSE m \in 0 .. MaxPage : Is(m)
  BY DEF SizeOf, Is
<1> QED
  BY <1>1, <1>2, <1>3

\* The newest committed image has the pages up to its size.
LEMMA LastWhole ==
  ASSUME Bounds, Types, Images
  PROVE  /\ Last \in Pic
         /\ SizeOf(Last) \in Page
         /\ \A p \in Page : Last[p] # None <=> p <= SizeOf(Last)
<1>1. Last \in Pic /\ Len(history) \in 1 .. Len(history)
  BY DEF Types, Last
<1>2. PICK n \in Page : Whole(Last, n)
  BY <1>1 DEF Images, Last
<1> QED
  BY <1>1, <1>2, SizeIs DEF Whole

\* A log that is backfilled to its end may be dropped: the main file is the
\* newest image.
LEMMA Settled ==
  ASSUME Bounds, Types, Images, LogOK, index.backfill = Len(index.log)
  PROVE  main = Last
<1> DEFINE mx == Len(index.log)
<1>0. index.log \in Seq(Entry) /\ mx \in 0 .. mx /\ main \in Pic
  BY DEF Types, Index
<1>1. Last \in Pic
  BY LastWhole
<1>2. ASSUME NEW p \in Page
      PROVE  main[p] = Last[p]
  <2>1. CASE Last[p] = None
    BY <1>2, <2>1 DEF LogOK, LogIs
  <2>2. CASE Last[p] # None /\ \A i \in 1 .. mx : index.log[i].page # p
    BY <1>2, <2>2 DEF LogOK, LogIs, Shows
  <2>3. CASE Last[p] # None /\ \E i \in 1 .. mx : index.log[i].page = p
    <3>1. PICK i \in 1 .. mx : index.log[i].page = p /\ Final(index.log, i, mx)
      BY <1>0, <2>3, FinalFrame
    <3>2. index.log[i].data = Last[p]
      BY <2>3, <3>1 DEF LogOK, LogIs, Shows
    <3>3. main[p] = index.log[i].data
      BY <3>1 DEF LogOK, LogIs
    <3> QED
      BY <3>2, <3>3
  <2> QED
    BY <2>1, <2>2, <2>3
<1> QED
  BY <1>0, <1>1, <1>2 DEF Pic

\* snapshot_db_size at the end of the log is the size of the newest image.
LEMMA SizeSeen ==
  ASSUME Bounds, Types, Images, LogOK, NEW x
  PROVE  SnapshotDbSize(index, MxFrame(index), x) =
           IF Len(index.log) = 0 THEN x ELSE SizeOf(Last)
<1> DEFINE mx == Len(index.log)
           S == CommitFrames(index, mx)
<1>0. index.log \in Seq(Entry) /\ mx \in Nat
  BY DEF Types, Index
<1>1. S \in SUBSET (0 .. mx)
  BY <1>0 DEF CommitFrames, Frames
<1>2. CASE mx = 0
  BY <1>0, <1>2 DEF CommitFrames, Frames, SnapshotDbSize, MxFrame
<1>3. CASE mx # 0
  <2>1. index.log[mx].size = SizeOf(Last) /\ SizeOf(Last) # 0
    BY <1>0, <1>3, LastWhole DEF LogOK, LogIs, Page
  <2>2. mx \in S
    BY <1>0, <1>3, <2>1 DEF CommitFrames, Frames
  <2>3. Newest(S) = mx
    <3>1. Newest(S) \in S /\ \A j \in S : j <= Newest(S)
      BY <1>0, <1>1, <2>2, NewestIn, Zenon
    <3> QED
      BY <1>0, <1>1, <2>2, <3>1
  <2> QED
    BY <1>3, <2>1, <2>2, <2>3 DEF SnapshotDbSize, MxFrame
<1> QED
  BY <1>2, <1>3

\* The sizes that a new reader and a checkpoint take from the index.
LEMMA SizesSeen ==
  ASSUME Bounds, Types, Images, LogOK
  PROVE  /\ SnapshotDbSize(index, MxFrame(index), SizeOf(main)) = SizeOf(Last)
         /\ FullDbSize(index) = IF Len(index.log) = 0 THEN 0 ELSE SizeOf(Last)
<1>1. Len(index.log) = 0 => index.backfill = Len(index.log)
  BY DEF LogOK, LogIs, Types, Index
<1>2. Len(index.log) = 0 => main = Last
  BY <1>1, Settled
<1> QED
  BY <1>2, SizeSeen DEF FullDbSize

-----------------------------------------------------------------------------
(***************************************************************************)
(* The invariant gives the properties                                      *)
(***************************************************************************)

\* A new reader finds the newest commit.
LEMMA InvNewestKept ==
  ASSUME Bounds, WalInv
  PROVE  NewestKept
<1> USE DEF WalInv
<1> DEFINE mx == Len(index.log)
<1>0. index \in Index /\ main \in Pic /\ mx \in 0 .. Len(index.log)
  BY DEF Types, Index
<1>1. Last \in Pic /\ SizeOf(Last) \in Page /\ \A p \in Page : Last[p] # None <=> p <= SizeOf(Last)
  BY LastWhole
<1>2. SnapshotDbSize(index, MxFrame(index), SizeOf(main)) = SizeOf(Last)
  BY SizesSeen
<1>3. NewestImage = [p \in Page |-> CASE p > SizeOf(Last)       -> None
                                      [] InLog(index, p, mx) -> FindFrame(index, p, mx)
                                      [] OTHER               -> main[p]]
  BY <1>2 DEF NewestImage, MxFrame
<1>4. ASSUME NEW p \in Page
      PROVE  NewestImage[p] = Last[p]
  <2>1. CASE p > SizeOf(Last)
    <3>1. Last[p] = None
      BY <1>1, <2>1 DEF Page
    <3>2. ~InLog(index, p, mx)
      BY <1>0, <3>1 DEF LogOK, LogIs, InLog, FramesOf, Frames, Index
    <3> QED
      BY <1>3, <2>1, <3>1, <3>2
  <2>2. CASE ~(p > SizeOf(Last))
    <3>1. Last[p] # None
      BY <1>1, <2>2 DEF Page
    <3>2. (IF InLog(index, p, mx) THEN FindFrame(index, p, mx) ELSE main[p]) = Last[p]
      BY <1>0, <1>1, <3>1, ReadsImage DEF LogOK, LogIs
    <3> QED
      BY <1>3, <2>2, <3>2
  <2> QED
    BY <2>1, <2>2
<1>5. DOMAIN NewestImage = Page
  BY <1>3, Zenon
<1> QED
  BY <1>1, <1>3, <1>4 DEF NewestKept, Pic, Last

\* nBackfill tells the truth.
LEMMA InvBackfilled ==
  ASSUME Bounds, WalInv
  PROVE  BackfilledInMain
<1> USE DEF WalInv
<1> DEFINE mx == Len(index.log)
<1>0. index.log \in Seq(Entry) /\ mx \in Nat /\ index.backfill \in Nat /\ index.backfill <= mx
  BY DEF Types, Index, LogOK, LogIs
<1>1. ASSUME NEW i \in 1 .. index.backfill,
             i = Newest(FramesOf(index, index.log[i].page, 0, mx))
      PROVE  main[index.log[i].page] = index.log[i].data
  <2> DEFINE S == FramesOf(index, index.log[i].page, 0, mx)
  <2>1. S = {j \in 1 .. mx : index.log[j].page = index.log[i].page} /\ i \in 1 .. mx
    BY <1>0 DEF FramesOf, Frames
  <2>2. S \in SUBSET (0 .. mx) /\ i \in S
    BY <2>1
  <2>3. \A j \in S : j <= i
    BY <1>0, <1>1, <2>2, NewestIn, Zenon
  <2>4. Final(index.log, i, mx)
    BY <1>0, <2>1, <2>3 DEF Final
  <2> QED
    BY <2>4 DEF LogOK, LogIs
<1> QED
  BY <1>0, <1>1 DEF BackfilledInMain, MxFrame

\* A writer has the newest commit.
LEMMA InvWritesOnNewest ==
  ASSUME WalInv
  PROVE  WritesOnNewest
  BY DEF WalInv, WriterOK, WritesOnNewest

-----------------------------------------------------------------------------
(***************************************************************************)
(* What a checkpoint copies                                                *)
(***************************************************************************)

\* backfill_pages collects what has to be copied.
LEMMA Collected ==
  ASSUME NEW ix \in Index, NEW j \in Job, NEW m, NEW img,
         CopyIs("collect", j, ix.log, ix.backfill, m, img),
         NEW k, k = [j EXCEPT !.pages = BackfillPages(ix, j.safe)]
  PROVE  k \in Job /\ CopyIs("copy", k, ix.log, ix.backfill, m, img)
<1> DEFINE b == ix.backfill
           log == ix.log
           P == BackfillPages(ix, j.safe)
           New_(i) == i = Newest(FramesOf(ix, log[i].page, b, Len(log)))
<1>0. /\ log \in Seq(Entry) /\ b \in Nat /\ Len(log) \in Nat /\ j.safe \in Nat /\ j.mx \in Nat
      /\ b < j.safe /\ j.safe <= j.mx /\ j.mx <= Len(log)
  BY DEF Index, Job, CopyIs
<1>1. P = {log[i] : i \in {i \in b + 1 .. j.safe : New_(i)}}
  <2>1. Frames(ix, b, j.safe) = b + 1 .. j.safe
    BY <1>0 DEF Frames
  <2> QED
    BY <2>1, Zenon DEF BackfillPages, MxFrame
<1>2. \A i \in b + 1 .. j.safe : log[i] \in Entry /\ i \in 1 .. Len(log)
  BY <1>0
<1>3. \A i \in b + 1 .. j.safe : Final(log, i, Len(log)) => New_(i)
  <2> SUFFICES ASSUME NEW i \in b + 1 .. j.safe, Final(log, i, Len(log))
               PROVE  New_(i)
    OBVIOUS
  <2> DEFINE S == FramesOf(ix, log[i].page, b, Len(log))
  <2>1. S = {n \in b + 1 .. Len(log) : log[n].page = log[i].page}
    BY <1>0 DEF FramesOf, Frames
  <2>2. i \in S /\ \A n \in S : n <= i
    BY <1>0, <2>1 DEF Final
  <2>3. S \in SUBSET (0 .. Len(log)) /\ S # {}
    BY <1>0, <2>1, <2>2
  <2> HIDE DEF S
  <2>4. Newest(S) \in S /\ \A n \in S : n <= Newest(S)
    BY <1>0, <2>3, NewestIn, Zenon
  <2>5. Newest(S) = i
    BY <1>0, <2>2, <2>3, <2>4
  <2> QED
    BY <2>5 DEF S
<1>4. \A f, g \in P : f.page = g.page => f = g
  <2> HIDE DEF P, b, log
  <2> QED
    BY <1>1
<1> HIDE DEF P, b, log, New_
<1>5. P \in SUBSET Entry
  BY <1>1, <1>2
<1>6. /\ k \in Job /\ k.pages = P /\ k.safe = j.safe /\ k.mx = j.mx /\ k.size = j.size
  BY <1>5 DEF Job, P
<1>7. \A f \in P : \E i \in b + 1 .. j.safe : f = log[i]
  BY <1>1
<1>8. \A i \in b + 1 .. j.safe : Final(log, i, Len(log)) => log[i] \in P
  BY <1>1, <1>3
<1>9. /\ b < j.safe /\ j.safe <= j.mx /\ j.mx <= Len(log)
      /\ \A i \in 1 .. j.mx : log[i].page <= j.size
      /\ \A p \in Page : j.size < p /\ img[p] # None =>
           \E i \in j.mx + 1 .. Len(log) : log[i].page = p
  BY Zenon DEF CopyIs, b, log
<1>10. CopyIs("copy", k, log, b, m, img)
  BY <1>4, <1>6, <1>7, <1>8, <1>9 DEF CopyIs
<1> QED
  BY <1>6, <1>10 DEF b, log

\* The main file after the copy.
Copy(j, m) ==
  [p \in Page |-> IF \E f \in j.pages : f.page = p /\ p <= j.size
                  THEN (CHOOSE f \in j.pages : f.page = p).data
                  ELSE IF j.safe = j.mx /\ p > j.size THEN None ELSE m[p]]

\* Copying changes no page that a reader of the whole log takes from the main
\* file, and brings it up to the safe mark.
LEMMA Copied ==
  ASSUME Bounds, NEW j \in Job, NEW log \in Seq(Entry), NEW b \in Nat, NEW m \in Pic, NEW img,
         LogIs(log, b, m, img), CopyIs("copy", j, log, b, m, img), NEW w, w = Copy(j, m)
  PROVE  w \in Pic /\ LogIs(log, b, w, img) /\ CopyIs("publish", j, log, b, w, img)
<1>0. /\ Len(log) \in Nat /\ j.safe \in Nat /\ j.mx \in Nat /\ j.size \in Nat
      /\ b < j.safe /\ j.safe <= j.mx /\ j.mx <= Len(log)
      /\ j.pages \in SUBSET Entry
  BY DEF Job, CopyIs, Bounds
<1>1. /\ \A i \in 1 .. j.mx : log[i].page <= j.size
      /\ \A p \in Page : j.size < p /\ img[p] # None => \E i \in j.mx + 1 .. Len(log) : log[i].page = p
      /\ \A f \in j.pages : \E i \in b + 1 .. j.safe : f = log[i]
      /\ \A f, g \in j.pages : f.page = g.page => f = g
      /\ \A i \in b + 1 .. j.safe : Final(log, i, Len(log)) => log[i] \in j.pages
  BY Zenon DEF CopyIs
<1>2. /\ Shows(log, m, Len(log), img)
      /\ \A i \in 1 .. Len(log) : img[log[i].page] # None
      /\ \A p \in Page : m[p] # None => img[p] # None
      /\ b <= Len(log)
      /\ \A i \in 1 .. b : Final(log, i, Len(log)) => m[log[i].page] = log[i].data
  BY Zenon DEF LogIs
<1>3. ASSUME NEW f \in j.pages
      PROVE  f.page \in Page /\ f.data \in Nat /\ img[f.page] # None /\ w[f.page] = f.data
  <2>1. f.page \in Page /\ f.data \in Nat
    BY <1>0, <1>3, Zenon DEF Entry
  <2>2. PICK i \in b + 1 .. j.safe : f = log[i]
    BY <1>1
  <2>3. i \in 1 .. Len(log) /\ i \in 1 .. j.mx
    BY <1>0
  <2>4. f.page <= j.size /\ img[f.page] # None
    BY <1>1, <1>2, <2>2, <2>3, Zenon
  <2>5. (CHOOSE g \in j.pages : g.page = f.page) = f
    BY <1>1
  <2>6. w[f.page] = (CHOOSE g \in j.pages : g.page = f.page).data
    BY <2>1, <2>4 DEF Copy
  <2> QED
    BY <2>1, <2>4, <2>5, <2>6, Zenon
<1>4. ASSUME NEW p \in Page, \A f \in j.pages : f.page # p
      PROVE  w[p] = IF j.safe = j.mx /\ p > j.size THEN None ELSE m[p]
  BY <1>4 DEF Copy
<1>5. w \in Pic
  <2>1. ASSUME NEW p \in Page
        PROVE  w[p] \in Nat \cup {None}
    <3>1. CASE \E f \in j.pages : f.page = p
      BY <1>3, <3>1
    <3>2. CASE \A f \in j.pages : f.page # p
      BY <1>4, <3>2 DEF Pic
    <3> QED
      BY <3>1, <3>2
  <2>2. w = [p \in Page |-> w[p]]
    BY DEF Copy
  <2> QED
    BY <2>1, <2>2 DEF Pic
<1>6. ASSUME NEW p \in Page, w[p] # None
      PROVE  img[p] # None
  <2>1. CASE \E f \in j.pages : f.page = p
    BY <1>3, <2>1
  <2>2. CASE \A f \in j.pages : f.page # p
    BY <1>2, <1>4, <1>6, <2>2
  <2> QED
    BY <2>1, <2>2
<1>7. ASSUME NEW p \in Page, img[p] # None, \A i \in 1 .. Len(log) : log[i].page # p
      PROVE  w[p] = m[p]
  <2>1. \A f \in j.pages : f.page # p
    <3>1. \A i \in b + 1 .. j.safe : i \in 1 .. Len(log)
      BY <1>0
    <3> QED
      BY <1>1, <1>7, <3>1
  <2>2. ~(p > j.size)
    <3>1. \A i \in j.mx + 1 .. Len(log) : i \in 1 .. Len(log)
      BY <1>0
    <3>2. p > j.size => j.size < p
      BY <1>0 DEF Page
    <3> QED
      BY <1>1, <1>7, <3>1, <3>2, Zenon
  <2> QED
    BY <1>4, <2>1, <2>2
<1>8. Shows(log, w, Len(log), img)
  BY <1>2, <1>7, Zenon DEF Shows
<1>9. ASSUME NEW i \in 1 .. j.safe, Final(log, i, Len(log))
      PROVE  w[log[i].page] = log[i].data
  <2>1. CASE i \in b + 1 .. j.safe
    BY <1>1, <1>3, <1>9, <2>1
  <2>2. CASE i \in 1 .. b
    <3> DEFINE p == log[i].page
    <3>1. log[i] \in Entry /\ i \in 1 .. j.mx /\ i \in 1 .. Len(log)
      BY <1>0, <2>2
    <3>2. p \in Page /\ p <= j.size
      BY <1>1, <3>1 DEF Entry
    <3>3. \A f \in j.pages : f.page # p
      <4>1. \A n \in b + 1 .. j.safe : n \in i + 1 .. Len(log)
        BY <1>0, <2>2
      <4> QED
        BY <1>1, <1>9, <4>1 DEF Final
    <3>4. ~(p > j.size)
      BY <1>0, <3>2 DEF Page
    <3>5. w[p] = m[p]
      BY <1>4, <3>2, <3>3, <3>4
    <3> QED
      BY <1>2, <1>9, <2>2, <3>5
  <2> QED
    BY <1>0, <2>1, <2>2
<1>10. \A i \in 1 .. b : i \in 1 .. j.safe
  BY <1>0
<1>11. LogIs(log, b, w, img)
  BY <1>2, <1>6, <1>8, <1>9, <1>10, Zenon DEF LogIs
<1>12. CopyIs("publish", j, log, b, w, img)
  <2>1. "publish" # "copy"
    OBVIOUS
  <2> QED
    BY <1>0, <1>1, <1>9, <2>1, Zenon DEF CopyIs
<1> QED
  BY <1>5, <1>11, <1>12

\* set_backfill publishes what has been copied.
LEMMA Published ==
  ASSUME NEW j \in Job, NEW log \in Seq(Entry), NEW b, NEW m, NEW img,
         LogIs(log, b, m, img), CopyIs("publish", j, log, b, m, img)
  PROVE  LogIs(log, j.safe, m, img)
<1>1. j.safe <= Len(log)
  BY DEF CopyIs, Job
<1> QED
  BY <1>1, Zenon DEF LogIs, CopyIs

-----------------------------------------------------------------------------
(***************************************************************************)
(* The log grows                                                           *)
(***************************************************************************)

\* Log l is s with the frames of a commit appended.
Grown(s, l, z, pages, x) ==
  /\ l \in Seq(Entry) /\ Len(l) > Len(s)
  /\ l[Len(l)].size = z
  /\ \A i \in 1 .. Len(s) : l[i] = s[i]
  /\ \A i \in Len(s) + 1 .. Len(l) : l[i].page \in pages /\ l[i].data = x
  /\ \A p \in pages : \E i \in Len(s) + 1 .. Len(l) : l[i].page = p

\* Image img follows last in the history: it differs on the pages S, where its
\* content is x.
Follows(last, img, S, x) ==
  /\ \A p \in S : img[p] = x
  /\ \A p \in Page \ S : img[p] = last[p]
  /\ x # None

\* A frame of the old log that is still the newest of its page.
LEMMA StillFinal ==
  ASSUME NEW s \in Seq(Entry), NEW l, NEW z, NEW S, NEW x, Grown(s, l, z, S, x),
         NEW i \in 1 .. Len(s), Final(l, i, Len(l))
  PROVE  l[i] = s[i] /\ Final(s, i, Len(s)) /\ s[i].page \notin S
<1>1. /\ Len(s) \in Nat /\ l \in Seq(Entry) /\ Len(l) \in Nat /\ Len(l) > Len(s)
      /\ \A j \in 1 .. Len(s) : l[j] = s[j]
      /\ \A p \in S : \E j \in Len(s) + 1 .. Len(l) : l[j].page = p
  BY DEF Grown
<1>2. \A j \in i + 1 .. Len(s) : j \in 1 .. Len(s) /\ j \in i + 1 .. Len(l)
  BY <1>1
<1>3. \A j \in Len(s) + 1 .. Len(l) : j \in i + 1 .. Len(l)
  BY <1>1
<1>4. \A j \in i + 1 .. Len(l) : l[j].page # l[i].page
  BY DEF Final
<1> QED
  BY <1>1, <1>2, <1>3, <1>4, Zenon DEF Final

\* The shown image moves on with the log.
LEMMA GrownShows ==
  ASSUME NEW s \in Seq(Entry), NEW l, NEW z, NEW S, NEW x, Grown(s, l, z, S, x),
         NEW m, NEW last, NEW img, Follows(last, img, S, x), Shows(s, m, Len(s), last)
  PROVE  Shows(l, m, Len(l), img)
<1>1. /\ Len(s) \in Nat /\ l \in Seq(Entry) /\ Len(l) \in Nat /\ Len(l) > Len(s)
      /\ \A j \in 1 .. Len(s) : l[j] = s[j]
      /\ \A j \in Len(s) + 1 .. Len(l) : l[j].page \in S /\ l[j].data = x
      /\ \A p \in S : \E j \in Len(s) + 1 .. Len(l) : l[j].page = p
  BY DEF Grown
<1>2. ASSUME NEW p \in Page, img[p] # None,
             NEW i \in 1 .. Len(l), l[i].page = p, Final(l, i, Len(l))
      PROVE  l[i].data = img[p]
  <2>1. CASE i \in Len(s) + 1 .. Len(l)
    BY <1>1, <1>2, <2>1, Zenon DEF Follows
  <2>2. CASE i \in 1 .. Len(s)
    <3>1. l[i] = s[i] /\ Final(s, i, Len(s)) /\ s[i].page \notin S
      BY <1>2, <2>2, StillFinal
    <3>2. img[p] = last[p]
      BY <1>2, <3>1, Zenon DEF Follows
    <3> QED
      BY <1>2, <2>2, <3>1, <3>2, Zenon DEF Shows
  <2>3. i \in Len(s) + 1 .. Len(l) \/ i \in 1 .. Len(s)
    BY <1>1
  <2> QED
    BY <2>1, <2>2, <2>3
<1>3. ASSUME NEW p \in Page, img[p] # None, \A i \in 1 .. Len(l) : l[i].page # p
      PROVE  m[p] = img[p]
  <2>1. \A j \in Len(s) + 1 .. Len(l) : j \in 1 .. Len(l)
    BY <1>1
  <2>2. \A j \in 1 .. Len(s) : j \in 1 .. Len(l)
    BY <1>1
  <2>3. p \notin S
    BY <1>1, <1>3, <2>1, Zenon
  <2>4. \A j \in 1 .. Len(s) : s[j].page # p
    BY <1>1, <1>3, <2>2, Zenon
  <2> QED
    BY <1>3, <2>3, <2>4, Zenon DEF Follows, Shows
<1> QED
  BY <1>2, <1>3, Zenon DEF Shows

\* The log after a commit, against the new image.
LEMMA GrownLog ==
  ASSUME NEW s \in Seq(Entry), NEW l, NEW z, NEW S, NEW x, Grown(s, l, z, S, x),
         NEW m, NEW last, NEW img, Follows(last, img, S, x), z = SizeOf(img),
         NEW b \in Nat, LogIs(s, b, m, last)
  PROVE  LogIs(l, b, m, img)
<1>1. /\ Len(s) \in Nat /\ l \in Seq(Entry) /\ Len(l) \in Nat /\ Len(l) > Len(s)
      /\ l[Len(l)].size = z
      /\ \A j \in 1 .. Len(s) : l[j] = s[j]
      /\ \A j \in Len(s) + 1 .. Len(l) : l[j].page \in S /\ l[j].data = x
  BY DEF Grown
<1>2. \A p \in Page : last[p] # None => img[p] # None
  BY Zenon DEF Follows
<1>3. Shows(l, m, Len(l), img)
  BY GrownShows DEF LogIs
<1>4. \A i \in 1 .. Len(l) : img[l[i].page] # None
  <2>1. \A i \in 1 .. Len(s) : s[i] \in Entry
    OBVIOUS
  <2>2. \A i \in 1 .. Len(s) : s[i].page \in Page
    BY <2>1, Zenon DEF Entry
  <2>3. \A i \in 1 .. Len(s) : img[l[i].page] # None
    BY <1>1, <1>2, <2>2, Zenon DEF LogIs
  <2>4. \A i \in Len(s) + 1 .. Len(l) : img[l[i].page] # None
    BY <1>1, Zenon DEF Follows
  <2>5. \A i \in 1 .. Len(l) : i \in Len(s) + 1 .. Len(l) \/ i \in 1 .. Len(s)
    BY <1>1
  <2> QED
    BY <2>3, <2>4, <2>5, Zenon
<1>5. b <= Len(s) /\ b <= Len(l) /\ \A i \in 1 .. b : i \in 1 .. Len(s)
  BY <1>1 DEF LogIs
<1>6. \A i \in 1 .. b : Final(l, i, Len(l)) => m[l[i].page] = l[i].data
  <2> TAKE i \in 1 .. b
  <2> HAVE Final(l, i, Len(l))
  <2>1. l[i] = s[i] /\ Final(s, i, Len(s))
    BY <1>5, StillFinal
  <2> QED
    BY <2>1, Zenon DEF LogIs
<1>7. \A p \in Page : m[p] # None => img[p] # None
  BY <1>2, Zenon DEF LogIs
<1> QED
  BY <1>1, <1>3, <1>4, <1>5, <1>6, <1>7, Zenon DEF LogIs

\* A commit leaves a running checkpoint right about its part of the log.
LEMMA GrownCopy ==
  ASSUME NEW s \in Seq(Entry), NEW l, NEW z, NEW S, NEW x, Grown(s, l, z, S, x),
         NEW m, NEW last, NEW img, Follows(last, img, S, x),
         NEW b \in Nat, NEW at, NEW j \in Job, CopyIs(at, j, s, b, m, last)
  PROVE  CopyIs(at, j, l, b, m, img)
<1>1. /\ Len(s) \in Nat /\ l \in Seq(Entry) /\ Len(l) \in Nat /\ Len(l) > Len(s)
      /\ \A i \in 1 .. Len(s) : l[i] = s[i]
      /\ \A p \in S : \E i \in Len(s) + 1 .. Len(l) : l[i].page = p
  BY DEF Grown
<1>2. j.safe \in Nat /\ j.mx \in Nat
  BY DEF Job
<1>3. /\ b < j.safe /\ j.safe <= j.mx /\ j.mx <= Len(s)
      /\ \A i \in 1 .. j.mx : s[i].page <= j.size
      /\ \A p \in Page : j.size < p /\ last[p] # None => \E i \in j.mx + 1 .. Len(s) : s[i].page = p
  BY DEF CopyIs
<1>4. /\ j.mx <= Len(l)
      /\ \A i \in 1 .. j.mx : i \in 1 .. Len(s)
      /\ \A i \in 1 .. j.safe : i \in 1 .. Len(s)
      /\ \A i \in b + 1 .. j.safe : i \in 1 .. Len(s)
  BY <1>1, <1>2, <1>3
<1>5. /\ \A i \in j.mx + 1 .. Len(s) : i \in 1 .. Len(s) /\ i \in j.mx + 1 .. Len(l)
      /\ \A i \in Len(s) + 1 .. Len(l) : i \in j.mx + 1 .. Len(l)
  BY <1>1, <1>2, <1>3
<1>6. \A i \in 1 .. j.mx : l[i].page <= j.size
  BY <1>1, <1>3, <1>4, Zenon
<1>7. \A p \in Page : j.size < p /\ img[p] # None => \E i \in j.mx + 1 .. Len(l) : l[i].page = p
  BY <1>1, <1>3, <1>5, Zenon DEF Follows
<1>8. \A i \in 1 .. Len(s) : Final(l, i, Len(l)) => Final(s, i, Len(s)) /\ l[i] = s[i]
  BY StillFinal
<1>9. at = "copy" =>
        /\ \A f \in j.pages : \E i \in b + 1 .. j.safe : f = l[i]
        /\ \A f, g \in j.pages : f.page = g.page => f = g
        /\ \A i \in b + 1 .. j.safe : Final(l, i, Len(l)) => l[i] \in j.pages
  BY <1>1, <1>4, <1>8 DEF CopyIs
<1>10. at = "publish" => \A i \in 1 .. j.safe : Final(l, i, Len(l)) => m[l[i].page] = l[i].data
  BY <1>4, <1>8, Zenon DEF CopyIs
<1> QED
  BY <1>3, <1>4, <1>6, <1>7, <1>9, <1>10, Zenon DEF CopyIs

-----------------------------------------------------------------------------
(***************************************************************************)
(* Steps outside the checkpoints                                           *)
(***************************************************************************)

\* RESERVED passes from one connection to another through the lock state.
LEMMA LockStep ==
  ASSUME Types, LockOK, NEW c \in Conn, NEW k \in WalConn, conn' = [conn EXCEPT ![c] = k],
         k.held = Reserved => locks'.reserved /\ (Holds(c) \/ ~locks.reserved),
         locks.reserved => locks'.reserved \/ Holds(c)
  PROVE  LockOK'
<1>1. conn'[c] = k /\ \A d \in Conn \ {c} : conn'[d] = conn[d]
  BY DEF Types
<1>2. \A d \in Conn \ {c} : Holds(d)' <=> Holds(d)
  BY <1>1 DEF Holds
<1>3. ASSUME NEW d \in Conn, Holds(d)'
      PROVE  locks'.reserved
  BY <1>1, <1>2, <1>3 DEF LockOK, Holds
<1>4. ASSUME NEW d \in Conn, NEW e \in Conn, Holds(d)', Holds(e)'
      PROVE  d = e
  BY <1>1, <1>2, <1>4 DEF LockOK, Holds
<1> QED
  BY <1>3, <1>4 DEF LockOK

\* A step of c outside its checkpoints that changes no more of the shared state
\* than the lock and the registered marks.
LEMMA CalmStep ==
  ASSUME WalInv, NEW c \in Conn, NEW k \in WalConn, NEW x \in Labels \ Checkpointing,
         pc[c] \notin Checkpointing,
         UNCHANGED <<main, job, history>>,
         index' \in Index, index'.log = index.log, index'.backfill = index.backfill,
         locks' \in LockStates, inTx' \in [Conn -> BOOLEAN],
         conn' = [conn EXCEPT ![c] = k], pc' = [pc EXCEPT ![c] = x],
         LockOK', WriterOK(c)'
  PROVE  WalInv'
<1> USE DEF WalInv
<1>1. Types'
  BY DEF Types, Labels
<1>2. /\ conn'[c] = k /\ \A d \in Conn \ {c} : conn'[d] = conn[d]
      /\ pc'[c] = x /\ \A d \in Conn \ {c} : pc'[d] = pc[d]
  BY DEF Types
<1>3. Last' = Last
  BY DEF Last
<1>4. Images' /\ LogOK'
  BY <1>3 DEF Images, LogOK, Last
<1>5. \A d \in Conn : WriterOK(d)'
  BY <1>2, <1>3 DEF WriterOK, Holds, Borrowed
<1>6. \A d \in Conn : pc'[d] \in Checkpointing => JobOK(d)'
  BY <1>2, <1>3 DEF JobOK, Holds
<1>7. \A d \in Conn : pc'[d] \in Copying => CopyOK(d)'
  BY <1>2, <1>3 DEF CopyOK, Checkpointing
<1> QED
  BY <1>1, <1>4, <1>5, <1>6, <1>7

\* What a calm step needs of a connection that is not checkpointing.
LEMMA AtRest ==
  ASSUME WalInv, NEW c \in Conn
  PROVE  /\ conn[c] \in WalConn /\ pc[c] \in Labels /\ inTx[c] \in BOOLEAN
         /\ index \in Index /\ locks \in LockStates
         /\ conn = [conn EXCEPT ![c] = conn[c]] /\ pc = [pc EXCEPT ![c] = pc[c]]
         /\ inTx \in [Conn -> BOOLEAN]
         /\ \A b \in BOOLEAN : [inTx EXCEPT ![c] = b] \in [Conn -> BOOLEAN]
  BY DEF WalInv, Types

-----------------------------------------------------------------------------
(***************************************************************************)
(* A commit                                                                *)
(***************************************************************************)

\* Only the one writer commits.
LEMMA Committer ==
  ASSUME WalInv, NEW c \in Conn, pc[c] = "append" \/ (Committing(c) /\ conn[c].overlay # Clean)
  PROVE  /\ pc[c] \in {"idle", "writing", "append"} /\ pc[c] \notin Checkpointing /\ Holds(c)
         /\ conn[c].view = Len(history) /\ conn[c].dbSize = SizeOf(Last)
         /\ conn[c].dbSize <= conn[c].pageCount
         /\ \A p \in Page : conn[c].overlay[p] # None => p <= conn[c].pageCount
         /\ \A p \in conn[c].dbSize + 1 .. conn[c].pageCount : conn[c].overlay[p] # None
         /\ \A d \in Conn \ {c} : ~Holds(d)
<1>1. pc[c] \in {"idle", "writing", "append"}
  BY DEF Committing, At
<1>2. pc[c] \notin Checkpointing
  BY <1>1 DEF Checkpointing, Copying
<1>3. Holds(c) /\ ~Borrowed(c)
  BY <1>2 DEF WalInv, WriterOK, Borrowed
<1>4. WriterOK(c) /\ LockOK
  BY DEF WalInv
<1> QED
  BY <1>1, <1>2, <1>3, <1>4, Zenon DEF WriterOK, LockOK

\* restart_hdr empties the log and leaves the readers alone.
LEMMA RestartIs ==
  ASSUME NEW ix \in Index
  PROVE  /\ RestartHdr(ix) \in Index
         /\ RestartHdr(ix).log = <<>> /\ RestartHdr(ix).backfill = 0
         /\ RestartHdr(ix).readers = ix.readers
<1>1. ASSUME NEW e \in Seq(Entry), NEW r, r = [ix EXCEPT !.log = e, !.backfill = 0]
      PROVE  r \in Index /\ r.log = e /\ r.backfill = 0 /\ r.readers = ix.readers
  BY <1>1, Zenon DEF Index
<1>2. <<>> \in Seq(Entry)
  OBVIOUS
<1> QED
  BY <1>1, <1>2, Zenon DEF RestartHdr

\* An empty log over the newest image.
LEMMA EmptyLog ==
  ASSUME NEW m
  PROVE  LogIs(<<>>, 0, m, m)
<1>1. Len(<<>>) = 0 /\ 1 .. 0 = {}
  OBVIOUS
<1> QED
  BY <1>1 DEF LogIs, Shows

\* commit_wal restarts a log that is in the main file as a whole.
LEMMA StartCommitStep ==
  ASSUME Bounds, WalInv, NEW c \in Conn, StartCommit(c)
  PROVE  WalInv'
<1>0. /\ conn[c] \in WalConn /\ index \in Index /\ locks \in LockStates
      /\ conn = [conn EXCEPT ![c] = conn[c]] /\ inTx \in [Conn -> BOOLEAN]
  BY AtRest
<1>1. /\ Committing(c) /\ conn[c].overlay # Clean
      /\ pc' = [pc EXCEPT ![c] = "append"] /\ UNCHANGED <<main, locks, conn, inTx, job, history>>
  BY DEF StartCommit, Goto
<1>2. /\ pc[c] \notin Checkpointing /\ Holds(c)
      /\ conn[c].view = Len(history) /\ conn[c].dbSize = SizeOf(Last)
      /\ conn[c].dbSize <= conn[c].pageCount
      /\ \A p \in Page : conn[c].overlay[p] # None => p <= conn[c].pageCount
      /\ \A p \in conn[c].dbSize + 1 .. conn[c].pageCount : conn[c].overlay[p] # None
      /\ \A d \in Conn \ {c} : ~Holds(d)
  BY <1>1, Committer
<1>3. /\ "append" \in Labels \ Checkpointing /\ pc'[c] = "append" /\ Last' = Last
      /\ \A d \in Conn \ {c} : pc'[d] = pc[d]
  BY <1>1 DEF Labels, Checkpointing, Copying, WalInv, Types, Last
<1>4. LockOK'
  BY <1>1 DEF WalInv, LockOK, Holds
<1>5. WriterOK(c)'
  BY <1>1, <1>2, <1>3 DEF WriterOK, Holds, Borrowed
<1>6. CASE index' = index
  BY <1>0, <1>1, <1>2, <1>3, <1>4, <1>5, <1>6, CalmStep, Zenon
<1>7. CASE index' # index
  <2>1. /\ index' = RestartHdr(index) /\ index.backfill = Len(index.log) /\ Len(index.log) \in Nat
    BY <1>0, <1>7 DEF StartCommit, MxFrame, Index
  <2>2. index' \in Index /\ index'.log = <<>> /\ index'.backfill = 0
    BY <1>0, <2>1, RestartIs
  <2>3. main = Last
    BY <2>1, Settled DEF WalInv
  <2>4. Types' /\ Images'
    BY <1>1, <2>2 DEF WalInv, Types, Images, Labels
  <2>5. LogOK'
    BY <1>1, <1>3, <2>2, <2>3, EmptyLog DEF LogOK
  <2>6. \A d \in Conn : WriterOK(d)'
    BY <1>1, <1>3, <1>5 DEF WalInv, WriterOK, Holds, Borrowed
  <2>7. ASSUME NEW d \in Conn, pc'[d] \in Checkpointing
        PROVE  JobOK(d)'
    <3>1. d # c /\ pc'[d] = pc[d] /\ JobOK(d) /\ ~Holds(d)
      BY <1>2, <1>3, <2>7 DEF WalInv
    <3>2. pc[d] # "restart"
      BY <3>1 DEF JobOK
    <3> QED
      BY <1>1, <1>3, <3>1, <3>2 DEF JobOK, Holds
  <2>8. ASSUME NEW d \in Conn, pc'[d] \in Copying
        PROVE  FALSE
    <3>1. CopyOK(d) /\ d \in Conn
      BY <1>3, <2>8 DEF WalInv, Checkpointing
    <3>2. job[d] \in Job
      BY <1>3, <2>8 DEF WalInv, Checkpointing, JobOK
    <3>3. job[d].safe \in Nat /\ job[d].mx \in Nat
      BY <3>2 DEF Job
    <3> QED
      BY <2>1, <3>1, <3>3 DEF CopyOK, CopyIs
  <2> QED
    BY <1>4, <2>4, <2>5, <2>6, <2>7, <2>8, Zenon DEF WalInv
<1> QED
  BY <1>6, <1>7

\* The image of a commit against the frames it appends.
LEMMA NewImageIs ==
  ASSUME Bounds, WalInv, NEW c \in Conn, pc[c] = "append", NEW img, img = NewImage(conn[c])
  PROVE  /\ img \in Pic /\ Whole(img, conn[c].pageCount)
         /\ Follows(Last, img, Staged(conn[c]), Len(history) + 1)
<1> DEFINE k == conn[c]
<1>0. /\ k \in WalConn /\ k.pageCount \in Page /\ Len(history) + 1 \in Nat
      /\ Len(history) + 1 # None /\ 1 \in Page
  BY AtRest DEF WalConn, WalInv, Types, Bounds, Page
<1>1. /\ k.dbSize = SizeOf(Last) /\ k.dbSize <= k.pageCount
      /\ \A p \in Page : k.overlay[p] # None => p <= k.pageCount
      /\ \A p \in k.dbSize + 1 .. k.pageCount : k.overlay[p] # None
  BY Committer
<1>2. /\ Last \in Pic /\ SizeOf(Last) \in Page /\ \A p \in Page : Last[p] # None <=> p <= SizeOf(Last)
  BY LastWhole DEF WalInv
<1>3. \A p \in Staged(k) : p \in Page /\ p <= k.pageCount
  BY <1>0, <1>1 DEF Staged, Page, Bounds
<1>4. \A p \in Page \ Staged(k) : p > k.pageCount => Last[p] = None
  BY <1>0, <1>1, <1>2 DEF Page, Bounds
<1>5. img = [p \in Page |-> IF p \in Staged(k) THEN Len(history) + 1 ELSE Last[p]]
  BY DEF NewImage, Last
<1>6. \A p \in Staged(k) : img[p] = Len(history) + 1
  BY <1>3, <1>5
<1>7. \A p \in Page \ Staged(k) : img[p] = Last[p]
  BY <1>5
<1>8. img \in Pic
  <2>1. \A p \in Page : (IF p \in Staged(k) THEN Len(history) + 1 ELSE Last[p]) \in Nat \cup {None}
    BY <1>0, <1>2 DEF Pic
  <2> QED
    BY <1>5, <2>1, Zenon DEF Pic
<1> HIDE DEF k
<1>9. ASSUME NEW p \in Page
      PROVE  img[p] # None <=> p <= k.pageCount
  <2>1. CASE p \in Staged(k)
    BY <1>0, <1>3, <1>6, <2>1
  <2>2. CASE p \notin Staged(k) /\ p <= k.pageCount
    <3>1. k.overlay[p] = None
      BY <2>2 DEF Staged
    <3>2. p <= SizeOf(Last)
      BY <1>0, <1>1, <1>2, <2>2, <3>1 DEF Page, Bounds
    <3> QED
      BY <1>2, <1>7, <2>2, <3>2
  <2>3. CASE p \notin Staged(k) /\ ~(p <= k.pageCount)
    <3>1. p > k.pageCount
      BY <1>0, <2>3 DEF Page, Bounds
    <3> QED
      BY <1>4, <1>7, <2>3, <3>1
  <2> QED
    BY <2>1, <2>2, <2>3
<1> QED
  BY <1>0, <1>6, <1>7, <1>8, <1>9, Zenon DEF Whole, Follows, k

\* A registered mark comes and goes without touching the log.
LEMMA UnregisterIs ==
  ASSUME NEW ix \in Index, NEW m
  PROVE  /\ UnregisterReader(ix, m) \in Index
         /\ UnregisterReader(ix, m).log = ix.log
         /\ UnregisterReader(ix, m).backfill = ix.backfill
<1> DEFINE n == Len(ix.readers)
           i == CHOOSE i \in 1 .. n : ix.readers[i] = m /\ \A j \in 1 .. i - 1 : ix.readers[j] # m
           r == SubSeq([ix.readers EXCEPT ![i] = ix.readers[n]], 1, n - 1)
<1>1. CASE m \notin Marks(ix)
  BY <1>1 DEF UnregisterReader
<1>2. CASE m \in Marks(ix)
  <2>1. UnregisterReader(ix, m) = [ix EXCEPT !.readers = r]
    BY <1>2 DEF UnregisterReader
  <2>2. ix.readers \in Seq(Nat) /\ n \in Nat /\ n > 0
    BY <1>2 DEF Index, Marks
  <2>3. [ix.readers EXCEPT ![i] = ix.readers[n]] \in [1 .. n -> Nat]
    <3> HIDE DEF i
    <3>1. ix.readers \in [1 .. n -> Nat] /\ ix.readers[n] \in Nat
      BY <2>2
    <3> QED
      BY <3>1, Zenon
  <2>4. r \in Seq(Nat)
    <3> DEFINE q == [ix.readers EXCEPT ![i] = ix.readers[n]]
    <3>1. q \in Seq(Nat) /\ Len(q) = n
      BY <2>2, <2>3
    <3> HIDE DEF q
    <3>2. SubSeq(q, 1, n - 1) \in Seq(Nat)
      BY <2>2, <3>1
    <3> QED
      BY <3>2, Zenon DEF q
  <2> HIDE DEF r
  <2> QED
    BY <2>1, <2>4, Zenon DEF Index
<1> QED
  BY <1>1, <1>2

\* acquire and release on the part of the lock state that matters here.
LEMMA LockFlag ==
  ASSUME NEW s \in LockStates, NEW from \in Unlocked .. Reserved, NEW to \in Unlocked .. Reserved
  PROVE  /\ Acquire(s, from, to) \in LockStates
         /\ (Acquire(s, from, to).reserved <=> s.reserved \/ (from < to /\ to = Reserved))
         /\ Release(s, from, to) \in LockStates
         /\ (Release(s, from, to).reserved <=> s.reserved /\ ~(from = Reserved /\ to < Reserved))
<1> USE DEF Unlocked, Shared, Reserved
<1>0. to <= from \/ (from < to /\ to = Shared) \/ (from < to /\ to = Reserved)
  OBVIOUS
<1>1. Acquire(s, from, to) \in LockStates
  <2>1. CASE to <= from
    BY <2>1 DEF Acquire
  <2>2. CASE from < to /\ to = Shared
    <3>1. Acquire(s, from, to) = [s EXCEPT !.shared = @ + 1]
      BY <2>2 DEF Acquire, Pending, Exclusive
    <3> QED
      BY <3>1 DEF LockStates
  <2>3. CASE from < to /\ to = Reserved
    <3>1. Acquire(s, from, to) = [s EXCEPT !.reserved = TRUE]
      BY <2>3 DEF Acquire, Pending, Exclusive
    <3> QED
      BY <3>1, Zenon DEF LockStates
  <2> QED
    BY <1>0, <2>1, <2>2, <2>3
<1>2. (Acquire(s, from, to).reserved <=> s.reserved \/ (from < to /\ to = Reserved))
  <2>1. CASE to <= from
    BY <2>1 DEF Acquire
  <2>2. CASE from < to /\ to = Shared
    <3>1. Acquire(s, from, to) = [s EXCEPT !.shared = @ + 1]
      BY <2>2 DEF Acquire, Pending, Exclusive
    <3> QED
      BY <2>2, <3>1 DEF LockStates
  <2>3. CASE from < to /\ to = Reserved
    <3>1. Acquire(s, from, to) = [s EXCEPT !.reserved = TRUE]
      BY <2>3 DEF Acquire, Pending, Exclusive
    <3> QED
      BY <2>3, <3>1 DEF LockStates
  <2> QED
    BY <1>0, <2>1, <2>2, <2>3
<1>3. Release(s, from, to) \in LockStates
  BY DEF Release, Drops, LockStates, Unlocked, Shared, Reserved, Pending, Exclusive
<1>4. (Release(s, from, to).reserved <=> s.reserved /\ ~(from = Reserved /\ to < Reserved))
  <2>1. Release(s, from, to).reserved = (s.reserved /\ ~Drops(from, to, Reserved))
    BY Zenon DEF Release
  <2>2. Drops(from, to, Reserved) <=> from = Reserved /\ to < Reserved
    BY DEF Drops
  <2> QED
    BY <2>1, <2>2, Zenon
<1> QED
  BY <1>1, <1>2, <1>3, <1>4

\* The frames of a commit: one or more for each of the pages, all with content x;
\* the last one carries the size z.
FramesAre(f, z, pages, x) ==
  /\ f \in Seq(Entry) /\ Len(f) > 0
  /\ f[Len(f)].size = z
  /\ \A i \in 1 .. Len(f) : f[i].page \in pages /\ f[i].data = x
  /\ \A p \in pages : \E i \in 1 .. Len(f) : f[i].page = p

\* Appending the frames of a commit makes such a log.
LEMMA Concatenated ==
  ASSUME NEW s \in Seq(Entry), NEW t, NEW z, NEW S, NEW x, FramesAre(t, z, S, x)
  PROVE  Grown(s, s \o t, z, S, x)
<1>0. /\ t \in Seq(Entry) /\ Len(t) > 0 /\ t[Len(t)].size = z
      /\ \A i \in 1 .. Len(t) : t[i].page \in S /\ t[i].data = x
      /\ \A p \in S : \E i \in 1 .. Len(t) : t[i].page = p
  BY DEF FramesAre
<1>1. /\ s \o t \in Seq(Entry) /\ Len(s \o t) = Len(s) + Len(t)
      /\ Len(s) \in Nat /\ Len(t) \in Nat
  BY <1>0
<1>2. \A i \in 1 .. Len(s) : (s \o t)[i] = s[i]
  BY <1>0
<1>3. \A i \in Len(s) + 1 .. Len(s \o t) : (s \o t)[i] = t[i - Len(s)] /\ i - Len(s) \in 1 .. Len(t)
  BY <1>0
<1>4. \A i \in 1 .. Len(t) : Len(s) + i \in Len(s) + 1 .. Len(s \o t) /\ (s \o t)[Len(s) + i] = t[i]
  BY <1>0
<1>5. Len(t) \in 1 .. Len(t)
  BY <1>0, <1>1
<1>6. (s \o t)[Len(s \o t)] = t[Len(t)]
  BY <1>1, <1>4, <1>5
<1>7. Len(s \o t) > Len(s)
  BY <1>0, <1>1
<1>8. \A p \in S : \E i \in Len(s) + 1 .. Len(s \o t) : (s \o t)[i].page = p
  <2> TAKE p \in S
  <2>1. PICK i \in 1 .. Len(t) : t[i].page = p
    BY <1>0
  <2>2. Len(s) + i \in Len(s) + 1 .. Len(s \o t) /\ (s \o t)[Len(s) + i] = t[i]
    BY <1>4
  <2> WITNESS Len(s) + i \in Len(s) + 1 .. Len(s \o t)
  <2> QED
    BY <2>1, <2>2
<1>9. \A i \in Len(s) + 1 .. Len(s \o t) : (s \o t)[i].page \in S /\ (s \o t)[i].data = x
  <2> TAKE i \in Len(s) + 1 .. Len(s \o t)
  <2>1. (s \o t)[i] = t[i - Len(s)] /\ i - Len(s) \in 1 .. Len(t)
    BY <1>3
  <2>2. t[i - Len(s)].page \in S /\ t[i - Len(s)].data = x
    BY <1>0, <2>1
  <2> QED
    BY <2>1, <2>2
<1> QED
  BY <1>0, <1>1, <1>2, <1>6, <1>7, <1>8, <1>9 DEF Grown

\* A set of pages has an ascending enumeration.
LEMMA AscendingExists ==
  ASSUME Bounds, NEW S \in SUBSET Page
  PROVE  \E n \in 0 .. MaxPage : /\ Ascending(S) \in [1 .. n -> S]
                                 /\ {Ascending(S)[i] : i \in 1 .. n} = S
<1> DEFINE Lists(s, n, m) == /\ s \in [1 .. n -> S]
                             /\ {s[i] : i \in 1 .. n} = {p \in S : p <= m}
                             /\ \A i, j \in 1 .. n : i < j => s[i] < s[j]
           Good(m) == \E n \in 0 .. m : \E s \in [1 .. n -> S] : Lists(s, n, m)
           B == {m \in Nat : m <= MaxPage /\ ~Good(m)}
<1>0. MaxPage \in Nat /\ \A p \in S : p \in 1 .. MaxPage
  BY DEF Bounds, Page
<1>1. Good(0)
  <2> DEFINE s == [i \in 1 .. 0 |-> 1]
  <2>1. s \in [1 .. 0 -> S]
    OBVIOUS
  <2>2. Lists(s, 0, 0) /\ 0 \in 0 .. 0
    BY <1>0, <2>1
  <2> HIDE DEF Lists, s
  <2> QED
    BY <2>1, <2>2, Zenon
<1>2. ASSUME NEW m \in Nat, m < MaxPage, Good(m)
      PROVE  Good(m + 1)
  <2>1. PICK n \in 0 .. m : \E s \in [1 .. n -> S] : Lists(s, n, m)
    BY <1>2
  <2>9. PICK s \in [1 .. n -> S] : Lists(s, n, m)
    BY <2>1
  <2>2. CASE m + 1 \notin S
    <3>1. {p \in S : p <= m + 1} = {p \in S : p <= m}
      BY <1>0, <2>2
    <3>2. Lists(s, n, m + 1) /\ n \in 0 .. m + 1
      BY <2>9, <3>1
    <3> QED
      BY <3>2
  <2>3. CASE m + 1 \in S
    <3> DEFINE t == [i \in 1 .. n + 1 |-> IF i = n + 1 THEN m + 1 ELSE s[i]]
    <3>1. t \in [1 .. n + 1 -> S] /\ n + 1 \in 0 .. m + 1
      BY <2>9, <2>3
    <3>2. \A i \in 1 .. n : s[i] \in S /\ s[i] <= m
      <4>1. \A i \in 1 .. n : s[i] \in {s[j] : j \in 1 .. n}
        OBVIOUS
      <4> QED
        BY <2>9, <4>1
    <3>3. \A i, j \in 1 .. n + 1 : i < j => t[i] < t[j]
      <4>1. \A i \in 1 .. n : t[i] = s[i] /\ s[i] \in Nat
        BY <1>0, <3>2
      <4>2. t[n + 1] = m + 1 /\ \A j \in 1 .. n + 1 : j = n + 1 \/ j \in 1 .. n
        OBVIOUS
      <4>3. \A i, j \in 1 .. n : i < j => s[i] < s[j]
        BY <2>9
      <4> HIDE DEF t
      <4> QED
        BY <3>2, <4>1, <4>2, <4>3
    <3>4. {t[i] : i \in 1 .. n + 1} = {p \in S : p <= m + 1}
      <4>1. ASSUME NEW p \in S, p <= m + 1
            PROVE  \E i \in 1 .. n + 1 : t[i] = p
        <5>1. CASE p = m + 1
          BY <5>1
        <5>2. CASE p # m + 1
          <6>1. p \in {s[i] : i \in 1 .. n}
            BY <1>0, <2>9, <4>1, <5>2
          <6>2. PICK i \in 1 .. n : s[i] = p
            BY <6>1
          <6> QED
            BY <6>2
        <5> QED
          BY <5>1, <5>2
      <4>2. \A i \in 1 .. n + 1 : t[i] \in S /\ t[i] <= m + 1
        BY <1>0, <2>3, <3>2
      <4> QED
        BY <4>1, <4>2
    <3>5. Lists(t, n + 1, m + 1)
      BY <3>1, <3>3, <3>4
    <3> QED
      BY <3>1, <3>5, Zenon
  <2> QED
    BY <2>2, <2>3, Zenon
<1>3. B = {}
  <2> SUFFICES ASSUME B # {} PROVE FALSE
    OBVIOUS
  <2>1. \E x \in B : \A y \in B : ~(<<y, x>> \in OpToRel(<, Nat))
    BY WFMin, NatLessThanWellFounded, Zenon
  <2>2. PICK x \in B : \A y \in B : ~(y < x)
    BY <2>1, Zenon DEF OpToRel
  <2> HIDE DEF Good
  <2>3. x # 0
    BY <1>1, <2>2
  <2>4. x - 1 \in Nat /\ x - 1 \notin B /\ x - 1 < MaxPage /\ (x - 1) + 1 = x
    BY <1>0, <2>2, <2>3
  <2>5. Good(x - 1)
    BY <1>0, <2>4
  <2>6. Good((x - 1) + 1)
    BY <1>2, <2>4, <2>5
  <2> QED
    BY <2>2, <2>4, <2>6
<1>4. Good(MaxPage)
  <2> HIDE DEF Good
  <2> QED
    BY <1>0, <1>3
<1>5. PICK n \in 0 .. MaxPage : \E s \in [1 .. n -> S] : Lists(s, n, MaxPage)
  BY <1>4
<1>9. PICK s \in [1 .. n -> S] : Lists(s, n, MaxPage)
  BY <1>5
<1>6. {p \in S : p <= MaxPage} = S
  BY <1>0
<1>7. /\ s \in UNION {[1 .. k -> S] : k \in 0 .. MaxPage}
      /\ {s[i] : i \in DOMAIN s} = S
      /\ \A i, j \in DOMAIN s : i < j => s[i] < s[j]
  BY <1>9, <1>6
<1>8. /\ Ascending(S) \in UNION {[1 .. k -> S] : k \in 0 .. MaxPage}
      /\ {Ascending(S)[i] : i \in DOMAIN Ascending(S)} = S
  BY <1>7, Zenon DEF Ascending
<1> QED
  BY <1>8

\* The frames of commit_wal: every staged page, in page order, the last one with
\* the size.
LEMMA CommitLogIs ==
  ASSUME Bounds, Types, NEW c \in Conn, NEW f, f = CommitLog(conn[c])
  PROVE  FramesAre(f, conn[c].pageCount, Staged(conn[c]), Len(history) + 1)
<1> DEFINE S == Staged(conn[c])
           a == Ascending(S)
<1>0. conn[c].pageCount \in 0 .. MaxPage /\ Len(history) + 1 \in Nat /\ MaxPage \in Nat
  BY DEF Types, WalConn, Page, Bounds
<1>1. S \in SUBSET Page /\ 1 \in S
  BY DEF Staged, Page, Bounds
<1>2. PICK n \in 0 .. MaxPage : a \in [1 .. n -> S] /\ {a[i] : i \in 1 .. n} = S
  BY <1>1, AscendingExists
<1>3. n # 0 /\ n \in Nat
  BY <1>0, <1>1, <1>2
<1>4. Len(a) = n /\ DOMAIN a = 1 .. n
  BY <1>2, <1>3
<1>5. f = [i \in 1 .. n |-> [page |-> a[i], size |-> IF i = n THEN conn[c].pageCount ELSE 0,
                             data |-> Len(history) + 1]]
  BY <1>4, Zenon DEF CommitLog
<1>6. \A i \in 1 .. n : a[i] \in S
  BY <1>2
<1> HIDE DEF a, S
<1>7. f \in [1 .. n -> Entry]
  BY <1>0, <1>1, <1>5, <1>6 DEF Entry
<1>8. f \in Seq(Entry) /\ Len(f) = n
  BY <1>3, <1>7
<1>9. \A p \in S : \E i \in 1 .. n : a[i] = p
  BY <1>2
<1>10. /\ \A i \in 1 .. Len(f) : f[i].page \in S /\ f[i].data = Len(history) + 1
       /\ \A p \in S : \E i \in 1 .. Len(f) : f[i].page = p
       /\ Len(f) > 0 /\ f[Len(f)].size = conn[c].pageCount
  <2>1. \A i \in 1 .. n : f[i].page = a[i] /\ f[i].data = Len(history) + 1
    BY <1>5
  <2>2. f[n].size = conn[c].pageCount
    BY <1>3, <1>5
  <2> QED
    BY <1>3, <1>6, <1>8, <1>9, <2>1, <2>2
<1> QED
  BY <1>8, <1>10, Zenon DEF S, FramesAre

\* A commit lands in the log.
LEMMA EndCommitStep ==
  ASSUME Bounds, WalInv, NEW c \in Conn, EndCommit(c)
  PROVE  WalInv'
<1> DEFINE f   == CommitLog(conn[c])
           img == NewImage(conn[c])
           ix  == AppendFrames(index, f)
           S   == Staged(conn[c])
           z   == conn[c].pageCount
           x   == Len(history) + 1
           k   == [Released(conn[c]) EXCEPT !.snapshot = MxFrame(ix), !.overlay = Clean,
                                            !.dbSize = conn[c].pageCount,
                                            !.view = Len(history) + 1]
<1>0. /\ conn[c] \in WalConn /\ index \in Index /\ locks \in LockStates
      /\ \A b \in BOOLEAN : [inTx EXCEPT ![c] = b] \in [Conn -> BOOLEAN]
  BY AtRest
<1>1. /\ pc[c] = "append" /\ pc' = [pc EXCEPT ![c] = "idle"]
      /\ index' = IF conn[c].mark = None THEN ix ELSE UnregisterReader(ix, conn[c].mark)
      /\ conn' = [conn EXCEPT ![c] = k]
      /\ history' = Append(history, img)
      /\ locks' = Release(locks, conn[c].held, Unlocked)
      /\ inTx' = [inTx EXCEPT ![c] = FALSE]
      /\ main' = main /\ job' = job
  BY DEF EndCommit, At, Set, Goto
<1>2. /\ pc[c] \notin Checkpointing /\ Holds(c) /\ z \in Page
      /\ \A d \in Conn \ {c} : ~Holds(d)
  BY <1>0, <1>1, Committer DEF WalConn
<1>3. img \in Pic /\ Whole(img, z) /\ Follows(Last, img, S, x)
  BY <1>1, NewImageIs
<1>4. /\ index.log \in Seq(Entry) /\ Grown(index.log, index.log \o f, z, S, x)
      /\ index.log \o f \in Seq(Entry)
  <2>1. FramesAre(f, z, S, x)
    BY CommitLogIs DEF WalInv
  <2>2. index.log \in Seq(Entry)
    BY <1>0 DEF Index
  <2> HIDE DEF f, S, z, x
  <2>3. Grown(index.log, index.log \o f, z, S, x)
    BY <2>1, <2>2, Concatenated, Zenon
  <2> QED
    BY <2>2, <2>3, Zenon DEF Grown
<1>5. k \in WalConn /\ k.held # Reserved /\ k.overlay = Clean
  <2>1. Clean \in Pic /\ Unlocked \in Unlocked .. Reserved /\ Unlocked # Reserved
    BY DEF Clean, Pic, Unlocked, Reserved
  <2>2. MxFrame(ix) \in Nat /\ Len(history) + 1 \in Nat
    BY <1>0, <1>4 DEF MxFrame, AppendFrames, Index, WalInv, Types
  <2> HIDE DEF ix
  <2> QED
    BY <1>0, <1>2, <2>1, <2>2, Zenon DEF Released, WalConn
<1> HIDE DEF k, S, z, x
<1>6. index' \in Index /\ index'.log = index.log \o f /\ index'.backfill = index.backfill
  <2>1. ix \in Index /\ ix.log = index.log \o f /\ ix.backfill = index.backfill
    BY <1>0, <1>4, Zenon DEF AppendFrames, Index
  <2> HIDE DEF f, ix
  <2> QED
    BY <1>1, <2>1, UnregisterIs
<1> HIDE DEF f, img, ix
<1>7. Grown(index.log, index'.log, z, S, x)
  BY <1>4, <1>6, Zenon
<1>8. /\ history' \in Seq(Pic) /\ Len(history') > 0 /\ Last' = img
      /\ \A h \in 1 .. Len(history') :
           \/ h \in 1 .. Len(history) /\ history'[h] = history[h]
           \/ history'[h] = img
  BY <1>1, <1>3 DEF WalInv, Types, Last
<1>9. SizeOf(img) = z
  BY <1>2, <1>3, SizeIs
<1>10. /\ conn'[c] = k /\ \A d \in Conn \ {c} : conn'[d] = conn[d]
       /\ pc'[c] = "idle" /\ \A d \in Conn \ {c} : pc'[d] = pc[d]
       /\ "idle" \notin Checkpointing /\ "idle" \notin Copying
  BY <1>1 DEF WalInv, Types, Checkpointing, Copying
<1>11. Types'
  <2>1. locks' \in LockStates
    BY <1>0, <1>1, LockFlag DEF WalConn, Unlocked, Reserved
  <2>2. conn' \in [Conn -> WalConn] /\ pc' \in [Conn -> Labels]
    BY <1>1, <1>5 DEF WalInv, Types, Labels
  <2>3. inTx' \in [Conn -> BOOLEAN]
    BY <1>0, <1>1, Zenon
  <2> QED
    BY <1>1, <1>6, <1>8, <2>1, <2>2, <2>3, Zenon DEF WalInv, Types
<1>12. Images'
  BY <1>2, <1>3, <1>8, Zenon DEF WalInv, Images
<1>13. index.backfill \in Nat /\ LogIs(index.log, index.backfill, main, Last)
  BY <1>0 DEF Index, WalInv, LogOK
<1>14. LogOK'
  <2>1. LogIs(index'.log, index.backfill, main, img)
    BY <1>3, <1>4, <1>7, <1>9, <1>13, GrownLog
  <2> QED
    BY <1>1, <1>6, <1>8, <2>1, Zenon DEF LogOK
<1>15. /\ \A d \in Conn : ~Holds(d)' /\ WriterOK(d)'
       /\ LockOK'
  <2>1. \A d \in Conn : ~Holds(d)'
    BY <1>2, <1>5, <1>10, Zenon DEF Holds
  <2>2. \A d \in Conn : WriterOK(d)'
    BY <1>2, <1>5, <1>10, <2>1 DEF WriterOK, WalInv
  <2> QED
    BY <2>1, <2>2, Zenon DEF LockOK
<1>16. ASSUME NEW d \in Conn, pc'[d] \in Checkpointing
       PROVE  JobOK(d)' /\ (pc'[d] \in Copying => CopyOK(d)')
  <2>1. JobOK(d) /\ ~Holds(d) /\ ~Holds(d)' /\ pc'[d] = pc[d] /\ job' = job
    BY <1>1, <1>2, <1>10, <1>15, <1>16, Zenon DEF WalInv
  <2>2. JobOK(d)' /\ job[d] \in Job
    BY <2>1 DEF JobOK
  <2>3. ASSUME pc[d] \in Copying
        PROVE  CopyOK(d)'
    <3>1. CopyIs(pc[d], job[d], index.log, index.backfill, main, Last)
      BY <2>3, Zenon DEF WalInv, CopyOK
    <3>2. CopyIs(pc[d], job[d], index'.log, index.backfill, main, img)
      BY <1>3, <1>4, <1>7, <1>13, <2>2, <3>1, GrownCopy
    <3> QED
      BY <1>1, <1>6, <1>8, <2>1, <3>2, Zenon DEF CopyOK
  <2> QED
    BY <2>1, <2>2, <2>3, Zenon
<1>17. Copying \subseteq Checkpointing
  BY DEF Checkpointing
<1> QED
  BY <1>11, <1>12, <1>14, <1>15, <1>16, <1>17, Zenon DEF WalInv

-----------------------------------------------------------------------------
(***************************************************************************)
(* The writer                                                              *)
(***************************************************************************)

\* A writer works on its overlay.
LEMMA OverlaySteps ==
  ASSUME Bounds, WalInv, NEW c \in Conn,
         AllocatePage(c) \/ \E p \in Page : WritePage(c, p)
  PROVE  WalInv'
<1>0. /\ conn[c] \in WalConn /\ index \in Index /\ locks \in LockStates
      /\ pc = [pc EXCEPT ![c] = pc[c]] /\ inTx \in [Conn -> BOOLEAN]
  BY AtRest
<1>1. /\ pc[c] = "writing" /\ pc' = pc
      /\ UNCHANGED <<main, index, locks, inTx, job, history>>
  BY Zenon DEF AllocatePage, WritePage, At
<1>2. /\ Holds(c) /\ conn[c].view = Len(history) /\ conn[c].dbSize = SizeOf(Last)
      /\ conn[c].dbSize <= conn[c].pageCount
      /\ \A p \in Page : conn[c].overlay[p] # None => p <= conn[c].pageCount
      /\ \A p \in conn[c].dbSize + 1 .. conn[c].pageCount : conn[c].overlay[p] # None
  BY <1>1 DEF WalInv, WriterOK
<1>3. \E k \in WalConn :
        /\ conn' = [conn EXCEPT ![c] = k]
        /\ k.held = conn[c].held /\ k.view = conn[c].view /\ k.dbSize = conn[c].dbSize
        /\ k.dbSize <= k.pageCount
        /\ \A p \in Page : k.overlay[p] # None => p <= k.pageCount
        /\ \A p \in k.dbSize + 1 .. k.pageCount : k.overlay[p] # None
  <2>1. CASE AllocatePage(c)
    <3> DEFINE n == conn[c].pageCount + 1
               k == [conn[c] EXCEPT !.pageCount = n, !.overlay[n] = New]
    <3>0. conn' = [conn EXCEPT ![c] = k] /\ conn[c].pageCount < MaxPage
      BY <2>1 DEF AllocatePage, Set
    <3>1. conn' = [conn EXCEPT ![c] = k] /\ n \in Page
      BY <1>0, <3>0 DEF WalConn, Page, Bounds
    <3>2. New \in Nat /\ New # None
      BY DEF Bounds, New
    <3>3. [conn[c].overlay EXCEPT ![n] = New] \in Pic
      BY <1>0, <3>2, Zenon DEF WalConn, Pic
    <3>4. /\ k.held = conn[c].held /\ k.view = conn[c].view /\ k.dbSize = conn[c].dbSize
          /\ k.pageCount = n /\ k.overlay = [conn[c].overlay EXCEPT ![n] = New] /\ k \in WalConn
      BY <1>0, <3>1, <3>3, Zenon DEF WalConn
    <3>5. \A p \in Page : k.overlay[p] = IF p = n THEN New ELSE conn[c].overlay[p]
      BY <1>0, <3>4 DEF WalConn, Pic
    <3> HIDE DEF k
    <3>6. conn[c].dbSize \in Nat /\ conn[c].pageCount \in Nat
      BY <1>0 DEF WalConn, Page
    <3>7. \A p \in k.dbSize + 1 .. k.pageCount : p \in Page
      BY <3>1, <3>4, <3>6 DEF Page, Bounds
    <3>8. \A p \in k.dbSize + 1 .. k.pageCount : k.overlay[p] # None
      <4>1. \A p \in k.dbSize + 1 .. k.pageCount :
              p = n \/ p \in conn[c].dbSize + 1 .. conn[c].pageCount
        BY <3>4, <3>6
      <4> QED
        BY <1>2, <3>2, <3>5, <3>7, <4>1
    <3>9. \A p \in Page : k.overlay[p] # None => p <= k.pageCount
      BY <1>2, <3>4, <3>5, <3>6 DEF Page
    <3>10. k.dbSize <= k.pageCount
      BY <1>2, <3>4, <3>6
    <3> QED
      BY <3>1, <3>4, <3>8, <3>9, <3>10, Zenon
  <2>2. CASE \E p \in Page : WritePage(c, p)
    <3>1. PICK p \in Page : WritePage(c, p)
      BY <2>2
    <3> DEFINE k == [conn[c] EXCEPT !.overlay[p] = Content(c, p)]
    <3>2. conn' = [conn EXCEPT ![c] = k] /\ p <= conn[c].dbSize /\ conn[c].overlay[p] = None
      BY <3>1 DEF WritePage, Set
    <3>3. Content(c, p) \in Nat \cup {None}
      <4>1. conn[c].overlay[p] = None /\ main[p] \in Nat \cup {None}
        BY <3>2 DEF WalInv, Types, Pic
      <4>2. InLog(index, p, conn[c].snapshot) => FindFrame(index, p, conn[c].snapshot) \in Nat
        <5> DEFINE S == FramesOf(index, p, 0, conn[c].snapshot)
        <5>1. index.log \in Seq(Entry) /\ Len(index.log) \in Nat
          BY <1>0 DEF Index
        <5>2. S \in SUBSET (0 .. Len(index.log)) /\ S \subseteq 1 .. Len(index.log)
          BY <5>1 DEF FramesOf, Frames
        <5>3. S # {} => Newest(S) \in 1 .. Len(index.log)
          BY <5>1, <5>2, NewestIn, Zenon
        <5> HIDE DEF S
        <5>6. \A i \in 1 .. Len(index.log) : index.log[i] \in Entry
          BY <5>1
        <5>5. \A i \in 1 .. Len(index.log) : index.log[i].data \in Nat
          BY <5>6, Zenon DEF Entry
        <5>4. S # {} => index.log[Newest(S)].data \in Nat
          BY <5>3, <5>5, Zenon
        <5> QED
          BY <5>4 DEF S, InLog, FindFrame
      <4> QED
        BY <4>1, <4>2 DEF Content
    <3>4. [conn[c].overlay EXCEPT ![p] = Content(c, p)] \in Pic
      BY <1>0, <3>3 DEF WalConn, Pic
    <3>5. /\ k.held = conn[c].held /\ k.view = conn[c].view /\ k.dbSize = conn[c].dbSize
          /\ k.pageCount = conn[c].pageCount /\ k \in WalConn
          /\ k.overlay = [conn[c].overlay EXCEPT ![p] = Content(c, p)]
      BY <1>0, <3>4 DEF WalConn
    <3>6. \A q \in Page : k.overlay[q] = IF q = p THEN Content(c, p) ELSE conn[c].overlay[q]
      BY <1>0, <3>5 DEF WalConn, Pic
    <3> HIDE DEF k
    <3>7. conn[c].dbSize \in Page /\ conn[c].pageCount \in Page
      BY <1>0 DEF WalConn
    <3>8. \A q \in k.dbSize + 1 .. k.pageCount : q \in Page /\ q # p
      BY <3>2, <3>5, <3>7 DEF Page, Bounds
    <3>9. \A q \in k.dbSize + 1 .. k.pageCount : k.overlay[q] # None
      BY <1>2, <3>5, <3>6, <3>8
    <3>10. \A q \in Page : k.overlay[q] # None => q <= k.pageCount
      BY <1>2, <3>2, <3>5, <3>6, <3>7 DEF Page
    <3> QED
      BY <1>2, <3>2, <3>5, <3>9, <3>10, Zenon
  <2> QED
    BY <2>1, <2>2
<1>4. PICK k \in WalConn :
        /\ conn' = [conn EXCEPT ![c] = k]
        /\ k.held = conn[c].held /\ k.view = conn[c].view /\ k.dbSize = conn[c].dbSize
        /\ k.dbSize <= k.pageCount
        /\ \A p \in Page : k.overlay[p] # None => p <= k.pageCount
        /\ \A p \in k.dbSize + 1 .. k.pageCount : k.overlay[p] # None
  BY <1>3, Zenon
<1>5. conn'[c] = k /\ pc'[c] = "writing" /\ Last' = Last
  BY <1>1, <1>4 DEF WalInv, Types, Last
<1>6. LockOK'
  BY <1>1, <1>2, <1>4, LockStep DEF WalInv, LockOK, Holds
<1>7. WriterOK(c)'
  BY <1>1, <1>2, <1>4, <1>5 DEF WriterOK, Holds, Borrowed, Checkpointing, Copying
<1>8. "writing" \in Labels \ Checkpointing /\ pc' = [pc EXCEPT ![c] = "writing"]
  BY <1>0, <1>1 DEF Labels, Checkpointing, Copying
<1> QED
  BY <1>0, <1>1, <1>4, <1>6, <1>7, <1>8, CalmStep, Zenon

\* A new snapshot is of the newest image.
LEMMA SnapshotIs ==
  ASSUME Bounds, WalInv, NEW k \in WalConn
  PROVE  /\ Snapshot(k) \in WalConn
         /\ Snapshot(k).held = k.held /\ Snapshot(k).mark = k.mark
         /\ Snapshot(k).overlay = k.overlay /\ Snapshot(k).pageCount = k.pageCount
         /\ Snapshot(k).dbSize = SizeOf(Last) /\ Snapshot(k).view = Len(history)
         /\ Snapshot(k).snapshot = Len(index.log)
<1>1. SnapshotDbSize(index, MxFrame(index), SizeOf(main)) = SizeOf(Last) /\ SizeOf(Last) \in Page
  BY SizesSeen, LastWhole DEF WalInv
<1>2. Len(index.log) \in Nat /\ Len(history) \in Nat
  BY DEF WalInv, Types, Index
<1> QED
  BY <1>1, <1>2, Zenon DEF Snapshot, WalConn, MxFrame

\* Taking a lock changes nothing but the lock.
LEMMA RaisedIs ==
  ASSUME NEW k \in WalConn, NEW to \in {Shared, Reserved}
  PROVE  /\ Raised(k, to) \in WalConn
         /\ Raised(k, to).held = IF k.held < to THEN to ELSE k.held
         /\ Raised(k, to).mark = k.mark /\ Raised(k, to).overlay = k.overlay
         /\ Raised(k, to).pageCount = k.pageCount /\ Raised(k, to).dbSize = k.dbSize
         /\ Raised(k, to).view = k.view /\ Raised(k, to).snapshot = k.snapshot
         /\ ~(k.held < to) => Raised(k, to) = k
  BY DEF Raised, WalConn, Unlocked, Shared, Reserved

\* begin_write: the writer starts from the newest commit.
LEMMA StartWriteStep ==
  ASSUME Bounds, WalInv, NEW c \in Conn, StartWrite(c),
         conn[c].mark # None /\ conn[c].held < Reserved =>
           /\ conn[c].view = Len(history) /\ conn[c].dbSize = SizeOf(Last)
           /\ conn[c].pageCount = conn[c].dbSize
  PROVE  WalInv'
<1>0. /\ conn[c] \in WalConn /\ index \in Index /\ locks \in LockStates
      /\ inTx \in [Conn -> BOOLEAN] /\ conn[c].held \in Unlocked .. Reserved
  BY AtRest DEF WalConn
<1>1. /\ pc[c] = "idle" /\ pc' = [pc EXCEPT ![c] = "writing"]
      /\ CanLock(c, Reserved)
      /\ locks' = Acquire(Acquire(locks, conn[c].held, Shared), Raised(conn[c], Shared).held, Reserved)
      /\ UNCHANGED <<main, index, inTx, job, history>>
  BY DEF StartWrite, At, Goto
<1>2. "writing" \in Labels \ Checkpointing /\ pc[c] \notin Checkpointing
  BY <1>1 DEF Labels, Checkpointing, Copying
<1>3. WriterOK(c) /\ ~Borrowed(c)
  BY <1>2 DEF WalInv, Borrowed
<1>4. PICK k \in WalConn :
        /\ conn' = [conn EXCEPT ![c] = k] /\ k.held = Reserved
        /\ k.view = Len(history) /\ k.dbSize = SizeOf(Last) /\ k.dbSize <= k.pageCount
        /\ \A p \in Page : k.overlay[p] # None => p <= k.pageCount
        /\ \A p \in k.dbSize + 1 .. k.pageCount : k.overlay[p] # None
  <2> DEFINE s == Snapshot(conn[c])
             t == [s EXCEPT !.pageCount = s.dbSize]
             w == IF conn[c].held < Reserved /\ conn[c].mark = None /\ conn[c].overlay = Clean
                  THEN t ELSE conn[c]
  <2>1. conn' = [conn EXCEPT ![c] = Raised(w, Reserved)]
    BY DEF StartWrite, Set
  <2>2. CASE Holds(c)
    <3>1. w = conn[c] /\ ~(conn[c].held < Reserved)
      BY <2>2 DEF Holds, Reserved
    <3>2. Raised(w, Reserved) = conn[c]
      BY <1>0, <3>1, RaisedIs
    <3> QED
      BY <1>0, <1>3, <2>1, <2>2, <3>2, Zenon DEF WriterOK, Holds
  <2>3. CASE ~Holds(c)
    <3>1. conn[c].held < Reserved /\ ~(conn[c].held >= Reserved)
      BY <1>0, <2>3 DEF Holds, Unlocked, Reserved
    <3>2. conn[c].overlay = Clean
      BY <1>3, <2>3 DEF WriterOK
    <3>3. /\ s \in WalConn /\ s.held = conn[c].held /\ s.overlay = Clean
          /\ s.dbSize = SizeOf(Last) /\ s.view = Len(history)
      BY <1>0, <3>2, SnapshotIs
    <3> HIDE DEF s
    <3>4. /\ t \in WalConn /\ t.held = conn[c].held /\ t.overlay = Clean /\ t.pageCount = SizeOf(Last)
          /\ t.dbSize = SizeOf(Last) /\ t.view = Len(history)
      BY <3>3 DEF WalConn
    <3> HIDE DEF t
    <3>5. /\ w \in WalConn /\ w.held = conn[c].held /\ w.overlay = Clean /\ w.pageCount = SizeOf(Last)
          /\ w.dbSize = SizeOf(Last) /\ w.view = Len(history)
      <4>1. CASE conn[c].mark = None
        BY <3>1, <3>2, <3>4, <4>1
      <4>2. CASE conn[c].mark # None
        BY <1>0, <3>1, <3>2, <4>2
      <4> QED
        BY <4>1, <4>2
    <3> HIDE DEF w
    <3> DEFINE k == Raised(w, Reserved)
    <3>6. /\ k \in WalConn /\ k.held = Reserved /\ k.overlay = Clean /\ k.pageCount = SizeOf(Last)
          /\ k.dbSize = SizeOf(Last) /\ k.view = Len(history)
      BY <3>1, <3>5, RaisedIs
    <3> HIDE DEF k
    <3>7. SizeOf(Last) \in Nat
      BY LastWhole DEF WalInv, Page
    <3>8. k.dbSize <= k.pageCount /\ k.dbSize + 1 .. k.pageCount = {}
      BY <3>6, <3>7
    <3>9. \A p \in Page : k.overlay[p] = None
      BY <3>6 DEF Clean
    <3> QED
      BY <2>1, <3>6, <3>8, <3>9, Zenon DEF k
  <2> QED
    BY <2>2, <2>3
<1>5. locks' \in LockStates /\ locks'.reserved /\ (Holds(c) \/ ~locks.reserved)
  <2>1. Raised(conn[c], Shared).held = IF conn[c].held < Shared THEN Shared ELSE conn[c].held
    BY <1>0, RaisedIs
  <2> DEFINE a == Acquire(locks, conn[c].held, Shared)
             h == Raised(conn[c], Shared).held
  <2>2. Shared \in Unlocked .. Reserved /\ Reserved \in Unlocked .. Reserved /\ h \in Unlocked .. Reserved
    BY <1>0, <2>1 DEF Unlocked, Shared, Reserved
  <2>3. a \in LockStates /\ (locks.reserved => a.reserved)
    BY <1>0, <2>2, LockFlag, Zenon
  <2>4. h < Reserved \/ Holds(c)
    BY <1>0, <2>1 DEF Holds, Unlocked, Shared, Reserved
  <2>5. Holds(c) => locks.reserved
    BY DEF WalInv, LockOK
  <2> HIDE DEF a, h
  <2>6. Acquire(a, h, Reserved) \in LockStates /\ Acquire(a, h, Reserved).reserved
    BY <2>2, <2>3, <2>4, <2>5, LockFlag, Zenon
  <2>7. Holds(c) \/ ~locks.reserved
    BY <1>0, <1>1 DEF CanLock, CanAcquire, Holds, Unlocked, Shared, Reserved, Pending, Exclusive
  <2> QED
    BY <1>1, <2>6, <2>7 DEF a, h
<1>6. LockOK'
  BY <1>4, <1>5, LockStep, Zenon DEF WalInv
<1>7. conn'[c] = k /\ pc'[c] = "writing" /\ Last' = Last
  BY <1>1, <1>4 DEF WalInv, Types, Last
<1>8. WriterOK(c)'
  BY <1>1, <1>2, <1>4, <1>7 DEF WriterOK, Holds, Borrowed
<1> QED
  BY <1>0, <1>1, <1>2, <1>4, <1>5, <1>6, <1>8, CalmStep, Zenon

\* A statement of an open transaction ends.
LEMMA EndWriteStep ==
  ASSUME Bounds, WalInv, NEW c \in Conn, EndWrite(c)
  PROVE  WalInv'
<1>0. /\ conn[c] \in WalConn /\ index \in Index /\ locks \in LockStates
      /\ conn = [conn EXCEPT ![c] = conn[c]] /\ inTx \in [Conn -> BOOLEAN]
  BY AtRest
<1>1. /\ pc[c] = "writing" /\ pc' = [pc EXCEPT ![c] = "idle"]
      /\ UNCHANGED <<main, index, locks, conn, inTx, job, history>>
  BY DEF EndWrite, At, Goto
<1>2. "idle" \in Labels \ Checkpointing /\ pc[c] \notin Checkpointing /\ pc'[c] = "idle" /\ Last' = Last
  BY <1>1 DEF Labels, Checkpointing, Copying, WalInv, Types, Last
<1>3. LockOK'
  BY <1>1 DEF WalInv, LockOK, Holds
<1>4. WriterOK(c)'
  BY <1>1, <1>2 DEF WalInv, WriterOK, Holds, Borrowed
<1> QED
  BY <1>0, <1>1, <1>2, <1>3, <1>4, CalmStep, Zenon

\* The lock goes: ROLLBACK and an empty COMMIT.
LEMMA ReleaseSteps ==
  ASSUME Bounds, WalInv, NEW c \in Conn, Rollback(c) \/ CommitNothing(c)
  PROVE  WalInv'
<1>0. /\ conn[c] \in WalConn /\ index \in Index /\ locks \in LockStates
      /\ \A b \in BOOLEAN : [inTx EXCEPT ![c] = b] \in [Conn -> BOOLEAN]
  BY AtRest
<1>1. /\ pc[c] \in {"idle", "writing"} /\ pc' = [pc EXCEPT ![c] = "idle"]
      /\ locks' = Release(locks, conn[c].held, Unlocked)
      /\ index' = Unpinned(conn[c])
      /\ inTx' = [inTx EXCEPT ![c] = FALSE]
      /\ UNCHANGED <<main, job, history>>
  BY DEF Rollback, CommitNothing, Committing, At, Goto
<1>2. Clean \in Pic /\ Unlocked \in Unlocked .. Reserved /\ Unlocked # Reserved
  BY DEF Clean, Pic, Unlocked, Reserved
<1>3. PICK k \in WalConn : conn' = [conn EXCEPT ![c] = k] /\ k.held = Unlocked /\ k.overlay = Clean
  <2>1. CASE Rollback(c)
    <3> DEFINE k == [Released(conn[c]) EXCEPT !.overlay = Clean, !.pageCount = conn[c].dbSize]
    <3>1. conn' = [conn EXCEPT ![c] = k]
      BY <2>1 DEF Rollback, Set
    <3>2. k \in WalConn /\ k.held = Unlocked /\ k.overlay = Clean
      BY <1>0, <1>2, Zenon DEF WalConn, Released
    <3> QED
      BY <3>1, <3>2, Zenon
  <2>2. CASE CommitNothing(c)
    <3> DEFINE k == Released(conn[c])
    <3>1. conn' = [conn EXCEPT ![c] = k] /\ conn[c].overlay = Clean
      BY <2>2 DEF CommitNothing, Set
    <3>2. k \in WalConn /\ k.held = Unlocked /\ k.overlay = Clean
      BY <1>0, <1>2, <3>1, Zenon DEF WalConn, Released
    <3> QED
      BY <3>1, <3>2, Zenon
  <2> QED
    BY <2>1, <2>2
<1>4. index' \in Index /\ index'.log = index.log /\ index'.backfill = index.backfill
  BY <1>0, <1>1, UnregisterIs DEF Unpinned
<1>5. locks' \in LockStates /\ (locks.reserved => locks'.reserved \/ Holds(c))
  <2>1. conn[c].held \in Unlocked .. Reserved
    BY <1>0 DEF WalConn
  <2> QED
    BY <1>0, <1>1, <1>2, <2>1, LockFlag, Zenon DEF Holds
<1>6. LockOK'
  BY <1>2, <1>3, <1>5, LockStep, Zenon DEF WalInv
<1>7. conn'[c] = k /\ pc'[c] = "idle"
  BY <1>1, <1>3 DEF WalInv, Types
<1>8. WriterOK(c)'
  BY <1>2, <1>3, <1>7 DEF WriterOK, Holds
<1>9. "idle" \in Labels \ Checkpointing /\ pc[c] \notin Checkpointing
  BY <1>1 DEF Labels, Checkpointing, Copying
<1> QED
  BY <1>0, <1>1, <1>3, <1>4, <1>5, <1>6, <1>8, <1>9, CalmStep, Zenon

-----------------------------------------------------------------------------
(***************************************************************************)
(* Reading                                                                 *)
(***************************************************************************)

\* revalidate_read_cache leaves locks and staged pages alone.
LEMMA RevalidatedIs ==
  ASSUME Bounds, WalInv, NEW k \in WalConn
  PROVE  /\ Revalidated(k) \in WalConn
         /\ Revalidated(k).held = k.held /\ Revalidated(k).mark = k.mark
         /\ Revalidated(k).overlay = k.overlay /\ Revalidated(k).pageCount = k.pageCount
         /\ k.held = Reserved \/ k.mark # None => Revalidated(k) = k
<1>1. CASE k.held >= Reserved \/ k.mark # None
  BY <1>1, Zenon DEF Revalidated
<1>2. CASE ~(k.held >= Reserved \/ k.mark # None)
  <2>1. Revalidated(k) = Snapshot(k)
    BY <1>2 DEF Revalidated
  <2>2. ~(k.held = Reserved \/ k.mark # None)
    BY <1>2 DEF Reserved
  <2> QED
    BY <2>1, <2>2, SnapshotIs, Zenon
<1> QED
  BY <1>1, <1>2

\* A connection that does not hold RESERVED and does not take it.
LEMMA ReaderStep ==
  ASSUME Bounds, WalInv, NEW c \in Conn, NEW k \in WalConn, NEW x \in {"idle", "reading"},
         pc[c] \in {"idle", "reading"},
         UNCHANGED <<main, job, history>>,
         index' \in Index, index'.log = index.log, index'.backfill = index.backfill,
         locks' \in LockStates, inTx' \in [Conn -> BOOLEAN], locks'.reserved <=> locks.reserved,
         conn' = [conn EXCEPT ![c] = k], pc' = [pc EXCEPT ![c] = x],
         Holds(c) => /\ k.held = conn[c].held /\ k.overlay = conn[c].overlay
                     /\ k.pageCount = conn[c].pageCount /\ k.view = conn[c].view
                     /\ k.dbSize = conn[c].dbSize,
         ~Holds(c) => k.held # Reserved /\ k.overlay = conn[c].overlay
  PROVE  WalInv'
<1>1. x \in Labels \ Checkpointing /\ pc[c] \notin Checkpointing
  BY DEF Labels, Checkpointing, Copying
<1>2. LockOK'
  <2>1. k.held = Reserved => Holds(c)
    BY DEF Holds
  <2>2. k.held = Reserved => locks'.reserved
    BY <2>1 DEF WalInv, LockOK
  <2> QED
    BY <2>1, <2>2, LockStep, Zenon DEF WalInv
<1>3. conn'[c] = k /\ pc'[c] = x
  BY DEF WalInv, Types
<1>4. WriterOK(c)'
  <2>1. WriterOK(c)
    BY DEF WalInv
  <2>2. Last' = Last
    BY DEF Last
  <2> QED
    BY <1>1, <1>3, <2>1, <2>2 DEF WriterOK, Holds, Borrowed
<1> QED
  BY <1>1, <1>2, <1>4, CalmStep, Zenon

\* SELECTs and BEGIN.
LEMMA ReadSteps ==
  ASSUME Bounds, WalInv, NEW c \in Conn, Read(c)
  PROVE  WalInv'
<1>0. /\ conn[c] \in WalConn /\ pc[c] \in Labels /\ inTx[c] \in BOOLEAN
      /\ index \in Index /\ locks \in LockStates
      /\ conn = [conn EXCEPT ![c] = conn[c]] /\ pc = [pc EXCEPT ![c] = pc[c]]
      /\ inTx \in [Conn -> BOOLEAN]
      /\ \A b \in BOOLEAN : [inTx EXCEPT ![c] = b] \in [Conn -> BOOLEAN]
  BY AtRest
<1> DEFINE up == Raised(conn[c], Shared)
<1>1. /\ up \in WalConn /\ up.overlay = conn[c].overlay
      /\ up.held = IF conn[c].held < Shared THEN Shared ELSE conn[c].held
      /\ Holds(c) => up = conn[c]
  <2>1. Shared \in {Shared, Reserved} /\ (Holds(c) => ~(conn[c].held < Shared))
    BY DEF Holds, Shared, Reserved
  <2> QED
    BY <1>0, <2>1, RaisedIs
<1>2. up.held = Reserved <=> Holds(c)
  BY <1>0, <1>1 DEF Holds, WalConn, Unlocked, Shared, Reserved
<1>3. /\ Acquire(locks, conn[c].held, Shared) \in LockStates
      /\ (Acquire(locks, conn[c].held, Shared).reserved <=> locks.reserved)
  <2>1. conn[c].held \in Unlocked .. Reserved /\ Shared \in Unlocked .. Reserved /\ Shared # Reserved
    BY <1>0 DEF WalConn, Unlocked, Shared, Reserved
  <2> QED
    BY <1>0, <2>1, LockFlag, Zenon
<1> HIDE DEF up
<1>4. CASE StartSelect(c)
  <2> DEFINE k == Revalidated(up)
  <2>1. /\ k \in WalConn /\ k.held = up.held /\ k.overlay = up.overlay /\ (Holds(c) => k = conn[c])
    BY <1>1, <1>2, RevalidatedIs
  <2> HIDE DEF k
  <2>2. /\ pc[c] = "idle" /\ conn' = [conn EXCEPT ![c] = k] /\ pc' = [pc EXCEPT ![c] = "reading"]
        /\ locks' = Acquire(locks, conn[c].held, Shared)
        /\ UNCHANGED <<main, index, inTx, job, history>>
    BY <1>4 DEF StartSelect, Lock, Set, Goto, At, up, k
  <2> QED
    BY <1>0, <1>1, <1>2, <1>3, <2>1, <2>2, ReaderStep, Zenon
<1>5. CASE EndSelect(c)
  <2>1. pc[c] = "reading" /\ pc' = [pc EXCEPT ![c] = "idle"] /\ UNCHANGED <<main, index, inTx, job, history>>
    BY <1>5 DEF EndSelect, At, Goto
  <2>2. CASE conn[c].held = Shared
    <3> DEFINE k == [conn[c] EXCEPT !.held = Unlocked]
    <3>1. conn' = [conn EXCEPT ![c] = k] /\ locks' = Release(locks, Shared, Unlocked)
      BY <1>5, <2>2 DEF EndSelect, Set
    <3>2. k \in WalConn /\ k.held # Reserved /\ k.overlay = conn[c].overlay /\ ~Holds(c)
      BY <1>0, <2>2 DEF WalConn, Holds, Unlocked, Shared, Reserved
    <3>3. Shared \in Unlocked .. Reserved /\ Unlocked \in Unlocked .. Reserved /\ Shared # Reserved
      BY DEF Unlocked, Shared, Reserved
    <3>4. locks' \in LockStates /\ (locks'.reserved <=> locks.reserved)
      BY <1>0, <3>1, <3>3, LockFlag, Zenon
    <3> HIDE DEF k
    <3> QED
      BY <1>0, <2>1, <3>1, <3>2, <3>4, ReaderStep, Zenon
  <2>3. CASE conn[c].held # Shared
    <3>1. conn' = [conn EXCEPT ![c] = conn[c]] /\ locks' = locks
      BY <1>0, <1>5, <2>3 DEF EndSelect
    <3> QED
      BY <1>0, <2>1, <3>1, ReaderStep, Zenon DEF Holds
  <2> QED
    BY <2>2, <2>3
<1>6. CASE Begin(c)
  <2> DEFINE k == Revalidated(conn[c])
  <2>1. /\ k \in WalConn /\ k.held = conn[c].held /\ k.overlay = conn[c].overlay
        /\ (Holds(c) => k = conn[c])
    BY <1>0, RevalidatedIs DEF Holds
  <2> HIDE DEF k
  <2>2. /\ pc[c] = "idle" /\ conn' = [conn EXCEPT ![c] = k] /\ pc' = [pc EXCEPT ![c] = pc[c]]
        /\ inTx' = [inTx EXCEPT ![c] = TRUE]
        /\ UNCHANGED <<main, index, locks, job, history>>
    BY <1>0, <1>6 DEF Begin, Set, At, k
  <2> QED
    BY <1>0, <2>1, <2>2, ReaderStep, Zenon DEF Holds
<1>7. CASE ReadInTransaction(c)
  <2> DEFINE k == [Snapshot(up) EXCEPT !.mark = MxFrame(index)]
  <2>1. /\ Snapshot(up) \in WalConn /\ Snapshot(up).held = up.held
        /\ Snapshot(up).overlay = up.overlay /\ Snapshot(up).pageCount = up.pageCount
        /\ Snapshot(up).dbSize = SizeOf(Last) /\ Snapshot(up).view = Len(history)
    BY <1>1, SnapshotIs
  <2>2. MxFrame(index) \in Nat
    BY <1>0 DEF MxFrame, Index
  <2>3. /\ k \in WalConn /\ k.held = up.held /\ k.overlay = up.overlay /\ k.pageCount = up.pageCount
        /\ k.dbSize = SizeOf(Last) /\ k.view = Len(history)
    BY <2>1, <2>2 DEF WalConn
  <2> HIDE DEF k
  <2>4. /\ pc[c] = "idle" /\ conn' = [conn EXCEPT ![c] = k] /\ pc' = [pc EXCEPT ![c] = pc[c]]
        /\ locks' = Acquire(locks, conn[c].held, Shared)
        /\ index' = RegisterReader(index, MxFrame(index))
        /\ UNCHANGED <<main, inTx, job, history>>
    BY <1>0, <1>7 DEF ReadInTransaction, Lock, Set, At, up, k
  <2>5. index' \in Index /\ index'.log = index.log /\ index'.backfill = index.backfill
    <3>1. Append(index.readers, MxFrame(index)) \in Seq(Nat)
      BY <1>0, <2>2 DEF Index
    <3> QED
      BY <1>0, <2>4, <3>1, Zenon DEF RegisterReader, Index
  <2>6. Holds(c) => conn[c].view = Len(history) /\ conn[c].dbSize = SizeOf(Last)
    BY <2>4 DEF WalInv, WriterOK, Borrowed, Checkpointing, Copying
  <2> QED
    BY <1>0, <1>1, <1>2, <1>3, <2>3, <2>4, <2>5, <2>6, ReaderStep, Zenon
<1> QED
  BY <1>4, <1>5, <1>6, <1>7 DEF Read

-----------------------------------------------------------------------------
(***************************************************************************)
(* The initial state                                                       *)
(***************************************************************************)

\* The invariant holds at first.
LEMMA InitInv ==
  ASSUME Bounds, Init
  PROVE  WalInv
<1> DEFINE img == [Clean EXCEPT ![1] = 1]
           e   == [page |-> 1, size |-> 1, data |-> 1]
<1>0. /\ 1 \in Page /\ 1 \in 0 .. MaxPage /\ 0 \in Nat /\ 1 \in Nat
      /\ None \notin Nat /\ Clean \in Pic /\ \A p \in Page : Clean[p] = None
  BY DEF Bounds, Page, Clean, Pic
<1>1. /\ main \in Pic /\ \A p \in Page : main[p] = IF p = 1 THEN 0 ELSE None
  BY <1>0 DEF Init, Pic
<1>2. /\ img \in Pic /\ \A p \in Page : img[p] = IF p = 1 THEN 1 ELSE None
  BY <1>0 DEF Pic
<1>3. /\ e \in Entry /\ index.log = <<e>> /\ index.backfill = 0 /\ index.readers = <<>>
      /\ e.page = 1 /\ e.size = 1 /\ e.data = 1
  BY <1>0 DEF Init, Entry
<1> HIDE DEF img, e
<1>4. /\ index.log \in Seq(Entry) /\ Len(index.log) = 1 /\ index.log[1] = e
      /\ index.readers \in Seq(Nat)
  BY <1>3
<1>5. index \in Index
  BY <1>0, <1>3, <1>4 DEF Init, Index
<1>6. history = <<img>> /\ Len(history) = 1 /\ Last = img /\ history \in Seq(Pic)
  BY <1>2 DEF Init, Last, img
<1>7. Whole(img, 1)
  <2>1. \A p \in Page : p <= 1 <=> p = 1
    BY DEF Page, Bounds
  <2> QED
    BY <1>0, <1>2, <2>1 DEF Whole
<1>8. SizeOf(img) = 1
  BY <1>0, <1>2, <1>7, SizeIs
<1>9. \A h \in 1 .. Len(history) : history[h] = img
  BY <1>6
<1>10. Images
  BY <1>0, <1>7, <1>9 DEF Images
<1>11. LogOK
  <2>1. \A i \in 1 .. 1 : i = 1
    OBVIOUS
  <2>2. Shows(index.log, main, 1, img)
    BY <1>0, <1>1, <1>2, <1>3, <1>4, <2>1 DEF Shows
  <2> QED
    BY <1>0, <1>1, <1>2, <1>3, <1>4, <1>6, <1>8, <2>1, <2>2 DEF LogOK, LogIs
<1>12. ASSUME NEW c \in Conn
       PROVE  /\ conn[c] \in WalConn /\ ~Holds(c) /\ conn[c].overlay = Clean /\ pc[c] = "idle"
  BY <1>0 DEF Init, WalConn, Holds, Unlocked, Reserved
<1>13. Types
  <2>1. conn \in [Conn -> WalConn]
    BY <1>12 DEF Init
  <2>2. locks \in LockStates
    BY DEF Init, NoLocks, LockStates
  <2>3. /\ inTx \in [Conn -> BOOLEAN] /\ pc \in [Conn -> Labels]
        /\ job \in [Conn -> Job \cup {NoJob}]
    BY DEF Init, Labels
  <2> QED
    BY <1>1, <1>5, <1>6, <2>1, <2>2, <2>3 DEF Types
<1>14. "idle" \notin Checkpointing /\ "idle" \notin Copying
  BY DEF Checkpointing, Copying
<1> QED
  BY <1>10, <1>11, <1>12, <1>13, <1>14 DEF WalInv, LockOK, WriterOK

=============================================================================
