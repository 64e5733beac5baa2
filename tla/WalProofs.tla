----------------------------- MODULE WalProofs -----------------------------
(***************************************************************************)
(* Proofs about Wal: until a transaction writes on a stale snapshot or two *)
(* checkpoints copy at the same time, the log and the main file together   *)
(* hold the newest commit, and a registered reader keeps its image.        *)
(***************************************************************************)
EXTENDS WalSteps

(***************************************************************************)
(* The checkpoint                                                          *)
(***************************************************************************)

\* One checkpoint copies at a time.
Apart == \A c, d \in Conn : pc[c] \in Copying /\ pc[d] \in Copying => c = d

\* The checkpoints of the other connections.
Peers(c) ==
  \A d \in Conn \ {c} : /\ pc[d] \in Checkpointing => JobOK(d)
                        /\ pc[d] \in Copying => CopyOK(d)

\* They notice no step of c that leaves the log and the main file alone,
LEMMA PeersUnaware ==
  ASSUME WalInv, NEW c \in Conn, UNCHANGED <<main, index, history>>,
         \A d \in Conn \ {c} : conn'[d] = conn[d] /\ pc'[d] = pc[d] /\ job'[d] = job[d]
  PROVE  Peers(c)'
<1>1. Last' = Last
  BY DEF Last
<1>2. ASSUME NEW d \in Conn \ {c}
      PROVE  (JobOK(d)' <=> JobOK(d)) /\ (CopyOK(d)' <=> CopyOK(d))
  BY <1>1, <1>2 DEF JobOK, Holds, CopyOK
<1> QED
  BY <1>2, Zenon DEF WalInv, Peers

\* and none of a checkpoint that copies: the log is not backfilled to its end.
LEMMA PeersOfCopy ==
  ASSUME WalInv, Apart, NEW c \in Conn, pc[c] \in Copying,
         index'.log = index.log, UNCHANGED <<conn, history>>,
         \A d \in Conn \ {c} : pc'[d] = pc[d] /\ job'[d] = job[d]
  PROVE  Peers(c)'
<1>1. index.backfill < Len(index.log)
  <2>1. job[c] \in Job /\ CopyOK(c) /\ index \in Index
    BY DEF WalInv, Types, Checkpointing, JobOK
  <2>2. job[c].safe \in Nat /\ job[c].mx \in Nat /\ index.backfill \in Nat /\ Len(index.log) \in Nat
    BY <2>1 DEF Job, Index
  <2>3. index.backfill < job[c].safe /\ job[c].safe <= job[c].mx /\ job[c].mx <= Len(index.log)
    BY <2>1, Zenon DEF CopyOK, CopyIs
  <2> QED
    BY <2>2, <2>3
<1>2. index.backfill # Len(index.log) /\ Last' = Last
  BY <1>1 DEF WalInv, Types, Index, Last
<1>3. ASSUME NEW d \in Conn \ {c}, pc'[d] \in Checkpointing
      PROVE  JobOK(d)'
  <2>1. JobOK(d) /\ pc'[d] = pc[d] /\ job'[d] = job[d] /\ (Holds(d)' <=> Holds(d))
    BY <1>3 DEF WalInv, Holds
  <2>2. pc[d] # "restart"
    BY <1>2, <2>1 DEF JobOK
  <2> QED
    BY <1>2, <2>1, <2>2 DEF JobOK
<1>4. \A d \in Conn \ {c} : pc'[d] \notin Copying
  BY DEF Apart
<1> QED
  BY <1>3, <1>4, Zenon DEF Peers

\* A step of a connection in its checkpoint.
LEMMA CheckpointerStep ==
  ASSUME WalInv, NEW c \in Conn, Peers(c)',
         NEW k \in WalConn, NEW x \in Labels, NEW j \in Job \cup {NoJob},
         conn' = [conn EXCEPT ![c] = k], pc' = [pc EXCEPT ![c] = x], job' = [job EXCEPT ![c] = j],
         UNCHANGED <<inTx, history>>, locks' \in LockStates, main' \in Pic, index' \in Index,
         LogOK', LockOK', WriterOK(c)',
         x \in Checkpointing => JobOK(c)', x \in Copying => CopyOK(c)'
  PROVE  WalInv'
<1>1. /\ conn'[c] = k /\ pc'[c] = x /\ Last' = Last
      /\ \A d \in Conn \ {c} : conn'[d] = conn[d] /\ pc'[d] = pc[d] /\ job'[d] = job[d]
  BY DEF WalInv, Types, Last
<1>2. Types' /\ Images'
  BY DEF WalInv, Types, Images
<1>3. ASSUME NEW d \in Conn
      PROVE  WriterOK(d)'
  <2>1. CASE d # c
    <3>1. /\ conn'[d] = conn[d] /\ pc'[d] = pc[d] /\ WriterOK(d)
          /\ (Borrowed(d)' <=> Borrowed(d)) /\ (Holds(d)' <=> Holds(d))
      BY <1>1, <2>1 DEF WalInv, Borrowed, Holds
    <3> QED
      BY <1>1, <3>1 DEF WriterOK
  <2> QED
    BY <2>1
<1>4. ASSUME NEW d \in Conn
      PROVE  (pc'[d] \in Checkpointing => JobOK(d)') /\ (pc'[d] \in Copying => CopyOK(d)')
  BY <1>1, Zenon DEF Peers
<1> QED
  BY <1>2, <1>3, <1>4, Zenon DEF WalInv

\* A step inside a checkpoint.
LEMMA WorkStep ==
  ASSUME WalInv, NEW c \in Conn, pc[c] \in Checkpointing, pc[c] # "end", Peers(c)',
         NEW x \in Checkpointing, NEW j \in Job,
         pc' = [pc EXCEPT ![c] = x], job' = [job EXCEPT ![c] = j],
         j.mode = job[c].mode, j.entry = job[c].entry, j.took = job[c].took, j.mx = job[c].mx,
         j.size = job[c].size,
         UNCHANGED <<locks, conn, inTx, history>>, main' \in Pic, index' \in Index,
         x # "end" => Len(index'.log) = Len(index.log),
         x = "restart" => j.mode = "truncate" /\ index'.backfill = Len(index'.log),
         LogOK', x \in Copying => CopyOK(c)'
  PROVE  WalInv'
<1>1. /\ conn[c] \in WalConn /\ locks \in LockStates /\ conn = [conn EXCEPT ![c] = conn[c]]
      /\ pc'[c] = x /\ job'[c] = j /\ Last' = Last /\ JobOK(c)
  BY DEF WalInv, Types, Last, JobOK
<1>2. LockOK'
  BY DEF WalInv, LockOK, Holds
<1>3. x \in Labels /\ x \notin {"writing", "append"}
  BY DEF Checkpointing, Copying, Labels
<1>4. WriterOK(c)'
  <2>1. Borrowed(c)' <=> Borrowed(c)
    BY <1>1 DEF Borrowed
  <2> QED
    BY <1>1, <1>3, <2>1 DEF WalInv, WriterOK, Holds
<1>5. JobOK(c)'
  BY <1>1 DEF JobOK, Holds
<1> QED
  BY <1>1, <1>2, <1>3, <1>4, <1>5, CheckpointerStep, Zenon

\* What a checkpoint is in the middle of.
LEMMA AtWork ==
  ASSUME WalInv, NEW c \in Conn, pc[c] \in Checkpointing
  PROVE  /\ JobOK(c) /\ job[c] \in Job /\ job = [job EXCEPT ![c] = job[c]]
         /\ index \in Index /\ index.log \in Seq(Entry) /\ index.backfill \in Nat
         /\ main \in Pic
         /\ LogIs(index.log, index.backfill, main, Last)
         /\ pc[c] \in Copying => CopyIs(pc[c], job[c], index.log, index.backfill, main, Last)
<1>1. JobOK(c) /\ (pc[c] \in Copying => CopyOK(c)) /\ LogOK /\ Types
  BY DEF WalInv
<1>2. job[c] \in Job /\ job = [job EXCEPT ![c] = job[c]]
  BY <1>1 DEF JobOK, Types
<1>3. index \in Index /\ index.log \in Seq(Entry) /\ index.backfill \in Nat /\ main \in Pic
  BY <1>1 DEF Types, Index
<1> QED
  BY <1>1, <1>2, <1>3, Zenon DEF LogOK, CopyOK

\* backfill_pages, the writes to the main file, set_backfill.
LEMMA CopySteps ==
  ASSUME Bounds, WalInv, Apart, NEW c \in Conn,
         CollectPages(c) \/ CopyPages(c) \/ PublishBackfill(c)
  PROVE  WalInv'
<1> DEFINE j == job[c]
<1>1. /\ pc[c] \in Copying /\ pc[c] \in Checkpointing /\ pc[c] # "end"
      /\ {"copy", "publish"} \subseteq Copying /\ "finish" \notin Copying
      /\ {"copy", "publish", "finish"} \subseteq Checkpointing
  BY DEF CollectPages, CopyPages, PublishBackfill, At, Copying, Checkpointing
<1>2. /\ j \in Job /\ job = [job EXCEPT ![c] = j]
      /\ index \in Index /\ index.log \in Seq(Entry) /\ index.backfill \in Nat /\ main \in Pic
      /\ LogIs(index.log, index.backfill, main, Last)
      /\ CopyIs(pc[c], j, index.log, index.backfill, main, Last)
  BY <1>1, AtWork, Zenon
<1>3. /\ j.safe \in Nat /\ index.backfill < j.safe
  BY <1>2 DEF Job, CopyIs
<1>7. Peers(c)'
  <2>1. UNCHANGED <<conn, history>> /\ index'.log = index.log
    BY <1>2, Zenon DEF CollectPages, CopyPages, PublishBackfill, SetBackfill, Index
  <2>2. \A d \in Conn \ {c} : pc'[d] = pc[d] /\ job'[d] = job[d]
    BY DEF CollectPages, CopyPages, PublishBackfill, Goto, WalInv, Types
  <2> QED
    BY <1>1, <2>1, <2>2, PeersOfCopy
<1>4. CASE CollectPages(c)
  <2> DEFINE k == [j EXCEPT !.pages = BackfillPages(index, j.safe)]
  <2>1. /\ pc[c] = "collect" /\ pc' = [pc EXCEPT ![c] = "copy"] /\ job' = [job EXCEPT ![c] = k]
        /\ UNCHANGED <<main, index, locks, conn, inTx, history>>
    BY <1>4, Zenon DEF CollectPages, At, Goto
  <2>2. k \in Job /\ CopyIs("copy", k, index.log, index.backfill, main, Last)
    BY <1>2, <2>1, Collected, Zenon
  <2>3. /\ k.mode = j.mode /\ k.entry = j.entry /\ k.took = j.took /\ k.mx = j.mx /\ k.size = j.size
    BY <1>2 DEF Job
  <2> HIDE DEF k
  <2>4. pc'[c] = "copy" /\ job'[c] = k /\ Last' = Last
    BY <2>1 DEF WalInv, Types, Last
  <2>5. CopyOK(c)' /\ LogOK'
    BY <1>2, <2>1, <2>2, <2>4, Zenon DEF CopyOK, LogOK
  <2> QED
    BY <1>1, <1>2, <1>7, <2>1, <2>2, <2>3, <2>5, WorkStep, Zenon
<1>5. CASE CopyPages(c)
  <2>1. /\ pc[c] = "copy" /\ pc' = [pc EXCEPT ![c] = "publish"] /\ main' = Copy(j, main)
        /\ UNCHANGED <<index, locks, conn, inTx, job, history>>
    BY <1>5, Zenon DEF CopyPages, At, Goto, Copy
  <2>2. /\ main' \in Pic /\ LogIs(index.log, index.backfill, main', Last)
        /\ CopyIs("publish", j, index.log, index.backfill, main', Last)
    BY <1>2, <2>1, Copied
  <2>3. pc'[c] = "publish" /\ Last' = Last
    BY <2>1 DEF WalInv, Types, Last
  <2>4. CopyOK(c)' /\ LogOK'
    BY <2>1, <2>2, <2>3, Zenon DEF CopyOK, LogOK
  <2> QED
    BY <1>1, <1>2, <1>7, <2>1, <2>2, <2>4, WorkStep, Zenon
<1>6. CASE PublishBackfill(c)
  <2>1. /\ pc[c] = "publish" /\ pc' = [pc EXCEPT ![c] = "finish"]
        /\ index' = SetBackfill(index, j.safe)
        /\ UNCHANGED <<main, locks, conn, inTx, job, history>>
    BY <1>6, Zenon DEF PublishBackfill, At, Goto
  <2>2. index' \in Index /\ index'.log = index.log /\ index'.backfill = j.safe
    BY <1>2, <1>3, <2>1, Zenon DEF SetBackfill, Index
  <2>3. LogIs(index.log, j.safe, main, Last)
    BY <1>2, <2>1, Published
  <2>4. LogOK'
    BY <2>1, <2>2, <2>3, Zenon DEF LogOK, Last
  <2> QED
    BY <1>1, <1>2, <1>7, <2>1, <2>2, <2>4, WorkStep, Zenon
<1> QED
  BY <1>4, <1>5, <1>6

\* A restart of the log changes nothing of the connections but the views of
\* registered readers.
LEMMA DroppedViews ==
  ASSUME WalInv, NEW c \in Conn, RestartLog(c)
  PROVE  /\ conn' \in [Conn -> WalConn] /\ conn'[c] = conn[c]
         /\ \A d \in Conn : /\ conn'[d].held = conn[d].held /\ conn'[d].mark = conn[d].mark
                             /\ conn'[d].overlay = conn[d].overlay
         /\ \A d \in Conn \ {c} : conn[d].mark # None => conn'[d].view = 0
<1> DEFINE cut(d) == [conn[d] EXCEPT !.view = 0]
<1>1. conn \in [Conn -> WalConn] /\ 0 \in Nat
  BY DEF WalInv, Types
<1>2. ASSUME NEW d \in Conn
      PROVE  /\ cut(d) \in WalConn /\ cut(d).held = conn[d].held /\ cut(d).mark = conn[d].mark
             /\ cut(d).overlay = conn[d].overlay /\ cut(d).view = 0
  <2>1. conn[d] \in WalConn
    BY <1>1
  <2> QED
    BY <1>1, <2>1, Zenon DEF WalConn
<1>3. conn' = [d \in Conn |-> IF d # c /\ conn[d].mark # None THEN cut(d) ELSE conn[d]]
  BY DEF RestartLog
<1> HIDE DEF cut
<1> QED
  BY <1>1, <1>2, <1>3

\* TRUNCATE restarts a log that is in the main file as a whole: it holds
\* RESERVED, so that nothing was appended since it started.
LEMMA RestartSteps ==
  ASSUME Bounds, WalInv, NEW c \in Conn, AskToRestart(c) \/ RestartLog(c)
  PROVE  WalInv'
<1> DEFINE j == job[c]
<1>1. /\ pc[c] \in Checkpointing /\ pc[c] # "end"
      /\ "restart" \notin Copying /\ "end" \notin Copying
      /\ {"restart", "end"} \subseteq Checkpointing
  BY DEF AskToRestart, RestartLog, At, Copying, Checkpointing
<1>2. /\ JobOK(c) /\ j \in Job /\ job = [job EXCEPT ![c] = j]
      /\ index \in Index /\ index.log \in Seq(Entry) /\ index.backfill \in Nat /\ main \in Pic
      /\ LogIs(index.log, index.backfill, main, Last)
  BY <1>1, AtWork, Zenon
<1>3. CASE AskToRestart(c)
  <2> DEFINE x == IF j.mode = "truncate" /\ index.backfill >= j.mx /\ Marks(index) = {}
                  THEN "restart" ELSE "end"
  <2>1. /\ pc[c] = "finish" /\ pc' = [pc EXCEPT ![c] = x]
        /\ UNCHANGED <<main, index, locks, conn, inTx, job, history>>
    BY <1>3, Zenon DEF AskToRestart, At, Goto
  <2>2. LogOK'
    BY <2>1 DEF WalInv, LogOK, Last
  <2>3. ASSUME x = "restart"
        PROVE  j.mode = "truncate" /\ index.backfill = Len(index.log)
    <3>1. j.mode = "truncate" /\ index.backfill >= j.mx
      BY <2>3
    <3>2. j.mx = Len(index.log)
      BY <1>2, <2>1, <3>1 DEF JobOK
    <3>3. index.backfill <= Len(index.log)
      BY <1>2, Zenon DEF LogIs
    <3> QED
      BY <1>2, <3>1, <3>2, <3>3
  <2>4. x \in {"restart", "end"}
    OBVIOUS
  <2> HIDE DEF x
  <2>5. Peers(c)'
    <3>1. \A d \in Conn \ {c} : conn'[d] = conn[d] /\ pc'[d] = pc[d] /\ job'[d] = job[d]
      BY <2>1 DEF WalInv, Types
    <3> QED
      BY <2>1, <3>1, PeersUnaware
  <2> QED
    BY <1>1, <1>2, <2>1, <2>2, <2>3, <2>4, <2>5, WorkStep, Zenon
<1>4. CASE RestartLog(c)
  <2>1. /\ pc[c] = "restart" /\ pc' = [pc EXCEPT ![c] = "end"] /\ index' = RestartHdr(index)
        /\ UNCHANGED <<main, locks, inTx, job, history>>
    BY <1>4, Zenon DEF RestartLog, At, Goto
  <2>2. index' \in Index /\ index'.log = <<>> /\ index'.backfill = 0
    BY <1>2, <2>1, RestartIs
  <2>3. main = Last
    BY <1>2, <2>1, Settled DEF WalInv, JobOK
  <2>4. LogOK' /\ Last' = Last
    BY <2>1, <2>2, <2>3, EmptyLog DEF LogOK, Last
  <2>5. /\ conn' \in [Conn -> WalConn] /\ conn'[c] = conn[c]
        /\ \A d \in Conn : /\ conn'[d].held = conn[d].held /\ conn'[d].mark = conn[d].mark
                            /\ conn'[d].overlay = conn[d].overlay
    BY <1>4, DroppedViews
  <2>6. pc'[c] = "end" /\ \A d \in Conn \ {c} : pc'[d] = pc[d]
    BY <2>1 DEF WalInv, Types
  <2>7. Types' /\ Images'
    BY <2>1, <2>2, <2>5, Zenon DEF WalInv, Types, Images, Labels
  <2>8. \A d \in Conn : Holds(d)' <=> Holds(d)
    BY <2>5 DEF Holds
  <2>9. LockOK'
    BY <2>1, <2>8 DEF WalInv, LockOK
  <2>10. Holds(c)
    BY <1>2, <2>1 DEF JobOK
  <2>11. ASSUME NEW d \in Conn
         PROVE  WriterOK(d)'
    <3>1. CASE d = c
      <4>1. Borrowed(c)' <=> Borrowed(c)
        BY <1>1, <2>1, <2>6 DEF Borrowed
      <4> QED
        BY <2>1, <2>4, <2>5, <2>6, <2>8, <3>1, <4>1 DEF WalInv, WriterOK
    <3>2. CASE d # c
      <4>1. ~Holds(d) /\ pc'[d] = pc[d] /\ conn'[d].overlay = conn[d].overlay /\ WriterOK(d)
        BY <2>5, <2>6, <2>10, <3>2 DEF WalInv, LockOK
      <4> QED
        BY <2>8, <4>1 DEF WriterOK
    <3> QED
      BY <3>1, <3>2
  <2>12. JobOK(c)'
    BY <1>2, <2>1, <2>4, <2>6, <2>8 DEF JobOK
  <2>13. ASSUME NEW d \in Conn \ {c}, pc'[d] \in Checkpointing
         PROVE  JobOK(d)'
    <3>1. JobOK(d) /\ pc'[d] = pc[d] /\ ~Holds(d)
      BY <2>6, <2>10, <2>13 DEF WalInv, LockOK
    <3>2. pc[d] # "restart"
      BY <3>1 DEF JobOK
    <3> QED
      BY <2>1, <2>8, <3>1, <3>2 DEF JobOK
  <2>14. ASSUME NEW d \in Conn, pc'[d] \in Copying
         PROVE  FALSE
    <3>1. d # c /\ pc[d] \in Copying /\ pc[d] \in Checkpointing
      BY <1>1, <2>6, <2>14 DEF Checkpointing
    <3>2. job[d] \in Job /\ CopyIs(pc[d], job[d], index.log, index.backfill, main, Last)
      BY <3>1, AtWork, Zenon
    <3>3. /\ index.backfill < job[d].safe /\ job[d].safe <= job[d].mx /\ job[d].mx <= Len(index.log)
          /\ job[d].safe \in Nat /\ job[d].mx \in Nat
      BY <3>2 DEF CopyIs, Job
    <3>4. index.backfill = Len(index.log)
      BY <1>2, <2>1 DEF JobOK
    <3> QED
      BY <1>2, <3>3, <3>4
  <2>15. \A d \in Conn : pc'[d] \in Checkpointing => JobOK(d)'
    BY <2>12, <2>13, Zenon
  <2> QED
    BY <2>4, <2>7, <2>9, <2>11, <2>14, <2>15, Zenon DEF WalInv
<1> QED
  BY <1>3, <1>4


\* What a checkpoint finds in the index when it starts.
LEMMA FirstLook ==
  ASSUME Bounds, WalInv, NEW j \in Job, j.mx = Len(index.log), j.size = FullDbSize(index),
         index.backfill < j.safe, j.safe <= j.mx
  PROVE  CopyIs("collect", j, index.log, index.backfill, main, Last)
<1>1. /\ index.log \in Seq(Entry) /\ index.backfill \in Nat /\ Len(index.log) \in Nat
      /\ j.safe \in Nat
  BY DEF WalInv, Types, Index, Job
<1>2. Len(index.log) # 0
  BY <1>1
<1>3. j.size = SizeOf(Last)
  BY <1>2, SizesSeen DEF WalInv
<1>4. SizeOf(Last) \in Page /\ \A p \in Page : Last[p] # None <=> p <= SizeOf(Last)
  BY LastWhole DEF WalInv
<1>5. ASSUME NEW i \in 1 .. j.mx
      PROVE  index.log[i].page <= j.size
  <2>1. index.log[i] \in Entry
    BY <1>1
  <2>2. index.log[i].page \in Page
    BY <2>1, Zenon DEF Entry
  <2>3. Last[index.log[i].page] # None
    BY Zenon DEF WalInv, LogOK, LogIs
  <2> QED
    BY <1>3, <1>4, <2>2, <2>3
<1>6. ASSUME NEW p \in Page, j.size < p, Last[p] # None
      PROVE  FALSE
  BY <1>3, <1>4, <1>6 DEF Page, Bounds
<1>7. j.mx <= Len(index.log)
  BY <1>1
<1> QED
  BY <1>5, <1>6, <1>7, Zenon DEF CopyIs

\* checkpoint_mode takes its lock and its first look.
LEMMA StartCheckpointStep ==
  ASSUME Bounds, WalInv, NEW c \in Conn, NEW mode \in Modes, StartCheckpoint(c, mode)
  PROVE  WalInv'
<1> DEFINE took == mode # "passive" /\ conn[c].held < Reserved /\ CanLock(c, Reserved)
           busy == mode # "passive" /\ conn[c].held < Reserved /\ ~CanLock(c, Reserved)
           mx   == MxFrame(index)
           safe == IF Marks(index) = {} \/ Least(Marks(index)) > mx THEN mx ELSE Least(Marks(index))
           k    == IF took THEN [Revalidated(conn[c]) EXCEPT !.held = Reserved]
                           ELSE Revalidated(conn[c])
           j    == [mode |-> IF busy THEN "passive" ELSE mode, entry |-> conn[c].held, took |-> took,
                    mx |-> mx, safe |-> safe, size |-> FullDbSize(index), pages |-> {}]
           x    == IF index.backfill < safe THEN "collect" ELSE "finish"
<1>1. /\ pc[c] = "idle"
      /\ locks' = IF took THEN Acquire(locks, conn[c].held, Reserved) ELSE locks
      /\ conn' = [conn EXCEPT ![c] = k] /\ job' = [job EXCEPT ![c] = j]
      /\ pc' = [pc EXCEPT ![c] = x]
      /\ UNCHANGED <<main, index, inTx, history>>
  BY Zenon DEF StartCheckpoint, At, Set, Goto
<1>2. /\ conn[c] \in WalConn /\ index \in Index /\ locks \in LockStates /\ main \in Pic
      /\ conn[c].held \in Unlocked .. Reserved
      /\ index.log \in Seq(Entry) /\ index.readers \in Seq(Nat)
  BY AtRest DEF WalInv, Types, WalConn, Index
<1>3. mx = Len(index.log) /\ mx \in Nat /\ safe \in Nat /\ safe <= mx
  <2>1. mx = Len(index.log) /\ mx \in Nat
    BY <1>2 DEF MxFrame
  <2>2. Marks(index) \in SUBSET Nat
    BY <1>2 DEF Marks
  <2>3. Marks(index) # {} => Least(Marks(index)) \in Nat
    BY <2>2, LeastIn
  <2> QED
    BY <2>1, <2>3
<1>4. /\ FullDbSize(index) \in {0, SizeOf(Last)} /\ FullDbSize(index) \in 0 .. MaxPage
  <2>1. SizeOf(Last) \in Page
    BY LastWhole DEF WalInv
  <2>2. FullDbSize(index) \in {0, SizeOf(Last)}
    BY SizesSeen DEF WalInv
  <2> QED
    BY <2>1, <2>2 DEF Bounds, Page
<1>5. took \in BOOLEAN /\ ((~took /\ ~Holds(c)) => mode = "passive" \/ busy)
  BY <1>2 DEF Holds, Unlocked, Reserved
<1>6. took => ~Holds(c) /\ ~locks.reserved /\ conn[c].held < Reserved
  BY <1>2 DEF Holds, CanLock, CanAcquire, Unlocked, Shared, Reserved, Pending, Exclusive
<1>7. /\ k \in WalConn /\ k.overlay = conn[c].overlay
      /\ k.held = IF took THEN Reserved ELSE conn[c].held
      /\ ~took /\ Holds(c) => k = conn[c]
  <2> HIDE DEF took
  <2>1. /\ Revalidated(conn[c]) \in WalConn /\ Revalidated(conn[c]).held = conn[c].held
        /\ Revalidated(conn[c]).overlay = conn[c].overlay
        /\ Holds(c) => Revalidated(conn[c]) = conn[c]
    BY <1>2, RevalidatedIs DEF Holds
  <2>2. ASSUME NEW r \in WalConn
        PROVE  /\ [r EXCEPT !.held = Reserved] \in WalConn /\ [r EXCEPT !.held = Reserved].held = Reserved
               /\ [r EXCEPT !.held = Reserved].overlay = r.overlay
    BY DEF WalConn, Unlocked, Reserved
  <2> QED
    BY <2>1, <2>2
<1>8. /\ j \in Job /\ (j.took <=> took) /\ j.mx = mx /\ j.safe = safe /\ j.entry = conn[c].held
      /\ j.size = FullDbSize(index) /\ j.mode = IF busy THEN "passive" ELSE mode
  <2> HIDE DEF took, busy, mx, safe
  <2> QED
    BY <1>2, <1>3, <1>4, <1>5, Zenon DEF Job
<1>9. x \in Checkpointing /\ x \in Labels /\ x # "restart" /\ x \notin {"writing", "append"}
      /\ (x \in Copying => x = "collect" /\ index.backfill < safe)
  BY DEF Checkpointing, Copying, Labels
<1> HIDE DEF k, j, x, took, busy, mx, safe
<1>10. /\ conn'[c] = k /\ pc'[c] = x /\ job'[c] = j /\ Last' = Last
  BY <1>1 DEF WalInv, Types, Last
<1>11. locks' \in LockStates /\ (locks'.reserved <=> locks.reserved \/ took)
  <2>1. Reserved \in Unlocked .. Reserved
    BY DEF Unlocked, Reserved
  <2> QED
    BY <1>1, <1>2, <1>6, <2>1, LockFlag, Zenon
<1>12. LockOK'
  <2>1. k.held = Reserved => locks'.reserved /\ (Holds(c) \/ ~locks.reserved)
    BY <1>6, <1>7, <1>11 DEF WalInv, LockOK, Holds
  <2> QED
    BY <1>1, <1>7, <1>11, <2>1, LockStep, Zenon DEF WalInv
<1>13. pc[c] \notin Checkpointing /\ ~Borrowed(c) /\ (Borrowed(c)' <=> took)
  BY <1>1, <1>8, <1>9, <1>10 DEF Borrowed, Checkpointing, Copying
<1>14. WriterOK(c)'
  <2>1. CASE Holds(c)
    BY <1>1, <1>6, <1>7, <1>10, <1>13, <2>1 DEF WalInv, WriterOK, Holds
  <2>2. CASE ~Holds(c)
    BY <1>1, <1>7, <1>9, <1>10, <1>13, <2>2 DEF WalInv, WriterOK, Holds
  <2> QED
    BY <2>1, <2>2
<1>15. JobOK(c)'
  <2>1. Holds(c)' <=> took \/ Holds(c)
    BY <1>7, <1>10 DEF Holds
  <2> QED
    BY <1>1, <1>3, <1>4, <1>5, <1>6, <1>8, <1>9, <1>10, <2>1 DEF JobOK
<1>16. LogOK'
  BY <1>1, <1>10 DEF WalInv, LogOK
<1>17. x \in Copying => CopyOK(c)'
  <2>1. x \in Copying => CopyIs("collect", j, index.log, index.backfill, main, Last)
    BY <1>3, <1>8, <1>9, FirstLook
  <2> QED
    BY <1>1, <1>9, <1>10, <2>1, Zenon DEF CopyOK
<1>18. Peers(c)'
  <2>1. \A d \in Conn \ {c} : conn'[d] = conn[d] /\ pc'[d] = pc[d] /\ job'[d] = job[d]
    BY <1>1 DEF WalInv, Types
  <2> QED
    BY <1>1, <2>1, PeersUnaware
<1> QED
  BY <1>1, <1>2, <1>7, <1>8, <1>9, <1>11, <1>12, <1>14, <1>15, <1>16, <1>17, <1>18,
     CheckpointerStep, Zenon

\* checkpoint_mode gives its lock back.
LEMMA EndCheckpointStep ==
  ASSUME Bounds, WalInv, NEW c \in Conn, EndCheckpoint(c)
  PROVE  WalInv'
<1> DEFINE j == job[c]
           k == [conn[c] EXCEPT
                   !.held = IF j.took THEN j.entry ELSE @,
                   !.snapshot = IF conn[c].mark = None THEN MxFrame(index) ELSE @,
                   !.dbSize = IF conn[c].mark = None /\ j.size # 0 THEN j.size ELSE @,
                   !.view = IF conn[c].mark = None THEN Len(history) ELSE @]
<1>1. /\ pc[c] = "end" /\ pc[c] \in Checkpointing /\ pc' = [pc EXCEPT ![c] = "idle"]
      /\ conn' = [conn EXCEPT ![c] = k] /\ job' = [job EXCEPT ![c] = NoJob]
      /\ locks' = IF j.took THEN Release(locks, conn[c].held, j.entry) ELSE locks
      /\ UNCHANGED <<main, index, inTx, history>>
  BY Zenon DEF EndCheckpoint, At, Set, Goto, Checkpointing
<1>2. /\ JobOK(c) /\ j \in Job
      /\ j.took => Holds(c) /\ j.entry < Reserved
      /\ Holds(c) => j.size \in {0, SizeOf(Last)}
      /\ index \in Index /\ main \in Pic /\ conn[c] \in WalConn /\ locks \in LockStates
      /\ j.entry \in Unlocked .. Reserved /\ j.took \in BOOLEAN /\ j.size \in 0 .. MaxPage
  BY <1>1, AtWork, AtRest DEF JobOK, Job
<1>3. MxFrame(index) \in Nat /\ Len(history) \in Nat /\ (j.size # 0 => j.size \in Page)
  <2>1. index.log \in Seq(Entry) /\ history \in Seq(Pic)
    BY <1>2 DEF WalInv, Types, Index
  <2>2. MxFrame(index) \in Nat /\ Len(history) \in Nat
    BY <2>1 DEF MxFrame
  <2>3. j.size \in 0 .. MaxPage /\ MaxPage \in Nat
    BY <1>2 DEF Bounds
  <2> HIDE DEF j
  <2> QED
    BY <2>2, <2>3 DEF Page
<1>4. /\ k \in WalConn /\ k.held = (IF j.took THEN j.entry ELSE conn[c].held)
      /\ k.overlay = conn[c].overlay /\ k.pageCount = conn[c].pageCount
      /\ k.dbSize \in {conn[c].dbSize} \cup ({j.size} \ {0})
      /\ k.view \in {conn[c].view, Len(history)}
  <2> HIDE DEF j
  <2>2. /\ conn[c].held \in Unlocked .. Reserved /\ conn[c].snapshot \in Nat
        /\ conn[c].dbSize \in Page /\ conn[c].view \in Nat
    BY <1>2 DEF WalConn
  <2> DEFINE h == IF j.took THEN j.entry ELSE conn[c].held
             s == IF conn[c].mark = None THEN MxFrame(index) ELSE conn[c].snapshot
             z == IF conn[c].mark = None /\ j.size # 0 THEN j.size ELSE conn[c].dbSize
             v == IF conn[c].mark = None THEN Len(history) ELSE conn[c].view
  <2>3. /\ h \in Unlocked .. Reserved /\ s \in Nat /\ z \in Page /\ v \in Nat
        /\ z \in {conn[c].dbSize} \cup ({j.size} \ {0}) /\ v \in {conn[c].view, Len(history)}
    BY <1>2, <1>3, <2>2
  <2>4. k = [conn[c] EXCEPT !.held = h, !.snapshot = s, !.dbSize = z, !.view = v]
    OBVIOUS
  <2>5. h = IF j.took THEN j.entry ELSE conn[c].held
    OBVIOUS
  <2> HIDE DEF h, s, z, v, k
  <2>6. /\ k \in WalConn /\ k.held = h /\ k.dbSize = z /\ k.view = v
        /\ k.overlay = conn[c].overlay /\ k.pageCount = conn[c].pageCount
    BY <1>2, <2>3, <2>4, Zenon DEF WalConn
  <2> QED
    BY <2>3, <2>5, <2>6
<1> HIDE DEF k
<1>5. /\ conn'[c] = k /\ pc'[c] = "idle" /\ Last' = Last
      /\ "idle" \in Labels \ Checkpointing /\ "idle" \notin Copying
  BY <1>1 DEF WalInv, Types, Last, Labels, Checkpointing, Copying
<1>6. /\ locks' \in LockStates
      /\ ~j.took => locks' = locks
      /\ locks.reserved => locks'.reserved \/ Holds(c)
  BY <1>1, <1>2, LockFlag, Zenon DEF Holds, WalConn
<1>7. k.held = Reserved => ~j.took /\ Holds(c)
  BY <1>2, <1>4 DEF Holds, Unlocked, Reserved
<1>8. LockOK'
  <2>1. k.held = Reserved => locks'.reserved /\ (Holds(c) \/ ~locks.reserved)
    BY <1>6, <1>7 DEF WalInv, LockOK
  <2> QED
    BY <1>1, <1>4, <1>6, <2>1, LockStep, Zenon DEF WalInv
<1>9. WriterOK(c)'
  <2>1. ~Borrowed(c)' /\ (Borrowed(c) <=> j.took)
    BY <1>1, <1>5 DEF Borrowed
  <2>2. CASE k.held = Reserved
    BY <1>1, <1>2, <1>4, <1>5, <1>7, <2>1, <2>2 DEF WalInv, WriterOK, Holds
  <2>3. CASE k.held # Reserved
    <3>1. conn[c].overlay = Clean
      BY <1>4, <2>1, <2>3 DEF WalInv, WriterOK, Holds
    <3> QED
      BY <1>4, <1>5, <2>3, <3>1 DEF WriterOK, Holds
  <2> QED
    BY <2>2, <2>3
<1>10. LogOK'
  BY <1>1, <1>5 DEF WalInv, LogOK
<1>11. Peers(c)'
  <2>1. \A d \in Conn \ {c} : conn'[d] = conn[d] /\ pc'[d] = pc[d] /\ job'[d] = job[d]
    BY <1>1 DEF WalInv, Types
  <2> QED
    BY <1>1, <2>1, PeersUnaware
<1> QED
  BY <1>1, <1>2, <1>4, <1>5, <1>6, <1>8, <1>9, <1>10, <1>11, CheckpointerStep, Zenon

-----------------------------------------------------------------------------
(***************************************************************************)
(* Registered readers                                                      *)
(***************************************************************************)

\* The connections with a registered mark, and those of them whose frames no
\* TRUNCATE has dropped.
Marked == {c \in Conn : conn[c].mark # None}

Pinned == {c \in Marked : conn[c].view # 0}

\* Each of the connections P has an entry of its own in the readers r.
Entered(P, cn, r) ==
  \E f \in [P -> 1 .. Len(r)] :
    /\ \A c, d \in P : f[c] = f[d] => c = d
    /\ \A c \in P : r[f[c]] = cn[c].mark

Registered == Entered(Marked, conn, index.readers)

\* A connection k reads the image it took its snapshot of.
PinIs(k, log, m, hist) ==
  /\ k.snapshot = k.mark /\ k.mark <= Len(log)
  /\ k.view \in 1 .. Len(hist)
  /\ k.dbSize = SizeOf(hist[k.view])
  /\ Shows(log, m, k.mark, hist[k.view])

\* A checkpoint j stays below the mark of k, and what it cuts off the main file
\* k reads from the log.
SparedBy(k, j, log, hist) ==
  /\ j.safe <= k.mark
  /\ \A p \in Page : j.safe = j.mx /\ j.size < p /\ hist[k.view][p] # None =>
       \E i \in 1 .. k.mark : log[i].page = p

\* What registered readers add to the invariant.
PinInv ==
  /\ Registered
  /\ \A c \in Pinned : PinIs(conn[c], index.log, main, history)
  /\ \A c \in Pinned, d \in Conn :
       pc[d] \in Copying => SparedBy(conn[c], job[d], index.log, history)
  /\ \A c \in Conn : pc[c] = "restart" => conn[c].mark = None

\* A pinned reader finds its image.
LEMMA InvRepeatableRead ==
  ASSUME Bounds, WalInv, PinInv
  PROVE  RepeatableRead
<1> SUFFICES ASSUME NEW c \in Conn, conn[c].mark # None, conn[c].view # 0
             PROVE  ReadsItsSnapshot(c)
  BY DEF RepeatableRead
<1> DEFINE k   == conn[c]
           img == history[k.view]
<1>1. /\ k \in WalConn /\ index \in Index /\ main \in Pic /\ k.mark \in Nat /\ c \in Pinned
      /\ Len(index.log) \in Nat
  BY DEF WalInv, Types, WalConn, Pinned, Marked, Index
<1>2. /\ k.snapshot = k.mark /\ k.mark <= Len(index.log) /\ k.view \in 1 .. Len(history)
      /\ k.dbSize = SizeOf(img) /\ Shows(index.log, main, k.mark, img)
  BY <1>1, Zenon DEF PinInv, PinIs
<1>3. img \in Pic /\ \E n \in Page : Whole(img, n)
  BY <1>2 DEF WalInv, Types, Images
<1>4. SizeOf(img) \in Page /\ \A p \in Page : img[p] # None <=> p <= SizeOf(img)
  <2>1. PICK n \in Page : Whole(img, n)
    BY <1>3
  <2>2. SizeOf(img) = n
    BY <1>3, <2>1, SizeIs
  <2> QED
    BY <2>1, <2>2 DEF Whole
<1>5. ASSUME NEW p \in 1 .. k.dbSize, k.overlay[p] = None
      PROVE  Content(c, p) = img[p]
  <2>1. p \in Page /\ img[p] # None
    BY <1>2, <1>4 DEF Page, Bounds
  <2>2. k.mark \in 0 .. Len(index.log)
    BY <1>1, <1>2
  <2>3. (IF InLog(index, p, k.mark) THEN FindFrame(index, p, k.mark) ELSE main[p]) = img[p]
    BY <1>1, <1>2, <1>3, <2>1, <2>2, ReadsImage
  <2> QED
    BY <1>2, <1>5, <2>3 DEF Content
<1> QED
  BY <1>2, <1>5 DEF ReadsItsSnapshot, SnapshotImage

\* A log without readers has no marked connection.
LEMMA Unread ==
  ASSUME Registered, index \in Index, Marks(index) = {}
  PROVE  Marked = {}
<1>1. index.readers \in Seq(Nat) /\ Len(index.readers) \in Nat
  BY DEF Index
<1>2. Len(index.readers) # 0 => index.readers[1] \in Marks(index)
  BY <1>1 DEF Marks
<1>3. 1 .. Len(index.readers) = {}
  BY <1>1, <1>2
<1>4. PICK f \in [Marked -> 1 .. Len(index.readers)] : TRUE
  BY DEF Registered, Entered
<1>5. \A c \in Marked : f[c] \in 1 .. Len(index.readers)
  BY <1>4, Zenon
<1> QED
  BY <1>3, <1>5, Zenon

\* register_reader
LEMMA Enters ==
  ASSUME NEW P, NEW cn, NEW r \in Seq(Nat), Entered(P, cn, r), NEW c, c \notin P,
         NEW m \in Nat, NEW dn, \A d \in P : dn[d].mark = cn[d].mark, dn[c].mark = m
  PROVE  Entered(P \cup {c}, dn, Append(r, m))
<1> DEFINE n == Len(r)
           t == Append(r, m)
<1>1. PICK f \in [P -> 1 .. n] : /\ \A d, e \in P : f[d] = f[e] => d = e
                                 /\ \A d \in P : r[f[d]] = cn[d].mark
  BY DEF Entered
<1>2. n \in Nat /\ Len(t) = n + 1 /\ t[n + 1] = m /\ \A i \in 1 .. n : t[i] = r[i]
  BY DEF n, t
<1> HIDE DEF n, t
<1> DEFINE g == [d \in P \cup {c} |-> IF d = c THEN n + 1 ELSE f[d]]
<1>3. g \in [P \cup {c} -> 1 .. n + 1]
  BY <1>2
<1>4. \A d, e \in P \cup {c} : g[d] = g[e] => d = e
  BY <1>1, <1>2
<1>5. \A d \in P \cup {c} : t[g[d]] = dn[d].mark
  BY <1>1, <1>2
<1> QED
  BY <1>2, <1>3, <1>4, <1>5, Zenon DEF Entered, t

\* The entry that unregister_reader removes may be another reader's: the marks
\* are equal, so the two swap theirs.
LEMMA Leaves ==
  ASSUME NEW P, NEW cn, NEW ix \in Index, Entered(P, cn, ix.readers), NEW c \in P, NEW m,
         cn[c].mark = m
  PROVE  Entered(P \ {c}, cn, UnregisterReader(ix, m).readers)
<1> DEFINE r == ix.readers
           n == Len(r)
           i == CHOOSE i \in 1 .. n : r[i] = m /\ \A j \in 1 .. i - 1 : r[j] # m
           t == SubSeq([r EXCEPT ![i] = r[n]], 1, n - 1)
           Q == P \ {c}
<1>0. r \in Seq(Nat) /\ n \in Nat
  BY DEF Index
<1>1. PICK f \in [P -> 1 .. n] : /\ \A d, e \in P : f[d] = f[e] => d = e
                                 /\ \A d \in P : r[f[d]] = cn[d].mark
  BY DEF Entered
<1>2. f[c] \in 1 .. n /\ r[f[c]] = m /\ m \in Marks(ix)
  BY <1>0, <1>1 DEF Marks
<1>3. i \in 1 .. n /\ r[i] = m
  <2> DEFINE S == {j \in 1 .. n : r[j] = m}
  <2>1. S \in SUBSET Nat /\ S # {}
    BY <1>0, <1>2
  <2>2. Least(S) \in S /\ \A j \in S : Least(S) <= j
    BY <2>1, LeastIn, Zenon
  <2>3. PICK l \in 1 .. n : r[l] = m /\ \A j \in S : l <= j
    BY <2>2, Zenon
  <2> HIDE DEF r, n
  <2>4. \A j \in 1 .. l - 1 : j \in 1 .. n /\ ~(l <= j)
    BY <1>0
  <2>5. \A j \in 1 .. l - 1 : r[j] # m
    BY <2>3, <2>4
  <2> QED
    BY <2>3, <2>5
<1>4. UnregisterReader(ix, m).readers = t
  <2>1. UnregisterReader(ix, m) = [ix EXCEPT !.readers = t]
    BY <1>2, Zenon DEF UnregisterReader
  <2> HIDE DEF t
  <2> QED
    BY <2>1, Zenon DEF Index
<1> HIDE DEF i
<1>5. Len(t) = n - 1 /\ \A j \in 1 .. n - 1 : t[j] = IF j = i THEN r[n] ELSE r[j]
  <2> DEFINE q == [r EXCEPT ![i] = r[n]]
  <2>1. /\ r \in [1 .. n -> Nat] /\ r[n] \in Nat
    BY <1>0, <1>3
  <2> HIDE DEF r
  <2>2. q \in [1 .. n -> Nat] /\ \A j \in 1 .. n : q[j] = IF j = i THEN r[n] ELSE r[j]
    BY <1>3, <2>1
  <2> HIDE DEF n
  <2>3. q \in Seq(Nat) /\ Len(q) = n
    BY <1>0, <2>2
  <2> HIDE DEF q
  <2>4. Len(SubSeq(q, 1, n - 1)) = n - 1 /\ \A j \in 1 .. n - 1 : SubSeq(q, 1, n - 1)[j] = q[j]
    BY <1>0, <1>3, <2>3
  <2>5. \A j \in 1 .. n - 1 : j \in 1 .. n
    BY <1>0
  <2> QED
    BY <2>2, <2>4, <2>5, Zenon DEF q
<1> HIDE DEF r, n, t
<1> DEFINE h == [d \in Q |-> IF f[d] = i THEN f[c] ELSE f[d]]
<1>6. /\ \A d \in Q : h[d] \in 1 .. n /\ h[d] # i /\ r[h[d]] = cn[d].mark
      /\ \A d, e \in Q : h[d] = h[e] => d = e
  BY <1>1, <1>2, <1>3
<1> HIDE DEF h
<1> DEFINE g == [d \in Q |-> IF h[d] = n THEN i ELSE h[d]]
<1>7. g \in [Q -> 1 .. n - 1]
  BY <1>0, <1>3, <1>6
<1>8. \A d, e \in Q : g[d] = g[e] => d = e
  BY <1>6
<1>9. \A d \in Q : t[g[d]] = cn[d].mark
  <2> SUFFICES ASSUME NEW d \in Q PROVE t[g[d]] = cn[d].mark
    OBVIOUS
  <2>1. g[d] \in 1 .. n - 1 /\ g[d] = IF h[d] = n THEN i ELSE h[d]
    BY <1>7
  <2> HIDE DEF g
  <2> QED
    BY <1>5, <1>6, <2>1
<1> QED
  BY <1>4, <1>5, <1>7, <1>8, <1>9, Zenon DEF Entered, Q

\* Sequence t starts with s.
Extended(s, t) == Len(s) <= Len(t) /\ \A i \in 1 .. Len(s) : t[i] = s[i]

\* Nothing appended.
LEMMA Itself ==
  ASSUME NEW S, NEW s \in Seq(S)
  PROVE  Extended(s, s)
<1>1. Len(s) \in Nat
  OBVIOUS
<1> QED
  BY <1>1 DEF Extended

\* What a pinned reader has to keep of its WalRuntime.
Same(k, q) == /\ q.mark = k.mark /\ q.snapshot = k.snapshot
              /\ q.view = k.view /\ q.dbSize = k.dbSize

\* A pinned reader keeps its image while the log and the history grow.
LEMMA PinKept ==
  ASSUME NEW k, NEW log \in Seq(Entry), NEW m, NEW hist \in Seq(Pic), PinIs(k, log, m, hist),
         k.mark \in Nat, NEW q, Same(k, q),
         NEW l \in Seq(Entry), Extended(log, l), NEW h \in Seq(Pic), Extended(hist, h),
         NEW w, Shows(log, w, k.mark, hist[k.view])
  PROVE  PinIs(q, l, w, h)
<1>1. /\ Len(log) \in Nat /\ Len(l) \in Nat /\ Len(hist) \in Nat /\ Len(h) \in Nat
      /\ Len(log) <= Len(l) /\ Len(hist) <= Len(h)
      /\ \A i \in 1 .. Len(log) : l[i] = log[i]
      /\ \A i \in 1 .. Len(hist) : h[i] = hist[i]
  BY DEF Extended
<1>2. /\ k.snapshot = k.mark /\ k.mark <= Len(log) /\ k.view \in 1 .. Len(hist)
      /\ k.dbSize = SizeOf(hist[k.view])
  BY DEF PinIs
<1>3. k.mark <= Len(l) /\ k.view \in 1 .. Len(h) /\ h[k.view] = hist[k.view]
  BY <1>1, <1>2
<1>4. \A i \in 1 .. k.mark : i \in 1 .. Len(log) /\ l[i] = log[i]
  BY <1>1, <1>2
<1>5. \A i \in 1 .. k.mark : Final(l, i, k.mark) <=> Final(log, i, k.mark)
  <2>1. \A i \in 1 .. k.mark : \A j \in i + 1 .. k.mark : j \in 1 .. k.mark
    OBVIOUS
  <2> QED
    BY <1>4, <2>1, Zenon DEF Final
<1>6. Shows(l, w, k.mark, h[k.view])
  <2> SUFFICES ASSUME NEW p \in Page, hist[k.view][p] # None
               PROVE  /\ \A i \in 1 .. k.mark : l[i].page = p /\ Final(l, i, k.mark)
                                                 => l[i].data = hist[k.view][p]
                      /\ (\A i \in 1 .. k.mark : l[i].page # p) => w[p] = hist[k.view][p]
    BY <1>3 DEF Shows
  <2>1. /\ \A i \in 1 .. k.mark : log[i].page = p /\ Final(log, i, k.mark)
                                   => log[i].data = hist[k.view][p]
        /\ (\A i \in 1 .. k.mark : log[i].page # p) => w[p] = hist[k.view][p]
    BY Zenon DEF Shows
  <2> QED
    BY <1>4, <1>5, <2>1
<1> QED
  BY <1>2, <1>3, <1>6 DEF PinIs, Same

\* What decides which readers a checkpoint spares.
Alike(j, o) == o.safe = j.safe /\ o.mx = j.mx /\ o.size = j.size

\* A checkpoint in progress goes on to spare it.
LEMMA SparedKept ==
  ASSUME NEW k, NEW log \in Seq(Entry), NEW m, NEW hist \in Seq(Pic), PinIs(k, log, m, hist),
         k.mark \in Nat, NEW q, Same(k, q),
         NEW l \in Seq(Entry), Extended(log, l), NEW h \in Seq(Pic), Extended(hist, h),
         NEW j, SparedBy(k, j, log, hist),
         NEW o, Alike(j, o)
  PROVE  SparedBy(q, o, l, h)
<1>1. /\ Len(log) \in Nat /\ k.mark <= Len(log) /\ k.view \in 1 .. Len(hist)
      /\ \A i \in 1 .. Len(log) : l[i] = log[i]
      /\ h[k.view] = hist[k.view]
  BY DEF Extended, PinIs
<1>2. \A i \in 1 .. k.mark : l[i] = log[i]
  <2>1. \A i \in 1 .. k.mark : i \in 1 .. Len(log)
    BY <1>1
  <2> QED
    BY <1>1, <2>1, Zenon
<1>3. q.mark = k.mark /\ q.view = k.view /\ o.safe = j.safe /\ o.mx = j.mx /\ o.size = j.size
  BY DEF Same, Alike
<1>4. ASSUME NEW p \in Page, o.safe = o.mx, o.size < p, h[q.view][p] # None
      PROVE  \E i \in 1 .. q.mark : l[i].page = p
  <2>1. PICK i \in 1 .. k.mark : log[i].page = p
    BY <1>1, <1>3, <1>4 DEF SparedBy
  <2> QED
    BY <1>2, <1>3, <2>1
<1>5. o.safe <= q.mark
  BY <1>3 DEF SparedBy
<1> QED
  BY <1>4, <1>5, Zenon DEF SparedBy

\* A step that takes no new reader and starts no new copy.
LEMMA PinFrame ==
  ASSUME Bounds, Types, Types', PinInv, Registered',
         Extended(index.log, index'.log), Extended(history, history'),
         \A c \in Conn : conn'[c].mark # None => Same(conn[c], conn'[c]),
         \A c \in Pinned : Shows(index.log, main', conn[c].mark, history[conn[c].view]),
         \A d \in Conn : pc'[d] \in Copying =>
           /\ pc[d] \in Copying
           /\ job'[d].safe = job[d].safe /\ job'[d].mx = job[d].mx /\ job'[d].size = job[d].size,
         \A d \in Conn : pc'[d] = "restart" => pc[d] = "restart" \/ conn[d].mark = None
  PROVE  PinInv'
<1>1. /\ index.log \in Seq(Entry) /\ index'.log \in Seq(Entry)
      /\ history \in Seq(Pic) /\ history' \in Seq(Pic)
  BY DEF Types, Index
<1>2. ASSUME NEW c \in Pinned'
      PROVE  /\ c \in Pinned /\ c \in Conn /\ conn[c].mark \in Nat /\ Same(conn[c], conn'[c])
             /\ PinIs(conn[c], index.log, main, history)
  <2>1. c \in Conn /\ conn'[c].mark # None /\ conn'[c].view # 0
    BY <1>2, Zenon DEF Pinned, Marked
  <2>2. Same(conn[c], conn'[c])
    BY <2>1
  <2>3. c \in Pinned
    BY <2>1, <2>2 DEF Pinned, Marked, Same
  <2>4. conn[c] \in WalConn /\ conn[c].mark # None
    BY <2>1, <2>3 DEF Types, Pinned, Marked
  <2>5. conn[c].mark \in Nat
    BY <2>4 DEF WalConn
  <2>6. PinIs(conn[c], index.log, main, history)
    BY <2>3, Zenon DEF PinInv
  <2> QED
    BY <2>1, <2>2, <2>3, <2>5, <2>6
<1>3. ASSUME NEW c \in Pinned'
      PROVE  PinIs(conn'[c], index'.log, main', history')
  BY <1>1, <1>2, <1>3, PinKept, Zenon
<1>4. ASSUME NEW c \in Pinned', NEW d \in Conn, pc'[d] \in Copying
      PROVE  SparedBy(conn'[c], job'[d], index'.log, history')
  <2>1. SparedBy(conn[c], job[d], index.log, history)
    BY <1>2, <1>4, Zenon DEF PinInv
  <2>2. Alike(job[d], job'[d])
    BY <1>4, Zenon DEF Alike
  <2>3. /\ conn[c].mark \in Nat /\ Same(conn[c], conn'[c])
        /\ PinIs(conn[c], index.log, main, history)
    BY <1>2, <1>4, Zenon
  <2> QED
    BY <1>1, <2>1, <2>2, <2>3, SparedKept, Zenon
<1>5. ASSUME NEW d \in Conn, pc'[d] = "restart"
      PROVE  conn'[d].mark = None
  <2>1. conn[d].mark = None
    BY <1>5 DEF PinInv
  <2> QED
    BY <2>1 DEF Same
<1> QED
  BY <1>3, <1>4, <1>5, Zenon DEF PinInv

\* ... and leaves the log, the readers and the main file alone.
LEMMA StillStep ==
  ASSUME Bounds, Types, Types', PinInv, NEW c \in Conn, NEW k, conn' = [conn EXCEPT ![c] = k],
         k.mark = conn[c].mark, k.mark # None => Same(conn[c], k),
         index'.log = index.log, index'.readers = index.readers,
         UNCHANGED <<main, history>>,
         \A d \in Conn : pc'[d] \in Copying =>
           /\ pc[d] \in Copying
           /\ job'[d].safe = job[d].safe /\ job'[d].mx = job[d].mx /\ job'[d].size = job[d].size,
         \A d \in Conn : pc'[d] = "restart" => pc[d] = "restart" \/ conn[d].mark = None
  PROVE  PinInv'
<1>1. conn'[c] = k /\ \A d \in Conn \ {c} : conn'[d] = conn[d]
  BY DEF Types
<1>2. \A d \in Conn : conn'[d].mark = conn[d].mark
  BY <1>1
<1>3. \A d \in Conn : conn'[d].mark # None => Same(conn[d], conn'[d])
  BY <1>1 DEF Same
<1>4. Marked' = Marked
  BY <1>2 DEF Marked
<1>5. Registered'
  <2>1. Entered(Marked, conn, index.readers) /\ Marked \subseteq Conn
    BY DEF PinInv, Registered, Marked
  <2>2. Entered(Marked, conn', index.readers)
    BY <1>2, <2>1 DEF Entered
  <2> QED
    BY <1>4, <2>2, Zenon DEF Registered
<1>6. Extended(index.log, index'.log) /\ Extended(history, history')
  <2>1. index.log \in Seq(Entry) /\ history \in Seq(Pic)
    BY DEF Types, Index
  <2> QED
    BY <2>1, Itself
<1>7. \A d \in Pinned : Shows(index.log, main', conn[d].mark, history[conn[d].view])
  BY Zenon DEF PinInv, PinIs
<1> QED
  BY <1>3, <1>5, <1>6, <1>7, PinFrame, Zenon

Busy == Copying \cup {"restart"}

\* ... and starts, ends or goes on with anything but a copy.
LEMMA QuietStep ==
  ASSUME Bounds, Types, Types', PinInv, NEW c \in Conn, NEW k, conn' = [conn EXCEPT ![c] = k],
         k.mark = conn[c].mark, k.mark # None => Same(conn[c], k),
         UNCHANGED <<main, index, job, history>>,
         NEW x, x \notin Busy, pc' = [pc EXCEPT ![c] = x]
  PROVE  PinInv'
<1>1. \A d \in Conn : /\ pc'[d] \in Copying => pc[d] \in Copying
                      /\ pc'[d] = "restart" => pc[d] = "restart"
  BY DEF Types, Busy
<1> QED
  BY <1>1, StillStep, Zenon


\* A new reader pins the newest image.
LEMMA NewPin ==
  ASSUME Bounds, WalInv, NEW k, k.mark = Len(index.log), k.snapshot = Len(index.log),
         k.view = Len(history), k.dbSize = SizeOf(Last)
  PROVE  /\ PinIs(k, index.log, main, history)
         /\ \A d \in Conn : pc[d] \in Copying => SparedBy(k, job[d], index.log, history)
<1>1. /\ Len(index.log) \in Nat /\ Len(history) \in 1 .. Len(history) /\ history[k.view] = Last
  BY DEF WalInv, Types, Index, Last
<1>2. Shows(index.log, main, Len(index.log), Last)
  BY Zenon DEF WalInv, LogOK, LogIs
<1>3. PinIs(k, index.log, main, history)
  BY <1>1, <1>2 DEF PinIs
<1>4. ASSUME NEW d \in Conn, pc[d] \in Copying
      PROVE  SparedBy(k, job[d], index.log, history)
  <2>1. job[d] \in Job /\ CopyIs(pc[d], job[d], index.log, index.backfill, main, Last)
    BY <1>4, AtWork DEF Checkpointing
  <2>2. /\ job[d].safe \in Nat /\ job[d].mx \in Nat
        /\ job[d].safe <= job[d].mx /\ job[d].mx <= Len(index.log)
    BY <2>1 DEF Job, CopyIs
  <2>3. \A p \in Page : job[d].size < p /\ Last[p] # None =>
          \E i \in job[d].mx + 1 .. Len(index.log) : index.log[i].page = p
    BY <2>1, Zenon DEF CopyIs
  <2>4. \A i \in job[d].mx + 1 .. Len(index.log) : i \in 1 .. Len(index.log)
    BY <1>1, <2>2
  <2>5. job[d].safe <= k.mark
    BY <1>1, <2>2
  <2>6. ASSUME NEW p \in Page, job[d].size < p, history[k.view][p] # None
        PROVE  \E i \in 1 .. k.mark : index.log[i].page = p
    <3>1. PICK i \in job[d].mx + 1 .. Len(index.log) : index.log[i].page = p
      BY <1>1, <2>3, <2>6
    <3> QED
      BY <2>4, <3>1
  <2> QED
    BY <2>5, <2>6, Zenon DEF SparedBy
<1> QED
  BY <1>3, <1>4

\* SELECTs and BEGIN; begin_read_txn pins the newest image.
LEMMA PinRead ==
  ASSUME Bounds, WalInv, WalInv', PinInv, NEW c \in Conn, Read(c)
  PROVE  PinInv'
<1>0. /\ conn[c] \in WalConn /\ Types /\ Types' /\ index \in Index
      /\ conn = [conn EXCEPT ![c] = conn[c]] /\ pc = [pc EXCEPT ![c] = pc[c]]
  BY AtRest DEF WalInv
<1>1. "reading" \notin Busy /\ "idle" \notin Busy /\ Shared \in {Shared, Reserved}
  BY DEF Busy, Copying
<1>2. CASE StartSelect(c)
  <2> DEFINE q == Raised(conn[c], Shared)
             k == Revalidated(q)
  <2>1. /\ conn' = [conn EXCEPT ![c] = k] /\ pc' = [pc EXCEPT ![c] = "reading"]
        /\ UNCHANGED <<main, index, job, history>>
    BY <1>2, Zenon DEF StartSelect, Set, Goto
  <2>2. q \in WalConn /\ q.mark = conn[c].mark /\ Same(conn[c], q)
    BY <1>0, <1>1, RaisedIs DEF Same
  <2> HIDE DEF q
  <2>3. k.mark = q.mark /\ (q.mark # None => k = q)
    BY <2>2, RevalidatedIs
  <2> HIDE DEF k
  <2> QED
    BY <1>0, <1>1, <2>1, <2>2, <2>3, QuietStep, Zenon
<1>3. CASE EndSelect(c)
  <2> DEFINE q == [conn[c] EXCEPT !.held = Unlocked]
  <2>1. PICK k \in {conn[c], q} : conn' = [conn EXCEPT ![c] = k]
    BY <1>0, <1>3, Zenon DEF EndSelect, Set
  <2>2. Same(conn[c], k)
    BY <1>0 DEF Same, WalConn
  <2>3. pc' = [pc EXCEPT ![c] = "idle"] /\ UNCHANGED <<main, index, job, history>>
    BY <1>3, Zenon DEF EndSelect, Goto
  <2>4. k.mark = conn[c].mark
    BY <2>2 DEF Same
  <2> QED
    BY <1>0, <1>1, <2>1, <2>2, <2>3, <2>4, QuietStep, Zenon
<1>4. CASE Begin(c)
  <2>1. /\ conn' = [conn EXCEPT ![c] = Revalidated(conn[c])] /\ pc' = pc /\ pc[c] = "idle"
        /\ UNCHANGED <<main, index, job, history>>
    BY <1>4, Zenon DEF Begin, Set, At
  <2> DEFINE k == Revalidated(conn[c])
  <2>2. k.mark = conn[c].mark /\ (k.mark # None => k = conn[c])
    BY <1>0, RevalidatedIs
  <2>3. k.mark # None => Same(conn[c], k)
    BY <2>2 DEF Same
  <2> HIDE DEF k
  <2>4. conn' = [conn EXCEPT ![c] = k] /\ pc' = [pc EXCEPT ![c] = "idle"]
    BY <1>0, <2>1, Zenon DEF k
  <2> QED
    BY <1>0, <1>1, <2>1, <2>2, <2>3, <2>4, QuietStep, Zenon
<1>5. CASE ReadInTransaction(c)
  <2> DEFINE k == [Snapshot(Raised(conn[c], Shared)) EXCEPT !.mark = MxFrame(index)]
  <2>1. /\ conn' = [conn EXCEPT ![c] = k] /\ conn[c].mark = None
        /\ index' = RegisterReader(index, MxFrame(index))
        /\ pc[c] = "idle" /\ UNCHANGED <<main, pc, job, history>>
    BY <1>5, Zenon DEF ReadInTransaction, Set, At
  <2>2. MxFrame(index) = Len(index.log) /\ Len(index.log) \in Nat /\ Len(index.log) # None
        /\ index.readers \in Seq(Nat)
    BY <1>0 DEF Index, MxFrame, Bounds
  <2>3. /\ k.mark = Len(index.log) /\ k.snapshot = Len(index.log)
        /\ k.view = Len(history) /\ k.dbSize = SizeOf(Last)
    <3>1. Raised(conn[c], Shared) \in WalConn
      BY <1>0, <1>1, RaisedIs
    <3> DEFINE q == Snapshot(Raised(conn[c], Shared))
    <3>2. /\ q \in WalConn /\ q.snapshot = Len(index.log)
          /\ q.view = Len(history) /\ q.dbSize = SizeOf(Last)
      BY <3>1, SnapshotIs
    <3> HIDE DEF q
    <3>3. k = [q EXCEPT !.mark = Len(index.log)]
      BY <2>2 DEF q
    <3> HIDE DEF k
    <3> QED
      BY <3>2, <3>3 DEF WalConn
  <2> HIDE DEF k
  <2>4. /\ index'.log = index.log /\ index'.readers = Append(index.readers, Len(index.log))
    BY <1>0, <2>1, <2>2 DEF RegisterReader, Index
  <2>5. conn'[c] = k /\ \A d \in Conn \ {c} : conn'[d] = conn[d]
    BY <1>0, <2>1 DEF Types
  <2>6. Marked' = Marked \cup {c} /\ c \notin Marked /\ Marked \subseteq Conn
    BY <2>1, <2>2, <2>3, <2>5 DEF Marked
  <2>7. Registered'
    <3>1. Entered(Marked, conn, index.readers)
      BY DEF PinInv, Registered
    <3>2. \A d \in Marked : conn'[d].mark = conn[d].mark
      BY <2>5, <2>6
    <3>3. Entered(Marked \cup {c}, conn', Append(index.readers, Len(index.log)))
      BY <2>2, <2>3, <2>5, <2>6, <3>1, <3>2, Enters, Zenon
    <3> QED
      BY <2>4, <2>6, <3>3, Zenon DEF Registered
  <2>8. ASSUME NEW d \in Pinned'
        PROVE  /\ PinIs(conn'[d], index.log, main, history)
               /\ \A e \in Conn : pc[e] \in Copying => SparedBy(conn'[d], job[e], index.log, history)
    <3>1. CASE d = c
      BY <2>3, <2>5, <3>1, NewPin
    <3>2. CASE d # c
      <4>1. d \in Pinned /\ conn'[d] = conn[d]
        BY <2>5, <2>6, <2>8, <3>2 DEF Pinned
      <4> QED
        BY <4>1, Zenon DEF PinInv
    <3> QED
      BY <3>1, <3>2
  <2>9. ASSUME NEW d \in Conn, pc'[d] = "restart"
        PROVE  conn'[d].mark = None
    BY <2>1, <2>5, <2>9 DEF PinInv
  <2> QED
    BY <2>1, <2>4, <2>7, <2>8, <2>9, Zenon DEF PinInv
<1> QED
  BY <1>2, <1>3, <1>4, <1>5 DEF Read


\* A writer leaves its own snapshot and the others' alone.
LEMMA PinWrite ==
  ASSUME Bounds, WalInv, WalInv', PinInv, NEW c \in Conn,
         StartWrite(c) \/ AllocatePage(c) \/ EndWrite(c) \/ \E p \in Page : WritePage(c, p)
  PROVE  PinInv'
<1>0. /\ conn[c] \in WalConn /\ Types /\ Types'
      /\ conn = [conn EXCEPT ![c] = conn[c]] /\ pc = [pc EXCEPT ![c] = pc[c]]
  BY AtRest DEF WalInv
<1>1. "writing" \notin Busy /\ "idle" \notin Busy /\ Reserved \in {Shared, Reserved}
  BY DEF Busy, Copying
<1>2. ASSUME NEW k, conn' = [conn EXCEPT ![c] = k], k.mark = conn[c].mark,
             k.mark # None => Same(conn[c], k), UNCHANGED <<main, index, job, history>>,
             NEW x \in {"writing", "idle"}, pc' = [pc EXCEPT ![c] = x]
      PROVE  PinInv'
  <2>1. x \notin Busy
    BY <1>1
  <2> QED
    BY <1>0, <1>2, <2>1, QuietStep, Zenon
<1>3. CASE StartWrite(c)
  <2> DEFINE b == Snapshot(conn[c])
             q == IF conn[c].held < Reserved /\ conn[c].mark = None /\ conn[c].overlay = Clean
                  THEN [b EXCEPT !.pageCount = b.dbSize] ELSE conn[c]
             k == Raised(q, Reserved)
  <2>1. /\ conn' = [conn EXCEPT ![c] = k] /\ pc' = [pc EXCEPT ![c] = "writing"]
        /\ UNCHANGED <<main, index, job, history>>
    BY <1>3, Zenon DEF StartWrite, Set, Goto
  <2>2. q \in WalConn /\ q.mark = conn[c].mark /\ (conn[c].mark # None => q = conn[c])
    <3>1. b \in WalConn /\ b.mark = conn[c].mark /\ b.dbSize \in Page
      BY <1>0, SnapshotIs DEF WalConn
    <3> HIDE DEF b
    <3>2. [b EXCEPT !.pageCount = b.dbSize] \in WalConn
          /\ [b EXCEPT !.pageCount = b.dbSize].mark = conn[c].mark
      BY <3>1, Zenon DEF WalConn
    <3> QED
      BY <1>0, <3>2, Zenon
  <2> HIDE DEF q
  <2>3. k.mark = q.mark /\ Same(q, k)
    BY <1>1, <2>2, RaisedIs DEF Same
  <2> HIDE DEF k
  <2> QED
    BY <1>2, <2>1, <2>2, <2>3, Zenon
<1>4. CASE AllocatePage(c)
  <2> DEFINE n == conn[c].pageCount + 1
             k == [conn[c] EXCEPT !.pageCount = n, !.overlay[n] = New]
  <2>1. /\ conn' = [conn EXCEPT ![c] = k] /\ pc' = pc /\ pc[c] = "writing"
        /\ UNCHANGED <<main, index, job, history>>
    BY <1>4, Zenon DEF AllocatePage, Set, At
  <2>2. Same(conn[c], k)
    BY <1>0, Zenon DEF Same, WalConn
  <2> HIDE DEF k
  <2> QED
    BY <1>0, <1>2, <2>1, <2>2, Zenon DEF Same
<1>5. ASSUME NEW p \in Page, WritePage(c, p)
      PROVE  PinInv'
  <2> DEFINE k == [conn[c] EXCEPT !.overlay[p] = Content(c, p)]
  <2>1. /\ conn' = [conn EXCEPT ![c] = k] /\ pc' = pc /\ pc[c] = "writing"
        /\ UNCHANGED <<main, index, job, history>>
    BY <1>5, Zenon DEF WritePage, Set, At
  <2>2. Same(conn[c], k)
    BY <1>0, Zenon DEF Same, WalConn
  <2> HIDE DEF k
  <2> QED
    BY <1>0, <1>2, <2>1, <2>2, Zenon DEF Same
<1>6. CASE EndWrite(c)
  <2>1. conn' = conn /\ pc' = [pc EXCEPT ![c] = "idle"] /\ UNCHANGED <<main, index, job, history>>
    BY <1>6 DEF EndWrite, Goto
  <2> QED
    BY <1>0, <1>2, <2>1 DEF Same
<1> QED
  BY <1>3, <1>4, <1>5, <1>6

\* The end of a transaction takes its mark out of the readers.
LEMMA EndTransaction ==
  ASSUME Bounds, WalInv, WalInv', PinInv, NEW c \in Conn, NEW k, k.mark = None,
         conn' = [conn EXCEPT ![c] = k], NEW ix \in Index, ix.readers = index.readers,
         Extended(index.log, ix.log), Extended(history, history'),
         index' = IF conn[c].mark = None THEN ix ELSE UnregisterReader(ix, conn[c].mark),
         pc' = [pc EXCEPT ![c] = "idle"], UNCHANGED <<main, job>>
  PROVE  PinInv'
<1>0. Types /\ Types' /\ "idle" \notin Copying /\ "idle" # "restart"
  BY DEF WalInv, Copying
<1>1. /\ conn'[c] = k /\ \A d \in Conn \ {c} : conn'[d] = conn[d]
      /\ \A d \in Conn : /\ pc'[d] \in Copying => pc[d] \in Copying
                         /\ pc'[d] = "restart" => pc[d] = "restart"
  BY <1>0 DEF Types
<1>2. Marked' = Marked \ {c} /\ Marked \subseteq Conn /\ (c \in Marked <=> conn[c].mark # None)
  BY <1>1 DEF Marked
<1>3. Registered'
  <2>1. Entered(Marked, conn, ix.readers)
    BY Zenon DEF PinInv, Registered
  <2>2. Entered(Marked \ {c}, conn, index'.readers)
    <3>1. CASE conn[c].mark = None
      <4>1. Marked \ {c} = Marked /\ index' = ix
        BY <1>2, <3>1
      <4> QED
        BY <2>1, <4>1, Zenon
    <3>2. CASE conn[c].mark # None
      <4>1. c \in Marked /\ index' = UnregisterReader(ix, conn[c].mark)
        BY <1>2, <3>2
      <4> QED
        BY <2>1, <4>1, Leaves, Zenon
    <3> QED
      BY <3>1, <3>2
  <2>3. \A d \in Marked \ {c} : conn'[d] = conn[d]
    BY <1>1, <1>2
  <2>4. Entered(Marked \ {c}, conn', index'.readers)
    BY <2>2, <2>3 DEF Entered
  <2> QED
    BY <1>2, <2>4, Zenon DEF Registered
<1>4. Extended(index.log, index'.log)
  BY UnregisterIs
<1>5. \A d \in Conn : conn'[d].mark # None => Same(conn[d], conn'[d])
  BY <1>1 DEF Same
<1>6. \A d \in Pinned : Shows(index.log, main', conn[d].mark, history[conn[d].view])
  BY Zenon DEF PinInv, PinIs
<1> QED
  BY <1>0, <1>1, <1>3, <1>4, <1>5, <1>6, PinFrame, Zenon

\* ROLLBACK, and a COMMIT of nothing.
LEMMA PinRelease ==
  ASSUME Bounds, WalInv, WalInv', PinInv, NEW c \in Conn, Rollback(c) \/ CommitNothing(c)
  PROVE  PinInv'
<1>0. conn[c] \in WalConn /\ index \in Index /\ index.log \in Seq(Entry) /\ history \in Seq(Pic)
  BY AtRest DEF WalInv, Types, Index
<1>5. Extended(index.log, index.log) /\ Extended(history, history)
  BY <1>0, Itself
<1> DEFINE q == Released(conn[c])
           r == [q EXCEPT !.overlay = Clean, !.pageCount = conn[c].dbSize]
<1>1. PICK k \in {q, r} : conn' = [conn EXCEPT ![c] = k]
  BY Zenon DEF Rollback, CommitNothing, Set
<1>2. q.mark = None /\ r.mark = None
  BY <1>0, Zenon DEF Released, WalConn
<1>3. /\ index' = IF conn[c].mark = None THEN index ELSE UnregisterReader(index, conn[c].mark)
      /\ pc' = [pc EXCEPT ![c] = "idle"] /\ UNCHANGED <<main, job, history>>
  BY Zenon DEF Rollback, CommitNothing, Unpinned, Goto
<1> HIDE DEF q, r
<1>4. k.mark = None
  BY <1>2
<1> QED
  BY <1>0, <1>1, <1>3, <1>4, <1>5, EndTransaction, Zenon

\* commit_wal restarts no log that is read, and appends behind every mark.
LEMMA PinCommit ==
  ASSUME Bounds, WalInv, WalInv', PinInv, NEW c \in Conn, StartCommit(c) \/ EndCommit(c)
  PROVE  PinInv'
<1>0. /\ conn[c] \in WalConn /\ index \in Index /\ Types /\ Types'
      /\ conn = [conn EXCEPT ![c] = conn[c]]
  BY AtRest DEF WalInv
<1>1. CASE StartCommit(c)
  <2>1. /\ pc' = [pc EXCEPT ![c] = "append"] /\ UNCHANGED <<main, conn, job, history>>
        /\ index' # index => Marks(index) = {} /\ index' = RestartHdr(index)
        /\ "append" \notin Busy
    BY <1>1 DEF StartCommit, Goto, Busy, Copying
  <2>2. CASE index' = index
    BY <1>0, <2>1, <2>2, QuietStep, Zenon DEF Same
  <2>3. CASE index' # index
    <3>1. Marked = {}
      BY <1>0, <2>1, <2>3, Unread DEF PinInv
    <3>2. Marked' = {} /\ index'.readers = index.readers
      BY <1>0, <2>1, <2>3, <3>1, RestartIs DEF Marked
    <3>3. Registered'
      BY <3>1, <3>2, Zenon DEF PinInv, Registered, Entered
    <3>4. Pinned' = {} /\ \A d \in Conn : conn'[d].mark = None
      BY <3>2 DEF Pinned, Marked
    <3> QED
      BY <3>3, <3>4, Zenon DEF PinInv
  <2> QED
    BY <2>2, <2>3
<1>2. CASE EndCommit(c)
  <2> DEFINE ix == AppendFrames(index, CommitLog(conn[c]))
             k  == [Released(conn[c]) EXCEPT !.snapshot = MxFrame(ix), !.overlay = Clean,
                                             !.dbSize = conn[c].pageCount,
                                             !.view = Len(history) + 1]
  <2>1. /\ pc[c] = "append" /\ pc' = [pc EXCEPT ![c] = "idle"]
        /\ index' = IF conn[c].mark = None THEN ix ELSE UnregisterReader(ix, conn[c].mark)
        /\ conn' = [conn EXCEPT ![c] = k]
        /\ history' = Append(history, NewImage(conn[c])) /\ UNCHANGED <<main, job>>
    BY <1>2, Zenon DEF EndCommit, At, Set, Goto
  <2>2. k.mark = None
    BY <1>0, Zenon DEF Released, WalConn
  <2> HIDE DEF k
  <2>3. /\ ix \in Index /\ ix.readers = index.readers /\ Extended(index.log, ix.log)
    <3> DEFINE f == CommitLog(conn[c])
    <3>1. index.log \in Seq(Entry) /\ FramesAre(f, conn[c].pageCount, Staged(conn[c]), Len(history) + 1)
      BY <1>0, <2>1, CommitLogIs DEF WalInv, Index
    <3> HIDE DEF f
    <3>2. Grown(index.log, index.log \o f, conn[c].pageCount, Staged(conn[c]), Len(history) + 1)
      BY <3>1, Concatenated, Zenon
    <3>3. /\ index.log \o f \in Seq(Entry) /\ Len(index.log \o f) > Len(index.log)
          /\ \A i \in 1 .. Len(index.log) : (index.log \o f)[i] = index.log[i]
      BY <3>2, Zenon DEF Grown
    <3>4. Len(index.log) <= Len(index.log \o f)
      BY <3>1, <3>3
    <3>5. ix.log = index.log \o f /\ ix \in Index /\ ix.readers = index.readers
      BY <1>0, <3>3, Zenon DEF AppendFrames, Index, f
    <3> HIDE DEF ix
    <3> QED
      BY <3>3, <3>4, <3>5, Zenon DEF Extended
  <2> HIDE DEF ix
  <2>4. Extended(history, history')
    <3>1. history \in Seq(Pic)
      BY <1>0 DEF Types
    <3> QED
      BY <2>1, <3>1 DEF Extended
  <2> QED
    BY <2>1, <2>2, <2>3, <2>4, EndTransaction, Zenon
<1> QED
  BY <1>1, <1>2


\* A copy changes no page that a reader above the safe mark takes from the main
\* file.
LEMMA CopySpares ==
  ASSUME Bounds, NEW j \in Job, NEW log \in Seq(Entry), NEW b \in Nat, NEW m \in Pic, NEW img,
         CopyIs("copy", j, log, b, m, img), NEW k, k.mark \in Nat, NEW hist,
         PinIs(k, log, m, hist), SparedBy(k, j, log, hist), NEW w, w = Copy(j, m)
  PROVE  Shows(log, w, k.mark, hist[k.view])
<1>1. /\ \A f \in j.pages : \E i \in b + 1 .. j.safe : f = log[i]
      /\ Shows(log, m, k.mark, hist[k.view])
      /\ \A p \in Page : j.safe = j.mx /\ j.size < p /\ hist[k.view][p] # None =>
           \E i \in 1 .. k.mark : log[i].page = p
  BY Zenon DEF CopyIs, PinIs, SparedBy
<1>2. \A i \in b + 1 .. j.safe : i \in 1 .. k.mark
  <2>1. j.safe \in Nat /\ j.safe <= k.mark
    BY DEF SparedBy, Job
  <2> QED
    BY <2>1
<1>3. ASSUME NEW p \in Page, hist[k.view][p] # None, \A i \in 1 .. k.mark : log[i].page # p
      PROVE  w[p] = m[p]
  <2>1. \A f \in j.pages : f.page # p
    BY <1>1, <1>2, <1>3
  <2>2. ~(j.safe = j.mx /\ j.size < p)
    BY <1>1, <1>3, Zenon
  <2>3. p > j.size <=> j.size < p
    BY DEF Page, Job, Bounds
  <2> QED
    BY <2>1, <2>2, <2>3 DEF Copy
<1> QED
  BY <1>1, <1>3, Zenon DEF Shows

\* A checkpoint copies.
LEMMA PinCopy ==
  ASSUME Bounds, WalInv, WalInv', PinInv, NEW c \in Conn,
         CollectPages(c) \/ CopyPages(c) \/ PublishBackfill(c)
  PROVE  PinInv'
<1> DEFINE j == job[c]
<1>0. /\ Types /\ Types' /\ index \in Index
      /\ conn = [conn EXCEPT ![c] = conn[c]] /\ Same(conn[c], conn[c])
  BY AtRest DEF WalInv, Same
<1>1. /\ pc[c] \in Copying /\ pc[c] \in Checkpointing
      /\ {"copy", "publish", "finish"} \cap {"restart"} = {}
  BY DEF CollectPages, CopyPages, PublishBackfill, At, Copying, Checkpointing
<1>2. /\ j \in Job /\ index.log \in Seq(Entry) /\ index.backfill \in Nat /\ main \in Pic
      /\ CopyIs(pc[c], j, index.log, index.backfill, main, Last)
  BY <1>1, AtWork, Zenon
<1>3. CASE CollectPages(c)
  <2>1. /\ pc' = [pc EXCEPT ![c] = "copy"]
        /\ job' = [job EXCEPT ![c] = [j EXCEPT !.pages = BackfillPages(index, j.safe)]]
        /\ UNCHANGED <<main, index, conn, history>>
    BY <1>3, Zenon DEF CollectPages, Goto
  <2>2. job'[c].safe = j.safe /\ job'[c].mx = j.mx /\ job'[c].size = j.size
    BY <1>0, <1>2, <2>1, Zenon DEF Types, Job
  <2>3. \A d \in Conn \ {c} : job'[d] = job[d] /\ pc'[d] = pc[d]
    BY <1>0, <2>1 DEF Types
  <2>4. \A d \in Conn : pc'[d] \in Copying =>
          /\ pc[d] \in Copying
          /\ job'[d].safe = job[d].safe /\ job'[d].mx = job[d].mx /\ job'[d].size = job[d].size
    BY <1>1, <2>2, <2>3
  <2>5. \A d \in Conn : pc'[d] = "restart" => pc[d] = "restart"
    BY <1>0, <2>1, <2>3 DEF Types
  <2> QED
    BY <1>0, <2>1, <2>4, <2>5, StillStep, Zenon
<1>4. CASE CopyPages(c)
  <2>1. /\ pc[c] = "copy" /\ pc' = [pc EXCEPT ![c] = "publish"] /\ main' = Copy(j, main)
        /\ UNCHANGED <<index, conn, job, history>>
    BY <1>4, Zenon DEF CopyPages, At, Goto, Copy
  <2>2. \A d \in Conn : /\ pc'[d] \in Copying => pc[d] \in Copying
                        /\ pc'[d] = "restart" => pc[d] = "restart"
    BY <1>0, <1>1, <2>1 DEF Types
  <2>3. ASSUME NEW d \in Pinned
        PROVE  Shows(index.log, main', conn[d].mark, history[conn[d].view])
    <3>1. conn[d].mark \in Nat
      BY <1>0 DEF Pinned, Marked, Types, WalConn
    <3>2. PinIs(conn[d], index.log, main, history) /\ SparedBy(conn[d], j, index.log, history)
      BY <1>1, Zenon DEF PinInv
    <3> QED
      BY <1>2, <2>1, <3>1, <3>2, CopySpares, Zenon
  <2>4. Registered'
    BY <2>1, Zenon DEF PinInv, Registered, Marked
  <2>5. Extended(index.log, index'.log) /\ Extended(history, history')
    <3>1. history \in Seq(Pic)
      BY <1>0 DEF Types
    <3> QED
      BY <1>2, <2>1, <3>1, Itself
  <2>6. \A d \in Conn : conn'[d].mark # None => Same(conn[d], conn'[d])
    BY <2>1 DEF Same
  <2> QED
    BY <1>0, <2>1, <2>2, <2>3, <2>4, <2>5, <2>6, PinFrame, Zenon
<1>5. CASE PublishBackfill(c)
  <2>1. /\ pc' = [pc EXCEPT ![c] = "finish"] /\ index' = SetBackfill(index, j.safe)
        /\ UNCHANGED <<main, conn, job, history>> /\ "finish" \notin Busy
    BY <1>5, Zenon DEF PublishBackfill, Goto, Busy, Copying
  <2>2. index'.log = index.log /\ index'.readers = index.readers
    BY <1>0, <2>1 DEF SetBackfill, Index
  <2>3. \A d \in Conn : /\ pc'[d] \in Copying => pc[d] \in Copying
                        /\ pc'[d] = "restart" => pc[d] = "restart"
    BY <1>0, <2>1 DEF Types, Busy
  <2> QED
    BY <1>0, <2>1, <2>2, <2>3, StillStep, Zenon
<1> QED
  BY <1>3, <1>4, <1>5

\* TRUNCATE drops the log only where no reader was registered when it asked; one
\* that registered since is no longer pinned.
LEMMA PinEnds ==
  ASSUME Bounds, WalInv, WalInv', PinInv, NEW c \in Conn,
         AskToRestart(c) \/ RestartLog(c) \/ EndCheckpoint(c)
  PROVE  PinInv'
<1> DEFINE j == job[c]
<1>0. /\ conn[c] \in WalConn /\ Types /\ Types' /\ index \in Index
      /\ conn = [conn EXCEPT ![c] = conn[c]] /\ Same(conn[c], conn[c])
  BY AtRest DEF WalInv, Same
<1>1. CASE AskToRestart(c)
  <2> DEFINE x == IF j.mode = "truncate" /\ index.backfill >= j.mx /\ Marks(index) = {}
                  THEN "restart" ELSE "end"
  <2>1. pc' = [pc EXCEPT ![c] = x] /\ UNCHANGED <<main, index, conn, job, history>>
    BY <1>1, Zenon DEF AskToRestart, Goto
  <2>2. x \notin Copying /\ (x = "restart" => Marks(index) = {})
    BY DEF Copying
  <2> HIDE DEF x
  <2>3. x = "restart" => conn[c].mark = None
    BY <1>0, <2>2, Unread DEF PinInv, Marked
  <2>4. \A d \in Conn : /\ pc'[d] \in Copying => pc[d] \in Copying
                        /\ pc'[d] = "restart" => pc[d] = "restart" \/ conn[d].mark = None
    BY <1>0, <2>1, <2>2, <2>3 DEF Types
  <2> QED
    BY <1>0, <2>1, <2>4, StillStep, Zenon
<1>2. CASE RestartLog(c)
  <2>1. /\ pc[c] = "restart" /\ pc' = [pc EXCEPT ![c] = "end"] /\ index' = RestartHdr(index)
    BY <1>2, Zenon DEF RestartLog, At, Goto
  <2>2. index'.readers = index.readers
    BY <1>0, <2>1, RestartIs
  <2>3. /\ conn[c].mark = None /\ \A d \in Conn : conn'[d].mark = conn[d].mark
        /\ \A d \in Conn \ {c} : conn[d].mark # None => conn'[d].view = 0
    BY <1>2, <2>1, DroppedViews DEF PinInv
  <2>4. Marked' = Marked /\ Marked \subseteq Conn
    BY <2>3 DEF Marked
  <2>5. Pinned' = {}
    BY <2>3 DEF Pinned, Marked
  <2>6. Registered'
    <3>1. Entered(Marked, conn, index.readers)
      BY Zenon DEF PinInv, Registered
    <3>2. Entered(Marked, conn', index.readers)
      BY <2>3, <2>4, <3>1 DEF Entered
    <3> QED
      BY <2>2, <2>4, <3>2, Zenon DEF Registered
  <2>7. ASSUME NEW d \in Conn, pc'[d] = "restart"
        PROVE  conn'[d].mark = None
    <3>1. pc[d] = "restart"
      BY <1>0, <2>1, <2>7 DEF Types
    <3> QED
      BY <2>3, <3>1 DEF PinInv
  <2> QED
    BY <2>5, <2>6, <2>7, Zenon DEF PinInv
<1>3. CASE EndCheckpoint(c)
  <2> DEFINE k == [conn[c] EXCEPT
                     !.held = IF j.took THEN j.entry ELSE @,
                     !.snapshot = IF conn[c].mark = None THEN MxFrame(index) ELSE @,
                     !.dbSize = IF conn[c].mark = None /\ j.size # 0 THEN j.size ELSE @,
                     !.view = IF conn[c].mark = None THEN Len(history) ELSE @]
  <2>1. /\ conn' = [conn EXCEPT ![c] = k] /\ pc' = [pc EXCEPT ![c] = "idle"]
        /\ job' = [job EXCEPT ![c] = NoJob] /\ UNCHANGED <<main, index, history>>
        /\ "idle" \notin Busy
    BY <1>3, Zenon DEF EndCheckpoint, Set, Goto, Busy, Copying
  <2>2. k.mark = conn[c].mark /\ (k.mark # None => Same(conn[c], k))
    <3> DEFINE h == IF j.took THEN j.entry ELSE conn[c].held
               s == IF conn[c].mark = None THEN MxFrame(index) ELSE conn[c].snapshot
               z == IF conn[c].mark = None /\ j.size # 0 THEN j.size ELSE conn[c].dbSize
               v == IF conn[c].mark = None THEN Len(history) ELSE conn[c].view
    <3>1. k = [conn[c] EXCEPT !.held = h, !.snapshot = s, !.dbSize = z, !.view = v]
      OBVIOUS
    <3>2. conn[c].mark # None => s = conn[c].snapshot /\ z = conn[c].dbSize /\ v = conn[c].view
      OBVIOUS
    <3> HIDE DEF h, s, z, v, k, j
    <3>3. k.mark = conn[c].mark /\ k.snapshot = s /\ k.dbSize = z /\ k.view = v
      BY <1>0, <3>1, Zenon DEF WalConn
    <3> QED
      BY <3>2, <3>3 DEF Same
  <2> HIDE DEF k
  <2>3. \A d \in Conn : /\ pc'[d] \in Copying => pc[d] \in Copying /\ job'[d] = job[d]
                        /\ pc'[d] = "restart" => pc[d] = "restart"
    BY <1>0, <2>1 DEF Types, Busy
  <2>4. \A d \in Conn : pc'[d] \in Copying =>
          /\ pc[d] \in Copying
          /\ job'[d].safe = job[d].safe /\ job'[d].mx = job[d].mx /\ job'[d].size = job[d].size
    BY <2>3
  <2> QED
    BY <1>0, <2>1, <2>2, <2>3, <2>4, StillStep, Zenon
<1> QED
  BY <1>1, <1>2, <1>3

\* The safe mark of a checkpoint is at most every registered reader's, and the
\* size it will cut the main file to spares them.
LEMMA Spares ==
  ASSUME Bounds, WalInv, PinInv, NEW j \in Job, index.backfill < j.safe,
         j.mx = Len(index.log), j.safe <= j.mx, j.size = FullDbSize(index),
         Marks(index) # {} => j.safe <= Least(Marks(index)), NEW c \in Pinned
  PROVE  SparedBy(conn[c], j, index.log, history)
<1>1. /\ index \in Index /\ index.backfill \in Nat /\ Len(index.log) \in Nat /\ j.safe \in Nat
      /\ conn[c].mark \in Nat /\ index.readers \in Seq(Nat)
  BY DEF WalInv, Types, Index, Job, Pinned, Marked, WalConn
<1>2. conn[c].mark \in Marks(index) /\ Marks(index) \in SUBSET Nat
  <2>1. \E i \in 1 .. Len(index.readers) : index.readers[i] = conn[c].mark
    <3>1. PICK f \in [Marked -> 1 .. Len(index.readers)] :
            \A d \in Marked : index.readers[f[d]] = conn[d].mark
      BY DEF PinInv, Registered, Entered
    <3>2. c \in Marked
      BY DEF Pinned
    <3>3. f[c] \in 1 .. Len(index.readers) /\ index.readers[f[c]] = conn[c].mark
      BY <3>1, <3>2
    <3> QED
      BY <3>3
  <2> QED
    BY <1>1, <2>1 DEF Marks
<1>3. j.safe <= conn[c].mark
  <2>1. Least(Marks(index)) \in Nat /\ Least(Marks(index)) <= conn[c].mark
    BY <1>2, LeastIn
  <2> QED
    BY <1>1, <1>2, <2>1
<1>4. /\ j.size = SizeOf(Last) /\ SizeOf(Last) \in Page
      /\ \A p \in Page : Last[p] # None <=> p <= SizeOf(Last)
  <2>1. Len(index.log) # 0
    BY <1>1
  <2>2. WalInv => Types /\ Images /\ LogOK
    BY DEF WalInv
  <2>3. FullDbSize(index) = SizeOf(Last)
    BY <2>1, <2>2, SizesSeen
  <2>4. SizeOf(Last) \in Page /\ \A p \in Page : Last[p] # None <=> p <= SizeOf(Last)
    BY <2>2, LastWhole
  <2> QED
    BY <2>3, <2>4
<1>5. ASSUME NEW p \in Page, j.size < p, history[conn[c].view][p] # None
      PROVE  \E i \in 1 .. conn[c].mark : index.log[i].page = p
  <2>1. Last[p] = None
    BY <1>4, <1>5 DEF Page, Bounds
  <2>2. main[p] = None
    BY <2>1, Zenon DEF WalInv, LogOK, LogIs
  <2>3. Shows(index.log, main, conn[c].mark, history[conn[c].view])
    BY Zenon DEF PinInv, PinIs
  <2> QED
    BY <1>5, <2>2, <2>3, Zenon DEF Shows
<1> QED
  BY <1>3, <1>5, Zenon DEF SparedBy

\* A checkpoint starts.
LEMMA PinStart ==
  ASSUME Bounds, WalInv, WalInv', PinInv, NEW c \in Conn, NEW mode \in Modes,
         StartCheckpoint(c, mode)
  PROVE  PinInv'
<1> DEFINE took == mode # "passive" /\ conn[c].held < Reserved /\ CanLock(c, Reserved)
           mx   == MxFrame(index)
           safe == IF Marks(index) = {} \/ Least(Marks(index)) > mx THEN mx ELSE Least(Marks(index))
           q    == Revalidated(conn[c])
           k    == IF took THEN [q EXCEPT !.held = Reserved] ELSE q
           j    == job'[c]
           x    == IF index.backfill < safe THEN "collect" ELSE "finish"
<1>0. conn[c] \in WalConn /\ Types /\ Types' /\ index \in Index
  BY AtRest DEF WalInv
<1>1. /\ conn' = [conn EXCEPT ![c] = k] /\ pc' = [pc EXCEPT ![c] = x]
      /\ job' = [job EXCEPT ![c] = j]
      /\ UNCHANGED <<main, index, history>>
  <2>1. j = job'[c] /\ \E i : job' = [job EXCEPT ![c] = i]
    BY Zenon DEF StartCheckpoint
  <2>2. job' = [job EXCEPT ![c] = j]
    BY <1>0, <2>1 DEF Types
  <2> QED
    BY <2>2, Zenon DEF StartCheckpoint, Set, Goto
<1>2. j.mx = mx /\ j.safe = safe /\ j.size = FullDbSize(index)
  BY <1>0, Zenon DEF StartCheckpoint, Types
<1>3. x \in Checkpointing /\ (x \in Copying => index.backfill < safe) /\ x # "restart"
  BY DEF Checkpointing, Copying
<1>4. j \in Job
  <2>1. pc'[c] \in Checkpointing
    BY <1>0, <1>1, <1>3 DEF Types
  <2> QED
    BY <2>1 DEF WalInv, JobOK
<1>5. k.mark = conn[c].mark /\ (k.mark # None => Same(conn[c], k))
  <2>1. q \in WalConn /\ q.mark = conn[c].mark /\ (q.mark # None => q = conn[c])
    BY <1>0, RevalidatedIs
  <2> HIDE DEF q, took
  <2>2. Same(q, [q EXCEPT !.held = Reserved])
    BY <2>1, Zenon DEF Same, WalConn
  <2> QED
    BY <2>1, <2>2 DEF Same
<1>6. /\ mx = Len(index.log) /\ safe <= mx
      /\ Marks(index) # {} => safe <= Least(Marks(index))
  <2>1. mx = Len(index.log) /\ mx \in Nat
    BY <1>0 DEF MxFrame, Index
  <2>2. Marks(index) \in SUBSET Nat
    BY <1>0 DEF Marks, Index
  <2>3. Marks(index) # {} => Least(Marks(index)) \in Nat
    BY <2>2, LeastIn
  <2> QED
    BY <2>1, <2>3
<1> HIDE DEF k, j, x, mx, safe, took
<1>7. /\ conn'[c] = k /\ pc'[c] = x
      /\ \A d \in Conn \ {c} : conn'[d] = conn[d] /\ pc'[d] = pc[d] /\ job'[d] = job[d]
  BY <1>0, <1>1 DEF Types
<1>8. \A d \in Conn : conn'[d].mark = conn[d].mark /\ (conn[d].mark # None => Same(conn[d], conn'[d]))
  BY <1>5, <1>7 DEF Same
<1>9. Marked' = Marked /\ Marked \subseteq Conn /\ Pinned' = Pinned /\ Pinned \subseteq Marked
  BY <1>8 DEF Pinned, Marked, Same
<1>10. Registered'
  <2>1. Entered(Marked, conn', index.readers)
    BY <1>8, <1>9 DEF PinInv, Registered, Entered
  <2> QED
    BY <1>1, <1>9, <2>1, Zenon DEF Registered
<1>11. /\ index.log \in Seq(Entry) /\ history \in Seq(Pic)
       /\ Extended(index.log, index.log) /\ Extended(history, history)
  <2>1. index.log \in Seq(Entry) /\ history \in Seq(Pic)
    BY <1>0 DEF Types, Index
  <2> QED
    BY <2>1, Itself
<1>12. ASSUME NEW d \in Pinned
       PROVE  /\ PinIs(conn'[d], index.log, main, history)
              /\ x \in Copying => SparedBy(conn'[d], j, index.log, history)
              /\ \A e \in Conn : pc[e] \in Copying => SparedBy(conn'[d], job[e], index.log, history)
  <2>1. /\ PinIs(conn[d], index.log, main, history) /\ Same(conn[d], conn'[d])
        /\ Shows(index.log, main, conn[d].mark, history[conn[d].view])
        /\ conn[d].mark \in Nat
    <3>1. conn[d].mark \in Nat
      BY <1>0 DEF Types, WalConn, Pinned, Marked
    <3> QED
      BY <1>8, <3>1, Zenon DEF PinInv, PinIs, Pinned, Marked
  <2>2. PinIs(conn'[d], index.log, main, history)
    BY <1>11, <2>1, PinKept, Zenon
  <2>3. ASSUME x \in Copying
        PROVE  SparedBy(conn'[d], j, index.log, history)
    <3>1. SparedBy(conn[d], j, index.log, history)
      BY <1>2, <1>3, <1>4, <1>6, <2>3, Spares
    <3> QED
      BY <1>11, <2>1, <3>1, SparedKept, Zenon DEF Alike
  <2>4. ASSUME NEW e \in Conn, pc[e] \in Copying
        PROVE  SparedBy(conn'[d], job[e], index.log, history)
    <3>1. SparedBy(conn[d], job[e], index.log, history)
      BY <2>4, Zenon DEF PinInv
    <3> QED
      BY <1>11, <2>1, <3>1, SparedKept DEF Alike
  <2> QED
    BY <2>2, <2>3, <2>4
<1>13. ASSUME NEW d \in Pinned', NEW e \in Conn, pc'[e] \in Copying
       PROVE  SparedBy(conn'[d], job'[e], index'.log, history')
  <2>1. CASE e = c
    BY <1>1, <1>7, <1>9, <1>12, <1>13, <2>1 DEF j
  <2>2. CASE e # c
    BY <1>1, <1>7, <1>9, <1>12, <1>13, <2>2
  <2> QED
    BY <2>1, <2>2
<1>14. \A d \in Pinned' : PinIs(conn'[d], index'.log, main', history')
  BY <1>1, <1>9, <1>12, Zenon
<1>15. ASSUME NEW d \in Conn, pc'[d] = "restart"
       PROVE  conn'[d].mark = None
  BY <1>3, <1>7, <1>15, Zenon DEF PinInv
<1> QED
  BY <1>10, <1>13, <1>14, <1>15, Zenon DEF PinInv

\* Every step keeps what registered readers rely on.
LEMMA PinStep ==
  ASSUME Bounds, WalInv, WalInv', PinInv, NEW c \in Conn, Read(c) \/ Write(c) \/ Checkpoint(c)
  PROVE  PinInv'
<1>1. CASE Read(c)
  BY <1>1, PinRead
<1>2. CASE Write(c)
  BY <1>2, PinWrite, PinRelease, PinCommit DEF Write
<1>3. CASE Checkpoint(c)
  BY <1>3, PinCopy, PinEnds, PinStart DEF Checkpoint
<1> QED
  BY <1>1, <1>2, <1>3

\* No reader is registered at first.
LEMMA InitPin ==
  ASSUME Init
  PROVE  PinInv
<1>1. Marked = {} /\ Pinned = {}
  BY DEF Init, Pinned, Marked
<1>2. Registered
  <2>1. [c \in {} |-> 1] \in [{} -> 1 .. Len(index.readers)]
    OBVIOUS
  <2> QED
    BY <1>1, <2>1, Zenon DEF Registered, Entered
<1>3. \A c \in Conn : pc[c] # "restart"
  BY DEF Init
<1> QED
  BY <1>1, <1>2, <1>3 DEF PinInv

-----------------------------------------------------------------------------
(***************************************************************************)
(* The theorems                                                            *)
(***************************************************************************)

\* A checkpoint starts to copy only from where it starts.
LEMMA CopyFrom ==
  ASSUME WalInv, NEW c \in Conn, Read(c) \/ Write(c) \/ Checkpoint(c), pc'[c] \in Copying
  PROVE  pc[c] \in Copying \/ (pc[c] = "idle" /\ pc'[c] = "collect")
<1>0. pc \in [Conn -> Labels] /\ {"idle", "reading", "writing", "append", "finish", "restart", "end"}
                                    \cap Copying = {}
  BY DEF WalInv, Types, Copying
<1>1. CASE Read(c)
  BY <1>0, <1>1 DEF Read, StartSelect, EndSelect, Begin, ReadInTransaction, At, Goto
<1>2. CASE Write(c)
  <2>1. pc[c] \in {"idle", "writing", "append"} /\ pc'[c] \in {"idle", "writing", "append"}
    BY <1>0, <1>2, Zenon DEF Write, StartWrite, AllocatePage, EndWrite, Rollback, CommitNothing, StartCommit,
                      EndCommit, WritePage, Committing, At, Goto
  <2> QED
    BY <1>0, <2>1
<1>3. CASE Checkpoint(c)
  <2>1. CASE \E mode \in Modes : StartCheckpoint(c, mode)
    BY <1>0, <2>1 DEF StartCheckpoint, At, Goto
  <2>2. CASE CollectPages(c) \/ CopyPages(c) \/ PublishBackfill(c)
    BY <2>2 DEF CollectPages, CopyPages, PublishBackfill, At, Copying
  <2>3. CASE AskToRestart(c) \/ RestartLog(c) \/ EndCheckpoint(c)
    BY <1>0, <2>3 DEF AskToRestart, RestartLog, EndCheckpoint, Goto
  <2> QED
    BY <1>3, <2>1, <2>2, <2>3 DEF Checkpoint
<1> QED
  BY <1>1, <1>2, <1>3

\* Every step moves one connection.
LEMMA OneMoves ==
  ASSUME WalInv, NEW c \in Conn, Read(c) \/ Write(c) \/ Checkpoint(c)
  PROVE  \A d \in Conn \ {c} : pc'[d] = pc[d]
<1>1. pc' = pc \/ \E x : pc' = [pc EXCEPT ![c] = x]
  <2>1. CASE Read(c)
    BY <2>1, Zenon DEF Read, StartSelect, EndSelect, Begin, ReadInTransaction, Goto
  <2>2. CASE Write(c)
    BY <2>2, Zenon DEF Write, StartWrite, AllocatePage, EndWrite, Rollback, CommitNothing,
                       StartCommit, EndCommit, WritePage, Goto
  <2>3. CASE Checkpoint(c)
    BY <2>3, Zenon DEF Checkpoint, StartCheckpoint, CollectPages, CopyPages, PublishBackfill,
                       AskToRestart, RestartLog, EndCheckpoint, Goto
  <2> QED
    BY <2>1, <2>2, <2>3
<1>2. pc \in [Conn -> Labels]
  BY DEF WalInv, Types
<1> QED
  BY <1>1, <1>2

\* A checkpoint that copies at the same time as another is a lapse.
LEMMA ApartStep ==
  ASSUME WalInv, Apart, NEW c \in Conn, Read(c) \/ Write(c) \/ Checkpoint(c), ~SecondCopy(c)
  PROVE  Apart'
<1>1. \A d \in Conn \ {c} : pc'[d] = pc[d]
  BY OneMoves
<1>2. ASSUME NEW d \in Conn \ {c}, pc'[c] \in Copying, pc'[d] \in Copying
      PROVE  FALSE
  <2>1. pc[d] \in Copying
    BY <1>1, <1>2
  <2>2. pc[c] \in Copying \/ (pc[c] = "idle" /\ pc'[c] = "collect")
    BY <1>2, CopyFrom
  <2> QED
    BY <2>1, <2>2 DEF Apart, SecondCopy, At
<1> QED
  BY <1>1, <1>2 DEF Apart

\* A pinned reader that goes on to write without a lapse has the newest image.
LEMMA FreshUpgrade ==
  ASSUME WalInv, PinInv, NEW c \in Conn, StartWrite(c), ~StaleUpgrade(c),
         conn[c].mark # None, conn[c].held < Reserved
  PROVE  /\ conn[c].view = Len(history) /\ conn[c].dbSize = SizeOf(Last)
         /\ conn[c].pageCount = conn[c].dbSize
<1>1. pc[c] = "idle" /\ pc'[c] = "writing"
  BY DEF StartWrite, At, Goto, WalInv, Types
<1>2. conn[c].view = Len(history) /\ conn[c].pageCount = conn[c].dbSize
  BY <1>1 DEF StaleUpgrade, At
<1>3. Len(history) > 0
  BY DEF WalInv, Types
<1>4. c \in Pinned
  BY <1>2, <1>3 DEF Pinned, Marked
<1>5. conn[c].dbSize = SizeOf(history[conn[c].view])
  BY <1>4, Zenon DEF PinInv, PinIs
<1> QED
  BY <1>2, <1>5 DEF Last

\* Every step but a lapse keeps the invariant.
LEMMA InvStep ==
  ASSUME Bounds, WalInv, Apart, PinInv, NEW c \in Conn, Read(c) \/ Write(c) \/ Checkpoint(c),
         ~StaleUpgrade(c)
  PROVE  WalInv'
<1>1. CASE Read(c)
  BY <1>1, ReadSteps DEF Read
<1>2. CASE StartWrite(c)
  BY <1>2, FreshUpgrade, StartWriteStep
<1>3. CASE Write(c) /\ ~StartWrite(c)
  BY <1>3, OverlaySteps, ReleaseSteps, EndWriteStep, StartCommitStep, EndCommitStep DEF Write
<1>4. CASE Checkpoint(c)
  BY <1>4, CopySteps, RestartSteps, StartCheckpointStep, EndCheckpointStep DEF Checkpoint
<1> QED
  BY <1>1, <1>2, <1>3, <1>4

\* The inductive invariant as a whole.
IInv == WalInv /\ Apart /\ PinInv

LEMMA Inductive ==
  ASSUME Bounds, Sound => IInv, [Next]_vars, Sound'
  PROVE  IInv'
<1>1. CASE UNCHANGED vars
  <2>1. /\ main' = main /\ index' = index /\ locks' = locks /\ conn' = conn
        /\ inTx' = inTx /\ pc' = pc /\ job' = job /\ history' = history /\ lapses' = lapses
    BY <1>1 DEF vars
  <2>2. IInv
    BY <2>1 DEF Sound
  <2>3. Types' /\ Images' /\ LogOK' /\ LockOK' /\ Last' = Last
    BY <2>1, <2>2 DEF IInv, WalInv, Types, Images, LogOK, Last, LockOK, Holds
  <2>4. \A c \in Conn : /\ WriterOK(c)' <=> WriterOK(c)
                        /\ JobOK(c)' <=> JobOK(c)
                        /\ CopyOK(c)' <=> CopyOK(c)
    BY <2>1, <2>3, Zenon DEF WriterOK, Holds, Borrowed, JobOK, CopyOK
  <2>5. WalInv'
    BY <2>1, <2>2, <2>3, <2>4 DEF IInv, WalInv
  <2>6. Apart' /\ PinInv'
    BY <2>1, <2>2, Zenon DEF IInv, Apart, PinInv, Registered, Pinned, Marked
  <2> QED
    BY <2>5, <2>6 DEF IInv
<1>2. CASE Next
  <2>1. PICK c \in Conn : (Read(c) \/ Write(c) \/ Checkpoint(c)) /\ lapses' = lapses \cup Lapses(c)
    BY <1>2 DEF Next
  <2>2. lapses = {} /\ Lapses(c) = {}
    BY <2>1 DEF Sound
  <2>3. ~StaleUpgrade(c) /\ ~SecondCopy(c)
    BY <2>2, Zenon DEF Lapses
  <2>4. WalInv /\ Apart /\ PinInv
    BY <2>2 DEF Sound, IInv
  <2>5. WalInv'
    BY <2>1, <2>3, <2>4, InvStep
  <2>6. PinInv'
    BY <2>1, <2>4, <2>5, PinStep
  <2>7. Apart'
    BY <2>1, <2>3, <2>4, ApartStep
  <2> QED
    BY <2>5, <2>6, <2>7 DEF IInv
<1> QED
  BY <1>1, <1>2

LEMMA Initially ==
  ASSUME Bounds, Init
  PROVE  IInv
<1>1. Apart
  BY DEF Init, Apart, Copying
<1> QED
  BY <1>1, InitInv, InitPin DEF IInv

\* No commit is lost, for any number of connections, pages and commits, as long as
\* no transaction has written on a stale snapshot and no two checkpoints have copied
\* at the same time: the log over the main file is the newest committed image,
\* nBackfill covers only what the main file has, and a writer builds on the newest
\* commit (commit_wal, checkpoint_locked, restart_hdr, refresh_foreign_state).
THEOREM WalKeepsCommits ==
  ASSUME Bounds
  PROVE  Spec => []NothingLost
<1>1. Init => (Sound => IInv)
  BY Initially
<1>2. (Sound => IInv) /\ [Next]_vars => (Sound => IInv)'
  BY Inductive
<1>3. (Sound => IInv) => NothingLost
  BY InvNewestKept, InvBackfilled, InvWritesOnNewest DEF NothingLost, IInv
<1> QED
  BY <1>1, <1>2, <1>3, PTL DEF Spec

\* A transaction that has read (begin_read_txn) reads the same image to its end,
\* whatever the others commit and checkpoint, for any number of connections, pages
\* and commits, up to the first lapse; the exception of RepeatableRead is for
\* TRUNCATE, which asks for readers and restarts the log in two accesses to the index.
THEOREM WalRepeatableRead ==
  ASSUME Bounds
  PROVE  Spec => []RepeatableRead
<1>1. Init => (Sound => IInv)
  BY Initially
<1>2. (Sound => IInv) /\ [Next]_vars => (Sound => IInv)'
  BY Inductive
<1>3. (Sound => IInv) => RepeatableRead
  <2>1. IInv => RepeatableRead
    BY InvRepeatableRead DEF IInv
  <2>2. ~Sound => RepeatableRead
    BY DEF RepeatableRead
  <2> QED
    BY <2>1, <2>2
<1> QED
  BY <1>1, <1>2, <1>3, PTL DEF Spec

=============================================================================
