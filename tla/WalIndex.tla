----------------------------- MODULE WalIndex ------------------------------
(***************************************************************************)
(* The shared wal-index of one file (struct WalIndex of pager/wal.rs) as a *)
(* value ix = [log, backfill, readers].  The high-water mark mx_frame is    *)
(* the length of the log: append, seed, restart_hdr and reset keep the two *)
(* equal.  The generation is left out: the code bumps it on every restart  *)
(* and never compares it.  A frame is [page, size, data]; size is the      *)
(* database size on the last frame of a commit and 0 on the others.        *)
(***************************************************************************)
EXTENDS Naturals, Sequences

MxFrame(ix) == Len(ix.log)

Frames(ix, from, to) == {i \in DOMAIN ix.log : from < i /\ i <= to}

\* The last of a non-empty set of frame numbers
Newest(frames) == CHOOSE i \in frames : \A j \in frames : j <= i

FramesOf(ix, p, from, to) == {i \in Frames(ix, from, to) : ix.log[i].page = p}

\* find_frame answers Some for page p at snapshot mx ...
InLog(ix, p, mx) == FramesOf(ix, p, 0, mx) # {}

\* ... with these bytes.
FindFrame(ix, p, mx) == ix.log[Newest(FramesOf(ix, p, 0, mx))].data

CommitFrames(ix, mx) == {i \in Frames(ix, 0, mx) : ix.log[i].size # 0}

\* snapshot_db_size, with `main` for the page count of the main file that
\* every caller falls back to.
SnapshotDbSize(ix, mx, main) ==
  IF CommitFrames(ix, mx) = {} THEN main ELSE ix.log[Newest(CommitFrames(ix, mx))].size

\* full_db_size
FullDbSize(ix) == SnapshotDbSize(ix, MxFrame(ix), 0)

\* min_reader_mark: the set is empty for None.
Marks(ix) == {ix.readers[i] : i \in DOMAIN ix.readers}
Least(marks) == CHOOSE m \in marks : \A n \in marks : m <= n

RegisterReader(ix, mx) == [ix EXCEPT !.readers = Append(@, mx)]

\* unregister_reader removes one entry with that mark (swap_remove).
UnregisterReader(ix, mx) ==
  IF mx \notin Marks(ix) THEN ix
  ELSE LET n == Len(ix.readers)
           i == CHOOSE i \in 1 .. n : ix.readers[i] = mx /\ \A j \in 1 .. i - 1 : ix.readers[j] # mx
       IN  [ix EXCEPT !.readers = SubSeq([@ EXCEPT ![i] = ix.readers[n]], 1, n - 1)]

\* backfill_pages: of the frames not yet backfilled, the newest of each page,
\* unless it lies beyond the safe mark.
BackfillPages(ix, safe) ==
  {ix.log[i] : i \in {i \in Frames(ix, ix.backfill, safe) :
                        i = Newest(FramesOf(ix, ix.log[i].page, ix.backfill, MxFrame(ix)))}}

SetBackfill(ix, n) == IF n > ix.backfill THEN [ix EXCEPT !.backfill = n] ELSE ix

\* restart_hdr; the salts belong to the -wal file.
RestartHdr(ix) == [ix EXCEPT !.log = <<>>, !.backfill = 0]

\* append, once per frame of a commit
AppendFrames(ix, frames) == [ix EXCEPT !.log = @ \o frames]

=============================================================================
