------------------------------ MODULE Fts5Segment ------------------------------
(***************************************************************************)
(* The byte layout of a segment of the full-text index (fts5_index.rs).   *)
(* A segment is a run of leaf pages.  The writer appends term records and  *)
(* doclists and cuts them at the page size, so a doclist, and even the     *)
(* position list of one document, may cross several leaves; the reader     *)
(* has to find the joints again.  The model keeps the bytes: a term is a   *)
(* sequence of bytes, a varint of a value below 128 is one byte, and the   *)
(* four header bytes of a leaf are its fields `first` and `footer`.        *)
(*                                                                         *)
(* A posting is [rowid, cols, del]: the ascending token positions of the   *)
(* term in each column, and whether it is a delete marker.                 *)
(***************************************************************************)
EXTENDS Naturals, Sequences, SequencesExt, FiniteSetsExt

CONSTANTS
    Inputs      \* the segments to write: records [terms, prefixes, merge, detail, pgsz]

VARIABLES
    input,      \* the segment being written
    w,          \* the SegWriter
    todo,       \* the keys not added yet: a sequence of [key, posts]
    posts,      \* the postings of the current key not appended yet
    finished    \* whether `finish` has run

vars == <<input, w, todo, posts, finished>>

MainPrefix == 48
HeaderLen  == 4
MinDlidxSize == 4

Bail == "bail"

-----------------------------------------------------------------------------
(* Encoding one posting. *)

Collist(ps) == [i \in 1..Len(ps) |-> 2 + IF i = 1 THEN ps[1] ELSE ps[i] - ps[i - 1]]

Bit(b) == IF b THEN 1 ELSE 0

HasContent(p) == \E c \in DOMAIN p.cols : p.cols[c] # <<>>

Poslist(p, detail) ==
    LET sized(content) == <<2 * Len(content) + Bit(p.del)>> \o content
        present == SelectSeq([c \in 1..Len(p.cols) |-> c], LAMBDA c : p.cols[c] # <<>>)
        column(c) == (IF c = 1 THEN <<>> ELSE <<1, c - 1>>) \o Collist(p.cols[c])
    IN  CASE detail = "full"    -> sized(FlattenSeq([i \in 1..Len(present) |-> column(present[i])]))
          [] detail = "columns" -> sized(Collist([i \in 1..Len(present) |-> present[i] - 1]))
          [] detail = "none"    -> IF ~p.del THEN <<>>
                                   ELSE IF HasContent(p) THEN <<0, 0>> ELSE <<0>>

-----------------------------------------------------------------------------
(* SegWriter. *)

NewWriter ==
    [leaves |-> <<>>, idx |-> <<>>, body |-> <<>>, offs |-> <<>>, first |-> 0,
     prevKey |-> <<>>, prevRowid |-> 0, leafFirst |-> <<>>, leafLast |-> <<>>,
     prevLast |-> <<>>, pgno |-> 1, start |-> 1, span |-> <<>>, dlidx |-> <<>>,
     firstInPage |-> TRUE, firstInDoclist |-> TRUE, panicked |-> FALSE]

CommonPrefix(s, t) ==
    Max({0} \cup {n \in 1..Len(s) : n <= Len(t) /\ SubSeq(s, 1, n) = SubSeq(t, 1, n)})

Separator(prevLast, first) ==
    SubSeq(first, 1, 1 + Min({CommonPrefix(prevLast, first), Len(first) - 1}))

Used(x) == HeaderLen + Len(x.body) + Len(x.offs)

FinishLeaf(x) == [first |-> x.first, footer |-> HeaderLen + Len(x.body),
                  body |-> x.body, offs |-> x.offs]

FlushSamePage(x) ==
    [x EXCEPT !.leaves = Append(@, FinishLeaf(x)),
              !.idx = IF x.leafFirst = <<>> THEN @
                      ELSE Append(@, [term |-> IF x.prevLast = <<>> THEN <<>>
                                               ELSE Separator(x.prevLast, x.leafFirst),
                                      pgno |-> x.pgno, dlidx |-> FALSE]),
              !.prevLast = IF x.leafLast = <<>> THEN @ ELSE x.leafLast,
              !.leafFirst = <<>>, !.leafLast = <<>>, !.body = <<>>, !.offs = <<>>,
              !.first = 0, !.prevKey = <<>>, !.prevRowid = 0, !.pgno = @ + 1]

Flush(x) ==
    [x EXCEPT !.leaves = Append(@, FinishLeaf(x)),
              !.idx = IF x.leafFirst = <<>> THEN @
                      ELSE Append(@, [term |-> IF x.prevLast = <<>> THEN <<>>
                                               ELSE Separator(x.prevLast, x.leafFirst),
                                      pgno |-> x.pgno, dlidx |-> FALSE]),
              !.prevLast = IF x.leafLast = <<>> THEN @ ELSE x.leafLast,
              !.leafFirst = <<>>, !.leafLast = <<>>, !.body = <<>>, !.offs = <<>>,
              !.first = 0, !.prevKey = <<>>, !.prevRowid = 0, !.pgno = @ + 1,
              !.firstInPage = TRUE]

(* The varint is absolute for the first rowid of a doclist and of a page.  *)
AppendRowid(x, rowid, start, merge, pgsz) ==
    LET y == IF merge /\ Used(x) >= pgsz THEN Flush(x) ELSE x
    IN  [y EXCEPT !.first = IF y.firstInPage THEN HeaderLen + Len(y.body) ELSE @,
                  !.span = IF y.firstInPage /\ y.pgno # start
                           THEN Append(@, y.pgno) ELSE @,
                  !.body = Append(@, IF y.firstInDoclist \/ y.firstInPage THEN rowid
                                     ELSE rowid - y.prevRowid),
                  !.prevRowid = rowid, !.firstInDoclist = FALSE, !.firstInPage = FALSE]

PoslistPrefix(n, max) == IF 1 < max THEN Min({max, n}) ELSE 1

RECURSIVE CopyMerging(_, _, _)
CopyMerging(x, data, pgsz) ==
    IF Used(x) + Len(data) < pgsz THEN [x EXCEPT !.body = @ \o data]
    ELSE LET n == Min({Len(data), IF pgsz > Used(x) THEN pgsz - Used(x) ELSE 0})
         IN  CopyMerging(Flush([x EXCEPT !.body = @ \o SubSeq(data, 1, n)]),
                         SubSeq(data, n + 1, Len(data)), pgsz)

(* An empty position list (detail=none) behind a rowid that overran the    *)
(* page asks poslist_prefix for a first byte that is not there: the slice  *)
(* is out of range and the write panics.                                   *)
RECURSIVE CopySplitting(_, _, _)
CopySplitting(x, data, pgsz) ==
    IF data = <<>> THEN [x EXCEPT !.panicked = TRUE]
    ELSE
    LET n == IF Used(x) + Len(data) <= pgsz THEN Len(data)
             ELSE PoslistPrefix(Len(data), IF pgsz > Used(x) THEN pgsz - Used(x) ELSE 0)
        y == [x EXCEPT !.body = @ \o SubSeq(data, 1, n)]
        z == IF Used(y) >= pgsz THEN Flush(y) ELSE y
    IN  IF n = Len(data) THEN z ELSE CopySplitting(z, SubSeq(data, n + 1, Len(data)), pgsz)

AppendPoslistData(x, data, merge, pgsz) ==
    IF merge THEN CopyMerging(x, data, pgsz)
    ELSE IF Used(x) + Len(data) <= pgsz THEN [x EXCEPT !.body = @ \o data]
    ELSE CopySplitting(x, data, pgsz)

(* The merge writer never splits the size field from what precedes it.     *)
AppendPoslist(x, data, merge, pgsz) ==
    IF ~merge THEN AppendPoslistData(x, data, merge, pgsz)
    ELSE LET y == [x EXCEPT !.body = @ \o SubSeq(data, 1, Min({1, Len(data)}))]
         IN  IF Len(data) <= 1 THEN y ELSE AppendPoslistData(y, Tail(data), merge, pgsz)

TermRecord(prevKey, key) ==
    IF prevKey = <<>> THEN <<Len(key)>> \o key
    ELSE LET n == CommonPrefix(key, prevKey)
         IN  <<n, Len(key) - n>> \o SubSeq(key, n + 1, Len(key))

(* A doclist that starts on enough later leaves gets a doclist index, and  *)
(* the %_idx row of its first leaf is flagged.                             *)
FinishTermDlidx(x, start) ==
    IF x.span = <<>> \/ Last(x.span) - start < MinDlidxSize THEN [x EXCEPT !.span = <<>>]
    ELSE [x EXCEPT !.dlidx = Append(@, x.span), !.span = <<>>,
                   !.idx = [i \in DOMAIN @ |-> [@[i] EXCEPT !.dlidx = @ \/ x.idx[i].pgno = start]]]

StartKey(x, key, pgsz) ==
    LET a == IF Used(x) + Len(key) + 2 >= pgsz /\ x.body # <<>> THEN Flush(x) ELSE x
    IN  [a EXCEPT !.offs = Append(@, HeaderLen + Len(a.body)),
                  !.leafFirst = IF @ = <<>> THEN key ELSE @,
                  !.leafLast = key,
                  !.body = @ \o TermRecord(a.prevKey, key),
                  !.prevKey = key, !.firstInPage = FALSE, !.firstInDoclist = TRUE,
                  !.start = a.pgno, !.span = <<>>, !.prevRowid = 0]

AddPosting(x, p, merge, detail, pgsz) ==
    AppendPoslist(AppendRowid(x, p.rowid, x.start, merge, pgsz),
                  Poslist(p, detail), merge, pgsz)

-----------------------------------------------------------------------------
(* The keys of a segment: every term in the main index, then for every     *)
(* prefix length one key per distinct prefix, whose postings are the union *)
(* of the postings of the terms that have it.                              *)

Ascending(S) == SelectSeq([i \in 1..1 + Max({0} \cup S) |-> i - 1], LAMBDA n : n \in S)

PositionUnion(lists) == Ascending(UNION {ToSet(l) : l \in lists})

MergePrefixPostings(groups) ==
    LET all == UNION {ToSet(g) : g \in groups}
        rowids == Ascending({p.rowid : p \in all})
        at(r) == {p \in all : p.rowid = r}
        width(r) == Max({Len(p.cols) : p \in at(r)})
        column(r, c) == PositionUnion({p.cols[c] : p \in {q \in at(r) : c <= Len(q.cols)}})
    IN  [i \in 1..Len(rowids) |->
            [rowid |-> rowids[i], del |-> \E p \in at(rowids[i]) : p.del,
             cols |-> [c \in 1..width(rowids[i]) |-> column(rowids[i], c)]]]

BytesLess(s, t) ==
    LET n == CommonPrefix(s, t)
    IN  n < Len(t) /\ (n = Len(s) \/ s[n + 1] < t[n + 1])

PrefixKeys(terms, i, nChar) ==
    LET having(pfx) == {j \in DOMAIN terms : /\ Len(terms[j].term) >= nChar
                                             /\ SubSeq(terms[j].term, 1, nChar) = pfx}
        all == {SubSeq(terms[j].term, 1, nChar) : j \in {k \in DOMAIN terms :
                                                          Len(terms[k].term) >= nChar}}
        sorted == SetToSortSeq(all, BytesLess)
    IN  [k \in 1..Len(sorted) |->
            [key |-> <<MainPrefix + i>> \o sorted[k],
             posts |-> MergePrefixPostings({terms[j].posts : j \in having(sorted[k])})]]

SegmentKeys(terms, prefixes) ==
    [j \in 1..Len(terms) |-> [key |-> <<MainPrefix>> \o terms[j].term, posts |-> terms[j].posts]]
        \o FlattenSeq([i \in 1..Len(prefixes) |-> PrefixKeys(terms, i, prefixes[i])])

-----------------------------------------------------------------------------
(* Reading a segment back. *)

Byte(leaf, off) == leaf.body[off - HeaderLen + 1]
Bytes(leaf, from, to) == SubSeq(leaf.body, from - HeaderLen + 1, to - HeaderLen)

ParseLeaf(leaf) ==
    LET rec(acc, off) ==
          IF acc = <<>>
          THEN LET end == off + 1 + Byte(leaf, off)
               IN  <<[key |-> Bytes(leaf, off + 1, end), rec |-> off, doc |-> end]>>
          ELSE LET common == Byte(leaf, off)
                   end == off + 2 + Byte(leaf, off + 1)
               IN  Append(acc, [key |-> SubSeq(Last(acc).key, 1, common) \o Bytes(leaf, off + 2, end),
                                rec |-> off, doc |-> end])
    IN  FoldLeft(rec, <<>>, leaf.offs)

(* The runs of a doclist: to the next term record, or to the end of the    *)
(* leaf and on over the following leaves up to their first term record.    *)
GatherDoclistRuns(leaves, views, li, ti) ==
    LET bounded == ti < Len(views[li])
        firstEnd == IF bounded THEN views[li][ti + 1].rec ELSE leaves[li].footer
        firstRun == [bytes |-> Bytes(leaves[li], views[li][ti].doc, firstEnd), abs |-> TRUE]
        stops == {k \in li + 1..Len(leaves) : views[k] # <<>>}
        lastLeaf == IF bounded THEN li ELSE IF stops = {} THEN Len(leaves) ELSE Min(stops)
        boundary(k) == IF views[k] # <<>> THEN views[k][1].rec ELSE leaves[k].footer
        tailEnd(k) == IF leaves[k].first = 0 THEN boundary(k) ELSE leaves[k].first
        runs(k) == <<[bytes |-> Bytes(leaves[k], HeaderLen, tailEnd(k)), abs |-> FALSE]>>
                   \o IF leaves[k].first = 0 THEN <<>>
                      ELSE <<[bytes |-> Bytes(leaves[k], leaves[k].first, boundary(k)), abs |-> TRUE]>>
    IN  <<firstRun>> \o FlattenSeq([k \in 1..lastLeaf - li |-> runs(li + k)])

(* The positions per column from the bytes of a position list: a byte 1    *)
(* switches to the column that follows it.                                 *)
DecodeFull(content) ==
    LET pad(cols, c) == cols \o [i \in 1..(IF c > Len(cols) THEN c - Len(cols) ELSE 0) |-> <<>>]
        step(acc, b) ==
          IF acc.switch THEN [acc EXCEPT !.switch = FALSE, !.col = b + 1, !.cols = pad(@, b + 1)]
          ELSE IF b = 1 THEN [acc EXCEPT !.switch = TRUE]
          ELSE [acc EXCEPT !.cols[acc.col] =
                    Append(@, b - 2 + IF @ = <<>> THEN 0 ELSE Last(@))]
    IN  FoldLeft(step, [cols |-> << <<>> >>, col |-> 1, switch |-> FALSE], content).cols

DecodeColumns(content) ==
    LET step(acc, b) == Append(acc, b - 2 + IF acc = <<>> THEN 0 ELSE Last(acc))
        present == ToSet(FoldLeft(step, <<>>, content))
    IN  [c \in 1..Max({1} \cup {p + 1 : p \in present}) |-> IF c - 1 \in present THEN <<0>> ELSE <<>>]

DecodePoslistKeepdel(buf, pos, detail) ==
    LET zero(at) == at <= Len(buf) /\ buf[at] = 0
        end == pos + 1 + (buf[pos] \div 2)
        content == SubSeq(buf, pos + 1, end - 1)
    IN  IF detail = "none"
        THEN [cols |-> <<>>, del |-> zero(pos),
              next |-> pos + Bit(zero(pos)) + Bit(zero(pos) /\ zero(pos + 1))]
        ELSE [cols |-> IF detail = "full" THEN DecodeFull(content) ELSE DecodeColumns(content),
              del |-> buf[pos] % 2 = 1, next |-> end]

RECURSIVE DecodeFrom(_, _, _, _, _)
DecodeFrom(buf, absAt, pos, detail, done) ==
    IF pos > Len(buf) THEN done
    ELSE LET rowid == buf[pos] + IF done = <<>> \/ pos \in absAt THEN 0 ELSE Last(done).rowid
             p == DecodePoslistKeepdel(buf, pos + 1, detail)
         IN  DecodeFrom(buf, absAt, p.next, detail,
                        Append(done, [rowid |-> rowid, cols |-> p.cols, del |-> p.del]))

DecodeDoclistKeepdel(runs, detail) ==
    LET startOf(k) == 1 + FoldLeft(LAMBDA n, r : n + Len(r.bytes), 0, SubSeq(runs, 1, k - 1))
        absAt == {startOf(k) : k \in {j \in DOMAIN runs : runs[j].abs /\ runs[j].bytes # <<>>}}
    IN  DecodeFrom(FlattenSeq([k \in 1..Len(runs) |-> runs[k].bytes]), absAt, 1, detail, <<>>)

ReadSegmentPostingsFull(leaves, detail) ==
    LET views == [k \in 1..Len(leaves) |-> ParseLeaf(leaves[k])]
        entry(k, t) == [key |-> views[k][t].key,
                        posts |-> DecodeDoclistKeepdel(GatherDoclistRuns(leaves, views, k, t), detail)]
    IN  FlattenSeq([k \in 1..Len(leaves) |-> [t \in 1..Len(views[k]) |-> entry(k, t)]])

-----------------------------------------------------------------------------
Init ==
    /\ input \in Inputs
    /\ w = NewWriter
    /\ todo = SegmentKeys(input.terms, input.prefixes)
    /\ posts = <<>>
    /\ finished = FALSE

AddKey ==
    /\ todo # <<>> /\ posts = <<>>
    /\ w' = StartKey(w, Head(todo).key, input.pgsz)
    /\ posts' = Head(todo).posts
    /\ todo' = Tail(todo)
    /\ UNCHANGED <<input, finished>>

AddNextPosting ==
    /\ posts # <<>>
    /\ LET x == AddPosting(w, Head(posts), input.merge, input.detail, input.pgsz)
       IN  w' = IF Len(posts) = 1 THEN FinishTermDlidx(x, x.start) ELSE x
    /\ posts' = Tail(posts)
    /\ UNCHANGED <<input, todo, finished>>

(* A segment without terms has no leaf at all.                             *)
Finish ==
    /\ todo = <<>> /\ posts = <<>> /\ ~finished
    /\ w' = IF input.terms = <<>> THEN w ELSE Flush(w)
    /\ finished' = TRUE
    /\ UNCHANGED <<input, todo, posts>>

Next == AddKey \/ AddNextPosting \/ Finish

Spec == Init /\ [][Next]_vars

-----------------------------------------------------------------------------
(* What each detail= option keeps of a posting: the columns up to the last *)
(* that is not empty, a position per column that has one, or nothing.      *)
KeptOf(p, detail) ==
    LET last == Max({1} \cup {c \in DOMAIN p.cols : p.cols[c] # <<>>})
        kept(c) == IF detail = "full" \/ p.cols[c] = <<>> THEN p.cols[c] ELSE <<0>>
    IN  [p EXCEPT !.cols = IF detail = "none" THEN <<>> ELSE [c \in 1..last |-> kept(c)]]

Expected ==
    LET keys == SegmentKeys(input.terms, input.prefixes)
    IN  [k \in 1..Len(keys) |->
            [key |-> keys[k].key,
             posts |-> [i \in 1..Len(keys[k].posts) |-> KeptOf(keys[k].posts[i], input.detail)]]]

(* However the writer cut the doclists into leaves, the reader recovers    *)
(* every key with its rowids, positions and delete marks, in order         *)
(* (read_segment_postings_full of what SegWriter produced); and the %_idx  *)
(* rows lead to the leaf a key starts on: the last row whose separator is  *)
(* not above the key points at the leaf that holds its record.  A write    *)
(* that panicked stores nothing.                                           *)
SegmentReadsBack ==
    finished /\ ~w.panicked =>
        /\ ReadSegmentPostingsFull(w.leaves, input.detail) = Expected
        /\ \A k \in DOMAIN Expected :
              LET key == Expected[k].key
                  rows == {i \in DOMAIN w.idx : ~BytesLess(key, w.idx[i].term)}
              IN  \E t \in DOMAIN ParseLeaf(w.leaves[w.idx[Max(rows)].pgno]) :
                      ParseLeaf(w.leaves[w.idx[Max(rows)].pgno])[t].key = key
=============================================================================
