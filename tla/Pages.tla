------------------------------- MODULE Pages -------------------------------
(***************************************************************************)
(* The pages of a database file and its freelist, as WritePager's          *)
(* allocate_page and free_page keep them, and the arithmetic by which      *)
(* cells are spread over pages.  A store is a record:                      *)
(*   page    the staged content of pages 1, 2, ...: a record tagged t      *)
(*   trunk   header field freelist_trunk, 0 when the list is empty         *)
(*   nfree   header field freelist_count                                   *)
(* A trunk page holds the number of the next trunk and its leaf pages.     *)
(***************************************************************************)
EXTENDS Integers, Sequences, FiniteSets, SequencesExt

CONSTANT MaxLeaves    \* leaf entries a trunk page has room for

Zero == [t |-> "zero"]
Trunk(next, leaves) == [t |-> "trunk", next |-> next, leaves |-> leaves]

Count(st) == Len(st.page)
Put(st, p, content) == [st EXCEPT !.page[p] = content]

\* The last leaf of the first trunk, or that trunk itself when it has none.
AllocFromFreelist(st) ==
  LET tb == st.page[st.trunk]
  IN  IF tb.leaves # <<>>
      THEN LET p == Last(tb.leaves)
           IN  [page |-> p,
                st |-> [Put(Put(st, st.trunk, Trunk(tb.next, Front(tb.leaves))), p, Zero)
                          EXCEPT !.nfree = @ - 1]]
      ELSE [page |-> st.trunk,
            st |-> [Put(st, st.trunk, Zero) EXCEPT !.nfree = @ - 1, !.trunk = tb.next]]

\* allocate_page: from the freelist, else by growing the file past the pages in
\* `reserved', which are staged zeroed.
Allocate(st, reserved) ==
  IF st.nfree > 0 /\ st.trunk # 0 THEN AllocFromFreelist(st)
  ELSE LET n == CHOOSE m \in Count(st) + 1 .. Count(st) + 1 + Cardinality(reserved) :
                  m \notin reserved /\ \A k \in Count(st) + 1 .. m - 1 : k \in reserved
       IN  [page |-> n, st |-> [st EXCEPT !.page = @ \o [i \in 1 .. n - Count(st) |-> Zero]]]

\* free_page: a leaf of the first trunk when there is room, else a new trunk.
\* What a free leaf page contains is never read.
Free(st, p) ==
  IF st.trunk # 0 /\ Len(st.page[st.trunk].leaves) < MaxLeaves
  THEN [Put(Put(st, st.trunk, [st.page[st.trunk] EXCEPT !.leaves = Append(@, p)]), p, Zero)
          EXCEPT !.nfree = @ + 1]
  ELSE [Put(st, p, Trunk(st.trunk, <<>>)) EXCEPT !.trunk = p, !.nfree = @ + 1]

\* walk_freelist_ptrmap: the free pages, trunks before their leaves; a list longer
\* than its count allows is a cycle, <<0>>.
RECURSIVE WalkFreelist(_, _, _)
WalkFreelist(st, at, seen) ==
  IF at = 0 THEN seen
  ELSE IF st.page[at].t # "trunk" \/ Len(seen) > Count(st) THEN <<0>>
  ELSE WalkFreelist(st, st.page[at].next, seen \o <<at>> \o st.page[at].leaves)

FreePages(st) == WalkFreelist(st, st.trunk, <<>>)

----------------------------------------------------------------------------
(* Page balancing: which siblings are pooled, and how the pooled cells are *)
(* spread over pages (balance.rs), and the greedy split of an interior     *)
(* page (pack_interior).  Sizes are bytes; a cell also costs two bytes of  *)
(* the page's pointer array.                                               *)

\* sibling_window: first child (counted from 0) and number of children pooled.
SiblingWindow(p, nChildren) ==
  LET i == nChildren - 1
  IN  IF i < 2 THEN <<0, nChildren>>
      ELSE IF p = 0 THEN <<0, 3>>
      ELSE IF p = i THEN <<i - 2, 3>>
      ELSE <<p - 1, 3>>

----------------------------------------------------------------------------
(* distribute.  Cells are counted from 1, so cell(i) of the code is         *)
(* sz[i + 1]; b is [cnt, size, k]: boundaries and page sizes of k pages.     *)

LOCAL Cell(sz, i) == sz[i + 1]
\* Size of the cell that becomes the divider at boundary c, 0 when there is none.
LOCAL Divider(sz, c) == IF c < Len(sz) THEN 2 + Cell(sz, c) ELSE 0

RECURSIVE SumSizes(_, _, _)
LOCAL SumSizes(sz, from, to) == IF from >= to THEN 0
                                ELSE Cell(sz, from) + 2 + SumSizes(sz, from + 1, to)

LOCAL Seed(sz, cntOld, ld) ==
  [k    |-> Len(cntOld), cnt |-> cntOld \o <<>>,
   size |-> [i \in DOMAIN cntOld |->
               SumSizes(sz, IF i = 1 THEN 0 ELSE cntOld[i - 1] + 1 - ld, cntOld[i])] \o <<>>]

\* Cells of page i that do not fit go to the next page, a new one if need be.
RECURSIVE Shed(_, _, _, _, _)
Shed(sz, b, i, ld, space) ==
  IF b.size[i] <= space THEN b
  ELSE LET g == IF i + 1 > b.k
                THEN [k |-> i + 1, cnt |-> SubSeq(b.cnt, 1, i) \o <<Len(sz)>>,
                      size |-> SubSeq(b.size, 1, i) \o <<0>>]
                ELSE b
           moved == IF ld = 1 THEN 2 + Cell(sz, g.cnt[i] - 1) ELSE Divider(sz, g.cnt[i])
       IN  Shed(sz, [g EXCEPT !.size = [@ EXCEPT ![i] = @ - (2 + Cell(sz, g.cnt[i] - 1)),
                                                 ![i + 1] = @ + moved],
                              !.cnt[i] = @ - 1], i, ld, space)

\* Cells of the next page that fit on page i move to it.
RECURSIVE Take(_, _, _, _, _)
Take(sz, b, i, ld, space) ==
  IF b.cnt[i] >= Len(sz) \/ b.size[i] + 2 + Cell(sz, b.cnt[i]) > space THEN b
  ELSE LET moved == IF ld = 1 THEN 2 + Cell(sz, b.cnt[i]) ELSE Divider(sz, b.cnt[i] + 1)
           size  == [b.size EXCEPT ![i] = @ + 2 + Cell(sz, b.cnt[i])]
       IN  Take(sz, [b EXCEPT !.cnt[i] = @ + 1,
                              !.size = IF i < Len(@) THEN [size EXCEPT ![i + 1] = @ - moved]
                                       ELSE size], i, ld, space)

RECURSIVE Pack(_, _, _, _, _)
LOCAL Pack(sz, b, i, ld, space) ==
  IF i > b.k THEN b
  ELSE LET f == Take(sz, Shed(sz, b, i, ld, space), i, ld, space)
           g == IF f.cnt[i] >= Len(sz)
                THEN [k |-> i, cnt |-> SubSeq(f.cnt, 1, i), size |-> SubSeq(f.size, 1, i)]
                ELSE f
       IN  Pack(sz, g, i + 1, ld, space)

\* One pair of pages, i - 1 and i: cells move right while that evens them out.
RECURSIVE Even(_, _, _, _)
Even(sz, b, i, ld) ==
  LET r == b.cnt[i - 1] - 1
      d == r + 1 - ld
  IN  IF \/ r < 0
         \/ /\ b.size[i] # 0
            /\ b.size[i] + Cell(sz, d) + 2
                 > b.size[i - 1] - (Cell(sz, r) + IF i = b.k THEN 0 ELSE 2)
      THEN b
      ELSE Even(sz, [b EXCEPT !.cnt[i - 1] = r,
                              !.size = [@ EXCEPT ![i] = @ + Cell(sz, d) + 2,
                                                 ![i - 1] = @ - (Cell(sz, r) + 2)]], i, ld)

RECURSIVE EvenOut(_, _, _, _)
LOCAL EvenOut(sz, b, i, ld) == IF i <= 1 THEN b ELSE EvenOut(sz, Even(sz, b, i, ld), i - 1, ld)

\* The new boundaries; ld is 1 for leaves of a table, where no divider is pooled.
Distribute(sz, cntOld, leaf, ld, usable) ==
  LET b == Pack(sz, Seed(sz, cntOld, ld), 1, ld, usable - 12 + IF leaf THEN 4 ELSE 0)
  IN  EvenOut(sz, b, b.k, ld).cnt

----------------------------------------------------------------------------
(* pack_interior: parts of an over-full interior page.  Part j keeps cells   *)
(* from..to - 1 (counted from 0); the divider at `to' is promoted.           *)

RECURSIVE Fill(_, _, _, _, _)
LOCAL Fill(need, from, b, used, cap) ==
  IF b >= Len(need) \/ (b # from /\ used + need[b + 1] > cap) THEN b
  ELSE Fill(need, from, b + 1, used + need[b + 1], cap)

\* need[i] is the size of cell i with its pointer; part one loses `body' bytes.
RECURSIVE PackInterior(_, _, _, _)
PackInterior(need, from, body, usable) ==
  LET b  == Fill(need, from, from, 0, usable - (body + 12))
      bb == IF b = Len(need) - 1 /\ b > from + 1 THEN b - 1 ELSE b
  IN  IF b >= Len(need) THEN <<<<from, Len(need)>>>>
      ELSE <<<<from, bb>>>> \o PackInterior(need, bb + 1, 0, usable)

=============================================================================
