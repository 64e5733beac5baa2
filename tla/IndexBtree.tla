----------------------------- MODULE IndexBtree -----------------------------
(***************************************************************************)
(* The b-tree of one index (index_writer.rs), the cursor, seeks and range  *)
(* scans that read it, and its upkeep: a row added to the table is added   *)
(* to the index; rows deleted or changed rebuild the index as a whole.     *)
(*                                                                         *)
(* An entry is a key, the rowid, a size class and an overflow chain; the   *)
(* entries of an interior page are not repeated below it.                  *)
(***************************************************************************)
EXTENDS Pages

Val == INSTANCE Values

CONSTANTS
  Root,        \* root page
  Usable,      \* bytes of a page
  Keys,        \* integer keys; 0 fails the WHERE clause of a partial index
  MaxOps,      \* bound: statements
  Loads        \* <<keys of the rows a behaviour starts from, statements it may take>>

Class == {"small", "large"}
CellSize(c) == IF c = "small" THEN 5 ELSE 9
Spill(c) == c = "large"

VARIABLES
  st,     \* the pages
  rows,   \* the table: a sequence, by rowid, of [key, class], or Gone
  ops,    \* statements so far
  desc    \* the key is declared DESC

vars == <<st, rows, ops, desc>>

Gone == [key |-> 0, class |-> "gone"]
Leaf(cells) == [t |-> "leaf", cells |-> cells]
Interior(kids, divs) == [t |-> "int", kids |-> kids, divs |-> divs]

\* cmp_records and prefix_cmp: DESC turns the order of the key, not of the rowid.
KeyBefore(j, k) == IF desc THEN j > k ELSE j < k
Before(a, b) == KeyBefore(a.key, b.key) \/ (a.key = b.key /\ a.row < b.row)
Same(a, b) == a.key = b.key /\ a.row = b.row

LeafFits(cells) == FoldLeft(LAMBDA n, c : n + CellSize(c.class) + 2, 0, cells) <= Usable - 8
InteriorFits(divs) == FoldLeft(LAMBDA n, c : n + 4 + CellSize(c.class) + 2, 0, divs) <= Usable - 12

----------------------------------------------------------------------------
(* Insertion *)

\* build_index_rcell: the overflow page is allocated before the tree is searched.
BuildIndexRcell(s, k, r, c) ==
  IF ~Spill(c) THEN [cell |-> [key |-> k, row |-> r, class |-> c, ov |-> 0], st |-> s]
  ELSE LET a == Allocate(s, {})
       IN  [cell |-> [key |-> k, row |-> r, class |-> c, ov |-> a.page],
            st |-> Put(a.st, a.page, [t |-> "ov", next |-> 0])]

RECURSIVE FreeChain(_, _)
FreeChain(s, p) == IF p = 0 THEN s ELSE FreeChain(Free(s, p), s.page[p].next)

\* free_tree: a page, its overflow chains and everything below it.
RECURSIVE FreeTree(_, _)
FreeTree(s, p) ==
  LET pg == s.page[p]
      chains == FoldLeft(LAMBDA a, c : FreeChain(a, c.ov), s,
                         IF pg.t = "leaf" THEN pg.cells ELSE pg.divs)
  IN  Free(IF pg.t = "leaf" THEN chains ELSE FoldLeft(FreeTree, chains, pg.kids), p)

RECURSIVE Reuse(_, _, _)
LOCAL Reuse(s, old, n) ==
  IF Len(old) = n THEN [st |-> s, pages |-> SortSeq(old, <)]
  ELSE IF Len(old) > n
  THEN [st |-> FoldLeft(Free, s, SubSeq(old, n + 1, Len(old))),
        pages |-> SortSeq(SubSeq(old, 1, n), <)]
  ELSE LET a == Allocate(s, {}) IN Reuse(a.st, Append(old, a.page), n)

\* balance_leaf_pooled: page i takes the entries up to boundary i, and the entry
\* at the boundary becomes the divider.
BalanceLeafPooled(s, old, pool, cntOld) ==
  Val!Given(Distribute([i \in DOMAIN pool |-> CellSize(pool[i].class)], cntOld, TRUE, 0, Usable),
    LAMBDA cnt : Val!Given(Reuse(s, old, Len(cnt)), LAMBDA r :
      LET from(i) == IF i = 1 THEN 1 ELSE cnt[i - 1] + 2
          put(a, i) == Put(a, r.pages[i], Leaf(SubSeq(pool, from(i), cnt[i])))
      IN  [st |-> FoldLeft(put, r.st, [i \in DOMAIN cnt |-> i]), pages |-> r.pages,
           divs |-> [i \in 1 .. Len(cnt) - 1 |-> pool[cnt[i] + 1]]]))

\* balance_leaf_into: siblings are pooled with the dividers between them.
BalanceLeafInto(s, kids, divs, p, cells) ==
  LET w     == SiblingWindow(p, Len(kids))
      old   == SubSeq(kids, w[1] + 1, w[1] + w[2])
      parts == [i \in DOMAIN old |->
                  (IF w[1] + i = p + 1 THEN cells ELSE s.page[old[i]].cells)
                  \o IF i < w[2] THEN <<divs[w[1] + i]>> ELSE <<>>] \o <<>>
      cnt   == [i \in DOMAIN old |-> Len(FlattenSeq(SubSeq(parts, 1, i)))
                                       - IF i < w[2] THEN 1 ELSE 0]
  IN  Val!Given(<<old, FlattenSeq(parts), cnt>>, LAMBDA x :
        Val!Given(BalanceLeafPooled(s, x[1], x[2], x[3]), LAMBDA b :
          [st   |-> b.st,
           kids |-> SubSeq(kids, 1, w[1]) \o b.pages \o SubSeq(kids, w[1] + w[2] + 1, Len(kids)),
           divs |-> SubSeq(divs, 1, w[1]) \o b.divs \o SubSeq(divs, w[1] + w[2], Len(divs))]))

\* adopt_split: the split of child p (from 0) in the lists of its parent.
AdoptSplit(kids, divs, p, up) ==
  LET keys == <<up.first>> \o [i \in 1 .. Len(up.sibs) - 1 |-> up.sibs[i].key]
  IN  [kids |-> SubSeq(kids, 1, p + 1) \o [i \in DOMAIN up.sibs |-> up.sibs[i].page]
                 \o SubSeq(kids, p + 2, Len(kids)),
       divs |-> SubSeq(divs, 1, p) \o keys \o SubSeq(divs, p + 1, Len(divs))]

NoKey == [key |-> 0, row |-> 0, class |-> "small", ov |-> 0]

RECURSIVE WriteParts(_, _, _, _, _, _)
LOCAL WriteParts(s, p, kids, divs, parts, sibs) ==
  IF parts = <<>> THEN [st |-> s, sibs |-> sibs]
  ELSE LET part == Head(parts)
           a    == IF p # 0 THEN [st |-> s, page |-> p] ELSE Allocate(s, {})
           body == Interior(SubSeq(kids, part[1] + 1, part[2] + 1), SubSeq(divs, part[1] + 1, part[2]))
           key  == IF part[2] < Len(divs) THEN divs[part[2] + 1] ELSE NoKey
       IN  WriteParts(Put(a.st, a.page, body), 0, kids, divs, Tail(parts),
                      Append(sibs, [key |-> key, page |-> a.page]))

\* finish_interior: the page as it stands, or its parts with a promoted entry
\* between each two.
FinishInterior(s, p, kids, divs) ==
  LET parts == PackInterior([i \in DOMAIN divs |-> 4 + CellSize(divs[i].class) + 2], 0, 0, Usable)
      w     == WriteParts(s, p, kids, divs, parts, <<>>)
  IN  IF InteriorFits(divs) \/ Len(parts) = 1
      THEN [up |-> "fit", st |-> Put(s, p, Interior(kids, divs))]
      ELSE [up |-> "split", st |-> w.st, first |-> w.sibs[1].key, sibs |-> Tail(w.sibs)]

\* insert_rec: an entry already present, in a leaf or as a divider, changes nothing.
RECURSIVE InsertRec(_, _, _)
InsertRec(s, p, cell) ==
  LET pg    == s.page[p]
      here  == IF pg.t = "leaf" THEN pg.cells ELSE pg.divs
      i     == Len(SelectSeq(here, LAMBDA c : Before(c, cell)))
      cells == SubSeq(here, 1, i) \o <<cell>> \o SubSeq(here, i + 1, Len(here))
  IN  IF \E c \in Range(here) : Same(c, cell) THEN [up |-> "fit", st |-> s]
      ELSE IF pg.t = "leaf"
      THEN IF LeafFits(cells) THEN [up |-> "fit", st |-> Put(s, p, Leaf(cells))]
           ELSE [up |-> "over", st |-> s, cells |-> cells]
      ELSE Val!Given(InsertRec(s, pg.kids[i + 1], cell), LAMBDA r :
             CASE r.up = "fit"  -> r
               [] r.up = "over" -> Val!Given(BalanceLeafInto(r.st, pg.kids, pg.divs, i, r.cells),
                                         LAMBDA b : FinishInterior(b.st, p, b.kids, b.divs))
               [] OTHER         -> Val!Given(AdoptSplit(pg.kids, pg.divs, i, r),
                                         LAMBDA a : FinishInterior(r.st, p, a.kids, a.divs)))

DeepenLeafRoot(s, cells) ==
  Val!Given(Allocate(s, {}), LAMBDA a :
    Val!Given(BalanceLeafPooled(a.st, <<a.page>>, cells, <<Len(cells)>>), LAMBDA b :
      Put(b.st, Root, Interior(b.pages, b.divs))))

GrowRoot(s, up) ==
  LET a == Allocate(s, {})
  IN  Put(Put(a.st, a.page, s.page[Root]), Root,
          Interior(<<a.page>> \o [i \in DOMAIN up.sibs |-> up.sibs[i].page],
                   <<up.first>> \o [i \in 1 .. Len(up.sibs) - 1 |-> up.sibs[i].key]))

InsertIndex(s, k, r, c) ==
  Val!Given(BuildIndexRcell(s, k, r, c), LAMBDA b :
    Val!Given(InsertRec(b.st, Root, b.cell), LAMBDA up :
      CASE up.up = "fit"  -> up.st
        [] up.up = "over" -> DeepenLeafRoot(up.st, up.cells)
        [] OTHER          -> GrowRoot(up.st, up)))

\* clear_index: everything below the root is freed; the root is an empty leaf.
ClearIndex(s) ==
  LET pg == s.page[Root]
      chains == FoldLeft(LAMBDA a, c : FreeChain(a, c.ov), s, IF pg.t = "leaf" THEN pg.cells ELSE pg.divs)
  IN  Put(IF pg.t = "leaf" THEN chains ELSE FoldLeft(FreeTree, chains, pg.kids), Root, Leaf(<<>>))

----------------------------------------------------------------------------
(* Reading *)

\* IndexCursor::next: child, entry, child, entry, ..., last child.
RECURSIVE ScanIndex(_, _)
ScanIndex(s, p) ==
  LET pg == s.page[p]
  IN  IF pg.t = "leaf" THEN pg.cells
      ELSE FlattenSeq([i \in DOMAIN pg.kids |->
             ScanIndex(s, pg.kids[i]) \o IF i <= Len(pg.divs) THEN <<pg.divs[i]>> ELSE <<>>])

RECURSIVE SeekPrefix(_, _, _)

\* seek_prefix: the child before the first divider not below k, then, while the
\* divider equals k, that entry and the child after it.
SeekPrefix(s, p, k) ==
  LET pg   == s.page[p]
      i    == Len(SelectSeq(pg.divs, LAMBDA c : KeyBefore(c.key, k)))
      same == Len(SelectSeq(SubSeq(pg.divs, i + 1, Len(pg.divs)), LAMBDA c : c.key = k))
  IN  IF pg.t = "leaf" THEN SelectSeq(pg.cells, LAMBDA c : c.key = k)
      ELSE SeekPrefix(s, pg.kids[i + 1], k)
           \o FlattenSeq([j \in 1 .. same |-> <<pg.divs[i + j]>> \o SeekPrefix(s, pg.kids[i + j + 1], k)])

\* A bound is <<>> or <<key, inclusive>>.
PassesLower(lo, e) == lo = <<>> \/ KeyBefore(lo[1], e.key) \/ (lo[1] = e.key /\ lo[2])

BeyondUpper(up, e) == up # <<>> /\ (KeyBefore(up[1], e.key) \/ (up[1] = e.key /\ ~up[2]))

\* range_scan: entries in order; the first one beyond the upper bound ends it.
RangeScan(s, lo, up) ==
  LET all  == ScanIndex(s, Root)
      past == {i \in DOMAIN all : BeyondUpper(up, all[i])}
      end  == IF past = {} THEN Len(all) ELSE (CHOOSE i \in past : \A j \in past : i <= j) - 1
  IN  SelectSeq(SubSeq(all, 1, end), LAMBDA e : PassesLower(lo, e))

----------------------------------------------------------------------------
(* Statements *)

\* row_in_index: the WHERE clause of a partial index.
RowInIndex(row) == row.class # "gone" /\ row.key # 0

EmptyIndex == [page |-> [p \in 1 .. Root |-> IF p = Root THEN Leaf(<<>>) ELSE Zero],
               trunk |-> 0, nfree |-> 0]

\* The entries of rows lo .. hi inserted in the order of the table's scan, in two
\* halves to keep the evaluation shallow.
RECURSIVE FillIndex(_, _, _, _)
FillIndex(s, table, lo, hi) ==
  LET mid == (lo + hi) \div 2
  IN  CASE lo > hi -> s
        [] lo = hi -> IF RowInIndex(table[lo]) THEN InsertIndex(s, table[lo].key, lo, table[lo].class) ELSE s
        [] OTHER   -> Val!Given(FillIndex(s, table, lo, mid), LAMBDA t : FillIndex(t, table, mid + 1, hi))

RebuildIndexes(s, table) == Val!Given(ClearIndex(s), LAMBDA t : FillIndex(t, table, 1, Len(table)))


Step == ops < MaxOps /\ ops' = ops + 1 /\ UNCHANGED desc

Init ==
  \E load \in Loads :
    /\ rows = [i \in DOMAIN load[1] |-> [key |-> load[1][i], class |-> IF i % 2 = 0 THEN "small" ELSE "large"]]
    /\ desc \in BOOLEAN
    /\ st = FillIndex(EmptyIndex, rows, 1, Len(rows))
    /\ ops = MaxOps - load[2]

Insert == Step /\ \E k \in Keys, c \in Class :
            /\ rows' = Append(rows, [key |-> k, class |-> c])
            /\ st' = IF k # 0 THEN InsertIndex(st, k, Len(rows) + 1, c) ELSE st

\* DELETE of all rows of a key, or UPDATE of their key: the index is rebuilt.
DeleteRows == Step /\ \E k \in Keys :
                /\ rows' = [i \in DOMAIN rows |-> IF rows[i].key = k THEN Gone ELSE rows[i]]
                /\ st' = RebuildIndexes(st, rows')

UpdateRows == Step /\ \E k, n \in Keys :
                /\ rows' = [i \in DOMAIN rows |-> IF rows[i].key = k /\ rows[i] # Gone
                                                  THEN [rows[i] EXCEPT !.key = n] ELSE rows[i]]
                /\ st' = RebuildIndexes(st, rows')

Next == Insert \/ DeleteRows \/ UpdateRows

Spec == Init /\ [][Next]_vars

----------------------------------------------------------------------------
(* Properties *)

Wanted == {[key |-> rows[i].key, row |-> i] : i \in {j \in DOMAIN rows : RowInIndex(rows[j])}}
Shown(cells) == [i \in DOMAIN cells |-> [key |-> cells[i].key, row |-> cells[i].row]]

\* The index holds one entry for every row that its WHERE clause admits and no
\* other, in key order: no split, promotion or rebuild loses or repeats one.
IndexIsTable ==
  LET all == ScanIndex(st, Root) IN
  /\ Range(Shown(all)) = Wanted
  /\ \A i \in 1 .. Len(all) - 1 : Before(all[i], all[i + 1])

\* A seek and a range scan return what a scan of the table for the same keys does,
\* though matches spread over leaves and over the dividers between them.
SeeksComplete ==
  LET bounds == {<<>>} \cup (Keys \X BOOLEAN) IN
  /\ \A k \in Keys : Range(Shown(SeekPrefix(st, Root, k))) = {e \in Wanted : e.key = k}
  /\ \A lo, up \in bounds :
       Range(Shown(RangeScan(st, lo, up)))
         = {e \in Wanted : PassesLower(lo, e) /\ ~BeyondUpper(up, e)}

RECURSIVE TreePages(_, _)
TreePages(s, p) ==
  LET pg == s.page[p]
      cells == IF pg.t = "leaf" THEN pg.cells ELSE pg.divs
  IN  <<p>> \o SelectSeq([i \in DOMAIN cells |-> cells[i].ov], LAMBDA q : q # 0)
      \o IF pg.t = "leaf" THEN <<>> ELSE FlattenSeq([i \in DOMAIN pg.kids |-> TreePages(s, pg.kids[i])])

\* Every page is in the index or on the freelist, exactly once; an entry promoted
\* to a divider takes its overflow chain with it.
PagesAccounted ==
  LET free == FreePages(st)
      used == TreePages(st, Root) \o free
  IN  /\ Len(used) = Cardinality(Range(used))
      /\ Range(used) = Root .. Count(st)
      /\ st.nfree = Len(free)

RECURSIVE Depths(_, _)
Depths(s, p) == IF s.page[p].t = "leaf" THEN {0}
                ELSE {d + 1 : d \in UNION {Depths(s, k) : k \in Range(s.page[p].kids)}}

RECURSIVE TreeNodes(_, _)
TreeNodes(s, p) == {p} \cup IF s.page[p].t = "leaf" THEN {}
                            ELSE UNION {TreeNodes(s, k) : k \in Range(s.page[p].kids)}

\* Pages fit their bytes and leaves are at one depth.
WellFormed ==
  /\ Cardinality(Depths(st, Root)) = 1
  /\ \A p \in TreeNodes(st, Root) :
       /\ st.page[p].t = "leaf" => LeafFits(st.page[p].cells)
       /\ st.page[p].t = "int" => /\ InteriorFits(st.page[p].divs)
                                  /\ Len(st.page[p].kids) = Len(st.page[p].divs) + 1

=============================================================================
