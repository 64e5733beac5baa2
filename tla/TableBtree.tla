----------------------------- MODULE TableBtree -----------------------------
(***************************************************************************)
(* The b-tree of one table (writer.rs), the cursor that reads it           *)
(* (cursor.rs), and the statements that use them: rows with a given or an  *)
(* automatic rowid, DELETE with its compaction, and the deletions of rows  *)
(* of the catalog, which do not compact.                                   *)
(*                                                                         *)
(* A page is rewritten as a whole, so a page is a list of cells.  A cell   *)
(* is its rowid, its size class and its overflow chain.                    *)
(***************************************************************************)
EXTENDS Pages

Val == INSTANCE Values

CONSTANTS
  Root,        \* root page; page 1 loses Body bytes to the database header
  Body,
  Usable,      \* bytes of a page
  KeySize,     \* bytes of an interior cell
  MaxRow,      \* bound: rowids
  MaxOps,      \* bound: statements
  Loads,       \* <<rows of the table a behaviour starts from, statements it may take>>
  Kinds        \* kinds of table: "user", "catalog"

\* Size classes: bytes on the page, pages of overflow.
Class == {"small", "large"}
CellSize(c) == IF c = "small" THEN 4 ELSE 8
Spill(c) == IF c = "large" THEN 1 ELSE 0

VARIABLES
  st,     \* the pages
  rows,   \* what the table should hold: rowid |-> class
  ops,    \* statements so far
  kind    \* catalog tables are deleted from without compaction

vars == <<st, rows, ops, kind>>

Leaf(cells) == [t |-> "leaf", cells |-> cells]
Interior(kids, divs) == [t |-> "int", kids |-> kids, divs |-> divs]

BodyOf(p) == IF p = 1 THEN Body ELSE 0
LeafFits(cells, p) == FoldLeft(LAMBDA n, c : n + CellSize(c.class) + 2, 0, cells)
                        <= Usable - BodyOf(p) - 8
InteriorFits(divs, p) == Len(divs) * (KeySize + 2) <= Usable - BodyOf(p) - 12

----------------------------------------------------------------------------
(* Cells and overflow chains *)

\* build_leaf_cell: the overflow pages are allocated before the tree is touched.
BuildLeafCell(s, r, c) ==
  IF Spill(c) = 0 THEN [cell |-> [row |-> r, class |-> c, ov |-> 0], st |-> s]
  ELSE LET a == Allocate(s, {})
       IN  [cell |-> [row |-> r, class |-> c, ov |-> a.page],
            st |-> Put(a.st, a.page, [t |-> "ov", next |-> 0])]

RECURSIVE FreeChain(_, _)
FreeChain(s, p) == IF p = 0 THEN s ELSE FreeChain(Free(s, p), s.page[p].next)

RECURSIVE FreeTree(_, _)
FreeTree(s, p) ==
  LET pg == s.page[p]
  IN  Free(IF pg.t = "leaf" THEN FoldLeft(LAMBDA a, c : FreeChain(a, c.ov), s, pg.cells)
           ELSE FoldLeft(FreeTree, s, pg.kids), p)

----------------------------------------------------------------------------
(* Insertion.  A level reports [up, st] to the one above: "fit", "over" with  *)
(* the cells of a leaf that does not fit, or "split" with first key and       *)
(* new siblings.                                                              *)


\* Pages for n slices: old ones in order, then new ones; surplus ones are freed.
RECURSIVE Reuse(_, _, _)
Reuse(s, old, n) ==
  IF Len(old) = n THEN [st |-> s, pages |-> SortSeq(old, <)]
  ELSE IF Len(old) > n
  THEN LET freed == FoldLeft(Free, s, SubSeq(old, n + 1, Len(old)))
       IN  [st |-> freed, pages |-> SortSeq(SubSeq(old, 1, n), <)]
  ELSE LET a == Allocate(s, {}) IN Reuse(a.st, Append(old, a.page), n)

\* balance_leaf_pooled: the pool over the right number of pages, in ascending
\* order; the dividers are the largest rowids of all pages but the last.
BalanceLeafPooled(s, old, pool, cntOld) ==
  Val!Given(Distribute([i \in DOMAIN pool |-> CellSize(pool[i].class)], cntOld, TRUE, 1, Usable),
    LAMBDA cnt : Val!Given(Reuse(s, old, Len(cnt)), LAMBDA r :
      LET from(i) == IF i = 1 THEN 1 ELSE cnt[i - 1] + 1
          put(a, i) == Put(a, r.pages[i], Leaf(SubSeq(pool, from(i), cnt[i])))
      IN  [st |-> FoldLeft(put, r.st, [i \in DOMAIN cnt |-> i]), pages |-> r.pages,
           divs |-> [i \in 1 .. Len(cnt) - 1 |-> pool[cnt[i]].row]]))

\* balance_leaf_into: the leaf under child p (from 0) with up to two siblings.
BalanceLeafInto(s, kids, divs, p, cells) ==
  LET w    == SiblingWindow(p, Len(kids))
      old  == SubSeq(kids, w[1] + 1, w[1] + w[2])
      pool == [i \in DOMAIN old |-> IF w[1] + i = p + 1 THEN cells ELSE s.page[old[i]].cells]
      cnt  == [i \in DOMAIN old |-> Len(FlattenSeq(SubSeq(pool, 1, i)))]
  IN  Val!Given(<<old, FlattenSeq(pool), cnt>>, LAMBDA x :
        Val!Given(BalanceLeafPooled(s, x[1], x[2], x[3]), LAMBDA b :
          [st   |-> b.st,
           kids |-> SubSeq(kids, 1, w[1]) \o b.pages \o SubSeq(kids, w[1] + w[2] + 1, Len(kids)),
           divs |-> SubSeq(divs, 1, w[1]) \o b.divs \o SubSeq(divs, w[1] + w[2], Len(divs))]))

\* Mutant of AdoptSplit: the new siblings are put before the child that split.
AdoptSplitBefore(kids, divs, p, up) ==
  LET keys == <<up.first>> \o [i \in 1 .. Len(up.sibs) - 1 |-> up.sibs[i].key]
  IN  [kids |-> SubSeq(kids, 1, p) \o [i \in DOMAIN up.sibs |-> up.sibs[i].page]
                 \o SubSeq(kids, p + 1, Len(kids)),
       divs |-> SubSeq(divs, 1, p) \o keys \o SubSeq(divs, p + 1, Len(divs))]

\* adopt_split: the split of child p (from 0) in the lists of its parent.
AdoptSplit(kids, divs, p, up) ==
  LET keys == <<up.first>> \o [i \in 1 .. Len(up.sibs) - 1 |-> up.sibs[i].key]
  IN  [kids |-> SubSeq(kids, 1, p + 1) \o [i \in DOMAIN up.sibs |-> up.sibs[i].page]
                 \o SubSeq(kids, p + 2, Len(kids)),
       divs |-> SubSeq(divs, 1, p) \o keys \o SubSeq(divs, p + 1, Len(divs))]

\* Parts of an interior page written out: the first on page p, others on new ones.
RECURSIVE WriteParts(_, _, _, _, _, _)
WriteParts(s, p, kids, divs, parts, sibs) ==
  IF parts = <<>> THEN [st |-> s, sibs |-> sibs]
  ELSE LET part == Head(parts)
           body == Interior(SubSeq(kids, part[1] + 1, part[2] + 1),
                            SubSeq(divs, part[1] + 1, part[2]))
           a    == IF p # 0 THEN [st |-> s, page |-> p] ELSE Allocate(s, {})
           key  == IF part[2] < Len(divs) THEN divs[part[2] + 1] ELSE MaxRow + 1
       IN  WriteParts(Put(a.st, a.page, body), 0, kids, divs, Tail(parts),
                      Append(sibs, [key |-> key, page |-> a.page]))

FinishInterior(s, p, kids, divs) ==
  LET parts == PackInterior([i \in DOMAIN divs |-> KeySize + 2], 0, BodyOf(p), Usable)
      w     == WriteParts(s, p, kids, divs, parts, <<>>)
  IN  IF InteriorFits(divs, p) \/ Len(parts) = 1
      THEN [up |-> "fit", st |-> Put(s, p, Interior(kids, divs))]
      ELSE [up |-> "split", st |-> w.st, first |-> w.sibs[1].key, sibs |-> Tail(w.sibs)]

\* The child (from 0) under which rowid r belongs: first divider not below it.
ChildFor(divs, r) == Cardinality({i \in DOMAIN divs : \A j \in 1 .. i : divs[j] < r})

PutCell(cells, cell) ==
  LET before == SelectSeq(cells, LAMBDA c : c.row < cell.row)
      after  == SelectSeq(cells, LAMBDA c : c.row > cell.row)
  IN  before \o <<cell>> \o after

RECURSIVE InsertRec(_, _, _)
InsertRec(s, p, cell) ==
  LET pg == s.page[p]
  IN  IF pg.t = "leaf"
      THEN LET cells == PutCell(pg.cells, cell)
           IN  IF LeafFits(cells, p) THEN [up |-> "fit", st |-> Put(s, p, Leaf(cells))]
               ELSE [up |-> "over", st |-> s, cells |-> cells]
      ELSE LET c == ChildFor(pg.divs, cell.row) IN
           Val!Given(InsertRec(s, pg.kids[c + 1], cell), LAMBDA r :
             CASE r.up = "fit"  -> r
               [] r.up = "over" -> Val!Given(BalanceLeafInto(r.st, pg.kids, pg.divs, c, r.cells),
                                         LAMBDA b : FinishInterior(b.st, p, b.kids, b.divs))
               [] OTHER         -> Val!Given(AdoptSplit(pg.kids, pg.divs, c, r),
                                         LAMBDA a : FinishInterior(r.st, p, a.kids, a.divs)))

\* deepen_leaf_root: the cells of the root over new leaves below it.
DeepenLeafRoot(s, cells) ==
  Val!Given(Allocate(s, {}), LAMBDA a :
    Val!Given(BalanceLeafPooled(a.st, <<a.page>>, cells, <<Len(cells)>>), LAMBDA b :
      Put(b.st, Root, Interior(b.pages, b.divs))))

\* grow_root: the root's content moves to a new page, the root is above it.
GrowRoot(s, up) ==
  LET a == Allocate(s, {})
  IN  Put(Put(a.st, a.page, s.page[Root]), Root,
          Interior(<<a.page>> \o [i \in DOMAIN up.sibs |-> up.sibs[i].page],
                   <<up.first>> \o [i \in 1 .. Len(up.sibs) - 1 |-> up.sibs[i].key]))

InsertTable(s, r, c) ==
  Val!Given(BuildLeafCell(s, r, c), LAMBDA b :
    Val!Given(InsertRec(b.st, Root, b.cell), LAMBDA up :
      CASE up.up = "fit"  -> up.st
        [] up.up = "over" -> DeepenLeafRoot(up.st, up.cells)
        [] OTHER          -> GrowRoot(up.st, up)))

----------------------------------------------------------------------------
(* Deletion and compaction *)

RECURSIVE LeafOf(_, _, _)
LeafOf(s, p, r) == IF s.page[p].t = "leaf" THEN p
                   ELSE LeafOf(s, s.page[p].kids[ChildFor(s.page[p].divs, r) + 1], r)

\* Mutant of DeleteTable: the row's overflow pages are not given back.
DeleteTableLeaking(s, r) ==
  LET p == LeafOf(s, Root, r)
  IN  Put(s, p, Leaf(SelectSeq(s.page[p].cells, LAMBDA c : c.row # r)))

DeleteTable(s, r) ==
  LET p  == LeafOf(s, Root, r)
      it == SelectSeq(s.page[p].cells, LAMBDA c : c.row = r)
  IN  IF it = <<>> THEN s
      ELSE FreeChain(Put(s, p, Leaf(SelectSeq(s.page[p].cells, LAMBDA c : c.row # r))), it[1].ov)

RECURSIVE LeavesUnder(_, _)
LeavesUnder(s, p) == IF s.page[p].t = "leaf" THEN <<p>>
                     ELSE FlattenSeq([i \in DOMAIN s.page[p].kids |-> LeavesUnder(s, s.page[p].kids[i])])

TableHasEmptyLeaf(s) == /\ s.page[Root].t = "int"
                        /\ \E p \in Range(LeavesUnder(s, Root)) : s.page[p].cells = <<>>

ClearTable(s) ==
  LET pg == s.page[Root]
  IN  Put(IF pg.t = "leaf" THEN FoldLeft(LAMBDA a, c : FreeChain(a, c.ov), s, pg.cells)
          ELSE FoldLeft(FreeTree, s, pg.kids), Root, Leaf(<<>>))

----------------------------------------------------------------------------
(* The cursor *)

\* TableCursor::first and next: all cells in tree order.
ScanTable(s) == LET ls == LeavesUnder(s, Root)
                IN  FlattenSeq([i \in DOMAIN ls |-> s.page[ls[i]].cells])

\* Rows inserted one after the other, in two halves to keep the evaluation shallow.
RECURSIVE InsertRows(_, _)
InsertRows(s, cells) ==
  LET n == Len(cells)
  IN  CASE n = 0 -> s
        [] n = 1 -> InsertTable(s, cells[1].row, cells[1].class)
        [] OTHER -> Val!Given(InsertRows(s, SubSeq(cells, 1, n \div 2)), LAMBDA t :
                      InsertRows(t, SubSeq(cells, n \div 2 + 1, n)))

\* compact_table: a table with an empty leaf is emptied and refilled.
CompactTable(s) ==
  IF ~TableHasEmptyLeaf(s) THEN s ELSE InsertRows(ClearTable(s), ScanTable(s))

\* TableCursor::seek: the first row not below r, 0 when there is none.
Seek(s, r) ==
  LET p    == LeafOf(s, Root, r)
      here == SelectSeq(s.page[p].cells, LAMBDA c : c.row >= r)
      ls   == LeavesUnder(s, Root)
      at   == CHOOSE i \in DOMAIN ls : ls[i] = p
      rest == FlattenSeq([i \in 1 .. Len(ls) - at |-> s.page[ls[at + i]].cells])
  IN  IF here # <<>> THEN Head(here).row ELSE IF rest # <<>> THEN Head(rest).row ELSE 0

\* TableCursor::last and next_rowid: the last leaf decides.
NextRowid(s) == LET cells == s.page[Last(LeavesUnder(s, Root))].cells
                IN  IF cells = <<>> THEN 1 ELSE Last(cells).row + 1

----------------------------------------------------------------------------
(* Statements *)

Step == ops < MaxOps /\ ops' = ops + 1 /\ UNCHANGED kind

\* The table starts with some even rowids, inserted in ascending order.
EmptyTable == [page |-> [p \in 1 .. Root |-> IF p = Root THEN Leaf(<<>>) ELSE Zero],
               trunk |-> 0, nfree |-> 0]

Init ==
  \E load \in Loads : LET n == load[1] IN
    /\ rows = [r \in {2 * i : i \in 1 .. n} |-> "large"]
    /\ st = InsertRows(EmptyTable, [i \in 1 .. n |-> [row |-> 2 * i, class |-> "large"]])
    /\ ops = MaxOps - load[2] /\ kind \in Kinds

With(f, r, c) == [x \in DOMAIN f \cup {r} |-> IF x = r THEN c ELSE f[x]]
WithoutRows(f, rs) == [x \in DOMAIN f \ rs |-> f[x]]

\* Rowids not in use, up to two past the largest.
Fresh == {r \in 1 .. MaxRow : r \notin DOMAIN rows /\ r <= NextRowid(st) + 1}

\* INSERT with a rowid that is free.
Insert == Step /\ \E r \in Fresh, c \in Class :
            st' = InsertTable(st, r, c) /\ rows' = With(rows, r, c)

\* INSERT with an automatic rowid; a catalog row is always inserted so.
InsertAuto == Step /\ NextRowid(st) <= MaxRow /\ \E c \in Class :
                /\ st' = InsertTable(st, NextRowid(st), c)
                /\ rows' = With(rows, NextRowid(st), c)

\* UPDATE: the row is deleted and inserted again, under the same rowid or another.
Update == Step /\ \E r \in DOMAIN rows, c \in Class :
            \E n \in {r} \cup Fresh :
              /\ st' = CompactTable(InsertTable(DeleteTable(st, r), n, c))
              /\ rows' = With(WithoutRows(rows, {r}), n, c)

RECURSIVE DeleteEach(_, _)
DeleteEach(s, rs) == IF rs = {} THEN s
                     ELSE LET r == CHOOSE x \in rs : \A y \in rs : x <= y
                          IN  DeleteEach(DeleteTable(s, r), rs \ {r})

\* DELETE of a range of rows, then compaction; none for a catalog table (DROP).
Delete == Step /\ \E lo, hi \in DOMAIN rows :
          LET rs == DOMAIN rows \cap (lo .. hi) IN
            /\ rs # {}
            /\ st' = IF kind = "user" THEN CompactTable(DeleteEach(st, rs)) ELSE DeleteEach(st, rs)
            /\ rows' = WithoutRows(rows, rs)

Next == (kind = "user" /\ (Insert \/ Update)) \/ InsertAuto \/ Delete

Spec == Init /\ [][Next]_vars

----------------------------------------------------------------------------
(* Properties *)

TypeOK ==
  /\ DOMAIN rows \subseteq 1 .. MaxRow /\ ops \in 0 .. MaxOps
  /\ st.nfree \in 0 .. Count(st) /\ st.trunk \in 0 .. Count(st)
  /\ \A p \in Root .. Count(st) :
       LET pg == st.page[p] IN
       CASE pg.t = "leaf"  -> \A c \in Range(pg.cells) : c.row \in 1 .. MaxRow /\ c.class \in Class
         [] pg.t = "int"   -> Range(pg.kids) \subseteq 1 .. Count(st) /\ Range(pg.divs) \subseteq 1 .. MaxRow
         [] pg.t = "trunk" -> Range(pg.leaves) \subseteq 1 .. Count(st)
         [] OTHER          -> pg.t \in {"zero", "ov"}

\* A scan of the tree gives the rows of the table in ascending order, each once,
\* whatever splits, balances and compactions it went through.
ScanIsTable ==
  LET cells == ScanTable(st) IN
  kind = "user" =>
    /\ \A i \in 1 .. Len(cells) - 1 : cells[i].row < cells[i + 1].row
    /\ {c.row : c \in Range(cells)} = DOMAIN rows
    /\ \A c \in Range(cells) : rows[c.row] = c.class

\* A seek finds every row and the next one above a gap: dividers bound what is
\* below them on both sides.
SeekFinds ==
  LET held == {c.row : c \in Range(ScanTable(st))} IN
  \A r \in 1 .. MaxRow :
    Seek(st, r) = LET up == {x \in held : x >= r}
                  IN  IF up = {} THEN 0 ELSE CHOOSE x \in up : \A y \in up : x <= y

\* next_rowid is "max + 1, or 1": the row that gets it replaces none.
NextRowidIsFree == NextRowid(st) \notin DOMAIN rows

\* The same for tables whose deletions end in compact_table.
RowidFreeWhenCompacted == kind = "user" => NextRowidIsFree

RECURSIVE TreePages(_, _)
TreePages(s, p) ==
  <<p>> \o LET pg == s.page[p] IN
    IF pg.t = "leaf"
    THEN FlattenSeq([i \in DOMAIN pg.cells |-> IF pg.cells[i].ov = 0 THEN <<>> ELSE <<pg.cells[i].ov>>])
    ELSE FlattenSeq([i \in DOMAIN pg.kids |-> TreePages(s, pg.kids[i])])

\* Every page of the file is in the tree or on the freelist, exactly once, and the
\* header counts the free ones: no insert, balance, delete or clear leaks a page
\* or hands one out twice.
PagesAccounted ==
  kind = "user" =>
    LET free == FreePages(st)
        used == TreePages(st, Root) \o free
    IN  /\ Len(used) = Cardinality(Range(used))
        /\ Range(used) = Root .. Count(st)
        /\ st.nfree = Len(free)

RECURSIVE Depths(_, _)
Depths(s, p) == IF s.page[p].t = "leaf" THEN {0}
                ELSE {d + 1 : d \in UNION {Depths(s, k) : k \in Range(s.page[p].kids)}}

RECURSIVE TreeNodes(_, _)
TreeNodes(s, p) == {p} \cup IF s.page[p].t = "leaf" THEN {}
                            ELSE UNION {TreeNodes(s, k) : k \in Range(s.page[p].kids)}

\* Every page fits its bytes, leaves are all at one depth, and an interior page has
\* one more child than dividers: serialize_leaf and serialize_interior never refuse.
WellFormed ==
  /\ Cardinality(Depths(st, Root)) = 1
  /\ \A p \in TreeNodes(st, Root) :
       /\ st.page[p].t = "leaf" => LeafFits(st.page[p].cells, p)
       /\ st.page[p].t = "int" => /\ InteriorFits(st.page[p].divs, p)
                                  /\ Len(st.page[p].kids) = Len(st.page[p].divs) + 1

=============================================================================
