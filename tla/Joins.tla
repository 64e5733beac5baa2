------------------------------- MODULE Joins -------------------------------
(***************************************************************************)
(* How a SELECT over several tables joins their rows (exec/mod.rs).  Two   *)
(* engines answer: the compiled one (run_select_vdbe), when it takes the   *)
(* query, and the tree walker (scan_source, fold_joins_rowid).  Both       *)
(* replace the nested loop over all pairs by seeks - by rowid, through an  *)
(* index, through the primary key of a WITHOUT ROWID table, through a hash *)
(* table - and the tree walker also changes the order of the tables.       *)
(*                                                                         *)
(* Values are numbers: 0 is NULL, 1..3 integers, 10 the text '01', 11..13  *)
(* the texts '1'..'3', 15 and 17 the texts 'A' and 'a'.                    *)
(***************************************************************************)
EXTENDS Naturals, Sequences, SequencesExt, FiniteSets

Val == INSTANCE Values

CONSTANTS
  Databases,  \* sequences of tables [cols, ipk, wr, rows, indexes]: cols of
              \* [name, aff, coll], ipk a column or 0, indexes of [cols, colls, unique]
  Queries     \* [joins, eqs, pins, order]: join i introduces table i + 1

VARIABLES db, q, planner, pc, columns, rows, rest, elided, unforeseen
\* planner: [vdbe, cheaper, driver, narrow].  vdbe: the compiled engine takes the
\* query; cheaper: statistics prefer the second of two tables as the driver;
\* driver: the table they prefer of several (0: no statistics); narrow: the tables
\* have further columns, which the query does not read, so that an index of theirs
\* is narrower than the table.
vars == <<db, q, planner, pc, columns, rows, rest, elided, unforeseen>>

NULL == 0
Image(v, coll) == IF coll = "NOCASE" /\ v = 17 THEN 15 ELSE v
Numeric(v) == CASE v = 10 -> 1 [] v \in 11 .. 13 -> v - 10 [] OTHER -> v
Coerce(aff, v) ==
  CASE aff = "INTEGER" -> Numeric(v)
    [] aff = "TEXT" /\ v \in 1 .. 3 -> v + 10
    [] OTHER -> v

Tables == DOMAIN db
\* A column of the joined rows: column c of table t.  A reference is <<t, c>>.
ColumnsOf(t) == [c \in DOMAIN db[t].cols |->
  [t |-> t, c |-> c, name |-> db[t].cols[c].name, aff |-> db[t].cols[c].aff, coll |-> db[t].cols[c].coll]]
Column(ref) == db[ref[1]].cols[ref[2]]
At(cols, ref) == CHOOSE i \in DOMAIN cols : cols[i].t = ref[1] /\ cols[i].c = ref[2]
Resolves(cols, ref) == \E i \in DOMAIN cols : cols[i].t = ref[1] /\ cols[i].c = ref[2]
Nulls(n) == [i \in 1 .. n |-> NULL]

(* ---- Comparing two columns ---- *)
\* apply_comparison_affinity for two columns: numeric if one of them is.
CompareAs(a, b, v) == IF "INTEGER" \in {a.aff, b.aff} THEN Numeric(v) ELSE v
\* compare_op under the left column's collation; NULL equals nothing.
Equal(a, v, b, w) == /\ v # NULL /\ w # NULL
                     /\ Image(CompareAs(a, b, v), a.coll) = Image(CompareAs(a, b, w), a.coll)
EqHolds(cols, row, e) ==
  LET i == At(cols, e[1])
      j == At(cols, e[2]) IN Equal(cols[i], row[i], cols[j], row[j])
OnHolds(cols, row, on) == \A k \in DOMAIN on : EqHolds(cols, row, on[k])
\* A pin is [ref, v]: a column of the WHERE compared with an integer.
PinHolds(cols, row, pin) ==
  LET i == At(cols, pin.ref) IN row[i] # NULL /\ row[i] = Coerce(cols[i].aff, pin.v)
Where(cols, row) == /\ OnHolds(cols, row, q.eqs)
                    /\ \A k \in DOMAIN q.pins : PinHolds(cols, row, q.pins[k])

(* ---- Access paths of the joined table ---- *)
Plain(join) == ~join.natural /\ join.using = <<>>
\* The lone equality of an ON between the joined table and an earlier column:
\* <<local column, outer reference>>, or <<>>.
LoneEq(join, cols) ==
  IF Len(join.on) # 1 THEN <<>>
  ELSE LET l == join.on[1][1]
           r == join.on[1][2] IN
       CASE l[1] = join.t /\ Resolves(cols, r) -> <<l[2], r>>
         [] r[1] = join.t /\ Resolves(cols, l) -> <<r[2], l>>
         [] OTHER -> <<>>
Seekable(join) == join.kind \in {"inner", "left"} /\ Plain(join)
AffinityOk(outer, inner) == outer = "INTEGER" => inner = "INTEGER"
LedBy(t, c) == SelectSeq([i \in DOMAIN db[t].indexes |-> i], LAMBDA i : db[t].indexes[i].cols[1] = c)

\* An access path: [via, outer, ix, covered]; via "scan" reads every row.  covered:
\* the rows are read in the order of a covering index, if the table has one.
Path(via, outer, ix) == [via |-> via, outer |-> outer, ix |-> ix, covered |-> FALSE]
RowidJoinSeek(join, cols) ==
  LET eq == LoneEq(join, cols) IN
  IF Seekable(join) /\ eq # <<>> /\ eq[1] = db[join.t].ipk THEN <<Path("rowid", eq[2], 0)>> ELSE <<>>
IndexJoinSeek(join, cols) ==
  LET eq == LoneEq(join, cols)
      led == LedBy(join.t, eq[1]) IN
  IF Seekable(join) /\ eq # <<>> /\ ~db[join.t].wr /\ led # <<>>
     /\ AffinityOk(Column(eq[2]).aff, db[join.t].cols[eq[1]].aff)
  THEN <<Path("index", eq[2], led[1])>> ELSE <<>>
WithoutRowidPkJoinSeek(join, cols) ==
  LET eq == LoneEq(join, cols) IN
  IF Seekable(join) /\ eq # <<>> /\ db[join.t].wr /\ eq[1] = 1 THEN <<Path("pk", eq[2], 0)>> ELSE <<>>
\* join_equi_cols: the first equality between both sides with BINARY columns;
\* the local column takes the index's place in the path.
HashJoin(join, cols) ==
  LET Side(e) == IF e[1][1] = join.t THEN <<e[1], e[2]>> ELSE <<e[2], e[1]>>
      Links(e) == /\ Side(e)[1][1] = join.t /\ Resolves(cols, Side(e)[2])
                  /\ Column(e[1]).coll = "BINARY" /\ Column(e[2]).coll = "BINARY"
      links == SelectSeq(join.on, Links) IN
  IF Plain(join) /\ links # <<>>
  THEN <<Path("hash", Side(links[1])[2], Side(links[1])[1][2])>> ELSE <<>>
\* The rows of an inner or a left hash join are in rowid order.
TreePath(join, cols) ==
  LET path == (RowidJoinSeek(join, cols) \o IndexJoinSeek(join, cols) \o WithoutRowidPkJoinSeek(join, cols)
                 \o HashJoin(join, cols) \o <<Path("scan", <<0, 0>>, 0)>>)[1] IN
  [path EXCEPT !.covered = \/ path.via = "scan"
                           \/ path.via = "hash" /\ join.kind \notin {"inner", "left"}]

\* The rowid a value seeks: an integer, or a text that is one.
RowidKey(v) == Numeric(v)
\* join_keys_of: a number keys by its number and its text, a text by both.
JoinKeys(v) == CASE v = NULL -> {}
                 [] v \in 1 .. 3 -> {<<"num", v>>, <<"text", v + 10>>}
                 [] OTHER -> {<<"text", v>>, <<"num", IF v < 15 THEN Numeric(v) ELSE 0>>}
\* The entries of an index are in key order, equal keys in rowid order.
IndexOrder(t, ix, i, j) ==
  LET Key(n, k) == Image(db[t].rows[n][ix.cols[k]], ix.colls[k]) IN
  \/ \E k \in DOMAIN ix.cols : Key(i, k) < Key(j, k) /\ \A m \in 1 .. k - 1 : Key(i, m) = Key(j, m)
  \/ i < j /\ \A k \in DOMAIN ix.cols : Key(i, k) = Key(j, k)
\* The indexes that hold every column of t the query reads (the columns it only
\* projects are among them, or are the rowid).
Reads(t) == {c \in DOMAIN db[t].cols :
  \/ \E j \in DOMAIN q.joins : \E k \in DOMAIN q.joins[j].on : \E s \in {1, 2} : q.joins[j].on[k][s] = <<t, c>>
  \/ \E k \in DOMAIN q.eqs : \E s \in {1, 2} : q.eqs[k][s] = <<t, c>>
  \/ \E k \in DOMAIN q.pins : q.pins[k].ref = <<t, c>>
  \/ \E k \in DOMAIN q.order : q.order[k].ref = <<t, c>>}
Covering(t) == {i \in DOMAIN db[t].indexes :
  ~db[t].wr /\ \A c \in Reads(t) : c = db[t].ipk \/ \E k \in DOMAIN db[t].indexes[i].cols : db[t].indexes[i].cols[k] = c}
\* join_scan_covering_index: the narrowest of them, the newest of equals, or 0.
JoinScanCoveringIndex(t) ==
  IF ~planner.narrow \/ Covering(t) = {} THEN 0
  ELSE LET Width(i) == Len(db[t].indexes[i].cols) IN
       CHOOSE i \in Covering(t) : \A j \in Covering(t) : Width(i) < Width(j) \/ (Width(i) = Width(j) /\ j <= i)
\* A scan of the tree walker reads the table in the order of that index.
ScanOrder(t) ==
  LET all == [i \in DOMAIN db[t].rows |-> i]
      ix == JoinScanCoveringIndex(t) IN
  IF ix = 0 THEN all ELSE SortSeq(all, LAMBDA i, j : IndexOrder(t, db[t].indexes[ix], i, j))
\* The rows of table t the path finds for the outer value v, as row numbers.
Candidates(t, path, v) ==
  LET all == IF path.covered THEN ScanOrder(t) ELSE [i \in DOMAIN db[t].rows |-> i]
      Value(i, c) == db[t].rows[i][c]
      Sought(c, coll) == SelectSeq(all, LAMBDA i :
        v # NULL /\ Image(Value(i, c), coll) = Image(Coerce(db[t].cols[c].aff, v), coll)) IN
  CASE path.via = "rowid" -> SelectSeq(all, LAMBDA i : v # NULL /\ Value(i, db[t].ipk) = RowidKey(v))
    [] path.via = "index" -> LET ix == db[t].indexes[path.ix] IN
         SortSeq(Sought(ix.cols[1], ix.colls[1]), LAMBDA i, j : IndexOrder(t, ix, i, j))
    [] path.via = "pk" -> Sought(1, db[t].cols[1].coll)
    [] path.via = "hash" -> SelectSeq(all, LAMBDA i : JoinKeys(Value(i, path.ix)) \intersect JoinKeys(v) # {})
    [] path.via = "scan" -> all

(* ---- One step of the fold ---- *)
\* NATURAL and USING: pairs of positions <<left, right>>, by the first column of
\* each name.
FirstNamed(cols, name) == LET named == {i \in DOMAIN cols : cols[i].name = name} IN
                          CHOOSE i \in named : \A j \in named : i <= j
Names(cols) == {cols[i].name : i \in DOMAIN cols}
Pairs(join, cols, jcols) ==
  IF join.natural
  THEN LET shared == SelectSeq([r \in DOMAIN jcols |-> r], LAMBDA r : jcols[r].name \in Names(cols)) IN
       [k \in DOMAIN shared |-> <<FirstNamed(cols, jcols[shared[k]].name), shared[k]>>]
  ELSE [k \in DOMAIN join.using |-> <<FirstNamed(cols, join.using[k]), FirstNamed(jcols, join.using[k])>>]
Matches(join, all, width, pairs, row) ==
  IF pairs # <<>>
  THEN \A k \in DOMAIN pairs : Equal(all[pairs[k][1]], row[pairs[k][1]],
                                     all[width + pairs[k][2]], row[width + pairs[k][2]])
  ELSE OnHolds(all, row, join.on)
\* A shared column takes the right value where the left is NULL; the right
\* columns of the pairs are dropped.
Coalesced(row, width, pairs) ==
  [i \in DOMAIN row |-> LET p == SelectSeq(pairs, LAMBDA x : x[1] = i) IN
     IF p # <<>> /\ row[i] = NULL THEN row[width + p[1][2]] ELSE row[i]]
Kept(s, width, pairs) ==
  LET kept == SelectSeq([i \in DOMAIN s |-> i], LAMBDA i : \A k \in DOMAIN pairs : i # width + pairs[k][2])
  IN [k \in DOMAIN kept |-> s[kept[k]]]
\* For each row on the left, the rows the path finds that pass the ON, then the
\* NULL-extended rows of an outer join.
JoinStep(cols, left, join, path) ==
  LET jcols == ColumnsOf(join.t)
      width == Len(cols)
      all == cols \o jcols
      pairs == Pairs(join, cols, jcols)
      jrows == db[join.t].rows
      Key(l) == IF path.via = "scan" THEN NULL ELSE l[At(cols, path.outer)] IN
  Val!Given([n \in DOMAIN left |->
          SelectSeq(Candidates(join.t, path, Key(left[n])),
                    LAMBDA i : Matches(join, all, width, pairs, left[n] \o jrows[i]))], LAMBDA hits :
  LET Extended(n) == IF hits[n] = <<>> /\ join.kind \in {"left", "full"}
                     THEN <<left[n] \o Nulls(Len(jcols))>>
                     ELSE [k \in DOMAIN hits[n] |-> left[n] \o jrows[hits[n][k]]]
      unmatched == IF join.kind \notin {"right", "full"} THEN <<>>
                   ELSE SelectSeq(IF path.covered THEN ScanOrder(join.t) ELSE [i \in DOMAIN jrows |-> i],
                                  LAMBDA i : \A n \in DOMAIN hits : \A k \in DOMAIN hits[n] : hits[n][k] # i)
      joined == FlattenSeq([n \in DOMAIN left |-> Extended(n)])
                  \o [k \in DOMAIN unmatched |-> Nulls(width) \o jrows[unmatched[k]]]
  IN [cols |-> Kept(all, width, pairs),
      rows |-> [n \in DOMAIN joined |-> Kept(Coalesced(joined[n], width, pairs), width, pairs)]])

(* ---- The order of the tables ---- *)
InnerPlain(join) == join.kind = "inner" /\ Plain(join)
\* promote_comma_join_ons: a comma join takes the first equality of the WHERE
\* that links it to an earlier table (the equality also stays in the WHERE).
Promoted ==
  [i \in DOMAIN q.joins |->
    LET join == q.joins[i]
        Links(e) == \/ e[1][1] = join.t /\ e[2][1] < join.t
                    \/ e[2][1] = join.t /\ e[1][1] < join.t
        eqs == SelectSeq(q.eqs, Links) IN
    IF InnerPlain(join) /\ join.on = <<>> /\ eqs # <<>> THEN [join EXCEPT !.on = <<eqs[1]>>] ELSE join]

\* The columns of the two tables a lone ON compares: <<of the first, of the second>>.
TwoTableEq(joins) ==
  IF Len(joins) # 1 \/ ~InnerPlain(joins[1]) THEN <<>>
  ELSE LET eq == LoneEq(joins[1], ColumnsOf(1)) IN IF eq = <<>> THEN <<>> ELSE <<eq[2][2], eq[1]>>
RowidInnerSwap(joins) ==
  LET eq == TwoTableEq(joins) IN
  /\ eq # <<>> /\ db[1].ipk = eq[1]
  /\ db[2].ipk = eq[2] => planner.cheaper
LocalColSeekable(t, c) == db[t].ipk = c \/ LedBy(t, c) # <<>>
IndexInnerSwap(joins) ==
  LET eq == TwoTableEq(joins) IN
  /\ eq # <<>> /\ ~db[1].wr /\ db[1].ipk # eq[1]
  /\ LedBy(1, eq[1]) # <<>>
  /\ AffinityOk(db[2].cols[eq[2]].aff, db[1].cols[eq[1]].aff)
  /\ LocalColSeekable(2, eq[2]) => planner.cheaper

\* An edge of the join graph: an ON that is a lone equality of two tables.
Edge(join) == InnerPlain(join) /\ Len(join.on) = 1 /\ join.on[1][1][1] # join.on[1][2][1]
ReorderableOuter(joins) == /\ Len(joins) >= 2 /\ q.pins = <<>>
                           /\ \A i \in DOMAIN joins : Edge([joins[i] EXCEPT !.kind = "inner"])
Reorderable(joins) == Len(joins) >= 2 /\ q.pins = <<>> /\ \A i \in DOMAIN joins : Edge(joins[i])
ColumnsIn(order) == FlattenSeq([i \in DOMAIN order |-> ColumnsOf(order[i].t)])
SeekCost(join, cols) == IF RowidJoinSeek(join, cols) # <<>> THEN 0
                        ELSE IF IndexJoinSeek(join, cols) \o WithoutRowidPkJoinSeek(join, cols) # <<>> THEN 1
                        ELSE 2
\* One greedy step of place_from: the cheapest table an edge reaches, the
\* earliest of equals.  order is the driver and the joins placed so far.
Placed(joins, p) ==
  LET placed == {p.order[i].t : i \in DOMAIN p.order}
      Reached(i) == {joins[i].on[1][1][1], joins[i].on[1][2][1]} \ placed
      edges == {i \in DOMAIN joins : Cardinality(Reached(i)) = 1}
      cols == ColumnsIn(p.order)
      Cand(i) == [joins[i] EXCEPT !.t = CHOOSE t \in Reached(i) : TRUE, !.kind = "inner"]
      costs == [i \in edges |-> SeekCost(Cand(i), cols)]
      Before(i, j) == \/ costs[i] < costs[j]
                      \/ costs[i] = costs[j] /\ Cand(i).t < Cand(j).t
                      \/ costs[i] = costs[j] /\ Cand(i).t = Cand(j).t /\ i <= j IN
  IF edges = {} THEN [p EXCEPT !.ok = FALSE]
  ELSE LET best == CHOOSE i \in edges : \A j \in edges : Before(i, j) IN
       [p EXCEPT !.order = Append(@, Cand(best)), !.cost = @ + costs[best]]
PlaceFrom(joins, driver) ==
  FoldLeft(LAMBDA p, i : IF p.ok THEN Placed(joins, p) ELSE p,
           [order |-> <<[joins[1] EXCEPT !.t = driver]>>, cost |-> 0, ok |-> TRUE], joins)
\* ntable_join_order: the driver of the least total, or the one the statistics
\* prefer; <<>> when that is the declared order.
NTableOrder(joins) ==
  IF ~Reorderable(joins) THEN <<>>
  ELSE Val!Given([d \in Tables |-> PlaceFrom(joins, d)], LAMBDA p :
    LET good == {d \in Tables : p[d].ok}
        best == IF planner.driver \in good THEN planner.driver
                ELSE CHOOSE d \in good : \A e \in good : p[d].cost < p[e].cost \/ (p[d].cost = p[e].cost /\ d <= e) IN
    IF good = {} \/ [i \in DOMAIN p[best].order |-> p[best].order[i].t] = [i \in DOMAIN db |-> i]
    THEN <<>> ELSE p[best].order)

\* join_first_rowid_seek: the WHERE pins the rowid of the first table, which no
\* covering index is read for.
PinsFirst(joins) ==
  LET pins == SelectSeq(q.pins, LAMBDA p : p.ref = <<1, db[1].ipk>>) IN
  IF db[1].ipk = 0 \/ RowidInnerSwap(joins) \/ NTableOrder(joins) # <<>> \/ JoinScanCoveringIndex(1) # 0
  THEN <<>> ELSE pins

(* ---- Skipping the sort of a join (join_order_all_constant) ---- *)
InnerConst(joins) == {c \in DOMAIN db[2].cols : \E k \in DOMAIN joins[1].on :
                        LET e == joins[1].on[k] IN
                        (e[1] = <<2, c>> /\ e[2][1] = 1) \/ (e[2] = <<2, c>> /\ e[1][1] = 1)}
PlainRowidScan(joins) ==
  /\ db[2].ipk # 0
  /\ LET ix == JoinScanCoveringIndex(2) IN
     ix # 0 => Len(db[2].indexes[ix].cols) = 1 /\ db[2].indexes[ix].cols[1] \in InnerConst(joins)
  /\ \A i \in DOMAIN db[2].indexes : LET ix == db[2].indexes[i] IN ~(Len(ix.cols) > 1 /\ ix.cols[1] \in InnerConst(joins))
  /\ \A k \in DOMAIN q.pins : q.pins[k].ref[1] # 2
OrderAllConstant(joins) ==
  LET Rowid(k) == PlainRowidScan(joins) /\ q.order[k].ref = <<2, db[2].ipk>> /\ ~q.order[k].desc
      Constant(k) == q.order[k].ref[1] = 1 \/ q.order[k].ref[2] \in InnerConst(joins) IN
  /\ Len(joins) = 1 /\ q.order # <<>> /\ InnerPlain(joins[1])
  /\ PinsFirst(joins) # <<>>
  /\ \A k \in DOMAIN q.order : Constant(k) \/ Rowid(k) \/ \E j \in 1 .. k - 1 : Rowid(j) /\ ~Constant(j)

(* ---- The compiled engine (run_select_vdbe) ---- *)
UniqueIndexOn(t, c) == \E i \in DOMAIN db[t].indexes : db[t].indexes[i].unique /\ db[t].indexes[i].cols = <<c>>
\* A swap, a reordering or a scan in index order the compiled engine does not
\* reproduce is left to the tree walker, unless an ORDER BY makes the order of the
\* rows irrelevant.  vdbe_join_covering_reorders takes every link to an earlier
\* table but the first for a scan.
SingleMatch(order) == \A i \in 2 .. Len(order) :
  LET eq == order[i].on[1]
      c == IF eq[1][1] = order[i].t THEN eq[1][2] ELSE eq[2][2] IN
  db[order[i].t].ipk = c \/ UniqueIndexOn(order[i].t, c)
CoveringReorders ==
  \/ JoinScanCoveringIndex(1) # 0
  \/ \E i \in DOMAIN q.joins : LET join == q.joins[i] IN
       /\ join.kind \in {"inner", "left"} => HashJoin(join, ColumnsOf(1)) = <<>>
       /\ JoinScanCoveringIndex(join.t) # 0
LoopOrder ==
  IF q.order # <<>> THEN <<"declared">>
  ELSE IF CoveringReorders \/ (RowidInnerSwap(Promoted) /\ JoinScanCoveringIndex(2) # 0) THEN <<"declined">>
  ELSE IF RowidInnerSwap(Promoted) THEN <<"order", <<2, 1>>>>
  ELSE IF IndexInnerSwap(Promoted)
  THEN LET c == TwoTableEq(Promoted)[1]
           ix == db[1].indexes[LedBy(1, c)[1]] IN
       IF ix.unique /\ Len(ix.cols) = 1 /\ JoinScanCoveringIndex(2) = 0
       THEN <<"order", <<2, 1>>>> ELSE <<"declined">>
  ELSE Val!Given(NTableOrder(Promoted), LAMBDA order :
         IF order = <<>> THEN <<"declared">>
         ELSE IF SingleMatch(order) /\ JoinScanCoveringIndex(order[1].t) = 0 THEN <<"order", [i \in DOMAIN order |-> order[i].t]>>
         ELSE <<"declined">>)
\* The seek of one inner join: the rowid, or a unique single-column BINARY index
\* whose key has the affinity and the collation of the outer column.
VdbeSeek(join, cols) ==
  LET Local(e) == IF e[1][1] = join.t THEN e[1][2] ELSE e[2][2]
      Outer(e) == IF e[1][1] = join.t THEN e[2] ELSE e[1]
      Links(e) == (e[1][1] = join.t \/ e[2][1] = join.t) /\ Resolves(cols, Outer(e))
      OnRowid == SelectSeq(join.on, LAMBDA e : Links(e) /\ Local(e) = db[join.t].ipk)
      Fits(i, e) == LET ix == db[join.t].indexes[i] IN
        /\ Links(e) /\ ix.unique /\ ix.cols = <<Local(e)>> /\ ix.colls[1] = "BINARY"
        /\ LET own == db[join.t].cols[Local(e)] IN
           own.coll = "BINARY" /\ Column(Outer(e)).aff = own.aff /\ Column(Outer(e)).coll = "BINARY"
      usable == {i \in DOMAIN db[join.t].indexes : \E k \in DOMAIN join.on : Fits(i, join.on[k])} IN
  IF db[join.t].wr THEN <<>>
  ELSE IF OnRowid # <<>> THEN <<Path("rowid", Outer(OnRowid[1]), 0)>>
  ELSE IF usable = {} THEN <<>>
  ELSE LET i == CHOOSE i \in usable : \A j \in usable : i <= j IN
       <<Path("index", Outer(SelectSeq(join.on, LAMBDA e : Fits(i, e))[1]), i)>>
VdbeSeeks == /\ Len(q.joins) <= 3
             /\ \A i \in DOMAIN q.joins : VdbeSeek(q.joins[i], FlattenSeq([t \in 1 .. i |-> ColumnsOf(t)])) # <<>>

(* ---- Actions ---- *)
Outer == \E i \in DOMAIN q.joins : ~InnerPlain(q.joins[i])
FirstRows(t) == columns' = ColumnsOf(t) /\ rows' = db[t].rows
DriverRows(t) == /\ columns' = ColumnsOf(t)
                 /\ rows' = [n \in DOMAIN db[t].rows |-> db[t].rows[ScanOrder(t)[n]]]
Init == /\ db \in Databases /\ q \in {x \in Queries : Len(x.joins) = Len(db) - 1}
        /\ planner \in [vdbe : BOOLEAN, cheaper : BOOLEAN, driver : 0 .. Len(db), narrow : BOOLEAN]
        /\ Len(db) = 2 => planner.driver = 0
        /\ planner.narrow => \E t \in Tables : Covering(t) # {}
        /\ pc = "start" /\ columns = <<>> /\ rows = <<>> /\ rest = <<>>
        /\ elided = FALSE /\ unforeseen = FALSE

\* The compiled engine: a nested loop for outer, NATURAL and USING joins; seeks
\* in the declared order; or loops over all tables with the ON in the WHERE.
Vdbe ==
  /\ pc = "start" /\ planner.vdbe
  /\ \E order \in {LoopOrder} :
     \/ /\ order[1] = "declined"
        /\ pc' = "tree"
        /\ UNCHANGED <<columns, rows, rest>>
     \/ /\ order[1] # "declined"
        /\ IF Outer THEN FirstRows(1) /\ rest' = q.joins /\ pc' = "loop"
           ELSE IF VdbeSeeks THEN FirstRows(1) /\ rest' = q.joins /\ pc' = "seek"
           ELSE \E ts \in {IF order[1] = "declared" THEN [i \in DOMAIN db |-> i] ELSE order[2]} :
                  /\ FirstRows(ts[1])
                  /\ rest' = [i \in 1 .. Len(ts) - 1 |-> [q.joins[1] EXCEPT !.t = ts[i + 1], !.on = <<>>]]
                  /\ pc' = "loop"
  /\ UNCHANGED <<db, q, planner, elided, unforeseen>>

\* scan_source: the tree walker chooses the driver and the order of the tables.
Tree ==
  /\ pc = "tree" \/ (pc = "start" /\ ~planner.vdbe)
  /\ \E joins \in {Promoted} : \E pins \in {PinsFirst(joins)}, order \in {NTableOrder(joins)} :
     /\ IF RowidInnerSwap(joins) \/ (pins = <<>> /\ IndexInnerSwap(joins))
        THEN DriverRows(2) /\ rest' = <<[joins[1] EXCEPT !.t = 1]>>
        ELSE IF order # <<>> THEN DriverRows(order[1].t) /\ rest' = Tail(order)
        ELSE IF pins = <<>> THEN DriverRows(1) /\ rest' = joins
        ELSE /\ columns' = ColumnsOf(1) /\ rest' = joins
             /\ rows' = SelectSeq(db[1].rows, LAMBDA r : r[db[1].ipk] = pins[1].v)
     /\ elided' = OrderAllConstant(joins)
     \* An equality whose comparison tells values apart differently from the sort.
     /\ unforeseen' = (elided' /\ \E k \in DOMAIN joins[1].on :
          LET e == joins[1].on[k]
              own == IF e[1][1] = 2 THEN e[1] ELSE e[2] IN
          ~AffinityOk(Column(IF own = e[1] THEN e[2] ELSE e[1]).aff, Column(own).aff) \/ Column(e[1]).coll # Column(own).coll)
  /\ pc' = "fold"
  /\ UNCHANGED <<db, q, planner>>

\* A seek whose key order is not that of the comparison: index_join_seek does not
\* look at the collation of the index, without_rowid_pk_join_seek at neither.
Blind(join, path) ==
  \/ path.via = "index" /\ db[join.t].indexes[path.ix].colls[1] # Column(join.on[1][1]).coll
  \/ path.via = "pk" /\ \/ db[join.t].cols[1].coll # Column(join.on[1][1]).coll
                        \/ ~AffinityOk(Column(path.outer).aff, db[join.t].cols[1].aff)
\* fold_joins_rowid, one join.
Fold ==
  /\ pc \in {"fold", "seek", "loop"} /\ rest # <<>>
  /\ \E path \in {CASE pc = "fold" -> TreePath(rest[1], columns)
                    [] pc = "seek" -> VdbeSeek(rest[1], columns)[1]
                    [] pc = "loop" -> Path("scan", <<0, 0>>, 0)} :
     \E step \in {JoinStep(columns, rows, rest[1], path)} :
     /\ columns' = step.cols /\ rows' = step.rows
     /\ unforeseen' = (unforeseen \/ (pc = "fold" /\ Blind(rest[1], path)))
  /\ rest' = Tail(rest)
  /\ UNCHANGED <<db, q, planner, pc, elided>>

\* The columns of a reordered join go back to the declared order; the WHERE is
\* evaluated on every row (in the compiled engine's loops, with every inner ON).
Finish ==
  /\ pc \in {"fold", "seek", "loop"} /\ rest = <<>>
  /\ \E perm \in {IF Outer THEN [i \in DOMAIN columns |-> i]
                  ELSE LET all == FlattenSeq([t \in DOMAIN db |-> ColumnsOf(t)]) IN
                       [i \in DOMAIN all |-> At(columns, <<all[i].t, all[i].c>>)]} :
     /\ columns' = [i \in DOMAIN perm |-> columns[perm[i]]]
     /\ rows' = LET Passes(r) == /\ Where(columns, r)
                                 /\ pc = "loop" /\ ~Outer => \A j \in DOMAIN q.joins : OnHolds(columns, r, q.joins[j].on)
                    kept == SelectSeq(rows, Passes) IN
                [n \in DOMAIN kept |-> [i \in DOMAIN perm |-> kept[n][perm[i]]]]
  /\ pc' = "done"
  /\ UNCHANGED <<db, q, planner, rest, elided, unforeseen>>

Next == Vdbe \/ Tree \/ Fold \/ Finish
Spec == Init /\ [][Next]_vars

(* ---- Properties ---- *)
\* The answer of the nested loop over all pairs in the declared order.
NestedLoop ==
  LET all == FoldLeft(LAMBDA acc, join : JoinStep(acc.cols, acc.rows, join, Path("scan", <<0, 0>>, 0)),
                      [cols |-> ColumnsOf(1), rows |-> db[1].rows], q.joins)
  IN SelectSeq(all.rows, LAMBDA r : Where(all.cols, r))
Occurrences(s, x) == Cardinality({i \in DOMAIN s : s[i] = x})
SameRows(s, t) == Len(s) = Len(t) /\ \A i \in DOMAIN s : Occurrences(s, s[i]) = Occurrences(t, s[i])
Sorted == \A i \in 1 .. Len(rows) - 1 :
  LET Key(n, k) == LET c == At(columns, q.order[k].ref) IN Image(rows[n][c], columns[c].coll)
      Less(k, a, b) == IF q.order[k].desc THEN Key(a, k) > Key(b, k) ELSE Key(a, k) < Key(b, k) IN
  ~ \E k \in DOMAIN q.order : Less(k, i + 1, i) /\ \A j \in 1 .. k - 1 : Key(i, j) = Key(i + 1, j)

\* Whichever engine runs, whichever tables it seeks and in whichever order, a
\* join returns the rows of the nested loop, each as often, with the columns in
\* the declared order (fold_joins_rowid, ntable_join_order, the swaps, the hash
\* join and run_select_vdbe); and where the sort was skipped the rows are in the
\* ORDER BY order (join_order_all_constant).  Set apart are the seeks that do
\* not compare the way the ON does.
JoinIsNestedLoop == pc = "done" /\ ~unforeseen =>
                      /\ Val!Given(NestedLoop, LAMBDA answer : SameRows(rows, answer))
                      /\ elided => Sorted
=============================================================================
