-------------------------------- MODULE RTree --------------------------------
(***************************************************************************)
(* The writable spatial virtual tables (exec/mod.rs: exec_vtab_insert,     *)
(* exec_vtab_delete, exec_vtab_update, rtree_*, geopoly_*; vtab.rs): rtree,*)
(* rtree_i32 and geopoly.  Each keeps a tree of nodes in three shadow      *)
(* tables.  A statement reads every entry, works out the new list, builds  *)
(* a whole new tree from it and replaces the shadow tables by SQL          *)
(* statements of its own, one row at a time; outside a transaction each of *)
(* those commits.  A query walks the tree and leaves out the subtrees      *)
(* whose bounding box its WHERE rules out.                                 *)
(*                                                                         *)
(* A coordinate is an integer; stored as a 32-bit float it keeps Precision *)
(* leading bits.  A polygon is the set of its points.                      *)
(***************************************************************************)
EXTENDS Integers, Sequences, SequencesExt, FiniteSets, FiniteSetsExt, Functions
LOCAL INSTANCE Values

CONSTANTS
  Kinds,          \* a subset of {"rtree", "rtree_i32", "geopoly"}
  Statements(_),  \* the statements of a kind of table: [op, conf, rows, where, set]
  Queries(_),     \* the WHERE clauses of a kind of table
  MaxCells,       \* the cells a node holds
  Precision,      \* the leading bits of a coordinate that are kept
  MaxStatements,  \* the statements a behaviour runs
  MaxInt          \* the largest integer coordinate of rtree_i32

VARIABLES
  kind,     \* the table's module
  mem,      \* the shadow tables as the connection sees them: [node, rowid, parent]
  disk,     \* what is committed of them
  saved,    \* mem when the statement at work began
  tx,       \* a transaction is open
  todo,     \* the nested statements left to run
  count,    \* statements run
  rows, base, \* history: the rows the table should hold, and those committed
  want,     \* history: rows once the statement at work is done
  outcome,  \* history: how the last statement ended: "ok", "error" or "crash"
  odd,      \* history: a statement met an id the code does not foresee
  torn      \* history: a write outside a transaction was cut short

vars == <<kind, mem, disk, saved, tx, todo, count, rows, base, want, outcome, odd, torn>>
history == <<rows, base, want, outcome, odd, torn>>

Geo == kind = "geopoly"
Abs(x) == IF x < 0 THEN -x ELSE x

(* ---- Coordinates ---- *)
\* The 32-bit floats: Precision bits, shifted.
Floats == {m * 2^e : m \in 0 .. 2^Precision - 1, e \in 0 .. 3}
EvenMantissa(f) == \E e \in 0 .. 4 : f % 2^(e + 1) = 0 /\ f <= 2^(Precision + e)
                                     /\ (f > 2^(Precision + e - 1) \/ e = 0)
\* n / 2^(Precision - 1) as the nearest 32-bit float, ties to even.
Nearest(n) ==
  LET unit == 2^(Precision - 1)
      off(f) == Abs(f * unit - Abs(n))
      near == {f \in Floats : \A g \in Floats : off(f) <= off(g)}
      best == IF \E f \in near : EvenMantissa(f) THEN CHOOSE f \in near : EvenMantissa(f) ELSE Min(near) IN
  IF n < 0 THEN -best ELSE best
\* A lower bound is rounded down and an upper bound up: where the nearest float
\* lies on the wrong side, a factor a little off one brings it back.
Unit == 2^(Precision - 1)
Rounded(d, wrong(_), away) ==
  Given(Nearest(d * Unit), LAMBDA f : IF ~wrong(f) THEN f ELSE Nearest(d * (IF away THEN Unit + 1 ELSE Unit - 1)))
\* Rounding to the nearest.
RoundMinNearest(d) == Nearest(d * Unit)
RoundMin(d) == Rounded(d, LAMBDA f : f > d, d < 0)
RoundMax(d) == Rounded(d, LAMBDA f : f < d, d >= 0)
ToInt32(d) == Max({-MaxInt - 1, Min({MaxInt, d})})

\* The bounding box of what a row holds: <<min, max>>, for geopoly of both
\* axes.  An rtree row holds its two bounds, a geopoly row a shape: a polygon's
\* points, "zero" for other text, "bad" for what is neither.
BBox(pts) == <<Min({p[1] : p \in pts}), Max({p[1] : p \in pts}), Min({p[2] : p \in pts}), Max({p[2] : p \in pts})>>
RtreeCell(val) ==
  Given(IF kind = "rtree" THEN <<RoundMin(val[1]), RoundMax(val[2])>> ELSE <<ToInt32(val[1]), ToInt32(val[2])>>,
        LAMBDA b : [ok |-> b[1] <= b[2], box |-> b])
GeopolyCell(val) == [ok |-> val.is # "bad", box |-> IF val.is = "poly" THEN BBox(val.pts) ELSE <<0, 0, 0, 0>>]
Cell(val) == IF Geo THEN GeopolyCell(val) ELSE RtreeCell(val)

(* ---- Building the tree: rtree_bulk_build ---- *)
Chunks(s) == [i \in 1 .. (Len(s) + MaxCells - 1) \div MaxCells |-> SubSeq(s, (i - 1) * MaxCells + 1, Min({i * MaxCells, Len(s)}))]
UnionBox(cells) ==
  [d \in DOMAIN cells[1].box |-> IF d % 2 = 1 THEN Min({cells[i].box[d] : i \in DOMAIN cells}) ELSE Max({cells[i].box[d] : i \in DOMAIN cells})]
RECURSIVE Levels(_)
Levels(ls) ==
  IF Len(Last(ls)) <= 1 THEN ls
  ELSE Given(Chunks([i \in DOMAIN Last(ls) |-> [key |-> i, box |-> UnionBox(Last(ls)[i])]]), LAMBDA up : Levels(Append(ls, up)))
\* Nodes are numbered from the root, which is 1, downwards.
NodeNo(ls, l, i) == i + FoldLeft(+, 0, [h \in 1 .. Len(ls) |-> IF h > l THEN Len(ls[h]) ELSE 0])
LevelNodes(ls, l) ==
  [i \in DOMAIN ls[l] |-> [no |-> NodeNo(ls, l, i),
                           cells |-> IF l = 1 THEN ls[l][i]
                                     ELSE [c \in DOMAIN ls[l][i] |-> [ls[l][i][c] EXCEPT !.key = NodeNo(ls, l - 1, ls[l][i][c].key)]],
                           depth |-> IF l = Len(ls) THEN l - 1 ELSE 0]]
BuildNodes(ls) == FlattenSeq([l \in DOMAIN ls |-> LevelNodes(ls, l)])
BulkBuild(entries) ==
  IF entries = <<>> THEN <<[no |-> 1, cells |-> <<>>, depth |-> 0]>> ELSE BuildNodes(Levels(<<Chunks(entries)>>))

(* ---- Reading it: scan_rtree_nodes ---- *)
Satisfies(c, x) ==
  CASE ~c.num -> c.op \in {"<", "<="}
    [] c.op = "<" -> x < c.v
    [] c.op = "<=" -> x <= c.v
    [] c.op = ">" -> x > c.v
    [] c.op = ">=" -> x >= c.v
    [] c.op = "=" -> x = c.v
\* A subtree may hold a row for which the constraint is true.
MayHold(c, box) ==
  LET lo == box[2 * ((c.col - 1) \div 2) + 1]
      hi == box[2 * ((c.col - 1) \div 2) + 2] IN
  CASE c.op \in {">", ">="} -> Satisfies(c, hi)
    [] c.op \in {"<", "<="} -> Satisfies(c, lo)
    [] c.op = "=" -> lo <= c.v /\ c.v <= hi
RECURSIVE Walk(_, _, _)
Walk(node, stack, cs) ==
  IF stack = <<>> THEN <<>>
  ELSE Given(Last(stack), LAMBDA top : Given(IF top[1] \in DOMAIN node THEN node[top[1]].cells ELSE <<>>, LAMBDA cells :
         IF top[2] = 0 THEN cells \o Walk(node, Front(stack), cs)
         ELSE Given(SelectSeq(cells, LAMBDA e : \A c \in Range(cs) : MayHold(c, e.box)), LAMBDA kept :
                Walk(node, Front(stack) \o [i \in DOMAIN kept |-> <<kept[i].key, top[2] - 1>>], cs))))
Scan(m, cs) == IF 1 \in DOMAIN m.node THEN Walk(m.node, <<<<1, m.node[1].depth>>>>, cs) ELSE <<>>
\* The constraints of a WHERE the walk uses: those between a coordinate and a
\* number; of geopoly_overlap and geopoly_within, the query polygon's box.
PushedCoords(w) == SelectSeq(w, LAMBDA c : c.col > 0 /\ c.num)
Bounding(b) ==
  <<[col |-> 1, op |-> "<=", v |-> b[2], num |-> TRUE], [col |-> 2, op |-> ">=", v |-> b[1], num |-> TRUE],
    [col |-> 3, op |-> "<=", v |-> b[4], num |-> TRUE], [col |-> 4, op |-> ">=", v |-> b[3], num |-> TRUE]>>
QueryBBox(w) == FlattenSeq([i \in DOMAIN w |-> IF w[i].is # "shape" THEN <<>> ELSE Bounding(BBox(w[i].pts))])
Pushed(w) == IF Geo THEN QueryBBox(w) ELSE PushedCoords(w)
\* The WHERE itself, of an entry and what its row keeps beside the tree.
Where(w, key, box, aux) ==
  \A i \in DOMAIN w :
    IF ~Geo THEN Satisfies(w[i], IF w[i].col = 0 THEN key ELSE box[w[i].col])
    ELSE IF w[i].is = "rowid" THEN key = w[i].v
    ELSE aux.val.is = "poly" /\ (IF w[i].fn = "within" THEN aux.val.pts \subseteq w[i].pts ELSE aux.val.pts \cap w[i].pts # {})
Nothing == IF Geo THEN [val |-> [is |-> "zero"], user |-> <<>>] ELSE <<>>
Aux(m, key) == IF key \in DOMAIN m.rowid THEN m.rowid[key].aux ELSE Nothing
Answer(m, w, cs) == SelectSeq(Scan(m, cs), LAMBDA e : Where(w, e.key, e.box, Aux(m, e.key)))

(* ---- The statements ---- *)
Entries == Scan(mem, <<>>)
Keys(s) == {s[i].key : i \in DOMAIN s}
\* What is kept beside the tree: a plain rtree has nothing, geopoly its shape too.
Kept(row) == CASE kind = "rtree" -> <<>> [] kind = "rtree_i32" -> row.aux [] Geo -> [val |-> row.val, user |-> row.aux]
\* exec_vtab_insert, one row: an id is given or is the next after the largest
\* there was; only geopoly counts the ids given on the way.
InsertRow(conf, acc, row) ==
  LET rid == IF row.id # 0 THEN row.id ELSE acc.next
      next == IF Geo THEN Max({acc.next, rid + 1}) ELSE IF row.id = 0 THEN acc.next + 1 ELSE acc.next
      stale == acc.stale \/ (row.id = 0 /\ rid \in acc.existing)
      passed == [acc EXCEPT !.next = next, !.ids = Append(@, rid), !.stale = stale]
      failed == [acc EXCEPT !.err = TRUE, !.ids = Append(@, rid), !.stale = stale] IN
  Given(Cell(row.val), LAMBDA cell :
    CASE acc.err -> acc
      [] ~acc.err /\ ~Geo /\ ~cell.ok -> IF conf = "ignore" THEN passed ELSE failed
      [] ~acc.err /\ (Geo \/ cell.ok) /\ rid \in acc.existing /\ conf # "replace" -> IF conf = "ignore" THEN passed ELSE failed
      [] ~acc.err /\ ~cell.ok /\ Geo /\ (rid \in acc.existing => conf = "replace") -> failed
      [] OTHER -> [existing |-> acc.existing \union {rid}, next |-> next, err |-> FALSE, ids |-> Append(acc.ids, rid),
                   batch |-> Append(SelectSeq(acc.batch, LAMBDA b : b.key # rid), [key |-> rid, box |-> cell.box, aux |-> Kept(row)]),
                   stale |-> stale])
Existing == IF Geo THEN DOMAIN mem.rowid ELSE Keys(Entries)
Inserted(s) ==
  FoldLeft(LAMBDA acc, row : InsertRow(s.conf, acc, row),
           [existing |-> Existing, next |-> Max(Existing \union {0}) + 1, err |-> FALSE, ids |-> <<>>, batch |-> <<>>, stale |-> FALSE], s.rows)
Victims(s) == Answer(mem, s.where, <<>>)
\* exec_vtab_update: the values a row is left with.
Updated(s, e) ==
  LET id == IF Geo \/ s.set.id = 0 THEN e.key ELSE s.set.id
      old == IF Geo THEN Aux(mem, e.key).val ELSE e.box
      val == IF s.set.val = <<>> THEN old ELSE s.set.val[1] IN
  Given(Cell(val), LAMBDA cell :
    [key |-> id, ok |-> cell.ok, box |-> cell.box,
     aux |-> IF Geo THEN [val |-> val, user |-> Aux(mem, e.key).user] ELSE Aux(mem, e.key)])
\* rtree_apply and rtree_apply_aux: the entries afterwards, and what is kept of
\* each beside the tree.
Applied(inserts, removed) ==
  [entries |-> SelectSeq(Entries, LAMBDA e : e.key \notin removed) \o [i \in DOMAIN inserts |-> [key |-> inserts[i].key, box |-> inserts[i].box]],
   aux |-> [k \in (DOMAIN mem.rowid \ removed) \union Keys(inserts) |->
              IF \E i \in DOMAIN inserts : inserts[i].key = k
              THEN inserts[Max({i \in DOMAIN inserts : inserts[i].key = k})].aux ELSE mem.rowid[k].aux]]
\* rtree_write_build_aux: the nested statements.
Clears == <<[t |-> "node", k |-> 0, v |-> 0], [t |-> "rowid", k |-> 0, v |-> 0], [t |-> "parent", k |-> 0, v |-> 0]>>
RowidWrites(nodes, leaves, aux) ==
  FlattenSeq([i \in 1 .. leaves |-> [c \in DOMAIN nodes[i].cells |->
    [t |-> "rowid", k |-> nodes[i].cells[c].key, v |-> [node |-> nodes[i].no, aux |-> IF nodes[i].cells[c].key \in DOMAIN aux THEN aux[nodes[i].cells[c].key] ELSE Nothing]]]])
ParentWrites(nodes, leaves) ==
  FlattenSeq([i \in 1 .. Len(nodes) - leaves |-> [c \in DOMAIN nodes[leaves + i].cells |->
    [t |-> "parent", k |-> nodes[leaves + i].cells[c].key, v |-> nodes[leaves + i].no]]])
Writes(entries, aux) ==
  LET leaves == Max({1, (Len(entries) + MaxCells - 1) \div MaxCells}) IN
  Given(BulkBuild(entries), LAMBDA nodes :
    Clears \o [i \in DOMAIN nodes |-> [t |-> "node", k |-> nodes[i].no, v |-> [depth |-> nodes[i].depth, cells |-> nodes[i].cells]]]
           \o RowidWrites(nodes, leaves, aux) \o ParentWrites(nodes, leaves))

(* ---- What a statement should do, row by row ---- *)
Held(cell, row) == [box |-> cell.box, aux |-> Kept(row), given |-> row.val]
MeantInsert(conf, acc, row, rid) ==
  Given(Cell(row.val), LAMBDA cell :
    CASE acc.err -> acc
      [] ~acc.err /\ (cell.ok => rid \in DOMAIN acc.rows /\ conf # "replace") ->
           IF conf = "ignore" /\ ~(Geo /\ ~cell.ok /\ rid \notin DOMAIN acc.rows) THEN acc ELSE [acc EXCEPT !.err = TRUE]
      [] OTHER -> [acc EXCEPT !.rows = [k \in DOMAIN acc.rows \union {rid} |-> IF k = rid THEN Held(cell, row) ELSE acc.rows[k]]])
\* An id that is not given is one the table does not hold: any, so it is the one
\* the code took.
Meant(s, ids) ==
  CASE s.op = "insert" ->
         FoldLeft(LAMBDA acc, i : MeantInsert(s.conf, acc, s.rows[i], ids[i]),
                  [rows |-> rows, err |-> FALSE], [i \in DOMAIN ids |-> i])
    [] s.op = "delete" -> [rows |-> [k \in {j \in DOMAIN rows : ~Where(s.where, j, rows[j].box, rows[j].aux)} |-> rows[k]], err |-> FALSE]
    [] s.op = "update" ->
         LET hit == {k \in DOMAIN rows : Where(s.where, k, rows[k].box, rows[k].aux)}
             to(k) == IF Geo \/ s.set.id = 0 THEN k ELSE s.set.id
             val(k) == IF s.set.val # <<>> THEN s.set.val[1] ELSE IF Geo THEN rows[k].aux.val ELSE rows[k].box
             clash == \E k \in hit : \E j \in DOMAIN rows : j # k /\ (IF j \in hit THEN to(j) ELSE j) = to(k) IN
         IF clash \/ \E k \in hit : ~Cell(val(k)).ok THEN [rows |-> rows, err |-> TRUE]
         ELSE [rows |-> [n \in (DOMAIN rows \ hit) \union {to(k) : k \in hit} |->
                  IF \E k \in hit : to(k) = n
                  THEN LET k == CHOOSE j \in hit : to(j) = n IN
                       [box |-> Cell(val(k)).box, aux |-> IF Geo THEN [rows[k].aux EXCEPT !.val = val(k)] ELSE rows[k].aux, given |-> val(k)]
                  ELSE rows[n]], err |-> FALSE]

(* ---- The steps ---- *)
\* A statement is worked out: it fails, or its writes begin.
Refuse == outcome' = "error" /\ UNCHANGED <<todo, saved, want>>
Start(inserts, removed, meant) ==
  /\ \E a \in {Applied(inserts, removed)} : todo' = Writes(a.entries, a.aux)
  /\ saved' = mem
  /\ want' = IF meant.err THEN rows ELSE meant.rows
  /\ outcome' = "busy"
Idle == todo = <<>>
Insert ==
  /\ Idle /\ count < MaxStatements
  /\ \E s \in {t \in Statements(kind) : t.op = "insert"} : \E r \in {Inserted(s)} : \E m \in {Meant(s, r.ids)} :
       /\ IF r.err THEN Refuse ELSE Start(r.batch, Keys(r.batch), m)
       /\ odd' = (odd \/ r.stale \/ (r.err /\ ~m.err))
  /\ count' = count + 1
  /\ UNCHANGED <<kind, mem, disk, tx, rows, base, torn>>
Delete ==
  /\ Idle /\ count < MaxStatements
  /\ \E s \in {t \in Statements(kind) : t.op = "delete"} : Start(<<>>, Keys(Victims(s)), Meant(s, <<>>))
  /\ count' = count + 1
  /\ UNCHANGED <<kind, mem, disk, tx, rows, base, odd, torn>>
Update ==
  /\ Idle /\ count < MaxStatements
  /\ \E s \in {t \in Statements(kind) : t.op = "update"} : \E v \in {Victims(s)} : \E m \in {Meant(s, <<>>)} :
     \E new \in {[i \in DOMAIN v |-> Updated(s, v[i])]} :
       /\ IF \E i \in DOMAIN new : ~new[i].ok THEN Refuse ELSE Start(new, Keys(v) \union Keys(new), m)
       /\ odd' = (odd \/ (m.err /\ \A i \in DOMAIN new : new[i].ok))
  /\ count' = count + 1
  /\ UNCHANGED <<kind, mem, disk, tx, rows, base, torn>>
\* One nested statement.  A duplicate key fails it, and with it the statement:
\* what the writer still holds back is undone.
Written(w) ==
  [mem EXCEPT ![w.t] = IF w.k = 0 THEN <<>>
                       ELSE [k \in DOMAIN mem[w.t] \union {w.k} |-> IF k = w.k THEN w.v ELSE mem[w.t][k]]]
Undo ==
  /\ mem' = IF tx THEN saved ELSE disk
  /\ todo' = <<>>
  /\ outcome' = "error"
  /\ torn' = (torn \/ ~tx)
  /\ UNCHANGED <<disk, rows, base>>
Write ==
  /\ todo # <<>>
  /\ IF Head(todo).k # 0 /\ Head(todo).k \in DOMAIN mem[Head(todo).t] THEN Undo
     ELSE /\ mem' = Written(Head(todo))
          /\ disk' = IF tx THEN disk ELSE mem'
          /\ todo' = Tail(todo)
          /\ outcome' = IF Len(todo) = 1 THEN "ok" ELSE outcome
          /\ rows' = IF Len(todo) = 1 THEN want ELSE rows
          /\ base' = IF Len(todo) = 1 /\ ~tx THEN want ELSE base
          /\ UNCHANGED torn
  /\ UNCHANGED <<kind, saved, tx, count, want, odd>>
Begin == Idle /\ ~tx /\ count < MaxStatements /\ tx' = TRUE /\ UNCHANGED <<kind, mem, disk, saved, todo, count, history>>
Commit ==
  /\ Idle /\ tx
  /\ tx' = FALSE /\ disk' = mem /\ base' = rows
  /\ UNCHANGED <<kind, mem, saved, todo, count, rows, want, outcome, odd, torn>>
Rollback ==
  /\ Idle /\ tx
  /\ tx' = FALSE /\ mem' = disk /\ rows' = base
  /\ UNCHANGED <<kind, disk, saved, todo, count, base, want, outcome, odd, torn>>
Crash ==
  /\ count < MaxStatements
  /\ mem' = disk /\ tx' = FALSE /\ todo' = <<>> /\ rows' = base
  /\ outcome' = "crash"
  /\ torn' = (torn \/ (~tx /\ ~Idle))
  /\ count' = count + 1
  /\ UNCHANGED <<kind, disk, saved, base, want, odd>>

\* rtree_create_storage: an empty root.
Empty == [node |-> 1 :> [depth |-> 0, cells |-> <<>>], rowid |-> <<>>, parent |-> <<>>]
Init ==
  /\ kind \in Kinds
  /\ mem = Empty /\ disk = Empty /\ saved = Empty
  /\ tx = FALSE /\ todo = <<>> /\ count = 0
  /\ rows = <<>> /\ base = <<>> /\ want = <<>>
  /\ outcome = "ok" /\ odd = FALSE /\ torn = FALSE
Next == Insert \/ Delete \/ Update \/ Write \/ Begin \/ Commit \/ Rollback \/ Crash
Spec == Init /\ [][Next]_vars

(* ---- Properties ---- *)
Covers(b, c) == \A d \in DOMAIN b : IF d % 2 = 1 THEN b[d] <= c[d] ELSE b[d] >= c[d]
Holds(m, f) ==
  Given(Scan(m, <<>>), LAMBDA s :
    /\ IsInjective([i \in DOMAIN s |-> s[i].key])
    /\ Keys(s) = DOMAIN f
    /\ \A i \in DOMAIN s : s[i].box = f[s[i].key].box /\ Aux(m, s[i].key) = f[s[i].key].aux
    /\ kind = "rtree" => \A k \in DOMAIN f : Covers(f[k].box, f[k].given))
\* The three shadow tables describe one tree: every node but the root has its
\* parent recorded, its box in the parent covers its cells, and every row is
\* recorded at the leaf that holds it.
Children(m) == {n \in DOMAIN m.node \ {1} : TRUE}
InLeaf(m, n) == n \notin Range(m.parent) /\ (n # 1 \/ m.node[1].depth = 0)
Sound(m) ==
  /\ DOMAIN m.parent = Children(m)
  /\ \A n \in Children(m) : \E e \in Range(m.node[m.parent[n]].cells) :
       e.key = n /\ \A c \in Range(m.node[n].cells) : Covers(e.box, c.box)
  /\ \A n \in DOMAIN m.node : Len(m.node[n].cells) <= MaxCells
  /\ DOMAIN m.rowid = UNION {{c.key : c \in Range(m.node[n].cells)} : n \in {k \in DOMAIN m.node : InLeaf(m, k)}}
  /\ \A k \in DOMAIN m.rowid : k \in Keys(m.node[m.rowid[k].node].cells) /\ InLeaf(m, m.rowid[k].node)

\* Between statements a spatial table holds exactly the rows its INSERTs,
\* UPDATEs and DELETEs left, none in a box smaller than it was given, whatever was rebuilt, rolled back or lost in a
\* crash, in a tree all three shadow tables agree on (rtree_apply,
\* rtree_bulk_build, rtree_write_build_aux).
RTreeIsTable == Idle /\ ~odd /\ ~torn => Holds(mem, rows) /\ Holds(disk, base) /\ Sound(mem)

\* Leaving out subtrees by their bounding boxes loses no row of the answer
\* (scan_rtree_nodes, geopoly_query_bbox).
PruningKeepsAnswer == Idle => \A w \in Queries(kind) : Answer(mem, w, Pushed(w)) = Answer(mem, w, <<>>)

\* "... the writer overlay(s) are rolled back to the pre-statement snapshot, so
\* no partial change survives" (run_dml_atomic): a statement that fails puts back
\* what it found.  Outside a transaction it does not: the statements that rewrite the
\* shadow tables have committed the rows before.
NoPartialChange == [][todo # <<>> /\ outcome' = "error" => mem' = saved]_vars
=============================================================================
