------------------------------ MODULE Windows ------------------------------
(***************************************************************************)
(* Window functions (exec/mod.rs, compute_window and the functions it      *)
(* calls): the rows of the source, grouped first if the query aggregates,  *)
(* are split into partitions, each partition is ordered, and every row's   *)
(* value is computed over its frame.                                       *)
(*                                                                         *)
(* A row is [p, o, a, rowid], values as in Values; rowid is NULL for a     *)
(* source that has none.  A call is                                        *)
(*   [fn, n, part, order, frame, exclude, filter]:                         *)
(* fn(a, n) OVER (PARTITION BY p if part, ORDER BY order, frame), where    *)
(* order is a sequence of [col, desc, nf, coll], frame is empty or one     *)
(* [mode, start, end], filter says whether FILTER (WHERE a) is written.    *)
(* A bound is <<"up">>, <<"p", n>>, <<"c">>, <<"f", n>> or <<"uf">>:       *)
(* unbounded preceding, n preceding, current row, n following, unbounded   *)
(* following.                                                              *)
(***************************************************************************)
EXTENDS Values

CONSTANTS
  Sources,  \* sequences of rows
  Selects,  \* [calls, from, grouped, having, order]: from is "table",
            \* "derived" (also a CTE, a view, a table-valued function) or
            \* "qualified"; grouped is GROUP BY p with a replaced by sum(a);
            \* having is HAVING sum(a); order is an explicit ORDER BY
  PartCollation  \* the collation of column p

VARIABLES
  source, sel, engine,  \* the input
  pc,      \* "scan", "group", "place", "fill", "sort", "done" or "error"
  rows,    \* the rows the windows run over
  parts,   \* the partitions of the current call, sequences of row numbers
  k,       \* the call at work
  cols,    \* the value of each finished call on each row (the __win columns)
  out      \* the row numbers in output order

vars == <<source, sel, engine, pc, rows, parts, k, cols, out>>
input == <<source, sel, engine>>

Keys(r, terms) == [i \in DOMAIN terms |-> r[terms[i].col]]
RowsBefore(r, t, terms) == RowBefore(Keys(r, terms), Keys(t, terms), terms)
MentionsRowid(q) == \E c \in Range(q.calls) : \E i \in DOMAIN c.order : c.order[i].col = "rowid"

(* ---- Frames ---- *)
\* A frame is [start, end): positions from 0 in the ordered partition of m rows.
\* RowBound, with an end n preceding one row short.
RowBoundShort(b, p, m, isStart) ==
  CASE b[1] = "up" -> 0
    [] b[1] = "uf" -> m
    [] b[1] = "c" -> IF isStart THEN p ELSE p + 1
    [] b[1] = "p" -> Max({0, p - b[2]})
    [] b[1] = "f" -> Min({m, (IF isStart THEN p ELSE p + 1) + b[2]})
RowBound(b, p, m, isStart) ==
  CASE b[1] = "up" -> 0
    [] b[1] = "uf" -> m
    [] b[1] = "c" -> IF isStart THEN p ELSE p + 1
    [] b[1] = "p" -> Max({0, (IF isStart THEN p ELSE p + 1) - b[2]})
    [] b[1] = "f" -> Min({m, (IF isStart THEN p ELSE p + 1) + b[2]})

\* gid numbers the groups of peers of the ordered partition from 0.
FirstOf(g, m, gid) ==
  CASE g < 0 -> 0
    [] g > gid[m - 1] -> m
    [] OTHER -> CHOOSE i \in 0 .. m - 1 : gid[i] = g /\ \A j \in 0 .. i - 1 : gid[j] # g
AfterLastOf(g, m, gid) ==
  CASE g < 0 -> 0
    [] g > gid[m - 1] -> m
    [] OTHER -> 1 + CHOOSE i \in 0 .. m - 1 : gid[i] = g /\ \A j \in i + 1 .. m - 1 : gid[j] # g
Shift(b) == CASE b[1] = "p" -> -b[2] [] b[1] = "f" -> b[2] [] OTHER -> 0
GroupBound(b, p, m, gid, isStart) ==
  CASE b[1] = "up" -> 0
    [] b[1] = "uf" -> m
    [] OTHER -> IF isStart THEN FirstOf(gid[p] + Shift(b), m, gid) ELSE AfterLastOf(gid[p] + Shift(b), m, gid)

IsNumber(v) == v # NULL /\ ~IsText(v)
\* The values at the edge of a RANGE frame: a text counts as its number, a NULL
\* is passed over.
FirstAt(ovals, m, edge, desc) ==
  LET hits == {i \in 0 .. m - 1 : /\ ovals[i] # NULL
                                  /\ IF desc THEN ToNumber(ovals[i]) <= edge ELSE ToNumber(ovals[i]) >= edge} IN
  IF hits = {} THEN m ELSE Min(hits)
EndAt(ovals, m, edge, desc) ==
  LET Inside(i) == IF desc THEN ToNumber(ovals[i]) >= edge ELSE ToNumber(ovals[i]) <= edge
      hits == {i \in 0 .. m - 1 : ovals[i] # NULL /\ \A j \in 0 .. i : ovals[j] # NULL => Inside(j)} IN
  IF hits = {} THEN 0 ELSE Max(hits) + 1
RangeValueBound(b, p, m, gid, ovals, desc, isStart) ==
  CASE b[1] = "up" -> 0
    [] b[1] = "uf" -> m
    [] b[1] \in {"c", "p", "f"} /\ ~IsNumber(ovals[p]) -> GroupBound(<<"c">>, p, m, gid, isStart)
    [] OTHER -> IF isStart THEN FirstAt(ovals, m, IF desc THEN ovals[p] - Shift(b) ELSE ovals[p] + Shift(b), desc)
                ELSE EndAt(ovals, m, IF desc THEN ovals[p] - Shift(b) ELSE ovals[p] + Shift(b), desc)

HasOffset(f) == f.start[1] \in {"p", "f"} \/ f.end[1] \in {"p", "f"}
Bound(b, f, c, p, m, gid, ovals, isStart) ==
  CASE f.mode = "rows" -> RowBound(b, p, m, isStart)
    [] f.mode = "range" /\ HasOffset(f) /\ Len(c.order) = 1 -> RangeValueBound(b, p, m, gid, ovals, c.order[1].desc, isStart)
    [] OTHER -> GroupBound(b, p, m, gid, isStart)
\* frame_bounds: the positions of the frame.
FrameOf(c, p, m, gid, ovals) ==
  IF c.frame = <<>> THEN 0 .. (IF c.order = <<>> THEN m ELSE AfterLastOf(gid[p], m, gid)) - 1
  ELSE Bound(c.frame[1].start, c.frame[1], c, p, m, gid, ovals, TRUE)
       .. Bound(c.frame[1].end, c.frame[1], c, p, m, gid, ovals, FALSE) - 1
Kept(c, p, gid, frame) ==
  CASE c.exclude = "no others" -> frame
    [] c.exclude = "current row" -> frame \ {p}
    [] c.exclude = "group" -> {i \in frame : gid[i] # gid[p]}
    [] c.exclude = "ties" -> {i \in frame : gid[i] # gid[p] \/ i = p}

(* ---- The value of a call ---- *)
NtileBucket(p, m, buckets) ==
  LET b == Min({buckets, m})
      size == m \div b
      big == (m % b) * (size + 1) IN
  IF p < big THEN p \div (size + 1) + 1 ELSE (m % b) + (p - big) \div size + 1
\* window_aggregate; min and max compare as BINARY.
WindowAggregate(fn, args) ==
  LET vals == SelectSeq(args, LAMBDA v : v # NULL) IN
  CASE fn = "count(*)" -> Len(args)
    [] fn = "count" -> Len(vals)
    [] vals = <<>> -> NULL
    [] fn = "sum" -> FoldLeft(LAMBDA t, v : t + ToNumber(v), 0, vals)
    [] fn = "min" -> Extreme(vals, FALSE, "BINARY")
    [] fn = "max" -> Extreme(vals, TRUE, "BINARY")
    [] fn = "group_concat" -> Joined(vals)
InOrder(s) == [i \in 1 .. Cardinality(s) |-> CHOOSE x \in s : Cardinality({y \in s : y < x}) = i - 1]
At(args, frame, i) == IF i \in DOMAIN frame THEN args[frame[i]] ELSE NULL
\* The value at position p; args are the arguments in partition order, passes the
\* positions FILTER keeps, frame the positions of the frame in order.
ValueAt(c, p, m, gid, args, passes, frame) ==
  CASE c.fn = "row_number" -> p + 1
    [] c.fn = "rank" -> FirstOf(gid[p], m, gid) + 1
    [] c.fn = "dense_rank" -> gid[p] + 1
    [] c.fn = "percent_rank" -> IF m > 1 THEN (1000 * FirstOf(gid[p], m, gid)) \div (m - 1) ELSE 0
    [] c.fn = "cume_dist" -> (1000 * AfterLastOf(gid[p], m, gid)) \div m
    [] c.fn = "ntile" -> NtileBucket(p, m, c.n)
    [] c.fn = "lag" -> IF p - c.n \in 0 .. m - 1 THEN args[p - c.n] ELSE NULL
    [] c.fn = "lead" -> IF p + c.n \in 0 .. m - 1 THEN args[p + c.n] ELSE NULL
    [] c.fn = "first_value" -> At(args, frame, 1)
    [] c.fn = "last_value" -> At(args, frame, Len(frame))
    [] c.fn = "nth_value" -> At(args, frame, c.n)
    [] OTHER -> Given(SelectSeq(frame, LAMBDA i : i \in passes),
                      LAMBDA f : WindowAggregate(c.fn, [i \in DOMAIN f |-> args[f[i]]]))

\* fill_window_partition on the ordered rows; ord[i] is the row at position i.
Gid(c, ord, m) == [i \in 0 .. m - 1 |-> Cardinality({j \in 1 .. i : RowsBefore(ord[j - 1], ord[j], c.order)})]
FillWith(c, ord, m, gid) ==
  [i \in 0 .. m - 1 |->
     ValueAt(c, i, m, gid, [j \in 0 .. m - 1 |-> ord[j].a], {j \in 0 .. m - 1 : ~c.filter \/ Truth(ord[j].a) = 1},
             InOrder(Kept(c, i, gid, FrameOf(c, i, m, gid, [j \in 0 .. m - 1 |-> IF c.order = <<>> THEN NULL ELSE ord[j][c.order[1].col]]))))]
Fill(c, ord, m) == Given(Gid(c, ord, m), LAMBDA gid : FillWith(c, ord, m, gid))
Sorted(members, terms) == SortSeq(members, LAMBDA i, j : RowsBefore(rows[i], rows[j], terms))

(* ---- The steps ---- *)
Call == sel.calls[k]
Rejected(c) == c.frame # <<>> /\ c.frame[1].mode = "range" /\ HasOffset(c.frame[1]) /\ Len(c.order) # 1
\* An argument that is refused when a row is filled in, so never over no rows.
BadArgument(c) == c.fn \in {"ntile", "nth_value"} /\ c.n < 1

\* run_window_vdbe declines a schema-qualified source, and a query that names
\* the rowid of a source without one; then the tree walker scans.
VdbeScans == engine = "vdbe" /\ (sel.from = "table" \/ (sel.from = "derived" /\ ~MentionsRowid(sel)))
HasRowid == IF VdbeScans THEN sel.from = "table" ELSE sel.from # "derived"
Scan ==
  /\ pc = "scan"
  /\ rows' = [i \in DOMAIN source |-> [source[i] EXCEPT !.rowid = IF HasRowid THEN @ ELSE NULL]]
  /\ pc' = CASE MentionsRowid(sel) /\ ~HasRowid -> "error" [] sel.grouped -> "group" [] OTHER -> "place"
  /\ UNCHANGED <<parts, k, cols, out, input>>

\* eval_windowed_aggregate: one row per group in the order of the keys, its
\* first row with the aggregate beside it, kept if HAVING holds.
SumOf(members) == WindowAggregate("sum", [i \in DOMAIN members |-> rows[members[i]].a])
GroupRow(i) ==
  [rows[i] EXCEPT !.a = SumOf(SelectSeq([j \in DOMAIN rows |-> j], LAMBDA j : SameIn(rows[i].p, rows[j].p, PartCollation)))]
GroupLeaders == SelectSeq([i \in DOMAIN rows |-> i], LAMBDA i : \A j \in 1 .. i - 1 : ~SameIn(rows[i].p, rows[j].p, PartCollation))
GroupRows ==
  /\ pc = "group"
  /\ \E led \in {SortSeq(GroupLeaders, LAMBDA i, j : LessIn(rows[i].p, rows[j].p, PartCollation))} :
       rows' = SelectSeq([g \in DOMAIN led |-> GroupRow(led[g])], LAMBDA r : ~sel.having \/ Truth(r.a) = 1)
  /\ pc' = "place"
  /\ UNCHANGED <<parts, k, cols, out, input>>

\* compute_window puts each row into the first partition whose first row has
\* its key; a query with several calls runs them in turn.
Placed == Len(FlattenSeq(parts))
Place ==
  /\ pc = "place"
  /\ \/ /\ Rejected(Call)
        /\ pc' = "error"
        /\ UNCHANGED parts
     \/ /\ ~Rejected(Call)
        /\ Placed < Len(rows)
        /\ \E i \in {Placed + 1} :
             LET own == {g \in DOMAIN parts : ~Call.part \/ SameIn(rows[parts[g][1]].p, rows[i].p, PartCollation)} IN
             parts' = IF own = {} THEN Append(parts, <<i>>) ELSE [parts EXCEPT ![Min(own)] = Append(@, i)]
        /\ UNCHANGED pc
     \/ /\ ~Rejected(Call)
        /\ Placed = Len(rows)
        /\ pc' = "fill"
        /\ cols' = Append(cols, [i \in DOMAIN rows |-> NULL])
        /\ UNCHANGED parts
  /\ (pc' # "fill" => UNCHANGED cols)
  /\ UNCHANGED <<rows, k, out, input>>

FillPartition ==
  /\ pc = "fill"
  /\ parts # <<>>
  /\ \/ /\ BadArgument(Call)
        /\ pc' = "error"
        /\ UNCHANGED <<cols, parts>>
     \/ /\ ~BadArgument(Call)
        /\ \E ord \in {Sorted(Head(parts), Call.order)} :
             \E vals \in {Fill(Call, [i \in 0 .. Len(ord) - 1 |-> rows[ord[i + 1]]], Len(ord))} :
               cols' = [cols EXCEPT ![k] = [i \in DOMAIN rows |->
                          IF i \in Range(ord) THEN vals[SelectInSeq(ord, LAMBDA x : x = i) - 1] ELSE @[i]]]
        /\ parts' = Tail(parts)
        /\ UNCHANGED pc
  /\ UNCHANGED <<rows, k, out, input>>
NextCall ==
  /\ pc = "fill"
  /\ parts = <<>>
  /\ IF k < Len(sel.calls) THEN pc' = "place" /\ k' = k + 1 ELSE pc' = "sort" /\ k' = k
  /\ UNCHANGED <<rows, parts, cols, out, input>>

\* Without ORDER BY the rows come in the order of the first call's window
\* (window_output_order).
OutputOrder ==
  IF sel.order # <<>> THEN sel.order
  ELSE (IF sel.calls[1].part THEN <<[col |-> "p", desc |-> FALSE, coll |-> PartCollation]>> ELSE <<>>) \o sel.calls[1].order
Sort ==
  /\ pc = "sort"
  /\ out' = Sorted([i \in DOMAIN rows |-> i], OutputOrder)
  /\ pc' = "done"
  /\ UNCHANGED <<rows, parts, k, cols, input>>

Init ==
  /\ source \in Sources
  /\ sel \in Selects
  /\ engine \in {"vdbe", "tree"}
  /\ pc = "scan"
  /\ k = 1
  /\ rows = <<>> /\ parts = <<>> /\ cols = <<>> /\ out = <<>>
Next == Scan \/ GroupRows \/ Place \/ FillPartition \/ NextCall \/ Sort
Spec == Init /\ [][Next]_vars

(* ---- What a window function is defined to be ---- *)
\* Over the finished rows, for call c: the partition of row i, whether a row
\* comes before another, its peers, and how far apart two rows or their groups
\* of peers are.
Partition(c, i) == {j \in DOMAIN rows : ~c.part \/ SameIn(rows[i].p, rows[j].p, PartCollation)}
Precedes(c, i, j) == RowsBefore(rows[i], rows[j], c.order)
Peers(c, i, j) == ~Precedes(c, i, j) /\ ~Precedes(c, j, i)
Earlier(c, i, j) == Precedes(c, i, j) \/ (Peers(c, i, j) /\ i < j)
Place0(c, part, i) == Cardinality({j \in part : Earlier(c, j, i)})
Group0(c, part, i) == Cardinality({{l \in part : Peers(c, j, l)} : j \in {j \in part : Precedes(c, j, i)}})
\* How far row j is from row i, in rows or in groups.
Distance(c, part, mode, i, j) ==
  IF mode = "rows" THEN Place0(c, part, j) - Place0(c, part, i) ELSE Group0(c, part, j) - Group0(c, part, i)
\* The key a RANGE bound stands for, and whether a key comes before another.
Edge(t, v, b) == IF t.desc THEN v - Shift(b) ELSE v + Shift(b)
NotBefore(c, part, f, i, j, b) ==
  LET v == rows[i][c.order[1].col] IN
  CASE b[1] = "up" -> TRUE
    [] b[1] = "uf" -> FALSE
    [] f.mode = "range" /\ HasOffset(f) /\ IsNumber(v) -> ~TermBefore(rows[j][c.order[1].col], Edge(c.order[1], v, b), c.order[1])
    [] f.mode = "range" /\ (~HasOffset(f) \/ ~IsNumber(v)) -> ~Precedes(c, j, i)
    [] OTHER -> Distance(c, part, f.mode, i, j) >= Shift(b)
NotAfter(c, part, f, i, j, b) ==
  LET v == rows[i][c.order[1].col] IN
  CASE b[1] = "uf" -> TRUE
    [] b[1] = "up" -> FALSE
    [] f.mode = "range" /\ HasOffset(f) /\ IsNumber(v) -> ~TermBefore(Edge(c.order[1], v, b), rows[j][c.order[1].col], c.order[1])
    [] f.mode = "range" /\ (~HasOffset(f) \/ ~IsNumber(v)) -> ~Precedes(c, i, j)
    [] OTHER -> Distance(c, part, f.mode, i, j) <= Shift(b)
DefaultFrame == [mode |-> "range", start |-> <<"up">>, end |-> <<"c">>]
Framed(c, part, i) ==
  LET f == IF c.frame = <<>> THEN DefaultFrame ELSE c.frame[1]
      Excluded(j) == CASE c.exclude = "no others" -> FALSE
                       [] c.exclude = "current row" -> j = i
                       [] c.exclude = "group" -> Peers(c, i, j)
                       [] c.exclude = "ties" -> Peers(c, i, j) /\ j # i IN
  {j \in part : NotBefore(c, part, f, i, j, f.start) /\ NotAfter(c, part, f, i, j, f.end) /\ ~Excluded(j)}
\* A set of rows as a sequence in window order.
Lined(c, s) == [n \in 1 .. Cardinality(s) |-> CHOOSE i \in s : Place0(c, s, i) = n - 1]
Arg(s, n) == IF n \in DOMAIN s THEN rows[s[n]].a ELSE NULL
\* The bucket of a row: the buckets' sizes differ by at most one, larger first.
Bucket(place, m, buckets) ==
  LET Size(b) == IF b <= m % buckets THEN m \div buckets + 1 ELSE m \div buckets
      Upto(b) == FoldLeft(LAMBDA t, x : t + Size(x), 0, [x \in 1 .. b |-> x]) IN
  CHOOSE b \in 1 .. buckets : Upto(b - 1) <= place /\ place < Upto(b)
Defined(c, part, i, line, frame) ==
  CASE c.fn = "row_number" -> Place0(c, part, i) + 1
    [] c.fn = "rank" -> Cardinality({j \in part : Precedes(c, j, i)}) + 1
    [] c.fn = "dense_rank" -> Group0(c, part, i) + 1
    [] c.fn = "percent_rank" ->
         IF Cardinality(part) = 1 THEN 0 ELSE (1000 * Cardinality({j \in part : Precedes(c, j, i)})) \div (Cardinality(part) - 1)
    [] c.fn = "cume_dist" -> (1000 * Cardinality({j \in part : ~Precedes(c, i, j)})) \div Cardinality(part)
    [] c.fn = "ntile" -> Bucket(Place0(c, part, i), Cardinality(part), c.n)
    [] c.fn = "lag" -> Arg(line, Place0(c, part, i) + 1 - c.n)
    [] c.fn = "lead" -> Arg(line, Place0(c, part, i) + 1 + c.n)
    [] c.fn = "first_value" -> Arg(frame, 1)
    [] c.fn = "last_value" -> Arg(frame, Len(frame))
    [] c.fn = "nth_value" -> Arg(frame, c.n)
    [] OTHER -> Given(SelectSeq(frame, LAMBDA j : ~c.filter \/ Truth(rows[j].a) = 1),
                      LAMBDA f : WindowAggregate(c.fn, [n \in DOMAIN f |-> rows[f[n]].a]))
DefinedIn(c, part, i) == Defined(c, part, i, Lined(c, part), Lined(c, Framed(c, part, i)))

\* A RANGE frame with an offset over keys of several kinds is set apart: a text
\* counts as the number it starts with, and where no number lies inside a bound
\* the NULLs beyond it leave the frame although the other bound is unbounded.
MixedKeys(c, part) ==
  LET keys == {rows[j][c.order[1].col] : j \in part}
      f == c.frame[1] IN
  /\ c.frame # <<>> /\ f.mode = "range" /\ HasOffset(f)
  /\ \/ \E v \in keys : IsText(v)
     \/ NULL \in keys /\ (f.start[1] = "up" \/ f.end[1] = "uf")

\* Every window function gives each row the value its definition gives: over the
\* rows of its partition that lie between the frame's bounds in the window's
\* order, whatever path partitioned, sorted and bounded them (compute_window,
\* fill_window_partition, frame_bounds).
WindowsByDefinition ==
  pc = "done" =>
    \A n \in DOMAIN sel.calls : \A i \in DOMAIN rows :
      \/ MixedKeys(sel.calls[n], Partition(sel.calls[n], i))
      \/ cols[n][i] = DefinedIn(sel.calls[n], Partition(sel.calls[n], i), i)
=============================================================================
