----------------------------- MODULE ScanSource -----------------------------
(***************************************************************************)
(* A SELECT over one table, from the choice of access path to the ordered  *)
(* answer (exec/mod.rs, scan_source and finish_from_rows).  The executor   *)
(* tries one access path after another - rowid seek, index seek, index     *)
(* range, IN-list, OR of seeks, covering walk, full scan - and takes the   *)
(* first that applies; it then evaluates the whole WHERE on what the path  *)
(* returned.  A path may return too many rows, never too few, and none     *)
(* twice: otherwise creating an index would change an answer.  Apart from  *)
(* that, order_satisfied_by_scan says, from the query alone, that the rows *)
(* will come in ORDER BY order, so that they are not sorted.               *)
(*                                                                         *)
(* Values are numbers.  0 is NULL, 1..3 integers, 11..13 the texts '1'..   *)
(* '3', 15..18 the texts 'A' 'B' 'a' 'b', so < is the BINARY order.        *)
(* Columns: 1 is a TEXT column (collation db.coll), 2 an INTEGER column,   *)
(* 3 the INTEGER PRIMARY KEY of a rowid table, 4 a column no index holds;  *)
(* 0 names the rowid itself.  Indexes are those of CREATE INDEX on columns *)
(* (no automatic ones, no expression keys); the query has no DISTINCT,     *)
(* GROUP BY or aggregate.                                                  *)
(***************************************************************************)
EXTENDS Naturals, Integers, Sequences, FiniteSets, TLC

Val == INSTANCE Values

CONSTANTS
  Databases,  \* [coll, wr, pkdesc, rows, indexes]: the schema and the content
  Queries     \* [terms, alt, hint, cols, order]: conjuncts, disjuncts, index hint,
              \* projection, ORDER BY terms

VARIABLES db, q, planner, pc, plan, path, out, exact, result
\* planner: [pick, stats].  Statistics, widths and page numbers decide which of
\* several usable indexes is taken ("first" or "last" of them), or that a scan is
\* cheaper than any ("none"); every consumer sees the same decision.
\* plan: what the order recognisers say of the query, [access, walk, sorted,
\* order]; pure functions of the query, evaluated once here.  path: the stage that
\* returned the rows, out: the rows; exact: every key of the seek was compared as
\* the WHERE clause compares it; result: the answer.
vars == <<db, q, planner, pc, plan, path, out, exact, result>>

NULL == 0
Fold(v) == IF v \in {17, 18} THEN v - 2 ELSE v
\* Value::cmp_values_coll: the image under which a collation compares.
Image(v, coll) == IF coll = "NOCASE" THEN Fold(v) ELSE v
Affinity(c) == IF c = 1 THEN "TEXT" ELSE "INTEGER"
\* Affinity::coerce on the values of the model.
Coerce(c, v) ==
  CASE Affinity(c) = "TEXT" /\ v \in 1 .. 3 -> v + 10
    [] Affinity(c) = "INTEGER" /\ v \in 11 .. 13 -> v - 10
    [] OTHER -> v
ToI64(v) == CASE v \in 1 .. 3 -> v [] v \in 11 .. 13 -> v - 10 [] OTHER -> 0
ColumnColl(c) == IF c = 1 THEN db.coll ELSE "BINARY"

\* A row is [id, v]: v[c] is column c.  A column a covering walk did not read
\* is NULL in the row it builds.
ValueAt(r, c) == IF c = 0 THEN r.id ELSE r.v[c]

(* ---- The WHERE clause, as eval decides it ---- *)
\* A term is [op, c, vals, coll]; coll is the explicit COLLATE or "".
EffColl(t) == IF t.coll = "" THEN ColumnColl(t.c) ELSE t.coll
Compare(t, r, i) == LET x == Image(ValueAt(r, t.c), EffColl(t))
                        y == Image(Coerce(t.c, t.vals[i]), EffColl(t)) IN
                    IF x < y THEN -1 ELSE IF x = y THEN 0 ELSE 1
Known(t, r, i) == ValueAt(r, t.c) # NULL /\ t.vals[i] # NULL
Holds(t, r) ==
  CASE t.op = "null" -> ValueAt(r, t.c) = NULL
    [] t.op = "notnull" -> ValueAt(r, t.c) # NULL
    [] t.op = "=" -> Known(t, r, 1) /\ Compare(t, r, 1) = 0
    [] t.op = "is" -> Compare(t, r, 1) = 0
    [] t.op = "<" -> Known(t, r, 1) /\ Compare(t, r, 1) < 0
    [] t.op = "<=" -> Known(t, r, 1) /\ Compare(t, r, 1) <= 0
    [] t.op = ">" -> Known(t, r, 1) /\ Compare(t, r, 1) > 0
    [] t.op = ">=" -> Known(t, r, 1) /\ Compare(t, r, 1) >= 0
    [] t.op = "between" -> /\ Known(t, r, 1) /\ Compare(t, r, 1) >= 0
                           /\ Known(t, r, 2) /\ Compare(t, r, 2) <= 0
    [] t.op = "in" -> \E i \in DOMAIN t.vals : Known(t, r, i) /\ Compare(t, r, i) = 0
Where(r) == /\ \A i \in DOMAIN q.terms : Holds(q.terms[i], r)
            /\ q.alt = <<>> \/ \E i \in DOMAIN q.alt : Holds(q.alt[i], r)

(* ---- Indexes ---- *)
\* An index is [cols, colls, descs, partial]; partial is <<>> or <<term>>.  Its
\* entries are in key order, equal keys in rowid order.
Entries(x) ==
  LET Key(r, i) == Image(ValueAt(r, x.cols[i]), x.colls[i])
      Less(r, s) ==
        \/ \E i \in DOMAIN x.cols :
             /\ \A j \in 1 .. i - 1 : Key(r, j) = Key(s, j)
             /\ IF x.descs[i] THEN Key(r, i) > Key(s, i) ELSE Key(r, i) < Key(s, i)
        \/ (\A i \in DOMAIN x.cols : Key(r, i) = Key(s, i)) /\ r.id < s.id
  IN SortSeq(SelectSeq(db.rows, LAMBDA r : x.partial = <<>> \/ Holds(x.partial[1], r)), Less)
\* prefix_cmp: a key against the leading columns of an entry; an entry has its
\* rowid after its columns.  descs may be shorter than the key.
PrefixCmp(key, x, r, descs) ==
  LET At(i) == IF i <= Len(x.cols) THEN ValueAt(r, x.cols[i]) ELSE r.id
      Coll(i) == IF i <= Len(x.colls) THEN x.colls[i] ELSE "BINARY"
      Sign(i) == LET k == Image(key[i], Coll(i))
                     e == Image(At(i), Coll(i))
                     s == IF k < e THEN -1 ELSE IF k = e THEN 0 ELSE 1 IN
                 IF i <= Len(descs) /\ descs[i] THEN -s ELSE s
      diff == {i \in DOMAIN key : Sign(i) # 0} IN
  IF diff = {} THEN 0 ELSE Sign(CHOOSE i \in diff : \A j \in diff : i <= j)
\* The entries before the first one that stops the walk.
Before(s, Stop(_)) ==
  LET stops == {i \in DOMAIN s : Stop(s[i])} IN
  IF stops = {} THEN s ELSE SubSeq(s, 1, (CHOOSE i \in stops : \A j \in stops : i <= j) - 1)
\* index_seek_rowids.
IndexSeek(x, key, descs) ==
  SelectSeq(Before(Entries(x), LAMBDA r : PrefixCmp(key, x, r, descs) < 0),
            LAMBDA r : PrefixCmp(key, x, r, descs) = 0)
\* index_range_rowids; a bound is <<>> or <<key, inclusive>>.
IndexRange(x, lower, upper, descs) ==
  LET Beyond(r) == upper # <<>> /\ Val!Given(PrefixCmp(upper[1], x, r, descs),
                                         LAMBDA s : s < 0 \/ (s = 0 /\ ~upper[2]))
      Passes(r) == lower = <<>> \/ Val!Given(PrefixCmp(lower[1], x, r, descs),
                                         LAMBDA s : s < 0 \/ (s = 0 /\ lower[2]))
  IN SelectSeq(Before(Entries(x), Beyond), Passes)

Full(x) == x.partial = <<>>
Guaranteed(x) == Full(x) \/ \E i \in DOMAIN q.terms : q.terms[i] = x.partial[1]
Hinted(x) == q.hint < 1 \/ db.indexes[q.hint] = x
IndexedBy == q.hint >= 1
\* query_cols_covered and where_cols_covered.
Referenced == q.cols \union {q.order[i].c : i \in DOMAIN q.order}
                     \union {q.terms[i].c : i \in DOMAIN q.terms}
                     \union {q.alt[i].c : i \in DOMAIN q.alt}
Covers(cols) == Referenced \subseteq cols \union (IF db.wr THEN {} ELSE {0, 3})
RangeOf(s) == {s[i] : i \in DOMAIN s}
\* covering_seek_rows: the whole index, its columns and the rowid.
CoveringRow(cols, r) == [r EXCEPT !.v = [c \in DOMAIN r.v |-> IF c \in cols \/ c = 3 THEN r.v[c] ELSE NULL]]
CoveringRows(x) == LET e == Entries(x) IN [i \in DOMAIN e |-> CoveringRow(RangeOf(x.cols), e[i])]

(* ---- The constraint collectors ---- *)
CollationOk(t) == t.coll = "" \/ t.coll = ColumnColl(t.c)
IsEq(t) == t.c # 0 /\ (t.op = "=" \/ (t.op = "is" /\ t.vals[1] # NULL))
\* collect_eq_constraints: an explicit COLLATE must be the column's own.
Eqs == SelectSeq(q.terms, LAMBDA t : IsEq(t) /\ (t.op = "is" \/ CollationOk(t)))
\* collect_eq_constraints_coll: any collation, to be matched with an index.
EqsColl == SelectSeq(q.terms, IsEq)
SeekColl(t) == IF t.op = "is" THEN ColumnColl(t.c) ELSE EffColl(t)
IsNullCols == {q.terms[i].c : i \in {j \in DOMAIN q.terms : q.terms[j].op = "null"}} \ {0}
IsNotNullCols == {q.terms[i].c : i \in {j \in DOMAIN q.terms : q.terms[j].op = "notnull"}} \ {0}
On(ts, c) == SelectSeq(ts, LAMBDA t : t.c = c)

RangeOps == {"<", "<=", ">", ">="}
\* apply_bound over the terms of one column, in order: the last bound of a side
\* wins.  A bound is <<>> or <<value, inclusive, term>>.
LowerOf(ts) ==
  LET lows == SelectSeq(ts, LAMBDA t : t.op \in {">", ">=", "between"}) IN
  IF lows = <<>> THEN <<>>
  ELSE LET t == lows[Len(lows)] IN <<t.vals[1], t.op # ">", t>>
UpperOf(ts) ==
  LET highs == SelectSeq(ts, LAMBDA t : t.op \in {"<", "<=", "between"}) IN
  IF highs = <<>> THEN <<>>
  ELSE LET t == highs[Len(highs)] IN <<t.vals[Len(t.vals)], t.op # "<", t>>
\* collect_range_constraints, for column c.
RangeTerms(c) == SelectSeq(q.terms, LAMBDA t : t.c = c /\ t.op \in RangeOps \union {"between"} /\ CollationOk(t))
\* collect_range_constraints_coll: < <= > >= without the collation gate.
RangeTermsColl(c) ==
  SelectSeq(q.terms, LAMBDA t : t.c = c /\ (t.op \in RangeOps \/ (t.op = "between" /\ CollationOk(t))))
\* range_collation: that of the first range comparison on the column.
RangeColl(c) ==
  LET ts == SelectSeq(q.terms, LAMBDA t : t.c = c /\ t.op \in RangeOps \union {"between"}) IN
  IF ts = <<>> THEN "none" ELSE IF ts[1].op = "between" THEN ColumnColl(c) ELSE EffColl(ts[1])
\* find_in_constraint: the first IN-list over a column, or the OR-chain of
\* equalities on one column as such a list.  <<>> or <<col, values, term>>.
EqChain == /\ Len(q.alt) >= 2
           /\ \A i \in DOMAIN q.alt :
                q.alt[i].op = "=" /\ q.alt[i].c # 0 /\ q.alt[i].c = q.alt[1].c /\ q.alt[i].vals[1] # NULL
FindIn ==
  LET ins == SelectSeq(q.terms, LAMBDA t : t.op = "in" /\ t.c # 0) IN
  IF ins # <<>> THEN <<ins[1].c, ins[1].vals, {ins[1]}>>
  ELSE IF EqChain THEN <<q.alt[1].c, [i \in DOMAIN q.alt |-> q.alt[i].vals[1]], RangeOf(q.alt)>>
  ELSE <<>>

\* The equality seek on t under collation coll keeps every row t accepts: the
\* collations agree, or the seek's is the coarser one.  A range needs the same.
ExactEq(t, coll) == coll = "NOCASE" \/ EffColl(t) = coll
ExactRange(b, coll) == b = <<>> \/ EffColl(b[3]) = coll
\* The bounds of a range as seek keys after `prefix`, swapped under DESC.
BoundKey(prefix, c, b) == IF b = <<>> THEN <<>> ELSE <<prefix \o <<Coerce(c, b[1])>>, b[2]>>
OrPrefix(prefix, b) == IF b = <<>> THEN <<prefix, TRUE>> ELSE b

\* What a path returns: declined, or rows and whether they are exact.
Declined == [taken |-> FALSE, rows |-> <<>>, exact |-> TRUE]
Taken(rows, ok) == [taken |-> TRUE, rows |-> rows, exact |-> ok]
\* Keep the first of each row, in order.
Unique(s) == SelectSeq([i \in DOMAIN s |-> <<i, s[i]>>],
                       LAMBDA p : \A j \in 1 .. p[1] - 1 : s[j] # p[2])
Distinct(s) == LET u == Unique(s) IN [i \in DOMAIN u |-> u[i][2]]
RECURSIVE Joined(_)
Joined(ss) == IF ss = <<>> THEN <<>> ELSE Head(ss) \o Joined(Tail(ss))
RowsWithId(ids) == Joined([i \in DOMAIN ids |-> SelectSeq(db.rows, LAMBDA r : r.id = ids[i])])

(* ---- try_index_lookup ---- *)
\* rowid_seek_constraint: the first conjunct that pins the rowid.
IsRowid(c) == c \in {0, 3}
PinsRowid(t) == IsRowid(t.c) /\ t.op \in {"=", "in"}
RowidSeek ==
  LET pins == SelectSeq(q.terms, PinsRowid)
      chain == Len(q.alt) >= 2 /\ \A i \in DOMAIN q.alt : IsRowid(q.alt[i].c) /\ q.alt[i].op = "="
  IN IF pins # <<>> THEN <<[i \in DOMAIN pins[1].vals |-> ToI64(pins[1].vals[i])]>>
     ELSE IF chain THEN <<[i \in DOMAIN q.alt |-> ToI64(q.alt[i].vals[1])]>>
     ELSE <<>>
\* choose_seek_index: how many leading columns the constraints pin.
Matches(x, i) == \/ \E j \in DOMAIN EqsColl : EqsColl[j].c = x.cols[i] /\ SeekColl(EqsColl[j]) = x.colls[i]
                 \/ x.cols[i] \in IsNullCols
\* Mutant of Matched: a column after a gap counts as well.
MatchedAny(x) == Cardinality({i \in DOMAIN x.cols : Matches(x, i)})
Matched(x) == LET gaps == {i \in DOMAIN x.cols : ~Matches(x, i)} IN
              IF gaps = {} THEN Len(x.cols) ELSE (CHOOSE i \in gaps : \A j \in gaps : i <= j) - 1
\* The planner's choice among the indexes at positions ps: <<>> or <<index>>.
PickOf(ps) ==
  CASE ps = {} -> <<>>
    [] ps # {} /\ planner.pick = "last" -> <<db.indexes[CHOOSE i \in ps : \A j \in ps : i >= j]>>
    [] OTHER -> <<db.indexes[CHOOSE i \in ps : \A j \in ps : i <= j]>>
UnlessScan(xs) == IF xs # <<>> /\ planner.pick = "none" /\ ~Covers(RangeOf(xs[1].cols)) THEN <<>> ELSE xs
ChooseSeek == UnlessScan(PickOf({i \in DOMAIN db.indexes :
                                   Hinted(db.indexes[i]) /\ Full(db.indexes[i]) /\ Matched(db.indexes[i]) > 0}))
\* The key takes the first equality on each column, whatever its collation.
SeekKey(x, n) ==
  [i \in 1 .. n |-> LET es == On(EqsColl, x.cols[i]) IN
                    IF es # <<>> THEN Coerce(x.cols[i], es[1].vals[1]) ELSE NULL]
SeekExact(x, n) ==
  \A i \in 1 .. n : LET es == On(EqsColl, x.cols[i]) IN es # <<>> => ExactEq(es[1], x.colls[i])
\* rowid_alias_range, for the range on the rowid after a complete key.
RowidBound == LET ts == RangeTerms(3) IN
              IF ts # <<>> THEN ts ELSE SelectSeq(q.terms, LAMBDA t : t.c = 0 /\ t.op \in RangeOps \union {"between"})
\* The seek itself: covering walk, prefix and range, prefix and rowid range
\* (whose bounds are not coerced), or the plain prefix.
SeekWith(x) ==
  LET n == Matched(x)
      key == SeekKey(x, n)
      next == IF n < Len(x.cols) THEN x.cols[n + 1] ELSE 3
      ranges == IF n < Len(x.cols) THEN RangeTerms(next) ELSE RowidBound
      b1 == IF n < Len(x.cols) /\ x.descs[n + 1] THEN UpperOf(ranges) ELSE LowerOf(ranges)
      b2 == IF n < Len(x.cols) /\ x.descs[n + 1] THEN LowerOf(ranges) ELSE UpperOf(ranges)
      Raw(b) == IF b = <<>> THEN <<>> ELSE <<key \o <<b[1]>>, b[2]>>
      Uncoerced(b) == b # <<>> /\ b[1] > 10
  IN CASE Covers(RangeOf(x.cols)) -> Taken(CoveringRows(x), TRUE)
       [] ~Covers(RangeOf(x.cols)) /\ ranges = <<>> -> Taken(IndexSeek(x, key, SubSeq(x.descs, 1, n)), SeekExact(x, n))
       [] ~Covers(RangeOf(x.cols)) /\ ranges # <<>> /\ n < Len(x.cols) ->
            Taken(IndexRange(x, OrPrefix(key, BoundKey(key, next, b1)), OrPrefix(key, BoundKey(key, next, b2)),
                             SubSeq(x.descs, 1, n + 1)),
                  SeekExact(x, n) /\ ExactRange(b1, x.colls[n + 1]) /\ ExactRange(b2, x.colls[n + 1]))
       [] OTHER -> Taken(IndexRange(x, OrPrefix(key, Raw(b1)), OrPrefix(key, Raw(b2)), x.descs),
                         SeekExact(x, n) /\ ~Uncoerced(b1) /\ ~Uncoerced(b2))
\* partial_expr_seek and partial_expr_lookup: the first partial index whose
\* predicate is a conjunct; the seek is all-ascending.
PartialKeyLen(x) ==
  LET gaps == {i \in DOMAIN x.cols :
                 ~ \E j \in DOMAIN Eqs : Eqs[j].c = x.cols[i] /\ Eqs[j].vals[1] # NULL} IN
  IF gaps = {} THEN Len(x.cols) ELSE (CHOOSE i \in gaps : \A j \in gaps : i <= j) - 1
PartialEq(c) == SelectSeq(Eqs, LAMBDA t : t.c = c /\ t.vals[1] # NULL)[1]
PartialLookup ==
  LET xs == SelectSeq(db.indexes, LAMBDA x : Hinted(x) /\ ~Full(x) /\ Guaranteed(x) /\ PartialKeyLen(x) > 0) IN
  IF xs = <<>> THEN Declined
  ELSE LET x == xs[1]
           n == PartialKeyLen(x)
           key == [i \in 1 .. n |-> Coerce(x.cols[i], PartialEq(x.cols[i]).vals[1])] IN
       Taken(IndexSeek(x, key, <<>>),
             /\ \A i \in 1 .. n : ExactEq(PartialEq(x.cols[i]), x.colls[i])
             /\ \A i \in 1 .. n : ~x.descs[i])
\* A rowid list is sorted when that serves the ORDER BY (in_seek_order).
Ordered(ids, sorted) == IF sorted THEN SortSeq(ids, <) ELSE ids
IndexLookup(sorted) ==
  IF q.hint = -1 \/ (q.terms = <<>> /\ q.alt = <<>>) THEN Declined
  ELSE IF ~IndexedBy /\ RowidSeek # <<>> THEN Taken(RowsWithId(Distinct(Ordered(RowidSeek[1], sorted))), TRUE)
  ELSE IF (\E i \in DOMAIN Eqs : Eqs[i].vals[1] = NULL) \/ (Eqs = <<>> /\ IsNullCols = {}) THEN PartialLookup
  ELSE IF ~IndexedBy /\ On(Eqs, 3) # <<>> THEN Taken(RowsWithId(<<ToI64(On(Eqs, 3)[1].vals[1])>>), TRUE)
  ELSE Val!Given(ChooseSeek, LAMBDA xs : IF xs = <<>> THEN PartialLookup ELSE SeekWith(xs[1]))

(* ---- try_index_range ---- *)
RangeCols == {c \in 1 .. 3 : RangeTermsColl(c) # <<>>}
\* choose_range_index: the leading column has a range in the index's collation.
\* A scan may be cheaper only when one index qualifies and none was asked for.
RangeCandidates ==
  {i \in DOMAIN db.indexes : LET x == db.indexes[i] IN
     Hinted(x) /\ Full(x) /\ x.cols[1] \in RangeCols /\ RangeColl(x.cols[1]) = x.colls[1]}
ChooseRange == Val!Given(RangeCandidates, LAMBDA ps :
                 IF Cardinality(ps) = 1 /\ ~IndexedBy THEN UnlessScan(PickOf(ps)) ELSE PickOf(ps))
RangeFetch(x, ts, desc, descs) ==
  LET b1 == IF desc THEN UpperOf(ts) ELSE LowerOf(ts)
      b2 == IF desc THEN LowerOf(ts) ELSE UpperOf(ts) IN
  Taken(IndexRange(x, BoundKey(<<>>, x.cols[1], b1), BoundKey(<<>>, x.cols[1], b2), descs),
        /\ ExactRange(b1, x.colls[1]) /\ ExactRange(b2, x.colls[1])
        /\ SubSeq(x.descs, 1, 1) = descs)
RangeWith(x) == IF Covers(RangeOf(x.cols)) THEN Taken(CoveringRows(x), TRUE)
                ELSE RangeFetch(x, RangeTermsColl(x.cols[1]), x.descs[1], SubSeq(x.descs, 1, 1))
\* partial_expr_range, for an index that is not covering and read ascending.
PartialRange ==
  LET xs == SelectSeq(db.indexes, LAMBDA x : Hinted(x) /\ ~Full(x) /\ Guaranteed(x) /\ RangeTerms(x.cols[1]) # <<>>) IN
  IF xs = <<>> THEN Declined ELSE RangeFetch(xs[1], RangeTerms(xs[1].cols[1]), FALSE, <<FALSE>>)
\* The rowid range is walked only between integers; both ends are inclusive.
IntegerOrNone(b) == b = <<>> \/ b[1] \in 1 .. 3
RowidRange(ts) ==
  LET lo == LowerOf(ts)
      hi == UpperOf(ts) IN
  SelectSeq(db.rows, LAMBDA r : (lo = <<>> \/ r.id >= lo[1]) /\ (hi = <<>> \/ r.id <= hi[1]))
IndexRangeScan ==
  LET ids == RangeTermsColl(3) IN
  IF q.hint = -1 \/ RangeCols = {} THEN Declined
  ELSE IF ~IndexedBy /\ ids # <<>> /\ IntegerOrNone(LowerOf(ids)) /\ IntegerOrNone(UpperOf(ids))
  THEN Taken(RowidRange(ids), TRUE)
  ELSE Val!Given(ChooseRange, LAMBDA xs : IF xs = <<>> THEN PartialRange ELSE RangeWith(xs[1]))

(* ---- try_index_in and try_index_or ---- *)
NonNull(vals) == SelectSeq(vals, LAMBDA v : v # NULL)
\* in_seek_fetch: the keys in the order of the collation, each row once.
InFetch(x, c, vals, ts) ==
  LET keys == SortSeq([i \in DOMAIN vals |-> Coerce(c, vals[i])],
                      LAMBDA k, l : Image(k, x.colls[1]) < Image(l, x.colls[1])) IN
  Taken(Distinct(Joined([i \in DOMAIN keys |-> IndexSeek(x, <<keys[i]>>, SubSeq(x.descs, 1, 1))])),
        \A t \in ts : ExactEq(t, x.colls[1]))
InWith(x, in) == IF Full(x) /\ Covers(RangeOf(x.cols)) THEN Taken(CoveringRows(x), TRUE)
                 ELSE InFetch(x, in[1], NonNull(in[2]), in[3])
IndexIn ==
  LET in == FindIn
      On1(x) == Hinted(x) /\ x.cols[1] = in[1]
      full == SelectSeq(db.indexes, LAMBDA x : On1(x) /\ Full(x))
      part == SelectSeq(db.indexes, LAMBDA x : On1(x) /\ ~Full(x) /\ Guaranteed(x)) IN
  IF q.hint = -1 \/ in = <<>> THEN Declined
  ELSE IF NonNull(in[2]) = <<>> THEN Declined
  ELSE IF ~IndexedBy /\ in[1] = 3 THEN
    Taken(RowsWithId(Distinct([i \in DOMAIN NonNull(in[2]) |-> ToI64(NonNull(in[2])[i])])), TRUE)
  ELSE IF full # <<>> THEN InWith(full[1], in)
  ELSE IF part # <<>> THEN InWith(part[1], in) ELSE Declined
\* leading_index_for: a full, ascending index led by the column.
LeadingIndex(c) == SelectSeq(db.indexes, LAMBDA x : Hinted(x) /\ Full(x) /\ ~x.descs[1] /\ x.cols[1] = c)
\* seek_col_values and seek_col_range.
ColumnSeek(t) ==
  IF ~IndexedBy /\ t.c = 3 THEN Taken(RowsWithId(Distinct([i \in DOMAIN t.vals |-> ToI64(t.vals[i])])), TRUE)
  ELSE IF LeadingIndex(t.c) = <<>> THEN Declined ELSE InFetch(LeadingIndex(t.c)[1], t.c, t.vals, {t})
ColumnRange(t) ==
  IF ~IndexedBy /\ t.c = 3
  THEN IF IntegerOrNone(LowerOf(<<t>>)) /\ IntegerOrNone(UpperOf(<<t>>)) THEN Taken(RowidRange(<<t>>), TRUE) ELSE Declined
  ELSE IF LeadingIndex(t.c) = <<>> THEN Declined ELSE RangeFetch(LeadingIndex(t.c)[1], <<t>>, FALSE, <<FALSE>>)
\* predicate_rowids: one disjunct.
PredicateRows(t) ==
  CASE t.c # 0 /\ t.op = "in" /\ NonNull(t.vals) = t.vals -> ColumnSeek(t)
    [] IsEq(t) /\ (t.op = "is" \/ CollationOk(t)) /\ t.vals[1] # NULL -> ColumnSeek(t)
    [] t.c # 0 /\ t.op \in RangeOps \union {"between"} /\ CollationOk(t) -> ColumnRange(t)
    [] OTHER -> Declined
IndexOr ==
  LET each == [i \in DOMAIN q.alt |-> PredicateRows(q.alt[i])] IN
  IF q.hint = -1 \/ q.terms # <<>> \/ Len(q.alt) < 2 \/ \E i \in DOMAIN each : ~each[i].taken THEN Declined
  ELSE Taken(Distinct(Joined([i \in DOMAIN each |-> each[i].rows])), \A i \in DOMAIN each : each[i].exact)
\* try_isnotnull_covering: exactly one index qualifies.
NotNullCovering ==
  LET xs == SelectSeq(db.indexes, LAMBDA x : Hinted(x) /\ Full(x) /\ x.cols[1] \in IsNotNullCols /\ Covers(RangeOf(x.cols))) IN
  IF q.hint = -1 \/ Len(xs) # 1 THEN Declined ELSE Taken(CoveringRows(xs[1]), TRUE)

(* ---- WITHOUT ROWID: the table is an index on its primary key ---- *)
\* The primary key is column 1, or columns 2 and 1.
Clustered == [cols |-> db.pk, colls |-> [i \in DOMAIN db.pk |-> ColumnColl(db.pk[i])],
              descs |-> [i \in DOMAIN db.pk |-> db.pkdesc], partial |-> <<>>]
PkSeek ==
  LET gaps == {i \in DOMAIN db.pk : On(Eqs, db.pk[i]) = <<>> \/ On(Eqs, db.pk[i])[1].vals[1] = NULL}
      n == IF gaps = {} THEN Len(db.pk) ELSE (CHOOSE i \in gaps : \A j \in gaps : i <= j) - 1 IN
  IF q.hint = -1 \/ n = 0 THEN Declined
  ELSE Taken(IndexSeek(Clustered, [i \in 1 .. n |-> Coerce(db.pk[i], On(Eqs, db.pk[i])[1].vals[1])],
                       SubSeq(Clustered.descs, 1, n)),
             \A i \in 1 .. n : ExactEq(On(Eqs, db.pk[i])[1], Clustered.colls[i]))
\* Values are told apart exactly, so two that the collation equates are both sought.
PkIn ==
  LET in == FindIn IN
  IF q.hint = -1 \/ in = <<>> THEN Declined
  ELSE IF in[1] # db.pk[1] \/ NonNull(in[2]) # in[2] THEN Declined
  ELSE LET keys == Distinct([i \in DOMAIN in[2] |-> Coerce(in[1], in[2][i])]) IN
       Taken(Joined([i \in DOMAIN keys |-> IndexSeek(Clustered, <<keys[i]>>, SubSeq(Clustered.descs, 1, 1))]),
             /\ \A t \in in[3] : ExactEq(t, Clustered.colls[1])
             /\ \A i, j \in DOMAIN keys : i # j => Image(keys[i], Clustered.colls[1]) # Image(keys[j], Clustered.colls[1]))
PkRange ==
  IF q.hint = -1 \/ db.pkdesc \/ RangeTerms(db.pk[1]) = <<>> THEN Declined
  ELSE RangeFetch(Clustered, RangeTerms(db.pk[1]), FALSE, <<FALSE>>)
\* wr_index_rows: each record leads to its row by primary key, or is the row
\* when index columns and key together cover the query.
SecondaryRows(x, p) ==
  LET have == RangeOf(x.cols) \union RangeOf(db.pk) IN
  [p EXCEPT !.rows = IF Covers(have) THEN [i \in DOMAIN p.rows |-> CoveringRow(have, p.rows[i])]
                     ELSE Joined([i \in DOMAIN p.rows |->
                            IndexSeek(Clustered, [j \in DOMAIN db.pk |-> ValueAt(p.rows[i], db.pk[j])], Clustered.descs)])]
SecondarySeek ==
  LET eqs == SelectSeq(Eqs, LAMBDA t : t.vals[1] # NULL)
      Gap(x, i) == On(eqs, x.cols[i]) = <<>> /\ x.cols[i] \notin IsNullCols
      Width(x) == LET gaps == {i \in DOMAIN x.cols : Gap(x, i)} IN
                  IF gaps = {} THEN Len(x.cols) ELSE (CHOOSE i \in gaps : \A j \in gaps : i <= j) - 1
      xs == SelectSeq(db.indexes, LAMBDA x : Hinted(x) /\ Full(x) /\ Width(x) > 0) IN
  IF q.hint = -1 \/ xs = <<>> THEN Declined
  ELSE LET x == xs[1]
           First(i) == On(eqs, x.cols[i]) IN
       SecondaryRows(x, Taken(IndexSeek(x, [i \in 1 .. Width(x) |->
                                             IF First(i) # <<>> THEN Coerce(x.cols[i], First(i)[1].vals[1]) ELSE NULL], x.descs),
                              \A i \in 1 .. Width(x) : First(i) # <<>> => ExactEq(First(i)[1], x.colls[i])))
SecondaryRange ==
  LET xs == SelectSeq(db.indexes, LAMBDA x : Hinted(x) /\ Full(x) /\ RangeTerms(x.cols[1]) # <<>>) IN
  IF q.hint = -1 \/ xs = <<>> THEN Declined
  ELSE SecondaryRows(xs[1], RangeFetch(xs[1], RangeTerms(xs[1].cols[1]), xs[1].descs[1], SubSeq(xs[1].descs, 1, 1)))

(* ---- The order the rows come in, and the answer ---- *)
NoWhere == q.terms = <<>> /\ q.alt = <<>>
\* An ORDER BY term is [c, desc, nulls, coll]; nulls is "", "first" or "last".
RedundantNulls(o) == o.nulls = "" \/ (o.nulls = "first") # o.desc
Bare(o) == o.coll = ""
TermColl(o) == IF Bare(o) THEN ColumnColl(o.c) ELSE o.coll
NamesRowid(o) == Bare(o) /\ o.c \in {0, 3}
\* Option<bool>: <<>>, or <<reverse>> for an order the scan yields.

RowidOrderedScan == IF ~db.wr /\ NoWhere /\ NamesRowid(q.order[1]) THEN <<q.order[1].desc>> ELSE <<>>
InSeekOrder ==
  LET in == FindIn IN
  IF db.wr \/ NoWhere \/ q.hint # 0 \/ in = <<>> \/ q.order = <<>> THEN <<>>
  ELSE IF in[1] = 3 /\ NonNull(in[2]) = in[2] /\ NamesRowid(q.order[1]) THEN <<q.order[1].desc>> ELSE <<>>

(* ---- eqp_access: the access EXPLAIN reports for a rowid table ---- *)
\* [search, open, index]: open when the text shows one range bound alone.
NoAccess == [search |-> FALSE, open |-> FALSE, index |-> <<>>]
Reported(open, xs) == [search |-> TRUE, open |-> open, index |-> xs]
OneSided(ts) == (LowerOf(ts) # <<>>) # (UpperOf(ts) # <<>>)
EqpIn ==
  LET in == FindIn
      full == SelectSeq(db.indexes, LAMBDA x : Full(x) /\ in # <<>> /\ x.cols[1] = in[1])
      part == SelectSeq(db.indexes, LAMBDA x : ~Full(x) /\ Guaranteed(x) /\ in # <<>> /\ x.cols[1] = in[1])
      notnull == SelectSeq(db.indexes, LAMBDA x : Hinted(x) /\ Full(x) /\ x.cols[1] \in IsNotNullCols /\ Covers(RangeOf(x.cols))) IN
  CASE in # <<>> /\ (in[1] = 3 \/ full \o part # <<>>) -> Reported(FALSE, <<>>)
    [] (in = <<>> \/ (in[1] # 3 /\ full \o part = <<>>)) /\ q.hint # -1 /\ Len(notnull) = 1 -> Reported(TRUE, notnull)
    [] OTHER -> NoAccess
EqpRange ==
  LET ids == RangeTermsColl(3)
      part == SelectSeq(db.indexes, LAMBDA x : ~Full(x) /\ Guaranteed(x) /\ RangeTerms(x.cols[1]) # <<>>) IN
  IF ids # <<>> /\ IntegerOrNone(LowerOf(ids)) /\ IntegerOrNone(UpperOf(ids)) THEN Reported(OneSided(ids), <<>>)
  ELSE Val!Given(ChooseRange, LAMBDA xs :
    IF xs # <<>> THEN Reported(OneSided(RangeTermsColl(xs[1].cols[1])), xs)
    ELSE IF part # <<>> THEN Reported(OneSided(RangeTerms(part[1].cols[1])), <<part[1]>>)
    ELSE EqpIn)
EqpAccess ==
  LET eqs == SelectSeq(Eqs, LAMBDA t : t.vals[1] # NULL)
      part == SelectSeq(db.indexes, LAMBDA x : ~Full(x) /\ Guaranteed(x) /\ PartialKeyLen(x) > 0) IN
  IF RowidSeek # <<>> \/ On(eqs, 3) # <<>> \/ ChooseSeek # <<>> \/ part # <<>> THEN Reported(FALSE, <<>>)
  ELSE EqpRange

(* ---- order_index_scan: walk an index in ORDER BY order ---- *)
\* How many terms the walk of x serves: equal columns, one direction.
Served(x) ==
  LET n == IF Len(x.cols) < Len(q.order) THEN Len(x.cols) ELSE Len(q.order)
      stops == {i \in 1 .. n : \/ x.cols[i] # q.order[i].c
                               \/ q.order[i].desc # q.order[1].desc
                               \/ (x.descs[i] # q.order[i].desc) # (x.descs[1] # q.order[1].desc)} IN
  IF stops = {} THEN n ELSE (CHOOSE i \in stops : \A j \in stops : i <= j) - 1
\* Equal keys follow the rowid, so an index of ascending columns also serves the
\* INTEGER PRIMARY KEY as the next term.
RowidTail(x) ==
  LET n == Served(x) IN
  /\ n = Len(x.cols) /\ n < Len(q.order)
  /\ q.order[n + 1].c = 3 /\ q.order[n + 1].desc = q.order[1].desc
  /\ \A i \in 1 .. n : ~x.descs[i]
Suffix(x) == IF RowidTail(x) THEN 0 ELSE Len(q.order) - Served(x)
\* index_covers_query accepts bare columns only.
CoversOrder(x) == Covers(RangeOf(x.cols)) /\ \A i \in DOMAIN q.order : Bare(q.order[i])
Orders(x) == /\ Full(x) /\ Served(x) > 0
             /\ \A i \in 1 .. Served(x) : x.colls[i] = TermColl(q.order[i])
             /\ ~(Suffix(x) > 0 /\ CoversOrder(x))
OrderRank(x) == 2 * Suffix(x) + (IF CoversOrder(x) THEN 0 ELSE 1)
OrderIndexScan(access) ==
  LET cands == {i \in DOMAIN db.indexes : Orders(db.indexes[i])}
      best == PickOf({i \in cands : \A j \in cands : OrderRank(db.indexes[i]) <= OrderRank(db.indexes[j])}) IN
  IF \/ db.wr \/ q.hint = -1 \/ q.order = <<>>
     \/ \E i \in DOMAIN q.order : ~RedundantNulls(q.order[i]) \/ q.order[i].c = 0
     \/ (Len(q.order) = 1 /\ q.order[1].c = 3)
     \/ (access.search /\ ~(access.open /\ ~planner.stats))
     \/ best = <<>> \/ (access.search /\ access.index = best)
  THEN <<>> ELSE best
WalkReversed(x) == x.descs[1] # q.order[1].desc

(* ---- seek_order_prefix: the order a seek leaves behind ---- *)
Pinned == {Eqs[i].c : i \in {j \in DOMAIN Eqs : Eqs[j].vals[1] # NULL}} \union IsNullCols
Flip(x, k, o) == (k <= Len(x.descs) /\ x.descs[k]) # o.desc
\* Terms served by the index columns after the first n, then by the rowid; a term
\* the WHERE clause pins to one value is skipped when `skip`.
NoOrder == <<FALSE, FALSE>>
RECURSIVE WalkServes(_, _, _, _, _)
WalkServes(x, k, i, rev, skip) ==
  IF i > Len(q.order) THEN rev
  ELSE LET o == q.order[i]
           r == <<Flip(x, k, o)>> IN
       IF skip /\ Bare(o) /\ o.c \in Pinned THEN WalkServes(x, k, i + 1, rev, skip)
       ELSE IF (skip /\ ~Bare(o)) \/ ~RedundantNulls(o) \/ (rev # <<>> /\ rev # r) THEN NoOrder
       ELSE IF k <= Len(x.cols) /\ x.cols[k] = o.c /\ x.colls[k] = TermColl(o) THEN WalkServes(x, k + 1, i + 1, r, skip)
       ELSE IF k = Len(x.cols) + 1 /\ Bare(o) /\ o.c = 3 /\ (skip \/ (i = Len(q.order) /\ o.nulls = "")) /\ \A j \in DOMAIN x.descs : ~x.descs[j]
       THEN WalkServes(x, k + 1, i + 1, r, skip)
       ELSE NoOrder
SeekOrderOn(xs, eqSeek) ==
  LET n == IF eqSeek /\ xs # <<>> THEN Matched(xs[1]) ELSE 0 IN
  IF \/ db.wr \/ NoWhere \/ q.hint # 0 \/ xs = <<>>
     \/ (eqSeek /\ 3 \in Pinned)
     \/ (~eqSeek /\ (3 \in RangeCols \/ \E i \in DOMAIN db.indexes : ~Full(db.indexes[i])))
  THEN <<>>
  ELSE Val!Given(WalkServes(xs[1], n + 1, 1, <<>>, FALSE), LAMBDA plain :
         IF plain # NoOrder THEN plain
         ELSE Val!Given(WalkServes(xs[1], n + 1, 1, <<>>, TRUE), LAMBDA pinned :
                IF pinned = NoOrder THEN <<>> ELSE IF pinned = <<>> THEN <<FALSE>> ELSE pinned))
SeekOrder == Val!Given(Pinned # {}, LAMBDA eqSeek : Val!Given(IF eqSeek THEN ChooseSeek ELSE ChooseRange, LAMBDA xs : SeekOrderOn(xs, eqSeek)))

\* At most one row, or one value of every term.
SingleRow == /\ ~NoWhere /\ q.hint = 0
             /\ \/ ~db.wr /\ RowidSeek # <<>> /\ Len(RowidSeek[1]) = 1
                \/ \E x \in RangeOf(db.indexes) :
                     /\ x.unique /\ Full(x)
                     /\ \A i \in DOMAIN x.cols :
                          x.cols[i] \in Pinned \ IsNullCols /\ x.colls[i] = ColumnColl(x.cols[i])
AllConstant == Pinned # {} /\ \A i \in DOMAIN q.order :
                 RedundantNulls(q.order[i]) /\ Bare(q.order[i]) /\ q.order[i].c \in Pinned

(* ---- WITHOUT ROWID: the order of the primary key ---- *)
Storage == db.pk \o SelectSeq(<<1, 2, 4>>, LAMBDA c : c \notin RangeOf(db.pk))
StorageDesc(i) == i <= Len(db.pk) /\ db.pkdesc
\* The terms follow the storage columns from k on; pinned columns are skipped on
\* both sides, on the storage side only before the first term when `once`.
RECURSIVE StorageServes(_, _, _, _)
StorageServes(k, i, rev, once) ==
  IF i > Len(q.order) THEN <<IF rev = <<>> THEN FALSE ELSE rev[1]>>
  ELSE LET o == q.order[i] IN
       IF ~Bare(o) THEN <<>>
       ELSE IF o.c \in Pinned THEN StorageServes(k, i + 1, rev, once)
       ELSE IF k <= Len(Storage) /\ Storage[k] \in Pinned /\ ~(once /\ rev # <<>>) THEN StorageServes(k + 1, i, rev, once)
       ELSE IF k > Len(Storage) \/ ~RedundantNulls(o) THEN <<>>
       ELSE IF Storage[k] # o.c \/ (rev # <<>> /\ rev[1] # (o.desc # StorageDesc(k))) THEN <<>>
       ELSE StorageServes(k + 1, i + 1, <<o.desc # StorageDesc(k)>>, once)
\* without_rowid_ordered_scan: no WHERE.
WrOrderedScan == IF db.wr /\ NoWhere /\ Len(q.order) <= Len(Storage) THEN StorageServes(1, 1, <<>>, FALSE) ELSE <<>>
\* without_rowid_seek_order: the seek or range is on the primary key.
WrSeekOrder ==
  LET eqs == {Eqs[i].c : i \in {j \in DOMAIN Eqs : Eqs[j].vals[1] # NULL}}
      gaps == {i \in DOMAIN db.pk : db.pk[i] \notin eqs}
      n == IF gaps = {} THEN Len(db.pk) ELSE (CHOOSE i \in gaps : \A j \in gaps : i <= j) - 1
      in == FindIn IN
  IF ~db.wr \/ NoWhere \/ q.hint # 0 THEN <<>>
  ELSE IF n > 0 THEN StorageServes(n + 1, 1, <<>>, FALSE)
  ELSE IF (IF in = <<>> THEN FALSE ELSE in[1] = db.pk[1]) \/ RangeTerms(db.pk[1]) = <<>> THEN <<>>
  ELSE StorageServes(1, 1, <<>>, FALSE)
\* without_rowid_scan_filtered_order: nothing can be sought.
WrFilteredOrder ==
  LET in == FindIn
      Seekable(c) == \/ \E i \in DOMAIN Eqs : Eqs[i].c = c /\ Eqs[i].vals[1] # NULL
                     \/ (IF in = <<>> THEN FALSE ELSE in[1] = c) \/ RangeTerms(c) # <<>> IN
  IF \/ ~db.wr \/ NoWhere \/ q.hint # 0 \/ Seekable(db.pk[1])
     \/ \E x \in RangeOf(db.indexes) : Full(x) /\ Seekable(x.cols[1])
  THEN <<>> ELSE StorageServes(1, 1, <<>>, TRUE)

\* order_satisfied_by_scan: the first recogniser that answers.
OrderSatisfied(best) ==
  LET walk == IF best = <<>> THEN <<>> ELSE IF Suffix(best[1]) = 0 THEN <<WalkReversed(best[1])>> ELSE <<>>
      single == IF SingleRow \/ AllConstant THEN <<FALSE>> ELSE <<>>
      tries == <<RowidOrderedScan, WrOrderedScan, WrSeekOrder, WrFilteredOrder, walk, InSeekOrder, single, SeekOrder>> IN
  Val!Given(SelectSeq(tries, LAMBDA t : t # <<>>), LAMBDA hits : IF hits = <<>> THEN <<>> ELSE hits[1])

(* ---- scan_source: the paths in order, then the scan ---- *)
\* covering_scan: a full read through a covering index, when it serves no order.
CoveringScan ==
  LET cands == {i \in DOMAIN db.indexes : Full(db.indexes[i]) /\ Covers(RangeOf(db.indexes[i].cols))} IN
  IF db.wr \/ plan.access.search \/ plan.order # <<>> \/ cands = {} THEN Declined ELSE Taken(CoveringRows(PickOf(cands)[1]), TRUE)
OrderWalk == IF plan.walk = <<>> THEN Declined
             ELSE LET x == plan.walk[1] IN
                  Taken(IF CoversOrder(x) THEN CoveringRows(x) ELSE Entries(x), TRUE)

Init == /\ db \in Databases /\ q \in Queries /\ q.hint <= Len(db.indexes)
        /\ planner \in [pick : {"first", "last", "none"}, stats : BOOLEAN]
        /\ planner.pick = "none" => planner.stats
        /\ planner.pick = "last" => Len(db.indexes) > 1
        /\ (planner.pick # "none" /\ q.order = <<>>) => ~planner.stats
        /\ ~db.wr \/ Referenced \intersect {0, 3} = {}
        /\ pc = "plan" /\ plan = [access |-> NoAccess, walk |-> <<>>, sorted |-> FALSE, order |-> <<>>]
        /\ path = "" /\ out = <<>> /\ exact = TRUE /\ result = <<>>
Plan ==
  /\ pc = "plan" /\ pc' = (IF db.wr THEN "pk seek" ELSE "lookup")
  /\ \E access \in {IF NoWhere \/ db.wr THEN NoAccess ELSE EqpAccess} : \E best \in {OrderIndexScan(access)} :
       plan' = [access |-> access, walk |-> best, sorted |-> InSeekOrder # <<>>,
                order |-> IF q.order = <<>> THEN <<>> ELSE OrderSatisfied(best)]
  /\ UNCHANGED <<db, q, planner, path, out, exact, result>>
Try(step, next) ==
  \E p \in {step} :
    /\ out' = p.rows /\ exact' = p.exact
    /\ pc' = (IF p.taken THEN "finish" ELSE next) /\ path' = (IF p.taken THEN pc ELSE path)
    /\ UNCHANGED <<db, q, planner, plan, result>>
TryIndexLookup == pc = "lookup" /\ Try(IndexLookup(plan.sorted), "range")
TryIndexRange == pc = "range" /\ Try(IF plan.walk # <<>> THEN Declined ELSE IndexRangeScan, "in")
TryIndexIn == pc = "in" /\ Try(IndexIn, "or")
TryIndexOr == pc = "or" /\ Try(IndexOr, "notnull")
TryIsNotNullCovering == pc = "notnull" /\ Try(NotNullCovering, "order walk")
TryOrderWalk == pc = "order walk" /\ Try(OrderWalk, "covering")
TryCoveringScan == pc = "covering" /\ Try(CoveringScan, "scan")
TryPkSeek == pc = "pk seek" /\ Try(PkSeek, "pk in")
TryPkIn == pc = "pk in" /\ Try(PkIn, "pk range")
TryPkRange == pc = "pk range" /\ Try(PkRange, "wr seek")
TrySecondarySeek == pc = "wr seek" /\ Try(SecondarySeek, "wr range")
TrySecondaryRange == pc = "wr range" /\ Try(SecondaryRange, "scan")
ScanTable == pc = "scan" /\ Try(Taken(IF db.wr THEN Entries(Clustered) ELSE db.rows, TRUE), "done")

(* ---- finish_from_rows: filter, then order unless the scan did ---- *)
Backwards(s) == [i \in DOMAIN s |-> s[Len(s) + 1 - i]]
\* cmp_order: the first term that tells two rows apart.
Differ(o, r, s) == Image(ValueAt(r, o.c), TermColl(o)) # Image(ValueAt(s, o.c), TermColl(o))
TermLess(o, r, s) ==
  LET x == ValueAt(r, o.c)
      y == ValueAt(s, o.c)
      nullsFirst == IF o.nulls = "" THEN ~o.desc ELSE o.nulls = "first" IN
  IF x = NULL \/ y = NULL THEN (x = NULL) = nullsFirst
  ELSE IF o.desc THEN Image(x, TermColl(o)) > Image(y, TermColl(o)) ELSE Image(x, TermColl(o)) < Image(y, TermColl(o))
OrderLess(r, s) ==
  LET diffs == {i \in DOMAIN q.order : Differ(q.order[i], r, s)} IN
  diffs # {} /\ TermLess(q.order[CHOOSE i \in diffs : \A j \in diffs : i <= j], r, s)
\* Mutant of Finish: the direction of the walk is forgotten.
FinishForward ==
  /\ pc = "finish" /\ pc' = "done"
  /\ result' = LET kept == SelectSeq(out, Where) IN
               IF q.order # <<>> /\ plan.order = <<>> THEN SortSeq(kept, OrderLess) ELSE kept
  /\ UNCHANGED <<db, q, planner, plan, path, out, exact>>
Finish ==
  /\ pc = "finish" /\ pc' = "done"
  /\ result' = LET kept == SelectSeq(out, Where) IN
               CASE q.order = <<>> -> kept
                 [] q.order # <<>> /\ plan.order = <<>> -> SortSeq(kept, OrderLess)
                 [] OTHER -> IF plan.order[1] THEN Backwards(kept) ELSE kept
  /\ UNCHANGED <<db, q, planner, plan, path, out, exact>>
Next == \/ Plan \/ TryIndexLookup \/ TryIndexRange \/ TryIndexIn \/ TryIndexOr \/ TryIsNotNullCovering
        \/ TryOrderWalk \/ TryCoveringScan
        \/ TryPkSeek \/ TryPkIn \/ TryPkRange \/ TrySecondarySeek \/ TrySecondaryRange \/ ScanTable \/ Finish
Spec == Init /\ [][Next]_vars

(* ---- Properties ---- *)
Shown(r) == <<r.id, [c \in q.cols |-> ValueAt(r, c)]>>
\* The answer is that of a full scan, whatever index was read: no row the WHERE
\* clause accepts is missing and none comes twice (scan_source's paths return a
\* superset, run_core filters it).  Seeks that compare otherwise than the WHERE
\* clause are set apart by `exact`.
PathKeepsAnswer ==
  pc = "done" /\ exact =>
    /\ {Shown(result[i]) : i \in DOMAIN result} = {Shown(r) : r \in {x \in RangeOf(db.rows) : Where(x)}}
    /\ \A i, j \in DOMAIN result : i # j => result[i].id # result[j].id
Sorted == \A i, j \in DOMAIN result : i < j => ~OrderLess(result[j], result[i])
\* An answer that was not sorted is in ORDER BY order all the same: what
\* order_satisfied_by_scan concludes from the query agrees with the path that
\* scan_source takes.  The paths it does not foresee are set apart.
Unforeseen == \/ path \in {"or", "notnull"}          \* eqp_access reports a scan, or another index
              \/ path = "lookup" /\ RowidSeek # <<>> \* a rowid list goes before the index sought
              \/ path = "wr range" /\ db.pkdesc     \* the recogniser expects the range on the key
SortElisionSound == pc = "done" /\ exact /\ ~Unforeseen => Sorted
\* The same of every path.
OrderByHonoured == pc = "done" => Sorted
=============================================================================
