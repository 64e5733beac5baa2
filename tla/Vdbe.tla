-------------------------------- MODULE Vdbe --------------------------------
(***************************************************************************)
(* The compiled executor (exec/vdbe.rs): a SELECT is compiled to a program *)
(* over registers, cursors, a sorter and accumulators, and the program is  *)
(* run instruction by instruction.  A query the compiler does not know is  *)
(* declined and goes to the tree walker, so both engines must give the     *)
(* same answer: a user cannot tell which one ran.                          *)
(*                                                                         *)
(* An instruction is a tuple <<name, operand, ...>>; operand 2 is the jump *)
(* target of the ones that jump and the destination of the ones that write *)
(* a register.  Addresses and registers count from 1.                      *)
(***************************************************************************)
EXTENDS Values

-----------------------------------------------------------------------------
(***************************************************************************)
(* The tree-walking executor: how it evaluates an expression on a row      *)
(* (exec/eval.rs) and turns the rows of its source into the rows of the    *)
(* answer (exec/mod.rs, run_core and finish_from_rows).                    *)
(*                                                                         *)
(* Expressions are tuples led by their kind:                               *)
(*   lit v, col i, collate e c, not e, isnull e negated, bin op l r,       *)
(*   between e low high negated, in e list negated,                        *)
(*   case operand whens else (operand and else of length 0 or 1),          *)
(*   sub e where (a scalar subquery without FROM),                         *)
(*   agg kind arg distinct filter order (arg, filter of length 0 or 1).    *)
(***************************************************************************)

CONSTANTS
  Columns,    \* the columns of all tables in FROM order: [aff, coll]
  Databases,  \* sequences of tables; a table is a sequence of rows
  Queries     \* [from, cols, where, group, having, distinct, order, limit, offset]:
              \* from is the number of tables, cols of [e, label], order of
              \* [e, desc]; the clauses that may be absent are sequences

(* ---- Affinity and collation of an operand ---- *)
RECURSIVE Affinity(_)
Affinity(e) == CASE e[1] = "col" -> Columns[e[2]].aff
                 [] e[1] = "collate" -> Affinity(e[2])
                 [] OTHER -> "none"
Explicit(e) == IF e[1] = "collate" THEN <<e[3]>> ELSE <<>>
RECURSIVE Implicit(_)
Implicit(e) == CASE e[1] = "col" -> <<Columns[e[2]].coll>>
                 [] e[1] = "collate" -> Implicit(e[2])
                 [] OTHER -> <<>>
ResolveCollation(l, r) == Head(Explicit(l) \o Explicit(r) \o Implicit(l) \o Implicit(r) \o <<"BINARY">>)
KeyCollation(e) == Head(Explicit(e) \o Implicit(e) \o <<"BINARY">>)

\* apply_comparison_affinity, for the left operand; the right one is symmetric.
Toward(v, aff, other) ==
  CASE other = "INTEGER" /\ aff # "INTEGER" -> Coerce("INTEGER", v)
    [] other = "TEXT" /\ aff = "none" -> Coerce("TEXT", v)
    [] OTHER -> v
CompareOp(op, v, w, coll) ==
  IF NULL \in {v, w} THEN NULL
  ELSE Bool(CASE op = "=" -> SameIn(v, w, coll)
              [] op = "<" -> LessIn(v, w, coll)
              [] op = "<=" -> ~LessIn(w, v, coll)
              [] op = ">=" -> ~LessIn(v, w, coll))
And3(v, w) == CASE 0 \in {Truth(v), Truth(w)} -> 0
                [] NULL \in {Truth(v), Truth(w)} -> NULL
                [] OTHER -> 1
Or3(v, w) == CASE 1 \in {Truth(v), Truth(w)} -> 1
               [] NULL \in {Truth(v), Truth(w)} -> NULL
               [] OTHER -> 0
Not3(v) == IF Truth(v) = NULL THEN NULL ELSE 1 - Truth(v)
Add(v, w) == IF NULL \in {v, w} THEN NULL ELSE ToNumber(v) + ToNumber(w)

(* ---- Evaluation ---- *)
\* env is [row, group]: the row columns come from, and the rows an aggregate
\* ranges over (substitute_aggregates puts its value in the aggregate's place).
Finalize(kind, vals, coll, rows) ==
  CASE kind = "count(*)" -> rows
    [] kind = "count" -> Len(vals)
    [] vals = <<>> -> NULL
    [] kind = "sum" -> FoldLeft(LAMBDA t, v : t + ToNumber(v), 0, vals)
    [] kind = "min" -> Extreme(vals, FALSE, coll)
    [] kind = "max" -> Extreme(vals, TRUE, coll)
    [] kind = "group_concat" -> Joined(vals)

RECURSIVE Eval(_, _)
EvalIn(e, env) ==
  LET v == Eval(e[2], env)
      coll == IF Len(e[3]) = 1 THEN ResolveCollation(e[2], e[3][1]) ELSE KeyCollation(e[2])
      items == [i \in DOMAIN e[3] |-> Eval(e[3][i], env)]
      hit == \E i \in DOMAIN items : /\ items[i] # NULL
                                     /\ SameIn(v, Toward(items[i], "none", Affinity(e[2])), coll) IN
  CASE e[3] = <<>> -> Bool(e[4])
    [] v = NULL -> NULL
    [] hit -> Bool(~e[4])
    [] ~hit /\ \E i \in DOMAIN items : items[i] = NULL -> NULL
    [] OTHER -> Bool(e[4])
\* A NULL bound is compared like a value smaller than every other.
EvalBetween(e, env) ==
  LET v == Eval(e[2], env)
      Left(i) == Toward(v, Affinity(e[2]), Affinity(e[i]))
      Bound(i) == Toward(Eval(e[i], env), Affinity(e[i]), Affinity(e[2]))
      ge == ~LessIn(Left(3), Bound(3), ResolveCollation(e[2], e[3]))
      le == ~LessIn(Bound(4), Left(4), ResolveCollation(e[2], e[4])) IN
  IF v = NULL THEN NULL ELSE Bool((ge /\ le) # e[5])
EvalCase(e, env) ==
  LET Matched(w) == IF e[2] = <<>> THEN Truth(Eval(w, env)) = 1
                    ELSE CompareOp("=", Toward(Eval(e[2][1], env), Affinity(e[2][1]), Affinity(w)),
                                   Toward(Eval(w, env), Affinity(w), Affinity(e[2][1])),
                                   ResolveCollation(e[2][1], w)) = 1
      hits == {i \in DOMAIN e[3] : Matched(e[3][i][1])} IN
  CASE hits # {} -> Eval(e[3][CHOOSE i \in hits : \A j \in hits : i <= j][2], env)
    [] hits = {} /\ e[4] # <<>> -> Eval(e[4][1], env)
    [] OTHER -> NULL
OnRow(r) == [row |-> r, group |-> <<>>]
\* compute_aggregate on the rows filter_group keeps.
AggOrder(e, rows) ==
  LET terms == [i \in DOMAIN e[6] |-> [desc |-> e[6][i].desc, coll |-> KeyCollation(e[6][i].e)]]
      Keys(r) == [i \in DOMAIN e[6] |-> Eval(e[6][i].e, OnRow(r))] IN
  IF e[6] = <<>> THEN rows ELSE SortSeq(rows, LAMBDA r, t : RowBefore(Keys(r), Keys(t), terms))
AggValues(e, rows) == SelectSeq([i \in DOMAIN rows |-> Eval(e[3][1], OnRow(rows[i]))], LAMBDA v : v # NULL)
AggOf(e, rows) ==
  LET coll == KeyCollation(e[3][1]) IN
  CASE e[3] = <<>> -> Len(rows)
    [] e[3] # <<>> /\ ~e[4] -> Finalize(e[2], AggValues(e, AggOrder(e, rows)), coll, 0)
    [] OTHER -> Finalize(e[2], Dedup(AggValues(e, AggOrder(e, rows)), coll), coll, 0)
EvalAgg(e, env) == AggOf(e, SelectSeq(env.group, LAMBDA r : \A i \in DOMAIN e[5] : Truth(Eval(e[5][i], OnRow(r))) = 1))
EvalBin(op, l, r, env) ==
  LET v == Eval(l, env)
      w == Eval(r, env)
      x == Toward(v, Affinity(l), Affinity(r))
      y == Toward(w, Affinity(r), Affinity(l)) IN
  CASE op = "and" -> IF Truth(v) = 0 THEN 0 ELSE And3(v, w)
    [] op = "or" -> IF Truth(v) = 1 THEN 1 ELSE Or3(v, w)
    [] op = "+" -> Add(v, w)
    [] op = "is" -> IF NULL \in {x, y} THEN Bool(x = y) ELSE Bool(SameIn(x, y, ResolveCollation(l, r)))
    [] OTHER -> CompareOp(op, x, y, ResolveCollation(l, r))
Eval(e, env) ==
  CASE e[1] = "lit" -> e[2]
    [] e[1] = "col" -> env.row[e[2]]
    [] e[1] = "collate" -> Eval(e[2], env)
    [] e[1] = "not" -> Not3(Eval(e[2], env))
    [] e[1] = "isnull" -> Bool((Eval(e[2], env) = NULL) # e[3])
    [] e[1] = "bin" -> EvalBin(e[2], e[3], e[4], env)
    [] e[1] = "between" -> EvalBetween(e, env)
    [] e[1] = "in" -> EvalIn(e, env)
    [] e[1] = "case" -> EvalCase(e, env)
    [] e[1] = "sub" -> IF \A i \in DOMAIN e[3] : Truth(Eval(e[3][i], env)) = 1 THEN Eval(e[2], env) ELSE NULL
    [] e[1] = "agg" -> EvalAgg(e, env)

(* ---- SELECT ---- *)
\* The calls of aggregates in an expression, from left to right.
RECURSIVE AggregatesIn(_)
AggregatesIn(e) ==
  CASE e[1] = "agg" -> <<e>>
    [] e[1] \in {"not", "isnull", "collate"} -> AggregatesIn(e[2])
    [] e[1] = "bin" -> AggregatesIn(e[3]) \o AggregatesIn(e[4])
    [] e[1] = "case" ->
         FlattenSeq([i \in DOMAIN e[2] |-> AggregatesIn(e[2][i])])
         \o FlattenSeq([i \in DOMAIN e[3] |-> AggregatesIn(e[3][i][1]) \o AggregatesIn(e[3][i][2])])
         \o FlattenSeq([i \in DOMAIN e[4] |-> AggregatesIn(e[4][i])])
    [] OTHER -> <<>>
AllAggregates(es) == FlattenSeq([i \in DOMAIN es |-> AggregatesIn(es[i])])
Exprs(cols) == [i \in DOMAIN cols |-> cols[i].e]
Outputs(q) == Exprs(q.cols) \o q.having \o Exprs(q.order)
Aggregated(q) == q.group # <<>> \/ AllAggregates(Exprs(q.cols)) # <<>>
MinMax(q) == SelectSeq(AllAggregates(Outputs(q)), LAMBDA a : a[2] \in {"min", "max"})

\* resolve_order_index: the output column an ORDER BY term names by position
\* (a literal) or by label; 0 if none.  A label is the number of the column it
\* spells, 0 for a computed column.
OrderIndex(e, cols) ==
  LET named == {i \in DOMAIN cols : e[1] = "col" /\ cols[i].label = e[2]} IN
  CASE e[1] = "lit" -> e[2]
    [] named # {} -> CHOOSE i \in named : \A j \in named : i <= j
    [] OTHER -> 0
OrderTerms(q) ==
  [i \in DOMAIN q.order |->
     LET t == q.order[i]
         k == OrderIndex(t.e, q.cols) IN
     [desc |-> t.desc, coll |-> IF Explicit(t.e) # <<>> \/ k = 0 THEN KeyCollation(t.e) ELSE KeyCollation(q.cols[k].e)]]

\* The rows of the FROM clause: one empty row without it, every combination of
\* the tables' rows with it, the last table varying fastest.
Source(tables) ==
  FoldLeft(LAMBDA acc, t : FlattenSeq([i \in DOMAIN acc |-> [j \in DOMAIN t |-> acc[i] \o t[j]]]), <<<<>>>>, tables)
\* An output row: [values, keys].
OutRow(q, env) ==
  [values |-> [i \in DOMAIN q.cols |-> Eval(q.cols[i].e, env)],
   keys |-> [i \in DOMAIN q.order |->
               LET k == OrderIndex(q.order[i].e, q.cols) IN
               Eval(IF k # 0 THEN q.cols[k].e ELSE q.order[i].e, env)]]
EvalSimple(q, rows) == [i \in DOMAIN rows |-> OutRow(q, OnRow(rows[i]))]

\* argextreme_row: the first row with the extreme argument, compared as BINARY.
ArgExtreme(a, rows) ==
  LET At(r) == Eval(a[3][1], OnRow(r))
      Beats(r, t) == At(r) # NULL /\ (At(t) = NULL \/ IF a[2] = "max" THEN At(t) < At(r) ELSE At(r) < At(t)) IN
  FoldLeft(LAMBDA best, r : IF Beats(r, best) THEN r ELSE best, Head(rows), Tail(rows))
Representative(q, rows) ==
  CASE rows = <<>> -> [i \in DOMAIN Columns |-> NULL]
    [] rows # <<>> /\ Len(MinMax(q)) = 1 -> ArgExtreme(MinMax(q)[1], rows)
    [] OTHER -> Head(rows)
\* The groups in the order of their keys, a group the rows it holds.  keyed is a
\* sequence of [key, row].
Keyed(q, rows) == [i \in DOMAIN rows |-> [row |-> rows[i], key |-> [k \in DOMAIN q.group |-> Eval(q.group[k], OnRow(rows[i]))]]]
Leaders(keyed, colls) ==
  SelectSeq([i \in DOMAIN keyed |-> i], LAMBDA i : \A j \in 1 .. i - 1 : ~SameKey(keyed[i].key, keyed[j].key, colls))
Members(keyed, key, colls) == SelectSeq(keyed, LAMBDA r : SameKey(r.key, key, colls))
GroupsLed(keyed, colls, leaders) ==
  LET terms == [i \in DOMAIN colls |-> [desc |-> FALSE, coll |-> colls[i]]]
      order == SortSeq(leaders, LAMBDA i, j : RowBefore(keyed[i].key, keyed[j].key, terms)) IN
  [g \in DOMAIN leaders |-> Members(keyed, keyed[order[g]].key, colls)]
GroupsOf(keyed, colls) == GroupsLed(keyed, colls, Leaders(keyed, colls))
RowsOf(group) == [i \in DOMAIN group |-> group[i].row]
GroupEnv(q, rows) == [row |-> Representative(q, rows), group |-> rows]
Having(q, envs) == SelectSeq(envs, LAMBDA env : \A i \in DOMAIN q.having : Truth(Eval(q.having[i], env)) = 1)
GroupEnvs(q, groups) == [g \in DOMAIN groups |-> GroupEnv(q, RowsOf(groups[g]))]
OutRows(q, envs) == [g \in DOMAIN envs |-> OutRow(q, envs[g])]
EvalAggregated(q, rows) ==
  OutRows(q, Having(q, IF q.group = <<>> THEN <<GroupEnv(q, rows)>>
                       ELSE GroupEnvs(q, GroupsOf(Keyed(q, rows), [k \in DOMAIN q.group |-> KeyCollation(q.group[k])]))))

Distinct(q, out) ==
  LET colls == [i \in DOMAIN q.cols |-> KeyCollation(q.cols[i].e)]
      First(i) == \A j \in 1 .. i - 1 : ~SameKey(out[i].values, out[j].values, colls)
      keep == SelectSeq([i \in DOMAIN out |-> i], First) IN
  IF q.distinct THEN [k \in DOMAIN keep |-> out[keep[k]]] ELSE out
Ordered(q, out, terms) ==
  IF q.order = <<>> THEN out ELSE SortSeq(out, LAMBDA r, t : RowBefore(r.keys, t.keys, terms))
Offset(q, out) == IF q.offset = <<>> THEN out ELSE Skip(out, Eval(q.offset[1], OnRow(<<>>)))
Limit(q, out) == IF q.limit = <<>> THEN out ELSE Take(out, Eval(q.limit[1], OnRow(<<>>)))
Where(q, rows) == SelectSeq(rows, LAMBDA r : \A i \in DOMAIN q.where : Truth(Eval(q.where[i], OnRow(r))) = 1)
Projected(q, rows) == IF Aggregated(q) THEN EvalAggregated(q, rows) ELSE EvalSimple(q, rows)
ValuesOf(out) == [i \in DOMAIN out |-> out[i].values]
\* run_core on the rows of the source, and finish_from_rows.
Answer(q, tables) ==
  ValuesOf(Limit(q, Offset(q, Ordered(q, Distinct(q, Projected(q, Where(q, Source(tables)))), OrderTerms(q)))))

-----------------------------------------------------------------------------
(* The compiled executor. *)

CONSTANT Widths  \* the number of columns of each table

VARIABLES db, q, prog, m
\* prog: [ops, next, ok, crossed], ok FALSE for a declined query; crossed: its one
\* cursor reads the cross product of the tables.  m: the machine.
vars == <<db, q, prog, m>>

(* ---- The compiler's state: [ops, next, bind, raw, ok, lim, off, keys] ---- *)
\* next is the next free register, lim off keys the registers of LIMIT, OFFSET
\* (0 for none) and the first sort key.  A jump goes to a label, a pair of a name
\* and a number; Assemble turns labels into addresses, where the code patches
\* each jump once its target is known.
Emit(c, op) == [c EXCEPT !.ops = Append(@, op)]
EmitIf(b, c, op) == IF b THEN Emit(c, op) ELSE c
Label(c, name, n) == Emit(c, <<"Label", <<name, n>>>>)
Alloc(c, n) == [c EXCEPT !.next = @ + n]
Decline(c) == [c EXCEPT !.ok = FALSE]
DeclineIf(b, c) == IF b THEN Decline(c) ELSE c
Start(next) == [ops |-> <<>>, next |-> next, bind |-> <<>>, raw |-> FALSE, ok |-> TRUE, lim |-> 0, off |-> 0, keys |-> 0]
Jumping == {"Rewind", "Next", "IfFalse", "IfPosDecr", "DecrJumpZero", "Goto", "DistinctCheck", "SorterRewind", "SorterNext",
            "GroupFinalize", "GroupNext"}
AddressOf(ops, l) == 1 + Cardinality({i \in 1 .. (CHOOSE i \in DOMAIN ops : ops[i] = <<"Label", l>>) : ops[i][1] # "Label"})
Assemble(c, crossed) ==
  [ops |-> SelectSeq([i \in DOMAIN c.ops |-> IF c.ops[i][1] \in Jumping THEN [c.ops[i] EXCEPT ![2] = AddressOf(c.ops, @)] ELSE c.ops[i]],
                     LAMBDA op : op[1] # "Label"),
   next |-> c.next, ok |-> c.ok, crossed |-> crossed]

(* ---- Expressions ---- *)
\* cursor_of: the cursor and its column behind a combined column.
RECURSIVE CursorOf(_, _)
CursorOf(i, cursor) == IF i <= Widths[cursor] THEN <<cursor, i>> ELSE CursorOf(i - Widths[cursor], cursor + 1)
ColumnOp(at, dest) == <<"Column", dest, at[1], at[2]>>
CompareInstr(op, l, left, r, ra, dest, coll) == <<"Compare", dest, l, r, op, Affinity(left), ra, coll>>
PushCompare(c, op, l, left, r, right, dest) ==
  Emit(c, CompareInstr(op, l, left, r, Affinity(right), dest, ResolveCollation(left, right)))
RECURSIVE CompileInto(_, _, _)
Compile(e, c) == CompileInto(e, c.next, Alloc(c, 1))
\* The instruction for a binary operator, l and r the registers of its operands.
BinInstr(e, dest, l, r) ==
  CASE e[2] = "+" -> <<"Arith", dest, l, r>>
    [] e[2] = "and" -> <<"And", dest, l, r>>
    [] e[2] = "or" -> <<"Or", dest, l, r>>
    [] e[2] = "is" -> <<"Is", dest, l, r, Affinity(e[3]), Affinity(e[4])>>
    [] OTHER -> CompareInstr(e[2], l, e[3], r, Affinity(e[4]), dest, ResolveCollation(e[3], e[4]))
CompileBin(e, dest, c) ==
  Given(Compile(e[3], c), LAMBDA c1 : Emit(Compile(e[4], c1), BinInstr(e, dest, c.next, c1.next)))
\* x, lo and hi are the registers of the operands.
EmitBetween(e, dest, c, x, lo, hi) ==
  LET ge == PushCompare(Alloc(c, 2), ">=", x, e[2], lo, e[3], c.next)
      both == PushCompare(ge, "<=", x, e[2], hi, e[4], c.next + 1) IN
  IF e[5] THEN Emit(Emit(Alloc(both, 1), <<"And", c.next + 2, c.next, c.next + 1>>), <<"Not", dest, c.next + 2>>)
  ELSE Emit(both, <<"And", dest, c.next, c.next + 1>>)
CompileBetween(e, dest, c) ==
  Given(Compile(e[2], c), LAMBDA x : Given(Compile(e[3], x), LAMBDA lo :
    EmitBetween(e, dest, Compile(e[4], lo), c.next, x.next, lo.next)))
\* x is the register of the left operand, acc that of the result so far.
EmitItem(c, v, coll, left, x, acc, item) ==
  Emit(Emit(Emit(Alloc(c, 2), CompareInstr("=", x, left, v, "none", c.next, coll)),
            <<"Or", c.next + 1, acc, c.next>>), <<"Copy", acc, c.next + 1>>)
CompileInList(e, dest, c) ==
  LET coll == IF Len(e[3]) = 1 THEN ResolveCollation(e[2], e[3][1]) ELSE KeyCollation(e[2]) IN
  Given(Compile(e[2], c), LAMBDA x :
    Emit(FoldLeft(LAMBDA b, item : EmitItem(Compile(item, b), b.next, coll, e[2], c.next, x.next, item),
                  Emit(Alloc(x, 1), <<"Load", x.next, 0>>), e[3]),
         IF e[4] THEN <<"Not", dest, x.next>> ELSE <<"Copy", dest, x.next>>))
\* Mutant: a WHEN that fails jumps back to its own test.
EmitWhenBack(wt, dest, c, reg, n, end) ==
  Emit(CompileInto(wt[2], dest, Emit(Label(c, "when", n), <<"IfFalse", <<"when", n>>, reg>>)), <<"Goto", <<"endcase", end>>>>)
\* One WHEN whose condition is in register reg; n tells its label apart.
EmitWhen(wt, dest, c, reg, n, end) ==
  Label(Emit(CompileInto(wt[2], dest, Emit(c, <<"IfFalse", <<"when", n>>, reg>>)), <<"Goto", <<"endcase", end>>>>), "when", n)
CompileWhen(e, wt, dest, c, operand, end) ==
  LET Against(w) == PushCompare(Alloc(w, 1), "=", operand, e[2][1], c.next, wt[1], w.next) IN
  Given(Compile(wt[1], c), LAMBDA w :
    IF e[2] = <<>> THEN EmitWhen(wt, dest, w, c.next, Len(c.ops), end) ELSE EmitWhen(wt, dest, Against(w), w.next, Len(c.ops), end))
CompileCase(e, dest, c) ==
  Given(FoldLeft(LAMBDA s, wt : CompileWhen(e, wt, dest, s, c.next, Len(c.ops)),
                 IF e[2] = <<>> THEN c ELSE Compile(e[2][1], c), e[3]),
        LAMBDA w : Label(IF e[4] = <<>> THEN Emit(w, <<"Load", dest, NULL>>) ELSE CompileInto(e[4][1], dest, w), "endcase", Len(c.ops)))
\* A scalar subquery without FROM: NULL unless its WHERE holds.
CompileSub(e, dest, c) ==
  LET Tested(p) == IF e[3] = <<>> THEN p ELSE Emit(Compile(e[3][1], p), <<"IfFalse", <<"endsub", Len(c.ops)>>, p.next>>) IN
  Label(CompileInto(e[2], dest, Tested(Emit(c, <<"Load", dest, NULL>>))), "endsub", Len(c.ops))
BoundTo(c, e) == SelectSeq(c.bind, LAMBDA b : b[1] = e)
CompileInto(e, dest, c) ==
  IF BoundTo(c, e) # <<>>
  THEN LET src == BoundTo(c, e)[1][2] IN EmitIf(src # dest, c, <<"Copy", dest, src>>)
  ELSE CASE e[1] = "lit" -> Emit(c, <<"Load", dest, e[2]>>)
         [] e[1] = "col" -> IF c.raw THEN Decline(c) ELSE Emit(c, ColumnOp(CursorOf(e[2], 1), dest))
         [] e[1] = "collate" -> CompileInto(e[2], dest, c)
         [] e[1] = "not" -> Emit(Compile(e[2], c), <<"Not", dest, c.next>>)
         [] e[1] = "isnull" -> Emit(Compile(e[2], c), <<"IsNull", dest, c.next, e[3]>>)
         [] e[1] = "bin" -> CompileBin(e, dest, c)
         [] e[1] = "between" -> CompileBetween(e, dest, c)
         [] e[1] = "in" -> CompileInList(e, dest, c)
         [] e[1] = "case" -> CompileCase(e, dest, c)
         [] e[1] = "sub" -> CompileSub(e, dest, c)
         [] e[1] = "agg" -> Decline(c)
\* Expressions into consecutive registers from first on.
CompileAll(es, first, c) == FoldLeft(LAMBDA s, i : CompileInto(es[i], first + i - 1, s), c, [i \in DOMAIN es |-> i])

(* ---- Clauses ---- *)
\* fold_const_int folds literals and operators over them.
RECURSIVE Pure(_)
Pure(e) == e[1] = "lit" \/ (e[1] = "bin" /\ Pure(e[3]) /\ Pure(e[4]))
\* The value of a LIMIT or OFFSET into the next register.
CountReg(e, c) ==
  IF Pure(e) THEN Emit(Alloc(c, 1), <<"Load", c.next, Eval(e, OnRow(<<>>))>>)
  ELSE Emit([Compile(e, [c EXCEPT !.raw = TRUE]) EXCEPT !.raw = c.raw], <<"MustBeInt", 0, c.next>>)
OffsetReg(offset, c) == IF offset = <<>> THEN c ELSE [CountReg(offset[1], c) EXCEPT !.off = c.next]
\* A constant negative LIMIT is no limit.
LimitReg(limit, c) ==
  IF limit = <<>> \/ (Pure(limit[1]) /\ Eval(limit[1], OnRow(<<>>)) < 0) THEN c ELSE [CountReg(limit[1], c) EXCEPT !.lim = c.next]
LiteralZero(limit) == limit # <<>> /\ limit[1] = <<"lit", 0>>
\* build_sort_keys: the expression of an ORDER BY term.
SortKeys(sel) == [i \in DOMAIN sel.order |->
  LET k == OrderIndex(sel.order[i].e, sel.cols) IN IF k = 0 THEN sel.order[i].e ELSE sel.cols[k].e]
KeyRegs(sel, c) == [Alloc(c, Len(sel.order)) EXCEPT !.keys = c.next]
DistinctCollations(sel) == [i \in DOMAIN sel.cols |-> KeyCollation(sel.cols[i].e)]
\* A row that fails the condition jumps to the label.
Filter(where, c, skip) ==
  IF where = <<>> THEN c ELSE Emit(Compile(where[1], c), <<"IfFalse", <<skip, 0>>, c.next>>)
\* A limit of zero jumps to the label.
TestLimit(b, c, done) == EmitIf(b /\ c.lim # 0, c, <<"IfFalse", <<done, 0>>, c.lim>>)
\* The output row at register out: past DISTINCT it is kept for the sorter, or
\* put out past OFFSET and counted against LIMIT.
Produce(sel, out, c, skip, done) ==
  LET count == Len(sel.cols)
      Unseen(d) == EmitIf(sel.distinct, d, <<"DistinctCheck", <<skip, 0>>, out, count, DistinctCollations(sel)>>)
      Shifted(d) == EmitIf(d.off # 0, d, <<"IfPosDecr", <<skip, 0>>, d.off>>)
      Limited(d) == EmitIf(d.lim # 0, d, <<"DecrJumpZero", <<done, 0>>, d.lim>>) IN
  IF sel.order = <<>> THEN Limited(Emit(Shifted(Unseen(c)), <<"ResultRow", 0, out, count>>))
  ELSE Emit(CompileAll(SortKeys(sel), c.keys, Unseen(c)), <<"SorterInsert", 0, out, count, c.keys, Len(sel.order)>>)

(* ---- Loops ---- *)
\* An inner cursor without rows advances the one around it.
Open(c, n) ==
  FoldLeft(LAMBDA s, i : Emit(Label(s, "rewind", i), <<"Rewind", IF i = 1 THEN <<"done", 0>> ELSE <<"next", i - 1>>, i>>),
           c, [i \in 1 .. n |-> i])
Body(c) == Label(c, "body", 0)
Close(c, n) ==
  Label(FoldLeft(LAMBDA s, i : Emit(Label(s, "next", i), <<"Next", IF i = n THEN <<"body", 0>> ELSE <<"rewind", i + 1>>, i>>),
                 Label(c, "skip", 0), [i \in 1 .. n |-> n - i + 1]), "done", 0)
\* The sorted rows, from the output registers at out.
Drain(sel, out, c) ==
  LET count == Len(sel.cols)
      Sorted(d) == Label(Emit(Emit(d, <<"SorterSort", 0, OrderTerms(sel)>>), <<"SorterRewind", <<"sorted", 0>>>>), "sorter", 0)
      Shifted(d) == EmitIf(d.off # 0, d, <<"IfPosDecr", <<"snext", 0>>, d.off>>)
      Limited(d) == EmitIf(d.lim # 0, d, <<"DecrJumpZero", <<"sorted", 0>>, d.lim>>)
      Row(d) == Emit(Emit(d, <<"SorterRow", 0, out, count>>), <<"ResultRow", 0, out, count>>)
      Loop(d) == Label(Emit(Label(d, "snext", 0), <<"SorterNext", <<"sorter", 0>>>>), "sorted", 0) IN
  IF sel.order = <<>> THEN c ELSE Loop(Limited(Row(Shifted(Sorted(c)))))
Halt(c) == Emit(c, <<"Halt">>)

(* ---- SELECT without aggregates ---- *)
\* compile_const_select: one row, or none.
CompileConst(sel) ==
  LET count == Len(sel.cols)
      Counted(c) == OffsetReg(sel.offset, LimitReg(sel.limit, c))
      Shifted(c) == EmitIf(c.off # 0, c, <<"IfPosDecr", <<"skip", 0>>, c.off>>)
      Row(c) == Label(Emit(TestLimit(TRUE, c, "skip"), <<"ResultRow", 0, 1, count>>), "skip", 0) IN
  Halt(Row(Shifted(Counted(CompileAll(Exprs(sel.cols), 1, Filter(sel.where, Start(count + 1), "skip"))))))
\* compile_table_select_opts for one table and compile_join2 for several.  Only
\* the former, and only without ORDER BY, tests a computed LIMIT for zero.
CompileRows(sel) ==
  LET Counted(c) == KeyRegs(sel, OffsetReg(sel.offset, LimitReg(sel.limit, c)))
      Opened(c) == Body(TestLimit(sel.order = <<>> /\ sel.from = 1, Open(c, sel.from), "done"))
      Row(c) == Produce(sel, 1, CompileAll(Exprs(sel.cols), 1, Filter(sel.where, c, "skip")), "skip", "done") IN
  Halt(Drain(sel, 1, Close(Row(Opened(Counted(Start(Len(sel.cols) + 1)))), sel.from)))

(* ---- Aggregates ---- *)
Unique(s) == SelectSeq([i \in DOMAIN s |-> <<i, s[i]>>], LAMBDA p : \A j \in 1 .. p[1] - 1 : s[j] # p[2])
Uniques(s) == [i \in DOMAIN Unique(s) |-> Unique(s)[i][2]]
\* agg_kind_distinct: an ORDER BY is taken only in group_concat.
Known(a) == a[6] # <<>> => (a[2] = "group_concat" /\ ~a[4])
\* compile_order_keys: the keys are in the registers from first on.
OrderKeys(order, first) ==
  [i \in DOMAIN order |-> [reg |-> first + i - 1, desc |-> order[i].desc, coll |-> KeyCollation(order[i].e)]]
\* The operands of an aggregate, as [c, specs] with one more spec.
Spec1(s, a) ==
  LET arg == IF a[3] = <<>> THEN s.c ELSE Compile(a[3][1], s.c)
      fil == IF a[5] = <<>> THEN arg ELSE Compile(a[5][1], arg)
      ord == CompileAll(Exprs(a[6]), fil.next, Alloc(fil, Len(a[6]))) IN
  [c |-> IF Known(a) THEN ord ELSE Decline(ord),
   specs |-> Append(s.specs,
     [kind |-> a[2], arg |-> IF a[3] = <<>> THEN 0 ELSE s.c.next, distinct |-> a[4],
      filter |-> IF a[5] = <<>> THEN 0 ELSE arg.next,
      order |-> OrderKeys(a[6], fil.next),
      coll |-> IF a[3] = <<>> THEN "BINARY" ELSE KeyCollation(a[3][1])])]
Specs(aggs, c) == FoldLeft(Spec1, [c |-> c, specs |-> <<>>], aggs)
CountStar == <<"agg", "count(*)", <<>>, FALSE, <<>>, <<>>>>
Bind(c, es, first) == [c EXCEPT !.bind = @ \o [i \in DOMAIN es |-> <<es[i], first + i - 1>>]]
\* What finalize_agg needs of an aggregate; the operands are with the values.
Kinds(aggs) == [i \in DOMAIN aggs |->
  [kind |-> aggs[i][2], order |-> [j \in DOMAIN aggs[i][6] |-> [desc |-> aggs[i][6][j].desc, coll |-> KeyCollation(aggs[i][6][j].e)]],
   coll |-> IF aggs[i][3] = <<>> THEN "BINARY" ELSE KeyCollation(aggs[i][3][1])]]
\* compile_aggregate_select: one row for the whole input; gated, it needs a row
\* of input (GROUP BY of constants).
AggLoop(sel, slots) ==
  LET Step1(s, a) == Given(Spec1(s, a), LAMBDA t : [t EXCEPT !.c = Emit(@, <<"AggStep", 0, Len(t.specs), Last(t.specs)>>)])
      Folded(c) == FoldLeft(Step1, [c |-> c, specs |-> <<>>], slots).c
      Final(c) == FoldLeft(LAMBDA s, i : Emit(s, <<"AggFinal", i, i, Kinds(slots)[i]>>), c, [i \in DOMAIN slots |-> i]) IN
  Final(Close(Folded(Filter(sel.where, Body(Open(Start(Len(slots) + 1), sel.from)), "skip")), sel.from))
AggOutput(sel, gated, aggs, c) ==
  LET count == Len(sel.cols)
      Projected1(d) == CompileAll(Exprs(sel.cols), c.next, Alloc([Bind(d, aggs, 1) EXCEPT !.raw = TRUE], count))
      Gated(d) == EmitIf(gated, d, <<"IfFalse", <<"none", 0>>, Len(aggs) + 1>>) IN
  Halt(Label(Emit(Filter(sel.having, Gated(Projected1(c)), "none"), <<"ResultRow", 0, c.next, count>>), "none", 0))
CompileAggregate(sel, gated) ==
  LET aggs == Uniques(AllAggregates(Exprs(sel.cols) \o sel.having)) IN
  DeclineIf(sel.order # <<>> \/ sel.limit # <<>> \/ sel.offset # <<>>,
            AggOutput(sel, gated, aggs, AggLoop(sel, aggs \o (IF gated THEN <<CountStar>> ELSE <<>>))))

(* ---- GROUP BY ---- *)
\* collect_bare_columns: the columns outside aggregates, as expressions.
RECURSIVE BareColumns(_)
BareColumns(e) ==
  CASE e[1] = "col" -> <<e>>
    [] e[1] \in {"not", "isnull", "collate"} -> BareColumns(e[2])
    [] e[1] = "bin" -> BareColumns(e[3]) \o BareColumns(e[4])
    [] e[1] = "case" ->
         FlattenSeq([i \in DOMAIN e[2] |-> BareColumns(e[2][i])])
         \o FlattenSeq([i \in DOMAIN e[3] |-> BareColumns(e[3][i][1]) \o BareColumns(e[3][i][2])])
         \o FlattenSeq([i \in DOMAIN e[4] |-> BareColumns(e[4][i])])
    [] OTHER -> <<>>
AllBare(es) == Uniques(FlattenSeq([i \in DOMAIN es |-> BareColumns(es[i])]))
IsMinMax(a) == a[2] \in {"min", "max"}
TooManyExtremes(repr, aggs) == repr # <<>> /\ Len(SelectSeq(aggs, IsMinMax)) > 1
Ascending(es) == [i \in DOMAIN es |-> [desc |-> FALSE, coll |-> KeyCollation(es[i])]]
\* emit_group_fold: the scan that fills the groups.  repr are the columns kept of
\* a representative row; with a lone min or max (the companion) that is the row
\* of the extreme.
GroupStep(sel, repr, specs) ==
  LET lone == SelectSeq(specs, LAMBDA sp : sp.kind \in {"min", "max"}) IN
  <<"GroupStep", 0, 1, Len(sel.group), Len(repr), IF repr # <<>> /\ Len(lone) = 1 THEN lone ELSE <<>>, specs,
    [i \in DOMAIN sel.group |-> KeyCollation(sel.group[i])]>>
GroupFold(sel, repr, aggs) ==
  LET n == Len(sel.group)
      Opened(c) == Filter(sel.where, Body(Open(c, sel.from)), "skip")
      Keys(c) == CompileAll(repr, n + 1, CompileAll(sel.group, 1, c))
      Stepped(t) == Emit(t.c, GroupStep(sel, repr, t.specs)) IN
  Close(Stepped(Specs(aggs, Keys(Opened(Start(n + Len(repr) + 1))))), sel.from)
\* compile_group_emit: every output is a key, a kept column or an aggregate.  An
\* output is <<"key", i>> or <<"agg", i>>.
GroupEmit(sel) ==
  LET es == Exprs(sel.cols)
      lone == Len(MinMax(sel)) = 1
      IsKey(e) == ~lone /\ \E k \in DOMAIN sel.group : sel.group[k] = e
      IsAgg(e) == e[1] = "agg"
      IsRepr(e) == e[1] = "col" /\ ~IsKey(e)
      aggs == SelectSeq(es, IsAgg)
      repr == SelectSeq(es, IsRepr)
      Upto(i, T(_)) == Cardinality({j \in 1 .. i : T(es[j])})
      outputs == [i \in DOMAIN es |->
        CASE IsAgg(es[i]) -> <<"agg", Upto(i, IsAgg)>>
          [] IsRepr(es[i]) -> <<"key", Len(sel.group) + Upto(i, IsRepr)>>
          [] OTHER -> <<"key", CHOOSE k \in DOMAIN sel.group : sel.group[k] = es[i]>>] IN
  IF (\E i \in DOMAIN es : es[i][1] \notin {"agg", "col"}) \/ TooManyExtremes(repr, aggs) THEN Decline(Start(1))
  ELSE Halt(Emit(GroupFold(sel, repr, aggs), <<"GroupEmit", 0, outputs, Ascending(sel.group), Kinds(aggs)>>))
\* The general case: groups are walked one by one, their keys, aggregates and
\* kept columns in registers the output expressions are bound to.  The registers
\* begin at g; the output row is at out.
LoadGroup(sel, aggs, repr, g, c) ==
  LET n == Len(sel.group)
      Keys(d) == FoldLeft(LAMBDA s, i : Emit(s, <<"GroupKey", g + i - 1, i>>), d, [i \in DOMAIN sel.group |-> i])
      Aggs(d) == FoldLeft(LAMBDA s, i : Emit(s, <<"GroupAgg", g + n + i - 1, i>>), d, [i \in DOMAIN aggs |-> i])
      Reprs(d) == FoldLeft(LAMBDA s, i : Emit(s, <<"GroupKey", g + n + Len(aggs) + i - 1, n + i>>), d, [i \in DOMAIN repr |-> i]) IN
  Reprs(Aggs(Keys(c)))
BindGroup(sel, aggs, repr, lone, g, c) ==
  LET n == Len(sel.group)
      keys == SelectSeq([i \in DOMAIN sel.group |-> <<sel.group[i], g + i - 1>>],
                        LAMBDA b : ~(lone /\ b[1][1] = "col" /\ b[1] \in ToSet(repr))) IN
  Bind(Bind([c EXCEPT !.bind = keys], aggs, g + n), repr, g + n + Len(aggs))
GroupRow(sel, out, c) == Filter(sel.having, CompileAll(Exprs(sel.cols), out, [c EXCEPT !.raw = TRUE]), "gskip")
GroupLoop(sel, out, c) ==
  Label(Emit(Label(Produce(sel, out, c, "gskip", "gdone"), "gskip", 0), <<"GroupNext", <<"group", 0>>>>), "gdone", 0)
GroupDrain(sel, out, c) == Halt(Label(Drain(sel, out, c), "end", 0))
WalkGroups(sel, aggs, repr, lone, c) ==
  LET g == c.next
      out == g + Len(sel.group) + Len(aggs) + Len(repr)
      Counted(d) == TestLimit(TRUE, KeyRegs(sel, OffsetReg(sel.offset, LimitReg(sel.limit, d))), "end")
      Finalized(d) == Label(Emit(d, <<"GroupFinalize", <<"gdone", 0>>, Kinds(aggs), Ascending(sel.group)>>), "group", 0)
      Bound(d) == BindGroup(sel, aggs, repr, lone, g, Alloc(d, out - g + Len(sel.cols)))
      Walked(d) == GroupLoop(sel, out, GroupRow(sel, out, LoadGroup(sel, aggs, repr, g, Finalized(d)))) IN
  Given(Counted(Bound(c)), LAMBDA opened : Given(Walked(opened), LAMBDA walked : GroupDrain(sel, out, walked)))
GroupWalk(sel) ==
  LET lone == Len(MinMax(sel)) = 1
      aggs == Uniques(AllAggregates(Outputs(sel)))
      repr == SelectSeq(AllBare(Outputs(sel)), LAMBDA e : lone \/ ~\E k \in DOMAIN sel.group : sel.group[k] = e) IN
  IF TooManyExtremes(repr, aggs) THEN Decline(Start(1))
  ELSE Given(GroupFold(sel, repr, aggs), LAMBDA c : WalkGroups(sel, aggs, repr, lone, c))
CompileGroup(sel) ==
  CASE \E k \in DOMAIN sel.group : sel.group[k][1] # "col" /\ BareColumns(sel.group[k]) = <<>> -> Decline(Start(1))
    [] /\ sel.having = <<>> /\ sel.order = <<>> /\ sel.limit = <<>> /\ sel.offset = <<>> /\ ~sel.distinct
       /\ \A k \in DOMAIN sel.group : sel.group[k][1] = "col" -> GroupEmit(sel)
    [] OTHER -> GroupWalk(sel)
\* compile_table_select_opts: one cursor.
CompileTable(sel) ==
  CASE LiteralZero(sel.limit) -> Halt(Start(1))
    [] sel.group # <<>> ->
         IF /\ \A k \in DOMAIN sel.group : sel.group[k][1] # "lit" /\ Pure(sel.group[k])
            /\ \A i \in DOMAIN sel.cols : sel.cols[i].e[1] = "agg"
         THEN CompileAggregate(sel, TRUE) ELSE CompileGroup(sel)
    [] sel.group = <<>> /\ Aggregated(sel) -> CompileAggregate(sel, FALSE)
    [] OTHER -> IF sel.having # <<>> THEN Decline(Start(1)) ELSE CompileRows(sel)
\* compile_aggregate_join, where every output must be an aggregate,
\* compile_group_join and compile_join2: one cursor for each table.
OnlyAggregates(sel) == sel.having = <<>> /\ ~sel.distinct /\ \A i \in DOMAIN sel.cols : sel.cols[i].e[1] = "agg"
CompileJoin(sel) ==
  CASE sel.group # <<>> -> CompileGroup(sel)
    [] sel.group = <<>> /\ Aggregated(sel) -> IF OnlyAggregates(sel) THEN CompileAggregate(sel, FALSE) ELSE Decline(Start(1))
    [] OTHER -> CASE sel.having # <<>> -> Decline(Start(1))
                  [] LiteralZero(sel.limit) -> Halt(Start(1))
                  [] OTHER -> CompileRows(sel)
\* The columns of all tables are the columns of the one cursor.
OneCursor(c) ==
  LET Preceding(cursor) == FoldLeft(LAMBDA n, w : n + w, 0, SubSeq(Widths, 1, cursor - 1)) IN
  [c EXCEPT !.ops = [i \in DOMAIN @ |-> IF @[i][1] = "Column" THEN ColumnOp(<<1, Preceding(@[i][3]) + @[i][4]>>, @[i][2]) ELSE @[i]]]
\* run_select_vdbe: a join the nested loops do not take is compiled as one table,
\* the cross product of its tables.
Program(sel) ==
  CASE sel.from = 0 -> Assemble(IF Aggregated(sel) THEN Decline(Start(1)) ELSE CompileConst(sel), FALSE)
    [] sel.from = 1 -> Assemble(CompileTable(sel), FALSE)
    [] OTHER -> Given(CompileJoin(sel), LAMBDA joined :
         IF joined.ok THEN Assemble(joined, FALSE) ELSE Assemble(OneCursor(CompileTable([sel EXCEPT !.from = 1])), TRUE))

(* ---- The machine ---- *)
\* pc 0 stands for a stopped machine.  An accumulator is [count, vals, keys]; a
\* group [key, accs, best], key with the kept columns behind the keys.
NoAcc == [count |-> 0, vals |-> <<>>, keys |-> <<>>]
Loaded(p) == [pc |-> IF p.ok THEN 1 ELSE 0, regs |-> [r \in 1 .. p.next |-> NULL], pos |-> [i \in DOMAIN Widths |-> 1],
              out |-> <<>>, seen |-> <<>>, sorter |-> <<>>, at |-> 1, aggs |-> [i \in 1 .. 4 |-> NoAcc],
              groups |-> <<>>, emit |-> <<>>]
Init == \E d \in Databases, sel \in Queries : db = d /\ q = sel /\ prog = Program(sel) /\ m = Loaded(prog)
Op == prog.ops[m.pc]
Is(names) == m.pc # 0 /\ Op[1] \in names
Jump(b) == IF b THEN Op[2] ELSE m.pc + 1
Slice(start, count) == [i \in 1 .. count |-> m.regs[start + i - 1]]
Set(v) == m' = [m EXCEPT !.pc = @ + 1, !.regs[Op[2]] = v]
Kept == UNCHANGED <<db, q, prog>>

CrossProduct ==
  FoldLeft(LAMBDA rows, t : FlattenSeq([i \in DOMAIN rows |-> [j \in DOMAIN t |-> rows[i] \o t[j]]]), <<<<>>>>, SubSeq(db, 1, q.from))
Rows(cursor) == IF prog.crossed THEN CrossProduct ELSE db[cursor]

\* Rewind, RewindC: jump if there is no row; Next, NextC: jump if there is one.
CursorOps ==
  /\ Kept
  /\ \/ Is({"Rewind"}) /\ m' = [m EXCEPT !.pc = Jump(Rows(Op[3]) = <<>>), !.pos[Op[3]] = 1]
     \/ Is({"Next"}) /\ m' = [m EXCEPT !.pc = Jump(m.pos[Op[3]] < Len(Rows(Op[3]))), !.pos[Op[3]] = @ + 1]
     \/ Is({"Column"}) /\ Set(Rows(Op[3])[m.pos[Op[3]]][Op[4]])
\* must_be_int refuses a value that is no integer; a NULL among them.
CountOps ==
  /\ Kept
  /\ \/ Is({"MustBeInt"}) /\ m' = [m EXCEPT !.pc = @ + 1]
     \/ Is({"DecrJumpZero"}) /\ m' = [m EXCEPT !.pc = Jump(m.regs[Op[3]] = 1), !.regs[Op[3]] = @ - 1]
     \/ Is({"IfPosDecr"}) /\ LET n == m.regs[Op[3]] IN
          m' = [m EXCEPT !.pc = Jump(n > 0), !.regs[Op[3]] = IF n > 0 THEN n - 1 ELSE n]
     \/ Is({"IfFalse"}) /\ m' = [m EXCEPT !.pc = Jump(Truth(m.regs[Op[3]]) # 1)]
     \/ Is({"Goto"}) /\ m' = [m EXCEPT !.pc = Jump(TRUE)]
     \/ Is({"Halt"}) /\ m' = [m EXCEPT !.pc = 0]
ValueOps ==
  /\ Kept
  /\ \/ Is({"Load"}) /\ Set(Op[3])
     \/ Is({"Copy"}) /\ Set(m.regs[Op[3]])
     \/ Is({"Arith"}) /\ Set(Add(m.regs[Op[3]], m.regs[Op[4]]))
     \/ Is({"Compare"}) /\ Set(CompareOp(Op[5], Toward(m.regs[Op[3]], Op[6], Op[7]), Toward(m.regs[Op[4]], Op[7], Op[6]), Op[8]))
     \/ Is({"Is"}) /\ Set(Bool(Toward(m.regs[Op[3]], Op[5], Op[6]) = Toward(m.regs[Op[4]], Op[6], Op[5])))
     \/ Is({"And"}) /\ Set(And3(m.regs[Op[3]], m.regs[Op[4]]))
     \/ Is({"Or"}) /\ Set(Or3(m.regs[Op[3]], m.regs[Op[4]]))
     \/ Is({"Not"}) /\ Set(Not3(m.regs[Op[3]]))
     \/ Is({"IsNull"}) /\ Set(Bool((m.regs[Op[3]] = NULL) # Op[4]))
SameRow(r, s, colls) == \A i \in DOMAIN colls : SameIn(r[i], s[i], colls[i])
OutputOps ==
  /\ Kept
  /\ \/ Is({"ResultRow"}) /\ m' = [m EXCEPT !.pc = @ + 1, !.out = Append(@, Slice(Op[3], Op[4]))]
     \/ /\ Is({"DistinctCheck"})
        /\ LET row == Slice(Op[3], Op[4])
               dup == \E i \in DOMAIN m.seen : SameRow(m.seen[i], row, Op[5]) IN
           m' = [m EXCEPT !.pc = Jump(dup), !.seen = IF dup THEN @ ELSE Append(@, row)]
SorterOps ==
  /\ Kept
  /\ \/ Is({"SorterInsert"}) /\ m' = [m EXCEPT !.pc = @ + 1,
          !.sorter = Append(@, [row |-> Slice(Op[3], Op[4]), keys |-> Slice(Op[5], Op[6])])]
     \/ Is({"SorterSort"}) /\ m' = [m EXCEPT !.pc = @ + 1, !.sorter = SortSeq(@, LAMBDA r, s : RowBefore(r.keys, s.keys, Op[3]))]
     \/ Is({"SorterRewind"}) /\ m' = [m EXCEPT !.pc = Jump(m.sorter = <<>>), !.at = 1]
     \/ Is({"SorterRow"}) /\ m' = [m EXCEPT !.pc = @ + 1,
          !.regs = [r \in DOMAIN @ |-> IF r - Op[3] \in 0 .. Op[4] - 1 THEN m.sorter[m.at].row[r - Op[3] + 1] ELSE @[r]]]
     \/ Is({"SorterNext"}) /\ m' = [m EXCEPT !.pc = Jump(m.at < Len(m.sorter)), !.at = @ + 1]

\* One row into an accumulator (AggStep, and GroupStep for each of its specs).
Accumulate(acc, sp) ==
  LET v == m.regs[sp.arg] IN
  CASE sp.filter # 0 /\ Truth(m.regs[sp.filter]) # 1 -> acc
    [] sp.kind = "count(*)" -> [acc EXCEPT !.count = @ + 1]
    [] v = NULL \/ (sp.distinct /\ \E i \in DOMAIN acc.vals : SameIn(acc.vals[i], v, sp.coll)) -> acc
    [] OTHER -> [acc EXCEPT !.vals = Append(@, v),
                            !.keys = Append(@, [i \in DOMAIN sp.order |-> m.regs[sp.order[i].reg]])]
\* finalize_agg: in the order of the keys, if there are any.
FinalizeAgg(acc, sp) ==
  LET by == SortSeq([i \in DOMAIN acc.vals |-> i], LAMBDA i, j : RowBefore(acc.keys[i], acc.keys[j], sp.order))
      vals == IF sp.order = <<>> THEN acc.vals ELSE [i \in DOMAIN by |-> acc.vals[by[i]]] IN
  Finalize(sp.kind, vals, sp.coll, acc.count)
AggregateOps ==
  /\ Kept
  /\ \/ Is({"AggStep"}) /\ m' = [m EXCEPT !.pc = @ + 1, !.aggs[Op[3]] = Accumulate(@, Op[4])]
     \/ Is({"AggFinal"}) /\ Set(FinalizeAgg(m.aggs[Op[3]], Op[4]))
\* Mutant: the kept columns stay those of the group's first row.
StepGroupFirst(op) ==
  LET key == Slice(op[3], op[4] + op[5])
      known == {i \in DOMAIN m.groups : SameRow(m.groups[i].key, key, op[8])}
      gi == IF known = {} THEN Len(m.groups) + 1 ELSE CHOOSE i \in known : TRUE
      old == IF known = {} THEN [key |-> key, accs |-> [i \in DOMAIN op[7] |-> NoAcc], best |-> NULL] ELSE m.groups[gi]
      g == [old EXCEPT !.accs = [i \in DOMAIN op[7] |-> Accumulate(old.accs[i], op[7][i])]] IN
  [i \in 1 .. (Len(m.groups) + IF known = {} THEN 1 ELSE 0) |-> IF i = gi THEN g ELSE m.groups[i]]
\* A row of an existing group replaces its kept columns when it beats the
\* companion's best; the first row of a group founds it.
StepGroup(op) ==
  LET key == Slice(op[3], op[4] + op[5])
      known == {i \in DOMAIN m.groups : SameRow(m.groups[i].key, key, op[8])}
      gi == IF known = {} THEN Len(m.groups) + 1 ELSE CHOOSE i \in known : TRUE
      v == IF op[6] = <<>> THEN NULL ELSE m.regs[op[6][1].arg]
      fresh == [key |-> key, accs |-> [i \in DOMAIN op[7] |-> NoAcc], best |-> v]
      old == IF known = {} THEN fresh ELSE m.groups[gi]
      beats == /\ v # NULL
               /\ \/ old.best = NULL
                  \/ IF op[6][1].kind = "max" THEN LessIn(old.best, v, op[6][1].coll) ELSE LessIn(v, old.best, op[6][1].coll)
      g == [key |-> IF beats THEN [i \in DOMAIN key |-> IF i <= op[4] THEN old.key[i] ELSE key[i]] ELSE old.key,
            best |-> IF beats THEN v ELSE old.best,
            accs |-> [i \in DOMAIN op[7] |-> Accumulate(old.accs[i], op[7][i])]] IN
  [i \in 1 .. (Len(m.groups) + IF known = {} THEN 1 ELSE 0) |-> IF i = gi THEN g ELSE m.groups[i]]
\* sort_groups_by_key, then the values of the aggregates.
Emitted(specs, terms) ==
  LET sorted == SortSeq(m.groups, LAMBDA g, h : RowBefore(g.key, h.key, terms)) IN
  [i \in DOMAIN sorted |-> [key |-> sorted[i].key, aggs |-> [j \in DOMAIN specs |-> FinalizeAgg(sorted[i].accs[j], specs[j])]]]
GroupOps ==
  /\ Kept
  /\ \/ Is({"GroupStep"}) /\ m' = [m EXCEPT !.pc = @ + 1, !.groups = StepGroup(Op)]
     \/ /\ Is({"GroupEmit"})
        /\ \E gs \in {Emitted(Op[5], Op[4])} :
             m' = [m EXCEPT !.pc = @ + 1, !.groups = <<>>,
                            !.out = @ \o [i \in DOMAIN gs |-> [c \in DOMAIN Op[3] |->
                                IF Op[3][c][1] = "key" THEN gs[i].key[Op[3][c][2]] ELSE gs[i].aggs[Op[3][c][2]]]]]
     \/ /\ Is({"GroupFinalize"})
        /\ m' = [m EXCEPT !.pc = Jump(m.groups = <<>>), !.groups = <<>>, !.emit = Emitted(Op[3], Op[4]), !.at = 1]
     \/ Is({"GroupKey"}) /\ Set(m.emit[m.at].key[Op[3]])
     \/ Is({"GroupAgg"}) /\ Set(m.emit[m.at].aggs[Op[3]])
     \/ Is({"GroupNext"}) /\ m' = [m EXCEPT !.pc = Jump(m.at < Len(m.emit)), !.at = @ + 1]
Next == CursorOps \/ CountOps \/ ValueOps \/ OutputOps \/ SorterOps \/ AggregateOps \/ GroupOps
Spec == Init /\ [][Next]_vars /\ WF_vars(Next)

(* ---- Properties ---- *)
RECURSIVE Parts(_)
Parts(e) ==
  {e} \union
  CASE e[1] \in {"not", "isnull", "collate"} -> Parts(e[2])
    [] e[1] = "bin" -> Parts(e[3]) \union Parts(e[4])
    [] e[1] = "between" -> UNION {Parts(e[i]) : i \in 2 .. 4}
    [] e[1] = "in" -> Parts(e[2]) \union UNION {Parts(e[3][i]) : i \in DOMAIN e[3]}
    [] e[1] = "case" -> UNION ({Parts(e[i][1]) : i \in {j \in {2, 4} : e[j] # <<>>}}
                               \union {Parts(e[3][i][1]) \union Parts(e[3][i][2]) : i \in DOMAIN e[3]})
    [] e[1] = "sub" -> Parts(e[2]) \union UNION {Parts(e[3][i]) : i \in DOMAIN e[3]}
    [] e[1] = "agg" -> UNION ({Parts(e[i][1]) : i \in {j \in {3, 5} : e[j] # <<>>}}
                              \union {Parts(e[6][i].e) : i \in DOMAIN e[6]})
    [] OTHER -> {}
AllParts(sel) == UNION {Parts(e) : e \in ToSet(Outputs(sel) \o sel.where \o sel.group)}
\* Where the engines are known to differ: a LIMIT computed to be zero that no
\* instruction tests, BETWEEN with a bound that may be NULL, IS under a
\* collation, a lone extreme under a collation or written twice.
Differs(sel) ==
  \/ /\ sel.limit # <<>> /\ ~LiteralZero(sel.limit) /\ Eval(sel.limit[1], OnRow(<<>>)) = 0
     /\ sel.group = <<>> /\ (sel.order # <<>> \/ sel.from > 1)
  \/ \E e \in AllParts(sel) :
       \/ e[1] = "between" /\ \E i \in {3, 4} : (e[i][1] # "lit" \/ e[i][2] = NULL)
       \/ e[1] = "bin" /\ e[2] = "is" /\ ResolveCollation(e[3], e[4]) # "BINARY"
  \/ /\ AllBare(Outputs(sel)) # <<>>
     /\ \/ \E i \in DOMAIN MinMax(sel) : KeyCollation(MinMax(sel)[i][3][1]) # "BINARY"
        \/ Len(MinMax(sel)) # Len(Uniques(MinMax(sel)))
\* Both engines give the same answer: when the machine stops, the rows it has
\* put out are the tree walker's, in the same order.
EnginesAgree == (m.pc = 0 /\ prog.ok /\ ~Differs(q)) => m.out = Answer(q, SubSeq(db, 1, q.from))
\* Every program halts: no loop of the compiler jumps past its own advance.
Halts == <>(m.pc = 0)
=============================================================================
