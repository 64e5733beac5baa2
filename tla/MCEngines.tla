----------------------------- MODULE MCEngines ------------------------------
(***************************************************************************)
(* What evaluates a SELECT once its rows are there.  A behaviour follows   *)
(* one `part':                                                             *)
(*   "vdbe"     the compiler and its machine, on t(a INTEGER, b TEXT       *)
(*              COLLATE NOCASE) and u(c BLOB): WHERE, DISTINCT, ORDER BY,  *)
(*              LIMIT and OFFSET over none, one or both tables, and        *)
(*              aggregates with GROUP BY and HAVING                        *)
(*   "windows"  tables of up to five rows with ties, NULLs and keys equal  *)
(*              under NOCASE; every kind of frame, bound and exclusion,    *)
(*              and every window function                                  *)
(*   "ctes"     up to three CTEs that name each other, a table, a view,    *)
(*              the outer query's b and an unknown u; recursions over a    *)
(*              path, a tree, a diamond and a cycle; compounds of three    *)
(*              operands                                                   *)
(***************************************************************************)
EXTENDS Vdbe

-----------------------------------------------------------------------------
(* The compiled engine. *)

VdbeColumns == <<[aff |-> "INTEGER", coll |-> "BINARY"], [aff |-> "TEXT", coll |-> "NOCASE"], [aff |-> "BLOB", coll |-> "BINARY"]>>
VdbeWidths == <<2, 1>>
VdbeDatabases ==
  {<<<<>>, <<<<1>>>>>>,
   <<<<<<1, 161>>, <<2, 151>>, <<1, NULL>>>>, <<<<101>>, <<161>>>>>>,
   <<<<<<NULL, 152>>, <<0, 162>>, <<2, 161>>, <<2, 101>>>>, <<<<NULL>>, <<2>>>>>>}

Lit(v) == <<"lit", v>>
A == <<"col", 1>>
B == <<"col", 2>>
C == <<"col", 3>>
Op2(op, l, r) == <<"bin", op, l, r>>
NoCase(e) == <<"collate", e, "NOCASE">>
Agg(kind, e) == <<"agg", kind, <<e>>, FALSE, <<>>, <<>>>>
Output(e) == [e |-> e, label |-> IF e[1] = "col" THEN e[2] ELSE 0]
Asc(e) == [e |-> e, desc |-> FALSE]
Desc(e) == [e |-> e, desc |-> TRUE]

\* One expression of each kind, with the operands that tell the cases apart.
Expressions ==
  {Op2("+", A, B), Op2("and", A, Op2("<", B, Lit(162))), Op2("or", <<"isnull", B, FALSE>>, A), Op2("=", B, C), Op2("=", A, Lit(101)),
   Op2("is", A, C), Op2("is", B, Lit(161)), Op2("<=", NoCase(C), B), <<"not", Op2(">=", A, Lit(1))>>,
   <<"between", A, Lit(101), Lit(102), FALSE>>, <<"between", B, Lit(151), Lit(161), TRUE>>, <<"between", A, Lit(NULL), Lit(5), FALSE>>,
   <<"in", B, <<Lit(1), Lit(151), Lit(NULL)>>, FALSE>>, <<"in", A, <<Lit(102)>>, TRUE>>, <<"in", C, <<NoCase(B)>>, FALSE>>, <<"in", A, <<>>, TRUE>>,
   <<"case", <<B>>, <<<<Lit(151), Lit(1)>>, <<Lit(162), A>>>>, <<Lit(9)>>>>,
   <<"case", <<>>, <<<<A, B>>>>, <<>>>>,
   <<"sub", A, <<Op2("<", A, Lit(2))>>>>, <<"isnull", A, TRUE>>}
OfT(e) == C \notin Parts(e)
Query(from, cols, where, group, having, distinct, order, limit, offset) ==
  [from |-> from, cols |-> cols, where |-> where, group |-> group, having |-> having, distinct |-> distinct,
   order |-> order, limit |-> limit, offset |-> offset]
Zero == Op2("+", Lit(1), Lit(-1))
Sub(v) == <<"sub", Lit(v), <<>>>>
Limits == {<<<<>>, <<>>>>, <<<<Lit(0)>>, <<>>>>, <<<<Zero>>, <<>>>>, <<<<Lit(2)>>, <<Lit(1)>>>>, <<<<Sub(1)>>, <<>>>>, <<<<Lit(-1)>>, <<Sub(2)>>>>}

Constant == {Query(0, <<Output(e)>>, w, <<>>, <<>>, FALSE, <<>>, l[1], l[2]) :
               e \in {Op2("+", Lit(1), Lit(102)), <<"in", Lit(1), <<Lit(101)>>, FALSE>>}, w \in {<<>>, <<Op2("<", Lit(2), Lit(1))>>}, l \in Limits}
Evaluated == {Query(2, <<Output(e)>>, <<>>, <<>>, <<>>, FALSE, <<>>, <<>>, <<>>) : e \in Expressions}
Filtered == {Query(1, <<Output(B)>>, <<e>>, <<>>, <<>>, FALSE, <<>>, <<>>, <<>>) : e \in {x \in Expressions : OfT(x)}}
Orders == {<<>>, <<Desc(B)>>, <<Asc(Lit(1)), Desc(A)>>, <<Desc(NoCase(Op2("+", A, Lit(1))))>>, <<Asc(<<"collate", B, "BINARY">>)>>}
Clauses == {Query(n, <<Output(e), Output(A)>>, w, <<>>, <<>>, d, o, l[1], l[2]) :
              n \in 1 .. 2, e \in {B}, w \in {<<>>, <<Op2("<", A, Lit(2))>>}, d \in BOOLEAN, o \in Orders, l \in Limits}
Aggregates == {<<"agg", "count(*)", <<>>, FALSE, <<>>, <<>>>>, Agg("count", B), Agg("sum", A), Agg("max", A), Agg("min", B),
               <<"agg", "count", <<B>>, TRUE, <<>>, <<>>>>, <<"agg", "sum", <<B>>, FALSE, <<Op2("<", A, Lit(2))>>, <<>>>>,
               <<"agg", "group_concat", <<B>>, FALSE, <<>>, <<Desc(A), Asc(B)>>>>}
Totals == {Query(n, <<Output(e)>>, w, <<>>, h, FALSE, <<>>, <<>>, <<>>) :
             n \in 1 .. 2, e \in Aggregates \union {Op2("+", Agg("max", A), Agg("count", B))},
             w \in {<<>>, <<Op2("<", A, Lit(2))>>}, h \in {<<>>, <<Op2("<", Lit(1), Agg("count", A))>>}}
Keys == {<<A>>, <<B>>, <<B, A>>, <<Op2("+", A, Lit(1))>>, <<Op2("+", Lit(1), Lit(1))>>}
Grouped == {Query(n, IF bare = <<>> THEN <<Output(e)>> ELSE <<Output(e), Output(bare[1])>>, <<>>, k, h, d, o, <<>>, <<>>) :
              n \in 1 .. 2, e \in Aggregates, bare \in {<<>>, <<B>>}, k \in Keys, d \in BOOLEAN,
              h \in {<<>>, <<Op2("<", Lit(1), Agg("sum", A))>>}, o \in {<<>>, <<Desc(Lit(1))>>, <<Asc(B)>>}}
Paged == {Query(n, <<Output(k[1]), Output(Agg("max", A))>>, <<>>, k, <<>>, FALSE, o, l[1], l[2]) :
            n \in 1 .. 2, k \in Keys, o \in {<<>>, <<Desc(Lit(2))>>}, l \in Limits}
VdbeQueries == Constant \union Evaluated \union Filtered \union Clauses \union Totals \union Grouped \union Paged

-----------------------------------------------------------------------------
(* Window functions. *)

Tuple(p, o, a, id) == [p |-> p, o |-> o, a |-> a, rowid |-> id]
Sources ==
  {<<>>,
   <<Tuple(1, 5, 3, 1)>>,
   <<Tuple(151, 1, 1, 1), Tuple(161, 2, 2, 2), Tuple(151, 2, 0, 4), Tuple(152, 5, 4, 5)>>,
   <<Tuple(1, 3, 1, 1), Tuple(1, 1, NULL, 2), Tuple(1, NULL, 2, 3), Tuple(1, 1, 3, 4), Tuple(1, 2, 5, 5)>>,
   <<Tuple(1, NULL, 1, 1), Tuple(NULL, 2, 2, 2), Tuple(1, NULL, 0, 3), Tuple(NULL, 161, 4, 4), Tuple(1, 2, 6, 7)>>}
By(col, desc, nf) == [col |-> col, desc |-> desc, nf |-> nf, coll |-> "BINARY"]
WindowOrders == {<<>>, <<By("o", FALSE, TRUE)>>, <<By("o", TRUE, FALSE)>>, <<By("o", FALSE, FALSE)>>, <<By("o", TRUE, TRUE), By("a", FALSE, TRUE)>>}
Bounds == {<<"up">>, <<"p", 0>>, <<"p", 1>>, <<"p", 2>>, <<"c">>, <<"f", 1>>, <<"f", 2>>, <<"uf">>}
BoundRank(b) == CASE b[1] = "up" -> 0 [] b[1] = "p" -> 1 [] b[1] = "c" -> 2 [] b[1] = "f" -> 3 [] b[1] = "uf" -> 4
AllFrames == {[mode |-> u, start |-> s, end |-> e] : u \in {"rows", "range", "groups"}, s \in Bounds \ {<<"uf">>}, e \in Bounds \ {<<"up">>}}
Legal == {f \in AllFrames : BoundRank(f.start) <= BoundRank(f.end)}
Call(fn, n, part, order, frame, exclude, filter) ==
  [fn |-> fn, n |-> n, part |-> part, order |-> order, frame |-> frame, exclude |-> exclude, filter |-> filter]
Framing == {Call("group_concat", 0, p, o, <<f>>, "no others", FALSE) : p \in {TRUE}, o \in WindowOrders, f \in Legal}
Excluding == {Call("group_concat", 0, FALSE, <<By("o", FALSE, TRUE)>>, <<f>>, x, TRUE) :
                f \in {g \in Legal : g.start \in {<<"up">>, <<"p", 1>>}}, x \in {"current row", "group", "ties"}}
Functions == {Call(fn, n, p, o, <<>>, "no others", FALSE) :
                fn \in {"row_number", "rank", "dense_rank", "percent_rank", "cume_dist", "ntile", "lag", "lead", "first_value", "last_value", "nth_value"}
                        \union {"count(*)", "count", "sum", "min", "max", "group_concat"},
                n \in 0 .. 3, p \in BOOLEAN, o \in WindowOrders}
WindowSelect(calls, from, grouped, having, order) == [calls |-> calls, from |-> from, grouped |-> grouped, having |-> having, order |-> order]
ByRowid == Call("sum", 0, FALSE, <<By("rowid", TRUE, FALSE)>>, <<>>, "no others", FALSE)
RunningSum == Call("sum", 0, TRUE, <<By("a", FALSE, TRUE)>>, <<>>, "no others", FALSE)
WindowSelects ==
  {WindowSelect(<<c>>, "table", FALSE, FALSE, <<>>) : c \in Framing \union Excluding \union Functions}
  \union {WindowSelect(cs, f, g, h, o) : cs \in {<<ByRowid>>, <<RunningSum, ByRowid>>, <<Call("rank", 0, FALSE, <<By("a", TRUE, TRUE)>>, <<>>, "no others", FALSE), RunningSum>>},
            f \in {"table", "derived", "qualified"}, g \in BOOLEAN, h \in BOOLEAN, o \in {<<>>, <<By("a", TRUE, FALSE)>>}}

-----------------------------------------------------------------------------
(* WITH and compounds. *)

CteTables == [t |-> <<1, 151>>]
CteViews == [v |-> [from |-> <<"t">>, rows |-> <<2>>]]
Outers == {<<>>, <<[name |-> "b", rows |-> <<7>>]>>}
Core(from, rows) == [from |-> from, rows |-> rows]
OneCte(name, from, rows) == [name |-> name, nested |-> <<>>, body |-> Core(from, rows), rec |-> <<>>]
With(ctes, arms, coll, ord, limit, offset) ==
  [ctes |-> ctes, arms |-> arms, coll |-> coll, order |-> ord, limit |-> limit, offset |-> offset]
Operand(op, body) == [op |-> op, body |-> body]
Alone(body) == <<Operand("", body)>>
CteFroms == {<<>>, <<"t">>, <<"a">>, <<"b", "a">>, <<"c">>, <<"b">>, <<"u">>, <<"v", "c">>}
NamedCtes == {With(<<OneCte("a", fa, <<1>>), OneCte("b", fb, <<3>>), OneCte(nc, fc, <<5>>)>>, Alone(Core(seed, <<>>)), "BINARY", <<>>, <<>>, <<>>) :
            fa \in CteFroms \ {<<"a">>, <<"b", "a">>}, fb \in CteFroms \ {<<"b">>, <<"b", "a">>}, fc \in CteFroms \ {<<"c">>, <<"v", "c">>}, nc \in {"c", "a"},
            seed \in {<<"a">>, <<"b", "a">>, <<"c", "b">>, <<"t">>}}
NestedWith == {With(<<[name |-> "a", nested |-> <<[name |-> n, body |-> Core(f, <<4>>)]>>, body |-> Core(<<n>>, <<>>), rec |-> <<>>], OneCte("b", <<>>, <<3>>)>>,
             Alone(Core(<<"a">>, <<>>)), "BINARY", <<>>, <<>>, <<>>) : n \in {"b", "d"}, f \in {<<"t">>, <<"b">>, <<"u">>}}
          \union {With(<<OneCte("t", <<>>, <<9>>)>>, Alone(Core(<<"v">>, <<>>)), "BINARY", <<>>, <<>>, <<>>)}

PathSteps == [x \in 1 .. 6 |-> IF x < 4 THEN <<x + 1>> ELSE <<>>]
TreeSteps == [x \in 1 .. 6 |-> IF x < 3 THEN <<2 * x, 2 * x + 1>> ELSE <<>>]
DiamondSteps == [x \in 1 .. 6 |-> CASE x = 1 -> <<3, 2>> [] x \in {2, 3} -> <<4>> [] OTHER -> <<>>]
CycleSteps == [x \in 1 .. 6 |-> <<(x % 3) + 1>>]
Recursion(steps, distinct, ord, limit, offset) == <<[steps |-> steps, distinct |-> distinct, order |-> ord, limit |-> limit, offset |-> offset]>>
Descending == <<[desc |-> TRUE, coll |-> "BINARY"]>>
Recursions == {With(<<[name |-> "a", nested |-> <<>>, body |-> Core(f, rows), rec |-> Recursion(sd[1], sd[2], o, l[1], l[2])]>>, Alone(Core(<<"a">>, <<>>)), "BINARY", <<>>, p[1], p[2]) :
                f \in {<<>>}, rows \in {<<1>>, <<2, 1, 2>>, <<>>}, sd \in ({<<PathSteps>>, <<TreeSteps>>, <<DiamondSteps>>, <<CycleSteps>>} \X BOOLEAN) \union {<<<<CycleSteps, PathSteps>>, TRUE>>},
                o \in {<<>>, Descending}, l \in {<<<<>>, <<>>>>, <<<<3>>, <<1>>>>, <<<<-1>>, <<2>>>>, <<<<0>>, <<>>>>},
                p \in {<<<<>>, <<>>>>, <<<<2>>, <<1>>>>}}
SetOps == {"union all", "union", "intersect", "except"}
SomeRows == {<<161, 151, 2>>, <<2, NULL, 2>>, <<>>}
Compounds == {With(<<>>, <<Operand("", Core(<<>>, r1)), Operand(o1, Core(<<>>, r2)), Operand(o2, Core(<<"t">>, <<>>))>>, c, ord, p[1], p[2]) :
                r1 \in SomeRows, r2 \in SomeRows, o1 \in SetOps, o2 \in SetOps, c \in {"BINARY", "NOCASE"},
                ord \in {<<>>, <<[desc |-> TRUE, coll |-> "NOCASE"]>>}, p \in {<<<<>>, <<>>>>, <<<<2>>, <<1>>>>}}
\* A table nobody defines, in the query and in the anchor of a recursion.
Unknown == {With(<<>>, Alone(Core(<<"u">>, <<>>)), "BINARY", <<>>, <<>>, <<>>),
            With(<<[name |-> "a", nested |-> <<>>, body |-> Core(<<"u">>, <<>>), rec |-> Recursion(<<PathSteps>>, TRUE, <<>>, <<>>, <<>>)]>>,
                 Alone(Core(<<"a">>, <<>>)), "BINARY", <<>>, <<>>, <<>>)}
CteSelects == NamedCtes \union NestedWith \union Recursions \union Compounds \union Unknown

-----------------------------------------------------------------------------
VARIABLES part, source, sel, engine, pc, rows, parts, k, cols, out, base, env, stack,
          color, order, rec, next, result, twice

mcVars == <<part, db, q, prog, m, source, sel, engine, pc, rows, parts, k, cols, out,
          base, env, stack, color, order, rec, next, result, twice>>

Win == INSTANCE Windows WITH Selects <- WindowSelects, PartCollation <- "NOCASE"
Cte == INSTANCE Ctes WITH Tables <- CteTables, Views <- CteViews,
       Selects <- CteSelects, Guard <- 11

\* Outside its own part the machine has halted.
MCInit ==
  \/ part = "vdbe" /\ Init /\ source = 0 /\ sel = 0 /\ engine = 0 /\ pc = 0
       /\ rows = 0 /\ parts = 0 /\ k = 0 /\ cols = 0 /\ out = 0 /\ base = 0 /\ env = 0
       /\ stack = 0 /\ color = 0 /\ order = 0 /\ rec = 0 /\ next = 0 /\ result = 0
       /\ twice = 0
  \/ part = "windows" /\ Win!Init /\ db = 0 /\ q = 0 /\ prog = [ok |-> FALSE]
       /\ m = [pc |-> 0] /\ base = 0 /\ env = 0 /\ stack = 0 /\ color = 0 /\ order = 0
       /\ rec = 0 /\ next = 0 /\ result = 0 /\ twice = 0
  \/ part = "ctes" /\ Cte!Init /\ db = 0 /\ q = 0 /\ prog = [ok |-> FALSE]
       /\ m = [pc |-> 0] /\ source = 0 /\ engine = 0 /\ rows = 0 /\ parts = 0 /\ k = 0
       /\ cols = 0 /\ out = 0

\* An instruction of the machine.
Compiled == part = "vdbe" /\ Next
            /\ UNCHANGED <<part, source, sel, engine, pc, rows, parts, k, cols, out, base, env, stack,
                      color, order, rec, next, result, twice>>

MCNext ==
  /\ UNCHANGED part
  /\ \/ Compiled
     \/ part = "windows" /\ Win!Next
        /\ UNCHANGED <<db, q, prog, m, base, env, stack, color, order, rec, next, result, twice>>
     \/ part = "ctes" /\ Cte!Next
        /\ UNCHANGED <<db, q, prog, m, source, engine, rows, parts, k, cols, out>>

\* A program runs to its end inside one call.
MCSpec == MCInit /\ [][MCNext]_mcVars /\ WF_mcVars(Compiled)

-----------------------------------------------------------------------------
\* Every window function gives each row the value its definition gives: over the rows of
\* its partition that lie between the frame's bounds in the window's order, whatever path
\* partitioned, sorted and bounded them (compute_window, fill_window_partition,
\* frame_bounds).
WindowsByDefinition == part = "windows" => Win!WindowsByDefinition

\* A query with a WITH clause gives the answer its definition gives, whatever order the
\* CTEs are materialised in and whichever of them are left out because nothing uses them
\* (with_ctes); and a recursion takes its rows from the queue one by one, in the order of
\* its ORDER BY (recursive_cte).
WithAnswers == part = "ctes" => Cte!WithAnswers /\ Cte!RecursionIsQueue

=============================================================================
