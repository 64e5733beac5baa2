------------------------------ MODULE MCAccess ------------------------------
(***************************************************************************)
(* How a SELECT reads its tables.  A behaviour follows one `part':         *)
(*   "scan"  one table of two or three rows, one or two indexes, one or    *)
(*           two WHERE terms, up to two ORDER BY terms                     *)
(*   "join"  joins over two and three small tables                         *)
(***************************************************************************)
EXTENDS Integers, Sequences

VARIABLES part, db, q, planner, pc, plan, path, out, exact, result, columns, rows,
          rest, elided, unforeseen

vars == <<part, db, q, planner, pc, plan, path, out, exact, result, columns, rows,
          rest, elided, unforeseen>>

-----------------------------------------------------------------------------
(* One table. *)

Term(op, c, vals, coll) == [op |-> op, c |-> c, vals |-> vals, coll |-> coll]
Index(cols, colls, descs, partial) ==
  [cols |-> cols, colls |-> colls, descs |-> descs, partial |-> partial, unique |-> FALSE]
Row(i, a, b) == [id |-> i, v |-> <<a, b, i, i>>]
Pair(i, a, b) == [id |-> i, v |-> <<a, b, 0, i>>]
B1 == Term("=", 2, <<1>>, "")

OnA == {Index(<<1>>, <<"BINARY">>, <<FALSE>>, <<>>), Index(<<1>>, <<"NOCASE">>, <<TRUE>>, <<>>), Index(<<1>>, <<"BINARY">>, <<TRUE>>, <<B1>>)}
OnB == {Index(<<2, 1>>, <<"BINARY", "BINARY">>, <<FALSE, TRUE>>, <<>>), Index(<<2, 1>>, <<"BINARY", "NOCASE">>, <<FALSE, FALSE>>, <<>>),
        Index(<<2>>, <<"BINARY">>, <<TRUE>>, <<>>)}
IndexLists == {<<x>> : x \in OnA \union OnB} \union {<<x, y>> : x \in OnB, y \in OnA}
RowTables == { <<Row(1, 17, 1), Row(2, 15, 2), Row(3, 0, 1)>>, <<Row(1, 16, 1), Row(2, 17, 1), Row(3, 15, 1)>>,
                 <<Row(2, 15, 1), Row(3, 17, 0)>> }
Keyed == { <<Pair(1, 15, 1), Pair(2, 18, 2)>>, <<Pair(1, 17, 2), Pair(2, 16, 1), Pair(3, 12, 1)>> }
Table(c, r, xs) == [coll |-> c, wr |-> FALSE, pk |-> <<>>, pkdesc |-> FALSE, rows |-> r, indexes |-> xs]
ScanDatabases ==
  {Table(c, r, xs) : c \in {"BINARY", "NOCASE"}, r \in RowTables, xs \in {y \in IndexLists : Len(y) = 1}}
  \union {Table(c, r, xs) : c \in {"BINARY", "NOCASE"}, r \in {CHOOSE t \in RowTables : Len(t) = 3}, xs \in IndexLists}
  \union {Table("BINARY", r, <<[x EXCEPT !.unique = TRUE]>>) :
            r \in {<<Row(1, 16, 2), Row(2, 17, 1)>>}, x \in {y \in OnA \union OnB : y.partial = <<>>}}
  \union {[coll |-> c, wr |-> TRUE, pk |-> k, pkdesc |-> d, rows |-> r, indexes |-> <<x>>] :
      c \in {"BINARY", "NOCASE"}, d \in BOOLEAN, k \in {<<1>>, <<2, 1>>}, r \in Keyed, x \in
      {Index(<<2>>, <<"BINARY">>, <<TRUE>>, <<>>), Index(<<1>>, <<"BINARY">>, <<FALSE>>, <<>>)}}

Terms == { Term("=", 1, <<17>>, ""), Term("=", 1, <<15>>, "NOCASE"), Term("is", 1, <<17>>, ""), Term("=", 1, <<0>>, ""),
             Term("null", 1, <<>>, ""), Term("notnull", 1, <<>>, ""), Term("<", 1, <<17>>, ""), Term(">=", 1, <<16>>, "NOCASE"),
             Term("between", 1, <<15, 17>>, ""), Term("in", 1, <<17, 15>>, ""), Term("in", 1, <<18, 0>>, ""),
             B1, Term("=", 2, <<11>>, ""), Term(">", 2, <<1>>, ""), Term("<=", 2, <<11>>, ""), Term("notnull", 2, <<>>, ""),
             Term("=", 3, <<12>>, ""), Term("is", 3, <<2>>, ""), Term(">", 3, <<11>>, ""), Term("<=", 3, <<2>>, ""),
             Term(">", 0, <<1>>, ""), Term("=", 0, <<2>>, ""), Term("in", 3, <<3, 11, 2>>, "") }
Few == {t \in Terms : t.c # 0 /\ t.op \notin {"notnull", "between", "is"} /\ (t.c = 3 => t.op \in {">", "<="})}
Pairs == {<<t, u>> \in Few \X Few : t.c < u.c \/ (t.c = u.c /\ t.c = 1 /\ t.op # u.op)}
Bodies == {[terms |-> <<t>>, alt |-> <<>>] : t \in Terms}
  \union {[terms |-> p, alt |-> <<>>] : p \in Pairs}
  \union {[terms |-> <<>>, alt |-> p] : p \in Pairs}
  \union {[terms |-> <<>>, alt |-> <<>>]}
Asc(c) == [c |-> c, desc |-> FALSE, nulls |-> "", coll |-> ""]
Desc(c) == [Asc(c) EXCEPT !.desc = TRUE]
Orders == {<<Asc(1)>>, <<Desc(2)>>, <<Desc(3)>>, <<Asc(2), Desc(1)>>, <<Asc(1), Asc(3)>>, <<Asc(2), Asc(1)>>,
             <<Desc(1), Asc(2)>>, <<Asc(4)>>, <<[Asc(1) EXCEPT !.nulls = "last"]>>, <<[Asc(1) EXCEPT !.coll = "NOCASE"]>>}
Query(b, h, cs, o) == [terms |-> b.terms, alt |-> b.alt, hint |-> h, cols |-> cs, order |-> o]
ScanQueries == {Query(b, h, cs, <<>>) : b \in Bodies, h \in {0, 1}, cs \in {{2}, {1, 4}}}
  \union {Query([terms |-> <<t>>, alt |-> <<>>], -1, {1, 4}, <<>>) : t \in Terms}
  \union {Query([terms |-> <<B1, t>>, alt |-> <<>>], 0, {1, 4}, o) : t \in {Term("<", 1, <<17>>, ""), Term("in", 0, <<3, 1>>, "")}, o \in Orders}
  \union {Query(b, 0, cs, o) : b \in {c \in Bodies : Len(c.terms) < 2 /\ Len(c.alt) < 2}, cs \in {{2}, {1, 4}}, o \in Orders}

-----------------------------------------------------------------------------
(* Joins. *)

Col(name, aff, coll) == [name |-> name, aff |-> aff, coll |-> coll]
Ids == Col("id", "INTEGER", "BINARY")
Xs == {Col("x", "INTEGER", "BINARY"), Col("x", "TEXT", "BINARY"), Col("x", "TEXT", "NOCASE"), Col("x", "BLOB", "BINARY")}
JoinIndex(cols, coll, unique) == [cols |-> cols, colls |-> [i \in DOMAIN cols |-> coll], unique |-> unique]
Indexed == {<<>>, <<JoinIndex(<<2>>, "BINARY", FALSE)>>, <<JoinIndex(<<2>>, "NOCASE", FALSE)>>, <<JoinIndex(<<2, 1>>, "BINARY", FALSE)>>}
\* What an affinity stores: texts of digits and integers turn into each other.
Stored(aff, vs) == 
  [i \in DOMAIN vs |-> CASE aff = "INTEGER" /\ vs[i] \in 10 .. 13 -> IF vs[i] = 10 THEN 1 ELSE vs[i] - 10
                         [] aff = "TEXT" /\ vs[i] \in 1 .. 3 -> vs[i] + 10
                         [] OTHER -> vs[i]]
\* A rowid table (id INTEGER PRIMARY KEY, x) and a WITHOUT ROWID table (x PRIMARY KEY, id).
Rowid(x, vs, indexes) ==
  [cols |-> <<Ids, x>>, ipk |-> 1, wr |-> FALSE, indexes |-> indexes,
   rows |-> [i \in DOMAIN vs |-> <<i, Stored(x.aff, vs)[i]>>]]
Clustered(x, vs) ==
  [cols |-> <<x, Ids>>, ipk |-> 0, wr |-> TRUE, indexes |-> <<>>,
   rows |-> [i \in DOMAIN vs |-> <<Stored(x.aff, vs)[i], i>>]]
Pool1 == <<17, 11, 0, 2>>
Pool2 == {<<11, 15, 17>>, <<2, 10, 2, 0>>}
Second(x) == {Rowid(x, vs, ix) : vs \in Pool2, ix \in Indexed}
               \union {Clustered(x, <<11, 17>>)}
               \union {Rowid(x, <<2, 15>>, <<JoinIndex(<<2>>, "BINARY", TRUE)>>)}
TwoTables == {<<Rowid(x, Pool1, ix), s>> : x \in Xs, ix \in {<<>>, <<JoinIndex(<<2>>, "BINARY", FALSE)>>},
                                           s \in UNION {Second(y) : y \in Xs}}
Num == Col("x", "INTEGER", "BINARY")
Txt == Col("x", "TEXT", "BINARY")
ThreeTables ==
  {<<Rowid(Num, <<2, 1>>, ix1), Rowid(Txt, <<11, 12>>, ix2), t3>> :
     ix1 \in {<<>>, <<JoinIndex(<<2>>, "BINARY", TRUE)>>}, ix2 \in {<<>>, <<JoinIndex(<<2>>, "BINARY", FALSE)>>},
     t3 \in {Rowid(Num, <<1, 2, 2>>, <<>>), Rowid(Txt, <<12, 0>>, <<JoinIndex(<<2>>, "BINARY", TRUE)>>), Clustered(Txt, <<11, 12>>)}}
JoinDatabases == TwoTables \union ThreeTables

Join(t, kind, on) == [t |-> t, kind |-> kind, on |-> on, using |-> <<>>, natural |-> FALSE]
Kinds == {"inner", "left", "right", "full"}
JoinQuery(joins, eqs, pins, order) == [joins |-> joins, eqs |-> eqs, pins |-> pins, order |-> order]
E(a, b, c, d) == <<<<a, b>>, <<c, d>>>>
Ons == {<<E(1, 1, 2, 1)>>, <<E(1, 2, 2, 2)>>, <<E(2, 2, 1, 2)>>, <<E(2, 2, 1, 1)>>, <<E(1, 2, 2, 1)>>,
        <<E(1, 1, 2, 1), E(1, 2, 2, 2)>>}
Pin == <<[ref |-> <<1, 1>>, v |-> 4]>>
AscOf(t, c) == [ref |-> <<t, c>>, desc |-> FALSE]
Two == {JoinQuery(<<Join(2, k, on)>>, <<>>, p, <<>>) : k \in Kinds, on \in Ons, p \in {<<>>, Pin}}
         \union {JoinQuery(<<Join(2, "inner", on)>>, <<>>, Pin, o) : on \in Ons \union {<<>>}, o \in {<<AscOf(1, 2), AscOf(2, 1)>>, <<AscOf(2, 2), AscOf(2, 1)>>}}
         \union {JoinQuery(<<Join(2, "inner", <<>>)>>, on, <<>>, <<>>) : on \in Ons}
         \union {JoinQuery(<<[Join(2, k, <<>>) EXCEPT !.using = <<"x">>]>>, <<>>, <<>>, <<>>) : k \in Kinds}
         \union {JoinQuery(<<[Join(2, k, <<>>) EXCEPT !.natural = TRUE]>>, <<>>, <<>>, <<>>) : k \in Kinds}
Three == {JoinQuery(<<Join(2, j, a), Join(3, k, b)>>, <<>>, <<>>, <<>>) :
            j \in {"inner", "left"}, k \in {"inner", "left", "full"},
            a \in {<<E(1, 1, 2, 1)>>, <<E(1, 2, 2, 2)>>, <<E(2, 1, 1, 2)>>},
            b \in {<<E(1, 1, 3, 2)>>, <<E(2, 2, 3, 1)>>, <<E(3, 2, 2, 1)>>, <<E(1, 1, 2, 1)>>}}
JoinQueries == Two \union Three

-----------------------------------------------------------------------------
Sc == INSTANCE ScanSource WITH Databases <- ScanDatabases, Queries <- ScanQueries
Jn == INSTANCE Joins WITH Databases <- JoinDatabases, Queries <- JoinQueries

MCInit ==
  \/ part = "scan" /\ Sc!Init /\ columns = 0 /\ rows = 0 /\ rest = 0 /\ elided = 0
       /\ unforeseen = 0
  \/ part = "join" /\ Jn!Init /\ plan = 0 /\ path = 0 /\ out = 0 /\ exact = 0
       /\ result = 0

MCNext ==
  /\ UNCHANGED part
  /\ \/ part = "scan" /\ Sc!Next
        /\ UNCHANGED <<columns, rows, rest, elided, unforeseen>>
     \/ part = "join" /\ Jn!Next
        /\ UNCHANGED <<plan, path, out, exact, result>>

MCSpec == MCInit /\ [][MCNext]_vars

-----------------------------------------------------------------------------
\* The answer is that of a full scan, whatever index was read: no row the WHERE clause
\* accepts is missing and none comes twice (scan_source's paths return a superset,
\* run_core filters it).  ScanSource sets apart the seeks that compare otherwise than the
\* WHERE clause.
PathKeepsAnswer == part = "scan" => Sc!PathKeepsAnswer

\* An answer that was not sorted is in ORDER BY order all the same: what
\* order_satisfied_by_scan concludes from the query agrees with the path that scan_source
\* takes, but for the paths it does not foresee.
SortElisionSound == part = "scan" => Sc!SortElisionSound

\* Whichever engine runs, whichever tables it seeks and in whichever order, a join returns
\* the rows of the nested loop, each as often, with the columns in the declared order
\* (fold_joins_rowid, ntable_join_order, the swaps, the hash join and run_select_vdbe);
\* and where the sort was skipped the rows are in the ORDER BY order.
JoinIsNestedLoop == part = "join" => Jn!JoinIsNestedLoop

=============================================================================
