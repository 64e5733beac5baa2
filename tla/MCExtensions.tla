---------------------------- MODULE MCExtensions ----------------------------
(***************************************************************************)
(* The virtual tables and the interfaces around the engine.  A behaviour   *)
(* follows one `part':                                                     *)
(*   "session"  two databases of two rows, two recorded writes each, and   *)
(*              the changesets between them                                *)
(*   "segment"  one FTS5 segment of up to three terms, written to pages of *)
(*              16 or 19 bytes and read back                               *)
(*   "fts5"     an FTS5 table of two columns and three documents, four     *)
(*              statements in and out of a transaction, a full-text query  *)
(*              after every one                                            *)
(*   "capi"     two statement handles, a blob handle and a backup on one   *)
(*              connection, five calls                                     *)
(*   "rtree"    an R-tree of up to five rows, two to a node, on a short    *)
(*              line (rtree, rtree_i32) or a small grid (geopoly), three   *)
(*              statements                                                 *)
(*   "series"   series and generate_series with every kind of bound, near  *)
(*              the ends of the integers                                   *)
(***************************************************************************)
EXTENDS Fts5

CONSTANT Parts  \* the parts to follow

-----------------------------------------------------------------------------
(* Sessions. *)

SessionRow(k, a, b) == [k |-> k, a |-> a, b |-> b]
SessionBases == {<<>>, 1 :> SessionRow(1, 1, 0), (1 :> SessionRow(1, 1, 1)) @@ (2 :> SessionRow(2, 0, 1))}
SessionHandlers == {[data |-> d, notfound |-> "omit", conflict |-> c, constraint |-> "omit"] :
                 d \in {"omit", "replace"}, c \in {"omit", "replace"}}

-----------------------------------------------------------------------------
(* FTS5 segments. *)

(* Shapes of a posting: one position, a long list, a second column, a      *)
(* delete marker, a delete marker with content.                            *)
Shapes == { [cols |-> << <<3>>, <<>> >>, del |-> FALSE],
            [cols |-> << <<0, 1, 4, 5, 6, 9, 12, 13, 20, 21, 22>>, <<>> >>, del |-> FALSE],
            [cols |-> << <<>>, <<2, 3>> >>, del |-> FALSE],
            [cols |-> << <<>>, <<>> >>, del |-> TRUE],
            [cols |-> << <<1>>, <<5>> >>, del |-> TRUE] }

Posts(l, shape) ==
    [i \in 1..l |-> [rowid |-> 2 * i - 1, cols |-> shape.cols, del |-> shape.del]]

TermLists ==
    {<<>>}
    \cup { << [term |-> <<97>>, posts |-> Posts(l, s)] >> : l \in {1, 4, 9}, s \in Shapes }
    \cup { << [term |-> <<97>>, posts |-> Posts(m, s)],
              [term |-> <<97, 98, 99>>, posts |-> Posts(l, t)],
              [term |-> <<98>>, posts |-> Posts(1, s)] >> :
                 m \in {1, 4}, l \in {2, 5}, s \in Shapes, t \in Shapes }

Pages == {16, 19}

SegmentInputs ==
    { [terms |-> ts, prefixes |-> px, merge |-> m, detail |-> d, pgsz |-> z] :
        ts \in TermLists, px \in {<<>>, <<1>>}, m \in BOOLEAN,
        d \in {"full", "columns", "none"}, z \in Pages }

-----------------------------------------------------------------------------
(* FTS5 tables. *)

DocA  == << <<"a">>, <<"ab">> >>
DocAB == << <<"a", "b", "a">>, <<>> >>
DocC  == << <<>>, <<"c">> >>
DocE  == << <<>>, <<>> >>

Ins(rows) == [op |-> "insert", rows |-> rows, replace |-> FALSE]
Rep(rows) == [op |-> "insert", rows |-> rows, replace |-> TRUE]
Upd(rs, d) == [op |-> "update", where |-> rs, doc |-> d]
Del(rs) == [op |-> "delete", where |-> rs]

FtsStatements ==
    { Ins(<< <<1, DocA>> >>), Ins(<< <<2, DocAB>> >>), Ins(<< <<3, DocE>> >>),
      Ins(<< <<2, DocC>>, <<3, DocA>> >>), Ins(<< <<3, DocAB>>, <<1, DocC>> >>),
      Rep(<< <<1, DocAB>>, <<2, DocC>> >>),
      Upd({1}, DocAB), Upd({1, 2, 3}, DocA), Upd({2, 3}, DocC), Upd({3}, DocE),
      Del({1}), Del({1, 2, 3}), [op |-> "rebuild"] }

FtsColumns == <<"x", "y">>
FtsTermOrder == <<"a", "ab", "b", "c">>
FtsStem == [t \in {"a", "as", "ab", "b", "c"} |-> IF t = "as" THEN "a" ELSE t]
FtsExtends == [t \in {"a", "as", "ab", "b", "c"} |->
                 IF t \in {"a", "as"} THEN {"a", "ab"} ELSE {t}]

Word(t) == [item |-> "word", col |-> <<>>, caret |-> FALSE, star |-> FALSE, raw |-> "", text |-> <<t>>]
Operator(o) == [item |-> "word", col |-> <<>>, caret |-> FALSE, star |-> FALSE, raw |-> o, text |-> <<"c">>]
InCol(it, c) == [it EXCEPT !.col = <<c>>]
Star(t) == [Word(t) EXCEPT !.star = TRUE]
Quoted(ts) == [item |-> "quoted", col |-> <<>>, caret |-> FALSE, text |-> ts]
Near(items, d) == [item |-> "near", inside |-> items, dist |-> d]
Braces(names, neg) == [item |-> "braces", names |-> names, negated |-> neg, colon |-> TRUE]
Minus(c) == [item |-> "minus", name |-> c]
Open == [item |-> "("]
Close == [item |-> ")"]

FtsQueries ==
    { <<Word("as")>>, <<InCol(Word("ab"), "y")>>, <<[Word("a") EXCEPT !.caret = TRUE]>>,
      <<Star("as")>>, <<InCol(Star("a"), "y")>>,
      <<Quoted(<<"a", "b", "a">>)>>, <<InCol(Quoted(<<"b", "a">>), "x")>>, <<Quoted(<<>>), Word("c")>>,
      <<Near(<<Word("a"), Word("ab")>>, <<0>>)>>, <<Near(<<Word("b"), Word("a")>>, <<0>>)>>,
      <<Near(<<Quoted(<<"a", "b">>), Word("a"), Word("b")>>, <<>>)>>,
      <<Word("a"), Operator("OR"), Word("b"), Operator("NOT"), Word("c")>>, <<Word("a"), Word("b")>>,
      <<Word("a"), Operator("AND"), Open, Word("b"), Operator("OR"), Word("ab"), Close>>,
      <<Minus("y"), Open, Word("a"), Operator("OR"), Word("c"), Close>>,
      <<Braces({"x", "y"}, TRUE), Word("a")>>, <<InCol(Word("a"), "z")>>, <<Operator("OR")>>,
      <<Braces({"x"}, FALSE), Braces({"y"}, FALSE), Word("a")>>,
      <<Near(<<Word("a"), Word("a")>>, <<8>>)>> }

MatchOf(q, o) == [where |-> "match", items |-> q, operand |-> o]
Rowids(rs) == [where |-> "rowids", rowids |-> rs]
Both(op, a, b) == [where |-> op, left |-> a, right |-> b]

FtsWheres ==
    {MatchOf(q, "table") : q \in FtsQueries}
    \cup {MatchOf(<<Word("a")>>, "y"), Both("AND", MatchOf(<<Word("a")>>, "table"), Rowids({1, 2})),
          Both("AND", MatchOf(<<Word("a")>>, "table"), MatchOf(<<Word("b")>>, "x")),
          Both("OR", MatchOf(<<Word("c")>>, "table"), Rowids({1}))}

-----------------------------------------------------------------------------
(* The C interface. *)

Anon == [t |-> "anon"]
Numbered(k) == [t |-> "num", n |-> k]
Named(s) == [t |-> "name", s |-> s]
Sql(op, par) == [op |-> op, par |-> par, lit |-> "null"]

CapiSqls == { Sql("select", <<>>), Sql("insert", <<Numbered(2), Anon>>), Sql("returning", <<Named("a"), Named("b"), Named("a")>>),
            Sql("update", <<Named("a"), Anon>>), Sql("with insert", <<Anon>>) }

CapiScripts == { <<Sql("begin", <<>>), [Sql("insert", <<>>) EXCEPT !.lit = "v1"]>>, <<[Sql("update", <<>>) EXCEPT !.lit = "v1"]>>, <<Sql("returning", <<>>), Sql("commit", <<>>)>>,
               <<Sql("select", <<>>), Sql("rollback", <<>>)>> }

-----------------------------------------------------------------------------
(* R-trees. *)

Entry(id, val) == [id |-> id, val |-> val, aux |-> <<id>>]
Everything == <<>>
Bound(col, op, v) == [col |-> col, op |-> op, v |-> v, num |-> TRUE]
TextBound(col, op) == [col |-> col, op |-> op, v |-> 0, num |-> FALSE]
Kept == [id |-> 0, val |-> <<>>]
Stmt(op, conf, rs, w, s) == [op |-> op, conf |-> conf, rows |-> rs, where |-> w, set |-> s]

LineRows == {<<Entry(1, <<9, 11>>), Entry(2, <<-11, -9>>), Entry(3, <<3, 15>>), Entry(4, <<0, 0>>), Entry(5, <<19, 19>>)>>,
             <<Entry(0, <<-3, 5>>), Entry(0, <<15, 15>>), Entry(0, <<5, 3>>)>>,
             <<Entry(2, <<7, 7>>), Entry(0, <<1, 2>>)>>}
LineStatements ==
  {Stmt("insert", c, r, Everything, Kept) : c \in {"abort", "ignore", "replace"}, r \in LineRows}
  \union {Stmt("delete", "abort", <<>>, w, Kept) : w \in {Everything, <<Bound(0, "=", 1)>>, <<Bound(1, ">=", 3), Bound(2, "<", 16)>>}}
  \union {Stmt("update", "abort", <<>>, w, s) : w \in {<<Bound(0, "=", 1)>>, <<Bound(1, ">", 0)>>},
                                               s \in {[id |-> 0, val |-> <<<<1, 13>>>>], [id |-> 2, val |-> <<>>], [id |-> 6, val |-> <<<<5, 4>>>>]}}
LineQueries ==
  {<<Bound(col, op, v)>> : col \in {1, 2}, op \in {"<", "<=", ">", ">=", "="}, v \in {-12, 0, 9, 15, 16}}
  \union {<<Bound(1, "<=", 9), Bound(2, ">=", 9)>>, <<TextBound(1, "<")>>, <<TextBound(2, ">=")>>, <<Bound(1, ">=", 3), Bound(0, "=", 1)>>}

Grid == (0 .. 2) \X (0 .. 2)
Poly(pts) == [is |-> "poly", pts |-> pts]
Corner == Poly({<<0, 0>>, <<0, 1>>, <<1, 0>>})
Far == Poly({<<2, 2>>, <<1, 2>>, <<2, 1>>})
Whole == Poly(Grid)
Zero == [is |-> "zero"]
Bad == [is |-> "bad"]
GridRows == {<<Entry(1, Corner), Entry(2, Far), Entry(3, Whole), Entry(4, Zero), Entry(5, Far)>>,
             <<Entry(4, Far), Entry(0, Corner)>>, <<Entry(1, Far), Entry(0, Bad)>>}
GridStatements ==
  {Stmt("insert", c, r, Everything, Kept) : c \in {"abort", "ignore", "replace"}, r \in GridRows}
  \union {Stmt("delete", "abort", <<>>, w, Kept) : w \in {Everything, <<[is |-> "rowid", v |-> 2]>>, <<[is |-> "shape", fn |-> "overlap", pts |-> Corner.pts]>>}}
  \union {Stmt("update", "abort", <<>>, <<[is |-> "rowid", v |-> 1]>>, [id |-> 0, val |-> v]) : v \in {<<Whole>>, <<Bad>>}}
GridQueries ==
  {<<[is |-> "shape", fn |-> f, pts |-> p]>> : f \in {"overlap", "within"}, p \in {Corner.pts, Far.pts, Grid, {<<1, 1>>}, {<<0, 2>>}}}
  \union {<<[is |-> "rowid", v |-> 1], [is |-> "shape", fn |-> "overlap", pts |-> {<<0, 0>>, <<2, 0>>}]>>}

RTreeStatements(k) == IF k = "geopoly" THEN GridStatements ELSE LineStatements
RTreeQueries(k) == IF k = "geopoly" THEN GridQueries ELSE LineQueries

-----------------------------------------------------------------------------
(* Series. *)

Cmp(col, op, half) == [col |-> col, op |-> op, half |-> half]
SeriesWheres ==
  {<<>>, <<Cmp(0, "<>", 6)>>}
  \union {<<Cmp(0, op, h)>> : op \in {"=", "<", "<=", ">", ">="}, h \in {-18, -5, 0, 6, 7, 18}}
  \union {<<Cmp(0, a, h), Cmp(0, b, k)>> : a \in {">", ">=", "="}, b \in {"<", "<=", ">="}, h \in {-14, 1, 4}, k \in {2, 9, 16}}
SeriesArgs ==
  LET three == {<<a, b, c>> : a \in {-9, -4, 3, 8}, b \in {-9, 0, 3, 9}, c \in {-4, -3, -1, 0, 1, 2, 5}}
  IN  {<<3>>, <<-4, 9>>} \union three
Scan(source, args, where, limit, sorted) ==
  [source |-> source, args |-> args, where |-> where, limit |-> limit, sorted |-> sorted]
Limits == {{}, {[limit |-> 0, offset |-> 1]}, {[limit |-> 2, offset |-> 0]}, {[limit |-> 2, offset |-> 1]}}
BareWheres ==
  {a \o b \o c \o v : a \in {<<>>, <<Cmp(1, "=", -8)>>, <<Cmp(1, "=", 5)>>, <<Cmp(1, "=", 6), Cmp(1, "=", 8)>>, <<Cmp(1, ">", 6)>>},
                      b \in {<<>>, <<Cmp(2, "=", 16)>>, <<Cmp(2, "=", -18), Cmp(2, "<", 0)>>},
                      c \in {<<>>, <<Cmp(3, "=", 4)>>, <<Cmp(3, "=", -2)>>, <<Cmp(3, "=", 0)>>},
                      v \in {<<>>, <<Cmp(0, ">", 1)>>}}
SeriesScans ==
  {Scan("series", args, w, {}, FALSE) : args \in SeriesArgs, w \in SeriesWheres}
  \union {Scan("generate_series", args, w, l, sorted) :
            args \in SeriesArgs, w \in {<<>>, <<Cmp(0, ">", 1)>>, <<Cmp(2, "=", 6)>>}, l \in Limits, sorted \in BOOLEAN}
  \union {Scan("generate_series", <<>>, w, l, FALSE) : w \in BareWheres, l \in Limits}

-----------------------------------------------------------------------------
VARIABLES
  part,
  origin, side, handler, unique, stage,
  input, writer, todo, listed, finished,
  conn, db, stmt, blob, backup, dest, calls, bound, held,
  kind, mem, disk, saved, tx, cells, number, table, before, wanted, outcome, odd, torn,
  scan, pc, cursor, out

sessionVars == <<origin, side, handler, unique, stage>>
segmentVars == <<input, writer, todo, listed, finished>>
ftsVars == <<detail, content, ix, str, phase, jobs, after, rem, lvl, txn, base, saves, n, seen>>
capiVars == <<conn, db, stmt, blob, backup, dest, calls, bound, held>>
rtreeVars == <<kind, mem, disk, saved, tx, cells, number, table, before, wanted, outcome, odd, torn>>
seriesVars == <<scan, pc, cursor, out>>
mcVars == <<part, sessionVars, segmentVars, ftsVars, capiVars, rtreeVars, seriesVars>>

Ses == INSTANCE Session WITH base <- origin, phase <- stage,
       Keys <- {1, 2}, Vals <- {0, 1}, Bases <- SessionBases,
       MaxWrites <- 2, Handlers <- SessionHandlers
Seg == INSTANCE Fts5Segment WITH w <- writer, posts <- listed,
       Inputs <- SegmentInputs
Api == INSTANCE Capi WITH Handles <- {"h1", "h2"}, Sqls <- CapiSqls,
       Scripts <- CapiScripts, Values <- {"v1", "v2"}, Null <- "null", MaxRow <- 2,
       MaxCalls <- 5
RT == INSTANCE RTree WITH base <- before, todo <- cells, rows <- table, count <- number, want <- wanted,
       Kinds <- {"rtree", "rtree_i32", "geopoly"},
       Statements <- RTreeStatements, Queries <- RTreeQueries, MaxCells <- 2,
       Precision <- 3, MaxStatements <- 3, MaxInt <- 12
Ser == INSTANCE Series WITH MaxInt <- 9, DefaultStop <- 5, Scans <- SeriesScans

\* The variables of a part that is not followed.
NoSession == origin = 0 /\ side = 0 /\ handler = 0 /\ unique = 0 /\ stage = 0
NoSegment == input = 0 /\ writer = 0 /\ todo = 0 /\ listed = 0 /\ finished = 0
NoFts == detail = 0 /\ content = 0 /\ ix = 0 /\ str = 0 /\ phase = "" /\ jobs = 0
            /\ after = 0 /\ rem = 0 /\ lvl = 0 /\ txn = 0 /\ base = 0 /\ saves = 0
            /\ n = 0 /\ seen = 0
NoCapi == conn = 0 /\ db = 0 /\ stmt = 0 /\ blob = 0 /\ backup = 0 /\ dest = 0
            /\ calls = 0 /\ bound = 0 /\ held = 0
NoRtree == kind = 0 /\ mem = 0 /\ disk = 0 /\ saved = 0 /\ tx = 0 /\ cells = 0
            /\ number = 0 /\ table = 0 /\ before = 0 /\ wanted = 0 /\ outcome = 0
            /\ odd = 0 /\ torn = 0
NoSeries == scan = 0 /\ pc = 0 /\ cursor = 0 /\ out = 0

MCInit ==
  /\ part \in Parts
  /\ \/ part = "session" /\ Ses!Init /\ NoSegment /\ NoFts /\ NoCapi /\ NoRtree /\ NoSeries
     \/ part = "segment" /\ Seg!Init /\ NoSession /\ NoFts /\ NoCapi /\ NoRtree /\ NoSeries
     \/ part = "fts5" /\ Init /\ NoSession /\ NoSegment /\ NoCapi /\ NoRtree /\ NoSeries
     \/ part = "capi" /\ Api!Init /\ NoSession /\ NoSegment /\ NoFts /\ NoRtree /\ NoSeries
     \/ part = "rtree" /\ RT!Init /\ NoSession /\ NoSegment /\ NoFts /\ NoCapi /\ NoSeries
     \/ part = "series" /\ Ser!SeriesInit /\ NoSession /\ NoSegment /\ NoFts /\ NoCapi /\ NoRtree

MCNext ==
  /\ UNCHANGED part
  /\ \/ part = "session" /\ Ses!Next
        /\ UNCHANGED <<segmentVars, ftsVars, capiVars, rtreeVars, seriesVars>>
     \/ part = "segment" /\ Seg!Next
        /\ UNCHANGED <<sessionVars, ftsVars, capiVars, rtreeVars, seriesVars>>
     \/ part = "fts5" /\ Next
        /\ UNCHANGED <<sessionVars, segmentVars, capiVars, rtreeVars, seriesVars>>
     \/ part = "capi" /\ Api!Next
        /\ UNCHANGED <<sessionVars, segmentVars, ftsVars, rtreeVars, seriesVars>>
     \/ part = "rtree" /\ RT!Next
        /\ UNCHANGED <<sessionVars, segmentVars, ftsVars, capiVars, seriesVars>>
     \/ part = "series" /\ Ser!SeriesNext
        /\ UNCHANGED <<sessionVars, segmentVars, ftsVars, capiVars, rtreeVars>>

MCSpec == MCInit /\ [][MCNext]_mcVars

-----------------------------------------------------------------------------
\* A changeset turns the database it was recorded on into the one that recorded it, two
\* changesets concatenated do what the one and then the other does, and of two databases
\* that apply each other's changes, the later one rebased on what the first apply decided,
\* both hold the same keys and agree on every column when the handler replaces; when it
\* omits, on the columns the local session changed (Session, changeset_apply, concat,
\* rebase).
Converges == part = "session" => Ses!Reproduces /\ Ses!ConcatComposes /\ Ses!Converges

\* The postings read from the pages of a segment, sequentially or by a seek through its
\* index, are the ones that were written, wherever a page ends (SegWriter, read_segment).
SegmentReadsBack == part = "segment" => Seg!SegmentReadsBack

\* sqlite3_column reads the row the last sqlite3_step returned, the last pointer it gave
\* out of each kind shows that row, and each parameter holds the value bound to it, however
\* writes, calls on other handles, resets and rebinds interleave (sqlite3_step,
\* sqlite3_bind, sqlite3_column_text, _blob, _text16, _value, _name).
CurrentRowStands == part = "capi" => Api!CurrentRowStands /\ Api!ParametersAgree

\* The nodes of an R-tree hold the rows of the table, boxes rounded outwards, every parent
\* box enclosing its subtree, and leaving out subtrees by their boxes loses no row of an
\* answer (rtree_build, scan_rtree_nodes, geopoly_query_bbox).
RTreeIsTable == part = "rtree" => RT!RTreeIsTable /\ RT!PruningKeepsAnswer

\* The virtual table `series' and the function generate_series deliver the terms of the
\* progression that the WHERE clause keeps, each once, in order and as many as the LIMIT
\* says, however they narrowed the range, took arguments from the WHERE or stopped early,
\* up to the ends of the integers (SeriesModule::filter, push_bare_tvf_args,
\* generate_series_scan_cap).
SeriesComplete == part = "series" => Ser!SeriesComplete

=============================================================================
