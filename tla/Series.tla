------------------------------- MODULE Series -------------------------------
(***************************************************************************)
(* Two tables of an arithmetic progression: the virtual table `series`     *)
(* (vtab.rs: SeriesModule; exec/mod.rs: try_virtual_table), which narrows  *)
(* the progression by comparisons of the WHERE, and the table-valued       *)
(* function generate_series (exec/mod.rs: tvf_rows_capped), which takes    *)
(* arguments it was not given from the WHERE and stops early where a LIMIT *)
(* lets it.  The WHERE, the ORDER BY and the LIMIT are applied again to    *)
(* what they yield.                                                        *)
(*                                                                         *)
(* Column 0 is the value; 1, 2 and 3 are generate_series' hidden start,    *)
(* stop and step.  A constant of the WHERE is given in halves, so that an  *)
(* odd number is not an integer.                                           *)
(***************************************************************************)
EXTENDS Integers, Sequences, SequencesExt, FiniteSetsExt

CONSTANTS
  MaxInt,          \* the largest 64-bit integer
  DefaultStop,     \* where generate_series ends when it is not told
  Scans            \* [source, args, where, limit, sorted]: where a sequence of
                   \* [col, op, half], limit {} or {[limit, offset]}

VARIABLES
  scan,    \* the query
  pc,      \* "plan", "step", "done" or "error"
  cursor,  \* [start, next, stop, step, cap, done]
  out      \* the values of the rows the table yields
MinInt == -MaxInt - 1
seriesVars == <<scan, pc, cursor, out>>

Arg(args, i, default) == IF i <= Len(args) THEN args[i] ELSE default
Cursor(start, stop, step, cap) ==
  [start |-> start, next |-> start, stop |-> stop, step |-> step, cap |-> cap, done |-> FALSE]

-----------------------------------------------------------------------------
(* The virtual table. *)

\* best_index takes the comparisons of its own column; filter reads the side of
\* each from the plan, in the order of the constants handed back.
Side(op) == CASE op = "=" -> "=" [] op \in {">", ">="} -> ">" [] op \in {"<", "<="} -> "<" [] OTHER -> "none"
Taken == SelectSeq(scan.where, LAMBDA c : c.col = 0 /\ Side(c.op) # "none")
Bounds(sides) == {Taken[i].half \div 2 : i \in {j \in DOMAIN Taken : Side(Taken[j].op) \in sides /\ Taken[j].half % 2 = 0}}
Lower == Bounds({">", "="})
Upper == Bounds({"<", "="})

\* advance_to: the first term of the progression at or past the target; the
\* quotient is rounded towards zero and brought up by one where it left a rest.
Quotient(d, s) == (IF (d < 0) = (s < 0) THEN 1 ELSE -1) * ((IF d < 0 THEN -d ELSE d) \div (IF s < 0 THEN -s ELSE s))
\* Mutant: one term further.
AdvanceToPast(start, step, target) ==
  IF (step > 0 /\ target <= start) \/ (step < 0 /\ target >= start) THEN start ELSE start + (Quotient(target - start, step) + 2) * step
AdvanceTo(start, step, target) ==
  LET d == target - start
      k == Quotient(d, step) + (IF d % (IF step < 0 THEN -step ELSE step) # 0 THEN 1 ELSE 0) IN
  IF (step > 0 /\ d <= 0) \/ (step < 0 /\ d >= 0) THEN start
  ELSE IF start + k * step \in MinInt .. MaxInt THEN start + k * step ELSE start

\* open and filter.
Filter ==
  LET start == scan.args[1]
      stop == Arg(scan.args, 2, start)
      step == Arg(scan.args, 3, 1)
  IN  /\ pc = "plan" /\ scan.source = "series"
      /\ IF step = 0 THEN pc' = "error" /\ UNCHANGED cursor
         ELSE /\ pc' = "step"
              /\ cursor' = IF step > 0
                           THEN [Cursor(start, Min(Upper \union {stop}), step, {}) EXCEPT
                                   !.next = IF Lower = {} THEN start ELSE AdvanceTo(start, step, Max(Lower))]
                           ELSE [Cursor(start, Max(Lower \union {stop}), step, {}) EXCEPT
                                   !.next = IF Upper = {} THEN start ELSE AdvanceTo(start, step, Min(Upper))]
      /\ UNCHANGED <<scan, out>>

-----------------------------------------------------------------------------
(* The table-valued function. *)

\* collect_tvf_eq: the constants a column is equal to; push_bare_tvf_args: the
\* first of each, for start and then as far as there is one for the next.
Equals(col) == SelectSeq(scan.where, LAMBDA c : c.col = col /\ c.op = "=")
Integer(half) == Quotient(half, 2)
BareArgs ==
  LET n == Max({k \in 0 .. 3 : \A i \in 1 .. k : Equals(i) # <<>>})
  IN  [i \in 1 .. n |-> Integer(Equals(i)[1].half)]

\* Mutant: the OFFSET is forgotten.
ScanCapOfLimit == IF scan.where # <<>> \/ scan.sorted THEN {} ELSE {l.limit : l \in scan.limit}
\* generate_series_scan_cap: the rows a LIMIT needs of an unfiltered scan.
ScanCap == IF scan.where # <<>> \/ scan.sorted THEN {} ELSE {l.limit + l.offset : l \in scan.limit}

\* tvf_rows_capped.
GenerateSeries ==
  LET args == IF scan.args = <<>> THEN BareArgs ELSE scan.args
      step == Arg(args, 3, 1)
  IN  /\ pc = "plan" /\ scan.source = "generate_series"
      /\ IF args = <<>> THEN pc' = "error" /\ UNCHANGED cursor
         ELSE pc' = "step" /\ cursor' = Cursor(args[1], Arg(args, 2, DefaultStop), IF step = 0 THEN 1 ELSE step, ScanCap)
      /\ UNCHANGED <<scan, out>>

-----------------------------------------------------------------------------
InRange == IF cursor.step > 0 THEN cursor.next <= cursor.stop ELSE cursor.next >= cursor.stop
Step ==
  /\ pc = "step"
  /\ IF cursor.done \/ ~InRange \/ (\E c \in cursor.cap : Len(out) >= c)
       THEN pc' = "done" /\ UNCHANGED <<cursor, out>>
       ELSE /\ out' = Append(out, cursor.next)
            /\ cursor' = IF cursor.next + cursor.step \in MinInt .. MaxInt
                         THEN [cursor EXCEPT !.next = @ + cursor.step] ELSE [cursor EXCEPT !.done = TRUE]
            /\ UNCHANGED pc
  /\ UNCHANGED scan
SeriesInit == scan \in Scans /\ pc = "plan" /\ cursor = Cursor(0, 0, 1, {}) /\ out = <<>>
SeriesNext == Filter \/ GenerateSeries \/ Step

-----------------------------------------------------------------------------
\* The WHERE on a row of a progression.
Meets(x, start, stop, step) ==
  \A i \in DOMAIN scan.where :
    LET c == scan.where[i]
        v == 2 * <<x, start, stop, step>>[c.col + 1]
    IN  CASE c.op = "=" -> v = c.half [] c.op = "<" -> v < c.half [] c.op = "<=" -> v <= c.half
          [] c.op = ">" -> v > c.half [] c.op = ">=" -> v >= c.half [] c.op = "<>" -> v # c.half

\* The ORDER BY, which is descending, and the LIMIT.
Delivered(s) ==
  LET t == IF scan.sorted THEN SortSeq(s, >) ELSE s
      n == Len(t)
  IN  IF scan.limit = {} THEN t
      ELSE LET l == CHOOSE l \in scan.limit : TRUE
           IN  SubSeq(t, l.offset + 1, Min({n, l.offset + l.limit}))

\* The rows of the progression that meet the WHERE, in its order.
Terms(start, stop, step) ==
  LET line == [i \in 1 .. MaxInt - MinInt + 1 |-> IF step > 0 THEN MinInt + i - 1 ELSE MaxInt - i + 1]
      term(x) == /\ IF step > 0 THEN start <= x /\ x <= stop ELSE start >= x /\ x >= stop
                 /\ (x - start) % (IF step < 0 THEN -step ELSE step) = 0
  IN  SelectSeq(line, LAMBDA x : term(x) /\ Meets(x, start, stop, step))

\* What the query asks for: an argument is the one given, or the one the WHERE
\* is equal to, or its default.
Asked(i, default) ==
  IF scan.args # <<>> THEN Arg(scan.args, i, default)
  ELSE IF Equals(i) # <<>> THEN Integer(Last(Equals(i)).half) ELSE default
Wanted ==
  LET start == Asked(1, 0)
      stop == Asked(2, IF scan.source = "series" THEN start ELSE DefaultStop)
      step == Asked(3, 1)
  IN  Delivered(Terms(start, stop, IF step = 0 THEN 1 ELSE step))

\* A step in the WHERE without a stop is not taken.
StepAlone == scan.args = <<>> /\ Equals(2) = <<>> /\ Equals(3) # <<>>

\* The query delivers the rows of the progression that its WHERE keeps, each
\* once, in order and as many as its LIMIT says: narrowing the progression by
\* the WHERE, taking the arguments from it and stopping early lose and repeat
\* none, up to the ends of the integers (SeriesModule::filter, advance_to,
\* SeriesCursor::next, push_bare_tvf_args, generate_series_scan_cap,
\* tvf_rows_capped).
SeriesComplete ==
  pc = "done" /\ ~StepAlone =>
    Delivered(SelectSeq(out, LAMBDA x : Meets(x, cursor.start, cursor.stop, cursor.step))) = Wanted
=============================================================================
