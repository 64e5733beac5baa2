-------------------------------- MODULE Ctes --------------------------------
(***************************************************************************)
(* WITH, recursive queries and compound SELECTs (exec/mod.rs: run_select,  *)
(* push_ctes, eval_recursive_cte, run_select_compound).  A query's common  *)
(* table expressions are put in an order in which each follows what it     *)
(* names, evaluated one after the other and pushed on an environment that  *)
(* every query run meanwhile looks names up in; the operands of the        *)
(* compound are then combined, ordered and cut to LIMIT and OFFSET.        *)
(*                                                                         *)
(* A row is one value, as in Values.  A body is [from, rows]: the rows it  *)
(* holds followed by those of the sources it names.                        *)
(***************************************************************************)
EXTENDS Values

CONSTANTS
  Tables,   \* name -> rows
  Views,    \* name -> body
  Outers,   \* environments a query may start in: sequences of [name, rows]
  Selects,  \* [ctes, arms, coll, order, limit, offset]: ctes of
            \* [name, nested, body, rec], nested a WITH of the body's own
            \* (a sequence of [name, body]), rec empty or one
            \* [steps, distinct, order, limit, offset], steps a sequence of
            \* functions from a row to the rows an arm makes of it; arms of
            \* [op, body], the first op unused; order empty or one [desc, coll];
            \* limit and offset empty or one number
  Guard     \* the rounds after which a recursion is given up

VARIABLES
  sel, base,  \* the query and the environment it starts in
  pc,      \* "check", "cycles", "place", "bind", "recurse", "combine", "sort", "done" or "error"
  env,     \* the environment: a sequence of [name, rows]
  stack,   \* the depth-first walk: a sequence of <<cte, next dependency>>
  color,   \* 0 not reached, 1 on the stack, 2 finished
  order,   \* the CTEs in the order they are evaluated
  rec,     \* the recursion at work: [rows, queue, seen, rounds]
  next,    \* the CTE or the arm to take next
  result,  \* the rows of the answer
  twice    \* history: a round of a UNION recursion met a new row twice

vars == <<sel, base, pc, env, stack, color, order, rec, next, result, twice>>
walk == <<stack, color, order>>

(* ---- Names ---- *)
Names(s) == [i \in DOMAIN s |-> s[i].name]
Bound(name, e) == {i \in DOMAIN e : e[i].name = name}
Failed == [ok |-> FALSE, rows |-> <<>>]
Found(rows) == [ok |-> TRUE, rows |-> rows]
\* The rows a body holds followed by what it found.
Gather(rows, found) ==
  [ok |-> \A i \in DOMAIN found : found[i].ok, rows |-> rows \o FlattenSeq([i \in DOMAIN found |-> found[i].rows])]
\* A name is looked up from the top of the environment (lookup_cte), then among
\* the views, whose bodies run in the environment of the moment (try_view), then
\* among the tables.
RECURSIVE Lookup(_, _)
Run(body, e) == Given([i \in DOMAIN body.from |-> Lookup(body.from[i], e)], LAMBDA found : Gather(body.rows, found))
Lookup(name, e) ==
  CASE Bound(name, e) # {} -> Found(e[Max(Bound(name, e))].rows)
    [] Bound(name, e) = {} /\ name \in DOMAIN Views -> Run(Views[name], e)
    [] Bound(name, e) = {} /\ name \in DOMAIN Tables -> Found(Tables[name])
    [] OTHER -> Failed
\* The body of a CTE with a WITH of its own; what its body does not name is not
\* evaluated.
RunNested(nested, body, e) ==
  LET used == SelectSeq(nested, LAMBDA c : c.name \in Range(body.from))
      Push(acc, c) == IF acc.ok /\ Run(c.body, acc.rows).ok
                      THEN Found(Append(acc.rows, [name |-> c.name, rows |-> Run(c.body, acc.rows).rows]))
                      ELSE Failed IN
  Given(FoldLeft(Push, Found(e), used), LAMBDA r : IF r.ok THEN Run(body, r.rows) ELSE Failed)

\* collect_scoped: the sources a CTE names, less those its own WITH binds.  The
\* bodies of its own WITH are not looked into.
Sources(c) == SelectSeq(c.body.from, LAMBDA n : n \notin Range(Names(c.nested)))
Numbered(names, ctes) == SelectSeq([i \in DOMAIN names |-> SelectInSeq(ctes, LAMBDA c : c.name = names[i])], LAMBDA i : i # 0)
Seeds(q) == Numbered(FlattenSeq([i \in DOMAIN q.arms |-> q.arms[i].body.from]), q.ctes)
\* cte_mask_from_seeds: the CTEs the query reaches.
RECURSIVE Reach(_, _)
Reach(q, s) ==
  Given(s \union UNION {Range(Numbered(Sources(q.ctes[i]), q.ctes)) : i \in s}, LAMBDA t : IF t = s THEN s ELSE Reach(q, t))
\* The CTEs the query names itself.
UsedDirect(q) == Range(Seeds(q))
Used(q) == Reach(q, Range(Seeds(q)))
Firsts(s) == SelectSeq([i \in DOMAIN s |-> IF \E j \in 1 .. i - 1 : s[j] = s[i] THEN 0 ELSE s[i]], LAMBDA x : x # 0)
\* The siblings a CTE depends on, in the order it names them.
Deps(q, i) == SelectSeq(Firsts(Numbered(Sources(q.ctes[i]), q.ctes)), LAMBDA j : j # i)

(* ---- Ordering the CTEs: push_ctes ---- *)
N == Len(sel.ctes)
Fail == pc' = "error" /\ env' = base
Check ==
  /\ pc = "check"
  /\ IF \E i, j \in 1 .. N : i < j /\ sel.ctes[i].name = sel.ctes[j].name
     THEN Fail ELSE pc' = "cycles" /\ UNCHANGED env
  /\ UNCHANGED <<sel, base, walk, rec, next, result, twice>>
\* A depth-first walk from the CTEs in the order the query names them; meeting
\* one that is still on the stack is a circular reference.
Top == stack[Len(stack)]
DepsLeft == Top[2] <= Len(Deps(sel, Top[1]))
Advanced == [stack EXCEPT ![Len(stack)][2] = @ + 1]
Dependency == Deps(sel, Top[1])[Top[2]]
Cycles ==
  /\ pc = "cycles"
  /\ \/ /\ stack = <<>>
        /\ \E i \in Range(Seeds(sel)) : color[i] = 0
        /\ LET start == Head(SelectSeq(Seeds(sel), LAMBDA i : color[i] = 0)) IN
           stack' = <<<<start, 1>>>> /\ color' = [color EXCEPT ![start] = 1]
        /\ UNCHANGED <<pc, env>>
     \/ /\ stack = <<>>
        /\ \A i \in Range(Seeds(sel)) : color[i] # 0
        /\ pc' = "place"
        /\ color' = [i \in 1 .. N |-> 0]
        /\ UNCHANGED <<stack, env>>
     \/ /\ stack # <<>> /\ DepsLeft
        /\ CASE color[Dependency] = 1 -> Fail /\ UNCHANGED <<stack, color>>
             [] color[Dependency] = 0 -> /\ stack' = Append(Advanced, <<Dependency, 1>>)
                                         /\ color' = [color EXCEPT ![Dependency] = 1]
                                         /\ UNCHANGED <<pc, env>>
             [] OTHER -> stack' = Advanced /\ UNCHANGED <<color, pc, env>>
     \/ /\ stack # <<>> /\ ~DepsLeft
        /\ color' = [color EXCEPT ![Top[1]] = 2]
        /\ stack' = Front(stack)
        /\ UNCHANGED <<pc, env>>
  /\ UNCHANGED <<sel, base, order, rec, next, result, twice>>
\* A second walk, from the used CTEs as declared, puts each after what it names.
Unplaced == {i \in Used(sel) : i \notin Range(order)}
OnStack(i) == \E s \in DOMAIN stack : stack[s][1] = i
Place ==
  /\ pc = "place"
  /\ \/ /\ stack = <<>> /\ Unplaced # {}
        /\ stack' = <<<<Min(Unplaced), 1>>>>
        /\ UNCHANGED <<order, pc>>
     \/ /\ stack = <<>> /\ Unplaced = {}
        /\ pc' = "bind"
        /\ UNCHANGED <<stack, order>>
     \/ /\ stack # <<>> /\ DepsLeft
        /\ stack' = IF Dependency \in Unplaced /\ ~OnStack(Dependency) THEN Append(Advanced, <<Dependency, 1>>) ELSE Advanced
        /\ UNCHANGED <<order, pc>>
     \/ /\ stack # <<>> /\ ~DepsLeft
        /\ order' = Append(order, Top[1])
        /\ stack' = Front(stack)
        /\ UNCHANGED pc
  /\ UNCHANGED <<sel, base, env, color, rec, next, result, twice>>

(* ---- Evaluating them ---- *)
Cte == sel.ctes[order[next]]
Bind(rows) == env' = Append(env, [name |-> Cte.name, rows |-> rows]) /\ next' = next + 1
Plain ==
  /\ pc = "bind" /\ next <= Len(order) /\ Cte.rec = <<>>
  /\ \E r \in {RunNested(Cte.nested, Cte.body, env)} :
       IF r.ok THEN Bind(r.rows) /\ UNCHANGED pc ELSE Fail /\ UNCHANGED next
  /\ UNCHANGED <<sel, base, walk, rec, result, twice>>
\* recursive_cte_outer_cap: the rows the query itself can use, if it only reads
\* the recursive table; -1 if it may need all.
OuterCap ==
  IF /\ N = 1 /\ Len(sel.arms) = 1 /\ sel.order = <<>>
     /\ sel.arms[1].body = [from |-> <<sel.ctes[1].name>>, rows |-> <<>>]
     /\ sel.limit # <<>> /\ sel.limit[1] >= 0
  THEN sel.limit[1] + (IF sel.offset = <<>> THEN 0 ELSE Max({0, sel.offset[1]}))
  ELSE -1
Recursion == Cte.rec[1]
First(s) == IF s = <<>> THEN -1 ELSE s[1]
RecOffset == Max({0, First(Recursion.offset)})
Enough(n) == \/ Recursion.limit # <<>> /\ Recursion.limit[1] >= 0 /\ n >= RecOffset + Recursion.limit[1]
             \/ OuterCap >= 0 /\ n >= OuterCap
Anchor ==
  /\ pc = "bind" /\ next <= Len(order) /\ Cte.rec # <<>>
  /\ \E r \in {RunNested(Cte.nested, Cte.body, env)} :
       IF ~r.ok THEN Fail /\ UNCHANGED rec
       ELSE \E rows \in {IF Recursion.distinct THEN Dedup(r.rows, "BINARY") ELSE r.rows} :
              /\ rec' = [rows |-> IF Recursion.order = <<>> THEN rows ELSE <<>>, queue |-> rows, seen |-> Range(rows), rounds |-> 0]
              /\ pc' = "recurse"
              /\ UNCHANGED env
  /\ UNCHANGED <<sel, base, walk, next, result, twice>>
\* The rows the recursive arms make of the rows bound to the table's name.
Produced(rows) ==
  FlattenSeq([a \in DOMAIN Recursion.steps |-> FlattenSeq([i \in DOMAIN rows |-> Recursion.steps[a][rows[i]]])])
FreshOnce(rows, seen) == SelectSeq(Firsts(rows), LAMBDA x : x \notin seen)
Finished(rows) ==
  /\ Bind(Take(Skip(rows, RecOffset), First(Recursion.limit)))
  /\ pc' = "bind"
  /\ rec' = [rec EXCEPT !.rows = <<>>, !.queue = <<>>, !.seen = {}, !.rounds = 0]
GiveUp == Fail /\ UNCHANGED <<rec, next>>
\* Without ORDER BY, one round works on all the rows of the round before.
Batch ==
  /\ pc = "recurse" /\ Recursion.order = <<>>
  /\ IF rec.rounds = Guard THEN GiveUp
     ELSE \E fresh \in {SelectSeq(Produced(rec.queue), LAMBDA x : ~Recursion.distinct \/ x \notin rec.seen)} :
            IF fresh = <<>> \/ Enough(Len(rec.rows) + Len(fresh)) THEN Finished(rec.rows \o fresh)
            ELSE /\ rec' = [rows |-> rec.rows \o fresh, queue |-> fresh, seen |-> rec.seen \union Range(fresh), rounds |-> rec.rounds + 1]
                 /\ UNCHANGED <<pc, env, next>>
  /\ twice' = (twice \/ (Recursion.distinct /\ \E fresh \in {SelectSeq(Produced(rec.queue), LAMBDA x : x \notin rec.seen)} : ~IsInjective(fresh)))
  /\ UNCHANGED <<sel, base, walk, result>>
\* With it, one round takes the row that sorts first, the earliest of equals.
BestAt(queue, t) == CHOOSE i \in DOMAIN queue : /\ \A j \in DOMAIN queue : ~TermBefore(queue[j], queue[i], t)
                                               /\ \A j \in 1 .. i - 1 : TermBefore(queue[i], queue[j], t)
Arrivals(row) == IF Recursion.distinct THEN FreshOnce(Produced(<<row>>), rec.seen) ELSE Produced(<<row>>)
Extract ==
  /\ pc = "recurse" /\ Recursion.order # <<>>
  /\ CASE rec.queue = <<>> -> Finished(rec.rows)
       [] rec.queue # <<>> /\ rec.rounds = Guard -> GiveUp
       [] OTHER ->
            \E b \in {BestAt(rec.queue, Recursion.order[1])} : \E rows \in {Append(rec.rows, rec.queue[b])} :
              IF Enough(Len(rows)) THEN Finished(rows)
              ELSE \E new \in {Arrivals(rec.queue[b])} :
                     /\ rec' = [rows |-> rows, queue |-> RemoveAt(rec.queue, b) \o new, seen |-> rec.seen \union Range(new),
                                rounds |-> rec.rounds + 1]
                     /\ UNCHANGED <<pc, env, next>>
  /\ UNCHANGED <<sel, base, walk, result, twice>>
AllBound ==
  /\ pc = "bind" /\ next > Len(order)
  /\ pc' = "combine" /\ next' = 1
  /\ UNCHANGED <<sel, base, env, walk, rec, result, twice>>

(* ---- The compound ---- *)
\* apply_compound keeps the last of the rows that are equal.
DedupLast(rows, coll) ==
  FoldLeft(LAMBDA acc, r : Given(SelectInSeq(acc, LAMBDA x : SameIn(x, r, coll)),
                                 LAMBDA i : IF i = 0 THEN Append(acc, r) ELSE [acc EXCEPT ![i] = r]), <<>>, rows)
Within(r, rows, coll) == \E i \in DOMAIN rows : SameIn(r, rows[i], coll)
ApplyCompound(op, left, right, coll) ==
  CASE op = "union all" -> left \o right
    [] op = "union" -> DedupLast(left \o right, coll)
    [] op = "intersect" -> DedupLast(SelectSeq(left, LAMBDA r : Within(r, right, coll)), coll)
    [] op = "except" -> DedupLast(SelectSeq(left, LAMBDA r : ~Within(r, right, coll)), coll)
Combine ==
  /\ pc = "combine"
  /\ \E r \in {Run(sel.arms[next].body, env)} :
       IF ~r.ok THEN Fail /\ UNCHANGED <<next, result>>
       ELSE /\ result' = IF next = 1 THEN r.rows ELSE ApplyCompound(sel.arms[next].op, result, r.rows, sel.coll)
            /\ next' = next + 1
            /\ pc' = IF next = Len(sel.arms) THEN "sort" ELSE pc
            /\ UNCHANGED env
  /\ UNCHANGED <<sel, base, walk, rec, twice>>
Dedups == \E i \in 2 .. Len(sel.arms) : sel.arms[i].op # "union all"
SortTerms == IF sel.order = <<>> /\ Dedups THEN <<[desc |-> FALSE, coll |-> sel.coll]>> ELSE sel.order
OrderLimit ==
  /\ pc = "sort"
  /\ result' = Take(Skip(IF SortTerms = <<>> THEN result ELSE SortSeq(result, LAMBDA r, t : TermBefore(r, t, SortTerms[1])),
                         First(sel.offset)), First(sel.limit))
  /\ pc' = "done"
  /\ env' = base
  /\ UNCHANGED <<sel, base, walk, rec, next, twice>>

Init ==
  /\ sel \in Selects
  /\ base \in Outers
  /\ pc = "check" /\ env = base
  /\ stack = <<>> /\ color = [i \in 1 .. Len(sel.ctes) |-> 0] /\ order = <<>>
  /\ rec = [rows |-> <<>>, queue |-> <<>>, seen |-> {}, rounds |-> 0]
  /\ next = 1 /\ result = <<>> /\ twice = FALSE
Next == Check \/ Cycles \/ Place \/ Plain \/ Anchor \/ Batch \/ Extract \/ AllBound \/ Combine \/ OrderLimit
Spec == Init /\ [][Next]_vars

(* ---- What a query means ---- *)
\* Names are resolved where they are written: in a view among views and tables,
\* in a CTE among its own WITH, its siblings, the outer query's, and those.
RECURSIVE BaseMeaning(_)
BaseMeaning(name) ==
  CASE name \in DOMAIN Views -> Gather(Views[name].rows, [i \in DOMAIN Views[name].from |-> BaseMeaning(Views[name].from[i])])
    [] name \notin DOMAIN Views /\ name \in DOMAIN Tables -> Found(Tables[name])
    [] OTHER -> Failed
\* The rows a queue gives out: the first, or the one that sorts first, is put
\* in the answer and what the recursive arms make of it alone joins the queue.
RECURSIVE QueueRun(_, _)
Made(r, row, seen) ==
  Given(FlattenSeq([a \in DOMAIN r.steps |-> r.steps[a][row]]), LAMBDA made : IF r.distinct THEN FreshOnce(made, seen) ELSE made)
QueueStep(q, b, new) ==
  [queue |-> RemoveAt(q.queue, b) \o new, seen |-> q.seen \union Range(new), out |-> Append(q.out, q.queue[b])]
Pull(r, q, b) == Given(Made(r, q.queue[b], q.seen), LAMBDA new : QueueStep(q, b, new))
QueueRun(r, q) ==
  IF \/ q.queue = <<>>
     \/ r.limit # <<>> /\ r.limit[1] >= 0 /\ Len(q.out) >= Max({0, First(r.offset)}) + r.limit[1]
     \/ Len(q.out) > Guard
  THEN q.out
  ELSE Given(Pull(r, q, IF r.order = <<>> THEN 1 ELSE BestAt(q.queue, r.order[1])), LAMBDA p : QueueRun(r, p))
QueueRows(r, anchor) ==
  Given(IF r.distinct THEN Dedup(anchor, "BINARY") ELSE anchor, LAMBDA rows : QueueRun(r, [queue |-> rows, seen |-> Range(rows), out |-> <<>>]))
Recursed(r, anchor) ==
  Given(QueueRows(r, anchor), LAMBDA out : IF Len(out) > Guard /\ OuterCap < 0 THEN Failed
                                           ELSE Found(Take(Skip(out, Max({0, First(r.offset)})), First(r.limit))))
RECURSIVE CteMeaning(_, _)
\* A name in the body of sibling i (0 in the query itself), with the names of
\* its own WITH.
Meaning(name, i) ==
  LET sib == {j \in 1 .. N : j # i /\ sel.ctes[j].name = name}
      own == IF i = 0 THEN {} ELSE {n \in DOMAIN sel.ctes[i].nested : sel.ctes[i].nested[n].name = name} IN
  CASE own # {} -> CteMeaning(i, Min(own))
    [] own = {} /\ sib # {} -> CteMeaning(Min(sib), 0)
    [] own = {} /\ sib = {} /\ Bound(name, base) # {} -> Found(base[Max(Bound(name, base))].rows)
    [] OTHER -> BaseMeaning(name)
BodyMeaning(body, i) == Given([n \in DOMAIN body.from |-> Meaning(body.from[n], i)], LAMBDA found : Gather(body.rows, found))
CteMeaning(i, n) ==
  IF n # 0 THEN BodyMeaning(sel.ctes[i].nested[n].body, i)
  ELSE Given(BodyMeaning(sel.ctes[i].body, i), LAMBDA r :
         IF r.ok /\ sel.ctes[i].rec # <<>> THEN Recursed(sel.ctes[i].rec[1], r.rows) ELSE r)
\* The siblings sibling i names, its own WITH's bodies included.
Mentions(i) ==
  {j \in 1 .. N \ {i} : \/ sel.ctes[j].name \in Range(Sources(sel.ctes[i]))
                        \/ \E n \in DOMAIN sel.ctes[i].nested : /\ sel.ctes[j].name \in Range(sel.ctes[i].nested[n].body.from)
                                                                /\ sel.ctes[j].name \notin Range(Names(sel.ctes[i].nested))}
RECURSIVE Closure(_)
Closure(s) == Given(s \union UNION {Mentions(i) : i \in s}, LAMBDA t : IF t = s THEN s ELSE Closure(t))
Circular == \E i \in Closure(Range(Seeds(sel))) : i \in Closure(Mentions(i))
Twins == \E i, j \in 1 .. N : i < j /\ sel.ctes[i].name = sel.ctes[j].name
ArmMeaning(a) == BodyMeaning(sel.arms[a].body, 0)
Answerable == ~Twins /\ ~Circular /\ \A a \in DOMAIN sel.arms : ArmMeaning(a).ok
\* How many rows equal to v the first n operands leave.
Occurs(v, rows) == Len(SelectSeq(rows, LAMBDA r : SameIn(r, v, sel.coll)))
RECURSIVE Count(_, _)
Count(n, v) ==
  IF n = 1 THEN Occurs(v, ArmMeaning(1).rows)
  ELSE Given(Count(n - 1, v), LAMBDA l : Given(Occurs(v, ArmMeaning(n).rows), LAMBDA r :
         CASE sel.arms[n].op = "union all" -> l + r
           [] sel.arms[n].op = "union" -> Min({1, l + r})
           [] sel.arms[n].op = "intersect" -> Min({1, l, r})
           [] sel.arms[n].op = "except" -> IF r = 0 THEN Min({1, l}) ELSE 0))
Everything == UNION {Range(ArmMeaning(a).rows) : a \in DOMAIN sel.arms} \union Range(result)

\* What the code is known to resolve otherwise is set apart: a WITH inside a
\* CTE's body that names a sibling, a view that names a CTE in scope, and a
\* recursion with an OFFSET of its own that is stopped for the query's LIMIT.
NestedNamesSibling == \E i, j \in 1 .. N : \E n \in DOMAIN sel.ctes[i].nested : sel.ctes[j].name \in Range(sel.ctes[i].nested[n].body.from)
ViewNamesCte == \E v \in DOMAIN Views : Range(Views[v].from) \cap (Range(Names(sel.ctes)) \union Range(Names(base))) # {}
StoppedShort == OuterCap >= 0 /\ \E i \in 1 .. N : sel.ctes[i].rec # <<>> /\ First(sel.ctes[i].rec[1].offset) > 0
Foreseen == ~NestedNamesSibling /\ ~ViewNamesCte /\ ~StoppedShort
OneStep == \A i \in 1 .. N : sel.ctes[i].rec # <<>> => Len(sel.ctes[i].rec[1].steps) = 1

\* A query with WITH and compound operands answers what its text means, whatever
\* order its CTEs are written and evaluated in: it fails only if a name twice
\* bound, a circular reference, an unknown name or an endless recursion is
\* reached (push_ctes); each operand is combined as a set or a bag and LIMIT and
\* OFFSET cut the ordered rows (run_select_compound, compound_order_limit); and
\* no binding outlives it (run_select's truncate).
WithAnswers ==
  Foreseen /\ ~twice =>
    /\ pc = "error" => ~Answerable
    /\ pc \in {"sort", "done"} => Answerable
    /\ pc = "sort" /\ OuterCap < 0 => \A v \in Everything : Occurs(v, result) = Count(Len(sel.arms), v)
    /\ pc = "done" => \A i \in 1 .. Len(result) - 1 : SortTerms # <<>> => ~TermBefore(result[i + 1], result[i], SortTerms[1])
    /\ pc = "done" /\ SortTerms = <<>> /\ OneStep =>
         result = Take(Skip(FlattenSeq([a \in DOMAIN sel.arms |-> ArmMeaning(a).rows]), First(sel.offset)), First(sel.limit))
    /\ pc \in {"done", "error"} => env = base

\* A recursive CTE holds the rows that taking one row at a time from a queue
\* gives, in that order, whether it is evaluated round by round or row by row
\* (eval_recursive_cte), up to the rows the query asks for.
RecursionIsQueue ==
  pc = "combine" /\ Foreseen /\ ~twice =>
    \A i \in DOMAIN order :
      LET c == sel.ctes[order[i]]
          got == env[Len(base) + i].rows
          all == CteMeaning(order[i], 0).rows IN
      c.rec # <<>> /\ Len(c.rec[1].steps) = 1 =>
        IF OuterCap < 0 THEN got = all ELSE Take(got, OuterCap) = Take(all, OuterCap)

\* "Keep only genuinely new rows (for UNION...)": a UNION recursion never holds
\* a row twice (eval_recursive_cte).
UnionRowsNew ==
  pc = "combine" => \A i \in DOMAIN order :
    sel.ctes[order[i]].rec # <<>> /\ sel.ctes[order[i]].rec[1].distinct => IsInjective(env[Len(base) + i].rows)

\* "It can only keep a CTE that could have been dropped, never drop a referenced
\* one": a query all of whose names have a meaning does not fail.
NeverDropsReferenced == pc = "error" /\ ~ViewNamesCte => ~Answerable
=============================================================================
