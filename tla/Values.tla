------------------------------- MODULE Values -------------------------------
(***************************************************************************)
(* SQL values and how they are compared and ordered (value.rs and the      *)
(* helpers of exec/mod.rs that the executors share).                       *)
(*                                                                         *)
(* Values are numbers.  NULL is -100, the numbers -50..60 are integers,    *)
(* 100 + n is the text of the digit n, 151 152 the texts 'A' 'B', 161 162  *)
(* the texts 'a' 'b', and from 1000 on the texts group_concat makes; so <  *)
(* is the BINARY order.                                                    *)
(***************************************************************************)
EXTENDS Integers, Sequences, FiniteSets, SequencesExt, TLC

\* f(v), with v evaluated once.
Given(v, f(_)) == CHOOSE y \in {f(x) : x \in {v}} : TRUE

NULL == -100
IsText(v) == v >= 90
Digits(v) == v \in 100 .. 109
Bool(b) == IF b THEN 1 ELSE 0
\* to_number: the leading number of a text.
ToNumber(v) == CASE ~IsText(v) -> v [] Digits(v) -> v - 100 [] OTHER -> 0
\* truth: three-valued, NULL for unknown.
Truth(v) == IF v = NULL THEN NULL ELSE Bool(ToNumber(v) # 0)
Coerce(aff, v) ==
  CASE aff = "INTEGER" /\ Digits(v) -> v - 100
    [] aff = "TEXT" /\ v \in 0 .. 9 -> v + 100
    [] OTHER -> v
Image(v, coll) == IF coll = "NOCASE" /\ v \in {161, 162} THEN v - 10 ELSE v
SameIn(v, w, coll) == Image(v, coll) = Image(w, coll)
LessIn(v, w, coll) == Image(v, coll) < Image(w, coll)

\* The first and the later duplicates of a sequence under a collation.
Dedup(vals, coll) ==
  LET keep == {i \in DOMAIN vals : \A j \in 1 .. i - 1 : ~SameIn(vals[i], vals[j], coll)} IN
  [k \in 1 .. Cardinality(keep) |-> vals[CHOOSE i \in keep : Cardinality({j \in keep : j < i}) = k - 1]]
\* cmp_order: TRUE when key v comes strictly before key w; nf is whether NULLs
\* come first, by default unless the order is descending.
BeforeNulls(v, w, desc, nf, coll) ==
  IF NULL \in {v, w} THEN v # w /\ NULL = (IF nf THEN v ELSE w)
  ELSE IF desc THEN LessIn(w, v, coll) ELSE LessIn(v, w, coll)
Before(v, w, desc, coll) == BeforeNulls(v, w, desc, ~desc, coll)
\* Sort keys decide in turn; a term is [desc, coll], with nf if NULLS FIRST or
\* LAST is written.
TermBefore(v, w, t) == BeforeNulls(v, w, t.desc, IF "nf" \in DOMAIN t THEN t.nf ELSE ~t.desc, t.coll)
RowBefore(k, l, terms) ==
  \E i \in DOMAIN terms : /\ TermBefore(k[i], l[i], terms[i])
                          /\ \A j \in 1 .. i - 1 : ~TermBefore(k[j], l[j], terms[j]) /\ ~TermBefore(l[j], k[j], terms[j])
\* The value that replaces the best so far, from left to right.
Extreme(vals, max, coll) ==
  FoldLeft(LAMBDA b, v : IF (IF max THEN LessIn(b, v, coll) ELSE LessIn(v, b, coll)) THEN v ELSE b, Head(vals), Tail(vals))
\* The text group_concat makes of its parts.
Joined(vals) == 1000 + FoldLeft(LAMBDA t, v : (31 * t + v) % 10007, 0, vals)
\* rows_equal_coll.
SameKey(k, l, colls) == \A i \in DOMAIN colls : SameIn(k[i], l[i], colls[i])
Skip(rows, n) == CASE n <= 0 -> rows [] n \in 1 .. Len(rows) - 1 -> SubSeq(rows, n + 1, Len(rows)) [] OTHER -> <<>>
Take(rows, n) == IF n >= Len(rows) \/ n < 0 THEN rows ELSE SubSeq(rows, 1, n)
=============================================================================
