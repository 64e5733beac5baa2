--------------------------------- MODULE Fts5 ---------------------------------
(***************************************************************************)
(* Maintenance of the full-text index of a table with its own content      *)
(* (exec/mod.rs, the fts5_* functions; fts5_index.rs, SegStructure and the  *)
(* merges).  The documents live in %_content; the index is a set of        *)
(* segments arranged in levels.  A statement outside a transaction appends *)
(* one segment, with delete markers for the old terms; a transaction logs  *)
(* its operations and writes them at COMMIT, or before a SAVEPOINT opens,   *)
(* in batches of ascending rowids.  Segments of a level are merged, newest  *)
(* posting first, and whatever cannot be done incrementally falls back to  *)
(* rebuilding the index from the documents.                                *)
(*                                                                         *)
(* A document is a sequence of columns, each a sequence of terms.  A       *)
(* segment maps <<term, rowid>> to its posting, and its size in leaves is   *)
(* the number of its postings over LeafPostings.  The levels written here  *)
(* never have a merge in progress (n_merge is 0).                          *)
(***************************************************************************)
EXTENDS Integers, Sequences, SequencesExt, FiniteSetsExt, TLC

CONSTANTS
    Statements,     \* the statements to run
    Details,        \* the detail= options of the table
    AutoMerge,      \* AUTOMERGE: segments in a level worth merging
    Crisis,         \* CRISIS: segments in a level that force a merge
    WorkUnit,       \* WORK_UNIT: leaves between two rounds of merging
    LeafPostings,   \* postings that fit on a leaf
    DlidxPostings,  \* more postings of a term than this need a doclist index
    MaxStatements   \* bound on the length of a behaviour

VARIABLES
    detail,         \* the detail= option
    content,        \* %_content: rowid -> document
    ix,             \* the index tables: [levels, wc, data, docsize, avg]
    str,            \* the structure record being changed: [levels, wc]
    phase,          \* where the write of a segment is
    jobs,           \* the batches still to be written
    after,          \* what follows the batches: [done, fail]
    rem,            \* n_rem of the merge in progress
    lvl,            \* the level the crisis merge looks at
    txn,            \* [open, dirty, rebuild, ops, spUsed, spBail] of the connection
    base,           \* the pages ROLLBACK restores: <<content, ix>>
    saves,          \* the open savepoints: a sequence of <<content, ix>>
    n,              \* statements run
    seen            \* history: what happened that a property excludes

vars == <<detail, content, ix, str, phase, jobs, after, rem, lvl, txn, base, saves, n, seen>>
writing == <<str, phase, jobs, after, rem, lvl>>

-----------------------------------------------------------------------------
(* Documents and postings. *)

TermsOf(doc) == UNION {ToSet(doc[c]) : c \in DOMAIN doc}

PositionsIn(column, t) ==
    LET at == SelectSeq([i \in 1..Len(column) |-> i], LAMBDA i : column[i] = t)
    IN  [i \in 1..Len(at) |-> at[i] - 1]

Positions(doc, t) == [c \in 1..Len(doc) |-> PositionsIn(doc[c], t)]

NoPositions(doc) == [c \in 1..Len(doc) |-> <<>>]

(* A posting is [rowid, cols, del]: the token positions of a term in each  *)
(* column of a document, and the delete mark.                              *)
HasContent(p) == \E c \in DOMAIN p.cols : p.cols[c] # <<>>

(* What a reader gets back from a posting: the trailing empty columns are  *)
(* not stored, `columns` keeps one dummy position per column, and `none`   *)
(* keeps nothing but the delete flag.                                      *)
Decoded(p, d) ==
    LET last == Max({1} \cup {c \in DOMAIN p.cols : p.cols[c] # <<>>})
        kept(c) == IF d = "full" \/ p.cols[c] = <<>> THEN p.cols[c] ELSE <<0>>
    IN  [p EXCEPT !.cols = IF d = "none" THEN <<>> ELSE [c \in 1..last |-> kept(c)]]

(* The postings of a set of documents (fts5_tokenize_docs).                *)
TokenizeDocs(docs) ==
    [k \in UNION {{<<t, r>> : t \in TermsOf(docs[r])} : r \in DOMAIN docs} |->
        [rowid |-> k[2], cols |-> Positions(docs[k[2]], k[1]), del |-> FALSE]]

(* The segment of a batch of changes [rowid, old, new], old and new being  *)
(* empty or one document: a delete marker for every old term, the new      *)
(* positions for every new term, both in one posting when a term stays.    *)
BatchSegment(entries) ==
    LET marks(seg, e) ==
          [k \in UNION {{<<t, e.rowid>> : t \in TermsOf(d)} : d \in e.old} |->
             IF k \in DOMAIN seg THEN seg[k]
             ELSE [rowid |-> e.rowid, del |-> TRUE,
                   cols |-> NoPositions(CHOOSE d \in e.old : TRUE)]] @@ seg
        inserts(seg, e) ==
          [k \in UNION {{<<t, e.rowid>> : t \in TermsOf(d)} : d \in e.new} |->
             [rowid |-> e.rowid, del |-> k \in DOMAIN seg /\ seg[k].del,
              cols |-> Positions(CHOOSE d \in e.new : TRUE, k[1])]] @@ seg
    IN  FoldLeft(LAMBDA seg, e : inserts(marks(seg, e), e), <<>>, entries)

Leaves(seg) == (Cardinality(DOMAIN seg) + LeafPostings - 1) \div LeafPostings

Spanning(seg) ==
    \E k \in DOMAIN seg : Cardinality({j \in DOMAIN seg : j[1] = k[1]}) > DlidxPostings

-----------------------------------------------------------------------------
(* SegStructure. *)

SegidsOf(levels) == UNION {{s.id : s \in ToSet(levels[i])} : i \in DOMAIN levels}

AllocateSegid(levels) == Min((1..1 + Cardinality(SegidsOf(levels))) \ SegidsOf(levels))

SizeOf(segs) == FoldLeft(LAMBDA a, s : a + s.size, 0, segs)

PromoteTo(levels, i, sz) ==
    LET above == FlattenSeq([k \in 1..Len(levels) - i |-> Reverse(levels[i + k])])
        larger == {j \in DOMAIN above : above[j].size > sz}
        taken == IF larger = {} THEN Len(above) ELSE Min(larger) - 1
        moved == SubSeq(above, 1, taken)
        rest(k) == SelectSeq(levels[k], LAMBDA s : s \notin ToSet(moved))
    IN  [k \in 1..Len(levels) |-> IF k < i THEN levels[k]
                                  ELSE IF k = i THEN Reverse(moved) \o levels[k]
                                  ELSE rest(k)]

Promote(levels, i) ==
    IF i > Len(levels) \/ levels[i] = <<>> THEN levels
    ELSE LET size == Last(levels[i]).size
             below == {k \in 1..i - 1 : levels[k] # <<>>}
             largest == IF below = {} THEN 0 ELSE Max({s.size : s \in ToSet(levels[Max(below)])})
         IN  IF below # {} /\ largest >= size THEN PromoteTo(levels, Max(below), largest)
             ELSE PromoteTo(levels, i, size)

AppendLevel0(s, id, leaves) ==
    LET levels == IF s.levels = <<>> THEN << <<>> >> ELSE s.levels
    IN  [levels |-> Promote([levels EXCEPT ![1] = Append(@, [id |-> id, size |-> leaves])], 1),
         wc |-> s.wc + leaves]

-----------------------------------------------------------------------------
(* Merging the segments of a level. *)

MergeLevelPostingsPlain(segs, oldest, d) ==
    LET newest == FoldLeft(LAMBDA m, seg : seg @@ m, <<>>, segs)
        read(k) == Decoded(newest[k], d)
        kept == {k \in DOMAIN newest : HasContent(read(k)) \/ d = "none"}
    IN  [k \in kept |-> read(k)]

(* Newest segment wins; a posting without positions goes when it is no     *)
(* delete marker or nothing older is left for it to hide.                  *)
MergeLevelPostings(segs, oldest, d) ==
    LET newest == FoldLeft(LAMBDA m, seg : seg @@ m, <<>>, segs)
        read(k) == Decoded(newest[k], d)
        empty(k) == ~HasContent(read(k)) /\ (d # "none" \/ newest[k].del)
        kept == {k \in DOMAIN newest : ~(empty(k) /\ (oldest \/ ~newest[k].del))}
    IN  [k \in kept |-> read(k)]

WithLevel(levels, i) == IF i < Len(levels) THEN levels ELSE Append(levels, <<>>)

(* What fts5_merge_level does to the structure and the data table; it does *)
(* nothing (bails) when the inputs are more than `limit` leaves or one of  *)
(* their leaves is missing.                                                *)
MergeBails(i, limit) ==
    \/ SizeOf(str.levels[i]) > limit
    \/ \E s \in ToSet(str.levels[i]) : s.size > 0 /\ s.id \notin DOMAIN ix.data

MergeLevel(i) ==
    LET levels == WithLevel(str.levels, i)
        inputs == levels[i]
        segs == [j \in 1..Len(inputs) |-> IF inputs[j].size = 0 THEN <<>> ELSE ix.data[inputs[j].id]]
        oldest == levels[i + 1] = <<>> /\ Len(levels) = i + 1
        out == MergeLevelPostings(segs, oldest, detail)
        id == AllocateSegid(str.levels)
        size == Leaves(out)
        gone == {s.id : s \in ToSet(inputs)}
        merged == [levels EXCEPT ![i] = <<>>,
                                 ![i + 1] = IF size = 0 THEN @ ELSE Append(@, [id |-> id, size |-> size])]
    IN  [levels |-> Promote(merged, i + 1), size |-> size,
         data |-> [s \in (DOMAIN ix.data \ gone) \cup (IF size = 0 THEN {} ELSE {id}) |->
                      IF s = id THEN out ELSE ix.data[s]]]

(* The level with the most segments, the lowest among equals.              *)
BestLevel(levels) ==
    IF levels = <<>> THEN 0
    ELSE CHOOSE i \in DOMAIN levels :
            \A k \in DOMAIN levels : \/ Len(levels[i]) > Len(levels[k])
                                     \/ Len(levels[i]) = Len(levels[k]) /\ i <= k

-----------------------------------------------------------------------------
(* The batches a transaction's operations are written in: a new batch      *)
(* starts when the rowid goes down, or repeats after an insert.  In a      *)
(* batch, a rowid keeps its first old document and its last new one.       *)

EventsOf(op) ==
    CASE op.op = "insert" -> <<[rowid |-> op.rowid, del |-> FALSE, doc |-> op.new]>>
      [] op.op = "delete" -> <<[rowid |-> op.rowid, del |-> TRUE, doc |-> op.old]>>
      [] op.op = "update" -> <<[rowid |-> op.rowid, del |-> TRUE, doc |-> op.old],
                               [rowid |-> op.rowid, del |-> FALSE, doc |-> op.new]>>

AddEvent(batch, ev) ==
    LET at == {i \in DOMAIN batch : batch[i].rowid = ev.rowid}
        put(e) == IF ev.del THEN [e EXCEPT !.old = IF @ = {} THEN {ev.doc} ELSE @]
                  ELSE [e EXCEPT !.new = {ev.doc}]
    IN  IF at = {} THEN Append(batch, put([rowid |-> ev.rowid, old |-> {}, new |-> {}]))
        ELSE [i \in 1..Len(batch) |-> IF i \in at THEN put(batch[i]) ELSE batch[i]]

SplitsBatch(acc, ev) ==
    Last(acc.batches) # <<>> /\ (ev.rowid < acc.row \/ (ev.rowid = acc.row /\ ~acc.del))

SimulateBatches(ops) ==
    LET step(acc, ev) ==
          [row |-> ev.rowid, del |-> ev.del,
           batches |-> IF SplitsBatch(acc, ev) THEN Append(acc.batches, AddEvent(<<>>, ev))
                       ELSE [acc.batches EXCEPT ![Len(acc.batches)] = AddEvent(@, ev)]]
        run == FoldLeft(step, [row |-> 0, del |-> FALSE, batches |-> << <<>> >>],
                        FlattenSeq([i \in 1..Len(ops) |-> EventsOf(ops[i])]))
    IN  SelectSeq(run.batches, LAMBDA b : b # <<>>)

-----------------------------------------------------------------------------
(* The rebuild from the documents. *)

Rebuilt(docs) ==
    LET seg == TokenizeDocs(docs)
    IN  [levels |-> IF DOMAIN seg = {} THEN <<>> ELSE << <<[id |-> 1, size |-> Leaves(seg)]>> >>,
         wc |-> Leaves(seg),
         data |-> IF DOMAIN seg = {} THEN <<>> ELSE 1 :> seg,
         docsize |-> DOMAIN docs, avg |-> Cardinality(DOMAIN docs)]

(* fts5_incremental_write: what is not in %_docsize yet becomes one batch. *)
NewDocs(docs, docsize) ==
    LET rowids == SetToSortSeq(DOMAIN docs \ docsize, <)
    IN  [i \in 1..Len(rowids) |-> [rowid |-> rowids[i], old |-> {}, new |-> {docs[rowids[i]]}]]

Job(entries, last, mayBeEmpty) == [entries |-> entries, last |-> last, mayBeEmpty |-> mayBeEmpty]

BatchJobs(batches) ==
    [i \in 1..Len(batches) |-> Job(batches[i], i = Len(batches), FALSE)]

Autocommit == ~txn.open /\ saves = <<>>

Idle == phase = "idle"

(* fts5_incremental_write, or the rebuild when a document is gone.         *)
IncrementalWrite(docs, done) ==
    LET gone == ix.docsize \ DOMAIN docs # {}
    IN  /\ jobs' = IF gone THEN <<>> ELSE
                   IF NewDocs(docs, ix.docsize) = <<>> THEN <<>>
                   ELSE <<Job(NewDocs(docs, ix.docsize), TRUE, TRUE)>>
        /\ ix' = IF gone THEN Rebuilt(docs) ELSE ix
        /\ after' = [done |-> done, fail |-> "rebuild"]
        /\ phase' = "append"
        /\ UNCHANGED <<str, rem, lvl>>

WriteBatches(batches, done, fail) ==
    /\ jobs' = BatchJobs(batches)
    /\ after' = [done |-> done, fail |-> fail]
    /\ phase' = "append"
    /\ UNCHANGED <<ix, str, rem, lvl>>

-----------------------------------------------------------------------------
(* Writing one segment. *)

(* The write of this segment is given up: rebuild, remember the table for  *)
(* a rebuild at the end of the transaction, or go on to fts5_maybe_rebuild. *)
GiveUp(index) ==
    CASE after.fail = "rebuild" ->
            /\ ix' = Rebuilt(content)
            /\ jobs' = <<>> /\ phase' = "append"
            /\ UNCHANGED <<str, after, rem, lvl, txn, seen>>
      [] after.fail = "bail" ->
            /\ ix' = index
            /\ txn' = [txn EXCEPT !.spBail = TRUE]
            /\ jobs' = <<>> /\ phase' = "append"
            /\ UNCHANGED <<str, after, rem, lvl, seen>>
      [] after.fail = "maybe" ->
            LET gone == index.docsize \ DOMAIN content # {}
            IN  /\ ix' = IF gone THEN Rebuilt(content) ELSE index
                /\ jobs' = IF gone \/ NewDocs(content, index.docsize) = <<>> THEN <<>>
                           ELSE <<Job(NewDocs(content, index.docsize), TRUE, TRUE)>>
                /\ after' = [after EXCEPT !.fail = "rebuild"]
                /\ seen' = [seen EXCEPT !.bailedUpdate = @ \/ ~gone]
                /\ phase' = "append"
                /\ UNCHANGED <<str, rem, lvl, txn>>

(* The statement fails.  A write outside a transaction is rolled back; a   *)
(* failing COMMIT or RELEASE leaves what it has written so far.            *)
Fails ==
    /\ content' = IF after.done = "statement" THEN base[1] ELSE content
    /\ ix' = IF after.done = "statement" THEN base[2] ELSE ix
    /\ seen' = [seen EXCEPT !.failed = TRUE]
    /\ phase' = "idle" /\ jobs' = <<>>
    /\ UNCHANGED <<detail, str, after, rem, lvl, txn, base, saves, n>>

AppendSegment ==
    /\ phase = "append" /\ jobs # <<>>
    /\ LET job == Head(jobs)
           seg == BatchSegment(job.entries)
           id == AllocateSegid(ix.levels)
           leaves == Leaves(seg)
           s == AppendLevel0([levels |-> ix.levels, wc |-> ix.wc], id, leaves)
           work == (s.wc \div WorkUnit) - ((s.wc - leaves) \div WorkUnit)
       IN  \/ /\ (DOMAIN seg = {} /\ ~job.mayBeEmpty) \/ Spanning(seg)
              /\ GiveUp(ix)
              /\ UNCHANGED <<detail, content, base, saves, n>>
           \/ /\ ~((DOMAIN seg = {} /\ ~job.mayBeEmpty) \/ Spanning(seg))
              /\ id \in DOMAIN ix.data
              /\ Fails
           \/ /\ ~((DOMAIN seg = {} /\ ~job.mayBeEmpty) \/ Spanning(seg))
              /\ id \notin DOMAIN ix.data
              /\ str' = s
              /\ ix' = [ix EXCEPT !.data = IF leaves = 0 THEN @ ELSE @ @@ (id :> seg)]
              /\ rem' = WorkUnit * work * Len(s.levels)
              /\ phase' = "automerge"
              /\ UNCHANGED <<detail, content, jobs, after, lvl, txn, base, saves, n, seen>>

(* Remember a merge that loses the content of a rewritten posting.         *)
Rewrites(i) ==
    \E s \in ToSet(str.levels[i]) : s.size > 0 /\ s.id \in DOMAIN ix.data
        /\ \E k \in DOMAIN ix.data[s.id] : ix.data[s.id][k].del /\ HasContent(ix.data[s.id][k])

MergeStep(i, limit) ==
    \/ /\ MergeBails(i, limit)
       /\ GiveUp(ix)
       /\ UNCHANGED <<detail, content, base, saves, n>>
    \/ /\ ~MergeBails(i, limit)
       /\ LET m == MergeLevel(i)
          IN  /\ str' = [str EXCEPT !.levels = m.levels]
              /\ ix' = [ix EXCEPT !.data = m.data]
              /\ rem' = rem - m.size
       /\ seen' = [seen EXCEPT !.rewritten = @ \/ Rewrites(i)]
       /\ lvl' = lvl + 1
       /\ UNCHANGED <<detail, content, phase, jobs, after, txn, base, saves, n>>

Automerging == rem > 0 /\ str.levels # <<>> /\ Len(str.levels[BestLevel(str.levels)]) >= AutoMerge

Automerge ==
    /\ phase = "automerge" /\ Automerging
    /\ MergeStep(BestLevel(str.levels), rem)

AutomergeDone ==
    /\ phase = "automerge" /\ ~Automerging
    /\ phase' = "crisis" /\ lvl' = 1
    /\ UNCHANGED <<detail, content, ix, str, jobs, after, rem, txn, base, saves, n, seen>>

InCrisis == lvl <= Len(str.levels) /\ Len(str.levels[lvl]) >= Crisis

Crisismerge ==
    /\ phase = "crisis" /\ InCrisis
    /\ MergeStep(lvl, SizeOf(str.levels[lvl]))

(* The structure record, the averages with the last batch, and %_docsize.  *)
Persist ==
    /\ phase = "crisis" /\ ~InCrisis
    /\ LET job == Head(jobs)
           old == {e.rowid : e \in {x \in ToSet(job.entries) : x.old # {}}}
           new == SelectSeq(job.entries, LAMBDA e : e.new # {})
           twice == \/ \E i, j \in DOMAIN new : i # j /\ new[i].rowid = new[j].rowid
                    \/ \E i \in DOMAIN new : new[i].rowid \in ix.docsize \ old
       IN  \/ twice /\ Fails
           \/ /\ ~twice
              /\ ix' = [ix EXCEPT !.levels = str.levels, !.wc = str.wc,
                                  !.avg = IF job.last THEN Cardinality(DOMAIN content) ELSE @,
                                  !.docsize = (@ \ old) \cup {e.rowid : e \in ToSet(new)}]
              /\ jobs' = Tail(jobs) /\ phase' = "append"
              /\ UNCHANGED <<detail, content, str, after, rem, lvl, txn, base, saves, n, seen>>

-----------------------------------------------------------------------------
(* Statements. *)

NoTxn == [open |-> FALSE, dirty |-> FALSE, rebuild |-> FALSE, ops |-> <<>>,
          spUsed |-> FALSE, spBail |-> FALSE]

Log(ops, rebuild) ==
    txn' = [txn EXCEPT !.dirty = TRUE, !.rebuild = @ \/ rebuild, !.ops = @ \o ops,
                       !.spUsed = @ \/ saves # <<>>]

(* An index change: at once outside a transaction, logged inside one.      *)
LogOnly(ops, rebuild) == Log(ops, rebuild) /\ UNCHANGED <<ix, writing>>

InsertedDocs(rows) == FoldLeft(LAMBDA c, r : (r[1] :> r[2]) @@ c, content, rows)

(* For INSERT OR REPLACE, the document each row replaces: none, or what    *)
(* the table held before the statement (an empty list of values for a row  *)
(* the statement itself inserted).                                         *)
ReplacedBy(rows, i) ==
    LET r == rows[i][1]
    IN  IF r \in DOMAIN content THEN {content[r]}
        ELSE IF \E j \in 1..i - 1 : rows[j][1] = r THEN {<<>>} ELSE {}

ExecInsert(s) ==
    LET conflict == \E i \in DOMAIN s.rows : \/ s.rows[i][1] \in DOMAIN content
                                             \/ \E j \in 1..i - 1 : s.rows[j][1] = s.rows[i][1]
        old(i) == ReplacedBy(s.rows, i)
        op(i) == IF s.replace /\ old(i) # {}
                 THEN [op |-> "update", rowid |-> s.rows[i][1], new |-> s.rows[i][2],
                       old |-> CHOOSE d \in old(i) : TRUE]
                 ELSE [op |-> "insert", rowid |-> s.rows[i][1], new |-> s.rows[i][2]]
        hasReplace == \E i \in DOMAIN s.rows : old(i) # {}
        entry(i) == [rowid |-> s.rows[i][1], new |-> {s.rows[i][2]},
                     old |-> IF old(i) = {} THEN {<<>>} ELSE old(i)]
    IN  /\ s.op = "insert"
        /\ conflict => s.replace
        /\ content' = InsertedDocs(s.rows)
        /\ seen' = [seen EXCEPT !.twice = @ \/ \E i \in DOMAIN s.rows : old(i) = {<<>>}]
        /\ IF ~Autocommit
           THEN LogOnly([i \in 1..Len(s.rows) |-> op(i)], s.replace /\ hasReplace)
           ELSE /\ IF s.replace /\ hasReplace
                   THEN WriteBatches(<<[i \in 1..Len(s.rows) |-> entry(i)]>>, "statement", "rebuild")
                   ELSE IncrementalWrite(InsertedDocs(s.rows), "statement")
                /\ UNCHANGED txn

(* fts5_maybe_rebuild after a statement that changed no document: inside a *)
(* transaction the table is still remembered as one to flush.              *)
MaybeRebuild ==
    \/ /\ Autocommit
       /\ IncrementalWrite(content, "statement")
       /\ UNCHANGED txn
    \/ /\ ~Autocommit
       /\ txn' = [txn EXCEPT !.dirty = TRUE]
       /\ UNCHANGED <<ix, writing>>

ExecDelete(s) ==
    LET victims == SetToSortSeq(s.where \cap DOMAIN content, <)
        op(i) == [op |-> "delete", rowid |-> victims[i], old |-> content[victims[i]]]
        entry(i) == [rowid |-> victims[i], old |-> {content[victims[i]]}, new |-> {}]
    IN  /\ s.op = "delete"
        /\ content' = [r \in DOMAIN content \ s.where |-> content[r]]
        /\ IF victims = <<>> THEN MaybeRebuild
           ELSE IF ~Autocommit THEN LogOnly([i \in 1..Len(victims) |-> op(i)], TRUE)
           ELSE /\ WriteBatches(<<[i \in 1..Len(victims) |-> entry(i)]>>, "statement", "maybe")
                /\ UNCHANGED txn
        /\ UNCHANGED seen

ExecUpdate(s) ==
    LET rows == SetToSortSeq(s.where \cap DOMAIN content, <)
        op(i) == [op |-> "update", rowid |-> rows[i], old |-> content[rows[i]], new |-> s.doc]
        entry(i) == [rowid |-> rows[i], old |-> {content[rows[i]]}, new |-> {s.doc}]
    IN  /\ s.op = "update"
        /\ content' = [r \in DOMAIN content |-> IF r \in s.where THEN s.doc ELSE content[r]]
        /\ IF rows = <<>> THEN MaybeRebuild
           ELSE IF ~Autocommit THEN LogOnly([i \in 1..Len(rows) |-> op(i)], TRUE)
           ELSE /\ WriteBatches(<<[i \in 1..Len(rows) |-> entry(i)]>>, "statement", "maybe")
                /\ UNCHANGED txn
        /\ UNCHANGED seen

(* INSERT INTO t(t) VALUES('rebuild').                                     *)
ExecRebuild(s) ==
    /\ s.op = "rebuild"
    /\ ix' = Rebuilt(content)
    /\ seen' = [seen EXCEPT !.rebuiltInTxn = @ \/ txn.ops # <<>>]
    /\ UNCHANGED <<content, writing, txn>>

Execute ==
    /\ Idle /\ n < MaxStatements
    /\ n' = n + 1
    /\ \E s \in Statements : ExecInsert(s) \/ ExecDelete(s) \/ ExecUpdate(s) \/ ExecRebuild(s)
    /\ base' = IF Autocommit THEN <<content, ix>> ELSE base
    /\ UNCHANGED <<detail, saves>>

-----------------------------------------------------------------------------
(* Transactions. *)

Step == Idle /\ n < MaxStatements /\ n' = n + 1

Begin ==
    /\ Step /\ Autocommit
    /\ txn' = [txn EXCEPT !.open = TRUE]
    /\ base' = <<content, ix>>
    /\ UNCHANGED <<detail, content, ix, writing, saves, seen>>

NothingToFlush(done) ==
    /\ jobs' = <<>> /\ phase' = "append"
    /\ after' = [done |-> done, fail |-> "rebuild"]
    /\ UNCHANGED <<ix, str, rem, lvl>>

(* SAVEPOINT writes the logged operations before it opens.                 *)
Savepoint ==
    /\ Step
    /\ IF txn.dirty /\ ~txn.spBail /\ txn.ops # <<>>
       THEN WriteBatches(SimulateBatches(txn.ops), "savepoint", "bail")
       ELSE NothingToFlush("savepoint")
    /\ txn' = [txn EXCEPT !.spUsed = @ \/ txn.dirty]
    /\ base' = IF Autocommit THEN <<content, ix>> ELSE base
    /\ UNCHANGED <<detail, content, saves, seen>>

(* fts5_flush_txn at the end of the transaction.                           *)
FinalFlush(done) ==
    LET batches == SimulateBatches(txn.ops)
    IN  IF ~txn.dirty THEN NothingToFlush(done)
        ELSE IF txn.spUsed
        THEN IF txn.spBail
             THEN /\ ix' = Rebuilt(content)
                  /\ jobs' = <<>> /\ phase' = "append"
                  /\ after' = [done |-> done, fail |-> "rebuild"]
                  /\ UNCHANGED <<str, rem, lvl>>
             ELSE WriteBatches(batches, done, "rebuild")
        ELSE IF Len(batches) <= 1 /\ ~txn.rebuild THEN IncrementalWrite(content, done)
        ELSE WriteBatches(batches, done, "rebuild")

Commit ==
    /\ Step /\ ~Autocommit
    /\ FinalFlush("commit")
    /\ UNCHANGED <<detail, content, txn, base, saves, seen>>

Release ==
    /\ Step
    /\ \E k \in DOMAIN saves :
          /\ saves' = SubSeq(saves, 1, k - 1)
          /\ IF k = 1 /\ ~txn.open THEN FinalFlush("commit")
             ELSE UNCHANGED <<ix, writing>>
    /\ UNCHANGED <<detail, content, txn, base, seen>>

RollbackTo ==
    /\ Step
    /\ \E k \in DOMAIN saves :
          /\ saves' = SubSeq(saves, 1, k)
          /\ content' = saves[k][1] /\ ix' = saves[k][2]
    /\ txn' = [txn EXCEPT !.ops = <<>>]
    /\ UNCHANGED <<detail, writing, base, seen>>

Rollback ==
    /\ Step /\ ~Autocommit
    /\ content' = base[1] /\ ix' = base[2]
    /\ txn' = NoTxn /\ saves' = <<>>
    /\ UNCHANGED <<detail, writing, base, seen>>

(* All batches are written.                                                *)
Complete ==
    /\ phase = "append" /\ jobs = <<>>
    /\ phase' = "idle"
    /\ CASE after.done = "statement" -> UNCHANGED <<txn, saves>>
         [] after.done = "savepoint" ->
              /\ saves' = Append(saves, <<content, ix>>)
              /\ txn' = [txn EXCEPT !.ops = IF txn.spBail THEN @ ELSE <<>>]
         [] after.done = "commit" -> txn' = NoTxn /\ saves' = <<>>
    /\ UNCHANGED <<detail, content, ix, str, jobs, after, rem, lvl, base, n, seen>>

EmptyIndex == [levels |-> <<>>, wc |-> 0, data |-> <<>>, docsize |-> {}, avg |-> 0]

Init ==
    /\ detail \in Details
    /\ content = <<>> /\ ix = EmptyIndex
    /\ str = [levels |-> <<>>, wc |-> 0]
    /\ phase = "idle" /\ jobs = <<>> /\ after = [done |-> "statement", fail |-> "rebuild"]
    /\ rem = 0 /\ lvl = 1
    /\ txn = NoTxn /\ base = <<content, ix>> /\ saves = <<>>
    /\ n = 0
    /\ seen = [bailedUpdate |-> FALSE, rewritten |-> FALSE, twice |-> FALSE,
               rebuiltInTxn |-> FALSE, failed |-> FALSE]

Next ==
    \/ Execute \/ Begin \/ Savepoint \/ Commit \/ Release \/ RollbackTo \/ Rollback
    \/ AppendSegment \/ Automerge \/ AutomergeDone \/ Crisismerge \/ Persist \/ Complete

Spec == Init /\ [][Next]_vars

-----------------------------------------------------------------------------
(* Lookups. *)

(* The segments from the oldest to the newest.                             *)
ByAge(levels) == FlattenSeq([k \in 1..Len(levels) |-> levels[Len(levels) + 1 - k]])

(* What a reader that honours delete markers sees.                         *)
Effective ==
    LET segs == ByAge(ix.levels)
        newest == FoldLeft(LAMBDA m, s : IF s.size = 0 THEN m ELSE ix.data[s.id] @@ m, <<>>, segs)
        live == {k \in DOMAIN newest : ~newest[k].del \/ HasContent(newest[k])}
    IN  [k \in live |-> Decoded([newest[k] EXCEPT !.del = FALSE], detail)]

Excluded == seen.failed \/ seen.bailedUpdate \/ seen.twice \/ (detail = "none" /\ seen.rewritten)

-----------------------------------------------------------------------------
(* Between transactions the index is the index of the documents: reading   *)
(* all segments, newest first and honouring the delete markers, gives the  *)
(* postings of the documents, %_docsize has their rowids, the averages     *)
(* count them, and the data table holds the listed segments and no other.  *)
IndexIsContent ==
    Idle /\ Autocommit /\ ~Excluded =>
        /\ \A s \in ToSet(ByAge(ix.levels)) : s.size > 0 => s.id \in DOMAIN ix.data
        /\ DOMAIN ix.data \subseteq SegidsOf(ix.levels)
        /\ Effective = [k \in DOMAIN TokenizeDocs(content) |-> Decoded(TokenizeDocs(content)[k], detail)]
        /\ ix.docsize = DOMAIN content
        /\ ix.avg = Cardinality(DOMAIN content)

(* The same without exception: the index is never wrong after a statement  *)
(* outside a transaction, whatever the incremental write gave up on.       *)
IndexNeverWrong ==
    Idle /\ Autocommit /\ ~(seen.failed \/ seen.twice) /\ detail = "full" =>
        \A k \in DOMAIN TokenizeDocs(content) : k \in DOMAIN Effective

-----------------------------------------------------------------------------
(***************************************************************************)
(* MATCH over a full-text table (vtab.rs, fts5_lex to fts5_bare_term_bool_  *)
(* tree; fts5_index.rs, the lookups; exec/mod.rs, fts5_index_match_rowids   *)
(* and fts5_try_index_match).  A query is lexed and parsed; some shapes are *)
(* answered from the segments of the index, every other one by scanning    *)
(* the documents; the rows found are filtered by the whole WHERE again.    *)
(*                                                                         *)
(* The text of a query is a sequence of items, each what the lexer reads   *)
(* in one turn: a parenthesis, a braced column list, a word or a quoted    *)
(* text with its column, or a NEAR group.  A text is the sequence of its   *)
(* tokens.  The tokens of a document are stemmed already.                  *)
(***************************************************************************)

CONSTANTS
    Columns,    \* the names of the columns, all of them indexed
    TermOrder,  \* the terms, in the order of their bytes
    Extends,    \* a token of a query -> the terms that start with its stem
    Stem,       \* a token of a query -> the term it stands for
    U32,        \* the number of values of the index's distance type
    Wheres      \* the WHERE clauses asked

-----------------------------------------------------------------------------
(* The lexer. *)

ColSet(names, negated) == [names |-> names, negated |-> negated]

LexTerm(it) ==
    IF it.text = <<>> THEN <<>>
    ELSE <<[lex |-> "term",
            term |-> [columns |-> [i \in 1..Len(it.col) |-> ColSet({it.col[i]}, FALSE)],
                      phrase |-> it.text, anchored |-> it.caret,
                      prefix |-> it.item = "word" /\ it.star]]>>

Failed == <<[lex |-> "error"]>>

(* One turn of the loop; a column filter may not be followed by braces.    *)
LexItem(items, i) ==
    LET it == items[i]
        bracesNext == i < Len(items) /\ items[i + 1].item = "braces" /\ ~items[i + 1].negated
    IN  CASE it.item \in {"(", ")"} -> <<[lex |-> it.item]>>
          [] it.item = "braces" ->
               IF ~it.colon \/ it.names = {} \/ bracesNext THEN Failed
               ELSE <<[lex |-> "filter", set |-> ColSet(it.names, it.negated)]>>
          [] it.item = "minus" -> <<[lex |-> "filter", set |-> ColSet({it.name}, TRUE)]>>
          [] it.item = "word" /\ it.col = <<>> /\ it.raw \in {"AND", "OR", "NOT"} ->
               <<[lex |-> it.raw]>>
          [] it.item \in {"word", "quoted"} ->
               IF it.col # <<>> /\ it.text = <<>> /\ bracesNext THEN Failed ELSE LexTerm(it)

UpToError(lexed) ==
    LET failed == {i \in DOMAIN lexed : lexed[i] = Failed}
    IN  FlattenSeq(IF failed = {} THEN lexed ELSE SubSeq(lexed, 1, Min(failed)))

(* fts5_parse_near: the terms of the group, and 10 when no distance ends it. *)
LexNear(it) ==
    LET inside == UpToError([i \in 1..Len(it.inside) |-> LexItem(it.inside, i)])
        terms == SelectSeq(inside, LAMBDA t : t.lex = "term")
    IN  IF terms = <<>> THEN <<>>
        ELSE <<[lex |-> "near", terms |-> [i \in 1..Len(terms) |-> terms[i].term],
                dist |-> IF it.dist = <<>> THEN 10 ELSE it.dist[1]]>>

Lex(items) ==
    UpToError([i \in 1..Len(items) |-> IF items[i].item = "near" THEN LexNear(items[i])
                                       ELSE LexItem(items, i)])

-----------------------------------------------------------------------------
(* The parser: each operator returns whether it read a query, the query,   *)
(* and the position after it.                                              *)

Read(q, at) == [ok |-> TRUE, q |-> q, at |-> at]
Nothing(at) == [ok |-> FALSE, q |-> [node |-> "none"], at |-> at]
At(ts, p) == IF p <= Len(ts) THEN ts[p].lex ELSE "end"

RECURSIVE ApplyColFilter(_, _)
ApplyColFilter(q, set) ==
    CASE q.node = "near" ->
           [q EXCEPT !.terms = [i \in 1..Len(q.terms) |->
                                   [q.terms[i] EXCEPT !.columns = Append(@, set)]]]
      [] q.node \in {"AND", "OR", "NOT"} ->
           [q EXCEPT !.left = ApplyColFilter(@, set), !.right = ApplyColFilter(@, set)]
      [] OTHER -> [q EXCEPT !.terms = <<[@[1] EXCEPT !.columns = Append(@, set)]>>]

RECURSIVE ParseOr(_, _), ParsePrimary(_, _), Operands(_, _, _)

ParsePrimary(ts, p) ==
    CASE At(ts, p) = "(" ->
           LET inner == ParseOr(ts, p + 1)
           IN  [inner EXCEPT !.at = IF At(ts, @) = ")" THEN @ + 1 ELSE @]
      [] At(ts, p) = "term" -> Read([node |-> "term", terms |-> <<ts[p].term>>], p + 1)
      [] At(ts, p) = "near" ->
           Read([node |-> "near", terms |-> ts[p].terms, dist |-> ts[p].dist], p + 1)
      [] At(ts, p) = "filter" ->
           LET inner == ParsePrimary(ts, p + 1)
           IN  IF inner.ok THEN [inner EXCEPT !.q = ApplyColFilter(@, ts[p].set)] ELSE inner
      [] OTHER -> Nothing(p)

(* Two operands side by side are joined by AND.                            *)
Joins(ts, p, level) ==
    \/ At(ts, p) = level
    \/ level = "AND" /\ At(ts, p) \in {"term", "near", "(", "filter"}

Operands(ts, left, level) ==
    IF ~left.ok \/ ~Joins(ts, left.at, level) THEN left
    ELSE LET p == IF At(ts, left.at) = level THEN left.at + 1 ELSE left.at
             operand == ParsePrimary(ts, p)
             right == CASE level = "NOT" -> operand
                        [] level = "AND" -> Operands(ts, operand, "NOT")
                        [] level = "OR" -> Operands(ts, Operands(ts, operand, "NOT"), "AND")
         IN  IF ~right.ok THEN [left EXCEPT !.at = right.at]
             ELSE Operands(ts, Read([node |-> level, left |-> left.q, right |-> right.q], right.at), level)

ParseOr(ts, p) == Operands(ts, Operands(ts, Operands(ts, ParsePrimary(ts, p), "NOT"), "AND"), "OR")

Parse(items) == ParseOr(Lex(items), 1)

-----------------------------------------------------------------------------
(* Matching the documents. *)

Admits(set, column) == (column \in set.names) # set.negated
AdmitsColumn(term, column) == \A i \in DOMAIN term.columns : Admits(term.columns[i], column)

Agrees(term, k, token) ==
    IF k = Len(term.phrase) /\ term.prefix THEN token \in Extends[term.phrase[k]]
    ELSE token = Stem[term.phrase[k]]

TermStarts(term, tokens) ==
    SelectSeq([s \in 1..Len(tokens) |-> s - 1],
              LAMBDA s : /\ s + Len(term.phrase) <= Len(tokens)
                         /\ \A k \in DOMAIN term.phrase : Agrees(term, k, tokens[s + k])
                         /\ term.anchored => s = 0)

(* fts5_near_matches: of the phrases at their pointers, the one that       *)
(* starts first moves on until the window is small enough.                 *)
RECURSIVE NearFrom(_, _, _)
NearFrom(phrases, ptr, dist) ==
    LET start(i) == phrases[i].starts[ptr[i]]
        first == CHOOSE i \in DOMAIN phrases :
                    \A j \in DOMAIN phrases : \/ start(i) < start(j)
                                              \/ start(i) = start(j) /\ i <= j
        maxEnd == Max({start(i) + phrases[i].len - 1 : i \in DOMAIN phrases})
        total == FoldLeft(LAMBDA a, p : a + p.len, 0, phrases)
    IN  \/ maxEnd - start(first) < dist + total
        \/ /\ ptr[first] < Len(phrases[first].starts)
           /\ NearFrom(phrases, [ptr EXCEPT ![first] = @ + 1], dist)

NearMatches(phrases, dist) ==
    /\ \A i \in DOMAIN phrases : phrases[i].starts # <<>>
    /\ NearFrom(phrases, [i \in DOMAIN phrases |-> 1], dist)

Positioned(terms, tokens) ==
    [i \in 1..Len(terms) |-> [starts |-> TermStarts(terms[i], tokens), len |-> Len(terms[i].phrase)]]

(* fts5_eval over the columns `cols` of a document.                        *)
RECURSIVE Eval(_, _, _)
Eval(q, doc, cols) ==
    CASE q.node = "term" ->
           \E c \in cols : /\ AdmitsColumn(q.terms[1], Columns[c])
                           /\ TermStarts(q.terms[1], doc[c]) # <<>>
      [] q.node = "near" ->
           \E c \in cols : /\ \A i \in DOMAIN q.terms : AdmitsColumn(q.terms[i], Columns[c])
                           /\ NearMatches(Positioned(q.terms, doc[c]), q.dist)
      [] q.node = "AND" -> Eval(q.left, doc, cols) /\ Eval(q.right, doc, cols)
      [] q.node = "OR"  -> Eval(q.left, doc, cols) \/ Eval(q.right, doc, cols)
      [] q.node = "NOT" -> Eval(q.left, doc, cols) /\ ~Eval(q.right, doc, cols)
      [] q.node = "none" -> FALSE

(* fts5_match_columns: the operand names a column or the table.            *)
OperandColumns(operand) ==
    IF operand = "table" THEN 1..Len(Columns) ELSE {c \in 1..Len(Columns) : Columns[c] = operand}

-----------------------------------------------------------------------------
(* Lookups in the segments. *)

SegmentsOf(levels) == UNION {ToSet(levels[k]) : k \in DOMAIN levels}

Hits(s, terms) == {k \in DOMAIN ix.data[s.id] : k[1] \in terms}
RowidsIn(s, terms) == {k[2] : k \in Hits(s, terms)}

Bail == [bail |-> TRUE, rowids |-> {}]
Found(rowids) == [bail |-> FALSE, rowids |-> rowids]

(* segments_leaves, decode_term_strict, merge_segments: a lookup gives up  *)
(* on an empty segment, a missing leaf, a delete marker, or a rowid found  *)
(* in two segments.                                                        *)
Unservable(terms) ==
    \/ SegmentsOf(ix.levels) = {}
    \/ \E s \in SegmentsOf(ix.levels) : s.size = 0 \/ s.id \notin DOMAIN ix.data
    \/ \E s \in SegmentsOf(ix.levels) : \E k \in Hits(s, terms) : ix.data[s.id][k].del
    \/ \E s1, s2 \in SegmentsOf(ix.levels) :
          s1.id # s2.id /\ RowidsIn(s1, terms) \cap RowidsIn(s2, terms) # {}

(* merge_segments keeps one posting per rowid: the one of the first term.  *)
FirstTerm(terms, r) ==
    LET has == {i \in DOMAIN TermOrder : /\ TermOrder[i] \in terms
                                         /\ \E s \in SegmentsOf(ix.levels) :
                                               <<TermOrder[i], r>> \in DOMAIN ix.data[s.id]}
    IN  TermOrder[Min(has)]

Posting(t, r) ==
    LET s == CHOOSE s \in SegmentsOf(ix.levels) : <<t, r>> \in DOMAIN ix.data[s.id]
    IN  Decoded(ix.data[s.id][<<t, r>>], detail)

AllRowids(terms) == UNION {RowidsIn(s, terms) : s \in SegmentsOf(ix.levels)}

Col(p, c) == IF c \in DOMAIN p.cols THEN p.cols[c] ELSE <<>>

LookupRowids(terms) == IF Unservable(terms) THEN Bail ELSE Found(AllRowids(terms))

LookupRowidsInColumn(terms, c) ==
    IF Unservable(terms) THEN Bail
    ELSE Found({r \in AllRowids(terms) : Col(Posting(FirstTerm(terms, r), r), c) # <<>>})

(* decode_terms_multiseg and the merge of the terms' lists: the documents  *)
(* with every term whose postings agree.                                   *)
LookupTogether(terms, agree(_)) ==
    IF Unservable(ToSet(terms)) THEN Bail
    ELSE LET rowids == {r \in AllRowids(ToSet(terms)) : \A i \in DOMAIN terms : r \in AllRowids({terms[i]})}
         IN  Found({r \in rowids : agree([i \in 1..Len(terms) |-> Posting(terms[i], r)])})

(* phrase_run_matches: a position of the first term that the others follow. *)
PhraseRunMatches(ps, cols) ==
    \E c \in cols : \E p \in ToSet(Col(ps[1], c)) :
        \A i \in 2..Len(ps) : p + i - 1 \in ToSet(Col(ps[i], c))

NearLimitShort(dist) == dist
NearLimit(dist) == dist + 1

(* near_within_in_column: two pointers, the smaller position moves on.     *)
RECURSIVE NearWithin(_, _, _)
NearWithin(pa, pb, limit) ==
    /\ pa # <<>> /\ pb # <<>>
    /\ LET a == Head(pa)
           b == Head(pb)
       IN  \/ (IF a < b THEN b - a ELSE a - b) <= limit
           \/ IF a < b THEN NearWithin(Tail(pa), pb, limit) ELSE NearWithin(pa, Tail(pb), limit)

(* eval_bool_tree.                                                         *)
RECURSIVE LookupBoolTree(_)
LookupBoolTree(q) ==
    IF q.node = "term" THEN LookupRowids({Stem[q.terms[1].phrase[1]]})
    ELSE LET a == LookupBoolTree(q.left)
             b == LookupBoolTree(q.right)
         IN  IF a.bail \/ b.bail THEN Bail
             ELSE CASE q.node = "AND" -> Found(a.rowids \cap b.rowids)
                    [] q.node = "OR" -> Found(a.rowids \cup b.rowids)
                    [] q.node = "NOT" -> Found(a.rowids \ b.rowids)

-----------------------------------------------------------------------------
(* Which shapes go to the index (fts5_single_bare_term and its siblings).  *)

BareTerm(t) == t.columns = <<>> /\ ~t.prefix /\ ~t.anchored /\ Len(t.phrase) = 1

RECURSIVE IsBoolTree(_)
IsBoolTree(q) ==
    CASE q.node = "term" -> BareTerm(q.terms[1])
      [] q.node \in {"AND", "OR", "NOT"} -> IsBoolTree(q.left) /\ IsBoolTree(q.right)
      [] OTHER -> FALSE

(* The one column a lone term is limited to: the filter of its own prefix. *)
SingleColumn(t) ==
    IF Len(t.columns) = 1 /\ ~t.columns[1].negated /\ Cardinality(t.columns[1].names) = 1
    THEN {c \in 1..Len(Columns) : Columns[c] \in t.columns[1].names}
    ELSE {}

LoneTerm(lexed) ==
    /\ Len(lexed) = 1 /\ lexed[1].lex = "term"
    /\ ~lexed[1].term.anchored
    /\ lexed[1].term.columns = <<>> \/ SingleColumn(lexed[1].term) # {}

SingleTerm(lexed) == LoneTerm(lexed) /\ ~lexed[1].term.prefix /\ Len(lexed[1].term.phrase) = 1
SinglePrefix(lexed) == LoneTerm(lexed) /\ lexed[1].term.prefix /\ Len(lexed[1].term.phrase) = 1
Phrase(lexed) == LoneTerm(lexed) /\ ~lexed[1].term.prefix /\ Len(lexed[1].term.phrase) > 1

TwoTermNear(lexed) ==
    /\ Len(lexed) = 1 /\ lexed[1].lex = "near"
    /\ Len(lexed[1].terms) = 2 /\ \A i \in 1..2 : BareTerm(lexed[1].terms[i])

Shape(lexed, q) ==
    CASE SingleTerm(lexed) -> "term"
      [] Phrase(lexed) -> "phrase"
      [] TwoTermNear(lexed) -> "near"
      [] SinglePrefix(lexed) -> "prefix"
      [] OTHER -> IF IsBoolTree(q) THEN "bool" ELSE "scan"

(* fts5_index_match_rowids.                                                *)
IndexMatchRowids(lexed, q) ==
    LET shape == Shape(lexed, q)
        t == lexed[1].term
        all == 1..Len(Columns)
        lookup(terms) == IF t.columns = <<>> THEN LookupRowids(terms)
                         ELSE LookupRowidsInColumn(terms, CHOOSE c \in SingleColumn(t) : TRUE)
        keys(ts) == [i \in 1..Len(ts) |-> Stem[ts[i]]]
    IN  IF detail # "full" \/ shape = "scan" THEN Bail
        ELSE IF ix.data = <<>> THEN Found({})
        ELSE CASE shape = "term" -> lookup({Stem[t.phrase[1]]})
               [] shape = "prefix" -> lookup(Extends[t.phrase[1]])
               [] shape = "phrase" ->
                    LookupTogether(keys(t.phrase), LAMBDA ps :
                        PhraseRunMatches(ps, IF t.columns = <<>> THEN all ELSE SingleColumn(t)))
               [] shape = "near" ->
                    LookupTogether(keys(<<lexed[1].terms[1].phrase[1], lexed[1].terms[2].phrase[1]>>),
                        LAMBDA ps : \E c \in all :
                            NearWithin(Col(ps[1], c), Col(ps[2], c), NearLimit(lexed[1].dist % U32)))
               [] shape = "bool" -> LookupBoolTree(q)

-----------------------------------------------------------------------------
(* A WHERE clause: a MATCH [items, operand], a set of rowids, or two of    *)
(* them under AND, OR or NOT.  Lexed and parsed once for each MATCH.       *)

RECURSIVE MatchesIn(_)
MatchesIn(w) ==
    CASE w.where = "match" -> <<w>>
      [] w.where = "rowids" -> <<>>
      [] OTHER -> MatchesIn(w.left) \o MatchesIn(w.right)

Asked == UNION {ToSet(MatchesIn(w)) : w \in Wheres}
LexedOf == [m \in Asked |-> Lex(m.items)]
ParsedOf == [m \in Asked |-> Parse(m.items).q]

RECURSIVE Holds(_, _, _)
Holds(w, r, doc) ==
    CASE w.where = "match" -> Eval(ParsedOf[w], doc, OperandColumns(w.operand))
      [] w.where = "rowids" -> r \in w.rowids
      [] w.where = "AND" -> Holds(w.left, r, doc) /\ Holds(w.right, r, doc)
      [] w.where = "OR" -> Holds(w.left, r, doc) \/ Holds(w.right, r, doc)
      [] w.where = "NOT" -> ~Holds(w.left, r, doc)

RECURSIVE FilterNames(_)
FilterNames(q) ==
    CASE q.node \in {"term", "near"} ->
           UNION {UNION {set.names : set \in ToSet(q.terms[i].columns)} : i \in DOMAIN q.terms}
      [] q.node = "none" -> {}
      [] OTHER -> FilterNames(q.left) \cup FilterNames(q.right)

(* fts5_query_column_error: a syntax error, or a filter on no column.      *)
QueryError(m) ==
    \/ \E i \in DOMAIN LexedOf[m] : LexedOf[m][i].lex = "error"
    \/ ~(FilterNames(ParsedOf[m]) \subseteq ToSet(Columns))

(* fts5_try_index_match: the first MATCH of the clause (fts5_match_query),  *)
(* when its operand is the table, may narrow the rows to the ones the      *)
(* index returns; a table with logged changes is always scanned.           *)
Candidates(w) ==
    LET ms == MatchesIn(w)
        found == IF ms = <<>> \/ txn.dirty THEN Bail
                 ELSE IF ms[1].operand # "table" THEN Bail
                 ELSE IndexMatchRowids(LexedOf[ms[1]], ParsedOf[ms[1]])
    IN  IF found.bail THEN DOMAIN content ELSE found.rowids \cap DOMAIN content

Answer(w) == {r \in Candidates(w) : Holds(w, r, content[r])}

-----------------------------------------------------------------------------
(* What a query means, from its definition.                                *)

RECURSIVE Means(_, _, _)
Means(q, doc, cols) ==
    CASE q.node = "near" ->
           \E c \in cols :
              /\ \A i \in DOMAIN q.terms : AdmitsColumn(q.terms[i], Columns[c])
              /\ LET ps == Positioned(q.terms, doc[c])
                     total == FoldLeft(LAMBDA a, p : a + p.len, 0, ps)
                 IN  \E at \in [DOMAIN ps -> 0..Len(doc[c])] :
                        /\ \A i \in DOMAIN ps : at[i] \in ToSet(ps[i].starts)
                        /\ \A i, j \in DOMAIN ps : at[i] + ps[i].len - 1 - at[j] < q.dist + total
      [] q.node = "AND" -> Means(q.left, doc, cols) /\ Means(q.right, doc, cols)
      [] q.node = "OR"  -> Means(q.left, doc, cols) \/ Means(q.right, doc, cols)
      [] q.node = "NOT" -> Means(q.left, doc, cols) /\ ~Means(q.right, doc, cols)
      [] OTHER -> Eval(q, doc, cols)

RECURSIVE Meant(_, _, _)
Meant(w, r, doc) ==
    CASE w.where = "match" -> Means(ParsedOf[w], doc, OperandColumns(w.operand))
      [] w.where = "rowids" -> r \in w.rowids
      [] w.where = "AND" -> Meant(w.left, r, doc) /\ Meant(w.right, r, doc)
      [] w.where = "OR" -> Meant(w.left, r, doc) \/ Meant(w.right, r, doc)
      [] w.where = "NOT" -> ~Meant(w.left, r, doc)

(* Where the index is known to lose documents: a MATCH under OR or NOT, a   *)
(* prefix limited to a column with two terms of the document, and a        *)
(* distance beyond the index's type.                                       *)
LosesRows(w) ==
    \/ w.where \in {"OR", "NOT"}
    \/ \E m \in ToSet(MatchesIn(w)) :
          LET lexed == LexedOf[m]
          IN  \/ \E i \in DOMAIN lexed : lexed[i].lex = "near" /\ lexed[i].dist >= U32
              \/ /\ Shape(lexed, ParsedOf[m]) = "prefix" /\ lexed[1].term.columns # <<>>
                 /\ \E r \in DOMAIN content :
                       Cardinality(TermsOf(content[r]) \cap Extends[lexed[1].term.phrase[1]]) > 1

(* A MATCH finds exactly the documents it asks for.  For a term, a phrase, *)
(* a prefix, a NEAR or a boolean tree, with or without a column, and       *)
(* whatever the segments of the index look like after inserts, updates,    *)
(* deletes, merges and rollbacks, answering from the index or scanning the *)
(* documents gives the rows that satisfy the clause by definition.  Not    *)
(* claimed (LosesRows): a MATCH under OR or NOT, a NEAR distance beyond    *)
(* 32 bits, and a prefix in a column that several terms of one document    *)
(* extend.                                                                 *)
MatchServesTheDocuments ==
    Idle /\ ~Excluded =>
        \A w \in Wheres :
            (\A m \in ToSet(MatchesIn(w)) : ~QueryError(m)) /\ ~LosesRows(w) =>
                Answer(w) = {r \in DOMAIN content : Meant(w, r, content[r])}

(* The same for every clause: the rows the index returns are a superset of *)
(* the clause's, since the clause is applied to them again.                *)
IndexIsSuperset ==
    Idle /\ ~Excluded =>
        \A w \in Wheres : {r \in DOMAIN content : Holds(w, r, content[r])} \subseteq Candidates(w)
=============================================================================
