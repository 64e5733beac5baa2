--------------------------------- MODULE Capi ---------------------------------
(***************************************************************************)
(* The C interface (capi.rs): statement handles over one connection, the   *)
(* parameters they bind, the row they stand on and the pointers they hand  *)
(* out, incremental blobs, one-call scripts (sqlite3_exec,                 *)
(* sqlite3_get_table) and backups.                                         *)
(*                                                                         *)
(* A statement is run whole at its first step and its rows are kept: the   *)
(* handle walks through them.  The database is one table of one column,    *)
(* rowid -> value; SQL text is a record of what it does and the            *)
(* parameters in it.  A script is a sequence of statements.                *)
(***************************************************************************)
EXTENDS Naturals, Sequences, FiniteSets, SequencesExt, Functions, TLC

CONSTANTS
    Handles,      \* statement handles
    Sqls,         \* statements [op, par, lit]: what it does, its parameters, and the
                  \* value written when there is none
    Scripts,      \* sequences of statements for exec and get_table
    Values,       \* values that are bound
    Null,         \* the SQL NULL
    MaxRow,       \* bound on rowids
    MaxCalls      \* bound on the length of a behaviour

VARIABLES
    conn,         \* [rows, tx, base, last, changes] of the connection
    db,           \* [err, changes, last, stmts] of the sqlite3 handle
    stmt,         \* open handle -> [sql, names, pos, named, result, cur, next, executed, scratch]
    blob,         \* {} or the open blob [rowid, buf, dirty, readonly]
    backup,       \* {} or [image, done]
    dest,         \* the database backups are made to
    calls,        \* calls made
    bound,        \* history: handle -> parameter index -> value bound to it
    held          \* history: handle -> [row, ptrs]: the row of the last step and the
                  \*          pointers handed out since, [slot, id, val]

vars == <<conn, db, stmt, blob, backup, dest, calls, bound, held>>

-----------------------------------------------------------------------------
(* Parameters.  A parameter is [t |-> "anon"], [t |-> "num", n |-> k] or   *)
(* [t |-> "name", s |-> name].                                             *)

Resized(slots, k) == [i \in 1..(IF k > Len(slots) THEN k ELSE Len(slots)) |->
                        IF i <= Len(slots) THEN slots[i] ELSE {}]

HasName(slots, s) == \E i \in DOMAIN slots : slots[i] = {s}

(* scan_params: the slots by SQLite's numbering, each {} or {name}; and    *)
(* the slot every parameter got, as sqlite3_expanded_sql numbers them.     *)
ScanParams(par) ==
    FoldLeft(LAMBDA a, p :
        CASE p.t = "num" ->
               [slots |-> Resized(a.slots, p.n), next |-> IF p.n + 1 > a.next THEN p.n + 1 ELSE a.next,
                at |-> Append(a.at, p.n)]
          [] p.t = "anon" ->
               [slots |-> Resized(a.slots, a.next), next |-> a.next + 1, at |-> Append(a.at, a.next)]
          [] p.t = "name" /\ HasName(a.slots, p.s) ->
               [a EXCEPT !.at = Append(@, CHOOSE i \in DOMAIN a.slots : a.slots[i] = {p.s})]
          [] OTHER ->
               [slots |-> [Resized(a.slots, a.next) EXCEPT ![a.next] = {p.s}], next |-> a.next + 1,
                at |-> Append(a.at, a.next)],
        [slots |-> <<>>, next |-> 1, at |-> <<>>], par)

(* The parser's numbering: a name takes no number.                         *)
ParserNumber(par, i) ==
    LET upTo(k) == FoldLeft(LAMBDA m, p : CASE p.t = "anon" -> m + 1
                                            [] p.t = "num" -> IF p.n > m THEN p.n ELSE m
                                            [] OTHER -> m, 0, SubSeq(par, 1, k))
    IN  IF par[i].t = "num" THEN par[i].n ELSE upTo(i)

(* Params::get.                                                            *)
Get(st, i) ==
    LET p == st.sql.par[i]
        k == ParserNumber(st.sql.par, i)
    IN  IF p.t = "name" THEN IF p.s \in DOMAIN st.named THEN st.named[p.s] ELSE Null
        ELSE IF k \in DOMAIN st.pos THEN st.pos[k] ELSE Null

(* bound_value.                                                            *)
BoundValue(st, k) ==
    IF k \notin DOMAIN st.names THEN Null
    ELSE IF st.names[k] = {} THEN IF k \in DOMAIN st.pos THEN st.pos[k] ELSE Null
    ELSE LET s == CHOOSE x \in st.names[k] : TRUE
         IN  IF s \in DOMAIN st.named THEN st.named[s] ELSE Null

BindAtNext(st, k, v) ==
    IF st.names[k] # {} THEN [st EXCEPT !.named = ((CHOOSE x \in st.names[k] : TRUE) :> v) @@ @]
    ELSE [st EXCEPT !.pos = Append(@, v)]

BindAt(st, k, v) ==
    IF st.names[k] # {} THEN [st EXCEPT !.named = ((CHOOSE x \in st.names[k] : TRUE) :> v) @@ @]
    ELSE [st EXCEPT !.pos = [i \in 1..(IF k > Len(@) THEN k ELSE Len(@)) |->
                               IF i = k THEN v ELSE IF i <= Len(@) THEN @[i] ELSE Null]]

-----------------------------------------------------------------------------
(* The connection, as capi.rs uses it: every call returns [ok, conn, rows, n]. *)

Rowids(rows) == SetToSortSeq(DOMAIN rows, <)

IsRowProducer(sql) == sql.op \in {"select", "with insert"}

HasReturning(sql) == sql.op = "returning"

Refused(c) == [ok |-> FALSE, conn |-> c, rows |-> <<>>, n |-> 0]
Ran(c, rows, n) == [ok |-> TRUE, conn |-> c, rows |-> rows, n |-> n]

(* A write of v rows: rowid past the last one for an insert.               *)
Written(c, op, v) ==
    CASE op \in {"insert", "returning"} ->
           LET r == 1 + Cardinality(DOMAIN c.rows)
           IN  IF r > MaxRow THEN Refused(c)
               ELSE Ran([c EXCEPT !.rows = @ @@ (r :> v), !.last = r, !.changes = 1], <<v>>, 1)
      [] op = "update" ->
           Ran([c EXCEPT !.rows = [r \in DOMAIN @ |-> v], !.changes = Cardinality(DOMAIN c.rows)],
               <<>>, Cardinality(DOMAIN c.rows))
      [] op = "begin" -> IF c.tx THEN Refused(c) ELSE Ran([c EXCEPT !.tx = TRUE, !.base = c.rows], <<>>, 0)
      [] op = "rollback" -> IF c.tx THEN Ran([c EXCEPT !.tx = FALSE, !.rows = c.base], <<>>, 0) ELSE Refused(c)
      [] op = "commit" -> IF c.tx THEN Ran([c EXCEPT !.tx = FALSE], <<>>, 0) ELSE Refused(c)

(* The statement by the entry its class is sent to: query for a row        *)
(* producer, which refuses a write; execute_returning; execute.            *)
Run(c, sql, v) ==
    IF IsRowProducer(sql)
    THEN IF sql.op = "select" THEN Ran(c, [i \in 1..Len(Rowids(c.rows)) |-> c.rows[Rowids(c.rows)[i]]], 0)
         ELSE Refused(c)
    ELSE Written(c, sql.op, v)

(* The sqlite3 handle after a statement ran.                               *)
Noted(d, sql, r) ==
    IF ~r.ok THEN [d EXCEPT !.err = TRUE]
    ELSE IF IsRowProducer(sql) THEN d
    ELSE [d EXCEPT !.changes = IF HasReturning(sql) THEN Len(r.rows) ELSE r.n, !.last = r.conn.last]

-----------------------------------------------------------------------------
(* Statement handles. *)

NoRow == [row |-> {}, ptrs |-> {}]

(* The scratch slots of the column: each {} or the one buffer it owns,     *)
(* [id, val].  A buffer that another one replaces is freed.                *)
NoScratch == [k \in {"text", "blob", "text16", "value"} |-> {}]

Call == calls < MaxCalls /\ calls' = calls + 1

PrepareV2(h) ==
    /\ Call /\ h \notin DOMAIN stmt
    /\ \E s \in Sqls :
          /\ stmt' = stmt @@ (h :> [sql |-> s, names |-> ScanParams(s.par).slots, pos |-> <<>>,
                        named |-> <<>>, result |-> {}, cur |-> 0, next |-> 1, executed |-> FALSE,
                        scratch |-> NoScratch])
          /\ bound' = [bound EXCEPT ![h] = [k \in DOMAIN ScanParams(s.par).slots |-> Null]]
    /\ db' = [db EXCEPT !.err = FALSE, !.stmts = Append(@, h)]
    /\ held' = [held EXCEPT ![h] = NoRow]
    /\ UNCHANGED <<conn, blob, backup, dest>>

Bind(h) ==
    /\ Call /\ h \in DOMAIN stmt
    /\ \E k \in DOMAIN stmt[h].names, v \in Values :
          /\ stmt' = [stmt EXCEPT ![h] = BindAt(@, k, v)]
          /\ bound' = [bound EXCEPT ![h][k] = v]
    /\ UNCHANGED <<conn, db, blob, backup, dest, held>>

ClearBindings(h) ==
    /\ Call /\ h \in DOMAIN stmt
    /\ stmt' = [stmt EXCEPT ![h].pos = <<>>, ![h].named = <<>>]
    /\ bound' = [bound EXCEPT ![h] = [k \in DOMAIN @ |-> Null]]
    /\ UNCHANGED <<conn, db, blob, backup, dest, held>>

(* The mutant runs the statement again when it is already running.         *)
ExecutedAgain(h) ==
    LET st == stmt[h]
        r == Run(conn, st.sql, st.sql.lit)
    IN  [ok |-> r.ok, conn |-> r.conn, db |-> Noted(db, st.sql, r),
         st |-> [st EXCEPT !.executed = TRUE, !.result = IF r.ok THEN {r.rows} ELSE {}]]

(* ensure_executed: the outcome, once per run.                             *)
Executed(h) ==
    LET st == stmt[h]
        v == IF st.sql.par = <<>> THEN st.sql.lit ELSE Get(st, Len(st.sql.par))
        r == Run(conn, st.sql, v)
    IN  IF st.executed THEN [ok |-> TRUE, st |-> st, conn |-> conn, db |-> db]
        ELSE [ok |-> r.ok, conn |-> r.conn, db |-> Noted(db, st.sql, r),
              st |-> [st EXCEPT !.executed = TRUE,
                                !.result = IF r.ok /\ (IsRowProducer(st.sql) \/ HasReturning(st.sql))
                                           THEN {r.rows} ELSE {}]]

RowsOf(st) == IF st.result = {} THEN <<>> ELSE CHOOSE r \in st.result : TRUE

Step(h) ==
    /\ Call /\ h \in DOMAIN stmt
    /\ LET e == Executed(h)
           row == e.ok /\ e.st.next <= Len(RowsOf(e.st))
       IN  /\ conn' = e.conn /\ db' = e.db
           /\ stmt' = [stmt EXCEPT ![h] =
                         IF row THEN [e.st EXCEPT !.cur = e.st.next, !.next = @ + 1,
                                                  !.scratch = [NoScratch EXCEPT !.text16 = e.st.scratch.text16]]
                         ELSE e.st]
           /\ held' = [held EXCEPT ![h] =
                         IF row THEN [NoRow EXCEPT !.row = {RowsOf(e.st)[e.st.next]}] ELSE NoRow]
    /\ UNCHANGED <<blob, backup, dest, bound>>

(* The result and the scratch buffers go with the row.                     *)
ResetRun(st) == [st EXCEPT !.result = {}, !.cur = 0, !.next = 1, !.executed = FALSE, !.scratch = NoScratch]

Reset(h) ==
    /\ Call /\ h \in DOMAIN stmt
    /\ stmt' = [stmt EXCEPT ![h] = ResetRun(@)]
    /\ held' = [held EXCEPT ![h] = NoRow]
    /\ UNCHANGED <<conn, db, blob, backup, dest, bound>>

Finalize(h) ==
    /\ Call /\ h \in DOMAIN stmt
    /\ stmt' = Restrict(stmt, DOMAIN stmt \ {h})
    /\ db' = [db EXCEPT !.stmts = SelectSeq(@, LAMBDA x : x # h)]
    /\ held' = [held EXCEPT ![h] = NoRow]
    /\ UNCHANGED <<conn, blob, backup, dest, bound>>

StmtCell(st) == IF st.cur = 0 \/ st.cur > Len(RowsOf(st)) THEN {} ELSE {RowsOf(st)[st.cur]}

(* A new buffer in a slot, and the pointer to it.                          *)
Buffer(v) == [id |-> calls, val |-> v]
Pointer(slot, v) == [slot |-> slot, id |-> calls, val |-> v]

(* sqlite3_column_text, _blob, _text16 and _value: the value is put in a   *)
(* new buffer in the slot of its kind and the application gets a pointer   *)
(* to it; a NULL has no pointer, except as a value.                        *)
Column(h, kind) ==
    /\ Call /\ h \in DOMAIN stmt
    /\ LET cell == StmtCell(stmt[h])
           some == {v \in cell : kind = "value" \/ v # Null}
       IN  /\ stmt' = IF some # {} THEN [stmt EXCEPT ![h].scratch[kind] = {Buffer(v) : v \in some}] ELSE stmt
           /\ held' = IF held[h].row # {} THEN [held EXCEPT ![h].ptrs = @ \cup {Pointer(kind, v) : v \in some}]
                      ELSE held
    /\ UNCHANGED <<conn, db, blob, backup, dest, bound>>

(* sqlite3_column_name runs a row producer, and answers from the slot of   *)
(* the column's text.                                                      *)
ColumnName(h) ==
    /\ Call /\ h \in DOMAIN stmt
    /\ LET e == IF IsRowProducer(stmt[h].sql) THEN Executed(h)
                ELSE [st |-> stmt[h], conn |-> conn, db |-> db]
       IN  /\ conn' = e.conn /\ db' = e.db
           /\ stmt' = [stmt EXCEPT ![h] = IF e.st.result = {} THEN e.st
                                          ELSE [e.st EXCEPT !.scratch.text = {Buffer("name")}]]
           /\ held' = IF e.st.result # {} /\ held[h].row # {}
                      THEN [held EXCEPT ![h].ptrs = @ \cup {Pointer("text", "name")}] ELSE held
    /\ UNCHANGED <<blob, backup, dest, bound>>

ColumnCount(h) ==
    /\ Call /\ h \in DOMAIN stmt /\ IsRowProducer(stmt[h].sql)
    /\ LET e == Executed(h)
       IN  conn' = e.conn /\ db' = e.db /\ stmt' = [stmt EXCEPT ![h] = e.st]
    /\ UNCHANGED <<blob, backup, dest, bound, held>>

-----------------------------------------------------------------------------
(* Scripts: sqlite3_exec stops at a callback that asks for it, and         *)
(* sqlite3_get_table at a result of another width; both stop at an error   *)
(* and keep what ran before.                                               *)

RunScript(script, stopAtRow) ==
    FoldLeft(LAMBDA a, sql :
        IF a.stop THEN a
        ELSE LET r == Run(a.conn, sql, sql.lit)
             IN  [conn |-> r.conn,
                  db |-> IF r.ok /\ stopAtRow /\ r.rows # <<>>
                         THEN [Noted(a.db, sql, r) EXCEPT !.err = TRUE, !.last = r.conn.last]
                         ELSE IF r.ok THEN [Noted(a.db, sql, r) EXCEPT !.last = r.conn.last]
                         ELSE Noted(a.db, sql, r),
                  stop |-> ~r.ok \/ (stopAtRow /\ r.rows # <<>>)],
        [conn |-> conn, db |-> [db EXCEPT !.err = FALSE], stop |-> FALSE], script)

Exec ==
    /\ Call
    /\ \E script \in Scripts, abort \in BOOLEAN :
          conn' = RunScript(script, abort).conn /\ db' = RunScript(script, abort).db
    /\ UNCHANGED <<stmt, blob, backup, dest, bound, held>>

-----------------------------------------------------------------------------
(* Incremental blobs: the value is read at open and written back at close  *)
(* or reopen, when it was changed.                                         *)

BlobOpen ==
    /\ Call /\ blob = {}
    /\ \E r \in 1..MaxRow, ro \in BOOLEAN :
          IF r \in DOMAIN conn.rows
          THEN blob' = {[rowid |-> r, buf |-> conn.rows[r], dirty |-> FALSE, readonly |-> ro]} /\ UNCHANGED db
          ELSE blob' = {} /\ db' = [db EXCEPT !.err = TRUE]
    /\ UNCHANGED <<conn, stmt, backup, dest, bound, held>>

BlobWrite ==
    /\ Call
    /\ \E b \in blob, v \in Values :
          ~b.readonly /\ b.buf # Null /\ blob' = {[b EXCEPT !.buf = v, !.dirty = TRUE]}
    /\ UNCHANGED <<conn, db, stmt, backup, dest, bound, held>>

BlobFlush(b) ==
    IF b.dirty /\ ~b.readonly /\ b.rowid \in DOMAIN conn.rows
    THEN [conn EXCEPT !.rows[b.rowid] = b.buf, !.changes = 1] ELSE conn

BlobReopen ==
    /\ Call
    /\ \E b \in blob, r \in 1..MaxRow :
          LET c == BlobFlush(b)
          IN  /\ conn' = c
              /\ blob' = IF r \in DOMAIN c.rows
                         THEN {[b EXCEPT !.rowid = r, !.buf = c.rows[r], !.dirty = FALSE]}
                         ELSE {[b EXCEPT !.dirty = FALSE]}
    /\ UNCHANGED <<db, stmt, backup, dest, bound, held>>

BlobClose ==
    /\ Call
    /\ \E b \in blob : conn' = BlobFlush(b)
    /\ blob' = {}
    /\ UNCHANGED <<db, stmt, backup, dest, bound, held>>

-----------------------------------------------------------------------------
(* Backups: an image taken at init, installed by the first step. *)

BackupInit ==
    /\ Call /\ backup = {}
    /\ backup' = {[image |-> conn.rows, done |-> FALSE]}
    /\ UNCHANGED <<conn, db, stmt, blob, dest, bound, held>>

BackupStep ==
    /\ Call
    /\ \E b \in backup : ~b.done /\ dest' = b.image /\ backup' = {[b EXCEPT !.done = TRUE]}
    /\ UNCHANGED <<conn, db, stmt, blob, bound, held>>

BackupFinish ==
    /\ Call /\ backup # {} /\ backup' = {}
    /\ UNCHANGED <<conn, db, stmt, blob, dest, bound, held>>

-----------------------------------------------------------------------------
Init ==
    /\ conn = [rows |-> (1 :> Null), tx |-> FALSE, base |-> <<>>, last |-> 1, changes |-> 0]
    /\ db = [err |-> FALSE, changes |-> 0, last |-> 0, stmts |-> <<>>]
    /\ stmt = <<>>
    /\ blob = {} /\ backup = {} /\ dest = <<>> /\ calls = 0
    /\ bound = [h \in Handles |-> <<>>] /\ held = [h \in Handles |-> NoRow]

StatementCall(h) ==
    \/ PrepareV2(h) \/ Bind(h) \/ ClearBindings(h) \/ Step(h) \/ Reset(h) \/ Finalize(h)
    \/ \E kind \in DOMAIN NoScratch : Column(h, kind)
    \/ ColumnName(h) \/ ColumnCount(h)

Next ==
    \/ \E h \in Handles : StatementCall(h)
    \/ Exec \/ BlobOpen \/ BlobWrite \/ BlobReopen \/ BlobClose
    \/ BackupInit \/ BackupStep \/ BackupFinish

Spec == Init /\ [][Next]_vars

-----------------------------------------------------------------------------
Mixed(par) == (\E p \in ToSet(par) : p.t = "name") /\ (\E p \in ToSet(par) : p.t # "name")

(* A value bound to parameter k of a statement is the value the statement  *)
(* reads there and the one sqlite3_expanded_sql shows: the numberings of   *)
(* bind, of the parser and of the expansion agree, through rebinding and   *)
(* clearing.  (Not when names and numbers are mixed in one statement.)     *)
ParametersAgree ==
    \A h \in DOMAIN stmt : LET st == stmt[h] IN
        ~Mixed(st.sql.par) => \A i \in DOMAIN st.sql.par :
            LET k == ScanParams(st.sql.par).at[i]
            IN  Get(st, i) = bound[h][k] /\ BoundValue(st, k) = bound[h][k]

(* The row the last step of a statement delivered stands until its next    *)
(* step or reset, whatever is written meanwhile; and of the pointers taken *)
(* since, the last one into each slot is to a live buffer that shows the   *)
(* row's value, or the column's name.  An earlier one into the same slot   *)
(* is to memory that was freed, although sqlite3_stmt says that all of     *)
(* them are good until the next step.                                      *)
CurrentRowStands ==
    \A h \in Handles : \A v \in held[h].row :
        /\ StmtCell(stmt[h]) = {v}
        /\ \A p \in held[h].ptrs :
              /\ p.val \in {v, "name"}
              /\ (\A q \in held[h].ptrs : q.slot = p.slot => q.id <= p.id) =>
                   stmt[h].scratch[p.slot] = {[id |-> p.id, val |-> p.val]}
=============================================================================
