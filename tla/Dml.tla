-------------------------------- MODULE Dml --------------------------------
(***************************************************************************)
(* INSERT, UPDATE and DELETE of a connection, row by row: conflict         *)
(* clauses, UPSERT, foreign-key actions, triggers, AUTOINCREMENT, the      *)
(* session's record of changes, and when indexes are brought up to date.   *)
(*                                                                         *)
(* A table maps a rowid (its INTEGER PRIMARY KEY) to a row [u, p].  Column *)
(* u has a UNIQUE index, kept apart as it is on disk; p may refer to u of  *)
(* the parent table.  Calls that run other statements (triggers,           *)
(* foreign-key actions) are frames of a stack; each action is what the     *)
(* code does between two of those calls.                                   *)
(***************************************************************************)
EXTENDS Integers, Sequences, FiniteSets, SequencesExt, FiniteSetsExt

CONSTANTS
  MaxId,       \* the largest rowid, i64::MAX
  BadKey,      \* a value of u that a CHECK constraint refuses
  DefaultP,    \* DEFAULT of p
  MaxDepth,    \* MAX_TRIGGER_DEPTH
  Configs,     \* what the tables declare
  Tables,      \* contents of the tables before the statement
  Stmts        \* statements

Null == 0
Names == {"t", "c"}

VARIABLES
  cfg,      \* [auto, decl, nn, fk, trig, recursive]
  tab,      \* the tables: name |-> (key |-> row)
  idx,      \* entries <<u, key>> of their UNIQUE indexes
  seq,      \* sqlite_sequence: the value for "t"
  stack,    \* frames, the running one last
  ignore,   \* raise_ignore
  keep,     \* stmt_keep_partial
  touched,  \* the session: name |-> (key |-> the row first recorded, <<>> if none)
  out,      \* outcome: "idle", "running", "ok", "error", "partial"
  saved,    \* the statement's savepoint
  seen      \* history: see NothingSeen

vars == <<cfg, tab, idx, seq, stack, ignore, keep, touched, out, saved, seen>>

----------------------------------------------------------------------------
(* Tables, indexes, the session *)

Entries(rows) == {<<rows[i].u, i>> : i \in DOMAIN rows}
Without(f, s) == [i \in DOMAIN f \ s |-> f[i]]
Set(f, i, r) == [j \in DOMAIN f \cup {i} |-> IF j = i THEN r ELSE f[j]]
Ascending(s) == SetToSortSeq(s, <)

\* record_session_change: the first time a key is touched, with the row it had.
Record(s, n, i, old) == IF i \in DOMAIN s[n] THEN s ELSE [s EXCEPT ![n] = Set(@, i, old)]

\* Mutant of RecordUpdate: a row that changes its key is recorded under the old one only.
RecordUpdateOld(s, n, i, old, j) == Record(s, n, i, <<old>>)

RecordUpdate(s, n, i, old, j) == Record(Record(s, n, i, <<old>>), n, j, <<>>)

Auto(n) == cfg.auto /\ n = "t"

\* next_rowid and auto_rowid: saturating; a random free rowid when the largest is taken.
NextRowid(n) == IF DOMAIN tab[n] = {} THEN 1 ELSE Min({Max(DOMAIN tab[n]) + 1, MaxId})
AutoRowid(n, cand) ==
  IF cand < MaxId \/ cand \notin DOMAIN tab[n] THEN {cand}
  ELSE IF Auto(n) THEN {} ELSE (1 .. MaxId) \ DOMAIN tab[n]

----------------------------------------------------------------------------
(* Conflicts *)

\* conflict_candidates: the row of the same key and those the UNIQUE index names.
ConflictCandidates(n, i, u) ==
  ({i} \cup {e[2] : e \in {x \in idx[n] : u # Null /\ x[1] = u}}) \cap DOMAIN tab[n]

\* find_conflicts_ordered: [declared, rows] of each violated constraint, the primary
\* key first; `self' is the row being updated.
FindConflictsOrdered(n, i, u, self) ==
  LET cands == ConflictCandidates(n, i, u) \ {self}
      same  == {c \in cands : tab[n][c].u = u}
  IN  (IF i \in cands THEN <<[declared |-> "abort", rows |-> {i}]>> ELSE <<>>)
      \o (IF u # Null /\ same # {} THEN <<[declared |-> cfg.decl, rows |-> same]>> ELSE <<>>)

\* resolve_conflict: the first constraint whose policy is not REPLACE decides.
ResolveConflict(violations, oc) ==
  LET policy(v) == IF oc = "none" THEN v.declared ELSE oc
      stops == SelectSeq([k \in DOMAIN violations |-> policy(violations[k])], LAMBDA x : x # "replace")
  IN  IF stops # <<>> THEN [do |-> Head(stops), rows |-> {}]
      ELSE [do |-> "replace", rows |-> UNION {violations[k].rows : k \in DOMAIN violations}]

\* resolve_not_null: p as it will be stored, or what happens instead.
ResolveNotNull(p, oc) ==
  LET policy == IF oc = "none" THEN cfg.nn ELSE oc
  IN  IF p # Null \/ cfg.nn = "nullable" THEN [do |-> "go", p |-> p]
      ELSE IF policy = "replace" /\ DefaultP # Null THEN [do |-> "go", p |-> DefaultP]
      ELSE [do |-> IF policy = "replace" THEN "abort" ELSE policy, p |-> p]

\* upsert_target_row, wr_upsert_target: the conflicting row an ON CONFLICT clause is about.
UpsertTargetRow(n, clause, conflicts, i, u) ==
  CASE clause.target = "any" -> IF conflicts = <<>> THEN {} ELSE {Head(conflicts)}
    [] clause.target = "id"  -> {i} \cap Range(conflicts)
    [] OTHER -> {c \in Range(conflicts) : u # Null /\ tab[n][c].u = u}

----------------------------------------------------------------------------
(* Frames *)

Top == stack[Len(stack)]
Goto(f) == stack' = [stack EXCEPT ![Len(stack)] = f]
Call(f, g) == stack' = Append([stack EXCEPT ![Len(stack)] = f], g)
Return == stack' = Front(stack)
At(op, pc) == out = "running" /\ stack # <<>> /\ Top.op = op /\ Top.pc = pc

\* An error unwinds every frame.
Failed == stack' = <<[op |-> "failed", pc |-> "end"]>>
Raise(policy) ==
  /\ Failed /\ keep' = (keep \/ policy = "fail")
  /\ UNCHANGED <<tab, idx, seq, ignore, touched, seen>>

TriggerDepth == Cardinality({k \in DOMAIN stack : stack[k].op = "trigger"})
FkDepth == Cardinality({k \in DOMAIN stack : stack[k].op = "fk"})

\* triggers_for, collect_triggers.
HasTrigger(n, event, timing) ==
  /\ cfg.trig # <<>> /\ cfg.trig[1].tbl = n
  /\ cfg.trig[1].event = event /\ cfg.trig[1].timing = timing

\* The filters of fire_triggers: UPDATE OF, and a trigger that is already running
\* when recursive_triggers is off.
Fires(n, event, timing, changed) ==
  /\ HasTrigger(n, event, timing)
  /\ event = "update" /\ cfg.trig[1].of # {} => cfg.trig[1].of \cap changed # {}
  /\ cfg.recursive \/ TriggerDepth = 0

Trigger(timing) == [op |-> "trigger", pc |-> "run", timing |-> timing]

\* fire_triggers, with the frame to go on with.
FireTriggers(n, event, timing, changed, f) ==
  IF TriggerDepth >= MaxDepth THEN Failed
  ELSE IF Fires(n, event, timing, changed) THEN Call(f, Trigger(timing))
  ELSE Goto(f)

----------------------------------------------------------------------------
(* Statements: the frame a statement starts as *)

\* SET col = value or col = col + value, of row i.
Assigned(set, i, r) ==
  LET val(c, x) == IF c \notin DOMAIN set THEN x
                   ELSE IF set[c][1] = "is" THEN set[c][2]
                   ELSE IF x = Null THEN Null ELSE x + set[c][2]
  IN  [id |-> val("id", i), u |-> val("u", r.u), p |-> val("p", r.p)]

\* exec_insert_inner up to the first row: next_auto.
StartInsert(s) ==
  [op |-> "insert", pc |-> "row", t |-> s.t, todo |-> s.rows, oc |-> s.oc, up |-> s.up,
   n |-> 0, rep |-> FALSE, kill |-> <<>>,
   auto |-> IF Auto(s.t) THEN Max({NextRowid(s.t), seq + 1}) ELSE NextRowid(s.t)]

MatchingRowids(n, where) == Ascending(where \cap DOMAIN tab[n])
OrderLimitRowids(ids, limit) == SubSeq(ids, 1, Min({Len(ids), limit}))

\* exec_update_inner, first pass: every target row and what it becomes, before any
\* row is written.
StartUpdate(s) ==
  LET ids == OrderLimitRowids(MatchingRowids(s.t, s.where), s.limit)
  IN  [op |-> "update", pc |-> "row", t |-> s.t, oc |-> s.oc, changed |-> DOMAIN s.set, n |-> 0,
       reread |-> FALSE,
       todo |-> [k \in DOMAIN ids |->
                   [id |-> ids[k], old |-> tab[s.t][ids[k]],
                    new |-> Assigned(s.set, ids[k], tab[s.t][ids[k]])]] \o <<>>]

\* exec_delete_inner up to the first victim.
StartDelete(s) ==
  [op |-> "delete", pc |-> "row", t |-> s.t, n |-> 0, old |-> <<>>,
   todo |-> OrderLimitRowids(MatchingRowids(s.t, s.where), s.limit)]

\* exec_view_insert, exec_view_update, exec_view_delete: one INSTEAD OF firing per row.
StartView(s) == [op |-> "view", pc |-> "row", t |-> s.t, todo |-> s.rows, event |-> s.event, n |-> 0]

Start(s) == CASE s.op = "insert" -> StartInsert(s) [] s.op = "update" -> StartUpdate(s)
              [] s.op = "delete" -> StartDelete(s) [] OTHER -> StartView(s)

\* run_dml_atomic: the savepoint, then the statement.
Begin ==
  /\ out = "idle" /\ out' = "running"
  /\ \E s \in Stmts : stack' = <<Start(s)>>
  /\ saved' = [tab |-> tab, idx |-> idx, seq |-> seq, touched |-> touched]
  /\ UNCHANGED <<cfg, tab, idx, seq, ignore, keep, touched, seen>>

----------------------------------------------------------------------------
(* Foreign keys *)

ParentHasKey(p) == \E i \in DOMAIN tab[cfg.fk[1].parent] : tab[cfg.fk[1].parent][i].u = p

\* check_fk_child with child_key_values.
FkChildOk(n, p) == cfg.fk = <<>> \/ cfg.fk[1].child # n \/ p = Null \/ ParentHasKey(p)

\* Mutant of Referenced: a parent that changes its key is not looked at.
ReferencedOnDelete(n, u, new) == cfg.fk # <<>> /\ cfg.fk[1].parent = n /\ u # Null /\ new = -1

\* enforce_parent_change: the child rows concerned when a row of n stops having key u.
Referenced(n, u, new) == cfg.fk # <<>> /\ cfg.fk[1].parent = n /\ u # Null /\ new # u
Children(n, u, new) ==
  {i \in DOMAIN tab[cfg.fk[1].child] : Referenced(n, u, new) /\ tab[cfg.fk[1].child][i].p = u}

\* fk_set_default_values: the default must be a key of the parent that stays.
DefaultOk(u, new) ==
  \/ DefaultP = Null
  \/ IF new = -1 THEN ParentHasKey(DefaultP)
     ELSE DefaultP = new \/ (ParentHasKey(DefaultP) /\ DefaultP # u)

\* apply_fk_action, apply_fk_action_inner: refuse, or go through the children; new is
\* the parent's new key, -1 when it is deleted.
ApplyFkAction(kids, u, new, action, f) ==
  IF FkDepth + TriggerDepth >= MaxDepth THEN Failed
  ELSE IF kids = {} THEN Goto(f)
  ELSE IF action = "restrict" \/ (action = "default" /\ ~DefaultOk(u, new)) THEN Failed
  ELSE Call(f, [op |-> "fk", pc |-> "row", t |-> cfg.fk[1].child, todo |-> Ascending(kids),
                kill |-> action = "cascade" /\ new = -1,
                value |-> CASE action = "cascade" -> new [] action = "default" -> DefaultP [] OTHER -> Null])

EnforceParentChange(n, u, new, f) ==
  IF Referenced(n, u, new)
  THEN ApplyFkAction(Children(n, u, new), u, new,
                     IF new = -1 THEN cfg.fk[1].delete ELSE cfg.fk[1].update, f)
  ELSE Goto(f)

\* Mutant of FkRow: the child stays in the list.
FkRowAgain ==
  /\ At("fk", "row") /\ UNCHANGED <<cfg, tab, idx, seq, ignore, keep, touched, out, saved, seen>>
  /\ IF Top.todo = <<>> THEN Return
     ELSE Call(Top, [op |-> IF Top.kill THEN "cascade" ELSE "childkey", pc |-> "before", t |-> Top.t,
                     id |-> Head(Top.todo), value |-> Top.value, old |-> <<>>])

\* The next child: delete_row_cascade or update_child_key.
FkRow ==
  /\ At("fk", "row") /\ UNCHANGED <<cfg, tab, idx, seq, ignore, keep, touched, out, saved, seen>>
  /\ IF Top.todo = <<>> THEN Return
     ELSE Call([Top EXCEPT !.todo = Tail(@)],
               [op |-> IF Top.kill THEN "cascade" ELSE "childkey", pc |-> "before", t |-> Top.t,
                id |-> Head(Top.todo), value |-> Top.value, old |-> <<>>])

\* delete_row_cascade: triggers fire and the session is told only inside an action.
CascadeBefore ==
  /\ At("cascade", "before") /\ UNCHANGED <<cfg, tab, seq, ignore, keep, touched, out, saved, seen>>
  /\ IF Top.id \notin DOMAIN tab[Top.t]
     THEN Return /\ idx' = [idx EXCEPT ![Top.t] = Entries(tab[Top.t])]
     ELSE LET f == [Top EXCEPT !.pc = "enforce", !.old = <<tab[Top.t][Top.id]>>]
          IN  /\ IF FkDepth > 0 THEN FireTriggers(Top.t, "delete", "before", {}, f) ELSE Goto(f)
              /\ idx' = idx

CascadeEnforce ==
  /\ At("cascade", "enforce") /\ UNCHANGED <<cfg, tab, idx, seq, keep, touched, out, saved>>
  /\ ignore' = FALSE /\ seen' = [seen EXCEPT !.skipped = @ \/ ignore]
  /\ IF ignore THEN Return
     ELSE EnforceParentChange(Top.t, Top.old[1].u, -1, [Top EXCEPT !.pc = "delete"])

CascadeDelete ==
  /\ At("cascade", "delete") /\ UNCHANGED <<cfg, seq, ignore, keep, out, saved, seen>>
  /\ tab' = [tab EXCEPT ![Top.t] = Without(@, {Top.id})]
  /\ idx' = [idx EXCEPT ![Top.t] = Entries(tab'[Top.t])]
  /\ touched' = IF FkDepth > 0 THEN Record(touched, Top.t, Top.id, Top.old) ELSE touched
  /\ LET f == [Top EXCEPT !.pc = "end"]
     IN  IF FkDepth > 0 THEN FireTriggers(Top.t, "delete", "after", {}, f) ELSE Goto(f)

\* update_child_key.
ChildKeyBefore ==
  /\ At("childkey", "before") /\ UNCHANGED <<cfg, tab, idx, seq, ignore, keep, touched, out, saved, seen>>
  /\ IF Top.id \notin DOMAIN tab[Top.t] THEN Return
     ELSE FireTriggers(Top.t, "update", "before", {"p"},
                       [Top EXCEPT !.pc = "write", !.old = <<tab[Top.t][Top.id]>>])

ChildKeyWrite ==
  /\ At("childkey", "write") /\ UNCHANGED <<cfg, seq, keep, out, saved>>
  /\ ignore' = FALSE /\ seen' = [seen EXCEPT !.skipped = @ \/ ignore]
  /\ IF ignore THEN Return /\ UNCHANGED <<tab, idx, touched>>
     ELSE IF Top.value = Null /\ cfg.nn # "nullable"
     THEN Failed /\ UNCHANGED <<tab, idx, touched>>
     ELSE /\ tab' = [tab EXCEPT ![Top.t] = Set(@, Top.id, [Top.old[1] EXCEPT !.p = Top.value])]
          /\ idx' = [idx EXCEPT ![Top.t] = Entries(tab'[Top.t])]
          /\ touched' = RecordUpdate(touched, Top.t, Top.id, Top.old[1], Top.id)
          /\ FireTriggers(Top.t, "update", "after", {"p"}, [Top EXCEPT !.pc = "end"])

CallEnds ==
  /\ \E op \in {"cascade", "childkey", "upsert"} : At(op, "end")
  /\ Return /\ UNCHANGED <<cfg, tab, idx, seq, ignore, keep, touched, out, saved, seen>>

----------------------------------------------------------------------------
(* Triggers *)

\* fire_raise.
FireRaise(op) ==
  IF op = "ignore"
  THEN /\ ignore' = TRUE /\ Goto([Top EXCEPT !.pc = "end"])
       /\ UNCHANGED <<tab, idx, seq, keep, touched, seen>>
  ELSE Raise(op)

\* run_trigger_bodies, run_one_trigger_body: RAISE, or a statement.
TriggerRun ==
  /\ At("trigger", "run") /\ UNCHANGED <<cfg, out, saved>>
  /\ LET body == cfg.trig[1].body
     IN  IF body.op \in {"ignore", "abort", "fail"} THEN FireRaise(body.op)
         ELSE /\ Call([Top EXCEPT !.pc = "end"], Start(body))
              /\ UNCHANGED <<tab, idx, seq, ignore, keep, touched, seen>>

\* The end of fire_triggers: RAISE(IGNORE) in an AFTER trigger stops there.
TriggerEnd ==
  /\ At("trigger", "end") /\ Return
  /\ ignore' = (ignore /\ Top.timing # "after")
  /\ UNCHANGED <<cfg, tab, idx, seq, keep, touched, out, saved, seen>>

\* The next row of a statement on a view.
ViewRow ==
  /\ At("view", "row") /\ UNCHANGED <<cfg, tab, idx, seq, keep, touched, out, saved, seen>>
  /\ ignore' = FALSE
  /\ IF ~HasTrigger(Top.t, Top.event, "instead") THEN Failed
     ELSE IF Top.todo = <<>> THEN Return
     ELSE FireTriggers(Top.t, Top.event, "instead", {"u"}, [Top EXCEPT !.todo = Tail(@)])

----------------------------------------------------------------------------
(* INSERT *)

Next1(f) == [f EXCEPT !.pc = "row", !.todo = Tail(@)]   \* continue with the next row
Counted(f) == [Next1(f) EXCEPT !.n = @ + 1]
Saturating(i) == Min({i + 1, MaxId})
Probe(n) == [seen EXCEPT !.stale = @ \/ idx[n] # Entries(tab[n])]

\* The rowid of the next row, then its BEFORE triggers.
InsertRow ==
  /\ At("insert", "row") /\ Top.todo # <<>>
  /\ UNCHANGED <<cfg, tab, idx, seq, ignore, keep, touched, out, saved>>
  /\ LET row == Head(Top.todo)
         fire(i, auto) ==
           FireTriggers(Top.t, "insert", "before", {},
                        [Top EXCEPT !.pc = "check", !.auto = auto,
                                    !.todo = <<[row EXCEPT !.id = i]>> \o Tail(@)])
     IN  IF row.id # Null
         THEN fire(row.id, Max({Top.auto, Saturating(row.id)})) /\ seen' = seen
         ELSE LET ids == AutoRowid(Top.t, IF Auto(Top.t) THEN Top.auto ELSE NextRowid(Top.t))
              IN  IF ids = {} THEN Failed /\ seen' = seen
                  ELSE \E i \in ids :
                         /\ fire(i, IF i >= Top.auto THEN Saturating(i) ELSE MaxId)
                         /\ seen' = [seen EXCEPT !.reused = @ \/ (Auto(Top.t) /\ i \in seen.ever /\ MaxId \notin seen.ever)]

\* The first ON CONFLICT clause that is about a conflicting row, with that row.
UpsertClause(f, conflicts) ==
  LET row == Head(f.todo)
      hit(k) == UpsertTargetRow(f.t, f.up[k], conflicts, row.id, row.u)
      ks  == {k \in DOMAIN f.up : hit(k) # {}}
  IN  IF ks = {} THEN <<>> ELSE <<f.up[Min(ks)], Min(hit(Min(ks)))>>

\* Constraints of the row, in order: NOT NULL, CHECK, then the conflicts.
InsertCheck ==
  /\ At("insert", "check") /\ UNCHANGED <<cfg, out, saved>>
  /\ LET row == Head(Top.todo)
         nn  == ResolveNotNull(row.p, Top.oc)
         vs  == FindConflictsOrdered(Top.t, row.id, row.u, Null)
         conflicts == FoldSeq(LAMBDA v, a : a \o Ascending(v.rows), <<>>, Reverse(vs))
         up  == UpsertClause(Top, conflicts)
         res == ResolveConflict(vs, Top.oc)
         go(f) == Goto(f) /\ ignore' = FALSE /\ UNCHANGED <<tab, idx, seq, keep, touched>>
         stored == <<[row EXCEPT !.p = nn.p]>> \o Tail(Top.todo)
     IN  CASE ignore \/ nn.do = "ignore" \/ (row.u = BadKey /\ Top.oc = "ignore") ->
                go(Next1(Top)) /\ seen' = seen
           [] ~ignore /\ nn.do \in {"abort", "fail"} -> Raise(nn.do)
           [] ~ignore /\ nn.do = "go" /\ row.u = BadKey /\ Top.oc # "ignore" -> Raise(Top.oc)
           [] OTHER ->
                IF up # <<>>
                THEN /\ seen' = [Probe(Top.t) EXCEPT !.upsert = TRUE]
                     /\ UNCHANGED <<tab, idx, seq, keep, touched>> /\ ignore' = FALSE
                     /\ IF up[1].act = "nothing" \/ up[2] \notin up[1].where
                        THEN Goto(Next1(Top))
                        ELSE Call([Counted(Top) EXCEPT !.rep = TRUE],
                                  [op |-> "upsert", pc |-> "check", t |-> Top.t, id |-> up[2],
                                   old |-> tab[Top.t][up[2]], changed |-> DOMAIN up[1].set,
                                   new |-> Assigned(up[1].set, up[2], tab[Top.t][up[2]])])
                ELSE IF res.do = "ignore" THEN go(Next1(Top)) /\ seen' = Probe(Top.t)
                ELSE IF res.do # "replace" THEN Raise(res.do)
                ELSE /\ seen' = Probe(Top.t)
                     /\ go([Top EXCEPT !.pc = "replace", !.todo = stored, !.kill = Ascending(res.rows),
                                       !.rep = @ \/ vs # <<>>])

\* REPLACE: each conflicting row is recorded and deleted with its children.
InsertReplace ==
  /\ At("insert", "replace") /\ UNCHANGED <<cfg, tab, idx, seq, ignore, keep, out, saved>>
  /\ seen' = [seen EXCEPT !.displaced = @ \/ Top.kill # <<>>]
  /\ IF Top.kill = <<>> THEN Goto([Top EXCEPT !.pc = "write"]) /\ touched' = touched
     ELSE LET i == Head(Top.kill)
          IN  /\ Call([Top EXCEPT !.kill = Tail(@)],
                       [op |-> "cascade", pc |-> "before", t |-> Top.t, id |-> i, value |-> Null, old |-> <<>>])
              /\ touched' = IF i \in DOMAIN tab[Top.t] THEN Record(touched, Top.t, i, <<tab[Top.t][i]>>)
                            ELSE touched

\* insert_index of the new row's entry.
Indexed(n, i, r) == [idx EXCEPT ![n] = @ \cup {<<r.u, i>>}]

\* The foreign key, the row, its index entry, its AFTER triggers.
InsertWrite ==
  /\ At("insert", "write") /\ UNCHANGED <<cfg, seq, ignore, keep, out, saved>>
  /\ LET row == Head(Top.todo)
         r   == [u |-> row.u, p |-> row.p]
     IN  IF ~FkChildOk(Top.t, row.p) THEN Failed /\ UNCHANGED <<tab, idx, touched, seen>>
         ELSE /\ tab' = [tab EXCEPT ![Top.t] = Set(@, row.id, r)]
              /\ idx' = Indexed(Top.t, row.id, r)
              /\ touched' = Record(touched, Top.t, row.id, <<>>)
              /\ seen' = [seen EXCEPT !.ever = IF Top.t = "t" THEN @ \cup {row.id} ELSE @]
              /\ FireTriggers(Top.t, "insert", "after", {}, Counted(Top))

\* The end of exec_insert_inner: set_sequence.
Sequence(f) == IF Auto(f.t) /\ f.n > 0 THEN Max({f.auto - 1, seq}) ELSE seq

\* The end of exec_insert_inner: the sequence, and the indexes when rows were replaced.
InsertEnd ==
  /\ At("insert", "row") /\ Top.todo = <<>> /\ Return
  /\ seq' = Sequence(Top)
  /\ idx' = IF Top.rep THEN [idx EXCEPT ![Top.t] = Entries(tab[Top.t])] ELSE idx
  /\ UNCHANGED <<cfg, tab, ignore, keep, touched, out, saved, seen>>

----------------------------------------------------------------------------
(* ON CONFLICT DO UPDATE: upsert_do_update *)

Moved(rows, i, j, r) == Set(Without(rows, {i}), j, r)
RowOf(new) == [u |-> new.u, p |-> new.p]

UpsertCheck ==
  /\ At("upsert", "check") /\ UNCHANGED <<cfg, tab, idx, seq, ignore, keep, touched, out, saved, seen>>
  /\ IF \/ Top.new.p = Null /\ cfg.nn # "nullable"
        \/ Top.new.u = BadKey
        \/ ~FkChildOk(Top.t, Top.new.p)
     THEN Failed
     ELSE EnforceParentChange(Top.t, Top.old.u, Top.new.u, [Top EXCEPT !.pc = "before"])

UpsertBefore ==
  /\ At("upsert", "before") /\ UNCHANGED <<cfg, tab, idx, seq, ignore, keep, touched, out, saved, seen>>
  /\ FireTriggers(Top.t, "update", "before", Top.changed, [Top EXCEPT !.pc = "write"])

\* The indexes are left to the end of the INSERT.
UpsertWrite ==
  /\ At("upsert", "write") /\ UNCHANGED <<cfg, idx, seq, ignore, keep, out, saved>>
  /\ seen' = Probe(Top.t)
  /\ IF FindConflictsOrdered(Top.t, Top.new.id, Top.new.u, Top.id) # <<>>
     THEN Failed /\ UNCHANGED <<tab, touched>>
     ELSE /\ tab' = [tab EXCEPT ![Top.t] = Moved(@, Top.id, Top.new.id, RowOf(Top.new))]
          /\ touched' = RecordUpdate(touched, Top.t, Top.id, Top.old, Top.new.id)
          /\ FireTriggers(Top.t, "update", "after", Top.changed, [Top EXCEPT !.pc = "end"])

----------------------------------------------------------------------------
(* UPDATE: exec_update_inner *)

UpdateRow ==
  /\ At("update", "row") /\ Top.todo # <<>> /\ UNCHANGED <<cfg, out, saved>>
  /\ LET row == Head(Top.todo)
         nn  == ResolveNotNull(row.new.p, Top.oc)
         f   == [Top EXCEPT !.pc = "before",
                            !.todo = <<[row EXCEPT !.new = [row.new EXCEPT !.p = nn.p]]>> \o Tail(@)]
         still == UNCHANGED <<tab, idx, seq, ignore, keep, touched, seen>>
     IN  CASE nn.do = "ignore" \/ (nn.do = "go" /\ row.new.u = BadKey /\ Top.oc = "ignore") ->
                Goto(Next1(Top)) /\ still
           [] nn.do \in {"abort", "fail"} -> Raise(nn.do)
           [] nn.do = "go" /\ row.new.u = BadKey /\ Top.oc # "ignore" -> Raise(Top.oc)
           [] OTHER -> /\ still
                       /\ IF ~FkChildOk(Top.t, nn.p) THEN Failed
                          ELSE EnforceParentChange(Top.t, row.old.u, row.new.u, f)

UpdateBefore ==
  /\ At("update", "before") /\ UNCHANGED <<cfg, tab, idx, seq, ignore, keep, touched, out, saved, seen>>
  /\ FireTriggers(Top.t, "update", "before", Top.changed,
                  [Top EXCEPT !.pc = "write", !.reread =
                     Fires(Top.t, "update", "before", Top.changed) \/ HasTrigger(Top.t, "update", "after")])

\* A column that is not SET keeps what a trigger wrote meanwhile.
Reread(f, row) ==
  IF ~f.reread \/ row.id \notin DOMAIN tab[f.t] THEN RowOf(row.new)
  ELSE [c \in {"u", "p"} |-> IF c \in f.changed THEN row.new[c] ELSE tab[f.t][row.id][c]]

\* Conflicts, then the row is moved and the AFTER triggers fire; the rows that REPLACE
\* removes are deleted from the table and no more.
UpdateWrite ==
  /\ At("update", "write") /\ UNCHANGED <<cfg, out, saved>>
  /\ LET row == Head(Top.todo)
         r   == Reread(Top, row)
         res == ResolveConflict(FindConflictsOrdered(Top.t, row.new.id, r.u, row.id), Top.oc)
     IN  IF ignore \/ res.do = "ignore"
         THEN /\ Goto(Next1(Top)) /\ ignore' = FALSE
              /\ seen' = IF ignore THEN seen ELSE Probe(Top.t)
              /\ UNCHANGED <<tab, idx, seq, keep, touched>>
         ELSE IF res.do # "replace" THEN Raise(res.do)
         ELSE /\ tab' = [tab EXCEPT ![Top.t] = Moved(Without(@, res.rows), row.id, row.new.id, r)]
              /\ touched' = RecordUpdate(touched, Top.t, row.id, row.old, row.new.id)
              /\ seen' = [Probe(Top.t) EXCEPT !.replaced = @ \/ res.rows # {}]
              /\ FireTriggers(Top.t, "update", "after", Top.changed, Counted(Top))
              /\ UNCHANGED <<idx, seq, ignore, keep>>

----------------------------------------------------------------------------
(* DELETE: exec_delete_inner *)

DeleteRow ==
  /\ At("delete", "row") /\ Top.todo # <<>>
  /\ UNCHANGED <<cfg, tab, idx, seq, ignore, keep, touched, out, saved, seen>>
  /\ IF Head(Top.todo) \notin DOMAIN tab[Top.t] THEN Goto(Counted(Top))
     ELSE FireTriggers(Top.t, "delete", "before", {},
                       [Top EXCEPT !.pc = "write", !.old = <<tab[Top.t][Head(Top.todo)]>>])

DeleteWrite ==
  /\ At("delete", "write") /\ UNCHANGED <<cfg, idx, seq, keep, out, saved, seen>> /\ ignore' = FALSE
  /\ IF ignore THEN Goto(Next1(Top)) /\ UNCHANGED <<tab, touched>>
     ELSE /\ tab' = [tab EXCEPT ![Top.t] = Without(@, {Head(Top.todo)})]
          /\ touched' = Record(touched, Top.t, Head(Top.todo), Top.old)
          /\ Goto([Top EXCEPT !.pc = "enforce"])

DeleteEnforce ==
  /\ At("delete", "enforce") /\ UNCHANGED <<cfg, tab, idx, seq, ignore, keep, touched, out, saved, seen>>
  /\ EnforceParentChange(Top.t, Top.old[1].u, -1, [Top EXCEPT !.pc = "after"])

DeleteAfter ==
  /\ At("delete", "after") /\ UNCHANGED <<cfg, tab, idx, seq, ignore, keep, touched, out, saved, seen>>
  /\ FireTriggers(Top.t, "delete", "after", {}, Counted(Top))

\* The end of exec_update_inner and exec_delete_inner: compact_table, rebuild_indexes.
Rebuilt(f) == IF f.n > 0 THEN [idx EXCEPT ![f.t] = Entries(tab[f.t])] ELSE idx

RowsEnd ==
  /\ \E op \in {"update", "delete"} : At(op, "row")
  /\ Top.todo = <<>> /\ Return /\ idx' = Rebuilt(Top)
  /\ UNCHANGED <<cfg, tab, seq, ignore, keep, touched, out, saved, seen>>

----------------------------------------------------------------------------
(* The statement *)

\* rollback_to_savepoint.
Restored == tab' = saved.tab /\ idx' = saved.idx /\ seq' = saved.seq

\* The end of run_dml_atomic: done, kept in part (OR FAIL), or undone.
Finish ==
  /\ out = "running" /\ (stack = <<>> \/ At("failed", "end")) /\ stack' = <<>>
  /\ out' = IF stack = <<>> THEN "ok" ELSE IF keep THEN "partial" ELSE "error"
  /\ IF out' = "error" THEN Restored ELSE UNCHANGED <<tab, idx, seq>>
  /\ UNCHANGED <<cfg, ignore, keep, touched, saved, seen>>

\* What the properties need to know of the past.
NothingSeen(ever) ==
  [stale    |-> FALSE,   \* a conflict was looked for in an index behind its table
   replaced |-> FALSE,   \* UPDATE OR REPLACE removed a row
   skipped  |-> FALSE,   \* RAISE(IGNORE) skipped a foreign-key action
   displaced |-> FALSE,  \* INSERT OR REPLACE removed a row
   upsert   |-> FALSE,   \* a DO UPDATE or DO NOTHING clause applied
   reused   |-> FALSE,   \* AUTOINCREMENT chose a rowid that was used before
   ever     |-> ever]    \* rowids "t" has had

Init ==
  /\ cfg \in Configs
  /\ \E s \in Tables :
       /\ tab = [n \in Names |-> s[n]] /\ idx = [n \in Names |-> Entries(s[n])]
       /\ seq = (IF cfg.auto THEN s.seq ELSE 0)
       /\ seen = NothingSeen(IF cfg.auto THEN 1 .. s.seq ELSE DOMAIN s.t)
       /\ cfg.auto => \A i \in DOMAIN s.t : i <= s.seq
       /\ cfg.fk # <<>> => \A i \in DOMAIN s[cfg.fk[1].child] :
            s[cfg.fk[1].child][i].p \in {Null} \cup {s[cfg.fk[1].parent][j].u : j \in DOMAIN s[cfg.fk[1].parent]}
       /\ cfg.nn # "nullable" => \A n \in Names : \A i \in DOMAIN s[n] : s[n][i].p # Null
       /\ touched = [n \in Names |-> <<>>]
       /\ saved = [tab |-> [n \in Names |-> s[n]], idx |-> <<>>, seq |-> 0]
  /\ stack = <<>> /\ ignore = FALSE /\ keep = FALSE /\ out = "idle"

Next ==
  \/ Begin \/ Finish
  \/ InsertRow \/ InsertCheck \/ InsertReplace \/ InsertWrite \/ InsertEnd
  \/ UpsertCheck \/ UpsertBefore \/ UpsertWrite
  \/ UpdateRow \/ UpdateBefore \/ UpdateWrite
  \/ DeleteRow \/ DeleteWrite \/ DeleteEnforce \/ DeleteAfter \/ RowsEnd
  \/ FkRow \/ CascadeBefore \/ CascadeEnforce \/ CascadeDelete \/ ChildKeyBefore \/ ChildKeyWrite
  \/ CallEnds \/ TriggerRun \/ TriggerEnd \/ ViewRow

\* A statement runs to its end inside one call.
Spec == Init /\ [][Next]_vars /\ WF_vars(Next)

----------------------------------------------------------------------------
(* Properties *)

Done == out \in {"ok", "error", "partial"}

\* The UNIQUE index of every table names exactly its rows when a statement is over,
\* however triggers and foreign-key actions of the statement interleaved the one-by-one
\* insertions of INSERT with the rebuilds of UPDATE, DELETE and the actions.  A
\* statement that OR FAIL stops half-way keeps its rows without the rebuild.
IndexesAgree == out \in {"ok", "error"} => \A n \in Names : idx[n] = Entries(tab[n])

\* No two rows of a table have the same UNIQUE value, unless a conflict was looked for
\* while the index was behind the table (conflict_candidates seeks the index).
UniqueAsProbed ==
  Done /\ ~seen.stale =>
    \A n \in Names : \A i, j \in DOMAIN tab[n] :
      tab[n][i].u = tab[n][j].u /\ tab[n][i].u # Null => i = j

\* The same without the exception: what the comment of conflict_candidates promises of
\* the rows a statement has already written.
UniqueHolds ==
  Done => \A n \in Names : \A i, j \in DOMAIN tab[n] :
            tab[n][i].u = tab[n][j].u /\ tab[n][i].u # Null => i = j

\* After a statement every foreign key names a parent row.  Left out: a row UPDATE OR
\* REPLACE removed, an action a trigger skipped, a trigger that runs between the check of
\* an UPDATE and its write, a row that refers to its own table, and SET DEFAULT for a row
\* that INSERT OR REPLACE is about to remove.
ForeignKeysHold ==
  out \in {"ok", "error"} /\ cfg.fk # <<>> /\ cfg.fk[1].child # cfg.fk[1].parent
  /\ ~seen.stale /\ ~seen.replaced /\ ~seen.skipped
  /\ ~(seen.displaced /\ cfg.fk[1].delete = "default")
  /\ (cfg.trig = <<>> \/ cfg.trig[1].timing # "before") =>
    \A i \in DOMAIN tab[cfg.fk[1].child] : FkChildOk(cfg.fk[1].child, tab[cfg.fk[1].child][i].p)

\* The session knows every key whose row differs from what it was when recording began,
\* with the row it was: the changeset generated from it is complete.
SessionComplete ==
  Done /\ ~seen.replaced =>
    \A n \in Names : \A i \in DOMAIN saved.tab[n] \cup DOMAIN tab[n] :
      LET was == IF i \in DOMAIN saved.tab[n] THEN <<saved.tab[n][i]>> ELSE <<>>
          is  == IF i \in DOMAIN tab[n] THEN <<tab[n][i]>> ELSE <<>>
      IN  was # is => i \in DOMAIN touched[n] /\ touched[n][i] = was

\* AUTOINCREMENT never gives a rowid that was in the table before, and what it records
\* covers every rowid ever inserted, below the largest rowid.
AutoincrementFresh ==
  cfg.auto /\ out \in {"ok", "error"} =>
    /\ ~seen.reused
    /\ out = "ok" => \A i \in seen.ever : i <= seq \/ i = MaxId

\* RAISE(IGNORE) skips the row whose trigger raised it and is forgotten with it; the
\* triggers of an UPSERT's update are the exception.
IgnoreConsumed == out = "ok" /\ ~seen.upsert => ~ignore

\* Every statement ends, however its triggers and foreign-key actions call each other:
\* MAX_TRIGGER_DEPTH bounds both.
Terminates == <>Done
=============================================================================
