---------------------------- MODULE WithoutRowid ----------------------------
(***************************************************************************)
(* INSERT, UPSERT, UPDATE and DELETE on WITHOUT ROWID tables                 *)
(* (src/exec/mod.rs: exec_insert_without_rowid and its neighbours).          *)
(*                                                                         *)
(* Such a table is one index b-tree of whole rows.  INSERT adds a row to the *)
(* b-tree and to the secondary indexes; every other change reads the whole   *)
(* table, edits the copy, writes it back (rewrite_without_rowid) and rebuilds*)
(* the secondary indexes from it.  Within one INSERT both happen: after a    *)
(* REPLACE or DO UPDATE has rewritten the table the indexes are behind until *)
(* the end of the statement, and did_rewrite keeps the rows that follow away *)
(* from them.                                                               *)
(*                                                                         *)
(* "w" is PRIMARY KEY(k), UNIQUE(u); "c" refers to w.k by its column p.      *)
(***************************************************************************)
EXTENDS Integers, Sequences, FiniteSets, FiniteSetsExt, SequencesExt

CONSTANTS BadKey,        \* a key that fails a CHECK constraint
          DefaultP,      \* the DEFAULT of c.p
          Configs,       \* declarations: [decl, action, ignores]
          Tables,        \* contents: [w, c]
          Stmts,         \* statements
          MaxStatements

Null == 0

VARIABLES cfg,           \* decl: the conflict clause of u; action: of the foreign key;
                         \* ignores: events whose BEFORE trigger raises IGNORE on key 2
          tab,           \* the rows of "w" and "c"
          idx,           \* their secondary indexes: <<u or p, k>>
          run,           \* the running statement
          saved,         \* the savepoint of the statement
          out, count,
          seen           \* what the properties leave out

vars == <<cfg, tab, idx, run, saved, out, count, seen>>

Entries(n, rows) == {<<IF n = "w" THEN r.u ELSE r.p, r.k>> : r \in rows}
ByKey(rows) == SortSeq(SetToSeq(rows), LAMBDA a, b : a.k < b.k)

\* rewrite_without_rowid, then rebuild_wr_indexes where the caller does both.
Rewrite(t, n, rows) == [t EXCEPT ![n] = rows]
Rebuilt(x, n, rows) == [x EXCEPT ![n] = Entries(n, rows)]

\* unique_match and wr_index_collision.
UniqueMatch(a, b) == a.k = b.k \/ (a.u # Null /\ a.u = b.u)

\* wr_seek_collision: the clustered tree by key, the UNIQUE index by value.
SeekCollision(v) == (\E r \in tab.w : r.k = v.k) \/ (v.u # Null /\ \E e \in idx.w : e[1] = v.u)

\* wr_find_collisions.
FindCollisions(v, can_seek) ==
  IF can_seek /\ ~SeekCollision(v) THEN {} ELSE {r \in tab.w : UniqueMatch(r, v)}

\* wr_conflicts_ordered against a copy of the table, then resolve_conflict: what is done,
\* and the rows REPLACE removes.
Resolve(v, live, oc) ==
  LET same == {r \in live : v.u # Null /\ r.u = v.u}
      key  == {r \in live : r.k = v.k}
      policies == (IF same # {} THEN <<IF oc = "none" THEN cfg.decl ELSE oc>> ELSE <<>>)
                  \o (IF key # {} THEN <<IF oc = "none" THEN "abort" ELSE oc>> ELSE <<>>)
      stops == SelectSeq(policies, LAMBDA x : x # "replace")
  IN  IF stops # <<>> THEN [do |-> Head(stops), rows |-> {}]
      ELSE [do |-> "replace", rows |-> same \cup key]

\* wr_upsert_target: the colliding row a clause is about, first in key order.
UpsertTarget(clause, v, collide) ==
  LET hits == {r \in collide : CASE clause.target = "any" -> TRUE
                                 [] clause.target = "k" -> r.k = v.k
                                 [] OTHER -> v.u # Null /\ r.u = v.u}
  IN  IF hits = {} THEN {} ELSE {ByKey(hits)[1]}

\* PRIMARY KEY NOT NULL, check_not_null, check_constraints.
RowOk(v) == v.k \notin {Null, BadKey}
FkChildOk(n, v, w) == n = "w" \/ v.p = Null \/ \E r \in w : r.k = v.p
RaisesIgnore(event, r) == event \in cfg.ignores /\ r.k = 2

Assigned(set, r) ==
  [f \in DOMAIN r |-> IF f \notin DOMAIN set THEN r[f]
                      ELSE IF set[f][1] = "is" THEN set[f][2]
                      ELSE IF r[f] = Null THEN Null ELSE r[f] + set[f][2]]

----------------------------------------------------------------------------
(* The statement *)

\* run_dml_atomic around the statement; a failure undoes it unless the policy is FAIL.
Start ==
  /\ run = <<>> /\ count < MaxStatements
  /\ \E s \in Stmts :
       run' = <<[s EXCEPT !.todo = IF s.op = "insert" THEN s.todo
                                   ELSE ByKey({r \in tab[s.t] : r.k \in s.where})]>>
  /\ saved' = [tab |-> tab, idx |-> idx] /\ out' = "running" /\ count' = count + 1
  /\ UNCHANGED <<cfg, tab, idx, seen>>

S == run[1]
At(op) == run # <<>> /\ S.op = op /\ S.todo # <<>>
Advance(s) == run' = <<[s EXCEPT !.todo = Tail(@)]>>
Skip == Advance(S) /\ UNCHANGED <<tab, idx, out, seen>>

Fail(policy) ==
  /\ run' = <<>>
  /\ IF policy = "fail"
       THEN /\ out' = "partial" /\ seen' = [seen EXCEPT !.behind = @ \/ S.rewrote \/ S.op = "update"]
            /\ UNCHANGED <<tab, idx>>
       ELSE out' = "error" /\ tab' = saved.tab /\ idx' = saved.idx /\ UNCHANGED seen

Ok(t, x) == run' = <<>> /\ out' = "ok" /\ tab' = t /\ idx' = x

----------------------------------------------------------------------------
(* INSERT *)

V == Head(S.todo)

\* The clauses of ON CONFLICT in order: the first that is about a colliding row.
Upsert(collide) ==
  LET hit == SelectSeq(S.up, LAMBDA c : UpsertTarget(c, V, collide) # {})
  IN  IF hit = <<>> THEN <<>> ELSE <<Head(hit), CHOOSE r \in UpsertTarget(Head(hit), V, collide) : TRUE>>

\* The end of one inserted row: check_fk_child, insert_index, and the secondary indexes
\* unless the table was rewritten in this statement.
Insert(t, s) ==
  IF ~FkChildOk(S.t, V, t.w) THEN Fail("abort")
  ELSE /\ Advance([s EXCEPT !.n = @ + 1])
       /\ tab' = [t EXCEPT ![S.t] = @ \cup {V}]
       /\ idx' = IF s.rewrote THEN idx ELSE [idx EXCEPT ![S.t] = @ \cup Entries(S.t, {V})]
       /\ UNCHANGED out

\* wr_upsert_do_update.
DoUpdate(clause, old) ==
  LET new == Assigned(clause.set, old)
  IN  CASE old.k \notin clause.where \/ RaisesIgnore("update", old) -> Skip
        [] ~RowOk(new) \/ (\E r \in tab.w \ {old} : UniqueMatch(r, new)) -> Fail("abort")
        [] OTHER -> /\ Advance([S EXCEPT !.n = @ + 1, !.rewrote = TRUE])
                    /\ tab' = Rewrite(tab, "w", (tab.w \ {old}) \cup {new})
                    /\ seen' = [seen EXCEPT !.orphaned = @ \/ new.k # old.k]
                    /\ UNCHANGED <<idx, out>>

\* exec_insert_without_rowid, one row.
InsertRow ==
  /\ At("insert")
  /\ LET collide == IF S.t = "w" THEN FindCollisions(V, ~S.rewrote) ELSE {r \in tab.c : r.k = V.k}
         up  == Upsert(collide)
         act == Resolve(V, IF S.t = "w" THEN tab.w ELSE tab.c, S.oc)
     IN  CASE RaisesIgnore("insert", V) -> Skip
           [] ~RowOk(V) -> IF S.oc = "ignore" THEN Skip ELSE Fail("abort")
           [] RowOk(V) /\ ~RaisesIgnore("insert", V) /\ collide = {} -> Insert(tab, S) /\ UNCHANGED seen
           [] RowOk(V) /\ ~RaisesIgnore("insert", V) /\ collide # {} /\ up # <<>> ->
                IF up[1].act = "nothing" THEN Skip ELSE DoUpdate(up[1], up[2])
           [] OTHER ->
                CASE act.do = "ignore" -> Skip
                  [] act.do = "replace" ->
                       /\ Insert(Rewrite(tab, S.t, tab[S.t] \ act.rows), [S EXCEPT !.rewrote = TRUE])
                       /\ seen' = [seen EXCEPT !.orphaned = @ \/ \E r \in act.rows : r.k # V.k]
                  [] OTHER -> Fail(act.do)
  /\ UNCHANGED <<cfg, saved, count>>

\* Mutant of InsertEnd: the rebuild is left to statements that changed two rows.
InsertEndTwo ==
  /\ run # <<>> /\ S.op = "insert" /\ S.todo = <<>>
  /\ Ok(tab, IF S.n > 1 /\ S.rewrote THEN Rebuilt(idx, S.t, tab[S.t]) ELSE idx)
  /\ UNCHANGED <<cfg, saved, count, seen>>

InsertEnd ==
  /\ run # <<>> /\ S.op = "insert" /\ S.todo = <<>>
  /\ Ok(tab, IF S.n > 0 /\ S.rewrote THEN Rebuilt(idx, S.t, tab[S.t]) ELSE idx)
  /\ UNCHANGED <<cfg, saved, count, seen>>

----------------------------------------------------------------------------
(* Foreign-key actions on a WITHOUT ROWID child (apply_fk_action_wr) *)

\* The child rows after parent key `old' became `new' (Null: was deleted), in a tuple;
\* <<>> where the statement fails.
FkActionWr(c, w, old, new) ==
  LET kids == {r \in c : r.p = old}
      set(p) == <<(c \ kids) \cup {[r EXCEPT !.p = IF RaisesIgnore("child", r) THEN @ ELSE p] : r \in kids}>>
      default == new = DefaultP \/ \E r \in w : r.k = DefaultP /\ r.k # old
  IN  IF kids = {} \/ old = new THEN <<c>>
      ELSE CASE cfg.action = "restrict" -> <<>>
             [] cfg.action = "cascade" /\ new = Null -> <<{r \in c : r \notin kids \/ RaisesIgnore("child", r)}>>
             [] cfg.action = "cascade" /\ new # Null -> set(new)
             [] cfg.action = "null" -> set(Null)
             [] OTHER -> IF default THEN set(DefaultP) ELSE <<>>

----------------------------------------------------------------------------
(* DELETE and UPDATE: on a copy of the table *)

\* exec_delete_without_rowid, one row of the scan.
DeleteRow ==
  /\ At("delete")
  /\ IF RaisesIgnore("delete", V) THEN Skip
     ELSE Advance([S EXCEPT !.gone = @ \cup {V}, !.n = @ + 1]) /\ UNCHANGED <<tab, idx, out, seen>>
  /\ UNCHANGED <<cfg, saved, count>>

\* The rewrite, the rebuild, then the foreign-key actions, parent by parent.
DeleteEnd ==
  /\ run # <<>> /\ S.op = "delete" /\ S.todo = <<>>
  /\ LET kept == tab[S.t] \ S.gone
         act(c, r) == IF c = <<>> THEN c ELSE FkActionWr(c[1], kept, r.k, Null)
         kids == FoldLeft(act, <<tab.c>>, ByKey(S.gone))
     IN  IF S.t = "c" THEN Ok(Rewrite(tab, "c", kept), Rebuilt(idx, "c", kept)) /\ UNCHANGED seen
         ELSE IF S.n = 0 THEN Ok(tab, idx) /\ UNCHANGED seen
         ELSE IF kids = <<>> THEN Fail("abort")
         ELSE /\ Ok([w |-> kept, c |-> kids[1]], [w |-> Entries("w", kept), c |-> Entries("c", kids[1])])
              /\ seen' = [seen EXCEPT !.skipped = @ \/ "child" \in cfg.ignores]
  /\ UNCHANGED <<cfg, saved, count>>

\* exec_update_without_rowid, one row: `done' holds <<before, after>> of the rows updated
\* so far, `gone' those REPLACE removed.
Copy == (tab[S.t] \ ({d[1] : d \in S.done} \cup S.gone)) \cup ({d[2] : d \in S.done} \ S.gone)

UpdateRow ==
  /\ At("update")
  /\ LET new  == Assigned(S.set, V)
         act  == Resolve(new, Copy \ {V}, S.oc)
         free == act.do = "replace"
         kids == FkActionWr(tab.c, tab.w, V.k, new.k)
         step(c) == Advance([S EXCEPT !.done = @ \cup {<<V, new>>}, !.gone = @ \cup act.rows, !.n = @ + 1])
                    /\ tab' = [tab EXCEPT !.c = c] /\ idx' = Rebuilt(idx, "c", c)
                    /\ seen' = [seen EXCEPT !.orphaned = @ \/ act.rows # {} \/ (cfg.action = "default" /\ S.done # {}),
                                            !.skipped = @ \/ "child" \in cfg.ignores]
                    /\ UNCHANGED out
     IN  CASE V \in S.gone \/ RaisesIgnore("update", V) -> Skip
           [] V \notin S.gone /\ ~RaisesIgnore("update", V) /\ ~RowOk(new) -> Fail("abort")
           [] V \notin S.gone /\ ~RaisesIgnore("update", V) /\ RowOk(new) /\ ~free ->
                IF act.do = "ignore" THEN Skip ELSE Fail(act.do)
           [] OTHER -> IF ~FkChildOk(S.t, new, tab.w) THEN Fail("abort")
                       ELSE IF S.t = "c" THEN step(tab.c)
                       ELSE IF kids = <<>> THEN Fail("abort") ELSE step(kids[1])
  /\ UNCHANGED <<cfg, saved, count>>

UpdateEnd ==
  /\ run # <<>> /\ S.op = "update" /\ S.todo = <<>>
  /\ IF S.n > 0 THEN Ok(Rewrite(tab, S.t, Copy), Rebuilt(idx, S.t, Copy)) ELSE Ok(tab, idx)
  /\ UNCHANGED <<cfg, saved, count, seen>>

----------------------------------------------------------------------------
Init ==
  /\ cfg \in Configs
  /\ tab \in Tables /\ idx = [n \in {"w", "c"} |-> Entries(n, tab[n])]
  /\ run = <<>> /\ saved = <<>> /\ out = "idle" /\ count = 0
  /\ seen = [behind |-> FALSE, orphaned |-> FALSE, skipped |-> FALSE]

Next == Start \/ InsertRow \/ InsertEnd \/ DeleteRow \/ DeleteEnd \/ UpdateRow \/ UpdateEnd

Spec == Init /\ [][Next]_vars

----------------------------------------------------------------------------
(* Properties *)

\* Between statements no two rows of a WITHOUT ROWID table share their key or their
\* UNIQUE value, although INSERT looks for collisions by seeking indexes that a REPLACE or
\* DO UPDATE earlier in the same statement has left behind the table.  Left out: what
\* follows a statement that OR FAIL stopped after such a rewrite, and an UPDATE OR FAIL
\* (its children have followed rows whose change it then drops).
ClusteredUnique ==
  out # "running" /\ ~seen.behind =>
    /\ \A a, b \in tab.w : UniqueMatch(a, b) => a = b
    /\ \A a, b \in tab.c : a.k = b.k => a = b

\* Between statements the secondary indexes of both tables name exactly their rows, and
\* every p of "c" names a row of "w".  The second part leaves out a REPLACE that removed
\* another row, an UPSERT that moved a key (neither runs the foreign-key actions), an
\* action a trigger skipped, and SET DEFAULT after the first row of an UPDATE (the check
\* reads the table as it was before the statement).
ClusteredIndexesAgree ==
  out # "running" /\ ~seen.behind =>
    /\ \A n \in {"w", "c"} : idx[n] = Entries(n, tab[n])
    /\ ~seen.orphaned /\ ~seen.skipped => \A r \in tab.c : FkChildOk("c", r, tab.w)
=============================================================================
