------------------------------- MODULE Catalog -------------------------------
(***************************************************************************)
(* The schema and the statements that change it (src/exec/mod.rs: CREATE     *)
(* TABLE [AS], INDEX, VIEW, TRIGGER, VIRTUAL TABLE; DROP; ALTER TABLE ADD     *)
(* COLUMN, RENAME TO, DROP COLUMN), with the rows and indexes they rewrite.   *)
(*                                                                         *)
(* sqlite_schema is `master': rowid -> [type, name, tbl, root, def].  The     *)
(* stored SQL is `def': columns [name, gen, reads, dflt], the UNIQUE column   *)
(* lists, the tables named by REFERENCES, an index's key, the tables a view   *)
(* or trigger reads.  `ids' remembers which tables those names meant.  A name *)
(* is <<n>>; <<n, k>> is sqlite_autoindex_n_k, <<n, 0>> the table behind a    *)
(* virtual table.  PRAGMA foreign_keys is off.                               *)
(***************************************************************************)
EXTENDS Integers, Sequences, FiniteSets, SequencesExt, FiniteSetsExt
LOCAL INSTANCE Values

CONSTANTS Names,         \* names a statement may give
          Shapes,        \* tables it may create: [cols, uniq, refs, pk, autoinc, norowid]
          Keys,          \* key column lists of CREATE INDEX
          Added,         \* columns of ADD COLUMN, [unique, notnull, col]
          MaxSteps, MaxRows

Null == 0
VARIABLES master, trees, sequence, steps, seen

vars == <<master, trees, sequence, steps, seen>>

Objects == {master[i] : i \in DOMAIN master}
Of(type) == {o \in Objects : o.type = type}
Object(type, n) == {o \in Of(type) : o.name = n}
TableNamed(n) == CHOOSE o \in Of("table") : o.name = n
IsTable(n) == Object("table", n) # {}
IsVirtual(n) == IsTable(n) /\ TableNamed(n).root = 0

NoDef == [cols |-> <<>>, uniq |-> <<>>, refs |-> {}, key |-> <<>>, unique |-> FALSE, uses |-> {}, ids |-> {}, autoinc |-> FALSE]
Row(type, n, t, root, def) == [type |-> type, name |-> n, tbl |-> t, root |-> root, def |-> def]

ColNames(def) == [i \in DOMAIN def.cols |-> def.cols[i].name]
Position(def, c) == CHOOSE i \in DOMAIN def.cols : def.cols[i].name = c
Meant(names) == {o.root : o \in {x \in Of("table") : x.name \in names}}

----------------------------------------------------------------------------
(* Rows *)

GenCols(ct) == {i \in DOMAIN ct.cols : ct.cols[i].gen # "no"}
Virtual(ct) == {i \in DOMAIN ct.cols : ct.cols[i].gen = "virtual"}

\* A column of S reads a name that is no column, or itself through others of S
\* (unknown_column_ref, generated_column_loop).
Unknown(ct, S) == \E i \in S : ct.cols[i].reads \notin Range(ColNames(ct))
Loops(ct, S) ==
  LET to(i) == IF ct.cols[i].reads \in Range(ColNames(ct)) THEN Position(ct, ct.cols[i].reads) ELSE 0
      step(T) == {to(i) : i \in T \cap S}
  IN  \E i \in S : i \in step({i}) \/ i \in step(step({i})) \/ i \in step(step(step({i})))

\* eval_generated_in_order over the columns S: what a column reads is computed before it,
\* and the row is an error when it cannot be.  A column is one more than what it reads.
Computable(def, S) == ~Unknown(def, S) /\ ~Loops(def, S)
Generated(def, S, vals) ==
  LET plus1(v) == IF v = Null THEN Null ELSE 1 + v
      value[i \in DOMAIN def.cols] ==
        IF i \in S THEN plus1(value[Position(def, def.cols[i].reads)]) ELSE vals[i]
  IN  value

\* decode_full_row: the record holds the columns that are not virtual; a short one is
\* filled with the defaults; the virtual ones are computed.
Decoded(def, rec) ==
  LET field(i) == Cardinality((1 .. i) \ Virtual(def))
  IN  Generated(def, Virtual(def), [i \in DOMAIN def.cols |->
        IF i \in Virtual(def) THEN Null
        ELSE IF field(i) <= Len(rec) THEN rec[field(i)] ELSE def.cols[i].dflt])

Stored(def, vals) ==
  [j \in 1 .. Cardinality(DOMAIN vals \ Virtual(def)) |->
     vals[CHOOSE i \in DOMAIN vals \ Virtual(def) : Cardinality((1 .. i) \ Virtual(def)) = j]]

\* scan_table: an error when a row cannot be decoded.
Unreadable(t) == trees[t.root] # {} /\ ~Computable(t.def, Virtual(t.def))
Scan(t) == {<<r[1], Decoded(t.def, r[2])>> : r \in trees[t.root]}

\* indexes_of: an automatic index is told by the table's name in its own.
IndexesOf(t) ==
  {o \in Of("index") : o.tbl = t.name /\ (Len(o.name) = 2 => o.name[1] = t.name[1] /\ o.name[2] <= Len(t.def.uniq))}

\* index_key_spec, and the UNIQUE list an automatic index stands for.
KeyOf(t, idx) == IF Len(idx.name) = 2 THEN t.def.uniq[idx.name[2]] ELSE idx.def.key
KeyValues(def, key, vals) == [k \in DOMAIN key |-> vals[Position(def, key[k])]]
Entries(t, key, rows) == {<<KeyValues(t.def, key, r[2]), r[1]>> : r \in rows}

\* unique_index_conflict: equal keys without a NULL.
Conflict(t, key, rows) ==
  \E a, b \in rows : /\ a[1] # b[1] /\ KeyValues(t.def, key, a[2]) = KeyValues(t.def, key, b[2])
                     /\ Null \notin Range(KeyValues(t.def, key, a[2]))

----------------------------------------------------------------------------
(* sqlite_schema *)

NextRowid(m) == 1 + Max({0} \cup DOMAIN m)
NewRoot(ts) == CHOOSE r \in 1 .. 1 + Cardinality(DOMAIN ts) : r \notin DOMAIN ts
Put(f, k, v) == [x \in DOMAIN f \cup {k} |-> IF x = k THEN v ELSE f[x]]

\* table_namespace_conflict.
Taken(n) == \E o \in Objects : o.name = n /\ o.type \in {"table", "view", "index"}

\* schema_rowids_for: the rows are found by name alone.
SchemaRowidsFor(names) == {i \in DOMAIN master : master[i].name \in names}

\* rewrite_schema_rows.
RewriteSchemaRows(f(_)) == [i \in DOMAIN master |-> f(master[i])]

----------------------------------------------------------------------------
(* What exec_create_table refuses *)

\* Duplicate names, generated columns of the key or with a default, nothing but generated.
ColumnsBad(ct) ==
  \/ \E i, j \in DOMAIN ct.cols : i # j /\ ct.cols[i].name = ct.cols[j].name
  \/ \E i \in GenCols(ct) : ct.cols[i].dflt # Null \/ ct.cols[i].name \in Range(ct.pk)
  \/ GenCols(ct) = DOMAIN ct.cols

\* Names in generated columns must exist and not go round.
ExpressionsBad(ct) == ~Computable(ct, GenCols(ct))

\* Key columns must exist; AUTOINCREMENT needs a one-column key of a rowid table, WITHOUT
\* ROWID needs a key.
KeysBad(ct) ==
  \/ \E s \in Range(ct.uniq) \cup {ct.pk} : ~(Range(s) \subseteq Range(ColNames(ct)))
  \/ ct.autoinc /\ (ct.norowid \/ Len(ct.pk) # 1)
  \/ ct.norowid /\ ct.pk = <<>>

----------------------------------------------------------------------------
(* The statements *)

Step == steps < MaxSteps /\ steps' = steps + 1
NoChange == UNCHANGED <<master, trees, sequence, seen>>

\* collect_unique_sets and the loop of exec_create_table over them.
WithAutoindexes(m, ts, n, sets) ==
  LET k == Len(sets)
      root(j) == CHOOSE r \in 1 .. 2 + k + Cardinality(DOMAIN ts) :
                   r \notin DOMAIN ts /\ Cardinality({x \in 1 .. r : x \notin DOMAIN ts}) = j
      base == NextRowid(m)
  IN  [m |-> [x \in DOMAIN m \cup (base .. base + k - 1) |->
                IF x < base THEN m[x] ELSE Row("index", <<n[1], x - base + 1>>, n, root(x - base + 1), NoDef)],
       ts |-> [x \in DOMAIN ts \cup {root(j) : j \in 1 .. k} |-> IF x \in DOMAIN ts THEN ts[x] ELSE {}]]

TableDef(ct, names) ==
  [NoDef EXCEPT !.cols = ct.cols, !.uniq = ct.uniq, !.refs = ct.refs, !.autoinc = ct.autoinc, !.ids = names]

\* exec_create_table after the checks: the tree and its row, then the automatic indexes.
Created(n, ct) ==
  Given(NewRoot(trees), LAMBDA root :
    WithAutoindexes(Put(master, NextRowid(master), Row("table", n, n, root, TableDef(ct, Meant(ct.refs)))),
                    Put(trees, root, {}), n, ct.uniq))

CreateTable(n, ct) ==
  /\ Step
  /\ IF Taken(n) \/ ColumnsBad(ct) \/ ExpressionsBad(ct) \/ KeysBad(ct) THEN NoChange
     ELSE \E c \in {Created(n, ct)} : master' = c.m /\ trees' = c.ts /\ UNCHANGED <<sequence, seen>>

\* exec_create_table_as_select: SELECT * FROM t, new columns of the same names.
CreateTableAs(n, t) ==
  /\ Step /\ IsTable(t) /\ ~IsVirtual(t)
  /\ IF Taken(n) \/ Unreadable(TableNamed(t)) THEN NoChange
     ELSE LET src == TableNamed(t)
              cols == [i \in DOMAIN src.def.cols |->
                         [name |-> src.def.cols[i].name, gen |-> "no", reads |-> "", dflt |-> Null]]
              root == NewRoot(trees)
          IN  /\ master' = Put(master, NextRowid(master), Row("table", n, n, root, [NoDef EXCEPT !.cols = cols]))
              /\ trees' = Put(trees, root, Scan(src))
              /\ UNCHANGED <<sequence, seen>>

\* exec_create_index.
CreateIndex(n, t, key, unique) ==
  /\ Step
  /\ IF \/ Taken(n) \/ ~IsTable(t) \/ IsVirtual(t)
        \/ ~(Range(key) \subseteq Range(ColNames(TableNamed(t).def)))
        \/ Unreadable(TableNamed(t))
        \/ unique /\ Conflict(TableNamed(t), key, Scan(TableNamed(t)))
       THEN NoChange
       ELSE LET root == NewRoot(trees)
            IN  /\ master' = Put(master, NextRowid(master),
                                 Row("index", n, t, root, [NoDef EXCEPT !.key = key, !.unique = unique]))
                /\ trees' = Put(trees, root, Entries(TableNamed(t), key, Scan(TableNamed(t))))
                /\ UNCHANGED <<sequence, seen>>

\* exec_create_view.
CreateView(n, uses) ==
  /\ Step
  /\ IF Taken(n) THEN NoChange
     ELSE /\ master' = Put(master, NextRowid(master),
                           Row("view", n, n, 0, [NoDef EXCEPT !.uses = uses, !.ids = Meant(uses)]))
          /\ UNCHANGED <<trees, sequence, seen>>

\* exec_create_trigger: only another trigger of that name is in the way.
CreateTrigger(n, t, uses) ==
  /\ Step
  /\ IF Object("trigger", n) # {} \/ (~IsTable(t) /\ Object("view", t) = {}) THEN NoChange
     ELSE /\ master' = Put(master, NextRowid(master),
                           Row("trigger", n, t, 0, [NoDef EXCEPT !.uses = uses, !.ids = Meant(uses)]))
          /\ UNCHANGED <<trees, sequence, seen>>

\* exec_create_virtual_table of a module that keeps its rows: a table behind it.
CreateVirtualTable(n, cols) ==
  /\ Step
  /\ IF Taken(n) \/ Taken(<<n[1], 0>>) THEN NoChange
     ELSE LET root == NewRoot(trees)
              m == Put(master, NextRowid(master), Row("table", <<n[1], 0>>, <<n[1], 0>>, root, [NoDef EXCEPT !.cols = cols]))
          IN  /\ master' = Put(m, NextRowid(m), Row("table", n, n, 0, [NoDef EXCEPT !.cols = cols]))
              /\ trees' = Put(trees, root, {})
              /\ UNCHANGED <<sequence, seen>>

\* exec_drop: free the tree, its indexes' and triggers' rows go with a table's.
DropVictims(o) ==
  IF o.type # "table" THEN {o}
  ELSE {o} \cup {x \in Objects : x.type \in {"index", "trigger"} /\ x.tbl = o.name}
           \cup (IF o.root # 0 THEN {} ELSE
                 UNION {{b} \cup {x \in Objects : x.type \in {"index", "trigger"} /\ x.tbl = b.name}
                        : b \in Object("table", <<o.name[1], 0>>)})

Drop(kind, n) ==
  /\ Step
  /\ IF Object(kind, n) = {} THEN NoChange
     ELSE \E o \in {CHOOSE x \in Object(kind, n) : TRUE} : \E gone \in {DropVictims(o)} :
          LET rowids == SchemaRowidsFor({v.name : v \in gone})
              roots == {v.root : v \in gone}
          IN  /\ master' = [i \in DOMAIN master \ rowids |-> [master[i] EXCEPT !.def.ids = @ \ roots]]
              /\ trees' = [r \in DOMAIN trees \ roots |-> trees[r]]
              /\ sequence' = IF kind = "table" THEN sequence \ {n} ELSE sequence
              /\ seen' = [seen EXCEPT !.clash = @ \/ Cardinality(rowids) > Cardinality(gone),
                                      !.left = @ \/ (kind = "view" /\ \E x \in Of("trigger") : x.tbl = n)]

\* append_column_to_create.
AppendColumn(cols, c) == Append(cols, c)

\* exec_alter, ADD COLUMN: only the stored SQL changes.  The expression of a generated
\* column is not looked at.
AddColumn(t, a) ==
  /\ Step /\ IsTable(t)
  /\ IF \/ IsVirtual(t) \/ a.unique \/ a.col.name \in Range(ColNames(TableNamed(t).def))
        \/ a.notnull /\ a.col.dflt = Null /\ trees[TableNamed(t).root] # {}
       THEN NoChange
       ELSE /\ master' = RewriteSchemaRows(LAMBDA o :
                 IF o.type = "table" /\ o.name = t THEN [o EXCEPT !.def.cols = AppendColumn(@, a.col)] ELSE o)
            /\ UNCHANGED <<trees, sequence, seen>>

\* rewrite_ident_tokens, rewrite_fk_references: the name wherever the text uses it.
Instead(names, old, new) == {IF n = old THEN new ELSE n : n \in names}

\* Mutant: views and triggers elsewhere keep the old name.
RenameRowAlone(o, old, new) ==
  IF o.type = "table" /\ o.name = old THEN [o EXCEPT !.name = new, !.tbl = new]
  ELSE IF o.tbl = old THEN [o EXCEPT !.tbl = new] ELSE o

\* exec_alter, RENAME TO, for one row: the table itself, what is on it, views and triggers
\* that use it, tables that reference it.
RenameRow(o, old, new) ==
  LET named == [o EXCEPT !.def.refs = Instead(@, old, new), !.def.uses = Instead(@, old, new)]
  IN  IF o.type = "table" /\ o.name = old THEN [named EXCEPT !.name = new, !.tbl = new]
      ELSE IF o.tbl = old THEN [named EXCEPT !.tbl = new]
      ELSE named

\* RENAME TO, and rename_virtual_table, which renames the table behind first.
RenameTable(old, new) ==
  /\ Step /\ IsTable(old)
  /\ LET back == IsVirtual(old) /\ IsTable(<<old[1], 0>>)
     IN  IF (\E o \in Objects : o.name = new) \/ (back /\ \E o \in Objects : o.name = <<new[1], 0>>) THEN NoChange
         ELSE /\ master' = RewriteSchemaRows(LAMBDA o :
                   IF IsVirtual(old)
                   THEN LET r == IF back THEN RenameRow(o, <<old[1], 0>>, <<new[1], 0>>) ELSE o
                        IN  IF r.type = "table" /\ r.name = old THEN [r EXCEPT !.name = new, !.tbl = new] ELSE r
                   ELSE RenameRow(o, old, new))
              /\ seen' = [seen EXCEPT !.autos = @ \/ \E o \in IndexesOf(TableNamed(old)) : Len(o.name) = 2,
                                      !.left = @ \/ (IsVirtual(old) /\ \E x \in Of("trigger") : x.tbl = old)]
              /\ UNCHANGED <<trees, sequence>>

\* exec_drop_column: refuse what is structure, then rewrite the rows and their indexes.
\* Every value is put in the new record, virtual ones included.
DropColumnRefused(t, c) ==
  \/ c \notin Range(ColNames(t.def)) \/ Len(t.def.cols) = 1
  \/ \E s \in Range(t.def.uniq) : c \in Range(s)
  \/ \A i \in DOMAIN t.def.cols : t.def.cols[i].name # c => t.def.cols[i].gen # "no"
  \/ \E i \in DOMAIN t.def.cols : t.def.cols[i].name # c /\ t.def.cols[i].gen # "no" /\ t.def.cols[i].reads = c
  \/ \E o \in IndexesOf(t) : Len(o.name) = 1 /\ c \in Range(o.def.key)

Without(s, p) == SubSeq(s, 1, p - 1) \o SubSeq(s, p + 1, Len(s))

\* Mutant: the last value goes, whichever column is dropped.
RemoveValueLast(vals, p) == Without(vals, Len(vals))
RemoveValue(vals, p) == Without(vals, p)

DropColumn(n, c) ==
  /\ Step /\ IsTable(n) /\ ~IsVirtual(n)
  /\ IF DropColumnRefused(TableNamed(n), c) \/ Unreadable(TableNamed(n)) THEN NoChange
     ELSE LET t == TableNamed(n)
              p == Position(t.def, c)
              nt == [t EXCEPT !.def.cols = Without(@, p)]
              recs == {<<r[1], RemoveValue(r[2], p)>> : r \in Scan(t)}
              now == {<<r[1], Decoded(nt.def, r[2])>> : r \in recs}
          IN  /\ master' = RewriteSchemaRows(LAMBDA o : IF o = t THEN nt ELSE o)
              /\ trees' = [x \in DOMAIN trees |->
                   IF x = t.root THEN recs
                   ELSE IF \E o \in IndexesOf(t) : o.root = x
                   THEN Entries(nt, KeyOf(nt, CHOOSE o \in IndexesOf(t) : o.root = x), now)
                   ELSE trees[x]]
              /\ seen' = [seen EXCEPT !.shifted = @ \/ \E i \in DOMAIN nt.def.cols : nt.def.cols[i].gen = "virtual"]
              /\ UNCHANGED sequence

\* exec_insert of one row, as far as the trees are concerned.
Insert(n, vals) ==
  /\ Step /\ IsTable(n) /\ ~IsVirtual(n)
  /\ LET t == TableNamed(n)
         rowid == 1 + Max({0} \cup {r[1] : r \in trees[t.root]})
         row == Generated(t.def, GenCols(t.def), [i \in DOMAIN t.def.cols |-> vals[1 + (i % Len(vals))]])
         rows == Scan(t) \cup {<<rowid, row>>}
         lists == Range(t.def.uniq) \cup {o.def.key : o \in {x \in IndexesOf(t) : x.def.unique}}
     IN  IF ~Computable(t.def, GenCols(t.def)) \/ rowid > MaxRows \/ (\E key \in lists : Conflict(t, key, rows)) THEN NoChange
         ELSE /\ trees' = [x \in DOMAIN trees |->
                   IF x = t.root THEN trees[x] \cup {<<rowid, Stored(t.def, row)>>}
                   ELSE IF \E o \in IndexesOf(t) : o.root = x
                   THEN trees[x] \cup Entries(t, KeyOf(t, CHOOSE o \in IndexesOf(t) : o.root = x), {<<rowid, row>>})
                   ELSE trees[x]]
              /\ sequence' = IF t.def.autoinc THEN sequence \cup {n} ELSE sequence
              /\ UNCHANGED <<master, seen>>

Init ==
  /\ master = <<>> /\ trees = [r \in {} |-> {}] /\ sequence = {} /\ steps = 0
  /\ seen = [clash |-> FALSE, left |-> FALSE, autos |-> FALSE, shifted |-> FALSE]

N1 == {<<n>> : n \in Names}

Next ==
  \/ \E n \in N1, ct \in Shapes : CreateTable(n, ct)
  \/ \E n, t \in N1 : CreateTableAs(n, t)
  \/ \E n, t \in N1, key \in Keys, u \in BOOLEAN : CreateIndex(n, t, key, u)
  \/ \E n, t \in N1 : CreateView(n, {t})
  \/ \E n, t, u \in N1 : CreateTrigger(n, t, {t, u})
  \/ \E n \in N1 : CreateVirtualTable(n, <<[name |-> "x", gen |-> "no", reads |-> "", dflt |-> Null]>>)
  \/ \E k \in {"table", "index", "view", "trigger"}, n \in N1 : Drop(k, n)
  \/ \E t \in N1, a \in Added : AddColumn(t, a)
  \/ \E old, new \in N1 : RenameTable(old, new)
  \/ \E t \in N1, c \in {"x", "y", "z"} : DropColumn(t, c)
  \/ \E t \in N1, vals \in {<<1, 2>>, <<2, 1>>} : Insert(t, vals)

Spec == Init /\ [][Next]_vars

----------------------------------------------------------------------------
(* Properties *)

\* Every tree belongs to one schema row and every row with a root has its tree; an index or
\* trigger is on a table (or view) that exists.
TreesOwned ==
  /\ DOMAIN trees = {o.root : o \in Objects} \ {0}
  /\ \A i, j \in DOMAIN master : i # j /\ master[i].root = master[j].root => master[i].root = 0
  /\ \A o \in Objects : o.type = "index" \/ (o.type = "trigger" /\ ~seen.left) =>
       \E t \in Objects : t.name = o.tbl /\ t.type \in {"table", "view"}

\* Whatever was created, renamed, altered or dropped in between, every index of a table that
\* can be read holds exactly its rows, and a view, trigger or foreign key still names the table it named.
Dependents ==
  /\ \A o \in Of("index") : \A t \in Object("table", o.tbl) :
       o \in IndexesOf(t) /\ (Len(o.name) = 2 => ~seen.autos) /\ ~Unreadable(t) => trees[o.root] = Entries(t, KeyOf(t, o), Scan(t))
  /\ \A o \in Objects : \A t \in Of("table") :
       t.root # 0 /\ t.root \in o.def.ids => t.name \in o.def.refs \cup o.def.uses

CatalogSound == ~seen.clash => TreesOwned /\ Dependents

\* No schema change loses a row, alters a value of a column that stays or makes a row
\* unreadable, but for ADD COLUMN of a generated column that cannot be computed.
KeepsRows ==
  ~seen'.shifted =>
     \A i \in DOMAIN master : i \in DOMAIN master' /\ master[i].type = "table" /\ master[i].root # 0
                              /\ master'[i].root = master[i].root =>
       LET was == master[i].def
           now == master'[i].def
           readable(def) == Computable(def, Virtual(def))
       IN  \A r \in trees[master[i].root] : \E q \in trees'[master[i].root] :
             /\ q[1] = r[1]
             /\ readable(was) =>
                  IF readable(now)
                  THEN \A c \in Range(ColNames(was)) \cap Range(ColNames(now)) :
                         Decoded(was, r[2])[Position(was, c)] = Decoded(now, q[2])[Position(now, c)]
                  ELSE q = r /\ Len(now.cols) = Len(was.cols) + 1 /\ Last(now.cols).gen = "virtual"
=============================================================================
