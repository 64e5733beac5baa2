---------------------------- MODULE Transactions ----------------------------
(***************************************************************************)
(* The transactions of one connection (exec/mod.rs): BEGIN, COMMIT,        *)
(* ROLLBACK, savepoints, autocommit and the statement savepoint that makes *)
(* an INSERT, UPDATE or DELETE atomic, over the main database, the temp    *)
(* and the attached ones, each with a pager of its own; deferred foreign   *)
(* keys, and the commit and rollback hooks.                                *)
(*                                                                         *)
(* The image of a database is the set of changes it holds.  A change is a  *)
(* row, an entry of the catalog, or a child row without its parent under   *)
(* a deferred or an immediate foreign key.  The lock protocol behind       *)
(* `busy' is that of Connections.                                          *)
(***************************************************************************)
EXTENDS Naturals, Sequences, FiniteSets

CONSTANTS
  Attached,   \* the temp and attached databases, in the order they commit
  Name,       \* savepoint names
  MaxStmt,    \* bound: statements that change something
  MaxSaves,   \* bound: open savepoints
  FaultSets   \* the combinations of faults that are looked at

Fault == {"busy", "ddlFails", "cleanCommit", "deferOff", "fkOff", "attachInTx"}

ASSUME Bounds == MaxStmt \in Nat /\ MaxSaves \in Nat /\ FaultSets \subseteq SUBSET Fault
ASSUME AttachedNames == Attached \in Seq(STRING \ {"main"})

Order == <<"main">> \o Attached
Db == {Order[i] : i \in 1 .. Len(Order)}
Others == {Attached[i] : i \in 1 .. Len(Attached)}

Kind == {"row", "ddl", "orphanDeferred", "orphanImmediate"}
Change == [id : 1 .. MaxStmt, kind : Kind]
Orphans(img) == {t \in img : t.kind \in {"orphanDeferred", "orphanImmediate"}}
CatalogOf(img) == {t \in img : t.kind = "ddl"}

VARIABLES
  disk,       \* committed image of each database
  work,       \* the image its pager shows: committed with the overlay applied
  saves,      \* WritePager.savepoints of each database
  there,      \* databases of the connection
  inTx,       \* Connection.in_tx
  openSaves,  \* Connection.open_savepoints
  deferFk,    \* PRAGMA defer_foreign_keys
  fkOn,       \* PRAGMA foreign_keys
  catalog,    \* the schema cached for each database
  stmts,      \* statements so far
  faults      \* what may go wrong in this behaviour

pagers == <<disk, work, saves>>
vars == <<disk, work, saves, there, inTx, openSaves, deferFk, fkOn, catalog, stmts,
          faults>>

TypeOK ==
  /\ disk \in [Db -> SUBSET Change] /\ work \in [Db -> SUBSET Change]
  /\ \A d \in Db : saves[d] \in Seq([name : Name, image : SUBSET Change])
  /\ "main" \in there /\ there \subseteq Db
  /\ inTx \in BOOLEAN /\ openSaves \in 0 .. MaxSaves
  /\ deferFk \in BOOLEAN /\ fkOn \in BOOLEAN
  /\ catalog \in [Db -> SUBSET Change]
  /\ stmts \in 0 .. MaxStmt
  /\ faults \in SUBSET Fault

Init ==
  /\ disk = [d \in Db |-> {}] /\ work = disk
  /\ saves = [d \in Db |-> <<>>]
  /\ there = Db
  /\ inTx = FALSE /\ openSaves = 0 /\ deferFk = FALSE /\ fkOn = TRUE
  /\ catalog = [d \in Db |-> {}]
  /\ stmts = 0
  /\ faults \in FaultSets

Active == inTx \/ openSaves > 0
Limit == IF faults = {} THEN MaxStmt ELSE MaxStmt - 1   \* one less when faults happen too

Dirty(d) == work[d] # disk[d]

----------------------------------------------------------------------------
(* The pager calls. *)

\* rposition finds the savepoint at i: the newest one of that name.
FoundAt(s, n, i) == s[i].name = n /\ \A j \in i + 1 .. Len(s) : s[j].name # n

HasSave(s, n) == \E i \in 1 .. Len(s) : FoundAt(s, n, i)
LastSave(s, n) == CHOOSE i \in 1 .. Len(s) : FoundAt(s, n, i)

\* release_savepoint: that savepoint and the ones inside it are gone.
ReleaseIn(s, n) == IF HasSave(s, n) THEN SubSeq(s, 1, LastSave(s, n) - 1) ELSE s

\* Mutant of RollbackToIn: the savepoint itself is dropped too.
RollbackToInDrops(s, n) == ReleaseIn(s, n)

\* rollback_to_savepoint keeps the savepoint itself.
RollbackToIn(s, n) == IF HasSave(s, n) THEN SubSeq(s, 1, LastSave(s, n)) ELSE s
ImageAt(s, img, n) == IF HasSave(s, n) THEN s[LastSave(s, n)].image ELSE img

\* commit() of the databases in ds whose savepoints are s.  A clean pager
\* returns at once and keeps them.
CommitDbs(ds, s) ==
  /\ disk' = [d \in Db |-> IF d \in ds THEN work[d] ELSE disk[d]]
  /\ saves' = [d \in Db |-> IF d \in ds /\ Dirty(d) THEN <<>> ELSE s[d]]
  /\ UNCHANGED work

\* Mutant of RollbackDbs: the savepoints are kept.
RollbackDbsKeepsSaves(ds) ==
  /\ work' = [d \in Db |-> IF d \in ds THEN disk[d] ELSE work[d]]
  /\ UNCHANGED <<disk, saves>>

RollbackDbs(ds) ==
  /\ work' = [d \in Db |-> IF d \in ds THEN disk[d] ELSE work[d]]
  /\ saves' = [d \in Db |-> IF d \in ds THEN <<>> ELSE saves[d]]
  /\ UNCHANGED disk

\* The schemas of the databases in ds are read again, from the new images.
Reread(ds) == catalog' = [d \in Db |-> IF d \in ds THEN CatalogOf(work'[d]) ELSE catalog[d]]

\* Main commits, then commit_attached takes the others in their order.
CommitsAll(s) == CommitDbs(there, s) /\ Reread(there \ {"main"})

\* A database another connection has locked refuses: the ones before it are
\* committed, it and the ones after it are not.
CommitsUntilBusy(s) ==
  /\ "busy" \in faults
  /\ \E k \in 1 .. Len(Order) :
       /\ Order[k] \in there /\ Dirty(Order[k])
       /\ LET before == {Order[i] : i \in 1 .. k - 1} \cap there
          IN  CommitDbs(before, s) /\ Reread(before \ {"main"})

\* fire_commit_hook is asked only when main has dirty pages.
VetoPossible == Dirty("main")

----------------------------------------------------------------------------
(* Transaction control: execute_params_inner. *)

Begin ==
  /\ ~inTx
  /\ inTx' = TRUE
  /\ UNCHANGED <<pagers, there, openSaves, deferFk, fkOn, catalog, stmts, faults>>

\* Mutant of DeferredFksHold: keys deferred by the pragma are not verified.
DeclaredFksHold == fkOn => ~ \E t \in work["main"] : t.kind = "orphanDeferred"

\* check_deferred_fks scans the child tables of main for the keys that are
\* deferred now.
DeferredFksHold ==
  fkOn => ~ \E t \in work["main"] : \/ t.kind = "orphanDeferred"
                                    \/ t.kind = "orphanImmediate" /\ deferFk

LeaveTx == inTx' = FALSE /\ openSaves' = 0 /\ deferFk' = FALSE

Commit ==
  /\ Active
  /\ "cleanCommit" \in faults \/ Dirty("main") \/ saves["main"] = <<>>
  /\ DeferredFksHold
  /\ \/ CommitsAll(saves) /\ LeaveTx
     \/ CommitsUntilBusy(saves) /\ UNCHANGED <<inTx, openSaves, deferFk>>
     \/ VetoPossible /\ RollbackDbs(there) /\ LeaveTx /\ Reread(there)
  /\ UNCHANGED <<there, fkOn, stmts, faults>>

Rollback ==
  /\ Active
  /\ RollbackDbs(there) /\ LeaveTx /\ Reread({"main"} \cup there)
  /\ UNCHANGED <<there, fkOn, stmts, faults>>

Savepoint(n) ==
  /\ openSaves < MaxSaves /\ \A d \in Db : Len(saves[d]) < MaxSaves
  /\ saves' = [d \in Db |-> IF d \in there
                            THEN Append(saves[d], [name |-> n, image |-> work[d]])
                            ELSE saves[d]]
  /\ openSaves' = openSaves + 1
  /\ UNCHANGED <<disk, work, there, inTx, deferFk, fkOn, catalog, stmts, faults>>

Released(n) == [d \in Db |-> IF d \in there THEN ReleaseIn(saves[d], n) ELSE saves[d]]

\* RELEASE.  The outermost savepoint of a transaction no BEGIN opened ends it,
\* after the savepoint itself is gone.
Release(n) ==
  /\ HasSave(saves["main"], n)
  /\ openSaves' = Len(Released(n)["main"])
  /\ IF openSaves' = 0 /\ ~inTx
     THEN \/ /\ ~DeferredFksHold
             /\ saves' = Released(n)
             /\ UNCHANGED <<disk, work, deferFk, catalog>>
          \/ /\ DeferredFksHold
             /\ \/ /\ CommitDbs(there, Released(n)) /\ Reread(there)
                   /\ deferFk' = FALSE
                \/ CommitsUntilBusy(Released(n)) /\ UNCHANGED <<deferFk>>
                \/ /\ VetoPossible
                   /\ RollbackDbs(there) /\ Reread(there)
                   /\ deferFk' = FALSE
     ELSE saves' = Released(n) /\ UNCHANGED <<disk, work, deferFk, catalog>>
  /\ UNCHANGED <<there, inTx, fkOn, stmts, faults>>

RollbackTo(n) ==
  /\ HasSave(saves["main"], n)
  /\ work' = [d \in Db |-> IF d \in there THEN ImageAt(saves[d], work[d], n) ELSE work[d]]
  /\ saves' = [d \in Db |-> IF d \in there THEN RollbackToIn(saves[d], n) ELSE saves[d]]
  /\ openSaves' = Len(saves'["main"])
  /\ Reread({d \in there : HasSave(saves[d], n)})
  /\ UNCHANGED <<disk, there, inTx, deferFk, fkOn, stmts, faults>>

----------------------------------------------------------------------------
(* Statements: exec_parsed and run_dml_atomic, with the target d swapped   *)
(* into the place of main, so that the autocommit takes d alone.           *)

Changed(d, img) == [work EXCEPT ![d] = img]

\* The implicit commit of a statement that left img in d.
Autocommit(d, img) ==
  \/ /\ disk' = [disk EXCEPT ![d] = img] /\ work' = Changed(d, img)
     /\ saves' = IF img # disk[d] THEN [saves EXCEPT ![d] = <<>>] ELSE saves
     /\ Reread({d})
  \/ /\ "busy" \in faults /\ img # disk[d]
     /\ work' = Changed(d, img) /\ Reread({d}) /\ UNCHANGED <<disk, saves>>
  \/ /\ img # disk[d]
     /\ work' = [work EXCEPT ![d] = disk[d]] /\ saves' = [saves EXCEPT ![d] = <<>>]
     /\ Reread({d})
     /\ UNCHANGED disk

\* A key is deferred only inside BEGIN; outside it is checked at once.
Deferrable(k) == ~fkOn \/ (inTx /\ (k = "orphanDeferred" \/ deferFk))

Writes(d, k) == k \in {"orphanDeferred", "orphanImmediate"} => d = "main" /\ Deferrable(k)

NextId == stmts + 1

Succeeds(d, img) ==
  /\ IF Active
     THEN /\ work' = Changed(d, img)
          /\ IF CatalogOf(img) # CatalogOf(work[d]) THEN Reread({d}) ELSE UNCHANGED catalog
          /\ UNCHANGED <<disk, saves>>
     ELSE Autocommit(d, img)
  /\ UNCHANGED <<there, inTx, openSaves, deferFk, fkOn, faults>>

Statement(d, k) ==
  /\ d \in there /\ stmts < Limit /\ stmts' = NextId
  /\ Writes(d, k)
  /\ Succeeds(d, work[d] \cup {[id |-> NextId, kind |-> k]})

\* A DELETE of the rows that have no parent.  What it wrote is a change too: the
\* pages stay in the overlay.
Repair ==
  /\ stmts < Limit /\ stmts' = NextId
  /\ Orphans(work["main"]) # {}
  /\ Succeeds("main", (work["main"] \ Orphans(work["main"]))
                      \cup {[id |-> NextId, kind |-> "row"]})

\* An INSERT, UPDATE or DELETE that fails after it changed a row.
DmlFails(d, conflict) ==
  /\ d \in there /\ stmts < Limit /\ stmts' = NextId
  /\ LET partial == work[d] \cup {[id |-> NextId, kind |-> "row"]}
     IN  CASE conflict = "rollback" ->
                /\ RollbackDbs(there) /\ Reread(there)
                /\ inTx' = FALSE /\ openSaves' = 0
           [] conflict = "fail" ->
                /\ IF Active
                   THEN work' = Changed(d, partial) /\ UNCHANGED <<disk, saves, catalog>>
                   ELSE \/ /\ disk' = [disk EXCEPT ![d] = partial]
                           /\ work' = Changed(d, partial)
                           /\ saves' = [saves EXCEPT ![d] = <<>>] /\ Reread({d})
                        \/ /\ "busy" \in faults
                           /\ work' = Changed(d, partial)
                           /\ UNCHANGED <<disk, saves, catalog>>
                /\ UNCHANGED <<inTx, openSaves>>
           [] OTHER ->
                /\ IF Active
                   THEN UNCHANGED <<disk, work, saves, catalog>>
                   ELSE RollbackDbs(there) /\ Reread(there)
                /\ UNCHANGED <<inTx, openSaves>>
  /\ UNCHANGED <<there, deferFk, fkOn, faults>>

\* A CREATE, DROP or ALTER that fails after it staged something: no savepoint
\* surrounds it, and its error returns past the autocommit.
DdlFails(d) ==
  /\ "ddlFails" \in faults
  /\ d \in there /\ stmts < Limit /\ stmts' = NextId
  /\ work' = Changed(d, work[d] \cup {[id |-> NextId, kind |-> "ddl"]})
  /\ UNCHANGED <<disk, saves, there, inTx, openSaves, deferFk, fkOn, catalog,
                 faults>>

PragmaDefer(on) ==
  /\ on \/ "deferOff" \in faults
  /\ deferFk' = on /\ deferFk # on
  /\ UNCHANGED <<pagers, there, inTx, openSaves, fkOn, catalog, stmts, faults>>

PragmaForeignKeys ==
  /\ "fkOff" \in faults
  /\ fkOn' = ~fkOn
  /\ UNCHANGED <<pagers, there, inTx, openSaves, deferFk, catalog, stmts, faults>>

\* ATTACH opens the file with a fresh pager; DETACH drops the pager and what it
\* staged.
Attach(d) ==
  /\ Active => "attachInTx" \in faults
  /\ d \in Others \ there /\ there' = there \cup {d}
  /\ work' = [work EXCEPT ![d] = disk[d]]
  /\ saves' = [saves EXCEPT ![d] = <<>>] /\ Reread({d})
  /\ UNCHANGED <<disk, inTx, openSaves, deferFk, fkOn, stmts, faults>>

Detach(d) ==
  /\ Active => "attachInTx" \in faults
  /\ d \in there \ {"main"} /\ there' = there \ {d}
  /\ work' = [work EXCEPT ![d] = disk[d]]
  /\ saves' = [saves EXCEPT ![d] = <<>>] /\ Reread({d})
  /\ UNCHANGED <<disk, inTx, openSaves, deferFk, fkOn, stmts, faults>>

Next ==
  \/ Begin \/ Commit \/ Rollback \/ Repair \/ PragmaForeignKeys
  \/ \E n \in Name : Savepoint(n) \/ Release(n) \/ RollbackTo(n)
  \/ \E d \in Db : \/ \E k \in Kind : Statement(d, k)
                   \/ \E c \in {"abort", "fail", "rollback"} : DmlFails(d, c)
                   \/ DdlFails(d) \/ Attach(d) \/ Detach(d)
  \/ \E on \in BOOLEAN : PragmaDefer(on)

Spec == Init /\ [][Next]_vars

----------------------------------------------------------------------------
(* Properties. *)

\* The savepoints of every database, as the stack the connection shows.  A
\* database may keep older savepoints below them.
Stack ==
  [i \in 1 .. Len(saves["main"]) |->
     [name |-> saves["main"][i].name,
      image |-> [d \in Db |->
                   LET base == Len(saves[d]) - Len(saves["main"])
                   IN  IF base + i \in 1 .. Len(saves[d])
                       THEN saves[d][base + i].image ELSE disk[d]]]]

Promise == INSTANCE SqlTransaction WITH
  Image <- SUBSET Change, committed <- disk, current <- work, marks <- Stack, begun <- inTx

Without(fs) == faults \cap fs = {}

\* The pagers of all databases together behave as one transactional image: a
\* statement, a commit, a rollback and a savepoint of the connection take all of
\* them or none, though each pager commits, rolls back and keeps its savepoints
\* by itself.
OneTransaction ==
  /\ Promise!Init
  /\ [][Without(Fault) => [Promise!Next]_(Promise!vars)]_vars

\* No committed image of main holds a child row without its parent, whatever
\* statements deferred the check (check_deferred_fks).
ForeignKeysCommitted == Without({"deferOff", "fkOff"}) => Orphans(disk["main"]) = {}

\* Outside a transaction nothing is staged and no savepoint of main is left, so
\* that the next statement commits its own change alone (run_dml_atomic).
NothingLeftStaged ==
  (~Active /\ Without({"busy", "ddlFails", "cleanCommit", "deferOff", "fkOff"}))
    => work = disk /\ saves["main"] = <<>>

\* The schema the connection plans with is the one of the image it reads.
CatalogCurrent == Without({"ddlFails"}) => \A d \in there : catalog[d] = CatalogOf(work[d])

\* Between transactions the connection is as after an open: nothing is staged, no
\* savepoint of main is left, and the schemas are those of the images.
CleanBetween == NothingLeftStaged /\ CatalogCurrent

=============================================================================
