-------------------------- MODULE TransactionSteps --------------------------
(***************************************************************************)
(* The inductive invariant of Transactions, the lemmas about stacks of     *)
(* savepoints, what each step does to the pagers of the databases, and that*)
(* every step keeps the types, the cached schemas, detached databases and  *)
(* the foreign keys.                                                       *)
(***************************************************************************)
EXTENDS Transactions, TLAPS

\* One entry of WritePager.savepoints.
Mark == [name : Name, image : SUBSET Change]

\* The changes of the statements so far; the next one makes a new one.
Known == {t \in Change : t.id <= stmts}

\* What the pagers hold.
Stored ==
  /\ disk \in [Db -> SUBSET Known] /\ work \in [Db -> SUBSET Known]
  /\ saves \in [Db -> Seq(Mark)]
  /\ \A d \in Db : /\ Len(saves[d]) <= MaxSaves
                   /\ \A i \in 1 .. Len(saves[d]) : saves[d][i].image \subseteq Known

\* The types of the other variables.
Control ==
  /\ "main" \in there /\ there \subseteq Db
  /\ inTx \in BOOLEAN /\ openSaves \in 0 .. MaxSaves
  /\ deferFk \in BOOLEAN /\ fkOn \in BOOLEAN
  /\ catalog \in [Db -> SUBSET Change]
  /\ stmts \in 0 .. MaxStmt
  /\ faults \in SUBSET Fault

\* What main has staged stays staged until a commit or a rollback: a savepoint of a
\* clean main, and those outside a savepoint that was taken clean, bring back what is
\* committed.
NestedIn(w, dk, s) ==
  /\ w = dk => \A i \in 1 .. Len(s) : s[i].image = dk
  /\ \A i, j \in 1 .. Len(s) : i <= j /\ s[j].image = dk => s[i].image = dk

\* Clean images nest in main.
Nested == NestedIn(work["main"], disk["main"], saves["main"])

\* A database that is not attached has nothing staged.
Detached == \A d \in Db \ there : work[d] = disk[d] /\ saves[d] = <<>>

\* An image that may be there with or without BEGIN and PRAGMA defer_foreign_keys: child
\* rows without a parent appear only inside BEGIN, and those of immediate keys only
\* while the pragma is on.
Tolerated(img, begun, deferred) ==
  /\ Orphans(img) # {} => begun
  /\ \A t \in img : t.kind = "orphanImmediate" => deferred

\* Nothing committed has a child row without a parent, and nothing that a COMMIT or a
\* ROLLBACK TO can bring back has one the connection would not check for.
KeysIn(dk, w, s, begun, deferred) ==
  /\ Orphans(dk) = {} /\ Tolerated(w, begun, deferred)
  /\ \A i \in 1 .. Len(s) : Tolerated(s[i].image, begun, deferred)

\* The foreign keys of main, as long as no pragma turned them off.
Keys == Without({"deferOff", "fkOff"}) =>
          fkOn /\ KeysIn(disk["main"], work["main"], saves["main"], inTx, deferFk)

\* None of the faults that leave something staged happens.
Quiet == Without({"busy", "ddlFails", "cleanCommit", "deferOff", "fkOff"})

\* The connection counts the savepoints of main, and outside a transaction nothing is
\* staged.
Settled == Quiet => openSaves = Len(saves["main"]) /\ (~Active => work = disk)

\* The newest savepoints of every attached database are those of main.
Aligned == Without(Fault) => \A d \in there :
  /\ Len(saves["main"]) <= Len(saves[d])
  /\ \A i \in 1 .. Len(saves["main"]) :
       saves[d][Len(saves[d]) - Len(saves["main"]) + i].name = saves["main"][i].name

\* The inductive invariant.
Inv == Stored /\ Control /\ Nested /\ Detached /\ Keys /\ Settled /\ Aligned /\ CatalogCurrent

-----------------------------------------------------------------------------
(***************************************************************************)
(* Stacks of savepoints                                                    *)
(***************************************************************************)

\* Main is a database.
LEMMA MainIsDb == "main" \in Db /\ Others \subseteq Db
<1> DEFINE S == STRING \cup {"main"}
<1>0. STRING \ {"main"} \subseteq S /\ "main" \in S
  OBVIOUS
<1> HIDE DEF S
<1>a. Attached \in Seq(S)
  BY <1>0, AttachedNames DEF S
<1>1. /\ <<"main">> \in Seq(S) /\ Attached \in Seq(S)
      /\ Len(<<"main">>) = 1 /\ <<"main">>[1] = "main"
  BY <1>0, <1>a
<1>2. /\ Order \in Seq(S) /\ Len(Order) = 1 + Len(Attached) /\ Order[1] = "main"
      /\ \A i \in 1 .. Len(Attached) : Order[1 + i] = Attached[i]
  BY <1>1 DEF Order
<1>3. Len(Attached) \in Nat
  BY <1>1
<1>4. "main" \in Db
  BY <1>2, <1>3 DEF Db
<1>5. ASSUME NEW i \in 1 .. Len(Attached) PROVE Attached[i] \in Db
  BY <1>2, <1>3, <1>5 DEF Db
<1> QED
  BY <1>4, <1>5 DEF Others

\* A stack of savepoints is a sequence of marks.
LEMMA StackOfMarks ==
  \A s \in Seq(Mark) : /\ Len(s) \in Nat /\ (Len(s) = 0 => s = <<>>)
                       /\ \A i \in 1 .. Len(s) : s[i] \in Mark
OBVIOUS

\* The savepoint that is found is the newest of its name.
LEMMA LastSaveExists ==
  ASSUME NEW s \in Seq(Mark), NEW n, HasSave(s, n)
  PROVE  /\ LastSave(s, n) \in 1 .. Len(s)
         /\ s[LastSave(s, n)].name = n
         /\ \A j \in LastSave(s, n) + 1 .. Len(s) : s[j].name # n
BY DEF HasSave, LastSave, FoundAt

\* It is the only one that has none of its name above it.
LEMMA LastSaveUnique ==
  ASSUME NEW s \in Seq(Mark), NEW n, NEW k \in 1 .. Len(s), s[k].name = n,
         \A j \in k + 1 .. Len(s) : s[j].name # n
  PROVE  HasSave(s, n) /\ LastSave(s, n) = k
<1>1. HasSave(s, n) /\ Len(s) \in Nat
  BY DEF HasSave, FoundAt
<1> DEFINE m == LastSave(s, n)
<1>2. m \in 1 .. Len(s) /\ s[m].name = n /\ \A j \in m + 1 .. Len(s) : s[j].name # n
  BY <1>1, LastSaveExists
<1> HIDE DEF m
<1>3. ~(m < k) /\ ~(k < m)
  BY <1>1, <1>2
<1> QED
  BY <1>1, <1>2, <1>3 DEF m

\* r is what is left of s when the newest savepoints are gone.
Below(r, s) == r \in Seq(Mark) /\ Len(r) <= Len(s) /\ \A i \in 1 .. Len(r) : r[i] = s[i]

\* A stack cut at m.
LEMMA CutBelow ==
  ASSUME NEW s \in Seq(Mark), NEW m \in 0 .. Len(s)
  PROVE  Below(SubSeq(s, 1, m), s) /\ Len(SubSeq(s, 1, m)) = m
<1>1. Len(s) \in Nat /\ m \in Nat
  OBVIOUS
<1>2. CASE m = 0
  <2>1. SubSeq(s, 1, m) = <<>>
    BY <1>2
  <2> QED
    BY <1>1, <1>2, <2>1 DEF Below
<1>3. CASE m # 0
  <2>1. 1 \in 1 .. Len(s) + 1 /\ m \in 1 - 1 .. Len(s)
    BY <1>1, <1>3
  <2>2. /\ SubSeq(s, 1, m) \in Seq(Mark) /\ Len(SubSeq(s, 1, m)) = m
        /\ \A i \in 1 .. m : SubSeq(s, 1, m)[i] = s[i]
    BY <1>1, <1>3, <2>1, SMTT(20)
  <2> QED
    BY <1>1, <2>2 DEF Below
<1> QED
  BY <1>2, <1>3

\* release_savepoint and rollback_to_savepoint only cut the stack.
LEMMA CutsBelow ==
  ASSUME NEW s \in Seq(Mark), NEW n
  PROVE  /\ Below(ReleaseIn(s, n), s)
         /\ Below(RollbackToIn(s, n), s)
         /\ HasSave(s, n) => /\ Len(ReleaseIn(s, n)) = LastSave(s, n) - 1
                             /\ Len(RollbackToIn(s, n)) = LastSave(s, n)
<1>1. Len(s) \in Nat /\ Below(s, s)
  BY DEF Below
<1>2. CASE HasSave(s, n)
  <2>1. LastSave(s, n) \in 0 .. Len(s) /\ LastSave(s, n) - 1 \in 0 .. Len(s)
    BY <1>1, <1>2, LastSaveExists
  <2> QED
    BY <1>2, <2>1, CutBelow DEF ReleaseIn, RollbackToIn
<1>3. CASE ~HasSave(s, n)
  BY <1>1, <1>3 DEF ReleaseIn, RollbackToIn
<1> QED
  BY <1>2, <1>3

\* The image a rollback to a savepoint brings back is one of the stack, or the image stays.
LEMMA ImageOfStack ==
  ASSUME NEW s \in Seq(Mark), NEW img, NEW n
  PROVE  \/ ImageAt(s, img, n) = img /\ ~HasSave(s, n)
         \/ HasSave(s, n) /\ LastSave(s, n) \in 1 .. Len(s) /\ ImageAt(s, img, n) = s[LastSave(s, n)].image
BY LastSaveExists DEF ImageAt

-----------------------------------------------------------------------------
(***************************************************************************)
(* The steps, as the pagers see them                                       *)
(***************************************************************************)

\* An image with a change no image has so far.
New(img) == img \subseteq Known' /\ ~(img \subseteq Known)

\* The pager of d shows img and commits nothing.
Stage(d, img) == work' = Changed(d, img) /\ UNCHANGED <<disk, saves>>

\* The pager of d commits img.
Store(d, img) ==
  /\ disk' = [disk EXCEPT ![d] = img] /\ work' = Changed(d, img)
  /\ saves' = [saves EXCEPT ![d] = <<>>]

\* The pager of d rolls back.
Reset(d) ==
  /\ work' = [work EXCEPT ![d] = disk[d]] /\ saves' = [saves EXCEPT ![d] = <<>>]
  /\ UNCHANGED disk

\* Every attached pager opens a savepoint.
Push(n) ==
  /\ \A d \in Db : Len(saves[d]) < MaxSaves
  /\ saves' = [d \in Db |-> IF d \in there
                            THEN Append(saves[d], [name |-> n, image |-> work[d]])
                            ELSE saves[d]]
  /\ UNCHANGED <<disk, work>>

\* Every attached pager that has savepoint n rolls back to it.
Back(n) ==
  /\ work' = [d \in Db |-> IF d \in there THEN ImageAt(saves[d], work[d], n) ELSE work[d]]
  /\ saves' = [d \in Db |-> IF d \in there THEN RollbackToIn(saves[d], n) ELSE saves[d]]
  /\ UNCHANGED disk

\* What one step does to the pagers.
PagerStep ==
  \/ UNCHANGED pagers
  \/ \E s \in {saves} \cup {Released(n) : n \in Name}, ds \in SUBSET Db : CommitDbs(ds, s)
  \/ \E ds \in SUBSET Db : RollbackDbs(ds)
  \/ \E n \in Name : saves' = Released(n) /\ UNCHANGED <<disk, work>>
  \/ \E d \in Db : Reset(d) \/ \E img \in SUBSET Change : New(img) /\ (Stage(d, img) \/ Store(d, img))
  \/ \E n \in Name : Push(n) \/ Back(n)

\* A statement makes a change that is new.
LEMMA NewChange ==
  ASSUME Stored, Control, stmts < Limit, stmts' = NextId, NEW img, img \subseteq Known, NEW k \in Kind
  PROVE  /\ New(img \cup {[id |-> NextId, kind |-> k]})
         /\ img \cup {[id |-> NextId, kind |-> k]} \in SUBSET Change
<1>1. stmts \in Nat /\ NextId \in 1 .. MaxStmt /\ stmts < NextId
  BY Bounds DEF Control, Limit, NextId
<1> DEFINE t == [id |-> NextId, kind |-> k]
<1>2. t \in Change /\ t.id = NextId
  BY <1>1 DEF Change
<1>3. t \in Known' /\ t \notin Known
  BY <1>1, <1>2 DEF Known
<1>4. Known \subseteq Known' /\ Known' \subseteq Change
  BY <1>1 DEF Known, Change
<1> HIDE DEF t
<1> QED
  BY <1>3, <1>4 DEF New, t

\* Likewise for the whole of a statement that succeeds.
LEMMA SucceedsStep ==
  ASSUME Stored, NEW d \in Db, NEW img \in SUBSET Change, New(img), Succeeds(d, img)
  PROVE  PagerStep
<1>1. img # disk[d]
  BY DEF New, Stored
<1>2. CASE Active
  BY <1>2 DEF Succeeds, PagerStep, Stage
<1>3. CASE ~Active
  BY <1>1, <1>3 DEF Succeeds, Autocommit, PagerStep, Stage, Store, Reset
<1> QED
  BY <1>2, <1>3

\* Every action takes such a step.
LEMMA NextIsPagerStep ==
  ASSUME Stored, Control, Next
  PROVE  PagerStep
<1>1. CASE Begin \/ PragmaForeignKeys \/ \E on \in BOOLEAN : PragmaDefer(on)
  BY <1>1 DEF Begin, PragmaForeignKeys, PragmaDefer, PagerStep
<1>2. there \in SUBSET Db /\ \A k : {Order[i] : i \in 1 .. k - 1} \cap there \in SUBSET Db
  BY DEF Control
<1>3. ASSUME NEW s \in {saves} \cup {Released(n) : n \in Name}, CommitDbs(there, s) \/ CommitsUntilBusy(s)
      PROVE  PagerStep
  <2>1. CASE CommitDbs(there, s)
    BY <1>2, <1>3, <2>1 DEF PagerStep
  <2>2. CASE CommitsUntilBusy(s)
    <3>1. PICK k \in 1 .. Len(Order) : CommitDbs({Order[i] : i \in 1 .. k - 1} \cap there, s)
      BY <2>2, Zenon DEF CommitsUntilBusy
    <3> QED
      BY <1>2, <1>3, <3>1 DEF PagerStep
  <2> QED
    BY <1>3, <2>1, <2>2
<1>4. RollbackDbs(there) => PagerStep
  BY <1>2 DEF PagerStep
<1>5. CASE Commit
  BY <1>3, <1>4, <1>5 DEF Commit, CommitsAll
<1>6. CASE Rollback
  BY <1>4, <1>6 DEF Rollback
<1>7. CASE Repair
  <2> DEFINE img == work["main"] \ Orphans(work["main"])
             new == img \cup {[id |-> NextId, kind |-> "row"]}
  <2>1. img \subseteq Known /\ "row" \in Kind
    BY MainIsDb DEF Stored, Kind
  <2>2. New(new) /\ new \in SUBSET Change
    BY <1>7, <2>1, NewChange, Zenon DEF Repair
  <2>3. Succeeds("main", new)
    BY <1>7 DEF Repair
  <2> QED
    BY <2>2, <2>3, MainIsDb, SucceedsStep
<1>8. ASSUME NEW n \in Name, Savepoint(n) PROVE PagerStep
  BY <1>8 DEF Savepoint, PagerStep, Push
<1>9. ASSUME NEW n \in Name, Release(n) PROVE PagerStep
  <2>1. \/ saves' = Released(n) /\ UNCHANGED <<disk, work>>
        \/ CommitDbs(there, Released(n)) \/ CommitsUntilBusy(Released(n))
        \/ RollbackDbs(there)
    BY <1>9 DEF Release
  <2>2. CASE saves' = Released(n) /\ UNCHANGED <<disk, work>>
    BY <2>2 DEF PagerStep
  <2> QED
    BY <1>3, <1>4, <2>1, <2>2
<1>10. ASSUME NEW n \in Name, RollbackTo(n) PROVE PagerStep
  BY <1>10 DEF RollbackTo, PagerStep, Back
<1>11. ASSUME NEW d \in Db, NEW k \in Kind, Statement(d, k) PROVE PagerStep
  <2> DEFINE new == work[d] \cup {[id |-> NextId, kind |-> k]}
  <2>1. work[d] \subseteq Known
    BY DEF Stored
  <2>2. New(new) /\ new \in SUBSET Change
    BY <1>11, <2>1, NewChange, Zenon DEF Statement
  <2> QED
    BY <1>11, <2>2, SucceedsStep DEF Statement
<1>12. ASSUME NEW d \in Db, NEW c \in {"abort", "fail", "rollback"}, DmlFails(d, c) PROVE PagerStep
  <2> DEFINE new == work[d] \cup {[id |-> NextId, kind |-> "row"]}
  <2>1. work[d] \subseteq Known /\ "row" \in Kind
    BY DEF Stored, Kind
  <2>2. New(new) /\ new \in SUBSET Change
    BY <1>12, <2>1, NewChange, Zenon DEF DmlFails
  <2> HIDE DEF new
  <2>3. \/ RollbackDbs(there) \/ UNCHANGED pagers \/ Stage(d, new) \/ Store(d, new)
    BY <1>12, SMTT(30) DEF DmlFails, Stage, Store, pagers, new
  <2> QED
    BY <1>4, <2>2, <2>3 DEF PagerStep
<1>13. ASSUME NEW d \in Db, DdlFails(d) PROVE PagerStep
  <2> DEFINE new == work[d] \cup {[id |-> NextId, kind |-> "ddl"]}
  <2>1. work[d] \subseteq Known /\ "ddl" \in Kind
    BY DEF Stored, Kind
  <2>2. New(new) /\ new \in SUBSET Change
    BY <1>13, <2>1, NewChange DEF DdlFails
  <2>3. Stage(d, new)
    BY <1>13 DEF DdlFails, Stage
  <2> QED
    BY <2>2, <2>3 DEF PagerStep
<1>14. ASSUME NEW d \in Db, Attach(d) \/ Detach(d) PROVE PagerStep
  BY <1>14 DEF Attach, Detach, PagerStep, Reset
<1> QED
  BY <1>1, <1>5, <1>6, <1>7, <1>8, <1>9, <1>10, <1>11, <1>12, <1>13, <1>14 DEF Next

\* Images and stacks that come from what was stored are stored.
LEMMA StoredKept ==
  ASSUME Stored, stmts \in Nat, stmts' \in {stmts, stmts + 1},
         disk' \in [Db -> SUBSET Known'], work' \in [Db -> SUBSET Known'],
         saves' \in [Db -> Seq(Mark)], \A d \in Db : Below(saves'[d], saves[d])
  PROVE  Stored'
<1>1. Known \subseteq Known'
  BY DEF Known, Change
<1>2. ASSUME NEW d \in Db
      PROVE  /\ Len(saves'[d]) <= MaxSaves
             /\ \A i \in 1 .. Len(saves'[d]) : saves'[d][i].image \subseteq Known'
  <2>1. /\ Len(saves[d]) \in Nat /\ Len(saves'[d]) \in Nat
        /\ Len(saves[d]) <= MaxSaves /\ Len(saves'[d]) <= Len(saves[d])
        /\ \A i \in 1 .. Len(saves'[d]) : saves'[d][i] = saves[d][i]
        /\ \A i \in 1 .. Len(saves[d]) : saves[d][i].image \subseteq Known
    BY DEF Stored, Below
  <2> QED
    BY <1>1, <2>1, Bounds
<1> QED
  BY <1>2 DEF Stored

\* A stack of savepoints, and what is left of one.
LEMMA ReleasedStacks ==
  ASSUME Stored, NEW s \in {saves} \cup {Released(n) : n \in Name}
  PROVE  s \in [Db -> Seq(Mark)] /\ \A d \in Db : Below(s[d], saves[d])
<1>1. \A d \in Db : Below(saves[d], saves[d]) /\ saves[d] \in Seq(Mark)
  BY DEF Stored, Below
<1>2. \A n, d : d \in Db => Below(ReleaseIn(saves[d], n), saves[d])
  BY <1>1, CutsBelow
<1>3. ASSUME NEW n \in Name
      PROVE  Released(n) \in [Db -> Seq(Mark)] /\ \A d \in Db : Below(Released(n)[d], saves[d])
  <2>1. \A d \in Db : ReleaseIn(saves[d], n) \in Seq(Mark)
    BY <1>2, Zenon DEF Below
  <2> QED
    BY <1>1, <1>2, <2>1, Zenon DEF Released
<1> QED
  BY <1>1, <1>3 DEF Stored

\* Cutting the stack keeps it nested, and so does staging something.
LEMMA NestedCut ==
  ASSUME NEW s \in Seq(Mark), NEW r, Below(r, s), NEW w, NEW dk, NEW v, NestedIn(w, dk, s), v = dk => w = dk
  PROVE  NestedIn(v, dk, r)
<1>1. Len(r) \in Nat /\ Len(s) \in Nat /\ Len(r) <= Len(s) /\ \A i \in 1 .. Len(r) : r[i] = s[i]
  BY DEF Below
<1>2. 1 .. Len(r) \subseteq 1 .. Len(s)
  BY <1>1
<1> QED
  BY <1>1, <1>2 DEF NestedIn

-----------------------------------------------------------------------------
(***************************************************************************)
(* Foreign keys                                                            *)
(***************************************************************************)

\* A statement counts once.
LEMMA StmtsMove ==
  ASSUME Control, Next
  PROVE  stmts' \in {stmts, stmts + 1} /\ stmts' \in 0 .. MaxStmt /\ faults' = faults
<1>1. stmts < Limit => stmts + 1 \in 0 .. MaxStmt
  BY Bounds DEF Control, Limit
<1>2. \/ stmts' = stmts
      \/ stmts < Limit /\ stmts' = NextId
  BY Zenon DEF Next, Begin, Commit, Rollback, Repair, PragmaForeignKeys, Savepoint, Release, RollbackTo,
         Statement, DmlFails, DdlFails, Attach, Detach, PragmaDefer
<1>3. faults' = faults
  BY Zenon DEF Next, Begin, Commit, Rollback, Repair, PragmaForeignKeys, Savepoint, Release, RollbackTo,
         Statement, DmlFails, DdlFails, Attach, Detach, PragmaDefer, Succeeds
<1> QED
  BY <1>1, <1>2, <1>3 DEF Control, NextId

\* Fewer savepoints, an image that is tolerated, or a transaction that allows more.
LEMMA KeysWeaken ==
  ASSUME NEW s \in Seq(Mark), NEW r, Below(r, s), NEW dk, NEW w, NEW v,
         NEW b \in BOOLEAN, NEW f \in BOOLEAN, NEW c \in BOOLEAN, NEW g \in BOOLEAN,
         KeysIn(dk, w, s, b, f), b => c, f => g, Tolerated(v, c, g)
  PROVE  KeysIn(dk, v, r, c, g)
<1>1. Len(r) \in Nat /\ Len(s) \in Nat /\ Len(r) <= Len(s) /\ \A i \in 1 .. Len(r) : r[i] = s[i]
  BY DEF Below
<1>2. 1 .. Len(r) \subseteq 1 .. Len(s)
  BY <1>1
<1>3. \A img : Tolerated(img, b, f) => Tolerated(img, c, g)
  BY DEF Tolerated
<1> QED
  BY <1>1, <1>2, <1>3 DEF KeysIn

\* After the end of a transaction that left no child row without its parent.
LEMMA KeysClean ==
  ASSUME NEW dk, Orphans(dk) = {}, NEW s, \A i \in 1 .. Len(s) : s[i].image = dk, NEW b, NEW f
  PROVE  KeysIn(dk, dk, s, b, f) /\ KeysIn(dk, dk, <<>>, b, f)
<1>1. Tolerated(dk, b, f)
  BY DEF Tolerated, Orphans
<1> QED
  BY <1>1 DEF KeysIn

LEMMA KeysCleared ==
  ASSUME NEW dk, Orphans(dk) = {}, NEW b, NEW f
  PROVE  KeysIn(dk, dk, <<>>, b, f)
<1>1. \A i \in 1 .. Len(<<>>) : FALSE
  OBVIOUS
<1> QED
  BY <1>1, KeysClean, Zenon

\* Outside BEGIN nothing has a child row without its parent.
LEMMA KeysOutside ==
  ASSUME NEW dk, NEW w, NEW s \in Seq(Mark), NEW f, KeysIn(dk, w, s, FALSE, f)
  PROVE  /\ Orphans(dk) = {} /\ Orphans(w) = {} /\ \A i \in 1 .. Len(s) : Orphans(s[i].image) = {}
         /\ \A g, b, r : Below(r, s) => KeysIn(dk, w, r, b, g) /\ KeysIn(w, w, <<>>, b, g)
<1>1. Orphans(dk) = {} /\ Orphans(w) = {} /\ \A i \in 1 .. Len(s) : Orphans(s[i].image) = {}
  BY DEF KeysIn, Tolerated
<1>2. \A img, b, g : Orphans(img) = {} => Tolerated(img, b, g)
  BY DEF Tolerated, Orphans
<1>3. ASSUME NEW r, Below(r, s), NEW b, NEW g PROVE KeysIn(dk, w, r, b, g)
  <2>1. Len(r) \in Nat /\ Len(s) \in Nat /\ Len(r) <= Len(s) /\ \A i \in 1 .. Len(r) : r[i] = s[i]
    BY <1>3 DEF Below
  <2>2. 1 .. Len(r) \subseteq 1 .. Len(s)
    BY <2>1
  <2> QED
    BY <1>1, <1>2, <2>1, <2>2 DEF KeysIn
<1>4. \A b, g : KeysIn(w, w, <<>>, b, g)
  BY <1>1, <1>2 DEF KeysIn
<1> QED
  BY <1>1, <1>3, <1>4, Zenon

\* check_deferred_fks finds every one there can be.
LEMMA ScanFindsAll ==
  ASSUME fkOn, Tolerated(work["main"], inTx, deferFk), DeferredFksHold
  PROVE  Orphans(work["main"]) = {}
BY DEF Tolerated, DeferredFksHold, Orphans

\* No step lets a child row without its parent into the committed image of main, nor into
\* an image a later step commits without looking.
LEMMA KeysStep ==
  ASSUME Stored, Control, Control', Nested, Keys, Next
  PROVE  Keys'
<1> DEFINE m == "main"
           s == saves[m]
           w == work[m]
           dk == disk[m]
<1> HIDE DEF m
<1>a. faults' = faults /\ m \in Db /\ m \in there /\ m = "main"
  BY StmtsMove, MainIsDb DEF Control, m
<1> SUFFICES ASSUME Without({"deferOff", "fkOff"})
             PROVE  fkOn' /\ KeysIn(disk'[m], work'[m], saves'[m], inTx', deferFk')
  BY <1>a DEF Keys, Without
<1>0. /\ fkOn /\ KeysIn(dk, w, s, inTx, deferFk) /\ NestedIn(w, dk, s)
      /\ s \in Seq(Mark) /\ Below(s, s)
      /\ inTx \in BOOLEAN /\ deferFk \in BOOLEAN /\ inTx' \in BOOLEAN /\ deferFk' \in BOOLEAN
      /\ saves \in [Db -> Seq(Mark)] /\ disk \in [Db -> SUBSET Known] /\ work \in [Db -> SUBSET Known]
  <2>1. s \in Seq(Mark) /\ Len(s) \in Nat
    BY <1>a DEF Stored
  <2>2. Below(s, s)
    BY <2>1 DEF Below
  <2> QED
    BY <1>a, <2>1, <2>2 DEF Keys, Nested, Control, Stored
<1> DEFINE Goal == KeysIn(disk'[m], work'[m], saves'[m], inTx', deferFk')
<1>1. ASSUME disk'[m] = dk, work'[m] = w, Below(saves'[m], s), inTx => inTx', deferFk => deferFk' PROVE Goal
  <2>1. Tolerated(w, inTx', deferFk')
    BY <1>0, <1>1 DEF KeysIn, Tolerated
  <2> QED
    BY <1>0, <1>1, <2>1, KeysWeaken
<1>2. ASSUME RollbackDbs(there) PROVE Goal
  <2>1. disk'[m] = dk /\ work'[m] = dk /\ saves'[m] = <<>> /\ Orphans(dk) = {}
    BY <1>0, <1>a, <1>2 DEF RollbackDbs, KeysIn
  <2> QED
    BY <2>1, KeysCleared, Zenon
\* A commit of some databases, with a stack that is left of s
<1>3. ASSUME NEW q \in {saves} \cup {Released(n) : n \in Name}, NEW ds, CommitDbs(ds, q),
             Orphans(w) = {}, UNCHANGED <<inTx, deferFk>> \/ m \in ds
      PROVE  Goal
  <2>1. Below(q[m], s)
    BY <1>0, <1>a, ReleasedStacks
  <2>2. CASE m \notin ds
    <3>1. disk'[m] = dk /\ work'[m] = w /\ saves'[m] = q[m]
      BY <1>a, <1>3, <2>2 DEF CommitDbs
    <3> QED
      BY <1>1, <1>3, <2>1, <2>2, <3>1
  <2>3. CASE m \in ds /\ w # dk
    <3>1. disk'[m] = w /\ work'[m] = w /\ saves'[m] = <<>>
      BY <1>a, <1>3, <2>3 DEF CommitDbs, Dirty
    <3> QED
      BY <1>3, <3>1, KeysCleared, Zenon
  <2>4. CASE m \in ds /\ w = dk
    <3>1. disk'[m] = w /\ work'[m] = w /\ saves'[m] = q[m]
      BY <1>a, <1>3, <2>4 DEF CommitDbs, Dirty
    <3>2. NestedIn(w, dk, q[m])
      BY <1>0, <2>1, NestedCut
    <3>3. \A i \in 1 .. Len(q[m]) : q[m][i].image = w
      BY <2>4, <3>2 DEF NestedIn
    <3> QED
      BY <1>3, <3>1, <3>3, KeysClean
  <2> QED
    BY <2>2, <2>3, <2>4
<1>4. ASSUME NEW q \in {saves} \cup {Released(n) : n \in Name}, CommitsUntilBusy(q),
             Orphans(w) = {}, UNCHANGED <<inTx, deferFk>>
      PROVE  Goal
  BY <1>3, <1>4 DEF CommitsUntilBusy
\* A statement on main or another database
<1>5. ASSUME NEW d \in Db, NEW img, d = m => Tolerated(img, inTx, deferFk), Succeeds(d, img) PROVE Goal /\ fkOn'
  <2>0. UNCHANGED <<inTx, deferFk, fkOn>>
    BY <1>5 DEF Succeeds
  <2>1. CASE d # m
    <3>1. disk'[m] = dk /\ work'[m] = w /\ saves'[m] = s
      BY <1>0, <1>a, <1>5, <2>1 DEF Succeeds, Autocommit, Changed
    <3> QED
      BY <1>0, <1>1, <2>0, <3>1
  <2>2. CASE d = m /\ Active
    <3>1. disk'[m] = dk /\ work'[m] = img /\ saves'[m] = s
      BY <1>0, <1>a, <1>5, <2>2 DEF Succeeds, Changed
    <3> QED
      BY <1>0, <1>5, <2>0, <2>2, <3>1, KeysWeaken
  <2>3. CASE d = m /\ ~Active
    <3>1. inTx = FALSE /\ Orphans(img) = {} /\ Orphans(dk) = {}
      BY <1>0, <1>5, <2>3 DEF Active, Tolerated, KeysIn
    <3>2. \/ disk'[m] = img /\ work'[m] = img /\ saves'[m] = <<>>
          \/ img = dk /\ disk'[m] = dk /\ work'[m] = dk /\ saves'[m] = s
          \/ disk'[m] = dk /\ work'[m] = img /\ saves'[m] = s
          \/ disk'[m] = dk /\ work'[m] = dk /\ saves'[m] = <<>>
      BY <1>0, <1>a, <1>5, <2>3 DEF Succeeds, Autocommit, Changed
    <3>3. KeysIn(dk, img, s, inTx, deferFk)
      BY <1>0, <1>5, <2>3, KeysWeaken
    <3>4. KeysIn(img, img, <<>>, inTx, deferFk) /\ KeysIn(dk, dk, <<>>, inTx, deferFk)
      BY <3>1, KeysCleared, Zenon
    <3> QED
      BY <1>0, <2>0, <3>2, <3>3, <3>4
  <2> QED
    BY <2>1, <2>2, <2>3
<1>6. ASSUME NEW i, NEW k \in Kind, k \notin {"orphanDeferred", "orphanImmediate"}
      PROVE  Tolerated(w \cup {[id |-> i, kind |-> k]}, inTx, deferFk)
  BY <1>0, <1>6 DEF KeysIn, Tolerated, Orphans
<1>7. CASE Begin \/ PragmaForeignKeys \/ \E on \in BOOLEAN : PragmaDefer(on)
  <2>0. ~PragmaForeignKeys /\ ~PragmaDefer(FALSE)
    BY Zenon DEF PragmaForeignKeys, PragmaDefer, Without
  <2>1. UNCHANGED <<pagers, fkOn>> /\ (inTx => inTx') /\ (deferFk => deferFk')
    <3>1. CASE Begin
      BY <3>1 DEF Begin
    <3>2. CASE PragmaDefer(TRUE)
      BY <3>2 DEF PragmaDefer
    <3> QED
      BY <1>7, <2>0, <3>1, <3>2, Zenon
  <2> QED
    BY <1>0, <1>1, <2>1 DEF pagers
<1>8. CASE Commit
  <2>1. Orphans(w) = {} /\ fkOn'
    BY <1>0, <1>a, <1>8, ScanFindsAll DEF Commit, KeysIn
  <2>2. CASE CommitsAll(saves)
    BY <1>3, <1>a, <2>1, <2>2 DEF CommitsAll
  <2>3. CASE CommitsUntilBusy(saves) /\ UNCHANGED <<inTx, openSaves, deferFk>>
    BY <1>4, <2>1, <2>3
  <2> QED
    BY <1>2, <1>8, <2>1, <2>2, <2>3 DEF Commit
<1>9. CASE Rollback
  BY <1>0, <1>2, <1>9 DEF Rollback
<1>10. CASE Repair
  <2> DEFINE img == w \ Orphans(w)
  <2>1. Tolerated(img \cup {[id |-> NextId, kind |-> "row"]}, inTx, deferFk)
    BY DEF Tolerated, Orphans
  <2> QED
    BY <1>5, <1>a, <1>10, <2>1 DEF Repair
<1>11. ASSUME NEW n \in Name, Savepoint(n) PROVE Goal /\ fkOn'
  <2> DEFINE k == [name |-> n, image |-> w]
  <2>1. /\ disk'[m] = dk /\ work'[m] = w /\ saves'[m] = Append(s, k)
        /\ UNCHANGED <<inTx, deferFk, fkOn>>
    BY <1>a, <1>11 DEF Savepoint
  <2>2. k \in Mark /\ k.image = w /\ Tolerated(w, inTx, deferFk)
    BY <1>0, <1>a DEF Mark, Known, KeysIn
  <2> HIDE DEF k
  <2>3. /\ Len(s) \in Nat /\ Len(saves'[m]) = Len(s) + 1 /\ saves'[m][Len(s) + 1] = k
        /\ \A i \in 1 .. Len(s) : saves'[m][i] = s[i]
    BY <1>0, <2>1, <2>2
  <2>4. \A i \in 1 .. Len(saves'[m]) : i \in 1 .. Len(s) \/ i = Len(s) + 1
    BY <2>3
  <2>5. \A i \in 1 .. Len(saves'[m]) : Tolerated(saves'[m][i].image, inTx, deferFk)
    BY <1>0, <2>2, <2>3, <2>4, Zenon DEF KeysIn
  <2> QED
    BY <1>0, <2>1, <2>2, <2>5 DEF KeysIn
<1>12. ASSUME NEW n \in Name, Release(n) PROVE Goal /\ fkOn'
  <2>1. UNCHANGED <<inTx, fkOn>> /\ Below(Released(n)[m], s)
    BY <1>a, <1>12, ReleasedStacks DEF Release
  <2>2. CASE saves' = Released(n) /\ UNCHANGED <<disk, work, deferFk>>
    BY <1>0, <1>1, <2>1, <2>2
  <2>3. CASE ~(saves' = Released(n) /\ UNCHANGED <<disk, work, deferFk>>)
    <3>1. /\ inTx = FALSE
          /\ \/ CommitDbs(there, Released(n))
             \/ CommitsUntilBusy(Released(n)) /\ UNCHANGED deferFk
             \/ RollbackDbs(there)
      BY <1>0, <1>12, <2>3 DEF Release
    <3>2. Orphans(w) = {}
      BY <1>0, <3>1, KeysOutside, Zenon
    <3> QED
      BY <1>0, <1>2, <1>3, <1>4, <1>a, <2>1, <3>1, <3>2
  <2> QED
    BY <2>2, <2>3
<1>13. ASSUME NEW n \in Name, RollbackTo(n) PROVE Goal /\ fkOn'
  <2>1. /\ UNCHANGED <<inTx, deferFk, fkOn>> /\ disk'[m] = dk
        /\ work'[m] = ImageAt(s, w, n) /\ saves'[m] = RollbackToIn(s, n)
    BY <1>a, <1>13 DEF RollbackTo
  <2>2. Below(saves'[m], s) /\ Tolerated(work'[m], inTx, deferFk)
    BY <1>0, <2>1, CutsBelow, ImageOfStack DEF KeysIn
  <2> QED
    BY <1>0, <2>1, <2>2, KeysWeaken
<1>14. ASSUME NEW d \in Db, NEW k \in Kind, Statement(d, k) PROVE Goal /\ fkOn'
  <2>1. d = m => Tolerated(work[d] \cup {[id |-> NextId, kind |-> k]}, inTx, deferFk)
    <3>1. CASE k \notin {"orphanDeferred", "orphanImmediate"}
      BY <1>6, <3>1, Zenon
    <3>2. CASE k \in {"orphanDeferred", "orphanImmediate"}
      <4>1. inTx /\ (k = "orphanDeferred" \/ deferFk)
        BY <1>0, <1>14, <3>2 DEF Statement, Writes, Deferrable
      <4> QED
        BY <1>0, <3>2, <4>1 DEF KeysIn, Tolerated
    <3> QED
      BY <3>1, <3>2
  <2> QED
    BY <1>5, <1>14, <2>1 DEF Statement
<1>15. ASSUME NEW d \in Db, NEW c \in {"abort", "fail", "rollback"}, DmlFails(d, c) PROVE Goal /\ fkOn'
  <2> DEFINE new == work[d] \cup {[id |-> NextId, kind |-> "row"]}
  <2>0. d = m => Tolerated(new, inTx, deferFk)
    BY <1>6, Zenon DEF Kind
  <2> HIDE DEF new
  <2>1. /\ UNCHANGED <<deferFk, fkOn>>
        /\ \/ RollbackDbs(there)
           \/ UNCHANGED <<pagers, inTx>>
           \/ Stage(d, new) /\ UNCHANGED inTx
           \/ Store(d, new) /\ ~Active /\ UNCHANGED inTx
    BY <1>15, SMTT(30) DEF DmlFails, Stage, Store, pagers, new
  <2>2. CASE UNCHANGED <<pagers, inTx>>
    BY <1>0, <1>1, <2>1, <2>2 DEF pagers
  <2>3. CASE Stage(d, new) /\ UNCHANGED inTx
    <3>1. disk'[m] = dk /\ saves'[m] = s /\ work'[m] = IF d = m THEN new ELSE w
      BY <1>0, <1>a, <2>3 DEF Stage, Changed
    <3>2. Tolerated(work'[m], inTx, deferFk)
      BY <1>0, <2>0, <3>1 DEF KeysIn
    <3>3. /\ fkOn' /\ Below(saves'[m], s) /\ (inTx => inTx') /\ (deferFk => deferFk')
          /\ Tolerated(work'[m], inTx', deferFk')
      BY <1>0, <2>1, <2>3, <3>1, <3>2
    <3>4. KeysIn(dk, work'[m], saves'[m], inTx', deferFk')
      BY <1>0, <3>3, KeysWeaken
    <3> QED
      BY <3>1, <3>3, <3>4
  <2>4. CASE Store(d, new) /\ ~Active /\ UNCHANGED inTx
    <3>1. CASE d # m
      BY <1>0, <1>1, <1>a, <2>1, <2>4, <3>1 DEF Store, Changed
    <3>2. CASE d = m
      <4>1. disk'[m] = new /\ work'[m] = new /\ saves'[m] = <<>> /\ Orphans(new) = {}
        BY <1>0, <1>a, <2>0, <2>4, <3>2 DEF Store, Changed, Active, Tolerated
      <4>2. KeysIn(new, new, <<>>, inTx', deferFk')
        BY <4>1, KeysCleared, Zenon
      <4> QED
        BY <1>0, <2>1, <4>1, <4>2
    <3> QED
      BY <3>1, <3>2
  <2> QED
    BY <1>0, <1>2, <2>1, <2>2, <2>3, <2>4
<1>16. ASSUME NEW d \in Db, DdlFails(d) PROVE Goal /\ fkOn'
  <2> DEFINE new == work[d] \cup {[id |-> NextId, kind |-> "ddl"]}
  <2>1. d = m => Tolerated(new, inTx, deferFk)
    BY <1>6, Zenon DEF Kind
  <2> HIDE DEF new
  <2>2. /\ disk'[m] = dk /\ saves'[m] = s /\ work'[m] = IF d = m THEN new ELSE w
        /\ UNCHANGED <<inTx, deferFk, fkOn>>
    BY <1>0, <1>a, <1>16 DEF DdlFails, Changed, new
  <2>3. Tolerated(work'[m], inTx, deferFk)
    BY <1>0, <2>1, <2>2 DEF KeysIn
  <2> QED
    BY <1>0, <2>2, <2>3, KeysWeaken
<1>17. ASSUME NEW d \in Db, Attach(d) \/ Detach(d) PROVE Goal /\ fkOn'
  <2>1. d # m /\ UNCHANGED <<inTx, deferFk, fkOn>>
    BY <1>a, <1>17 DEF Attach, Detach
  <2>2. disk'[m] = dk /\ work'[m] = w /\ saves'[m] = s
    BY <1>0, <1>a, <1>17, <2>1 DEF Attach, Detach
  <2> QED
    BY <1>0, <1>1, <2>1, <2>2
<1>18. Goal /\ fkOn'
  <2>1. CASE Rollback \/ Commit \/ Repair \/ Begin \/ PragmaForeignKeys \/ \E on \in BOOLEAN : PragmaDefer(on)
    BY <1>7, <1>8, <1>9, <1>10, <2>1
  <2> HIDE DEF Goal
  <2>2. CASE \E n \in Name : Savepoint(n) \/ Release(n) \/ RollbackTo(n)
    BY <1>11, <1>12, <1>13, <2>2
  <2>3. CASE \E d \in Db, k \in Kind : Statement(d, k)
    BY <1>14, <2>3
  <2>4. CASE \E d \in Db, c \in {"abort", "fail", "rollback"} : DmlFails(d, c)
    BY <1>15, <2>4
  <2>5. CASE \E d \in Db : DdlFails(d) \/ Attach(d) \/ Detach(d)
    BY <1>16, <1>17, <2>5
  <2> QED
    BY <2>1, <2>2, <2>3, <2>4, <2>5, Zenon DEF Next
<1> QED
  BY <1>18

-----------------------------------------------------------------------------
(***************************************************************************)
(* The images and the savepoints of the pagers                             *)
(***************************************************************************)

\* What the pagers hold stays within what the statements have made.
LEMMA StoredStep ==
  ASSUME Stored, Control, PagerStep, stmts' \in {stmts, stmts + 1}
  PROVE  Stored'
<1>0. /\ stmts \in Nat /\ Known \subseteq Known'
      /\ \A d \in Db : Below(saves[d], saves[d]) /\ Below(<<>>, saves[d]) /\ saves[d] \in Seq(Mark)
      /\ disk \in [Db -> SUBSET Known'] /\ work \in [Db -> SUBSET Known']
      /\ <<>> \in Seq(Mark)
  <2>1. stmts \in Nat /\ Known \subseteq Known'
    BY DEF Control, Known, Change
  <2>2. \A d \in Db : Len(saves[d]) \in Nat /\ saves[d] \in Seq(Mark)
    BY DEF Stored
  <2>3. <<>> \in Seq(Mark) /\ Len(<<>>) = 0
    OBVIOUS
  <2>4. \A d \in Db : Below(saves[d], saves[d]) /\ Below(<<>>, saves[d])
    BY <2>2, <2>3 DEF Below
  <2> QED
    BY <2>1, <2>2, <2>3, <2>4 DEF Stored
<1>1. CASE UNCHANGED pagers
  BY <1>0, <1>1, StoredKept DEF Stored, pagers
<1>2. ASSUME NEW s \in {saves} \cup {Released(n) : n \in Name}, NEW ds \in SUBSET Db, CommitDbs(ds, s)
      PROVE  Stored'
  <2>1. s \in [Db -> Seq(Mark)] /\ \A d \in Db : Below(s[d], saves[d])
    BY ReleasedStacks, Zenon
  <2>2. saves' \in [Db -> Seq(Mark)] /\ \A d \in Db : Below(saves'[d], saves[d])
    BY <1>0, <1>2, <2>1 DEF CommitDbs
  <2>3. disk' \in [Db -> SUBSET Known'] /\ work' \in [Db -> SUBSET Known']
    BY <1>0, <1>2 DEF CommitDbs
  <2> QED
    BY <1>0, <2>2, <2>3, StoredKept
<1>3. ASSUME NEW ds \in SUBSET Db, RollbackDbs(ds) PROVE Stored'
  <2>1. saves' \in [Db -> Seq(Mark)] /\ \A d \in Db : Below(saves'[d], saves[d])
    BY <1>0, <1>3 DEF RollbackDbs
  <2>2. disk' \in [Db -> SUBSET Known'] /\ work' \in [Db -> SUBSET Known']
    BY <1>0, <1>3 DEF RollbackDbs
  <2> QED
    BY <1>0, <2>1, <2>2, StoredKept
<1>4. ASSUME NEW n \in Name, saves' = Released(n), UNCHANGED <<disk, work>> PROVE Stored'
  BY <1>0, <1>4, ReleasedStacks, StoredKept, Zenon
<1>5. ASSUME NEW d \in Db, Reset(d) PROVE Stored'
  <2>1. saves' \in [Db -> Seq(Mark)] /\ \A e \in Db : Below(saves'[e], saves[e])
    BY <1>0, <1>5 DEF Reset, Stored
  <2>2. disk' \in [Db -> SUBSET Known'] /\ work' \in [Db -> SUBSET Known']
    BY <1>0, <1>5 DEF Reset
  <2> QED
    BY <1>0, <2>1, <2>2, StoredKept
<1>6. ASSUME NEW d \in Db, NEW img \in SUBSET Change, New(img), Stage(d, img) \/ Store(d, img) PROVE Stored'
  <2>1. saves' \in [Db -> Seq(Mark)] /\ \A e \in Db : Below(saves'[e], saves[e])
    BY <1>0, <1>6, Zenon DEF Stage, Store, Stored
  <2>2. disk' \in [Db -> SUBSET Known'] /\ work' \in [Db -> SUBSET Known']
    BY <1>0, <1>6 DEF Stage, Store, Changed, New
  <2> QED
    BY <1>0, <2>1, <2>2, StoredKept
<1>7. ASSUME NEW n \in Name, Push(n) PROVE Stored'
  <2>1. disk' \in [Db -> SUBSET Known'] /\ work' \in [Db -> SUBSET Known']
    BY <1>0, <1>7 DEF Push
  <2>2. ASSUME NEW d \in Db
        PROVE  /\ saves'[d] \in Seq(Mark) /\ Len(saves'[d]) <= MaxSaves
               /\ \A i \in 1 .. Len(saves'[d]) : saves'[d][i].image \subseteq Known'
    <3> DEFINE m == [name |-> n, image |-> work[d]]
    <3>1. m \in Mark /\ m.image \subseteq Known'
      BY <1>0 DEF Mark, Stored, Known
    <3>2. saves[d] \in Seq(Mark) /\ Len(saves[d]) \in Nat /\ Len(saves[d]) < MaxSaves
      BY <1>0, <1>7 DEF Push
    <3>3. CASE d \in there
      <4>1. saves'[d] = Append(saves[d], m)
        BY <1>7, <3>3 DEF Push
      <4> HIDE DEF m
      <4>2. /\ saves'[d] \in Seq(Mark) /\ Len(saves'[d]) = Len(saves[d]) + 1
            /\ \A i \in 1 .. Len(saves[d]) : saves'[d][i] = saves[d][i]
            /\ saves'[d][Len(saves[d]) + 1] = m
        BY <3>1, <3>2, <4>1
      <4> QED
        BY <1>0, <3>1, <3>2, <4>2, Bounds DEF Stored
    <3>4. CASE d \notin there
      <4>1. saves'[d] = saves[d]
        BY <1>7, <3>4 DEF Push
      <4> QED
        BY <1>0, <3>2, <4>1, Bounds DEF Stored
    <3> QED
      BY <3>3, <3>4
  <2>3. saves' \in [Db -> Seq(Mark)]
    BY <1>7, <2>2 DEF Push
  <2> QED
    BY <2>1, <2>2, <2>3 DEF Stored
<1>8. ASSUME NEW n \in Name, Back(n) PROVE Stored'
  <2>1. \A d \in Db : Below(RollbackToIn(saves[d], n), saves[d])
    BY <1>0, CutsBelow
  <2>2. saves' \in [Db -> Seq(Mark)] /\ \A e \in Db : Below(saves'[e], saves[e])
    BY <1>0, <1>8, <2>1 DEF Back, Below
  <2>3. ASSUME NEW d \in Db PROVE ImageAt(saves[d], work[d], n) \in SUBSET Known'
    BY <1>0, ImageOfStack DEF Stored
  <2>4. disk' \in [Db -> SUBSET Known'] /\ work' \in [Db -> SUBSET Known']
    BY <1>0, <1>8, <2>3 DEF Back
  <2> QED
    BY <1>0, <2>2, <2>4, StoredKept
<1> QED
  BY <1>1, <1>2, <1>3, <1>4, <1>5, <1>6, <1>7, <1>8 DEF PagerStep

\* Savepoints of main that were taken clean stay below those that were not.
LEMMA NestedStep ==
  ASSUME Stored, Nested, PagerStep, stmts' \in {stmts, stmts + 1}
  PROVE  Nested'
<1> DEFINE m == "main"
           s == saves[m]
           w == work[m]
           dk == disk[m]
<1> HIDE DEF m
<1>0. m \in Db
  BY MainIsDb DEF m
<1>1. /\ s \in Seq(Mark) /\ Len(s) \in Nat /\ Below(s, s) /\ NestedIn(w, dk, s)
      /\ dk \subseteq Known
      /\ saves \in [Db -> Seq(Mark)] /\ disk \in [Db -> SUBSET Known] /\ work \in [Db -> SUBSET Known]
  <2>1. s \in Seq(Mark) /\ Len(s) \in Nat
    BY <1>0 DEF Stored
  <2> QED
    BY <1>0, <2>1 DEF Stored, Below, Nested, m
<1>2. \A x, y : NestedIn(x, y, <<>>)
  BY DEF NestedIn
<1>3. SUFFICES NestedIn(work'[m], disk'[m], saves'[m])
  BY DEF Nested, m
<1>4. CASE UNCHANGED pagers
  BY <1>1, <1>4 DEF pagers
<1>5. ASSUME NEW q \in {saves} \cup {Released(n) : n \in Name}, NEW ds \in SUBSET Db, CommitDbs(ds, q)
      PROVE  NestedIn(work'[m], disk'[m], saves'[m])
  <2>1. Below(q[m], s)
    BY <1>0, ReleasedStacks
  <2>2. CASE m \in ds /\ w # dk
    <3>1. saves'[m] = <<>>
      BY <1>0, <1>5, <2>2 DEF CommitDbs, Dirty
    <3> QED
      BY <1>2, <3>1
  <2>3. CASE ~(m \in ds /\ w # dk)
    <3>1. saves'[m] = q[m] /\ disk'[m] = dk /\ work'[m] = w
      BY <1>0, <1>5, <2>3 DEF CommitDbs, Dirty
    <3> QED
      BY <1>1, <2>1, <3>1, NestedCut
  <2> QED
    BY <2>2, <2>3
<1>6. ASSUME NEW ds \in SUBSET Db, RollbackDbs(ds) PROVE NestedIn(work'[m], disk'[m], saves'[m])
  <2>1. CASE m \in ds
    BY <1>0, <1>2, <1>6, <2>1 DEF RollbackDbs
  <2>2. CASE m \notin ds
    BY <1>0, <1>1, <1>6, <2>2 DEF RollbackDbs
  <2> QED
    BY <2>1, <2>2
<1>7. ASSUME NEW n \in Name, saves' = Released(n), UNCHANGED <<disk, work>>
      PROVE  NestedIn(work'[m], disk'[m], saves'[m])
  <2>1. Below(Released(n)[m], s)
    BY <1>0, ReleasedStacks
  <2> QED
    BY <1>1, <1>7, <2>1, NestedCut
<1>8. ASSUME NEW d \in Db, Reset(d) PROVE NestedIn(work'[m], disk'[m], saves'[m])
  <2>1. CASE m = d
    BY <1>0, <1>1, <1>2, <1>8, <2>1 DEF Reset
  <2>2. CASE m # d
    BY <1>0, <1>1, <1>8, <2>2 DEF Reset
  <2> QED
    BY <2>1, <2>2
<1>9. ASSUME NEW d \in Db, NEW img \in SUBSET Change, New(img), Stage(d, img) \/ Store(d, img)
      PROVE  NestedIn(work'[m], disk'[m], saves'[m])
  <2>1. CASE m # d
    BY <1>0, <1>1, <1>9, <2>1 DEF Stage, Store, Changed
  <2>2. CASE m = d /\ Stage(d, img)
    <3>1. work'[m] = img /\ disk'[m] = dk /\ saves'[m] = s
      BY <1>0, <1>1, <2>2 DEF Stage, Changed
    <3>2. img # dk
      BY <1>1, <1>9 DEF New
    <3> QED
      BY <1>1, <3>1, <3>2, NestedCut
  <2>3. CASE m = d /\ Store(d, img)
    BY <1>0, <1>1, <1>2, <2>3 DEF Store
  <2> QED
    BY <1>9, <2>1, <2>2, <2>3
<1>10. ASSUME NEW n \in Name, Push(n) PROVE NestedIn(work'[m], disk'[m], saves'[m])
  <2>1. work'[m] = w /\ disk'[m] = dk
    BY <1>10 DEF Push
  <2>2. CASE m \notin there
    <3>1. saves'[m] = s
      BY <1>0, <1>10, <2>2 DEF Push
    <3> QED
      BY <1>1, <2>1, <3>1
  <2>3. CASE m \in there
    <3> DEFINE k == [name |-> n, image |-> w]
    <3>1. k \in Mark /\ k.image = w
      BY <1>0, <1>1 DEF Mark, Known
    <3>2. saves'[m] = Append(s, k)
      BY <1>0, <1>10, <2>3 DEF Push
    <3> HIDE DEF k
    <3>3. /\ Len(saves'[m]) = Len(s) + 1 /\ saves'[m][Len(s) + 1] = k
          /\ \A i \in 1 .. Len(s) : saves'[m][i] = s[i]
      BY <1>1, <3>1, <3>2
    <3>a. \A i \in 1 .. Len(saves'[m]) : i \in 1 .. Len(s) \/ i = Len(s) + 1
      BY <1>1, <3>3
    <3>4. ASSUME w = dk, NEW i \in 1 .. Len(saves'[m]) PROVE saves'[m][i].image = dk
      <4>1. CASE i = Len(s) + 1
        BY <3>1, <3>3, <3>4, <4>1
      <4>2. CASE i \in 1 .. Len(s)
        BY <1>1, <3>3, <3>4, <4>2 DEF NestedIn
      <4> QED
        BY <3>a, <4>1, <4>2
    <3>5. ASSUME NEW i \in 1 .. Len(saves'[m]), NEW j \in 1 .. Len(saves'[m]), i <= j,
                 saves'[m][j].image = dk
          PROVE  saves'[m][i].image = dk
      <4>1. CASE j = Len(s) + 1
        BY <3>1, <3>3, <3>4, <3>5, <4>1
      <4>2. CASE j \in 1 .. Len(s)
        <5>1. i \in 1 .. Len(s) /\ s[j].image = dk
          BY <1>1, <3>3, <3>5, <4>2
        <5>2. s[i].image = dk
          BY <1>1, <3>5, <4>2, <5>1 DEF NestedIn
        <5> QED
          BY <3>3, <5>1, <5>2
      <4> QED
        BY <3>a, <4>1, <4>2
    <3> QED
      BY <2>1, <3>4, <3>5 DEF NestedIn
  <2> QED
    BY <2>2, <2>3
<1>11. ASSUME NEW n \in Name, Back(n) PROVE NestedIn(work'[m], disk'[m], saves'[m])
  <2>1. disk'[m] = dk /\ Below(RollbackToIn(s, n), s)
    BY <1>1, <1>11, CutsBelow DEF Back
  <2>2. CASE m \notin there
    BY <1>0, <1>1, <1>11, <2>2 DEF Back
  <2>3. CASE m \in there /\ ~HasSave(s, n)
    BY <1>0, <1>1, <1>11, <2>3 DEF Back, ImageAt, RollbackToIn
  <2>4. CASE m \in there /\ HasSave(s, n)
    <3> DEFINE k == LastSave(s, n)
    <3>1. k \in 1 .. Len(s) /\ Len(RollbackToIn(s, n)) = k
      BY <1>1, <2>4, LastSaveExists, CutsBelow
    <3>2. work'[m] = s[k].image /\ saves'[m] = RollbackToIn(s, n)
      BY <1>0, <1>11, <2>4 DEF Back, ImageAt
    <3> HIDE DEF k
    <3>3. \A i \in 1 .. k : saves'[m][i] = s[i]
      BY <2>1, <3>1, <3>2 DEF Below
    <3>4. s[k].image = dk => \A i \in 1 .. k : s[i].image = dk
      BY <1>1, <3>1 DEF NestedIn
    <3>5. \A i, j \in 1 .. k : i <= j /\ s[j].image = dk => s[i].image = dk
      BY <1>1, <3>1 DEF NestedIn
    <3> QED
      BY <2>1, <3>1, <3>2, <3>3, <3>4, <3>5 DEF NestedIn
  <2> QED
    BY <2>2, <2>3, <2>4
<1> QED
  BY <1>4, <1>5, <1>6, <1>7, <1>8, <1>9, <1>10, <1>11 DEF PagerStep

-----------------------------------------------------------------------------
(***************************************************************************)
(* The types, the catalog, and the databases that are not attached         *)
(***************************************************************************)

\* Which databases the connection has changes only at ATTACH and DETACH.
LEMMA ThereMoves ==
  ASSUME Control, Next
  PROVE  /\ "main" \in there' /\ there' \subseteq Db
         /\ there' = there \/ \E d \in Db : Attach(d) \/ Detach(d)
<1>1. there' = there \/ \E d \in Db : Attach(d) \/ Detach(d)
  BY Zenon DEF Next, Begin, Commit, Rollback, Repair, PragmaForeignKeys, Savepoint, Release, RollbackTo,
         Statement, DmlFails, DdlFails, PragmaDefer, Succeeds
<1>2. ASSUME NEW d \in Db, Attach(d) \/ Detach(d) PROVE "main" \in there' /\ there' \subseteq Db
  BY <1>2 DEF Attach, Detach, Control
<1> QED
  BY <1>1, <1>2 DEF Control

\* Reading the schemas again gives catalogs.
LEMMA RereadCatalog ==
  ASSUME Stored', Control, NEW ds, Reread(ds)
  PROVE  catalog' \in [Db -> SUBSET Change]
<1>1. \A d \in Db : CatalogOf(work'[d]) \in SUBSET Change
  BY DEF Stored, Known, CatalogOf
<1> QED
  BY <1>1 DEF Reread, Control

\* Every action keeps the types.
LEMMA ControlStep ==
  ASSUME Stored, Control, Stored', Next
  PROVE  Control'
<1>1. "main" \in there' /\ there' \subseteq Db /\ stmts' \in 0 .. MaxStmt /\ faults' \in SUBSET Fault
  BY StmtsMove, ThereMoves DEF Control
<1>2. inTx' \in BOOLEAN /\ deferFk' \in BOOLEAN /\ fkOn' \in BOOLEAN
  <2>1. inTx' \in {inTx, TRUE, FALSE}
    BY Zenon DEF Next, Begin, Commit, Rollback, Repair, PragmaForeignKeys, Savepoint, Release, RollbackTo,
         Statement, DmlFails, DdlFails, Attach, Detach, PragmaDefer, Succeeds, LeaveTx
  <2>2. deferFk' \in {deferFk, TRUE, FALSE}
    BY Zenon DEF Next, Begin, Commit, Rollback, Repair, PragmaForeignKeys, Savepoint, Release, RollbackTo,
         Statement, DmlFails, DdlFails, Attach, Detach, PragmaDefer, Succeeds, LeaveTx
  <2>3. fkOn' \in {fkOn, ~fkOn}
    BY Zenon DEF Next, Begin, Commit, Rollback, Repair, PragmaForeignKeys, Savepoint, Release, RollbackTo,
         Statement, DmlFails, DdlFails, Attach, Detach, PragmaDefer, Succeeds, LeaveTx
  <2> QED
    BY <2>1, <2>2, <2>3, Zenon DEF Control
<1>3. openSaves' \in 0 .. MaxSaves
  <2>1. \/ openSaves' = openSaves \/ openSaves' = 0
        \/ openSaves < MaxSaves /\ openSaves' = openSaves + 1
        \/ \E n \in Name : \/ openSaves' = Len(Released(n)["main"])
                           \/ Back(n) /\ openSaves' = Len(saves'["main"])
    BY Zenon DEF Next, Begin, Commit, Rollback, Repair, PragmaForeignKeys, Savepoint, Release, RollbackTo,
         Statement, DmlFails, DdlFails, Attach, Detach, PragmaDefer, Succeeds, LeaveTx, Back
  <2>2. ASSUME NEW n \in Name PROVE Len(Released(n)["main"]) \in 0 .. MaxSaves
    <3>1. Below(Released(n)["main"], saves["main"])
      BY MainIsDb, ReleasedStacks
    <3>2. Len(Released(n)["main"]) \in Nat /\ Len(saves["main"]) \in Nat /\ Len(saves["main"]) <= MaxSaves
      BY <3>1, MainIsDb DEF Stored, Below
    <3> QED
      BY <3>1, <3>2, Bounds DEF Below
  <2>3. Len(saves'["main"]) \in 0 .. MaxSaves
    <3>1. Len(saves'["main"]) \in Nat /\ Len(saves'["main"]) <= MaxSaves
      BY MainIsDb DEF Stored
    <3> QED
      BY <3>1, Bounds
  <2> QED
    BY <2>1, <2>2, <2>3, Bounds DEF Control
<1>4. catalog' \in [Db -> SUBSET Change]
  <2>1. catalog' = catalog \/ \E ds : Reread(ds)
    <3>1. ASSUME NEW d \in Db, NEW c \in {"abort", "fail", "rollback"}, DmlFails(d, c)
          PROVE  catalog' = catalog \/ \E ds : Reread(ds)
      BY <3>1 DEF DmlFails
    <3>2. ASSUME NEW d, NEW img, Succeeds(d, img) PROVE catalog' = catalog \/ \E ds : Reread(ds)
      BY <3>2 DEF Succeeds, Autocommit
    <3>3. ASSUME NEW q, CommitsAll(q) \/ CommitsUntilBusy(q) PROVE \E ds : Reread(ds)
      BY <3>3, Zenon DEF CommitsAll, CommitsUntilBusy
    <3>4. CASE Commit
      BY <3>3, <3>4, Zenon DEF Commit
    <3>5. ASSUME NEW n \in Name, Release(n) PROVE catalog' = catalog \/ \E ds : Reread(ds)
      BY <3>3, <3>5, Zenon DEF Release
    <3> QED
      BY <3>1, <3>2, <3>4, <3>5, Zenon DEF Next, Begin, Rollback, Repair, PragmaForeignKeys, Savepoint,
         RollbackTo, Statement, DdlFails, Attach, Detach, PragmaDefer
  <2> QED
    BY <2>1, RereadCatalog DEF Control
<1> QED
  BY <1>1, <1>2, <1>3, <1>4 DEF Control

\* The schemas that are not read again are those of images that stay.
LEMMA CatalogKept ==
  ASSUME Control, Control', CatalogCurrent, faults' = faults, NEW ds, Reread(ds),
         \A d \in there' \ ds : d \in there /\ CatalogOf(work'[d]) = CatalogOf(work[d])
  PROVE  CatalogCurrent'
<1> SUFFICES ASSUME Without({"ddlFails"}), NEW d \in there' PROVE catalog'[d] = CatalogOf(work'[d])
  BY DEF CatalogCurrent, Without
<1>1. d \in Db /\ (d \in there => catalog[d] = CatalogOf(work[d]))
  BY DEF Control, CatalogCurrent
<1>2. CASE d \in ds
  BY <1>1, <1>2 DEF Reread
<1>3. CASE d \notin ds
  BY <1>1, <1>3 DEF Reread
<1> QED
  BY <1>2, <1>3

\* A row changes no schema.
LEMMA RowIsNoSchema ==
  ASSUME NEW img, NEW i
  PROVE  CatalogOf(img \cup {[id |-> i, kind |-> "row"]}) = CatalogOf(img)
BY DEF CatalogOf

\* The cached schemas are those of the images (reload_schema at each place the image changes).
LEMMA CatalogStep ==
  ASSUME Stored, Control, Control', CatalogCurrent, Next
  PROVE  CatalogCurrent'
<1>0. /\ faults' = faults /\ "main" \in there /\ there \subseteq Db
      /\ work \in [Db -> SUBSET Known]
  BY StmtsMove DEF Control, Stored
<1>1. ASSUME catalog' = catalog, work' = work, there' = there PROVE CatalogCurrent'
  BY <1>0, <1>1 DEF CatalogCurrent, Without
<1>2. ASSUME NEW ds, NEW s, CommitDbs(ds, s), NEW es, Reread(es), there' = there PROVE CatalogCurrent'
  <2>1. \A d \in there' \ es : d \in there /\ CatalogOf(work'[d]) = CatalogOf(work[d])
    BY <1>2 DEF CommitDbs
  <2> QED
    BY <1>0, <1>2, <2>1, CatalogKept, Zenon
<1>3. ASSUME RollbackDbs(there), there' = there, NEW es, Reread(es), there \subseteq es PROVE CatalogCurrent'
  <2>1. \A d \in there' \ es : d \in there /\ CatalogOf(work'[d]) = CatalogOf(work[d])
    BY <1>3
  <2> QED
    BY <1>0, <1>3, <2>1, CatalogKept, Zenon
<1>4. ASSUME NEW d \in Db, NEW img, Succeeds(d, img) PROVE CatalogCurrent'
  <2>1. there' = there /\ \A e \in there : e # d => work'[e] = work[e]
    BY <1>0, <1>4, Zenon DEF Succeeds, Autocommit, Changed
  <2>2. CASE Reread({d})
    <3>1. \A e \in there' \ {d} : e \in there /\ CatalogOf(work'[e]) = CatalogOf(work[e])
      BY <2>1
    <3> QED
      BY <1>0, <2>2, <3>1, CatalogKept, Zenon
  <2>3. CASE ~Reread({d})
    <3>1. catalog' = catalog /\ work' = Changed(d, img) /\ CatalogOf(img) = CatalogOf(work[d])
      BY <1>4, <2>3 DEF Succeeds, Autocommit
    <3>2. work'[d] = img
      BY <1>0, <3>1 DEF Changed
    <3> QED
      BY <1>0, <2>1, <3>1, <3>2 DEF CatalogCurrent, Without
  <2> QED
    BY <2>2, <2>3
<1>5. CASE Begin \/ PragmaForeignKeys \/ \E on \in BOOLEAN : PragmaDefer(on)
  BY <1>1, <1>5 DEF Begin, PragmaForeignKeys, PragmaDefer, pagers
<1>6. CASE Commit
  <2>1. there' = there
    BY <1>6 DEF Commit
  <2>2. CASE CommitsAll(saves)
    BY <1>2, <2>1, <2>2 DEF CommitsAll
  <2>3. CASE CommitsUntilBusy(saves)
    BY <1>2, <2>1, <2>3 DEF CommitsUntilBusy
  <2>4. CASE RollbackDbs(there) /\ Reread(there)
    BY <1>3, <2>1, <2>4
  <2> QED
    BY <1>6, <2>2, <2>3, <2>4 DEF Commit
<1>7. CASE Rollback
  BY <1>0, <1>3, <1>7 DEF Rollback
<1>8. CASE Repair
  BY <1>4, <1>8, MainIsDb DEF Repair
<1>9. ASSUME NEW n \in Name, Savepoint(n) PROVE CatalogCurrent'
  BY <1>1, <1>9 DEF Savepoint
<1>10. ASSUME NEW n \in Name, Release(n) PROVE CatalogCurrent'
  <2>1. there' = there
    BY <1>10 DEF Release
  <2>2. CASE UNCHANGED <<work, catalog>>
    BY <1>1, <2>1, <2>2
  <2>3. CASE CommitDbs(there, Released(n)) /\ Reread(there)
    BY <1>2, <2>1, <2>3
  <2>4. CASE CommitsUntilBusy(Released(n))
    BY <1>2, <2>1, <2>4 DEF CommitsUntilBusy
  <2>5. CASE RollbackDbs(there) /\ Reread(there)
    BY <1>3, <2>1, <2>5
  <2> QED
    BY <1>10, <2>2, <2>3, <2>4, <2>5 DEF Release
<1>11. ASSUME NEW n \in Name, RollbackTo(n) PROVE CatalogCurrent'
  <2> DEFINE ds == {d \in there : HasSave(saves[d], n)}
  <2>1. there' = there /\ Reread(ds)
    BY <1>11 DEF RollbackTo
  <2>2. \A d \in there' \ ds : d \in there /\ CatalogOf(work'[d]) = CatalogOf(work[d])
    BY <1>0, <1>11, <2>1 DEF RollbackTo, ImageAt
  <2> QED
    BY <1>0, <2>1, <2>2, CatalogKept, Zenon
<1>12. ASSUME NEW d \in Db, NEW k \in Kind, Statement(d, k) PROVE CatalogCurrent'
  BY <1>4, <1>12 DEF Statement
<1>13. ASSUME NEW d \in Db, NEW c \in {"abort", "fail", "rollback"}, DmlFails(d, c) PROVE CatalogCurrent'
  <2> DEFINE new == work[d] \cup {[id |-> NextId, kind |-> "row"]}
  <2>1. there' = there /\ CatalogOf(new) = CatalogOf(work[d])
    BY <1>13, RowIsNoSchema, Zenon DEF DmlFails
  <2> HIDE DEF new
  <2>2. \/ RollbackDbs(there) /\ Reread(there)
        \/ work' = Changed(d, new) /\ (catalog' = catalog \/ Reread({d}))
        \/ UNCHANGED <<work, catalog>>
    BY <1>13, SMTT(30) DEF DmlFails, new
  <2>3. CASE work' = Changed(d, new) /\ (catalog' = catalog \/ Reread({d}))
    <3>1. \A e \in there : CatalogOf(work'[e]) = CatalogOf(work[e])
      BY <1>0, <2>1, <2>3 DEF Changed
    <3> QED
      BY <1>0, <2>1, <2>3, <3>1 DEF CatalogCurrent, Without, Reread
  <2> QED
    BY <1>1, <1>3, <2>1, <2>2, <2>3
<1>14. ASSUME NEW d \in Db, DdlFails(d) PROVE CatalogCurrent'
  BY <1>0, <1>14 DEF DdlFails, CatalogCurrent, Without
<1>15. ASSUME NEW d \in Db, Attach(d) \/ Detach(d) PROVE CatalogCurrent'
  <2>1. Reread({d}) /\ work' = [work EXCEPT ![d] = disk[d]] /\ there' \ {d} \subseteq there
    BY <1>15 DEF Attach, Detach
  <2>2. \A e \in there' \ {d} : e \in there /\ CatalogOf(work'[e]) = CatalogOf(work[e])
    BY <1>0, <2>1
  <2> QED
    BY <1>0, <2>1, <2>2, CatalogKept, Zenon
<1> QED
  BY <1>5, <1>6, <1>7, <1>8, <1>9, <1>10, <1>11, <1>12, <1>13, <1>14, <1>15 DEF Next

\* Nothing is staged in a database that is not attached.
LEMMA DetachedStep ==
  ASSUME Stored, Control, Detached, Next
  PROVE  Detached'
<1>0. \A d \in Db : saves[d] \in Seq(Mark)
  BY DEF Stored
<1>1. ASSUME there' = there, NEW d \in Db \ there
      PROVE  work'[d] = disk'[d] /\ saves'[d] = <<>>
  <2>0. d \in Db /\ d \notin there /\ work[d] = disk[d] /\ saves[d] = <<>>
    BY <1>1 DEF Detached
  <2>1. ASSUME NEW s \in {saves} \cup {Released(n) : n \in Name}, NEW ds, ds \subseteq there, CommitDbs(ds, s)
        PROVE  work'[d] = disk'[d] /\ saves'[d] = <<>>
    <3>1. s[d] = <<>>
      BY <2>0, <2>1 DEF Released
    <3> QED
      BY <2>0, <2>1, <3>1 DEF CommitDbs
  <2>2. ASSUME NEW s \in {saves} \cup {Released(n) : n \in Name}, CommitsUntilBusy(s)
        PROVE  work'[d] = disk'[d] /\ saves'[d] = <<>>
    BY <2>1, <2>2 DEF CommitsUntilBusy
  <2>3. RollbackDbs(there) => work'[d] = disk'[d] /\ saves'[d] = <<>>
    BY <2>0 DEF RollbackDbs
  <2>4. ASSUME NEW e \in there, work'[d] = work[d], disk'[d] = disk[d], saves'[d] = saves[d]
        PROVE  work'[d] = disk'[d] /\ saves'[d] = <<>>
    BY <2>0, <2>4
  <2>5. ASSUME NEW e \in there, NEW img, Succeeds(e, img) PROVE work'[d] = disk'[d] /\ saves'[d] = <<>>
    <3>1. e # d /\ e \in Db
      BY <2>0 DEF Control
    <3> QED
      BY <2>0, <2>5, <3>1 DEF Succeeds, Autocommit, Changed, Stored
  <2>6. CASE Begin \/ PragmaForeignKeys \/ \E on \in BOOLEAN : PragmaDefer(on)
    BY <2>0, <2>6 DEF Begin, PragmaForeignKeys, PragmaDefer, pagers
  <2>7. CASE Commit
    BY <2>1, <2>2, <2>3, <2>7 DEF Commit, CommitsAll
  <2>8. CASE Rollback
    BY <2>3, <2>8 DEF Rollback
  <2>9. CASE Repair
    BY <2>5, <2>9 DEF Repair, Control
  <2>10. ASSUME NEW n \in Name, Savepoint(n) PROVE work'[d] = disk'[d] /\ saves'[d] = <<>>
    BY <2>0, <2>10 DEF Savepoint
  <2>11. ASSUME NEW n \in Name, Release(n) PROVE work'[d] = disk'[d] /\ saves'[d] = <<>>
    <3>1. CASE saves' = Released(n) /\ UNCHANGED <<disk, work>>
      BY <2>0, <3>1 DEF Released
    <3> QED
      BY <2>1, <2>2, <2>3, <2>11, <3>1 DEF Release
  <2>12. ASSUME NEW n \in Name, RollbackTo(n) PROVE work'[d] = disk'[d] /\ saves'[d] = <<>>
    BY <2>0, <2>12 DEF RollbackTo
  <2>13. ASSUME NEW e \in Db, NEW k \in Kind, Statement(e, k) PROVE work'[d] = disk'[d] /\ saves'[d] = <<>>
    BY <2>5, <2>13 DEF Statement
  <2>14. ASSUME NEW e \in Db, NEW c \in {"abort", "fail", "rollback"}, DmlFails(e, c)
         PROVE  work'[d] = disk'[d] /\ saves'[d] = <<>>
    <3> DEFINE new == work[e] \cup {[id |-> NextId, kind |-> "row"]}
    <3> HIDE DEF new
    <3>1. e \in there /\ e # d
      BY <2>0, <2>14 DEF DmlFails
    <3>2. \/ RollbackDbs(there) \/ UNCHANGED pagers \/ Stage(e, new) \/ Store(e, new)
      BY <2>14, SMTT(30) DEF DmlFails, Stage, Store, pagers, new
    <3> QED
      BY <2>0, <2>3, <3>1, <3>2 DEF pagers, Stage, Store, Changed, Stored
  <2>15. ASSUME NEW e \in Db, DdlFails(e) PROVE work'[d] = disk'[d] /\ saves'[d] = <<>>
    BY <2>0, <2>15 DEF DdlFails, Changed, Stored
  <2>16. ASSUME NEW e \in Db, Attach(e) \/ Detach(e) PROVE work'[d] = disk'[d] /\ saves'[d] = <<>>
    BY <2>0, <2>16 DEF Attach, Detach, Stored
  <2> QED
    BY <2>6, <2>7, <2>8, <2>9, <2>10, <2>11, <2>12, <2>13, <2>14, <2>15, <2>16 DEF Next
<1>2. ASSUME NEW d \in Db, Attach(d) \/ Detach(d) PROVE Detached'
  <2>1. /\ work' = [work EXCEPT ![d] = disk[d]] /\ saves' = [saves EXCEPT ![d] = <<>>]
        /\ disk' = disk /\ \A e \in Db \ there' : e # d => e \notin there
    BY <1>2 DEF Attach, Detach
  <2> QED
    BY <2>1 DEF Detached, Stored
<1> QED
  BY <1>1, <1>2, ThereMoves DEF Detached

=============================================================================
