------------------------- MODULE TransactionsProofs -------------------------
(***************************************************************************)
(* Theorems about Transactions, for any number of attached databases, any  *)
(* savepoint names and any number of statements and savepoints.            *)
(***************************************************************************)
EXTENDS TransactionSteps

-----------------------------------------------------------------------------
(***************************************************************************)
(* What is staged between transactions                                     *)
(***************************************************************************)

\* Without the faults that leave something staged, the connection counts the savepoints
\* of main, and a step that ends outside a transaction leaves the committed images.
LEMMA SettledStep ==
  ASSUME Stored, Control, Detached, Keys, Settled, Next
  PROVE  Settled'
<1> DEFINE m == "main"
           s == saves[m]
<1> HIDE DEF m
<1>a. faults' = faults /\ m \in Db /\ m \in there /\ m = "main"
  BY StmtsMove, MainIsDb DEF Control, m
<1> DEFINE Goal == openSaves' = Len(saves'[m]) /\ (~Active' => work' = disk')
<1> SUFFICES ASSUME Quiet PROVE Goal
  BY <1>a DEF Settled, Quiet, Without, m
<1>0. /\ openSaves = Len(s) /\ openSaves \in Nat /\ s \in Seq(Mark) /\ Len(<<>>) = 0
      /\ inTx \in BOOLEAN /\ fkOn /\ KeysIn(disk[m], work[m], s, inTx, deferFk)
      /\ disk \in [Db -> SUBSET Known] /\ work \in [Db -> SUBSET Known] /\ saves \in [Db -> Seq(Mark)]
      /\ ~Active => work = disk
      /\ faults \cap {"busy", "ddlFails", "cleanCommit", "deferOff", "fkOff"} = {}
  BY <1>a DEF Settled, Control, Stored, Keys, Quiet, Without, m
<1>1. ASSUME UNCHANGED <<pagers, openSaves>>, inTx => inTx' PROVE Goal
  BY <1>0, <1>1 DEF pagers, Active
<1>2. ASSUME RollbackDbs(there) PROVE work' = disk' /\ saves'[m] = <<>>
  <2>1. saves'[m] = <<>> /\ disk' = disk /\ \A d \in Db : work'[d] = disk[d]
    BY <1>a, <1>2 DEF RollbackDbs, Detached
  <2>2. work' = [d \in Db |-> IF d \in there THEN disk[d] ELSE work[d]]
    BY <1>2 DEF RollbackDbs
  <2> QED
    BY <1>0, <2>1, <2>2
<1>3. ASSUME NEW q, CommitDbs(there, q)
      PROVE  work' = disk' /\ (saves'[m] = <<>> \/ (~Dirty(m) /\ saves'[m] = q[m]))
  <2>1. work' = work /\ \A d \in Db : disk'[d] = work[d]
    BY <1>3 DEF CommitDbs, Detached
  <2>2. disk' = [d \in Db |-> IF d \in there THEN work[d] ELSE disk[d]]
    BY <1>3 DEF CommitDbs
  <2>3. work' = disk'
    BY <1>0, <2>1, <2>2
  <2> QED
    BY <1>a, <1>3, <2>3 DEF CommitDbs
<1>4. ASSUME NEW q PROVE ~CommitsUntilBusy(q)
  BY <1>0 DEF CommitsUntilBusy
<1>5. ASSUME NEW d \in Db, NEW img, Succeeds(d, img) PROVE Goal
  <2>0. UNCHANGED <<inTx, openSaves>>
    BY <1>5 DEF Succeeds
  <2>1. CASE Active
    BY <1>0, <1>5, <2>0, <2>1 DEF Succeeds, Active
  <2>2. CASE ~Active
    <3>1. openSaves = 0 /\ work = disk
      BY <1>0, <2>2 DEF Active
    <3>2. \/ disk' = [disk EXCEPT ![d] = img] /\ work' = [work EXCEPT ![d] = img]
          \/ disk' = disk /\ work' = [work EXCEPT ![d] = disk[d]]
      BY <1>0, <1>5, <2>2 DEF Succeeds, Autocommit, Changed
    <3>3. work' = disk'
      BY <1>0, <3>1, <3>2, Zenon
    <3>4. saves' \in {saves, [saves EXCEPT ![d] = <<>>]}
      BY <1>0, <1>5, <2>2 DEF Succeeds, Autocommit
    <3>5. saves'[m] \in {s, <<>>}
      BY <1>0, <1>a, <3>4
    <3> QED
      BY <1>0, <2>0, <3>1, <3>3, <3>5, Zenon
  <2> QED
    BY <2>1, <2>2
<1>6. CASE Begin \/ PragmaForeignKeys \/ \E on \in BOOLEAN : PragmaDefer(on)
  <2>1. UNCHANGED <<pagers, openSaves>> /\ (inTx => inTx')
    BY <1>0, <1>6, Zenon DEF Begin, PragmaForeignKeys, PragmaDefer
  <2> QED
    BY <1>1, <2>1
<1>7. CASE Commit
  <2>1. Dirty(m) \/ s = <<>>
    BY <1>0, <1>7 DEF Commit, m
  <2>2. CASE CommitsAll(saves) /\ LeaveTx
    BY <1>0, <1>3, <2>1, <2>2 DEF CommitsAll, LeaveTx
  <2>3. CASE RollbackDbs(there) /\ LeaveTx
    BY <1>0, <1>2, <2>3 DEF LeaveTx
  <2> QED
    BY <1>4, <1>7, <2>2, <2>3 DEF Commit
<1>8. CASE Rollback
  BY <1>0, <1>2, <1>8 DEF Rollback, LeaveTx
<1>9. CASE Repair
  BY <1>5, <1>9, <1>a DEF Repair, m
<1>10. ASSUME NEW n \in Name, Savepoint(n) PROVE Goal
  <2> DEFINE k == [name |-> n, image |-> work[m]]
  <2>1. saves'[m] = Append(s, k) /\ openSaves' = openSaves + 1
    BY <1>a, <1>10 DEF Savepoint
  <2>2. k \in Mark
    BY <1>0, <1>a DEF Mark, Known
  <2> HIDE DEF k
  <2>3. Len(saves'[m]) = Len(s) + 1
    BY <1>0, <2>1, <2>2
  <2> QED
    BY <1>0, <2>1, <2>3 DEF Active
<1>11. ASSUME NEW n \in Name, Release(n) PROVE Goal
  <2>0. openSaves' = Len(Released(n)[m]) /\ inTx' = inTx
    BY <1>11 DEF Release, m
  <2>1. CASE openSaves' = 0 /\ ~inTx
    <3>0. Orphans(work[m]) = {}
      BY <1>0, <2>1 DEF KeysIn, Tolerated
    <3>1. DeferredFksHold
      BY <3>0 DEF DeferredFksHold, Orphans, m
    <3>2. CommitDbs(there, Released(n)) \/ RollbackDbs(there)
      BY <1>4, <1>11, <2>1, <3>1 DEF Release
    <3> QED
      BY <1>0, <1>2, <1>3, <2>0, <2>1, <3>2, Zenon
  <2>2. CASE ~(openSaves' = 0 /\ ~inTx)
    <3>1. saves' = Released(n)
      BY <1>11, <2>2 DEF Release
    <3>2. Below(saves'[m], s)
      BY <1>a, <3>1, ReleasedStacks
    <3>3. Active'
      BY <1>0, <2>0, <2>2, <3>1, <3>2 DEF Active, Below
    <3> QED
      BY <2>0, <3>1, <3>3
  <2> QED
    BY <2>1, <2>2
<1>12. ASSUME NEW n \in Name, RollbackTo(n) PROVE Goal
  <2>1. saves'[m] = RollbackToIn(s, n) /\ HasSave(s, n) /\ openSaves' = Len(saves'[m])
    BY <1>a, <1>12 DEF RollbackTo
  <2>2. openSaves' = LastSave(s, n) /\ LastSave(s, n) \in 1 .. Len(s)
    BY <1>0, <2>1, CutsBelow, LastSaveExists
  <2> QED
    BY <1>0, <2>1, <2>2 DEF Active
<1>13. ASSUME NEW d \in Db, NEW k \in Kind, Statement(d, k) PROVE Goal
  BY <1>5, <1>13 DEF Statement
<1>14. ASSUME NEW d \in Db, NEW c \in {"abort", "fail", "rollback"}, DmlFails(d, c) PROVE Goal
  <2> DEFINE new == work[d] \cup {[id |-> NextId, kind |-> "row"]}
  <2> HIDE DEF new
  <2>1. \/ RollbackDbs(there) /\ inTx' = FALSE /\ openSaves' = 0
        \/ RollbackDbs(there) /\ UNCHANGED <<inTx, openSaves>> /\ ~Active
        \/ UNCHANGED <<pagers, inTx, openSaves>>
        \/ Stage(d, new) /\ Active /\ UNCHANGED <<inTx, openSaves>>
        \/ Store(d, new) /\ ~Active /\ UNCHANGED <<inTx, openSaves>>
    BY <1>0, <1>14, SMTT(30) DEF DmlFails, Stage, Store, pagers, new
  <2>2. CASE Stage(d, new) /\ Active /\ UNCHANGED <<inTx, openSaves>>
    BY <1>0, <2>2 DEF Stage, Active
  <2>3. CASE Store(d, new) /\ ~Active /\ UNCHANGED <<inTx, openSaves>>
    <3>1. openSaves = 0 /\ work = disk
      BY <1>0, <2>3 DEF Active
    <3>2. saves'[m] \in {s, <<>>} /\ work' = disk'
      BY <1>0, <1>a, <2>3, <3>1 DEF Store, Changed
    <3> QED
      BY <1>0, <2>3, <3>1, <3>2, Zenon
  <2>4. CASE RollbackDbs(there) /\ openSaves' = 0
    BY <1>0, <1>2, <2>4
  <2> QED
    BY <1>0, <1>1, <2>1, <2>2, <2>3, <2>4 DEF Active
<1>15. ASSUME NEW d \in Db, DdlFails(d) PROVE Goal
  BY <1>0, <1>15 DEF DdlFails
<1>16. ASSUME NEW d \in Db, Attach(d) \/ Detach(d) PROVE Goal
  <2>1. d # m /\ UNCHANGED <<inTx, openSaves, disk>>
    BY <1>a, <1>16 DEF Attach, Detach
  <2>2. work' = [work EXCEPT ![d] = disk[d]] /\ saves' = [saves EXCEPT ![d] = <<>>]
    BY <1>16 DEF Attach, Detach
  <2>3. ~Active => work' = disk
    BY <1>0, <2>2
  <2> QED
    BY <1>0, <1>a, <2>1, <2>2, <2>3 DEF Active
<1> HIDE DEF Goal
<1>17. CASE \E n \in Name : Savepoint(n) \/ Release(n) \/ RollbackTo(n)
  BY <1>10, <1>11, <1>12, <1>17
<1>18. CASE \E d \in Db, k \in Kind : Statement(d, k)
  BY <1>13, <1>18
<1>19. CASE \E d \in Db, c \in {"abort", "fail", "rollback"} : DmlFails(d, c)
  BY <1>14, <1>19
<1>20. CASE \E d \in Db : DdlFails(d) \/ Attach(d) \/ Detach(d)
  BY <1>15, <1>16, <1>20
<1> QED
  BY <1>6, <1>7, <1>8, <1>9, <1>17, <1>18, <1>19, <1>20, Zenon DEF Next

-----------------------------------------------------------------------------
(***************************************************************************)
(* The savepoints of the databases, side by side                           *)
(***************************************************************************)

\* The newest savepoints of s are those of t.
AlignedWith(t, s) ==
  /\ Len(t) <= Len(s)
  /\ \A i \in 1 .. Len(t) : s[Len(s) - Len(t) + i].name = t[i].name

\* The newest savepoint of a name is at the same height in both.
LEMMA SameHeight ==
  ASSUME NEW t \in Seq(Mark), NEW s \in Seq(Mark), AlignedWith(t, s), NEW n, HasSave(t, n)
  PROVE  HasSave(s, n) /\ LastSave(s, n) = Len(s) - Len(t) + LastSave(t, n)
<1> DEFINE k == LastSave(t, n)
           b == Len(s) - Len(t)
<1>1. k \in 1 .. Len(t) /\ t[k].name = n /\ \A j \in k + 1 .. Len(t) : t[j].name # n
  BY LastSaveExists
<1>2. Len(t) \in Nat /\ Len(s) \in Nat /\ Len(t) <= Len(s)
  BY DEF AlignedWith
<1> HIDE DEF k
<1>3. b + k \in 1 .. Len(s) /\ s[b + k].name = n
  BY <1>1, <1>2 DEF AlignedWith
<1>4. ASSUME NEW j \in b + k + 1 .. Len(s) PROVE s[j].name # n
  <2>1. j - b \in k + 1 .. Len(t) /\ j - b \in 1 .. Len(t) /\ b + (j - b) = j
    BY <1>1, <1>2, <1>4
  <2> QED
    BY <1>1, <2>1, Zenon DEF AlignedWith
<1>5. LastSave(s, n) = b + k /\ HasSave(s, n)
  BY <1>3, <1>4, LastSaveUnique
<1> QED
  BY <1>5 DEF k

\* A part of the savepoints of main and the same part of those of another database.
LEMMA CutAligned ==
  ASSUME NEW t \in Seq(Mark), NEW s \in Seq(Mark), AlignedWith(t, s),
         NEW k \in 0 .. Len(t), NEW u, NEW r, Below(u, t), Below(r, s),
         Len(u) = k, Len(r) = Len(s) - Len(t) + k
  PROVE  AlignedWith(u, r)
<1>1. Len(t) \in Nat /\ Len(s) \in Nat /\ Len(t) <= Len(s)
  BY DEF AlignedWith
<1>2. Len(u) <= Len(r) /\ Len(r) - Len(u) = Len(s) - Len(t)
  BY <1>1
<1>3. ASSUME NEW i \in 1 .. Len(u) PROVE r[Len(r) - Len(u) + i].name = u[i].name
  <2>1. i \in 1 .. Len(t) /\ Len(s) - Len(t) + i \in 1 .. Len(r)
    BY <1>1, <1>3
  <2> QED
    BY <1>2, <2>1, Zenon DEF AlignedWith, Below
<1> QED
  BY <1>2, <1>3 DEF AlignedWith

\* A SAVEPOINT, a RELEASE and a ROLLBACK TO take the savepoints of every attached database
\* to the same height.
SavepointStep(n) ==
  /\ UNCHANGED <<disk, there>>
  /\ \A d \in there : saves'[d] = Append(saves[d], [name |-> n, image |-> work[d]])

\* Every attached database drops as many of its newest savepoints as main, which keeps k.
CutStep(k) ==
  /\ UNCHANGED <<disk, there>> /\ k \in 0 .. Len(saves["main"]) /\ Len(saves'["main"]) = k
  /\ \A d \in there : /\ Below(saves'[d], saves[d])
                      /\ Len(saves'[d]) = Len(saves[d]) - Len(saves["main"]) + k

\* The savepoints of every attached database end in those of main.
AlignedAll == \A d \in there : AlignedWith(saves["main"], saves[d])

\* Each database looks for the name in its own stack (WritePager::release, rollback_to),
\* and all of them cut at the height where main has it.
LEMMA Cuts ==
  ASSUME Stored, Control, AlignedAll, NEW n, HasSave(saves["main"], n), UNCHANGED <<disk, there>>
  PROVE  /\ (\A d \in there : saves'[d] = ReleaseIn(saves[d], n)) => CutStep(LastSave(saves["main"], n) - 1)
         /\ (\A d \in there : saves'[d] = RollbackToIn(saves[d], n)) => CutStep(LastSave(saves["main"], n))
<1> DEFINE k == LastSave(saves["main"], n)
<1>1. ASSUME NEW d \in there
      PROVE  /\ Below(ReleaseIn(saves[d], n), saves[d]) /\ Below(RollbackToIn(saves[d], n), saves[d])
             /\ Len(ReleaseIn(saves[d], n)) = Len(saves[d]) - Len(saves["main"]) + (k - 1)
             /\ Len(RollbackToIn(saves[d], n)) = Len(saves[d]) - Len(saves["main"]) + k
             /\ k \in 1 .. Len(saves["main"]) /\ Len(saves["main"]) \in Nat /\ Len(saves[d]) \in Nat
  <2>1. saves[d] \in Seq(Mark) /\ saves["main"] \in Seq(Mark) /\ AlignedWith(saves["main"], saves[d])
    BY <1>1, MainIsDb DEF Stored, Control, AlignedAll
  <2>2. /\ k \in 1 .. Len(saves["main"]) /\ Len(saves["main"]) \in Nat /\ Len(saves[d]) \in Nat
        /\ HasSave(saves[d], n) /\ LastSave(saves[d], n) = Len(saves[d]) - Len(saves["main"]) + k
    <3>1. Len(saves["main"]) \in Nat /\ Len(saves[d]) \in Nat
      BY <2>1, StackOfMarks, Zenon
    <3>2. k \in 1 .. Len(saves["main"])
      BY <2>1, LastSaveExists, Zenon
    <3> QED
      BY <2>1, <3>1, <3>2, SameHeight, Zenon
  <2>3. /\ Below(ReleaseIn(saves[d], n), saves[d]) /\ Below(RollbackToIn(saves[d], n), saves[d])
        /\ Len(ReleaseIn(saves[d], n)) = LastSave(saves[d], n) - 1
        /\ Len(RollbackToIn(saves[d], n)) = LastSave(saves[d], n)
    BY <2>1, <2>2, CutsBelow, Zenon
  <2> HIDE DEF k
  <2> QED
    BY <2>2, <2>3
<1>2. "main" \in there
  BY DEF Control
<1> HIDE DEF k
<1>3. /\ Len(ReleaseIn(saves["main"], n)) = k - 1 /\ Len(RollbackToIn(saves["main"], n)) = k
      /\ k - 1 \in 0 .. Len(saves["main"]) /\ k \in 0 .. Len(saves["main"])
  <2>1. /\ Len(ReleaseIn(saves["main"], n)) = Len(saves["main"]) - Len(saves["main"]) + (k - 1)
        /\ Len(RollbackToIn(saves["main"], n)) = Len(saves["main"]) - Len(saves["main"]) + k
        /\ k \in 1 .. Len(saves["main"]) /\ Len(saves["main"]) \in Nat
    BY <1>1, <1>2, Zenon
  <2> QED
    BY <2>1
<1>4. (\A d \in there : saves'[d] = ReleaseIn(saves[d], n)) => CutStep(k - 1)
  BY <1>1, <1>2, <1>3, Zenon DEF CutStep
<1>5. (\A d \in there : saves'[d] = RollbackToIn(saves[d], n)) => CutStep(k)
  BY <1>1, <1>2, <1>3, Zenon DEF CutStep
<1> QED
  BY <1>4, <1>5 DEF k

\* Cutting at one height keeps the stacks aligned.
LEMMA CutKeepsAligned ==
  ASSUME Stored, Control, AlignedAll, NEW k, CutStep(k)
  PROVE  AlignedAll'
<1>1. "main" \in there /\ there' = there /\ there \subseteq Db /\ Len(saves'["main"]) = k
  BY DEF Control, CutStep
<1>2. ASSUME NEW d \in there PROVE AlignedWith(saves'["main"], saves'[d])
  <2>1. saves[d] \in Seq(Mark) /\ saves["main"] \in Seq(Mark) /\ AlignedWith(saves["main"], saves[d])
    BY <1>1, <1>2 DEF Stored, AlignedAll
  <2>2. /\ Below(saves'["main"], saves["main"]) /\ Below(saves'[d], saves[d]) /\ k \in 0 .. Len(saves["main"])
        /\ Len(saves'[d]) = Len(saves[d]) - Len(saves["main"]) + k
    BY <1>1, <1>2, Zenon DEF CutStep
  <2> QED
    BY <1>1, <2>1, <2>2, CutAligned, Zenon
<1> QED
  BY <1>1, <1>2 DEF AlignedAll

\* A SAVEPOINT pushed on every attached database keeps the stacks aligned.
LEMMA PushKeepsAligned ==
  ASSUME Stored, Control, AlignedAll, NEW n \in Name, SavepointStep(n)
  PROVE  AlignedAll'
<1>1. "main" \in there /\ there' = there /\ there \subseteq Db
  BY DEF Control, SavepointStep
<1>2. ASSUME NEW d \in there
      PROVE  /\ Len(saves[d]) \in Nat /\ Len(saves'[d]) = Len(saves[d]) + 1
             /\ saves'[d][Len(saves[d]) + 1].name = n
             /\ \A i \in 1 .. Len(saves[d]) : saves'[d][i] = saves[d][i]
  <2> DEFINE e == [name |-> n, image |-> work[d]]
  <2>1. saves[d] \in Seq(Mark) /\ e \in Mark /\ e.name = n /\ saves'[d] = Append(saves[d], e)
    BY <1>1, <1>2, Zenon DEF Stored, Mark, Known, SavepointStep
  <2> HIDE DEF e
  <2> QED
    BY <2>1
<1>3. ASSUME NEW d \in there PROVE AlignedWith(saves'["main"], saves'[d])
  <2> DEFINE t == saves["main"]
             s == saves[d]
             u == saves'["main"]
             r == saves'[d]
  <2>1. /\ Len(t) \in Nat /\ Len(u) = Len(t) + 1 /\ u[Len(t) + 1].name = n
        /\ \A i \in 1 .. Len(t) : u[i] = t[i]
        /\ Len(s) \in Nat /\ Len(r) = Len(s) + 1 /\ r[Len(s) + 1].name = n
        /\ \A i \in 1 .. Len(s) : r[i] = s[i]
        /\ Len(t) <= Len(s) /\ \A i \in 1 .. Len(t) : s[Len(s) - Len(t) + i].name = t[i].name
    BY <1>1, <1>2, <1>3, Zenon DEF AlignedAll, AlignedWith
  <2> HIDE DEF t, s, u, r
  <2>2. ASSUME NEW i \in 1 .. Len(u) PROVE r[Len(r) - Len(u) + i].name = u[i].name
    <3>1. CASE i = Len(t) + 1
      <4>1. Len(r) - Len(u) + i = Len(s) + 1
        BY <2>1, <3>1
      <4> QED
        BY <2>1, <3>1, <4>1
    <3>2. CASE i # Len(t) + 1
      <4>1. i \in 1 .. Len(t) /\ Len(r) - Len(u) + i = Len(s) - Len(t) + i /\ Len(s) - Len(t) + i \in 1 .. Len(s)
        BY <2>1, <2>2, <3>2
      <4> QED
        BY <2>1, <4>1, Zenon
    <3> QED
      BY <3>1, <3>2
  <2>3. AlignedWith(u, r)
    BY <2>1, <2>2 DEF AlignedWith
  <2> QED
    BY <2>3 DEF u, r
<1> QED
  BY <1>1, <1>3 DEF AlignedAll

\* Without faults a step ends the transaction, leaves the savepoints alone, or is one of
\* the two above.
LEMMA StackMoves ==
  ASSUME Stored, Control, Settled, AlignedAll, Next, faults = {}
  PROVE  \/ openSaves' = 0
         \/ UNCHANGED <<saves, there, openSaves>>
         \/ \E n \in Name : SavepointStep(n)
         \/ \E k \in Nat : CutStep(k)
<1> DEFINE Goal == \/ openSaves' = 0
                   \/ UNCHANGED <<saves, there, openSaves>>
                   \/ \E n \in Name : SavepointStep(n)
                   \/ \E k \in Nat : CutStep(k)
<1> SUFFICES Goal
  OBVIOUS
<1>0. openSaves \in Nat /\ (~Active => openSaves = 0) /\ \A f : f \notin faults
  BY DEF Control, Active
<1>a. "main" \in there /\ there \subseteq Db /\ saves["main"] \in Seq(Mark) /\ Len(saves["main"]) \in Nat
  BY MainIsDb DEF Control, Stored
<1>1. ASSUME NEW d, NEW img, Succeeds(d, img) PROVE Goal
  <2>1. UNCHANGED <<there, openSaves>> /\ (Active => UNCHANGED saves)
    BY <1>1 DEF Succeeds
  <2> QED
    BY <1>0, <2>1
<1>2. CASE Begin \/ PragmaForeignKeys \/ \E on \in BOOLEAN : PragmaDefer(on)
  BY <1>2 DEF Begin, PragmaForeignKeys, PragmaDefer, pagers
<1>3. CASE Commit \/ Rollback
  BY <1>0, <1>3 DEF Commit, Rollback, LeaveTx, CommitsUntilBusy
<1>4. CASE Repair
  BY <1>1, <1>4 DEF Repair
<1>5. ASSUME NEW n \in Name, Savepoint(n) PROVE Goal
  <2>1. SavepointStep(n)
    BY <1>5, <1>a DEF Savepoint, SavepointStep
  <2> QED
    BY <2>1
<1>6. ASSUME NEW n \in Name, Release(n) PROVE Goal
  <2>1. CASE openSaves' = 0
    BY <2>1
  <2>2. CASE openSaves' # 0
    <3>1. saves' = Released(n) /\ HasSave(saves["main"], n) /\ UNCHANGED <<disk, there>>
      BY <1>6, <2>2 DEF Release
    <3>2. \A d \in there : saves'[d] = ReleaseIn(saves[d], n)
      BY <1>a, <3>1 DEF Released
    <3>3. CutStep(LastSave(saves["main"], n) - 1) /\ LastSave(saves["main"], n) \in 1 .. Len(saves["main"])
      BY <1>a, <3>1, <3>2, Cuts, LastSaveExists
    <3>4. LastSave(saves["main"], n) - 1 \in Nat
      BY <1>a, <3>3
    <3> QED
      BY <3>3, <3>4
  <2> QED
    BY <2>1, <2>2
<1>7. ASSUME NEW n \in Name, RollbackTo(n) PROVE Goal
  <2>1. HasSave(saves["main"], n) /\ UNCHANGED <<disk, there>>
    BY <1>7 DEF RollbackTo
  <2>2. \A d \in there : saves'[d] = RollbackToIn(saves[d], n)
    BY <1>a, <1>7 DEF RollbackTo
  <2>3. CutStep(LastSave(saves["main"], n)) /\ LastSave(saves["main"], n) \in 1 .. Len(saves["main"])
    BY <1>a, <2>1, <2>2, Cuts, LastSaveExists
  <2>4. LastSave(saves["main"], n) \in Nat
    BY <1>a, <2>3
  <2> QED
    BY <2>3, <2>4
<1>8. ASSUME NEW d \in Db, NEW k \in Kind, Statement(d, k) PROVE Goal
  BY <1>1, <1>8 DEF Statement
<1>9. ASSUME NEW d \in Db, NEW c \in {"abort", "fail", "rollback"}, DmlFails(d, c) PROVE Goal
  <2>1. \/ openSaves' = 0
        \/ UNCHANGED <<there, openSaves>> /\ (Active => UNCHANGED saves)
    BY <1>9, SMTT(30) DEF DmlFails
  <2> QED
    BY <1>0, <2>1
<1>10. ASSUME NEW d \in Db, DdlFails(d) \/ Attach(d) \/ Detach(d) PROVE Goal
  BY <1>0, <1>10 DEF DdlFails, Attach, Detach
<1> HIDE DEF Goal
<1>11. CASE \E n \in Name : Savepoint(n) \/ Release(n) \/ RollbackTo(n)
  BY <1>5, <1>6, <1>7, <1>11
<1>12. CASE \E d \in Db, k \in Kind : Statement(d, k)
  BY <1>8, <1>12
<1>13. CASE \E d \in Db, c \in {"abort", "fail", "rollback"} : DmlFails(d, c)
  BY <1>9, <1>13
<1>14. CASE \E d \in Db : DdlFails(d) \/ Attach(d) \/ Detach(d)
  BY <1>10, <1>14
<1> QED
  BY <1>2, <1>3, <1>4, <1>11, <1>12, <1>13, <1>14, Zenon DEF Next

\* Without faults the newest savepoints of the databases stay side by side.
LEMMA AlignedStep ==
  ASSUME Stored, Control, Stored', Control', Settled, Settled', Aligned, Next
  PROVE  Aligned'
<1>1. faults' = faults
  BY StmtsMove
<1> SUFFICES ASSUME Without(Fault) PROVE AlignedAll'
  BY <1>1, Zenon DEF Aligned, Without, AlignedAll, AlignedWith
<1>2. faults = {} /\ AlignedAll
  BY Zenon DEF Aligned, Without, AlignedAll, AlignedWith, Control
<1>3. CASE openSaves' = 0
  <2>1. Len(saves'["main"]) = 0
    BY <1>1, <1>2, <1>3 DEF Settled, Quiet, Without
  <2>2. \A d \in there' : Len(saves'[d]) \in Nat
    BY DEF Stored, Control
  <2> QED
    BY <2>1, <2>2 DEF AlignedAll, AlignedWith
<1>4. CASE UNCHANGED <<saves, there, openSaves>>
  BY <1>2, <1>4 DEF AlignedAll
<1> QED
  BY <1>2, <1>3, <1>4, StackMoves, CutKeepsAligned, PushKeepsAligned

-----------------------------------------------------------------------------
(***************************************************************************)
(* The inductive invariant and what it gives                               *)
(***************************************************************************)

\* Two sequences with the same elements are one.
LEMMA SameSequence ==
  ASSUME NEW S, NEW s \in Seq(S), NEW t \in Seq(S), Len(s) = Len(t),
         \A i \in 1 .. Len(s) : s[i] = t[i]
  PROVE  s = t
OBVIOUS


\* A connection just opened satisfies the invariant.
LEMMA InvInit == Init => Inv
<1> SUFFICES ASSUME Init PROVE Inv
  OBVIOUS
<1>1. /\ disk = [d \in Db |-> {}] /\ work = [d \in Db |-> {}] /\ saves = [d \in Db |-> <<>>]
      /\ catalog = [d \in Db |-> {}] /\ there = Db /\ inTx = FALSE /\ openSaves = 0
      /\ deferFk = FALSE /\ fkOn = TRUE /\ stmts = 0 /\ faults \in SUBSET Fault
  BY Bounds DEF Init
<1>2. "main" \in Db /\ <<>> \in Seq(Mark) /\ Len(<<>>) = 0 /\ Orphans({}) = {} /\ CatalogOf({}) = {}
  BY MainIsDb DEF Orphans, CatalogOf
<1>3. Stored
  <2>1. disk \in [Db -> SUBSET Known] /\ work \in [Db -> SUBSET Known]
    BY <1>1
  <2>2. saves \in [Db -> Seq(Mark)]
    BY <1>1, <1>2
  <2>3. \A d \in Db : /\ Len(saves[d]) <= MaxSaves
                      /\ \A j \in 1 .. Len(saves[d]) : saves[d][j].image \subseteq Known
    BY <1>1, <1>2, Bounds
  <2> QED
    BY <2>1, <2>2, <2>3 DEF Stored
<1>4. Control
  <2>1. catalog \in [Db -> SUBSET Change]
    BY <1>1
  <2>2. openSaves \in 0 .. MaxSaves /\ stmts \in 0 .. MaxStmt
    BY <1>1, Bounds
  <2> QED
    BY <1>1, <1>2, <2>1, <2>2, Zenon DEF Control
<1>5. Nested /\ Detached /\ CatalogCurrent
  BY <1>1, <1>2 DEF Nested, NestedIn, Detached, CatalogCurrent
<1>6. Keys
  BY <1>1, <1>2 DEF Keys, KeysIn, Tolerated
<1>7. Settled /\ Aligned
  BY <1>1, <1>2 DEF Settled, Aligned
<1> QED
  BY <1>3, <1>4, <1>5, <1>6, <1>7 DEF Inv

\* Every statement, commit, rollback, savepoint, pragma, ATTACH and DETACH keeps it.
LEMMA InvStep == Inv /\ [Next]_vars => Inv'
<1>1. ASSUME Inv, Next PROVE Inv'
  <2>0. Stored /\ Control /\ Nested /\ Detached /\ Keys /\ Settled /\ Aligned /\ CatalogCurrent
    BY <1>1 DEF Inv
  <2>1. stmts' \in {stmts, stmts + 1} /\ PagerStep
    BY <1>1, <2>0, StmtsMove, NextIsPagerStep
  <2>2. Stored' /\ Nested'
    BY <2>0, <2>1, StoredStep, NestedStep
  <2>3. Control'
    BY <1>1, <2>0, <2>2, ControlStep
  <2>4. Keys' /\ Detached' /\ CatalogCurrent'
    BY <1>1, <2>0, <2>3, KeysStep, DetachedStep, CatalogStep
  <2>5. Settled'
    BY <1>1, <2>0, SettledStep
  <2>6. Aligned'
    BY <1>1, <2>0, <2>2, <2>3, <2>5, AlignedStep
  <2> QED
    BY <2>2, <2>3, <2>4, <2>5, <2>6 DEF Inv
<1>2. ASSUME Inv, UNCHANGED vars PROVE Inv'
  BY <1>2, Zenon DEF Inv, vars, Stored, Known, Control, Nested, Detached, Keys, Settled, Quiet, Aligned,
              CatalogCurrent, Without, Active
<1> QED
  BY <1>1, <1>2

\* The inductive invariant holds in every state of every behaviour: each database's pager
\* keeps its savepoints, staged and committed images consistent with the flags of the
\* connection.
THEOREM Consistent == Spec => []Inv
BY InvInit, InvStep, PTL DEF Spec

\* The variables have their types.
THEOREM TypeCorrect == Spec => []TypeOK
<1>1. Inv => TypeOK
  <2> SUFFICES ASSUME Stored, Control PROVE TypeOK
    BY DEF Inv
  <2>1. Known \subseteq Change
    BY DEF Known
  <2>2. disk \in [Db -> SUBSET Change] /\ work \in [Db -> SUBSET Change]
    BY <2>1 DEF Stored
  <2>3. \A d \in Db : saves[d] \in Seq([name : Name, image : SUBSET Change])
    BY Zenon DEF Stored, Mark
  <2> QED
    BY <2>2, <2>3, Zenon DEF TypeOK, Control
<1> QED
  BY <1>1, Consistent, PTL

\* No commit leaves a child row without its parent in main, as long as foreign_keys stays
\* on and defer_foreign_keys is not turned off: neither COMMIT, nor the RELEASE of an
\* outermost savepoint, nor an autocommit or a conflict resolution (check_deferred_fks).
THEOREM KeysHoldCommitted == Spec => []ForeignKeysCommitted
<1>1. Inv => ForeignKeysCommitted
  BY DEF Inv, Keys, KeysIn, ForeignKeysCommitted
<1> QED
  BY <1>1, Consistent, PTL

\* Between transactions nothing is staged and no savepoint of main is left, and in every
\* state the cached schemas are those of the images, unless one of the faults the property
\* names happens (run_dml_atomic, reload_schema).
THEOREM CleanBetweenTransactions == Spec => []CleanBetween
<1>1. Inv => CleanBetween
  <2> SUFFICES ASSUME Inv PROVE NothingLeftStaged
    BY DEF Inv, CleanBetween
  <2>1. saves["main"] \in Seq(Mark)
    BY MainIsDb DEF Inv, Stored
  <2> SUFFICES ASSUME ~Active, Quiet PROVE work = disk /\ saves["main"] = <<>>
    BY DEF NothingLeftStaged, Quiet
  <2>2. work = disk /\ openSaves = Len(saves["main"]) /\ openSaves = 0
    BY DEF Inv, Settled, Active, Control
  <2> QED
    BY StackOfMarks, <2>1, <2>2, Zenon
<1> QED
  BY <1>1, Consistent, PTL

-----------------------------------------------------------------------------
(***************************************************************************)
(* All databases as one transactional image                                *)
(***************************************************************************)

\* One savepoint of the connection: the images of all databases.
Shown == [name : Name, image : [Db -> SUBSET Change]]

\* What the stack of the connection shows at each height.
StackShown ==
  /\ Stack \in Seq(Shown) /\ Len(Stack) = Len(saves["main"])
  /\ \A i \in 1 .. Len(saves["main"]) :
       /\ Stack[i].name = saves["main"][i].name
       /\ Stack[i].image \in [Db -> SUBSET Change]
       /\ \A d \in Db : Stack[i].image[d] =
            IF d \in there THEN saves[d][Len(saves[d]) - Len(saves["main"]) + i].image ELSE disk[d]

\* The part of the invariant that makes the stacks of the pagers one stack.
Told == Stored /\ Control /\ Detached /\ AlignedAll

\* The stack of the connection shows each attached database at its own height.
LEMMA StackShows == Told => StackShown
<1> SUFFICES ASSUME Stored, Control, Detached, AlignedAll PROVE StackShown
  BY DEF Told
<1> DEFINE t == saves["main"]
           Base(d) == Len(saves[d]) - Len(t)
           Img(i) == [d \in Db |-> IF Base(d) + i \in 1 .. Len(saves[d])
                                   THEN saves[d][Base(d) + i].image ELSE disk[d]]
<1>1. t \in Seq(Mark) /\ Len(t) \in Nat /\ there \subseteq Db /\ Known \subseteq Change
  BY MainIsDb DEF Stored, Control, Known
<1>2. ASSUME NEW i \in 1 .. Len(t), NEW d \in Db
      PROVE  /\ (IF Base(d) + i \in 1 .. Len(saves[d]) THEN saves[d][Base(d) + i].image ELSE disk[d])
                  = IF d \in there THEN saves[d][Base(d) + i].image ELSE disk[d]
             /\ (IF d \in there THEN saves[d][Base(d) + i].image ELSE disk[d]) \in SUBSET Change
  <2>0. saves[d] \in Seq(Mark) /\ Len(saves[d]) \in Nat /\ disk[d] \in SUBSET Change
    BY <1>1 DEF Stored
  <2>1. CASE d \in there
    <3>1. Len(t) <= Len(saves[d])
      BY <2>1, Zenon DEF AlignedAll, AlignedWith
    <3>2. Base(d) + i \in 1 .. Len(saves[d])
      <4>1. \A a, b \in Nat : a <= b => \A j \in 1 .. a : (b - a) + j \in 1 .. b
        OBVIOUS
      <4> QED
        BY <1>1, <1>2, <2>0, <3>1, <4>1, Zenon
    <3>3. saves[d][Base(d) + i] \in Mark
      BY StackOfMarks, <2>0, <3>2, Zenon
    <3> QED
      BY <2>1, <3>2, <3>3, Zenon DEF Mark
  <2>2. CASE d \notin there
    <3>1. Len(saves[d]) = 0
      BY <2>2 DEF Detached
    <3>2. Base(d) + i \notin 1 .. Len(saves[d])
      BY <1>1, <3>1
    <3> QED
      BY <2>0, <2>2, <3>2, Zenon
  <2> QED
    BY <2>1, <2>2, Zenon
<1>3. Stack = [i \in 1 .. Len(t) |-> [name |-> t[i].name, image |-> Img(i)]]
  BY DEF Stack
<1>4. ASSUME NEW i \in 1 .. Len(t)
      PROVE  /\ t[i].name \in Name /\ Img(i) \in [Db -> SUBSET Change]
             /\ \A d \in Db : Img(i)[d] = IF d \in there THEN saves[d][Base(d) + i].image ELSE disk[d]
  <2>1. t[i] \in Mark
    BY <1>1, <1>4
  <2>2. t[i].name \in Name
    BY <2>1 DEF Mark
  <2> QED
    BY <1>2, <1>4, <2>2, Zenon
<1> HIDE DEF Img, t
<1>5. \A i \in 1 .. Len(t) : Stack[i] = [name |-> t[i].name, image |-> Img(i)] /\ Stack[i] \in Shown
  BY <1>3, <1>4 DEF Shown
<1>6. Stack \in Seq(Shown) /\ Len(Stack) = Len(t)
  <2>1. Stack = [i \in 1 .. Len(t) |-> Stack[i]]
    BY <1>3, <1>5
  <2> QED
    BY <1>1, <1>3, <1>5, <2>1
<1>7. \A i \in 1 .. Len(t) :
         /\ Stack[i].name = t[i].name
         /\ Stack[i].image \in [Db -> SUBSET Change]
         /\ \A d \in Db : Stack[i].image[d] = IF d \in there THEN saves[d][Base(d) + i].image ELSE disk[d]
  <2> SUFFICES ASSUME NEW i \in 1 .. Len(t)
               PROVE  /\ Stack[i].name = t[i].name
                      /\ Stack[i].image \in [Db -> SUBSET Change]
                      /\ \A d \in Db : Stack[i].image[d] = IF d \in there THEN saves[d][Base(d) + i].image ELSE disk[d]
    OBVIOUS
  <2> HIDE DEF Base
  <2> DEFINE g == Img(i)
             nm == t[i].name
  <2>0. Stack[i] = [name |-> nm, image |-> g]
    BY <1>5, Zenon
  <2> HIDE DEF g, nm
  <2>1. Stack[i].name = nm /\ Stack[i].image = g
    BY <2>0
  <2> QED
    BY <1>4, <2>1, Zenon DEF nm, g
<1> QED
  BY <1>6, <1>7, Zenon DEF t, StackShown

\* Two entries that show the same are the same.
LEMMA SameShown ==
  ASSUME NEW a \in Shown, NEW b \in Shown, a.name = b.name, \A d \in Db : a.image[d] = b.image[d]
  PROVE  a = b
<1>1. a.image \in [Db -> SUBSET Change] /\ b.image \in [Db -> SUBSET Change]
  BY DEF Shown
<1>2. a.image = b.image
  BY <1>1
<1>3. a = [name |-> a.name, image |-> a.image] /\ b = [name |-> b.name, image |-> b.image]
  BY DEF Shown
<1> QED
  BY <1>2, <1>3

\* A RELEASE or ROLLBACK TO cuts the stack that the connection shows.
LEMMA StackCut ==
  ASSUME Told, Told', NEW k, CutStep(k)
  PROVE  Stack' = SubSeq(Stack, 1, k) /\ Len(Stack') = k
<1> DEFINE t == saves["main"]
<1>1. StackShown
  BY StackShows
<1>2. StackShown'
  <2>1. (Told => StackShown)'
    BY StackShows, PTL
  <2> QED
    BY <2>1
<1>3. /\ there' = there /\ disk' = disk /\ k \in 0 .. Len(t) /\ Len(saves'["main"]) = k
      /\ Len(t) \in Nat /\ "main" \in there /\ there \subseteq Db
  BY MainIsDb DEF CutStep, Told, Control, Stored
<1>4. Stack \in Seq(Shown) /\ Stack' \in Seq(Shown) /\ Len(Stack) = Len(t) /\ Len(Stack') = k
  BY <1>1, <1>2, <1>3 DEF StackShown
<1>5. ASSUME NEW i \in 1 .. k PROVE Stack'[i] = Stack[i]
  <2>0. i \in 1 .. Len(t) /\ i \in 1 .. Len(saves'["main"])
    BY <1>3, <1>5
  <2>1. Stack[i] \in Shown /\ Stack'[i] \in Shown
    BY <1>4, <2>0, <1>3
  <2>2. saves'["main"][i] = t[i]
    BY <1>3, <2>0, Zenon DEF CutStep, Below
  <2>3. Stack'[i].name = Stack[i].name
    BY <1>1, <1>2, <2>0, <2>2, Zenon DEF StackShown
  <2>4. ASSUME NEW d \in Db PROVE Stack'[i].image[d] = Stack[i].image[d]
    <3>1. CASE d \in there
      <4>1. /\ Len(saves'[d]) = Len(saves[d]) - Len(t) + k /\ Below(saves'[d], saves[d])
            /\ Len(t) <= Len(saves[d]) /\ Len(saves[d]) \in Nat
        BY <3>1, StackOfMarks, Zenon DEF CutStep, Told, AlignedAll, AlignedWith, Stored
      <4>2. /\ Len(saves'[d]) - Len(saves'["main"]) + i = Len(saves[d]) - Len(t) + i
            /\ Len(saves[d]) - Len(t) + i \in 1 .. Len(saves'[d])
        BY <1>3, <4>1
      <4>3. saves'[d][Len(saves'[d]) - Len(saves'["main"]) + i] = saves[d][Len(saves[d]) - Len(t) + i]
        BY <4>1, <4>2, Zenon DEF Below
      <4>4. Stack[i].image[d] = saves[d][Len(saves[d]) - Len(t) + i].image
        BY <1>1, <2>0, <3>1, Zenon DEF StackShown
      <4>5. Stack'[i].image[d] = saves'[d][Len(saves'[d]) - Len(saves'["main"]) + i].image
        BY <1>2, <1>3, <2>0, <3>1 DEF StackShown
      <4> QED
        BY <4>3, <4>4, <4>5, Zenon
    <3>2. CASE d \notin there
      BY <1>1, <1>2, <1>3, <2>0, <3>2, Zenon DEF StackShown
    <3> QED
      BY <3>1, <3>2
  <2> QED
    BY <2>1, <2>3, <2>4, SameShown
<1>6. \A i \in 1 .. k : Stack[i] \in Shown
  BY <1>3, <1>4
<1>7. /\ SubSeq(Stack, 1, k) \in Seq(Shown) /\ Len(SubSeq(Stack, 1, k)) = k
      /\ \A i \in 1 .. k : SubSeq(Stack, 1, k)[i] = Stack[i]
  <2>1. /\ SubSeq(Stack, 1, k) \in Seq(Shown)
        /\ Len(SubSeq(Stack, 1, k)) = IF 1 <= k THEN k - 1 + 1 ELSE 0
        /\ \A i \in 1 .. k - 1 + 1 : SubSeq(Stack, 1, k)[i] = Stack[1 + i - 1]
    BY <1>3, <1>6
  <2> QED
    BY <1>3, <2>1
<1> QED
  BY <1>4, <1>5, <1>7, SameSequence

\* A SAVEPOINT puts the images of all databases on it.
LEMMA StackPush ==
  ASSUME Told, Told', NEW n \in Name, SavepointStep(n)
  PROVE  Stack' = Append(Stack, [name |-> n, image |-> work])
<1> DEFINE t == saves["main"]
           e == [name |-> n, image |-> work]
<1>1. StackShown
  BY StackShows
<1>2. StackShown'
  <2>1. (Told => StackShown)'
    BY StackShows, PTL
  <2> QED
    BY <2>1
<1>3. /\ there' = there /\ disk' = disk /\ "main" \in there /\ there \subseteq Db
      /\ Len(t) \in Nat /\ t \in Seq(Mark)
  BY MainIsDb DEF SavepointStep, Told, Control, Stored
<1>4. ASSUME NEW d \in there
      PROVE  /\ Len(saves[d]) \in Nat /\ Len(saves'[d]) = Len(saves[d]) + 1
             /\ saves'[d][Len(saves[d]) + 1].name = n /\ saves'[d][Len(saves[d]) + 1].image = work[d]
             /\ \A i \in 1 .. Len(saves[d]) : saves'[d][i] = saves[d][i]
             /\ Len(t) <= Len(saves[d])
  <2> DEFINE f == [name |-> n, image |-> work[d]]
  <2>1. saves[d] \in Seq(Mark) /\ f \in Mark /\ f.name = n /\ f.image = work[d] /\ saves'[d] = Append(saves[d], f)
    BY <1>3, <1>4, Zenon DEF Told, Stored, Mark, Known, SavepointStep
  <2>2. Len(t) <= Len(saves[d])
    BY <1>4, Zenon DEF Told, AlignedAll, AlignedWith
  <2> HIDE DEF f, t
  <2> QED
    BY <2>1, <2>2
<1>5. Len(saves'["main"]) = Len(t) + 1
  BY <1>3, <1>4
<1>6. Stack \in Seq(Shown) /\ Stack' \in Seq(Shown) /\ Len(Stack) = Len(t) /\ Len(Stack') = Len(t) + 1
  BY <1>1, <1>2, <1>5 DEF StackShown
<1>7. e \in Shown /\ e.name = n /\ e.image = work
  BY DEF Shown, Told, Stored, Known
<1> HIDE DEF e
<1>8. /\ Append(Stack, e) \in Seq(Shown) /\ Len(Append(Stack, e)) = Len(t) + 1
      /\ \A i \in 1 .. Len(t) : Append(Stack, e)[i] = Stack[i]
      /\ Append(Stack, e)[Len(t) + 1] = e
  BY <1>6, <1>7
<1>9. ASSUME NEW i \in 1 .. Len(t) PROVE Stack'[i] = Stack[i]
  <2>0. i \in 1 .. Len(saves'["main"]) /\ i \in 1 .. Len(t)
    BY <1>3, <1>5, <1>9
  <2>1. Stack[i] \in Shown /\ Stack'[i] \in Shown
    BY <1>3, <1>5, <1>6, <1>9, <2>0
  <2>2. saves'["main"][i] = t[i]
    BY <1>3, <1>4, <1>9
  <2>3. Stack'[i].name = Stack[i].name
    BY <1>1, <1>2, <1>9, <2>0, <2>2, Zenon DEF StackShown
  <2>4. ASSUME NEW d \in Db PROVE Stack'[i].image[d] = Stack[i].image[d]
    <3>1. CASE d \in there
      <4>0. Len(saves[d]) \in Nat /\ Len(saves'[d]) = Len(saves[d]) + 1 /\ Len(t) <= Len(saves[d])
        BY <1>4, <3>1
      <4>1. /\ Len(saves'[d]) - Len(saves'["main"]) + i = Len(saves[d]) - Len(t) + i
            /\ Len(saves[d]) - Len(t) + i \in 1 .. Len(saves[d])
        <5>1. \A a, b \in Nat : a <= b =>
                \A j \in 1 .. a : (b + 1) - (a + 1) + j = b - a + j /\ b - a + j \in 1 .. b
          OBVIOUS
        <5> QED
          BY <1>3, <1>5, <2>0, <4>0, <5>1, Zenon
      <4>2. saves'[d][Len(saves'[d]) - Len(saves'["main"]) + i] = saves[d][Len(saves[d]) - Len(t) + i]
        BY <1>4, <3>1, <4>1, Zenon
      <4>3. Stack[i].image[d] = saves[d][Len(saves[d]) - Len(t) + i].image
        BY <1>1, <2>0, <3>1, Zenon DEF StackShown
      <4>4. Stack'[i].image[d] = saves'[d][Len(saves'[d]) - Len(saves'["main"]) + i].image
        BY <1>2, <1>3, <2>0, <3>1, Zenon DEF StackShown
      <4> QED
        BY <4>2, <4>3, <4>4, Zenon
    <3>2. CASE d \notin there
      BY <1>1, <1>2, <1>3, <2>0, <3>2, Zenon DEF StackShown
    <3> QED
      BY <3>1, <3>2
  <2> QED
    BY <2>1, <2>3, <2>4, SameShown
<1>10. Stack'[Len(t) + 1] = e
  <2> DEFINE k == Len(t) + 1
  <2>0. k \in 1 .. Len(saves'["main"]) /\ k \in 1 .. Len(Stack')
    BY <1>3, <1>5, <1>6
  <2>1. Stack'[k] \in Shown
    BY <1>6, <2>0
  <2>2. Stack'[k].name = n
    BY <1>2, <1>3, <1>4, <2>0, Zenon DEF StackShown
  <2>3. ASSUME NEW d \in Db PROVE Stack'[k].image[d] = work[d]
    <3>1. CASE d \in there
      <4>0. Len(saves[d]) \in Nat /\ Len(saves'[d]) = Len(saves[d]) + 1
        BY <1>4, <3>1
      <4>1. Len(saves'[d]) - Len(saves'["main"]) + k = Len(saves[d]) + 1
        <5>1. \A a, b \in Nat : (b + 1) - (a + 1) + (a + 1) = b + 1
          OBVIOUS
        <5> QED
          BY <1>3, <1>5, <4>0, <5>1, Zenon
      <4> HIDE DEF k
      <4>2. saves'[d][Len(saves'[d]) - Len(saves'["main"]) + k].image = work[d]
        BY <1>4, <3>1, <4>1, Zenon
      <4> QED
        BY <1>2, <1>3, <2>0, <3>1, <4>2, Zenon DEF StackShown
    <3>2. CASE d \notin there
      <4>1. disk[d] = work[d]
        BY <3>2 DEF Told, Detached
      <4> QED
        BY <1>2, <1>3, <2>0, <3>2, <4>1, Zenon DEF StackShown
    <3> QED
      BY <3>1, <3>2
  <2> HIDE DEF k
  <2>4. Stack'[k] = e
    BY <1>7, <2>1, <2>2, <2>3, SameShown
  <2> QED
    BY <2>4 DEF k
<1>11. ASSUME NEW i \in 1 .. Len(Stack') PROVE Stack'[i] = Append(Stack, e)[i]
  <2>1. i \in 1 .. Len(t) \/ i = Len(t) + 1
    BY <1>3, <1>6, <1>11
  <2> QED
    BY <1>8, <1>9, <1>10, <2>1
<1>12. Stack' = Append(Stack, e)
  BY <1>6, <1>8, <1>11, SameSequence
<1> QED
  BY <1>12 DEF e

\* The savepoint that the connection finds by its name is the one the pager of main finds.
LEMMA SameMark ==
  ASSUME Told, NEW n, HasSave(saves["main"], n)
  PROVE  Promise!Has(n) /\ Promise!Last(n) = LastSave(saves["main"], n)
<1> DEFINE t == saves["main"]
           k == LastSave(t, n)
<1>1. t \in Seq(Mark) /\ Len(t) \in Nat
  BY MainIsDb DEF Told, Stored
<1>2. k \in 1 .. Len(t) /\ t[k].name = n /\ \A j \in k + 1 .. Len(t) : t[j].name # n
  BY <1>1, LastSaveExists
<1>3. Len(Stack) = Len(t) /\ \A i \in 1 .. Len(t) : Stack[i].name = t[i].name
  BY StackShows, Zenon DEF StackShown
<1> HIDE DEF t, k
<1>4. /\ k \in 1 .. Len(Stack) /\ Stack[k].name = n
      /\ \A j \in k + 1 .. Len(Stack) : Stack[j].name # n
  BY <1>1, <1>2, <1>3
<1>5. Promise!Has(n)
  BY <1>4 DEF Promise!Has
<1> DEFINE m == Promise!Last(n)
<1>6. m \in 1 .. Len(Stack) /\ Stack[m].name = n /\ \A j \in m + 1 .. Len(Stack) : Stack[j].name # n
  BY <1>4 DEF Promise!Last
<1> HIDE DEF m
<1>7. m = k
  BY <1>1, <1>3, <1>4, <1>6
<1> QED
  BY <1>5, <1>7 DEF m, k, t

\* Every step without a fault is a step of the abstract transaction, or changes nothing it
\* shows.
LEMMA PromiseStep ==
  ASSUME Inv, Inv', Next, faults = {}
  PROVE  [Promise!Next]_(Promise!vars)
<1> DEFINE Goal == [Promise!Next]_(Promise!vars)
<1> SUFFICES Goal
  OBVIOUS
<1>0. faults' = faults /\ Told /\ Told' /\ \A f : f \notin faults
  BY StmtsMove, Zenon DEF Inv, Told, Aligned, AlignedAll, AlignedWith, Without
<1>1. /\ Stack \in Seq(Shown) /\ Len(Stack) = openSaves /\ openSaves \in Nat /\ inTx \in BOOLEAN
      /\ ~Active => work = disk
  BY <1>0, StackShows DEF StackShown, Inv, Settled, Quiet, Without, Control
<1>2. Stack' \in Seq(Shown) /\ Len(Stack') = openSaves' /\ openSaves' \in Nat
  <2>1. (Told => StackShown)'
    BY StackShows, PTL
  <2> QED
    BY <1>0, <2>1 DEF StackShown, Inv, Settled, Quiet, Without, Control
<1>3. /\ Promise!Open <=> Active
      /\ ~Active => Stack = <<>>
      /\ openSaves' = 0 => Stack' = <<>>
  BY <1>1, <1>2 DEF Promise!Open, Active
<1>4. work \in [Db -> SUBSET Change] /\ disk \in [Db -> SUBSET Change] /\ work' \in [Db -> SUBSET Change]
  BY DEF Inv, Stored, Known
<1>5. (disk' = disk /\ saves' = saves) => Stack' = Stack
  BY DEF Stack
\* The steps of the abstract transaction
<1>6. ASSUME Active, disk' = work, work' = work, inTx' = FALSE, openSaves' = 0 PROVE Promise!Commit
  BY <1>3, <1>6 DEF Promise!Commit, Promise!End
<1>7. ASSUME Active, disk' = disk, work' = disk, inTx' = FALSE, openSaves' = 0 PROVE Promise!Rollback
  BY <1>3, <1>7 DEF Promise!Rollback, Promise!End
<1>8. ASSUME NEW d \in Db, \A e \in Db \ {d} : work'[e] = work[e],
             disk' = IF Active THEN disk ELSE work', Stack' = Stack, inTx' = inTx
      PROVE  Goal
  <2>1. Promise!Statement
    BY <1>3, <1>4, <1>8 DEF Promise!Statement
  <2> QED
    BY <2>1 DEF Promise!Next
<1>9. ASSUME disk' = disk, work' = work, Stack' = Stack, inTx' = inTx PROVE Goal
  BY <1>9 DEF Promise!vars
<1>10. ASSUME Promise!Commit \/ Promise!Rollback PROVE Goal
  BY <1>10 DEF Promise!Next
\* The pager calls
<1>11. ASSUME NEW q, CommitDbs(there, q) PROVE disk' = work /\ work' = work
  <2>1. work' = work /\ \A d \in Db : disk'[d] = work[d]
    BY <1>11 DEF CommitDbs, Inv, Detached
  <2>2. disk' = [d \in Db |-> IF d \in there THEN work[d] ELSE disk[d]]
    BY <1>11 DEF CommitDbs
  <2> QED
    BY <1>4, <2>1, <2>2
<1>12. ASSUME RollbackDbs(there) PROVE disk' = disk /\ work' = disk
  <2>1. disk' = disk /\ \A d \in Db : work'[d] = disk[d]
    BY <1>12 DEF RollbackDbs, Inv, Detached
  <2>2. work' = [d \in Db |-> IF d \in there THEN disk[d] ELSE work[d]]
    BY <1>12 DEF RollbackDbs
  <2> QED
    BY <1>4, <2>1, <2>2
<1>13. ASSUME NEW q PROVE ~CommitsUntilBusy(q)
  BY <1>0 DEF CommitsUntilBusy
\* The actions
<1>14. ASSUME NEW d \in Db, NEW img, Succeeds(d, img) PROVE Goal
  <2>0. UNCHANGED <<inTx, openSaves>>
    BY <1>14 DEF Succeeds
  <2>1. CASE Active
    <3>1. disk' = disk /\ saves' = saves /\ work' = [work EXCEPT ![d] = img]
      BY <1>14, <2>1 DEF Succeeds, Changed
    <3> QED
      BY <1>4, <1>5, <1>8, <2>0, <2>1, <3>1
  <2>2. CASE ~Active
    <3>0. work = disk /\ Stack' = Stack
      BY <1>1, <1>3, <2>0, <2>2 DEF Active
    <3>1. \/ disk' = [disk EXCEPT ![d] = img] /\ work' = [work EXCEPT ![d] = img]
          \/ disk' = disk /\ work' = [work EXCEPT ![d] = disk[d]]
      BY <1>0, <1>14, <2>2 DEF Succeeds, Autocommit, Changed
    <3>2. disk' = work' /\ \A e \in Db \ {d} : work'[e] = work[e]
      BY <1>4, <3>0, <3>1
    <3> QED
      BY <1>8, <2>0, <2>2, <3>0, <3>2
  <2> QED
    BY <2>1, <2>2
<1>15. CASE Begin
  <2>1. Promise!Begin
    BY <1>5, <1>15 DEF Begin, pagers, Promise!Begin
  <2> QED
    BY <2>1 DEF Promise!Next
<1>16. CASE PragmaForeignKeys \/ \E on \in BOOLEAN : PragmaDefer(on)
  <2>1. disk' = disk /\ work' = work /\ saves' = saves /\ inTx' = inTx
    BY <1>16 DEF PragmaForeignKeys, PragmaDefer, pagers
  <2> QED
    BY <1>5, <1>9, <2>1
<1>17. CASE Commit
  <2>1. Active /\ LeaveTx /\ (CommitDbs(there, saves) \/ RollbackDbs(there))
    BY <1>13, <1>17 DEF Commit, CommitsAll
  <2> QED
    BY <1>6, <1>7, <1>10, <1>11, <1>12, <2>1, Zenon DEF LeaveTx
<1>18. CASE Rollback
  BY <1>7, <1>10, <1>12, <1>18, Zenon DEF Rollback, LeaveTx
<1>19. CASE Repair
  BY <1>14, <1>19, MainIsDb DEF Repair
<1>20. ASSUME NEW n \in Name, Savepoint(n) PROVE Goal
  <2>1. SavepointStep(n) /\ UNCHANGED <<disk, work, inTx>>
    BY <1>20 DEF Savepoint, SavepointStep, Inv, Control
  <2>2. Promise!Savepoint
    BY <1>0, <2>1, StackPush DEF Promise!Savepoint
  <2> QED
    BY <2>2 DEF Promise!Next
<1>21. ASSUME NEW n \in Name, Release(n) PROVE Goal
  <2> DEFINE k == LastSave(saves["main"], n)
  <2>0. /\ HasSave(saves["main"], n) /\ inTx' = inTx /\ UNCHANGED there
        /\ openSaves' = Len(Released(n)["main"]) /\ saves["main"] \in Seq(Mark)
        /\ "main" \in there /\ "main" \in Db /\ there \subseteq Db
    BY <1>21, MainIsDb DEF Release, Inv, Stored, Control
  <2>1. Promise!Has(n) /\ Promise!Last(n) = k /\ k \in 1 .. Len(saves["main"]) /\ openSaves' = k - 1
    BY <1>0, <2>0, SameMark, LastSaveExists, CutsBelow DEF Released
  <2>2. k \in Nat
    BY <2>0, <2>1
  <2>3. CASE openSaves' = 0 /\ ~inTx
    <3>1. CommitDbs(there, Released(n)) \/ RollbackDbs(there)
      <4>1. DeferredFksHold
        <5>1. Orphans(work["main"]) = {}
          BY <1>0, <2>3 DEF Inv, Keys, KeysIn, Tolerated, Without
        <5> QED
          BY <5>1 DEF DeferredFksHold, Orphans
      <4> QED
        BY <1>13, <1>21, <2>3, <4>1 DEF Release
    <3>2. inTx' = FALSE /\ Active /\ k = 1
      <4>1. Len(saves["main"]) = openSaves /\ Len(saves["main"]) \in Nat
        BY <1>0, <2>0 DEF Inv, Settled, Quiet, Without
      <4> QED
        BY <1>1, <2>0, <2>1, <2>2, <2>3, <4>1 DEF Active
    <3>3. Promise!Commit \/ Promise!Rollback
      BY <1>6, <1>7, <1>11, <1>12, <2>3, <3>1, <3>2, Zenon
    <3> QED
      BY <1>10, <3>3
  <2>4. CASE ~(openSaves' = 0 /\ ~inTx)
    <3>1. saves' = Released(n) /\ UNCHANGED <<disk, work>>
      BY <1>21, <2>4 DEF Release
    <3>2. \A d \in there : saves'[d] = ReleaseIn(saves[d], n)
      BY <2>0, <3>1 DEF Released
    <3>3. CutStep(k - 1)
      BY <1>0, <2>0, <3>1, <3>2, Cuts DEF Told
    <3> HIDE DEF k
    <3>4. Stack' = SubSeq(Stack, 1, k - 1)
      BY <1>0, <3>3, StackCut
    <3>5. ~(k = 1 /\ ~inTx)
      BY <2>1, <2>2, <2>4
    <3>6. Promise!Release
      BY <2>0, <2>1, <3>1, <3>4, <3>5 DEF Promise!Release
    <3> QED
      BY <3>6 DEF Promise!Next
  <2> QED
    BY <2>3, <2>4
<1>22. ASSUME NEW n \in Name, RollbackTo(n) PROVE Goal
  <2> DEFINE k == LastSave(saves["main"], n)
  <2>0. /\ HasSave(saves["main"], n) /\ UNCHANGED <<inTx, disk, there>> /\ saves["main"] \in Seq(Mark)
        /\ \A d \in there : saves'[d] = RollbackToIn(saves[d], n)
        /\ "main" \in there /\ there \subseteq Db
    BY <1>22, MainIsDb DEF RollbackTo, Inv, Stored, Control
  <2>1. Promise!Has(n) /\ Promise!Last(n) = k /\ k \in 1 .. Len(saves["main"])
    BY <1>0, <2>0, SameMark, LastSaveExists
  <2>2. Stack' = SubSeq(Stack, 1, k)
    BY <1>0, <2>0, Cuts, StackCut DEF Told
  <2>3. StackShown
    BY <1>0, StackShows
  <2>4. ASSUME NEW d \in Db PROVE work'[d] = Stack[k].image[d]
    <3>1. CASE d \in there
      <4>1. saves[d] \in Seq(Mark) /\ AlignedWith(saves["main"], saves[d])
        BY <1>0, <3>1 DEF Told, Stored, AlignedAll
      <4>2. HasSave(saves[d], n) /\ LastSave(saves[d], n) = Len(saves[d]) - Len(saves["main"]) + k
        BY <2>0, <4>1, SameHeight, Zenon
      <4>3. work'[d] = saves[d][Len(saves[d]) - Len(saves["main"]) + k].image
        BY <1>22, <3>1, <4>2, Zenon DEF RollbackTo, ImageAt
      <4>4. Stack[k].image[d] = saves[d][Len(saves[d]) - Len(saves["main"]) + k].image
        BY <2>1, <2>3, <3>1, Zenon DEF StackShown
      <4> QED
        BY <4>3, <4>4
    <3>2. CASE d \notin there
      <4>1. work'[d] = work[d] /\ work[d] = disk[d]
        BY <1>0, <1>22, <3>2 DEF RollbackTo, Told, Detached
      <4>2. Stack[k].image[d] = disk[d]
        BY <2>1, <2>3, <3>2 DEF StackShown
      <4> QED
        BY <4>1, <4>2
    <3> QED
      BY <3>1, <3>2
  <2> HIDE DEF k
  <2>5. Stack[k].image \in [Db -> SUBSET Change]
    BY <2>1, <2>3, Zenon DEF StackShown
  <2>6. work' = Stack[k].image
    BY <1>4, <2>4, <2>5
  <2>7. Promise!RollbackTo
    BY <2>0, <2>1, <2>2, <2>6 DEF Promise!RollbackTo
  <2> QED
    BY <2>7 DEF Promise!Next
<1>23. ASSUME NEW d \in Db, NEW k \in Kind, Statement(d, k) PROVE Goal
  BY <1>14, <1>23 DEF Statement
<1>24. ASSUME NEW d \in Db, NEW c \in {"abort", "fail", "rollback"}, DmlFails(d, c) PROVE Goal
  <2> DEFINE new == work[d] \cup {[id |-> NextId, kind |-> "row"]}
  <2> HIDE DEF new
  <2>1. \/ RollbackDbs(there) /\ inTx' = FALSE /\ openSaves' = 0
        \/ RollbackDbs(there) /\ UNCHANGED <<inTx, openSaves>> /\ ~Active
        \/ UNCHANGED <<pagers, inTx, openSaves>>
        \/ Stage(d, new) /\ Active /\ UNCHANGED <<inTx, openSaves>>
        \/ Store(d, new) /\ ~Active /\ UNCHANGED <<inTx, openSaves>>
    BY <1>0, <1>24, SMTT(30) DEF DmlFails, Stage, Store, pagers, new
  <2>2. CASE RollbackDbs(there) /\ inTx' = FALSE /\ openSaves' = 0 /\ Active
    BY <1>7, <1>10, <1>12, <2>2, Zenon
  <2>3. CASE RollbackDbs(there) /\ inTx' = inTx /\ openSaves' = openSaves /\ ~Active
    BY <1>1, <1>3, <1>9, <1>12, <2>3 DEF Active
  <2>4. CASE UNCHANGED <<pagers, inTx, openSaves>>
    BY <1>5, <1>9, <2>4 DEF pagers
  <2>5. CASE Stage(d, new) /\ Active /\ UNCHANGED <<inTx, openSaves>>
    <3>1. disk' = disk /\ saves' = saves /\ work' = [work EXCEPT ![d] = new]
      BY <2>5 DEF Stage, Changed
    <3> QED
      BY <1>4, <1>5, <1>8, <2>5, <3>1
  <2>6. CASE Store(d, new) /\ ~Active /\ UNCHANGED <<inTx, openSaves>>
    <3>0. work = disk /\ Stack' = Stack
      BY <1>1, <1>3, <2>6 DEF Active
    <3>1. disk' = [disk EXCEPT ![d] = new] /\ work' = [work EXCEPT ![d] = new]
      BY <2>6 DEF Store, Changed
    <3>2. disk' = work' /\ \A e \in Db \ {d} : work'[e] = work[e]
      BY <1>4, <3>0, <3>1
    <3> QED
      BY <1>8, <2>6, <3>0, <3>2
  <2>7. ~Active => inTx = FALSE /\ openSaves = 0
    BY <1>1 DEF Active
  <2> QED
    BY <2>1, <2>2, <2>3, <2>4, <2>5, <2>6, <2>7, Zenon
<1>25. ASSUME NEW d \in Db, DdlFails(d) PROVE Goal
  BY <1>0, <1>25 DEF DdlFails
<1>26. ASSUME NEW d \in Db, Attach(d) \/ Detach(d) PROVE Goal
  <2>1. /\ ~Active /\ UNCHANGED <<inTx, openSaves, disk>>
        /\ work' = [work EXCEPT ![d] = disk[d]]
    BY <1>0, <1>26 DEF Attach, Detach
  <2>2. work' = work /\ Stack' = Stack
    BY <1>1, <1>3, <1>4, <2>1 DEF Active
  <2> QED
    BY <1>9, <2>1, <2>2
<1> HIDE DEF Goal
<1>27. CASE \E n \in Name : Savepoint(n) \/ Release(n) \/ RollbackTo(n)
  BY <1>20, <1>21, <1>22, <1>27
<1>28. CASE \E d \in Db, k \in Kind : Statement(d, k)
  BY <1>23, <1>28
<1>29. CASE \E d \in Db, c \in {"abort", "fail", "rollback"} : DmlFails(d, c)
  BY <1>24, <1>29
<1>30. CASE \E d \in Db : DdlFails(d) \/ Attach(d) \/ Detach(d)
  BY <1>25, <1>26, <1>30
<1> QED
  BY <1>15, <1>16, <1>17, <1>18, <1>19, <1>27, <1>28, <1>29, <1>30, Zenon DEF Next

\* The pagers of all databases together implement one transactional image: the statements,
\* commits, rollbacks and savepoints of the connection take all the databases or none
\* (commit_attached and its counterparts), in every behaviour without a fault.
THEOREM Refinement == Spec => OneTransaction
<1>1. Init => Promise!Init
  <2> SUFFICES ASSUME Init PROVE Promise!Init
    OBVIOUS
  <2>1. disk \in [Db -> SUBSET Change] /\ work = disk /\ inTx = FALSE
    BY DEF Init
  <2>2. saves["main"] = <<>>
    BY MainIsDb DEF Init
  <2>3. Len(saves["main"]) = 0
    BY <2>2
  <2>4. Stack = <<>>
    BY <2>3 DEF Stack
  <2> QED
    BY <2>1, <2>4 DEF Promise!Init
<1>2. Inv /\ Inv' /\ [Next]_vars => [Without(Fault) => [Promise!Next]_(Promise!vars)]_vars
  <2> SUFFICES ASSUME Inv, Inv', Next, Without(Fault) PROVE [Promise!Next]_(Promise!vars)
    OBVIOUS
  <2>1. faults = {}
    BY DEF Inv, Control, Without
  <2> QED
    BY <2>1, PromiseStep
<1> QED
  BY <1>1, <1>2, Consistent, PTL DEF Spec, OneTransaction

=============================================================================
