------------------------------- MODULE MCSql -------------------------------
(***************************************************************************)
(* Statements that write, and the transactions around them.  A behaviour   *)
(* follows one `part':                                                     *)
(*   "transactions"  a connection with an attached database                *)
(*   "rowid"         one statement on rowid tables, with triggers, foreign *)
(*                   keys and a recording session                          *)
(*   "clustered"     two statements on WITHOUT ROWID tables                *)
(***************************************************************************)
EXTENDS Transactions, TLC

CONSTANT Parts      \* the parts to follow

VARIABLES part, cfg, tab, idx, saved, out, seen, seq, stack, ignore, keep, touched, run, count

MCAttached == <<"aux">>
MCFaultSets == {{}} \cup {{f} : f \in Fault}

-----------------------------------------------------------------------------
(* Rowid tables: declarations, contents and statements. *)

R(u, p) == [u |-> u, p |-> p]
Off == <<>>
Plain == [auto |-> FALSE, decl |-> "abort", nn |-> "nullable", fk |-> Off, trig |-> Off, recursive |-> FALSE]
Fk(c, p, d, u) == <<[child |-> c, parent |-> p, delete |-> d, update |-> u]>>
Tr(n, e, w, of, b) == <<[tbl |-> n, event |-> e, timing |-> w, of |-> of, body |-> b]>>

Ins(n, rows, oc, up) == [op |-> "insert", t |-> n, rows |-> rows, oc |-> oc, up |-> up]
Upd(n, ids, set, oc) == [op |-> "update", t |-> n, where |-> ids, set |-> set, oc |-> oc, limit |-> 4]
Del(n, ids) == [op |-> "delete", t |-> n, where |-> ids, limit |-> 4]
Row(i, u, p) == [id |-> i, u |-> u, p |-> p]
On(target, act, ids, set) == [target |-> target, act |-> act, where |-> ids, set |-> set]
All == 1 .. 4
Is(v) == <<"is", v>>
Plus(v) == <<"plus", v>>

RowidConfigs ==
  LET acts == {"restrict", "cascade", "null", "default"}
      fks  == {Fk("c", "t", d, d) : d \in acts} \cup {Fk("c", "t", "cascade", "default"), Fk("t", "t", "cascade", "null")}
      raise == {[op |-> "ignore"], [op |-> "fail"]}
      bodies == {Ins("t", <<Row(0, 3, 0)>>, "ignore", <<>>), Upd("t", All, "u" :> Plus(1), "none"), Del("t", {2})}
      trigs == {Tr("t", e, "before", {}, b) : e \in {"insert", "update", "delete"}, b \in raise}
               \cup {Tr("t", "insert", "after", {}, [op |-> "ignore"]), Tr("t", "delete", "after", {}, [op |-> "abort"])}
               \cup {Tr("t", e, w, {}, b) : e \in {"insert", "update"}, w \in {"before", "after"}, b \in bodies}
               \cup {Tr("t", "update", "after", {"u"}, Upd("t", All, "p" :> Is(0), "none"))}
               \cup {Tr("v", e, "instead", {}, b) : e \in {"insert", "update"}, b \in {Del("t", {1}), [op |-> "ignore"]}}
      inner == {Tr("c", e, w, {}, b) : e \in {"update", "delete"}, w \in {"before", "after"},
                                       b \in {[op |-> "ignore"], Del("t", {2})}}
               \cup {Tr("t", "delete", "after", {}, Ins("c", <<Row(0, 0, 1)>>, "none", <<>>))}
  IN  {[Plain EXCEPT !.decl = d, !.nn = n] : d \in {"abort", "replace", "fail"}, n \in {"nullable", "ignore", "replace"}}
      \cup {[Plain EXCEPT !.auto = TRUE]}
      \cup {[Plain EXCEPT !.fk = k] : k \in fks}
      \cup {[Plain EXCEPT !.fk = Fk("c", "t", "null", "default"), !.nn = "abort"]}
      \cup {[Plain EXCEPT !.trig = x, !.recursive = TRUE] : x \in trigs}
      \cup {[Plain EXCEPT !.trig = x] : x \in {y \in trigs : y[1].body.op = "update"}}
      \cup {[Plain EXCEPT !.trig = x, !.fk = Fk("c", "t", "cascade", "cascade")] : x \in inner}

RowidTables ==
  { [t |-> 1 :> R(1, 1), c |-> <<>>, seq |-> 1],
    [t |-> (1 :> R(1, 0)) @@ (2 :> R(2, 1)), c |-> (1 :> R(1, 1)) @@ (2 :> R(2, 2)), seq |-> 3],
    [t |-> (1 :> R(1, 1)) @@ (4 :> R(2, 2)), c |-> 1 :> R(0, 1), seq |-> 4] }

RowidStmts ==
  LET ocs == {"none", "ignore", "replace", "fail"}
      up  == {<<On("any", "nothing", {}, <<>>)>>, <<On("id", "update", All, "p" :> Is(2))>>,
              <<On("u", "update", {1}, "u" :> Plus(1)), On("any", "nothing", {}, <<>>)>>}
  IN  {Ins("t", rs, oc, <<>>) : oc \in ocs,
         rs \in {<<Row(0, 3, 0), Row(0, 1, 0)>>, <<Row(1, 2, 1)>>, <<Row(0, 3, 0), Row(0, 3, 3)>>,
                 <<Row(3, 9, 0), Row(2, 3, 2)>>}}
      \cup {Ins("t", <<Row(0, 1, 0), Row(1, 2, 1)>>, "none", x) : x \in up}
      \cup {Upd("t", All, s, oc) : oc \in ocs,
              s \in {"u" :> Is(3), "u" :> Plus(1), "id" :> Plus(1), "p" :> Is(0), ("u" :> Plus(1)) @@ ("p" :> Is(2)), "u" :> Is(9)}}
      \cup {Upd("c", All, "p" :> Plus(1), "none"), Ins("c", <<Row(1, 2, 2), Row(0, 1, 1)>>, "replace", <<>>)}
      \cup {[Del("t", All) EXCEPT !.limit = 1]} \cup {Del("t", ids) : ids \in {All, {1}, {2}}}
      \cup {[op |-> "view", t |-> "v", event |-> e, rows |-> <<1, 2>>] : e \in {"insert", "update"}}

-----------------------------------------------------------------------------
(* WITHOUT ROWID tables, likewise. *)

WR(k, u, p) == [k |-> k, u |-> u, p |-> p]
WRow(op, t) == [op |-> op, t |-> t, todo |-> <<>>, where |-> {}, set |-> <<>>, oc |-> "none", up |-> <<>>,
               n |-> 0, rewrote |-> FALSE, gone |-> {}, done |-> {}]
WIns(t, rows, oc, up) == [WRow("insert", t) EXCEPT !.todo = rows, !.oc = oc, !.up = up]
WUpd(t, w, set, oc) == [WRow("update", t) EXCEPT !.where = w, !.set = set, !.oc = oc]
WDel(t, w) == [WRow("delete", t) EXCEPT !.where = w]
WOn(target, act, w, set) == [target |-> target, act |-> act, where |-> w, set |-> set]
Keys == 1 .. 9
ClusteredConfigs ==
  {[decl |-> d, action |-> a, ignores |-> {}] : d \in {"abort", "replace", "fail"},
                                                 a \in {"restrict", "cascade", "null", "default"}}
  \cup {[decl |-> "abort", action |-> a, ignores |-> i] : a \in {"cascade", "null"},
           i \in {{"insert"}, {"update", "delete"}, {"child"}}}
ClusteredTables == {[w |-> {WR(1, 1, 0), WR(2, 2, 0)}, c |-> {WR(1, 0, 1), WR(2, 0, 2)}],
             [w |-> {WR(1, 1, 0), WR(3, 0, 0)}, c |-> {WR(1, 0, 3), WR(2, 0, 3)}]}
ClusteredStmts ==
  LET ocs == {"none", "ignore", "replace", "fail"}
      is(f, v) == f :> <<"is", v>>
      plus(f, v) == f :> <<"plus", v>>
  IN  {WIns("w", rs, oc, <<>>) : oc \in ocs,
         rs \in {<<WR(1, 2, 0), WR(2, 3, 0)>>, <<WR(3, 1, 0), WR(4, 1, 0)>>, <<WR(9, 3, 0), WR(2, 3, 0)>>}}
      \cup {WIns("w", <<WR(1, 3, 0), WR(4, 4, 0), WR(3, 4, 0)>>, oc, up) : oc \in {"none", "replace", "fail"},
              up \in {<<WOn("any", "nothing", {}, <<>>)>>, <<WOn("k", "update", Keys, is("u", 4))>>,
                      <<WOn("u", "update", {1, 2}, plus("k", 4)), WOn("any", "update", Keys, is("u", 0))>>}}
      \cup {WIns("c", <<WR(3, 0, 2), WR(1, 0, 1)>>, oc, <<>>) : oc \in {"none", "replace"}}
      \cup {WUpd("w", Keys, s, oc) : oc \in ocs, s \in {is("u", 3), plus("u", 1), plus("k", 1), plus("k", 2), is("k", 9)}}
      \cup {WUpd("c", Keys, plus("p", 1), "none")}
      \cup {WDel("w", s) : s \in {Keys, {1}, {2}}} \cup {WDel("c", {1})}
-----------------------------------------------------------------------------
D == INSTANCE Dml WITH
       MaxId <- 4, BadKey <- 9, DefaultP <- 1, MaxDepth <- 3,
       Configs <- RowidConfigs, Tables <- RowidTables, Stmts <- RowidStmts
C == INSTANCE WithoutRowid WITH
       BadKey <- 9, DefaultP <- 1, MaxStatements <- 2,
       Configs <- ClusteredConfigs, Tables <- ClusteredTables, Stmts <- ClusteredStmts

tableVars == <<cfg, tab, idx, saved, out, seen>>
rowidVars == <<seq, stack, ignore, keep, touched>>
clusteredVars == <<run, count>>
mcVars == <<part, vars, tableVars, rowidVars, clusteredVars>>

NoTables == /\ cfg = 0 /\ tab = 0 /\ idx = 0 /\ saved = 0 /\ out = "" /\ seen = 0
NoRowid == /\ seq = 0 /\ stack = 0 /\ ignore = 0 /\ keep = 0 /\ touched = 0
NoClustered == run = 0 /\ count = 0

\* Outside their own part the transactions rest in an initial state.
MCInit ==
  /\ part \in Parts
  /\ Init
  /\ part # "transactions" => faults = {}
  /\ CASE part = "transactions" -> NoTables /\ NoRowid /\ NoClustered
       [] part = "rowid"        -> D!Init /\ NoClustered
       [] part = "clustered"    -> C!Init /\ NoRowid

Transacting == part = "transactions" /\ Next /\ UNCHANGED <<tableVars, rowidVars, clusteredVars>>
Writing == part = "rowid" /\ D!Next /\ UNCHANGED <<part, vars, clusteredVars>>
WritingClustered == part = "clustered" /\ C!Next /\ UNCHANGED <<vars, rowidVars>>

\* The statements are over.
Over == /\ \/ part = "rowid" /\ D!Done
           \/ part = "clustered" /\ count = 2 /\ out # "running"
        /\ UNCHANGED mcVars

MCNext == /\ UNCHANGED part
          /\ Transacting \/ Writing \/ WritingClustered \/ Over

\* A statement runs to its end inside one call.
MCSpec == MCInit /\ [][MCNext]_mcVars /\ WF_mcVars(Writing)

-----------------------------------------------------------------------------
\* When a statement is over the secondary indexes of every table name exactly its rows,
\* however triggers and foreign-key actions interleaved the one-by-one insertions of
\* INSERT with the rebuilds of UPDATE, DELETE and the actions; and no two rows have the
\* same UNIQUE value or key, although conflicts are looked for in those indexes.
IndexesAgree ==
  /\ part = "rowid" => D!IndexesAgree /\ D!UniqueAsProbed
  /\ part = "clustered" => C!ClusteredIndexesAgree /\ C!ClusteredUnique

\* After a statement every foreign key names a parent row, through the actions that other
\* actions and triggers call; see Dml for the statements this leaves out.
ForeignKeysHold == part = "rowid" => D!ForeignKeysHold

\* The session knows every key whose row differs from what it was when recording began,
\* with the row it was; AUTOINCREMENT never gives a rowid that was in the table before; and
\* RAISE(IGNORE) is forgotten with the row whose trigger raised it.
SessionComplete ==
  part = "rowid" => D!SessionComplete /\ D!AutoincrementFresh /\ D!IgnoreConsumed

\* Every statement ends, however its triggers and foreign-key actions call each other:
\* MAX_TRIGGER_DEPTH bounds both.
Terminates == part = "rowid" => <>D!Done

=============================================================================
