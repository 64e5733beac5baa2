------------------------------- MODULE Rename -------------------------------
(***************************************************************************)
(* ALTER TABLE ... RENAME COLUMN and DROP COLUMN against the views and       *)
(* triggers that name the column (src/exec/mod.rs: exec_alter,               *)
(* exec_drop_column and the analyses below them).                            *)
(*                                                                         *)
(* The stored text of a view or trigger is rewritten token by token.  Four   *)
(* analyses, tried in order, decide which tokens spell the renamed column:   *)
(* each gives the qualifiers that mean its table and what becomes of the     *)
(* bare tokens (none of them, all, or those at known places), or gives up and*)
(* leaves the text alone.  The rewritten views and triggers are then tried,  *)
(* and the rename is undone when one no longer resolves.                     *)
(*                                                                         *)
(* A SELECT is [out, from, on, where, subs, ctes, arms]: result columns      *)
(* [q, c, as], sources [name, as, sub], references [q, c] of the ON and the  *)
(* other clauses, subqueries in expressions, WITH tables [name, cols, body]  *)
(* and the arms of a compound.  A missing name is "".                        *)
(***************************************************************************)
EXTENDS Integers, Sequences, FiniteSets, SequencesExt, FiniteSetsExt
LOCAL INSTANCE Values

CONSTANTS Table,         \* the altered table
          Old, New,      \* the column and its new name
          Schemas,       \* columns of every table: [table -> sequence of names]
          Views,         \* SELECTs of views
          Triggers       \* [on, of, when, subs, body]

None == "none"
All == "all"
At == "at"
Bail == [quals |-> {}, bare |-> None]
Plan(quals, bare) == [quals |-> quals, bare |-> bare]

VARIABLES cols,          \* columns of every table
          view, trigger, \* the stored definitions
          was,           \* columns, view and trigger before the statement
          pc

vars == <<cols, view, trigger, was, pc>>

Owns(t) == t \in DOMAIN cols /\ Old \in Range(cols[t])
IsBase(s) == s.sub = <<>>
OutName(o) == IF o.as # "" THEN o.as ELSE o.c
Aliases(from) == {s.as : s \in {x \in Range(from) : x.name = Table /\ x.as # ""}}

----------------------------------------------------------------------------
(* The analyses of a view *)

\* view_single_source_column_quals.
SingleSource(v) ==
  IF /\ v.ctes = <<>> /\ v.arms = <<>> /\ v.subs = <<>>
     /\ Len(v.from) = 1 /\ IsBase(v.from[1]) /\ v.from[1].name = Table /\ v.from[1].as # Old
     /\ \A o \in Range(v.out) : o.as # Old
  THEN Plan({Table} \cup Aliases(v.from), All) ELSE Bail

\* validate_view_select_only_table: every level reads the altered table alone.
RECURSIVE OnlyTable(_)
OnlyTable(v) ==
  /\ v.ctes = <<>> /\ v.arms = <<>>
  /\ Len(v.from) <= 1
  /\ \A s \in Range(v.from) : IsBase(s) /\ s.name = Table /\ s.as # Old
  /\ \A o \in Range(v.out) : o.as # Old
  /\ \A s \in Range(v.subs) : OnlyTable(s)
RECURSIVE AllAliases(_)
AllAliases(v) == Aliases(v.from) \cup UNION {AllAliases(s) : s \in Range(v.subs)}

OnlyTableQuals(v) == IF OnlyTable(v) THEN Plan({Table} \cup AllAliases(v), All) ELSE Bail

\* view_multi_source_quals: a join of base tables; bare names only when one of them has
\* the column.
MultiSource(v) ==
  IF /\ v.ctes = <<>> /\ v.arms = <<>> /\ v.subs = <<>> /\ Len(v.from) > 1
     /\ \A s \in Range(v.from) : IsBase(s) /\ Old \notin {s.name, s.as} /\ s.name \in DOMAIN cols
     /\ Len(SelectSeq(v.from, LAMBDA s : s.name = Table)) = 1
     /\ \A o \in Range(v.out) : o.as # Old
  THEN Plan({Table} \cup Aliases(v.from),
            IF Len(SelectSeq(v.from, LAMBDA s : Owns(s.name))) = 1 THEN All ELSE None)
  ELSE Bail

\* collect_select_base_sources_ctx: every base table at every level, or {"?"} to give up;
\* `known' holds the WITH names in sight.
RECURSIVE BaseSources(_, _)
BaseSources(v, known) ==
  LET names == known \cup {c.name : c \in Range(v.ctes)}
      inner(s) == IF s.as = Old THEN {[name |-> "?", as |-> ""]} ELSE BaseSources(s.sub[1], names)
  IN  (IF Old \in {c.name : c \in Range(v.ctes)} THEN {[name |-> "?", as |-> ""]} ELSE {})
      \cup UNION {BaseSources(c.body, names) : c \in Range(v.ctes)}
      \cup UNION {BaseSources(a, names) : a \in Range(v.arms)}
      \cup UNION {IF ~IsBase(s) THEN inner(s)
                  ELSE IF s.name \in names THEN {} ELSE {[name |-> s.name, as |-> s.as]} : s \in Range(v.from)}
      \cup UNION {BaseSources(s, names) : s \in Range(v.subs)}

\* select_needs_scope_aware: a token that spells the name may not be the column.
RECURSIVE NeedsScopes(_)
NeedsScopes(v) ==
  \/ v.ctes # <<>>
  \/ \E o \in Range(v.out) : o.as = Old
  \/ \E s \in Range(v.from) : ~IsBase(s) \/ Old \in {s.name, s.as}
  \/ \E a \in Range(v.arms) : NeedsScopes(a)
  \/ \E s \in Range(v.subs) : NeedsScopes(s)

\* global_unique_plan: the qualifiers, and whether one table alone owns the name; {} quals
\* when the altered table is not read or a table is unknown.
UniquePlan(srcs) ==
  LET names == {s.name : s \in srcs}
  IN  IF "?" \in names \/ Table \notin names \/ ~(names \subseteq DOMAIN cols) THEN Bail
      ELSE Plan({Table} \cup {s.as : s \in {x \in srcs : x.name = Table /\ x.as # ""}},
                IF Cardinality({n \in names : Owns(n)}) = 1 THEN All ELSE None)

----------------------------------------------------------------------------
(* Scopes: whose column a bare name is *)

\* cte_body_single_owner and body_exposes_old: whether a derived table exposes the name,
\* and then whether as the altered table's own column.
ExposesOld(v) ==
  LET hits == SelectSeq(v.out, LAMBDA o : o.c = "*" \/ OutName(o) = Old)
      o == hits[1]
      owners == SelectSeq(v.from, LAMBDA s : IsBase(s) /\ Owns(s.name))
  IN  IF hits = <<>> THEN {}
      ELSE IF o.c = "*" THEN {TRUE}
      ELSE IF o.as # "" THEN {FALSE}
      ELSE {IF o.q # "" THEN o.q = Table ELSE Len(owners) = 1 /\ owners[1].name = Table}

\* cte_old_owner.
CteExposes(c) == IF c.cols # <<>> THEN IF Old \in Range(c.cols) THEN {FALSE} ELSE {} ELSE ExposesOld(c.body)

\* resolve_bare_owner: the owner of a bare Old, innermost scope first; "leave" for a
\* derived column of that name, "?" when it cannot tell.
RECURSIVE BareOwner(_)
BareOwner(scopes) ==
  IF scopes = <<>> THEN "?"
  ELSE LET here == SelectSeq(Last(scopes), LAMBDA s : s.exposes # {} \/ (s.exposes = {} /\ Owns(s.name)))
       IN  IF here = <<>> THEN BareOwner(Front(scopes))
           ELSE IF Len(here) > 1 \/ here[1].exposes = {TRUE} THEN "?"
           ELSE IF here[1].exposes = {FALSE} THEN "leave" ELSE here[1].name

\* The scope of a FROM clause; `seen' maps the WITH names in sight to what they expose.
Scope(v, seen) ==
  [i \in DOMAIN v.from |->
     LET s == v.from[i]
     IN  IF ~IsBase(s) THEN [name |-> s.as, exposes |-> ExposesOld(s.sub[1])]
         ELSE [name |-> s.name, exposes |-> IF s.name \in DOMAIN seen THEN seen[s.name] ELSE {}]]

Visible(v, seen) ==
  [n \in DOMAIN seen \cup {c.name : c \in Range(v.ctes)} |->
     IF \E c \in Range(v.ctes) : c.name = n
     THEN CteExposes(CHOOSE c \in Range(v.ctes) : c.name = n) ELSE seen[n]]

\* collect_bare_old_owners: the owners of every bare Old of the SELECT.  The ON clauses are
\* not looked at.
RECURSIVE BareOwners(_, _, _)
BareOwners(v, scopes, seen) ==
  LET vis  == Visible(v, seen)
      here == Append(scopes, Scope(v, vis))
      bare == {r \in Range(v.out) \cup Range(v.where) : r.q = "" /\ r.c = Old}
  IN  {BareOwner(here) : r \in bare}
      \cup UNION {BareOwners(c.body, scopes, vis) : c \in Range(v.ctes)}
      \cup UNION {BareOwners(s.sub[1], scopes, vis) : s \in {x \in Range(v.from) : ~IsBase(x)}}
      \cup UNION {BareOwners(s, here, vis) : s \in Range(v.subs)}
      \cup UNION {BareOwners(a, scopes, vis) : a \in Range(v.arms)}

\* Mutant: every bare name once one of them is the column.
ScopeDecisionAll(v) ==
  Given(BareOwners(v, <<>>, <<>>),
        LAMBDA owners : IF "?" \in owners THEN "?" ELSE IF Table \in owners THEN All ELSE None)

\* scope_bare_old_decision.
ScopeDecision(v) ==
  Given(BareOwners(v, <<>>, <<>>),
        LAMBDA owners : IF "?" \in owners THEN "?" ELSE IF Table \in owners THEN At ELSE None)

Decided(bare, quals) == IF bare = "?" THEN Bail ELSE Plan(quals, bare)

\* view_global_unique_quals.
GlobalUnique(v) ==
  Given(UniquePlan(BaseSources(v, {})), LAMBDA plan :
        IF plan = Bail \/ (plan.bare = All /\ ~NeedsScopes(v)) THEN plan
        ELSE Decided(ScopeDecision(v), plan.quals))

\* The chain of exec_alter and view_drop_break_ref.
ViewPlan(v) ==
  Given(SelectSeq(<<SingleSource(v), OnlyTableQuals(v), MultiSource(v), GlobalUnique(v)>>, LAMBDA p : p # Bail),
        LAMBDA plans : IF plans = <<>> THEN Bail ELSE plans[1])

----------------------------------------------------------------------------
(* Rewriting (rewrite_column_tokens) *)

Name(n, plan) == IF plan.bare = All /\ n = Old THEN New ELSE n
Ref(r, plan, scopes) ==
  IF r.c # Old THEN r
  ELSE IF r.q # "" THEN IF r.q \in plan.quals THEN [r EXCEPT !.c = New] ELSE r
  ELSE IF plan.bare = All \/ (plan.bare = At /\ BareOwner(scopes) = Table) THEN [r EXCEPT !.c = New] ELSE r
Refs(rs, plan, scopes) == [i \in DOMAIN rs |-> Ref(rs[i], plan, scopes)]

\* Every token: references, and with All also aliases, source names and column lists.
RECURSIVE Rewrite(_, _, _, _)
Rewrite(v, plan, scopes, seen) ==
  LET vis  == Visible(v, seen)
      here == Append(scopes, Scope(v, vis))
      each(vs, sc) == [i \in DOMAIN vs |-> Rewrite(vs[i], plan, sc, vis)]
  IN  [out   |-> [i \in DOMAIN v.out |-> [Ref(v.out[i], plan, here) EXCEPT !.as = Name(@, plan)]],
       from  |-> [i \in DOMAIN v.from |->
                    LET s == v.from[i]
                    IN  [name |-> Name(s.name, plan), as |-> Name(s.as, plan), sub |-> each(s.sub, scopes)]],
       on    |-> Refs(v.on, [plan EXCEPT !.bare = IF @ = At THEN None ELSE @], here),
       where |-> Refs(v.where, plan, here),
       subs  |-> each(v.subs, here),
       ctes  |-> [i \in DOMAIN v.ctes |->
                    LET c == v.ctes[i]
                    IN  [name |-> Name(c.name, plan), cols |-> [j \in DOMAIN c.cols |-> Name(c.cols[j], plan)],
                         body |-> Rewrite(c.body, plan, scopes, vis)]],
       arms  |-> each(v.arms, scopes)]

RewriteView(v) == Given(ViewPlan(v), LAMBDA plan : IF plan = Bail THEN v ELSE Rewrite(v, plan, <<>>, <<>>))

----------------------------------------------------------------------------
(* What a SELECT means: the base column every reference binds to.  "?" where none does. *)

Missing(c) == <<"?", c>>
Ambiguous(c) == <<"!", c>>

\* A source's columns: <<name, binding>> pairs under a label; NEW and OLD need theirs.
BaseColumns(tabs, t) == [i \in DOMAIN tabs[t] |-> <<tabs[t][i], <<t, tabs[t][i]>>>>]
Labelled(s, q) == q = s.label \/ (q = "" /\ s.label \notin {"NEW", "OLD"})

Binding(r, scopes) ==
  LET hits(scope) == {<<i, j>> \in (DOMAIN scope) \X (1 .. 4) :
                        /\ Labelled(scope[i], r.q) /\ j \in DOMAIN scope[i].cols /\ scope[i].cols[j][1] = r.c}
      found == SelectSeq(scopes, LAMBDA s : hits(s) # {})
  IN  IF found = <<>> THEN Missing(r.c)
      ELSE IF Cardinality(hits(Last(found))) > 1 THEN Ambiguous(r.c)
      ELSE LET h == CHOOSE x \in hits(Last(found)) : TRUE IN Last(found)[h[1]].cols[h[2]][2]

\* The columns a SELECT gives, and the scope its FROM clause opens.
RECURSIVE Gives(_, _, _, _)
FromScope(v, tabs, outer, ctes) ==
  [i \in DOMAIN v.from |->
     LET s == v.from[i]
     IN  [label |-> IF s.as # "" THEN s.as ELSE s.name,
          cols  |-> IF ~IsBase(s) THEN Gives(s.sub[1], tabs, outer, ctes)
                    ELSE IF s.name \in DOMAIN ctes THEN ctes[s.name]
                    ELSE IF s.name \in DOMAIN tabs THEN BaseColumns(tabs, s.name) ELSE <<>>]]
WithTables(v, tabs, outer, ctes) ==
  [n \in DOMAIN ctes \cup {c.name : c \in Range(v.ctes)} |->
     IF \E c \in Range(v.ctes) : c.name = n
     THEN LET c == CHOOSE x \in Range(v.ctes) : x.name = n
              g == Gives(c.body, tabs, outer, ctes)
          IN  IF c.cols = <<>> THEN g ELSE [i \in DOMAIN g |-> <<c.cols[i], g[i][2]>>]
     ELSE ctes[n]]
Gives(v, tabs, outer, ctes) ==
  LET with  == WithTables(v, tabs, outer, ctes)
      scope == FromScope(v, tabs, outer, with)
      item(o) == IF o.c = "*" THEN FlattenSeq([i \in DOMAIN scope |-> scope[i].cols])
                 ELSE <<<<OutName(o), Binding(o, Append(outer, scope))>>>>
  IN  FlattenSeq([i \in DOMAIN v.out |-> item(v.out[i])])

\* The bindings of every reference, in the order of the text.
RECURSIVE Bindings(_, _, _, _)
Bindings(v, tabs, outer, ctes) ==
  LET with  == WithTables(v, tabs, outer, ctes)
      here  == Append(outer, FromScope(v, tabs, outer, with))
      refs  == SelectSeq(v.out, LAMBDA o : o.c # "*")
      own(rs) == [i \in DOMAIN rs |-> Binding(rs[i], here)]
      each(vs, sc) == FlattenSeq([i \in DOMAIN vs |-> Bindings(vs[i], tabs, sc, with)])
  IN  own(refs) \o own(v.on) \o own(v.where)
      \o each([i \in DOMAIN v.ctes |-> v.ctes[i].body], outer)
      \o each(FlattenSeq([i \in DOMAIN v.from |-> v.from[i].sub]), outer)
      \o each(v.subs, here) \o each(v.arms, outer)

Resolves(bindings) == \A b \in Range(bindings) : b[1] \notin {"?", "!"}
Renamed(bindings) == [i \in DOMAIN bindings |-> IF bindings[i] = <<Table, Old>> THEN <<Table, New>> ELSE bindings[i]]
ViewBindings(v, tabs) == Bindings(v, tabs, <<>>, <<>>)

----------------------------------------------------------------------------
(* Triggers: [on, of, when, subs, body]; a statement of the body is                *)
(* [op, t, as, cols, refs, subs, sel] with its target columns, the references and  *)
(* subqueries of its own expressions, and the SELECT it is or inserts.             *)

Selects(st) == st.subs \o st.sel

\* trigger_stmt_only_table.
StmtOnlyTable(st) == (st.op = "select" \/ st.t = Table) /\ \A s \in Range(Selects(st)) : OnlyTable(s)

\* trigger_single_source_quals.
TriggerSingle(g) ==
  IF /\ g.on = Table /\ \A s \in Range(g.subs) : OnlyTable(s)
     /\ \A st \in Range(g.body) : StmtOnlyTable(st)
  THEN Plan({Table, "NEW", "OLD"} \cup UNION {AllAliases(s) : s \in Range(g.subs)}
            \cup UNION {UNION {AllAliases(s) : s \in Range(Selects(st))} : st \in Range(g.body)}, All)
  ELSE Bail

\* collect_trigger_stmt_base_sources.
StmtSources(st) ==
  (IF st.op = "select" THEN {}
   ELSE {[name |-> IF Old \in {st.t, st.as} THEN "?" ELSE st.t, as |-> st.as]})
  \cup UNION {BaseSources(s, {}) : s \in Range(Selects(st))}

\* trigger_contains_cte.
TriggerNeedsScopes(g) ==
  \/ \E s \in Range(g.subs) : NeedsScopes(s)
  \/ \E st \in Range(g.body) : \E s \in Range(Selects(st)) : NeedsScopes(s)

\* collect_trigger_stmt_bare_owners: the scope of UPDATE and DELETE is their table.
StmtScopes(st) == IF st.op \in {"update", "delete"} THEN <<<<[name |-> st.t, exposes |-> {}]>>>> ELSE <<>>
StmtOwners(st) ==
  {BareOwner(StmtScopes(st)) : r \in {x \in Range(st.refs) : x.q = "" /\ x.c = Old}}
  \cup UNION {BareOwners(s, StmtScopes(st), <<>>) : s \in Range(Selects(st))}

\* scope_bare_old_decision_trigger.
TriggerDecision(g) ==
  Given({BareOwner(<<>>) : r \in {x \in Range(g.when) : x.q = "" /\ x.c = Old}}
        \cup UNION {BareOwners(s, <<>>, <<>>) : s \in Range(g.subs)}
        \cup UNION {StmtOwners(st) : st \in Range(g.body)},
        LAMBDA owners : IF "?" \in owners THEN "?" ELSE IF Table \notin owners THEN None
                        ELSE IF owners = {Table} THEN All ELSE At)

\* trigger_global_unique_quals.
TriggerGlobal(g) ==
  Given(UniquePlan(UNION {BaseSources(s, {}) : s \in Range(g.subs)}
                   \cup UNION {StmtSources(st) : st \in Range(g.body)}), LAMBDA plan :
    LET quals == plan.quals \cup (IF g.on = Table THEN {"NEW", "OLD"} ELSE {})
    IN  IF plan = Bail THEN Bail
        ELSE IF plan.bare = All /\ ~TriggerNeedsScopes(g) THEN Plan(quals, All)
        ELSE Decided(TriggerDecision(g), quals))

\* trigger_on_renamed_table, then trigger_body_single_source_over.
TriggerOn(g) == IF g.on = Table THEN Plan({"NEW", "OLD"}, None) ELSE Bail
SingleSourceOk(v) ==
  /\ v.ctes = <<>> /\ v.arms = <<>> /\ v.subs = <<>> /\ Len(v.from) <= 1
  /\ \A s \in Range(v.from) : IsBase(s) /\ s.as = "" /\ s.name = Table
  /\ \A o \in Range(v.out) : o.as = ""
TriggerBody(g) ==
  IF /\ g.subs = <<>> /\ g.body # <<>>
     /\ \A st \in Range(g.body) : /\ st.op = "select" \/ st.t = Table
                                  /\ st.subs = <<>> /\ \A s \in Range(st.sel) : SingleSourceOk(s)
  THEN Plan({Table}, All) ELSE Bail

TriggerPlan(g) ==
  Given(SelectSeq(<<TriggerSingle(g), TriggerGlobal(g), TriggerOn(g), TriggerBody(g)>>, LAMBDA p : p # Bail),
        LAMBDA plans : IF plans = <<>> THEN Bail ELSE plans[1])

RewriteTriggerBy(g, plan) ==
  LET each(vs, sc) == [i \in DOMAIN vs |-> Rewrite(vs[i], plan, sc, <<>>)]
      names(ns) == [i \in DOMAIN ns |-> Name(ns[i], plan)]
      stmt(st) == [st EXCEPT !.t = Name(@, plan), !.cols = names(@), !.refs = Refs(@, plan, StmtScopes(st)),
                             !.subs = each(@, StmtScopes(st)), !.sel = each(@, <<>>)]
  IN  IF plan = Bail THEN g
      ELSE [on |-> g.on, of |-> names(g.of), when |-> Refs(g.when, plan, <<>>), subs |-> each(g.subs, <<>>),
            body |-> [i \in DOMAIN g.body |-> stmt(g.body[i])]]
RewriteTrigger(g) == Given(TriggerPlan(g), LAMBDA plan : RewriteTriggerBy(g, plan))

\* What a trigger means: NEW and OLD and the references of every statement, and apart from
\* them the names that are no expressions: UPDATE OF and the columns written to.
Targets(g, tabs) ==
  LET named(t, ns) == [i \in DOMAIN ns |-> IF ns[i] \in Range(tabs[t]) THEN <<t, ns[i]>> ELSE Missing(ns[i])]
  IN  named(g.on, g.of) \o FlattenSeq([i \in DOMAIN g.body |-> named(g.body[i].t, g.body[i].cols)])
StmtBindings(g, st, tabs) ==
  LET rows == [i \in 1 .. 2 |-> [label |-> <<"NEW", "OLD">>[i], cols |-> BaseColumns(tabs, g.on)]]
      self == IF st.op \in {"update", "delete"}
              THEN <<[label |-> IF st.as # "" THEN st.as ELSE st.t, cols |-> BaseColumns(tabs, st.t)]>> ELSE <<>>
      outer == <<rows, self>>
  IN  [i \in DOMAIN st.refs |-> Binding(st.refs[i], outer)]
      \o FlattenSeq([i \in DOMAIN Selects(st) |-> Bindings(Selects(st)[i], tabs, outer, <<>>)])
TriggerBindings(g, tabs) ==
  LET rows == <<[i \in 1 .. 2 |-> [label |-> <<"NEW", "OLD">>[i], cols |-> BaseColumns(tabs, g.on)]]>>
  IN  [i \in DOMAIN g.when |-> Binding(g.when[i], rows)]
      \o FlattenSeq([i \in DOMAIN g.subs |-> Bindings(g.subs[i], tabs, rows, <<>>)])
      \o FlattenSeq([i \in DOMAIN g.body |-> StmtBindings(g, g.body[i], tabs)])

----------------------------------------------------------------------------
(* The statements *)

\* first_broken_view_after_rename and first_broken_trigger_after_rename: a view must
\* resolve; of a trigger only SELECT and INSERT ... SELECT are tried, NEW and OLD made
\* NULL, and only a missing column of the old name counts.
Probed(g, tabs) ==
  FlattenSeq([i \in DOMAIN g.body |-> FlattenSeq([j \in DOMAIN g.body[i].sel |->
    SelectSeq(Bindings(g.body[i].sel[j], tabs, <<>>, <<>>), LAMBDA b : b = Missing(Old))])])

Replace(s, x, y) == [i \in DOMAIN s |-> IF s[i] = x THEN y ELSE s[i]]

\* exec_alter, RENAME COLUMN: rewrite everything under a savepoint, then try it.
RenameColumn ==
  /\ pc = "start"
  /\ IF Old \notin Range(cols[Table]) \/ New \in Range(cols[Table])
       THEN pc' = "refused" /\ UNCHANGED <<cols, view, trigger>>
       ELSE \E c \in {[cols EXCEPT ![Table] = Replace(@, Old, New)]} :
            \E v \in {[i \in DOMAIN view |-> RewriteView(view[i])]} :
            \E g \in {[i \in DOMAIN trigger |-> RewriteTrigger(trigger[i])]} :
              IF \/ \E i \in DOMAIN v : ~Resolves(ViewBindings(v[i], c))
                 \/ \E i \in DOMAIN g : Probed(g[i], c) # <<>>
                THEN pc' = "refused" /\ UNCHANGED <<cols, view, trigger>>
                ELSE pc' = "renamed" /\ cols' = c /\ view' = v /\ trigger' = g
  /\ UNCHANGED was

\* first_bound_column_ref: some token the plan takes for the column.
RECURSIVE Tokens(_)
Tokens(v) ==
  Range(v.out) \cup Range(v.on) \cup Range(v.where)
  \cup {[q |-> "", c |-> n] : n \in {o.as : o \in Range(v.out)} \cup {s.name : s \in Range(v.from)}
                                    \cup {s.as : s \in Range(v.from)} \cup {c.name : c \in Range(v.ctes)}}
  \cup UNION {Tokens(c.body) \cup {[q |-> "", c |-> n] : n \in Range(c.cols)} : c \in Range(v.ctes)}
  \cup UNION {Tokens(s.sub[1]) : s \in {x \in Range(v.from) : ~IsBase(x)}}
  \cup UNION {Tokens(s) : s \in Range(v.subs) \cup Range(v.arms)}
BoundRef(tokens, givenPlan) ==
  Given(givenPlan, LAMBDA plan : \E r \in tokens : r.c = Old /\ IF r.q = "" THEN plan.bare # None ELSE r.q \in plan.quals)

\* trigger_drop_break_ref leaves the target columns out.
TriggerTokens(g) ==
  Range(g.when) \cup UNION {Tokens(s) : s \in Range(g.subs)}
  \cup UNION {Range(st.refs) \cup UNION {Tokens(s) : s \in Range(Selects(st))} : st \in Range(g.body)}

\* exec_drop_column: refuse when a view or trigger is seen to use the column.
DropColumn ==
  /\ pc = "start" /\ Old \in Range(cols[Table]) /\ Len(cols[Table]) > 1
  /\ IF \/ \E i \in DOMAIN view : BoundRef(Tokens(view[i]), ViewPlan(view[i]))
        \/ \E i \in DOMAIN trigger : BoundRef(TriggerTokens(trigger[i]), TriggerPlan(trigger[i]))
       THEN pc' = "used" /\ UNCHANGED cols
       ELSE pc' = "dropped" /\ cols' = [cols EXCEPT ![Table] = SelectSeq(@, LAMBDA c : c # Old)]
  /\ UNCHANGED <<view, trigger, was>>

\* Definitions that were accepted: every name in them resolves.
Init ==
  /\ cols \in Schemas
  /\ \/ /\ view \in {<<v>> : v \in {x \in Views : Resolves(ViewBindings(x, cols))}}
        /\ trigger = <<>>
     \/ /\ view = <<>>
        /\ trigger \in {<<g>> : g \in {x \in Triggers : Resolves(Targets(x, cols)) /\ Resolves(TriggerBindings(x, cols))}}
  /\ was = [cols |-> cols, view |-> view, trigger |-> trigger]
  /\ pc = "start"

Next == RenameColumn \/ DropColumn

Spec == Init /\ [][Next]_vars

----------------------------------------------------------------------------
(* Properties *)

SameOrMissed(then, now) ==
  \A j \in DOMAIN now : now[j] = Renamed(then)[j] \/ (then[j] = <<Table, Old>> /\ now[j] = Missing(Old))

\* When RENAME COLUMN succeeds, every name in a view binds to the column it was bound to
\* before, under its new name: in joins, subqueries that see outer columns, derived and WITH
\* tables, compounds, and beside other tables with a column of that name.  So does every
\* name in an expression of a trigger, or it is a reference to the renamed column the
\* analyses gave up on: none becomes a reference to another column, and none of another
\* table is renamed.
RenameKeepsMeaning ==
  pc = "renamed" =>
    /\ \A i \in DOMAIN view : ViewBindings(view[i], cols) = Renamed(ViewBindings(was.view[i], was.cols))
    /\ \A i \in DOMAIN trigger :
         \E then \in {TriggerBindings(was.trigger[i], was.cols)} :
         \E now \in {TriggerBindings(trigger[i], cols)} : SameOrMissed(then, now)

\* DROP COLUMN refuses on account of a view or trigger only when a name in it is bound to
\* the column.
DropRefusesOnlyUsers ==
  pc = "used" =>
    \/ \E i \in DOMAIN view : <<Table, Old>> \in Range(ViewBindings(view[i], cols))
    \/ \E i \in DOMAIN trigger : <<Table, Old>> \in Range(TriggerBindings(trigger[i], cols))
=============================================================================
