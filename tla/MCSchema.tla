------------------------------ MODULE MCSchema ------------------------------
(***************************************************************************)
(* The schema under CREATE, DROP and ALTER.  A behaviour follows one       *)
(* `part':                                                                 *)
(*   "catalog"  four statements with three names: plain, UNIQUE,           *)
(*              generated, referencing and rejected tables                 *)
(*   "rename"   RENAME or DROP COLUMN beside a view and a trigger over     *)
(*              three tables, two of which may have the column             *)
(***************************************************************************)
EXTENDS Naturals, Sequences

VARIABLES part, master, trees, sequence, steps, seen, cols, view, trigger, was, pc

vars == <<part, master, trees, sequence, steps, seen, cols, view, trigger, was, pc>>

-----------------------------------------------------------------------------
(* Tables to create, keys to index, columns to add. *)

Col(n, g, r, d) == [name |-> n, gen |-> g, reads |-> r, dflt |-> d]
P(n) == Col(n, "no", "", 0)
Shape(columns, uniq, refs, pk, autoinc, norowid) ==
  [cols |-> columns, uniq |-> uniq, refs |-> refs, pk |-> pk, autoinc |-> autoinc, norowid |-> norowid]

Shapes ==
  {Shape(<<P("x"), P("y")>>, <<<<"x">>>>, {}, <<>>, FALSE, FALSE),
   Shape(<<P("x"), Col("y", "virtual", "x", 0), P("z")>>, <<>>, {}, <<>>, FALSE, FALSE),
   Shape(<<P("x"), Col("y", "stored", "x", 0)>>, <<<<"y">>>>, {<<"a">>}, <<"x">>, TRUE, FALSE),
   Shape(<<P("x"), Col("y", "virtual", "z", 0), Col("z", "virtual", "y", 0)>>, <<>>, {}, <<>>, FALSE, FALSE),
   Shape(<<P("x"), P("x")>>, <<>>, {}, <<>>, FALSE, FALSE),
   Shape(<<P("x")>>, <<<<"q">>>>, {}, <<>>, FALSE, FALSE),
   Shape(<<P("x")>>, <<>>, {}, <<>>, FALSE, TRUE)}
Keys == {<<"y">>}
Added ==
  {[unique |-> FALSE, notnull |-> FALSE, col |-> Col("z", "no", "", 2)],
   [unique |-> FALSE, notnull |-> TRUE, col |-> Col("z", "no", "", 0)],
   [unique |-> TRUE, notnull |-> FALSE, col |-> P("z")],
   [unique |-> FALSE, notnull |-> FALSE, col |-> Col("z", "virtual", "y", 0)],
   [unique |-> FALSE, notnull |-> FALSE, col |-> Col("z", "virtual", "z", 0)],
   [unique |-> FALSE, notnull |-> FALSE, col |-> Col("z", "stored", "x", 0)]}

-----------------------------------------------------------------------------
(* Views and triggers. *)

E == <<>>
Sel(out, from, on, where, subs, ctes, arms) ==
  [out |-> out, from |-> from, on |-> on, where |-> where, subs |-> subs, ctes |-> ctes, arms |-> arms]
O(q, c, as) == [q |-> q, c |-> c, as |-> as]
C(q, c) == [q |-> q, c |-> c]
T(n, as) == [name |-> n, as |-> as, sub |-> E]
D(v, as) == [name |-> "", as |-> as, sub |-> <<v>>]
Simple(out, from) == Sel(<<out>>, from, E, E, E, E, E)

Outs == {O("", "x", ""), O("", "z", "x"), O("a", "x", ""), O("", "*", ""), O("b", "x", "k")}
Inner == {Simple(o, f) : o \in {O("", "x", ""), O("a", "x", ""), O("b", "x", ""), O("", "z", "x"), O("", "*", ""), O("", "x", "k")},
                         f \in {<<T("a", "")>>, <<T("b", "")>>, <<T("a", "p")>>, <<T("a", ""), T("b", "")>>}}
Views ==
  LET froms == {<<T("a", "")>>, <<T("a", "p")>>, <<T("a", ""), T("b", "")>>, <<T("a", "x"), T("b", "")>>,
                <<T("b", "")>>, <<T("a", ""), T("a", "p")>>}
      wheres == {E, <<C("", "x")>>, <<C("p", "x")>>, <<C("b", "x")>>, <<C("", "y")>>}
  IN  {Sel(<<o>>, f, on, w, E, E, E) : o \in Outs, f \in froms, on \in {E, <<C("", "x")>>}, w \in wheres}
      \cup {Sel(<<o>>, f, E, w, <<s>>, E, E) : o \in Outs, f \in froms \ {<<T("a", "x"), T("b", "")>>},
               w \in {E, <<C("", "x")>>}, s \in Inner}
      \cup {Sel(<<o>>, f, on, E, E, E, E) : o \in {O("", "x", ""), O("d", "x", ""), O("", "k", "")},
               f \in {<<D(s, "d")>> : s \in Inner} \cup {<<D(s, "d"), T("b", "")>> : s \in Inner},
               on \in {E, <<C("", "x")>>}}
      \cup {Sel(<<o>>, f, E, E, E, <<[name |-> "d", cols |-> cs, body |-> s]>>, E) :
               o \in {O("", "x", ""), O("", "k", "")}, f \in {<<T("d", "")>>, <<T("d", ""), T("b", "")>>},
               cs \in {E, <<"x">>, <<"k">>}, s \in {i \in Inner : i.out[1].c # "*"}}
      \cup {Sel(<<o>>, <<T("a", "")>>, E, E, E, E, <<s>>) : o \in Outs, s \in Inner}

Stmt(op, t, cs, refs, subs, sel) ==
  [op |-> op, t |-> t, as |-> "", cols |-> cs, refs |-> refs, subs |-> subs, sel |-> sel]
Triggers ==
  LET sels == {i \in Inner : i.out[1].c # "*"}
      bodies == {Stmt("select", "", E, E, E, <<s>>) : s \in sels}
                \cup {Stmt("insert", t, cs, E, E, <<s>>) : t \in {"a", "b"}, cs \in {E, <<"x">>}, s \in sels}
                \cup {Stmt("insert", t, <<"x">>, <<C("NEW", "x")>>, ss, E) : t \in {"a", "b"}, ss \in {E} \cup {<<s>> : s \in sels}}
                \cup {Stmt("update", t, cs, <<r>>, ss, E) : t \in {"a", "b"}, cs \in {<<"x">>, <<"z">>},
                        r \in {C("", "x"), C("NEW", "x")}, ss \in {E} \cup {<<s>> : s \in sels}}
                \cup {Stmt("delete", t, E, <<r>>, ss, E) : t \in {"a", "b"},
                        r \in {C("", "x"), C("", "z")}, ss \in {E} \cup {<<s>> : s \in sels}}
  IN  {[on |-> on, of |-> h.of, when |-> h.when, subs |-> E, body |-> <<b>>] : on \in {"a", "b"}, b \in bodies,
          h \in {[of |-> E, when |-> E], [of |-> <<"x">>, when |-> <<C("NEW", "x")>>]}}
Schemas == {[a |-> <<"x", "z">>, b |-> <<"x", "y", "z">>], [a |-> <<"x", "z">>, b |-> <<"y", "k">>],
              [a |-> <<"x", "w">>, b |-> <<"k">>]}

-----------------------------------------------------------------------------
Cat == INSTANCE Catalog WITH Names <- {"a", "b", "c"}, MaxSteps <- 4, MaxRows <- 2
Ren == INSTANCE Rename WITH Table <- "a", Old <- "x", New <- "w"

MCInit ==
  \/ part = "catalog" /\ Cat!Init /\ cols = 0 /\ view = 0 /\ trigger = 0 /\ was = 0
       /\ pc = 0
  \/ part = "rename" /\ Ren!Init /\ master = 0 /\ trees = 0 /\ sequence = 0
       /\ steps = 0 /\ seen = 0

MCNext ==
  /\ UNCHANGED part
  /\ \/ part = "catalog" /\ Cat!Next
        /\ UNCHANGED <<cols, view, trigger, was, pc>>
     \/ part = "rename" /\ Ren!Next
        /\ UNCHANGED <<master, trees, sequence, steps, seen>>

MCSpec == MCInit /\ [][MCNext]_vars

-----------------------------------------------------------------------------
\* Whatever was created, renamed, altered or dropped in between, every tree belongs to one
\* schema row and every row has its tree, an index or trigger is on a table that exists,
\* every index holds exactly its table's rows, and a view, trigger or foreign key still
\* names the table it named.
CatalogSound == part = "catalog" => Cat!CatalogSound

\* No schema change loses a row, alters a value of a column that stays or makes a row
\* unreadable (ADD COLUMN's defaults, DROP COLUMN's rewrite of every record), but for ADD
\* COLUMN of a generated column that cannot be computed, which the code accepts.
RowsKept == [][part = "catalog" => Cat!KeepsRows]_vars

\* When RENAME COLUMN succeeds, every name in a view or trigger binds to the column it was
\* bound to before, under its new name; and DROP COLUMN refuses on account of a view or
\* trigger only when a name in it is bound to the column.
RenameKeepsMeaning == part = "rename" => Ren!RenameKeepsMeaning /\ Ren!DropRefusesOnlyUsers

=============================================================================
