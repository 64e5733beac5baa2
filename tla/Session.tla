------------------------------ MODULE Session ------------------------------
(***************************************************************************)
(* The session extension: what a session records of a database's changes,  *)
(* the changeset and patchset it generates, and what can be done with one: *)
(* apply it with a conflict handler, invert it, concatenate two, rebase a  *)
(* local one over a remote one.                                            *)
(*                                                                         *)
(* One table with primary key k and columns a and b; a database maps a key *)
(* to its row.  A change is [op, old, new], each side a record with Omit   *)
(* where the blob has an undefined field.  The order of a changeset, that  *)
(* of the hash buckets, is abstracted to the order of the keys.            *)
(***************************************************************************)
EXTENDS Integers, Sequences, FiniteSets, SequencesExt, FiniteSetsExt

CONSTANTS
  Keys, Vals,   \* values of k, and of a and b
  Bases,        \* databases to start from
  MaxWrites,    \* writes a session records
  Handlers      \* conflict handlers: kind |-> action

Cols == {"k", "a", "b"}
Data == Cols \ {"k"}
Omit == -1
Undefined == -2     \* RField::Undefined and RField::Replaced of a rebase
Replaced == -3
Blank == [c \in Cols |-> Omit]

VARIABLES
  base,     \* the database both sides start from
  side,     \* "local" and "remote": the database and what its session recorded
  handler,  \* the handler of the apply
  unique,   \* whether a is UNIQUE
  phase     \* "local", "remote", "done"

vars == <<base, side, handler, unique, phase>>

Put(f, i, r) == [j \in DOMAIN f \cup {i} |-> IF j = i THEN r ELSE f[j]]
Drop(f, i) == [j \in DOMAIN f \ {i} |-> f[j]]
Ascending(s) == SetToSortSeq(s, <)
Clash(db, r) == unique /\ \E j \in DOMAIN db \ {r.k} : db[j].a = r.a /\ r.a # 0

----------------------------------------------------------------------------
(* Recording and generating *)

\* Mutant of Recorded: the last change to a key counts.
RecordedLast(log, k, op, old) == Put(log, k, [op |-> op, old |-> old])

\* TableChanges::record: only the first change to a key counts.
Recorded(log, k, op, old) == IF k \in DOMAIN log THEN log ELSE Put(log, k, [op |-> op, old |-> old])

\* append_delete, then what parse_changeset makes of it.
AppendDelete(old, patch) ==
  <<[op |-> "delete", old |-> [c \in Cols |-> IF patch /\ c # "k" THEN Omit ELSE old[c]], new |-> Blank]>>

\* append_update: nothing when no column changed.  parse_changeset gives a patchset's
\* update the key of its new side.
AppendUpdate(old, new, patch) ==
  IF old = new THEN <<>>
  ELSE <<[op  |-> "update",
          old |-> [c \in Cols |-> IF c = "k" \/ (~patch /\ old[c] # new[c]) THEN old[c] ELSE Omit],
          new |-> [c \in Cols |-> IF old[c] # new[c] \/ (patch /\ c = "k") THEN new[c] ELSE Omit]]>>

\* serialize_impl: each recorded key, by the row it has now.
Generate(log, db, patch) ==
  LET change(k) ==
        IF log[k].op = "insert"
        THEN IF k \in DOMAIN db THEN <<[op |-> "insert", old |-> Blank, new |-> db[k]]>> ELSE <<>>
        ELSE IF k \in DOMAIN db THEN AppendUpdate(log[k].old, db[k], patch)
             ELSE AppendDelete(log[k].old, patch)
      ks == Ascending(DOMAIN log)
  IN  FlattenSeq([i \in DOMAIN ks |-> change(ks[i])])

\* record_session_change of an UPDATE that moves a row from key i to r.k.
Moved(log, i, old, r) == Recorded(Recorded(log, i, "update", old), r.k, "insert", Blank)

Write(who) ==
  /\ phase = who /\ side[who].n < MaxWrites
  /\ LET db  == side[who].db
         log == side[who].log
         to(d, l) == side' = [side EXCEPT ![who] = [db |-> d, log |-> l, n |-> @.n + 1]]
     IN  \/ \E r \in [k : Keys \ DOMAIN db, a : Vals, b : Vals] :
              ~Clash(db, r) /\ to(Put(db, r.k, r), Recorded(log, r.k, "insert", Blank))
         \/ \E i \in DOMAIN db : \E r \in [k : (Keys \ DOMAIN db) \cup {i}, a : Vals, b : Vals] :
              /\ ~Clash(Drop(db, i), r)
              /\ to(Put(Drop(db, i), r.k, r), Moved(log, i, db[i], r))
         \/ \E i \in DOMAIN db : to(Drop(db, i), Recorded(log, i, "delete", db[i]))
  /\ UNCHANGED <<base, handler, unique, phase>>

\* The session of one side ends; the other side's begins.
EndSession ==
  /\ phase # "done" /\ phase' = IF phase = "local" THEN "remote" ELSE "done"
  /\ UNCHANGED <<base, side, handler, unique>>

----------------------------------------------------------------------------
(* Applying *)

Matches(db, old) == old.k \in DOMAIN db /\ \A c \in Data : old[c] = Omit \/ db[old.k][c] = old[c]
Updated(row, new) == [c \in Cols |-> IF c # "k" /\ new[c] # Omit THEN new[c] ELSE row[c]]

\* The capture closure of apply_one_change: what a resolved conflict adds to the rebase.
Capture(st, c, action) ==
  IF action \notin {"omit", "replace"} THEN st
  ELSE LET use(i) == IF c.op = "delete" \/ (c.op = "update" /\ i = "k") THEN c.old[i] ELSE c.new[i]
       IN  [st EXCEPT !.rebase = Append(@, [op |-> IF c.op = "delete" THEN "delete" ELSE "insert",
                                            replace |-> action = "replace", values |-> [i \in Cols |-> use(i)]])]

Abort(st) == [st EXCEPT !.err = TRUE]

\* A constraint met while a change is forced: the handler is asked again.
Forced(st, c, h, db, ok) ==
  IF ok THEN [st EXCEPT !.db = db]
  ELSE LET seen == Capture(st, c, h.constraint)
       IN  IF h.constraint = "omit" THEN seen ELSE Abort(seen)

ApplyInsert(st, c, h) ==
  LET exists == c.new.k \in DOMAIN st.db
      kind   == IF exists THEN "conflict" ELSE "constraint"
      seen   == Capture(st, c, h[kind])
      rest   == Drop(st.db, c.new.k)
  IN  IF ~exists /\ ~Clash(st.db, c.new) THEN [st EXCEPT !.db = Put(@, c.new.k, c.new)]
      ELSE IF h[kind] = "omit" THEN seen
      ELSE IF h[kind] = "replace" /\ exists
      THEN Forced([seen EXCEPT !.db = rest], c, h, Put(rest, c.new.k, c.new), ~Clash(rest, c.new))
      ELSE Abort(st)

ApplyDelete(st, c, h) ==
  LET kind == IF c.old.k \in DOMAIN st.db THEN "data" ELSE "notfound"
  IN  IF Matches(st.db, c.old) THEN [st EXCEPT !.db = Drop(@, c.old.k)]
      ELSE IF h[kind] = "omit" THEN Capture(st, c, "omit")
      ELSE IF h[kind] = "replace" /\ kind = "data"
      THEN [Capture(st, c, "replace") EXCEPT !.db = Drop(@, c.old.k)]
      ELSE Abort(st)

\* An update that fails a constraint at the first attempt is an error at once.
ApplyUpdate(st, c, h) ==
  LET kind == IF c.old.k \in DOMAIN st.db THEN "data" ELSE "notfound"
      row  == Updated(st.db[c.old.k], c.new)
  IN  IF \A i \in Data : c.new[i] = Omit THEN st
      ELSE IF Matches(st.db, c.old)
      THEN IF Clash(st.db, row) THEN Abort(st) ELSE [st EXCEPT !.db = Put(@, c.old.k, row)]
      ELSE IF h[kind] = "omit" THEN Capture(st, c, "omit")
      ELSE IF h[kind] = "replace" /\ kind = "data"
      THEN Forced(Capture(st, c, "replace"), c, h, Put(st.db, c.old.k, row), ~Clash(st.db, row))
      ELSE Abort(st)

\* apply_one_change
ApplyOneChange(st, c, h) ==
  IF st.err THEN st
  ELSE CASE c.op = "insert" -> ApplyInsert(st, c, h)
         [] c.op = "delete" -> ApplyDelete(st, c, h)
         [] OTHER -> ApplyUpdate(st, c, h)

\* changeset_apply_with, changeset_apply_rebase: all of it in a savepoint.
Apply(db, cs, h) ==
  LET st == FoldLeft(LAMBDA s, c : ApplyOneChange(s, c, h), [db |-> db, err |-> FALSE, rebase |-> <<>>], cs)
  IN  IF st.err THEN [db |-> db, err |-> TRUE, rebase |-> <<>>] ELSE st

----------------------------------------------------------------------------
(* Inverting and concatenating *)

InvertOne(c) ==
  CASE c.op = "insert" -> [op |-> "delete", old |-> c.new, new |-> Blank]
    [] c.op = "delete" -> [op |-> "insert", old |-> Blank, new |-> c.old]
    [] OTHER -> [op |-> "update", old |-> [i \in Cols |-> IF i = "k" THEN c.old[i] ELSE c.new[i]],
                                  new |-> [i \in Cols |-> IF i = "k" THEN Omit ELSE c.old[i]]]

Invert(cs) == [i \in DOMAIN cs |-> InvertOne(cs[i])]

KeyOf(c) == IF c.op = "insert" THEN c.new.k ELSE c.old.k

\* merge_record, merge_value: the second where it is defined.
Over(one, two) == [i \in Cols |-> IF two[i] # Omit THEN two[i] ELSE one[i]]

\* merge_update: nothing when no column differs.
MergeUpdate(old, new) ==
  IF \A i \in Data : old[i] = new[i] THEN <<>>
  ELSE <<[op  |-> "update",
          old |-> [i \in Cols |-> IF i = "k" \/ old[i] # new[i] THEN old[i] ELSE Omit],
          new |-> [i \in Cols |-> IF i # "k" /\ old[i] # new[i] THEN new[i] ELSE Omit]]>>

\* ConcatTable::merge
Merge(e, c) ==
  CASE e.op = "insert" /\ c.op = "delete" -> <<>>
    [] e.op = "insert" /\ c.op = "update" -> <<[e EXCEPT !.new = Over(e.new, c.new)]>>
    [] e.op = "delete" /\ c.op = "insert" -> MergeUpdate(e.old, c.new)
    [] e.op = "update" /\ c.op = "update" -> MergeUpdate(Over(c.old, e.old), Over(e.new, c.new))
    [] e.op = "update" /\ c.op = "delete" -> <<[c EXCEPT !.old = Over(c.old, e.old)]>>
    [] OTHER -> <<e>>

\* ConcatTable::add
AddChange(group, c) ==
  LET k == KeyOf(c)
      m == IF k \in DOMAIN group THEN Merge(group[k], c) ELSE <<c>>
  IN  IF m = <<>> THEN Drop(group, k) ELSE Put(group, k, m[1])

\* concat_absorb of both, then the groups in their order.
Concat(x, y) ==
  LET group == FoldLeft(AddChange, FoldLeft(AddChange, <<>>, x), y)
      ks    == Ascending(DOMAIN group)
  IN  [i \in DOMAIN ks |-> group[ks[i]]]

----------------------------------------------------------------------------
(* Rebasing *)

\* Rebaser::configure of one record: a replaced column is only marked.
RebaseFields(e) ==
  [i \in Cols |-> IF e.values[i] = Omit THEN Undefined
                  ELSE IF e.replace /\ i # "k" THEN Replaced ELSE e.values[i]]

\* merge_into: a later resolution over an earlier one of the same key.
MergeInto(rb, e) ==
  LET k   == e.values.k
      new == [op |-> e.op, replace |-> e.replace, fields |-> RebaseFields(e)]
      old == rb[k]
      field(i) == IF old.fields[i] = Replaced \/ (i # "k" /\ new.replace) THEN Replaced
                  ELSE IF new.fields[i] = Undefined THEN old.fields[i] ELSE new.fields[i]
  IN  IF k \notin DOMAIN rb THEN Put(rb, k, new)
      ELSE IF old.op = "delete" /\ old.replace THEN rb
      ELSE Put(rb, k, [op |-> new.op, replace |-> new.replace \/ old.replace, fields |-> [i \in Cols |-> field(i)]])

Configure(entries) == FoldLeft(MergeInto, <<>>, entries)

Val(f) == IF f \in {Undefined, Replaced} THEN Omit ELSE f

\* emit_partial_update
PartialUpdate(c, fields) ==
  LET old(i) == IF i = "k" \/ fields[i] = Undefined THEN c.old[i]
                ELSE IF fields[i] # Replaced /\ c.old[i] # Omit THEN fields[i] ELSE Omit
  IN  IF \A i \in Data : old(i) = Omit THEN <<>>
      ELSE <<[op |-> "update", old |-> [i \in Cols |-> old(i)],
              new |-> [i \in Cols |-> IF i # "k" /\ fields[i] = Replaced THEN Omit ELSE c.new[i]]]>>

\* rebase_one: the local change c against what was decided for its key.
RebaseOne(c, r) ==
  CASE c.op = "insert" /\ r.op = "insert" ->
         IF r.replace THEN <<>> ELSE <<[op |-> "update", old |-> [i \in Cols |-> Val(r.fields[i])], new |-> c.new]>>
    [] c.op = "update" /\ r.op = "delete" ->
         IF r.replace THEN <<>>
         ELSE <<[op |-> "insert", old |-> Blank,
                 new |-> [i \in Cols |-> IF c.new[i] # Omit THEN c.new[i] ELSE Val(r.fields[i])]]>>
    [] c.op = "update" /\ r.op = "insert" -> PartialUpdate(c, r.fields)
    [] c.op = "delete" /\ r.op = "insert" ->
         <<[c EXCEPT !.old = [i \in Cols |-> IF Val(r.fields[i]) # Omit THEN r.fields[i] ELSE c.old[i]]]>>
    [] c.op = "delete" /\ r.op = "delete" -> <<>>
    [] OTHER -> <<c>>

Rebase(cs, rb) ==
  FlattenSeq([i \in DOMAIN cs |-> IF KeyOf(cs[i]) \in DOMAIN rb THEN RebaseOne(cs[i], rb[KeyOf(cs[i])]) ELSE <<cs[i]>>])

----------------------------------------------------------------------------

Init ==
  /\ base \in Bases /\ handler \in Handlers /\ unique \in BOOLEAN /\ phase = "local"
  /\ unique => \A i, j \in DOMAIN base : base[i].a = base[j].a /\ base[i].a # 0 => i = j
  /\ side = [s \in {"local", "remote"} |-> [db |-> base, log |-> <<>>, n |-> 0]]

Next == Write("local") \/ Write("remote") \/ EndSession

Spec == Init /\ [][Next]_vars

----------------------------------------------------------------------------

Done == phase = "done"
L == Generate(side["local"].log, side["local"].db, FALSE)
R == Generate(side["remote"].log, side["remote"].db, FALSE)
Default == [data |-> "omit", notfound |-> "omit", conflict |-> "abort", constraint |-> "abort"]

\* A changeset, or a patchset, applied to the database its session started from gives
\* the database it ended with, whatever the writes did to a key on the way; its inverse
\* leads back.  The one failure is a UNIQUE value passing from row to row.
Reproduces ==
  Done => LET there == Apply(base, L, Default)
              patch == Apply(base, Generate(side["local"].log, side["local"].db, TRUE), Default)
              back  == Apply(side["local"].db, Invert(L), Default)
          IN  /\ there.err \/ there.db = side["local"].db
              /\ patch.err \/ patch.db = side["local"].db
              /\ back.err \/ back.db = base
              /\ ~unique => ~there.err /\ ~patch.err /\ ~back.err

\* The concatenation of a changeset and one recorded after it does what the two do.
\* The second is the first's inverse with the remote changeset after it.
ConcatComposes ==
  Done /\ ~unique =>
    LET undo == Concat(L, Invert(L))
        both == Concat(Invert(L), R)
    IN  /\ undo = <<>>
        /\ Apply(side["local"].db, both, Default).db = side["remote"].db

\* Rebasing: the remote changes applied over the local ones, conflicts resolved by the
\* handler, give the same rows as the rebased local changes applied over the remote
\* ones.  Omitting a conflicting update omits its other columns too, so then only the
\* columns the local session changed agree.
Converges ==
  Done /\ ~unique =>
    LET here  == Apply(side["local"].db, R, handler)
        there == Apply(side["remote"].db, Rebase(L, Configure(here.rebase)), Default)
        mine(k, c) == k \notin DOMAIN base \/ k \notin DOMAIN side["local"].db
                        \/ base[k][c] # side["local"].db[k][c]
    IN  ~here.err =>
          /\ ~there.err /\ DOMAIN there.db = DOMAIN here.db
          /\ \A k \in DOMAIN here.db : \A c \in Data :
               handler.data = "replace" \/ mine(k, c) => there.db[k][c] = here.db[k][c]
=============================================================================
