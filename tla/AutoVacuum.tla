----------------------------- MODULE AutoVacuum -----------------------------
(***************************************************************************)
(* Auto-vacuum (write.rs, ptrmap.rs): the allocator that steps over        *)
(* pointer-map pages and the lock-byte page, the pointer map rebuilt at    *)
(* commit, and the truncation that moves pages from the end of the file    *)
(* into free slots, at commit (full) or on request (incremental).          *)
(*                                                                         *)
(* Pages of a tree are nodes with child pages and overflow chains; `id' is *)
(* what the page holds, so that a page can be told when it has moved.      *)
(***************************************************************************)
EXTENDS Pages, FiniteSetsExt

Val == INSTANCE Values

CONSTANTS
  PerMap,      \* pages described by one pointer-map page
  LockPages,   \* numbers the lock-byte page may have, 0: beyond any file
  Limits,      \* arguments of PRAGMA incremental_vacuum
  MaxPages,    \* bound: pages of the file
  MaxOps       \* bound: operations

VARIABLES
  st,        \* pages and freelist, with staged changes
  roots,     \* roots of the tables in sqlite_schema, page 1 apart
  largest,   \* header field largest_root_page, 0: auto-vacuum is off
  mode,      \* "none", "full", "incremental"
  lock,      \* the lock-byte page
  saved,     \* what the last commit left: st, roots, largest
  dirty,     \* something is staged
  ops

vars == <<st, roots, largest, mode, lock, saved, dirty, ops>>

Node(id, kids, ovs) == [t |-> "node", id |-> id, kids |-> kids, ovs |-> ovs]
Overflow(id, next) == [t |-> "ov", id |-> id, next |-> next]

\* ptrmap_pageno and is_ptrmap_page.
PtrmapPageno(p) == ((p - 2) \div (PerMap + 1)) * (PerMap + 1) + 2
IsPtrmapPage(p) == p >= 2 /\ PtrmapPageno(p) = p

\* is_reserved_layout_page, over the pages that the file may grow to.
Reserved(from) ==
  IF largest = 0 THEN {} ELSE {p \in from .. from + 3 : IsPtrmapPage(p) \/ p = lock}

AllocatePage == Allocate(st, Reserved(Count(st) + 1))

----------------------------------------------------------------------------
(* compute_want: what the pointer map should say, as <<page, kind, parent>> *)

\* Overflow pages in the order of their chain.
RECURSIVE Chain(_, _)
Chain(s, o) == IF o = 0 THEN <<>> ELSE <<o>> \o Chain(s, s.page[o].next)

RecordOverflowChain(s, o, holder) ==
  LET c == Chain(s, o)
  IN  {<<c[i], IF i = 1 THEN "overflow1" ELSE "overflow2", IF i = 1 THEN holder ELSE c[i - 1]>> :
         i \in DOMAIN c}

RECURSIVE WalkBtree(_, _)
WalkBtree(s, p) ==
  UNION ({RecordOverflowChain(s, o, p) : o \in Range(s.page[p].ovs)}
         \cup {{<<k, "btree", p>>} \cup WalkBtree(s, k) : k \in Range(s.page[p].kids)})

ComputeWant(s, rs) ==
  UNION {WalkBtree(s, r) : r \in rs \cup {1}}
  \cup {<<r, "root", 0>> : r \in rs} \cup {<<p, "free", 0>> : p \in Range(FreePages(s))}

\* Mutant of RebuildPtrmap: an entry that is there already is kept.
RebuildPtrmapOnce(s, rs) ==
  LET want == ComputeWant(s, rs)
      maps == {PtrmapPageno(w[1]) : w \in want}
      old(m) == IF m <= Count(s) /\ s.page[m].t = "map" THEN s.page[m].ent ELSE <<>>
      new(m) == {w \in want : PtrmapPageno(w[1]) = m}
      ent(m) == [p \in DOMAIN old(m) \cup {w[1] : w \in new(m)} |->
                   IF p \in DOMAIN old(m) THEN old(m)[p] ELSE Tail(CHOOSE w \in new(m) : w[1] = p)]
  IN  [s EXCEPT !.page = [p \in DOMAIN @ |-> IF p \in maps THEN [t |-> "map", ent |-> ent(p)] ELSE @[p]]]

\* rebuild_ptrmap: the entries of all pages in use or free are overwritten.
RebuildPtrmap(s, rs) ==
  LET want == ComputeWant(s, rs)
      maps == {PtrmapPageno(w[1]) : w \in want}
      old(m) == IF m <= Count(s) /\ s.page[m].t = "map" THEN s.page[m].ent ELSE <<>>
      new(m) == {w \in want : PtrmapPageno(w[1]) = m}
      ent(m) == [p \in DOMAIN old(m) \cup {w[1] : w \in new(m)} |->
                   IF \E w \in new(m) : w[1] = p THEN Tail(CHOOSE w \in new(m) : w[1] = p)
                   ELSE old(m)[p]]
  IN  [s EXCEPT !.page = [p \in DOMAIN @ |-> IF p \in maps THEN [t |-> "map", ent |-> ent(p)] ELSE @[p]]]

----------------------------------------------------------------------------
(* autovacuum_truncate *)

Swap(seq, old, new) == [i \in DOMAIN seq |-> IF seq[i] = old THEN new ELSE seq[i]]

\* Mutant of FixReference: a child that moves becomes the last child.
FixReferenceLast(s, kind, holder, old, new) ==
  LET pg == s.page[holder]
  IN  CASE kind = "btree" -> Put(s, holder, [pg EXCEPT !.kids = SelectSeq(@, LAMBDA k : k # old) \o <<new>>])
        [] kind = "overflow1" -> Put(s, holder, [pg EXCEPT !.ovs = Swap(@, old, new)])
        [] OTHER -> Put(s, holder, [pg EXCEPT !.next = new])

\* fix_reference: the one pointer to the moved page, in its holder; an impossible trunk tells of a failure.
FixReference(s, kind, holder, old, new) ==
  LET pg == s.page[holder]
  IN  CASE kind = "btree" /\ pg.t = "node" /\ old \in Range(pg.kids) ->
             Put(s, holder, [pg EXCEPT !.kids = Swap(@, old, new)])
        [] kind = "overflow1" /\ pg.t = "node" /\ old \in Range(pg.ovs) ->
             Put(s, holder, [pg EXCEPT !.ovs = Swap(@, old, new)])
        [] kind = "overflow2" /\ pg.t = "ov" /\ pg.next = old ->
             Put(s, holder, [pg EXCEPT !.next = new])
        [] OTHER -> [s EXCEPT !.trunk = Count(s) + 1]

Resolve(moved, p) == IF p \in DOMAIN moved THEN moved[p] ELSE p

\* From the last page down: v is [st, last, free, moved, failed].
RECURSIVE Sink(_, _, _, _)
Sink(v, want, limit, start) ==
  LET last  == v.last
      slots == {f \in v.free : f < last /\ ~IsPtrmapPage(f) /\ f # lock}
      ent   == {w \in want : w[1] = last}
      w     == CHOOSE x \in ent : TRUE
      dest  == Min(slots)
      fixed == FixReference(Put(Put(v.st, dest, v.st.page[last]), last, Zero), w[2],
                            Resolve((last :> dest) @@ v.moved, w[3]), last, dest)
  IN  IF last <= 1 \/ (limit # 0 /\ start - last >= limit) THEN v
      ELSE IF IsPtrmapPage(last) THEN Sink([v EXCEPT !.last = last - 1], want, limit, start)
      ELSE IF last = lock THEN v
      ELSE IF last \in v.free
      THEN Sink([v EXCEPT !.last = last - 1, !.free = @ \ {last}], want, limit, start)
      ELSE IF slots = {} THEN v
      ELSE IF ent = {} THEN [v EXCEPT !.failed = TRUE]
      ELSE IF w[2] = "root" THEN v
      ELSE IF fixed.trunk > Count(v.st) THEN [v EXCEPT !.failed = TRUE]
      ELSE Val!Given([v EXCEPT !.st = fixed, !.last = last - 1, !.free = @ \ {dest},
                           !.moved = (last :> dest) @@ @],
                 LAMBDA n : Sink(n, want, limit, start))

\* The free pages that are left are freed again, lowest first; a failure leaves
\* everything as it was.
AutovacuumTruncate(s, rs, limit) ==
  LET free == Range(FreePages(s))
  IN  IF free = {} THEN s
      ELSE Val!Given(Sink([st |-> [s EXCEPT !.trunk = 0, !.nfree = 0], last |-> Count(s), free |-> free,
                       moved |-> <<>>, failed |-> FALSE],
                      ComputeWant(s, rs), limit, Count(s)), LAMBDA v :
             IF v.failed THEN s
             ELSE LET left == SetToSortSeq({p \in v.free : p <= v.last}, <)
                      st2  == FoldLeft(Free, v.st, left)
                  IN  [st2 EXCEPT !.page = SubSeq(@, 1, v.last)])

----------------------------------------------------------------------------
(* The b-tree's use of the allocator, and the transactions around it *)

Tree == UNION {{r} \cup {w[1] : w \in {x \in WalkBtree(st, r) : x[2] = "btree"}} : r \in roots \cup {1}}
OverflowPages == UNION {UNION {Range(Chain(st, o)) : o \in Range(st.page[p].ovs)} : p \in Tree}

Step == ops < MaxOps /\ ops' = ops + 1 /\ UNCHANGED <<mode, lock>>
Stage(s) == st' = s /\ dirty' = TRUE /\ UNCHANGED <<largest, saved>>
Grows == AllocatePage.page <= MaxPages

\* create_table_root, create_index_root.
CreateRoot == Step /\ Grows /\ LET a == AllocatePage IN
                roots' = roots \cup {a.page} /\ Stage(Put(a.st, a.page, Node(ops, <<>>, <<>>)))

\* A page added below an interior page, or an overflow page to a node or a chain.
AddChild == Step /\ Grows /\ UNCHANGED roots /\ LET a == AllocatePage IN \E p \in Tree \ {1} :
              Stage(Put(Put(a.st, a.page, Node(ops, <<>>, <<>>)), p,
                        [st.page[p] EXCEPT !.kids = Append(@, a.page)]))

AddOverflow == Step /\ Grows /\ UNCHANGED roots /\ LET a == AllocatePage IN
  \/ \E p \in Tree : Stage(Put(Put(a.st, a.page, Overflow(ops, 0)), p,
                               [st.page[p] EXCEPT !.ovs = Append(@, a.page)]))
  \/ \E o \in OverflowPages :
       st.page[o].next = 0 /\ Stage(Put(Put(a.st, a.page, Overflow(ops, 0)), o,
                                        [st.page[o] EXCEPT !.next = a.page]))

\* A chain given back by the deletion of its row.
DropOverflow == Step /\ UNCHANGED roots /\ \E p \in Tree : \E o \in Range(st.page[p].ovs) :
  Stage(FoldLeft(Free, Put(st, p, [st.page[p] EXCEPT !.ovs = SelectSeq(@, LAMBDA x : x # o)]), Chain(st, o)))

\* DROP TABLE: chains and children before their page.
RECURSIVE FreeTree(_, _)
FreeTree(s, p) ==
  LET pg == s.page[p]
      chains == FoldLeft(LAMBDA a, o : FoldLeft(Free, a, Chain(s, o)), s, pg.ovs)
  IN  Free(FoldLeft(FreeTree, chains, pg.kids), p)

DropRoot == Step /\ \E r \in roots : roots' = roots \ {r} /\ Stage(FreeTree(st, r))

\* commit and commit_wal.
Commit ==
  /\ Step /\ dirty /\ dirty' = FALSE /\ UNCHANGED roots
  /\ LET s == IF mode = "full" THEN AutovacuumTruncate(st, roots, 0) ELSE st
     IN  IF largest = 0 THEN st' = s /\ largest' = 0
         ELSE st' = RebuildPtrmap(s, roots) /\ largest' = Max(roots \cup {1})
  /\ saved' = [st |-> st', roots |-> roots, largest |-> largest']

\* rollback.
Rollback == /\ Step /\ dirty /\ dirty' = FALSE
            /\ st' = saved.st /\ roots' = saved.roots /\ largest' = saved.largest /\ UNCHANGED saved

\* PRAGMA incremental_vacuum(n): 0 or less means all.
IncrementalVacuum == Step /\ mode = "incremental" /\ UNCHANGED roots /\ \E n \in Limits :
                       Stage(AutovacuumTruncate(st, roots, n))

Next == CreateRoot \/ AddChild \/ AddOverflow \/ DropOverflow \/ DropRoot
          \/ Commit \/ Rollback \/ IncrementalVacuum

Start(s, rs, free) ==
  /\ st = s /\ roots = rs /\ ops = MaxOps - free /\ dirty = FALSE
  /\ saved = [st |-> s, roots |-> rs, largest |-> largest]

\* create_auto_vacuum: one empty page.
Created == [page |-> <<Node(0, <<>>, <<>>)>>, trunk |-> 0, nfree |-> 0]

\* A file in use: a root with two children and a chain, one child with a chain, and a
\* second root among them, as commits have laid them out.
InUse ==
  LET body == (1 :> Node(0, <<>>, <<>>)) @@ (3 :> Node(0, <<9, 5>>, <<4>>)) @@ (4 :> Overflow(1, 0))
                @@ (5 :> Node(2, <<>>, <<7>>)) @@ (7 :> Overflow(3, 11)) @@ (8 :> Node(4, <<>>, <<>>))
                @@ (9 :> Node(5, <<>>, <<>>)) @@ (11 :> Overflow(6, 0))
  IN  [page |-> [p \in 1 .. 11 |-> IF p \in DOMAIN body THEN body[p] ELSE Zero], trunk |-> 0, nfree |-> 0]

Init ==
  \/ /\ mode \in {"none", "full", "incremental"} /\ largest = (IF mode = "none" THEN 0 ELSE 1)
     /\ lock \in LockPages /\ Start(Created, {}, MaxOps - 1)
  \/ /\ mode \in {"full", "incremental"} /\ largest = 8 /\ lock = 0
     /\ Start(RebuildPtrmap(InUse, {3, 8}), {3, 8}, MaxOps - 2)

Spec == Init /\ [][Next]_vars

----------------------------------------------------------------------------
(* Properties *)

TypeOK ==
  /\ st.nfree \in 0 .. Count(st) /\ st.trunk \in 0 .. Count(st) /\ Count(st) <= MaxPages
  /\ roots \subseteq 2 .. Count(st) /\ largest \in 0 .. MaxPages

\* Every page of the file is a tree page, a free page, a pointer-map page or the
\* lock-byte page, and only one of these; without auto-vacuum there are no maps.
EachPageOnce ==
  LET maps == {p \in 1 .. Count(st) : largest # 0 /\ (IsPtrmapPage(p) \/ p = lock)}
      want == ComputeWant(st, roots)
  IN  /\ {w[1] : w \in want} = (2 .. Count(st)) \ maps
      /\ Cardinality(want) = Cardinality({w[1] : w \in want})
      /\ st.nfree = Cardinality({w \in want : w[2] = "free"})

\* After a commit the pointer map on disk says of every page what the trees and the
\* freelist say, and the header names the largest root.
PtrmapTrue ==
  ~dirty /\ largest # 0 =>
    /\ largest = Max(roots \cup {1})
    /\ \A w \in ComputeWant(st, roots) : LET m == st.page[PtrmapPageno(w[1])] IN
         m.t = "map" /\ w[1] \in DOMAIN m.ent /\ m.ent[w[1]] = Tail(w)

RECURSIVE Shape(_, _)
Shape(s, p) == <<s.page[p].id,
                 [i \in DOMAIN s.page[p].kids |-> Shape(s, s.page[p].kids[i])],
                 [i \in DOMAIN s.page[p].ovs |->
                    LET c == Chain(s, s.page[p].ovs[i]) IN [j \in DOMAIN c |-> s.page[c[j]].id]]>>

\* Commit and incremental_vacuum move pages, but every tree keeps its root page and
\* what can be reached from it, in the same places.
VacuumKeepsTrees ==
  [][Commit \/ IncrementalVacuum => \A r \in roots \cup {1} : Shape(st', r) = Shape(st, r)]_vars

=============================================================================
