----------------------------- MODULE MallocHeap -----------------------------
(***************************************************************************)
(* musl's allocator (mallocng) on top of the port's heap: where it gets    *)
(* the pages for its groups of slots (mmap) and for its own records (brk,  *)
(* remembered in ctx.brk, and mmap when that fails).  The variable maps of *)
(* Heap holds the mmapped groups.  Slots inside a group take no memory of  *)
(* the heap and are left out; a group placed in a slot of another takes    *)
(* only a record, and such groups are counted.                             *)
(***************************************************************************)
EXTENDS Heap, Sequences

CONSTANTS
    MetasPerArea,   \* (4096 - sizeof(struct meta_area)) / sizeof(struct meta)
    NestedBound,    \* bound: groups that live in a slot of another group
    BigLens,        \* requests of MMAP_THRESHOLD bytes or more
    Align           \* 16: what get_meta asserts of every pointer

ASSUME MallocAssumption ==
    /\ MetasPerArea \in Nat \ {0} /\ NestedBound \in Nat
    /\ Align \in Nat \ {0} /\ Page % Align = 0
    /\ Lens \cup BigLens \subseteq Nat \ {0}

VARIABLE ctx    \* struct malloc_context

mvars == <<heap_cur, heap_end, maps, taken, ret, ctx>>

InitCtx ==
    [brk |-> 0,                     \* 0: not asked yet; -1: brk does not work
     avail_meta_areas |-> 0,        \* next page for meta records
     avail_meta_area_count |-> 0,
     avail_meta_count |-> 0,        \* unused records of the last area
     meta_alloc_n |-> 2,            \* 2UL << meta_alloc_shift: pages to map next
     free_metas |-> 0,              \* length of the free_meta_head list
     nested |-> 0,                  \* groups that live in a slot of another
     areas |-> << >>]               \* the meta areas in use, by address

(* Mutant: the bump pointer is not moved.                                  *)
mmap_NoBump(cur, len) ==
    LET p == heap_init(cur)
    IN  IF FALSE \in Exhausted(p, heap_end, RoundUp(len))
        THEN [p |-> p, cur |-> p]
        ELSE [p |-> 0, cur |-> p]

(* Mutant: the length is not rounded up to a page.                         *)
mmap_NoRounding(cur, len) ==
    LET p == heap_init(cur)
    IN  IF FALSE \in Exhausted(p, heap_end, len)
        THEN [p |-> p, cur |-> (p + len) % Wrap]
        ELSE [p |-> 0, cur |-> p]

(* A successful or failed mmap of len bytes: p = 0 is MAP_FAILED.          *)
mmap(cur, len) ==
    LET p == heap_init(cur)
        n == RoundUp(len)
    IN  IF FALSE \in Exhausted(p, heap_end, n)
        THEN [p |-> p, cur |-> (p + n) % Wrap]
        ELSE [p |-> 0, cur |-> p]

-----------------------------------------------------------------------------
(* Where the steps of alloc_meta leave the heap's bump pointer and the     *)
(* context, and whether they got what they wanted.                         *)
Result(cur, c, ok) == [cur |-> cur, ctx |-> c, ok |-> ok]

(* One more page through brk.  The first time a guard page is to be mapped *)
(* over the page below it with MAP_FIXED; the port's mmap bumps instead.   *)
AreaFromBrk(cur, c) ==
    LET first == c.brk = 0
        base == IF first THEN RoundUp(heap_init(cur)) ELSE c.brk
        new == base + (IF first THEN 2 ELSE 1) * Page
    IN  IF brk_to(cur, heap_end, new) # new
        THEN Result(heap_init(cur), [c EXCEPT !.brk = -1], TRUE)
        ELSE Result(IF first THEN mmap(new, Page).cur ELSE new,
                    [c EXCEPT !.brk = new, !.avail_meta_areas = new - Page,
                              !.avail_meta_area_count = 1],
                    TRUE)

AreasFromMmap(cur, c) ==
    LET n == c.meta_alloc_n
        m == mmap(cur, n * Page)
    IN  IF m.p = 0 THEN Result(m.cur, c, FALSE)
        ELSE Result(m.cur, [c EXCEPT !.avail_meta_areas = m.p + Page,
                                     !.avail_meta_area_count = n - 1,
                                     !.meta_alloc_n = 2 * @],
                    TRUE)

FindArea(cur, c) ==
    LET b == IF c.avail_meta_area_count = 0 /\ c.brk # -1 THEN AreaFromBrk(cur, c)
                                                         ELSE Result(cur, c, TRUE)
    IN  IF b.ctx.avail_meta_area_count = 0 THEN AreasFromMmap(b.cur, b.ctx) ELSE b

(* The first record of the new page is the one that is returned.           *)
OpenArea(c) ==
    [c EXCEPT !.areas = Append(@, c.avail_meta_areas),
              !.avail_meta_areas = @ + Page,
              !.avail_meta_area_count = @ - 1,
              !.avail_meta_count = MetasPerArea - 1]

alloc_meta(cur, c) ==
    IF c.free_metas > 0 THEN Result(cur, [c EXCEPT !.free_metas = @ - 1], TRUE)
    ELSE IF c.avail_meta_count > 0 THEN Result(cur, [c EXCEPT !.avail_meta_count = @ - 1], TRUE)
    ELSE LET f == FindArea(cur, c)
         IN  IF f.ok THEN Result(f.cur, OpenArea(f.ctx), TRUE) ELSE f

free_meta(c) == [c EXCEPT !.free_metas = @ + 1]

-----------------------------------------------------------------------------
(* A group of slots in pages of its own: the record first, then the pages. *)
MapGroup(cur, c, len) ==
    LET s == alloc_meta(cur, c)
        m == mmap(s.cur, len)
    IN  IF ~s.ok THEN [cur |-> s.cur, ctx |-> s.ctx, p |-> 0]
        ELSE [cur |-> m.cur, p |-> m.p,
              ctx |-> IF m.p = 0 THEN free_meta(s.ctx) ELSE s.ctx]

Mapped(i, p, len) ==
    IF p = 0 THEN maps ELSE [maps EXCEPT ![i] = [lo |-> p, hi |-> p + len]]

alloc_group(i, len) ==
    LET g == MapGroup(heap_cur, ctx, len)
    IN  /\ i \notin Held
        /\ heap_cur' = g.cur
        /\ ctx' = g.ctx
        /\ maps' = Mapped(i, g.p, len)
        /\ UNCHANGED <<heap_end, taken, ret>>

(* A small group goes into a slot of a larger one: in a slot that is free, *)
(* or in the first slot of a group made for it.                            *)
alloc_group_nested ==
    LET s == alloc_meta(heap_cur, ctx)
    IN  /\ ctx.nested < NestedBound
        /\ heap_cur' = s.cur
        /\ ctx' = IF s.ok THEN [s.ctx EXCEPT !.nested = @ + 1] ELSE s.ctx
        /\ UNCHANGED <<heap_end, maps, taken, ret>>

alloc_group_nested_in(i, len) ==
    LET s == alloc_meta(heap_cur, ctx)
        g == MapGroup(s.cur, s.ctx, len)
    IN  /\ i \notin Held
        /\ s.ok
        /\ ctx.nested < NestedBound
        /\ heap_cur' = g.cur
        /\ ctx' = IF g.p = 0 THEN free_meta(g.ctx) ELSE [g.ctx EXCEPT !.nested = @ + 1]
        /\ maps' = Mapped(i, g.p, len)
        /\ UNCHANGED <<heap_end, taken, ret>>

(* A large request: the pages first, then the record.  Pages for which no  *)
(* record is left are given back to munmap, which does nothing.            *)
malloc_big(i, len) ==
    LET m == mmap(heap_cur, len)
        s == alloc_meta(m.cur, ctx)
    IN  /\ i \notin Held
        /\ IF m.p = 0
           THEN heap_cur' = m.cur /\ UNCHANGED <<ctx, maps>>
           ELSE /\ heap_cur' = s.cur
                /\ ctx' = s.ctx
                /\ maps' = Mapped(i, IF s.ok THEN m.p ELSE 0, len)
        /\ UNCHANGED <<heap_end, taken, ret>>

(* The last slot of a group is freed: its record is kept for reuse, its    *)
(* pages, if it has pages of its own, go to munmap.                        *)
free_group(i) ==
    /\ sys_munmap(i)
    /\ ctx' = free_meta(ctx)

free_group_nested ==
    /\ ctx.nested > 0
    /\ ctx' = [free_meta(ctx) EXCEPT !.nested = @ - 1]
    /\ UNCHANGED vars

MallocInit == Init /\ ctx = InitCtx

MallocNext ==
    \/ \E i \in Ids, len \in Lens : alloc_group(i, len) \/ alloc_group_nested_in(i, len)
    \/ alloc_group_nested
    \/ \E i \in Ids, len \in BigLens : malloc_big(i, len)
    \/ \E i \in Ids : free_group(i)
    \/ free_group_nested

MallocSpec == MallocInit /\ [][MallocNext]_mvars

-----------------------------------------------------------------------------
Apart(lo1, hi1, lo2, hi2) == hi1 <= lo2 \/ hi2 <= lo1

(* No two things the allocator has in use share a byte: groups, large      *)
(* allocations and pages of its own records.  The arena serves brk and     *)
(* mmap at once ("Works, but ...", OPENISSUES.md:71) and memory "is simply *)
(* never reclaimed" (posix_shim.c:44).                                     *)
MallocDisjoint ==
    LET areas == ctx.areas
    IN  /\ MapsDisjoint
        /\ \A k, l \in DOMAIN areas : k # l =>
              Apart(areas[k], areas[k] + Page, areas[l], areas[l] + Page)
        /\ \A i \in Held, k \in DOMAIN areas :
              Apart(maps[i].lo, maps[i].hi, areas[k], areas[k] + Page)

(* Every group starts at a multiple of 16, so that every pointer malloc    *)
(* returns passes get_meta's assert(!((uintptr_t)p & 15)) (meta.h:131).    *)
GroupsAligned == \A i \in Held : maps[i].lo % Align = 0
=============================================================================
