----------------------------- MODULE HeapProofs -----------------------------
(***************************************************************************)
(* Proofs about Heap, for every arena, page size and set of requests, and  *)
(* about musl's allocator on top of it (MallocHeap): nothing that mallocng *)
(* has in use overlaps while one page of its records is enough, which it   *)
(* is for as many groups as a page has records, and its groups are aligned *)
(* when the heap starts aligned.                                           *)
(***************************************************************************)
EXTENDS MallocHeap, FiniteSetTheorems, TLAPS

(* sys_mmap's rounding up to a page never shortens a request.              *)
LEMMA RoundUpCovers ==
    ASSUME NEW n \in Nat
    PROVE  RoundUp(n) \in Nat /\ n <= RoundUp(n)
<1>1. Page \in Nat /\ Page > 0
  BY HeapAssumption
<1> DEFINE q == (n + Page - 1) \div Page
<1>2. q \in Int /\ q * Page <= n + Page - 1 /\ n + Page - 1 < q * Page + Page
  BY <1>1
<1>3. q * Page \in Int
  BY <1>2, <1>1
<1>4. QED
  BY <1>1, <1>2, <1>3 DEF RoundUp

(* A number below the modulus is its own remainder.                        *)
LEMMA SmallMod ==
    ASSUME NEW x \in Nat, NEW w \in Nat, x < w
    PROVE  x % w = x
  BY SMT

(* When the sum does not wrap, heap_alloc's test is the one it is meant to *)
(* be: the request is refused exactly when it does not fit.                *)
LEMMA ExhaustedIsPlain ==
    ASSUME NEW e \in HeapEnds, NEW p \in Nat, p <= e, NEW n \in Nat, e + n < Wrap
    PROVE  /\ (p + n) % Wrap = p + n
           /\ Exhausted(p, e, n) = {p + n > e}
<1>1. e \in Nat /\ Wrap \in Nat /\ e < Wrap
  BY HeapAssumption
<1>3. p + n < Wrap
  BY <1>1
<1>4. (p + n) % Wrap = p + n
  BY <1>1, <1>3, SmallMod
<1>5. CASE p + n > e
  <2>1. Exhausted(p, e, n) = {TRUE}
    BY <1>4, <1>5, Zenon DEF Exhausted
  <2>2. (p + n > e) = TRUE
    BY <1>5
  <2>3. QED
    BY <2>1, <2>2, <1>3, <1>4, Zenon
<1>6. CASE ~(p + n > e)
  <2>1. Exhausted(p, e, n) = {FALSE}
    BY <1>3, <1>4, <1>6, Zenon DEF Exhausted
  <2>2. (p + n > e) = FALSE
    BY <1>6
  <2>3. QED
    BY <2>1, <2>2, <1>3, <1>4, Zenon
<1>7. QED
  BY <1>5, <1>6

(* What a granted request does, when no sum wraps.                         *)
LEMMA GrantFits ==
    ASSUME NoWrap, TypeOK, WithinArena, NEW i \in Ids, NEW len \in Lens, MmapGrants(i, len)
    PROVE  LET p == heap_init(heap_cur)
           IN  /\ p \in Nat /\ BssStop <= p /\ heap_cur <= p
               /\ len \in Nat /\ len > 0
               /\ heap_cur' \in Nat
               /\ p + len <= heap_cur'
               /\ heap_cur' <= heap_end
               /\ maps' = [maps EXCEPT ![i] = [lo |-> p, hi |-> p + len]]
               /\ heap_end' = heap_end
               /\ ret' = p
<1> DEFINE p == heap_init(heap_cur)
<1>1. heap_end \in HeapEnds /\ heap_end \in Nat /\ BssStop \in Nat /\ BssStop <= heap_end
  BY HeapAssumption DEF TypeOK
<1>2. p \in Nat /\ BssStop <= p /\ p <= heap_end /\ heap_cur <= p
  BY <1>1 DEF TypeOK, WithinArena, heap_init
<1>3. len \in Nat /\ len > 0
  BY HeapAssumption DEF MmapGrants
<1>4. RoundUp(len) \in Nat /\ len <= RoundUp(len)
  BY <1>3, RoundUpCovers
<1>5. /\ (p + RoundUp(len)) % Wrap = p + RoundUp(len)
      /\ Exhausted(p, heap_end, RoundUp(len)) = {p + RoundUp(len) > heap_end}
  <2>1. heap_end + RoundUp(len) < Wrap
    BY <1>1 DEF NoWrap
  <2>2. QED
    BY <1>1, <1>2, <1>4, <2>1, ExhaustedIsPlain
<1>6. ~(p + RoundUp(len) > heap_end)
  BY <1>5, Zenon DEF MmapGrants
<1>7. heap_cur' = p + RoundUp(len)
  BY <1>5 DEF MmapGrants
<1>8. p + len <= heap_cur' /\ heap_cur' <= heap_end /\ heap_cur' \in Nat
  BY <1>1, <1>2, <1>3, <1>4, <1>6, <1>7
<1>9. QED
  BY <1>2, <1>3, <1>8 DEF MmapGrants

-----------------------------------------------------------------------------
(* Types and arena bounds, for every program, one that lowers the break    *)
(* included.                                                               *)

ArenaInv == TypeOK /\ WithinArena

(* The heap starts in its arena.                                           *)
LEMMA ArenaInit == Init => ArenaInv
  BY HeapAssumption DEF Init, ArenaInv, TypeOK, WithinArena, Held, NoMap

(* Every call keeps the heap in its arena when no sum wraps.               *)
LEMMA ArenaStep ==
    ASSUME NoWrap, ArenaInv, [Next]_vars
    PROVE  ArenaInv'
<1> USE HeapAssumption
<1>0. TypeOK /\ WithinArena /\ heap_end \in Nat /\ BssStop <= heap_end
  BY DEF ArenaInv, TypeOK
<1>1. ASSUME NEW addr \in Addrs, sys_brk(addr)
      PROVE  ArenaInv'
  BY <1>0, <1>1 DEF sys_brk, brk_to, heap_init, ArenaInv, TypeOK, WithinArena, Held
<1>2. ASSUME NEW len \in Lens, NEW anonymous \in BOOLEAN, MmapRefused(len, anonymous)
      PROVE  ArenaInv'
  BY <1>0, <1>2 DEF MmapRefused, ArenaInv, TypeOK, WithinArena, Held, ENODEV
<1>3. ASSUME NEW len \in Lens, MmapFails(len)
      PROVE  ArenaInv'
  BY <1>0, <1>3 DEF MmapFails, heap_init, ArenaInv, TypeOK, WithinArena, Held, ENOMEM
<1>4. ASSUME NEW i \in Ids, NEW len \in Lens, MmapGrants(i, len)
      PROVE  ArenaInv'
  <2> DEFINE p == heap_init(heap_cur)
  <2>1. /\ p \in Nat /\ BssStop <= p /\ len \in Nat /\ len > 0
        /\ heap_cur' \in Nat /\ p + len <= heap_cur' /\ heap_cur' <= heap_end
        /\ maps' = [maps EXCEPT ![i] = [lo |-> p, hi |-> p + len]]
        /\ heap_end' = heap_end /\ taken' = taken /\ ret' = p
    BY <1>0, <1>4, GrantFits, Zenon DEF MmapGrants
  <2>2. TypeOK'
    BY <1>0, <2>1 DEF TypeOK
  <2>3. WithinArena'
    BY <1>0, <2>1 DEF TypeOK, WithinArena, Held
  <2>4. QED
    BY <2>2, <2>3 DEF ArenaInv
<1>5. ASSUME NEW i \in Ids, sys_munmap(i)
      PROVE  ArenaInv'
  BY <1>0, <1>5 DEF sys_munmap, ArenaInv, TypeOK, WithinArena, Held, NoMap
<1>6. CASE UNCHANGED vars
  BY <1>0, <1>6 DEF vars, ArenaInv, TypeOK, WithinArena, Held
<1>7. QED
  BY <1>1, <1>2, <1>3, <1>4, <1>5, <1>6 DEF Next

(* As long as no request is long enough to wrap the pointer, sys_brk and   *)
(* sys_mmap keep the bump pointer and every mapping between the end of     *)
(* .bss and the end of RAM, whatever addresses the program asks for.       *)
THEOREM ArenaSafe == ASSUME NoWrap PROVE Spec => []WithinArena
<1>1. ASSUME ArenaInv, [Next]_vars PROVE ArenaInv'
  BY <1>1, ArenaStep
<1>2. ArenaInv => WithinArena
  BY DEF ArenaInv
<1>3. QED
  BY ArenaInit, <1>1, <1>2, PTL DEF Spec

(* Under the same condition every variable keeps its type: no address, and *)
(* no end of a mapping, that sys_brk or sys_mmap stores is negative.       *)
THEOREM HeapTypeOK == ASSUME NoWrap PROVE Spec => []TypeOK
<1>1. ASSUME ArenaInv, [Next]_vars PROVE ArenaInv'
  BY <1>1, ArenaStep
<1>2. ArenaInv => TypeOK
  BY DEF ArenaInv
<1>3. QED
  BY ArenaInit, <1>1, <1>2, PTL DEF Spec

-----------------------------------------------------------------------------
(* Disjointness.  It is inductive only together with the fact that every   *)
(* mapping the break was not lowered into lies below the bump pointer.     *)

MapsBelow == \A i \in Held \ taken : maps[i].hi <= heap_cur
DisjointInv == ArenaInv /\ MapsBelow /\ MapsDisjoint

(* Nothing is held at the start.                                           *)
LEMMA DisjointInit == Init => DisjointInv
<1>1. Init => Held = {}
  BY DEF Init, Held
<1>2. QED
  BY <1>1, ArenaInit DEF DisjointInv, MapsBelow, MapsDisjoint

(* If no sum wraps, every call keeps the mappings the break was not        *)
(* lowered into disjoint and below the bump pointer.                       *)
LEMMA DisjointStep ==
    ASSUME NoWrap, DisjointInv, [Next]_vars
    PROVE  DisjointInv'
<1> USE HeapAssumption
<1>0. /\ TypeOK /\ WithinArena /\ MapsBelow /\ MapsDisjoint /\ ArenaInv
      /\ heap_end \in Nat /\ BssStop <= heap_end
  BY DEF DisjointInv, ArenaInv, TypeOK
<1>a. ArenaInv'
  BY <1>0, ArenaStep
<1>b. TypeOK'
  BY <1>a DEF ArenaInv
<1>1. ASSUME maps' = maps, taken' = taken, heap_cur <= heap_cur'
      PROVE  MapsBelow' /\ MapsDisjoint'
  BY <1>0, <1>1, <1>b DEF MapsBelow, MapsDisjoint, Held, TypeOK
<1>2. ASSUME NEW addr \in Addrs, sys_brk(addr)
      PROVE  MapsBelow' /\ MapsDisjoint'
  <2>1. /\ maps' = maps /\ Held' = Held
        /\ taken' = taken \cup {i \in Held : maps[i].hi > heap_cur'}
    BY <1>2 DEF sys_brk, Held
  <2>2. heap_cur' \in Nat /\ \A i \in Held : maps[i].hi \in Nat
    BY <1>0, <1>b DEF TypeOK, Held
  <2>3. MapsBelow'
    BY <2>1, <2>2 DEF MapsBelow
  <2>4. MapsDisjoint'
    BY <1>0, <2>1 DEF MapsDisjoint
  <2>5. QED
    BY <2>3, <2>4
<1>3. ASSUME NEW len \in Lens, NEW anonymous \in BOOLEAN, MmapRefused(len, anonymous)
      PROVE  MapsBelow' /\ MapsDisjoint'
  BY <1>0, <1>1, <1>3 DEF MmapRefused, TypeOK
<1>4. ASSUME NEW len \in Lens, MmapFails(len)
      PROVE  MapsBelow' /\ MapsDisjoint'
  BY <1>0, <1>1, <1>4 DEF MmapFails, heap_init, TypeOK
<1>5. ASSUME NEW i \in Ids, NEW len \in Lens, MmapGrants(i, len)
      PROVE  MapsBelow' /\ MapsDisjoint'
  <2> DEFINE p == heap_init(heap_cur)
  <2>1. /\ p \in Nat /\ heap_cur <= p /\ len \in Nat /\ len > 0
        /\ heap_cur' \in Nat /\ p + len <= heap_cur'
        /\ maps' = [maps EXCEPT ![i] = [lo |-> p, hi |-> p + len]]
        /\ taken' = taken
    BY <1>0, <1>5, GrantFits, Zenon DEF MmapGrants
  <2>2. maps'[i].lo = p /\ maps'[i].hi = p + len
    BY <1>0, <2>1 DEF TypeOK
  <2>3. \A j \in (Held \ taken)' : j # i => j \in Held \ taken /\ maps'[j] = maps[j]
    BY <1>0, <2>1 DEF TypeOK, Held
  <2>4. \A j \in Held \ taken : maps[j].lo \in Nat /\ maps[j].hi \in Nat /\ maps[j].hi <= p
    BY <1>0, <2>1 DEF TypeOK, Held, MapsBelow
  <2>5. MapsBelow'
    <3>1. \A j \in (Held \ taken)' : maps'[j].hi <= heap_cur'
      <4> TAKE j \in (Held \ taken)'
      <4>1. CASE j = i
        BY <4>1, <2>1, <2>2
      <4>2. CASE j # i
        <5>1. maps'[j].hi = maps[j].hi /\ maps[j].hi \in Nat /\ maps[j].hi <= p
          BY <4>2, <2>3, <2>4
        <5>2. QED
          BY <5>1, <2>1
      <4>3. QED
        BY <4>1, <4>2
    <3>2. QED
      BY <3>1 DEF MapsBelow
  <2>6. MapsDisjoint'
    <3>1. \A j, k \in (Held \ taken)' : j # k =>
              maps'[j].hi <= maps'[k].lo \/ maps'[k].hi <= maps'[j].lo
      <4> TAKE j, k \in (Held \ taken)'
      <4>1. CASE j # i /\ k # i
        BY <4>1, <2>3, <1>0 DEF MapsDisjoint
      <4>2. CASE j = i /\ k # i
        BY <4>2, <2>2, <2>3, <2>4
      <4>3. CASE j # i /\ k = i
        BY <4>3, <2>2, <2>3, <2>4
      <4>4. QED
        BY <4>1, <4>2, <4>3
    <3>2. QED
      BY <3>1 DEF MapsDisjoint
  <2>7. QED
    BY <2>5, <2>6
<1>6. ASSUME NEW i \in Ids, sys_munmap(i)
      PROVE  MapsBelow' /\ MapsDisjoint'
  <2>1. /\ heap_cur' = heap_cur /\ (Held \ taken)' \subseteq Held \ taken
        /\ \A j \in Held' : maps'[j] = maps[j]
    BY <1>0, <1>6 DEF sys_munmap, Held, TypeOK
  <2>2. QED
    BY <1>0, <2>1 DEF MapsBelow, MapsDisjoint
<1>7. ASSUME UNCHANGED vars
      PROVE  MapsBelow' /\ MapsDisjoint'
  BY <1>0, <1>7, <1>1 DEF vars, TypeOK
<1>8. MapsBelow' /\ MapsDisjoint'
  BY <1>2, <1>3, <1>4, <1>5, <1>6, <1>7 DEF Next
<1>9. QED
  BY <1>a, <1>8 DEF DisjointInv

(* As long as no request wraps, sys_brk and sys_mmap can share the arena:  *)
(* no byte is ever held twice, but for mappings into which the program     *)
(* itself has lowered the break.                                           *)
THEOREM MapsAreDisjoint == ASSUME NoWrap PROVE Spec => []MapsDisjoint
<1>1. ASSUME DisjointInv, [Next]_vars PROVE DisjointInv'
  BY <1>1, DisjointStep
<1>2. DisjointInv => MapsDisjoint
  BY DEF DisjointInv
<1>3. QED
  BY DisjointInit, <1>1, <1>2, PTL DEF Spec

-----------------------------------------------------------------------------
(* musl's allocator.                                                       *)

(* No group, large allocation or first page of records wraps the pointer.  *)
MallocNoWrap ==
    \A e \in HeapEnds, len \in Lens \cup BigLens \cup {Page, 2 * Page} : e + RoundUp(len) < Wrap

-----------------------------------------------------------------------------
(* Types.                                                                  *)

Fields == {"brk", "avail_meta_areas", "avail_meta_area_count", "avail_meta_count",
           "meta_alloc_n", "free_metas", "nested", "areas"}

(* A struct malloc_context.                                                *)
IsCtx(c) ==
    /\ DOMAIN c = Fields
    /\ c.brk \in Int /\ c.avail_meta_areas \in Int /\ c.avail_meta_area_count \in Int
    /\ c.avail_meta_count \in Nat /\ c.meta_alloc_n \in Nat
    /\ c.free_metas \in Nat /\ c.nested \in Nat
    /\ c.areas \in Seq(Int)

(* Before the first page of records there is nothing that needs one.       *)
Fresh(c) ==
    c.areas = << >> => /\ c.avail_meta_area_count = 0 /\ c.avail_meta_count = 0
                       /\ c.free_metas = 0 /\ c.nested = 0
                       /\ c.brk \in {0, -1} /\ c.meta_alloc_n = 2

(* The heap's pointers are natural numbers, and the pages are not empty.   *)
LEMMA Sizes ==
    ASSUME heap_end \in HeapEnds
    PROVE  /\ heap_end \in Nat /\ Wrap \in Nat \ {0} /\ Page \in Nat \ {0}
           /\ BssStop \in Nat \ {0} /\ BssStop <= heap_end
  BY HeapAssumption

(* heap_init.                                                              *)
LEMMA InitIsNat ==
    ASSUME heap_end \in HeapEnds, NEW cur \in Nat
    PROVE  heap_init(cur) \in Nat \ {0} /\ cur <= heap_init(cur)
  BY Sizes DEF heap_init

(* The heap is set up once.                                                *)
LEMMA InitTwice ==
    ASSUME heap_end \in HeapEnds, NEW cur \in Nat, NEW x \in {cur, heap_init(cur)}
    PROVE  heap_init(x) = heap_init(cur)
  BY Sizes DEF heap_init

(* A remainder is a natural number.                                        *)
LEMMA ModIsNat ==
    ASSUME NEW x \in Int, NEW w \in Nat \ {0}
    PROVE  x % w \in Nat
  OBVIOUS

(* mmap gives addresses.                                                   *)
LEMMA MmapTypes ==
    ASSUME heap_end \in HeapEnds, NEW cur \in Nat, NEW len \in Nat
    PROVE  /\ mmap(cur, len).cur \in Nat
           /\ mmap(cur, len).p = 0 \/ mmap(cur, len).p = heap_init(cur)
           /\ mmap(cur, len).p \in Nat
           /\ mmap(cur, len).p = 0 => mmap(cur, len).cur = heap_init(cur)
<1>1. heap_init(cur) \in Nat /\ RoundUp(len) \in Nat /\ heap_init(cur) # 0
  BY InitIsNat, RoundUpCovers
<1>2. (heap_init(cur) + RoundUp(len)) % Wrap \in Nat
  BY <1>1, Sizes, ModIsNat
<1>3. QED
  BY <1>1, <1>2, Zenon DEF mmap

(* What d keeps of c when alloc_meta looks for a page.                     *)
Keeps(c, d) ==
    /\ d.areas = c.areas /\ d.nested = c.nested /\ d.free_metas = c.free_metas
    /\ d.avail_meta_count = c.avail_meta_count

(* The break that alloc_meta asks for.                                     *)
Wanted(cur, c) ==
    IF c.brk = 0 THEN RoundUp(heap_init(cur)) + 2 * Page ELSE c.brk + Page

(* r is what brk has left of cur and c: there is a page, or brk is given   *)
(* up.                                                                     *)
BrkGives(cur, c, new, r) ==
    /\ r.cur \in Nat /\ IsCtx(r.ctx) /\ r.ok = TRUE
    /\ Keeps(c, r.ctx) /\ r.ctx.meta_alloc_n = c.meta_alloc_n
    /\ \/ /\ r.ctx.brk = -1 /\ r.cur = heap_init(cur)
          /\ r.ctx.avail_meta_area_count = c.avail_meta_area_count
          /\ r.ctx.avail_meta_areas = c.avail_meta_areas
       \/ /\ new \in Nat /\ brk_to(cur, heap_end, new) = new
          /\ r.ctx.brk = new /\ r.ctx.avail_meta_areas = new - Page
          /\ r.ctx.avail_meta_area_count = 1
          /\ r.cur = IF c.brk = 0 THEN mmap(new, Page).cur ELSE new

(* r is what mmap, having given m, has left of cur and c.                  *)
MmapGives(cur, c, m, r) ==
    /\ r.cur \in Nat /\ IsCtx(r.ctx) /\ Keeps(c, r.ctx) /\ r.cur = m.cur
    /\ \/ r.ok = FALSE /\ r.ctx = c /\ m.p = 0 /\ m.cur = heap_init(cur)
       \/ /\ r.ok = TRUE /\ m.p # 0 /\ r.ctx.brk = c.brk
          /\ r.ctx.avail_meta_areas = m.p + Page
          /\ r.ctx.avail_meta_area_count = c.meta_alloc_n - 1

(* r is what the search for a page has left of c.                          *)
FindGives(cur, c, r) ==
    /\ r.cur \in Nat /\ IsCtx(r.ctx) /\ r.ok \in BOOLEAN /\ Keeps(c, r.ctx)
    /\ r.ok = FALSE => /\ r.cur = heap_init(cur)
                       /\ r.ctx.avail_meta_area_count = 0
                       /\ r.ctx.meta_alloc_n = c.meta_alloc_n
                       /\ r.ctx.brk \in {c.brk, -1}

(* A page of records through brk.                                          *)
LEMMA BrkTypes ==
    ASSUME heap_end \in HeapEnds, NEW cur \in Nat, NEW c, IsCtx(c)
    PROVE  BrkGives(cur, c, Wanted(cur, c), AreaFromBrk(cur, c))
<1>0. PICK r, new : r = AreaFromBrk(cur, c) /\ new = Wanted(cur, c)
  OBVIOUS
<1> SUFFICES BrkGives(cur, c, new, r)
  BY <1>0
<1>1. heap_init(cur) \in Nat /\ c.brk \in Int
  BY InitIsNat, Zenon DEF IsCtx
<1>2. RoundUp(heap_init(cur)) \in Nat
  BY <1>1, RoundUpCovers
<1>3. new \in Int
  BY <1>0, <1>1, <1>2, Sizes DEF Wanted
<1>4. new = (IF c.brk = 0 THEN RoundUp(heap_init(cur)) ELSE c.brk) + (IF c.brk = 0 THEN 2 ELSE 1) * Page
  BY <1>0, <1>1, <1>2, <1>3, Sizes DEF Wanted
<1>5. CASE brk_to(cur, heap_end, new) # new
  <2>1. r = Result(heap_init(cur), [c EXCEPT !.brk = -1], TRUE)
    BY <1>0, <1>4, <1>5 DEF AreaFromBrk
  <2>2. PICK d : d = [c EXCEPT !.brk = -1]
    BY Zenon
  <2>3. /\ IsCtx(d) /\ Keeps(c, d) /\ d.meta_alloc_n = c.meta_alloc_n /\ d.brk = -1
        /\ d.avail_meta_area_count = c.avail_meta_area_count
        /\ d.avail_meta_areas = c.avail_meta_areas
    BY <2>2 DEF IsCtx, Fields, Keeps
  <2>4. r.cur = heap_init(cur) /\ r.ctx = d /\ r.ok = TRUE
    BY <2>1, <2>2 DEF Result
  <2>5. QED
    BY <1>1, <2>3, <2>4 DEF BrkGives
<1>6. CASE brk_to(cur, heap_end, new) = new
  <2>1. new \in Nat
    BY <1>1, <1>3, <1>6, Sizes, InitIsNat DEF brk_to
  <2>2. mmap(new, Page).cur \in Nat
    BY <2>1, Sizes, MmapTypes
  <2>3. PICK nc \in Nat : nc = IF c.brk = 0 THEN mmap(new, Page).cur ELSE new
    BY <2>1, <2>2
  <2>4. PICK d : d = [c EXCEPT !.brk = new, !.avail_meta_areas = new - Page,
                               !.avail_meta_area_count = 1]
    OBVIOUS
  <2>5. r = Result(nc, d, TRUE)
    BY <1>0, <1>4, <1>6, <2>3, <2>4 DEF AreaFromBrk
  <2>6. new - Page \in Int
    BY <2>1, Sizes
  <2>7. /\ IsCtx(d) /\ Keeps(c, d) /\ d.meta_alloc_n = c.meta_alloc_n
        /\ d.brk = new /\ d.avail_meta_areas = new - Page /\ d.avail_meta_area_count = 1
    BY <2>1, <2>4, <2>6 DEF IsCtx, Fields, Keeps
  <2>8. r.cur = nc /\ r.ctx = d /\ r.ok = TRUE
    BY <2>5 DEF Result
  <2>9. QED
    BY <1>3, <1>6, <2>1, <2>3, <2>7, <2>8, Zenon DEF BrkGives
<1>7. QED
  BY <1>5, <1>6

(* Pages of records through mmap.                                          *)
LEMMA AreasTypes ==
    ASSUME heap_end \in HeapEnds, NEW cur \in Nat, NEW c, IsCtx(c)
    PROVE  MmapGives(cur, c, mmap(cur, c.meta_alloc_n * Page), AreasFromMmap(cur, c))
<1>0. PICK r, m : r = AreasFromMmap(cur, c) /\ m = mmap(cur, c.meta_alloc_n * Page)
  OBVIOUS
<1> SUFFICES MmapGives(cur, c, m, r)
  BY <1>0
<1>1. PICK n \in Nat : n = c.meta_alloc_n
  BY DEF IsCtx
<1>2. n * Page \in Nat
  BY Sizes
<1>3. m = mmap(cur, n * Page)
  BY <1>0, <1>1
<1>4. m.cur \in Nat /\ m.p \in Nat /\ (m.p = 0 => m.cur = heap_init(cur))
  BY <1>2, <1>3, MmapTypes
<1>5. CASE m.p = 0
  <2>1. r = Result(m.cur, c, FALSE)
    BY <1>0, <1>1, <1>3, <1>5 DEF AreasFromMmap
  <2>2. r.cur = m.cur /\ r.ctx = c /\ r.ok = FALSE
    BY <2>1 DEF Result
  <2>3. QED
    BY <1>1, <1>3, <1>4, <1>5, <2>2 DEF Keeps, MmapGives
<1>6. CASE m.p # 0
  <2>1. PICK d : d = [c EXCEPT !.avail_meta_areas = m.p + Page, !.avail_meta_area_count = n - 1,
                               !.meta_alloc_n = 2 * @]
    OBVIOUS
  <2>2. r = Result(m.cur, d, TRUE)
    BY <1>1, <1>3, <1>6, <2>1, <1>0 DEF AreasFromMmap
  <2>3. m.p + Page \in Int /\ n - 1 \in Int /\ 2 * n \in Nat
    BY <1>4, Sizes
  <2>4. /\ IsCtx(d) /\ Keeps(c, d) /\ d.brk = c.brk
        /\ d.avail_meta_areas = m.p + Page /\ d.avail_meta_area_count = n - 1
    BY <1>1, <2>1, <2>3 DEF IsCtx, Fields, Keeps
  <2>5. r.cur = m.cur /\ r.ctx = d /\ r.ok = TRUE
    BY <2>2 DEF Result
  <2>6. QED
    BY <1>1, <1>3, <1>4, <1>6, <2>4, <2>5 DEF MmapGives
<1>7. QED
  BY <1>5, <1>6

(* A page of records, from wherever.                                       *)
LEMMA FindTypes ==
    ASSUME heap_end \in HeapEnds, NEW cur \in Nat, NEW c, IsCtx(c)
    PROVE  FindGives(cur, c, FindArea(cur, c))
<1>0. PICK r : r = FindArea(cur, c)
  OBVIOUS
<1> SUFFICES FindGives(cur, c, r)
  BY <1>0
<1>1. PICK b : b = IF c.avail_meta_area_count = 0 /\ c.brk # -1 THEN AreaFromBrk(cur, c)
                                                               ELSE Result(cur, c, TRUE)
  BY Zenon
<1>2. /\ b.cur \in Nat /\ IsCtx(b.ctx) /\ b.ok = TRUE /\ Keeps(c, b.ctx)
      /\ b.ctx.meta_alloc_n = c.meta_alloc_n
      /\ b.ctx.avail_meta_area_count = 0 => /\ b.ctx.brk \in {c.brk, -1}
                                             /\ b.cur \in {cur, heap_init(cur)}
  <2>1. CASE c.avail_meta_area_count = 0 /\ c.brk # -1
    <3>1. b = AreaFromBrk(cur, c)
      BY <1>1, <2>1
    <3>2. BrkGives(cur, c, Wanted(cur, c), b)
      BY <3>1, BrkTypes
    <3>3. /\ b.cur \in Nat /\ IsCtx(b.ctx) /\ b.ok = TRUE
          /\ Keeps(c, b.ctx) /\ b.ctx.meta_alloc_n = c.meta_alloc_n
          /\ (b.ctx.brk = -1 /\ b.cur = heap_init(cur)) \/ b.ctx.avail_meta_area_count = 1
      BY <3>2, Zenon DEF BrkGives
    <3>4. QED
      BY <3>3
  <2>2. CASE ~(c.avail_meta_area_count = 0 /\ c.brk # -1)
    <3>1. b.cur = cur /\ b.ctx = c /\ b.ok = TRUE
      BY <1>1, <2>2 DEF Result
    <3>2. QED
      BY <3>1 DEF Keeps
  <2>3. QED
    BY <2>1, <2>2, Zenon
<1>3. CASE b.ctx.avail_meta_area_count = 0
  <2>1. r = AreasFromMmap(b.cur, b.ctx)
    BY <1>0, <1>1, <1>3, Zenon DEF FindArea
  <2>2. /\ r.cur \in Nat /\ IsCtx(r.ctx) /\ Keeps(b.ctx, r.ctx) /\ r.ok \in BOOLEAN
        /\ r.ok = FALSE => r.ctx = b.ctx /\ r.cur = heap_init(cur)
    <3>1. MmapGives(b.cur, b.ctx, mmap(b.cur, b.ctx.meta_alloc_n * Page), r)
      BY <1>2, <2>1, AreasTypes
    <3>2. /\ r.cur \in Nat /\ IsCtx(r.ctx) /\ Keeps(b.ctx, r.ctx)
          /\ (r.ok = FALSE /\ r.ctx = b.ctx /\ r.cur = heap_init(b.cur)) \/ r.ok = TRUE
      BY <3>1, Zenon DEF MmapGives
    <3>3. heap_init(b.cur) = heap_init(cur)
      BY <1>2, <1>3, InitTwice
    <3>4. QED
      BY <3>2, <3>3, Zenon
  <2>3. QED
    BY <1>2, <1>3, <2>2 DEF Keeps, FindGives
<1>4. CASE b.ctx.avail_meta_area_count # 0
  <2>1. r = b
    BY <1>0, <1>1, <1>4 DEF FindArea
  <2>2. QED
    BY <1>2, <2>1, Zenon DEF FindGives
<1>5. QED
  BY <1>3, <1>4

(* Records that alloc_meta can give away without a new page.               *)
Spare(c) == c.free_metas + c.avail_meta_count

(* r is what alloc_meta has left of c: one record less, a new page, or     *)
(* nothing but a break given up.                                           *)
MetaGives(cur, c, r) ==
    /\ r.cur \in Nat /\ IsCtx(r.ctx) /\ r.ok \in BOOLEAN
    /\ r.ctx.nested = c.nested
    /\ \/ /\ r.ok = TRUE /\ r.ctx.areas = c.areas /\ Spare(c) > 0 /\ Spare(r.ctx) = Spare(c) - 1
          /\ r.cur = cur
       \/ /\ r.ok = TRUE /\ Spare(c) = 0 /\ Spare(r.ctx) = MetasPerArea - 1
          /\ \E a \in Int : r.ctx.areas = Append(c.areas, a)
       \/ /\ r.ok = FALSE /\ r.ctx.areas = c.areas /\ Spare(c) = 0 /\ Spare(r.ctx) = 0
          /\ r.cur = heap_init(cur)
    /\ r.ok = FALSE /\ Fresh(c) => Fresh(r.ctx)

(* The page that was found becomes the one in use.                         *)
LEMMA OpenTypes ==
    ASSUME NEW c, IsCtx(c), c.free_metas = 0, Page \in Nat
    PROVE  /\ IsCtx(OpenArea(c)) /\ OpenArea(c).nested = c.nested
           /\ Spare(OpenArea(c)) = MetasPerArea - 1
           /\ OpenArea(c).areas = Append(c.areas, c.avail_meta_areas)
           /\ OpenArea(c).brk = c.brk
<1>1. PICK d : d = OpenArea(c)
  OBVIOUS
<1>2. /\ c.avail_meta_areas \in Int /\ c.avail_meta_areas + Page \in Int
      /\ c.avail_meta_area_count - 1 \in Int /\ MetasPerArea - 1 \in Nat
      /\ Append(c.areas, c.avail_meta_areas) \in Seq(Int)
  BY MallocAssumption DEF IsCtx
<1>3. /\ DOMAIN d = Fields /\ d.brk = c.brk /\ d.nested = c.nested
      /\ d.free_metas = c.free_metas /\ d.meta_alloc_n = c.meta_alloc_n
      /\ d.avail_meta_areas = c.avail_meta_areas + Page
      /\ d.avail_meta_area_count = c.avail_meta_area_count - 1
      /\ d.avail_meta_count = MetasPerArea - 1
      /\ d.areas = Append(c.areas, c.avail_meta_areas)
  BY <1>1 DEF OpenArea, IsCtx, Fields
<1>4. QED
  BY <1>1, <1>2, <1>3 DEF IsCtx, Spare

(* alloc_meta, in every case.                                              *)
LEMMA MetaTypes ==
    ASSUME heap_end \in HeapEnds, NEW cur \in Nat, NEW c, IsCtx(c)
    PROVE  MetaGives(cur, c, alloc_meta(cur, c))
<1>0. PICK r : r = alloc_meta(cur, c)
  OBVIOUS
<1> SUFFICES MetaGives(cur, c, r)
  BY <1>0
<1>1. c.free_metas \in Nat /\ c.avail_meta_count \in Nat /\ c.nested \in Nat
  BY DEF IsCtx
<1>2. CASE c.free_metas > 0
  <2>1. PICK d : d = [c EXCEPT !.free_metas = @ - 1]
    BY Zenon
  <2>2. IsCtx(d) /\ d.nested = c.nested /\ d.areas = c.areas /\ Spare(d) = Spare(c) - 1
    BY <1>1, <1>2, <2>1 DEF IsCtx, Fields, Spare
  <2>3. r.cur = cur /\ r.ctx = d /\ r.ok = TRUE
    BY <1>0, <1>2, <2>1 DEF alloc_meta, Result
  <2>4. Spare(c) > 0
    BY <1>1, <1>2 DEF Spare
  <2>5. QED
    BY <2>2, <2>3, <2>4, Zenon DEF MetaGives
<1>3. CASE c.free_metas = 0 /\ c.avail_meta_count > 0
  <2>1. PICK d : d = [c EXCEPT !.avail_meta_count = @ - 1]
    BY Zenon
  <2>2. IsCtx(d) /\ d.nested = c.nested /\ d.areas = c.areas /\ Spare(d) = Spare(c) - 1
    BY <1>1, <1>3, <2>1 DEF IsCtx, Fields, Spare
  <2>3. r.cur = cur /\ r.ctx = d /\ r.ok = TRUE
    BY <1>0, <1>3, <2>1 DEF alloc_meta, Result
  <2>4. Spare(c) > 0
    BY <1>1, <1>3 DEF Spare
  <2>5. QED
    BY <2>2, <2>3, <2>4, Zenon DEF MetaGives
<1>4. CASE c.free_metas = 0 /\ c.avail_meta_count = 0
  <2>1. PICK f : f = FindArea(cur, c)
    OBVIOUS
  <2>2. FindGives(cur, c, f)
    BY <2>1, FindTypes
  <2>3. IsCtx(f.ctx) /\ Spare(c) = 0 /\ Spare(f.ctx) = 0 /\ f.ctx.free_metas = 0
    BY <1>4, <2>2 DEF Spare, FindGives, Keeps
  <2>4. CASE f.ok = TRUE
    <3>1. r.cur = f.cur /\ r.ctx = OpenArea(f.ctx) /\ r.ok = TRUE
      BY <1>0, <1>4, <2>1, <2>4 DEF alloc_meta, Result
    <3>2. /\ IsCtx(r.ctx) /\ r.ctx.nested = f.ctx.nested /\ Spare(r.ctx) = MetasPerArea - 1
          /\ r.ctx.areas = Append(f.ctx.areas, f.ctx.avail_meta_areas)
      BY <2>3, <3>1, OpenTypes, HeapAssumption
    <3>3. f.ctx.avail_meta_areas \in Int /\ f.ctx.areas = c.areas /\ f.ctx.nested = c.nested
      BY <2>2 DEF FindGives, IsCtx, Keeps
    <3>4. \E a \in Int : r.ctx.areas = Append(c.areas, a)
      BY <3>2, <3>3
    <3>5. r.cur \in Nat
      BY <2>2, <3>1 DEF FindGives
    <3>6. QED
      BY <2>3, <3>1, <3>2, <3>3, <3>4, <3>5, Zenon DEF MetaGives
  <2>5. CASE f.ok = FALSE
    <3>1. r = f
      <4>1. ~f.ok /\ ~(c.free_metas > 0) /\ ~(c.avail_meta_count > 0)
        BY <1>4, <2>5
      <4>2. QED
        BY <1>0, <2>1, <4>1, Zenon DEF alloc_meta
    <3>2. Fresh(c) => Fresh(f.ctx)
      BY <1>4, <2>2, <2>5 DEF FindGives, Keeps, Fresh
    <3>3. QED
      BY <2>2, <2>3, <2>5, <3>1, <3>2 DEF FindGives, MetaGives, Keeps
  <2>6. QED
    BY <2>2, <2>4, <2>5, Zenon DEF FindGives
<1>5. QED
  BY <1>1, <1>2, <1>3, <1>4

-----------------------------------------------------------------------------
(* Where the pages are, when no sum wraps.                                 *)

Requests == Lens \cup BigLens \cup {Page, 2 * Page}

InArena(cur) == cur = 0 \/ (BssStop <= cur /\ cur <= heap_end)

(* m is an mmap of len bytes that moved the pointer past them, or failed.  *)
Bumps(cur, len, m) ==
    /\ m.cur \in Nat /\ m.p \in Nat
    /\ BssStop <= m.cur /\ m.cur <= heap_end /\ heap_init(cur) <= m.cur
    /\ m.p # 0 => m.p = heap_init(cur) /\ m.p + len <= m.cur

(* mmap moves the pointer past what it gives.                              *)
LEMMA MmapBumps ==
    ASSUME MallocNoWrap, heap_end \in HeapEnds, NEW cur \in Nat, InArena(cur),
           NEW len \in Requests
    PROVE  Bumps(cur, len, mmap(cur, len))
<1>1. len \in Nat
  BY Sizes, MallocAssumption DEF Requests
<1>2. PICK n \in Nat : n = RoundUp(len) /\ len <= n
  BY <1>1, RoundUpCovers
<1>3. PICK p \in Nat : p = heap_init(cur) /\ BssStop <= p /\ p <= heap_end
  BY Sizes DEF heap_init, InArena
<1>4. heap_end + n < Wrap
  BY <1>2, Zenon DEF MallocNoWrap, Requests
<1>5. (p + n) % Wrap = p + n /\ Exhausted(p, heap_end, n) = {p + n > heap_end}
  BY <1>3, <1>4, ExhaustedIsPlain
<1>6. CASE p + n > heap_end
  <2>1. (p + n > heap_end) = TRUE
    BY <1>6
  <2>2. FALSE \notin Exhausted(p, heap_end, n)
    BY <1>5, <2>1, Zenon
  <2>3. mmap(cur, len) = [p |-> 0, cur |-> p]
    BY <1>2, <1>3, <2>2, Zenon DEF mmap
  <2>4. QED
    BY <1>3, <2>3 DEF Bumps
<1>7. CASE ~(p + n > heap_end)
  <2>1. (p + n > heap_end) = FALSE
    BY <1>7
  <2>2. FALSE \in Exhausted(p, heap_end, n)
    BY <1>5, <2>1, Zenon
  <2>3. mmap(cur, len) = [p |-> p, cur |-> p + n]
    BY <1>2, <1>3, <1>5, <2>2, Zenon DEF mmap
  <2>4. p + n \in Nat /\ BssStop <= p + n /\ p + n <= heap_end /\ p <= p + n /\ p + len <= p + n
    BY <1>1, <1>2, <1>3, <1>7, Sizes
  <2>5. QED
    BY <1>3, <2>3, <2>4 DEF Bumps
<1>8. QED
  BY <1>6, <1>7

(* a has found a page of records above everything cur was the end of.      *)
PagePlaced(cur, a) ==
    /\ BssStop <= a.cur /\ a.cur <= heap_end
    /\ heap_init(cur) <= a.ctx.avail_meta_areas
    /\ a.ctx.avail_meta_areas + Page <= a.cur

(* The first two pages through mmap, the lower one a guard page.           *)
LEMMA FirstByMmap ==
    ASSUME MallocNoWrap, heap_end \in HeapEnds, NEW cur \in Nat, InArena(cur),
           NEW c, IsCtx(c), c.meta_alloc_n = 2, AreasFromMmap(cur, c).ok = TRUE
    PROVE  PagePlaced(cur, AreasFromMmap(cur, c))
<1>1. PICK a, m : a = AreasFromMmap(cur, c) /\ m = mmap(cur, 2 * Page)
  OBVIOUS
<1>2. Bumps(cur, 2 * Page, m)
  BY <1>1, MmapBumps DEF Requests
<1>3. MmapGives(cur, c, m, a)
  BY <1>1, AreasTypes
<1>4. a.ok = TRUE /\ a.cur = m.cur /\ m.p # 0 /\ a.ctx.avail_meta_areas = m.p + Page
  BY <1>1, <1>3 DEF MmapGives
<1>5. PICK p \in Nat, e \in Nat : p = m.p /\ e = m.cur
  BY <1>2 DEF Bumps
<1>6. /\ BssStop <= e /\ e <= heap_end /\ p = heap_init(cur) /\ p + 2 * Page <= e
  BY <1>2, <1>4, <1>5 DEF Bumps
<1>7. p <= p + Page /\ p + Page + Page <= e
  BY <1>6, Sizes
<1>8. PagePlaced(cur, a)
  BY <1>4, <1>5, <1>6, <1>7 DEF PagePlaced
<1>9. QED
  BY <1>1, <1>8

(* The first page through brk, above a page that is to be a guard page.    *)
LEMMA FirstByBrk ==
    ASSUME MallocNoWrap, heap_end \in HeapEnds, NEW cur \in Nat, InArena(cur),
           NEW c, IsCtx(c), c.brk = 0, AreaFromBrk(cur, c).ctx.brk # -1
    PROVE  PagePlaced(cur, AreaFromBrk(cur, c))
<1>1. PICK a, new : a = AreaFromBrk(cur, c) /\ new = Wanted(cur, c)
  OBVIOUS
<1>2. BrkGives(cur, c, new, a)
  BY <1>1, BrkTypes
<1>3. /\ new \in Nat /\ brk_to(cur, heap_end, new) = new
      /\ a.ctx.avail_meta_areas = new - Page /\ a.cur = mmap(new, Page).cur
  BY <1>1, <1>2 DEF BrkGives
<1>4. PICK p \in Nat : p = heap_init(cur)
  BY InitIsNat
<1>5. PICK q \in Nat : q = RoundUp(p) /\ p <= q
  BY <1>4, RoundUpCovers
<1>6. new = q + 2 * Page
  BY <1>1, <1>4, <1>5 DEF Wanted
<1>7. new # p /\ p <= new - Page
  BY <1>4, <1>5, <1>6, Sizes
<1>8. BssStop <= new /\ new <= heap_end
  BY <1>3, <1>4, <1>7 DEF brk_to
<1>9. Bumps(new, Page, mmap(new, Page)) /\ heap_init(new) = new
  BY <1>3, <1>8, MmapBumps, Sizes DEF Requests, InArena, heap_init
<1>10. PICK e \in Nat : e = mmap(new, Page).cur /\ BssStop <= e /\ e <= heap_end /\ new <= e
  BY <1>9, Zenon DEF Bumps
<1>11. new - Page + Page <= e
  BY <1>3, <1>10, Sizes
<1>12. PagePlaced(cur, a)
  BY <1>3, <1>4, <1>7, <1>10, <1>11 DEF PagePlaced
<1>13. QED
  BY <1>1, <1>12

(* The first page of records, from wherever.                               *)
LEMMA FirstPage ==
    ASSUME MallocNoWrap, heap_end \in HeapEnds, NEW cur \in Nat, InArena(cur),
           NEW c, IsCtx(c), Fresh(c), c.areas = << >>, FindArea(cur, c).ok = TRUE
    PROVE  PagePlaced(cur, FindArea(cur, c))
<1>0. PICK f : f = FindArea(cur, c)
  OBVIOUS
<1> SUFFICES PagePlaced(cur, f)
  BY <1>0
<1>1. f.ok = TRUE /\ c.avail_meta_area_count = 0 /\ c.brk \in {0, -1} /\ c.meta_alloc_n = 2
  BY <1>0 DEF Fresh
<1>2. CASE c.brk = -1
  <2>1. f = AreasFromMmap(cur, c)
    <3>1. ~(c.avail_meta_area_count = 0 /\ c.brk # -1) /\ Result(cur, c, TRUE).ctx = c
          /\ Result(cur, c, TRUE).cur = cur
      BY <1>2 DEF Result
    <3>2. QED
      BY <1>0, <1>1, <3>1, Zenon DEF FindArea
  <2>2. QED
    BY <1>1, <2>1, FirstByMmap, Zenon
<1>3. CASE c.brk = 0
  <2>1. PICK b : b = AreaFromBrk(cur, c)
    OBVIOUS
  <2>2. BrkGives(cur, c, Wanted(cur, c), b)
    BY <2>1, BrkTypes
  <2>3. f = IF b.ctx.avail_meta_area_count = 0 THEN AreasFromMmap(b.cur, b.ctx) ELSE b
    BY <1>0, <1>1, <1>3, <2>1 DEF FindArea
  <2>4. CASE b.ctx.brk = -1
    <3>1. /\ b.cur = heap_init(cur) /\ IsCtx(b.ctx) /\ b.ctx.meta_alloc_n = 2
          /\ b.ctx.avail_meta_area_count = 0
      BY <1>1, <2>2, <2>4 DEF BrkGives
    <3>2. f = AreasFromMmap(b.cur, b.ctx) /\ b.cur \in Nat /\ InArena(b.cur)
      BY <2>3, <3>1, Sizes DEF InArena, heap_init
    <3>3. PagePlaced(b.cur, f)
      BY <1>1, <3>1, <3>2, FirstByMmap, Zenon
    <3>4. heap_init(b.cur) = heap_init(cur)
      BY <3>1, InitTwice
    <3>5. QED
      BY <3>3, <3>4 DEF PagePlaced
  <2>5. CASE b.ctx.brk # -1
    <3>1. b.ctx.avail_meta_area_count = 1
      BY <2>2, <2>5 DEF BrkGives
    <3>2. f = b
      BY <2>3, <3>1
    <3>3. QED
      BY <1>3, <2>1, <2>5, <3>2, FirstByBrk
  <2>6. QED
    BY <2>4, <2>5
<1>4. QED
  BY <1>1, <1>2, <1>3

(* alloc_meta has left the heap r, and its pages of records are still one  *)
(* at most: there is no new one, or the first one lies above cur.          *)
MetaPlaced(cur, c, r) ==
    /\ InArena(r.cur) /\ heap_init(cur) <= heap_init(r.cur)
    /\ \/ r.ctx.areas = c.areas
       \/ /\ c.areas = << >>
          /\ \E a \in Int : /\ r.ctx.areas = Append(c.areas, a)
                            /\ heap_init(cur) <= a /\ a + Page <= heap_init(r.cur)

(* alloc_meta while there is one page of records at most.                  *)
LEMMA MetaPlace ==
    ASSUME MallocNoWrap, heap_end \in HeapEnds, NEW cur \in Nat, InArena(cur),
           NEW c, IsCtx(c), Fresh(c), Len(alloc_meta(cur, c).ctx.areas) <= 1
    PROVE  MetaPlaced(cur, c, alloc_meta(cur, c))
<1>0. PICK r : r = alloc_meta(cur, c) /\ Len(r.ctx.areas) <= 1
  OBVIOUS
<1> SUFFICES MetaPlaced(cur, c, r)
  BY <1>0
<1>1. MetaGives(cur, c, r)
  BY <1>0, MetaTypes
<1>2. /\ heap_init(cur) \in Nat /\ InArena(heap_init(cur))
      /\ heap_init(heap_init(cur)) = heap_init(cur) /\ c.areas \in Seq(Int)
  BY InitIsNat, Sizes DEF InArena, heap_init, IsCtx
<1>3. CASE r.ctx.areas = c.areas
  <2>1. r.cur \in {cur, heap_init(cur)}
    BY <1>1, <1>2, <1>3 DEF MetaGives
  <2>2. QED
    BY <1>2, <1>3, <2>1 DEF MetaPlaced
<1>4. CASE r.ctx.areas # c.areas
  <2>1. PICK a \in Int : r.ctx.areas = Append(c.areas, a) /\ r.ok = TRUE /\ Spare(c) = 0
    BY <1>1, <1>4 DEF MetaGives
  <2>2. c.areas = << >>
    BY <1>0, <1>2, <2>1
  <2>3. PICK f : f = FindArea(cur, c)
    OBVIOUS
  <2>4. FindGives(cur, c, f) /\ IsCtx(f.ctx)
    BY <2>3, FindTypes, Zenon DEF FindGives
  <2>5. ~(c.free_metas > 0) /\ ~(c.avail_meta_count > 0)
    BY <2>2 DEF Fresh
  <2>6. r = IF f.ok THEN Result(f.cur, OpenArea(f.ctx), TRUE) ELSE f
    BY <1>0, <2>3, <2>5, Zenon DEF alloc_meta
  <2>7. f.ok = TRUE
    BY <2>1, <2>4, <2>6, Zenon DEF FindGives
  <2>8. r.cur = f.cur /\ r.ctx = OpenArea(f.ctx)
    BY <2>6, <2>7 DEF Result
  <2>9. f.ctx.free_metas = 0 /\ f.ctx.areas = c.areas /\ f.ctx.avail_meta_areas \in Int /\ f.cur \in Nat
    BY <2>2, <2>4 DEF FindGives, Keeps, Fresh, IsCtx
  <2>10. r.ctx.areas = Append(c.areas, f.ctx.avail_meta_areas)
    BY <2>4, <2>8, <2>9, OpenTypes, HeapAssumption, Zenon
  <2>11. PagePlaced(cur, f)
    BY <2>2, <2>3, <2>7, FirstPage, Zenon
  <2>12. /\ BssStop <= f.cur /\ f.cur <= heap_end
         /\ heap_init(cur) <= f.ctx.avail_meta_areas /\ f.ctx.avail_meta_areas + Page <= f.cur
    BY <2>11 DEF PagePlaced
  <2>13. heap_init(f.cur) = f.cur /\ InArena(f.cur) /\ heap_init(cur) <= f.cur
    BY <1>2, <2>9, <2>12, Sizes DEF heap_init, InArena
  <2>14. QED
    BY <2>2, <2>8, <2>9, <2>10, <2>12, <2>13 DEF MetaPlaced
<1>5. QED
  BY <1>3, <1>4

(* mp is a function like maps, and of the pages areas none is shared with  *)
(* what it holds: everything lies below cur.                               *)
IsMaps(mp) == mp \in [Ids -> [lo : Nat, hi : Nat]]

HeldPlaced(cur, mp) ==
    \A i \in Ids : mp[i] # NoMap =>
        BssStop <= mp[i].lo /\ mp[i].lo < mp[i].hi /\ mp[i].hi <= heap_init(cur)

HeldApart(mp) ==
    \A i, j \in Ids : i # j /\ mp[i] # NoMap /\ mp[j] # NoMap =>
        Apart(mp[i].lo, mp[i].hi, mp[j].lo, mp[j].hi)

AreasPlaced(cur, areas, mp) ==
    \A k \in DOMAIN areas :
        /\ areas[k] + Page <= heap_init(cur)
        /\ \A i \in Ids : mp[i] # NoMap => Apart(mp[i].lo, mp[i].hi, areas[k], areas[k] + Page)

Placed(cur, areas, mp) ==
    InArena(cur) /\ HeldPlaced(cur, mp) /\ HeldApart(mp) /\ AreasPlaced(cur, areas, mp)

(* A pointer that moves up leaves everything below it.                     *)
LEMMA PlacedUp ==
    ASSUME heap_end \in HeapEnds, NEW cur \in Nat, NEW e \in Nat, InArena(e),
           heap_init(cur) <= heap_init(e),
           NEW areas \in Seq(Int), NEW mp, IsMaps(mp), Placed(cur, areas, mp)
    PROVE  Placed(e, areas, mp)
<1>1. heap_init(cur) \in Nat /\ heap_init(e) \in Nat
  BY InitIsNat
<1>2. \A i \in Ids : mp[i].lo \in Nat /\ mp[i].hi \in Nat
  BY DEF IsMaps
<1>3. \A k \in DOMAIN areas : areas[k] + Page \in Int
  BY Sizes
<1>4. InArena(cur) /\ HeldPlaced(cur, mp) /\ HeldApart(mp) /\ AreasPlaced(cur, areas, mp)
  BY DEF Placed
<1>5. HeldPlaced(e, mp)
  BY <1>1, <1>2, <1>4 DEF HeldPlaced
<1>6. AreasPlaced(e, areas, mp)
  BY <1>1, <1>3, <1>4 DEF AreasPlaced
<1>7. QED
  BY <1>4, <1>5, <1>6 DEF Placed

(* The maps after one more group is mapped at p.                           *)
WithMap(mp, i, p, len) == [mp EXCEPT ![i] = [lo |-> p, hi |-> p + len]]

(* An mmap keeps what is held, and adds the pages it gives.                *)
LEMMA PlacedMmap ==
    ASSUME MallocNoWrap, heap_end \in HeapEnds, NEW cur \in Nat,
           NEW areas \in Seq(Int), NEW mp, IsMaps(mp), Placed(cur, areas, mp),
           NEW i \in Ids, NEW len \in Lens \cup BigLens
    PROVE  LET m == mmap(cur, len)
           IN  /\ Placed(m.cur, areas, mp)
               /\ m.p # 0 => Placed(m.cur, areas, WithMap(mp, i, m.p, len))
<1>0. PICK m : m = mmap(cur, len)
  OBVIOUS
<1>1. len \in Nat \ {0} /\ len \in Requests
  BY MallocAssumption DEF Requests
<1>2. Bumps(cur, len, m)
  BY <1>0, <1>1, MmapBumps DEF Placed
<1>3. PICK e \in Nat, p \in Nat : e = m.cur /\ p = m.p
  BY <1>2 DEF Bumps
<1>4. /\ BssStop <= e /\ e <= heap_end /\ heap_init(cur) <= e
      /\ p # 0 => p = heap_init(cur) /\ p + len <= e
  BY <1>2, <1>3 DEF Bumps
<1>5. InArena(e) /\ heap_init(e) = e
  BY <1>4, Sizes DEF InArena, heap_init
<1>6. Placed(e, areas, mp)
  BY <1>4, <1>5, PlacedUp
<1>7. ASSUME p # 0
      PROVE  Placed(e, areas, WithMap(mp, i, p, len))
  <2>1. PICK nm : nm = WithMap(mp, i, p, len)
    OBVIOUS
  <2>2. /\ p + len \in Nat /\ p < p + len /\ p + len <= e /\ BssStop <= p
        /\ p = heap_init(cur)
    BY <1>1, <1>4, <1>7, Sizes DEF heap_init, Placed, InArena
  <2>3. /\ nm[i].lo = p /\ nm[i].hi = p + len
        /\ \A j \in Ids : j # i => nm[j] = mp[j]
    BY <2>1, <2>2 DEF IsMaps, WithMap
  <2>4. \A j \in Ids : mp[j].lo \in Nat /\ mp[j].hi \in Nat
    BY DEF IsMaps
  <2>5. HeldPlaced(e, mp) /\ HeldPlaced(cur, mp) /\ HeldApart(mp)
        /\ AreasPlaced(e, areas, mp) /\ AreasPlaced(cur, areas, mp)
    BY <1>6 DEF Placed
  <2>6. HeldPlaced(e, nm)
    BY <1>5, <2>2, <2>3, <2>5 DEF HeldPlaced
  <2>7. HeldApart(nm)
    <3>1. \A j \in Ids : mp[j] # NoMap => mp[j].hi <= p
      BY <2>2, <2>5 DEF HeldPlaced
    <3>2. \A j \in Ids : j # i /\ nm[j] # NoMap => nm[j].hi <= nm[i].lo
      BY <2>3, <3>1
    <3>3. \A j, k \in Ids : j # i /\ k # i /\ j # k /\ nm[j] # NoMap /\ nm[k] # NoMap =>
              Apart(nm[j].lo, nm[j].hi, nm[k].lo, nm[k].hi)
      BY <2>3, <2>5 DEF HeldApart
    <3>4. QED
      BY <3>2, <3>3 DEF HeldApart, Apart
  <2>8. AreasPlaced(e, areas, nm)
    <3> SUFFICES ASSUME NEW k \in DOMAIN areas
                 PROVE  /\ areas[k] + Page <= heap_init(e)
                        /\ \A j \in Ids : nm[j] # NoMap =>
                              Apart(nm[j].lo, nm[j].hi, areas[k], areas[k] + Page)
      BY DEF AreasPlaced
    <3>1. areas[k] + Page <= heap_init(e) /\ areas[k] + Page <= p
      BY <2>2, <2>5 DEF AreasPlaced
    <3>2. \A j \in Ids : j # i /\ nm[j] # NoMap =>
              Apart(nm[j].lo, nm[j].hi, areas[k], areas[k] + Page)
      BY <2>3, <2>5 DEF AreasPlaced
    <3>3. Apart(nm[i].lo, nm[i].hi, areas[k], areas[k] + Page)
      BY <2>3, <3>1 DEF Apart
    <3>4. QED
      BY <3>1, <3>2, <3>3
  <2>9. Placed(e, areas, nm)
    BY <1>5, <2>6, <2>7, <2>8 DEF Placed
  <2>10. QED
    BY <2>1, <2>9
<1>8. QED
  BY <1>0, <1>3, <1>6, <1>7

(* alloc_meta keeps everything apart while one page of records is enough.  *)
LEMMA PlacedMeta ==
    ASSUME MallocNoWrap, heap_end \in HeapEnds, NEW cur \in Nat, NEW c, IsCtx(c), Fresh(c),
           NEW mp, IsMaps(mp), Placed(cur, c.areas, mp), Len(alloc_meta(cur, c).ctx.areas) <= 1
    PROVE  Placed(alloc_meta(cur, c).cur, alloc_meta(cur, c).ctx.areas, mp)
<1>0. PICK r : r = alloc_meta(cur, c) /\ Len(r.ctx.areas) <= 1
  OBVIOUS
<1> SUFFICES Placed(r.cur, r.ctx.areas, mp)
  BY <1>0
<1>1. MetaPlaced(cur, c, r)
  BY <1>0, MetaPlace DEF Placed
<1>2. r.cur \in Nat /\ c.areas \in Seq(Int)
  BY <1>0, MetaTypes, Zenon DEF MetaGives, IsCtx
<1>3. Placed(r.cur, c.areas, mp)
  BY <1>1, <1>2, PlacedUp DEF MetaPlaced
<1>4. CASE r.ctx.areas = c.areas
  BY <1>3, <1>4
<1>5. CASE r.ctx.areas # c.areas
  <2>1. PICK a \in Int : /\ c.areas = << >> /\ r.ctx.areas = Append(c.areas, a)
                         /\ heap_init(cur) <= a /\ a + Page <= heap_init(r.cur)
    BY <1>1, <1>5 DEF MetaPlaced
  <2>2. r.ctx.areas = <<a>>
    BY <2>1
  <2>3. \A i \in Ids : mp[i] # NoMap => mp[i].hi <= a
    <3>1. \A i \in Ids : mp[i].hi \in Nat /\ (mp[i] # NoMap => mp[i].hi <= heap_init(cur))
      BY DEF Placed, HeldPlaced, IsMaps
    <3>2. heap_init(cur) \in Nat
      BY InitIsNat
    <3>3. QED
      BY <2>1, <3>1, <3>2
  <2>4. \A k \in DOMAIN <<a>> : <<a>>[k] = a
    OBVIOUS
  <2>5. AreasPlaced(r.cur, <<a>>, mp)
    BY <2>1, <2>3, <2>4 DEF AreasPlaced, Apart
  <2>6. QED
    BY <1>3, <2>2, <2>5 DEF Placed
<1>6. QED
  BY <1>4, <1>5

(* Giving up a mapping keeps the others apart.                             *)
LEMMA PlacedUnmap ==
    ASSUME NEW cur, NEW areas, NEW mp, IsMaps(mp), Placed(cur, areas, mp), NEW i \in Ids
    PROVE  Placed(cur, areas, [mp EXCEPT ![i] = NoMap])
<1>1. PICK nm : nm = [mp EXCEPT ![i] = NoMap]
  BY Zenon
<1>2. \A j \in Ids : nm[j] # NoMap => nm[j] = mp[j]
  BY <1>1 DEF IsMaps
<1>3. HeldPlaced(cur, nm)
  BY <1>2 DEF Placed, HeldPlaced
<1>4. HeldApart(nm)
  BY <1>2 DEF Placed, HeldApart
<1>5. AreasPlaced(cur, areas, nm)
  BY <1>2 DEF Placed, AreasPlaced
<1>6. QED
  BY <1>1, <1>3, <1>4, <1>5 DEF Placed

-----------------------------------------------------------------------------
(* Records.                                                                *)

(* With one page of records, every record is spare or one of the u in use. *)
Counted(c, u) ==
    /\ c.areas = << >> => u = 0
    /\ Len(c.areas) = 1 => Spare(c) + u = MetasPerArea

(* alloc_meta has left r: a page is never given back, and whoever got a    *)
(* record got it from a page.                                              *)
MetaKeeps(c, r) ==
    /\ Fresh(r.ctx) /\ Len(c.areas) <= Len(r.ctx.areas)
    /\ r.ok = TRUE \/ c.areas # << >> => r.ctx.areas # << >>

(* It counts records right: one more is in use when it succeeds, and while *)
(* there is one to spare it takes no second page.                          *)
MetaCounts(c, u, r) ==
    /\ r.ok = TRUE => Counted(r.ctx, u + 1)
    /\ r.ok = FALSE => Counted(r.ctx, u)
    /\ u < MetasPerArea /\ Len(c.areas) <= 1 => Len(r.ctx.areas) <= 1

(* A sequence of pages with one more.                                      *)
LEMMA OneMore ==
    ASSUME NEW s \in Seq(Int), NEW a \in Int
    PROVE  Len(s) \in Nat /\ Len(Append(s, a)) = Len(s) + 1 /\ Append(s, a) # << >>
  OBVIOUS

(* The pages after alloc_meta.                                             *)
LEMMA MetaPages ==
    ASSUME heap_end \in HeapEnds, NEW cur \in Nat, NEW c, IsCtx(c), Fresh(c)
    PROVE  MetaKeeps(c, alloc_meta(cur, c))
<1>1. PICK r : r = alloc_meta(cur, c)
  OBVIOUS
<1>2. MetaGives(cur, c, r) /\ c.areas \in Seq(Int)
  BY <1>1, MetaTypes DEF IsCtx
<1>3. CASE \E a \in Int : r.ctx.areas = Append(c.areas, a)
  <2>1. PICK a \in Int : r.ctx.areas = Append(c.areas, a)
    BY <1>3
  <2>2. r.ctx.areas # << >> /\ Len(c.areas) \in Nat /\ Len(r.ctx.areas) = Len(c.areas) + 1
    BY <1>2, <2>1, OneMore, Zenon
  <2>3. Len(c.areas) <= Len(r.ctx.areas)
    BY <2>2
  <2>4. QED
    BY <1>1, <2>2, <2>3 DEF MetaKeeps, Fresh
<1>4. CASE r.ok = TRUE /\ r.ctx.areas = c.areas /\ Spare(c) > 0
  <2>1. c.areas # << >>
    BY <1>4 DEF Fresh, Spare
  <2>2. QED
    BY <1>1, <1>2, <1>4, <2>1 DEF MetaKeeps, Fresh
<1>5. CASE r.ok = FALSE /\ r.ctx.areas = c.areas
  BY <1>1, <1>2, <1>5 DEF MetaGives, MetaKeeps
<1>6. QED
  BY <1>2, <1>3, <1>4, <1>5, Zenon DEF MetaGives

(* The records after alloc_meta.                                           *)
LEMMA MetaRecords ==
    ASSUME heap_end \in HeapEnds, NEW cur \in Nat, NEW c, IsCtx(c), Fresh(c),
           NEW u \in Nat, Counted(c, u)
    PROVE  MetaCounts(c, u, alloc_meta(cur, c))
<1>1. PICK r : r = alloc_meta(cur, c)
  OBVIOUS
<1>2. MetaGives(cur, c, r) /\ c.areas \in Seq(Int) /\ Spare(c) \in Nat
  <2>1. MetaGives(cur, c, r)
    BY <1>1, MetaTypes
  <2>2. QED
    BY <2>1, SMTT(30) DEF IsCtx, Spare
<1>3. CASE r.ok = TRUE /\ Spare(c) = 0 /\ Spare(r.ctx) = MetasPerArea - 1
           /\ \E a \in Int : r.ctx.areas = Append(c.areas, a)
  <2>1. PICK n \in Nat : n = Len(c.areas) /\ (n = 0 <=> c.areas = << >>)
    BY <1>2
  <2>2. Len(r.ctx.areas) = n + 1 /\ r.ctx.areas # << >>
    BY <1>2, <1>3, <2>1, OneMore, Zenon
  <2>3. n = 0 => u = 0
    BY <2>1 DEF Counted
  <2>4. n = 1 => u = MetasPerArea
    BY <1>3, <2>1, MallocAssumption DEF Counted
  <2>5. Counted(r.ctx, u + 1)
    BY <1>3, <2>1, <2>2, <2>3, MallocAssumption DEF Counted
  <2>6. u < MetasPerArea /\ n <= 1 => n + 1 <= 1
    <3>1. MetasPerArea \in Nat
      BY MallocAssumption
    <3>2. n \in Nat
      OBVIOUS
    <3>3. QED
      BY <2>4, <3>1, <3>2
  <2>7. QED
    BY <1>1, <1>3, <2>1, <2>2, <2>5, <2>6 DEF MetaCounts
<1>4. CASE r.ok = TRUE /\ r.ctx.areas = c.areas /\ Spare(c) > 0 /\ Spare(r.ctx) = Spare(c) - 1
  <2>1. c.areas # << >>
    BY <1>4 DEF Fresh, Spare
  <2>2. QED
    BY <1>1, <1>2, <1>4, <2>1, MallocAssumption DEF MetaCounts, Counted
<1>5. CASE r.ok = FALSE /\ r.ctx.areas = c.areas /\ Spare(c) = 0 /\ Spare(r.ctx) = 0
  BY <1>1, <1>5 DEF MetaCounts, Counted
<1>6. QED
  BY <1>2, <1>3, <1>4, <1>5, Zenon DEF MetaGives

(* d has one more spare record than c, or as many; no page is new.         *)
SameAreas(c, d) == IsCtx(d) /\ d.areas = c.areas /\ (c.areas # << >> => Fresh(d))

(* free_meta, and the count of groups in slots of others.                  *)
LEMMA FreeTypes ==
    ASSUME NEW c, IsCtx(c)
    PROVE  /\ SameAreas(c, free_meta(c)) /\ free_meta(c).nested = c.nested
           /\ Spare(free_meta(c)) = Spare(c) + 1
<1>1. PICK d : d = free_meta(c)
  OBVIOUS
<1>2. c.free_metas \in Nat /\ c.avail_meta_count \in Nat
  BY DEF IsCtx
<1>3. /\ IsCtx(d) /\ d.areas = c.areas /\ d.nested = c.nested /\ d.free_metas = c.free_metas + 1
      /\ d.avail_meta_count = c.avail_meta_count
  BY <1>1, <1>2 DEF free_meta, IsCtx, Fields
<1>4. Spare(d) = Spare(c) + 1
  BY <1>2, <1>3 DEF Spare
<1>5. QED
  BY <1>1, <1>3, <1>4 DEF SameAreas, Fresh

(* A group more, or less, in a slot of another one.                        *)
LEMMA NestedTypes ==
    ASSUME NEW c, IsCtx(c), NEW n \in Nat
    PROVE  LET d == [c EXCEPT !.nested = n]
           IN  SameAreas(c, d) /\ d.nested = n /\ Spare(d) = Spare(c)
<1>1. PICK d : d = [c EXCEPT !.nested = n]
  BY Zenon
<1>2. /\ IsCtx(d) /\ d.areas = c.areas /\ d.nested = n /\ d.free_metas = c.free_metas
      /\ d.avail_meta_count = c.avail_meta_count
  BY <1>1 DEF IsCtx, Fields
<1>3. QED
  BY <1>1, <1>2 DEF SameAreas, Fresh, Spare

(* A record that is given back is not in use.                              *)
LEMMA FreeCounted ==
    ASSUME NEW c, IsCtx(c), c.areas # << >>, NEW u \in Nat, Counted(c, u + 1)
    PROVE  Counted(free_meta(c), u)
<1>1. free_meta(c).areas = c.areas /\ Spare(free_meta(c)) = Spare(c) + 1
  BY FreeTypes DEF SameAreas
<1>2. Spare(c) \in Nat
  BY DEF Spare, IsCtx
<1>3. QED
  BY <1>1, <1>2 DEF Counted

(* g is what making a group of slots has left of c.                        *)
GroupGives(c, g) ==
    /\ g.cur \in Nat /\ g.p \in Nat /\ IsCtx(g.ctx) /\ g.ctx.nested = c.nested
    /\ Fresh(g.ctx) /\ Len(c.areas) <= Len(g.ctx.areas)
    /\ g.p # 0 \/ c.areas # << >> => g.ctx.areas # << >>

GroupCounts(c, u, g) ==
    /\ g.p # 0 => Counted(g.ctx, u + 1)
    /\ g.p = 0 => Counted(g.ctx, u)
    /\ u < MetasPerArea /\ Len(c.areas) <= 1 => Len(g.ctx.areas) <= 1

(* What MapGroup gives, by the outcome of its two steps.                   *)
GroupIs(s, m, g) ==
    \/ s.ok = FALSE /\ g.cur = s.cur /\ g.ctx = s.ctx /\ g.p = 0
    \/ s.ok = TRUE /\ g.cur = m.cur /\ m.p = 0 /\ g.p = 0 /\ g.ctx = free_meta(s.ctx)
    \/ s.ok = TRUE /\ g.cur = m.cur /\ m.p # 0 /\ g.p = m.p /\ g.ctx = s.ctx

(* The outcomes of MapGroup.                                               *)
LEMMA GroupCases ==
    ASSUME heap_end \in HeapEnds, NEW cur \in Nat, NEW c, IsCtx(c), NEW len
    PROVE  LET s == alloc_meta(cur, c)
           IN  GroupIs(s, mmap(s.cur, len), MapGroup(cur, c, len))
<1>0. PICK s, g : s = alloc_meta(cur, c) /\ g = MapGroup(cur, c, len)
  OBVIOUS
<1>m. PICK m : m = mmap(s.cur, len)
  OBVIOUS
<1> SUFFICES GroupIs(s, m, g)
  BY <1>0, <1>m
<1>1. MetaGives(cur, c, s)
  BY <1>0, MetaTypes
<1>2. s.ok \in BOOLEAN
  BY <1>1 DEF MetaGives
<1>3. g = IF ~s.ok THEN [cur |-> s.cur, ctx |-> s.ctx, p |-> 0]
          ELSE [cur |-> m.cur, p |-> m.p, ctx |-> IF m.p = 0 THEN free_meta(s.ctx) ELSE s.ctx]
  BY <1>0, <1>m DEF MapGroup
<1>4. QED
  BY <1>2, <1>3 DEF GroupIs

(* Types and pages after MapGroup.                                         *)
LEMMA GroupTypes ==
    ASSUME heap_end \in HeapEnds, NEW cur \in Nat, NEW c, IsCtx(c), Fresh(c), NEW len \in Nat
    PROVE  GroupGives(c, MapGroup(cur, c, len))
<1>1. PICK s, g : s = alloc_meta(cur, c) /\ g = MapGroup(cur, c, len)
  OBVIOUS
<1>2. PICK m : m = mmap(s.cur, len)
  OBVIOUS
<1>3. /\ s.cur \in Nat /\ IsCtx(s.ctx) /\ s.ctx.nested = c.nested
      /\ Fresh(s.ctx) /\ Len(c.areas) <= Len(s.ctx.areas)
      /\ s.ok = TRUE \/ c.areas # << >> => s.ctx.areas # << >>
  <2>1. MetaGives(cur, c, s) /\ MetaKeeps(c, s)
    BY <1>1, MetaTypes, MetaPages
  <2>2. QED
    BY <2>1 DEF MetaGives, MetaKeeps
<1>4. m.cur \in Nat /\ m.p \in Nat
  BY <1>2, <1>3, MmapTypes
<1>5. CASE s.ok = FALSE /\ g.cur = s.cur /\ g.ctx = s.ctx /\ g.p = 0
  BY <1>1, <1>3, <1>5 DEF GroupGives
<1>6. CASE s.ok = TRUE /\ g.cur = m.cur /\ m.p = 0 /\ g.p = 0 /\ g.ctx = free_meta(s.ctx)
  <2>1. /\ IsCtx(g.ctx) /\ g.ctx.nested = c.nested /\ Fresh(g.ctx) /\ g.ctx.areas = s.ctx.areas
    BY <1>3, <1>6, FreeTypes DEF SameAreas
  <2>2. QED
    BY <1>1, <1>3, <1>4, <1>6, <2>1 DEF GroupGives
<1>7. CASE s.ok = TRUE /\ g.cur = m.cur /\ m.p # 0 /\ g.p = m.p /\ g.ctx = s.ctx
  BY <1>1, <1>3, <1>4, <1>7 DEF GroupGives
<1>8. GroupIs(s, m, g)
  BY <1>1, <1>2, GroupCases
<1>9. QED
  BY <1>5, <1>6, <1>7, <1>8, Zenon DEF GroupIs

(* Records after MapGroup.                                                 *)
LEMMA GroupRecords ==
    ASSUME heap_end \in HeapEnds, NEW cur \in Nat, NEW c, IsCtx(c), Fresh(c), NEW len \in Nat,
           NEW u \in Nat, Counted(c, u)
    PROVE  GroupCounts(c, u, MapGroup(cur, c, len))
<1>1. PICK s, g : s = alloc_meta(cur, c) /\ g = MapGroup(cur, c, len)
  OBVIOUS
<1>2. PICK m : m = mmap(s.cur, len)
  OBVIOUS
<1>3. /\ IsCtx(s.ctx)
      /\ s.ok = TRUE => s.ctx.areas # << >>
      /\ s.ok = TRUE => Counted(s.ctx, u + 1)
      /\ s.ok = FALSE => Counted(s.ctx, u)
      /\ u < MetasPerArea /\ Len(c.areas) <= 1 => Len(s.ctx.areas) <= 1
  <2>1. MetaGives(cur, c, s) /\ MetaKeeps(c, s) /\ MetaCounts(c, u, s)
    BY <1>1, MetaTypes, MetaPages, MetaRecords
  <2>2. QED
    BY <2>1 DEF MetaGives, MetaKeeps, MetaCounts
<1>4. CASE s.ok = FALSE /\ g.cur = s.cur /\ g.ctx = s.ctx /\ g.p = 0
  BY <1>1, <1>3, <1>4, SMTT(30) DEF GroupCounts
<1>5. CASE s.ok = TRUE /\ g.cur = m.cur /\ m.p = 0 /\ g.p = 0 /\ g.ctx = free_meta(s.ctx)
  <2>1. Counted(g.ctx, u)
    BY <1>3, <1>5, FreeCounted
  <2>2. g.ctx.areas = s.ctx.areas
    BY <1>3, <1>5, FreeTypes DEF SameAreas
  <2>3. QED
    BY <1>1, <1>3, <1>5, <2>1, <2>2 DEF GroupCounts
<1>6. CASE s.ok = TRUE /\ g.cur = m.cur /\ m.p # 0 /\ g.p = m.p /\ g.ctx = s.ctx
  BY <1>1, <1>3, <1>6 DEF GroupCounts
<1>7. GroupIs(s, m, g)
  BY <1>1, <1>2, GroupCases
<1>8. QED
  BY <1>4, <1>5, <1>6, <1>7, Zenon DEF GroupIs

-----------------------------------------------------------------------------
(* The inductive invariant.                                                *)

(* The allocator's view of the heap: before the first page of records      *)
(* nothing is held, and with one page everything is apart.                 *)
Sound(cur, c, mp) ==
    /\ cur \in Nat /\ IsMaps(mp) /\ IsCtx(c) /\ Fresh(c)
    /\ c.areas = << >> => \A i \in Ids : mp[i] = NoMap
    /\ Len(c.areas) <= 1 => Placed(cur, c.areas, mp)

MallocInv == heap_end \in HeapEnds /\ taken = {} /\ Sound(heap_cur, ctx, maps)

(* alloc_meta keeps it.                                                    *)
LEMMA SoundMeta ==
    ASSUME MallocNoWrap, heap_end \in HeapEnds, NEW cur, NEW c, NEW mp, Sound(cur, c, mp)
    PROVE  Sound(alloc_meta(cur, c).cur, alloc_meta(cur, c).ctx, mp)
<1>1. /\ cur \in Nat /\ IsMaps(mp) /\ IsCtx(c) /\ Fresh(c)
      /\ c.areas = << >> => \A i \in Ids : mp[i] = NoMap
      /\ Len(c.areas) <= 1 => Placed(cur, c.areas, mp)
  BY DEF Sound
<1>2. PICK s : s = alloc_meta(cur, c)
  OBVIOUS
<1>3. MetaGives(cur, c, s) /\ MetaKeeps(c, s)
  BY <1>1, <1>2, MetaTypes, MetaPages, Zenon
<1>4. /\ s.cur \in Nat /\ IsCtx(s.ctx) /\ Fresh(s.ctx)
      /\ s.ctx.areas = << >> => c.areas = << >>
      /\ Len(c.areas) <= Len(s.ctx.areas)
  BY <1>3 DEF MetaGives, MetaKeeps
<1>5. Len(c.areas) \in Nat /\ Len(s.ctx.areas) \in Nat
  <2>1. c.areas \in Seq(Int) /\ s.ctx.areas \in Seq(Int)
    BY <1>1, <1>4, Zenon DEF IsCtx
  <2>2. QED
    BY <2>1
<1>6. ASSUME Len(s.ctx.areas) <= 1 PROVE Placed(s.cur, s.ctx.areas, mp)
  <2>1. Placed(cur, c.areas, mp)
    BY <1>1, <1>4, <1>5, <1>6
  <2>2. QED
    BY <1>1, <1>2, <1>6, <2>1, PlacedMeta
<1>7. QED
  BY <1>1, <1>2, <1>4, <1>6 DEF Sound

(* So does a change that leaves the pages alone.                           *)
LEMMA SoundSame ==
    ASSUME NEW cur, NEW c, NEW d, NEW mp, Sound(cur, c, mp), SameAreas(c, d), c.areas # << >>
    PROVE  Sound(cur, d, mp)
  BY DEF Sound, SameAreas

(* And an mmap, whether or not its pages are used.                         *)
LEMMA SoundMmap ==
    ASSUME MallocNoWrap, heap_end \in HeapEnds, NEW cur, NEW c, NEW mp, Sound(cur, c, mp),
           NEW i \in Ids, NEW len \in Lens \cup BigLens
    PROVE  LET m == mmap(cur, len)
           IN  /\ Sound(m.cur, c, mp)
               /\ m.p # 0 /\ c.areas # << >> => Sound(m.cur, c, WithMap(mp, i, m.p, len))
<1>1. /\ cur \in Nat /\ IsMaps(mp) /\ IsCtx(c) /\ Fresh(c)
      /\ c.areas = << >> => \A j \in Ids : mp[j] = NoMap
      /\ Len(c.areas) <= 1 => Placed(cur, c.areas, mp)
  BY DEF Sound
<1>2. PICK m : m = mmap(cur, len)
  OBVIOUS
<1>3. len \in Nat /\ c.areas \in Seq(Int)
  BY <1>1, MallocAssumption DEF IsCtx
<1>4. m.cur \in Nat /\ m.p \in Nat
  BY <1>1, <1>2, <1>3, MmapTypes
<1>5. IsMaps(WithMap(mp, i, m.p, len))
  BY <1>1, <1>3, <1>4 DEF IsMaps, WithMap
<1>6. Len(c.areas) <= 1 => /\ Placed(m.cur, c.areas, mp)
                           /\ m.p # 0 => Placed(m.cur, c.areas, WithMap(mp, i, m.p, len))
  BY <1>1, <1>2, <1>3, PlacedMmap
<1>7. Sound(m.cur, c, mp)
  BY <1>1, <1>4, <1>6, Zenon DEF Sound
<1>8. m.p # 0 /\ c.areas # << >> => Sound(m.cur, c, WithMap(mp, i, m.p, len))
  BY <1>1, <1>4, <1>5, <1>6, Zenon DEF Sound
<1>9. QED
  BY <1>2, <1>7, <1>8

(* A group in pages of its own.                                            *)
LEMMA SoundGroup ==
    ASSUME MallocNoWrap, heap_end \in HeapEnds, NEW cur, NEW c, NEW mp, Sound(cur, c, mp),
           NEW i \in Ids, NEW len \in Lens
    PROVE  LET g == MapGroup(cur, c, len)
           IN  /\ g.p = 0 => Sound(g.cur, g.ctx, mp)
               /\ g.p # 0 => Sound(g.cur, g.ctx, WithMap(mp, i, g.p, len))
<1>0. cur \in Nat /\ IsCtx(c) /\ Fresh(c)
  BY DEF Sound
<1>1. PICK s, g : s = alloc_meta(cur, c) /\ g = MapGroup(cur, c, len)
  OBVIOUS
<1>2. PICK m : m = mmap(s.cur, len)
  OBVIOUS
<1>3. Sound(s.cur, s.ctx, mp)
  BY <1>1, SoundMeta
<1>4. IsCtx(s.ctx) /\ (s.ok = TRUE => s.ctx.areas # << >>)
  <2>1. MetaKeeps(c, s)
    BY <1>0, <1>1, MetaPages
  <2>2. QED
    BY <1>3, <2>1 DEF Sound, MetaKeeps
<1>5. /\ Sound(m.cur, s.ctx, mp)
      /\ m.p # 0 /\ s.ctx.areas # << >> => Sound(m.cur, s.ctx, WithMap(mp, i, m.p, len))
  BY <1>2, <1>3, SoundMmap
<1>6. CASE s.ok = FALSE /\ g.cur = s.cur /\ g.ctx = s.ctx /\ g.p = 0
  BY <1>1, <1>3, <1>6, SMTT(30)
<1>7. CASE s.ok = TRUE /\ g.cur = m.cur /\ m.p = 0 /\ g.p = 0 /\ g.ctx = free_meta(s.ctx)
  <2>1. SameAreas(s.ctx, g.ctx)
    BY <1>4, <1>7, FreeTypes, SMTT(30)
  <2>2. Sound(g.cur, g.ctx, mp)
    BY <1>4, <1>5, <1>7, <2>1, SoundSame, SMTT(30)
  <2>3. QED
    BY <1>1, <1>7, <2>2, SMTT(30)
<1>8. CASE s.ok = TRUE /\ g.cur = m.cur /\ m.p # 0 /\ g.p = m.p /\ g.ctx = s.ctx
  BY <1>1, <1>4, <1>5, <1>8
<1>9. GroupIs(s, m, g)
  BY <1>0, <1>1, <1>2, GroupCases
<1>10. QED
  BY <1>6, <1>7, <1>8, <1>9, Zenon DEF GroupIs

(* Before the first request.                                               *)
LEMMA MallocStart == MallocInit => MallocInv
<1> SUFFICES ASSUME MallocInit PROVE MallocInv
  OBVIOUS
<1>1. /\ heap_cur = 0 /\ heap_end \in HeapEnds /\ maps = [i \in Ids |-> NoMap] /\ taken = {}
      /\ ctx = InitCtx
  BY DEF MallocInit, Init
<1>2. IsMaps(maps) /\ \A i \in Ids : maps[i] = NoMap
  BY <1>1 DEF IsMaps, NoMap
<1>3. /\ DOMAIN ctx = Fields /\ ctx.brk = 0 /\ ctx.avail_meta_areas = 0
      /\ ctx.avail_meta_area_count = 0 /\ ctx.avail_meta_count = 0 /\ ctx.meta_alloc_n = 2
      /\ ctx.free_metas = 0 /\ ctx.nested = 0 /\ ctx.areas = << >>
  BY <1>1 DEF InitCtx, Fields
<1>4. IsCtx(ctx) /\ Fresh(ctx)
  BY <1>3 DEF IsCtx, Fresh
<1>5. Placed(heap_cur, ctx.areas, maps)
  BY <1>1, <1>2, <1>3, SMTT(30) DEF Placed, InArena, HeldPlaced, HeldApart, AreasPlaced
<1>6. QED
  BY <1>1, <1>2, <1>4, <1>5 DEF MallocInv, Sound

(* The states of two steps are compared at the same end of RAM.            *)
LEMMA SoundNext ==
    ASSUME MallocInv, heap_end' = heap_end, taken' = {}, Sound(heap_cur', ctx', maps')
    PROVE  MallocInv'
  BY DEF MallocInv, Sound, Placed, InArena

(* A large request.                                                        *)
LEMMA SoundBig ==
    ASSUME MallocNoWrap, MallocInv, NEW i \in Ids, NEW len \in BigLens, malloc_big(i, len)
    PROVE  MallocInv'
<1>0. heap_end \in HeapEnds /\ taken = {} /\ Sound(heap_cur, ctx, maps)
  BY DEF MallocInv
<1>1. heap_cur \in Nat /\ IsMaps(maps) /\ IsCtx(ctx) /\ Fresh(ctx)
  BY <1>0 DEF Sound
<1>2. PICK m : m = mmap(heap_cur, len)
  OBVIOUS
<1>3. PICK s : s = alloc_meta(m.cur, ctx)
  BY SMTT(30)
<1>4. /\ heap_end' = heap_end /\ taken' = taken
      /\ m.p = 0 => heap_cur' = m.cur /\ ctx' = ctx /\ maps' = maps
      /\ m.p # 0 => /\ heap_cur' = s.cur /\ ctx' = s.ctx
                    /\ maps' = Mapped(i, IF s.ok THEN m.p ELSE 0, len)
  BY <1>2, <1>3, SMTT(30) DEF malloc_big
<1>5. Sound(m.cur, ctx, maps)
  BY <1>0, <1>2, SoundMmap
<1>6. m.cur \in Nat
  BY <1>5 DEF Sound
<1>7. CASE m.p = 0
  BY <1>0, <1>4, <1>5, <1>7, SoundNext
<1>8. CASE m.p # 0
  <2>1. Sound(s.cur, s.ctx, maps)
    BY <1>0, <1>3, <1>5, SoundMeta
  <2>2. MetaGives(m.cur, ctx, s) /\ MetaKeeps(ctx, s)
    BY <1>0, <1>1, <1>3, <1>6, MetaTypes, MetaPages, SMTT(30)
  <2>3. CASE s.ok = FALSE
    <3>1. maps' = maps
      BY <1>4, <1>8, <2>3, SMTT(30) DEF Mapped
    <3>2. QED
      BY <1>0, <1>4, <1>8, <2>1, <3>1, SoundNext, SMTT(30)
  <2>4. CASE s.ok = TRUE
    <3>1. PICK nm : nm = WithMap(maps, i, m.p, len)
      BY SMTT(30)
    <3>2. maps' = nm
      BY <1>4, <1>8, <2>4, <3>1, SMTT(30) DEF Mapped, WithMap
    <3>3. len \in Nat /\ ctx.areas \in Seq(Int) /\ s.ctx.areas \in Seq(Int)
      <4>1. IsCtx(s.ctx)
        BY <2>1 DEF Sound
      <4>2. QED
        BY <1>1, <4>1, MallocAssumption DEF IsCtx
    <3>4. IsMaps(nm) /\ s.ctx.areas # << >> /\ Len(ctx.areas) <= Len(s.ctx.areas)
      <4>1. m.p \in Nat
        BY <1>0, <1>1, <1>2, <3>3, MmapTypes
      <4>2. IsMaps(nm)
        BY <1>1, <3>1, <3>3, <4>1, SMTT(30) DEF IsMaps, WithMap
      <4>3. QED
        BY <2>2, <2>4, <4>2 DEF MetaKeeps
    <3>5. ASSUME Len(s.ctx.areas) <= 1 PROVE Placed(s.cur, s.ctx.areas, nm)
      <4>1. Len(ctx.areas) <= 1
        BY <3>3, <3>4, <3>5
      <4>2. Placed(heap_cur, ctx.areas, maps)
        BY <1>0, <4>1 DEF Sound
      <4>3. Placed(m.cur, ctx.areas, nm)
        BY <1>0, <1>1, <1>2, <1>8, <3>1, <3>3, <4>2, PlacedMmap
      <4>4. QED
        BY <1>0, <1>1, <1>3, <1>6, <3>4, <3>5, <4>3, PlacedMeta, SMTT(30)
    <3>6. Sound(s.cur, s.ctx, nm)
      BY <2>1, <3>4, <3>5, Zenon DEF Sound
    <3>7. QED
      BY <1>0, <1>4, <1>8, <3>2, <3>6, SoundNext
  <2>5. QED
    BY <2>2, <2>3, <2>4, Zenon DEF MetaGives
<1>9. QED
  BY <1>7, <1>8

(* A record is given back only by a group that is in use, and a group in   *)
(* use has its record in a page.                                           *)
LEMMA SoundFree ==
    ASSUME MallocInv, \/ \E i \in Ids : free_group(i)
                      \/ free_group_nested
    PROVE  MallocInv'
<1>0. heap_end \in HeapEnds /\ taken = {} /\ Sound(heap_cur, ctx, maps)
  BY DEF MallocInv
<1>1. /\ IsMaps(maps) /\ IsCtx(ctx) /\ Fresh(ctx) /\ ctx.nested \in Nat
      /\ ctx.areas = << >> => \A i \in Ids : maps[i] = NoMap
  BY <1>0 DEF Sound, IsCtx
<1>2. PICK d : d = free_meta(ctx)
  OBVIOUS
<1>3. SameAreas(ctx, d) /\ IsCtx(d)
  BY <1>1, <1>2, FreeTypes DEF SameAreas
<1>4. ASSUME NEW i \in Ids, free_group(i)
      PROVE  MallocInv'
  <2>1. /\ maps[i] # NoMap /\ maps' = [maps EXCEPT ![i] = NoMap] /\ ctx' = d
        /\ heap_cur' = heap_cur /\ heap_end' = heap_end /\ taken' = {}
    BY <1>0, <1>2, <1>4 DEF free_group, sys_munmap, Held
  <2>2. PICK nm : nm = [maps EXCEPT ![i] = NoMap]
    BY Zenon
  <2>3. IsMaps(nm)
    BY <1>1, <2>2 DEF IsMaps, NoMap
  <2>4. ctx.areas # << >>
    BY <1>1, <2>1
  <2>5. Len(ctx.areas) <= 1 => Placed(heap_cur, ctx.areas, nm)
    BY <1>0, <1>1, <2>2, PlacedUnmap, Zenon DEF Sound
  <2>6. Sound(heap_cur, ctx, nm)
    BY <1>0, <2>3, <2>4, <2>5, SMTT(30) DEF Sound
  <2>7. Sound(heap_cur, d, nm)
    BY <1>3, <2>4, <2>6, SoundSame
  <2>8. QED
    BY <2>1, <2>2, <2>7, SoundNext
<1>5. ASSUME free_group_nested
      PROVE  MallocInv'
  <2>1. /\ ctx.nested > 0 /\ ctx' = [d EXCEPT !.nested = @ - 1]
        /\ maps' = maps /\ heap_cur' = heap_cur /\ heap_end' = heap_end /\ taken' = {}
    BY <1>0, <1>2, <1>5 DEF free_group_nested, vars
  <2>2. ctx.areas # << >> /\ d.areas # << >>
    BY <1>1, <1>3, <2>1 DEF Fresh, SameAreas
  <2>3. d.nested - 1 \in Nat /\ ctx' = [d EXCEPT !.nested = d.nested - 1]
    BY <1>1, <1>2, <2>1, FreeTypes
  <2>4. SameAreas(d, ctx')
    BY <1>3, <2>3, NestedTypes
  <2>5. Sound(heap_cur, d, maps)
    BY <1>0, <1>3, <2>2, SoundSame
  <2>6. Sound(heap_cur, ctx', maps)
    BY <2>2, <2>4, <2>5, SoundSame
  <2>7. QED
    BY <2>1, <2>6, SoundNext
<1>6. QED
  BY <1>4, <1>5

(* Small groups, in pages of their own or in slots of others.              *)
LEMMA SoundSmall ==
    ASSUME MallocNoWrap, MallocInv,
           \/ \E i \in Ids, len \in Lens : alloc_group(i, len) \/ alloc_group_nested_in(i, len)
           \/ alloc_group_nested
    PROVE  MallocInv'
<1>0. heap_end \in HeapEnds /\ taken = {} /\ Sound(heap_cur, ctx, maps)
  BY DEF MallocInv
<1>1. heap_cur \in Nat /\ IsCtx(ctx) /\ Fresh(ctx)
  BY <1>0 DEF Sound
<1>2. PICK s : s = alloc_meta(heap_cur, ctx)
  OBVIOUS
<1>3. Sound(s.cur, s.ctx, maps)
  BY <1>0, <1>2, SoundMeta, SMTT(30)
<1>4. /\ s.cur \in Nat /\ s.ok \in BOOLEAN /\ IsCtx(s.ctx) /\ Fresh(s.ctx)
      /\ s.ok = TRUE => s.ctx.areas # << >>
      /\ s.ctx.nested + 1 \in Nat
  <2>1. MetaGives(heap_cur, ctx, s) /\ MetaKeeps(ctx, s)
    BY <1>0, <1>1, <1>2, MetaTypes, MetaPages
  <2>2. QED
    BY <2>1 DEF MetaGives, MetaKeeps, IsCtx
<1>5. ASSUME NEW i \in Ids, NEW len \in Lens, alloc_group(i, len)
      PROVE  MallocInv'
  <2>1. PICK g : g = MapGroup(heap_cur, ctx, len)
    OBVIOUS
  <2>2. /\ heap_cur' = g.cur /\ ctx' = g.ctx /\ heap_end' = heap_end /\ taken' = {}
        /\ maps' = IF g.p = 0 THEN maps ELSE WithMap(maps, i, g.p, len)
    BY <1>0, <1>5, <2>1 DEF alloc_group, Mapped, WithMap
  <2>3. /\ g.p = 0 => Sound(g.cur, g.ctx, maps)
        /\ g.p # 0 => Sound(g.cur, g.ctx, WithMap(maps, i, g.p, len))
    BY <1>0, <2>1, SoundGroup
  <2>4. Sound(heap_cur', ctx', maps')
    BY <2>2, <2>3
  <2>5. QED
    BY <2>2, <2>4, SoundNext
<1>6. ASSUME alloc_group_nested
      PROVE  MallocInv'
  <2>1. /\ heap_cur' = s.cur /\ maps' = maps /\ heap_end' = heap_end /\ taken' = {}
        /\ ctx' = IF s.ok THEN [s.ctx EXCEPT !.nested = s.ctx.nested + 1] ELSE s.ctx
    BY <1>0, <1>2, <1>6 DEF alloc_group_nested
  <2>2. CASE s.ok = TRUE
    <3>1. SameAreas(s.ctx, ctx')
      BY <1>4, <2>1, <2>2, NestedTypes
    <3>2. Sound(s.cur, ctx', maps)
      BY <1>3, <1>4, <2>2, <3>1, SoundSame
    <3>3. QED
      BY <2>1, <3>2, SoundNext
  <2>3. CASE s.ok = FALSE
    BY <1>3, <2>1, <2>3, SoundNext
  <2>4. QED
    BY <1>4, <2>2, <2>3, Zenon
<1>7. ASSUME NEW i \in Ids, NEW len \in Lens, alloc_group_nested_in(i, len)
      PROVE  MallocInv'
  <2>1. PICK g : g = MapGroup(s.cur, s.ctx, len)
    BY SMTT(30)
  <2>2. /\ s.ok /\ heap_cur' = g.cur /\ heap_end' = heap_end /\ taken' = {}
        /\ maps' = IF g.p = 0 THEN maps ELSE WithMap(maps, i, g.p, len)
        /\ ctx' = IF g.p = 0 THEN free_meta(g.ctx)
                             ELSE [g.ctx EXCEPT !.nested = g.ctx.nested + 1]
    BY <1>0, <1>2, <1>7, <2>1 DEF alloc_group_nested_in, Mapped, WithMap
  <2>3. /\ g.p = 0 => Sound(g.cur, g.ctx, maps)
        /\ g.p # 0 => Sound(g.cur, g.ctx, WithMap(maps, i, g.p, len))
    BY <1>0, <1>3, <2>1, SoundGroup, Zenon
  <2>4. Sound(g.cur, g.ctx, maps')
    BY <2>2, <2>3
  <2>5. IsCtx(g.ctx) /\ g.ctx.areas # << >> /\ g.ctx.nested + 1 \in Nat
    <3>1. s.ok = TRUE /\ len \in Nat
      BY <1>4, <2>2, MallocAssumption
    <3>2. GroupGives(s.ctx, g)
      BY <1>0, <1>4, <2>1, <3>1, GroupTypes
    <3>3. QED
      BY <1>4, <3>1, <3>2 DEF GroupGives, IsCtx
  <2>6. SameAreas(g.ctx, ctx')
    <3>1. SameAreas(g.ctx, free_meta(g.ctx))
      BY <2>5, FreeTypes
    <3>2. SameAreas(g.ctx, [g.ctx EXCEPT !.nested = g.ctx.nested + 1])
      BY <2>5, NestedTypes
    <3>3. QED
      BY <2>2, <3>1, <3>2
  <2>7. Sound(g.cur, ctx', maps')
    BY <2>4, <2>5, <2>6, SoundSame
  <2>8. QED
    BY <2>2, <2>7, SoundNext
<1>8. QED
  BY <1>5, <1>6, <1>7

(* Every step of the allocator keeps the invariant.                        *)
LEMMA MallocStep ==
    ASSUME MallocNoWrap, MallocInv, [MallocNext]_mvars
    PROVE  MallocInv'
<1>1. CASE UNCHANGED mvars
  BY <1>1 DEF mvars, MallocInv, Sound, Placed, InArena
<1>2. QED
  BY <1>1, SoundSmall, SoundBig, SoundFree, SMTT(30) DEF MallocNext

(* While one page of records is enough, everything held lies in the arena  *)
(* and nothing is held twice.                                              *)
LEMMA InvApart ==
    ASSUME MallocInv, Len(ctx.areas) <= 1
    PROVE  WithinArena /\ MallocDisjoint
<1>1. /\ heap_end \in HeapEnds /\ taken = {} /\ heap_cur \in Nat /\ IsMaps(maps)
      /\ InArena(heap_cur) /\ HeldPlaced(heap_cur, maps) /\ HeldApart(maps)
      /\ AreasPlaced(heap_cur, ctx.areas, maps) /\ ctx.areas \in Seq(Int)
  BY DEF MallocInv, Sound, Placed, IsCtx
<1>2. heap_init(heap_cur) \in Nat /\ heap_init(heap_cur) <= heap_end
  BY <1>1, Sizes DEF InArena, heap_init
<1>3. \A i \in Ids : maps[i].hi \in Nat
  BY <1>1 DEF IsMaps
<1>4. WithinArena
  BY <1>1, <1>2, <1>3, Sizes, SMTT(30) DEF WithinArena, InArena, HeldPlaced, Held
<1>5. MapsDisjoint
  BY <1>1 DEF MapsDisjoint, HeldApart, Held, Apart
<1>6. \A k, l \in DOMAIN ctx.areas : k = l
  BY <1>1
<1>7. MallocDisjoint
  BY <1>1, <1>5, <1>6, Zenon DEF MallocDisjoint, AreasPlaced, Held
<1>8. QED
  BY <1>4, <1>7

(* As long as no request wraps the pointer, brk and mmap can share the     *)
(* arena until alloc_meta (malloc.c:42-112) needs a second page of         *)
(* records: groups, large allocations and the page of records lie in the   *)
(* arena and share no byte.                                                *)
THEOREM OnePageSafe ==
    ASSUME MallocNoWrap
    PROVE  MallocSpec => [](Len(ctx.areas) <= 1 => WithinArena /\ MallocDisjoint)
<1>1. ASSUME MallocInv, [MallocNext]_mvars PROVE MallocInv'
  BY <1>1, MallocStep
<1>2. MallocInv => (Len(ctx.areas) <= 1 => WithinArena /\ MallocDisjoint)
  BY InvApart
<1>3. QED
  BY MallocStart, <1>1, <1>2, PTL DEF MallocSpec

-----------------------------------------------------------------------------
(* How many groups one page of records is enough for.                      *)

(* The groups that can be in use at once have records in one page.         *)
FewGroups == IsFiniteSet(Ids) /\ Cardinality(Ids) + NestedBound <= MetasPerArea

CountInv ==
    /\ Len(ctx.areas) <= 1 /\ ctx.nested <= NestedBound
    /\ Counted(ctx, ctx.nested + Cardinality(Held))

(* There are no more groups than names for them.                           *)
LEMMA HeldFinite ==
    ASSUME FewGroups
    PROVE  /\ IsFiniteSet(Held) /\ Cardinality(Held) \in Nat /\ Cardinality(Ids) \in Nat
           /\ Cardinality(Held) <= Cardinality(Ids)
           /\ \A i \in Ids \ Held : Cardinality(Held) + 1 <= Cardinality(Ids)
<1>1. IsFiniteSet(Ids) /\ Held \subseteq Ids
  BY DEF FewGroups, Held
<1>2. /\ IsFiniteSet(Held) /\ Cardinality(Held) <= Cardinality(Ids)
      /\ Cardinality(Held) \in Nat /\ Cardinality(Ids) \in Nat
  BY <1>1, FS_Subset, FS_CardinalityType
<1>3. ASSUME NEW i \in Ids \ Held
      PROVE  Cardinality(Held) + 1 <= Cardinality(Ids)
  <2>1. Cardinality(Held \cup {i}) = Cardinality(Held) + 1
    BY <1>2, <1>3, FS_AddElement, Zenon
  <2>2. Held \cup {i} \subseteq Ids
    BY <1>1, <1>3
  <2>3. Cardinality(Held \cup {i}) <= Cardinality(Ids)
    BY <1>1, <2>2, FS_Subset
  <2>4. QED
    BY <2>1, <2>3
<1>4. QED
  BY <1>2, <1>3

(* The number of groups in pages of their own, after a step.               *)
LEMMA HeldCounts ==
    ASSUME FewGroups, IsMaps(maps)
    PROVE  /\ maps' = maps => Cardinality(Held') = Cardinality(Held)
           /\ \A i \in Ids \ Held, p \in Nat \ {0}, len \in Nat :
                  maps' = WithMap(maps, i, p, len) => Cardinality(Held') = Cardinality(Held) + 1
           /\ \A i \in Held :
                  maps' = [maps EXCEPT ![i] = NoMap] => Cardinality(Held') = Cardinality(Held) - 1
<1>1. IsFiniteSet(Held)
  BY HeldFinite
<1>2. maps' = maps => Held' = Held
  BY DEF Held
<1>3. ASSUME NEW i \in Ids \ Held, NEW p \in Nat \ {0}, NEW len \in Nat,
             maps' = WithMap(maps, i, p, len)
      PROVE  Cardinality(Held') = Cardinality(Held) + 1
  <2>1. maps'[i].lo = p /\ \A j \in Ids : j # i => maps'[j] = maps[j]
    BY <1>3 DEF IsMaps, WithMap
  <2>2. maps'[i] # NoMap
    BY <2>1 DEF NoMap
  <2>3. Held' = Held \cup {i}
    BY <2>1, <2>2 DEF Held
  <2>4. QED
    BY <1>1, <2>3, FS_AddElement, Zenon
<1>4. ASSUME NEW i \in Held, maps' = [maps EXCEPT ![i] = NoMap]
      PROVE  Cardinality(Held') = Cardinality(Held) - 1
  <2>1. Held' = Held \ {i}
    BY <1>4 DEF Held, IsMaps
  <2>2. QED
    BY <1>1, <2>1, FS_RemoveElement
<1>5. QED
  BY <1>2, <1>3, <1>4

(* The count does not depend on where the nested groups are.               *)
LEMMA CountedSame ==
    ASSUME NEW c, NEW d, NEW u, Counted(c, u), d.areas = c.areas, Spare(d) = Spare(c)
    PROVE  Counted(d, u)
  BY DEF Counted

(* Nothing is in use at the start.                                         *)
LEMMA CountStart == ASSUME FewGroups PROVE MallocInit => CountInv
<1> SUFFICES ASSUME MallocInit PROVE CountInv
  OBVIOUS
<1>1. Held = {}
  BY DEF MallocInit, Init, Held
<1>2. Cardinality(Held) = 0
  BY <1>1, FS_EmptySet
<1>3. ctx.areas = << >> /\ ctx.nested = 0
  BY DEF MallocInit, InitCtx
<1>4. QED
  BY <1>2, <1>3, MallocAssumption DEF CountInv, Counted

(* A step that leaves u records in use of one page at most.                *)
LEMMA CountNext ==
    ASSUME NEW n \in Nat, NEW k \in Nat, NEW u, u = n + k, ctx'.nested = n, n <= NestedBound,
           Cardinality(Held') = k, Len(ctx'.areas) <= 1, Counted(ctx', u)
    PROVE  CountInv'
  BY DEF CountInv

(* The groups that a step finds in use, and the room that is left.         *)
Counts(n, k) ==
    /\ n \in Nat /\ k \in Nat /\ n + k \in Nat
    /\ n = ctx.nested /\ k = Cardinality(Held) /\ n <= NestedBound
    /\ \A i \in Ids \ Held : n + k < MetasPerArea
    /\ \A i \in Ids \ Held : n < NestedBound => n + k + 1 < MetasPerArea
    /\ n < NestedBound => n + k < MetasPerArea
    /\ Counted(ctx, n + k) /\ Len(ctx.areas) <= 1

(* What the count says of the state a step starts in.                      *)
LEMMA CountsHold ==
    ASSUME FewGroups, MallocInv, CountInv
    PROVE  Counts(ctx.nested, Cardinality(Held))
<1>1. PICK n \in Nat, k \in Nat : n = ctx.nested /\ k = Cardinality(Held)
  BY HeldFinite DEF MallocInv, Sound, IsCtx
<1>2. PICK c \in Nat : c = Cardinality(Ids)
  BY HeldFinite
<1>3. /\ k <= c /\ c + NestedBound <= MetasPerArea /\ n <= NestedBound
      /\ \A i \in Ids \ Held : k + 1 <= c
  BY <1>1, <1>2, HeldFinite DEF FewGroups, CountInv
<1>4. MetasPerArea \in Nat /\ NestedBound \in Nat
  BY MallocAssumption
<1>5. /\ n + k \in Nat
      /\ \A i \in Ids \ Held : n + k < MetasPerArea
      /\ \A i \in Ids \ Held : n < NestedBound => n + k + 1 < MetasPerArea
      /\ n < NestedBound => n + k < MetasPerArea
  BY <1>3, <1>4
<1>6. Counts(n, k)
  BY <1>1, <1>3, <1>5 DEF Counts, CountInv
<1>7. QED
  BY <1>1, <1>6

(* Small groups.                                                           *)
LEMMA CountSmall ==
    ASSUME FewGroups, MallocInv, CountInv,
           \/ \E i \in Ids, len \in Lens : alloc_group(i, len) \/ alloc_group_nested_in(i, len)
           \/ alloc_group_nested
    PROVE  CountInv'
<1>0. /\ heap_end \in HeapEnds /\ heap_cur \in Nat /\ IsMaps(maps) /\ IsCtx(ctx) /\ Fresh(ctx)
  BY DEF MallocInv, Sound
<1>1. PICK n, k : n = ctx.nested /\ k = Cardinality(Held) /\ Counts(n, k)
  BY CountsHold
<1>2. PICK u \in Nat : u = n + k
  BY <1>1 DEF Counts
<1>3. /\ n \in Nat /\ k \in Nat /\ n <= NestedBound /\ Counted(ctx, u) /\ Len(ctx.areas) <= 1
      /\ \A i \in Ids \ Held : u < MetasPerArea
      /\ \A i \in Ids \ Held : n < NestedBound => u + 1 < MetasPerArea
      /\ n < NestedBound => u < MetasPerArea
  BY <1>1, <1>2 DEF Counts
<1>4. PICK s : s = alloc_meta(heap_cur, ctx)
  OBVIOUS
<1>5. /\ s.cur \in Nat /\ s.ok \in BOOLEAN /\ IsCtx(s.ctx) /\ Fresh(s.ctx) /\ s.ctx.nested = n
      /\ s.ok = TRUE => s.ctx.areas # << >> /\ Counted(s.ctx, u + 1)
      /\ s.ok = FALSE => Counted(s.ctx, u)
      /\ u < MetasPerArea => Len(s.ctx.areas) <= 1
  <2>1. MetaGives(heap_cur, ctx, s) /\ MetaKeeps(ctx, s)
    BY <1>0, <1>4, MetaTypes, MetaPages
  <2>2. MetaCounts(ctx, u, s)
    BY <1>0, <1>3, <1>4, MetaRecords
  <2>3. QED
    BY <1>1, <1>3, <2>1, <2>2, Zenon DEF MetaGives, MetaKeeps, MetaCounts
<1>6. /\ u + 1 = n + (k + 1) /\ u + 1 = (n + 1) + k /\ u + 1 + 1 = (n + 1) + (k + 1)
      /\ u + 1 \in Nat /\ n + 1 \in Nat /\ k + 1 \in Nat
      /\ n < NestedBound => n + 1 <= NestedBound
  BY <1>2, <1>3, MallocAssumption
<1>7. ASSUME NEW i \in Ids, NEW len \in Lens, alloc_group(i, len)
      PROVE  CountInv'
  <2>1. PICK g : g = MapGroup(heap_cur, ctx, len)
    OBVIOUS
  <2>2. /\ i \in Ids \ Held /\ ctx' = g.ctx /\ len \in Nat
        /\ maps' = IF g.p = 0 THEN maps ELSE WithMap(maps, i, g.p, len)
    BY <1>7, <2>1, MallocAssumption DEF alloc_group, Mapped, WithMap
  <2>3. /\ g.p \in Nat /\ g.ctx.nested = n /\ Len(g.ctx.areas) <= 1
        /\ g.p # 0 => Counted(g.ctx, u + 1)
        /\ g.p = 0 => Counted(g.ctx, u)
    <3>1. GroupGives(ctx, g) /\ GroupCounts(ctx, u, g)
      BY <1>0, <1>3, <2>1, <2>2, GroupTypes, GroupRecords
    <3>2. QED
      BY <1>1, <1>3, <2>2, <3>1, ZenonT(30) DEF GroupGives, GroupCounts
  <2>4. CASE g.p = 0
    <3>1. Cardinality(Held') = k
      BY <1>0, <1>1, <2>2, <2>4, HeldCounts
    <3>2. QED
      BY <1>2, <1>3, <2>2, <2>3, <2>4, <3>1, CountNext, Zenon
  <2>5. CASE g.p # 0
    <3>1. Cardinality(Held') = k + 1
      BY <1>0, <1>1, <2>2, <2>3, <2>5, HeldCounts, Zenon
    <3>2. QED
      BY <1>3, <1>6, <2>2, <2>3, <2>5, <3>1, CountNext, Zenon
  <2>6. QED
    BY <2>4, <2>5
<1>8. ASSUME alloc_group_nested
      PROVE  CountInv'
  <2>1. /\ n < NestedBound /\ maps' = maps
        /\ ctx' = IF s.ok THEN [s.ctx EXCEPT !.nested = n + 1] ELSE s.ctx
    BY <1>1, <1>4, <1>5, <1>8 DEF alloc_group_nested
  <2>2. Cardinality(Held') = k
    BY <1>0, <1>1, <2>1, HeldCounts
  <2>3. Len(s.ctx.areas) <= 1
    BY <1>3, <1>5, <2>1
  <2>4. CASE s.ok = TRUE
    <3>1. ctx'.areas = s.ctx.areas /\ ctx'.nested = n + 1 /\ Spare(ctx') = Spare(s.ctx)
      BY <1>5, <1>6, <2>1, <2>4, NestedTypes, SMTT(30) DEF SameAreas
    <3>2. Counted(ctx', u + 1)
      BY <1>5, <2>4, <3>1, CountedSame
    <3>3. QED
      BY <1>3, <1>6, <2>1, <2>2, <2>3, <3>1, <3>2, CountNext, Zenon
  <2>5. CASE s.ok = FALSE
    BY <1>2, <1>3, <1>5, <2>1, <2>2, <2>3, <2>5, CountNext, SMTT(30)
  <2>6. QED
    BY <1>5, <2>4, <2>5, Zenon
<1>9. ASSUME NEW i \in Ids, NEW len \in Lens, alloc_group_nested_in(i, len)
      PROVE  CountInv'
  <2>1. PICK g : g = MapGroup(s.cur, s.ctx, len)
    OBVIOUS
  <2>2. /\ i \in Ids \ Held /\ s.ok = TRUE /\ n < NestedBound /\ len \in Nat
        /\ maps' = IF g.p = 0 THEN maps ELSE WithMap(maps, i, g.p, len)
        /\ ctx' = IF g.p = 0 THEN free_meta(g.ctx)
                             ELSE [g.ctx EXCEPT !.nested = g.ctx.nested + 1]
    BY <1>1, <1>4, <1>5, <1>9, <2>1, MallocAssumption, Zenon DEF alloc_group_nested_in, Mapped, WithMap
  <2>3. u < MetasPerArea /\ u + 1 < MetasPerArea /\ Counted(s.ctx, u + 1) /\ Len(s.ctx.areas) <= 1
    BY <1>3, <1>5, <2>2
  <2>4. /\ g.p \in Nat /\ IsCtx(g.ctx) /\ g.ctx.nested = n /\ Len(g.ctx.areas) <= 1
        /\ g.ctx.areas # << >>
        /\ g.p # 0 => Counted(g.ctx, u + 1 + 1)
        /\ g.p = 0 => Counted(g.ctx, u + 1)
    <3>1. GroupGives(s.ctx, g) /\ GroupCounts(s.ctx, u + 1, g)
      BY <1>0, <1>5, <1>6, <2>1, <2>2, <2>3, GroupTypes, GroupRecords
    <3>2. QED
      BY <1>5, <2>2, <2>3, <3>1 DEF GroupGives, GroupCounts
  <2>5. CASE g.p = 0
    <3>1. Cardinality(Held') = k
      BY <1>0, <1>1, <2>2, <2>5, HeldCounts
    <3>2. Counted(ctx', u) /\ ctx'.nested = n /\ ctx'.areas = g.ctx.areas
      BY <2>2, <2>4, <2>5, FreeCounted, FreeTypes DEF SameAreas
    <3>3. QED
      BY <1>2, <1>3, <2>4, <3>1, <3>2, CountNext, Zenon
  <2>6. CASE g.p # 0
    <3>1. Cardinality(Held') = k + 1
      BY <1>0, <1>1, <2>2, <2>4, <2>6, HeldCounts
    <3>2. ctx'.areas = g.ctx.areas /\ ctx'.nested = n + 1 /\ Spare(ctx') = Spare(g.ctx)
      BY <1>6, <2>2, <2>4, <2>6, NestedTypes DEF SameAreas
    <3>3. Counted(ctx', u + 1 + 1)
      BY <2>4, <2>6, <3>2, CountedSame, Zenon
    <3>4. QED
      BY <1>6, <2>2, <2>4, <3>1, <3>2, <3>3, CountNext
  <2>7. QED
    BY <2>5, <2>6
<1>10. QED
  BY <1>7, <1>8, <1>9

(* Large requests and frees.                                               *)
LEMMA CountOthers ==
    ASSUME FewGroups, MallocInv, CountInv,
           \/ \E i \in Ids, len \in BigLens : malloc_big(i, len)
           \/ \E i \in Ids : free_group(i)
           \/ free_group_nested
    PROVE  CountInv'
<1>0. /\ heap_end \in HeapEnds /\ heap_cur \in Nat /\ IsMaps(maps) /\ IsCtx(ctx) /\ Fresh(ctx)
      /\ ctx.areas = << >> => \A j \in Ids : maps[j] = NoMap
  BY DEF MallocInv, Sound
<1>1. PICK n, k : n = ctx.nested /\ k = Cardinality(Held) /\ Counts(n, k)
  BY CountsHold
<1>2. PICK u \in Nat : u = n + k
  BY <1>1 DEF Counts
<1>3. /\ n \in Nat /\ k \in Nat /\ n <= NestedBound /\ Counted(ctx, u) /\ Len(ctx.areas) <= 1
      /\ \A i \in Ids \ Held : u < MetasPerArea
  BY <1>1, <1>2 DEF Counts
<1>4. u + 1 = n + (k + 1) /\ k + 1 \in Nat
  BY <1>2, <1>3
<1>5. PICK d : d = free_meta(ctx)
  OBVIOUS
<1>6. /\ IsCtx(d) /\ d.areas = ctx.areas /\ d.nested = n
      /\ \A v \in Nat : u = v + 1 /\ ctx.areas # << >> => Counted(d, v)
  BY <1>0, <1>1, <1>3, <1>5, FreeTypes, FreeCounted, Zenon DEF SameAreas
<1>7. ASSUME NEW i \in Ids, NEW len \in BigLens, malloc_big(i, len)
      PROVE  CountInv'
  <2>1. PICK m : m = mmap(heap_cur, len)
    OBVIOUS
  <2>2. PICK s : s = alloc_meta(m.cur, ctx)
    OBVIOUS
  <2>3. /\ i \in Ids \ Held /\ len \in Nat
        /\ m.p = 0 => ctx' = ctx /\ maps' = maps
        /\ m.p # 0 => /\ ctx' = s.ctx
                      /\ maps' = Mapped(i, IF s.ok THEN m.p ELSE 0, len)
    BY <1>7, <2>1, <2>2, MallocAssumption, Zenon DEF malloc_big
  <2>4. m.cur \in Nat /\ m.p \in Nat
    BY <1>0, <2>1, <2>3, MmapTypes, Zenon
  <2>5. /\ s.ok \in BOOLEAN /\ s.ctx.nested = n /\ Len(s.ctx.areas) <= 1
        /\ s.ok = TRUE => Counted(s.ctx, u + 1)
        /\ s.ok = FALSE => Counted(s.ctx, u)
    <3>1. MetaGives(m.cur, ctx, s) /\ MetaCounts(ctx, u, s)
      BY <1>0, <1>3, <2>2, <2>4, MetaTypes, MetaRecords, Zenon
    <3>2. QED
      BY <1>1, <1>3, <2>3, <3>1, Zenon DEF MetaGives, MetaCounts
  <2>6. CASE m.p = 0
    <3>1. Cardinality(Held') = k
      BY <1>0, <1>1, <2>3, <2>6, HeldCounts, SMTT(30)
    <3>2. QED
      BY <1>1, <1>2, <1>3, <2>3, <2>6, <3>1, CountNext, ZenonT(30)
  <2>7. CASE m.p # 0 /\ s.ok = FALSE
    <3>1. Cardinality(Held') = k
      BY <1>0, <1>1, <2>3, <2>7, HeldCounts, SMTT(30) DEF Mapped
    <3>2. QED
      BY <1>2, <1>3, <2>3, <2>5, <2>7, <3>1, CountNext, SMTT(30)
  <2>8. CASE m.p # 0 /\ s.ok = TRUE
    <3>1. maps' = WithMap(maps, i, m.p, len)
      BY <2>3, <2>8 DEF Mapped, WithMap
    <3>2. Cardinality(Held') = k + 1
      BY <1>0, <1>1, <2>3, <2>4, <2>8, <3>1, HeldCounts
    <3>3. QED
      BY <1>3, <1>4, <2>3, <2>5, <2>8, <3>2, CountNext, SMTT(30)
  <2>9. QED
    BY <2>5, <2>6, <2>7, <2>8, Zenon
<1>8. ASSUME NEW i \in Ids, free_group(i)
      PROVE  CountInv'
  <2>1. i \in Held /\ maps' = [maps EXCEPT ![i] = NoMap] /\ ctx' = d
    BY <1>5, <1>8 DEF free_group, sys_munmap
  <2>2. Cardinality(Held') = k - 1
    BY <1>0, <1>1, <2>1, HeldCounts, Zenon
  <2>3. k - 1 \in Nat
    <3>1. k # 0
      BY <1>1, <2>1, HeldFinite, FS_EmptySet
    <3>2. QED
      BY <1>3, <3>1
  <2>4. ctx.areas # << >>
    BY <1>0, <2>1 DEF Held
  <2>5. PICK v \in Nat : v = n + (k - 1) /\ u = v + 1
    BY <1>2, <1>3, <2>3
  <2>6. Counted(d, v)
    BY <1>6, <2>4, <2>5
  <2>7. QED
    BY <1>3, <1>6, <2>1, <2>2, <2>3, <2>5, <2>6, CountNext, ZenonT(30)
<1>9. ASSUME free_group_nested
      PROVE  CountInv'
  <2>1. n > 0 /\ maps' = maps /\ ctx' = [d EXCEPT !.nested = n - 1]
    BY <1>1, <1>5, <1>6, <1>9 DEF free_group_nested, vars
  <2>2. Cardinality(Held') = k
    BY <1>0, <1>1, <2>1, HeldCounts
  <2>3. ctx.areas # << >>
    BY <1>0, <1>1, <2>1 DEF Fresh
  <2>4. n - 1 \in Nat /\ n - 1 <= NestedBound
    BY <1>3, <2>1, MallocAssumption
  <2>5. PICK v \in Nat : v = (n - 1) + k /\ u = v + 1
    BY <1>2, <1>3, <2>4
  <2>6. ctx'.areas = d.areas /\ ctx'.nested = n - 1 /\ Spare(ctx') = Spare(d)
    BY <1>6, <2>1, <2>4, NestedTypes DEF SameAreas
  <2>7. Counted(ctx', v)
    <3>1. Counted(d, v)
      BY <1>6, <2>3, <2>5
    <3>2. QED
      BY <2>6, <3>1, CountedSame
  <2>8. QED
    BY <1>3, <1>6, <2>2, <2>4, <2>5, <2>6, <2>7, CountNext, Zenon
<1>10. QED
  BY <1>7, <1>8, <1>9

(* A program that never has more groups in use than one page of records    *)
(* describes (MetasPerArea of them, malloc.c:54-112) never makes mallocng  *)
(* hand out a byte twice, and everything it holds lies in the arena.       *)
THEOREM FewGroupsSafe ==
    ASSUME MallocNoWrap, FewGroups
    PROVE  MallocSpec => [](WithinArena /\ MallocDisjoint)
<1>1. ASSUME MallocInv, CountInv, [MallocNext]_mvars PROVE MallocInv' /\ CountInv'
  <2>1. CASE UNCHANGED mvars
    <3>1. CountInv'
      BY <1>1, <2>1 DEF mvars, CountInv, Counted, Spare, Held
    <3>2. QED
      BY <1>1, <3>1, MallocStep
  <2>2. CASE MallocNext
    <3>1. CountInv'
      BY <1>1, <2>2, CountSmall, CountOthers DEF MallocNext
    <3>2. QED
      BY <1>1, <3>1, MallocStep
  <2>3. QED
    BY <1>1, <2>1, <2>2
<1>2. MallocInv /\ CountInv => WithinArena /\ MallocDisjoint
  BY InvApart DEF CountInv
<1>3. MallocInit => MallocInv /\ CountInv
  BY MallocStart, CountStart
<1>4. QED
  BY <1>1, <1>2, <1>3, PTL DEF MallocSpec

-----------------------------------------------------------------------------
(* Alignment.                                                              *)

(* Division with remainder.                                                *)
LEMMA DivMod ==
    ASSUME NEW a \in Nat \ {0}, NEW x \in Int
    PROVE  \E q \in Int : x = q * a + (x % a)
<1>1. PICK q \in Int, r \in Int : q = x \div a /\ r = x % a
  OBVIOUS
<1>2. x = q * a + r
  BY <1>1
<1>3. QED
  BY <1>1, <1>2, Zenon

(* A number without remainder is a multiple.                               *)
LEMMA Divides ==
    ASSUME NEW a \in Nat \ {0}, NEW x \in Int, x % a = 0
    PROVE  \E k \in Int : x = k * a
<1>1. PICK q \in Int : x = q * a + (x % a)
  BY DivMod, Zenon
<1>2. PICK z \in Int : z = q * a
  OBVIOUS
<1>3. x = z
  BY <1>1, <1>2
<1>4. QED
  BY <1>2, <1>3

(* And a multiple has no remainder.                                        *)
LEMMA MultipleRem ==
    ASSUME NEW a \in Nat \ {0}, NEW k \in Int
    PROVE  (k * a) % a = 0
<1>1. PICK x \in Int, q \in Int, r \in Int : x = k * a /\ q = x \div a /\ r = x % a
  OBVIOUS
<1>2. x = q * a + r /\ 0 <= r /\ r < a
  BY <1>1
<1>3. r = (k - q) * a
  BY <1>1, <1>2
<1>4. CASE k - q >= 1
  <2>1. (k - q) * a >= a
    BY <1>4
  <2>2. QED
    BY <1>2, <1>3, <2>1
<1>5. CASE k - q <= -1
  <2>1. (k - q) * a <= -a
    BY <1>5
  <2>2. QED
    BY <1>2, <1>3, <2>1
<1>6. CASE k - q = 0
  BY <1>1, <1>3, <1>6
<1>7. QED
  BY <1>4, <1>5, <1>6

(* Sums of multiples are multiples.                                        *)
LEMMA SumDivides ==
    ASSUME NEW a \in Nat \ {0}, NEW x \in Int, NEW y \in Int, x % a = 0, y % a = 0
    PROVE  (x + y) % a = 0
<1>1. PICK j \in Int : x = j * a
  BY Divides, Zenon
<1>2. PICK k \in Int : y = k * a
  BY Divides
<1>3. x + y = (j + k) * a
  BY <1>1, <1>2
<1>4. QED
  BY <1>3, MultipleRem

(* So are products.                                                        *)
LEMMA ProductDivides ==
    ASSUME NEW a \in Nat \ {0}, NEW x \in Int, NEW q \in Int, x % a = 0
    PROVE  (q * x) % a = 0
<1>1. PICK j \in Int : x = j * a
  BY Divides
<1>2. q * x = (q * j) * a /\ q * j \in Int
  BY <1>1
<1>3. QED
  BY <1>2, MultipleRem, Zenon

(* So is the remainder of a multiple by a multiple, first as an equation   *)
(* between the factors.                                                    *)
LEMMA RemFactor ==
    ASSUME NEW a \in Int, NEW j \in Int, NEW l \in Int, NEW q \in Int, NEW r \in Int,
           j * a = q * (l * a) + r
    PROVE  r = (j - q * l) * a
<1>1. (j - q * l) * a = j * a - (q * l) * a
  OBVIOUS
<1>2. (q * l) * a = q * (l * a)
  OBVIOUS
<1>3. QED
  BY <1>1, <1>2

(* Then as a remainder.                                                    *)
LEMMA RemDivides ==
    ASSUME NEW a \in Nat \ {0}, NEW x \in Int, NEW w \in Nat \ {0}, x % a = 0, w % a = 0
    PROVE  (x % w) % a = 0
<1>1. PICK q \in Int : x = q * w + (x % w)
  BY DivMod, Zenon
<1>2. PICK r \in Int : r = x % w
  OBVIOUS
<1>3. PICK j \in Int : x = j * a
  BY Divides
<1>4. PICK l \in Int : w = l * a
  BY Divides
<1>5. r = (j - q * l) * a
  <2>1. j * a = q * (l * a) + r
    BY <1>1, <1>2, <1>3, <1>4, Zenon
  <2>2. QED
    BY <2>1, RemFactor
<1>6. PICK k \in Int : k = j - q * l
  OBVIOUS
<1>7. (k * a) % a = 0
  BY MultipleRem
<1>8. QED
  BY <1>2, <1>5, <1>6, <1>7, Zenon

(* Multiples of Align.                                                     *)
Aligned(x) == x % Align = 0

(* The heap starts aligned, and so does the address space again at its end.*)
AlignedStart == Aligned(BssStop) /\ Aligned(Wrap)

(* Sums of aligned numbers, and zero.                                      *)
LEMMA AlignedSums ==
    /\ Aligned(0) /\ Aligned(Page)
    /\ \A x, y \in Int : Aligned(x) /\ Aligned(y) => Aligned(x + y)
<1>1. Align \in Nat \ {0} /\ Page % Align = 0
  BY MallocAssumption
<1>2. Aligned(0)
  BY <1>1 DEF Aligned
<1>3. ASSUME NEW x \in Int, NEW y \in Int, Aligned(x), Aligned(y)
      PROVE  Aligned(x + y)
  BY <1>1, <1>3, SumDivides, Zenon DEF Aligned
<1>4. QED
  BY <1>1, <1>2, <1>3 DEF Aligned

(* Whole pages.                                                            *)
LEMMA AlignedRoundUp ==
    ASSUME NEW n \in Nat
    PROVE  Aligned(RoundUp(n))
<1>1. Align \in Nat \ {0} /\ Page % Align = 0 /\ Page \in Nat \ {0}
  BY MallocAssumption, HeapAssumption
<1>2. PICK q \in Int : q = (n + Page - 1) \div Page
  BY <1>1
<1>3. (q * Page) % Align = 0
  <2>1. Page \in Int
    BY <1>1
  <2>2. QED
    BY <1>1, <2>1, ProductDivides, Zenon
<1>4. QED
  BY <1>2, <1>3, Zenon DEF Aligned, RoundUp

(* mmap, also when the sum wraps.                                          *)
LEMMA AlignedMmap ==
    ASSUME AlignedStart, heap_end \in HeapEnds, NEW cur \in Nat, Aligned(cur), NEW len \in Nat
    PROVE  /\ Aligned(heap_init(cur))
           /\ Aligned(mmap(cur, len).cur) /\ Aligned(mmap(cur, len).p)
<1>1. PICK p \in Nat, n \in Nat : p = heap_init(cur) /\ n = RoundUp(len)
  BY InitIsNat, RoundUpCovers
<1>2. Aligned(p)
  BY <1>1 DEF heap_init, AlignedStart
<1>3. Aligned(n) /\ Aligned(0)
  BY <1>1, AlignedRoundUp, AlignedSums
<1>4. Aligned(p + n)
  BY <1>2, <1>3, AlignedSums
<1>5. Aligned((p + n) % Wrap)
  <2>1. Align \in Nat \ {0} /\ Wrap \in Nat \ {0} /\ p + n \in Int
    BY MallocAssumption, Sizes
  <2>2. (p + n) % Align = 0 /\ Wrap % Align = 0
    BY <1>4 DEF Aligned, AlignedStart
  <2>3. QED
    BY <2>1, <2>2, RemDivides, Zenon DEF Aligned
<1>6. CASE FALSE \in Exhausted(p, heap_end, n)
  <2>1. mmap(cur, len) = [p |-> p, cur |-> (p + n) % Wrap]
    BY <1>1, <1>6 DEF mmap
  <2>2. QED
    BY <1>1, <1>2, <1>5, <2>1
<1>7. CASE FALSE \notin Exhausted(p, heap_end, n)
  <2>1. mmap(cur, len) = [p |-> 0, cur |-> p]
    BY <1>1, <1>7 DEF mmap
  <2>2. QED
    BY <1>1, <1>2, <1>3, <2>1, SMTT(30)
<1>8. QED
  BY <1>6, <1>7, Zenon

(* The pointer and the break that alloc_meta remembers.                    *)
AlignedCtx(cur, c) == cur \in Nat /\ IsCtx(c) /\ Aligned(cur) /\ (c.brk # -1 => Aligned(c.brk))

(* A page of records, from wherever.                                       *)
LEMMA AlignedFind ==
    ASSUME AlignedStart, heap_end \in HeapEnds, NEW cur, NEW c, AlignedCtx(cur, c)
    PROVE  AlignedCtx(FindArea(cur, c).cur, FindArea(cur, c).ctx)
<1>0. cur \in Nat /\ IsCtx(c) /\ Aligned(cur) /\ (c.brk # -1 => Aligned(c.brk))
  BY DEF AlignedCtx
<1>1. PICK f : f = FindArea(cur, c)
  OBVIOUS
<1>2. PICK b : b = IF c.avail_meta_area_count = 0 /\ c.brk # -1 THEN AreaFromBrk(cur, c)
                                                               ELSE Result(cur, c, TRUE)
  BY Zenon
<1>3. f = IF b.ctx.avail_meta_area_count = 0 THEN AreasFromMmap(b.cur, b.ctx) ELSE b
  BY <1>1, <1>2 DEF FindArea
<1>4. AlignedCtx(b.cur, b.ctx)
  <2>1. CASE c.avail_meta_area_count = 0 /\ c.brk # -1
    <3>1. PICK new : new = Wanted(cur, c)
      OBVIOUS
    <3>2. BrkGives(cur, c, new, b)
      BY <1>0, <1>2, <2>1, <3>1, BrkTypes
    <3>3. b.cur \in Nat /\ IsCtx(b.ctx)
      BY <3>2, Zenon DEF BrkGives
    <3>4. CASE b.ctx.brk = -1 /\ b.cur = heap_init(cur)
      <4>1. Aligned(heap_init(cur))
        BY <1>0, Sizes, AlignedMmap
      <4>2. QED
        BY <3>3, <3>4, <4>1 DEF AlignedCtx
    <3>5. CASE /\ new \in Nat /\ b.ctx.brk = new
               /\ b.cur = IF c.brk = 0 THEN mmap(new, Page).cur ELSE new
      <4>1. Aligned(RoundUp(heap_init(cur))) /\ RoundUp(heap_init(cur)) \in Nat
        BY <1>0, InitIsNat, AlignedRoundUp, RoundUpCovers
      <4>2. Page \in Int /\ 2 * Page = Page + Page /\ Aligned(Page)
        BY Sizes, AlignedSums
      <4>3. Aligned(2 * Page) /\ 2 * Page \in Int
        BY <4>2, AlignedSums
      <4>4. c.brk \in Int /\ Aligned(c.brk)
        BY <1>0, <2>1 DEF IsCtx
      <4>5. Aligned(RoundUp(heap_init(cur)) + 2 * Page) /\ Aligned(c.brk + Page)
        <5>1. PICK a \in Int, d \in Int : a = RoundUp(heap_init(cur)) /\ d = 2 * Page
          BY <4>1, <4>3
        <5>2. Aligned(a + d) /\ Aligned(c.brk + Page)
          BY <4>1, <4>2, <4>3, <4>4, <5>1, AlignedSums, Zenon
        <5>3. QED
          BY <5>1, <5>2, Zenon
      <4>6. Aligned(new)
        BY <3>1, <4>5 DEF Wanted
      <4>7. Aligned(mmap(new, Page).cur)
        BY <3>5, <4>6, Sizes, AlignedMmap
      <4>8. QED
        BY <3>3, <3>5, <4>6, <4>7 DEF AlignedCtx
    <3>6. QED
      BY <3>2, <3>4, <3>5, Zenon DEF BrkGives
  <2>2. CASE ~(c.avail_meta_area_count = 0 /\ c.brk # -1)
    <3>1. b.cur = cur /\ b.ctx = c
      BY <1>2, <2>2 DEF Result
    <3>2. QED
      BY <3>1
  <2>3. QED
    BY <2>1, <2>2
<1>5. CASE b.ctx.avail_meta_area_count = 0
  <2>0. /\ b.cur \in Nat /\ IsCtx(b.ctx) /\ Aligned(b.cur)
        /\ b.ctx.brk # -1 => Aligned(b.ctx.brk)
    BY <1>4 DEF AlignedCtx
  <2>1. PICK n \in Nat : n = b.ctx.meta_alloc_n
    BY <2>0 DEF IsCtx
  <2>2. PICK m : m = mmap(b.cur, n * Page)
    OBVIOUS
  <2>3. f = AreasFromMmap(b.cur, b.ctx)
    BY <1>3, <1>5, SMTT(30)
  <2>4. MmapGives(b.cur, b.ctx, m, f)
    BY <2>0, <2>1, <2>2, <2>3, AreasTypes, SMTT(30)
  <2>5. f.cur \in Nat /\ IsCtx(f.ctx) /\ f.cur = m.cur /\ f.ctx.brk = b.ctx.brk
    BY <2>4, SMTT(30) DEF MmapGives
  <2>6. Aligned(m.cur)
    <3>1. n * Page \in Nat
      BY Sizes, SMTT(30)
    <3>2. QED
      BY <2>0, <2>2, <3>1, AlignedMmap
  <2>7. AlignedCtx(f.cur, f.ctx)
    BY <2>0, <2>5, <2>6, SMTT(30) DEF AlignedCtx
  <2>8. QED
    BY <1>1, <2>7
<1>6. CASE b.ctx.avail_meta_area_count # 0
  BY <1>1, <1>3, <1>4, <1>6
<1>7. QED
  BY <1>5, <1>6

(* alloc_meta.                                                             *)
LEMMA AlignedMeta ==
    ASSUME AlignedStart, heap_end \in HeapEnds, NEW cur, NEW c, AlignedCtx(cur, c)
    PROVE  AlignedCtx(alloc_meta(cur, c).cur, alloc_meta(cur, c).ctx)
<1>0. cur \in Nat /\ IsCtx(c) /\ Aligned(cur) /\ (c.brk # -1 => Aligned(c.brk))
  BY DEF AlignedCtx
<1>1. PICK r : r = alloc_meta(cur, c)
  OBVIOUS
<1>2. MetaGives(cur, c, r)
  BY <1>0, <1>1, MetaTypes
<1>3. r.cur \in Nat /\ IsCtx(r.ctx)
  BY <1>2 DEF MetaGives
<1>4. CASE c.free_metas > 0
  <2>1. r.cur = cur /\ r.ctx = [c EXCEPT !.free_metas = @ - 1]
    BY <1>1, <1>4 DEF alloc_meta, Result
  <2>2. r.ctx.brk = c.brk
    BY <1>0, <2>1 DEF IsCtx, Fields
  <2>3. QED
    BY <1>0, <1>1, <1>3, <2>1, <2>2 DEF AlignedCtx
<1>5. CASE ~(c.free_metas > 0) /\ c.avail_meta_count > 0
  <2>1. r.cur = cur /\ r.ctx = [c EXCEPT !.avail_meta_count = @ - 1]
    BY <1>1, <1>5 DEF alloc_meta, Result
  <2>2. r.ctx.brk = c.brk
    BY <1>0, <2>1 DEF IsCtx, Fields
  <2>3. QED
    BY <1>0, <1>1, <1>3, <2>1, <2>2 DEF AlignedCtx
<1>6. CASE ~(c.free_metas > 0) /\ ~(c.avail_meta_count > 0)
  <2>1. PICK f : f = FindArea(cur, c)
    OBVIOUS
  <2>2. AlignedCtx(f.cur, f.ctx)
    BY <2>1, AlignedFind
  <2>3. r = IF f.ok THEN Result(f.cur, OpenArea(f.ctx), TRUE) ELSE f
    BY <1>1, <1>6, <2>1, Zenon DEF alloc_meta
  <2>4. f.ok \in BOOLEAN /\ f.ctx.free_metas = 0
    <3>1. FindGives(cur, c, f)
      BY <1>0, <2>1, FindTypes
    <3>2. c.free_metas \in Nat /\ f.ctx.free_metas = c.free_metas /\ f.ok \in BOOLEAN
      BY <1>0, <3>1, Zenon DEF FindGives, Keeps, IsCtx
    <3>3. QED
      BY <1>6, <3>2
  <2>5. CASE f.ok = FALSE
    BY <1>1, <2>2, <2>3, <2>5, ZenonT(30)
  <2>6. CASE f.ok = TRUE
    <3>1. r.cur = f.cur /\ r.ctx = OpenArea(f.ctx)
      BY <2>3, <2>6 DEF Result
    <3>2. IsCtx(f.ctx)
      BY <2>2, SMTT(30) DEF AlignedCtx
    <3>3. r.ctx.brk = f.ctx.brk
      BY <2>4, <3>1, <3>2, OpenTypes, Sizes, SMTT(30)
    <3>4. QED
      BY <1>1, <1>3, <2>2, <3>1, <3>3 DEF AlignedCtx
  <2>7. QED
    BY <2>4, <2>5, <2>6, Zenon
<1>7. QED
  BY <1>4, <1>5, <1>6

(* The inductive invariant: the pointer, the break and what is held.       *)
AlignInv ==
    /\ heap_end \in HeapEnds /\ AlignedCtx(heap_cur, ctx)
    /\ IsMaps(maps) /\ \A i \in Ids : Aligned(maps[i].lo)

(* One more group, at an aligned address.                                  *)
LEMMA AlignedMapped ==
    ASSUME IsMaps(maps), \A i \in Ids : Aligned(maps[i].lo),
           NEW i \in Ids, NEW p \in Nat, Aligned(p), NEW len \in Nat, maps' = Mapped(i, p, len)
    PROVE  IsMaps(maps') /\ \A j \in Ids : Aligned(maps'[j].lo)
<1>1. CASE p = 0
  BY <1>1 DEF Mapped
<1>2. CASE p # 0
  <2>1. maps' = [maps EXCEPT ![i] = [lo |-> p, hi |-> p + len]] /\ p + len \in Nat
    BY <1>2 DEF Mapped
  <2>2. IsMaps(maps')
    BY <2>1 DEF IsMaps
  <2>3. \A j \in Ids : maps'[j].lo = IF j = i THEN p ELSE maps[j].lo
    BY <2>1 DEF IsMaps
  <2>4. QED
    BY <2>2, <2>3
<1>3. QED
  BY <1>1, <1>2

(* Changes that leave the break alone.                                     *)
LEMMA AlignedSame ==
    ASSUME NEW cur, NEW c, AlignedCtx(cur, c), NEW n \in Nat
    PROVE  AlignedCtx(cur, free_meta(c)) /\ AlignedCtx(cur, [c EXCEPT !.nested = n])
<1>0. cur \in Nat /\ IsCtx(c) /\ Aligned(cur) /\ (c.brk # -1 => Aligned(c.brk))
  BY DEF AlignedCtx
<1>1. IsCtx(free_meta(c)) /\ IsCtx([c EXCEPT !.nested = n])
  BY <1>0, FreeTypes, NestedTypes DEF SameAreas
<1>2. free_meta(c).brk = c.brk /\ [c EXCEPT !.nested = n].brk = c.brk
  BY <1>0 DEF free_meta, IsCtx, Fields
<1>3. QED
  BY <1>0, <1>1, <1>2 DEF AlignedCtx

(* A group in pages of its own.                                            *)
LEMMA AlignedGroup ==
    ASSUME AlignedStart, heap_end \in HeapEnds, NEW cur, NEW c, AlignedCtx(cur, c), NEW len \in Nat
    PROVE  LET g == MapGroup(cur, c, len)
           IN  AlignedCtx(g.cur, g.ctx) /\ g.p \in Nat /\ Aligned(g.p)
<1>0. cur \in Nat /\ IsCtx(c)
  BY DEF AlignedCtx
<1>1. PICK s, g : s = alloc_meta(cur, c) /\ g = MapGroup(cur, c, len)
  OBVIOUS
<1>2. PICK m : m = mmap(s.cur, len)
  OBVIOUS
<1>3. AlignedCtx(s.cur, s.ctx)
  BY <1>1, AlignedMeta
<1>4. s.cur \in Nat /\ Aligned(s.cur)
  BY <1>3 DEF AlignedCtx
<1>5. m.cur \in Nat /\ m.p \in Nat /\ Aligned(m.cur) /\ Aligned(m.p)
  BY <1>2, <1>4, MmapTypes, AlignedMmap, SMTT(30)
<1>6. AlignedCtx(m.cur, s.ctx)
  BY <1>3, <1>5 DEF AlignedCtx
<1>7. AlignedCtx(m.cur, free_meta(s.ctx)) /\ Aligned(0)
  BY <1>6, AlignedSame, AlignedSums, Zenon
<1>8. GroupIs(s, m, g)
  BY <1>0, <1>1, <1>2, GroupCases, SMTT(30)
<1>9. AlignedCtx(g.cur, g.ctx) /\ g.p \in Nat /\ Aligned(g.p)
  BY <1>3, <1>5, <1>6, <1>7, <1>8, SMTT(30) DEF GroupIs
<1>10. QED
  BY <1>1, <1>9

(* Every step keeps the addresses aligned, also when a sum wraps and with  *)
(* any number of pages of records.                                         *)
LEMMA AlignStep ==
    ASSUME AlignedStart, AlignInv, [MallocNext]_mvars
    PROVE  AlignInv'
<1>0. /\ heap_end \in HeapEnds /\ AlignedCtx(heap_cur, ctx)
      /\ IsMaps(maps) /\ \A i \in Ids : Aligned(maps[i].lo)
  BY DEF AlignInv
<1>n. ASSUME heap_end' = heap_end, AlignedCtx(heap_cur', ctx'),
             IsMaps(maps'), \A i \in Ids : Aligned(maps'[i].lo)
      PROVE  AlignInv'
  BY <1>0, <1>n DEF AlignInv
<1>l. \A len \in Lens \cup BigLens : len \in Nat
  BY MallocAssumption
<1>1. PICK s : s = alloc_meta(heap_cur, ctx)
  BY SMTT(30)
<1>2. AlignedCtx(s.cur, s.ctx) /\ s.ok \in BOOLEAN /\ s.ctx.nested + 1 \in Nat
  <2>1. AlignedCtx(s.cur, s.ctx)
    BY <1>0, <1>1, AlignedMeta
  <2>2. MetaGives(heap_cur, ctx, s)
    BY <1>0, <1>1, MetaTypes DEF AlignedCtx
  <2>3. QED
    BY <2>1, <2>2 DEF MetaGives, IsCtx
<1>3. ASSUME NEW i \in Ids, NEW len \in Lens, alloc_group(i, len)
      PROVE  AlignInv'
  <2>1. PICK g : g = MapGroup(heap_cur, ctx, len)
    OBVIOUS
  <2>2. heap_cur' = g.cur /\ ctx' = g.ctx /\ heap_end' = heap_end /\ maps' = Mapped(i, g.p, len)
    BY <1>3, <2>1, SMTT(30) DEF alloc_group
  <2>3. AlignedCtx(g.cur, g.ctx) /\ g.p \in Nat /\ Aligned(g.p)
    BY <1>0, <1>l, <2>1, AlignedGroup, SMTT(30)
  <2>4. IsMaps(maps') /\ \A j \in Ids : Aligned(maps'[j].lo)
    BY <1>0, <1>l, <2>2, <2>3, AlignedMapped
  <2>5. QED
    BY <1>n, <2>2, <2>3, <2>4, Zenon
<1>4. ASSUME NEW i \in Ids, NEW len \in Lens, alloc_group_nested_in(i, len)
      PROVE  AlignInv'
  <2>1. PICK g : g = MapGroup(s.cur, s.ctx, len)
    OBVIOUS
  <2>2. /\ heap_cur' = g.cur /\ heap_end' = heap_end /\ maps' = Mapped(i, g.p, len)
        /\ ctx' = IF g.p = 0 THEN free_meta(g.ctx)
                             ELSE [g.ctx EXCEPT !.nested = g.ctx.nested + 1]
    BY <1>1, <1>4, <2>1 DEF alloc_group_nested_in
  <2>3. AlignedCtx(g.cur, g.ctx) /\ g.p \in Nat /\ Aligned(g.p)
    BY <1>0, <1>l, <1>2, <2>1, AlignedGroup, Zenon
  <2>4. IsMaps(maps') /\ \A j \in Ids : Aligned(maps'[j].lo)
    BY <1>0, <1>l, <2>2, <2>3, AlignedMapped
  <2>5. AlignedCtx(g.cur, ctx')
    <3>1. g.ctx.nested + 1 \in Nat
      BY <2>3 DEF AlignedCtx, IsCtx
    <3>2. AlignedCtx(g.cur, free_meta(g.ctx))
          /\ AlignedCtx(g.cur, [g.ctx EXCEPT !.nested = g.ctx.nested + 1])
      BY <2>3, <3>1, AlignedSame
    <3>3. QED
      BY <2>2, <3>2
  <2>6. QED
    BY <1>n, <2>2, <2>4, <2>5
<1>5. ASSUME alloc_group_nested
      PROVE  AlignInv'
  <2>1. /\ heap_cur' = s.cur /\ maps' = maps /\ heap_end' = heap_end
        /\ ctx' = IF s.ok THEN [s.ctx EXCEPT !.nested = s.ctx.nested + 1] ELSE s.ctx
    BY <1>1, <1>5 DEF alloc_group_nested
  <2>2. AlignedCtx(s.cur, [s.ctx EXCEPT !.nested = s.ctx.nested + 1])
    BY <1>2, AlignedSame
  <2>3. AlignedCtx(s.cur, ctx')
    BY <1>2, <2>1, <2>2
  <2>4. QED
    BY <1>0, <1>n, <2>1, <2>3
<1>6. ASSUME NEW i \in Ids, NEW len \in BigLens, malloc_big(i, len)
      PROVE  AlignInv'
  <2>1. PICK m : m = mmap(heap_cur, len)
    OBVIOUS
  <2>2. PICK r : r = alloc_meta(m.cur, ctx)
    OBVIOUS
  <2>3. /\ heap_end' = heap_end
        /\ m.p = 0 => heap_cur' = m.cur /\ ctx' = ctx /\ maps' = maps
        /\ m.p # 0 => /\ heap_cur' = r.cur /\ ctx' = r.ctx
                      /\ maps' = Mapped(i, IF r.ok THEN m.p ELSE 0, len)
    BY <1>6, <2>1, <2>2, Zenon DEF malloc_big
  <2>4. heap_cur \in Nat /\ Aligned(heap_cur) /\ len \in Nat
    BY <1>0, <1>l DEF AlignedCtx
  <2>5. m.cur \in Nat /\ m.p \in Nat /\ Aligned(m.cur) /\ Aligned(m.p) /\ Aligned(0)
    BY <1>0, <2>1, <2>4, MmapTypes, AlignedMmap, AlignedSums, ZenonT(30)
  <2>6. AlignedCtx(m.cur, ctx)
    BY <1>0, <2>5 DEF AlignedCtx
  <2>7. CASE m.p = 0
    BY <1>0, <1>n, <2>3, <2>6, <2>7, ZenonT(30)
  <2>8. CASE m.p # 0
    <3>1. AlignedCtx(r.cur, r.ctx)
      BY <1>0, <2>2, <2>6, AlignedMeta
    <3>2. PICK p \in Nat : p = (IF r.ok THEN m.p ELSE 0) /\ Aligned(p)
      BY <2>5
    <3>3. maps' = Mapped(i, p, len)
      BY <2>3, <2>8, <3>2, SMTT(30)
    <3>4. IsMaps(maps') /\ \A j \in Ids : Aligned(maps'[j].lo)
      BY <1>0, <2>4, <3>2, <3>3, AlignedMapped, SMTT(30)
    <3>5. QED
      BY <1>n, <2>3, <2>8, <3>1, <3>4, SMTT(30)
  <2>9. QED
    BY <2>7, <2>8
<1>7. ASSUME NEW i \in Ids, free_group(i)
      PROVE  AlignInv'
  <2>1. /\ maps' = [maps EXCEPT ![i] = NoMap] /\ ctx' = free_meta(ctx)
        /\ heap_cur' = heap_cur /\ heap_end' = heap_end
    BY <1>7 DEF free_group, sys_munmap
  <2>2. IsMaps(maps') /\ \A j \in Ids : maps'[j].lo = IF j = i THEN 0 ELSE maps[j].lo
    BY <1>0, <2>1 DEF IsMaps, NoMap
  <2>3. AlignedCtx(heap_cur, ctx')
    BY <1>0, <2>1, AlignedSame, Zenon
  <2>4. QED
    BY <1>0, <1>n, <2>1, <2>2, <2>3, AlignedSums, SMTT(30)
<1>8. ASSUME free_group_nested
      PROVE  AlignInv'
  <2>1. PICK d : d = free_meta(ctx)
    OBVIOUS
  <2>2. /\ ctx.nested > 0 /\ ctx' = [d EXCEPT !.nested = d.nested - 1]
        /\ maps' = maps /\ heap_cur' = heap_cur /\ heap_end' = heap_end
    BY <1>8, <2>1 DEF free_group_nested, vars
  <2>3. AlignedCtx(heap_cur, d)
    BY <1>0, <2>1, AlignedSame, Zenon
  <2>4. d.nested - 1 \in Nat
    <3>1. IsCtx(ctx) /\ ctx.nested \in Nat
      BY <1>0 DEF AlignedCtx, IsCtx
    <3>2. d.nested = ctx.nested
      BY <2>1, <3>1, FreeTypes
    <3>3. QED
      BY <2>2, <3>1, <3>2, SMTT(30)
  <2>5. AlignedCtx(heap_cur, ctx')
    BY <2>2, <2>3, <2>4, AlignedSame
  <2>6. QED
    BY <1>0, <1>n, <2>2, <2>5
<1>9. CASE UNCHANGED mvars
  BY <1>0, <1>9 DEF mvars, AlignInv
<1>10. QED
  BY <1>3, <1>4, <1>5, <1>6, <1>7, <1>8, <1>9, SMTT(30) DEF MallocNext

(* When __bss_stop is a multiple of 16, so is the start of every group,    *)
(* whatever the program allocates and frees and also past the end of the   *)
(* first page of records: get_meta's assertion (meta.h:131) never fails on *)
(* an address that mmap gave.                                              *)
THEOREM AlignedGroups == ASSUME AlignedStart PROVE MallocSpec => []GroupsAligned
<1>1. MallocInit => AlignInv
  <2> SUFFICES ASSUME MallocInit PROVE AlignInv
    OBVIOUS
  <2>1. MallocInv /\ heap_cur = 0 /\ ctx.brk = 0 /\ maps = [i \in Ids |-> NoMap]
    BY MallocStart DEF MallocInit, Init, InitCtx
  <2>2. heap_end \in HeapEnds /\ heap_cur \in Nat /\ IsCtx(ctx) /\ IsMaps(maps)
    BY <2>1 DEF MallocInv, Sound
  <2>3. \A i \in Ids : maps[i].lo = 0
    BY <2>1 DEF NoMap
  <2>4. Aligned(0)
    BY AlignedSums
  <2>5. QED
    BY <2>1, <2>2, <2>3, <2>4, SMTT(30) DEF AlignInv, AlignedCtx
<1>2. ASSUME AlignInv, [MallocNext]_mvars PROVE AlignInv'
  BY <1>2, AlignStep
<1>3. AlignInv => GroupsAligned
  BY DEF AlignInv, GroupsAligned, Held, Aligned
<1>4. QED
  BY <1>1, <1>2, <1>3, PTL DEF MallocSpec
=============================================================================
