-------------------------------- MODULE Heap --------------------------------
(***************************************************************************)
(* The heap of the port (app/posix_shim.c): brk and anonymous mmap over    *)
(* one bump pointer between the end of .bss and the top of the mapped      *)
(* RAM.  Addresses are the 64-bit integers of the machine, here            *)
(* 0 .. Wrap - 1.  maps is what the program holds: the bytes it asked for  *)
(* in each successful mmap that it has not unmapped.                       *)
(***************************************************************************)
EXTENDS Integers

CONSTANTS
    Wrap,       \* 2^64
    Page,       \* 4096
    BssStop,    \* __bss_stop
    HeapEnds,   \* the values __image_base + b_system(FREE_MEMORY) can have
    Lens,       \* the lengths passed to mmap
    Addrs,      \* the addresses passed to brk
    Ids         \* bound: names for the mappings held at once

ASSUME HeapAssumption ==
    /\ Wrap \in Nat /\ Page \in Nat \ {0}
    /\ BssStop \in Nat \ {0}
    /\ \A e \in HeapEnds : e \in Nat /\ BssStop <= e /\ e < Wrap
    /\ Lens \subseteq Int /\ Addrs \subseteq Nat
    /\ \A len \in Lens : 2 * len < Wrap

VARIABLES
    heap_cur,   \* 0 until the first call
    heap_end,   \* read once by heap_init; a constant of the machine
    maps,       \* id -> the bytes [lo, hi) held by the program, or NoMap
    taken,      \* history: the mappings below whose end the break was lowered
    ret

vars == <<heap_cur, heap_end, maps, taken, ret>>

ENOMEM == 12
ENODEV == 19

NoMap == [lo |-> 0, hi |-> 0]
Held == {i \in Ids : maps[i] # NoMap}

RoundUp(n) == ((n + Page - 1) \div Page) * Page

(* Mutant: every call starts the heap again.                               *)
heap_init_Always(cur) == BssStop

(* heap_cur once heap_init has run.                                        *)
heap_init(cur) == IF cur = 0 THEN BssStop ELSE cur

(* Mutant: a refused break is stored as an error number.                   *)
brk_to_Errno(cur, end, addr) ==
    IF BssStop <= addr /\ addr <= end THEN addr ELSE -ENOMEM

(* Mutant: the end of RAM is not tested.                                   *)
brk_to_NoEnd(cur, end, addr) ==
    IF BssStop <= addr THEN addr ELSE heap_init(cur)

(* heap_cur after sys_brk(addr).                                           *)
brk_to(cur, end, addr) ==
    IF BssStop <= addr /\ addr <= end THEN addr ELSE heap_init(cur)

(* Mutant: only the wrapped sum is tested.                                 *)
Exhausted_NoEnd(p, end, n) ==
    IF p + n < Wrap THEN {FALSE} ELSE {TRUE, n >= Wrap \div 2}

(* The outcomes of heap_alloc's test "p + n > heap_end || p + n < p".  The *)
(* sum wraps; when it does, "p + n < p" on pointers is undefined, and      *)
(* compilers emit either the comparison of the wrapped sum (true) or, as   *)
(* gcc does with this build's flags, a test of the sign of n.              *)
Exhausted(p, end, n) ==
    IF (p + n) % Wrap > end THEN {TRUE}
    ELSE IF p + n < Wrap THEN {FALSE}
    ELSE {TRUE, n >= Wrap \div 2}

-----------------------------------------------------------------------------
sys_brk(addr) ==
    /\ heap_cur' = brk_to(heap_cur, heap_end, addr)
    /\ taken' = taken \cup {i \in Held : maps[i].hi > heap_cur'}
    /\ ret' = heap_cur'
    /\ UNCHANGED <<heap_end, maps>>

(* addr, MAP_FIXED and the protection are ignored by the code.             *)
MmapRefused(len, anonymous) ==
    /\ ~anonymous \/ len <= 0
    /\ ret' = -ENODEV
    /\ UNCHANGED <<heap_cur, heap_end, maps, taken>>

MmapFails(len) ==
    /\ len > 0
    /\ TRUE \in Exhausted(heap_init(heap_cur), heap_end, RoundUp(len))
    /\ heap_cur' = heap_init(heap_cur)
    /\ ret' = -ENOMEM
    /\ UNCHANGED <<heap_end, maps, taken>>

MmapGrants(i, len) ==
    LET p == heap_init(heap_cur)
    IN  /\ len > 0
        /\ i \notin Held
        /\ FALSE \in Exhausted(p, heap_end, RoundUp(len))
        /\ heap_cur' = (p + RoundUp(len)) % Wrap
        /\ maps' = [maps EXCEPT ![i] = [lo |-> p, hi |-> p + len]]
        /\ ret' = p
        /\ UNCHANGED <<heap_end, taken>>

(* Nothing is unmapped; the program stops using the bytes.                 *)
sys_munmap(i) ==
    /\ i \in Held
    /\ maps' = [maps EXCEPT ![i] = NoMap]
    /\ taken' = taken \ {i}
    /\ ret' = 0
    /\ UNCHANGED <<heap_cur, heap_end>>

Init ==
    /\ heap_cur = 0
    /\ heap_end \in HeapEnds
    /\ maps = [i \in Ids |-> NoMap]
    /\ taken = {}
    /\ ret = 0

Next ==
    \/ \E addr \in Addrs : sys_brk(addr)
    \/ \E len \in Lens, anonymous \in BOOLEAN : MmapRefused(len, anonymous)
    \/ \E len \in Lens : MmapFails(len)
    \/ \E i \in Ids, len \in Lens : MmapGrants(i, len)
    \/ \E i \in Ids : sys_munmap(i)

Spec == Init /\ [][Next]_vars

-----------------------------------------------------------------------------
(* No request is so long that the sum wraps: true of every length below    *)
(* Wrap - heap_end, which is 2^47 less the RAM size in this port.          *)
NoWrap == \A len \in Lens, e \in HeapEnds : e + RoundUp(len) < Wrap

(* Every variable keeps its type: addresses never become negative.         *)
TypeOK ==
    /\ heap_cur \in Nat
    /\ heap_end \in HeapEnds
    /\ maps \in [Ids -> [lo : Nat, hi : Nat]]
    /\ taken \subseteq Ids
    /\ ret \in Int

(* The bump pointer stays between the end of .bss and the end of RAM, and  *)
(* so does every byte the program was given: heap_alloc "Returns 0 ... on  *)
(* exhaustion" (posix_shim.c:76).                                          *)
WithinArena ==
    /\ heap_cur = 0 \/ (BssStop <= heap_cur /\ heap_cur <= heap_end)
    /\ \A i \in Held : /\ BssStop <= maps[i].lo /\ maps[i].lo < maps[i].hi
                       /\ maps[i].hi <= heap_end

(* No byte is given out twice while it is held: mmap only bumps, and       *)
(* "munmap() is a no-op: the memory is simply never reclaimed"             *)
(* (posix_shim.c:44).  Only a mapping that the program itself has lowered  *)
(* the break into can be given out again.                                  *)
MapsDisjoint ==
    \A i, j \in Held \ taken :
        i # j => maps[i].hi <= maps[j].lo \/ maps[j].hi <= maps[i].lo
=============================================================================
