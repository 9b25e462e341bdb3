------------------------------- MODULE NetInv -------------------------------
(***************************************************************************)
(* The inductive invariants of the socket layer, from which the proofs     *)
(* derive its properties.                                                  *)
(***************************************************************************)
EXTENDS NetShim

\* A call in progress works on a descriptor the program has, and has no result.
CallInv ==
    /\ call.op \notin {"none", "socket"} => call.fd \in held
    /\ call.op # "none" => poll # "out" /\ ret = "none"

-----------------------------------------------------------------------------
\* Who owns a pcb.

\* Every pcb whose connection is open has its callbacks set.
CallbacksSet ==
    \A p \in Pcbs : pcbs[p].st \in {"SYN_SENT", "ESTABLISHED", "CLOSE_WAIT"} => pcbs[p].cb

OwnInv == Ownership /\ StatesAgree /\ CallbacksSet

-----------------------------------------------------------------------------
\* Who has a slot.

\* SlotsAccounted by positions in the queues.
At(l, i) == socks[l].acceptq[((socks[l].head + i) - 1) % AcceptqMax]

HeldInv == \A s \in held : Live(s) /\ s \notin lost

LostInv == \A s \in lost : Live(s)

NoQueue ==
    \A s \in Slots :
        Live(s) /\ socks[s].state # "LISTENING" =>
            socks[s].count = 0 /\ socks[s].head = 0 /\ socks[s].tail = 0

RingInv ==
    \A l \in Listeners :
        /\ l \in held
        /\ socks[l].count <= AcceptqMax
        /\ socks[l].tail = (socks[l].head + socks[l].count) % AcceptqMax

QueuedInv ==
    \A l \in Listeners : \A i \in 1..socks[l].count :
        Live(At(l, i)) /\ At(l, i) \notin held /\ At(l, i) \notin lost

DistinctInv ==
    \A l, k \in Listeners : \A i \in 1..socks[l].count : \A j \in 1..socks[k].count :
        At(l, i) = At(k, j) => l = k /\ i = j

CoverInv ==
    \A s \in Slots :
        Live(s) => \/ s \in held \cup lost
                   \/ \E l \in Listeners : \E i \in 1..socks[l].count : s = At(l, i)

SlotInv ==
    /\ HeldInv /\ LostInv /\ NoQueue /\ RingInv
    /\ QueuedInv /\ DistinctInv /\ CoverInv

-----------------------------------------------------------------------------
\* The stream of every socket in use.

\* The chain rx, of whose first pbuf off bytes were read, goes on after byte g
\* of the stream and ends with byte d.
Follows(rx, off, g, d) ==
    /\ \A k \in 1..Len(rx) : Consecutive(rx[k]) /\ rx[k][Len(rx[k])] <= d
    /\ \A k \in 1..Len(rx) - 1 : rx[k + 1][1] = rx[k][Len(rx[k])] + 1
    /\ rx = <<>> => off = 0 /\ g = d
    /\ rx # <<>> => /\ off <= Len(rx[1])
                    /\ rx[1][1] + off = g + 1
                    /\ rx[Len(rx)][Len(rx[Len(rx)])] = d

StreamAt(s) ==
    /\ got[s] = [i \in 1..Len(got[s]) |-> i]
    /\ Follows(socks[s].rx, socks[s].off, Len(got[s]), dlv[s])

ReadInv == \A s \in Slots : Live(s) => StreamAt(s)

-----------------------------------------------------------------------------
\* The receive window.

Balance(s) == pcbs[socks[s].pcb].wnd + (dlv[s] - Len(got[s]))

Counted(s) == Live(s) /\ socks[s].pcb # NULL /\ pcbs[socks[s].pcb].st # "LISTEN"

WinInv ==
    /\ \A s \in Slots : Counted(s) => Balance(s) = Wnd
    /\ \A p \in Pcbs : pcbs[p].st = "SYN_RCVD" => pcbs[p].wnd = Wnd

-----------------------------------------------------------------------------
\* Time.

\* What the clock test (u32_t)(sys_now() - start) rests on.
TimeInv ==
    /\ now \in 0..ClockMod - 1
    /\ poll \in {"out", "rx", "timers"}
    /\ ticks \in Nat /\ waited \in Nat
    /\ poll # "out" =>
        /\ ret = "none"
        /\ call.start \in 0..ClockMod - 1
        /\ ticks <= MaxTicks
        /\ waited <= (BlockTimeout - 1) + ticks
        /\ now = call.start + waited \/ now = (call.start + waited) - ClockMod

-----------------------------------------------------------------------------
\* The table, without what the program reads from it.
TableInv == TypeOK /\ CallInv /\ OwnInv /\ SlotInv

\* All of it.
NetInvariant == TableInv /\ ReadInv /\ WinInv
=============================================================================
