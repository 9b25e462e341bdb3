------------------------------ MODULE NetGlue ------------------------------
(***************************************************************************)
(* The network driver of src/app/net_glue.c as the socket layer sees it:   *)
(* the receive ring of the NIC, the clock, and net_poll, the only place    *)
(* where frames and timers are handed to lwIP.                             *)
(*                                                                         *)
(* A frame has no content here.  What lwIP makes of it is chosen when it   *)
(* is taken from the ring, by the actions of NetShim.                      *)
(***************************************************************************)
EXTENDS Integers

CONSTANTS
    ClockMod,     \* values of the u32_t millisecond count, 2^32 in the code
    BlockTimeout, \* NET_BLOCK_TIMEOUT_MS
    MaxTicks,     \* bound: clock ticks that pass inside one net_poll
    NicRing,      \* bound: frames waiting in the NIC
    MaxFrames,    \* bound: frames the network sends in all, unless Flood
    Flood         \* TRUE: the network never falls silent

ASSUME GlueAssumption ==
    /\ ClockMod \in Nat /\ BlockTimeout \in Nat \ {0} /\ MaxTicks \in Nat
    /\ BlockTimeout + MaxTicks <= ClockMod
    /\ NicRing \in Nat \ {0} /\ MaxFrames \in Nat
    /\ Flood \in BOOLEAN

VARIABLES
    now,    \* sys_now()
    nic,    \* frames waiting for b_net_rx
    left,   \* frames still to come
    poll,   \* where the program is: "out" of net_poll, in its "rx" loop, or
            \* in sys_check_timeouts ("timers")
    ticks,  \* ticks since this net_poll began
    waited  \* history: ticks since the blocking call began

glueVars == <<now, nic, left, poll, ticks, waited>>

GlueTypeOK ==
    /\ now \in 0..ClockMod - 1
    /\ nic \in 0..NicRing
    /\ left \in 0..MaxFrames
    /\ poll \in {"out", "rx", "timers"}
    /\ ticks \in 0..MaxTicks
    /\ waited \in Nat

GlueInit ==
    /\ now \in 0..ClockMod - 1
    /\ nic = 0 /\ left = MaxFrames
    /\ poll = "out" /\ ticks = 0 /\ waited = 0

\* A blocking loop that compares clock values instead of their difference.
Expired_Absolute(start) == now >= start + BlockTimeout

\* (u32_t)(sys_now() - start) >= NET_BLOCK_TIMEOUT_MS
Expired(start) == (now - start) % ClockMod >= BlockTimeout

\* The counter behind sys_now runs whatever the program does.
Tick ==
    /\ poll # "out" => ticks < MaxTicks
    /\ now' = (now + 1) % ClockMod
    /\ ticks' = IF poll = "out" THEN ticks ELSE ticks + 1
    /\ waited' = IF poll = "out" THEN waited ELSE waited + 1
    /\ UNCHANGED <<nic, left, poll>>

\* A frame reaches the NIC.
Arrive ==
    /\ nic < NicRing
    /\ Flood \/ left > 0
    /\ nic' = nic + 1
    /\ left' = IF Flood THEN left ELSE left - 1
    /\ UNCHANGED <<now, poll, ticks, waited>>

\* A driver that returns the same frame again and again.
TakeFrame_Again ==
    /\ poll = "rx"
    /\ nic > 0
    /\ UNCHANGED glueVars

\* One round of the drain loop: b_net_rx returns a frame, and the netif's
\* input function is run on it before the next one is asked for.
TakeFrame ==
    /\ poll = "rx"
    /\ nic > 0
    /\ nic' = nic - 1
    /\ UNCHANGED <<now, left, poll, ticks, waited>>

\* b_net_rx returns 0: the loop ends and sys_check_timeouts is called.
RxEmpty ==
    /\ poll = "rx"
    /\ nic = 0
    /\ poll' = "timers"
    /\ UNCHANGED <<now, nic, left, ticks, waited>>

\* A blocking call enters net_poll for the first time, or again.
EnterPoll(first) ==
    /\ poll' = "rx"
    /\ ticks' = 0
    /\ waited' = IF first THEN 0 ELSE waited
    /\ UNCHANGED <<now, nic, left>>

\* A call returns to the program.
LeavePoll ==
    /\ poll' = "out"
    /\ ticks' = 0
    /\ waited' = 0
    /\ UNCHANGED <<now, nic, left>>
=============================================================================
