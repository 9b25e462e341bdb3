----------------------------- MODULE MCNetShim -----------------------------
(* Instances of NetShim for TLC. *)
EXTENDS NetShim, TLC

Symmetry == Permutations(Pcbs)

\* What later steps can depend on.  No action reads the result of the last
\* call, what recv has handed out, a slot that is free before it is reset, an
\* entry of acceptq outside the queue, the chain of a connection that was lost,
\* the count of delivered bytes of a slot without a pcb, or dhcp once the
\* network is ready; of the clock, only the time since the call in progress
\* began matters.  States with the same view have successors with the same
\* views.
SlotView(s) ==
    LET k == socks[s] IN
    IF k.state = "FREE" THEN <<>>
    ELSE <<IF s \in lost THEN <<k.state, k.pcb>> ELSE [k EXCEPT !.acceptq = 0],
           Queue(s), IF k.pcb = NULL THEN 0 ELSE dlv[s]>>

View ==
    <<nic, left, poll, ticks, waited, IF Idle THEN 0 ELSE (now - call.start) % ClockMod,
      [s \in Slots |-> SlotView(s)], pcbs, netReady, netReady \/ dhcp,
      call.op, call.fd, call.len, held, lost>>
=============================================================================
