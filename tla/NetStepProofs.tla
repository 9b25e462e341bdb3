--------------------------- MODULE NetStepProofs ---------------------------
(***************************************************************************)
(* Every step of NetShim keeps TableInv, for any number of sockets and     *)
(* pcbs and any length of the accept queues, and keeps these queues first  *)
(* in, first out.                                                          *)
(*                                                                         *)
(* None of the parts of TableInv is inductive alone.  That a callback      *)
(* finds its socket needs that close only frees slots the program has,     *)
(* which needs that a queued slot is in no other queue and not yet the     *)
(* program's, which needs that the socket on_accept is called for is       *)
(* listening.  TableInv puts them together with what the calls in progress *)
(* and idle queues satisfy.  ReadInv says that bsock_read stays inside a   *)
(* pbuf.                                                                   *)
(***************************************************************************)
EXTENDS NetTableProofs

\* Initially every slot is free and there is no pcb.
LEMMA InitInv == Init => TableInv
<1> SUFFICES ASSUME Init PROVE TableInv
  BY Zenon
<1> USE ShimAssumption, GlueAssumption
<1>1. /\ reset_sock \in Socks
      /\ reset_sock.state = "FREE"
  BY DEF reset_sock, Socks, SockStates, Slots
<1>2. NoPcb \in PcbRecs /\ NoPcb.st = "NONE" /\ ~NoPcb.cb
  BY DEF NoPcb, PcbRecs, PcbStates
<1>3. TypeOK
  <2>1. GlueTypeOK
    BY DEF Init, GlueInit, GlueTypeOK
  <2>2. socks \in [Slots -> Socks] /\ pcbs \in [Pcbs -> PcbRecs]
    BY <1>1, <1>2, Zenon DEF Init
  <2>3. call \in [op : Ops, fd : Slots \cup {NULL}, len : Lens \cup {0}, start : 0..ClockMod - 1]
    BY DEF Init, NoCall, Ops
  <2>4. dlv \in [Slots -> Nat] /\ got \in [Slots -> Seq(Nat)]
    BY DEF Init
  <2> QED BY <2>1, <2>2, <2>3, <2>4, Zenon DEF Init, TypeOK, Rets
<1>4. /\ \A s \in Slots : socks[s].state = "FREE"
      /\ \A p \in Pcbs : pcbs[p].st = "NONE" /\ ~pcbs[p].cb
      /\ held = {} /\ lost = {} /\ call.op = "none"
  BY <1>1, <1>2, Zenon DEF Init, NoCall
<1>5. CallInv
  BY <1>4, Zenon DEF CallInv
<1>6. OwnInv
  BY <1>4, Zenon DEF OwnInv, Ownership, CallbackLands, ListenerLives, PcbLives, StatesAgree,
                CallbacksSet, Live
<1>7. SlotInv
  BY <1>4, Zenon DEF SlotInv, HeldInv, LostInv, NoQueue, RingInv, QueuedInv, DistinctInv, CoverInv,
                Live, Listeners
<1> QED BY <1>3, <1>5, <1>6, <1>7, Zenon DEF TableInv

-----------------------------------------------------------------------------
\* What the callbacks and the calls leave in socks[].

\* The part of a socket that decides who owns what.
SameOwner(a, b) == a.state = b.state /\ a.pcb = b.pcb

\* f is socks with r at s.
OnlyAt(f, s, r) ==
    /\ f \in [Slots -> Socks]
    /\ f[s] = r
    /\ \A t \in Slots : t # s => f[t] = socks[t]

\* An update of one slot leaves the others as they were.
LEMMA OneSlot ==
  ASSUME TypeOK, NEW s \in Slots, NEW r \in Socks
  PROVE  OnlyAt([socks EXCEPT ![s] = r], s, r)
  BY Zenon DEF TypeOK, OnlyAt

\* on_recv with data changes the receive chain only.
LEMMA OnRecvShape ==
  ASSUME TypeOK, NEW s \in Slots, NEW bytes \in Seq(Nat)
  PROVE  LET f == on_recv(s, bytes) IN
         /\ OnlyAt(f, s, f[s])
         /\ SameQueue(f[s], socks[s])
         /\ SameOwner(f[s], socks[s])
<1> DEFINE r == [socks[s] EXCEPT !.rx = Append(@, bytes)]
<1>0. socks[s] \in Socks
  BY Zenon DEF TypeOK
<1>3. Append(socks[s].rx, bytes) \in Seq(Seq(Nat))
  BY <1>0 DEF Socks
<1>1. on_recv(s, bytes) = [socks EXCEPT ![s] = r]
  BY Zenon DEF on_recv, TypeOK
<1>2. /\ r \in Socks
      /\ SameQueue(r, socks[s])
      /\ SameOwner(r, socks[s])
  BY <1>0, <1>3, ShimAssumption, Zenon DEF Socks, SockStates, SameQueue, SameOwner
<1> HIDE DEF r
<1> QED BY <1>1, <1>2, OneSlot DEF OnlyAt

\* on_recv with a null pbuf changes the end-of-stream mark only.
LEMMA OnEofShape ==
  ASSUME TypeOK, NEW s \in Slots
  PROVE  LET f == on_recv_eof(s) IN
         /\ OnlyAt(f, s, f[s])
         /\ SameQueue(f[s], socks[s])
         /\ SameOwner(f[s], socks[s])
<1> DEFINE r == [socks[s] EXCEPT !.eof = TRUE]
<1>0. socks[s] \in Socks
  BY Zenon DEF TypeOK
<1>1. on_recv_eof(s) = [socks EXCEPT ![s] = r]
  BY Zenon DEF on_recv_eof, TypeOK
<1>2. /\ r \in Socks
      /\ SameQueue(r, socks[s])
      /\ SameOwner(r, socks[s])
  BY <1>0, ShimAssumption, Zenon DEF Socks, SockStates, SameQueue, SameOwner
<1> HIDE DEF r
<1> QED BY <1>1, <1>2, OneSlot DEF OnlyAt

\* on_err takes the pcb away and marks the slot.
LEMMA OnErrShape ==
  ASSUME TypeOK, NEW s \in Slots
  PROVE  LET f == on_err(s) IN
         /\ OnlyAt(f, s, f[s])
         /\ SameQueue(f[s], socks[s])
         /\ f[s].state = "ERROR"
         /\ f[s].pcb = NULL
<1> DEFINE r == [socks[s] EXCEPT !.pcb = NULL, !.state = "ERROR"]
<1>0. socks[s] \in Socks
  BY DEF TypeOK
<1>1. on_err(s) = [socks EXCEPT ![s] = r]
  BY Zenon DEF on_err, TypeOK
<1>2. /\ r \in Socks
      /\ SameQueue(r, socks[s])
      /\ r.state = "ERROR"
      /\ r.pcb = NULL
  BY <1>0, ShimAssumption, Zenon DEF Socks, SockStates, SameQueue, SameOwner
<1> HIDE DEF r
<1> QED BY <1>1, <1>2, OneSlot DEF OnlyAt

\* on_connected changes the state of the slot only.
LEMMA OnConnectedShape ==
  ASSUME TypeOK, NEW s \in Slots
  PROVE  LET f == on_connected(s) IN
         /\ OnlyAt(f, s, f[s])
         /\ SameQueue(f[s], socks[s])
         /\ f[s].state = "CONNECTED"
         /\ f[s].pcb = socks[s].pcb
<1> DEFINE r == [socks[s] EXCEPT !.state = "CONNECTED"]
<1>0. socks[s] \in Socks
  BY DEF TypeOK
<1>1. on_connected(s) = [socks EXCEPT ![s] = r]
  BY Zenon DEF on_connected, TypeOK
<1>2. /\ r \in Socks
      /\ SameQueue(r, socks[s])
      /\ r.state = "CONNECTED"
      /\ r.pcb = socks[s].pcb
  BY <1>0, ShimAssumption, Zenon DEF Socks, SockStates, SameQueue, SameOwner
<1> HIDE DEF r
<1> QED BY <1>1, <1>2, OneSlot DEF OnlyAt

\* r is a fresh slot.
FreshShape(r, st, p) ==
    /\ r \in Socks
    /\ r.state = st /\ r.pcb = p
    /\ r.count = 0 /\ r.head = 0 /\ r.tail = 0

\* A slot after reset_sock.
LEMMA ResetShape ==
  ASSUME NEW p \in Pcbs, NEW st \in SockStates
  PROVE  /\ reset_sock \in Socks /\ reset_sock.state = "FREE"
         /\ FreshShape([reset_sock EXCEPT !.state = st, !.pcb = p], st, p)
<1>1. reset_sock \in Socks /\ reset_sock.state = "FREE"
  BY ShimAssumption DEF reset_sock, Socks, SockStates, Slots
<1>2. reset_sock.count = 0 /\ reset_sock.head = 0 /\ reset_sock.tail = 0
  BY Zenon DEF reset_sock
<1> QED BY <1>1, <1>2, Zenon DEF Socks, FreshShape

\* f is socks after on_accept put slot s into the queue of l.
AcceptShape(f, l, s, p) ==
    /\ f \in [Slots -> Socks]
    /\ f[s] = [reset_sock EXCEPT !.state = "CONNECTED", !.pcb = p]
    /\ SameOwner(f[l], socks[l])
    /\ f[l].acceptq = [socks[l].acceptq EXCEPT ![socks[l].tail] = s]
    /\ f[l].head = socks[l].head
    /\ f[l].tail = (socks[l].tail + 1) % AcceptqMax
    /\ f[l].count = socks[l].count + 1
    /\ \A t \in Slots \ {l, s} : f[t] = socks[t]

\* on_accept fills a free slot and adds it to the queue of the listener.
LEMMA OnAcceptShape ==
  ASSUME TypeOK, NEW l \in Slots, NEW s \in Slots, NEW p \in Pcbs, l # s
  PROVE  AcceptShape(on_accept(l, s, p), l, s, p)
<1> DEFINE new == [reset_sock EXCEPT !.state = "CONNECTED", !.pcb = p]
           q == [socks[l] EXCEPT !.acceptq[socks[l].tail] = s,
                                 !.tail = (@ + 1) % AcceptqMax, !.count = @ + 1]
           f == on_accept(l, s, p)
<1>1. new \in Socks
  <2>1. "CONNECTED" \in SockStates
    BY Zenon DEF SockStates
  <2> QED BY <2>1, ResetShape, Zenon DEF FreshShape
<1>2. f = [socks EXCEPT ![s] = new, ![l] = q]
  <2>1. f[s] = new
    BY Zenon DEF on_accept, TypeOK
  <2>2. f[l] = q
    BY Zenon DEF on_accept, TypeOK
  <2>3. \A t \in Slots \ {l, s} : f[t] = socks[t]
    BY Zenon DEF on_accept, TypeOK
  <2> QED BY <2>1, <2>2, <2>3, Zenon DEF on_accept, TypeOK
<1>3. /\ socks[l] \in Socks
      /\ (socks[l].tail + 1) % AcceptqMax \in 0..AcceptqMax - 1
  <2>1. socks[l] \in Socks
    BY Zenon DEF TypeOK
  <2>2. socks[l].tail \in Int /\ AcceptqMax \in Nat \ {0}
    BY <2>1, ShimAssumption DEF Socks
  <2> QED BY <2>1, <2>2, ModRange
<1>4. /\ q \in Socks
      /\ SameOwner(q, socks[l])
      /\ q.acceptq = [socks[l].acceptq EXCEPT ![socks[l].tail] = s]
      /\ q.head = socks[l].head
      /\ q.tail = (socks[l].tail + 1) % AcceptqMax
      /\ q.count = socks[l].count + 1
  <2> DEFINE a == [socks[l].acceptq EXCEPT ![socks[l].tail] = s]
             b == (socks[l].tail + 1) % AcceptqMax
             c == socks[l].count + 1
  <2>1. q = [socks[l] EXCEPT !.acceptq = a, !.tail = b, !.count = c]
    BY <1>3, Zenon DEF Socks
  <2>2. a \in [0..AcceptqMax - 1 -> Slots] /\ b \in 0..AcceptqMax - 1 /\ c \in Nat
    <3>1. socks[l].acceptq \in [0..AcceptqMax - 1 -> Slots] /\ socks[l].count \in Nat
      BY <1>3, Zenon DEF Socks
    <3>2. a \in [0..AcceptqMax - 1 -> Slots]
      BY <3>1, Zenon
    <3>3. c \in Nat
      BY <3>1
    <3> HIDE DEF a, c
    <3> QED BY <1>3, <3>2, <3>3, Zenon
  <2> HIDE DEF a, b, c, q
  <2>3. /\ q \in Socks /\ q.acceptq = a /\ q.tail = b /\ q.count = c
        /\ q.head = socks[l].head /\ SameOwner(q, socks[l])
    BY <1>3, <2>1, <2>2, Zenon DEF Socks, SameOwner
  <2> QED BY <2>3, Zenon DEF a, b, c
<1> HIDE DEF new, q, f
<1>5. /\ f \in [Slots -> Socks]
      /\ f[s] = new /\ f[l] = q
      /\ \A t \in Slots \ {l, s} : f[t] = socks[t]
  BY <1>1, <1>2, <1>4, Zenon DEF TypeOK
<1> QED BY <1>4, <1>5 DEF new, f, AcceptShape

-----------------------------------------------------------------------------
\* The parts of the invariant, as the proofs about the actions use them.

CallRecs == [op : Ops, fd : Slots \cup {NULL}, len : Lens \cup {0}, start : 0..ClockMod - 1]

Control == GlueTypeOK /\ call \in CallRecs /\ ret \in Rets /\ CallInv

Table ==
    /\ socks \in [Slots -> Socks]
    /\ pcbs \in [Pcbs -> PcbRecs]
    /\ held \subseteq Slots /\ lost \subseteq Slots

Hist == dlv \in [Slots -> Nat] /\ got \in [Slots -> Seq(Nat)]

Core == Control /\ Table /\ Hist /\ OwnInv /\ SlotInv

\* The invariant without the two flags that no proof step reads.
LEMMA InvIsCore == TableInv <=> Core /\ netReady \in BOOLEAN /\ dhcp \in BOOLEAN
  BY Zenon DEF TableInv, Core, TypeOK, Control, CallRecs, Table, Hist

\* What a proof about an action starts from.
LEMMA InvGives ==
  ASSUME TableInv
  PROVE  TypeOK /\ Control /\ Table /\ Hist /\ OwnPre /\ SlotPre /\ OwnInv /\ SlotInv
  BY InvIsCore, TypesOfOwners, TypesOfSlots DEF TableInv, Core, OwnPre, SlotPre

\* Every step of the driver keeps the types of its variables.
LEMMA GlueStep ==
  ASSUME GlueTypeOK, NEW b \in BOOLEAN,
         TakeFrame \/ RxEmpty \/ Arrive \/ Tick \/ LeavePoll \/ EnterPoll(b) \/ UNCHANGED glueVars
  PROVE  GlueTypeOK'
<1> USE GlueAssumption DEF GlueTypeOK
<1>1. CASE TakeFrame
  BY <1>1 DEF TakeFrame
<1>2. CASE RxEmpty
  BY <1>2, Zenon DEF RxEmpty
<1>3. CASE Arrive
  BY <1>3 DEF Arrive
<1>4. CASE Tick
  <2>1. now + 1 \in Int /\ ClockMod \in Nat \ {0}
    OBVIOUS
  <2>2. (now + 1) % ClockMod \in 0..ClockMod - 1
    BY <2>1, ModRange, Zenon
  <2> QED BY <1>4, <2>2 DEF Tick
<1>5. CASE LeavePoll
  BY <1>5 DEF LeavePoll
<1>6. CASE EnterPoll(b)
  BY <1>6 DEF EnterPoll
<1>7. CASE UNCHANGED glueVars
  BY <1>7 DEF glueVars
<1> QED BY <1>1, <1>2, <1>3, <1>4, <1>5, <1>6, <1>7, SMTT(30)

\* A call that returns leaves the control state of an idle program.
LEMMA ReturnControl ==
  ASSUME Control, NEW r \in Rets, Return(r)
  PROVE  Control'
<1>1. GlueTypeOK'
  BY GlueStep, Zenon DEF Control, Return
<1>2. call' \in CallRecs /\ call'.op = "none"
  BY ShimAssumption, GlueAssumption DEF Return, NoCall, CallRecs, Ops
<1> QED BY <1>1, <1>2 DEF Control, Return, CallInv

\* A call that begins to wait leaves that of a waiting one.
LEMMA WaitControl ==
  ASSUME Control, NEW op \in Ops, NEW s \in Slots \cup {NULL}, NEW len \in Lens \cup {0},
         NEW start \in 0..ClockMod - 1, Wait(op, s, len, start),
         op \notin {"none", "socket"} => s \in held'
  PROVE  Control'
<1>1. Idle \in BOOLEAN
  BY DEF Idle
<1>2. GlueTypeOK'
  BY <1>1, GlueStep DEF Control, Wait
<1>3. call' \in CallRecs /\ call'.op = op /\ call'.fd = s
  BY DEF Wait, CallRecs
<1>4. ret' \in Rets
  BY DEF Wait, Rets
<1>5. poll' = "rx" /\ ret' = "none"
  BY DEF Wait, EnterPoll
<1> QED BY <1>2, <1>3, <1>4, <1>5 DEF Control, CallInv

\* Steps of the clock, the NIC and the drain loop keep the control state.
LEMMA QuietControl ==
  ASSUME Control, call' = call, ret' = ret, held' = held,
         TakeFrame \/ RxEmpty \/ Arrive \/ Tick \/ UNCHANGED glueVars
  PROVE  Control'
<1>1. GlueTypeOK'
  BY GlueStep, Zenon DEF Control
<1>2. poll # "out" => poll' # "out"
  BY DEF TakeFrame, RxEmpty, Arrive, Tick, glueVars
<1> QED BY <1>1, <1>2 DEF Control, CallInv

\* A step that leaves the table alone.
LEMMA TableAlone ==
  ASSUME TableInv, UNCHANGED <<socks, pcbs, held, lost>>
  PROVE  Table' /\ OwnInv' /\ SlotInv'
<1>1. Table'
  BY InvGives DEF Table
<1>2. OwnInv'
  BY InvGives, OwnNothing DEF SSame, PSame
<1>3. SlotInv'
  BY InvGives, SlotNothing DEF LiveSame, QSame, SameQueue, Live
<1> QED BY <1>1, <1>2, <1>3

\* tcp_alloc makes a pcb of the right type.
LEMMA NewPcbType ==
  ASSUME NEW st \in PcbStates, NEW arg \in Slots \cup {NULL}, NEW li \in Pcbs \cup {NULL}
  PROVE  /\ NewPcb(st, arg, li) \in PcbRecs
         /\ NewPcb(st, arg, li).st = st /\ NewPcb(st, arg, li).arg = arg
         /\ ~NewPcb(st, arg, li).cb /\ NewPcb(st, arg, li).listener = li
         /\ NoPcb \in PcbRecs /\ NoPcb.st = "NONE" /\ ~NoPcb.cb
  BY ShimAssumption DEF NewPcb, NoPcb, PcbRecs, PcbStates

-----------------------------------------------------------------------------
\* The frames and the timers.

\* A socket listens if and only if its pcb does.
LEMMA ListenAgrees ==
  ASSUME TableInv, NEW s \in Slots, NEW p \in Pcbs, Live(s), socks[s].pcb = p
  PROVE  socks[s].state = "LISTENING" <=> pcbs[p].st = "LISTEN"
<1>1. PcbState(s) = pcbs[p].st
  BY ShimAssumption DEF PcbState
<1>2. StatesAgree
  BY InvGives DEF OwnInv
<1> QED BY <1>1, <1>2 DEF StatesAgree

\* A SYN for a listener keeps the invariant.
LEMMA SynStep ==
  ASSUME TableInv, NEW l \in Pcbs, NEW p \in Pcbs, RxSyn(l, p)
  PROVE  Core'
<1>1. Control'
  BY InvGives, QuietControl DEF RxSyn
<1>2. /\ NewPcb("SYN_RCVD", pcbs[l].arg, l) \in PcbRecs
      /\ NewPcb("SYN_RCVD", pcbs[l].arg, l).st = "SYN_RCVD"
      /\ NewPcb("SYN_RCVD", pcbs[l].arg, l).arg = pcbs[l].arg
      /\ ~NewPcb("SYN_RCVD", pcbs[l].arg, l).cb
      /\ NewPcb("SYN_RCVD", pcbs[l].arg, l).listener = l
  <2>1. pcbs[l].arg \in Slots \cup {NULL} /\ "SYN_RCVD" \in PcbStates
    BY InvGives DEF OwnPre, OwnTypes, PcbStates
  <2> QED BY <2>1, NewPcbType
<1>3. Table' /\ Hist'
  BY <1>2, InvGives DEF Table, Hist, RxSyn
<1>4. OwnInv'
  <2>1. pcbs[p].st \in {"NONE", "CLOSING"} /\ pcbs[l].st = "LISTEN"
    BY DEF RxSyn, Allocatable
  <2>2. \A s \in Slots : SSame(s)
    BY DEF RxSyn, SSame
  <2>3. /\ \A q \in Pcbs : q # p => PSame(q)
        /\ pcbs'[p] = NewPcb("SYN_RCVD", pcbs[l].arg, l)
    BY InvGives DEF RxSyn, PSame, Table
  <2> QED BY <1>2, <2>1, <2>2, <2>3, InvGives, OwnSyn
<1>5. SlotInv'
  BY InvGives, SlotNothing DEF RxSyn, LiveSame, QSame, SameQueue, Live
<1> QED BY <1>1, <1>3, <1>4, <1>5 DEF Core

\* Drop(p), for a pcb that is neither free nor listening.
LEMMA DropStep ==
  ASSUME TableInv, NEW p \in Pcbs, Drop(p), held' = held, lost' = lost,
         pcbs[p].st \in {"SYN_SENT", "SYN_RCVD", "ESTABLISHED", "CLOSE_WAIT", "CLOSING"}
  PROVE  Table' /\ OwnInv' /\ SlotInv'
<1>1. /\ pcbs' \in [Pcbs -> PcbRecs]
      /\ pcbs'[p].st = "NONE" /\ ~pcbs'[p].cb
      /\ \A q \in Pcbs : q # p => PSame(q)
  <2>1. NoPcb \in PcbRecs /\ NoPcb.st = "NONE" /\ ~NoPcb.cb
    BY ShimAssumption DEF NoPcb, PcbRecs, PcbStates
  <2> QED BY <2>1, InvGives DEF Drop, Table, PSame
<1>2. ASSUME pcbs[p].cb PROVE Table' /\ OwnInv' /\ SlotInv'
  <2> DEFINE s == pcbs[p].arg
  <2>1. s \in Slots /\ Live(s) /\ socks[s].pcb = p
    BY <1>2, InvGives DEF OwnInv, Ownership, CallbackLands
  <2> HIDE DEF s
  <2>2. socks' = on_err(s)
    BY <1>2 DEF Drop, s
  <2>3. /\ OnlyAt(socks', s, socks'[s]) /\ SameQueue(socks'[s], socks[s])
        /\ socks'[s].state = "ERROR" /\ socks'[s].pcb = NULL
    BY <2>1, <2>2, InvGives, OnErrShape
  <2>4. Table'
    BY <1>1, <2>3, InvGives DEF Table, OnlyAt
  <2>5. OwnInv'
    <3>1. \A t \in Slots : t # s => SSame(t)
      BY <2>3 DEF OnlyAt, SSame
    <3> QED BY <1>1, <2>1, <2>3, <3>1, InvGives, OwnDropCallback
  <2>6. SlotInv'
    <3>1. socks[s].state # "LISTENING"
      BY <2>1, ListenAgrees
    <3>2. \A t \in Slots : LiveSame(t) /\ QSame(t)
      BY <2>1, <2>3, <3>1 DEF OnlyAt, LiveSame, QSame, SameQueue, Live
    <3> QED BY <3>2, InvGives, SlotNothing
  <2> QED BY <2>4, <2>5, <2>6
<1>3. ASSUME ~pcbs[p].cb PROVE Table' /\ OwnInv' /\ SlotInv'
  <2>1. socks' = socks
    BY <1>3 DEF Drop
  <2>2. \A t \in Slots : Live(t) => socks[t].pcb # p
    BY <1>3, InvGives, ShimAssumption DEF OwnInv, Ownership, PcbLives, CallbacksSet
  <2>3. Table'
    BY <1>1, <2>1, InvGives DEF Table
  <2>4. OwnInv'
    BY <1>1, <2>1, <2>2, InvGives, OwnDropQuiet DEF SSame
  <2>5. SlotInv'
    BY <2>1, InvGives, SlotNothing DEF LiveSame, QSame, SameQueue, Live
  <2> QED BY <2>3, <2>4, <2>5
<1> QED BY <1>2, <1>3

\* So do the frames that end a connection.
LEMMA DropFrames ==
  ASSUME TableInv, NEW p \in Pcbs, RxRefuse(p) \/ RxDrop(p) \/ TimerDrop(p)
  PROVE  Core'
<1>1. /\ Drop(p) /\ UNCHANGED <<call, ret, held, lost, dlv, got>>
      /\ pcbs[p].st \in {"SYN_SENT", "SYN_RCVD", "ESTABLISHED", "CLOSE_WAIT", "CLOSING"}
      /\ TakeFrame \/ UNCHANGED glueVars
  BY DEF RxRefuse, RxDrop, TimerDrop
<1>2. Control'
  BY <1>1, InvGives, QuietControl
<1>3. Hist'
  BY <1>1, InvGives DEF Hist
<1> QED BY <1>1, <1>2, <1>3, DropStep, SMTT(30) DEF Core

\* So does the SYN-ACK that connect waits for.
LEMMA ConnectedStep ==
  ASSUME TableInv, NEW p \in Pcbs, RxConnected(p)
  PROVE  Core'
<1> DEFINE s == pcbs[p].arg
<1>1. pcbs[p].st = "SYN_SENT" /\ s \in Slots /\ Live(s) /\ socks[s].pcb = p
  BY InvGives DEF RxConnected, OwnInv, Ownership, CallbackLands
<1> HIDE DEF s
<1>2. socks' = on_connected(s)
  BY DEF RxConnected, s
<1>3. /\ OnlyAt(socks', s, socks'[s]) /\ SameQueue(socks'[s], socks[s])
      /\ socks'[s].state = "CONNECTED" /\ socks'[s].pcb = p
  BY <1>1, <1>2, InvGives, OnConnectedShape
<1>4. /\ pcbs' \in [Pcbs -> PcbRecs]
      /\ pcbs'[p].st = "ESTABLISHED" /\ pcbs'[p].arg = pcbs[p].arg
      /\ pcbs'[p].cb = pcbs[p].cb /\ pcbs'[p].listener = pcbs[p].listener
      /\ \A q \in Pcbs : q # p => PSame(q)
  BY InvGives DEF RxConnected, Table, PcbRecs, PcbStates, PSame
<1>5. Control'
  BY InvGives, QuietControl DEF RxConnected
<1>6. Table' /\ Hist'
  BY <1>3, <1>4, InvGives DEF Table, Hist, OnlyAt, RxConnected
<1>7. OwnInv'
  <2>1. \A t \in Slots : t # s => SSame(t)
    BY <1>3 DEF OnlyAt, SSame
  <2> QED BY <1>1, <1>3, <1>4, <2>1, InvGives, OwnConnected, SMTT(30)
<1>8. SlotInv'
  <2>1. socks[s].state # "LISTENING"
    BY <1>1, ListenAgrees
  <2>2. \A t \in Slots : LiveSame(t) /\ QSame(t)
    BY <1>1, <1>3, <2>1 DEF OnlyAt, LiveSame, QSame, SameQueue, Live
  <2>3. held' = held /\ lost' = lost
    BY DEF RxConnected
  <2> QED BY <2>2, <2>3, InvGives, SlotNothing
<1> QED BY <1>5, <1>6, <1>7, <1>8 DEF Core

\* So does the ACK in which on_accept takes a connection.
LEMMA AcceptStepInv ==
  ASSUME TableInv, NEW p \in Pcbs, NEW s \in Slots, RxAccept(p, s)
  PROVE  Core'
<1> DEFINE l == pcbs[p].arg
           k == pcbs[p].listener
<1>1. /\ pcbs[p].st = "SYN_RCVD" /\ k # NULL /\ k \in Pcbs
      /\ pcbs[k].st = "LISTEN" /\ pcbs[k].arg = l
  BY InvGives DEF RxAccept, OwnInv, Ownership, ListenerLives, OwnPre, OwnTypes
<1>2. l \in Slots /\ Live(l) /\ socks[l].pcb = k
  BY <1>1, InvGives DEF OwnInv, Ownership, CallbackLands
<1>3. socks[l].state = "LISTENING" /\ ~Live(s) /\ l # s /\ l \in Listeners
  <2>1. socks[l].state = "LISTENING"
    BY <1>1, <1>2, ListenAgrees
  <2>2. ~Live(s)
    BY DEF RxAccept, alloc_slot, Live
  <2> QED BY <1>2, <2>1, <2>2 DEF Listeners
<1>4. socks[l].count < AcceptqMax
  <2>1. socks[l].count \in Nat /\ AcceptqMax \in Nat
    BY <1>2, InvGives DEF SlotPre, SlotTypes
  <2> QED BY <2>1 DEF RxAccept, on_accept_refuses
<1>5. /\ pcbs' \in [Pcbs -> PcbRecs]
      /\ pcbs'[p].st = "ESTABLISHED" /\ pcbs'[p].arg = s /\ pcbs'[p].cb
      /\ \A q \in Pcbs : q # p => PSame(q)
  <2>1. pcbs' = [pcbs EXCEPT ![p] = [pcbs[p] EXCEPT !.st = "ESTABLISHED", !.arg = s, !.cb = TRUE]]
    BY InvGives, Zenon DEF RxAccept, Table
  <2>2. pcbs[p] \in PcbRecs
    BY InvGives DEF Table
  <2>3. /\ [pcbs[p] EXCEPT !.st = "ESTABLISHED", !.arg = s, !.cb = TRUE] \in PcbRecs
        /\ [pcbs[p] EXCEPT !.st = "ESTABLISHED", !.arg = s, !.cb = TRUE].st = "ESTABLISHED"
        /\ [pcbs[p] EXCEPT !.st = "ESTABLISHED", !.arg = s, !.cb = TRUE].arg = s
        /\ [pcbs[p] EXCEPT !.st = "ESTABLISHED", !.arg = s, !.cb = TRUE].cb
    BY <2>2, Zenon DEF PcbRecs, PcbStates
  <2> QED BY <2>1, <2>3, InvGives DEF Table, PSame
<1> HIDE DEF l, k
<1>6. socks' = on_accept(l, s, p)
  BY Zenon DEF RxAccept, l
<1>7. /\ socks' \in [Slots -> Socks]
      /\ socks'[s] = [reset_sock EXCEPT !.state = "CONNECTED", !.pcb = p]
      /\ SameOwner(socks'[l], socks[l])
      /\ socks'[l].acceptq = [socks[l].acceptq EXCEPT ![socks[l].tail] = s]
      /\ socks'[l].head = socks[l].head
      /\ socks'[l].tail = (socks[l].tail + 1) % AcceptqMax
      /\ socks'[l].count = socks[l].count + 1
      /\ \A t \in Slots \ {l, s} : socks'[t] = socks[t]
  <2>1. AcceptShape(socks', l, s, p)
    BY <1>2, <1>3, <1>6, InvGives, OnAcceptShape
  <2> QED BY <2>1 DEF AcceptShape
<1>8. /\ socks'[s].state = "CONNECTED" /\ socks'[s].pcb = p
      /\ socks'[s].count = 0 /\ socks'[s].head = 0 /\ socks'[s].tail = 0
  <2>1. "CONNECTED" \in SockStates
    BY DEF SockStates
  <2>2. FreshShape([reset_sock EXCEPT !.state = "CONNECTED", !.pcb = p], "CONNECTED", p)
    BY <2>1, ResetShape, Zenon
  <2> QED BY <1>7, <2>2 DEF FreshShape
<1>9. Control'
  BY InvGives, QuietControl DEF RxAccept
<1>10. Table'
  BY <1>5, <1>7, InvGives DEF Table, RxAccept
<1>11. Hist'
  BY InvGives DEF Hist, RxAccept
<1>12. OwnInv'
  <2>1. \A t \in Slots : t # s => SSame(t)
    BY <1>7 DEF SSame, SameOwner
  <2> QED BY <1>1, <1>3, <1>5, <1>8, <2>1, InvGives, OwnAccept
<1>13. SlotInv'
  <2>1. held' = held /\ lost' = lost
    BY DEF RxAccept
  <2>2. Live(s)' /\ socks'[s].state # "LISTENING"
    BY <1>8 DEF Live
  <2>3. socks'[l].state = "LISTENING"
    BY <1>3, <1>7 DEF SameOwner
  <2> QED BY <1>3, <1>4, <1>7, <1>8, <2>1, <2>2, <2>3, InvGives, SlotAccept, Zenon DEF Enqueued
<1> QED BY <1>9, <1>10, <1>11, <1>12, <1>13 DEF Core

\* Frames that change only the data of a connection, or nothing here.
LEMMA DataStep ==
  ASSUME TableInv, NEW p \in Pcbs, NEW n \in 1..Wnd, RxData(p, n)
  PROVE  Core'
<1> DEFINE s == pcbs[p].arg
           bytes == [i \in 1..n |-> dlv[s] + i]
<1>1. s \in Slots
  BY InvGives DEF RxData, OwnInv, Ownership, CallbackLands
<1>2. n \in Nat /\ dlv[s] \in Nat
  BY <1>1, InvGives, ShimAssumption DEF Hist
<1>3. bytes \in Seq(Nat)
  BY <1>2
<1>4. dlv' = [dlv EXCEPT ![s] = @ + n] /\ socks' = on_recv(s, bytes)
  BY DEF RxData
<1> HIDE DEF s, bytes
<1>5. /\ OnlyAt(socks', s, socks'[s]) /\ SameQueue(socks'[s], socks[s])
      /\ SameOwner(socks'[s], socks[s])
  BY <1>1, <1>3, <1>4, InvGives, OnRecvShape
<1>6. /\ pcbs' \in [Pcbs -> PcbRecs]
      /\ \A q \in Pcbs : PSame(q)
  <2>1. pcbs[p].wnd - n \in 0..Wnd /\ pcbs[p] \in PcbRecs
    BY <1>2, InvGives, ShimAssumption DEF RxData, Table, PcbRecs
  <2>2. pcbs' = [pcbs EXCEPT ![p].wnd = pcbs[p].wnd - n]
    BY InvGives DEF RxData, Table
  <2> QED BY <2>1, <2>2, InvGives DEF Table, PcbRecs, PSame
<1>7. Control'
  BY InvGives, QuietControl DEF RxData
<1>8. Table' /\ Hist'
  <2>1. Table'
    BY <1>5, <1>6, InvGives DEF Table, OnlyAt, RxData
  <2>2. dlv' \in [Slots -> Nat]
    BY <1>1, <1>2, <1>4, InvGives DEF Hist
  <2>3. got' = got
    BY DEF RxData
  <2> QED BY <2>1, <2>2, <2>3, InvGives, SMTT(30) DEF Hist
<1>9. OwnInv'
  <2>1. \A t \in Slots : SSame(t)
    BY <1>5 DEF OnlyAt, SSame, SameOwner
  <2> QED BY <1>6, <2>1, InvGives, OwnNothing
<1>10. SlotInv'
  <2>1. \A t \in Slots : LiveSame(t) /\ QSame(t)
    BY <1>5 DEF OnlyAt, LiveSame, QSame, SameQueue, SameOwner, Live
  <2>2. held' = held /\ lost' = lost
    BY DEF RxData
  <2> QED BY <2>1, <2>2, InvGives, SlotNothing
<1> QED BY <1>7, <1>8, <1>9, <1>10 DEF Core

\* So does the peer's FIN.
LEMMA FinStep ==
  ASSUME TableInv, NEW p \in Pcbs, RxFin(p)
  PROVE  Core'
<1> DEFINE s == pcbs[p].arg
<1>1. s \in Slots /\ pcbs[p].st = "ESTABLISHED"
  BY InvGives DEF RxFin, OwnInv, Ownership, CallbackLands
<1>2. socks' = on_recv_eof(s)
  BY DEF RxFin
<1> HIDE DEF s
<1>3. /\ OnlyAt(socks', s, socks'[s]) /\ SameQueue(socks'[s], socks[s])
      /\ SameOwner(socks'[s], socks[s])
  BY <1>1, <1>2, InvGives, OnEofShape
<1>4. /\ pcbs' \in [Pcbs -> PcbRecs]
      /\ pcbs'[p].st = "CLOSE_WAIT" /\ pcbs'[p].arg = pcbs[p].arg
      /\ pcbs'[p].cb = pcbs[p].cb /\ pcbs'[p].listener = pcbs[p].listener
      /\ \A q \in Pcbs : q # p => PSame(q)
  BY InvGives, ZenonT(30) DEF RxFin, Table, PcbRecs, PcbStates, PSame
<1>5. Control'
  BY InvGives, QuietControl, Zenon DEF RxFin
<1>6. Table' /\ Hist'
  BY <1>3, <1>4, InvGives DEF Table, Hist, OnlyAt, RxFin
<1>7. OwnInv'
  <2>1. \A t \in Slots : SSame(t)
    BY <1>3, SMTT(30) DEF OnlyAt, SSame, SameOwner
  <2> QED BY <1>1, <1>4, <2>1, InvGives, OwnFin
<1>8. SlotInv'
  <2>1. \A t \in Slots : LiveSame(t) /\ QSame(t)
    BY <1>3 DEF OnlyAt, LiveSame, QSame, SameQueue, SameOwner, Live
  <2>2. held' = held /\ lost' = lost
    BY DEF RxFin
  <2> QED BY <2>1, <2>2, InvGives, SlotNothing
<1> QED BY <1>5, <1>6, <1>7, <1>8 DEF Core

\* So does an acknowledgement.
LEMMA AckStep ==
  ASSUME TableInv, NEW p \in Pcbs, NEW n \in 1..SndBuf, RxAck(p, n)
  PROVE  Core'
<1>1. pcbs[p] \in PcbRecs /\ pcbs[p].snd - n \in 0..SndBuf
  BY InvGives, ShimAssumption DEF RxAck, Table, PcbRecs
<1>2. pcbs' = [pcbs EXCEPT ![p].snd = pcbs[p].snd - n]
  BY InvGives DEF RxAck, Table
<1>3. pcbs' \in [Pcbs -> PcbRecs] /\ \A q \in Pcbs : PSame(q)
  BY <1>1, <1>2, InvGives DEF Table, PcbRecs, PSame
<1>4. Control'
  BY InvGives, QuietControl DEF RxAck
<1>5. Table' /\ Hist'
  BY <1>3, InvGives DEF Table, Hist, RxAck
<1>6. OwnInv'
  BY <1>3, InvGives, OwnNothing DEF RxAck, SSame
<1>7. SlotInv'
  BY InvGives, SlotNothing DEF RxAck, LiveSame, QSame, SameQueue, Live
<1> QED BY <1>4, <1>5, <1>6, <1>7 DEF Core

\* Every frame keeps the invariant.
LEMMA FramesStep ==
  ASSUME TableInv, Frames
  PROVE  Core' /\ netReady' \in BOOLEAN /\ dhcp' \in BOOLEAN
<1>1. netReady' \in BOOLEAN /\ dhcp' \in BOOLEAN
  <2>1. netReady' = netReady /\ (dhcp' = dhcp \/ dhcp' = TRUE)
    BY Zenon DEF Frames, RxSyn, RxAccept, RxRefuse, RxConnected, RxData, RxFin, RxAck, RxDrop,
           RxDhcp, RxOther, shimVars
  <2>2. netReady \in BOOLEAN /\ dhcp \in BOOLEAN
    BY InvIsCore
  <2> QED BY <2>1, <2>2, Zenon
<1>2. CASE RxDhcp \/ RxOther
  <2>1. TakeFrame /\ UNCHANGED <<socks, pcbs, call, ret, held, lost, dlv, got>>
    BY <1>2 DEF RxDhcp, RxOther, shimVars
  <2>2. Control'
    BY <2>1, InvGives, QuietControl
  <2>3. Hist'
    BY <2>1, InvGives DEF Hist
  <2> QED BY <1>1, <2>1, <2>2, <2>3, TableAlone DEF Core
<1> QED BY <1>1, <1>2, SynStep, AcceptStepInv, DataStep, AckStep, DropFrames, ConnectedStep,
           FinStep DEF Frames

-----------------------------------------------------------------------------
\* The calls.

\* SocketMade, with the variables its callers leave alone.
LEMMA SocketMadeStep ==
  ASSUME TableInv, SocketMade, lost' = lost
  PROVE  Core'
<1>1. CASE /\ Return("EAFNOSUPPORT") \/ Return("EMFILE")
           /\ UNCHANGED <<socks, pcbs, held, dlv, got>>
  <2>1. Control'
    BY <1>1, InvGives, ReturnControl, Zenon DEF Rets
  <2>2. Hist'
    BY <1>1, InvGives DEF Hist
  <2> QED BY <1>1, <2>1, <2>2, TableAlone DEF Core
<1>2. ASSUME NEW s \in Slots, alloc_slot(s), Return("ENOMEM"),
             socks' = [socks EXCEPT ![s] = reset_sock], UNCHANGED <<pcbs, held, dlv, got>>
      PROVE  Core'
  <2>1. Control'
    BY <1>2, InvGives, ReturnControl, SMTT(30) DEF Rets
  <2>2. ~Live(s) /\ reset_sock \in Socks /\ reset_sock.state = "FREE" /\ reset_sock.pcb = NULL
    BY <1>2, ShimAssumption DEF alloc_slot, Live, reset_sock, Socks, SockStates, Slots
  <2>3. OnlyAt(socks', s, reset_sock)
    BY <1>2, <2>2, InvGives, OneSlot, Zenon
  <2>4. Table' /\ Hist'
    BY <1>2, <2>3, InvGives DEF Table, Hist, OnlyAt
  <2>5. OwnInv'
    BY <1>2, <2>2, <2>3, InvGives, OwnFreeSlot DEF OnlyAt, Live, SSame, PSame
  <2>6. SlotInv'
    <3>1. \A t \in Slots : LiveSame(t) /\ (Live(t) => QSame(t))
      BY <2>2, <2>3 DEF OnlyAt, LiveSame, Live, QSame, SameQueue
    <3> QED BY <1>2, <3>1, InvGives, SlotNothing
  <2> QED BY <2>1, <2>4, <2>5, <2>6 DEF Core
<1>3. ASSUME NEW s \in Slots, NEW p \in Pcbs, alloc_slot(s), Allocatable(p), Return("fd"),
             pcbs' = [pcbs EXCEPT ![p] = NewPcb("CLOSED", s, NULL)],
             socks' = [socks EXCEPT ![s] = [reset_sock EXCEPT !.state = "CLOSED", !.pcb = p]],
             held' = held \cup {s}, dlv' = [dlv EXCEPT ![s] = 0], got' = [got EXCEPT ![s] = <<>>]
      PROVE  Core'
  <2> DEFINE r == [reset_sock EXCEPT !.state = "CLOSED", !.pcb = p]
             n == NewPcb("CLOSED", s, NULL)
  <2>1. Control'
    BY <1>3, InvGives, ReturnControl DEF Rets
  <2>2. ~Live(s) /\ pcbs[p].st \in {"NONE", "CLOSING"}
    BY <1>3 DEF alloc_slot, Live, Allocatable
  <2>3. FreshShape(r, "CLOSED", p)
    <3>1. "CLOSED" \in SockStates
      BY DEF SockStates
    <3> QED BY <3>1, ResetShape, Zenon
  <2>4. n \in PcbRecs /\ n.st = "CLOSED" /\ n.arg = s /\ ~n.cb
    <3>1. "CLOSED" \in PcbStates
      BY DEF PcbStates
    <3> QED BY <3>1, NewPcbType
  <2> HIDE DEF r, n
  <2>5. OnlyAt(socks', s, r)
    BY <1>3, <2>3, InvGives, OneSlot, Zenon DEF FreshShape, r
  <2>6. pcbs' \in [Pcbs -> PcbRecs] /\ pcbs'[p] = n /\ \A q \in Pcbs : q # p => PSame(q)
    BY <1>3, <2>4, InvGives DEF Table, PSame, n
  <2>7. Table' /\ Hist'
    BY <1>3, <2>5, <2>6, InvGives, SMTT(30) DEF Table, Hist, OnlyAt
  <2>8. OwnInv'
    <3>1. \A t \in Slots : t # s => SSame(t)
      BY <2>5 DEF OnlyAt, SSame
    <3>2. socks'[s].state = "CLOSED" /\ socks'[s].pcb = p
      BY <2>3, <2>5 DEF OnlyAt, FreshShape
    <3> QED BY <2>2, <2>4, <2>6, <3>1, <3>2, InvGives, OwnSocket
  <2>9. SlotInv'
    <3>1. /\ Live(s)' /\ socks'[s].state # "LISTENING"
          /\ socks'[s].count = 0 /\ socks'[s].head = 0 /\ socks'[s].tail = 0
      BY <2>3, <2>5 DEF OnlyAt, FreshShape, Live
    <3> QED BY <1>3, <2>2, <2>5, <3>1, InvGives, SlotSocket DEF OnlyAt
  <2> QED BY <2>1, <2>7, <2>8, <2>9 DEF Core
<1> QED BY <1>1, <1>2, <1>3, Zenon DEF SocketMade

\* A freed pcb.
LEMMA NoPcbType == NoPcb \in PcbRecs /\ NoPcb.st = "NONE" /\ NoPcb.cb = FALSE
  BY ShimAssumption DEF NoPcb, PcbRecs, PcbStates

\* The program's descriptors are slots in use.
LEMMA HeldIsLive ==
  ASSUME TableInv, NEW s \in held
  PROVE  s \in Slots /\ Live(s)
  BY InvGives, Zenon DEF Table, SlotInv, HeldInv

\* listen, which exchanges the pcb of the socket, keeps the invariant.
LEMMA ListenStep ==
  ASSUME TableInv, NEW s \in Slots, net_shim_listen(s)
  PROVE  Core'
<1>1. s \in held /\ Live(s) /\ UNCHANGED <<held, lost, dlv, got>>
  BY HeldIsLive, Zenon DEF net_shim_listen
<1>2. Hist'
  BY <1>1, InvGives DEF Hist
<1>3. CASE Return("EADDRINUSE") /\ UNCHANGED <<socks, pcbs>>
  <2>1. Control'
    BY <1>3, InvGives, ReturnControl DEF Rets
  <2> QED BY <1>1, <1>2, <1>3, <2>1, TableAlone DEF Core
<1>4. ASSUME NEW n \in Pcbs, socks[s].pcb # NULL,
             pcbs[socks[s].pcb].st = "CLOSED", pcbs[n].st = "NONE",
             pcbs' = [pcbs EXCEPT ![socks[s].pcb] = NoPcb,
                                  ![n] = [NoPcb EXCEPT !.st = "LISTEN", !.arg = s]],
             socks' = [socks EXCEPT ![s].pcb = n, ![s].state = "LISTENING"],
             Return("0")
      PROVE  Core'
  <2> DEFINE p == socks[s].pcb
             new == [NoPcb EXCEPT !.st = "LISTEN", !.arg = s]
             r == [socks[s] EXCEPT !.pcb = n, !.state = "LISTENING"]
  <2>1. Control'
    BY <1>4, InvGives, ReturnControl DEF Rets
  <2>2. p \in Pcbs /\ p # n /\ socks[s].state # "LISTENING"
    <3>1. p \in Pcbs
      BY <1>4, InvGives DEF OwnPre, OwnTypes
    <3> QED BY <1>1, <1>4, <3>1, ListenAgrees
  <2>3. /\ NoPcb \in PcbRecs /\ NoPcb.st = "NONE" /\ ~NoPcb.cb
        /\ new \in PcbRecs /\ new.st = "LISTEN" /\ new.arg = s /\ ~new.cb
    BY NoPcbType, Zenon DEF PcbRecs, PcbStates
  <2>4. pcbs' = [pcbs EXCEPT ![p] = NoPcb, ![n] = new]
    BY <1>4
  <2>5. socks' = [socks EXCEPT ![s] = r]
    BY <1>4, InvGives, Zenon DEF Table
  <2>6. r \in Socks /\ r.state = "LISTENING" /\ r.pcb = n /\ SameQueue(r, socks[s])
    <3>1. socks[s] \in Socks
      BY InvGives, Zenon DEF Table
    <3> QED BY <3>1, Zenon DEF Socks, SockStates, SameQueue
  <2>10. socks[s].pcb = p
    BY Zenon
  <2>11. pcbs[p].st = "CLOSED"
    BY <1>4, Zenon
  <2> HIDE DEF p, new, r
  <2>7. OnlyAt(socks', s, r)
    BY <2>5, <2>6, InvGives, OneSlot, Zenon
  <2>8. /\ pcbs' \in [Pcbs -> PcbRecs] /\ pcbs'[p] = NoPcb /\ pcbs'[n] = new
        /\ \A q \in Pcbs : q # p /\ q # n => PSame(q)
    BY <2>2, <2>3, <2>4, InvGives DEF Table, PSame
  <2>9. Table'
    BY <1>1, <2>7, <2>8, InvGives DEF Table, OnlyAt
  <2>12. OwnInv'
    <3>1. \A t \in Slots : t # s => SSame(t)
      BY <2>7, Zenon DEF OnlyAt, SSame
    <3>2. socks'[s].state = "LISTENING" /\ socks'[s].pcb = n
      BY <2>6, <2>7 DEF OnlyAt
    <3>3. /\ pcbs'[p].st = "NONE" /\ ~pcbs'[p].cb
          /\ pcbs'[n].st = "LISTEN" /\ pcbs'[n].arg = s /\ ~pcbs'[n].cb
      BY <2>3, <2>8
    <3>4. OwnPre
      BY InvGives, Zenon
    <3> QED BY <1>1, <1>4, <2>2, <2>8, <2>10, <2>11, <3>1, <3>2, <3>3, <3>4, OwnListen, ZenonT(30)
  <2>13. SlotInv'
    <3>1. QSame(s) /\ socks'[s].state = "LISTENING"
      BY <2>6, <2>7, SMTT(30) DEF OnlyAt, QSame
    <3> QED BY <1>1, <2>2, <2>7, <3>1, InvGives, SlotListen, SMTT(30) DEF OnlyAt
  <2> QED BY <1>2, <2>1, <2>9, <2>12, <2>13 DEF Core
<1> QED BY <1>3, <1>4, Zenon DEF net_shim_listen

\* What tcp_close does to the pcbs.
LEMMA CloseShape ==
  ASSUME TableInv, NEW p \in Pcbs
  PROVE  /\ tcp_close(p) \in [Pcbs -> PcbRecs]
         /\ tcp_close(p)[p].st \in {"NONE", "CLOSING"} /\ ~tcp_close(p)[p].cb
         /\ pcbs[p].st # "LISTEN" => \A q \in Pcbs : q # p => tcp_close(p)[q] = pcbs[q]
         /\ \A q \in Pcbs : q # p =>
               /\ tcp_close(p)[q].st = pcbs[q].st /\ tcp_close(p)[q].arg = pcbs[q].arg
               /\ tcp_close(p)[q].cb = pcbs[q].cb
               /\ pcbs[p].st = "LISTEN" =>
                     tcp_close(p)[q].listener = IF pcbs[q].listener = p THEN NULL
                                                ELSE pcbs[q].listener
<1> DEFINE closing == [NoPcb EXCEPT !.st = "CLOSING"]
<1>1. /\ NoPcb \in PcbRecs /\ NoPcb.st = "NONE" /\ ~NoPcb.cb
      /\ closing \in PcbRecs /\ closing.st = "CLOSING" /\ ~closing.cb
  BY NoPcbType, Zenon DEF PcbRecs, PcbStates
<1>2. pcbs \in [Pcbs -> PcbRecs]
  BY InvGives, Zenon DEF Table
<1> HIDE DEF closing
<1>3. CASE pcbs[p].st = "LISTEN"
  <2> DEFINE un(q) == [pcbs[q] EXCEPT !.listener = NULL]
             f == [q \in Pcbs |-> IF q = p THEN NoPcb
                                  ELSE IF pcbs[q].listener = p THEN un(q) ELSE pcbs[q]]
  <2>1. tcp_close(p) = f
    BY <1>3, Zenon DEF tcp_close
  <2>2. \A q \in Pcbs : /\ un(q) \in PcbRecs /\ un(q).st = pcbs[q].st /\ un(q).arg = pcbs[q].arg
                        /\ un(q).cb = pcbs[q].cb /\ un(q).listener = NULL
    BY <1>2 DEF PcbRecs
  <2> HIDE DEF un
  <2>3. /\ f \in [Pcbs -> PcbRecs] /\ f[p] = NoPcb
        /\ \A q \in Pcbs : q # p => f[q] = IF pcbs[q].listener = p THEN un(q) ELSE pcbs[q]
    BY <1>1, <1>2, <2>2, Zenon
  <2> HIDE DEF f
  <2> QED BY <1>1, <1>3, <2>1, <2>2, <2>3
<1>4. CASE pcbs[p].st # "LISTEN"
  <2>1. \E c \in {NoPcb, closing} : tcp_close(p) = [pcbs EXCEPT ![p] = c]
    <3>1. CASE pcbs[p].st \in {"ESTABLISHED", "CLOSE_WAIT"} /\ pcbs[p].wnd = Wnd
      <4>1. tcp_close(p) = [pcbs EXCEPT ![p] = closing]
        BY <1>4, <3>1 DEF tcp_close, closing
      <4> QED BY <4>1, Zenon
    <3>2. CASE ~(pcbs[p].st \in {"ESTABLISHED", "CLOSE_WAIT"} /\ pcbs[p].wnd = Wnd)
      <4>1. tcp_close(p) = [pcbs EXCEPT ![p] = NoPcb]
        BY <1>4, <3>2 DEF tcp_close
      <4> QED BY <4>1, Zenon
    <3> QED BY <3>1, <3>2
  <2> QED BY <1>1, <1>2, <1>4, <2>1
<1> QED BY <1>3, <1>4

\* close, which frees the slot and closes the pcb, keeps the invariant.
LEMMA CloseStep ==
  ASSUME TableInv, NEW s \in Slots, net_shim_close(s)
  PROVE  Core'
<1> DEFINE r == [socks[s] EXCEPT !.rx = <<>>, !.state = "FREE"]
<1>1. /\ s \in held /\ Live(s) /\ UNCHANGED <<dlv, got>>
      /\ held' = held \ {s} /\ lost' = lost \cup Queued(s)
  BY HeldIsLive, Zenon DEF net_shim_close
<1>2. Control'
  BY InvGives, ReturnControl, Zenon DEF net_shim_close, Rets
<1>3. socks' = [socks EXCEPT ![s] = r]
  BY InvGives, Zenon DEF net_shim_close, Table
<1>4. r \in Socks /\ r.state = "FREE"
  <2>1. socks[s] \in Socks /\ <<>> \in Seq(Seq(Nat)) /\ "FREE" \in SockStates
    BY InvGives DEF Table, SockStates
  <2> QED BY <2>1, Zenon DEF Socks
<1> HIDE DEF r
<1>5. OnlyAt(socks', s, r)
  BY <1>3, <1>4, InvGives, OneSlot, Zenon
<1>6. /\ pcbs' \in [Pcbs -> PcbRecs]
      /\ \A q \in Pcbs : q = socks[s].pcb => pcbs'[q].st \in {"NONE", "CLOSING"} /\ ~pcbs'[q].cb
      /\ \A q \in Pcbs : q # socks[s].pcb =>
             /\ pcbs'[q].st = pcbs[q].st /\ pcbs'[q].arg = pcbs[q].arg /\ pcbs'[q].cb = pcbs[q].cb
             /\ \/ pcbs'[q].listener = NULL
                \/ /\ pcbs'[q].listener = pcbs[q].listener
                   /\ pcbs[q].listener # socks[s].pcb \/ PcbState(s) # "LISTEN"
  <2>1. CASE socks[s].pcb = NULL
    <3>1. pcbs' = pcbs /\ PcbState(s) # "LISTEN"
      BY <2>1, Zenon DEF net_shim_close, PcbState
    <3> QED BY <2>1, <3>1, InvGives, ShimAssumption DEF Table
  <2>2. CASE socks[s].pcb # NULL
    <3> DEFINE p == socks[s].pcb
    <3>1. p \in Pcbs /\ PcbState(s) = pcbs[p].st /\ pcbs' = tcp_close(p)
      BY <2>2, InvGives DEF net_shim_close, PcbState, OwnPre, OwnTypes
    <3> HIDE DEF p
    <3>2. socks[s].pcb = p
      BY Zenon DEF p
    <3>3. /\ pcbs' \in [Pcbs -> PcbRecs]
          /\ pcbs'[p].st \in {"NONE", "CLOSING"} /\ ~pcbs'[p].cb
          /\ pcbs[p].st # "LISTEN" => \A q \in Pcbs : q # p => pcbs'[q] = pcbs[q]
          /\ \A q \in Pcbs : q # p =>
               /\ pcbs'[q].st = pcbs[q].st /\ pcbs'[q].arg = pcbs[q].arg
               /\ pcbs'[q].cb = pcbs[q].cb
               /\ pcbs[p].st = "LISTEN" =>
                     pcbs'[q].listener = IF pcbs[q].listener = p THEN NULL ELSE pcbs[q].listener
      BY <3>1, CloseShape, SMTT(30)
    <3>4. CASE pcbs[p].st = "LISTEN"
      BY <3>1, <3>2, <3>3, <3>4
    <3>5. CASE pcbs[p].st # "LISTEN"
      BY <3>1, <3>2, <3>3, <3>5, Zenon
    <3> QED BY <3>4, <3>5, Zenon
  <2> QED BY <2>1, <2>2, Zenon
<1>7. Hist'
  BY <1>1, InvGives, SMTT(30) DEF Hist
<1>8. Table'
  <2>1. Queued(s) \subseteq Slots
    <3>1. \A i \in 1..socks[s].count : i \in Nat
      BY InvGives DEF SlotPre, SlotTypes
    <3> QED BY <3>1, QueuedIsAt, AtSlot, InvGives DEF SlotPre
  <2> QED BY <1>1, <1>5, <1>6, <2>1, InvGives, SMTT(30) DEF Table, OnlyAt
<1>9. OwnInv'
  <2>1. \A t \in Slots : t # s => SSame(t)
    BY <1>5, Zenon DEF OnlyAt, SSame
  <2>2. socks'[s].state = "FREE"
    BY <1>4, <1>5, Zenon DEF OnlyAt
  <2> QED BY <1>1, <1>6, <2>1, <2>2, InvGives, OwnClose, Zenon
<1>10. SlotInv'
  <2>1. socks'[s].state = "FREE"
    BY <1>4, <1>5 DEF OnlyAt
  <2> QED BY <1>1, <1>5, <2>1, InvGives, SlotClose, SMTT(30) DEF OnlyAt
<1> QED BY <1>2, <1>7, <1>8, <1>9, <1>10 DEF Core

\* A step that leaves the table and the histories alone and ends the call or
\* sends it into net_poll.
LEMMA QuietCall ==
  ASSUME TableInv, UNCHANGED <<socks, pcbs, held, lost, dlv, got>>, Control'
  PROVE  Core'
<1>1. Hist'
  BY InvGives, Zenon DEF Hist
<1> QED BY <1>1, TableAlone DEF Core

\* The head of accept's loop.
LEMMA AcceptHeadStep ==
  ASSUME TableInv, NEW s \in held, NEW start \in 0..ClockMod - 1, AcceptHead(s, start), lost' = lost
  PROVE  Core'
<1>1. s \in Slots /\ Live(s) /\ UNCHANGED <<pcbs, dlv, got>>
  BY HeldIsLive, Zenon DEF AcceptHead
<1>2. CASE socks[s].count = 0
  <2>1. UNCHANGED <<socks, held>> /\ (Return("EINVAL") \/ Wait("accept", s, 0, start))
    BY <1>2, Zenon DEF AcceptHead
  <2>2. Control'
    BY <1>1, <2>1, InvGives, ReturnControl, WaitControl DEF Rets, Ops
  <2> QED BY <1>1, <2>1, <2>2, QuietCall
<1>3. CASE socks[s].count # 0
  <2> DEFINE r == [socks[s] EXCEPT !.head = (@ + 1) % AcceptqMax, !.count = @ - 1]
             h == (socks[s].head + 1) % AcceptqMax
             c == socks[s].count - 1
  <2>1. /\ socks' = [socks EXCEPT ![s].head = (@ + 1) % AcceptqMax, ![s].count = @ - 1]
        /\ held' = held \cup {socks[s].acceptq[socks[s].head]} /\ Return("fd")
    BY <1>3, Zenon DEF AcceptHead
  <2>2. socks' = [socks EXCEPT ![s] = r]
    BY <2>1, InvGives, Zenon DEF Table
  <2>3. /\ socks[s] \in Socks /\ h \in 0..AcceptqMax - 1 /\ c \in Nat
        /\ socks[s].acceptq[socks[s].head] \in Slots
    <3>1. socks[s] \in Socks
      BY <1>1, InvGives, Zenon DEF Table
    <3>2. /\ socks[s].head \in 0..AcceptqMax - 1 /\ socks[s].count \in Nat
          /\ socks[s].acceptq \in [0..AcceptqMax - 1 -> Slots]
          /\ AcceptqMax \in Nat \ {0}
      BY <3>1, ShimAssumption DEF Socks
    <3>3. socks[s].head + 1 \in Int
      BY <3>2
    <3>4. h \in 0..AcceptqMax - 1
      BY <3>2, <3>3, ModRange, Zenon
    <3>5. c \in Nat /\ socks[s].acceptq[socks[s].head] \in Slots
      BY <1>3, <3>2
    <3> QED BY <3>1, <3>4, <3>5
  <2>4. r = [socks[s] EXCEPT !.head = h, !.count = c]
    BY <2>3, Zenon DEF Socks
  <2> HIDE DEF r
  <2>5. /\ r \in Socks /\ SameOwner(r, socks[s]) /\ r.acceptq = socks[s].acceptq
        /\ r.tail = socks[s].tail /\ r.head = h /\ r.count = c
    <3> HIDE DEF h, c
    <3> QED BY <2>3, <2>4, Zenon DEF Socks, SameOwner
  <2>6. OnlyAt(socks', s, r)
    BY <1>1, <2>2, <2>5, InvGives, OneSlot, Zenon
  <2>7. socks[s].state = "LISTENING" /\ s \in Listeners
    BY <1>1, <1>3, InvGives DEF SlotInv, NoQueue, Listeners
  <2>8. Control'
    BY <2>1, InvGives, ReturnControl DEF Rets
  <2>9. Table' /\ Hist'
    BY <1>1, <2>1, <2>3, <2>6, InvGives DEF Table, Hist, OnlyAt
  <2>10. OwnInv'
    <3>1. \A t \in Slots : SSame(t)
      BY <2>5, <2>6, Zenon DEF OnlyAt, SSame, SameOwner
    <3>2. \A q \in Pcbs : PSame(q)
      BY <1>1, Zenon DEF PSame
    <3> QED BY <3>1, <3>2, InvGives, OwnNothing
  <2>11. SlotInv'
    <3>1. socks'[s] = r /\ \A t \in Slots : t # s => socks'[t] = socks[t]
      BY <2>6, Zenon DEF OnlyAt
    <3>2. socks'[s].state = "LISTENING"
      BY <2>5, <2>7, <3>1 DEF SameOwner
    <3> QED BY <1>3, <2>1, <2>5, <2>7, <3>1, <3>2, InvGives, SlotDequeue, Zenon DEF Dequeued
  <2> QED BY <2>8, <2>9, <2>10, <2>11 DEF Core
<1> QED BY <1>2, <1>3, Zenon

\* The head of connect's loop.
LEMMA ConnectHeadStep ==
  ASSUME TableInv, NEW s \in held, NEW start \in 0..ClockMod - 1, ConnectHead(s, start), lost' = lost
  PROVE  Core'
<1>1. s \in Slots /\ UNCHANGED <<socks, pcbs, held, dlv, got>>
  BY HeldIsLive, Zenon DEF ConnectHead
<1>2. Wait("connect", s, 0, start) \/ Return("0") \/ Return("ECONNREFUSED")
  BY Zenon DEF ConnectHead
<1>3. Control'
  BY <1>1, <1>2, InvGives, ReturnControl, WaitControl, SMTT(30) DEF Rets, Ops
<1> QED BY <1>1, <1>3, QuietCall, Zenon

\* The head of send's loop.
LEMMA SendHeadStep ==
  ASSUME TableInv, NEW s \in held, NEW len \in Lens \cup {0}, NEW start \in 0..ClockMod - 1,
         SendHead(s, len, start), lost' = lost
  PROVE  Core'
<1>1. s \in Slots /\ UNCHANGED <<socks, held, dlv, got>>
  BY HeldIsLive, Zenon DEF SendHead
<1>2. CASE UNCHANGED pcbs /\ (Return("ECONNRESET") \/ Wait("send", s, len, start))
  <2>1. Control'
    BY <1>1, <1>2, InvGives, ReturnControl, WaitControl DEF Rets, Ops
  <2> QED BY <1>1, <1>2, <2>1, QuietCall, SMTT(30)
<1>3. ASSUME NEW p \in Pcbs, NEW x \in 0..SndBuf, Return("bytes"),
             pcbs' = [pcbs EXCEPT ![p].snd = x]
      PROVE  Core'
  <2>1. pcbs' \in [Pcbs -> PcbRecs] /\ \A q \in Pcbs : PSame(q)
    BY <1>3, InvGives DEF Table, PcbRecs, PSame
  <2>2. Control'
    BY <1>3, InvGives, ReturnControl DEF Rets
  <2>3. Table' /\ Hist'
    BY <1>1, <2>1, InvGives DEF Table, Hist
  <2>4. OwnInv'
    BY <1>1, <2>1, InvGives, OwnNothing, SMTT(30) DEF SSame
  <2>5. SlotInv'
    BY <1>1, InvGives, SlotNothing DEF LiveSame, QSame, SameQueue, Live
  <2> QED BY <2>2, <2>3, <2>4, <2>5 DEF Core
<1> DEFINE p == socks[s].pcb
           room == SndBuf - pcbs[p].snd
           n == IF len < room THEN len ELSE room
<1>4. CASE p # NULL /\ room # 0 /\ pcbs' = [pcbs EXCEPT ![p].snd = @ + n] /\ Return("bytes")
  <2>1. p \in Pcbs
    BY <1>1, <1>4, InvGives DEF OwnPre, OwnTypes
  <2>2. pcbs[p].snd \in 0..SndBuf /\ len \in Nat
    <3>1. pcbs[p] \in PcbRecs
      BY <2>1, InvGives, Zenon DEF Table
    <3>2. len \in Nat
      BY ShimAssumption, SMTT(30)
    <3> QED BY <3>1, <3>2 DEF PcbRecs
  <2>3. pcbs[p].snd + n \in 0..SndBuf
    BY <2>2, ShimAssumption
  <2>4. pcbs' = [pcbs EXCEPT ![p].snd = pcbs[p].snd + n]
    BY <1>4, <2>1, InvGives, SMTT(30) DEF Table
  <2> HIDE DEF p, room, n
  <2> QED BY <1>3, <1>4, <2>1, <2>3, <2>4, Zenon
<1> QED BY <1>2, <1>4 DEF SendHead

\* What bsock_read leaves.
LEMMA ReadShape ==
  ASSUME TableInv, ReadInv, NEW s \in held, NEW len \in Nat, socks[s].rx # <<>>, bsock_read(s, len)
  PROVE  /\ OnlyAt(socks', s, socks'[s])
         /\ SameQueue(socks'[s], socks[s]) /\ SameOwner(socks'[s], socks[s])
         /\ pcbs' \in [Pcbs -> PcbRecs] /\ \A q \in Pcbs : PSame(q)
         /\ got' \in [Slots -> Seq(Nat)]
<1> DEFINE p == Head(socks[s].rx)
           o == socks[s].off
           avail == Len(p) - o
           n == IF len < avail THEN len ELSE avail
           used == o + n = Len(p)
           x == IF used THEN Tail(socks[s].rx) ELSE socks[s].rx
           y == IF used THEN 0 ELSE o + n
           r == [socks[s] EXCEPT !.rx = x, !.off = y]
<1>1. s \in Slots /\ Live(s) /\ socks[s] \in Socks
  BY HeldIsLive, InvGives DEF Table
<1>2. socks[s].rx \in Seq(Seq(Nat)) /\ o \in Nat
  BY <1>1, Zenon DEF Socks
<1>3. p \in Seq(Nat) /\ Tail(socks[s].rx) \in Seq(Seq(Nat))
  BY <1>2
<1>4. Len(p) \in Nat /\ o <= Len(p)
  <2>1. socks[s].off <= Len(socks[s].rx[1])
    BY <1>1, Zenon DEF ReadInv, StreamAt, Follows
  <2> QED BY <1>2, <1>3, <2>1
<1>5. n \in Nat /\ o + n \in 0..Len(p)
  <2> HIDE DEF p, o
  <2> QED BY <1>2, <1>4
<1>6. /\ got' = [got EXCEPT ![s] = @ \o SubSeq(p, o + 1, o + n)]
      /\ socks' = [socks EXCEPT ![s].rx = IF used THEN Tail(@) ELSE @,
                                ![s].off = IF used THEN 0 ELSE @ + n]
      /\ pcbs' = IF socks[s].pcb = NULL THEN pcbs
                 ELSE [pcbs EXCEPT ![socks[s].pcb].wnd = IF @ + n > Wnd THEN Wnd ELSE @ + n]
  BY Zenon DEF bsock_read
<1>7. socks' = [socks EXCEPT ![s] = r]
  BY <1>1, <1>6, InvGives, ZenonT(30) DEF Table, Socks
<1>8. x \in Seq(Seq(Nat)) /\ y \in Nat
  BY <1>2, <1>3, <1>5
<1>10. got' \in [Slots -> Seq(Nat)]
  <2>1. \A i \in o + 1..o + n : p[i] \in Nat
    <3>1. p \in [1..Len(p) -> Nat]
      BY <1>3, SMTT(30)
    <3>2. \A i \in o + 1..o + n : i \in 1..Len(p)
      <4> HIDE DEF p, o, n
      <4> QED BY <1>2, <1>4, <1>5
    <3> QED BY <3>1, <3>2
  <2>2. SubSeq(p, o + 1, o + n) \in Seq(Nat)
    <3>1. o + 1 \in Int /\ o + n \in Int
      BY <1>2, <1>5
    <3> HIDE DEF p, o, n
    <3> QED BY <2>1, <3>1
  <2>3. got \in [Slots -> Seq(Nat)]
    BY InvGives, Zenon DEF Hist
  <2>4. got[s] \o SubSeq(p, o + 1, o + n) \in Seq(Nat)
    BY <1>1, <2>2, <2>3
  <2> HIDE DEF p, o, n
  <2> QED BY <1>6, <2>3, <2>4, Zenon
<1>11. pcbs' \in [Pcbs -> PcbRecs] /\ \A q \in Pcbs : PSame(q)
  <2> HIDE DEF n
  <2>1. CASE socks[s].pcb = NULL
    BY <1>6, <2>1, InvGives DEF Table, PSame
  <2>2. CASE socks[s].pcb # NULL
    <3> DEFINE b == socks[s].pcb
               w == IF pcbs[b].wnd + n > Wnd THEN Wnd ELSE pcbs[b].wnd + n
    <3>1. b \in Pcbs
      BY <1>1, <2>2, InvGives, Zenon DEF OwnPre, OwnTypes
    <3>2. pcbs[b] \in PcbRecs
      BY <3>1, InvGives, SMTT(30) DEF Table
    <3>3. pcbs[b].wnd \in 0..Wnd /\ Wnd \in Nat
      BY <3>2, ShimAssumption, SMTT(30) DEF PcbRecs
    <3>4. w \in 0..Wnd
      <4>1. n \in Nat
        BY <1>5, Zenon
      <4> QED BY <3>3, <4>1, SMTT(30)
    <3>5. pcbs' = [pcbs EXCEPT ![b].wnd = w]
      BY <1>6, <2>2, <3>1, InvGives, Zenon DEF Table
    <3> HIDE DEF b, w
    <3> QED BY <3>1, <3>2, <3>4, <3>5, InvGives, SMTT(30) DEF Table, PcbRecs, PSame
  <2> QED BY <2>1, <2>2
<1> HIDE DEF x, y
<1>12. r \in Socks /\ SameQueue(r, socks[s]) /\ SameOwner(r, socks[s]) /\ r.rx = x /\ r.off = y
  BY <1>1, <1>8, Zenon DEF Socks, SameQueue, SameOwner
<1> HIDE DEF r
<1>13. OnlyAt(socks', s, r)
  BY <1>1, <1>7, <1>12, InvGives, OneSlot, Zenon
<1>14. socks'[s] = r
  BY <1>13, Zenon DEF OnlyAt
<1> QED BY <1>10, <1>11, <1>12, <1>13, <1>14, SMTT(30)

\* The head of recv's loop.
LEMMA RecvHeadStep ==
  ASSUME TableInv, ReadInv, NEW s \in held, NEW len \in Lens \cup {0}, NEW start \in 0..ClockMod - 1,
         RecvHead(s, len, start), lost' = lost
  PROVE  Core'
<1>1. s \in Slots /\ UNCHANGED <<held, dlv>>
  BY HeldIsLive, Zenon DEF RecvHead
<1>2. CASE socks[s].rx = <<>>
  <2>1. /\ UNCHANGED <<socks, pcbs, got>>
        /\ Return("EOF") \/ Return("ECONNRESET") \/ Wait("recv", s, len, start)
    BY <1>2, Zenon DEF RecvHead
  <2>2. Control'
    BY <1>1, <2>1, InvGives, ReturnControl, WaitControl, Zenon DEF Rets, Ops
  <2> QED BY <1>1, <2>1, <2>2, QuietCall, Zenon
<1>3. CASE socks[s].rx # <<>>
  <2>1. bsock_read(s, len) /\ Return("bytes") /\ len \in Nat
    BY <1>3, ShimAssumption DEF RecvHead
  <2>2. /\ OnlyAt(socks', s, socks'[s])
        /\ SameQueue(socks'[s], socks[s]) /\ SameOwner(socks'[s], socks[s])
        /\ pcbs' \in [Pcbs -> PcbRecs] /\ \A q \in Pcbs : PSame(q)
        /\ got' \in [Slots -> Seq(Nat)]
    BY <1>3, <2>1, ReadShape, Zenon
  <2>3. Control'
    BY <2>1, InvGives, ReturnControl, Zenon DEF Rets
  <2>4. Table' /\ Hist'
    BY <1>1, <2>2, InvGives DEF Table, Hist, OnlyAt
  <2>5. OwnInv'
    <3>1. \A t \in Slots : SSame(t)
      BY <2>2, Zenon DEF OnlyAt, SSame, SameOwner
    <3> QED BY <2>2, <3>1, InvGives, OwnNothing, Zenon
  <2>6. SlotInv'
    <3>1. \A t \in Slots : LiveSame(t) /\ QSame(t)
      BY <2>2, Zenon DEF OnlyAt, LiveSame, QSame, SameQueue, SameOwner, Live
    <3> QED BY <1>1, <3>1, InvGives, SlotNothing, Zenon
  <2> QED BY <2>3, <2>4, <2>5, <2>6, Zenon DEF Core
<1> QED BY <1>2, <1>3, Zenon

\* connect, up to its loop.
LEMMA ConnectStep ==
  ASSUME TableInv, NEW s \in Slots, net_shim_connect(s)
  PROVE  Core'
<1> DEFINE p == socks[s].pcb
<1>1. /\ s \in held /\ Live(s) /\ socks[s].state # "LISTENING"
      /\ UNCHANGED <<held, lost, dlv, got>> /\ p \in Pcbs \cup {NULL}
  BY HeldIsLive, InvGives, Zenon DEF net_shim_connect, OwnPre, OwnTypes
<1>2. now \in 0..ClockMod - 1
  BY InvGives, Zenon DEF Control, GlueTypeOK
<1> USE DEF OnlyAt
<1>3. ASSUME NEW st \in {"CONNECTING", "ERROR"}, socks' = [socks EXCEPT ![s].state = st]
      PROVE  /\ OnlyAt(socks', s, socks'[s]) /\ SameQueue(socks'[s], socks[s])
             /\ socks'[s].state = st /\ socks'[s].pcb = p
  <2> DEFINE r == [socks[s] EXCEPT !.state = st]
  <2>1. socks' = [socks EXCEPT ![s] = r]
    BY <1>3, InvGives, Zenon DEF Table
  <2>2. r \in Socks /\ SameQueue(r, socks[s]) /\ r.state = st /\ r.pcb = p
    <3>1. socks[s] \in Socks /\ st \in SockStates
      BY InvGives, Zenon DEF Table, SockStates
    <3> QED BY <3>1, Zenon DEF Socks, SameQueue
  <2> HIDE DEF r
  <2>3. OnlyAt(socks', s, r)
    BY <2>1, <2>2, InvGives, OneSlot
  <2> QED BY <2>2, <2>3, Zenon
<1>4. ASSUME NEW st \in {"CONNECTING", "ERROR"}, socks' = [socks EXCEPT ![s].state = st]
      PROVE  SlotInv'
  <2>1. \A t \in Slots : LiveSame(t) /\ QSame(t)
    BY <1>1, <1>3, <1>4, Zenon DEF LiveSame, QSame, SameQueue, Live
  <2> QED BY <1>1, <2>1, InvGives, SlotNothing
<1>5. ASSUME p \in Pcbs, NEW pst \in PcbStates, NEW st \in {"CONNECTING", "ERROR"},
             pcbs' = [pcbs EXCEPT ![p] = [pcbs[p] EXCEPT !.st = pst, !.cb = TRUE, !.arg = s]],
             socks' = [socks EXCEPT ![s].state = st],
             \/ pcbs[p].st = "CLOSED" /\ pst = "SYN_SENT" /\ st = "CONNECTING"
             \/ pst = pcbs[p].st /\ st = "ERROR"
      PROVE  Table' /\ OwnInv' /\ SlotInv'
  <2> DEFINE c == [pcbs[p] EXCEPT !.st = pst, !.cb = TRUE, !.arg = s]
  <2>1. c \in PcbRecs /\ c.st = pst /\ c.cb /\ c.arg = s /\ c.listener = pcbs[p].listener
    <3>1. pcbs[p] \in PcbRecs
      BY <1>5, InvGives, Zenon DEF Table
    <3> QED BY <3>1, Zenon DEF PcbRecs
  <2> HIDE DEF c, p
  <2>2. pcbs' \in [Pcbs -> PcbRecs] /\ pcbs'[p] = c /\ \A q \in Pcbs : q # p => PSame(q)
    <3>1. pcbs' = [pcbs EXCEPT ![p] = c]
      BY <1>5, Zenon DEF c
    <3> QED BY <1>5, <2>1, <3>1, InvGives DEF Table, PSame
  <2>3. /\ OnlyAt(socks', s, socks'[s]) /\ socks'[s].state = st /\ socks'[s].pcb = p
    BY <1>3, <1>5, Zenon DEF p
  <2>4. Table'
    BY <1>1, <2>2, <2>3, InvGives, Zenon DEF Table
  <2>5. OwnInv'
    <3>1. \A t \in Slots : t # s => SSame(t)
      BY <2>3, Zenon DEF SSame
    <3>2. socks[s].pcb = p
      BY Zenon DEF p
    <3>3. pcbs[p].st # "LISTEN"
      BY <1>1, <1>5, <3>2, ListenAgrees, Zenon
    <3>4. /\ pcbs'[p].cb /\ pcbs'[p].arg = s /\ pcbs'[p].listener = pcbs[p].listener
          /\ \/ pcbs[p].st = "CLOSED" /\ pcbs'[p].st = "SYN_SENT" /\ socks'[s].state = "CONNECTING"
             \/ pcbs'[p].st = pcbs[p].st /\ socks'[s].state = "ERROR"
      BY <1>5, <2>1, <2>2, <2>3, Zenon
    <3> QED BY <1>1, <1>5, <2>2, <2>3, <3>1, <3>2, <3>3, <3>4, InvGives, OwnConnect, SMTT(30)
  <2> QED BY <1>4, <1>5, <2>4, <2>5, Zenon
<1>6. Hist'
  BY <1>1, InvGives, Zenon DEF Hist
<1>7. CASE /\ p # NULL /\ pcbs[p].st = "CLOSED"
           /\ pcbs' = [pcbs EXCEPT ![p].st = "SYN_SENT", ![p].cb = TRUE, ![p].arg = s]
           /\ socks' = [socks EXCEPT ![s].state = "CONNECTING"]
           /\ Wait("connect", s, 0, now)
  <2>1. Control'
    BY <1>1, <1>2, <1>7, InvGives, WaitControl, Zenon DEF Ops
  <2>2. p \in Pcbs /\ "SYN_SENT" \in PcbStates
    BY <1>1, <1>7, Zenon DEF PcbStates
  <2>3. pcbs' = [pcbs EXCEPT ![p] = [pcbs[p] EXCEPT !.st = "SYN_SENT", !.cb = TRUE, !.arg = s]]
    BY <1>7, <2>2, InvGives, Zenon DEF Table
  <2> HIDE DEF p
  <2> QED BY <1>5, <1>6, <1>7, <2>1, <2>2, <2>3, Zenon DEF Core
<1>8. CASE /\ pcbs' = IF p = NULL THEN pcbs ELSE [pcbs EXCEPT ![p].cb = TRUE, ![p].arg = s]
           /\ socks' = [socks EXCEPT ![s].state = "ERROR"]
           /\ Return("ECONNREFUSED")
  <2>1. Control'
    BY <1>8, InvGives, ReturnControl, Zenon DEF Rets
  <2>2. CASE p # NULL
    <3>1. p \in Pcbs
      BY <1>1, <2>2
    <3>2. pcbs[p] \in PcbRecs /\ pcbs[p].st \in PcbStates
      BY <3>1, InvGives DEF Table, PcbRecs
    <3>3. pcbs' = [pcbs EXCEPT ![p] = [pcbs[p] EXCEPT !.st = pcbs[p].st, !.cb = TRUE, !.arg = s]]
      <4>1. [pcbs[p] EXCEPT !.cb = TRUE, !.arg = s]
              = [pcbs[p] EXCEPT !.st = pcbs[p].st, !.cb = TRUE, !.arg = s]
        BY <3>2, Zenon DEF PcbRecs
      <4>2. pcbs' = [pcbs EXCEPT ![p] = [pcbs[p] EXCEPT !.cb = TRUE, !.arg = s]]
        BY <1>8, <2>2, <3>1, InvGives, Zenon DEF Table
      <4> QED BY <4>1, <4>2, Zenon
    <3> HIDE DEF p
    <3> QED BY <1>5, <1>6, <1>8, <2>1, <3>1, <3>2, <3>3, ZenonT(30) DEF Core
  <2>3. CASE p = NULL
    <3>1. pcbs' = pcbs
      BY <1>8, <2>3, Zenon
    <3>2. OnlyAt(socks', s, socks'[s]) /\ socks'[s].state = "ERROR" /\ socks'[s].pcb = NULL
      BY <1>3, <1>8, <2>3, Zenon
    <3>3. Table'
      BY <1>1, <3>1, <3>2, InvGives, Zenon DEF Table
    <3>4. OwnInv'
      <4>1. \A t \in Slots : t # s => SSame(t)
        BY <3>2, Zenon DEF SSame
      <4>2. \A q \in Pcbs : PSame(q)
        BY <3>1, Zenon DEF PSame
      <4> QED BY <1>1, <2>3, <3>2, <4>1, <4>2, InvGives, OwnConnectDead, Zenon
    <3> QED BY <1>4, <1>6, <1>8, <2>1, <3>3, <3>4, Zenon DEF Core
  <2> QED BY <2>2, <2>3, Zenon
<1>9. CASE Return("EINVAL") /\ UNCHANGED <<socks, pcbs>>
  <2>1. Control'
    BY <1>9, InvGives, ReturnControl, Zenon DEF Rets
  <2> QED BY <1>1, <1>9, <2>1, QuietCall, Zenon
<1> QED BY <1>7, <1>8, <1>9, Zenon DEF net_shim_connect

\* Every call, up to its first test.
LEMMA ClientStep ==
  ASSUME TableInv, ReadInv, Client
  PROVE  Core' /\ UNCHANGED <<netReady, dhcp>>
<1>1. now \in 0..ClockMod - 1 /\ 0 \in Lens \cup {0}
  BY InvGives, Zenon DEF Control, GlueTypeOK
<1>2. CASE net_shim_socket
  <2>1. CASE netReady
    BY <1>2, <2>1, SocketMadeStep, Zenon DEF net_shim_socket
  <2>2. CASE ~netReady
    <3>1. /\ Wait("socket", NULL, 0, now)
          /\ UNCHANGED <<socks, pcbs, held, lost, dlv, got, netReady, dhcp>>
      BY <1>2, <2>2, Zenon DEF net_shim_socket
    <3>2. Control'
      BY <1>1, <3>1, InvGives, WaitControl, Zenon DEF Ops
    <3> QED BY <3>1, <3>2, QuietCall, Zenon
  <2> QED BY <2>1, <2>2, Zenon
<1>3. ASSUME NEW s \in Slots, net_shim_bind(s)
      PROVE  Core' /\ UNCHANGED <<netReady, dhcp>>
  <2>1. /\ Return("0") \/ Return("EADDRINUSE") \/ Return("EINVAL")
        /\ UNCHANGED <<socks, pcbs, netReady, dhcp, held, lost, dlv, got>>
    BY <1>3, Zenon DEF net_shim_bind
  <2>2. Control'
    BY <2>1, InvGives, ReturnControl, Zenon DEF Rets
  <2> QED BY <2>1, <2>2, QuietCall, Zenon
<1>4. ASSUME NEW s \in Slots, net_shim_listen(s) \/ net_shim_close(s) \/ net_shim_connect(s)
      PROVE  Core' /\ UNCHANGED <<netReady, dhcp>>
  <2>1. UNCHANGED <<netReady, dhcp>>
    BY <1>4, Zenon DEF net_shim_listen, net_shim_close, net_shim_connect
  <2> QED BY <1>4, <2>1, ListenStep, CloseStep, ConnectStep
<1>5. ASSUME NEW s \in Slots, net_shim_accept(s)
      PROVE  Core' /\ UNCHANGED <<netReady, dhcp>>
  BY <1>1, <1>5, AcceptHeadStep, Zenon DEF net_shim_accept
<1>6. ASSUME NEW s \in Slots, NEW len \in Lens, net_shim_recv(s, len) \/ net_shim_send(s, len)
      PROVE  Core' /\ UNCHANGED <<netReady, dhcp>>
  <2>1. s \in held /\ UNCHANGED <<netReady, dhcp, lost>> /\ len \in Lens \cup {0}
    BY <1>6, Zenon DEF net_shim_recv, net_shim_send
  <2>2. CASE Return("0") /\ UNCHANGED <<socks, pcbs, held, dlv, got>>
    <3>1. Control'
      BY <2>2, InvGives, ReturnControl, Zenon DEF Rets
    <3> QED BY <2>1, <2>2, <3>1, QuietCall, Zenon
  <2>3. CASE RecvHead(s, len, now)
    BY <1>1, <2>1, <2>3, RecvHeadStep, Zenon
  <2>4. CASE SendHead(s, len, now)
    BY <1>1, <2>1, <2>4, SendHeadStep, Zenon
  <2> QED BY <1>6, <2>2, <2>3, <2>4, Zenon DEF net_shim_recv, net_shim_send
<1> QED BY <1>2, <1>3, <1>4, <1>5, <1>6, Zenon DEF Client

\* Every step of a call that waits.
LEMMA AfterPollStep ==
  ASSUME TableInv, ReadInv, AfterPoll \/ AfterPollReady
  PROVE  Core' /\ netReady' \in BOOLEAN /\ dhcp' \in BOOLEAN
<1>1. /\ call.op \in Ops /\ call.fd \in Slots \cup {NULL} /\ call.len \in Lens \cup {0}
      /\ call.start \in 0..ClockMod - 1
      /\ call.op \notin {"none", "socket"} => call.fd \in held
  BY InvGives, Zenon DEF Control, CallRecs, CallInv
<1>2. netReady \in BOOLEAN /\ dhcp \in BOOLEAN
  BY InvIsCore, Zenon
<1>3. CASE AfterPollReady
  <2>1. (netReady' = TRUE \/ netReady' = netReady) /\ dhcp' = dhcp /\ lost' = lost
    BY <1>3, Zenon DEF AfterPollReady
  <2>2. CASE SocketMade
    BY <1>2, <2>1, <2>2, SocketMadeStep, Zenon
  <2>3. CASE Wait("socket", NULL, 0, call.start) /\ UNCHANGED <<socks, pcbs, held, dlv, got>>
    <3>1. Control'
      BY <1>1, <2>3, InvGives, WaitControl, Zenon DEF Ops
    <3> QED BY <1>2, <2>1, <2>3, <3>1, QuietCall, Zenon
  <2> QED BY <1>3, <2>2, <2>3, Zenon DEF AfterPollReady
<1>4. CASE AfterPoll
  <2>1. UNCHANGED <<netReady, dhcp, lost>>
    BY <1>4, Zenon DEF AfterPoll
  <2>2. CASE Return(TimeoutRet(call.op)) /\ UNCHANGED <<socks, pcbs, held, dlv, got>>
    <3>1. TimeoutRet(call.op) \in Rets
      BY DEF TimeoutRet, Rets
    <3>2. Control'
      BY <2>2, <3>1, InvGives, ReturnControl
    <3> QED BY <1>2, <2>1, <2>2, <3>2, QuietCall, Zenon
  <2>3. CASE call.op = "accept" /\ AcceptHead(call.fd, call.start)
    BY <1>1, <1>2, <2>1, <2>3, AcceptHeadStep, Zenon
  <2>4. CASE call.op = "connect" /\ ConnectHead(call.fd, call.start)
    BY <1>1, <1>2, <2>1, <2>4, ConnectHeadStep, Zenon
  <2>5. CASE call.op = "recv" /\ RecvHead(call.fd, call.len, call.start)
    BY <1>1, <1>2, <2>1, <2>5, RecvHeadStep, Zenon
  <2>6. CASE call.op = "send" /\ SendHead(call.fd, call.len, call.start)
    BY <1>1, <1>2, <2>1, <2>6, SendHeadStep, Zenon
  <2> QED BY <1>4, <2>2, <2>3, <2>4, <2>5, <2>6, Zenon DEF AfterPoll
<1> QED BY <1>3, <1>4, Zenon

\* Every step keeps TableInv.
LEMMA InvStep ==
  ASSUME TableInv, ReadInv, [Next]_vars
  PROVE  TableInv'
<1>1. netReady \in BOOLEAN /\ dhcp \in BOOLEAN
  BY InvIsCore, Zenon
<1> SUFFICES Core' /\ netReady' \in BOOLEAN /\ dhcp' \in BOOLEAN
  BY InvIsCore, Zenon DEF TableInv, Core, TypeOK, Control, CallRecs, Table, Hist
<1>2. CASE Client
  BY <1>1, <1>2, ClientStep, Zenon
<1>3. CASE Frames
  BY <1>3, FramesStep, Zenon
<1>4. CASE AfterPoll \/ AfterPollReady
  BY <1>4, AfterPollStep, Zenon
<1>5. ASSUME NEW p \in Pcbs, TimerDrop(p)
      PROVE  Core' /\ netReady' \in BOOLEAN /\ dhcp' \in BOOLEAN
  <2>1. UNCHANGED <<netReady, dhcp>>
    BY <1>5, Zenon DEF TimerDrop
  <2> QED BY <1>1, <1>5, <2>1, DropFrames, Zenon
<1>6. CASE (RxEmpty \/ Arrive \/ Tick \/ UNCHANGED glueVars) /\ UNCHANGED shimVars
  <2>1. UNCHANGED <<socks, pcbs, netReady, dhcp, call, ret, held, lost, dlv, got>>
    BY <1>6, Zenon DEF shimVars
  <2>2. Control'
    BY <1>6, <2>1, InvGives, QuietControl, Zenon
  <2> QED BY <1>1, <2>1, <2>2, QuietCall, Zenon
<1> QED BY <1>2, <1>3, <1>4, <1>5, <1>6, Zenon DEF Next, Blocked, Network, Clock, vars

-----------------------------------------------------------------------------
\* The accept queues, step by step.

\* A step that touches no queue of a listener.
LEMMA FifoQuiet ==
  ASSUME \A l \in Listeners : socks'[l].state = "LISTENING" => QSame(l)
  PROVE  FifoStep
<1> SUFFICES ASSUME NEW l \in Listeners, QSame(l) PROVE Queue(l)' = Queue(l)
  BY Zenon DEF FifoStep
<1> QED BY Zenon DEF Queue, QSame, SameQueue

\* A step whose frame changes at most one socket, and not its queue.
LEMMA FifoOne ==
  ASSUME NEW s \in Slots, OnlyAt(socks', s, socks'[s]), SameQueue(socks'[s], socks[s])
  PROVE  FifoStep
  BY FifoQuiet, Zenon DEF OnlyAt, QSame, SameQueue, Listeners

\* Callbacks and lwIP's frames.
LEMMA FifoFrames ==
  ASSUME TableInv, Frames \/ \E p \in Pcbs : TimerDrop(p)
  PROVE  FifoStep
<1>1. \A p \in Pcbs : pcbs[p].cb \/ pcbs[p].st = "SYN_SENT" => pcbs[p].arg \in Slots
  BY InvGives, Zenon DEF OwnInv, Ownership, CallbackLands
<1>2. CASE UNCHANGED socks
  BY <1>2, FifoQuiet DEF QSame, SameQueue
<1>3. ASSUME NEW p \in Pcbs, Drop(p) PROVE FifoStep
  <2>1. CASE ~pcbs[p].cb
    BY <1>2, <1>3, <2>1, Zenon DEF Drop
  <2>2. CASE pcbs[p].cb
    <3>1. pcbs[p].arg \in Slots /\ socks' = on_err(pcbs[p].arg)
      BY <1>1, <1>3, <2>2, Zenon DEF Drop
    <3> QED BY <3>1, InvGives, OnErrShape, FifoOne, Zenon
  <2> QED BY <2>1, <2>2, Zenon
<1>4. ASSUME NEW p \in Pcbs, RxConnected(p) PROVE FifoStep
  <2>1. pcbs[p].arg \in Slots /\ socks' = on_connected(pcbs[p].arg)
    BY <1>1, <1>4, Zenon DEF RxConnected
  <2> QED BY <2>1, InvGives, OnConnectedShape, FifoOne, Zenon
<1>5. ASSUME NEW p \in Pcbs, RxFin(p) PROVE FifoStep
  <2>1. pcbs[p].arg \in Slots /\ socks' = on_recv_eof(pcbs[p].arg)
    BY <1>1, <1>5, Zenon DEF RxFin
  <2> QED BY <2>1, InvGives, OnEofShape, FifoOne, Zenon
<1>6. ASSUME NEW p \in Pcbs, NEW n \in 1..Wnd, RxData(p, n) PROVE FifoStep
  <2> DEFINE s == pcbs[p].arg
             b == [i \in 1..n |-> dlv[s] + i]
  <2>1. s \in Slots /\ socks' = on_recv(s, b)
    BY <1>1, <1>6, Zenon DEF RxData
  <2>2. b \in Seq(Nat)
    BY <1>6, <2>1, ShimAssumption, InvGives, SMTT(30) DEF Hist
  <2> HIDE DEF s, b
  <2> QED BY <2>1, <2>2, InvGives, OnRecvShape, FifoOne, Zenon
<1>7. ASSUME NEW p \in Pcbs, NEW s \in Slots, RxAccept(p, s) PROVE FifoStep
  <2> DEFINE k == pcbs[p].listener
  <2>1. k \in Pcbs /\ pcbs[k].st = "LISTEN" /\ pcbs[k].arg = pcbs[p].arg
    BY <1>7, InvGives, Zenon DEF RxAccept, OwnInv, Ownership, ListenerLives, OwnPre, OwnTypes
  <2>0. PICK l \in Slots : l = pcbs[p].arg /\ Live(l) /\ socks[l].pcb = k
    BY <2>1, InvGives, Zenon DEF OwnInv, Ownership, CallbackLands
  <2>2. l \in Slots /\ Live(l) /\ socks[l].pcb = k
    BY <2>0, Zenon
  <2>3. l \in Listeners /\ s \notin Listeners /\ l # s
    <3>1. socks[l].state = "LISTENING" /\ socks[s].state = "FREE"
      BY <1>7, <2>1, <2>2, ListenAgrees DEF RxAccept, alloc_slot
    <3> QED BY <2>2, <3>1 DEF Listeners
  <2>4. socks[l].count < AcceptqMax
    <3>1. socks[l].count \in Nat /\ AcceptqMax \in Nat
      BY <2>2, InvGives, Zenon DEF SlotPre, SlotTypes
    <3> QED BY <1>7, <2>0, <3>1, SMTT(30) DEF RxAccept, on_accept_refuses
  <2>5. socks' = on_accept(l, s, p)
    BY <1>7, <2>0, Zenon DEF RxAccept
  <2> HIDE DEF k
  <2>6. AcceptShape(socks', l, s, p)
    BY <2>2, <2>3, <2>5, InvGives, OnAcceptShape
  <2>7. Queue(l)' = Append(Queue(l), s)
    BY <2>3, <2>4, <2>6, InvGives, QueueAppend, SMTT(30) DEF AcceptShape
  <2>8. ASSUME NEW m \in Listeners, m # l PROVE Queue(m)' = Queue(m)
    <3>1. socks'[m] = socks[m]
      BY <2>3, <2>6, <2>8, Zenon DEF AcceptShape, Listeners
    <3> QED BY <3>1, Zenon DEF Queue
  <2> HIDE DEF Queue
  <2> QED BY <2>7, <2>8, Zenon DEF FifoStep
<1> QED BY <1>2, <1>3, <1>4, <1>5, <1>6, <1>7, SMTT(30)
        DEF Frames, RxSyn, RxRefuse, RxAck, RxDrop, RxDhcp, RxOther, TimerDrop, shimVars

\* The calls.
LEMMA FifoCalls ==
  ASSUME TableInv, ReadInv, Client \/ AfterPoll \/ AfterPollReady
  PROVE  FifoStep
<1>1. socks \in [Slots -> Socks]
  BY InvGives, Zenon DEF Table
<1>2. CASE UNCHANGED socks
  BY <1>2, FifoQuiet, Zenon DEF QSame, SameQueue
<1>3. CASE SocketMade
  <2>1. ASSUME NEW s \in Slots, alloc_slot(s), NEW r, socks' = [socks EXCEPT ![s] = r]
        PROVE  FifoStep
    <3>1. s \notin Listeners /\ \A t \in Slots : t # s => socks'[t] = socks[t]
      BY <1>1, <2>1, Zenon DEF alloc_slot, Listeners
    <3> QED BY <3>1, FifoQuiet, Zenon DEF QSame, SameQueue, Listeners
  <2> QED BY <1>2, <1>3, <2>1, Zenon DEF SocketMade
<1>4. ASSUME NEW s \in Slots, net_shim_listen(s) PROVE FifoStep
  <2>1. ASSUME NEW q \in Pcbs, socks' = [socks EXCEPT ![s].pcb = q, ![s].state = "LISTENING"]
        PROVE  \A t \in Slots : QSame(t)
    BY <1>1, <2>1, Zenon DEF QSame, SameQueue, Socks
  <2> QED BY <1>2, <1>4, <2>1, FifoQuiet, Zenon DEF net_shim_listen, Listeners
<1>5. ASSUME NEW s \in Slots, net_shim_close(s) PROVE FifoStep
  <2>1. socks' = [socks EXCEPT ![s].rx = <<>>, ![s].state = "FREE"]
    BY <1>5 DEF net_shim_close
  <2>2. \A t \in Slots : QSame(t)
    BY <1>1, <2>1, Zenon DEF QSame, SameQueue, Socks
  <2> QED BY <2>2, FifoQuiet, Zenon DEF Listeners
<1>6. ASSUME NEW s \in Slots, net_shim_connect(s) PROVE FifoStep
  <2>1. ASSUME NEW st, socks' = [socks EXCEPT ![s].state = st]
        PROVE  \A t \in Slots : QSame(t)
    BY <1>1, <2>1, Zenon DEF QSame, SameQueue, Socks
  <2>2. \/ socks' = [socks EXCEPT ![s].state = "CONNECTING"]
        \/ socks' = [socks EXCEPT ![s].state = "ERROR"]
        \/ UNCHANGED socks
    BY <1>6, Zenon DEF net_shim_connect
  <2> QED BY <1>2, <2>1, <2>2, FifoQuiet, Zenon DEF Listeners
<1>7. ASSUME NEW s \in held, NEW start, AcceptHead(s, start) PROVE FifoStep
  <2>1. s \in Slots /\ Live(s)
    BY HeldIsLive, Zenon
  <2>2. CASE socks[s].count # 0
    <3> DEFINE h == (socks[s].head + 1) % AcceptqMax
               c == socks[s].count - 1
    <3>1. /\ socks' = [socks EXCEPT ![s].head = (@ + 1) % AcceptqMax, ![s].count = @ - 1]
          /\ held' = held \cup {socks[s].acceptq[socks[s].head]}
      BY <1>7, <2>2, Zenon DEF AcceptHead
    <3>2. socks' = [socks EXCEPT ![s].head = h, ![s].count = c]
      BY <1>1, <2>1, <3>1, Zenon DEF Socks
    <3>3. /\ socks'[s].acceptq = socks[s].acceptq /\ socks'[s].head = h /\ socks'[s].count = c
          /\ \A t \in Slots : t # s => socks'[t] = socks[t]
      <4> HIDE DEF h, c
      <4> QED BY <1>1, <2>1, <3>2, SMTT(30) DEF Socks
    <3>4. s \in Listeners
      BY <2>1, <2>2, InvGives DEF SlotInv, NoQueue, Listeners
    <3>5. /\ Queue(s) # <<>> /\ Queue(s)' = Tail(Queue(s))
          /\ Head(Queue(s)) = socks[s].acceptq[socks[s].head]
      BY <2>2, <3>3, <3>4, InvGives, QueueTail, ZenonT(30)
    <3>6. ASSUME NEW m \in Listeners, m # s PROVE Queue(m)' = Queue(m)
      <4>1. socks'[m] = socks[m]
        BY <3>3, <3>6, Zenon DEF Listeners
      <4> QED BY <4>1, Zenon DEF Queue
    <3> HIDE DEF Queue
    <3> QED BY <3>1, <3>5, <3>6 DEF FifoStep
  <2> QED BY <1>2, <1>7, <2>2, Zenon DEF AcceptHead
<1>8. ASSUME NEW s \in held, NEW len \in Lens \cup {0}, NEW start, RecvHead(s, len, start)
      PROVE  FifoStep
  <2>1. CASE socks[s].rx # <<>>
    <3>1. bsock_read(s, len) /\ len \in Nat /\ s \in Slots
      BY <1>8, <2>1, ShimAssumption, HeldIsLive DEF RecvHead
    <3>2. OnlyAt(socks', s, socks'[s]) /\ SameQueue(socks'[s], socks[s])
      BY <2>1, <3>1, ReadShape, Zenon
    <3> QED BY <3>1, <3>2, FifoOne, Zenon
  <2>2. CASE socks[s].rx = <<>>
    BY <1>2, <1>8, <2>2, Zenon DEF RecvHead
  <2> QED BY <2>1, <2>2, Zenon
<1>9. call.op \notin {"none", "socket"} => call.fd \in held /\ call.len \in Lens \cup {0}
  BY InvGives, Zenon DEF Control, CallRecs, CallInv
<1>10. CASE Client
  <2>1. CASE net_shim_socket
    BY <1>2, <1>3, <2>1, Zenon DEF net_shim_socket
  <2>2. ASSUME NEW s \in Slots, NEW len \in Lens, net_shim_recv(s, len) \/ net_shim_send(s, len)
        PROVE  FifoStep
    BY <1>2, <1>8, <2>2, Zenon DEF net_shim_recv, net_shim_send, SendHead
  <2>3. ASSUME NEW s \in Slots, net_shim_accept(s) \/ net_shim_bind(s) PROVE FifoStep
    BY <1>2, <1>7, <2>3 DEF net_shim_accept, net_shim_bind
  <2> QED BY <1>4, <1>5, <1>6, <1>10, <2>1, <2>2, <2>3, SMTT(30) DEF Client
<1>11. CASE AfterPoll
  <2>1. CASE call.op = "accept" /\ AcceptHead(call.fd, call.start)
    BY <1>7, <1>9, <2>1, Zenon
  <2>2. CASE call.op = "recv" /\ RecvHead(call.fd, call.len, call.start)
    BY <1>8, <1>9, <2>2, Zenon
  <2> QED BY <1>2, <1>11, <2>1, <2>2, Zenon DEF AfterPoll, ConnectHead, SendHead
<1>12. CASE AfterPollReady
  BY <1>2, <1>3, <1>12, Zenon DEF AfterPollReady
<1> QED BY <1>10, <1>11, <1>12
=============================================================================
