------------------------------ MODULE NetShim ------------------------------
(***************************************************************************)
(* The blocking sockets of src/app/net_shim.c on top of lwIP's callbacks.  *)
(*                                                                         *)
(* There is one thread.  A call either runs to its end or waits in a loop  *)
(* of net_poll and a test of the clock; only inside net_poll does lwIP     *)
(* take frames, run its timers and call back.  A state of this model is    *)
(* therefore between two calls (poll = "out") or between two events of a   *)
(* net_poll made by the call in progress.                                  *)
(*                                                                         *)
(* lwIP is modelled by what happens to its protocol control blocks (pcbs): *)
(* the actions named tcp_... are its functions, those named Rx... what it  *)
(* does with a frame, TimerDrop its timers.  The states a pcb passes       *)
(* through after tcp_close are one state, "CLOSING".  Ports, addresses and *)
(* sequence numbers are left out: any frame may be for any pcb.            *)
(***************************************************************************)
EXTENDS NetGlue, Sequences

CONSTANTS
    SockMax,    \* SOCK_MAX
    AcceptqMax, \* ACCEPTQ_MAX
    Pcbs,       \* places in memory for a pcb
    NULL,
    Wnd,        \* TCP_WND
    SndBuf,     \* TCP_SND_BUF
    MaxBytes,   \* bound: bytes the peer sends on one connection
    Lens        \* lengths the program passes to recv and send

Slots == 0..SockMax - 1

ASSUME ShimAssumption ==
    /\ SockMax \in Nat \ {0} /\ AcceptqMax \in Nat \ {0}
    /\ NULL \notin Pcbs /\ NULL \notin Slots
    /\ Wnd \in Nat \ {0} /\ SndBuf \in Nat \ {0} /\ MaxBytes \in Nat
    /\ Lens \subseteq Nat

VARIABLES
    socks,    \* socks[]
    pcbs,     \* lwIP's pcbs
    netReady, \* net_ready
    dhcp,     \* dhcp_supplied_address()
    call,     \* the blocking call in progress and its local variables
    ret,      \* the result of the last call
    held,     \* the slots whose descriptors the program has
    lost,     \* history: slots queued at a listener when it was closed
    dlv,      \* history: bytes lwIP has passed to on_recv, per slot
    got       \* history: what recv has copied to the program, per slot

shimVars == <<socks, pcbs, netReady, dhcp, call, ret, held, lost, dlv, got>>
vars == <<glueVars, shimVars>>

SockStates == {"FREE", "CLOSED", "CONNECTING", "CONNECTED", "LISTENING", "ERROR"}
PcbStates == {"NONE", "CLOSED", "LISTEN", "SYN_SENT", "SYN_RCVD", "ESTABLISHED",
              "CLOSE_WAIT", "CLOSING"}
Rets == {"none", "fd", "0", "bytes", "EOF", "EAFNOSUPPORT", "EMFILE", "ENOMEM", "EADDRINUSE",
         "EINVAL", "EAGAIN", "ETIMEDOUT", "ECONNREFUSED", "ECONNRESET"}
Ops == {"none", "socket", "accept", "connect", "recv", "send"}

\* struct bsock.  rx is the pbuf chain: a sequence of pbufs, each a sequence
\* of bytes, numbered in the order the peer sent them.
Socks == [state : SockStates, pcb : Pcbs \cup {NULL}, rx : Seq(Seq(Nat)), off : Nat,
          eof : BOOLEAN, acceptq : [0..AcceptqMax - 1 -> Slots],
          head : 0..AcceptqMax - 1, tail : 0..AcceptqMax - 1, count : Nat]

\* The part of struct tcp_pcb that matters here.  cb: recv and errf are
\* on_recv and on_err; wnd is rcv_wnd; snd is what snd_buf has given out.
PcbRecs == [st : PcbStates, arg : Slots \cup {NULL}, cb : BOOLEAN,
            listener : Pcbs \cup {NULL}, wnd : 0..Wnd, snd : 0..SndBuf]

\* memset(s, 0, sizeof(*s))
reset_sock ==
    [state |-> "FREE", pcb |-> NULL, rx |-> <<>>, off |-> 0, eof |-> FALSE,
     acceptq |-> [i \in 0..AcceptqMax - 1 |-> 0], head |-> 0, tail |-> 0, count |-> 0]

NoPcb == [st |-> "NONE", arg |-> NULL, cb |-> FALSE, listener |-> NULL,
          wnd |-> 0, snd |-> 0]

NoCall == [op |-> "none", fd |-> NULL, len |-> 0, start |-> 0]

Init ==
    /\ GlueInit
    /\ socks = [s \in Slots |-> reset_sock]
    /\ pcbs = [p \in Pcbs |-> NoPcb]
    /\ netReady = FALSE /\ dhcp = FALSE
    /\ call = NoCall /\ ret = "none"
    /\ held = {} /\ lost = {}
    /\ dlv = [s \in Slots |-> 0]
    /\ got = [s \in Slots |-> <<>>]

-----------------------------------------------------------------------------
\* Helpers.

\* The slot alloc_slot returns: the first free one.
alloc_slot(s) ==
    /\ socks[s].state = "FREE"
    /\ \A t \in Slots : t < s => socks[t].state # "FREE"

NoSlot == \A s \in Slots : socks[s].state # "FREE"

\* A pcb that memp_malloc may give to tcp_alloc: free memory, or, when there
\* is none, that of a connection the program has already closed.
Allocatable(p) ==
    \/ pcbs[p].st = "NONE"
    \/ /\ pcbs[p].st = "CLOSING"
       /\ \A q \in Pcbs : pcbs[q].st # "NONE"

\* tcp_alloc: zeroed, with an open receive window.
NewPcb(st, arg, listener) ==
    [st |-> st, arg |-> arg, cb |-> FALSE, listener |-> listener, wnd |-> Wnd, snd |-> 0]

\* The accept queue from its oldest entry on.
Queue(s) == [i \in 1..socks[s].count |->
                socks[s].acceptq[((socks[s].head + i) - 1) % AcceptqMax]]
Queued(s) == {Queue(s)[i] : i \in 1..socks[s].count}

Idle == poll = "out"

\* The call returns r.
Return(r) ==
    /\ LeavePoll
    /\ call' = NoCall
    /\ ret' = r

\* The call (op, s, len), begun at time start, goes through net_poll.
Wait(op, s, len, start) ==
    /\ EnterPoll(Idle)
    /\ call' = [op |-> op, fd |-> s, len |-> len, start |-> start]
    /\ ret' = "none"

-----------------------------------------------------------------------------
\* Callbacks, as the new value of socks[] they leave.

\* on_recv with data
on_recv(s, bytes) == [socks EXCEPT ![s].rx = Append(@, bytes)]

\* on_recv with a null pbuf
on_recv_eof(s) == [socks EXCEPT ![s].eof = TRUE]

\* on_err that forgets the state.
on_err_KeepsState(s) == [socks EXCEPT ![s].pcb = NULL]

on_err(s) == [socks EXCEPT ![s].pcb = NULL, ![s].state = "ERROR"]

on_connected(s) == [socks EXCEPT ![s].state = "CONNECTED"]

\* on_accept refuses the connection: the queue or the table is full.
on_accept_refuses(l) == socks[l].count >= AcceptqMax \/ NoSlot

\* on_accept that writes at the head of the queue.
on_accept_AtHead(l, s, p) ==
    [socks EXCEPT ![s] = [reset_sock EXCEPT !.state = "CONNECTED", !.pcb = p],
                  ![l].acceptq[socks[l].head] = s,
                  ![l].tail = (@ + 1) % AcceptqMax,
                  ![l].count = @ + 1]

\* on_accept whose tail does not wrap around.
on_accept_NoWrap(l, s, p) ==
    [socks EXCEPT ![s] = [reset_sock EXCEPT !.state = "CONNECTED", !.pcb = p],
                  ![l].acceptq[socks[l].tail] = s,
                  ![l].tail = @ + 1,
                  ![l].count = @ + 1]

\* on_accept takes it into slot s and the queue of slot l.
on_accept(l, s, p) ==
    [socks EXCEPT ![s] = [reset_sock EXCEPT !.state = "CONNECTED", !.pcb = p],
                  ![l].acceptq[socks[l].tail] = s,
                  ![l].tail = (@ + 1) % AcceptqMax,
                  ![l].count = @ + 1]

-----------------------------------------------------------------------------
\* Frames: one round of net_poll's drain loop, and the callbacks in it.

\* lwIP frees p; tcp_err's function is called if the socket layer set one.
Drop(p) ==
    /\ pcbs' = [pcbs EXCEPT ![p] = NoPcb]
    /\ socks' = IF pcbs[p].cb THEN on_err(pcbs[p].arg) ELSE socks

\* A SYN for a listening pcb: a new pcb, which inherits its argument.
RxSyn(l, p) ==
    /\ TakeFrame
    /\ pcbs[l].st = "LISTEN" /\ Allocatable(p)
    /\ pcbs' = [pcbs EXCEPT ![p] = NewPcb("SYN_RCVD", pcbs[l].arg, l)]
    /\ UNCHANGED <<socks, netReady, dhcp, call, ret, held, lost, dlv, got>>

\* The ACK that completes the handshake; on_accept runs in it.
RxAccept(p, s) ==
    /\ TakeFrame
    /\ pcbs[p].st = "SYN_RCVD" /\ pcbs[p].listener # NULL
    /\ ~on_accept_refuses(pcbs[p].arg)
    /\ alloc_slot(s)
    /\ pcbs' = [pcbs EXCEPT ![p].st = "ESTABLISHED", ![p].arg = s, ![p].cb = TRUE]
    /\ socks' = on_accept(pcbs[p].arg, s, p)
    /\ dlv' = [dlv EXCEPT ![s] = 0]
    /\ got' = [got EXCEPT ![s] = <<>>]
    /\ UNCHANGED <<netReady, dhcp, call, ret, held, lost>>

\* The same when the listener is gone or on_accept returns an error:
\* tcp_process aborts the connection.
RxRefuse(p) ==
    /\ TakeFrame
    /\ pcbs[p].st = "SYN_RCVD"
    /\ pcbs[p].listener = NULL \/ on_accept_refuses(pcbs[p].arg)
    /\ Drop(p)
    /\ UNCHANGED <<netReady, dhcp, call, ret, held, lost, dlv, got>>

\* The SYN-ACK for tcp_connect.
RxConnected(p) ==
    /\ TakeFrame
    /\ pcbs[p].st = "SYN_SENT"
    /\ pcbs' = [pcbs EXCEPT ![p].st = "ESTABLISHED"]
    /\ socks' = on_connected(pcbs[p].arg)
    /\ UNCHANGED <<netReady, dhcp, call, ret, held, lost, dlv, got>>

\* n bytes in sequence and inside the window.
RxData(p, n) ==
    /\ TakeFrame
    /\ pcbs[p].st = "ESTABLISHED" /\ pcbs[p].cb
    /\ n <= pcbs[p].wnd
    /\ LET s == pcbs[p].arg
       IN  /\ dlv[s] + n <= MaxBytes
           /\ socks' = on_recv(s, [i \in 1..n |-> dlv[s] + i])
           /\ dlv' = [dlv EXCEPT ![s] = @ + n]
    /\ pcbs' = [pcbs EXCEPT ![p].wnd = @ - n]
    /\ UNCHANGED <<netReady, dhcp, call, ret, held, lost, got>>

\* The peer's FIN.  Its sequence number is inside the window, and the place
\* it takes there is given back at once.
RxFin(p) ==
    /\ TakeFrame
    /\ pcbs[p].st = "ESTABLISHED" /\ pcbs[p].cb
    /\ pcbs[p].wnd > 0
    /\ pcbs' = [pcbs EXCEPT ![p].st = "CLOSE_WAIT"]
    /\ socks' = on_recv_eof(pcbs[p].arg)
    /\ UNCHANGED <<netReady, dhcp, call, ret, held, lost, dlv, got>>

\* An acknowledgement makes room in the send buffer.
RxAck(p, n) ==
    /\ TakeFrame
    /\ pcbs[p].st \in {"ESTABLISHED", "CLOSE_WAIT"}
    /\ n <= pcbs[p].snd
    /\ pcbs' = [pcbs EXCEPT ![p].snd = @ - n]
    /\ UNCHANGED <<socks, netReady, dhcp, call, ret, held, lost, dlv, got>>

\* A reset; or, for a pcb that is closing, any frame that ends it.
RxDrop(p) ==
    /\ TakeFrame
    /\ pcbs[p].st \in {"SYN_SENT", "SYN_RCVD", "ESTABLISHED", "CLOSE_WAIT", "CLOSING"}
    /\ Drop(p)
    /\ UNCHANGED <<netReady, dhcp, call, ret, held, lost, dlv, got>>

\* The DHCP server's answer.
RxDhcp ==
    /\ TakeFrame
    /\ dhcp' = TRUE
    /\ UNCHANGED <<socks, pcbs, netReady, call, ret, held, lost, dlv, got>>

\* A frame that changes nothing here: ARP, a duplicate, one for nobody.
RxOther ==
    /\ TakeFrame
    /\ UNCHANGED shimVars

\* tcp_slowtmr gives up on a pcb: a handshake or a close that got no answer,
\* or data that was never acknowledged.
TimerDrop(p) ==
    /\ poll = "timers"
    /\ \/ pcbs[p].st \in {"SYN_SENT", "SYN_RCVD", "CLOSING"}
       \/ pcbs[p].st \in {"ESTABLISHED", "CLOSE_WAIT"} /\ pcbs[p].snd > 0
    /\ Drop(p)
    /\ UNCHANGED <<glueVars, netReady, dhcp, call, ret, held, lost, dlv, got>>

-----------------------------------------------------------------------------
\* Calls that return at once.

\* The part of net_shim_socket after net_ensure_ready.
SocketMade ==
    \/ /\ \/ Return("EAFNOSUPPORT")   \* not an IPv4 stream socket
          \/ NoSlot /\ Return("EMFILE")
       /\ UNCHANGED <<socks, pcbs, held, dlv, got>>
    \/ \E s \in Slots :
        /\ alloc_slot(s)
        /\ Return("ENOMEM")   \* tcp_new() returned NULL
        /\ socks' = [socks EXCEPT ![s] = reset_sock]
        /\ UNCHANGED <<pcbs, held, dlv, got>>
    \/ \E s \in Slots, p \in Pcbs :
        /\ alloc_slot(s) /\ Allocatable(p)
        /\ Return("fd")
        /\ pcbs' = [pcbs EXCEPT ![p] = NewPcb("CLOSED", s, NULL)]
        /\ socks' = [socks EXCEPT ![s] = [reset_sock EXCEPT !.state = "CLOSED", !.pcb = p]]
        /\ held' = held \cup {s}
        /\ dlv' = [dlv EXCEPT ![s] = 0]
        /\ got' = [got EXCEPT ![s] = <<>>]

\* net_shim_socket: the first one brings up the interface and waits for DHCP.
net_shim_socket ==
    /\ Idle
    /\ UNCHANGED <<netReady, dhcp, lost>>
    /\ \/ /\ netReady
          /\ SocketMade
       \/ /\ ~netReady
          /\ Wait("socket", NULL, 0, now)
          /\ UNCHANGED <<socks, pcbs, held, dlv, got>>

\* net_shim_bind: tcp_bind wants an unused pcb and a free port.
net_shim_bind(s) ==
    /\ Idle /\ s \in held
    /\ \/ Return("EINVAL")   \* addrlen is too short
       \/ socks[s].pcb # NULL /\ pcbs[socks[s].pcb].st = "CLOSED" /\ Return("0")
       \/ Return("EADDRINUSE")
    /\ UNCHANGED <<socks, pcbs, netReady, dhcp, held, lost, dlv, got>>

\* net_shim_listen: tcp_listen_with_backlog makes a pcb q of another kind and
\* frees p; it returns NULL if p is in use or there is no memory.
net_shim_listen(s) ==
    /\ Idle /\ s \in held
    /\ \/ \E q \in Pcbs :
            LET p == socks[s].pcb IN
            /\ p # NULL
            /\ pcbs[p].st = "CLOSED" /\ pcbs[q].st = "NONE"
            /\ pcbs' = [pcbs EXCEPT ![p] = NoPcb, ![q] = [NoPcb EXCEPT !.st = "LISTEN", !.arg = s]]
            /\ socks' = [socks EXCEPT ![s].pcb = q, ![s].state = "LISTENING"]
            /\ Return("0")
       \/ /\ Return("EADDRINUSE")
          /\ UNCHANGED <<socks, pcbs>>
    /\ UNCHANGED <<netReady, dhcp, held, lost, dlv, got>>

\* tcp_close on p with its callbacks still set.
tcp_close_KeepsCallbacks(p) ==
    CASE pcbs[p].st = "LISTEN" ->
            [q \in Pcbs |-> IF q = p THEN NoPcb
                            ELSE IF pcbs[q].listener = p
                                 THEN [pcbs[q] EXCEPT !.listener = NULL]
                                 ELSE pcbs[q]]
      [] pcbs[p].st \in {"ESTABLISHED", "CLOSE_WAIT"} /\ pcbs[p].wnd = Wnd ->
            [pcbs EXCEPT ![p].st = "CLOSING"]
      [] OTHER -> [pcbs EXCEPT ![p] = NoPcb]

\* tcp_close on p after its callbacks have been taken away.
tcp_close(p) ==
    CASE pcbs[p].st = "LISTEN" ->
            [q \in Pcbs |-> IF q = p THEN NoPcb
                            ELSE IF pcbs[q].listener = p
                                 THEN [pcbs[q] EXCEPT !.listener = NULL]
                                 ELSE pcbs[q]]
      [] pcbs[p].st \in {"ESTABLISHED", "CLOSE_WAIT"} /\ pcbs[p].wnd = Wnd ->
            [pcbs EXCEPT ![p] = [NoPcb EXCEPT !.st = "CLOSING"]]
      [] OTHER -> [pcbs EXCEPT ![p] = NoPcb]

net_shim_close(s) ==
    /\ Idle /\ s \in held
    /\ pcbs' = IF socks[s].pcb = NULL THEN pcbs ELSE tcp_close(socks[s].pcb)
    /\ socks' = [socks EXCEPT ![s].rx = <<>>, ![s].state = "FREE"]
    /\ held' = held \ {s}
    /\ lost' = lost \cup Queued(s)
    /\ Return("0")
    /\ UNCHANGED <<netReady, dhcp, dlv, got>>

-----------------------------------------------------------------------------
\* Calls that may wait: what each does at the head of its loop.

\* accept that takes the newest connection.
AcceptHead_Newest(s, start) ==
    /\ UNCHANGED <<pcbs, dlv, got>>
    /\ \/ /\ socks[s].count # 0
          /\ socks' = [socks EXCEPT ![s].tail = (@ - 1) % AcceptqMax, ![s].count = @ - 1]
          /\ held' = held \cup {socks[s].acceptq[(socks[s].tail - 1) % AcceptqMax]}
          /\ Return("fd")
       \/ /\ socks[s].count = 0
          /\ IF socks[s].state # "LISTENING" THEN Return("EINVAL")
                                            ELSE Wait("accept", s, 0, start)
          /\ UNCHANGED <<socks, held>>

AcceptHead(s, start) ==
    /\ UNCHANGED <<pcbs, dlv, got>>
    /\ \/ /\ socks[s].count # 0
          /\ socks' = [socks EXCEPT ![s].head = (@ + 1) % AcceptqMax, ![s].count = @ - 1]
          /\ held' = held \cup {socks[s].acceptq[socks[s].head]}
          /\ Return("fd")
       \/ /\ socks[s].count = 0
          /\ IF socks[s].state # "LISTENING" THEN Return("EINVAL")
                                            ELSE Wait("accept", s, 0, start)
          /\ UNCHANGED <<socks, held>>

ConnectHead(s, start) ==
    /\ UNCHANGED <<socks, pcbs, held, dlv, got>>
    /\ CASE socks[s].state = "CONNECTING" -> Wait("connect", s, 0, start)
         [] socks[s].state = "CONNECTED"  -> Return("0")
         [] OTHER                         -> Return("ECONNREFUSED")

\* bsock_read that does not go back to the start of the next pbuf.
bsock_read_KeepsOff(s, len) ==
    LET p == Head(socks[s].rx)
        avail == Len(p) - socks[s].off
        n == IF len < avail THEN len ELSE avail
        used == socks[s].off + n = Len(p)
    IN  /\ got' = [got EXCEPT ![s] = @ \o SubSeq(p, socks[s].off + 1, socks[s].off + n)]
        /\ socks' = [socks EXCEPT ![s].rx = IF used THEN Tail(@) ELSE @,
                                  ![s].off = @ + n]
        /\ pcbs' = IF socks[s].pcb = NULL THEN pcbs
                   ELSE [pcbs EXCEPT ![socks[s].pcb].wnd = IF @ + n > Wnd THEN Wnd ELSE @ + n]

\* bsock_read that opens the window only when a pbuf is used up.
bsock_read_OpensLate(s, len) ==
    LET p == Head(socks[s].rx)
        avail == Len(p) - socks[s].off
        n == IF len < avail THEN len ELSE avail
        used == socks[s].off + n = Len(p)
        opened == IF used THEN n ELSE 0
    IN  /\ got' = [got EXCEPT ![s] = @ \o SubSeq(p, socks[s].off + 1, socks[s].off + n)]
        /\ socks' = [socks EXCEPT ![s].rx = IF used THEN Tail(@) ELSE @,
                                  ![s].off = IF used THEN 0 ELSE @ + n]
        /\ pcbs' = IF socks[s].pcb = NULL THEN pcbs
                   ELSE [pcbs EXCEPT ![socks[s].pcb].wnd = @ + opened]

\* Copy from the first pbuf of the chain, free it when it is used up, and
\* open the window by what was copied.
bsock_read(s, len) ==
    LET p == Head(socks[s].rx)
        avail == Len(p) - socks[s].off
        n == IF len < avail THEN len ELSE avail
        used == socks[s].off + n = Len(p)
    IN  /\ got' = [got EXCEPT ![s] = @ \o SubSeq(p, socks[s].off + 1, socks[s].off + n)]
        /\ socks' = [socks EXCEPT ![s].rx = IF used THEN Tail(@) ELSE @,
                                  ![s].off = IF used THEN 0 ELSE @ + n]
        /\ pcbs' = IF socks[s].pcb = NULL THEN pcbs
                   ELSE [pcbs EXCEPT ![socks[s].pcb].wnd = IF @ + n > Wnd THEN Wnd ELSE @ + n]

\* recv that looks for the end before it looks for data.
RecvHead_EndFirst(s, len, start) ==
    /\ UNCHANGED <<held, dlv>>
    /\ \/ /\ ~socks[s].eof /\ socks[s].state # "ERROR" /\ socks[s].rx # <<>>
          /\ bsock_read(s, len)
          /\ Return("bytes")
       \/ /\ socks[s].eof \/ socks[s].state = "ERROR" \/ socks[s].rx = <<>>
          /\ CASE socks[s].eof              -> Return("EOF")
               [] ~socks[s].eof /\ socks[s].state = "ERROR" -> Return("ECONNRESET")
               [] OTHER                     -> Wait("recv", s, len, start)
          /\ UNCHANGED <<socks, pcbs, got>>

RecvHead(s, len, start) ==
    /\ UNCHANGED <<held, dlv>>
    /\ \/ /\ socks[s].rx # <<>>
          /\ bsock_read(s, len)
          /\ Return("bytes")
       \/ /\ socks[s].rx = <<>>
          /\ CASE socks[s].eof              -> Return("EOF")
               [] ~socks[s].eof /\ socks[s].state = "ERROR" -> Return("ECONNRESET")
               [] OTHER                     -> Wait("recv", s, len, start)
          /\ UNCHANGED <<socks, pcbs, got>>

\* bsock_write and the loop around it: it polls when there is no room or
\* tcp_write has no memory.
SendHead(s, len, start) ==
    LET p == socks[s].pcb
        room == SndBuf - pcbs[p].snd
        n == IF len < room THEN len ELSE room
    IN  /\ UNCHANGED <<socks, held, dlv, got>>
        /\ \/ /\ socks[s].state = "ERROR" \/ p = NULL
              /\ Return("ECONNRESET")
              /\ UNCHANGED pcbs
           \/ /\ socks[s].state # "ERROR" /\ p # NULL
              /\ room # 0
              /\ pcbs[p].st \notin {"ESTABLISHED", "CLOSE_WAIT", "SYN_SENT", "SYN_RCVD"}
              /\ Return("ECONNRESET")
              /\ UNCHANGED pcbs
           \/ /\ socks[s].state # "ERROR" /\ p # NULL
              /\ room # 0
              /\ pcbs[p].st \in {"ESTABLISHED", "CLOSE_WAIT", "SYN_SENT", "SYN_RCVD"}
              /\ pcbs' = [pcbs EXCEPT ![p].snd = @ + n]
              /\ Return("bytes")
           \/ /\ socks[s].state # "ERROR" /\ p # NULL
              /\ room # 0 =>
                    pcbs[p].st \in {"ESTABLISHED", "CLOSE_WAIT", "SYN_SENT", "SYN_RCVD"}
              /\ Wait("send", s, len, start)
              /\ UNCHANGED pcbs

-----------------------------------------------------------------------------
\* The calls themselves, up to their first test.

net_shim_accept(s) ==
    /\ Idle /\ s \in held
    /\ AcceptHead(s, now)
    /\ UNCHANGED <<netReady, dhcp, lost>>

\* lwIP asserts that no callbacks are set on a listening pcb: the program
\* does not connect a socket on which it listens.
net_shim_connect(s) ==
    /\ Idle /\ s \in held
    /\ socks[s].state # "LISTENING"
    /\ UNCHANGED <<netReady, dhcp, held, lost, dlv, got>>
    /\ LET p == socks[s].pcb IN
       \/ \* addrlen is too short
          /\ Return("EINVAL")
          /\ UNCHANGED <<socks, pcbs>>
       \/ /\ p # NULL /\ pcbs[p].st = "CLOSED"
          /\ pcbs' = [pcbs EXCEPT ![p].st = "SYN_SENT", ![p].cb = TRUE, ![p].arg = s]
          /\ socks' = [socks EXCEPT ![s].state = "CONNECTING"]
          /\ Wait("connect", s, 0, now)
       \/ \* tcp_connect fails: not closed, no route, no memory
          /\ pcbs' = IF p = NULL THEN pcbs
                     ELSE [pcbs EXCEPT ![p].cb = TRUE, ![p].arg = s]
          /\ socks' = [socks EXCEPT ![s].state = "ERROR"]
          /\ Return("ECONNREFUSED")

net_shim_recv(s, len) ==
    /\ Idle /\ s \in held
    /\ \/ /\ len = 0
          /\ Return("0")
          /\ UNCHANGED <<socks, pcbs, held, dlv, got>>
       \/ /\ len # 0
          /\ RecvHead(s, len, now)
    /\ UNCHANGED <<netReady, dhcp, lost>>

\* The program does not send on a socket on which it listens.
net_shim_send(s, len) ==
    /\ Idle /\ s \in held
    /\ socks[s].state # "LISTENING"
    /\ \/ /\ len = 0
          /\ Return("0")
          /\ UNCHANGED <<socks, pcbs, held, dlv, got>>
       \/ /\ len # 0
          /\ SendHead(s, len, now)
    /\ UNCHANGED <<netReady, dhcp, lost>>

\* What a loop returns when its time is over.
TimeoutRet(op) == IF op = "accept" THEN "EAGAIN" ELSE "ETIMEDOUT"

\* net_poll has returned: the loop tests the clock, then its own condition.
AfterPoll ==
    /\ poll = "timers"
    /\ call.op # "socket"
    /\ UNCHANGED <<netReady, dhcp, lost>>
    /\ \/ /\ Expired(call.start)
          /\ Return(TimeoutRet(call.op))
          /\ UNCHANGED <<socks, pcbs, held, dlv, got>>
       \/ /\ ~Expired(call.start)
          /\ \/ call.op = "accept"  /\ AcceptHead(call.fd, call.start)
             \/ call.op = "connect" /\ ConnectHead(call.fd, call.start)
             \/ call.op = "recv"    /\ RecvHead(call.fd, call.len, call.start)
             \/ call.op = "send"    /\ SendHead(call.fd, call.len, call.start)

\* The same in net_wait_ready, whose result net_ensure_ready ignores.
AfterPollReady ==
    /\ poll = "timers"
    /\ call.op = "socket"
    /\ UNCHANGED <<dhcp, lost>>
    /\ \/ /\ dhcp \/ Expired(call.start)
          /\ netReady' = TRUE
          /\ SocketMade
       \/ /\ ~dhcp /\ ~Expired(call.start)
          /\ Wait("socket", NULL, 0, call.start)
          /\ UNCHANGED <<socks, pcbs, netReady, held, dlv, got>>

-----------------------------------------------------------------------------
Client ==
    \/ net_shim_socket
    \/ \E s \in Slots :
        \/ net_shim_bind(s) \/ net_shim_listen(s) \/ net_shim_close(s)
        \/ net_shim_accept(s) \/ net_shim_connect(s)
        \/ \E len \in Lens : net_shim_recv(s, len) \/ net_shim_send(s, len)

\* Steps of the program inside a blocking call.
Frames ==
    \/ \E p \in Pcbs :
        \/ \E l \in Pcbs : RxSyn(l, p)
        \/ \E s \in Slots : RxAccept(p, s)
        \/ \E n \in 1..Wnd : RxData(p, n)
        \/ \E n \in 1..SndBuf : RxAck(p, n)
        \/ RxRefuse(p) \/ RxConnected(p) \/ RxFin(p) \/ RxDrop(p)
    \/ RxDhcp \/ RxOther

Blocked ==
    \/ Frames
    \/ RxEmpty /\ UNCHANGED shimVars
    \/ AfterPoll
    \/ AfterPollReady

Network == Arrive /\ UNCHANGED shimVars
Clock == Tick /\ UNCHANGED shimVars

Next ==
    \/ Client
    \/ Blocked
    \/ \E p \in Pcbs : TimerDrop(p)
    \/ Network
    \/ Clock

\* A processor runs a call it has begun, and the counter behind the clock
\* runs.  Nothing is assumed of the network or of the program between calls.
Fairness == WF_vars(Blocked) /\ WF_vars(Clock)

Spec == Init /\ [][Next]_vars /\ Fairness
SafeSpec == Init /\ [][Next]_vars

-----------------------------------------------------------------------------
\* Type invariant of the socket layer and its model of lwIP.
TypeOK ==
    /\ GlueTypeOK
    /\ socks \in [Slots -> Socks]
    /\ pcbs \in [Pcbs -> PcbRecs]
    /\ netReady \in BOOLEAN /\ dhcp \in BOOLEAN
    /\ call \in [op : Ops, fd : Slots \cup {NULL}, len : Lens \cup {0}, start : 0..ClockMod - 1]
    /\ ret \in Rets
    /\ held \subseteq Slots /\ lost \subseteq Slots
    /\ dlv \in [Slots -> Nat]
    /\ got \in [Slots -> Seq(Nat)]

Live(s) == socks[s].state # "FREE"
Listeners == {s \in Slots : socks[s].state = "LISTENING"}

\* A callback of pcb p finds the socket that owns p.
CallbackLands(p) ==
    pcbs[p].cb \/ pcbs[p].st \in {"LISTEN", "SYN_SENT"} =>
        /\ pcbs[p].arg \in Slots
        /\ Live(pcbs[p].arg)
        /\ socks[pcbs[p].arg].pcb = p

\* A connection that may still be accepted was made for a socket that listens.
ListenerLives(p) ==
    pcbs[p].st = "SYN_RCVD" /\ pcbs[p].listener # NULL =>
        /\ pcbs[pcbs[p].listener].st = "LISTEN"
        /\ pcbs[pcbs[p].listener].arg = pcbs[p].arg

\* The pcb socket s points to exists and is its own.
PcbLives(s) ==
    Live(s) /\ socks[s].pcb # NULL =>
        /\ pcbs[socks[s].pcb].st \notin {"NONE", "SYN_RCVD", "CLOSING"}
        /\ pcbs[socks[s].pcb].arg = s

\* Every callback lwIP can still make lands on the socket that owns the pcb,
\* and every pcb a socket still points to exists and is its own: no callback
\* writes a slot that was freed or given to another socket (net_shim.c:84-152),
\* and no call passes freed memory to lwIP.
Ownership ==
    /\ \A p \in Pcbs : CallbackLands(p) /\ ListenerLives(p)
    /\ \A s \in Slots : PcbLives(s)

\* What lwIP says of the pcb of s.
PcbState(s) == IF socks[s].pcb = NULL THEN "NONE" ELSE pcbs[socks[s].pcb].st

\* What socks[].state says of a connection is what lwIP says of its pcb, also
\* when the answer came after the call that waited for it had given up
\* (net_shim.c:276-282).  Only SK_ERROR tells nothing.
StatesAgree ==
    \A s \in Slots :
        /\ socks[s].state = "CLOSED"     => PcbState(s) = "CLOSED"
        /\ socks[s].state = "CONNECTING" => PcbState(s) = "SYN_SENT"
        /\ socks[s].state = "CONNECTED"  => PcbState(s) \in {"ESTABLISHED", "CLOSE_WAIT"}
        /\ Live(s) => (socks[s].state = "LISTENING" <=> PcbState(s) = "LISTEN")

\* Every slot in use belongs to exactly one of: the program, the accept queue
\* of an open listener, or the connections a listener left behind when it was
\* closed (the leak net_shim.c:394 admits).  A queue holds no slot twice, and
\* its head, tail and count fit together.
SlotsAccounted ==
    /\ {s \in Slots : Live(s)} = held \cup lost \cup UNION {Queued(l) : l \in Listeners}
    /\ held \cap lost = {}
    /\ \A l \in Listeners :
        /\ l \in held
        /\ Queued(l) \cap (held \cup lost) = {}
        /\ \A k \in Listeners : k # l => Queued(k) \cap Queued(l) = {}
        /\ \A i, j \in 1..socks[l].count : Queue(l)[i] = Queue(l)[j] => i = j
        /\ socks[l].count <= AcceptqMax
        /\ socks[l].tail = (socks[l].head + socks[l].count) % AcceptqMax

\* An accept queue is first in, first out: while a listener stays open, a step
\* adds one connection at the end or gives the oldest to the program
\* (net_shim.c:145-147 and 236-238).
FifoStep ==
    \A l \in Listeners :
        socks'[l].state = "LISTENING" /\ socks'[l].pcb = socks[l].pcb =>
            \/ Queue(l)' = Queue(l)
            \/ \E s \in Slots : Queue(l)' = Append(Queue(l), s)
            \/ Queue(l) # <<>> /\ Queue(l)' = Tail(Queue(l)) /\ held' = held \cup {Head(Queue(l))}
AcceptInOrder == [][FifoStep]_vars

\* The bytes of a pbuf are consecutive bytes of the peer's stream.
Consecutive(b) == b # <<>> /\ \A i \in DOMAIN b : b[i] = b[1] + i - 1

\* The pbufs of s hold the bytes of the stream from the first one not handed
\* out (the first off of the first pbuf were) to the last one delivered.
ChainFollows(s) ==
    LET rx == socks[s].rx IN
    /\ \A k \in DOMAIN rx : Consecutive(rx[k])
    /\ \A k \in 1..Len(rx) - 1 : rx[k + 1][1] = rx[k][Len(rx[k])] + 1
    /\ rx = <<>> => Len(got[s]) = dlv[s]
    /\ rx # <<>> => /\ rx[1][1] + socks[s].off = Len(got[s]) + 1
                    /\ rx[Len(rx)][Len(rx[Len(rx)])] = dlv[s]

\* recv hands out the peer's bytes in order, each once, whatever the lengths
\* of the frames and of the reads, and what it has not handed out is in the
\* chain, in order (net_shim.c:285-306).
StreamInOrder ==
    \A s \in Slots :
        Live(s) => got[s] = [i \in 1..Len(got[s]) |-> i] /\ ChainFollows(s)

\* The step is one of a recv on s: its only one, its first, or a later one.
RecvSteps(s) ==
    \/ \E len \in Lens : net_shim_recv(s, len)
    \/ call.op = "recv" /\ call.fd = s

\* recv reports the end of the stream, or a reset, only when it has handed out
\* all that came before: at once, when the end was seen in an earlier call, or
\* after a net_poll, which may bring data, FIN and RST together
\* (net_shim.c:318-323).
EndStep ==
    \A s \in Slots :
        RecvSteps(s) /\ ret' \in {"EOF", "ECONNRESET"} => got[s] = [i \in 1..dlv[s] |-> i]
EndAfterData == [][EndStep]_vars

\* The receive window is closed by exactly what was delivered and not yet
\* read: it is open again once everything was read, and tcp_close does not
\* take an empty socket for one with unread data (net_shim.c:46-49).
WindowFollowsReader ==
    \A s \in Slots :
        Live(s) /\ socks[s].pcb # NULL /\ pcbs[socks[s].pcb].st \in {"ESTABLISHED", "CLOSE_WAIT"} =>
            pcbs[socks[s].pcb].wnd + (dlv[s] - Len(got[s])) = Wnd

\* A blocking call gives up after BlockTimeout, not earlier and at most one
\* net_poll later, also when the 32-bit clock wraps meanwhile
\* (net_shim.c:232, 278, 325, 367).
TimeoutStep ==
    poll # "out" =>
        /\ waited < BlockTimeout + MaxTicks
        /\ ret' \in {"EAGAIN", "ETIMEDOUT"} => waited >= BlockTimeout
TimeoutOnTime == [][TimeoutStep]_vars

\* "runs its own synchronous loop [...] until the operation either completes or
\* NET_BLOCK_TIMEOUT_MS elapses" (net_shim.c:9-12): every call returns.
CallsReturn == (poll # "out") ~> (poll = "out")

\* accept gives the program a connection "lwIP has already accepted"
\* (net_shim.c:54): the pcb whose peer address it copies is there.
AcceptStep ==
    \A l \in Listeners : \A s \in Queued(l) :
        s \in held' => socks[s].pcb # NULL
AcceptsConnections == [][AcceptStep]_vars
=============================================================================
