--------------------------- MODULE NetTableProofs ---------------------------
(***************************************************************************)
(* The socket table: who owns a pcb, and who has a slot.                   *)
(*                                                                         *)
(* First part: that every callback finds the socket of its pcb, that every *)
(* socket's pcb exists, and that their states agree is kept by each kind   *)
(* of change the socket layer and lwIP make to sockets and pcbs.  Second   *)
(* part: that every slot in use is the program's, in one place of one      *)
(* accept queue, or lost with a closed listener is kept by each kind of    *)
(* change to the table, for any length of the queues.  NetStepProofs shows *)
(* that every action makes one of these changes.                           *)
(***************************************************************************)
EXTENDS NetInv, TLAPS

PSame(p) ==
    /\ pcbs'[p].st = pcbs[p].st /\ pcbs'[p].arg = pcbs[p].arg
    /\ pcbs'[p].cb = pcbs[p].cb /\ pcbs'[p].listener = pcbs[p].listener
SSame(s) == socks'[s].state = socks[s].state /\ socks'[s].pcb = socks[s].pcb

\* The types of the fields that say who owns what.
OwnTypes ==
    /\ NULL \notin Pcbs /\ NULL \notin Slots
    /\ \A s \in Slots : socks[s].pcb \in Pcbs \cup {NULL}
    /\ \A p \in Pcbs : /\ pcbs[p].arg \in Slots \cup {NULL}
                       /\ pcbs[p].listener \in Pcbs \cup {NULL}
                       /\ pcbs[p].cb \in BOOLEAN

\* The part of the type invariant that these proofs use.
LEMMA TypesOfOwners == TypeOK => OwnTypes
  BY ShimAssumption, Zenon DEF OwnTypes, TypeOK, Socks, PcbRecs

\* Everything the ownership lemmas start from.
OwnPre == OwnTypes /\ OwnInv

\* A step that leaves pcbs and the owners of slots alone keeps Ownership.
LEMMA OwnNothing ==
  ASSUME OwnPre, \A s \in Slots : SSame(s), \A p \in Pcbs : PSame(p)
  PROVE  OwnInv'
<1> USE DEF SSame, PSame, Live, OwnPre, OwnTypes, OwnInv
<1>1. \A p \in Pcbs : CallbackLands(p)'
  BY DEF Ownership, CallbackLands
<1>2. \A p \in Pcbs : ListenerLives(p)'
  BY DEF Ownership, ListenerLives
<1>3. \A s \in Slots : PcbLives(s)'
  BY DEF Ownership, PcbLives
<1>4. StatesAgree'
  BY DEF StatesAgree, PcbState
<1>5. CallbacksSet'
  BY Zenon DEF CallbacksSet
<1> QED BY <1>1, <1>2, <1>3, <1>4, <1>5, Zenon DEF Ownership

\* lwIP allocates a pcb for a SYN.
LEMMA OwnSyn ==
  ASSUME OwnPre, \A s \in Slots : SSame(s),
         NEW l \in Pcbs, pcbs[l].st = "LISTEN",
         NEW p \in Pcbs, pcbs[p].st \in {"NONE", "CLOSING"},
         \A q \in Pcbs : q # p => PSame(q),
         pcbs'[p].st = "SYN_RCVD", pcbs'[p].arg = pcbs[l].arg, ~pcbs'[p].cb,
         pcbs'[p].listener = l
  PROVE  OwnInv'
<1> USE DEF SSame, PSame, Live, OwnPre, OwnTypes, OwnInv
<1>0. \A s \in Slots : Live(s) => socks[s].pcb # p
  BY DEF Ownership, PcbLives
<1>1. \A q \in Pcbs : CallbackLands(q)'
  BY DEF Ownership, CallbackLands
<1>2. \A q \in Pcbs : ListenerLives(q)'
  BY DEF Ownership, ListenerLives
<1>3. \A s \in Slots : PcbLives(s)'
  BY <1>0 DEF Ownership, PcbLives
<1>4. StatesAgree'
  BY <1>0 DEF StatesAgree, PcbState
<1>5. CallbacksSet'
  BY DEF CallbacksSet
<1> QED BY <1>1, <1>2, <1>3, <1>4, <1>5, Zenon DEF Ownership

\* lwIP frees the pcb of socket s, and on_err runs.
LEMMA OwnDropCallback ==
  ASSUME OwnPre, NEW s \in Slots, NEW p \in Pcbs, Live(s), socks[s].pcb = p,
         pcbs[p].st # "LISTEN", pcbs'[p].st = "NONE", ~pcbs'[p].cb,
         \A q \in Pcbs : q # p => PSame(q),
         socks'[s].state = "ERROR", socks'[s].pcb = NULL,
         \A t \in Slots : t # s => SSame(t)
  PROVE  OwnInv'
<1> USE DEF SSame, PSame, Live, OwnPre, OwnTypes, OwnInv
<1>0. \A t \in Slots : t # s /\ Live(t) => socks[t].pcb # p
  BY DEF Ownership, PcbLives
<1>6. \A q \in Pcbs : q # p /\ (pcbs[q].cb \/ pcbs[q].st \in {"LISTEN", "SYN_SENT"}) => pcbs[q].arg # s
  BY DEF Ownership, CallbackLands
<1>1. \A q \in Pcbs : CallbackLands(q)'
  BY <1>6 DEF Ownership, CallbackLands
<1>2. \A q \in Pcbs : ListenerLives(q)'
  BY DEF Ownership, ListenerLives
<1>3. \A t \in Slots : PcbLives(t)'
  BY <1>0 DEF Ownership, PcbLives
<1>4. StatesAgree'
  BY <1>0 DEF StatesAgree, PcbState
<1>5. CallbacksSet'
  BY DEF CallbacksSet
<1> QED BY <1>1, <1>2, <1>3, <1>4, <1>5, Zenon DEF Ownership

\* lwIP frees a pcb that no socket points to.
LEMMA OwnDropQuiet ==
  ASSUME OwnPre, NEW p \in Pcbs, \A t \in Slots : Live(t) => socks[t].pcb # p,
         pcbs[p].st # "LISTEN", pcbs'[p].st \in {"NONE", "CLOSING"}, ~pcbs'[p].cb,
         \A q \in Pcbs : q # p => PSame(q),
         \A t \in Slots : SSame(t)
  PROVE  OwnInv'
<1> USE DEF SSame, PSame, Live, OwnPre, OwnTypes, OwnInv
<1>1. \A q \in Pcbs : CallbackLands(q)'
  BY DEF Ownership, CallbackLands
<1>2. \A q \in Pcbs : ListenerLives(q)'
  BY DEF Ownership, ListenerLives
<1>3. \A t \in Slots : PcbLives(t)'
  BY DEF Ownership, PcbLives
<1>4. StatesAgree'
  BY DEF StatesAgree, PcbState
<1>5. CallbacksSet'
  BY DEF CallbacksSet
<1> QED BY <1>1, <1>2, <1>3, <1>4, <1>5, Zenon DEF Ownership

\* The connection of socket s is established.
LEMMA OwnConnected ==
  ASSUME OwnPre, NEW s \in Slots, NEW p \in Pcbs, Live(s), socks[s].pcb = p,
         pcbs[p].st = "SYN_SENT", pcbs'[p].st = "ESTABLISHED",
         pcbs'[p].arg = pcbs[p].arg, pcbs'[p].cb = pcbs[p].cb,
         pcbs'[p].listener = pcbs[p].listener,
         \A q \in Pcbs : q # p => PSame(q),
         socks'[s].state = "CONNECTED", socks'[s].pcb = p,
         \A t \in Slots : t # s => SSame(t)
  PROVE  OwnInv'
<1> USE DEF SSame, PSame, Live, OwnPre, OwnTypes, OwnInv
<1>0. \A t \in Slots : t # s /\ Live(t) => socks[t].pcb # p
  BY DEF Ownership, PcbLives
<1>1. \A q \in Pcbs : CallbackLands(q)'
  BY <1>0 DEF Ownership, CallbackLands
<1>2. \A q \in Pcbs : ListenerLives(q)'
  BY DEF Ownership, ListenerLives
<1>3. \A t \in Slots : PcbLives(t)'
  BY <1>0 DEF Ownership, PcbLives
<1>4. StatesAgree'
  BY <1>0 DEF StatesAgree, PcbState
<1>5. CallbacksSet'
  BY DEF CallbacksSet
<1> QED BY <1>1, <1>2, <1>3, <1>4, <1>5, Zenon DEF Ownership

\* The peer closes its side.
LEMMA OwnFin ==
  ASSUME OwnPre, NEW p \in Pcbs, pcbs[p].st = "ESTABLISHED", pcbs'[p].st = "CLOSE_WAIT",
         pcbs'[p].arg = pcbs[p].arg, pcbs'[p].cb = pcbs[p].cb,
         pcbs'[p].listener = pcbs[p].listener,
         \A q \in Pcbs : q # p => PSame(q),
         \A t \in Slots : SSame(t)
  PROVE  OwnInv'
<1> USE DEF SSame, PSame, Live, OwnPre, OwnTypes, OwnInv
<1>1. \A q \in Pcbs : CallbackLands(q)'
  BY DEF Ownership, CallbackLands
<1>2. \A q \in Pcbs : ListenerLives(q)'
  BY DEF Ownership, ListenerLives
<1>3. \A t \in Slots : PcbLives(t)'
  BY DEF Ownership, PcbLives
<1>4. StatesAgree'
  BY DEF StatesAgree, PcbState
<1>5. CallbacksSet'
  BY DEF CallbacksSet
<1> QED BY <1>1, <1>2, <1>3, <1>4, <1>5 DEF Ownership

\* on_accept gives a new connection to the free slot s.
LEMMA OwnAccept ==
  ASSUME OwnPre, NEW s \in Slots, NEW p \in Pcbs, ~Live(s),
         pcbs[p].st = "SYN_RCVD", pcbs'[p].st = "ESTABLISHED", pcbs'[p].arg = s, pcbs'[p].cb,
         \A q \in Pcbs : q # p => PSame(q),
         socks'[s].state = "CONNECTED", socks'[s].pcb = p,
         \A t \in Slots : t # s => SSame(t)
  PROVE  OwnInv'
<1> USE DEF SSame, PSame, Live, OwnPre, OwnTypes, OwnInv
<1>0. \A t \in Slots : Live(t) => socks[t].pcb # p
  BY DEF Ownership, PcbLives
<1>6. \A q \in Pcbs : pcbs[q].cb \/ pcbs[q].st \in {"LISTEN", "SYN_SENT"} => pcbs[q].arg # s
  BY DEF Ownership, CallbackLands
<1>1. \A q \in Pcbs : CallbackLands(q)'
  BY <1>6 DEF Ownership, CallbackLands
<1>2. \A q \in Pcbs : ListenerLives(q)'
  BY DEF Ownership, ListenerLives
<1>3. \A t \in Slots : PcbLives(t)'
  BY <1>0 DEF Ownership, PcbLives
<1>4. StatesAgree'
  BY <1>0 DEF StatesAgree, PcbState
<1>5. CallbacksSet'
  BY DEF CallbacksSet
<1> QED BY <1>1, <1>2, <1>3, <1>4, <1>5, Zenon DEF Ownership

\* net_shim_socket puts a new pcb into the free slot s.
LEMMA OwnSocket ==
  ASSUME OwnPre, NEW s \in Slots, NEW p \in Pcbs, ~Live(s),
         pcbs[p].st \in {"NONE", "CLOSING"}, pcbs'[p].st = "CLOSED", pcbs'[p].arg = s, ~pcbs'[p].cb,
         \A q \in Pcbs : q # p => PSame(q),
         socks'[s].state = "CLOSED", socks'[s].pcb = p,
         \A t \in Slots : t # s => SSame(t)
  PROVE  OwnInv'
<1> USE DEF SSame, PSame, Live, OwnPre, OwnTypes, OwnInv
<1>0. \A t \in Slots : Live(t) => socks[t].pcb # p
  BY DEF Ownership, PcbLives
<1>6. \A q \in Pcbs : pcbs[q].cb \/ pcbs[q].st \in {"LISTEN", "SYN_SENT"} => pcbs[q].arg # s
  BY DEF Ownership, CallbackLands
<1>1. \A q \in Pcbs : CallbackLands(q)'
  BY <1>6 DEF Ownership, CallbackLands
<1>2. \A q \in Pcbs : ListenerLives(q)'
  BY DEF Ownership, ListenerLives
<1>3. \A t \in Slots : PcbLives(t)'
  BY <1>0 DEF Ownership, PcbLives
<1>4. StatesAgree'
  BY <1>0 DEF StatesAgree, PcbState
<1>5. CallbacksSet'
  BY DEF CallbacksSet
<1> QED BY <1>1, <1>2, <1>3, <1>4, <1>5, Zenon DEF Ownership

\* net_shim_listen replaces the pcb of socket s.
LEMMA OwnListen ==
  ASSUME OwnPre, NEW s \in Slots, NEW p \in Pcbs, NEW n \in Pcbs, Live(s), socks[s].pcb = p,
         pcbs[p].st = "CLOSED", pcbs[n].st = "NONE", pcbs'[p].st = "NONE", ~pcbs'[p].cb,
         pcbs'[n].st = "LISTEN", pcbs'[n].arg = s, ~pcbs'[n].cb,
         \A q \in Pcbs : q # p /\ q # n => PSame(q),
         socks'[s].state = "LISTENING", socks'[s].pcb = n,
         \A t \in Slots : t # s => SSame(t)
  PROVE  OwnInv'
<1> USE DEF SSame, PSame, Live, OwnPre, OwnTypes, OwnInv
<1>0. \A t \in Slots : Live(t) => socks[t].pcb # n /\ (t # s => socks[t].pcb # p)
  BY DEF Ownership, PcbLives
<1>6. \A q \in Pcbs : q # p /\ (pcbs[q].cb \/ pcbs[q].st \in {"LISTEN", "SYN_SENT"}) => pcbs[q].arg # s
  BY DEF Ownership, CallbackLands
<1>1. \A q \in Pcbs : CallbackLands(q)'
  BY <1>6 DEF Ownership, CallbackLands
<1>2. \A q \in Pcbs : ListenerLives(q)'
  BY DEF Ownership, ListenerLives
<1>3. \A t \in Slots : PcbLives(t)'
  BY <1>0 DEF Ownership, PcbLives
<1>4. StatesAgree'
  BY <1>0 DEF StatesAgree, PcbState
<1>5. CallbacksSet'
  BY DEF CallbacksSet
<1> QED BY <1>1, <1>2, <1>3, <1>4, <1>5 DEF Ownership

\* net_shim_connect on socket s: SYN_SENT, or a pcb that only got its callbacks.
LEMMA OwnConnect ==
  ASSUME OwnPre, NEW s \in Slots, NEW p \in Pcbs, Live(s), socks[s].pcb = p,
         pcbs[p].st # "LISTEN", pcbs'[p].cb, pcbs'[p].arg = s,
         \/ pcbs[p].st = "CLOSED" /\ pcbs'[p].st = "SYN_SENT" /\ socks'[s].state = "CONNECTING"
         \/ pcbs'[p].st = pcbs[p].st /\ socks'[s].state = "ERROR",
         pcbs'[p].listener = pcbs[p].listener,
         \A q \in Pcbs : q # p => PSame(q),
         socks'[s].pcb = p,
         \A t \in Slots : t # s => SSame(t)
  PROVE  OwnInv'
<1> USE DEF SSame, PSame, Live, OwnPre, OwnTypes, OwnInv
<1>0. \A t \in Slots : t # s /\ Live(t) => socks[t].pcb # p
  BY DEF Ownership, PcbLives
<1>6. pcbs[p].st # "SYN_RCVD" /\ pcbs'[p].st # "SYN_RCVD"
  BY DEF Ownership, PcbLives
<1>1. \A q \in Pcbs : CallbackLands(q)'
  BY <1>0 DEF Ownership, CallbackLands
<1>2. \A q \in Pcbs : ListenerLives(q)'
  BY <1>6 DEF Ownership, ListenerLives
<1>3. \A t \in Slots : PcbLives(t)'
  BY <1>0 DEF Ownership, PcbLives
<1>4. StatesAgree'
  BY <1>0 DEF StatesAgree, PcbState
<1>5. CallbacksSet'
  BY DEF CallbacksSet
<1> QED BY <1>1, <1>2, <1>3, <1>4, <1>5 DEF Ownership

\* net_shim_connect on a socket that lost its pcb.
LEMMA OwnConnectDead ==
  ASSUME OwnPre, NEW s \in Slots, Live(s), socks[s].pcb = NULL,
         \A q \in Pcbs : PSame(q),
         socks'[s].state = "ERROR", socks'[s].pcb = NULL,
         \A t \in Slots : t # s => SSame(t)
  PROVE  OwnInv'
<1> USE DEF SSame, PSame, Live, OwnPre, OwnTypes, OwnInv
<1>1. \A q \in Pcbs : CallbackLands(q)'
  BY DEF Ownership, CallbackLands
<1>2. \A q \in Pcbs : ListenerLives(q)'
  BY DEF Ownership, ListenerLives
<1>3. \A t \in Slots : PcbLives(t)'
  BY DEF Ownership, PcbLives
<1>4. StatesAgree'
  BY DEF StatesAgree, PcbState
<1>5. CallbacksSet'
  BY DEF CallbacksSet
<1> QED BY <1>1, <1>2, <1>3, <1>4, <1>5 DEF Ownership

\* net_shim_close frees slot s and its pcb.
LEMMA OwnClose ==
  ASSUME OwnPre, NEW s \in Slots, Live(s), socks'[s].state = "FREE",
         \A t \in Slots : t # s => SSame(t),
         \A q \in Pcbs : q = socks[s].pcb => pcbs'[q].st \in {"NONE", "CLOSING"} /\ ~pcbs'[q].cb,
         \A q \in Pcbs : q # socks[s].pcb =>
             /\ pcbs'[q].st = pcbs[q].st /\ pcbs'[q].arg = pcbs[q].arg /\ pcbs'[q].cb = pcbs[q].cb
             /\ \/ pcbs'[q].listener = NULL
                \/ /\ pcbs'[q].listener = pcbs[q].listener
                   /\ pcbs[q].listener # socks[s].pcb \/ PcbState(s) # "LISTEN"
  PROVE  OwnInv'
<1> USE DEF SSame, PSame, Live, OwnPre, OwnTypes, OwnInv
<1>0. \A t \in Slots : t # s /\ Live(t) => socks[t].pcb # socks[s].pcb \/ socks[s].pcb = NULL
  BY DEF Ownership, PcbLives
<1>6. \A q \in Pcbs : q # socks[s].pcb /\ (pcbs[q].cb \/ pcbs[q].st \in {"LISTEN", "SYN_SENT"}) => pcbs[q].arg # s
  BY DEF Ownership, CallbackLands
<1>7. \A q \in Pcbs : q = socks[s].pcb /\ PcbState(s) # "LISTEN" => pcbs[q].st # "LISTEN"
  BY DEF PcbState
<1>1. \A q \in Pcbs : CallbackLands(q)'
  BY <1>6 DEF Ownership, CallbackLands
<1>2. \A q \in Pcbs : ListenerLives(q)'
  BY <1>7 DEF Ownership, ListenerLives
<1>3. \A t \in Slots : PcbLives(t)'
  BY <1>0, SMTT(30) DEF Ownership, PcbLives
<1>4. StatesAgree'
  BY <1>0 DEF StatesAgree, PcbState
<1>5. CallbacksSet'
  BY DEF CallbacksSet
<1> QED BY <1>1, <1>2, <1>3, <1>4, <1>5 DEF Ownership

\* A free slot is cleared.
LEMMA OwnFreeSlot ==
  ASSUME OwnPre, NEW s \in Slots, ~Live(s), socks'[s].state = "FREE",
         \A t \in Slots : t # s => SSame(t), \A q \in Pcbs : PSame(q)
  PROVE  OwnInv'
<1> USE DEF SSame, PSame, Live, OwnPre, OwnTypes, OwnInv
<1>0. \A q \in Pcbs : pcbs[q].cb \/ pcbs[q].st \in {"LISTEN", "SYN_SENT"} => pcbs[q].arg # s
  BY DEF Ownership, CallbackLands
<1>1. \A q \in Pcbs : CallbackLands(q)'
  BY <1>0 DEF Ownership, CallbackLands
<1>2. \A q \in Pcbs : ListenerLives(q)'
  BY DEF Ownership, ListenerLives
<1>3. \A t \in Slots : PcbLives(t)'
  BY DEF Ownership, PcbLives
<1>4. StatesAgree'
  BY DEF StatesAgree, PcbState
<1>5. CallbacksSet'
  BY DEF CallbacksSet
<1> QED BY <1>1, <1>2, <1>3, <1>4, <1>5 DEF Ownership

-----------------------------------------------------------------------------
\* Slots and accept queues.

\* The part of a socket that is its accept queue.
SameQueue(a, b) ==
    a.acceptq = b.acceptq /\ a.head = b.head /\ a.tail = b.tail /\ a.count = b.count

\* Remainders that the ring of an accept queue needs.
LEMMA ModRange ==
  ASSUME NEW M \in Nat \ {0}, NEW x \in Int
  PROVE  x % M \in 0..M - 1
  BY Z3

\* One whole turn of the ring does not change a position.
LEMMA ModOnce ==
  ASSUME NEW M \in Nat \ {0}, NEW x \in 0..M - 1
  PROVE  x % M = x /\ (x + M) % M = x
  BY Z3

\* Positions of a ring of M entries whose head is h.
LEMMA RingIndex ==
  ASSUME NEW M \in Nat \ {0}, NEW h \in 0..M - 1, NEW i \in 1..M
  PROVE  ((h + i) - 1) % M = IF (h + i) - 1 < M THEN (h + i) - 1 ELSE ((h + i) - 1) - M
<1>1. CASE (h + i) - 1 < M
  BY <1>1, ModOnce
<1>2. CASE (h + i) - 1 >= M
  <2> DEFINE x == ((h + i) - 1) - M
  <2>1. x \in 0..M - 1 /\ (h + i) - 1 = x + M
    BY <1>2
  <2> HIDE DEF x
  <2>2. ((h + i) - 1) % M = x
    BY <2>1, ModOnce
  <2> QED BY <1>2, <2>2 DEF x
<1> QED BY <1>1, <1>2

\* Different offsets from the head are different entries of the ring.
LEMMA RingDistinct ==
  ASSUME NEW M \in Nat \ {0}, NEW h \in 0..M - 1, NEW i \in 1..M, NEW j \in 1..M,
         ((h + i) - 1) % M = ((h + j) - 1) % M
  PROVE  i = j
<1>1. ((h + i) - 1) % M = IF (h + i) - 1 < M THEN (h + i) - 1 ELSE ((h + i) - 1) - M
  BY RingIndex
<1>2. ((h + j) - 1) % M = IF (h + j) - 1 < M THEN (h + j) - 1 ELSE ((h + j) - 1) - M
  BY RingIndex
<1> DEFINE a == ((h + i) - 1) % M
           b == ((h + j) - 1) % M
<1>3. a = b
  OBVIOUS
<1> HIDE DEF a, b
<1>4. a = IF (h + i) - 1 < M THEN (h + i) - 1 ELSE ((h + i) - 1) - M
  BY <1>1 DEF a
<1>5. b = IF (h + j) - 1 < M THEN (h + j) - 1 ELSE ((h + j) - 1) - M
  BY <1>2 DEF b
<1> QED BY <1>3, <1>4, <1>5

\* Moving the head by one shifts the offsets by one.
LEMMA RingShift ==
  ASSUME NEW M \in Nat \ {0}, NEW h \in 0..M - 1, NEW i \in 0..M
  PROVE  /\ (h + 1) % M \in 0..M - 1
         /\ i >= 1 /\ i < M => ((((h + 1) % M) + i) - 1) % M = ((h + (i + 1)) - 1) % M
         /\ (h + i) % M \in 0..M - 1
         /\ i < M => (((h + 1) % M) + i) % M = (h + (i + 1)) % M
         /\ i < M => (((h + i) % M) + 1) % M = (h + (i + 1)) % M
<1>1. \A x \in 0..(M + M) - 1 : x % M = IF x < M THEN x ELSE x - M
  <2> TAKE x \in 0..(M + M) - 1
  <2>1. CASE x < M
    BY <2>1, ModOnce
  <2>2. CASE x >= M
    <3> DEFINE y == x - M
    <3>1. y \in 0..M - 1 /\ x = y + M
      BY <2>2
    <3> HIDE DEF y
    <3> QED BY <2>2, <3>1, ModOnce DEF y
  <2> QED BY <2>1, <2>2
<1>2. (h + 1) % M = IF h + 1 < M THEN h + 1 ELSE 0
  BY <1>1
<1>3. (h + i) % M = IF h + i < M THEN h + i ELSE (h + i) - M
  BY <1>1
<1>4. i < M => (h + (i + 1)) % M = IF h + (i + 1) < M THEN h + (i + 1) ELSE (h + (i + 1)) - M
  BY <1>1
<1>5. ASSUME i < M PROVE (((h + i) % M) + 1) % M = (h + (i + 1)) % M
  BY <1>1, <1>3, <1>4, <1>5
<1>6. ASSUME i < M PROVE (((h + 1) % M) + i) % M = (h + (i + 1)) % M
  BY <1>1, <1>2, <1>4, <1>6
<1>7. ASSUME i >= 1, i < M PROVE ((((h + 1) % M) + i) - 1) % M = ((h + (i + 1)) - 1) % M
  BY <1>1, <1>2, <1>3, <1>7
<1> QED BY <1>2, <1>3, <1>5, <1>6, <1>7

-----------------------------------------------------------------------------
QSame(s) == SameQueue(socks'[s], socks[s])
LiveSame(s) == (Live(s)' <=> Live(s))
               /\ (socks'[s].state = "LISTENING" <=> socks[s].state = "LISTENING")

\* The types of the fields that say who has a slot.
SlotTypes ==
    /\ AcceptqMax \in Nat \ {0}
    /\ held \subseteq Slots /\ lost \subseteq Slots
    /\ \A s \in Slots : /\ socks[s].head \in 0..AcceptqMax - 1
                        /\ socks[s].tail \in 0..AcceptqMax - 1
                        /\ socks[s].count \in Nat
                        /\ socks[s].acceptq \in [0..AcceptqMax - 1 -> Slots]

\* The part of the type invariant that these proofs use.
LEMMA TypesOfSlots == TypeOK => SlotTypes
  BY ShimAssumption, Zenon DEF SlotTypes, TypeOK, Socks

\* Everything the slot lemmas start from.
SlotPre == SlotTypes /\ SlotInv

\* A queued slot is a slot.
LEMMA AtSlot ==
  ASSUME SlotTypes, NEW l \in Slots, NEW i \in Nat
  PROVE  At(l, i) \in Slots
<1>1. ((socks[l].head + i) - 1) % AcceptqMax \in 0..AcceptqMax - 1
  <2>1. (socks[l].head + i) - 1 \in Int /\ AcceptqMax \in Nat \ {0}
    BY DEF SlotTypes
  <2> QED BY <2>1, ModRange
<1> QED BY <1>1 DEF At, SlotTypes

\* A step that leaves states, queues and owners alone keeps the accounting.
LEMMA SlotNothing ==
  ASSUME SlotPre, held' = held, lost' = lost,
         \A s \in Slots : LiveSame(s) /\ (Live(s) => QSame(s))
  PROVE  SlotInv'
<1> USE DEF SlotPre, SlotInv, LiveSame, QSame, SameQueue
<1>0. /\ Listeners' = Listeners /\ Listeners \subseteq Slots
      /\ \A l \in Listeners : Live(l) /\ socks'[l].count = socks[l].count
      /\ \A l \in Listeners : \A i \in 1..socks[l].count : At(l, i)' = At(l, i) /\ At(l, i) \in Slots
  <2>1. Listeners' = Listeners /\ Listeners \subseteq Slots /\ \A l \in Listeners : Live(l)
    BY DEF Listeners, Live
  <2>2. \A l \in Listeners : socks'[l].count = socks[l].count
    BY <2>1
  <2>3. ASSUME NEW l \in Listeners, NEW i \in 1..socks[l].count
        PROVE  At(l, i)' = At(l, i) /\ At(l, i) \in Slots
    <3>1. At(l, i)' = At(l, i)
      BY <2>1 DEF At
    <3>2. i \in Nat /\ l \in Slots
      BY <2>1 DEF SlotTypes
    <3> QED BY <3>1, <3>2, AtSlot
  <2> QED BY <2>1, <2>2, <2>3
<1>1. HeldInv' /\ LostInv'
  BY DEF HeldInv, LostInv, SlotTypes
<1>2. NoQueue'
  BY DEF NoQueue
<1>3. RingInv'
  BY <1>0 DEF RingInv
<1>4. QueuedInv'
  BY <1>0 DEF QueuedInv
<1>5. DistinctInv'
  BY <1>0 DEF DistinctInv
<1>6. CoverInv'
  BY <1>0 DEF CoverInv
<1> QED BY <1>1, <1>2, <1>3, <1>4, <1>5, <1>6

\* What is queued, entry by entry.
LEMMA QueuedIsAt ==
  ASSUME NEW s
  PROVE  Queued(s) = {At(s, i) : i \in 1..socks[s].count}
<1>1. \A i \in 1..socks[s].count : Queue(s)[i] = At(s, i)
  BY Zenon DEF Queue, At
<1>2. Queued(s) = {Queue(s)[i] : i \in 1..socks[s].count}
  BY DEF Queued
<1> HIDE DEF Queue
<1> QED BY <1>1, <1>2

\* What a listener and its queue are made of.
LEMMA QueueFacts ==
  ASSUME SlotPre
  PROVE  /\ Listeners \subseteq Slots
         /\ \A l \in Listeners : Live(l) /\ socks[l].count \in Nat
         /\ \A l \in Listeners : \A i \in 1..socks[l].count : At(l, i) \in Slots
<1>1. Listeners \subseteq Slots /\ \A l \in Listeners : Live(l)
  BY DEF Listeners, Live
<1>2. \A l \in Listeners : socks[l].count \in Nat
  BY <1>1 DEF SlotPre, SlotTypes
<1>3. ASSUME NEW l \in Listeners, NEW i \in 1..socks[l].count PROVE At(l, i) \in Slots
  <2>1. l \in Slots /\ i \in Nat
    BY <1>1, <1>2
  <2> QED BY <2>1, AtSlot DEF SlotPre
<1> QED BY <1>1, <1>2, <1>3

\* net_shim_socket takes the free slot s.
LEMMA SlotSocket ==
  ASSUME SlotPre, NEW s \in Slots, ~Live(s), Live(s)', socks'[s].state # "LISTENING",
         socks'[s].count = 0, socks'[s].head = 0, socks'[s].tail = 0,
         \A t \in Slots : t # s => socks'[t] = socks[t],
         held' = held \cup {s}, lost' = lost
  PROVE  SlotInv'
<1> USE DEF SlotPre, SlotInv
<1>0. /\ Listeners' = Listeners /\ s \notin Listeners
      /\ \A l \in Listeners : socks'[l] = socks[l]
      /\ \A l \in Listeners : \A i \in 1..socks[l].count : At(l, i)' = At(l, i)
  <2>1. Listeners' = Listeners /\ s \notin Listeners /\ \A l \in Listeners : socks'[l] = socks[l]
    BY DEF Listeners, Live
  <2> QED BY <2>1 DEF At
<1>7. \A t \in Slots : t # s => (Live(t)' <=> Live(t))
  BY DEF Live
<1>1. HeldInv' /\ LostInv'
  BY <1>7 DEF HeldInv, LostInv, SlotTypes
<1>2. NoQueue'
  BY <1>7 DEF NoQueue
<1>3. RingInv'
  BY <1>0, SMTT(30) DEF RingInv
<1>4. QueuedInv'
  BY <1>0, <1>7, QueueFacts DEF QueuedInv
<1>5. DistinctInv'
  BY <1>0 DEF DistinctInv
<1>6. CoverInv'
  BY <1>0, <1>7 DEF CoverInv
<1> QED BY <1>1, <1>2, <1>3, <1>4, <1>5, <1>6

\* net_shim_listen makes socket s a listener, with an empty queue.
LEMMA SlotListen ==
  ASSUME SlotPre, NEW s \in held, socks[s].state # "LISTENING", socks'[s].state = "LISTENING",
         QSame(s), \A t \in Slots : t # s => socks'[t] = socks[t],
         held' = held, lost' = lost
  PROVE  SlotInv'
<1> USE DEF SlotPre, SlotInv
<1>8. s \in Slots /\ Live(s) /\ Live(s)'
  BY DEF SlotTypes, HeldInv, Live
<1>0. /\ Listeners' = Listeners \cup {s} /\ s \notin Listeners
      /\ \A l \in Listeners : socks'[l] = socks[l]
      /\ \A l \in Listeners : \A i \in 1..socks[l].count : At(l, i)' = At(l, i)
      /\ socks'[s].count = 0 /\ socks'[s].head = 0 /\ socks'[s].tail = 0
  <2>1. Listeners' = Listeners \cup {s} /\ s \notin Listeners
        /\ \A l \in Listeners : socks'[l] = socks[l]
    BY <1>8 DEF Listeners
  <2>2. socks'[s].count = 0 /\ socks'[s].head = 0 /\ socks'[s].tail = 0
    BY <1>8 DEF NoQueue, QSame, SameQueue
  <2> QED BY <2>1, <2>2 DEF At
<1>7. \A t \in Slots : Live(t)' <=> Live(t)
  BY <1>8 DEF Live
<1>1. HeldInv' /\ LostInv'
  BY <1>7 DEF HeldInv, LostInv, SlotTypes
<1>2. NoQueue'
  BY <1>7 DEF NoQueue
<1>3. RingInv'
  <2>1. (0 + 0) % AcceptqMax = 0 /\ 0 <= AcceptqMax
    BY ModOnce, SMTT(30) DEF SlotTypes
  <2> QED BY <1>0, <1>8, <2>1 DEF RingInv
<1>4. QueuedInv'
  BY <1>0, <1>7, QueueFacts, SMTT(30) DEF QueuedInv
<1>5. DistinctInv'
  BY <1>0 DEF DistinctInv
<1>6. CoverInv'
  BY <1>0, <1>7, SMTT(30) DEF CoverInv
<1> QED BY <1>1, <1>2, <1>3, <1>4, <1>5, <1>6

\* net_shim_close frees the slot s and leaves its queue behind.
LEMMA SlotClose ==
  ASSUME SlotPre, NEW s \in held, socks'[s].state = "FREE",
         \A t \in Slots : t # s => socks'[t] = socks[t],
         held' = held \ {s}, lost' = lost \cup Queued(s)
  PROVE  SlotInv'
<1> USE DEF SlotPre, SlotInv
<1>8. s \in Slots /\ Live(s) /\ s \notin lost /\ ~Live(s)'
  BY DEF SlotTypes, HeldInv, Live
<1>9. /\ \A x \in Queued(s) : s \in Listeners /\ \E i \in 1..socks[s].count : x = At(s, i)
      /\ \A i \in 1..socks[s].count : At(s, i) \in Queued(s)
  <2>1. Queued(s) = {At(s, i) : i \in 1..socks[s].count}
    BY QueuedIsAt
  <2>2. s \notin Listeners => socks[s].count = 0
    BY <1>8 DEF NoQueue, Listeners
  <2> QED BY <2>1, <2>2
<1>0. /\ Listeners' = Listeners \ {s}
      /\ \A l \in Listeners' : socks'[l] = socks[l]
      /\ \A l \in Listeners' : \A i \in 1..socks[l].count : At(l, i)' = At(l, i)
  <2>1. Listeners' = Listeners \ {s} /\ \A l \in Listeners' : socks'[l] = socks[l]
    BY <1>8 DEF Listeners
  <2> QED BY <2>1 DEF At
<1>7. \A t \in Slots : t # s => (Live(t)' <=> Live(t))
  BY DEF Live
<1>1. HeldInv' /\ LostInv'
  <2>1. HeldInv'
    BY <1>7, <1>8, <1>9, SMTT(30) DEF HeldInv, SlotTypes, QueuedInv
  <2>2. LostInv'
    BY <1>7, <1>8, <1>9, QueueFacts DEF LostInv, SlotTypes, QueuedInv
  <2> QED BY <2>1, <2>2
<1>2. NoQueue'
  BY <1>7, <1>8 DEF NoQueue
<1>3. RingInv'
  BY <1>0, SMTT(30) DEF RingInv
<1>4. QueuedInv'
  <2>1. QueuedInv /\ DistinctInv
    BY Zenon
  <2> HIDE DEF SlotPre, SlotInv
  <2>2. \A l \in Listeners \ {s} : \A i \in 1..socks[l].count :
          At(l, i) \in Slots /\ Live(At(l, i)) /\ At(l, i) \notin held /\ At(l, i) \notin lost
    BY <2>1, QueueFacts, Zenon DEF QueuedInv
  <2>3. \A l \in Listeners \ {s} : \A i \in 1..socks[l].count : At(l, i) \notin Queued(s)
    BY <1>9, <2>1 DEF DistinctInv
  <2>4. \A l \in Listeners \ {s} : \A i \in 1..socks[l].count :
          Live(At(l, i))' /\ At(l, i)' \notin held' /\ At(l, i)' \notin lost'
    BY <1>0, <1>7, <2>2, <2>3
  <2> QED BY <1>0, <2>4 DEF QueuedInv
<1>5. DistinctInv'
  BY <1>0, SMTT(30) DEF DistinctInv
<1>6. CoverInv'
  BY <1>0, <1>7, <1>8, <1>9 DEF CoverInv
<1> QED BY <1>1, <1>2, <1>3, <1>4, <1>5, <1>6

\* The head of the ring is the first position.
LEMMA AtHead ==
  ASSUME SlotTypes, NEW l \in Slots
  PROVE  socks[l].acceptq[socks[l].head] = At(l, 1)
<1>1. ((socks[l].head + 1) - 1) % AcceptqMax = socks[l].head
  <2>1. AcceptqMax \in Nat \ {0} /\ socks[l].head \in 0..AcceptqMax - 1
    BY SMTT(30) DEF SlotTypes
  <2> QED BY <2>1, ModOnce
<1> QED BY <1>1 DEF At

\* accept's move of the head shifts the positions by one.
LEMMA AtTail ==
  ASSUME SlotTypes, NEW l \in Slots, socks[l].count <= AcceptqMax,
         socks'[l].acceptq = socks[l].acceptq,
         socks'[l].head = (socks[l].head + 1) % AcceptqMax,
         NEW i \in 1..socks[l].count - 1
  PROVE  At(l, i)' = At(l, i + 1)
<1> DEFINE h == socks[l].head
<1>1. /\ AcceptqMax \in Nat \ {0} /\ h \in 0..AcceptqMax - 1
      /\ i \in 0..AcceptqMax /\ i >= 1 /\ i < AcceptqMax
  BY DEF SlotTypes
<1>2. ((((h + 1) % AcceptqMax) + i) - 1) % AcceptqMax = ((h + (i + 1)) - 1) % AcceptqMax
  BY <1>1, RingShift, Zenon
<1> QED BY <1>2 DEF At

\* The change of the table when the oldest connection in the queue of l is
\* given away.
Dequeued(l) ==
  /\ socks'[l].state = "LISTENING" /\ socks'[l].acceptq = socks[l].acceptq
  /\ socks'[l].head = (socks[l].head + 1) % AcceptqMax
  /\ socks'[l].tail = socks[l].tail /\ socks'[l].count = socks[l].count - 1
  /\ \A t \in Slots : t # l => socks'[t] = socks[t]
  /\ held' = held \cup {socks[l].acceptq[socks[l].head]} /\ lost' = lost

\* net_shim_accept gives the oldest connection in the queue of l away.
LEMMA SlotDequeue ==
  ASSUME SlotPre, NEW l \in Listeners, socks[l].count # 0, Dequeued(l)
  PROVE  SlotInv'
<1> DEFINE h == socks[l].head
           c == socks[l].count
<1>0. SlotTypes /\ HeldInv /\ LostInv /\ NoQueue /\ RingInv /\ QueuedInv /\ DistinctInv /\ CoverInv
  BY SMTT(30) DEF SlotPre, SlotInv
<1>8. /\ l \in Slots /\ AcceptqMax \in Nat \ {0} /\ h \in 0..AcceptqMax - 1
      /\ c \in 1..AcceptqMax /\ socks[l].tail = (h + c) % AcceptqMax
  BY <1>0, QueueFacts DEF SlotTypes, RingInv
<1>9. /\ Listeners' = Listeners
      /\ \A k \in Listeners : k # l => socks'[k] = socks[k]
      /\ \A t \in Slots : Live(t)' <=> Live(t)
  BY <1>8, QueueFacts, Zenon DEF Listeners, Live, Dequeued
<1>10. \A k \in Listeners : k # l => \A i \in 1..socks[k].count : At(k, i)' = At(k, i)
  BY <1>9, Zenon DEF At
<1>7. /\ socks'[l].acceptq = socks[l].acceptq /\ socks'[l].head = (h + 1) % AcceptqMax
      /\ socks'[l].tail = socks[l].tail
      /\ held' = held \cup {socks[l].acceptq[h]} /\ lost' = lost /\ socks'[l].count = c - 1
  BY SMTT(30) DEF Dequeued
<1>11. ASSUME NEW i \in 1..c - 1 PROVE At(l, i)' = At(l, i + 1)
  <2>1. SlotTypes /\ l \in Slots /\ socks[l].count <= AcceptqMax
    BY <1>0, <1>8
  <2>2. /\ socks'[l].acceptq = socks[l].acceptq
        /\ socks'[l].head = (socks[l].head + 1) % AcceptqMax
    BY <1>7, Zenon
  <2>3. i \in 1..socks[l].count - 1
    OBVIOUS
  <2> QED BY <2>1, <2>2, <2>3, AtTail
<1>12. socks[l].acceptq[h] = At(l, 1)
  BY <1>0, <1>8, AtHead
<1>13. held' = held \cup {At(l, 1)} /\ lost' = lost /\ socks'[l].count = c - 1
  BY <1>7, <1>12, Zenon
<1>14. \A i \in 1..c - 1 : i + 1 \in 1..c /\ i + 1 # 1
  BY <1>8
<1>15. 1 \in 1..c /\ \A i \in 1..c : i # 1 => i - 1 \in 1..c - 1 /\ (i - 1) + 1 = i
  BY <1>8
<1>16. \A i, j \in 1..c - 1 : i + 1 = j + 1 => i = j
  BY <1>8
<1>17. l \in held /\ Live(l)
  BY <1>0, QueueFacts DEF RingInv
<1> HIDE DEF c, h
<1>18. socks[l].count = c
  BY DEF c
<1>1. HeldInv' /\ LostInv'
  BY <1>0, <1>9, <1>13, <1>15, <1>18, QueueFacts, Zenon DEF HeldInv, LostInv, SlotTypes, QueuedInv
<1>2. NoQueue'
  <2> SUFFICES ASSUME NEW t \in Slots, Live(t)', socks'[t].state # "LISTENING"
               PROVE  socks'[t].count = 0 /\ socks'[t].head = 0 /\ socks'[t].tail = 0
    BY Zenon DEF NoQueue
  <2>1. Live(t) /\ socks'[t] = socks[t]
    BY <1>9 DEF Dequeued
  <2> QED BY <1>0, <2>1 DEF NoQueue
<1>3. RingInv'
  <2>1. socks'[l].count <= AcceptqMax
    BY <1>8, <1>13
  <2>2. socks'[l].tail = (socks'[l].head + socks'[l].count) % AcceptqMax
    <3>1. c - 1 \in 0..AcceptqMax /\ c - 1 < AcceptqMax /\ (c - 1) + 1 = c
      BY <1>8
    <3>2. (((h + 1) % AcceptqMax) + (c - 1)) % AcceptqMax = (h + ((c - 1) + 1)) % AcceptqMax
      BY <1>8, <3>1, RingShift, Zenon
    <3> QED BY <1>7, <1>8, <3>1, <3>2, Zenon
  <2> QED BY <1>0, <1>9, <1>13, <1>17, <2>1, <2>2, Zenon DEF RingInv
<1>4. QueuedInv'
  <2>1. ASSUME NEW i \in 1..c - 1
        PROVE  Live(At(l, i + 1)) /\ At(l, i + 1) \notin held' /\ At(l, i + 1) \notin lost
               /\ At(l, i + 1) \in Slots
    <3>1. i + 1 \in 1..socks[l].count /\ i + 1 # 1 /\ 1 \in 1..socks[l].count
      BY <1>14, <1>15, <1>18
    <3>2. At(l, i + 1) # At(l, 1)
      BY <1>0, <3>1, Zenon DEF DistinctInv
    <3> QED BY <1>0, <1>13, <3>1, <3>2, QueueFacts, Zenon DEF QueuedInv
  <2>2. ASSUME NEW k \in Listeners, k # l, NEW i \in 1..socks[k].count
        PROVE  Live(At(k, i)) /\ At(k, i) \notin held' /\ At(k, i) \notin lost
               /\ At(k, i) \in Slots
    <3>1. 1 \in 1..socks[l].count
      BY <1>15, <1>18
    <3>2. At(k, i) # At(l, 1)
      BY <1>0, <2>2, <3>1, Zenon DEF DistinctInv
    <3> QED BY <1>0, <1>13, <3>2, QueueFacts, Zenon DEF QueuedInv
  <2>3. ASSUME NEW k \in Listeners, NEW i \in 1..socks'[k].count
        PROVE  Live(At(k, i))' /\ At(k, i)' \notin held' /\ At(k, i)' \notin lost'
    <3>1. CASE k = l
      <4>1. i \in 1..c - 1
        BY <1>13, <3>1
      <4>2. At(k, i)' = At(l, i + 1)
        BY <1>11, <3>1, <4>1, SMTT(30)
      <4> QED BY <1>9, <1>13, <2>1, <4>1, <4>2, SMTT(30) DEF Live
    <3>2. CASE k # l
      <4>1. i \in 1..socks[k].count
        BY <1>9, <3>2, SMTT(30)
      <4>2. At(k, i)' = At(k, i)
        BY <1>10, <3>2, <4>1, SMTT(30)
      <4> QED BY <1>9, <1>13, <2>2, <3>2, <4>1, <4>2, SMTT(30) DEF Live
    <3> QED BY <3>1, <3>2, SMTT(30)
  <2> QED BY <1>9, <2>3, Zenon DEF QueuedInv
<1>5. DistinctInv'
  <2>1. ASSUME NEW k \in Listeners, k # l, NEW i \in 1..socks[k].count, NEW j \in 1..c - 1
        PROVE  At(k, i)' # At(l, j)'
    BY <2>1, <1>0, <1>10, <1>11, <1>14, <1>18 DEF DistinctInv
  <2>2. ASSUME NEW i \in 1..c - 1, NEW j \in 1..c - 1, At(l, i)' = At(l, j)'
        PROVE  i = j
    <3>1. At(l, i + 1) = At(l, j + 1)
      BY <2>2, <1>11
    <3>2. i + 1 = j + 1
      BY <1>0, <1>14, <1>18, <3>1 DEF DistinctInv
    <3> QED BY <1>16, <3>2
  <2>3. ASSUME NEW k \in Listeners, NEW m \in Listeners, k # l, m # l,
               NEW i \in 1..socks[k].count, NEW j \in 1..socks[m].count, At(k, i)' = At(m, j)'
        PROVE  k = m /\ i = j
    BY <2>3, <1>0, <1>10, SMTT(30) DEF DistinctInv
  <2> QED BY <1>9, <1>13, <2>1, <2>2, <2>3 DEF DistinctInv
<1>6. CoverInv'
  <2> SUFFICES ASSUME NEW s \in Slots, Live(s), s \notin held', s \notin lost
               PROVE  \E k \in Listeners : \E i \in 1..socks'[k].count : s = At(k, i)'
    BY <1>9, <1>13, Zenon DEF CoverInv
  <2>4. PICK k \in Listeners : \E i \in 1..socks[k].count : s = At(k, i)
    BY <1>0, <1>13, Zenon DEF CoverInv
  <2>1. PICK i \in 1..socks[k].count : s = At(k, i)
    BY <2>4
  <2>2. CASE k # l
    BY <1>9, <1>10, <2>1, <2>2, Zenon
  <2>3. CASE k = l
    <3>1. i \in 1..c /\ i # 1
      BY <1>13, <1>18, <2>1, <2>3
    <3>2. i - 1 \in 1..c - 1 /\ (i - 1) + 1 = i
      BY <1>15, <3>1
    <3>3. At(l, i - 1)' = s
      BY <1>11, <2>1, <2>3, <3>2, SMTT(30)
    <3> QED BY <1>13, <3>2, <3>3, Zenon
  <2> QED BY <2>2, <2>3
<1> QED BY <1>1, <1>2, <1>3, <1>4, <1>5, <1>6 DEF SlotInv

\* on_accept's write to the ring is a new last position.
LEMMA AtAppend ==
  ASSUME SlotTypes, NEW l \in Slots, NEW s \in Slots, socks[l].count < AcceptqMax,
         socks[l].tail = (socks[l].head + socks[l].count) % AcceptqMax,
         socks'[l].acceptq = [socks[l].acceptq EXCEPT ![socks[l].tail] = s],
         socks'[l].head = socks[l].head,
         NEW i \in 1..socks[l].count + 1
  PROVE  At(l, i)' = IF i = socks[l].count + 1 THEN s ELSE At(l, i)
<1> DEFINE h == socks[l].head
           c == socks[l].count
<1>1. /\ AcceptqMax \in Nat \ {0} /\ h \in 0..AcceptqMax - 1 /\ c \in Nat
      /\ c + 1 \in 1..AcceptqMax /\ i \in 1..AcceptqMax
      /\ socks[l].acceptq \in [0..AcceptqMax - 1 -> Slots]
  <2>1. /\ AcceptqMax \in Nat \ {0} /\ h \in 0..AcceptqMax - 1 /\ c \in Nat
        /\ socks[l].acceptq \in [0..AcceptqMax - 1 -> Slots]
    BY Zenon DEF SlotTypes
  <2>2. c < AcceptqMax /\ i \in 1..c + 1
    BY Zenon
  <2> HIDE DEF c, h
  <2> QED BY <2>1, <2>2, SMTT(30)
<1>2. socks[l].tail = ((h + (c + 1)) - 1) % AcceptqMax
  <2>1. socks[l].tail = (h + c) % AcceptqMax
    BY Zenon
  <2>2. (h + (c + 1)) - 1 = h + c
    <3> HIDE DEF h, c
    <3> QED BY <1>1
  <2> QED BY <2>1, <2>2
<1>3. ((h + i) - 1) % AcceptqMax = socks[l].tail => i = c + 1
  <2> HIDE DEF h, c
  <2>1. ASSUME ((h + i) - 1) % AcceptqMax = ((h + (c + 1)) - 1) % AcceptqMax
        PROVE  i = c + 1
    BY <1>1, <2>1, RingDistinct, SMTT(30)
  <2> QED BY <1>2, <2>1, Zenon
<1>4. ((h + i) - 1) % AcceptqMax \in 0..AcceptqMax - 1
  <2>1. (h + i) - 1 \in Int
    BY <1>1
  <2> QED BY <1>1, <2>1, ModRange, Zenon
<1>5. At(l, i)' = socks'[l].acceptq[((h + i) - 1) % AcceptqMax]
  BY Zenon DEF At
<1> HIDE DEF h, c
<1>6. CASE i = c + 1
  BY <1>1, <1>2, <1>4, <1>5, <1>6, Zenon DEF c
<1>7. CASE i # c + 1
  BY <1>1, <1>3, <1>4, <1>5, <1>7, Zenon DEF At, h, c
<1> QED BY <1>6, <1>7, SMTT(30)

\* The change of the table when the free slot s is put at the end of the queue
\* of l.
Enqueued(l, s) ==
  /\ ~Live(s) /\ Live(s)' /\ socks'[s].state # "LISTENING"
  /\ socks'[s].count = 0 /\ socks'[s].head = 0 /\ socks'[s].tail = 0
  /\ socks'[l].state = "LISTENING"
  /\ socks'[l].acceptq = [socks[l].acceptq EXCEPT ![socks[l].tail] = s]
  /\ socks'[l].head = socks[l].head
  /\ socks'[l].tail = (socks[l].tail + 1) % AcceptqMax
  /\ socks'[l].count = socks[l].count + 1
  /\ \A t \in Slots \ {l, s} : socks'[t] = socks[t]
  /\ held' = held /\ lost' = lost

\* on_accept appends the free slot s to the queue of l.
LEMMA SlotAccept ==
  ASSUME SlotPre, NEW l \in Listeners, NEW s \in Slots, socks[l].count < AcceptqMax, Enqueued(l, s)
  PROVE  SlotInv'
<1> DEFINE h == socks[l].head
           c == socks[l].count
<1>0. SlotTypes /\ HeldInv /\ LostInv /\ NoQueue /\ RingInv /\ QueuedInv /\ DistinctInv /\ CoverInv
  BY Zenon DEF SlotPre, SlotInv
<1>8. /\ l \in Slots /\ AcceptqMax \in Nat \ {0} /\ h \in 0..AcceptqMax - 1
      /\ c \in 0..AcceptqMax /\ c < AcceptqMax /\ c + 1 \in 1..AcceptqMax
      /\ socks[l].tail = (h + c) % AcceptqMax
      /\ l \in held /\ Live(l) /\ l # s
  <2>1. l \in Slots /\ Live(l) /\ c \in Nat
    BY QueueFacts, SMTT(30)
  <2>2. l # s
    BY <2>1, Zenon DEF Enqueued
  <2>3. l \in held /\ socks[l].tail = (h + c) % AcceptqMax
    BY <1>0, Zenon DEF RingInv
  <2>4. AcceptqMax \in Nat \ {0} /\ h \in 0..AcceptqMax - 1
    BY <1>0, <2>1, SMTT(30) DEF SlotTypes
  <2> QED BY <2>1, <2>2, <2>3, <2>4
<1>9. /\ Listeners' = Listeners /\ s \notin Listeners
      /\ \A k \in Listeners : k # l => socks'[k] = socks[k]
      /\ \A t \in Slots : t # s => (Live(t)' <=> Live(t))
  <2>1. s \notin Listeners
    BY ZenonT(30) DEF Listeners, Live, Enqueued
  <2>2. /\ \A t \in Slots : t # s /\ t # l => socks'[t] = socks[t]
        /\ socks[l].state = "LISTENING" /\ socks'[l].state = "LISTENING"
        /\ socks[s].state # "LISTENING" /\ socks'[s].state # "LISTENING"
    BY <2>1 DEF Enqueued, Listeners
  <2> QED BY <1>8, <2>1, <2>2, QueueFacts DEF Listeners, Live
<1>10. \A k \in Listeners : k # l => \A i \in 1..socks[k].count : At(k, i)' = At(k, i)
  BY <1>9, Zenon DEF At
<1>7. /\ socks'[l].acceptq = [socks[l].acceptq EXCEPT ![socks[l].tail] = s]
      /\ socks'[l].head = h /\ socks'[l].tail = (socks[l].tail + 1) % AcceptqMax
      /\ ~Live(s) /\ Live(s)' /\ held' = held /\ lost' = lost /\ socks'[l].count = c + 1
  BY Zenon DEF Enqueued
<1>11. ASSUME NEW i \in 1..c + 1
       PROVE  At(l, i)' = IF i = c + 1 THEN s ELSE At(l, i)
  BY <1>0, <1>7, <1>8, AtAppend, Zenon
<1>12. \A i \in 1..c + 1 : i # c + 1 => i \in 1..c
  BY <1>8
<1>13. c + 1 \in 1..c + 1 /\ \A i \in 1..c : i \in 1..c + 1 /\ i # c + 1
  BY <1>8, SMTT(30)
<1> HIDE DEF c, h
<1>14. socks[l].count = c /\ socks'[l].count = c + 1 /\ held' = held /\ lost' = lost
  BY <1>7 DEF c
<1>15. \A k \in Listeners : \A i \in 1..socks[k].count : At(k, i) # s /\ At(k, i) \in Slots
  BY <1>0, <1>7, QueueFacts, Zenon DEF QueuedInv
<1>16. s \notin held /\ s \notin lost
  BY <1>0, <1>7, SMTT(30) DEF HeldInv, LostInv
<1>17. Live(s)' /\ \A t \in Slots : t # s => (Live(t)' <=> Live(t))
  BY <1>7, <1>9
<1>1. HeldInv' /\ LostInv'
  BY <1>0, <1>14, <1>16, <1>17, Zenon DEF HeldInv, LostInv, SlotTypes
<1>2. NoQueue'
  <2> SUFFICES ASSUME NEW t \in Slots, Live(t)', socks'[t].state # "LISTENING"
               PROVE  socks'[t].count = 0 /\ socks'[t].head = 0 /\ socks'[t].tail = 0
    BY ZenonT(30) DEF NoQueue
  <2>1. CASE t = s
    BY <2>1, Zenon DEF Enqueued
  <2>2. CASE t # s
    <3>1. t # l /\ Live(t) /\ socks'[t] = socks[t]
      BY <1>17, <2>2 DEF Enqueued
    <3> QED BY <1>0, <3>1, SMTT(30) DEF NoQueue
  <2> QED BY <2>1, <2>2
<1>3. RingInv'
  <2>1. socks'[l].count <= AcceptqMax
    BY <1>8, <1>14
  <2>2. socks'[l].tail = (socks'[l].head + socks'[l].count) % AcceptqMax
    <3>1. (((h + c) % AcceptqMax) + 1) % AcceptqMax = (h + (c + 1)) % AcceptqMax
      BY <1>8, RingShift, Zenon
    <3> QED BY <1>7, <1>8, <1>14, <3>1, Zenon
  <2> QED BY <1>0, <1>8, <1>9, <1>14, <2>1, <2>2, Zenon DEF RingInv
<1>4. QueuedInv'
  <2>1. ASSUME NEW i \in 1..c + 1
        PROVE  Live(At(l, i))' /\ At(l, i)' \notin held /\ At(l, i)' \notin lost
    <3>1. CASE i = c + 1
      <4>1. At(l, i)' = s
        BY <1>11, <3>1, SMTT(30)
      <4> QED BY <1>16, <1>17, <4>1 DEF Live
    <3>2. CASE i # c + 1
      <4>1. At(l, i)' = At(l, i) /\ i \in 1..socks[l].count
        BY <1>11, <1>12, <1>14, <3>2, Zenon
      <4>2. Live(At(l, i)) /\ At(l, i) \notin held /\ At(l, i) \notin lost
        BY <1>0, <4>1, Zenon DEF QueuedInv
      <4>3. At(l, i) # s /\ At(l, i) \in Slots
        BY <1>15, <4>1
      <4> QED BY <1>17, <4>1, <4>2, <4>3 DEF Live
    <3> QED BY <3>1, <3>2
  <2>2. ASSUME NEW k \in Listeners, k # l, NEW i \in 1..socks[k].count
        PROVE  Live(At(k, i))' /\ At(k, i)' \notin held /\ At(k, i)' \notin lost
    <3>1. Live(At(k, i)) /\ At(k, i) \notin held /\ At(k, i) \notin lost
      BY <1>0, <2>2, Zenon DEF QueuedInv
    <3>2. At(k, i) # s /\ At(k, i) \in Slots /\ At(k, i)' = At(k, i)
      BY <1>10, <1>15, <2>2
    <3> QED BY <1>17, <3>1, <3>2 DEF Live
  <2>3. ASSUME NEW k \in Listeners, NEW i \in 1..socks'[k].count
        PROVE  Live(At(k, i))' /\ At(k, i)' \notin held /\ At(k, i)' \notin lost
    <3>1. CASE k = l
      BY <1>14, <2>1, <3>1
    <3>2. CASE k # l
      BY <1>9, <2>2, <3>2
    <3> QED BY <3>1, <3>2
  <2> QED BY <1>9, <1>14, <2>3, Zenon DEF QueuedInv
<1>5. DistinctInv'
  <2>1. ASSUME NEW k \in Listeners, k # l, NEW i \in 1..socks[k].count, NEW j \in 1..c + 1
        PROVE  At(k, i)' # At(l, j)'
    <3>1. At(k, i)' = At(k, i) /\ At(k, i) # s
      BY <1>10, <1>15, <2>1
    <3>2. CASE j = c + 1
      BY <1>11, <3>1, <3>2
    <3>3. CASE j # c + 1
      <4>1. At(l, j)' = At(l, j) /\ j \in 1..socks[l].count
        BY <1>11, <1>12, <1>14, <3>3
      <4> QED BY <1>0, <2>1, <3>1, <4>1, Zenon DEF DistinctInv
    <3> QED BY <3>2, <3>3, SMTT(30)
  <2>2. ASSUME NEW i \in 1..c + 1, NEW j \in 1..c + 1, At(l, i)' = At(l, j)'
        PROVE  i = j
    <3>1. \A n \in 1..c + 1 : n # c + 1 =>
              At(l, n)' = At(l, n) /\ n \in 1..socks[l].count /\ At(l, n) # s
      <4> TAKE n \in 1..c + 1
      <4> HAVE n # c + 1
      <4>1. At(l, n)' = At(l, n)
        BY <1>11
      <4> QED BY <1>12, <1>14, <1>15, <4>1
    <3>2. \A n \in 1..c + 1 : n = c + 1 => At(l, n)' = s
      BY <1>11, Zenon
    <3>3. CASE i = c + 1 \/ j = c + 1
      BY <2>2, <3>1, <3>2, <3>3, Zenon
    <3>4. CASE i # c + 1 /\ j # c + 1
      BY <1>0, <2>2, <3>1, <3>4, ZenonT(30) DEF DistinctInv
    <3> QED BY <3>3, <3>4
  <2>3. ASSUME NEW k \in Listeners, NEW m \in Listeners, k # l, m # l,
               NEW i \in 1..socks[k].count, NEW j \in 1..socks[m].count, At(k, i)' = At(m, j)'
        PROVE  k = m /\ i = j
    BY <2>3, <1>0, <1>10 DEF DistinctInv
  <2>4. ASSUME NEW k \in Listeners, NEW m \in Listeners,
               NEW i \in 1..socks'[k].count, NEW j \in 1..socks'[m].count, At(k, i)' = At(m, j)'
        PROVE  k = m /\ i = j
    <3>1. /\ \A n : n \in 1..socks'[l].count <=> n \in 1..c + 1
          /\ \A x \in Listeners : x # l => socks'[x].count = socks[x].count
      BY <1>9, <1>14
    <3>2. CASE k = l /\ m = l
      BY <2>2, <2>4, <3>1, <3>2, Zenon
    <3>3. CASE k = l /\ m # l
      BY <2>1, <2>4, <3>1, <3>3, Zenon
    <3>4. CASE k # l /\ m = l
      BY <2>1, <2>4, <3>1, <3>4, ZenonT(30)
    <3>5. CASE k # l /\ m # l
      <4>1. i \in 1..socks[k].count /\ j \in 1..socks[m].count
        BY <3>1, <3>5, Zenon
      <4> QED BY <2>3, <2>4, <3>5, <4>1
    <3> QED BY <3>2, <3>3, <3>4, <3>5, ZenonT(30)
  <2> QED BY <1>9, <2>4, Zenon DEF DistinctInv
<1>6. CoverInv'
  <2> SUFFICES ASSUME NEW t \in Slots, Live(t)', t \notin held, t \notin lost
               PROVE  \E k \in Listeners : \E i \in 1..socks'[k].count : t = At(k, i)'
    BY <1>9, <1>14, Zenon DEF CoverInv
  <2>1. CASE t = s
    BY <1>11, <1>13, <1>14, <2>1, Zenon
  <2>2. CASE t # s
    <3>1. PICK k \in Listeners : \E i \in 1..socks[k].count : t = At(k, i)
      BY <1>0, <1>9, <2>2, Zenon DEF CoverInv
    <3>2. PICK i \in 1..socks[k].count : t = At(k, i)
      BY <3>1, Zenon
    <3>3. CASE k # l
      BY <1>9, <1>10, <3>2, <3>3, Zenon
    <3>4. CASE k = l
      BY <1>11, <1>13, <1>14, <3>2, <3>4, ZenonT(30)
    <3> QED BY <3>3, <3>4, Zenon
  <2> QED BY <2>1, <2>2, Zenon
<1> QED BY <1>1, <1>2, <1>3, <1>4, <1>5, <1>6 DEF SlotInv

-----------------------------------------------------------------------------
\* Queues as sets and as sequences.

LOCAL INSTANCE SequenceTheorems

\* A queue is the sequence of its positions.
LEMMA QueueSeq ==
  ASSUME SlotPre, NEW l \in Listeners
  PROVE  /\ Queue(l) = [i \in 1..socks[l].count |-> At(l, i)]
         /\ Queue(l) \in Seq(Slots) /\ Len(Queue(l)) = socks[l].count
<1>1. Queue(l) = [i \in 1..socks[l].count |-> At(l, i)]
  BY DEF Queue, At
<1>2. socks[l].count \in Nat /\ \A i \in 1..socks[l].count : At(l, i) \in Slots
  BY QueueFacts
<1>3. Queue(l) \in [1..socks[l].count -> Slots]
  BY <1>1, <1>2, Zenon
<1> QED BY <1>1, <1>2, <1>3, IsASeq, SMTT(30)

\* on_accept adds the connection at the end.
LEMMA QueueAppend ==
  ASSUME SlotPre, NEW l \in Listeners, NEW s \in Slots, socks[l].count < AcceptqMax,
         socks'[l].acceptq = [socks[l].acceptq EXCEPT ![socks[l].tail] = s],
         socks'[l].head = socks[l].head, socks'[l].count = socks[l].count + 1
  PROVE  Queue(l)' = Append(Queue(l), s)
<1> DEFINE c == socks[l].count
<1>1. l \in Slots /\ c \in Nat /\ socks[l].tail = (socks[l].head + c) % AcceptqMax /\ SlotTypes
  BY QueueFacts, Zenon DEF SlotPre, SlotInv, RingInv
<1>2. Queue(l)' = [i \in 1..c + 1 |-> At(l, i)']
  BY Zenon DEF Queue, At
<1>3. \A i \in 1..c + 1 : At(l, i)' = IF i = c + 1 THEN s ELSE At(l, i)
  BY <1>1, AtAppend, Zenon
<1>4. /\ Queue(l) = [i \in 1..c |-> At(l, i)]
      /\ Queue(l) \in Seq(Slots) /\ Len(Queue(l)) = c
  BY QueueSeq, Zenon
<1> HIDE DEF c, Queue
<1>5. /\ Append(Queue(l), s) \in Seq(Slots) /\ Len(Append(Queue(l), s)) = c + 1
      /\ \A i \in 1..c : Append(Queue(l), s)[i] = At(l, i)
      /\ Append(Queue(l), s)[c + 1] = s
  BY <1>1, <1>4, AppendProperties
<1>6. Append(Queue(l), s) = [i \in 1..c + 1 |-> Append(Queue(l), s)[i]]
  BY <1>5, LenProperties, Zenon
<1>7. \A i \in 1..c + 1 : Append(Queue(l), s)[i] = At(l, i)'
  <2>1. \A i \in 1..c + 1 : i = c + 1 \/ i \in 1..c
    BY <1>1
  <2>2. c + 1 \in 1..c + 1 /\ \A i \in 1..c : i \in 1..c + 1 /\ i # c + 1
    BY <1>1, SMTT(30)
  <2> QED BY <1>3, <1>5, <2>1, <2>2, Zenon
<1> QED BY <1>2, <1>6, <1>7, Zenon

\* accept takes the first one.
LEMMA QueueTail ==
  ASSUME SlotPre, NEW l \in Listeners, socks[l].count # 0,
         socks'[l].acceptq = socks[l].acceptq,
         socks'[l].head = (socks[l].head + 1) % AcceptqMax,
         socks'[l].count = socks[l].count - 1
  PROVE  /\ Queue(l) # <<>> /\ Queue(l)' = Tail(Queue(l))
         /\ Head(Queue(l)) = socks[l].acceptq[socks[l].head]
<1> DEFINE c == socks[l].count
<1>1. l \in Slots /\ c \in Nat /\ c # 0 /\ c <= AcceptqMax /\ SlotTypes
  BY QueueFacts, Zenon DEF SlotPre, SlotInv, RingInv
<1>2. Queue(l)' = [i \in 1..c - 1 |-> At(l, i)']
  BY Zenon DEF Queue, At
<1>3. \A i \in 1..c - 1 : At(l, i)' = At(l, i + 1)
  BY <1>1, AtTail, Zenon
<1>4. /\ Queue(l) = [i \in 1..c |-> At(l, i)]
      /\ Queue(l) \in Seq(Slots) /\ Len(Queue(l)) = c
  BY QueueSeq
<1> HIDE DEF c, Queue
<1>5. Queue(l) # <<>>
  BY <1>1, <1>4
<1>6. /\ Tail(Queue(l)) \in Seq(Slots) /\ Len(Tail(Queue(l))) = c - 1
      /\ \A i \in 1..c - 1 : Tail(Queue(l))[i] = Queue(l)[i + 1]
  <2>1. /\ Tail(Queue(l)) \in Seq(Slots) /\ Len(Tail(Queue(l))) = Len(Queue(l)) - 1
        /\ \A i \in 1..Len(Tail(Queue(l))) : Tail(Queue(l))[i] = Queue(l)[i + 1]
    BY <1>4, <1>5, HeadTailProperties, Zenon
  <2>2. Len(Queue(l)) = c
    BY <1>4, Zenon
  <2> QED BY <2>1, <2>2, Zenon
<1>7. \A i \in 1..c - 1 : Queue(l)[i + 1] = At(l, i + 1)
  <2>1. \A i \in 1..c - 1 : i + 1 \in 1..c
    BY <1>1
  <2> QED BY <1>4, <2>1
<1>8. Tail(Queue(l)) = [i \in 1..c - 1 |-> Tail(Queue(l))[i]]
  BY <1>6, LenProperties, ZenonT(30)
<1>9. Queue(l)' = Tail(Queue(l))
  BY <1>2, <1>3, <1>6, <1>7, <1>8, SMTT(30)
<1>10. Head(Queue(l)) = Queue(l)[1] /\ Queue(l)[1] = At(l, 1)
  BY <1>1, <1>4
<1> QED BY <1>1, <1>5, <1>9, <1>10, AtHead

\* SlotInv says what SlotsAccounted says.
LEMMA SlotsFromPre == SlotPre => SlotsAccounted
<1> SUFFICES ASSUME SlotPre PROVE SlotsAccounted
  OBVIOUS
<1>1. SlotPre /\ SlotInv
  BY DEF SlotPre
<1>2. \A l \in Listeners : Queued(l) = {At(l, i) : i \in 1..socks[l].count}
  BY QueuedIsAt
<1>3. \A l \in Listeners : \A x \in Queued(l) : x \in Slots /\ Live(x) /\ x \notin held /\ x \notin lost
  BY <1>1, <1>2, QueueFacts DEF SlotInv, QueuedInv
<1>4. \A k, l \in Listeners : k # l => Queued(k) \cap Queued(l) = {}
  <2> SUFFICES ASSUME NEW k \in Listeners, NEW l \in Listeners, k # l,
                      NEW x \in Queued(k), x \in Queued(l)
               PROVE  FALSE
    OBVIOUS
  <2>1. PICK i \in 1..socks[k].count : x = At(k, i)
    BY <1>2
  <2>2. PICK j \in 1..socks[l].count : x = At(l, j)
    BY <1>2
  <2> QED BY <1>1, <2>1, <2>2, Zenon DEF SlotInv, DistinctInv
<1>5. {s \in Slots : Live(s)} = held \cup lost \cup UNION {Queued(l) : l \in Listeners}
  <2>1. ASSUME NEW s \in Slots, Live(s)
        PROVE  s \in held \cup lost \cup UNION {Queued(l) : l \in Listeners}
    <3>1. CASE \E l \in Listeners : \E i \in 1..socks[l].count : s = At(l, i)
      <4>1. PICK l \in Listeners : \E i \in 1..socks[l].count : s = At(l, i)
        BY <3>1
      <4>2. s \in Queued(l)
        BY <1>2, <4>1, SMTT(30)
      <4> QED BY <4>2
    <3> QED BY <1>1, <2>1, <3>1 DEF SlotInv, CoverInv
  <2>2. \A s \in held \cup lost : s \in Slots /\ Live(s)
    BY <1>1, SMTT(30) DEF SlotPre, SlotTypes, SlotInv, HeldInv, LostInv
  <2>3. \A s \in UNION {Queued(l) : l \in Listeners} : s \in Slots /\ Live(s)
    BY <1>3
  <2> QED BY <2>1, <2>2, <2>3
<1>6. held \cap lost = {}
  BY <1>1 DEF SlotInv, HeldInv
<1>7. \A l \in Listeners : /\ l \in held /\ socks[l].count <= AcceptqMax
                          /\ socks[l].tail = (socks[l].head + socks[l].count) % AcceptqMax
  BY <1>1 DEF SlotInv, RingInv
<1>8. \A l \in Listeners : Queued(l) \cap (held \cup lost) = {}
  BY <1>3
<1>9. \A l \in Listeners : \A i, j \in 1..socks[l].count : Queue(l)[i] = Queue(l)[j] => i = j
  <2>1. \A l \in Listeners : \A i \in 1..socks[l].count : Queue(l)[i] = At(l, i)
    BY Zenon DEF Queue, At
  <2>2. \A l \in Listeners : \A i, j \in 1..socks[l].count : At(l, i) = At(l, j) => i = j
    BY <1>1 DEF SlotInv, DistinctInv
  <2> HIDE DEF Queue, At
  <2> SUFFICES ASSUME NEW l \in Listeners, NEW i \in 1..socks[l].count,
                      NEW j \in 1..socks[l].count, Queue(l)[i] = Queue(l)[j]
               PROVE  i = j
    OBVIOUS
  <2>3. Queue(l)[i] = At(l, i) /\ Queue(l)[j] = At(l, j)
    BY <2>1
  <2> QED BY <2>2, <2>3, Zenon
<1>10. \A l \in Listeners :
         /\ l \in held /\ Queued(l) \cap (held \cup lost) = {}
         /\ \A k \in Listeners : k # l => Queued(k) \cap Queued(l) = {}
         /\ \A i, j \in 1..socks[l].count : Queue(l)[i] = Queue(l)[j] => i = j
         /\ socks[l].count <= AcceptqMax
         /\ socks[l].tail = (socks[l].head + socks[l].count) % AcceptqMax
  BY <1>4, <1>7, <1>8, <1>9, Zenon
<1> QED BY <1>5, <1>6, <1>10, Zenon DEF SlotsAccounted
=============================================================================
