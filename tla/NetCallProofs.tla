--------------------------- MODULE NetCallProofs ----------------------------
(***************************************************************************)
(* What the program gets from a blocking call: the peer's bytes in order,  *)
(* a window that follows the reader, and a time-out that is on time.       *)
(*                                                                         *)
(* The stream and the window need, from the table, that a callback writes  *)
(* to the socket that owns its pcb, that no two sockets share one, and     *)
(* that a call in progress works on a slot in use; CallPre says so.        *)
(***************************************************************************)
EXTENDS NetInv, TLAPS

\* A sequence is empty exactly when its length is 0.
LEMMA EmptyLen ==
  ASSUME NEW T, NEW x \in Seq(T)
  PROVE  Len(x) \in Nat /\ (x = <<>> <=> Len(x) = 0)
  OBVIOUS

\* The pbufs of a chain and their bytes.
LEMMA ChainTypes ==
  ASSUME NEW rx \in Seq(Seq(Nat)), NEW k \in 1..Len(rx)
  PROVE  /\ rx[k] \in Seq(Nat) /\ Len(rx[k]) \in Nat
         /\ \A i \in 1..Len(rx[k]) : rx[k][i] \in Nat
<1>1. rx[k] \in Seq(Nat)
  OBVIOUS
<1> DEFINE b == rx[k]
<1> HIDE DEF b
<1>2. b \in Seq(Nat)
  BY <1>1, Zenon DEF b
<1>3. Len(b) \in Nat /\ \A i \in 1..Len(b) : b[i] \in Nat
  BY <1>2
<1> QED BY <1>2, <1>3, Zenon DEF b

\* The last byte of a pbuf.
LEMMA LastByte ==
  ASSUME NEW b \in Seq(Nat), Consecutive(b)
  PROVE  Len(b) \in Nat \ {0} /\ b[1] \in Nat /\ b[Len(b)] = (b[1] + Len(b)) - 1
<1>1. Len(b) \in Nat \ {0}
  BY EmptyLen, Zenon DEF Consecutive
<1>2. b[1] \in Nat /\ Len(b) \in DOMAIN b
  BY <1>1
<1>3. b[Len(b)] = b[1] + Len(b) - 1
  BY <1>2, Zenon DEF Consecutive
<1> QED BY <1>1, <1>2, <1>3

\* on_recv puts the next bytes of the stream at the end of the chain.
LEMMA FollowsAppend ==
  ASSUME NEW rx \in Seq(Seq(Nat)), NEW off \in Nat, NEW g \in Nat, NEW d \in Nat,
         NEW n \in Nat \ {0}, Follows(rx, off, g, d)
  PROVE  Follows(Append(rx, [i \in 1..n |-> d + i]), off, g, d + n)
<1> DEFINE b == [i \in 1..n |-> d + i]
           y == Append(rx, b)
<1>1. b \in Seq(Nat) /\ Len(b) = n
  OBVIOUS
<1>2. \A i \in 1..n : b[i] = d + i
  BY Zenon
<1>3. Consecutive(b) /\ b[1] = d + 1 /\ b[n] = d + n
  <2>1. b # <<>> /\ DOMAIN b = 1..n
    BY <1>1, Zenon
  <2> HIDE DEF b
  <2> QED BY <1>2, <2>1 DEF Consecutive
<1>4. Len(rx) \in Nat /\ (rx = <<>> <=> Len(rx) = 0)
  BY EmptyLen, Zenon
<1> HIDE DEF b
<1>5. /\ Len(y) = Len(rx) + 1 /\ y # <<>> /\ y[Len(rx) + 1] = b
      /\ \A k \in 1..Len(rx) : y[k] = rx[k]
  <2>1. y \in Seq(Seq(Nat)) /\ Len(y) = Len(rx) + 1
    BY <1>1
  <2>2. y[Len(rx) + 1] = b /\ \A k \in 1..Len(rx) : y[k] = rx[k]
    BY <1>1
  <2>3. y # <<>>
    <3> HIDE DEF y
    <3> QED BY <1>4, <2>1, EmptyLen
  <2> QED BY <2>1, <2>2, <2>3, Zenon
<1> HIDE DEF y
<1>6. \A k \in 1..Len(rx) : /\ Consecutive(rx[k]) /\ rx[k][Len(rx[k])] <= d
                            /\ rx[k][Len(rx[k])] \in Nat
  <2> TAKE k \in 1..Len(rx)
  <2>1. rx[k] \in Seq(Nat) /\ \A i \in 1..Len(rx[k]) : rx[k][i] \in Nat
    BY ChainTypes, Zenon
  <2>2. Consecutive(rx[k]) /\ rx[k][Len(rx[k])] <= d
    BY Zenon DEF Follows
  <2>3. Len(rx[k]) \in 1..Len(rx[k])
    BY <2>1, <2>2, LastByte
  <2> QED BY <2>1, <2>2, <2>3, Zenon
<1>7. ASSUME NEW k \in 1..Len(y) PROVE Consecutive(y[k]) /\ y[k][Len(y[k])] <= d + n
  <2>1. CASE k = Len(rx) + 1
    BY <1>1, <1>3, <1>5, <2>1
  <2>2. CASE k \in 1..Len(rx)
    <3> DEFINE z == rx[k][Len(rx[k])]
    <3>1. y[k] = rx[k] /\ Consecutive(rx[k]) /\ z <= d /\ z \in Nat
      BY <1>5, <1>6, <2>2, Zenon
    <3> HIDE DEF z
    <3>2. z <= d + n
      BY <3>1
    <3> QED BY <3>1, <3>2, Zenon DEF z
  <2> QED BY <1>4, <1>5, <2>1, <2>2
<1>8. ASSUME NEW k \in 1..Len(y) - 1 PROVE y[k + 1][1] = y[k][Len(y[k])] + 1
  <2>1. k \in 1..Len(rx) /\ y[k] = rx[k]
    BY <1>4, <1>5
  <2>2. CASE k = Len(rx)
    <3>1. rx[k][Len(rx[k])] = d
      BY <1>4, <2>1, <2>2 DEF Follows
    <3> QED BY <1>3, <1>5, <2>1, <2>2, <3>1, Zenon
  <2>3. CASE k \in 1..Len(rx) - 1
    <3>1. k + 1 \in 1..Len(rx)
      BY <1>4, <2>3
    <3> QED BY <1>5, <2>1, <2>3, <3>1, Zenon DEF Follows
  <2> QED BY <1>4, <2>1, <2>2, <2>3
<1>9. off <= Len(y[1]) /\ y[1][1] + off = g + 1
  <2>1. CASE rx = <<>>
    BY <1>1, <1>3, <1>4, <1>5, <2>1 DEF Follows
  <2>2. CASE rx # <<>>
    <3>1. y[1] = rx[1]
      BY <1>4, <1>5, <2>2
    <3> QED BY <2>2, <3>1, Zenon DEF Follows
  <2> QED BY <2>1, <2>2, Zenon
<1>10. y[Len(y)][Len(y[Len(y)])] = d + n
  BY <1>1, <1>3, <1>4, <1>5, Zenon
<1>11. Follows(y, off, g, d + n)
  BY <1>5, <1>7, <1>8, <1>9, <1>10, Zenon DEF Follows
<1> QED BY <1>11, Zenon DEF y, b

\* What bsock_read may copy was delivered.
LEMMA FollowsRoom ==
  ASSUME NEW rx \in Seq(Seq(Nat)), NEW off \in Nat, NEW g \in Nat, NEW d \in Nat, NEW n \in Nat,
         Follows(rx, off, g, d), rx # <<>>, off + n <= Len(rx[1])
  PROVE  g + n <= d
<1>1. 1 \in 1..Len(rx)
  BY EmptyLen
<1>2. rx[1] \in Seq(Nat) /\ Consecutive(rx[1]) /\ rx[1][Len(rx[1])] <= d
  BY <1>1, ChainTypes, Zenon DEF Follows
<1>3. Len(rx[1]) \in Nat /\ rx[1][1] \in Nat /\ rx[1][Len(rx[1])] = (rx[1][1] + Len(rx[1])) - 1
  BY <1>2, LastByte, Zenon
<1>4. rx[1][1] + off = g + 1
  BY Zenon DEF Follows
<1> DEFINE a == rx[1][1]
           z == Len(rx[1])
<1>5. a \in Nat /\ z \in Nat /\ (a + z) - 1 <= d /\ a + off = g + 1 /\ off + n <= z
  BY <1>2, <1>3, <1>4, Zenon
<1> HIDE DEF a, z
<1> QED BY <1>5

\* bsock_read stops inside the first pbuf.
LEMMA FollowsPart ==
  ASSUME NEW rx \in Seq(Seq(Nat)), NEW off \in Nat, NEW g \in Nat, NEW d \in Nat, NEW n \in Nat,
         Follows(rx, off, g, d), rx # <<>>, off + n <= Len(rx[1])
  PROVE  Follows(rx, off + n, g + n, d)
<1>1. 1 \in 1..Len(rx)
  BY EmptyLen
<1>2. rx[1] \in Seq(Nat) /\ Consecutive(rx[1])
  BY <1>1, ChainTypes, Zenon DEF Follows
<1>3. rx[1][1] \in Nat
  BY <1>2, LastByte, Zenon
<1>4. rx[1][1] + (off + n) = (g + n) + 1
  <2> DEFINE a == rx[1][1]
  <2>1. a + off = g + 1 /\ a \in Nat
    BY <1>3, Zenon DEF Follows
  <2> HIDE DEF a
  <2>2. a + (off + n) = (g + n) + 1
    BY <2>1
  <2> QED BY <2>2, Zenon DEF a
<1> QED BY <1>4, Zenon DEF Follows

\* bsock_read uses the first pbuf up and frees it.
LEMMA FollowsTail ==
  ASSUME NEW rx \in Seq(Seq(Nat)), NEW off \in Nat, NEW g \in Nat, NEW d \in Nat, NEW n \in Nat,
         Follows(rx, off, g, d), rx # <<>>, off + n = Len(rx[1])
  PROVE  Follows(Tail(rx), 0, g + n, d)
<1> DEFINE y == Tail(rx)
<1>1. Len(rx) \in Nat \ {0} /\ 1 \in 1..Len(rx)
  BY EmptyLen
<1>2. rx[1] \in Seq(Nat) /\ Consecutive(rx[1])
  BY <1>1, ChainTypes, Zenon DEF Follows
<1>3. Len(rx[1]) \in Nat /\ rx[1][1] \in Nat /\ rx[1][Len(rx[1])] = (rx[1][1] + Len(rx[1])) - 1
  BY <1>2, LastByte, Zenon
<1>4. rx[1][Len(rx[1])] = g + n
  <2> DEFINE a == rx[1][1]
             z == Len(rx[1])
  <2>1. a + off = g + 1
    BY Zenon DEF Follows
  <2>2. a \in Nat /\ z \in Nat /\ off + n = z /\ rx[1][z] = (a + z) - 1
    BY <1>3, Zenon
  <2> HIDE DEF a, z
  <2>3. (a + z) - 1 = g + n
    BY <2>1, <2>2
  <2> QED BY <2>2, <2>3, Zenon DEF z
<1>5. /\ y \in Seq(Seq(Nat)) /\ Len(y) = Len(rx) - 1
      /\ \A k \in 1..Len(y) : y[k] = rx[k + 1]
  BY <1>1
<1> HIDE DEF y
<1>6. y = <<>> <=> Len(rx) = 1
  <2>1. y = <<>> <=> Len(y) = 0
    BY <1>5, EmptyLen, Zenon
  <2> QED BY <1>1, <1>5, <2>1
<1>7. ASSUME NEW k \in 1..Len(y) PROVE Consecutive(y[k]) /\ y[k][Len(y[k])] <= d
  <2>1. k + 1 \in 1..Len(rx) /\ y[k] = rx[k + 1]
    BY <1>1, <1>5
  <2> QED BY <2>1, Zenon DEF Follows
<1>8. ASSUME NEW k \in 1..Len(y) - 1 PROVE y[k + 1][1] = y[k][Len(y[k])] + 1
  <2>1. k \in 1..Len(y) /\ k + 1 \in 1..Len(y) /\ k + 1 \in 1..Len(rx) - 1
    BY <1>1, <1>5
  <2>2. rx[(k + 1) + 1][1] = rx[k + 1][Len(rx[k + 1])] + 1
    BY <2>1, Zenon DEF Follows
  <2> QED BY <1>5, <2>1, <2>2, Zenon
<1>9. CASE y = <<>>
  <2>1. g + n = d
    BY <1>4, <1>6, <1>9, Zenon DEF Follows
  <2> QED BY <1>7, <1>8, <1>9, <2>1, Zenon DEF Follows, y
<1>10. CASE y # <<>>
  <2>1. 1 \in 1..Len(y) /\ y[1] = rx[2] /\ 1 \in 1..Len(rx) - 1
    BY <1>1, <1>5, <1>6, <1>10, SMTT(30)
  <2>2. y[1][1] + 0 = (g + n) + 1
    <3>1. rx[1 + 1][1] = rx[1][Len(rx[1])] + 1
      BY <2>1, Zenon DEF Follows
    <3> QED BY <1>4, <2>1, <3>1
  <2>3. 0 <= Len(y[1])
    BY <1>5, <2>1, ChainTypes
  <2>4. y[Len(y)][Len(y[Len(y)])] = d
    <3>1. y[Len(y)] = rx[Len(rx)]
      BY <1>1, <1>5, <2>1, SMTT(30)
    <3> QED BY <3>1, Zenon DEF Follows
  <2> QED BY <1>7, <1>8, <1>10, <2>2, <2>3, <2>4, Zenon DEF Follows, y
<1> QED BY <1>9, <1>10, Zenon

\* Two sequences, one after the other.
LEMMA Joined ==
  ASSUME NEW h \in Seq(Nat), NEW q \in Seq(Nat)
  PROVE  /\ h \o q \in Seq(Nat) /\ Len(h \o q) = Len(h) + Len(q)
         /\ \A i \in 1..Len(h) : (h \o q)[i] = h[i]
         /\ \A i \in 1..Len(q) : (h \o q)[Len(h) + i] = q[i]
  OBVIOUS

\* The sequence h is the stream up to its Len(h)-th byte.
UpTo(h) == h = [i \in 1..Len(h) |-> i]

\* What bsock_read copies from a pbuf.
LEMMA CopiedPart ==
  ASSUME NEW p \in Seq(Nat), NEW off \in Nat, NEW n \in Nat, off + n <= Len(p)
  PROVE  /\ SubSeq(p, off + 1, off + n) \in Seq(Nat) /\ Len(SubSeq(p, off + 1, off + n)) = n
         /\ \A i \in 1..n : SubSeq(p, off + 1, off + n)[i] = p[off + i]
<1>1. Len(p) \in Nat /\ \A i \in off + 1..off + n : p[i] \in Nat
  OBVIOUS
<1> QED BY <1>1

\* The n bytes q of pbuf p from its offset off on are what comes after h.
ComesNext(h, p, off, n, q) ==
    /\ h \in Seq(Nat) /\ UpTo(h)
    /\ p \in Seq(Nat) /\ Consecutive(p)
    /\ off \in Nat /\ n \in Nat /\ off + n <= Len(p) /\ p[1] + off = Len(h) + 1
    /\ q \in Seq(Nat) /\ Len(q) = n /\ \A i \in 1..n : q[i] = p[off + i]

\* Copying them makes the part of the stream that was read longer.
LEMMA GotGrows ==
  ASSUME NEW h, NEW p, NEW off, NEW n, NEW q, ComesNext(h, p, off, n, q)
  PROVE  Len(h \o q) = Len(h) + n /\ UpTo(h \o q)
<1> DEFINE r == h \o q
<1> USE DEF ComesNext
<1>1. Len(p) \in Nat \ {0} /\ p[1] \in Nat
  BY LastByte, Zenon
<1>2. \A i \in 1..n : off + i \in 1..Len(p) /\ p[off + i] = Len(h) + i
  <2> TAKE i \in 1..n
  <2>1. off + i \in 1..Len(p) /\ DOMAIN p = 1..Len(p)
    BY <1>1
  <2>2. p[off + i] = p[1] + (off + i) - 1
    BY <2>1, Zenon DEF Consecutive
  <2> DEFINE a == p[1]
             z == Len(h)
  <2>3. z \in Nat /\ a \in Nat /\ a + off = z + 1
    BY <1>1, EmptyLen, Zenon
  <2> HIDE DEF a, z
  <2>4. a + (off + i) - 1 = z + i
    BY <2>3
  <2> QED BY <2>1, <2>2, <2>4, Zenon DEF a, z
<1>3. Len(h) \in Nat /\ \A i \in 1..Len(h) : h[i] = i
  <2>1. Len(h) \in Nat
    BY EmptyLen, Zenon
  <2> QED BY <2>1, Zenon DEF UpTo
<1>4. /\ r \in Seq(Nat) /\ Len(r) = Len(h) + n
      /\ \A i \in 1..Len(h) : r[i] = h[i]
      /\ \A i \in 1..n : r[Len(h) + i] = q[i]
  <2>1. /\ r \in Seq(Nat) /\ Len(r) = Len(h) + Len(q)
        /\ \A i \in 1..Len(h) : r[i] = h[i]
        /\ \A i \in 1..Len(q) : r[Len(h) + i] = q[i]
    BY Joined, Zenon
  <2> QED BY <2>1, Zenon
<1> HIDE DEF r
<1>5. ASSUME NEW i \in 1..Len(r) PROVE r[i] = i
  <2>1. CASE i \in 1..Len(h)
    BY <1>3, <1>4, <2>1, Zenon
  <2>2. CASE i \in Len(h) + 1..Len(h) + n
    <3> DEFINE j == i - Len(h)
    <3>1. j \in 1..n /\ i = Len(h) + j
      BY <1>3, <2>2
    <3> HIDE DEF j
    <3> QED BY <1>2, <1>4, <3>1, Zenon
  <2> QED BY <1>3, <1>4, <2>1, <2>2
<1>6. UpTo(r)
  BY <1>4, <1>5 DEF UpTo
<1> QED BY <1>4, <1>6, Zenon DEF r

-----------------------------------------------------------------------------
\* The stream of every socket in use.
\* What the proofs about the stream need of the socket table.
CallPre == TypeOK /\ Ownership /\ CallInv /\ \A s \in held : Live(s)

\* Slot t is free, fresh, or has the chain and the history it had.
SameRead(t) ==
    \/ ~Live(t)'
    \/ /\ socks'[t].rx = <<>> /\ socks'[t].off = 0
       /\ got'[t] = <<>> /\ dlv'[t] = 0
    \/ /\ Live(t)
       /\ socks'[t].rx = socks[t].rx /\ socks'[t].off = socks[t].off
       /\ got'[t] = got[t] /\ dlv'[t] = dlv[t]

\* A fresh chain is in order.
LEMMA FreshFollows == Follows(<<>>, 0, Len(<<>>), 0) /\ <<>> = [i \in 1..Len(<<>>) |-> i]
<1>1. Len(<<>>) = 0
  BY Zenon
<1>2. 1..0 = {} /\ 1..0 - 1 = {}
  OBVIOUS
<1>3. Follows(<<>>, 0, 0, 0)
  BY <1>1, <1>2, Zenon DEF Follows
<1>4. <<>> = [i \in 1..0 |-> i]
  OBVIOUS
<1> QED BY <1>1, <1>3, <1>4, Zenon

\* A step that moves no byte of the slots in use.
LEMMA ReadOne ==
  ASSUME ReadInv, NEW t \in Slots, SameRead(t)
  PROVE  Live(t)' => StreamAt(t)'
<1>1. CASE ~Live(t)'
  BY <1>1, Zenon
<1>2. CASE socks'[t].rx = <<>> /\ socks'[t].off = 0 /\ got'[t] = <<>> /\ dlv'[t] = 0
  BY <1>2, FreshFollows, Zenon DEF StreamAt
<1>3. CASE /\ Live(t)
           /\ socks'[t].rx = socks[t].rx /\ socks'[t].off = socks[t].off
           /\ got'[t] = got[t] /\ dlv'[t] = dlv[t]
  BY <1>3, Zenon DEF ReadInv, StreamAt
<1> QED BY <1>1, <1>2, <1>3, Zenon DEF SameRead

\* The same for all of them.
LEMMA ReadKept ==
  ASSUME ReadInv, \A t \in Slots : SameRead(t)
  PROVE  ReadInv'
  BY ReadOne, Zenon DEF ReadInv

\* The types of the fields a stream is made of.
LEMMA StreamTypes ==
  ASSUME TypeOK
  PROVE  /\ socks \in [Slots -> Socks] /\ dlv \in [Slots -> Nat] /\ got \in [Slots -> Seq(Nat)]
         /\ \A s \in Slots : /\ socks[s].rx \in Seq(Seq(Nat)) /\ socks[s].off \in Nat
                             /\ dlv[s] \in Nat /\ got[s] \in Seq(Nat) /\ Len(got[s]) \in Nat
<1>1. socks \in [Slots -> Socks] /\ dlv \in [Slots -> Nat] /\ got \in [Slots -> Seq(Nat)]
  BY Zenon DEF TypeOK
<1>2. \A s \in Slots : socks[s].rx \in Seq(Seq(Nat)) /\ socks[s].off \in Nat
  BY <1>1, Zenon DEF Socks
<1>3. \A s \in Slots : dlv[s] \in Nat /\ got[s] \in Seq(Nat) /\ Len(got[s]) \in Nat
  BY <1>1
<1> QED BY <1>1, <1>2, <1>3, Zenon

\* The callbacks that move no byte.
LEMMA ReadDrop ==
  ASSUME CallPre, ReadInv, UNCHANGED <<dlv, got>>, NEW p \in Pcbs,
         \/ Drop(p)
         \/ RxConnected(p)
         \/ RxFin(p)
  PROVE  ReadInv'
<1>1. socks \in [Slots -> Socks]
  BY StreamTypes, Zenon DEF CallPre
<1>2. pcbs[p].cb \/ pcbs[p].st = "SYN_SENT" => pcbs[p].arg \in Slots /\ Live(pcbs[p].arg)
  BY Zenon DEF CallPre, Ownership, CallbackLands
<1>3. CASE UNCHANGED socks
  BY <1>3, ReadKept, Zenon DEF SameRead, Live
<1>4. ASSUME NEW s \in Slots, Live(s),
             socks' = on_err(s) \/ socks' = on_connected(s) \/ socks' = on_recv_eof(s)
      PROVE  ReadInv'
  <2>1. /\ socks'[s].rx = socks[s].rx /\ socks'[s].off = socks[s].off
        /\ \A t \in Slots : t # s => socks'[t] = socks[t]
    <3>1. CASE socks' = on_err(s)
      BY <1>1, <3>1, Zenon DEF on_err, Socks
    <3>2. CASE socks' = on_connected(s)
      BY <1>1, <3>2, Zenon DEF on_connected, Socks
    <3>3. CASE socks' = on_recv_eof(s)
      BY <1>1, <3>3, Zenon DEF on_recv_eof, Socks
    <3> QED BY <1>4, <3>1, <3>2, <3>3, Zenon
  <2>2. \A t \in Slots : SameRead(t)
    BY <1>4, <2>1, Zenon DEF SameRead, Live
  <2> QED BY <2>2, ReadKept, Zenon
<1>5. UNCHANGED socks \/ \E s \in Slots : /\ Live(s)
                                          /\ \/ socks' = on_err(s)
                                             \/ socks' = on_connected(s)
                                             \/ socks' = on_recv_eof(s)
  BY <1>2, Zenon DEF Drop, RxConnected, RxFin
<1> QED BY <1>3, <1>4, <1>5, Zenon

\* on_recv with data.
LEMMA ReadData ==
  ASSUME CallPre, ReadInv, NEW p \in Pcbs, NEW n \in 1..Wnd, RxData(p, n)
  PROVE  ReadInv'
<1>0. PICK s \in Slots : s = pcbs[p].arg /\ Live(s)
  BY Zenon DEF RxData, CallPre, Ownership, CallbackLands
<1>b. PICK b : b = [i \in 1..n |-> dlv[s] + i]
  BY Zenon
<1>1. /\ s \in Slots /\ Live(s) /\ socks' = on_recv(s, b)
      /\ dlv' = [dlv EXCEPT ![s] = @ + n] /\ got' = got
  BY <1>0, <1>b, Zenon DEF RxData
<1>2. /\ socks \in [Slots -> Socks] /\ dlv \in [Slots -> Nat]
      /\ socks[s].rx \in Seq(Seq(Nat)) /\ socks[s].off \in Nat
      /\ dlv[s] \in Nat /\ Len(got[s]) \in Nat
  BY <1>1, StreamTypes, Zenon DEF CallPre
<1>3. n \in Nat \ {0}
  BY ShimAssumption
<1>4. Follows(Append(socks[s].rx, b), socks[s].off, Len(got[s]), dlv[s] + n)
  <2>1. Follows(socks[s].rx, socks[s].off, Len(got[s]), dlv[s])
    BY <1>1, Zenon DEF ReadInv, StreamAt
  <2> QED BY <1>b, <1>2, <1>3, <2>1, FollowsAppend, Zenon
<1>5. /\ socks'[s].rx = Append(socks[s].rx, b) /\ socks'[s].off = socks[s].off
      /\ \A t \in Slots : t # s => socks'[t] = socks[t]
  BY <1>1, <1>2, Zenon DEF on_recv, Socks
<1>6. dlv'[s] = dlv[s] + n /\ \A t \in Slots : t # s => dlv'[t] = dlv[t]
  BY <1>1, <1>2, Zenon
<1>7. StreamAt(s)'
  BY <1>1, <1>4, <1>5, <1>6, Zenon DEF StreamAt, ReadInv
<1>8. ASSUME NEW t \in Slots, t # s PROVE Live(t)' => StreamAt(t)'
  <2>1. Live(t)' => SameRead(t)
    BY <1>1, <1>5, <1>6, <1>8, Zenon DEF SameRead, Live
  <2> QED BY <2>1, ReadOne, Zenon
<1> QED BY <1>7, <1>8, Zenon DEF ReadInv

\* on_accept starts a stream in the slot it takes.
LEMMA ReadAccept ==
  ASSUME CallPre, ReadInv, NEW p \in Pcbs, NEW s \in Slots, RxAccept(p, s)
  PROVE  ReadInv'
<1>1. PICK l \in Slots : l = pcbs[p].arg /\ Live(l)
  <2>1. pcbs[p].listener \in Pcbs
    <3>1. pcbs[p] \in PcbRecs
      BY Zenon DEF CallPre, TypeOK
    <3> QED BY <3>1, Zenon DEF RxAccept, PcbRecs
  <2> QED BY <2>1 DEF RxAccept, CallPre, Ownership, ListenerLives, CallbackLands
<1>2. /\ socks \in [Slots -> Socks] /\ dlv \in [Slots -> Nat] /\ got \in [Slots -> Seq(Nat)]
      /\ socks' = on_accept(l, s, p) /\ ~Live(s) /\ l # s
      /\ dlv' = [dlv EXCEPT ![s] = 0] /\ got' = [got EXCEPT ![s] = <<>>]
  BY <1>1, StreamTypes, Zenon DEF CallPre, RxAccept, alloc_slot, Live
<1>a. socks \in [Slots -> Socks] /\ socks' = on_accept(l, s, p) /\ l # s
  BY <1>2, Zenon
<1>3. socks'[s].rx = <<>> /\ socks'[s].off = 0
  BY <1>a, Zenon DEF on_accept, reset_sock
<1>4. socks'[l].rx = socks[l].rx /\ socks'[l].off = socks[l].off
  BY <1>a, ZenonT(30) DEF on_accept, Socks
<1>5. \A t \in Slots : t # s /\ t # l => socks'[t] = socks[t]
  BY <1>a, Zenon DEF on_accept
<1>6. /\ dlv'[s] = 0 /\ got'[s] = <<>>
      /\ \A t \in Slots : t # s => dlv'[t] = dlv[t] /\ got'[t] = got[t]
  BY <1>2, Zenon
<1>7. \A t \in Slots : SameRead(t)
  BY <1>1, <1>3, <1>4, <1>5, <1>6 DEF SameRead, Live
<1> QED BY <1>7, ReadKept, Zenon

\* The part of socket() that may run at once or after the wait for DHCP.
LEMMA ReadSocket ==
  ASSUME CallPre, ReadInv, SocketMade
  PROVE  ReadInv'
<1>1. /\ socks \in [Slots -> Socks] /\ dlv \in [Slots -> Nat] /\ got \in [Slots -> Seq(Nat)]
  BY StreamTypes, Zenon DEF CallPre
<1>2. CASE UNCHANGED <<socks, dlv, got>>
  BY <1>2, ReadKept, Zenon DEF SameRead, Live
<1>3. ASSUME NEW s \in Slots, socks' = [socks EXCEPT ![s] = reset_sock], UNCHANGED <<dlv, got>>
      PROVE  ReadInv'
  BY <1>1, <1>3, ReadKept, Zenon DEF SameRead, Live, reset_sock
<1>4. ASSUME NEW s \in Slots, NEW p \in Pcbs,
             socks' = [socks EXCEPT ![s] = [reset_sock EXCEPT !.state = "CLOSED", !.pcb = p]],
             dlv' = [dlv EXCEPT ![s] = 0], got' = [got EXCEPT ![s] = <<>>]
      PROVE  ReadInv'
  BY <1>1, <1>4, ReadKept, Zenon DEF SameRead, Live, reset_sock
<1> QED BY <1>2, <1>3, <1>4, Zenon DEF SocketMade

\* A call that moves no byte of the socket it works on.
LEMMA ReadCall ==
  ASSUME CallPre, ReadInv, NEW s \in held, UNCHANGED <<dlv, got>>,
         ~Live(s)' \/ (socks'[s].rx = socks[s].rx /\ socks'[s].off = socks[s].off),
         \A t \in Slots : t # s => socks'[t] = socks[t]
  PROVE  ReadInv'
<1>1. s \in Slots /\ Live(s)
  BY Zenon DEF CallPre, TypeOK
<1>2. \A t \in Slots : SameRead(t)
  BY <1>1, Zenon DEF SameRead, Live
<1> QED BY <1>2, ReadKept, Zenon

\* bsock_read hands out the next n bytes, all of them delivered, and opens the
\* window by as much.
ReadBytes(s, n) ==
    /\ Len(got[s]) + n <= dlv[s]
    /\ Len(got'[s]) = Len(got[s]) + n
    /\ got'[s] = [i \in 1..Len(got'[s]) |-> i]
    /\ Follows(socks'[s].rx, socks'[s].off, Len(got[s]) + n, dlv[s])
    /\ socks'[s].pcb = socks[s].pcb /\ socks'[s].state = socks[s].state
    /\ \A t \in Slots : t # s => socks'[t] = socks[t] /\ got'[t] = got[t]
    /\ pcbs' = IF socks[s].pcb = NULL THEN pcbs
               ELSE [pcbs EXCEPT ![socks[s].pcb].wnd = IF @ + n > Wnd THEN Wnd ELSE @ + n]

\* bsock_read on a chain that is in order.
LEMMA ReadSome ==
  ASSUME CallPre, ReadInv, NEW s \in Slots, Live(s), NEW len \in Nat,
         socks[s].rx # <<>>, bsock_read(s, len)
  PROVE  \E n \in Nat : n <= len /\ ReadBytes(s, n)
<1>1. /\ socks \in [Slots -> Socks] /\ dlv[s] \in Nat /\ got \in [Slots -> Seq(Nat)]
      /\ socks[s].rx \in Seq(Seq(Nat)) /\ socks[s].off \in Nat
      /\ got[s] \in Seq(Nat) /\ Len(got[s]) \in Nat
  BY StreamTypes, Zenon DEF CallPre
<1>2. PICK rx : rx = socks[s].rx
  BY Zenon
<1>3. PICK off : off = socks[s].off
  BY Zenon
<1>4. PICK b : b = Head(rx)
  BY Zenon
<1>5. PICK n : n = IF len < Len(b) - off THEN len ELSE Len(b) - off
  BY Zenon
<1>6. /\ got' = [got EXCEPT ![s] = @ \o SubSeq(b, off + 1, off + n)]
      /\ socks' = [socks EXCEPT ![s].rx = IF off + n = Len(b) THEN Tail(@) ELSE @,
                                ![s].off = IF off + n = Len(b) THEN 0 ELSE @ + n]
      /\ pcbs' = IF socks[s].pcb = NULL THEN pcbs
                 ELSE [pcbs EXCEPT ![socks[s].pcb].wnd = IF @ + n > Wnd THEN Wnd ELSE @ + n]
  BY <1>2, <1>3, <1>4, <1>5, Zenon DEF bsock_read
<1>7. /\ rx \in Seq(Seq(Nat)) /\ off \in Nat /\ rx # <<>>
      /\ Follows(rx, off, Len(got[s]), dlv[s])
      /\ got[s] = [i \in 1..Len(got[s]) |-> i]
  BY <1>1, <1>2, <1>3, Zenon DEF ReadInv, StreamAt
<1>8. /\ b = rx[1] /\ b \in Seq(Nat) /\ Len(b) \in Nat /\ Consecutive(b)
      /\ off <= Len(b) /\ b[1] + off = Len(got[s]) + 1
  <2>1. 1 \in 1..Len(rx)
    BY <1>7, EmptyLen
  <2> QED BY <1>4, <1>7, <2>1, ChainTypes DEF Follows
<1>9. n \in Nat /\ n <= len /\ off + n <= Len(b)
  BY <1>5, <1>7, <1>8, SMTT(30)
<1>10. Len(got[s]) + n <= dlv[s]
  BY <1>1, <1>7, <1>8, <1>9, FollowsRoom, Zenon
<1>q. PICK q : q = SubSeq(b, off + 1, off + n)
  BY Zenon
<1>11. /\ got'[s] = got[s] \o q
       /\ \A t \in Slots : t # s => got'[t] = got[t]
  BY <1>q, <1>1, <1>6, Zenon
<1>12. Len(got'[s]) = Len(got[s]) + n /\ got'[s] = [i \in 1..Len(got'[s]) |-> i]
  <2>1. UpTo(got[s])
    BY <1>7, Zenon DEF UpTo
  <2>2. q \in Seq(Nat) /\ Len(q) = n /\ \A i \in 1..n : q[i] = b[off + i]
    <3>1. off \in Nat /\ n \in Nat /\ off + n <= Len(b) /\ b \in Seq(Nat)
      BY <1>7, <1>8, <1>9, Zenon
    <3> QED BY <1>q, <3>1, CopiedPart, Zenon
  <2>3. off \in Nat /\ b \in Seq(Nat) /\ Consecutive(b) /\ b[1] + off = Len(got[s]) + 1
    BY <1>7, <1>8, Zenon
  <2>4. Len(got[s] \o q) = Len(got[s]) + n /\ UpTo(got[s] \o q)
    <3>1. ComesNext(got[s], b, off, n, q)
      BY <1>1, <1>9, <2>1, <2>2, <2>3 DEF ComesNext
    <3> QED BY <3>1, GotGrows
  <2> QED BY <1>11, <2>4, Zenon DEF UpTo
<1>13. /\ socks'[s].rx = IF off + n = Len(b) THEN Tail(rx) ELSE rx
       /\ socks'[s].off = IF off + n = Len(b) THEN 0 ELSE off + n
       /\ socks'[s].pcb = socks[s].pcb /\ socks'[s].state = socks[s].state
       /\ \A t \in Slots : t # s => socks'[t] = socks[t]
  BY <1>1, <1>2, <1>3, <1>6, Zenon DEF Socks
<1>14. Follows(socks'[s].rx, socks'[s].off, Len(got[s]) + n, dlv[s])
  <2>1. CASE off + n = Len(b)
    <3>1. Follows(Tail(rx), 0, Len(got[s]) + n, dlv[s])
      BY <1>1, <1>7, <1>8, <1>9, <2>1, FollowsTail, Zenon
    <3> QED BY <1>13, <2>1, <3>1
  <2>2. CASE off + n # Len(b)
    <3>1. Follows(rx, off + n, Len(got[s]) + n, dlv[s])
      BY <1>1, <1>7, <1>8, <1>9, <2>2, FollowsPart, Zenon
    <3> QED BY <1>13, <2>2, <3>1
  <2> QED BY <2>1, <2>2, Zenon
<1> QED BY <1>6, <1>9, <1>10, <1>11, <1>12, <1>13, <1>14, Zenon DEF ReadBytes

\* recv.
LEMMA ReadRecv ==
  ASSUME CallPre, ReadInv, NEW s \in held, NEW len \in Nat, NEW start, RecvHead(s, len, start)
  PROVE  ReadInv'
<1>1. s \in Slots /\ Live(s) /\ dlv' = dlv
  BY Zenon DEF CallPre, TypeOK, RecvHead
<1>2. CASE UNCHANGED <<socks, got>>
  BY <1>1, <1>2, ReadKept DEF SameRead, Live
<1>3. CASE socks[s].rx # <<>> /\ bsock_read(s, len)
  <2>1. PICK n \in Nat : ReadBytes(s, n)
    BY <1>1, <1>3, ReadSome, Zenon
  <2>2. StreamAt(s)'
    BY <1>1, <2>1, Zenon DEF ReadBytes, StreamAt
  <2>3. ASSUME NEW t \in Slots, t # s PROVE Live(t)' => StreamAt(t)'
    <3>1. Live(t)' => SameRead(t)
      BY <1>1, <2>1, <2>3 DEF ReadBytes, SameRead, Live
    <3> QED BY <3>1, ReadOne
  <2> QED BY <2>2, <2>3, Zenon DEF ReadInv
<1> QED BY <1>2, <1>3, Zenon DEF RecvHead

\* What net_poll takes from the ring.
LEMMA ReadFrames ==
  ASSUME CallPre, ReadInv, Frames
  PROVE  ReadInv'
<1>1. CASE UNCHANGED <<socks, dlv, got>>
  BY <1>1, ReadKept DEF SameRead, Live
<1>2. ASSUME NEW p \in Pcbs, RxRefuse(p) \/ RxConnected(p) \/ RxFin(p) \/ RxDrop(p)
      PROVE  ReadInv'
  BY <1>2, ReadDrop, Zenon DEF RxRefuse, RxConnected, RxFin, RxDrop
<1>3. ASSUME NEW p \in Pcbs, NEW l \in Pcbs, RxSyn(l, p) PROVE ReadInv'
  BY <1>1, <1>3, Zenon DEF RxSyn
<1>4. ASSUME NEW p \in Pcbs, NEW n \in 1..SndBuf, RxAck(p, n) PROVE ReadInv'
  BY <1>1, <1>4 DEF RxAck
<1>5. CASE RxDhcp \/ RxOther
  BY <1>1, <1>5, Zenon DEF RxDhcp, RxOther, shimVars
<1> QED BY <1>2, <1>3, <1>4, <1>5, ReadAccept, ReadData DEF Frames

\* The loops of the blocking calls.
LEMMA ReadHeads ==
  ASSUME CallPre, ReadInv, NEW s \in held, NEW len \in Nat, NEW start,
         \/ AcceptHead(s, start)
         \/ ConnectHead(s, start)
         \/ RecvHead(s, len, start)
         \/ SendHead(s, len, start)
  PROVE  ReadInv'
<1>1. CASE UNCHANGED <<socks, dlv, got>>
  BY <1>1, ReadKept DEF SameRead, Live
<1>2. CASE AcceptHead(s, start)
  <2>1. socks \in [Slots -> Socks] /\ s \in Slots /\ UNCHANGED <<dlv, got>>
    BY <1>2, StreamTypes DEF CallPre, TypeOK, AcceptHead
  <2>2. CASE socks' = [socks EXCEPT ![s].head = (@ + 1) % AcceptqMax, ![s].count = @ - 1]
    <3>1. /\ socks'[s].rx = socks[s].rx /\ socks'[s].off = socks[s].off
          /\ \A t \in Slots : t # s => socks'[t] = socks[t]
      BY <2>1, <2>2, ZenonT(30) DEF Socks
    <3> QED BY <2>1, <3>1, ReadCall, Zenon
  <2> QED BY <1>1, <1>2, <2>1, <2>2 DEF AcceptHead
<1>3. CASE ConnectHead(s, start) \/ SendHead(s, len, start)
  BY <1>1, <1>3, Zenon DEF ConnectHead, SendHead
<1> QED BY <1>2, <1>3, ReadRecv, Zenon

\* The other calls.
LEMMA ReadCalls ==
  ASSUME CallPre, ReadInv, NEW s \in Slots,
         \/ net_shim_bind(s)
         \/ net_shim_listen(s)
         \/ net_shim_close(s)
         \/ net_shim_connect(s)
  PROVE  ReadInv'
<1>1. socks \in [Slots -> Socks]
  BY StreamTypes, Zenon DEF CallPre
<1>2. s \in held /\ UNCHANGED <<dlv, got>>
  BY Zenon DEF net_shim_bind, net_shim_listen, net_shim_close, net_shim_connect
<1>3. CASE UNCHANGED socks
  BY <1>2, <1>3, ReadKept, Zenon DEF SameRead, Live
<1>4. CASE net_shim_close(s)
  <2>1. ~Live(s)' /\ \A t \in Slots : t # s => socks'[t] = socks[t]
    BY <1>1, <1>4 DEF net_shim_close, Live, Socks
  <2> QED BY <1>2, <2>1, ReadCall, Zenon
<1>5. ASSUME NEW q \in Pcbs, socks' = [socks EXCEPT ![s].pcb = q, ![s].state = "LISTENING"]
      PROVE  ReadInv'
  <2>1. /\ socks'[s].rx = socks[s].rx /\ socks'[s].off = socks[s].off
        /\ \A t \in Slots : t # s => socks'[t] = socks[t]
    BY <1>1, <1>5, Zenon DEF Socks
  <2> QED BY <1>2, <2>1, ReadCall, Zenon
<1>6. ASSUME NEW st, socks' = [socks EXCEPT ![s].state = st]
      PROVE  ReadInv'
  <2>1. /\ socks'[s].rx = socks[s].rx /\ socks'[s].off = socks[s].off
        /\ \A t \in Slots : t # s => socks'[t] = socks[t]
    BY <1>1, <1>6, Zenon DEF Socks
  <2> QED BY <1>2, <2>1, ReadCall, Zenon
<1>7. CASE net_shim_bind(s)
  BY <1>3, <1>7, Zenon DEF net_shim_bind
<1>8. CASE net_shim_listen(s)
  BY <1>3, <1>5, <1>8, Zenon DEF net_shim_listen
<1>9. CASE net_shim_connect(s)
  BY <1>3, <1>6, <1>9, Zenon DEF net_shim_connect
<1> QED BY <1>4, <1>7, <1>8, <1>9, Zenon

\* The length in a call record.
LEMMA CallTypes ==
  ASSUME TypeOK
  PROVE  call.len \in Nat
<1>1. call \in [op : Ops, fd : Slots \cup {NULL}, len : Lens \cup {0}, start : 0..ClockMod - 1]
  BY Zenon DEF TypeOK
<1>2. call.len \in Lens \cup {0}
  BY <1>1, Zenon
<1>3. Lens \subseteq Nat
  BY ShimAssumption, Zenon
<1>4. \A x \in Lens \cup {0} : x \in Nat
  BY <1>3
<1> QED BY <1>2, <1>4, Zenon

\* Every step keeps the streams in order.
LEMMA ReadStep ==
  ASSUME CallPre, ReadInv, [Next]_vars
  PROVE  ReadInv'
<1>1. CASE UNCHANGED <<socks, dlv, got>>
  BY <1>1, ReadKept, Zenon DEF SameRead, Live
<1>2. CASE net_shim_socket \/ AfterPollReady
  BY <1>1, <1>2, ReadSocket DEF net_shim_socket, AfterPollReady
<1>3. ASSUME NEW s \in Slots, net_shim_accept(s) PROVE ReadInv'
  BY <1>3, ReadHeads, Zenon DEF net_shim_accept
<1>4. ASSUME NEW s \in Slots, NEW len \in Lens, net_shim_recv(s, len) \/ net_shim_send(s, len)
      PROVE  ReadInv'
  <2>1. len \in Nat
    BY ShimAssumption, Zenon
  <2> QED BY <1>1, <1>4, <2>1, ReadHeads DEF net_shim_recv, net_shim_send
<1>5. CASE AfterPoll
  BY <1>1, <1>5, CallTypes, ReadHeads DEF AfterPoll, CallPre, CallInv
<1>6. ASSUME NEW p \in Pcbs, TimerDrop(p) PROVE ReadInv'
  BY <1>6, ReadDrop, Zenon DEF TimerDrop
<1>7. CASE UNCHANGED shimVars
  BY <1>1, <1>7, Zenon DEF shimVars
<1> QED BY <1>2, <1>3, <1>4, <1>5, <1>6, <1>7, ReadFrames, ReadCalls
        DEF Next, Client, Blocked, Network, Clock, vars

-----------------------------------------------------------------------------
\* The receive window.

\* The balance of slot t is what it was.
SameBalance(t) ==
    Counted(t)' => /\ Counted(t) /\ socks'[t].pcb = socks[t].pcb
                   /\ pcbs'[socks[t].pcb].wnd = pcbs[socks[t].pcb].wnd
                   /\ dlv'[t] = dlv[t] /\ got'[t] = got[t]

\* The window of a handshake is what it was, or a new one.
SameHandshake(p) ==
    pcbs'[p].st = "SYN_RCVD" => \/ pcbs'[p].wnd = Wnd
                                \/ pcbs[p].st = "SYN_RCVD" /\ pcbs'[p].wnd = pcbs[p].wnd

\* A step after which every balance is right.
LEMMA WinKept ==
  ASSUME WinInv, \A p \in Pcbs : SameHandshake(p),
         \A t \in Slots : SameBalance(t) \/ Balance(t)' = Wnd
  PROVE  WinInv'
<1>1. ASSUME NEW t \in Slots, Counted(t)' PROVE Balance(t)' = Wnd
  <2>1. CASE SameBalance(t)
    <3>1. /\ Balance(t) = Wnd /\ socks'[t].pcb = socks[t].pcb
          /\ pcbs'[socks[t].pcb].wnd = pcbs[socks[t].pcb].wnd
          /\ dlv'[t] = dlv[t] /\ got'[t] = got[t]
      BY <1>1, <2>1, Zenon DEF SameBalance, WinInv
    <3> QED BY <3>1, Zenon DEF Balance
  <2> QED BY <1>1, <2>1, Zenon
<1>2. ASSUME NEW p \in Pcbs, pcbs'[p].st = "SYN_RCVD" PROVE pcbs'[p].wnd = Wnd
  BY <1>2, Zenon DEF SameHandshake, WinInv
<1> QED BY <1>1, <1>2, Zenon DEF WinInv

\* The types of what a balance is made of.
LEMMA WinTypes ==
  ASSUME TypeOK
  PROVE  /\ pcbs \in [Pcbs -> PcbRecs]
         /\ \A p \in Pcbs : pcbs[p] \in PcbRecs /\ pcbs[p].wnd \in 0..Wnd
         /\ \A s \in Slots : socks[s].pcb # NULL => socks[s].pcb \in Pcbs
<1>1. pcbs \in [Pcbs -> PcbRecs] /\ socks \in [Slots -> Socks]
  BY Zenon DEF TypeOK
<1>2. \A p \in Pcbs : pcbs[p] \in PcbRecs /\ pcbs[p].wnd \in 0..Wnd
  BY <1>1, Zenon DEF PcbRecs
<1>3. \A s \in Slots : socks[s].pcb # NULL => socks[s].pcb \in Pcbs
  <2>1. \A s \in Slots : socks[s].pcb \in Pcbs \cup {NULL}
    BY <1>1, Zenon DEF Socks
  <2> QED BY <2>1, Zenon
<1> QED BY <1>1, <1>2, <1>3, Zenon

\* Slot t has the pcb it had, and no byte moved.
SamePcb(t) ==
    Live(t)' /\ socks'[t].pcb # NULL =>
        /\ Live(t) /\ socks'[t].pcb = socks[t].pcb
        /\ dlv'[t] = dlv[t] /\ got'[t] = got[t]

\* lwIP frees pcb q, starts a handshake in it, or leaves its window as it is.
QuietPcb(q) ==
    \/ pcbs'[q].st \in {"NONE", "CLOSING"}
    \/ pcbs'[q].st = "SYN_RCVD" /\ pcbs'[q].wnd = Wnd
    \/ /\ pcbs'[q].wnd = pcbs[q].wnd
       /\ pcbs[q].st = "LISTEN" => pcbs'[q].st = "LISTEN"
       /\ pcbs'[q].st = "SYN_RCVD" => pcbs[q].st = "SYN_RCVD"

\* A step that opens or closes the window of no socket.
LEMMA WinQuiet ==
  ASSUME CallPre, WinInv, Ownership',
         \A t \in Slots : SamePcb(t), \A q \in Pcbs : QuietPcb(q)
  PROVE  WinInv'
<1>1. ASSUME NEW t \in Slots PROVE SameBalance(t)
  <2> SUFFICES ASSUME Counted(t)' PROVE SameBalance(t)
    BY Zenon DEF SameBalance
  <2>1. /\ Live(t) /\ socks'[t].pcb = socks[t].pcb /\ socks[t].pcb # NULL
        /\ dlv'[t] = dlv[t] /\ got'[t] = got[t]
    BY Zenon DEF Counted, SamePcb
  <2>2. PICK q \in Pcbs : q = socks[t].pcb
    BY <2>1, WinTypes, Zenon DEF CallPre
  <2>3. pcbs'[q].st \notin {"NONE", "CLOSING", "SYN_RCVD", "LISTEN"}
    BY <2>1, <2>2 DEF Counted, Ownership, PcbLives
  <2>4. pcbs'[q].wnd = pcbs[q].wnd /\ pcbs[q].st # "LISTEN"
    BY <2>3, Zenon DEF QuietPcb
  <2> QED BY <2>1, <2>2, <2>4, SMTT(30) DEF SameBalance, Counted
<1>2. ASSUME NEW q \in Pcbs PROVE SameHandshake(q)
  BY Zenon DEF SameHandshake, QuietPcb
<1> QED BY <1>1, <1>2, WinKept, SMTT(30)

\* A step that moves bytes of slot s, gives it the pcb p, or both.
LEMMA WinOneSlot ==
  ASSUME CallPre, WinInv, Ownership', NEW s \in Slots, NEW p \in Pcbs,
         \A t \in Slots : t # s => SamePcb(t),
         \A q \in Pcbs : q # p => pcbs'[q] = pcbs[q] \/ pcbs'[q].st = "NONE",
         pcbs'[p].arg = s, pcbs'[p].st # "SYN_RCVD",
         Counted(s)' => Balance(s)' = Wnd
  PROVE  WinInv'
<1>1. ASSUME NEW t \in Slots PROVE SameBalance(t) \/ Balance(t)' = Wnd
  <2> SUFFICES ASSUME Counted(t)', t # s PROVE SameBalance(t)
    BY Zenon DEF SameBalance
  <2>1. /\ Live(t) /\ socks'[t].pcb = socks[t].pcb /\ socks[t].pcb # NULL
        /\ dlv'[t] = dlv[t] /\ got'[t] = got[t]
    BY Zenon DEF Counted, SamePcb
  <2>2. PICK q \in Pcbs : q = socks[t].pcb
    BY <2>1, WinTypes, Zenon DEF CallPre
  <2>3. pcbs'[q].st \notin {"NONE", "LISTEN"} /\ pcbs'[q].arg = t
    BY <2>1, <2>2 DEF Counted, Ownership, PcbLives
  <2>4. pcbs'[q] = pcbs[q]
    BY <2>3, Zenon
  <2> QED BY <2>1, <2>2, <2>3, <2>4, Zenon DEF SameBalance, Counted
<1>2. ASSUME NEW q \in Pcbs PROVE SameHandshake(q)
  BY Zenon DEF SameHandshake
<1> QED BY <1>1, <1>2, WinKept

\* The callbacks that move no byte.
LEMMA WinDrop ==
  ASSUME CallPre, WinInv, Ownership', UNCHANGED <<dlv, got>>, NEW p \in Pcbs,
         \/ Drop(p)
         \/ RxConnected(p)
         \/ RxFin(p)
  PROVE  WinInv'
<1>1. socks \in [Slots -> Socks] /\ pcbs \in [Pcbs -> PcbRecs]
  BY StreamTypes, WinTypes, Zenon DEF CallPre
<1>2. pcbs[p].cb \/ pcbs[p].st = "SYN_SENT" => pcbs[p].arg \in Slots /\ Live(pcbs[p].arg)
  BY Zenon DEF CallPre, Ownership, CallbackLands
<1>3. \A q \in Pcbs : QuietPcb(q)
  <2>1. CASE Drop(p)
    BY <1>1, <2>1, Zenon DEF Drop, NoPcb, QuietPcb
  <2>2. CASE RxConnected(p) \/ RxFin(p)
    <3>1. PICK st \in {"ESTABLISHED", "CLOSE_WAIT"} : pcbs' = [pcbs EXCEPT ![p].st = st]
      BY <2>2, Zenon DEF RxConnected, RxFin
    <3>2. /\ pcbs'[p].st = st /\ pcbs'[p].wnd = pcbs[p].wnd
          /\ \A q \in Pcbs : q # p => pcbs'[q] = pcbs[q]
      BY <1>1, <3>1, Zenon DEF PcbRecs
    <3>3. pcbs[p].st \in {"SYN_SENT", "ESTABLISHED"}
      BY <2>2, Zenon DEF RxConnected, RxFin
    <3> QED BY <3>2, <3>3, Zenon DEF QuietPcb
  <2> QED BY <2>1, <2>2, Zenon
<1>4. \A t \in Slots : SamePcb(t)
  <2>1. CASE UNCHANGED socks
    BY <2>1, Zenon DEF SamePcb, Live
  <2>2. ASSUME NEW s \in Slots, Live(s),
               socks' = on_err(s) \/ socks' = on_connected(s) \/ socks' = on_recv_eof(s)
        PROVE  \A t \in Slots : SamePcb(t)
    <3>1. /\ socks'[s].pcb = NULL \/ socks'[s].pcb = socks[s].pcb
          /\ \A t \in Slots : t # s => socks'[t] = socks[t]
      <4>1. CASE socks' = on_err(s)
        BY <1>1, <4>1, Zenon DEF on_err, Socks
      <4>2. CASE socks' = on_connected(s)
        BY <1>1, <4>2, Zenon DEF on_connected, Socks
      <4>3. CASE socks' = on_recv_eof(s)
        BY <1>1, <4>3, Zenon DEF on_recv_eof, Socks
      <4> QED BY <2>2, <4>1, <4>2, <4>3
    <3> QED BY <2>2, <3>1 DEF SamePcb, Live
  <2>3. UNCHANGED socks \/ \E s \in Slots : /\ Live(s)
                                            /\ \/ socks' = on_err(s)
                                               \/ socks' = on_connected(s)
                                               \/ socks' = on_recv_eof(s)
    BY <1>2, Zenon DEF Drop, RxConnected, RxFin
  <2> QED BY <2>1, <2>2, <2>3, Zenon
<1> QED BY <1>3, <1>4, WinQuiet, Zenon

\* on_recv with data closes the window by what it puts into the chain.
LEMMA WinData ==
  ASSUME CallPre, WinInv, Ownership', NEW p \in Pcbs, NEW n \in 1..Wnd, RxData(p, n)
  PROVE  WinInv'
<1>1. PICK s \in Slots : s = pcbs[p].arg /\ Live(s) /\ socks[s].pcb = p
  BY DEF RxData, CallPre, Ownership, CallbackLands
<1>2. PICK b : socks' = on_recv(s, b)
  BY <1>1, Zenon DEF RxData
<1>3. /\ socks \in [Slots -> Socks] /\ pcbs \in [Pcbs -> PcbRecs]
      /\ dlv \in [Slots -> Nat] /\ pcbs[p].wnd \in 0..Wnd /\ Len(got[s]) \in Nat
  BY StreamTypes, WinTypes, Zenon DEF CallPre
<1>4. /\ pcbs[p].st = "ESTABLISHED" /\ n <= pcbs[p].wnd
      /\ dlv' = [dlv EXCEPT ![s] = @ + n] /\ got' = got
      /\ pcbs' = [pcbs EXCEPT ![p].wnd = @ - n]
  BY <1>1, Zenon DEF RxData
<1>5. /\ socks'[s].pcb = p
      /\ \A t \in Slots : t # s => socks'[t] = socks[t]
  BY <1>1, <1>2, <1>3, ZenonT(30) DEF on_recv, Socks
<1>6. /\ pcbs'[p].arg = s /\ pcbs'[p].st = "ESTABLISHED" /\ pcbs'[p].wnd = pcbs[p].wnd - n
      /\ \A q \in Pcbs : q # p => pcbs'[q] = pcbs[q]
  BY <1>1, <1>3, <1>4, Zenon DEF PcbRecs
<1>7. dlv'[s] = dlv[s] + n /\ \A t \in Slots : t # s => dlv'[t] = dlv[t]
  BY <1>3, <1>4, Zenon
<1>8. Balance(s)' = Wnd
  <2>1. Balance(s) = Wnd
    BY <1>1, <1>4, ShimAssumption DEF WinInv, Counted
  <2>2. ASSUME NEW w \in Nat, NEW d \in Nat, NEW g \in Nat, w + (d - g) = Wnd, n <= w
        PROVE  (w - n) + ((d + n) - g) = Wnd
    BY <2>2, ShimAssumption
  <2>3. pcbs[p].wnd \in Nat /\ dlv[s] \in Nat
    BY <1>3, ShimAssumption
  <2>4. (pcbs[p].wnd - n) + ((dlv[s] + n) - Len(got[s])) = Wnd
    BY <1>1, <1>3, <1>4, <2>1, <2>2, <2>3 DEF Balance
  <2> QED BY <1>4, <1>5, <1>6, <1>7, <2>4, Zenon DEF Balance
<1>9. \A t \in Slots : t # s => SamePcb(t)
  BY <1>4, <1>5, <1>7 DEF SamePcb, Live
<1> QED BY <1>6, <1>8, <1>9, WinOneSlot, SMTT(30)

\* A new slot with a new window.
LEMMA FreshBalance ==
  ASSUME NEW s \in Slots, NEW p \in Pcbs, socks'[s].pcb = p, pcbs'[p].wnd = Wnd,
         dlv'[s] = 0, got'[s] = <<>>
  PROVE  Balance(s)' = Wnd
<1>1. Len(<<>>) = 0 /\ Wnd + (0 - 0) = Wnd
  BY ShimAssumption
<1> QED BY <1>1, Zenon DEF Balance

\* on_accept.
LEMMA WinAccept ==
  ASSUME CallPre, WinInv, Ownership', NEW p \in Pcbs, NEW s \in Slots, RxAccept(p, s)
  PROVE  WinInv'
<1>1. PICK l \in Slots : l = pcbs[p].arg /\ Live(l)
  <2>1. pcbs[p].listener \in Pcbs
    <3>1. pcbs[p] \in PcbRecs
      BY Zenon DEF CallPre, TypeOK
    <3> QED BY <3>1, Zenon DEF RxAccept, PcbRecs
  <2> QED BY <2>1 DEF RxAccept, CallPre, Ownership, ListenerLives, CallbackLands
<1>2. /\ socks \in [Slots -> Socks] /\ pcbs \in [Pcbs -> PcbRecs]
      /\ dlv \in [Slots -> Nat] /\ got \in [Slots -> Seq(Nat)]
  BY StreamTypes, WinTypes DEF CallPre
<1>3. /\ socks' = on_accept(l, s, p) /\ ~Live(s) /\ l # s
      /\ dlv' = [dlv EXCEPT ![s] = 0] /\ got' = [got EXCEPT ![s] = <<>>]
      /\ pcbs' = [pcbs EXCEPT ![p].st = "ESTABLISHED", ![p].arg = s, ![p].cb = TRUE]
      /\ pcbs[p].st = "SYN_RCVD"
  BY <1>1, Zenon DEF RxAccept, alloc_slot, Live
<1>a. socks \in [Slots -> Socks] /\ socks' = on_accept(l, s, p) /\ l # s
  BY <1>2, <1>3, Zenon
<1>b. /\ pcbs \in [Pcbs -> PcbRecs]
      /\ pcbs' = [pcbs EXCEPT ![p].st = "ESTABLISHED", ![p].arg = s, ![p].cb = TRUE]
  BY <1>2, <1>3, Zenon
<1>4. socks'[s].pcb = p
  BY <1>a, Zenon DEF on_accept, reset_sock
<1>5. socks'[l].pcb = socks[l].pcb
  BY <1>a, Zenon DEF on_accept, Socks
<1>6. \A t \in Slots : t # s /\ t # l => socks'[t] = socks[t]
  BY <1>a, Zenon DEF on_accept
<1>7. /\ dlv'[s] = 0 /\ got'[s] = <<>>
      /\ \A t \in Slots : t # s => dlv'[t] = dlv[t] /\ got'[t] = got[t]
  BY <1>2, <1>3, Zenon
<1>8. /\ pcbs'[p].arg = s /\ pcbs'[p].st = "ESTABLISHED" /\ pcbs'[p].wnd = pcbs[p].wnd
      /\ \A q \in Pcbs : q # p => pcbs'[q] = pcbs[q]
  BY <1>b, Zenon DEF PcbRecs
<1>9. Balance(s)' = Wnd
  <2>1. pcbs'[p].wnd = Wnd
    BY <1>3, <1>8, Zenon DEF WinInv
  <2> QED BY <1>4, <1>7, <2>1, FreshBalance, Zenon
<1>10. \A t \in Slots : t # s => SamePcb(t)
  BY <1>1, <1>5, <1>6, <1>7 DEF SamePcb, Live
<1> QED BY <1>8, <1>9, <1>10, WinOneSlot, SMTT(30)

\* socket().
LEMMA WinSocket ==
  ASSUME CallPre, WinInv, Ownership', SocketMade
  PROVE  WinInv'
<1>1. /\ socks \in [Slots -> Socks] /\ pcbs \in [Pcbs -> PcbRecs]
      /\ dlv \in [Slots -> Nat] /\ got \in [Slots -> Seq(Nat)]
  BY StreamTypes, WinTypes, Zenon DEF CallPre
<1>2. CASE UNCHANGED <<socks, pcbs, dlv, got>>
  BY <1>2, WinQuiet, Zenon DEF SamePcb, Live, QuietPcb
<1>3. ASSUME NEW s \in Slots, socks' = [socks EXCEPT ![s] = reset_sock], UNCHANGED <<pcbs, dlv, got>>
      PROVE  WinInv'
  BY <1>1, <1>3, WinQuiet, Zenon DEF SamePcb, Live, reset_sock, QuietPcb
<1>4. ASSUME NEW s \in Slots, NEW p \in Pcbs,
             socks' = [socks EXCEPT ![s] = [reset_sock EXCEPT !.state = "CLOSED", !.pcb = p]],
             pcbs' = [pcbs EXCEPT ![p] = NewPcb("CLOSED", s, NULL)],
             dlv' = [dlv EXCEPT ![s] = 0], got' = [got EXCEPT ![s] = <<>>]
      PROVE  WinInv'
  <2>1. socks'[s].pcb = p /\ \A t \in Slots : t # s => socks'[t] = socks[t]
    BY <1>1, <1>4, Zenon DEF reset_sock
  <2>2. /\ pcbs'[p].wnd = Wnd /\ pcbs'[p].arg = s /\ pcbs'[p].st = "CLOSED"
        /\ \A q \in Pcbs : q # p => pcbs'[q] = pcbs[q]
    BY <1>1, <1>4, Zenon DEF NewPcb
  <2>3. /\ dlv'[s] = 0 /\ got'[s] = <<>>
        /\ \A t \in Slots : t # s => dlv'[t] = dlv[t] /\ got'[t] = got[t]
    BY <1>1, <1>4, Zenon
  <2>4. Balance(s)' = Wnd
    BY <2>1, <2>2, <2>3, FreshBalance, SMTT(30)
  <2>5. \A t \in Slots : t # s => SamePcb(t)
    BY <2>1, <2>3, Zenon DEF SamePcb, Live
  <2> QED BY <2>2, <2>4, <2>5, WinOneSlot
<1> QED BY <1>2, <1>3, <1>4, Zenon DEF SocketMade

\* bsock_read opens the window by what it hands out; tcp_recved never has to
\* clamp it.
LEMMA WinRead ==
  ASSUME CallPre, WinInv, Ownership', NEW s \in Slots, Live(s), NEW n \in Nat,
         ReadBytes(s, n), UNCHANGED dlv
  PROVE  WinInv'
<1>1. /\ pcbs \in [Pcbs -> PcbRecs] /\ dlv[s] \in Nat /\ Len(got[s]) \in Nat
      /\ socks[s].pcb # NULL => socks[s].pcb \in Pcbs
  BY StreamTypes, WinTypes, Zenon DEF CallPre
<1>2. \A t \in Slots : t # s => SamePcb(t)
  BY Zenon DEF ReadBytes, SamePcb, Live
<1>3. CASE socks[s].pcb = NULL
  <2>1. SamePcb(s) /\ UNCHANGED pcbs
    BY <1>3, Zenon DEF ReadBytes, SamePcb
  <2> QED BY <1>2, <2>1, WinQuiet, Zenon DEF QuietPcb
<1>4. CASE socks[s].pcb # NULL
  <2>1. PICK p \in Pcbs : p = socks[s].pcb
    BY <1>1, <1>4, ZenonT(30)
  <2>2. PICK w : w = IF pcbs[p].wnd + n > Wnd THEN Wnd ELSE pcbs[p].wnd + n
    BY Zenon
  <2>3. pcbs' = [pcbs EXCEPT ![p].wnd = w] /\ socks'[s].pcb = p
    BY <1>1, <1>4, <2>1, <2>2, Zenon DEF ReadBytes
  <2>4. /\ pcbs'[p].arg = pcbs[p].arg /\ pcbs'[p].st = pcbs[p].st /\ pcbs'[p].wnd = w
        /\ \A q \in Pcbs : q # p => pcbs'[q] = pcbs[q]
    BY <1>1, <2>3, ZenonT(30) DEF PcbRecs
  <2>5. pcbs[p].arg = s /\ pcbs[p].st # "SYN_RCVD"
    BY <1>4, <2>1, Zenon DEF CallPre, Ownership, PcbLives
  <2>6. ASSUME Counted(s)' PROVE Balance(s)' = Wnd
    <3>1. Balance(s) = Wnd
      BY <1>4, <2>1, <2>3, <2>4, <2>6, Zenon DEF WinInv, Counted
    <3>2. ASSUME NEW v \in Nat, NEW d \in Nat, NEW g \in Nat, v + (d - g) = Wnd, g + n <= d
          PROVE  v + n <= Wnd /\ (v + n) + (d - (g + n)) = Wnd
      BY <3>2, ShimAssumption
    <3>3. pcbs[p].wnd \in Nat
      BY WinTypes, ShimAssumption DEF CallPre
    <3>4. /\ pcbs[p].wnd + n <= Wnd
          /\ (pcbs[p].wnd + n) + (dlv[s] - (Len(got[s]) + n)) = Wnd
      BY <1>1, <2>1, <3>1, <3>2, <3>3, Zenon DEF Balance, ReadBytes
    <3>5. w = pcbs[p].wnd + n
      BY <2>2, <3>3, <3>4, ShimAssumption
    <3>6. dlv'[s] = dlv[s] /\ Len(got'[s]) = Len(got[s]) + n
      BY Zenon DEF ReadBytes
    <3>7. Balance(s)' = pcbs'[p].wnd + (dlv'[s] - Len(got'[s]))
      BY <2>3, Zenon DEF Balance
    <3> QED BY <2>4, <3>4, <3>5, <3>6, <3>7, Zenon
  <2> QED BY <1>2, <2>4, <2>5, <2>6, WinOneSlot, SMTT(30)
<1> QED BY <1>3, <1>4, Zenon

\* The loops of the blocking calls.
LEMMA WinHeads ==
  ASSUME CallPre, ReadInv, WinInv, Ownership', NEW s \in held, NEW len \in Nat, NEW start,
         \/ AcceptHead(s, start)
         \/ ConnectHead(s, start)
         \/ RecvHead(s, len, start)
         \/ SendHead(s, len, start)
  PROVE  WinInv'
<1>1. /\ s \in Slots /\ Live(s) /\ socks \in [Slots -> Socks] /\ pcbs \in [Pcbs -> PcbRecs]
      /\ socks[s].pcb # NULL => socks[s].pcb \in Pcbs
  BY StreamTypes, WinTypes, Zenon DEF CallPre, TypeOK
<1>2. CASE UNCHANGED <<socks, pcbs, dlv, got>>
  BY <1>2, WinQuiet, Zenon DEF SamePcb, Live, QuietPcb
<1>3. CASE AcceptHead(s, start)
  <2>1. UNCHANGED <<pcbs, dlv, got>>
    BY <1>3, Zenon DEF AcceptHead
  <2>2. CASE socks' = [socks EXCEPT ![s].head = (@ + 1) % AcceptqMax, ![s].count = @ - 1]
    <3>1. /\ socks'[s].pcb = socks[s].pcb
          /\ \A t \in Slots : t # s => socks'[t] = socks[t]
      BY <1>1, <2>2, ZenonT(30) DEF Socks
    <3>2. \A t \in Slots : SamePcb(t)
      BY <1>1, <2>1, <3>1, Zenon DEF SamePcb, Live
    <3> QED BY <2>1, <3>2, WinQuiet, Zenon DEF QuietPcb
  <2> QED BY <1>2, <1>3, <2>1, <2>2, Zenon DEF AcceptHead
<1>4. CASE ConnectHead(s, start)
  BY <1>2, <1>4, Zenon DEF ConnectHead
<1>5. CASE RecvHead(s, len, start)
  <2>1. CASE socks[s].rx # <<>> /\ bsock_read(s, len) /\ dlv' = dlv
    BY <1>1, <2>1, ReadSome, WinRead, Zenon
  <2> QED BY <1>2, <1>5, <2>1, Zenon DEF RecvHead
<1>6. CASE SendHead(s, len, start)
  <2>1. UNCHANGED <<socks, dlv, got>>
    BY <1>6, Zenon DEF SendHead
  <2>2. ASSUME NEW p \in Pcbs, NEW n, pcbs' = [pcbs EXCEPT ![p].snd = n] PROVE WinInv'
    <3>1. /\ pcbs'[p].wnd = pcbs[p].wnd /\ pcbs'[p].st = pcbs[p].st
          /\ \A q \in Pcbs : q # p => pcbs'[q] = pcbs[q]
      BY <1>1, <2>2, Zenon DEF PcbRecs
    <3> QED BY <2>1, <3>1, WinQuiet, Zenon DEF SamePcb, Live, QuietPcb
  <2>3. CASE pcbs' # pcbs
    <3>1. PICK p \in Pcbs : p = socks[s].pcb
      BY <1>1, <1>6, <2>3, Zenon DEF SendHead
    <3>2. PICK n : pcbs' = [pcbs EXCEPT ![p].snd = n]
      BY <1>6, <2>3, <3>1, Zenon DEF SendHead
    <3> QED BY <2>2, <3>2, Zenon
  <2> QED BY <1>2, <2>1, <2>3, Zenon
<1> QED BY <1>3, <1>4, <1>5, <1>6, SMTT(30)

\* The other calls.
LEMMA WinCalls ==
  ASSUME CallPre, WinInv, Ownership', NEW s \in Slots,
         \/ net_shim_bind(s)
         \/ net_shim_listen(s)
         \/ net_shim_close(s)
         \/ net_shim_connect(s)
  PROVE  WinInv'
<1>1. /\ socks \in [Slots -> Socks] /\ pcbs \in [Pcbs -> PcbRecs]
      /\ socks[s].pcb # NULL => socks[s].pcb \in Pcbs
  BY StreamTypes, WinTypes, Zenon DEF CallPre
<1>2. s \in held /\ Live(s) /\ UNCHANGED <<dlv, got>>
  BY Zenon DEF net_shim_bind, net_shim_listen, net_shim_close, net_shim_connect, CallPre
<1>3. CASE UNCHANGED <<socks, pcbs>>
  BY <1>2, <1>3, WinQuiet, Zenon DEF SamePcb, Live, QuietPcb
<1>4. CASE net_shim_bind(s)
  BY <1>3, <1>4, Zenon DEF net_shim_bind
<1>5. CASE net_shim_listen(s)
  <2>1. ASSUME NEW p \in Pcbs, NEW q \in Pcbs, p # q,
               pcbs' = [pcbs EXCEPT ![p] = NoPcb, ![q] = [NoPcb EXCEPT !.st = "LISTEN", !.arg = s]],
               socks' = [socks EXCEPT ![s].pcb = q, ![s].state = "LISTENING"]
        PROVE  WinInv'
    <3>1. /\ socks'[s].pcb = q
          /\ \A t \in Slots : t # s => socks'[t] = socks[t]
      BY <1>1, <2>1, Zenon DEF Socks
    <3>2. /\ pcbs'[q].st = "LISTEN" /\ pcbs'[q].arg = s /\ pcbs'[p].st = "NONE"
          /\ \A r \in Pcbs : r # p /\ r # q => pcbs'[r] = pcbs[r]
      BY <1>1, <2>1, Zenon DEF NoPcb
    <3>3. ~Counted(s)'
      BY <3>1, <3>2, Zenon DEF Counted
    <3>4. \A t \in Slots : t # s => SamePcb(t)
      BY <1>2, <3>1, Zenon DEF SamePcb, Live
    <3> QED BY <3>2, <3>3, <3>4, WinOneSlot, Zenon
  <2> QED BY <1>1, <1>3, <1>5, <2>1, Zenon DEF net_shim_listen
<1>6. CASE net_shim_close(s)
  <2>1. \A t \in Slots : SamePcb(t)
    <3>1. ~Live(s)' /\ \A t \in Slots : t # s => socks'[t] = socks[t]
      BY <1>1, <1>6, Zenon DEF net_shim_close, Live, Socks
    <3> QED BY <1>2, <3>1, Zenon DEF SamePcb, Live
  <2>2. CASE pcbs' = pcbs
    BY <2>1, <2>2, WinQuiet, Zenon DEF QuietPcb
  <2>3. CASE socks[s].pcb # NULL /\ pcbs' = tcp_close(socks[s].pcb)
    <3>1. PICK p \in Pcbs : pcbs' = tcp_close(p)
      BY <1>1, <2>3, Zenon
    <3>2. ASSUME NEW q \in Pcbs PROVE QuietPcb(q)
      <4>1. CASE pcbs[p].st = "LISTEN"
        <5>1. pcbs'[q] = IF q = p THEN NoPcb
                         ELSE IF pcbs[q].listener = p THEN [pcbs[q] EXCEPT !.listener = NULL]
                         ELSE pcbs[q]
          BY <3>1, <4>1, Zenon DEF tcp_close
        <5>2. CASE q = p
          BY <5>1, <5>2 DEF NoPcb, QuietPcb
        <5>3. CASE q # p
          <6>1. pcbs'[q].wnd = pcbs[q].wnd /\ pcbs'[q].st = pcbs[q].st
            <7>1. pcbs[q] \in PcbRecs
              BY <1>1, Zenon
            <7> QED BY <5>1, <5>3, <7>1, Zenon DEF PcbRecs
          <6> QED BY <6>1, Zenon DEF QuietPcb
        <5> QED BY <5>2, <5>3, Zenon
      <4>2. CASE pcbs[p].st # "LISTEN"
        <5>1. \/ pcbs' = [pcbs EXCEPT ![p] = [NoPcb EXCEPT !.st = "CLOSING"]]
              \/ pcbs' = [pcbs EXCEPT ![p] = NoPcb]
          BY <3>1, <4>2, Zenon DEF tcp_close
        <5> QED BY <1>1, <5>1 DEF NoPcb, QuietPcb
      <4> QED BY <4>1, <4>2, Zenon
    <3> QED BY <2>1, <3>2, WinQuiet, Zenon
  <2> QED BY <1>6, <2>2, <2>3, Zenon DEF net_shim_close
<1>7. CASE net_shim_connect(s)
  <2>1. ASSUME NEW st, socks' = [socks EXCEPT ![s].state = st] PROVE \A t \in Slots : SamePcb(t)
    <3>1. /\ socks'[s].pcb = socks[s].pcb
          /\ \A t \in Slots : t # s => socks'[t] = socks[t]
      BY <1>1, <2>1, Zenon DEF Socks
    <3> QED BY <1>2, <3>1, Zenon DEF SamePcb, Live
  <2>2. \A t \in Slots : SamePcb(t)
    <3>1. CASE UNCHANGED socks
      BY <1>2, <3>1, Zenon DEF SamePcb, Live
    <3> QED BY <1>7, <2>1, <3>1, Zenon DEF net_shim_connect
  <2>3. ASSUME NEW p \in Pcbs, pcbs[p].st = "CLOSED",
               pcbs' = [pcbs EXCEPT ![p].st = "SYN_SENT", ![p].cb = TRUE, ![p].arg = s]
        PROVE  \A q \in Pcbs : QuietPcb(q)
    <3>1. /\ pcbs'[p].wnd = pcbs[p].wnd /\ pcbs'[p].st = "SYN_SENT"
          /\ \A q \in Pcbs : q # p => pcbs'[q] = pcbs[q]
      BY <1>1, <2>3, Zenon DEF PcbRecs
    <3> QED BY <2>3, <3>1, Zenon DEF QuietPcb
  <2>4. ASSUME NEW p \in Pcbs, pcbs' = [pcbs EXCEPT ![p].cb = TRUE, ![p].arg = s]
        PROVE  \A q \in Pcbs : QuietPcb(q)
    <3>1. /\ pcbs'[p].wnd = pcbs[p].wnd /\ pcbs'[p].st = pcbs[p].st
          /\ \A q \in Pcbs : q # p => pcbs'[q] = pcbs[q]
      BY <1>1, <2>4, Zenon DEF PcbRecs
    <3> QED BY <3>1, Zenon DEF QuietPcb
  <2>5. \A q \in Pcbs : QuietPcb(q)
    <3>1. CASE UNCHANGED pcbs
      BY <3>1, Zenon DEF QuietPcb
    <3> QED BY <1>1, <1>7, <2>3, <2>4, <3>1, Zenon DEF net_shim_connect
  <2> QED BY <2>2, <2>5, WinQuiet, Zenon
<1> QED BY <1>4, <1>5, <1>6, <1>7, Zenon

\* What net_poll takes from the ring.
LEMMA WinFrames ==
  ASSUME CallPre, WinInv, Ownership', Frames
  PROVE  WinInv'
<1>1. pcbs \in [Pcbs -> PcbRecs]
  BY WinTypes, Zenon DEF CallPre
<1>2. ASSUME NEW p \in Pcbs, RxRefuse(p) \/ RxConnected(p) \/ RxFin(p) \/ RxDrop(p)
      PROVE  WinInv'
  BY <1>2, WinDrop, Zenon DEF RxRefuse, RxConnected, RxFin, RxDrop
<1>3. ASSUME NEW p \in Pcbs, NEW l \in Pcbs, RxSyn(l, p) PROVE WinInv'
  <2>1. /\ UNCHANGED <<socks, dlv, got>>
        /\ pcbs'[p].st = "SYN_RCVD" /\ pcbs'[p].wnd = Wnd
        /\ \A q \in Pcbs : q # p => pcbs'[q] = pcbs[q]
    BY <1>1, <1>3, Zenon DEF RxSyn, NewPcb
  <2> QED BY <2>1, WinQuiet, Zenon DEF SamePcb, Live, QuietPcb
<1>4. ASSUME NEW p \in Pcbs, NEW n \in 1..SndBuf, RxAck(p, n) PROVE WinInv'
  <2>1. /\ pcbs'[p].wnd = pcbs[p].wnd /\ pcbs'[p].st = pcbs[p].st
        /\ \A q \in Pcbs : q # p => pcbs'[q] = pcbs[q]
    BY <1>1, <1>4, Zenon DEF RxAck, PcbRecs
  <2>2. UNCHANGED <<socks, dlv, got>>
    BY <1>4, Zenon DEF RxAck
  <2> QED BY <2>1, <2>2, WinQuiet, Zenon DEF SamePcb, Live, QuietPcb
<1>5. CASE RxDhcp \/ RxOther
  <2>1. UNCHANGED <<socks, pcbs, dlv, got>>
    BY <1>5, Zenon DEF RxDhcp, RxOther, shimVars
  <2> QED BY <2>1, WinQuiet, Zenon DEF SamePcb, Live, QuietPcb
<1> QED BY <1>2, <1>3, <1>4, <1>5, WinAccept, WinData, Zenon DEF Frames

\* Every step keeps the windows right.
LEMMA WinStep ==
  ASSUME CallPre, ReadInv, WinInv, Ownership', [Next]_vars
  PROVE  WinInv'
<1>1. CASE UNCHANGED <<socks, pcbs, dlv, got>>
  BY <1>1, WinQuiet, Zenon DEF SamePcb, Live, QuietPcb
<1>2. CASE net_shim_socket \/ AfterPollReady
  BY <1>1, <1>2, WinSocket, Zenon DEF net_shim_socket, AfterPollReady
<1>3. ASSUME NEW s \in Slots, net_shim_accept(s) PROVE WinInv'
  BY <1>3, WinHeads, Zenon DEF net_shim_accept
<1>4. ASSUME NEW s \in Slots, NEW len \in Lens, net_shim_recv(s, len) \/ net_shim_send(s, len)
      PROVE  WinInv'
  <2>1. len \in Nat
    BY ShimAssumption, Zenon
  <2> QED BY <1>1, <1>4, <2>1, WinHeads, Zenon DEF net_shim_recv, net_shim_send
<1>5. CASE AfterPoll
  BY <1>1, <1>5, CallTypes, WinHeads, Zenon DEF AfterPoll, CallPre, CallInv
<1>6. ASSUME NEW p \in Pcbs, TimerDrop(p) PROVE WinInv'
  BY <1>6, WinDrop, Zenon DEF TimerDrop
<1>7. CASE UNCHANGED shimVars
  BY <1>1, <1>7, Zenon DEF shimVars
<1> QED BY <1>2, <1>3, <1>4, <1>5, <1>6, <1>7, WinFrames, WinCalls, SMTT(30)
        DEF Next, Client, Blocked, Network, Clock, vars

-----------------------------------------------------------------------------
\* What the invariants say of the properties.

\* The streams.
LEMMA ReadGivesStream ==
  ASSUME TypeOK, ReadInv
  PROVE  StreamInOrder
<1> SUFFICES ASSUME NEW s \in Slots, Live(s)
             PROVE  got[s] = [i \in 1..Len(got[s]) |-> i] /\ ChainFollows(s)
  BY Zenon DEF StreamInOrder
<1>1. /\ got[s] = [i \in 1..Len(got[s]) |-> i]
      /\ Follows(socks[s].rx, socks[s].off, Len(got[s]), dlv[s])
  BY Zenon DEF ReadInv, StreamAt
<1>2. DOMAIN socks[s].rx = 1..Len(socks[s].rx)
  BY StreamTypes, SMTT(30)
<1> QED BY <1>1, <1>2, Zenon DEF Follows, ChainFollows

\* The windows.
LEMMA WinGivesWindow ==
  ASSUME WinInv
  PROVE  WindowFollowsReader
  BY Zenon DEF WinInv, WindowFollowsReader, Counted, Balance

\* The end of a stream.  A recv that returns at once has only been at the head
\* of its loop; one that waited comes back to it in AfterPoll.
LEMMA EndOfStream ==
  ASSUME CallPre, ReadInv, [Next]_vars
  PROVE  EndStep
<1> SUFFICES ASSUME NEW s \in Slots, RecvSteps(s), ret' \in {"EOF", "ECONNRESET"}
             PROVE  got[s] = [i \in 1..dlv[s] |-> i]
  BY Zenon DEF EndStep
<1>1. ASSUME s \in held, socks[s].rx = <<>>
      PROVE  got[s] = [i \in 1..dlv[s] |-> i]
  <2>1. Live(s)
    BY <1>1, Zenon DEF CallPre
  <2> QED BY <1>1, <2>1, Zenon DEF ReadInv, StreamAt, Follows
<1>2. ASSUME NEW len \in Lens, net_shim_recv(s, len)
      PROVE  got[s] = [i \in 1..dlv[s] |-> i]
  <2>1. s \in held /\ RecvHead(s, len, now)
    BY <1>2, Zenon DEF net_shim_recv, Return
  <2>2. socks[s].rx = <<>>
    BY <2>1, Zenon DEF RecvHead, Return
  <2> QED BY <1>1, <2>1, <2>2, Zenon
<1>3. CASE call.op = "recv" /\ call.fd = s
  <2>1. s \in held /\ poll # "out" /\ ret = "none"
    BY <1>3, Zenon DEF CallPre, CallInv
  <2>2. ret' # ret /\ ~Idle
    BY <2>1, Zenon DEF Idle
  <2>3. ~Client
    BY <2>2, Zenon DEF Client, net_shim_socket, net_shim_bind, net_shim_listen, net_shim_close,
                net_shim_accept, net_shim_connect, net_shim_recv, net_shim_send
  <2>4. ~Frames
    BY <2>2, ZenonT(30) DEF Frames, RxSyn, RxAccept, RxData, RxAck, RxRefuse, RxConnected, RxFin,
                RxDrop, RxDhcp, RxOther, shimVars
  <2>5. AfterPoll
    BY <1>3, <2>2, <2>3, <2>4, Zenon
       DEF Next, Blocked, AfterPollReady, TimerDrop, Network, Clock, vars, shimVars
  <2>6. RecvHead(s, call.len, call.start)
    BY <1>3, <2>5, Zenon DEF AfterPoll, Return, TimeoutRet
  <2>7. socks[s].rx = <<>>
    BY <2>6, Zenon DEF RecvHead, Return
  <2> QED BY <1>1, <2>1, <2>7, Zenon
<1> QED BY <1>2, <1>3, Zenon DEF RecvSteps

-----------------------------------------------------------------------------
\* Time: the inductive invariant ties the wrapped clock to the history variable
\* waited.  During a call, now is start + waited, once wrapped at most, and at
\* most the ticks of the current net_poll came after the last test.

\* A call returns with a result that does not mean "timed out".
Ends == \E r \in Rets \ {"EAGAIN", "ETIMEDOUT"} : Return(r)

\* A call that began at time start goes through net_poll.
Waits(start) == EnterPoll(Idle) /\ call'.start = start /\ ret' = "none"

\* Two facts on remainders: an unsigned subtraction undoes one wrap.
LEMMA ModLow ==
  ASSUME NEW M \in Nat \ {0}, NEW x \in 0..M - 1
  PROVE  x % M = x
  BY Z3

\* The same for a difference that went below 0.
LEMMA ModNeg ==
  ASSUME NEW M \in Nat \ {0}, NEW x \in 0..M - 1
  PROVE  (x - M) % M = x
  BY Z3

\* The clock test of the loops is exact as long as the invariant holds.
LEMMA ExpiredExact ==
  ASSUME TimeInv, poll # "out"
  PROVE  /\ waited < BlockTimeout + MaxTicks
         /\ Expired(call.start) <=> waited >= BlockTimeout
<1>1. waited \in 0..ClockMod - 1 /\ waited < BlockTimeout + MaxTicks
  BY GlueAssumption DEF TimeInv
<1>2. now - call.start = waited \/ now - call.start = waited - ClockMod
  BY GlueAssumption DEF TimeInv
<1>3. waited % ClockMod = waited /\ (waited - ClockMod) % ClockMod = waited
  <2>1. ClockMod \in Nat \ {0}
    BY GlueAssumption
  <2> QED BY <1>1, <2>1, ModLow, ModNeg, Zenon
<1>4. (now - call.start) % ClockMod = waited
  BY <1>2, <1>3, Zenon
<1> QED BY <1>1, <1>4, Zenon DEF Expired

\* A frame takes no decision about time.
LEMMA FramesKeepTime ==
  ASSUME Frames
  PROVE  TakeFrame /\ call' = call /\ ret' = ret
  BY Zenon DEF Frames, RxSyn, RxAccept, RxRefuse, RxConnected, RxData, RxFin, RxAck, RxDrop,
         RxDhcp, RxOther, shimVars

\* What the parts of the calls do about time.
LEMMA WaitWaits ==
  ASSUME NEW op, NEW s, NEW len, NEW start, Wait(op, s, len, start)
  PROVE  Waits(start)
  BY Zenon DEF Wait, Waits

\* The last part of socket() always returns.
LEMMA SocketMadeEnds == ASSUME SocketMade PROVE Ends
  BY Zenon DEF SocketMade, Ends, Rets

\* So does the head of a loop, or it waits with the start time it had.
LEMMA HeadsEndOrWait ==
  ASSUME NEW s, NEW len, NEW start
  PROVE  /\ AcceptHead(s, start) => Ends \/ Waits(start)
         /\ ConnectHead(s, start) => Ends \/ Waits(start)
         /\ RecvHead(s, len, start) => Ends \/ Waits(start)
         /\ SendHead(s, len, start) => Ends \/ Waits(start)
<1>1. AcceptHead(s, start) => Ends \/ Waits(start)
  BY DEF AcceptHead, Ends, Waits, Wait, Rets
<1>2. ConnectHead(s, start) => Ends \/ Waits(start)
  BY DEF ConnectHead, Ends, Waits, Wait, Rets
<1>3. RecvHead(s, len, start) => Ends \/ Waits(start)
  BY DEF RecvHead, Ends, Waits, Wait, Rets
<1>4. SendHead(s, len, start) => Ends \/ Waits(start)
  BY DEF SendHead, Ends, Waits, Wait, Rets
<1> QED BY <1>1, <1>2, <1>3, <1>4, Zenon

\* A step of the program outside a call either returns or begins to wait now.
LEMMA ClientTime ==
  ASSUME Client
  PROVE  Idle /\ (Ends \/ Waits(now))
<1>1. CASE net_shim_socket
  <2>1. Idle /\ (SocketMade \/ Wait("socket", NULL, 0, now))
    BY <1>1, Zenon DEF net_shim_socket
  <2> QED BY <2>1, SocketMadeEnds, WaitWaits, Zenon
<1>2. ASSUME NEW s \in Slots, net_shim_bind(s) \/ net_shim_listen(s) \/ net_shim_close(s)
      PROVE  Idle /\ Ends
  <2>1. Idle /\ (Return("0") \/ Return("EADDRINUSE") \/ Return("EINVAL"))
    BY <1>2, Zenon DEF net_shim_bind, net_shim_listen, net_shim_close
  <2> QED BY <2>1, Zenon DEF Ends, Rets
<1>3. ASSUME NEW s \in Slots, net_shim_accept(s)
      PROVE  Idle /\ (Ends \/ Waits(now))
  BY <1>3, HeadsEndOrWait, Zenon DEF net_shim_accept
<1>4. ASSUME NEW s \in Slots, net_shim_connect(s)
      PROVE  Idle /\ (Ends \/ Waits(now))
  <2>1. Idle /\ (Wait("connect", s, 0, now) \/ Return("ECONNREFUSED") \/ Return("EINVAL"))
    BY <1>4, Zenon DEF net_shim_connect
  <2>2. Return("ECONNREFUSED") \/ Return("EINVAL") => Ends
    BY Zenon DEF Ends, Rets
  <2> QED BY <2>1, <2>2, WaitWaits, ZenonT(30)
<1>5. ASSUME NEW s \in Slots, NEW len \in Lens, net_shim_recv(s, len) \/ net_shim_send(s, len)
      PROVE  Idle /\ (Ends \/ Waits(now))
  <2>1. CASE net_shim_recv(s, len)
    <3>1. CASE Return("0")
      BY <2>1, <3>1, Zenon DEF net_shim_recv, Ends, Rets
    <3>2. CASE RecvHead(s, len, now)
      BY <2>1, <3>2, HeadsEndOrWait, Zenon DEF net_shim_recv
    <3> QED BY <2>1, <3>1, <3>2, Zenon DEF net_shim_recv
  <2>2. CASE net_shim_send(s, len)
    <3>1. CASE Return("0")
      BY <2>2, <3>1, Zenon DEF net_shim_send, Ends, Rets
    <3>2. CASE SendHead(s, len, now)
      BY <2>2, <3>2, HeadsEndOrWait, Zenon DEF net_shim_send
    <3> QED BY <2>2, <3>1, <3>2, Zenon DEF net_shim_send
  <2> QED BY <1>5, <2>1, <2>2, Zenon
<1> QED BY <1>1, <1>2, <1>3, <1>4, <1>5 DEF Client

\* After a net_poll a call gives up if its time is over, and else ends or
\* waits on with the same start.
LEMMA AfterPollTime ==
  ASSUME AfterPoll \/ AfterPollReady
  PROVE  /\ poll = "timers"
         /\ \/ Expired(call.start) /\ \E r \in Rets : Return(r)
            \/ Ends
            \/ ~Expired(call.start) /\ Waits(call.start)
<1>1. CASE AfterPollReady
  BY <1>1, SocketMadeEnds, SMTT(30) DEF AfterPollReady, Waits, Wait
<1>2. CASE AfterPoll
  <2>1. CASE Expired(call.start) /\ Return(TimeoutRet(call.op))
    BY <1>2, <2>1, Zenon DEF AfterPoll, TimeoutRet, Rets
  <2>2. CASE ~Expired(call.start)
    BY <1>2, <2>2, HeadsEndOrWait, Zenon DEF AfterPoll
  <2> QED BY <1>2, <2>1, <2>2, Zenon DEF AfterPoll
<1> QED BY <1>1, <1>2, Zenon

\* The invariant holds initially and is kept by every step.
LEMMA TimeInit == Init => TimeInv
  BY DEF Init, GlueInit, TimeInv

\* Every step keeps the invariant on the clock.
LEMMA TimeStep ==
  ASSUME TimeInv, [Next]_vars
  PROVE  TimeInv'
<1> USE GlueAssumption
<1>1. CASE Client
  <2>1. CASE Ends
    BY <2>1 DEF Ends, Return, LeavePoll, TimeInv
  <2>2. CASE Idle /\ Waits(now)
    BY <2>2 DEF Waits, EnterPoll, Idle, TimeInv
  <2> QED BY <1>1, <2>1, <2>2, ClientTime, SMTT(30)
<1>2. CASE Frames
  BY <1>2, FramesKeepTime, Zenon DEF TakeFrame, TimeInv
<1>3. CASE RxEmpty /\ UNCHANGED shimVars
  BY <1>3, Zenon DEF RxEmpty, shimVars, TimeInv
<1>4. CASE AfterPoll \/ AfterPollReady
  <2>1. CASE \E r \in Rets : Return(r)
    BY <2>1, SMTT(30) DEF Return, LeavePoll, TimeInv
  <2>2. CASE Ends
    BY <2>2 DEF Ends, Return, LeavePoll, TimeInv
  <2>3. CASE poll = "timers" /\ ~Expired(call.start) /\ Waits(call.start)
    <3>1. waited < BlockTimeout
      BY <2>3, ExpiredExact, SMTT(30) DEF TimeInv
    <3> QED BY <2>3, <3>1, SMTT(30) DEF Waits, EnterPoll, Idle, TimeInv
  <2> QED BY <1>4, <2>1, <2>2, <2>3, AfterPollTime, SMTT(30)
<1>5. ASSUME NEW p \in Pcbs, TimerDrop(p)
      PROVE  TimeInv'
  BY <1>5, Zenon DEF TimerDrop, glueVars, TimeInv
<1>6. CASE Network
  BY <1>6, Zenon DEF Network, Arrive, shimVars, TimeInv
<1>7. CASE Clock
  <2>1. now' = IF now = ClockMod - 1 THEN 0 ELSE now + 1
    <3>1. CASE now = ClockMod - 1
      <4>1. now + 1 = ClockMod /\ ClockMod % ClockMod = 0
        BY <3>1, Z3 DEF TimeInv
      <4> QED BY <1>7, <3>1, <4>1, Zenon DEF Clock, Tick
    <3>2. CASE now # ClockMod - 1
      <4>1. now + 1 \in 0..ClockMod - 1 /\ ClockMod \in Nat \ {0}
        BY <3>2, SMTT(30) DEF TimeInv
      <4> QED BY <1>7, <3>2, <4>1, ModLow, Zenon DEF Clock, Tick
    <3> QED BY <3>1, <3>2, Zenon
  <2>2. CASE poll = "out"
    BY <1>7, <2>1, <2>2, SMTT(30) DEF Clock, Tick, shimVars, TimeInv
  <2>3. CASE poll # "out"
    <3>1. ticks' = ticks + 1 /\ waited' = waited + 1 /\ ticks < MaxTicks
          /\ poll' = poll /\ call' = call /\ ret' = ret
      BY <1>7, <2>3, Zenon DEF Clock, Tick, shimVars
    <3>2. waited + 1 < ClockMod
      BY <2>3, <3>1, SMTT(30) DEF TimeInv
    <3> QED BY <2>1, <2>3, <3>1, <3>2 DEF TimeInv
  <2> QED BY <2>2, <2>3, Zenon
<1>8. CASE UNCHANGED vars
  BY <1>8, Zenon DEF vars, glueVars, shimVars, TimeInv
<1> QED BY <1>1, <1>2, <1>3, <1>4, <1>5, <1>6, <1>7, <1>8, Zenon DEF Next, Blocked

\* Under the invariant a step gives up neither too early nor too late.
LEMMA TimeoutStepHolds ==
  ASSUME TimeInv, [Next]_vars
  PROVE  [TimeoutStep]_vars
<1> SUFFICES ASSUME Next, poll # "out", ret' \in {"EAGAIN", "ETIMEDOUT"}
             PROVE  waited >= BlockTimeout
  BY ExpiredExact, Zenon DEF TimeoutStep
<1>1. ret = "none"
  BY Zenon DEF TimeInv
<1>2. CASE Client
  BY <1>2, ClientTime, Zenon DEF Idle
<1>3. CASE Frames
  BY <1>1, <1>3, FramesKeepTime, Zenon
<1>4. CASE (RxEmpty /\ UNCHANGED shimVars) \/ Network \/ Clock
  BY <1>1, <1>4, Zenon DEF Network, Clock, shimVars
<1>5. CASE AfterPoll \/ AfterPollReady
  <2>1. CASE Expired(call.start)
    BY <2>1, ExpiredExact, Zenon
  <2>2. CASE Ends
    BY <2>2, Zenon DEF Ends, Return
  <2>3. CASE Waits(call.start)
    BY <2>3, Zenon DEF Waits
  <2> QED BY <1>5, <2>1, <2>2, <2>3, AfterPollTime
<1>6. ASSUME NEW p \in Pcbs, TimerDrop(p)
      PROVE  ret' = ret
  BY <1>6, Zenon DEF TimerDrop
<1> QED BY <1>1, <1>2, <1>3, <1>4, <1>5, <1>6 DEF Next, Blocked
=============================================================================
