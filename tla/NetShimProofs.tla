--------------------------- MODULE NetShimProofs ----------------------------
(***************************************************************************)
(* The theorems about the socket layer, for any number of sockets, pcbs    *)
(* and frames, any length of the accept queues, any window and any width   *)
(* of the clock.  NetStepProofs has the steps of the proof that concern    *)
(* the socket table, NetCallProofs those that concern what the program     *)
(* reads and how long it waits.                                            *)
(*                                                                         *)
(* Then the theorems about vectored calls: what PosixShim does is what     *)
(* NetShim allows, so that every safety theorem about the socket layer     *)
(* holds under the dispatcher, and the pieces of a call are filled in      *)
(* order and reported exactly.                                             *)
(***************************************************************************)
EXTENDS PosixShim, NetStepProofs, NetCallProofs

\* What the proofs about the streams and the windows start from.
LEMMA InvIsPre == TableInv => CallPre
  BY HeldIsLive, Zenon DEF TableInv, CallPre, OwnInv

\* The invariant holds at first.
LEMMA NetInit == Init => NetInvariant
<1> SUFFICES ASSUME Init PROVE ReadInv /\ WinInv
  BY InitInv, Zenon DEF NetInvariant
<1>1. /\ \A s \in Slots : socks[s].state = "FREE"
      /\ \A p \in Pcbs : pcbs[p].st = "NONE"
  BY Zenon DEF Init, reset_sock, NoPcb
<1> QED BY <1>1, Zenon DEF ReadInv, WinInv, Counted, Live

\* Every step keeps it.
LEMMA NetStep == NetInvariant /\ [Next]_vars => NetInvariant'
<1> SUFFICES ASSUME TableInv, ReadInv, WinInv, [Next]_vars PROVE TableInv' /\ ReadInv' /\ WinInv'
  BY Zenon DEF NetInvariant
<1>1. CallPre /\ TableInv' /\ ReadInv'
  BY InvIsPre, InvStep, ReadStep, Zenon
<1>2. Ownership'
  BY <1>1, Zenon DEF TableInv, OwnInv
<1> QED BY <1>1, <1>2, WinStep, Zenon

\* It is an invariant.
LEMMA Inductive == SafeSpec => []NetInvariant
  BY NetInit, NetStep, PTL DEF SafeSpec

\* The variables keep their types; in particular the head and the tail of an
\* accept queue stay inside acceptq[] (net_shim.c:145-147, 236-238), and the
\* window and the send buffer inside their sizes.
THEOREM TypesKept == SafeSpec => []TypeOK
<1>1. NetInvariant => TypeOK
  BY Zenon DEF NetInvariant, TableInv
<1> QED BY <1>1, Inductive, PTL

\* No callback of lwIP reaches a slot that does not own its pcb, and no socket
\* points to a pcb that was freed (net_shim.c:84-152, 372-399).
THEOREM PcbsOwned == SafeSpec => []Ownership
<1>1. NetInvariant => Ownership
  BY Zenon DEF NetInvariant, TableInv, OwnInv
<1> QED BY <1>1, Inductive, PTL

\* The state of a socket is that of its pcb (net_shim.c:106-121, 269-282).
THEOREM StatesMatch == SafeSpec => []StatesAgree
<1>1. NetInvariant => StatesAgree
  BY Zenon DEF NetInvariant, TableInv, OwnInv
<1> QED BY <1>1, Inductive, PTL

\* Every slot in use is the program's, waits in one accept queue, or was lost
\* with a closed listener (net_shim.c:123-152, 223-253, 372-399).
THEOREM SlotsOwned == SafeSpec => []SlotsAccounted
<1>1. NetInvariant => SlotsAccounted
  BY InvGives, SlotsFromPre, Zenon DEF NetInvariant
<1> QED BY <1>1, Inductive, PTL

\* The program reads the bytes the peer sent, in order and each once, and
\* what it has not read yet waits in the chain, for frames and reads of any
\* length (net_shim.c:84-104, 285-306).
THEOREM StreamsInOrder == SafeSpec => []StreamInOrder
<1>1. NetInvariant => StreamInOrder
  BY ReadGivesStream, Zenon DEF NetInvariant, TableInv
<1> QED BY <1>1, Inductive, PTL

\* The window of a connection is closed by exactly what its reader has not
\* read yet (net_shim.c:84-104, 285-306).
THEOREM WindowsFollow == SafeSpec => []WindowFollowsReader
<1>1. NetInvariant => WindowFollowsReader
  BY WinGivesWindow, Zenon DEF NetInvariant
<1> QED BY <1>1, Inductive, PTL

\* recv reports the end of the stream, or a reset, after the last byte that
\* was delivered before it, whether it reports it at once or after waiting
\* (net_shim.c:308-333).
THEOREM EndsAfterData == SafeSpec => EndAfterData
<1>1. NetInvariant /\ [Next]_vars => [EndStep]_vars
  BY InvIsPre, EndOfStream DEF NetInvariant
<1> QED BY <1>1, Inductive, PTL DEF SafeSpec, EndAfterData

\* Accept queues are first in, first out: no connection is overtaken, dropped
\* or handed out twice while its listener is open (net_shim.c:145-147, 236-238).
THEOREM QueuesInOrder == SafeSpec => AcceptInOrder
<1>1. NetInvariant /\ [Next]_vars => [FifoStep]_vars
  <2> SUFFICES ASSUME TableInv, ReadInv, Next PROVE FifoStep
    BY DEF NetInvariant
  <2>1. CASE UNCHANGED socks
    BY <2>1, FifoQuiet, Zenon DEF QSame, SameQueue
  <2> QED BY <2>1, FifoFrames, FifoCalls DEF Next, Blocked, Network, Clock, shimVars
<1> QED BY <1>1, Inductive, PTL DEF SafeSpec, AcceptInOrder

\* No call gives up too early, and none waits longer than its time and one
\* net_poll: (u32_t)(sys_now() - start) is right for every start, also when
\* the clock wraps during the call (net_shim.c:232, 278, 325 and 367,
\* net_glue.c:39-45 and 129-140).
THEOREM Timeouts == SafeSpec => TimeoutOnTime
<1>1. Init => TimeInv
  BY TimeInit, Zenon
<1>2. TimeInv /\ [Next]_vars => TimeInv'
  BY TimeStep, Zenon
<1>3. TimeInv /\ [Next]_vars => [TimeoutStep]_vars
  BY TimeoutStepHolds, Zenon
<1> QED BY <1>1, <1>2, <1>3, PTL DEF SafeSpec, TimeoutOnTime

-----------------------------------------------------------------------------
\* The loop of a vectored call is at one of its pieces.
VecType ==
    vec # NoVec =>
        /\ vec \in [op : {"readv", "writev"}, fd : Slots \cup Console, lens : Seq(Lens),
                    i : Nat, total : Nat, before : Nat]
        /\ vec.i \in 1..Len(vec.lens)

\* A piece that waits is the call the socket layer is in.
PieceInCall ==
    vec # NoVec /\ poll # "out" =>
        /\ vec.fd \in Slots
        /\ call.op = (IF vec.op = "readv" THEN "recv" ELSE "send")
        /\ call.fd = vec.fd
        /\ call.len = vec.lens[vec.i]

VecInv == VecType /\ PieceInCall /\ moved \in Nat /\ VecInOrder

-----------------------------------------------------------------------------
\* The length of the piece.
LEMMA PieceLength ==
  ASSUME VecType, vec # NoVec
  PROVE  vec.lens[vec.i] \in Lens /\ vec.lens[vec.i] \in Nat /\ vec.i \in Nat /\ Len(vec.lens) \in Nat
<1>1. vec.lens \in Seq(Lens) /\ vec.i \in 1..Len(vec.lens)
  BY Zenon DEF VecType
<1>2. vec.lens[vec.i] \in Lens /\ vec.i \in Nat /\ Len(vec.lens) \in Nat
  BY <1>1
<1> QED BY <1>2, ShimAssumption, Zenon

\* Every step is one of the socket layer, or leaves it alone.
LEMMA PosixStepIsNet ==
  ASSUME VecType, [PosixNext]_posixVars
  PROVE  [Next]_vars
<1>1. CASE SocketPiece
  <2>1. vec # NoVec /\ vec.fd \in Slots
    BY <1>1, ShimAssumption DEF SocketPiece, NoVec
  <2>2. vec.lens[vec.i] \in Lens
    BY <2>1, PieceLength, Zenon
  <2> QED BY <1>1, <2>1, <2>2 DEF SocketPiece, Next, Client
<1>2. CASE UNCHANGED vars
  BY <1>2, Zenon
<1>3. CASE ConsolePiece \/ \E fd \in Slots \cup Console, lens \in Iovs : sys_readv(fd, lens) \/ sys_writev(fd, lens)
  BY <1>2, <1>3, Zenon DEF ConsolePiece, sys_readv, sys_writev, Begin
<1>4. CASE OtherCall \/ Polling(Blocked) \/ (\E p \in Pcbs : Polling(TimerDrop(p))) \/ ((Network \/ Clock) /\ Aside)
  BY <1>4, Zenon DEF OtherCall, Polling, Next
<1>5. CASE UNCHANGED posixVars
  BY <1>2, <1>5, Zenon DEF posixVars
<1> QED BY <1>1, <1>3, <1>4, <1>5, Zenon DEF PosixNext

\* What recv gives the program.
LEMMA RecvBytes ==
  ASSUME NetInvariant, NEW s \in held, NEW len \in Nat, NEW start, RecvHead(s, len, start),
         ret' = "bytes"
  PROVE  Len(got'[s]) - Len(got[s]) \in 0..len
<1>1. CallPre /\ ReadInv
  BY InvIsPre, Zenon DEF NetInvariant
<1>2. s \in Slots /\ Live(s)
  BY <1>1, Zenon DEF CallPre, TypeOK
<1>3. socks[s].rx # <<>> /\ bsock_read(s, len)
  BY Zenon DEF RecvHead, Return, Wait
<1>4. PICK n \in Nat : n <= len /\ ReadBytes(s, n)
  BY <1>1, <1>2, <1>3, ReadSome, SMTT(30)
<1>5. Len(got'[s]) = Len(got[s]) + n
  BY <1>4, Zenon DEF ReadBytes
<1>6. Len(got[s]) \in Nat
  BY <1>1, <1>2, StreamTypes, SMTT(30) DEF CallPre
<1> QED BY <1>4, <1>5, <1>6

\* What send takes from it.
LEMMA SendBytes ==
  ASSUME NetInvariant, NEW s \in held, NEW len \in Nat, NEW start, SendHead(s, len, start),
         ret' = "bytes"
  PROVE  pcbs'[socks[s].pcb].snd - pcbs[socks[s].pcb].snd \in 0..len
<1>1. s \in Slots /\ socks \in [Slots -> Socks] /\ pcbs \in [Pcbs -> PcbRecs]
  BY DEF NetInvariant, TableInv, TypeOK
<1>2. PICK p : p = socks[s].pcb
  BY Zenon
<1>3. PICK room : room = SndBuf - pcbs[p].snd
  BY Zenon
<1>4. PICK n : n = IF len < room THEN len ELSE room
  BY Zenon
<1>5. p # NULL /\ pcbs' = [pcbs EXCEPT ![p].snd = @ + n]
  BY <1>2, <1>3, <1>4, SMTT(30) DEF SendHead, Return, Wait
<1>6. p \in Pcbs
  BY <1>1, <1>2, <1>5, Zenon DEF Socks
<1>7. pcbs[p].snd \in 0..SndBuf
  BY <1>1, <1>6, Zenon DEF PcbRecs
<1>8. pcbs'[p].snd = pcbs[p].snd + n
  BY <1>1, <1>5, <1>6, Zenon DEF PcbRecs
<1>9. n \in 0..len
  BY <1>3, <1>4, <1>7, ShimAssumption, SMTT(30)
<1> QED BY <1>2, <1>7, <1>8, <1>9, ShimAssumption, SMTT(30)

-----------------------------------------------------------------------------
\* A step of the socket layer inside a piece, before the loop looks at it.
PieceStep ==
    \/ Idle /\ vec.fd \in Slots /\ vec.op = "readv"  /\ net_shim_recv(vec.fd, vec.lens[vec.i])
    \/ Idle /\ vec.fd \in Slots /\ vec.op = "writev" /\ net_shim_send(vec.fd, vec.lens[vec.i])
    \/ Blocked
    \/ \E p \in Pcbs : TimerDrop(p)

\* It moves no more than the piece holds.
LEMMA PieceBytes ==
  ASSUME NetInvariant, VecType, PieceInCall, vec # NoVec, PieceStep, poll' = "out", ret' = "bytes"
  PROVE  Bytes \in 0..vec.lens[vec.i]
<1>0. PICK len \in Nat : len = vec.lens[vec.i]
  BY PieceLength, Zenon
<1>1. vec.op \in {"readv", "writev"}
  BY Zenon DEF VecType
<1>2. ASSUME NEW start, vec.fd \in held, vec.op = "readv", RecvHead(vec.fd, len, start)
      PROVE  Bytes \in 0..len
  BY <1>2, RecvBytes, ZenonT(30) DEF Bytes
<1>3. ASSUME NEW start, vec.fd \in held, vec.op = "writev", SendHead(vec.fd, len, start)
      PROVE  Bytes \in 0..len
  BY <1>3, SendBytes, Zenon DEF Bytes
<1>4. CASE vec.op = "readv" /\ net_shim_recv(vec.fd, len)
  BY <1>0, <1>2, <1>4, Zenon DEF net_shim_recv, Return
<1>5. CASE vec.op = "writev" /\ net_shim_send(vec.fd, len)
  BY <1>0, <1>3, <1>5, SMTT(30) DEF net_shim_send, Return
<1>6. CASE AfterPoll
  <2>1. poll # "out" /\ ret' # TimeoutRet(call.op)
    BY <1>6, Zenon DEF AfterPoll, TimeoutRet
  <2>2. vec.fd \in Slots /\ call.fd = vec.fd /\ call.len = len
        /\ call.op = (IF vec.op = "readv" THEN "recv" ELSE "send")
    BY <1>0, <2>1, Zenon DEF PieceInCall
  <2>3. call.fd \in held
    BY <2>2, Zenon DEF NetInvariant, TableInv, CallInv
  <2>4. \/ vec.op = "readv" /\ RecvHead(vec.fd, len, call.start)
        \/ vec.op = "writev" /\ SendHead(vec.fd, len, call.start)
    BY <1>1, <1>6, <2>1, <2>2, SMTT(30) DEF AfterPoll, Return
  <2> QED BY <1>0, <1>2, <1>3, <2>2, <2>3, <2>4, SMTT(30)
<1>7. CASE AfterPollReady
  BY <1>7, Zenon DEF AfterPollReady, PieceInCall
<1>8. CASE Frames \/ RxEmpty \/ \E p \in Pcbs : TimerDrop(p)
  BY <1>8, FramesKeepTime, Zenon DEF RxEmpty, TimerDrop, TakeFrame, glueVars
<1> QED BY <1>0, <1>4, <1>5, <1>6, <1>7, <1>8, SMTT(30) DEF PieceStep, Blocked

\* A call of the socket layer that goes on waiting is the one it was.
LEMMA PieceWaits ==
  ASSUME NetInvariant, VecType, PieceInCall, vec # NoVec, PieceStep, poll' # "out", vec' = vec
  PROVE  PieceInCall'
<1>1. vec.op \in {"readv", "writev"} /\ call.op \in Ops
  BY Zenon DEF VecType, NetInvariant, TableInv, TypeOK
<1>2. ASSUME NEW op, NEW s, NEW len, NEW start, Wait(op, s, len, start)
      PROVE  call'.op = op /\ call'.fd = s /\ call'.len = len
  BY <1>2 DEF Wait
<1>3. ASSUME NEW s, NEW len, NEW start, RecvHead(s, len, start)
      PROVE  call'.op = "recv" /\ call'.fd = s /\ call'.len = len
  BY <1>2, <1>3, Zenon DEF RecvHead, Return, LeavePoll
<1>4. ASSUME NEW s, NEW len, NEW start, SendHead(s, len, start)
      PROVE  call'.op = "send" /\ call'.fd = s /\ call'.len = len
  BY <1>2, <1>4, SMTT(30) DEF SendHead, Return, LeavePoll
<1>5. CASE vec.op = "readv" /\ vec.fd \in Slots /\ net_shim_recv(vec.fd, vec.lens[vec.i])
  BY <1>3, <1>5, Zenon DEF net_shim_recv, Return, LeavePoll, PieceInCall
<1>6. CASE vec.op = "writev" /\ vec.fd \in Slots /\ net_shim_send(vec.fd, vec.lens[vec.i])
  BY <1>4, <1>6, Zenon DEF net_shim_send, Return, LeavePoll, PieceInCall
<1>7. CASE AfterPoll
  <2>1. PieceInCall /\ poll # "out"
    BY <1>7, Zenon DEF AfterPoll
  <2>2. \/ call.op = "recv" /\ RecvHead(call.fd, call.len, call.start)
        \/ call.op = "send" /\ SendHead(call.fd, call.len, call.start)
    BY <1>7, <2>1, Zenon DEF AfterPoll, PieceInCall, Return, LeavePoll
  <2> QED BY <1>3, <1>4, <2>1, <2>2, SMTT(30) DEF PieceInCall
<1>8. CASE AfterPollReady
  BY <1>8, Zenon DEF AfterPollReady, PieceInCall
<1>9. CASE poll # "out" /\ call' = call
  BY <1>9, Zenon DEF PieceInCall
<1>10. CASE Frames
  <2>1. poll = "rx" /\ call' = call
    BY <1>10, FramesKeepTime DEF TakeFrame
  <2> QED BY <1>9, <2>1, Zenon
<1>11. CASE (RxEmpty /\ UNCHANGED shimVars) \/ \E p \in Pcbs : TimerDrop(p)
  BY <1>9, <1>11, Zenon DEF RxEmpty, TimerDrop, shimVars
<1> QED BY <1>5, <1>6, <1>7, <1>8, <1>10, <1>11, SMTT(30) DEF PieceStep, Blocked

-----------------------------------------------------------------------------
\* The loop, after a piece that moved n bytes: it goes on with the next piece
\* only when this one is full, and returns what was moved otherwise.
LEMMA AfterPiece ==
  ASSUME VecType, VecInOrder, moved \in Nat, vec # NoVec,
         NEW n \in 0..vec.lens[vec.i], PieceDone(n), moved' = moved + n
  PROVE  VecType' /\ VecInOrder' /\ moved' \in Nat /\ VecStep
<1>0. PICK len \in Nat : len = vec.lens[vec.i]
  BY PieceLength, Zenon
<1>1. n \in 0..len /\ vec.total = vec.before /\ vec.total = moved /\ vec.i \in Nat
  BY <1>0, PieceLength, Zenon DEF VecInOrder
<1>2. moved' \in Nat /\ moved' = vec.total + n
  BY <1>1, SMTT(30)
<1>3. CASE VecReturn(Count(vec.total + n))
  BY <1>2, <1>3 DEF VecReturn, VecType, VecInOrder, VecStep, NoVec, Count
<1>4. CASE NextPiece(n) /\ ~(n < len \/ vec.i = Len(vec.lens))
  <2>1. n = len
    BY <1>1, <1>4
  <2>a. /\ vec \in [op : {"readv", "writev"}, fd : Slots \cup Console, lens : Seq(Lens),
                    i : Nat, total : Nat, before : Nat]
        /\ vec' = [vec EXCEPT !.i = @ + 1, !.total = @ + n, !.before = @ + len]
    BY <1>0, <1>4, Zenon DEF NextPiece, VecType
  <2>b. /\ vec.i + 1 \in Nat /\ vec.total + n \in Nat /\ vec.before + len \in Nat
    BY <1>0, <1>1, <2>a, SMTT(30)
  <2>2. /\ vec'.op = vec.op /\ vec'.fd = vec.fd /\ vec'.lens = vec.lens
        /\ vec'.i = vec.i + 1 /\ vec'.total = vec.total + n /\ vec'.before = vec.before + len
        /\ vec' \in [op : {"readv", "writev"}, fd : Slots \cup Console, lens : Seq(Lens),
                     i : Nat, total : Nat, before : Nat]
    BY <2>a, <2>b, ZenonT(30)
  <2>3. vec.i + 1 \in 1..Len(vec.lens)
    BY <1>4 DEF VecType
  <2>4. vec' # NoVec
    BY <2>2, SMTT(30) DEF NoVec
  <2> QED BY <1>1, <1>2, <2>1, <2>2, <2>3, <2>4, Zenon DEF VecType, VecInOrder, VecStep
<1> QED BY <1>0, <1>3, <1>4, Zenon DEF PieceDone

\* The same after a piece that failed.
LEMMA AfterFailure ==
  ASSUME VecInOrder, moved \in Nat, vec # NoVec, NEW e, e = VecError, PieceFails(e), moved' = moved
  PROVE  VecType' /\ VecInOrder' /\ moved' \in Nat /\ VecStep
  BY DEF PieceFails, VecReturn, VecType, VecInOrder, VecStep, NoVec, Count

-----------------------------------------------------------------------------
\* A step of the socket layer inside a piece.
LEMMA SocketStep ==
  ASSUME NetInvariant, VecInv, vec # NoVec, PieceStep, AfterCall
  PROVE  VecInv' /\ VecStep
<1> USE DEF VecInv
<1>1. CASE poll' # "out" /\ UNCHANGED <<vec, vret, moved>>
  <2>1. PieceInCall'
    BY <1>1, PieceWaits
  <2> QED BY <1>1, <2>1 DEF VecType, VecInOrder, VecStep
<1>2. ASSUME poll' = "out", VecType' /\ VecInOrder' /\ moved' \in Nat /\ VecStep
      PROVE  VecInv' /\ VecStep
  BY <1>2 DEF PieceInCall
<1>3. CASE poll' = "out" /\ ret' = "bytes" /\ PieceDone(Bytes) /\ moved' = moved + Bytes
  BY <1>2, <1>3, PieceBytes, AfterPiece, SMTT(30)
<1>4. CASE poll' = "out" /\ PieceDone(0) /\ UNCHANGED moved
  <2>1. 0 \in 0..vec.lens[vec.i] /\ moved' = moved + 0
    BY <1>4, PieceLength
  <2> QED BY <1>2, <1>4, <2>1, AfterPiece, SMTT(30)
<1>5. CASE poll' = "out" /\ PieceFails(ret') /\ UNCHANGED moved
  <2>1. vec.fd \in Slots
    <3>1. Frames => poll # "out"
      BY FramesKeepTime DEF TakeFrame
    <3>2. vec.fd \in Slots \/ poll # "out"
      BY <3>1, Zenon DEF PieceStep, Blocked, RxEmpty, AfterPoll, AfterPollReady, TimerDrop
    <3> QED BY <3>2, Zenon DEF PieceInCall
  <2>2. ret' = VecError
    BY <2>1, Zenon DEF VecError
  <2> QED BY <1>2, <1>5, <2>2, AfterFailure, SMTT(30)
<1> QED BY <1>1, <1>3, <1>4, <1>5, SMTT(30) DEF AfterCall

\* A piece on the console.
LEMMA ConsoleStep ==
  ASSUME VecInv, ConsolePiece
  PROVE  VecInv' /\ VecStep
<1> USE DEF VecInv
<1>1. vec # NoVec
  BY DEF ConsolePiece, ConsoleRead, ConsoleWrite, ConsoleRefuses, NoVec
<1>2. poll = "out" /\ UNCHANGED vars
  BY DEF ConsolePiece, Idle
<1>3. PICK len \in Nat : len = vec.lens[vec.i]
  BY <1>1, PieceLength, SMTT(30)
<1>4. ASSUME VecType' /\ VecInOrder' /\ moved' \in Nat /\ VecStep
      PROVE  VecInv' /\ VecStep
  BY <1>2, <1>4, SMTT(30) DEF PieceInCall, vars, glueVars
<1>5. CASE ConsoleRead(len) \/ ConsoleWrite(len)
  <2>1. PICK n \in 0..len : PieceDone(n) /\ moved' = moved + n
    BY <1>3, <1>5 DEF ConsoleRead, ConsoleWrite
  <2> QED BY <1>1, <1>3, <1>4, <2>1, AfterPiece, SMTT(30)
<1>6. CASE ConsoleRefuses
  <2>1. VecError = "EBADF"
    BY PosixAssumption DEF ConsolePiece, VecError
  <2>2. PieceFails("EBADF") /\ moved' = moved
    BY <1>6, Zenon DEF ConsoleRefuses
  <2>3. VecType' /\ VecInOrder' /\ moved' \in Nat /\ VecStep
    BY <1>1, <2>1, <2>2, AfterFailure, Zenon
  <2> QED BY <1>4, <2>3, Zenon
<1> QED BY <1>3, <1>5, <1>6, Zenon DEF ConsolePiece

\* The loop is entered.
LEMMA BeginStep ==
  ASSUME VecInv, NEW op \in {"readv", "writev"}, NEW fd \in Slots \cup Console, NEW lens \in Iovs,
         Begin(op, fd, lens)
  PROVE  VecInv' /\ VecStep
<1>1. vec = NoVec /\ poll' = "out" /\ moved' = 0
  BY DEF Begin, Idle, vars, glueVars
<1>2. CASE lens = <<>>
  BY <1>1, <1>2, SMTT(30) DEF Begin, VecInv, VecType, VecInOrder, PieceInCall, VecStep, NoVec
<1>3. CASE lens # <<>>
  <2>1. vec' = [op |-> op, fd |-> fd, lens |-> lens, i |-> 1, total |-> 0, before |-> 0]
    BY <1>3, Zenon DEF Begin, NoVec
  <2>2. lens \in Seq(Lens) /\ 1 \in 1..Len(lens)
    BY <1>3, PosixAssumption, EmptyLen, SMTT(30)
  <2>3. VecType'
    BY <2>1, <2>2 DEF VecType
  <2> QED BY <1>1, <2>1, <2>3, SMTT(30) DEF VecInv, VecInOrder, PieceInCall, VecStep
<1> QED BY <1>2, <1>3

\* The network and the clock do not touch the call.
LEMMA AsideStep ==
  ASSUME VecInv, Aside, vec = NoVec \/ UNCHANGED <<poll, call>>
  PROVE  VecInv' /\ VecStep
<1>1. CASE vec = NoVec
  BY <1>1, SMTT(30) DEF VecInv, VecType, VecInOrder, PieceInCall, VecStep, Aside, NoVec
<1>2. CASE vec # NoVec /\ UNCHANGED <<poll, call>>
  BY <1>2 DEF VecInv, VecType, VecInOrder, PieceInCall, VecStep, Aside
<1> QED BY <1>1, <1>2, SMTT(30)

\* Every step keeps the invariant and reports what was moved.
LEMMA VecKept ==
  ASSUME NetInvariant, VecInv, [PosixNext]_posixVars
  PROVE  VecInv' /\ [VecStep]_posixVars
<1>1. CASE OtherCall
  BY <1>1, AsideStep, SMTT(30) DEF OtherCall
<1>2. ASSUME NEW fd \in Slots \cup Console, NEW lens \in Iovs, sys_readv(fd, lens) \/ sys_writev(fd, lens)
      PROVE  VecInv' /\ VecStep
  BY <1>2, BeginStep DEF sys_readv, sys_writev
<1>3. CASE SocketPiece
  <2>1. vec # NoVec
    BY <1>3, SMTT(30) DEF SocketPiece, NoVec
  <2>2. PieceStep /\ AfterCall
    BY <1>3 DEF SocketPiece, PieceStep
  <2> QED BY <2>1, <2>2, SocketStep, SMTT(30)
<1>5. CASE Polling(Blocked)
  BY <1>5, SocketStep, AsideStep, SMTT(30) DEF Polling, PieceStep
<1>6. ASSUME NEW p \in Pcbs, Polling(TimerDrop(p)) PROVE VecInv' /\ VecStep
  BY <1>6, SocketStep, AsideStep, SMTT(30) DEF Polling, PieceStep
<1>7. CASE (Network \/ Clock) /\ Aside
  <2>1. UNCHANGED <<poll, call>>
    BY <1>7, SMTT(30) DEF Network, Clock, Arrive, Tick, shimVars
  <2> QED BY <1>7, <2>1, AsideStep, SMTT(30)
<1>8. CASE UNCHANGED posixVars
  BY <1>8 DEF posixVars, vars, glueVars, shimVars, VecInv, VecType, VecInOrder, PieceInCall
<1> QED BY <1>1, <1>2, <1>3, ConsoleStep, <1>5, <1>6, <1>7, <1>8, SMTT(30) DEF PosixNext

-----------------------------------------------------------------------------
\* Under the dispatcher the socket layer is used as NetShim says: a vectored
\* call is a sequence of recvs or sends, so every safety property of the
\* socket layer holds here too (posix_shim.c:114-187).
THEOREM PosixImplementsNet == PosixSafe => SafeSpec
<1>1. PosixInit => Init /\ VecInv
  BY DEF PosixInit, VecInv, VecType, VecInOrder, PieceInCall, NoVec
<1>2. VecInv /\ [PosixNext]_posixVars => [Next]_vars
  BY PosixStepIsNet DEF VecInv
<1>3. NetInvariant /\ VecInv /\ [PosixNext]_posixVars => VecInv'
  BY VecKept
<1>4. Init => NetInvariant
  BY NetInit
<1>5. NetInvariant /\ [Next]_vars => NetInvariant'
  BY NetStep
<1> QED BY <1>1, <1>2, <1>3, <1>4, <1>5, PTL DEF PosixSafe, SafeSpec

\* The invariant of the vectored calls.
LEMMA VecInductive == PosixSafe => []NetInvariant /\ []VecInv
<1>1. PosixInit => Init /\ VecInv
  BY DEF PosixInit, VecInv, VecType, VecInOrder, PieceInCall, NoVec
<1>2. NetInvariant /\ VecInv /\ [PosixNext]_posixVars => VecInv'
  BY VecKept
<1> QED BY <1>1, <1>2, PosixImplementsNet, Inductive, PTL DEF PosixSafe

\* Pieces are filled in order and without a gap: when a vectored call goes on
\* to a piece, all before it are full and nothing else was moved, whatever
\* the socket delivers (posix_shim.c:155-187).
THEOREM VecsInOrder == PosixSafe => []VecInOrder
<1>1. VecInv => VecInOrder
  BY DEF VecInv
<1> QED BY <1>1, VecInductive, PTL

\* A vectored call reports exactly the bytes it moved, also when a later piece
\* times out, is reset or meets the end of the stream (posix_shim.c:155-187).
THEOREM VecsExact == PosixSafe => VecExact
<1>1. NetInvariant /\ VecInv /\ [PosixNext]_posixVars => [VecStep]_posixVars
  BY VecKept
<1> QED BY <1>1, VecInductive, PTL DEF PosixSafe, VecExact
=============================================================================
