----------------------------- MODULE PosixShim ------------------------------
(***************************************************************************)
(* The read and write calls of src/app/posix_shim.c on sockets and on the  *)
(* console: sys_read and sys_write send a call to the layer its descriptor *)
(* belongs to, sys_readv and sys_writev make one such call per piece of    *)
(* the program's buffer.  The socket layer is NetShim; a piece may wait in *)
(* it.  Files are in Bmfs, whose calls do not wait.                        *)
(***************************************************************************)
EXTENDS NetShim

CONSTANTS
    Stdin,    \* descriptor 0
    Stdout,   \* descriptors 1 and 2
    Iovs      \* the iovec arrays of the program, as sequences of lengths

Console == {Stdin, Stdout}

ASSUME PosixAssumption ==
    /\ Stdin # Stdout /\ Console \cap Slots = {}
    /\ Iovs \subseteq Seq(Lens)

VARIABLES
    vec,      \* the vectored call in progress and its local variables
    vret,     \* its result, as it returns: a count, or an error
    moved     \* history: the bytes its pieces have moved

posixVars == <<vars, vec, vret, moved>>

\* before is history: the lengths of the pieces before piece i, together.
NoVec == [op |-> "none", fd |-> NULL, lens |-> <<>>, i |-> 1, total |-> 0, before |-> 0]
Count(n) == [n |-> n, err |-> "none"]
Failure(e) == [n |-> -1, err |-> e]

PosixInit == Init /\ vec = NoVec /\ vret = Count(0) /\ moved = 0

-----------------------------------------------------------------------------
\* The body of the loop after its call of sys_read or sys_write.

VecReturn(r) == vec' = NoVec /\ vret' = r

NextPiece(n) ==
    /\ vec' = [vec EXCEPT !.i = @ + 1, !.total = @ + n, !.before = @ + vec.lens[vec.i]]
    /\ UNCHANGED vret

\* A loop that goes on after a short piece.
PieceDone_Goes(n) ==
    IF vec.i = Len(vec.lens) THEN VecReturn(Count(vec.total + n))
    ELSE NextPiece(n)

\* n >= 0: a short piece ends the loop.
PieceDone(n) ==
    IF n < vec.lens[vec.i] \/ vec.i = Len(vec.lens) THEN VecReturn(Count(vec.total + n))
    ELSE NextPiece(n)

\* A loop that returns the error although bytes were moved.
PieceFails_Forgets(e) == VecReturn(Failure(e))

\* A loop that tries a piece again when it timed out.
PieceFails_Retries(e) ==
    IF e = "ETIMEDOUT" THEN UNCHANGED <<vec, vret>>
    ELSE VecReturn(IF vec.total # 0 THEN Count(vec.total) ELSE Failure(e))

\* n < 0: what came before counts.
PieceFails(e) == VecReturn(IF vec.total # 0 THEN Count(vec.total) ELSE Failure(e))

\* The bytes a step of the socket layer moves for the call in progress.
Bytes ==
    IF vec.op = "readv" THEN Len(got'[vec.fd]) - Len(got[vec.fd])
    ELSE LET p == socks[vec.fd].pcb IN pcbs'[p].snd - pcbs[p].snd

\* A step of the socket layer inside a piece: it returns, or goes on waiting.
AfterCall ==
    \/ poll' # "out" /\ UNCHANGED <<vec, vret, moved>>
    \/ poll' = "out" /\ ret' = "bytes" /\ PieceDone(Bytes) /\ moved' = moved + Bytes
    \/ poll' = "out" /\ ret' \in {"0", "EOF"} /\ PieceDone(0) /\ UNCHANGED moved
    \/ poll' = "out" /\ ret' \in {"ETIMEDOUT", "ECONNRESET"} /\ PieceFails(ret') /\ UNCHANGED moved

\* A step that is no part of a vectored call.
Aside ==
    /\ UNCHANGED vec
    /\ IF vec = NoVec THEN vret' = Count(0) /\ moved' = 0 ELSE UNCHANGED <<vret, moved>>

-----------------------------------------------------------------------------
\* The loop is entered.  One piece is a plain sys_read or sys_write.
Begin(op, fd, lens) ==
    /\ Idle /\ vec = NoVec
    /\ vec' = IF lens = <<>> THEN NoVec ELSE [NoVec EXCEPT !.op = op, !.fd = fd, !.lens = lens]
    /\ vret' = Count(0) /\ moved' = 0
    /\ UNCHANGED vars

sys_readv(fd, lens) == fd \in held \cup Console /\ Begin("readv", fd, lens)

\* The program does not send on a socket on which it listens.
sys_writev(fd, lens) ==
    /\ fd \in held \cup Console
    /\ fd \in Slots => socks[fd].state # "LISTENING"
    /\ Begin("writev", fd, lens)

\* sys_read and sys_write on a socket
SocketPiece ==
    /\ Idle /\ vec.fd \in Slots
    /\ \/ vec.op = "readv"  /\ net_shim_recv(vec.fd, vec.lens[vec.i])
       \/ vec.op = "writev" /\ net_shim_send(vec.fd, vec.lens[vec.i])
    /\ AfterCall

\* sys_read waits for a first key, then takes what is there.
ConsoleRead(len) ==
    /\ vec.op = "readv" /\ vec.fd = Stdin
    /\ \/ len > 0 /\ \E n \in 1..len : PieceDone(n) /\ moved' = moved + n
       \/ len = 0 /\ PieceDone(0) /\ UNCHANGED moved

\* sys_write puts out everything.
ConsoleWrite(len) ==
    /\ vec.op = "writev" /\ vec.fd = Stdout
    /\ PieceDone(len) /\ moved' = moved + len

\* A read from an output, or a write to the input, whatever its length.
ConsoleRefuses ==
    /\ \/ vec.op = "readv" /\ vec.fd = Stdout
       \/ vec.op = "writev" /\ vec.fd = Stdin
    /\ PieceFails("EBADF") /\ UNCHANGED moved

\* sys_read and sys_write on the console
ConsolePiece ==
    /\ Idle /\ vec.fd \in Console
    /\ \/ ConsoleRead(vec.lens[vec.i])
       \/ ConsoleWrite(vec.lens[vec.i])
       \/ ConsoleRefuses
    /\ UNCHANGED vars

-----------------------------------------------------------------------------
\* Every other call of the program, when none is in progress.
OtherCall == vec = NoVec /\ Client /\ Aside

\* The call in progress, plain or vectored, inside net_poll.
Polling(A) == A /\ IF vec = NoVec THEN Aside ELSE AfterCall

PosixNext ==
    \/ OtherCall
    \/ \E fd \in Slots \cup Console, lens \in Iovs : sys_readv(fd, lens) \/ sys_writev(fd, lens)
    \/ SocketPiece
    \/ ConsolePiece
    \/ Polling(Blocked)
    \/ \E p \in Pcbs : Polling(TimerDrop(p))
    \/ (Network \/ Clock) /\ Aside

\* As for NetShim; the processor also goes from one piece to the next.  A key
\* may never be pressed.
PosixFairness ==
    /\ WF_posixVars(Polling(Blocked))
    /\ WF_posixVars(SocketPiece)
    /\ WF_posixVars(Clock /\ Aside)

PosixSpec == PosixInit /\ [][PosixNext]_posixVars /\ PosixFairness
PosixSafe == PosixInit /\ [][PosixNext]_posixVars

-----------------------------------------------------------------------------
\* A vectored call fills its pieces in order and without a gap: when it goes
\* on to piece i, all before it are full and nothing else was moved, also when
\* sockets deliver less than was asked for (posix_shim.c:164-166, 181-183).
VecInOrder == vec.total = vec.before /\ (vec # NoVec => vec.total = moved)

\* A vectored call reports what it moved: bytes that earlier pieces took from
\* a connection or gave to it are counted although a later piece met a
\* timeout, a reset or the end of the stream (posix_shim.c:162-163, 179-180);
\* one that moved nothing reports 0 or the error of its layer.
VecError == IF vec.fd \in Slots THEN ret' ELSE "EBADF"
VecStep ==
    vec # NoVec /\ vec' = NoVec =>
        IF moved' > 0 THEN vret' = Count(moved') ELSE vret' \in {Count(0), Failure(VecError)}
VecExact == [][VecStep]_posixVars

\* A vectored call on a socket returns, although each of its pieces may wait.
VecReturns == (vec.fd \in Slots) ~> (vec = NoVec)
=============================================================================
