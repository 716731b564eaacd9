-------------------------------- MODULE Relay --------------------------------
(***************************************************************************)
(* send_receive() of tcp-tunnel/src/main.c: one tunnelled connection, from *)
(* the first recv() to the two close() calls, with the peers at its ends.  *)
(*                                                                         *)
(* The two halves of the loop body are the same code with the sockets      *)
(* exchanged: "turn" is the end whose half runs, received from, and        *)
(* Other(turn) is the end sent to.  A byte is its position in the stream   *)
(* of the end that wrote it, so a stream is described by how far each      *)
(* party has got in it, and by the positions dropped on the way.           *)
(***************************************************************************)
EXTENDS Integers, FiniteSets

CONSTANTS
  Nonblock, \* the ends whose socket has O_NONBLOCK: "out" has it from
            \* handle_incoming_connection(), "in" if accept() inherits it
  Native,   \* the end that is a socket of the guest's own kernel
  Room,     \* for each end, the bytes its socket holds for a peer to read
  BufSize,  \* MAX_BUF_SIZE
  MaxBytes  \* bound on the bytes a peer writes

Ends == {"in", "out"}
Other(e) == IF e = "in" THEN "out" ELSE "in"

ASSUME RelayAssumption ==
  /\ Nonblock \subseteq Ends /\ "out" \in Nonblock
  /\ Native \subseteq Ends
  /\ Room \in [Ends -> Nat \ {0}]
  /\ BufSize \in Nat \ {0}
  /\ MaxBytes \in Nat

VARIABLES
  pc,      \* the next call of send_receive() or tunnel()
  turn,    \* the end served
  written, \* bytes the peer of an end has written
  recvd,   \* of those, bytes recv() has returned
  passed,  \* of those, bytes send() has been called on for the last time
  lost,    \* of those, positions send() did not accept
  taken,   \* the last position the other peer has read
  peer     \* "open", "half" (its FIN sent, still reading) or "gone"

stream == <<written, recvd, passed, lost, taken>>
vars == <<pc, turn, written, recvd, passed, lost, taken, peer>>

Init ==
  /\ pc = "recv"
  /\ turn = "in"
  /\ written = [e \in Ends |-> 0]
  /\ recvd   = [e \in Ends |-> 0]
  /\ passed  = [e \in Ends |-> 0]
  /\ lost    = [e \in Ends |-> {}]
  /\ taken   = [e \in Ends |-> 0]
  /\ peer    = [e \in Ends |-> "open"]

Lesser(m, n) == IF m <= n THEN m ELSE n

\* Positions written at e that wait in the socket of the other end.
Queued(e) == ((taken[e] + 1)..passed[e]) \ lost[e]
Free == Room[Other(turn)] - Cardinality(Queued(turn))

\* The bytes in "buffer" that send() has still to accept.
Left == recvd[turn] - passed[turn]

-----------------------------------------------------------------------------
(* recv() on the end served.                                               *)

RecvData ==
  /\ pc = "recv"
  /\ recvd[turn] < written[turn]
  /\ recvd' = [recvd EXCEPT ![turn] = Lesser(@ + BufSize, written[turn])]
  /\ pc' = "send"
  /\ UNCHANGED <<turn, written, passed, lost, taken, peer>>

\* A nonblocking recv() has nothing to return.
NothingYet ==
  /\ pc = "recv"
  /\ turn \in Nonblock
  /\ recvd[turn] = written[turn]
  /\ peer[turn] = "open"

\* The loop ends.
GiveUp == pc' = "closeOut" /\ UNCHANGED <<turn, stream, peer>>

\* Mutants of RecvNothing: -1 taken for a length; going round the loop without
\* the other half; EAGAIN taken for an error.
RecvMinusOne ==
  /\ NothingYet
  /\ recvd' = [recvd EXCEPT ![turn] = @ - 1]
  /\ pc' = "send"
  /\ UNCHANGED <<turn, written, passed, lost, taken, peer>>
RecvNothingAgain == NothingYet /\ UNCHANGED vars
RecvNothingCloses == NothingYet /\ GiveUp

\* EAGAIN or EWOULDBLOCK; a blocking recv() does not return.
RecvNothing == NothingYet /\ turn' = Other(turn) /\ UNCHANGED <<pc, stream, peer>>

\* 0, after everything the peer wrote.
RecvEnd == pc = "recv" /\ recvd[turn] = written[turn] /\ peer[turn] = "half" /\ GiveUp

\* An error, which may overtake what the peer wrote.
RecvError == pc = "recv" /\ peer[turn] = "gone" /\ GiveUp

-----------------------------------------------------------------------------
(* send() on the other end.                                                *)

NextHalf == pc' = "recv" /\ turn' = Other(turn)

\* Of the bytes left, n are accepted; any result but a negative one is success.
SendOnce(n) ==
  /\ pc = "send" /\ Free > 0
  /\ lost' = [lost EXCEPT ![turn] = @ \cup ((passed[turn] + n + 1)..recvd[turn])]
  /\ passed' = [passed EXCEPT ![turn] = recvd[turn]]
  /\ NextHalf
  /\ UNCHANGED <<written, recvd, taken, peer>>

\* What there is room for is accepted.
SendMore ==
  /\ pc = "send" /\ Free > 0
  /\ passed' = [passed EXCEPT ![turn] = @ + Lesser(Free, Left)]
  /\ UNCHANGED <<written, recvd, lost, taken, peer>>

\* Mutant of SendNonblocking: a length short by one.
SendOneLess == Other(turn) \in Nonblock /\ SendOnce(Lesser(Free, Left - 1))

SendNonblocking == Other(turn) \in Nonblock /\ SendOnce(Lesser(Free, Left))

\* EAGAIN, treated as any error.
SendWouldBlock == pc = "send" /\ Other(turn) \in Nonblock /\ Free <= 0 /\ GiveUp

\* Mutant of SendBlocking: it returns after one transfer.
SendBlockingOnce == Other(turn) \notin Nonblock /\ SendOnce(Lesser(Free, Left))

\* Returns only when all of the buffer has been accepted.
SendBlocking ==
  /\ Other(turn) \notin Nonblock
  /\ SendMore
  /\ IF Left <= Free THEN NextHalf ELSE UNCHANGED <<pc, turn>>

\* The peer has closed or reset its connection: send() fails, and the guest's
\* kernel raises SIGPIPE, which main() neither handles nor ignores.
SendToGone ==
  /\ pc = "send"
  /\ peer[Other(turn)] = "gone"
  /\ pc' = IF Other(turn) \in Native THEN "killed" ELSE "closeOut"
  /\ UNCHANGED <<turn, stream, peer>>

-----------------------------------------------------------------------------
(* The close() of send_receive(), then the one of tunnel().                *)

CloseOut == pc = "closeOut" /\ pc' = "closeIn" /\ UNCHANGED <<turn, stream, peer>>
CloseIn  == pc = "closeIn" /\ pc' = "done" /\ UNCHANGED <<turn, stream, peer>>

-----------------------------------------------------------------------------
(* The peers.                                                              *)

Write(e) ==
  /\ peer[e] = "open"
  /\ written[e] < MaxBytes
  /\ written' = [written EXCEPT ![e] = @ + 1]
  /\ UNCHANGED <<pc, turn, recvd, passed, lost, taken, peer>>

\* The next byte that was not dropped.
Read(e) ==
  /\ peer[Other(e)] # "gone"
  /\ \E n \in Queued(e) :
       /\ \A m \in Queued(e) : n <= m
       /\ taken' = [taken EXCEPT ![e] = n]
  /\ UNCHANGED <<pc, turn, written, recvd, passed, lost, peer>>

Shut(e) ==
  /\ peer[e] = "open"
  /\ peer' = [peer EXCEPT ![e] = "half"]
  /\ UNCHANGED <<pc, turn, stream>>

Leave(e) ==
  /\ peer[e] # "gone"
  /\ peer' = [peer EXCEPT ![e] = "gone"]
  /\ UNCHANGED <<pc, turn, stream>>

-----------------------------------------------------------------------------
SendReceive ==
  \/ RecvData \/ RecvNothing \/ RecvEnd \/ RecvError
  \/ SendNonblocking \/ SendWouldBlock \/ SendBlocking \/ SendToGone
  \/ CloseOut \/ CloseIn

Peers == \E e \in Ends : Write(e) \/ Read(e) \/ Shut(e) \/ Leave(e)

\* The connection is over.
Over == pc \in {"done", "killed"} /\ UNCHANGED vars

Next == SendReceive \/ Peers \/ Over

Spec == Init /\ [][Next]_vars

\* The process is scheduled, and peers read what has arrived.
FairSpec == Spec /\ WF_vars(SendReceive) /\ \A e \in Ends : WF_vars(Read(e))

-----------------------------------------------------------------------------
(* Properties.                                                             *)

TypeOK ==
  /\ pc \in {"recv", "send", "closeOut", "closeIn", "done", "killed"}
  /\ turn \in Ends
  /\ written \in [Ends -> Nat]
  /\ recvd \in [Ends -> Nat]
  /\ passed \in [Ends -> Nat]
  /\ lost \in [Ends -> SUBSET Nat]
  /\ taken \in [Ends -> Nat]
  /\ peer \in [Ends -> {"open", "half", "gone"}]

\* The bytes the other peer has read.
delivered == [e \in Ends |-> (1..taken[e]) \ lost[e]]
cut == pc \notin {"recv", "send"}

P == INSTANCE Pipe

\* README.md: the program is "used for tunneling TCP connections": what the
\* peers see through send_receive() is a connection, in order and without
\* gaps.
ImplementsPipe == P!Spec

\* Towards a blocking socket send() takes the whole buffer, however slowly the
\* peer reads and whatever happens in the other direction: the bytes for that
\* peer arrive in order and without gaps.
Steady == {e \in Ends : Other(e) \notin Nonblock}
S == INSTANCE Pipe WITH Ends <- Steady,
       written <- [e \in Steady |-> written[e]],
       delivered <- [e \in Steady |-> delivered[e]]
PipeToBlocking == S!Spec

\* README.md: the tunnel "will forward connections": whatever one peer writes
\* reaches the other, if it reads, or the connection is closed.
EveryByteArrives == P!EveryByteArrives

\* send_receive() gives a connection up only when a peer has ended its side or
\* there is no room to send, never because there was nothing to receive.
ClosedForCause ==
  [][~cut /\ cut' => \/ \E e \in Ends : peer[e] # "open"
                     \/ \E e \in Nonblock :
                          Cardinality(Queued(Other(e))) = Room[e]]_vars

\* The ends whose bytes go to a socket that is blocking, or has room for all.
Whole == {e \in Ends : Other(e) \notin Nonblock \/ Room[Other(e)] >= MaxBytes}

\* A peer that shuts its side down in order loses nothing it wrote before: when
\* the connection is closed on that account (recv() returns 0), the other peer
\* has read every byte or finds it in its socket.  Not so where send() may
\* accept a part of the buffer: that is the violation of Relay_short.
DrainedBeforeClose ==
  [][pc = "recv" /\ cut' /\ peer[turn] = "half" /\ turn \in Whole =>
       1..written[turn] = delivered[turn] \cup Queued(turn)]_vars
=============================================================================
