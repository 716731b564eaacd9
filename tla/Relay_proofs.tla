---------------------------- MODULE Relay_proofs ----------------------------
(***************************************************************************)
(* Proofs about module Relay, for any sizes of buffers and streams.        *)
(***************************************************************************)
EXTENDS Relay, FiniteSetTheorems, TLAPS

\* How far the parties can be in a stream: nobody is ahead of the party before
\* it, and between two halves of the loop nothing read is left to send.
Ordered ==
  \A e \in Ends :
    /\ taken[e] <= passed[e] /\ passed[e] <= recvd[e]
    /\ recvd[e] <= written[e] /\ written[e] <= MaxBytes
    /\ lost[e] \subseteq 1..passed[e]
    /\ pc = "recv" \/ (pc = "send" /\ e # turn) => passed[e] = recvd[e]

IInv == TypeOK /\ Ordered

-----------------------------------------------------------------------------
(* What a socket holds.                                                    *)

LEMMA QueuedType ==
  ASSUME TypeOK, Ordered
  PROVE  \A e \in Ends : Queued(e) \subseteq Nat /\ Cardinality(Queued(e)) \in Nat
<1> TAKE e \in Ends
<1>1. taken[e] + 1 \in Int /\ passed[e] \in Int
  BY DEF TypeOK
<1>2. IsFiniteSet((taken[e] + 1)..passed[e])
  BY <1>1, FS_Interval
<1>3. IsFiniteSet(Queued(e)) /\ Queued(e) \subseteq (taken[e] + 1)..passed[e]
  BY <1>2, FS_Subset DEF Queued
<1> QED BY <1>3, FS_CardinalityType DEF TypeOK

LEMMA FreeType == ASSUME TypeOK, Ordered PROVE Free \in Int
<1>1. Other(turn) \in Ends /\ turn \in Ends
  BY DEF TypeOK, Ends, Other
<1> QED BY <1>1, QueuedType, RelayAssumption DEF Free

\* With nothing dropped a socket holds what was passed and not yet taken.
LEMMA QueuedLength ==
  ASSUME TypeOK, Ordered, NEW e \in Ends, lost[e] = {}
  PROVE  Cardinality(Queued(e)) = passed[e] - taken[e]
<1>1. /\ taken[e] + 1 \in Int /\ passed[e] \in Int
      /\ taken[e] \in Nat /\ taken[e] <= passed[e]
  BY DEF TypeOK, Ordered
<1>2. Queued(e) = (taken[e] + 1)..passed[e]
  BY DEF Queued
<1>3. Cardinality((taken[e] + 1)..passed[e]) =
        IF taken[e] + 1 > passed[e] THEN 0 ELSE passed[e] - (taken[e] + 1) + 1
  BY <1>1, FS_Interval
<1> QED BY <1>1, <1>2, <1>3

-----------------------------------------------------------------------------
(* The inductive invariant.                                                *)

LEMMA InvInit == Init => IInv
  BY RelayAssumption DEF Init, IInv, TypeOK, Ordered, Ends

LEMMA InvSendReceive == ASSUME IInv, SendReceive PROVE IInv'
<1> USE RelayAssumption DEF IInv
<1>0. /\ Other(turn) \in Ends /\ turn \in Ends /\ Other(turn) # turn
      /\ Free \in Int /\ Left \in Nat
  BY FreeType DEF TypeOK, Ends, Other, Left, Ordered
<1>1. CASE RecvData
  BY <1>0, <1>1 DEF RecvData, TypeOK, Ordered, Lesser
<1>2. CASE RecvNothing \/ RecvEnd \/ RecvError \/ SendWouldBlock \/ SendToGone
           \/ CloseOut \/ CloseIn
  BY <1>0, <1>2
  DEF NothingYet, GiveUp, RecvNothing, RecvEnd, RecvError, SendWouldBlock,
      SendToGone, CloseOut, CloseIn, stream, TypeOK, Ordered
<1>3. CASE SendNonblocking
  <2> DEFINE n == Lesser(Free, Left)
  <2>1. n \in Nat /\ SendOnce(n)
    BY <1>0, <1>3 DEF SendNonblocking, SendOnce, Lesser
  <2> HIDE DEF n
  <2>2. TypeOK'
    BY <1>0, <2>1 DEF SendOnce, NextHalf, TypeOK
  <2>3. Ordered'
    BY <1>0, <2>1 DEF SendOnce, NextHalf, TypeOK, Ordered
  <2> QED BY <2>2, <2>3
<1>4. CASE SendBlocking
  <2>1. TypeOK'
    BY <1>0, <1>4 DEF SendBlocking, SendMore, NextHalf, TypeOK, Lesser
  <2>2. Ordered'
    BY <1>0, <1>4 DEF SendBlocking, SendMore, NextHalf, TypeOK, Ordered, Lesser, Left
  <2> QED BY <2>1, <2>2
<1> QED BY <1>1, <1>2, <1>3, <1>4 DEF SendReceive

LEMMA InvPeers == ASSUME IInv, Peers PROVE IInv'
<1> USE RelayAssumption DEF IInv
<1>1. ASSUME NEW e \in Ends, Write(e) PROVE IInv'
  BY <1>1 DEF Write, TypeOK, Ordered
<1>2. ASSUME NEW e \in Ends, Read(e) PROVE IInv'
  BY <1>2 DEF Read, Queued, TypeOK, Ordered
<1>3. ASSUME NEW e \in Ends, Shut(e) \/ Leave(e) PROVE IInv'
  BY <1>3 DEF Shut, Leave, stream, TypeOK, Ordered
<1> QED BY <1>1, <1>2, <1>3 DEF Peers

LEMMA InvStep == IInv /\ [Next]_vars => IInv'
<1>1. CASE Over \/ UNCHANGED vars
  BY <1>1 DEF Over, vars, IInv, TypeOK, Ordered
<1> QED BY <1>1, InvSendReceive, InvPeers DEF Next

LEMMA Invariance == Spec => []IInv
  BY InvInit, InvStep, PTL DEF Spec

\* Every variable of the relay keeps its type.
THEOREM TypeCorrect == Spec => []TypeOK
<1>1. IInv => TypeOK
  BY DEF IInv
<1> QED BY <1>1, Invariance, PTL

-----------------------------------------------------------------------------
(* Refinement.                                                             *)

\* A nonblocking socket has room for all that will ever be sent to it.
RoomForAll == \A e \in Nonblock : Room[e] >= MaxBytes

Lossless == \A e \in Ends : lost[e] = {}

LEMMA LosslessInit == Init => Lossless
  BY DEF Init, Lossless

\* A send() with room for all that is ever written accepts the whole buffer.
LEMMA RoomyStep ==
  ASSUME IInv, [Next]_vars, NEW e \in Ends, Other(e) \in Nonblock => Room[Other(e)] >= MaxBytes,
         lost[e] = {}
  PROVE  lost'[e] = {}
<1>1. CASE SendNonblocking /\ e = turn
  <2>0. Other(e) \in Ends
    BY DEF Ends, Other
  <2>1. Free = Room[Other(e)] - (passed[e] - taken[e])
    BY <1>1, <2>0, QueuedLength DEF IInv, Free
  <2>2. Left <= Free /\ Left \in Nat /\ Free \in Int
    <3>1. /\ taken[e] \in Nat /\ passed[e] \in Nat /\ recvd[e] \in Nat
          /\ written[e] \in Nat /\ taken[e] <= passed[e]
          /\ passed[e] <= recvd[e] /\ recvd[e] <= written[e]
          /\ written[e] <= MaxBytes
      BY DEF IInv, TypeOK, Ordered
    <3>2. Room[Other(e)] \in Nat /\ Room[Other(e)] >= MaxBytes /\ MaxBytes \in Nat
      BY <1>1, <2>0, RelayAssumption DEF SendNonblocking
    <3> QED BY <1>1, <2>1, <3>1, <3>2 DEF Left
  <2>3. (passed[e] + Lesser(Free, Left) + 1)..recvd[e] = {}
    BY <1>1, <2>2 DEF Lesser, Left, IInv, TypeOK
  <2> QED BY <1>1, <2>3 DEF SendNonblocking, SendOnce, IInv, TypeOK
<1>2. CASE SendNonblocking /\ e # turn
  BY <1>2 DEF SendNonblocking, SendOnce, IInv, TypeOK
<1>3. CASE ~SendNonblocking
  BY <1>3
  DEF Next, SendReceive, Peers, Over, RecvData, RecvNothing, NothingYet, GiveUp, RecvEnd,
      RecvError, SendMore, SendWouldBlock, SendBlocking, SendToGone, CloseOut, CloseIn,
      Write, Read, Shut, Leave, stream, vars
<1> QED BY <1>1, <1>2, <1>3

LEMMA LosslessStep ==
  ASSUME RoomForAll PROVE IInv /\ Lossless /\ [Next]_vars => Lossless'
BY RoomyStep DEF RoomForAll, Lossless

LEMMA PipeInit == ASSUME Init PROVE P!Init
<1>1. \A e \in Ends : (1..taken[e]) \ lost[e] = {}
  BY DEF Init, Ends
<1> QED BY <1>1 DEF Init, P!Init, delivered, cut

\* A byte read by a peer is the next one of the stream.
LEMMA PipeRead ==
  ASSUME IInv, Lossless, NEW e \in Ends, Read(e) PROVE P!Deliver(e)
<1>1. PICK n \in Queued(e) : /\ \A m \in Queued(e) : n <= m
                             /\ taken' = [taken EXCEPT ![e] = n]
  BY DEF Read
<1>2. Queued(e) = (taken[e] + 1)..passed[e]
  BY DEF Queued, Lossless
<1>3. n = taken[e] + 1 /\ n \in 1..written[e]
  <2>1. /\ taken[e] \in Nat /\ passed[e] \in Nat /\ written[e] \in Nat
        /\ passed[e] <= written[e]
    BY DEF IInv, TypeOK, Ordered
  <2>2. n \in Int /\ taken[e] + 1 <= n /\ n <= passed[e]
    BY <1>1, <1>2, <2>1
  <2>3. taken[e] + 1 \in Queued(e)
    BY <1>2, <2>1, <2>2
  <2> QED BY <1>1, <2>1, <2>2, <2>3
<1>4. delivered[e] = 1..(n - 1)
  BY <1>3 DEF delivered, Lossless, IInv, TypeOK
<1>5. delivered' = [delivered EXCEPT ![e] = 1..n]
  BY <1>1 DEF Read, delivered, Lossless, IInv, TypeOK
<1>6. written' = written /\ cut' = cut
  BY DEF Read, cut
<1> QED BY <1>3, <1>4, <1>5, <1>6 DEF P!Deliver

\* A step that reads and writes no byte leaves the pipe as it is, or cuts it.
LEMMA PipeQuiet ==
  ASSUME IInv, Lossless, Lossless', written' = written, taken' = taken,
         cut => cut'
  PROVE  P!Cut \/ UNCHANGED P!vars
<1>1. delivered' = delivered
  BY DEF delivered, Lossless
<1>2. cut \in BOOLEAN /\ cut' \in BOOLEAN
  BY DEF cut
<1> QED BY <1>1, <1>2 DEF P!Cut, P!vars

LEMMA PipeStep ==
  ASSUME IInv, Lossless, Lossless', [Next]_vars PROVE [P!Next]_(P!vars)
<1>1. ASSUME NEW e \in Ends, Write(e) PROVE P!Write(e)
  BY <1>1 DEF Write, P!Write, delivered, cut
<1>2. ASSUME NEW e \in Ends, Read(e) PROVE P!Deliver(e)
  BY <1>2, PipeRead
<1>3. CASE SendReceive \/ Over \/ UNCHANGED vars
           \/ \E e \in Ends : Shut(e) \/ Leave(e)
  <2>1. written' = written /\ taken' = taken /\ (cut => cut')
    BY <1>3
    DEF SendReceive, Over, RecvData, RecvNothing, NothingYet, GiveUp, RecvEnd, RecvError,
        SendOnce, SendMore, SendNonblocking, SendWouldBlock, SendBlocking, SendToGone, NextHalf,
        CloseOut, CloseIn, Shut, Leave, stream, vars, cut
  <2> QED BY <2>1, PipeQuiet DEF P!Next
<1> QED BY <1>1, <1>2, <1>3 DEF Next, Peers, P!Next

\* Provided the nonblocking sockets have room for all that is written, what the
\* peers see through send_receive() is a pipe: nothing is lost, duplicated or
\* reordered in either direction, however recv(), send() and the peers
\* interleave and whatever room a blocking socket has.
THEOREM Refinement == RoomForAll => (Spec => ImplementsPipe)
<1> SUFFICES ASSUME RoomForAll PROVE Spec => ImplementsPipe
  OBVIOUS
<1>1. Init => P!Init
  BY PipeInit
<1>2. IInv /\ Lossless /\ [Next]_vars => Lossless'
  BY LosslessStep
<1>3. IInv /\ Lossless /\ Lossless' /\ [Next]_vars => [P!Next]_(P!vars)
  BY PipeStep
<1> QED
  BY <1>1, <1>2, <1>3, LosslessInit, Invariance, PTL
  DEF Spec, ImplementsPipe, P!Spec
-----------------------------------------------------------------------------
(* Towards a blocking socket nothing is lost, whatever room it has.        *)

Unlost == \A e \in Steady : lost[e] = {}

LEMMA UnlostStep == IInv /\ Unlost /\ [Next]_vars => Unlost'
<1> SUFFICES ASSUME IInv, Unlost, [Next]_vars PROVE Unlost'
  OBVIOUS
<1>1. CASE SendNonblocking
  BY <1>1 DEF SendNonblocking, SendOnce, Unlost, Steady, IInv, TypeOK
<1>2. CASE ~SendNonblocking
  <2>1. lost' = lost
    BY <1>2
    DEF Next, SendReceive, Peers, Over, RecvData, RecvNothing, NothingYet, GiveUp, RecvEnd,
        RecvError, SendMore, SendWouldBlock, SendBlocking, SendToGone, CloseOut, CloseIn,
        Write, Read, Shut, Leave, stream, vars
  <2> QED BY <2>1 DEF Unlost
<1> QED BY <1>1, <1>2

\* What the peer behind the blocking socket has read.
LEMMA SteadyDelivered ==
  ASSUME Unlost, NEW e \in Steady PROVE delivered[e] = 1..taken[e]
BY DEF Unlost, delivered, Steady

LEMMA SteadyRead ==
  ASSUME IInv, Unlost, NEW e \in Steady, Read(e) PROVE S!Deliver(e)
<1>0. e \in Ends /\ lost[e] = {} /\ Steady \subseteq Ends
  BY DEF Steady, Unlost
<1>1. PICK n \in Queued(e) : /\ \A m \in Queued(e) : n <= m
                             /\ taken' = [taken EXCEPT ![e] = n]
  BY DEF Read
<1>2. Queued(e) = (taken[e] + 1)..passed[e]
  BY <1>0 DEF Queued
<1>3. n = taken[e] + 1 /\ n \in 1..written[e]
  <2>1. /\ taken[e] \in Nat /\ passed[e] \in Nat /\ written[e] \in Nat
        /\ passed[e] <= written[e]
    BY <1>0 DEF IInv, TypeOK, Ordered
  <2>2. n \in Int /\ taken[e] + 1 <= n /\ n <= passed[e]
    BY <1>1, <1>2, <2>1
  <2>3. taken[e] + 1 \in Queued(e)
    BY <1>2, <2>1, <2>2
  <2> QED BY <1>1, <2>1, <2>2, <2>3
<1>4. delivered[e] = 1..(n - 1)
  BY <1>0, <1>3 DEF delivered, IInv, TypeOK
<1>5. \A d \in Ends : delivered'[d] = IF d = e THEN 1..n ELSE delivered[d]
  BY <1>0, <1>1 DEF Read, delivered, IInv, TypeOK
<1>6. [d \in Steady |-> delivered'[d]] = [[d \in Steady |-> delivered[d]] EXCEPT ![e] = 1..n]
  BY <1>0, <1>5
<1>7. written' = written /\ cut' = cut
  BY DEF Read, cut
<1> QED BY <1>0, <1>3, <1>4, <1>6, <1>7 DEF S!Deliver

LEMMA SteadyStep ==
  ASSUME IInv, Unlost, Unlost', [Next]_vars PROVE [S!Next]_(S!vars)
<1>0. Steady \subseteq Ends
  BY DEF Steady
<1>1. ASSUME NEW e \in Ends, Write(e) PROVE [S!Next]_(S!vars)
  <2>1. delivered' = delivered /\ cut' = cut /\ written' = [written EXCEPT ![e] = @ + 1]
    BY <1>1 DEF Write, delivered, cut
  <2>2. CASE e \in Steady
    <3>1. [d \in Steady |-> written'[d]]
            = [[d \in Steady |-> written[d]] EXCEPT ![e] = written[e] + 1]
      BY <1>0, <2>1, <2>2 DEF IInv, TypeOK
    <3> QED BY <2>1, <2>2, <3>1 DEF S!Write, S!Next
  <2>3. CASE e \notin Steady
    <3>1. \A d \in Steady : written'[d] = written[d]
      BY <1>0, <2>1, <2>3 DEF IInv, TypeOK
    <3> QED BY <2>1, <3>1 DEF S!vars
  <2> QED BY <2>2, <2>3
<1>2. ASSUME NEW e \in Ends, Read(e) PROVE [S!Next]_(S!vars)
  <2>1. CASE e \in Steady
    BY <1>2, <2>1, SteadyRead DEF S!Next
  <2>2. CASE e \notin Steady
    <3>1. \A d \in Steady : delivered'[d] = delivered[d]
      BY <1>0, <1>2, <2>2 DEF Read, delivered, IInv, TypeOK
    <3>2. written' = written /\ cut' = cut
      BY <1>2 DEF Read, cut
    <3> QED BY <3>1, <3>2 DEF S!vars
  <2> QED BY <2>1, <2>2
<1>3. CASE SendReceive \/ Over \/ UNCHANGED vars
           \/ \E e \in Ends : Shut(e) \/ Leave(e)
  <2>1. written' = written /\ taken' = taken /\ (cut => cut')
    BY <1>3
    DEF SendReceive, Over, RecvData, RecvNothing, NothingYet, GiveUp, RecvEnd, RecvError,
        SendOnce, SendMore, SendNonblocking, SendWouldBlock, SendBlocking, SendToGone, NextHalf,
        CloseOut, CloseIn, Shut, Leave, stream, vars, cut
  <2>2. \A d \in Steady : delivered'[d] = delivered[d]
    <3>1. \A d \in Steady : delivered[d] = 1..taken[d] /\ lost'[d] = {}
      BY SteadyDelivered DEF Unlost
    <3> QED BY <1>0, <2>1, <3>1 DEF delivered
  <2>3. cut \in BOOLEAN /\ cut' \in BOOLEAN
    BY DEF cut
  <2> QED BY <2>1, <2>2, <2>3 DEF S!Next, S!Cut, S!vars
<1> QED BY <1>1, <1>2, <1>3 DEF Next, Peers

\* Towards a blocking socket send_receive() is a pipe, with any room in either
\* socket: what is dropped in the other direction does not disturb this one.
THEOREM SteadyRefinement == Spec => PipeToBlocking
<1>1. Init => Unlost /\ S!Init
  <2> SUFFICES ASSUME Init PROVE Unlost /\ S!Init
    OBVIOUS
  <2>1. \A d \in Steady : lost[d] = {} /\ written[d] = 0 /\ delivered[d] = {}
    BY DEF Init, Steady, delivered
  <2> QED BY <2>1 DEF Init, Unlost, S!Init, cut
<1>2. IInv /\ Unlost /\ Unlost' /\ [Next]_vars => [S!Next]_(S!vars)
  BY SteadyStep
<1> QED
  BY <1>1, <1>2, UnlostStep, Invariance, PTL DEF Spec, PipeToBlocking, S!Spec

-----------------------------------------------------------------------------
(* What has been read or waits when a peer shuts its side down.            *)

\* Nothing for a peer behind a blocking or a roomy socket is dropped.
Kept == \A e \in Whole : lost[e] = {}

LEMMA KeptStep == IInv /\ Kept /\ [Next]_vars => Kept'
<1> SUFFICES ASSUME IInv, Kept, [Next]_vars, NEW e \in Whole PROVE lost'[e] = {}
  BY DEF Kept
<1> QED BY RoomyStep DEF Kept, Whole

\* send_receive() closes no connection that a peer shuts down in order before
\* the other peer has read, or has in its socket, every byte written, whatever
\* the sizes, provided that socket is blocking or has room for all of them.
THEOREM Drained == Spec => DrainedBeforeClose
<1> DEFINE Closing == pc = "recv" /\ cut' /\ peer[turn] = "half" /\ turn \in Whole
           Arrived == 1..written[turn] = delivered[turn] \cup Queued(turn)
<1>1. IInv /\ Kept /\ [Next]_vars => [Closing => Arrived]_vars
  <2> SUFFICES ASSUME IInv, Kept, Next, Closing PROVE Arrived
    OBVIOUS
  <2>1. RecvEnd
    BY DEF Next, SendReceive, Peers, Over, RecvData, RecvNothing, NothingYet, RecvError,
           SendNonblocking, SendOnce, SendWouldBlock, SendBlocking, SendMore, SendToGone, CloseOut,
           CloseIn, Write, Read, Shut, Leave, cut
  <2>2. /\ turn \in Ends /\ lost[turn] = {}
        /\ passed[turn] = written[turn]
        /\ written[turn] \in Nat /\ taken[turn] \in Nat /\ taken[turn] <= passed[turn]
    BY <2>1 DEF RecvEnd, IInv, Ordered, TypeOK, Kept, Whole
  <2>3. /\ delivered[turn] = 1..taken[turn]
        /\ Queued(turn) = (taken[turn] + 1)..written[turn]
    BY <2>2 DEF delivered, Queued
  <2> QED BY <2>2, <2>3
<1>2. Init => Kept
  BY DEF Init, Kept, Whole
<1> QED BY <1>1, <1>2, KeptStep, Invariance, PTL DEF Spec, DrainedBeforeClose

-----------------------------------------------------------------------------
(* Why a connection is given up: a socket never holds more than its room,  *)
(* so that a send() with no room means that it is full.                    *)

Fits == \A e \in Ends : Cardinality(Queued(e)) <= Room[Other(e)]

LEMMA OtherEnd ==
  ASSUME NEW e \in Ends PROVE Other(e) \in Ends /\ Other(e) # e /\ Other(Other(e)) = e
BY DEF Ends, Other

LEMMA QueuedFinite == ASSUME IInv, NEW e \in Ends PROVE IsFiniteSet(Queued(e))
<1>1. taken[e] + 1 \in Int /\ passed[e] \in Int
  BY DEF IInv, TypeOK
<1>2. IsFiniteSet((taken[e] + 1)..passed[e])
  BY <1>1, FS_Interval
<1> QED BY <1>2, FS_Subset DEF Queued

\* Bytes taken out of a socket, or none put in.
LEMMA FitsLess ==
  ASSUME IInv, Fits, IInv', \A e \in Ends : Queued(e)' \subseteq Queued(e) PROVE Fits'
<1> SUFFICES ASSUME NEW e \in Ends PROVE Cardinality(Queued(e)') <= Room[Other(e)]
  BY DEF Fits
<1>1. IsFiniteSet(Queued(e))
  BY QueuedFinite
<1>2. IsFiniteSet(Queued(e)') /\ Cardinality(Queued(e)') <= Cardinality(Queued(e))
  BY <1>1, FS_Subset
<1>3. Cardinality(Queued(e)') \in Nat /\ Cardinality(Queued(e)) \in Nat
  BY <1>1, <1>2, FS_CardinalityType
<1> QED BY <1>2, <1>3, OtherEnd, RelayAssumption DEF Fits

LEMMA SpanLength ==
  ASSUME NEW p \in Nat, NEW n \in Nat
  PROVE  IsFiniteSet((p + 1)..(p + n)) /\ Cardinality((p + 1)..(p + n)) = n
<1>1. p + 1 \in Int /\ p + n \in Int
  OBVIOUS
<1>2. IsFiniteSet((p + 1)..(p + n))
  BY <1>1, FS_Interval
<1>3. Cardinality((p + 1)..(p + n)) = IF p + 1 > p + n THEN 0 ELSE p + n - (p + 1) + 1
  BY <1>1, FS_Interval
<1> QED BY <1>2, <1>3

\* n bytes, for which there is room, put into the socket opposite the end served.
LEMMA FitsMore ==
  ASSUME IInv, Fits, NEW n \in Nat, n <= Free, NEW d \in Ends, d = turn,
         Queued(d)' \subseteq Queued(d) \cup ((passed[d] + 1)..(passed[d] + n)),
         \A e \in Ends \ {d} : Queued(e)' = Queued(e)
  PROVE  Fits'
<1>0. passed[d] \in Nat /\ Room[Other(d)] \in Nat
  BY OtherEnd, RelayAssumption DEF IInv, TypeOK
<1> DEFINE old == Queued(d)
           new == (passed[d] + 1)..(passed[d] + n)
<1>1. IsFiniteSet(old) /\ Cardinality(old) \in Nat
  BY <1>0, QueuedFinite, FS_CardinalityType
<1>2. IsFiniteSet(new) /\ Cardinality(new) = n
  BY <1>0, SpanLength
<1> HIDE DEF old, new
<1>3. /\ IsFiniteSet(old \cup new)
      /\ Cardinality(old \cup new) = Cardinality(old) + Cardinality(new)
                                     - Cardinality(old \cap new)
  BY <1>1, <1>2, FS_Union
<1>4. Cardinality(old \cap new) \in Nat
  <2>1. IsFiniteSet(old \cap new)
    BY <1>1, FS_Intersection
  <2> QED BY <2>1, FS_CardinalityType
<1>5. Cardinality(Queued(d)') <= Cardinality(old \cup new)
      /\ Cardinality(Queued(d)') \in Nat
  <2>1. Queued(d)' \subseteq old \cup new
    BY DEF old, new
  <2> QED BY <1>3, <2>1, FS_Subset, FS_CardinalityType
<1>6. Cardinality(old) + n <= Room[Other(d)]
  BY <1>0, <1>1 DEF Free, old
<1>7. Cardinality(Queued(d)') <= Room[Other(d)]
  BY <1>0, <1>1, <1>2, <1>3, <1>4, <1>5, <1>6
<1> QED BY <1>7 DEF Fits

LEMMA FitsStep == IInv /\ IInv' /\ Fits /\ [Next]_vars => Fits'
<1> SUFFICES ASSUME IInv, IInv', Fits, [Next]_vars PROVE Fits'
  OBVIOUS
<1>0. /\ turn \in Ends /\ Free \in Int /\ Left \in Nat
      /\ passed[turn] \in Nat /\ recvd[turn] \in Nat
  BY FreeType DEF IInv, TypeOK, Left, Ordered
<1>d. PICK d \in Ends : d = turn
  BY <1>0
<1>1. CASE SendNonblocking
  <2> DEFINE n == Lesser(Free, Left)
  <2>1. n \in Nat /\ n <= Free /\ SendOnce(n)
    BY <1>0, <1>1 DEF SendNonblocking, SendOnce, Lesser
  <2> HIDE DEF n
  <2>2. Queued(d)' \subseteq Queued(d) \cup ((passed[d] + 1)..(passed[d] + n))
    <3>1. /\ passed'[d] = recvd[d] /\ taken' = taken
          /\ lost'[d] = lost[d] \cup ((passed[d] + n + 1)..recvd[d])
          /\ taken[d] \in Nat
      BY <1>0, <1>d, <2>1 DEF SendOnce, IInv, TypeOK
    <3> QED BY <1>0, <1>d, <2>1, <3>1 DEF Queued
  <2>3. \A e \in Ends \ {d} : Queued(e)' = Queued(e)
    BY <1>d, <2>1 DEF SendOnce, Queued, IInv, TypeOK
  <2> QED BY <1>d, <2>1, <2>2, <2>3, FitsMore
<1>2. CASE SendBlocking
  <2> DEFINE n == Lesser(Free, Left)
  <2>1. n \in Nat /\ n <= Free /\ SendMore /\ passed' = [passed EXCEPT ![turn] = @ + n]
    BY <1>0, <1>2 DEF SendBlocking, SendMore, Lesser
  <2> HIDE DEF n
  <2>2. Queued(d)' \subseteq Queued(d) \cup ((passed[d] + 1)..(passed[d] + n))
    <3>1. passed'[d] = passed[d] + n /\ taken' = taken /\ lost' = lost
          /\ taken[d] \in Nat
      BY <1>0, <1>d, <2>1 DEF SendMore, IInv, TypeOK
    <3> QED BY <1>0, <1>d, <2>1, <3>1 DEF Queued
  <2>3. \A e \in Ends \ {d} : Queued(e)' = Queued(e)
    BY <1>d, <2>1 DEF SendMore, Queued, IInv, TypeOK
  <2> QED BY <1>d, <2>1, <2>2, <2>3, FitsMore
<1>3. ASSUME NEW e \in Ends, Read(e) PROVE Fits'
  <2>1. PICK n \in Queued(e) : taken' = [taken EXCEPT ![e] = n]
    BY <1>3 DEF Read
  <2>2. /\ taken[e] \in Nat /\ passed[e] \in Nat /\ n \in taken[e] + 1 .. passed[e]
        /\ passed' = passed /\ lost' = lost
    BY <1>3, <2>1 DEF Read, Queued, IInv, TypeOK
  <2>3. ASSUME NEW c \in Ends PROVE Queued(c)' \subseteq Queued(c)
    <3>1. taken'[c] \in Nat /\ taken[c] \in Nat /\ passed[c] \in Nat /\ taken[c] <= taken'[c]
      BY <2>1, <2>2 DEF IInv, TypeOK
    <3> QED BY <2>2, <3>1 DEF Queued
  <2> QED BY <2>3, FitsLess
<1>4. CASE UNCHANGED <<passed, lost, taken>>
  BY <1>4, FitsLess DEF Queued
<1>5. SendNonblocking \/ SendBlocking \/ (\E e \in Ends : Read(e))
      \/ UNCHANGED <<passed, lost, taken>>
  BY DEF Next, SendReceive, Peers, Over, RecvData, RecvNothing, NothingYet, GiveUp, RecvEnd,
         RecvError, SendWouldBlock, SendToGone, CloseOut, CloseIn, Write, Shut, Leave,
         stream, vars
<1> QED BY <1>1, <1>2, <1>3, <1>4, <1>5

LEMMA FitsInit == Init => Fits
<1> SUFFICES ASSUME Init PROVE Fits
  OBVIOUS
<1>1. \A e \in Ends : Queued(e) = {}
  BY DEF Init, Queued
<1> QED BY <1>1, FS_EmptySet, OtherEnd, RelayAssumption DEF Fits

\* send_receive() gives a connection up only because a peer has ended its side
\* or a nonblocking socket is full, for any sizes: an empty recv() never ends it.
THEOREM GivenUpForCause == Spec => ClosedForCause
<1> DEFINE Cause == \/ \E e \in Ends : peer[e] # "open"
                    \/ \E e \in Nonblock : Cardinality(Queued(Other(e))) = Room[e]
<1>1. IInv /\ Fits /\ [Next]_vars => [~cut /\ cut' => Cause]_vars
  <2> SUFFICES ASSUME IInv, Fits, Next, ~cut, cut' PROVE Cause
    OBVIOUS
  <2>0. turn \in Ends /\ Other(turn) \in Ends
    BY OtherEnd DEF IInv, TypeOK
  <2>1. RecvEnd \/ RecvError \/ SendWouldBlock \/ SendToGone
    BY DEF Next, SendReceive, Peers, Over, RecvData, RecvNothing, NothingYet, SendNonblocking,
           SendOnce, SendBlocking, SendMore, NextHalf, CloseOut, CloseIn, Write, Read, Shut,
           Leave, stream, vars, cut
  <2>2. CASE RecvEnd \/ RecvError \/ SendToGone
    <3>1. peer[turn] # "open" \/ peer[Other(turn)] # "open"
      BY <2>2 DEF RecvEnd, RecvError, SendToGone
    <3> QED BY <2>0, <3>1
  <2>3. CASE SendWouldBlock
    <3>1. Other(turn) \in Nonblock /\ Free <= 0 /\ Other(Other(turn)) = turn
      BY <2>0, <2>3, OtherEnd DEF SendWouldBlock
    <3>2. Room[Other(turn)] \in Nat /\ Cardinality(Queued(turn)) \in Nat
      BY <2>0, QueuedType, RelayAssumption DEF IInv
    <3>3. Cardinality(Queued(turn)) = Room[Other(turn)]
      BY <2>0, <3>1, <3>2 DEF Fits, Free
    <3> QED BY <3>1, <3>3
  <2> QED BY <2>1, <2>2, <2>3
<1> QED
  BY <1>1, FitsInit, FitsStep, Invariance, PTL DEF Spec, ClosedForCause
=============================================================================
