-------------------------------- MODULE Pipe --------------------------------
(***************************************************************************)
(* What a tunnelled TCP connection promises its two peers: in each         *)
(* direction the bytes delivered are the bytes written, in order and with  *)
(* none missing, until the connection is cut; once cut it stays cut.       *)
(* Bytes are named by their position in the stream, and a direction by the *)
(* end whose peer writes it.                                               *)
(***************************************************************************)
EXTENDS Integers

CONSTANTS
  Ends,
  MaxBytes \* bound on the bytes EveryByteArrives speaks of

VARIABLES written,   \* how many bytes have been written
          delivered, \* the positions of those the other peer has read
          cut        \* whether the connection has been given up

vars == <<written, delivered, cut>>

Init ==
  /\ written = [d \in Ends |-> 0]
  /\ delivered = [d \in Ends |-> {}]
  /\ cut = FALSE

Write(d) ==
  /\ written' = [written EXCEPT ![d] = @ + 1]
  /\ UNCHANGED <<delivered, cut>>

Deliver(d) ==
  /\ \E n \in 1..written[d] :
       /\ delivered[d] = 1..(n - 1)
       /\ delivered' = [delivered EXCEPT ![d] = 1..n]
  /\ UNCHANGED <<written, cut>>

Cut ==
  /\ ~cut
  /\ cut' = TRUE
  /\ UNCHANGED <<written, delivered>>

Next == Cut \/ \E d \in Ends : Write(d) \/ Deliver(d)

Spec == Init /\ [][Next]_vars

\* Every byte written is delivered unless the connection is cut.
EveryByteArrives ==
  \A d \in Ends, n \in 1..MaxBytes :
    written[d] >= n ~> n \in delivered[d] \/ cut
=============================================================================
