------------------------------- MODULE MCRelay -------------------------------
(***************************************************************************)
(* Instances of Relay for TLC.                                             *)
(***************************************************************************)
EXTENDS Relay

\* Both sockets nonblocking (accept() inherits the flag), or only "out".
MCBoth == Ends
MCOutOnly == {"out"}

\* Room for everything a peer writes, or for one byte.
MCRoomy == [e \in Ends |-> 3]
MCTight == [e \in Ends |-> 1]
=============================================================================
