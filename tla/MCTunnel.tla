------------------------------ MODULE MCTunnel ------------------------------
(***************************************************************************)
(* An instance of Tunnel for TLC: two tunnels of the same direction, which *)
(* compete for the emulator's table.  The first is daemonized and receives *)
(* the signals, and the second has to go on.                               *)
(***************************************************************************)
EXTENDS Tunnel, TLC

CONSTANTS p1, p2

MCTwo == {p1, p2}
MCOne == {p1}
MCFds == 0..2
MCSignals == (p1 :> (HandledSignals \cup {"SIGPIPE"})) @@ (p2 :> {})
=============================================================================
