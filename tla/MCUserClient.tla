---------------------------- MODULE MCUserClient ----------------------------
(***************************************************************************)
(* Instances of UserClient for TLC: threads, ports and callbacks, which    *)
(* are interchangeable.                                                    *)
(***************************************************************************)
EXTENDS UserClient, TLC

CONSTANTS a, b, p, q, c1, c2

MCThreads == {a, b}
MCPorts == {p, q}
MCCallbacks == {c1, c2}
MCSymmetry ==
  Permutations(MCThreads) \cup Permutations(MCPorts) \cup Permutations(MCCallbacks)
=============================================================================
