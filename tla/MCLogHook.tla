------------------------------ MODULE MCLogHook ------------------------------
(***************************************************************************)
(* Instances of LogHook for TLC: threads of both hooks.                    *)
(***************************************************************************)
EXTENDS LogHook

CONSTANTS a, b, c

MCThreads == {a, b, c}
MCKmsg == {a, b}
MCMutexes == {"m1", "m2", "m3"}
=============================================================================
