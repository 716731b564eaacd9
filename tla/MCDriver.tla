------------------------------ MODULE MCDriver ------------------------------
(***************************************************************************)
(* Instances of Driver for TLC: two threads that call the hooked function, *)
(* one other kernel thread.                                                *)
(***************************************************************************)
EXTENDS Driver

CONSTANTS a, b, k

MCCallers == {a, b}
MCKernel == {k}
=============================================================================
