----------------------------- MODULE MCKvmHook ------------------------------
(***************************************************************************)
(* Instances of KvmHook for TLC: two vCPUs that use one general register,  *)
(* registers with a slot, two of them with the same CRm, and one without.  *)
(***************************************************************************)
EXTENDS KvmHook

CONSTANTS v, w, x

MCVCpus == {v, w}
MCNames == {<<0, 13>>, <<1, 13>>, <<0, 0>>}
MCRegs == {0}
MCValues == {0, x}
=============================================================================
