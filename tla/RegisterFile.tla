---------------------------- MODULE RegisterFile ----------------------------
(***************************************************************************)
(* What xnu-kvm promises to the guest: some system registers are a memory  *)
(* of one value each, shared by the vCPUs; a vCPU's access to one is done  *)
(* at one moment between the start and the end of the instruction.  They   *)
(* are zero again when the module is loaded again.                         *)
(***************************************************************************)
EXTENDS Integers

CONSTANTS
  VCpus,
  Custom,   \* the registers that are memory
  Regs,     \* general registers, XZR not among them
  XZR,      \* the register that reads as Zero and takes no value
  Values, Zero,
  None      \* no access under way

VARIABLES
  file,     \* contents of the custom registers
  gpr,      \* each vCPU's general registers
  access    \* each vCPU's access: what, and whether it has taken effect

vars == <<file, gpr, access>>

Ops == [reg : Custom, write : BOOLEAN, rt : Regs \cup {XZR}]

Init ==
  /\ file = [r \in Custom |-> Zero]
  /\ gpr \in [VCpus -> [Regs -> Values]]
  /\ access = [v \in VCpus |-> None]

Begin(v) ==
  /\ access[v] = None
  /\ \E o \in Ops : access' = [access EXCEPT ![v] = [op |-> o, done |-> FALSE]]
  /\ UNCHANGED <<file, gpr>>

Effect(v, o) ==
  /\ access[v] = [op |-> o, done |-> FALSE]
  /\ access' = [access EXCEPT ![v] = [op |-> o, done |-> TRUE]]
  /\ IF o.write
     THEN /\ file' = [file EXCEPT ![o.reg] = IF o.rt = XZR THEN Zero ELSE gpr[v][o.rt]]
          /\ UNCHANGED gpr
     ELSE /\ gpr' = IF o.rt = XZR THEN gpr ELSE [gpr EXCEPT ![v][o.rt] = file[o.reg]]
          /\ UNCHANGED file

End(v) ==
  /\ access[v] # None /\ access[v].done
  /\ access' = [access EXCEPT ![v] = None]
  /\ UNCHANGED <<file, gpr>>

\* The guest computes.
Compute(v) ==
  /\ access[v] = None
  /\ \E r \in Regs, x \in Values : gpr' = [gpr EXCEPT ![v][r] = x]
  /\ UNCHANGED <<file, access>>

\* The module that keeps the registers is loaded anew.
Reset ==
  /\ access = [v \in VCpus |-> None]
  /\ file' = [r \in Custom |-> Zero]
  /\ UNCHANGED <<gpr, access>>

Next == Reset \/ \E v \in VCpus : Begin(v) \/ (\E o \in Ops : Effect(v, o)) \/ End(v) \/ Compute(v)

Spec == Init /\ [][Next]_vars
=============================================================================
