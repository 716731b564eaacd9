------------------------------ MODULE KvmHook -------------------------------
(***************************************************************************)
(* xnu-kvm-lkm (xnu-kvm.c): a module of the host's Linux kernel that puts  *)
(* two hooks into KVM's table of exit handlers.  The first emulates twelve *)
(* system registers in custom_cpregs, which all vCPUs share, the second    *)
(* hands hypercalls with a number to user space; both leave the rest to    *)
(* the handler they replace.  vCPUs trap while the module is loaded and    *)
(* unloaded.                                                               *)
(*                                                                         *)
(* The program counter of a guest is counted in instructions from the one  *)
(* it trapped on; an argument of a hypercall is named by the register it   *)
(* comes from.                                                             *)
(***************************************************************************)
EXTENDS Integers

CONSTANTS
  VCpus,
  Names,   \* system registers the guest accesses: pairs of Op1 and CRm
  Regs,    \* general registers the guest uses, 31 not among them
  Values,  \* contents of a register
  Zero,    \* the value 0
  None     \* nothing

XZR == 31

\* The registers with Op0 = 3 and CRn = 15 that have a slot in custom_cpregs, in
\* the order of the slots; Op2 is not looked at.
Slots == << <<0, 3>>, <<0, 4>>, <<0, 5>>, <<0, 7>>, <<0, 8>>, <<0, 13>>,
            <<1, 0>>, <<1, 1>>, <<1, 13>>, <<2, 0>>, <<2, 1>>, <<3, 0>> >>

\* Mutant of Slot: CRm alone selects the slot.
SlotOfCRm(r) == CHOOSE s \in DOMAIN Slots : Slots[s][2] = r[2]

Slot(r)  == CHOOSE s \in DOMAIN Slots : Slots[s] = r
Custom   == {r \in Names : \E s \in DOMAIN Slots : Slots[s] = r}
Kinds    == {"sys", "hvc"}

\* What a guest may trap on.
SysTraps == [kind : {"sys"}, reg : Names, write : BOOLEAN, rt : Regs \cup {XZR}]
HvcTraps == [kind : {"hvc"}, numbered : BOOLEAN]

ASSUME KvmAssumption ==
  /\ Names \subseteq (0..7) \X (0..15)
  /\ Regs \subseteq 0..30
  /\ Zero \in Values
  /\ None \notin SysTraps \cup HvcTraps
  /\ None \notin [op : [reg : Names, write : BOOLEAN, rt : Regs \cup {XZR}], done : BOOLEAN]

VARIABLES
  pc,      \* where each vCPU is: in the guest, or in a handler
  trap,    \* what it trapped on
  gpr,     \* its general registers
  regval,  \* params.regval
  ahead,   \* its program counter, from the instruction it trapped on last
  cpregs,  \* custom_cpregs
  call,    \* run->hypercall.args, by the registers they come from
  table,   \* arm_exit_handlers: the kernel's handler or the hook
  saved,   \* kvm_handle_sys_reg_orig and kvm_handle_hvc_orig
  mod,     \* where the module is in its life
  oops     \* whether the kernel has faulted

module == <<table, saved, mod, oops>>
vars == <<pc, trap, gpr, regval, ahead, cpregs, call, module>>

Init ==
  /\ pc = [v \in VCpus |-> "guest"]
  /\ trap = [v \in VCpus |-> None]
  /\ gpr \in [VCpus -> [Regs -> Values]]
  /\ regval = [v \in VCpus |-> Zero]
  /\ ahead = [v \in VCpus |-> 1]
  /\ cpregs = [s \in DOMAIN Slots |-> Zero]
  /\ call = [v \in VCpus |-> None]
  /\ table = [k \in Kinds |-> "kernel"]
  /\ saved = [k \in Kinds |-> None]
  /\ mod = "out"
  /\ oops = FALSE

Goto(v, from, to) ==
  /\ ~oops
  /\ pc[v] = from
  /\ pc' = [pc EXCEPT ![v] = to]

-----------------------------------------------------------------------------
(* The guest and KVM.                                                      *)

\* A trapped access leaves the program counter at the instruction, a hypercall
\* after it.
Trap(v) ==
  /\ Goto(v, "guest", "exit")
  /\ \E t \in SysTraps \cup HvcTraps :
       /\ trap' = [trap EXCEPT ![v] = t]
       /\ ahead' = [ahead EXCEPT ![v] = IF t.kind = "hvc" THEN 1 ELSE 0]
  /\ UNCHANGED <<gpr, regval, cpregs, call, module>>

\* KVM takes the handler from the table.
Dispatch(v) ==
  /\ Goto(v, "exit", IF table[trap[v].kind] = "hook" THEN "hook" ELSE "kernel")
  /\ UNCHANGED <<trap, gpr, regval, ahead, cpregs, call, module>>

\* KVM's own handler: it passes over an access it emulates or refuses.
Handle(v) ==
  /\ Goto(v, "kernel", "guest")
  /\ trap' = [trap EXCEPT ![v] = None]
  /\ ahead' = [ahead EXCEPT ![v] = IF trap[v].kind = "sys" THEN @ + 1 ELSE @]
  /\ UNCHANGED <<gpr, regval, cpregs, call, module>>

\* QEMU has served the hypercall and runs the vCPU again.
Serve(v) ==
  /\ Goto(v, "user", "guest")
  /\ trap' = [trap EXCEPT ![v] = None]
  /\ call' = [call EXCEPT ![v] = None]
  /\ UNCHANGED <<gpr, regval, ahead, cpregs, module>>

\* Between two traps the guest changes its registers.
Compute(v) ==
  /\ Goto(v, "guest", "guest")
  /\ \E r \in Regs, x \in Values : gpr[v][r] # x /\ gpr' = [gpr EXCEPT ![v][r] = x]
  /\ UNCHANGED <<trap, ahead, regval, cpregs, call, module>>

-----------------------------------------------------------------------------
(* The hooks.                                                              *)

\* kvm_handle_sys_reg_hook up to the switch: to the slot, or to the handler it
\* replaces.
DecodeSys(v) ==
  /\ trap[v] # None /\ trap[v].kind = "sys"
  /\ Goto(v, "hook", IF trap[v].reg \in Custom THEN "slot"
                     ELSE IF saved["sys"] = "hook" THEN "hook" ELSE "kernel")
  /\ regval' = [regval EXCEPT ![v] = IF trap[v].reg \notin Custom \/ trap[v].rt = XZR
                                     THEN Zero ELSE gpr[v][trap[v].rt]]
  /\ UNCHANGED <<trap, gpr, ahead, cpregs, call, module>>

\* vcpu_set_reg() from the slot, or the slot from regval.
ReadSlot(v) ==
  /\ Goto(v, "slot", "advance")
  /\ ~trap[v].write
  /\ gpr' = IF trap[v].rt = XZR THEN gpr
            ELSE [gpr EXCEPT ![v][trap[v].rt] = cpregs[Slot(trap[v].reg)]]
  /\ UNCHANGED <<trap, ahead, regval, cpregs, call, module>>

StoreSlot(v, x) ==
  /\ Goto(v, "slot", "advance")
  /\ trap[v].write
  /\ cpregs' = [cpregs EXCEPT ![Slot(trap[v].reg)] = x]
  /\ UNCHANGED <<trap, gpr, regval, ahead, call, module>>

\* Mutant of WriteSlot: the number of the register for its contents.
WriteNumber(v) == StoreSlot(v, trap[v].rt)

WriteSlot(v) == StoreSlot(v, regval[v])

\* The program counter moves past the instruction; 1 returns to the guest.
AdvanceTo(v, to) ==
  /\ Goto(v, "advance", to)
  /\ trap' = IF to = "guest" THEN [trap EXCEPT ![v] = None] ELSE trap
  /\ ahead' = [ahead EXCEPT ![v] = @ + 1]
  /\ regval' = [regval EXCEPT ![v] = Zero]
  /\ UNCHANGED <<gpr, cpregs, call, module>>

\* Mutant of Advance: after the switch control falls through to kvm_impl.
AdvanceAndFall(v) == AdvanceTo(v, "kernel")

Advance(v) == AdvanceTo(v, "guest")

\* kvm_handle_hvc_hook: a numbered hypercall goes to user space; the last
\* assignment is to args[0] again.
HookHvc(v) ==
  /\ trap[v] # None /\ trap[v].kind = "hvc"
  /\ Goto(v, "hook", IF trap[v].numbered THEN "user"
                     ELSE IF saved["hvc"] = "hook" THEN "hook" ELSE "kernel")
  /\ call' = IF trap[v].numbered
             THEN [call EXCEPT ![v] = [i \in 0..5 |-> IF i = 0 THEN 5 ELSE IF i = 5 THEN None ELSE i]]
             ELSE call
  /\ UNCHANGED <<trap, gpr, regval, ahead, cpregs, module>>

RunVCpu(v) ==
  \/ Dispatch(v) \/ Handle(v) \/ Serve(v)
  \/ DecodeSys(v) \/ ReadSlot(v) \/ WriteSlot(v) \/ Advance(v) \/ HookHvc(v)

-----------------------------------------------------------------------------
(* The life of the module.                                                 *)

InHook(v) == pc[v] \in {"hook", "slot", "advance"}
cpus == <<pc, trap, gpr, regval, ahead, call>>

Phase(from, to, newTable, newSaved) ==
  /\ ~oops
  /\ mod = from /\ mod' = to
  /\ table' = newTable
  /\ saved' = newSaved
  /\ UNCHANGED cpus

\* insmod: custom_cpregs of a fresh copy of the module.  kallsyms_lookup_name
\* finds the table and both handlers are saved, or it does not.
Insert(newSaved) ==
  /\ Phase("out", "saved", table, newSaved)
  /\ cpregs' = [s \in DOMAIN Slots |-> Zero]
  /\ UNCHANGED oops

\* Mutant of Load: the handlers are not saved.
LoadUnsaved == Insert(saved)

Load == Insert(table)

\* The table is not found: 1 is not an error to Linux, which keeps the module.
LoadNoTable == Phase("out", "hollow", table, saved) /\ UNCHANGED <<cpregs, oops>>

\* disable_protection() walks the page table of the handler table; if a level
\* is missing init returns 2, which is not an error to Linux either.
Unprotect ==
  /\ Phase("saved", "writable", table, saved) \/ Phase("saved", "hollow", table, saved)
  /\ UNCHANGED <<cpregs, oops>>

Put(from, to, kind, handler) ==
  Phase(from, to, [table EXCEPT ![kind] = handler], saved) /\ UNCHANGED <<cpregs, oops>>

SetSys == Put("writable", "half set", "sys", "hook")
SetHvc == Put("half set", "live", "hvc", "hook")

\* kvm_enhancer_exit of a module without hooks writes to a table it does not
\* have or may not write to.
UnloadHollow ==
  Phase("hollow", "hollow", table, saved) /\ oops' = TRUE /\ UNCHANGED cpregs

\* Mutant of RestoreHvc: the second handler is forgotten.
RestoreNothing == Put("half restored", "restored", "hvc", "hook")

RestoreSys == Put("live", "half restored", "sys", saved["sys"])
RestoreHvc == Put("half restored", "restored", "hvc", saved["hvc"])

\* Linux frees the module: a vCPU still in a hook runs code that is gone.
Free ==
  /\ Phase("restored", "out", table, [k \in Kinds |-> None])
  /\ oops' = \E v \in VCpus : InHook(v)
  /\ UNCHANGED cpregs

Module ==
  \/ Load \/ LoadNoTable \/ Unprotect \/ SetSys \/ SetHvc
  \/ UnloadHollow \/ RestoreSys \/ RestoreHvc \/ Free

\* The kernel has faulted.
Dead == oops /\ UNCHANGED vars

Next == Dead \/ Module \/ \E v \in VCpus : Trap(v) \/ Compute(v) \/ RunVCpu(v)

Spec == Init /\ [][Next]_vars

\* A vCPU that has left the guest is run on by KVM and by QEMU.
FairSpec == Spec /\ \A v \in VCpus : WF_vars(RunVCpu(v))

-----------------------------------------------------------------------------
(* Properties.                                                             *)

TypeOK ==
  /\ pc \in [VCpus -> {"guest", "exit", "kernel", "user", "hook", "slot", "advance"}]
  /\ trap \in [VCpus -> SysTraps \cup HvcTraps \cup {None}]
  /\ gpr \in [VCpus -> [Regs -> Values]]
  /\ regval \in [VCpus -> Values]
  /\ ahead \in [VCpus -> Nat]
  /\ cpregs \in [DOMAIN Slots -> Values]
  /\ table \in [Kinds -> {"kernel", "hook"}]
  /\ saved \in [Kinds -> {"kernel", "hook", None}]
  /\ mod \in {"out", "hollow", "saved", "writable", "half set", "live",
             "half restored", "restored"}
  /\ oops \in BOOLEAN

\* As long as the kernel has not faulted, a vCPU in a hook can fall back on the
\* kernel's handler, which the hook has never been saved as: over any loads and
\* unloads, half done or not.
FallsBackToKernel ==
  \A v \in VCpus : ~oops /\ InHook(v) => saved[trap[v].kind] = "kernel"

\* A guest resumes at the instruction after the one it trapped on, whoever has
\* served the trap.
ResumesAtNext == \A v \in VCpus : pc[v] = "guest" => ahead[v] = 1

\* The emulated registers behave as one memory that all vCPUs share.
file   == [r \in Custom |-> cpregs[Slot(r)]]
access == [v \in VCpus |->
             IF pc[v] \notin {"slot", "advance"} THEN None
             ELSE [op   |-> [reg |-> trap[v].reg, write |-> trap[v].write, rt |-> trap[v].rt],
                   done |-> pc[v] = "advance"]]
F == INSTANCE RegisterFile
ImplementsRegisterFile == F!Spec

\* A vCPU that traps returns to its guest unless the kernel faults.
TrapReturns == \A v \in VCpus : pc[v] = "exit" ~> pc[v] = "guest" \/ oops
=============================================================================
