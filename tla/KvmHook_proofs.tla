--------------------------- MODULE KvmHook_proofs ---------------------------
(***************************************************************************)
(* Proofs about module KvmHook, for any vCPUs, registers and values, and   *)
(* any number of loads and unloads.                                        *)
(***************************************************************************)
EXTENDS KvmHook, TLAPS

Hooked == {"half set", "live", "half restored", "restored"}

\* A vCPU that has left the guest has trapped, and one that reaches a slot has
\* trapped on a register that has one, with the value it writes at hand.
Trapped ==
  \A v \in VCpus :
    /\ pc[v] # "guest" => trap[v] \in SysTraps \cup HvcTraps
    /\ pc[v] \in {"slot", "advance"} => trap[v] \in SysTraps /\ trap[v].reg \in Custom
    /\ pc[v] = "user" => trap[v] \in HvcTraps
    /\ pc[v] = "slot" => regval[v] = IF trap[v].rt = XZR THEN Zero ELSE gpr[v][trap[v].rt]

\* Where the program counter is while a trap is served.
Counted ==
  \A v \in VCpus : ahead[v] = IF pc[v] # "guest" /\ trap[v] \in SysTraps THEN 0 ELSE 1

\* The table and what the module has saved, over its life.
Life ==
  /\ mod \in {"out", "hollow", "saved", "writable", "restored"}
       => table = [k \in Kinds |-> "kernel"]
  /\ mod \in {"saved", "writable"} \cup Hooked => saved = [k \in Kinds |-> "kernel"]
  /\ mod = "half set" => table["hvc"] = "kernel"
  /\ mod = "half restored" => table["sys"] = "kernel"

\* Until the kernel has faulted, a vCPU is in a hook only while the module is
\* hooked in or about to be freed.
Inside == ~oops => \A v \in VCpus : InHook(v) => mod \in Hooked

IInv == TypeOK /\ Trapped /\ Counted /\ Life /\ Inside

-----------------------------------------------------------------------------
(* The slots.                                                              *)

\* Each register that is emulated has a slot, and no two have the same.
LEMMA SlotFacts ==
  ASSUME NEW r \in Custom
  PROVE  Slot(r) \in DOMAIN Slots /\ Slots[Slot(r)] = r
BY DEF Slot, Custom

LEMMA TrapKinds ==
  /\ \A t \in SysTraps : t.kind = "sys" /\ t.reg \in Names /\ t.write \in BOOLEAN
                           /\ t.rt \in Regs \cup {XZR}
  /\ \A t \in HvcTraps : t.kind = "hvc"
  /\ \A t \in SysTraps : t \notin HvcTraps
  /\ None \notin SysTraps \cup HvcTraps
  /\ Zero \in Values
BY KvmAssumption DEF SysTraps, HvcTraps

-----------------------------------------------------------------------------
(* The invariant.                                                          *)

LEMMA InitIInv == Init => IInv
<1> SUFFICES ASSUME Init PROVE IInv
  OBVIOUS
<1>1. TypeOK
  <2>1. gpr \in [VCpus -> [Regs -> Values]] /\ cpregs \in [DOMAIN Slots -> Values]
    BY KvmAssumption DEF Init
  <2>2. regval \in [VCpus -> Values] /\ ahead \in [VCpus -> Nat]
    BY KvmAssumption DEF Init
  <2> QED BY <2>1, <2>2 DEF Init, TypeOK
<1>2. Trapped /\ Counted BY DEF Init, Trapped, Counted
<1>3. Life /\ Inside BY DEF Init, Life, Inside, InHook, Hooked
<1> QED BY <1>1, <1>2, <1>3 DEF IInv

LEMMA NextIInv == IInv /\ [Next]_vars => IInv'
<1> SUFFICES ASSUME IInv, [Next]_vars PROVE IInv'
  OBVIOUS
<1> USE TrapKinds DEF IInv, Goto, Phase
<1>1. CASE Dead \/ UNCHANGED vars
  <2>1. UNCHANGED vars BY <1>1 DEF Dead
  <2>2. TypeOK' BY <2>1 DEF vars, module, TypeOK
  <2>3. Trapped' BY <2>1 DEF vars, module, Trapped
  <2>4. Counted' BY <2>1 DEF vars, module, Counted
  <2>5. Life' /\ Inside' BY <2>1 DEF vars, module, Life, Inside, InHook
  <2> QED BY <2>2, <2>3, <2>4, <2>5
<1>2. CASE Module
  <2>1. UNCHANGED cpus
    BY <1>2 DEF Module, Load, Insert, LoadNoTable, Unprotect, SetSys, SetHvc, Put, UnloadHollow,
                RestoreSys, RestoreHvc, Free
  <2>2. Trapped' /\ Counted' BY <2>1 DEF cpus, Trapped, Counted
  <2>3. ~oops /\ (mod \notin Hooked => \A v \in VCpus : ~InHook(v))
    BY <1>2 DEF Inside, Module, Load, Insert, LoadNoTable, Unprotect, SetSys, SetHvc, Put,
                UnloadHollow, RestoreSys, RestoreHvc, Free
  <2>4. \A v \in VCpus : InHook(v)' <=> InHook(v) BY <2>1 DEF cpus, InHook
  <2>5. TypeOK' /\ Life'
    <3>1. \A k \in Kinds : table[k] \in {"kernel", "hook"} /\ saved[k] \in {"kernel", "hook", None}
      BY DEF TypeOK
    <3>2. SUFFICES /\ cpregs' \in [DOMAIN Slots -> Values]
                   /\ table' \in [Kinds -> {"kernel", "hook"}]
                   /\ saved' \in [Kinds -> {"kernel", "hook", None}]
                   /\ mod' \in {"out", "hollow", "saved", "writable", "half set", "live",
                                "half restored", "restored"}
                   /\ oops' \in BOOLEAN
                   /\ Life'
      BY <2>1 DEF cpus, TypeOK
    <3> USE DEF Life, Kinds, Hooked
    <3>0. /\ cpregs \in [DOMAIN Slots -> Values] /\ oops \in BOOLEAN
          /\ table \in [Kinds -> {"kernel", "hook"}] /\ saved \in [Kinds -> {"kernel", "hook", None}]
      BY DEF TypeOK
    <3>3. CASE Load BY <3>0, <3>3, Zero \in Values DEF Load, Insert
    <3>4. CASE LoadNoTable BY <3>0, <3>4 DEF LoadNoTable
    <3>5. CASE Unprotect BY <3>0, <3>5 DEF Unprotect
    <3>6. CASE SetSys \/ SetHvc \/ RestoreSys
      <4>1. UNCHANGED <<saved, cpregs, oops>> BY <3>6 DEF SetSys, SetHvc, RestoreSys, Put
      <4>2. saved["sys"] = "kernel" /\ saved["hvc"] = "kernel"
        BY <3>6 DEF SetSys, SetHvc, RestoreSys, Put
      <4>3. table' \in [Kinds -> {"kernel", "hook"}]
        BY <3>0, <3>6, <4>2 DEF SetSys, SetHvc, RestoreSys, Put
      <4>4. Life' BY <3>0, <3>6, <4>1, <4>2 DEF SetSys, SetHvc, RestoreSys, Put
      <4> QED BY <3>0, <3>6, <4>1, <4>3, <4>4 DEF SetSys, SetHvc, RestoreSys, Put
    <3>7. CASE RestoreHvc
      <4>1. mod = "half restored" /\ mod' = "restored" /\ UNCHANGED <<saved, cpregs, oops>>
        BY <3>7 DEF RestoreHvc, Put
      <4>2. table["sys"] = "kernel" /\ saved = [k \in Kinds |-> "kernel"]
        BY <4>1
      <4>3. table' = [k \in Kinds |-> "kernel"]
        BY <3>0, <3>7, <4>2 DEF RestoreHvc, Put
      <4> QED BY <3>0, <4>1, <4>2, <4>3
    <3>8. CASE UnloadHollow BY <3>0, <3>8 DEF UnloadHollow
    <3>9. CASE Free BY <3>0, <3>9 DEF Free
    <3> QED BY <1>2, <3>3, <3>4, <3>5, <3>6, <3>7, <3>8, <3>9 DEF Module
  <2>6. Inside'
    <3>1. CASE Free BY <2>4, <3>1 DEF Free, Inside, InHook
    <3>2. CASE ~Free
      <4>1. mod \in Hooked => mod' \in Hooked
        BY <1>2, <3>2 DEF Hooked, Module, Load, Insert, LoadNoTable, Unprotect, SetSys, SetHvc,
                          Put, UnloadHollow, RestoreSys, RestoreHvc
      <4> QED BY <2>3, <2>4, <4>1 DEF Inside
    <3> QED BY <3>1, <3>2
  <2> QED BY <2>2, <2>5, <2>6
<1>3. ASSUME NEW v \in VCpus, Trap(v) \/ Compute(v) \/ RunVCpu(v) PROVE IInv'
  <2>1. Life'
    BY <1>3 DEF Trap, Compute, RunVCpu, Dispatch, Handle, Serve, DecodeSys, ReadSlot, WriteSlot, StoreSlot,
                Advance, AdvanceTo, HookHvc, module, Life
  <2>2. CASE Trap(v)
    <3>0. PICK t \in SysTraps \cup HvcTraps :
            trap' = [trap EXCEPT ![v] = t]
            /\ ahead' = [ahead EXCEPT ![v] = IF t.kind = "hvc" THEN 1 ELSE 0]
      BY <2>2 DEF Trap
    <3>11. pc' = [pc EXCEPT ![v] = "exit"] /\ UNCHANGED <<gpr, regval>> BY <2>2 DEF Trap
    <3>12. pc \in [VCpus -> {"guest", "exit", "kernel", "user", "hook", "slot", "advance"}]
          /\ trap \in [VCpus -> SysTraps \cup HvcTraps \cup {None}]
          /\ ahead \in [VCpus -> Nat]
      BY DEF TypeOK
    <3>13. t \in SysTraps <=> t.kind # "hvc" OBVIOUS
    <3>1. TypeOK'
      <4>2. trap' \in [VCpus -> SysTraps \cup HvcTraps \cup {None}] BY <3>0 DEF TypeOK
      <4>3. ahead' \in [VCpus -> Nat] BY <3>0 DEF TypeOK
      <4> QED BY <2>2, <4>2, <4>3 DEF Trap, module, TypeOK
    <3>2. Trapped' BY <3>0, <3>11, <3>12 DEF Trapped
    <3>3. Counted'
      <4>1. ahead'[v] = IF trap'[v] \in SysTraps THEN 0 ELSE 1 BY <3>0, <3>12, <3>13
      <4>2. \A w \in VCpus \ {v} : ahead'[w] = ahead[w] /\ trap'[w] = trap[w] /\ pc'[w] = pc[w]
        BY <3>0, <3>11, <3>12
      <4>3. pc'[v] = "exit" BY <3>11, <3>12
      <4> QED BY <4>1, <4>2, <4>3 DEF Counted
    <3>4. Inside' BY <2>2 DEF Trap, module, TypeOK, Inside, InHook
    <3> QED BY <2>1, <3>1, <3>2, <3>3, <3>4
  <2>3. CASE Compute(v)
    <3>1. pc' = pc BY <2>3 DEF Compute, TypeOK
    <3>2. PICK r \in Regs, x \in Values : gpr' = [gpr EXCEPT ![v][r] = x]
      BY <2>3 DEF Compute
    <3>3. TypeOK' BY <2>3, <3>1, <3>2 DEF Compute, module, TypeOK
    <3>4. Trapped' BY <2>3, <3>1, <3>2 DEF Compute, module, TypeOK, Trapped
    <3>5. Counted' BY <2>3, <3>1 DEF Compute, module, Counted
    <3>6. Inside' BY <2>3, <3>1 DEF Compute, module, Inside, InHook
    <3> QED BY <2>1, <3>3, <3>4, <3>5, <3>6
  <2>4. CASE Dispatch(v)
    <3>1. TypeOK' BY <2>4 DEF Dispatch, module, TypeOK
    <3>2. Trapped' BY <2>4 DEF Dispatch, module, TypeOK, Trapped
    <3>3. Counted' BY <2>4 DEF Dispatch, module, TypeOK, Counted
    <3>4. pc'[v] = "hook" => mod \in Hooked
      BY <2>4 DEF Dispatch, TypeOK, Trapped, Life, Hooked, Kinds
    <3>5. Inside' BY <2>4, <3>4 DEF Dispatch, module, TypeOK, Inside, InHook
    <3> QED BY <2>1, <3>1, <3>2, <3>3, <3>5
  <2>5. CASE Handle(v)
    <3>0. ahead' \in [VCpus -> Nat] /\ ahead'[v] = 1 /\ \A w \in VCpus \ {v} : ahead'[w] = ahead[w]
      <4>0. v \in DOMAIN ahead /\ ahead \in [VCpus -> Nat] /\ pc[v] = "kernel" BY <2>5 DEF Handle, TypeOK
      <4>1. trap[v] \in SysTraps \/ trap[v] \in HvcTraps BY <4>0 DEF Trapped
      <4>2. CASE trap[v] \in SysTraps
        <5>1. trap[v].kind = "sys" /\ ahead[v] = 0 BY <4>0, <4>2 DEF Counted
        <5>2. ahead' = [ahead EXCEPT ![v] = ahead[v] + 1] BY <2>5, <5>1 DEF Handle
        <5> QED BY ONLY <4>0, <5>1, <5>2
      <4>3. CASE trap[v] \in HvcTraps
        <5>1. trap[v].kind # "sys" /\ ahead[v] = 1 BY <4>0, <4>3 DEF Counted
        <5>2. ahead' = [ahead EXCEPT ![v] = ahead[v]] BY <2>5, <5>1 DEF Handle
        <5> QED BY ONLY <4>0, <5>1, <5>2
      <4> QED BY <4>1, <4>2, <4>3
    <3>1. TypeOK' BY <2>5, <3>0 DEF Handle, module, TypeOK
    <3>2. Trapped' BY <2>5 DEF Handle, module, TypeOK, Trapped
    <3>3. Counted' BY <2>5, <3>0 DEF Handle, module, TypeOK, Counted
    <3>4. Inside' BY <2>5 DEF Handle, module, TypeOK, Inside, InHook
    <3> QED BY <2>1, <3>1, <3>2, <3>3, <3>4
  <2>6. CASE Serve(v)
    <3>1. TypeOK' BY <2>6 DEF Serve, module, TypeOK
    <3>2. Trapped' BY <2>6 DEF Serve, module, TypeOK, Trapped
    <3>3. Counted' BY <2>6 DEF Serve, module, TypeOK, Counted, Trapped
    <3>4. Inside' BY <2>6 DEF Serve, module, TypeOK, Inside, InHook
    <3> QED BY <2>1, <3>1, <3>2, <3>3, <3>4
  <2>7. CASE DecodeSys(v)
    <3>1. trap[v] \in SysTraps BY <2>7 DEF DecodeSys, TypeOK
    <3>2. TypeOK'
      <4>1. /\ pc' \in [VCpus -> {"guest", "exit", "kernel", "user", "hook", "slot", "advance"}]
            /\ UNCHANGED <<trap, gpr, ahead, cpregs, table, saved, mod, oops>>
        BY <2>7 DEF DecodeSys, module, TypeOK
      <4>2. trap[v].rt # XZR => gpr[v][trap[v].rt] \in Values
        <5>1. trap[v].rt \in Regs \cup {XZR} BY <3>1
        <5>2. gpr[v] \in [Regs -> Values] BY DEF TypeOK
        <5> QED BY ONLY <5>1, <5>2
      <4>3. \E x \in Values : regval' = [regval EXCEPT ![v] = x]
        BY <2>7, <4>2, Zero \in Values DEF DecodeSys
      <4>4. regval' \in [VCpus -> Values] BY <4>3 DEF TypeOK
      <4> QED BY <4>1, <4>4 DEF TypeOK
    <3>3. Trapped' BY <2>7, <3>1 DEF DecodeSys, module, TypeOK, Trapped
    <3>4. Counted' BY <2>7 DEF DecodeSys, module, TypeOK, Counted
    <3>5. Inside' BY <2>7 DEF DecodeSys, module, TypeOK, Inside, InHook
    <3> QED BY <2>1, <3>2, <3>3, <3>4, <3>5
  <2>8. CASE ReadSlot(v)
    <3>1. trap[v] \in SysTraps /\ trap[v].reg \in Custom BY <2>8 DEF ReadSlot, Trapped
    <3>2. cpregs[Slot(trap[v].reg)] \in Values BY <3>1, SlotFacts DEF TypeOK
    <3>3. TypeOK' BY <2>8, <3>1, <3>2 DEF ReadSlot, module, TypeOK
    <3>4. Trapped' BY <2>8, <3>1 DEF ReadSlot, module, TypeOK, Trapped
    <3>5. Counted' BY <2>8 DEF ReadSlot, module, TypeOK, Counted
    <3>6. Inside' BY <2>8 DEF ReadSlot, module, TypeOK, Inside, InHook
    <3> QED BY <2>1, <3>3, <3>4, <3>5, <3>6
  <2>9. CASE WriteSlot(v)
    <3>1. trap[v] \in SysTraps /\ trap[v].reg \in Custom BY <2>9 DEF WriteSlot, StoreSlot, Trapped
    <3>2. TypeOK' BY <2>9, <3>1 DEF WriteSlot, StoreSlot, module, TypeOK
    <3>3. Trapped' BY <2>9, <3>1 DEF WriteSlot, StoreSlot, module, TypeOK, Trapped
    <3>4. Counted' BY <2>9 DEF WriteSlot, StoreSlot, module, TypeOK, Counted
    <3>5. Inside' BY <2>9 DEF WriteSlot, StoreSlot, module, TypeOK, Inside, InHook
    <3> QED BY <2>1, <3>2, <3>3, <3>4, <3>5
  <2>10. CASE Advance(v)
    <3>1. trap[v] \in SysTraps BY <2>10 DEF Advance, AdvanceTo, Trapped
    <3>0. ahead' \in [VCpus -> Nat] /\ ahead'[v] = 1 /\ \A w \in VCpus \ {v} : ahead'[w] = ahead[w]
      <4>1. ahead[v] = 0 BY <2>10, <3>1 DEF Advance, AdvanceTo, Counted
      <4>2. ahead' = [ahead EXCEPT ![v] = ahead[v] + 1] BY <2>10 DEF Advance, AdvanceTo
      <4>3. ahead \in [VCpus -> Nat] BY DEF TypeOK
      <4> QED BY ONLY <4>1, <4>2, <4>3
    <3>2. TypeOK' BY <2>10, <3>0 DEF Advance, AdvanceTo, module, TypeOK
    <3>3. Trapped' BY <2>10 DEF Advance, AdvanceTo, module, TypeOK, Trapped
    <3>4. Counted' BY <2>10, <3>0 DEF Advance, AdvanceTo, module, TypeOK, Counted
    <3>5. Inside' BY <2>10 DEF Advance, AdvanceTo, module, TypeOK, Inside, InHook
    <3> QED BY <2>1, <3>2, <3>3, <3>4, <3>5
  <2>11. CASE HookHvc(v)
    <3>1. trap[v] \in HvcTraps BY <2>11 DEF HookHvc, TypeOK
    <3>2. TypeOK' BY <2>11 DEF HookHvc, module, TypeOK
    <3>3. Trapped' BY <2>11, <3>1 DEF HookHvc, module, TypeOK, Trapped
    <3>4. Counted' BY <2>11 DEF HookHvc, module, TypeOK, Counted
    <3>5. Inside' BY <2>11 DEF HookHvc, module, TypeOK, Inside, InHook
    <3> QED BY <2>1, <3>2, <3>3, <3>4, <3>5
  <2> QED
    BY <1>3, <2>2, <2>3, <2>4, <2>5, <2>6, <2>7, <2>8, <2>9, <2>10, <2>11 DEF RunVCpu
<1> QED BY <1>1, <1>2, <1>3 DEF Next

\* The inductive invariant.
THEOREM Invariance == Spec => []IInv
BY InitIInv, NextIInv, PTL DEF Spec

\* Every variable keeps to its type: no handler writes outside what it is for.
THEOREM TypeCorrect == Spec => []TypeOK
BY Invariance, PTL DEF IInv

\* However often the module is loaded and unloaded and whoever is in a hook
\* meanwhile, the hook falls back on KVM's own handler, never on itself.
THEOREM FallsBack == Spec => []FallsBackToKernel
<1>1. IInv => FallsBackToKernel
  <2> SUFFICES ASSUME IInv, NEW v \in VCpus, ~oops, InHook(v)
               PROVE  saved[trap[v].kind] = "kernel"
    BY DEF FallsBackToKernel
  <2>1. saved = [k \in Kinds |-> "kernel"] BY DEF IInv, Inside, Life
  <2>2. trap[v] \in SysTraps \cup HvcTraps BY DEF IInv, Trapped, InHook
  <2>3. trap[v].kind \in Kinds BY <2>2, TrapKinds DEF Kinds
  <2> QED BY <2>1, <2>3
<1> QED BY Invariance, <1>1, PTL

\* A guest goes on at the instruction after the trap, served by a hook, by the
\* kernel or by user space.
THEOREM Resumes == Spec => []ResumesAtNext
<1>1. IInv => ResumesAtNext BY DEF IInv, Counted, ResumesAtNext
<1> QED BY Invariance, <1>1, PTL

-----------------------------------------------------------------------------
(* The refinement of RegisterFile.                                         *)

\* A step of one vCPU leaves the accesses of the others.
LEMMA AccessFrame ==
  ASSUME NEW v \in VCpus,
         \A w \in VCpus \ {v} : pc'[w] = pc[w] /\ trap'[w] = trap[w]
  PROVE  /\ access' = [access EXCEPT ![v] = access'[v]]
         /\ access'[v] = access[v] => access' = access
<1>1. access' = [access EXCEPT ![v] = access'[v]]
  <2>1. \A w \in VCpus \ {v} : access'[w] = access[w] BY DEF access
  <2>2. DOMAIN access = VCpus /\ access' = [w \in VCpus |-> access'[w]]
        /\ access = [w \in VCpus |-> access[w]]
    BY DEF access
  <2> QED BY ONLY <2>1, <2>2, v \in VCpus
<1>2. access = [access EXCEPT ![v] = access[v]] BY DEF access
<1> QED BY <1>1, <1>2

LEMMA NextRefines == IInv /\ [Next]_vars => [F!Next]_(F!vars)
<1> SUFFICES ASSUME IInv, [Next]_vars PROVE [F!Next]_(F!vars)
  OBVIOUS
<1> USE DEF Goto, Phase
<1>0. TypeOK /\ Trapped /\ Inside BY DEF IInv
<1>1. CASE UNCHANGED <<pc, trap, gpr, cpregs>>
  <2>1. access' = access BY <1>1 DEF access
  <2>2. file' = file BY <1>1 DEF file
  <2> QED BY <1>1, <2>1, <2>2 DEF F!vars
<1>2. CASE Load
  <2>1. \A v \in VCpus : pc[v] \notin {"slot", "advance"}
    BY <1>0, <1>2 DEF Load, Insert, Inside, InHook, Hooked
  <2>2. access = [v \in VCpus |-> None] BY <2>1 DEF access
  <2>3. pc' = pc /\ trap' = trap /\ gpr' = gpr /\ cpregs' = [s \in DOMAIN Slots |-> Zero]
    BY <1>2 DEF Load, Insert, cpus
  <2>4. access' = access BY <2>3 DEF access
  <2>5. file' = [r \in Custom |-> Zero] BY <2>3, SlotFacts DEF file
  <2> QED BY <2>2, <2>3, <2>4, <2>5 DEF F!Reset, F!Next
<1>3. CASE Module /\ ~Load
  <2>1. UNCHANGED <<pc, trap, gpr, cpregs>>
    BY <1>3 DEF Module, LoadNoTable, Unprotect, SetSys, SetHvc, Put, UnloadHollow,
                RestoreSys, RestoreHvc, Free, cpus
  <2> QED BY <1>1, <2>1
<1>4. ASSUME NEW v \in VCpus, Trap(v) \/ Compute(v) \/ RunVCpu(v) PROVE [F!Next]_(F!vars)
  <2>0. v \in DOMAIN pc /\ v \in DOMAIN trap /\ v \in DOMAIN gpr BY <1>0 DEF TypeOK
  <2>1. \A w \in VCpus \ {v} : pc'[w] = pc[w] /\ trap'[w] = trap[w]
    BY <1>0, <1>4 DEF Trap, Compute, RunVCpu, Dispatch, Handle, Serve, DecodeSys, ReadSlot,
                      WriteSlot, StoreSlot, Advance, AdvanceTo, HookHvc, TypeOK
  <2>2. /\ access' = [access EXCEPT ![v] = access'[v]]
        /\ access'[v] = access[v] => access' = access
    BY <2>1, AccessFrame
  <2>3. ASSUME pc[v] \notin {"slot", "advance"}, pc'[v] \notin {"slot", "advance"},
               UNCHANGED <<gpr, cpregs>>
        PROVE  UNCHANGED F!vars
    <3>1. access[v] = None /\ access'[v] = None BY <2>3 DEF access
    <3>2. access' = access BY <2>2, <3>1
    <3>3. file' = file BY <2>3 DEF file
    <3> QED BY <2>3, <3>2, <3>3 DEF F!vars
  <2>4. CASE Trap(v) \/ Dispatch(v) \/ Handle(v) \/ Serve(v) \/ HookHvc(v)
    <3>1. /\ pc[v] \notin {"slot", "advance"} /\ pc'[v] \notin {"slot", "advance"}
          /\ UNCHANGED <<gpr, cpregs>>
      BY <2>0, <2>4 DEF Trap, Dispatch, Handle, Serve, HookHvc
    <3> QED BY <2>3, <3>1
  <2>5. CASE Compute(v)
    <3>1. access[v] = None /\ access'[v] = None
      BY <2>0, <2>5 DEF Compute, access
    <3>2. access' = access BY <2>2, <3>1
    <3>3. file' = file BY <2>5 DEF Compute, file
    <3>4. \E r \in Regs, x \in Values : gpr' = [gpr EXCEPT ![v][r] = x]
      BY <2>5 DEF Compute
    <3> QED BY <3>1, <3>2, <3>3, <3>4 DEF F!Compute, F!Next
  <2>6. CASE DecodeSys(v)
    <3>1. CASE trap[v].reg \in Custom
      <4> DEFINE o == [reg |-> trap[v].reg, write |-> trap[v].write, rt |-> trap[v].rt]
      <4>1. trap[v] \in SysTraps BY <1>0, <2>6, TrapKinds DEF DecodeSys, TypeOK
      <4>2. o \in F!Ops BY <3>1, <4>1, TrapKinds DEF F!Ops
      <4>3. pc[v] = "hook" /\ pc'[v] = "slot" /\ trap' = trap
        BY <2>0, <2>6, <3>1 DEF DecodeSys
      <4>4. access[v] = None /\ access'[v] = [op |-> o, done |-> FALSE] BY <4>3 DEF access
      <4>5. UNCHANGED <<file, gpr>> BY <2>6 DEF DecodeSys, file
      <4>6. access' = [access EXCEPT ![v] = [op |-> o, done |-> FALSE]] BY <2>2, <4>4
      <4> HIDE DEF o
      <4> QED BY <4>2, <4>4, <4>5, <4>6 DEF F!Begin, F!Next
    <3>2. CASE trap[v].reg \notin Custom
      <4>1. /\ pc[v] \notin {"slot", "advance"} /\ pc'[v] \notin {"slot", "advance"}
            /\ UNCHANGED <<gpr, cpregs>>
        BY <2>0, <2>6, <3>2 DEF DecodeSys
      <4> QED BY <2>3, <4>1
    <3> QED BY <3>1, <3>2
  <2>7. CASE ReadSlot(v) \/ WriteSlot(v)
    <3> DEFINE o == [reg |-> trap[v].reg, write |-> trap[v].write, rt |-> trap[v].rt]
    <3>1. pc[v] = "slot" /\ pc'[v] = "advance" /\ trap' = trap
      BY <2>0, <2>7 DEF ReadSlot, WriteSlot, StoreSlot
    <3>2. trap[v] \in SysTraps /\ trap[v].reg \in Custom BY <1>0, <3>1 DEF Trapped
    <3>3. o \in F!Ops BY <3>2, TrapKinds DEF F!Ops
    <3>4. access[v] = [op |-> o, done |-> FALSE] BY <3>1 DEF access
    <3>5. access' = [access EXCEPT ![v] = [op |-> o, done |-> TRUE]]
      <4>1. access'[v] = [op |-> o, done |-> TRUE] BY <3>1 DEF access
      <4> QED BY <2>2, <4>1
    <3>6. Slot(trap[v].reg) \in DOMAIN Slots /\ file[trap[v].reg] = cpregs[Slot(trap[v].reg)]
      BY <3>2, SlotFacts DEF file
    <3>7. o.reg = trap[v].reg /\ o.write = trap[v].write /\ o.rt = trap[v].rt
      OBVIOUS
    <3> HIDE DEF o
    <3>8. CASE ReadSlot(v)
      <4>1. gpr' = IF o.rt = XZR THEN gpr ELSE [gpr EXCEPT ![v][o.rt] = file[o.reg]]
        BY <3>6, <3>7, <3>8 DEF ReadSlot
      <4>2. ~o.write /\ UNCHANGED file BY <3>7, <3>8 DEF ReadSlot, file
      <4> QED BY <3>3, <3>4, <3>5, <3>7, <4>1, <4>2 DEF F!Effect, F!Next
    <3>9. CASE WriteSlot(v)
      <4> DEFINE x == IF o.rt = XZR THEN Zero ELSE gpr[v][o.rt]
      <4>1. regval[v] = x BY <1>0, <3>1, <3>7 DEF Trapped
      <4>2. o.write /\ UNCHANGED gpr /\ cpregs' = [cpregs EXCEPT ![Slot(o.reg)] = regval[v]]
        BY <3>7, <3>9 DEF WriteSlot, StoreSlot
      <4>3. ASSUME NEW r \in Custom
            PROVE  cpregs'[Slot(r)] = IF r = o.reg THEN x ELSE cpregs[Slot(r)]
        <5>1. Slot(r) \in DOMAIN cpregs /\ Slots[Slot(r)] = r
          BY <1>0, SlotFacts DEF TypeOK
        <5>2. Slots[Slot(o.reg)] = o.reg BY <3>2, <3>7, SlotFacts
        <5> QED BY <4>1, <4>2, <5>1, <5>2
      <4>4. file' = [file EXCEPT ![o.reg] = x] BY <4>3 DEF file
      <4> QED BY <3>3, <3>4, <3>5, <3>7, <4>2, <4>4 DEF F!Effect, F!Next
    <3> QED BY <2>7, <3>8, <3>9
  <2>8. CASE Advance(v)
    <3>1. pc[v] = "advance" /\ pc'[v] = "guest" BY <2>0, <2>8 DEF Advance, AdvanceTo
    <3>2. access[v].done /\ access'[v] = None BY <3>1 DEF access
    <3>3. access[v] # None
      <4>1. trap[v] \in SysTraps /\ trap[v].reg \in Custom BY <1>0, <3>1 DEF Trapped
      <4> DEFINE o == [reg |-> trap[v].reg, write |-> trap[v].write, rt |-> trap[v].rt]
      <4>2. o \in [reg : Names, write : BOOLEAN, rt : Regs \cup {XZR}]
        BY <4>1, TrapKinds
      <4>3. access[v] = [op |-> o, done |-> TRUE] BY <3>1 DEF access
      <4> HIDE DEF o
      <4>4. access[v] \in [op : [reg : Names, write : BOOLEAN, rt : Regs \cup {XZR}],
                           done : BOOLEAN]
        BY ONLY <4>2, <4>3
      <4> QED BY ONLY <4>4, KvmAssumption
    <3>4. UNCHANGED <<file, gpr>> BY <2>8 DEF Advance, AdvanceTo, file
    <3> QED BY <2>2, <3>2, <3>3, <3>4 DEF F!End, F!Next
  <2> QED BY <1>4, <2>4, <2>5, <2>6, <2>7, <2>8 DEF RunVCpu
<1> QED BY <1>1, <1>2, <1>3, <1>4 DEF Next, Dead, vars

\* The emulated registers are a memory that the vCPUs share: each access takes
\* effect at one moment, and only a new load of the module clears them.
THEOREM Refinement == Spec => ImplementsRegisterFile
<1>1. Init => F!Init
  <2> SUFFICES ASSUME Init PROVE F!Init
    OBVIOUS
  <2>1. file = [r \in Custom |-> Zero] BY SlotFacts DEF Init, file
  <2>2. access = [v \in VCpus |-> None] BY DEF Init, access
  <2> QED BY <2>1, <2>2 DEF Init, F!Init
<1> QED BY <1>1, NextRefines, Invariance, PTL DEF Spec, F!Spec, ImplementsRegisterFile
=============================================================================
