---------------------------- MODULE Driver_proofs ----------------------------
(***************************************************************************)
(* Proofs about module Driver, for any callers, kernel threads, visits and *)
(* up to ten block devices.                                                *)
(***************************************************************************)
EXTENDS Driver, SequenceTheorems, TLAPS

StalledHeld == {"vtables", "object", "hook", "all lock", "mutable", "insert", "name",
                "all unlock", "stalled unlock"}
AllHeld  == {"mutable", "insert", "name", "all unlock"}
Classing == StalledHeld \cup {"stalled lock"}
Making   == {"alloc", "init", "members", "attach", "register"}

\* Which class or device a caller is at.
AtOne ==
  \A c \in Callers :
    /\ pc[c] \in Classing => at[c] \in 1..3
    /\ pc[c] \in Making => at[c] \in Numbers
    /\ pc[c] = "sleep" => at[c] \in BlockDevs

\* Who holds a lock is where the code holds it.
Holding ==
  /\ \A c \in Callers :
       /\ pc[c] \in StalledHeld <=> lock["stalled"] = c
       /\ pc[c] \in AllHeld <=> lock["all"] = c
  /\ \A t \in Kernel :
       /\ kpc[t] \in {"loading", "inserting"} <=> lock["stalled"] = t
       /\ kpc[t] \in {"inserting", "looking"} <=> lock["all"] = t

\* No class of the driver gets into the load of others.
LInv == TypeOK /\ AtOne /\ Holding /\ stalled = {}

-----------------------------------------------------------------------------
(* Types and locks.                                                        *)

LEMMA NumberFacts ==
  /\ NumBlockDevs \in Nat /\ Len(Classes) = 3 /\ Numbers \subseteq Int
  /\ BlockDevs \subseteq Numbers
  /\ \A n \in BlockDevs : n + 1 \in Numbers
  /\ 0 \in Numbers
BY DriverAssumption DEF Numbers, BlockDevs, Classes

LEMMA ClassIs ==
  ASSUME NEW c \in Callers, at[c] \in 1..3
  PROVE  Class(c) \in ClassNames
BY DEF Class, Classes, ClassNames

LEMMA InitLInv == Init => LInv
<1> SUFFICES ASSUME Init PROVE LInv
  OBVIOUS
<1>1. TypeOK
  <2>1. registered \in Seq(Callers \X Numbers) /\ disks \in Seq(Callers \X Numbers) BY DEF Init
  <2>2. at \in [Callers -> 0..(NumBlockDevs + Len(Classes) + 1)] BY NumberFacts DEF Init
  <2>3. device \in [Callers \X Numbers -> SUBSET DeviceFacts] BY DEF Init
  <2>4. /\ class \in [ClassNames -> SUBSET ClassFacts] /\ pc \in [Callers -> Steps]
        /\ lock \in [Locks -> Callers \cup Kernel \cup {None}]
        /\ kpc \in [Kernel -> {"idle", "loading", "inserting", "looking"}]
    BY DEF Init, Steps
  <2>5. visits \in 0..Visits BY DriverAssumption DEF Init
  <2> QED BY <2>1, <2>2, <2>3, <2>4, <2>5 DEF Init, TypeOK
<1>2. AtOne BY DEF Init, AtOne, Classing, StalledHeld, Making
<1>3. Holding BY DriverAssumption DEF Init, Holding, StalledHeld, AllHeld, Locks
<1> QED BY <1>1, <1>2, <1>3 DEF LInv, Init

\* A step of one caller leaves the others where they are, and the kernel.
LEMMA CallersStay ==
  ASSUME TypeOK, NEW c \in Callers, Call(c) \/ Start(c)
  PROVE  /\ \A d \in Callers \ {c} : pc'[d] = pc[d] /\ at'[d] = at[d]
         /\ pc' = [pc EXCEPT ![c] = pc'[c]] /\ at' = [at EXCEPT ![c] = at'[c]]
         /\ UNCHANGED <<disks, present, kpc, visits>>
BY DEF TypeOK, Call, Start, Test, Set, Register, StalledLock, CreateVtables, Construct, Hook, AllLock,
       ClearImmutable, SetObject, Name, AllUnlock, StalledUnlock, Create, WaitPlatform, WaitDisplay,
       Alloc, InitDevice, FillMembers, Attach, RegisterService, Sleep, Goto, registry, services, others

LEMMA NextTypeOK == LInv /\ [Next]_vars => TypeOK' /\ AtOne'
<1> SUFFICES ASSUME LInv, [Next]_vars PROVE TypeOK' /\ AtOne'
  OBVIOUS
<1>0. TypeOK /\ AtOne /\ Holding /\ stalled = {} BY DEF LInv
<1> USE DEF Goto, KGoto, registry, services, others
<1>1. CASE Quiet \/ UNCHANGED vars
  <2>1. UNCHANGED vars BY <1>1 DEF Quiet
  <2>2. TypeOK' BY <1>0, <2>1 DEF TypeOK, vars
  <2> QED BY <1>0, <2>1, <2>2 DEF AtOne, vars
<1>2. ASSUME NEW c \in Callers, Call(c) \/ Start(c) PROVE TypeOK' /\ AtOne'
  <2>1. /\ \A d \in Callers \ {c} : pc'[d] = pc[d] /\ at'[d] = at[d]
        /\ pc' = [pc EXCEPT ![c] = pc'[c]] /\ at' = [at EXCEPT ![c] = at'[c]]
        /\ UNCHANGED <<disks, present, kpc, visits>>
    BY <1>0, <1>2, CallersStay
  <2>2. /\ pc \in [Callers -> Steps]
        /\ at \in [Callers -> 0..(NumBlockDevs + Len(Classes) + 1)]
        /\ lock \in [Locks -> Callers \cup Kernel \cup {None}]
        /\ class \in [ClassNames -> SUBSET ClassFacts]
        /\ device \in [Callers \X Numbers -> SUBSET DeviceFacts]
        /\ registered \in Seq(Callers \X Numbers)
        /\ dict \subseteq ClassNames /\ executed \in BOOLEAN /\ immutable \in BOOLEAN
    BY <1>0 DEF TypeOK
  <2>3. /\ pc[c] \in Classing => at[c] \in 1..3 /\ Class(c) \in ClassNames
        /\ pc[c] \in Making => at[c] \in Numbers
        /\ pc[c] = "sleep" => at[c] \in BlockDevs
    BY <1>0, ClassIs DEF AtOne
  <2>4. SUFFICES /\ pc'[c] \in Steps
                 /\ at'[c] \in 0..(NumBlockDevs + 4)
                 /\ pc'[c] \in Classing => at'[c] \in 1..3
                 /\ pc'[c] \in Making => at'[c] \in Numbers
                 /\ pc'[c] = "sleep" => at'[c] \in BlockDevs
                 /\ executed' \in BOOLEAN
                 /\ lock' \in [Locks -> Callers \cup Kernel \cup {None}]
                 /\ dict' \subseteq ClassNames
                 /\ immutable' \in BOOLEAN
                 /\ stalled' \subseteq ClassNames
                 /\ class' \in [ClassNames -> SUBSET ClassFacts]
                 /\ device' \in [Callers \X Numbers -> SUBSET DeviceFacts]
                 /\ registered' \in Seq(Callers \X Numbers)
    <3>1. pc' \in [Callers -> Steps] /\ at' \in [Callers -> 0..(NumBlockDevs + Len(Classes) + 1)]
      <4>1. PICK p \in Steps, n \in 0..(NumBlockDevs + 4) :
              pc' = [pc EXCEPT ![c] = p] /\ at' = [at EXCEPT ![c] = n]
        BY <2>1, <2>4
      <4>2. 0..(NumBlockDevs + Len(Classes) + 1) = 0..(NumBlockDevs + 4) BY NumberFacts
      <4> QED BY <2>2, <4>1, <4>2
    <3>2. TypeOK' BY <1>0, <2>1, <2>4, <3>1 DEF TypeOK
    <3>3. AtOne'
      <4>1. ASSUME NEW d \in Callers
            PROVE  /\ pc'[d] \in Classing => at'[d] \in 1..3
                   /\ pc'[d] \in Making => at'[d] \in Numbers
                   /\ pc'[d] = "sleep" => at'[d] \in BlockDevs
        BY <1>0, <2>1, <2>4 DEF AtOne
      <4> QED BY <4>1 DEF AtOne
    <3> QED BY <3>2, <3>3
  <2>5. at[c] \in 0..(NumBlockDevs + 4) /\ pc[c] \in Steps BY <2>2, NumberFacts
  <2> USE DEF Classing, StalledHeld, Making, Steps
  <2>6. CASE Call(c) \/ Test(c)
    BY <1>0, <2>2, <2>5, <2>6 DEF Call, Test
  <2>7. CASE Set(c)
    <3>1. pc' = [pc EXCEPT ![c] = "stalled lock"] /\ at' = [at EXCEPT ![c] = 1] BY <2>7 DEF Set
    <3>2. pc'[c] = "stalled lock" /\ at'[c] = 1 BY <2>2, <3>1
    <3>3. /\ executed' = TRUE
          /\ UNCHANGED <<lock, dict, immutable, stalled, class, device, registered>>
      BY <2>7 DEF Set
    <3>4. 1 \in 0..(NumBlockDevs + 4) /\ 1 \in 1..3 BY NumberFacts
    <3>5. /\ pc'[c] \in Steps
          /\ pc'[c] \in Classing => at'[c] \in 1..3
          /\ pc'[c] \notin Making \cup {"sleep"}
      <4>1. at'[c] \in 1..3 BY <3>2, <3>4
      <4>2. pc'[c] = "stalled lock" BY <3>2
      <4> QED BY <4>1, <4>2
    <3>6. /\ executed' \in BOOLEAN
          /\ lock' \in [Locks -> Callers \cup Kernel \cup {None}]
          /\ dict' \subseteq ClassNames /\ immutable' \in BOOLEAN /\ stalled' \subseteq ClassNames
          /\ class' \in [ClassNames -> SUBSET ClassFacts]
          /\ device' \in [Callers \X Numbers -> SUBSET DeviceFacts]
          /\ registered' \in Seq(Callers \X Numbers)
      BY <1>0, <2>2, <3>3
    <3> QED BY <3>2, <3>4, <3>5, <3>6
  <2>8. CASE StalledLock(c) \/ AllLock(c) \/ AllUnlock(c)
    <3>1. lock' \in [Locks -> Callers \cup Kernel \cup {None}]
      BY <2>2, <2>8 DEF StalledLock, AllLock, AllUnlock, TakeLock, DropLock, Locks
    <3>2. at[c] \in 1..3 /\ UNCHANGED <<executed, at, dict, immutable, stalled, class, device, registered>>
      BY <2>3, <2>8 DEF StalledLock, AllLock, AllUnlock
    <3>3. pc'[c] \in {"vtables", "mutable", "stalled unlock"}
      BY <2>2, <2>8 DEF StalledLock, AllLock, AllUnlock
    <3>4. /\ executed' \in BOOLEAN /\ dict' \subseteq ClassNames
          /\ immutable' \in BOOLEAN /\ stalled' \subseteq ClassNames
          /\ class' \in [ClassNames -> SUBSET ClassFacts]
          /\ device' \in [Callers \X Numbers -> SUBSET DeviceFacts]
          /\ registered' \in Seq(Callers \X Numbers)
      BY <1>0, <2>2, <3>2
    <3>5. /\ pc'[c] \in Steps /\ pc'[c] \notin Making \cup {"sleep"}
      BY <3>3
    <3> QED BY <2>5, <3>1, <3>2, <3>4, <3>5
  <2>9. CASE CreateVtables(c) \/ Hook(c) \/ Name(c)
    <3>1. Class(c) \in ClassNames /\ at[c] \in 1..3 BY <2>3, <2>9 DEF CreateVtables, Hook, Name
    <3>2. class' \in [ClassNames -> SUBSET ClassFacts]
      <4>1. PICK f \in ClassFacts : class' = [class EXCEPT ![Class(c)] = @ \cup {f}]
        BY <2>9 DEF CreateVtables, Hook, Name, Gains, ClassFacts
      <4>2. class[Class(c)] \cup {f} \in SUBSET ClassFacts BY <2>2, <3>1
      <4> QED BY <2>2, <4>1, <4>2
    <3> QED BY <1>0, <2>2, <2>5, <2>9, <3>1, <3>2 DEF CreateVtables, Hook, Name
  <2>10. CASE Construct(c)
    <3>1. Class(c) \in ClassNames /\ at[c] \in 1..3 BY <2>3, <2>10 DEF Construct
    <3>2. class' \in [ClassNames -> SUBSET ClassFacts]
      BY <2>2, <2>10, <3>1 DEF Construct, ClassFacts
    <3> QED BY <1>0, <2>2, <2>5, <2>10, <3>1, <3>2 DEF Construct
  <2>11. CASE ClearImmutable(c) \/ SetObject(c)
    <3>1. Class(c) \in ClassNames /\ at[c] \in 1..3 BY <2>3, <2>11 DEF ClearImmutable, SetObject
    <3> QED BY <1>0, <2>2, <2>5, <2>11, <3>1 DEF ClearImmutable, SetObject
  <2>12. CASE StalledUnlock(c)
    <3>1. at[c] \in 1..3 /\ at'[c] = at[c] + 1 BY <2>2, <2>3, <2>12 DEF StalledUnlock
    <3>2. pc'[c] = IF at[c] < 3 THEN "stalled lock" ELSE "platform"
      BY <2>2, <2>12, NumberFacts DEF StalledUnlock
    <3>3. /\ lock' \in [Locks -> Callers \cup Kernel \cup {None}]
          /\ UNCHANGED <<executed, dict, immutable, stalled, class, device, registered>>
      BY <2>2, <2>12 DEF StalledUnlock, DropLock, Locks
    <3>4. at'[c] \in 0..(NumBlockDevs + 4) BY <3>1, NumberFacts
    <3>5. /\ pc'[c] \in Steps
          /\ pc'[c] \in Classing => at'[c] \in 1..3
          /\ pc'[c] \notin Making \cup {"sleep"}
      <4>1. CASE at[c] < 3
        <5>1. at'[c] \in 1..3 BY <3>1, <4>1
        <5>2. pc'[c] = "stalled lock" BY <3>2, <4>1
        <5> QED BY <5>1, <5>2
      <4>2. CASE ~(at[c] < 3)
        <5>1. pc'[c] = "platform" BY <3>2, <4>2
        <5> QED BY <5>1
      <4> QED BY <4>1, <4>2
    <3> QED BY <1>0, <2>2, <3>3, <3>4, <3>5
  <2>13. CASE WaitPlatform(c) \/ WaitDisplay(c)
    <3>1. pc'[c] \in {"display", "alloc"} /\ at'[c] \in {at[c], 0}
          /\ (pc'[c] = "alloc" => at'[c] = 0)
      BY <2>2, <2>13 DEF WaitPlatform, WaitDisplay
    <3>2. UNCHANGED <<executed, lock, dict, immutable, stalled, class, device, registered>>
      BY <2>13 DEF WaitPlatform, WaitDisplay
    <3>3. 0 \in Numbers /\ 0 \in 0..(NumBlockDevs + 4) BY NumberFacts
    <3> QED BY <1>0, <2>2, <2>5, <3>1, <3>2, <3>3
  <2>14. CASE Alloc(c) \/ InitDevice(c) \/ FillMembers(c) \/ Attach(c)
    <3>1. at[c] \in Numbers /\ at' = at BY <2>3, <2>14 DEF Alloc, InitDevice, FillMembers, Attach
    <3>2. device' \in [Callers \X Numbers -> SUBSET DeviceFacts]
      <4>1. CASE device' = device BY <2>2, <4>1
      <4>2. CASE \E f \in DeviceFacts : Adds(c, f)
        <5>1. PICK f \in DeviceFacts : device' = [device EXCEPT ![<<c, at[c]>>] = @ \cup {f}]
          BY <4>2 DEF Adds
        <5>2. <<c, at[c]>> \in Callers \X Numbers BY <3>1
        <5>3. device[<<c, at[c]>>] \cup {f} \in SUBSET DeviceFacts BY <2>2, <5>2
        <5> QED BY <2>2, <5>1, <5>3
      <4> QED BY <2>14, <4>1, <4>2 DEF Alloc, InitDevice, FillMembers, Attach, DeviceFacts
    <3>3. pc'[c] \in Making \cup {"cancelled"}
      BY <2>2, <2>14 DEF Alloc, InitDevice, FillMembers, Attach
    <3> QED BY <1>0, <2>2, <2>5, <2>14, <3>1, <3>2, <3>3 DEF Alloc, InitDevice, FillMembers, Attach
  <2>15. CASE RegisterService(c)
    <3>1. at[c] \in Numbers /\ at' = at BY <2>3, <2>15 DEF RegisterService
    <3>2. registered' \in Seq(Callers \X Numbers)
      <4>1. <<c, at[c]>> \in Callers \X Numbers BY <3>1
      <4>2. registered' = Append(registered, <<c, at[c]>>) BY <2>15 DEF RegisterService
      <4>3. registered \in Seq(Callers \X Numbers) BY <2>2
      <4> HIDE DEF registry, services, others
      <4> QED BY <4>1, <4>2, <4>3, AppendProperties
    <3>3. pc'[c] = IF at[c] \in BlockDevs THEN "sleep" ELSE "done"
      BY <2>2, <2>15 DEF RegisterService
    <3> QED BY <1>0, <2>2, <2>5, <2>15, <3>1, <3>2, <3>3 DEF RegisterService
  <2>16. CASE Sleep(c)
    <3>1. at[c] \in BlockDevs /\ at'[c] = at[c] + 1 /\ pc'[c] = "alloc"
      BY <2>2, <2>3, <2>16 DEF Sleep
    <3>2. at'[c] \in Numbers /\ at'[c] \in 0..(NumBlockDevs + 4)
      <4>1. NumBlockDevs \in Nat /\ at[c] \in 0..(NumBlockDevs - 1)
        BY <3>1, NumberFacts DEF BlockDevs
      <4> QED BY <3>1, <4>1 DEF Numbers
    <3> QED BY <1>0, <2>2, <2>16, <3>1, <3>2 DEF Sleep
  <2> QED BY <1>2, <2>6, <2>7, <2>8, <2>9, <2>10, <2>11, <2>12, <2>13, <2>14, <2>15, <2>16
          DEF Start, Register, Create
<1>3. ASSUME NEW t \in Kernel, Load(t) \/ Look(t) \/ LoadInsert(t) \/ LoadEnd(t) \/ LookEnd(t)
      PROVE  TypeOK' /\ AtOne'
  <2>1. UNCHANGED <<executed, pc, at, class, device, registered, disks, present>>
    BY <1>3 DEF Load, Look, LoadInsert, LoadEnd, LookEnd
  <2>2. AtOne' BY <1>0, <2>1 DEF AtOne
  <2>3. /\ lock \in [Locks -> Callers \cup Kernel \cup {None}]
        /\ dict \subseteq ClassNames /\ immutable \in BOOLEAN
        /\ kpc \in [Kernel -> {"idle", "loading", "inserting", "looking"}]
        /\ visits \in 0..Visits /\ Visits \in Nat
    BY <1>0, DriverAssumption DEF TypeOK
  <2>4. lock' \in [Locks -> Callers \cup Kernel \cup {None}]
    BY <1>3, <2>3 DEF Load, Look, LoadInsert, LoadEnd, LookEnd, TakeLock, DropLock, Locks
  <2>5. kpc' \in [Kernel -> {"idle", "loading", "inserting", "looking"}]
    BY <1>3, <2>3 DEF Load, Look, LoadInsert, LoadEnd, LookEnd
  <2>6. dict' = dict /\ stalled' = {} /\ immutable' \in BOOLEAN
    BY <1>0, <1>3, <2>3 DEF Load, Look, LoadInsert, LoadEnd, LookEnd
  <2>7. visits' \in 0..Visits BY <1>3, <2>3 DEF Load, Look, LoadInsert, LoadEnd, LookEnd
  <2>8. TypeOK' BY <1>0, <2>1, <2>4, <2>5, <2>6, <2>7 DEF TypeOK
  <2> QED BY <2>2, <2>8
<1>4. ASSUME NEW s \in Platform, Publish(s) PROVE TypeOK' /\ AtOne'
  <2>1. TypeOK' BY <1>0, <1>4 DEF TypeOK, Publish
  <2> QED BY <1>0, <1>4, <2>1 DEF AtOne, Publish
<1>5. ASSUME NEW i \in DOMAIN registered, Number(i) PROVE TypeOK' /\ AtOne'
  <2>1. registered[i] \in Callers \X Numbers /\ disks \in Seq(Callers \X Numbers)
    BY <1>0 DEF TypeOK
  <2>2. disks' \in Seq(Callers \X Numbers) BY <1>5, <2>1 DEF Number
  <2>3. TypeOK' BY <1>0, <1>5, <2>2 DEF TypeOK, Number
  <2> QED BY <1>0, <1>5, <2>3 DEF AtOne, Number
<1> QED BY <1>1, <1>2, <1>3, <1>4, <1>5 DEF Next, Others

\* A step of a caller takes or drops a lock for that caller only.
LEMMA CallerHolding ==
  ASSUME LInv, NEW c \in Callers, Call(c) \/ Start(c)
  PROVE  Holding' /\ stalled' = {}
<1>0. /\ pc \in [Callers -> Steps] /\ lock \in [Locks -> Callers \cup Kernel \cup {None}]
      /\ Holding /\ stalled = {}
  BY DEF LInv, TypeOK
<1>1. /\ \A d \in Callers \ {c} : pc'[d] = pc[d] /\ at'[d] = at[d]
      /\ UNCHANGED <<disks, present, kpc, visits>>
  BY CallersStay DEF LInv
<1>2. c \notin Kernel /\ c # None /\ None \notin Callers \cup Kernel BY DriverAssumption
<1> USE DEF Goto, registry, services, others, StalledHeld, AllHeld
<1>3. SUFFICES /\ pc'[c] \in StalledHeld <=> lock'["stalled"] = c
               /\ pc'[c] \in AllHeld <=> lock'["all"] = c
               /\ \A l \in Locks : \A o \in (Callers \cup Kernel) \ {c} :
                    lock'[l] = o <=> lock[l] = o
               /\ stalled' = {}
  <2>1. ASSUME NEW d \in Callers
        PROVE  /\ pc'[d] \in StalledHeld <=> lock'["stalled"] = d
               /\ pc'[d] \in AllHeld <=> lock'["all"] = d
    <3>1. CASE d = c BY <1>3, <3>1
    <3>2. CASE d # c
      <4>1. pc'[d] = pc[d] BY <1>1, <3>2
      <4>2. /\ lock'["stalled"] = d <=> lock["stalled"] = d
            /\ lock'["all"] = d <=> lock["all"] = d
        BY <1>3, <3>2 DEF Locks
      <4> QED BY <1>0, <4>1, <4>2 DEF Holding
    <3> QED BY <3>1, <3>2
  <2>2. ASSUME NEW t \in Kernel
        PROVE  /\ kpc'[t] \in {"loading", "inserting"} <=> lock'["stalled"] = t
               /\ kpc'[t] \in {"inserting", "looking"} <=> lock'["all"] = t
    <3>1. /\ lock'["stalled"] = t <=> lock["stalled"] = t
          /\ lock'["all"] = t <=> lock["all"] = t
      BY <1>2, <1>3 DEF Locks
    <3>2. kpc' = kpc BY <1>1
    <3> QED BY <1>0, <3>1, <3>2 DEF Holding
  <2> QED BY <1>3, <2>1, <2>2 DEF Holding
<1>4. /\ pc[c] \in StalledHeld <=> lock["stalled"] = c
      /\ pc[c] \in AllHeld <=> lock["all"] = c
  BY <1>0 DEF Holding
<1>5. CASE Call(c) \/ Test(c) \/ Set(c)
  <2>1. UNCHANGED <<lock, stalled>> /\ pc[c] \notin StalledHeld /\ pc'[c] \notin StalledHeld
        /\ pc[c] \notin AllHeld /\ pc'[c] \notin AllHeld
    BY <1>0, <1>5 DEF Call, Test, Set
  <2> QED BY <1>0, <1>4, <2>1
<1>6. CASE StalledLock(c)
  <2>1. lock["stalled"] = None /\ lock' = [lock EXCEPT !["stalled"] = c] /\ stalled' = stalled
    BY <1>6 DEF StalledLock, TakeLock
  <2>2. lock'["stalled"] = c /\ lock'["all"] = lock["all"]
    BY <1>0, <2>1 DEF Locks
  <2>3. pc'[c] = "vtables" /\ pc[c] = "stalled lock" BY <1>0, <1>6 DEF StalledLock
  <2> QED BY <1>0, <1>2, <1>4, <2>1, <2>2, <2>3 DEF Locks
<1>7. CASE CreateVtables(c) \/ Hook(c) \/ ClearImmutable(c) \/ SetObject(c) \/ Name(c)
  <2>1. UNCHANGED <<lock, stalled>> /\ pc[c] \in StalledHeld /\ pc'[c] \in StalledHeld
        /\ (pc[c] \in AllHeld <=> pc'[c] \in AllHeld)
    BY <1>0, <1>7 DEF CreateVtables, Hook, ClearImmutable, SetObject, Name
  <2> QED BY <1>0, <1>4, <2>1
<1>8. CASE Construct(c)
  <2>1. pc[c] = "object" /\ pc'[c] = "hook" /\ lock' = lock BY <1>0, <1>8 DEF Construct
  <2>2. lock["stalled"] = c BY <1>4, <2>1
  <2>3. ~ \E t \in Kernel : kpc[t] = "loading" BY <1>0, <1>2, <2>2 DEF Holding
  <2>4. stalled' = {} BY <1>0, <1>8, <2>3 DEF Construct
  <2> QED BY <1>4, <2>1, <2>4
<1>9. CASE AllLock(c)
  <2>1. lock["all"] = None /\ lock' = [lock EXCEPT !["all"] = c] /\ stalled' = stalled
    BY <1>9 DEF AllLock, TakeLock
  <2>2. lock'["all"] = c /\ lock'["stalled"] = lock["stalled"]
    BY <1>0, <2>1 DEF Locks
  <2>3. pc'[c] = "mutable" /\ pc[c] = "all lock" BY <1>0, <1>9 DEF AllLock
  <2> QED BY <1>0, <1>2, <1>4, <2>1, <2>2, <2>3 DEF Locks
<1>10. CASE AllUnlock(c)
  <2>1. lock' = [lock EXCEPT !["all"] = None] /\ stalled' = stalled
    BY <1>10 DEF AllUnlock, DropLock
  <2>2. pc'[c] = "stalled unlock" /\ pc[c] = "all unlock" BY <1>0, <1>10 DEF AllUnlock
  <2>3. lock["all"] = c /\ lock'["all"] = None /\ lock'["stalled"] = lock["stalled"]
    BY <1>0, <1>4, <2>1, <2>2 DEF Locks
  <2> QED BY <1>0, <1>2, <1>4, <2>1, <2>2, <2>3 DEF Locks
<1>11. CASE StalledUnlock(c)
  <2>1. lock' = [lock EXCEPT !["stalled"] = None] /\ stalled' = stalled
    BY <1>11 DEF StalledUnlock, DropLock
  <2>2. pc'[c] \in {"stalled lock", "platform"} /\ pc[c] = "stalled unlock"
    BY <1>0, <1>11 DEF StalledUnlock
  <2>3. lock["stalled"] = c /\ lock'["stalled"] = None /\ lock'["all"] = lock["all"]
    BY <1>0, <1>4, <2>1, <2>2 DEF Locks
  <2> QED BY <1>0, <1>2, <1>4, <2>1, <2>2, <2>3 DEF Locks
<1>12. CASE Create(c)
  <2>1. UNCHANGED <<lock, stalled>> /\ pc[c] \notin StalledHeld /\ pc'[c] \notin StalledHeld
        /\ pc[c] \notin AllHeld /\ pc'[c] \notin AllHeld
    BY <1>0, <1>12 DEF Create, WaitPlatform, WaitDisplay, Alloc, InitDevice, FillMembers,
                       Attach, RegisterService, Sleep
  <2> QED BY <1>0, <1>4, <2>1
<1> QED BY <1>5, <1>6, <1>7, <1>8, <1>9, <1>10, <1>11, <1>12 DEF Start, Register

LEMMA NextLInv == LInv /\ [Next]_vars => LInv'
<1> SUFFICES ASSUME LInv, [Next]_vars PROVE LInv'
  OBVIOUS
<1>0. TypeOK' /\ AtOne' BY NextTypeOK
<1>1. SUFFICES Holding' /\ stalled' = {} BY <1>0 DEF LInv
<1>2. Holding /\ stalled = {} /\ lock \in [Locks -> Callers \cup Kernel \cup {None}]
      /\ kpc \in [Kernel -> {"idle", "loading", "inserting", "looking"}]
  BY DEF LInv, TypeOK
<1>3. ASSUME NEW c \in Callers, Call(c) \/ Start(c) PROVE Holding' /\ stalled' = {}
  BY <1>3, CallerHolding
<1>4. ASSUME NEW t \in Kernel, Load(t) \/ Look(t) \/ LoadInsert(t) \/ LoadEnd(t) \/ LookEnd(t)
      PROVE  Holding' /\ stalled' = {}
  <2>1. pc' = pc /\ stalled' = {} /\ \A u \in Kernel \ {t} : kpc'[u] = kpc[u]
    BY <1>2, <1>4 DEF Load, Look, LoadInsert, LoadEnd, LookEnd, KGoto
  <2>2. t \notin Callers /\ t # None /\ None \notin Callers \cup Kernel BY DriverAssumption
  <2>3. /\ kpc[t] \in {"loading", "inserting"} <=> lock["stalled"] = t
        /\ kpc[t] \in {"inserting", "looking"} <=> lock["all"] = t
    BY <1>2 DEF Holding
  <2>4. SUFFICES /\ kpc'[t] \in {"loading", "inserting"} <=> lock'["stalled"] = t
                 /\ kpc'[t] \in {"inserting", "looking"} <=> lock'["all"] = t
                 /\ \A l \in Locks : \A o \in (Callers \cup Kernel) \ {t} :
                      lock'[l] = o <=> lock[l] = o
    <3>1. ASSUME NEW d \in Callers
          PROVE  /\ pc'[d] \in StalledHeld <=> lock'["stalled"] = d
                 /\ pc'[d] \in AllHeld <=> lock'["all"] = d
      <4>1. d # t BY <2>2
      <4> QED BY <1>2, <2>1, <2>4, <4>1 DEF Holding, Locks
    <3>2. ASSUME NEW u \in Kernel
          PROVE  /\ kpc'[u] \in {"loading", "inserting"} <=> lock'["stalled"] = u
                 /\ kpc'[u] \in {"inserting", "looking"} <=> lock'["all"] = u
      <4>1. CASE u = t BY <2>4, <4>1
      <4>2. CASE u # t
        <5>1. kpc'[u] = kpc[u] BY <2>1, <4>2
        <5>2. /\ lock'["stalled"] = u <=> lock["stalled"] = u
              /\ lock'["all"] = u <=> lock["all"] = u
          BY <2>4, <4>2 DEF Locks
        <5> QED BY <1>2, <5>1, <5>2 DEF Holding
      <4> QED BY <4>1, <4>2
    <3> QED BY <2>1, <3>1, <3>2 DEF Holding
  <2>5. CASE Load(t)
    BY <1>2, <2>2, <2>3, <2>5 DEF Load, KGoto, TakeLock, Locks
  <2>6. CASE Look(t)
    BY <1>2, <2>2, <2>3, <2>6 DEF Look, KGoto, TakeLock, Locks
  <2>7. CASE LoadInsert(t)
    BY <1>2, <2>2, <2>3, <2>7 DEF LoadInsert, KGoto, TakeLock, Locks
  <2>8. CASE LoadEnd(t)
    BY <1>2, <2>2, <2>3, <2>8 DEF LoadEnd, KGoto, Locks
  <2>9. CASE LookEnd(t)
    BY <1>2, <2>2, <2>3, <2>9 DEF LookEnd, KGoto, DropLock, Locks
  <2> QED BY <1>4, <2>5, <2>6, <2>7, <2>8, <2>9
<1>5. ASSUME UNCHANGED <<pc, kpc, lock, stalled>> PROVE Holding' /\ stalled' = {}
  BY <1>2, <1>5 DEF Holding
<1>6. ASSUME NEW s \in Platform, Publish(s) PROVE UNCHANGED <<pc, kpc, lock, stalled>>
  BY <1>6 DEF Publish, registry
<1>7. ASSUME NEW i \in DOMAIN registered, Number(i) PROVE UNCHANGED <<pc, kpc, lock, stalled>>
  BY <1>7 DEF Number, registry
<1>8. CASE Quiet \/ UNCHANGED vars
  BY <1>5, <1>8 DEF Quiet, vars, registry, others
<1> QED BY <1>3, <1>4, <1>5, <1>6, <1>7, <1>8 DEF Next, Others

\* Every variable has its type, whoever calls and whether the calls overlap.
THEOREM TypeCorrect == Spec => []TypeOK
<1>1. Init => LInv BY InitLInv
<1>2. LInv /\ [Next]_vars => LInv' BY NextLInv
<1>3. LInv => TypeOK BY DEF LInv
<1> QED BY <1>1, <1>2, <1>3, PTL DEF Spec

-----------------------------------------------------------------------------
(* What every start does, also where a second call gets past the test.     *)

Busy     == Classing \cup {"platform", "display", "sleep"} \cup Making
Inserted == {"name", "all unlock", "stalled unlock"}
Upto(n)  == {Classes[j] : j \in 1..n}

LEMMA UptoFacts ==
  /\ Upto(0) = {} /\ Upto(3) = ClassNames
  /\ \A n \in 1..3 : /\ Upto(n) = Upto(n - 1) \cup {Classes[n]}
                     /\ Classes[n] \notin Upto(n - 1)
<1> USE DEF Upto
<1>1. Classes[1] = "bdev" /\ Classes[2] = "fb" /\ Classes[3] = "fbuc" BY DEF Classes
<1>2. Upto(0) = {} OBVIOUS
<1>3. Upto(1) = {"bdev"}
  <2>1. 1..1 = {1} OBVIOUS
  <2> QED BY <1>1, <2>1
<1>4. Upto(2) = {"bdev", "fb"}
  <2>1. 1..2 = {1, 2} OBVIOUS
  <2> QED BY <1>1, <2>1
<1>5. Upto(3) = {"bdev", "fb", "fbuc"}
  <2>1. 1..3 = {1, 2, 3} OBVIOUS
  <2> QED BY <1>1, <2>1
<1> HIDE DEF Upto
<1>6. ASSUME NEW n \in 1..3
      PROVE  Upto(n) = Upto(n - 1) \cup {Classes[n]} /\ Classes[n] \notin Upto(n - 1)
  <2>1. CASE n = 1
    <3>1. n - 1 = 0 BY <2>1
    <3> QED BY <1>1, <1>2, <1>3, <2>1, <3>1
  <2>2. CASE n = 2
    <3>1. n - 1 = 1 BY <2>2
    <3> QED BY <1>1, <1>3, <1>4, <2>2, <3>1
  <2>3. CASE n = 3
    <3>1. n - 1 = 2 BY <2>3
    <3> QED BY <1>1, <1>4, <1>5, <2>3, <3>1
  <2> QED BY <1>6, <2>1, <2>2, <2>3
<1> QED BY <1>2, <1>5, <1>6 DEF ClassNames

LEMMA BusyStarts ==
  ASSUME NEW c \in Callers, pc[c] \in Busy \cup {"set"} PROVE c \in Starters
BY DEF Busy, Classing, StalledHeld, Making, Starters

\* What a caller can count on at its step: the classes before the one it is at
\* have got into the dictionary, and the device it is at has what was given.
Ready(c) ==
  /\ pc[c] \in Classing \ Inserted => Upto(at[c] - 1) \subseteq dict
  /\ pc[c] \in Inserted => Upto(at[c]) \subseteq dict
  /\ pc[c] \in {"platform", "display", "sleep"} \cup Making => ClassNames \subseteq dict
  /\ pc[c] = "insert" => ~immutable
  /\ pc[c] # "cancelled"
  /\ pc[c] \in {"init", "members", "attach", "register"} => "constructed" \in device[<<c, at[c]>>]
  /\ pc[c] \in {"members", "attach", "register"} => "init" \in device[<<c, at[c]>>]
  /\ pc[c] \in {"attach", "register"} => "members" \in device[<<c, at[c]>>]
  /\ pc[c] = "register" => "attached" \in device[<<c, at[c]>>]

DevicesWhole == \A i \in DOMAIN registered : device[registered[i]] = DeviceFacts

UInv == LInv /\ DevicesWhole /\ \A c \in Callers : Ready(c)

\* Classes get into the dictionary and devices gain facts, and never lose them.
Grows ==
  /\ dict \subseteq dict'
  /\ \A d \in Callers \X Numbers : device[d] \subseteq device'[d]

LEMMA ReadyStays ==
  ASSUME AtOne, Grows, NEW c \in Callers, Ready(c), pc'[c] = pc[c], at'[c] = at[c],
         pc[c] = "insert" /\ ~immutable => ~immutable'
  PROVE  Ready(c)'
<1>1. ASSUME pc[c] \in Making PROVE device[<<c, at[c]>>] \subseteq device'[<<c, at'[c]>>]
  <2>1. <<c, at[c]>> \in Callers \X Numbers BY <1>1 DEF AtOne
  <2> QED BY <2>1 DEF Grows
<1>2. /\ pc'[c] \in Classing \ Inserted => Upto(at'[c] - 1) \subseteq dict'
      /\ pc'[c] \in Inserted => Upto(at'[c]) \subseteq dict'
      /\ pc'[c] \in {"platform", "display", "sleep"} \cup Making => ClassNames \subseteq dict'
  BY DEF Ready, Grows
<1>3. /\ pc'[c] = "insert" => ~immutable'
      /\ pc'[c] # "cancelled"
  BY DEF Ready
<1>4. /\ pc'[c] \in {"init", "members", "attach", "register"} => "constructed" \in device'[<<c, at'[c]>>]
      /\ pc'[c] \in {"members", "attach", "register"} => "init" \in device'[<<c, at'[c]>>]
      /\ pc'[c] \in {"attach", "register"} => "members" \in device'[<<c, at'[c]>>]
      /\ pc'[c] = "register" => "attached" \in device'[<<c, at'[c]>>]
  BY <1>1 DEF Ready, Making
<1> QED BY <1>2, <1>3, <1>4 DEF Ready

\* A registered device keeps its facts.
LEMMA WholeStays ==
  ASSUME TypeOK, TypeOK', DevicesWhole, Grows, registered' = registered
  PROVE  DevicesWhole'
<1>1. \A i \in DOMAIN registered : registered[i] \in Callers \X Numbers BY DEF TypeOK
<1>2. \A d \in Callers \X Numbers : device'[d] \subseteq DeviceFacts BY DEF TypeOK
<1>3. ASSUME NEW i \in DOMAIN registered PROVE device'[registered[i]] = DeviceFacts
  <2>1. device[registered[i]] = DeviceFacts BY DEF DevicesWhole
  <2>2. device[registered[i]] \subseteq device'[registered[i]] BY <1>1 DEF Grows
  <2> QED BY <1>1, <1>2, <2>1, <2>2
<1> QED BY <1>3 DEF DevicesWhole

\* A step in the registration of a class.
LEMMA RegisterReady ==
  ASSUME UInv, NEW c \in Callers, Register(c)
  PROVE  Ready(c)' /\ Grows /\ registered' = registered
<1>1. /\ pc \in [Callers -> Steps] /\ Ready(c) /\ UNCHANGED <<device, registered>>
      /\ at \in [Callers -> 0..(NumBlockDevs + Len(Classes) + 1)]
      /\ pc[c] \in Classing
  BY DEF UInv, LInv, TypeOK, Register, StalledLock, CreateVtables, Construct, Hook, AllLock,
         ClearImmutable, SetObject, Name, AllUnlock, StalledUnlock, Goto, services, Classing,
         StalledHeld
<1>2. at[c] \in 1..3 /\ Class(c) = Classes[at[c]]
  BY <1>1 DEF UInv, LInv, AtOne, Class
<1>3. dict \subseteq dict'
  BY DEF Register, StalledLock, CreateVtables, Construct, Hook, AllLock, ClearImmutable, SetObject,
         Name, AllUnlock, StalledUnlock
<1>4. Grows BY <1>1, <1>3 DEF Grows
<1> USE DEF Goto, registry, services, others
<1>5. CASE SetObject(c)
  <2>1. pc[c] = "insert" /\ pc'[c] = "name" /\ at' = at /\ ~immutable
    BY <1>1, <1>5 DEF SetObject, Ready
  <2>2. dict' = dict \cup {Class(c)} BY <1>5, <2>1 DEF SetObject
  <2>3. Upto(at[c] - 1) \subseteq dict BY <1>1, <2>1 DEF Ready, Classing, StalledHeld, Inserted
  <2>4. Upto(at[c]) \subseteq dict' BY <1>2, <2>2, <2>3, UptoFacts
  <2>5. Upto(at'[c]) \subseteq dict' BY <2>1, <2>4
  <2>6. Ready(c)' BY <2>1, <2>5 DEF Ready, Inserted, Making
  <2> QED BY <1>1, <1>4, <2>6
<1>6. CASE StalledUnlock(c)
  <2>1. /\ pc[c] = "stalled unlock" /\ at'[c] = at[c] + 1 /\ dict' = dict
        /\ pc'[c] = IF at[c] < 3 THEN "stalled lock" ELSE "platform"
    BY <1>1, <1>6, NumberFacts DEF StalledUnlock
  <2>2. Upto(at[c]) \subseteq dict BY <1>1, <2>1 DEF Ready, Inserted
  <2>3. CASE at[c] < 3
    <3>1. at'[c] - 1 = at[c]
      <4>1. at[c] \in Int BY <1>2
      <4>2. at'[c] = at[c] + 1 BY <2>1
      <4> QED BY <4>1, <4>2
    <3>2. Upto(at'[c] - 1) \subseteq dict' BY <2>1, <2>2, <3>1
    <3>3. pc'[c] = "stalled lock" BY <2>1, <2>3
    <3>4. Ready(c)' BY <3>2, <3>3 DEF Ready, Inserted, Making
    <3> QED BY <1>1, <1>4, <3>4
  <2>4. CASE ~(at[c] < 3)
    <3>1. at[c] = 3 /\ pc'[c] = "platform"
      <4>1. at[c] \in 1..3 BY <1>2
      <4>2. pc'[c] = "platform" BY <2>1, <2>4
      <4> QED BY <2>4, <4>1, <4>2
    <3>2. ClassNames \subseteq dict' BY <2>1, <2>2, <3>1, UptoFacts
    <3>3. Ready(c)' BY <3>1, <3>2 DEF Ready, Inserted, Making, Classing, StalledHeld
    <3> QED BY <1>1, <1>4, <3>3
  <2> QED BY <2>3, <2>4
<1>7. CASE ~SetObject(c) /\ ~StalledUnlock(c)
  <2>1. /\ at' = at
        /\ \/ pc[c] \notin Inserted /\ pc'[c] \in {"vtables", "object", "hook", "all lock", "mutable"}
           \/ pc[c] = "mutable" /\ pc'[c] = "insert" /\ immutable' = FALSE
           \/ pc[c] \in {"name", "all unlock"} /\ pc'[c] \in {"all unlock", "stalled unlock"}
    BY <1>1, <1>7
    DEF Register, StalledLock, CreateVtables, Construct, Hook, AllLock, ClearImmutable, Name,
        AllUnlock, Inserted
  <2>2. /\ pc[c] \in Classing \ Inserted => Upto(at[c] - 1) \subseteq dict
        /\ pc[c] \in Inserted => Upto(at[c]) \subseteq dict
    BY <1>1 DEF Ready
  <2>3. Ready(c)'
    BY <1>1, <1>3, <2>1, <2>2 DEF Ready, Classing, StalledHeld, Inserted, Making
  <2> QED BY <1>1, <1>4, <2>3
<1> QED BY <1>5, <1>6, <1>7

\* A step in the creation of a device.
LEMMA CreateReady ==
  ASSUME UInv, TypeOK', NEW c \in Callers, Create(c)
  PROVE  Ready(c)' /\ Grows /\ DevicesWhole'
<1>1. /\ pc \in [Callers -> Steps] /\ Ready(c) /\ dict' = dict /\ AtOne
      /\ at \in [Callers -> 0..(NumBlockDevs + Len(Classes) + 1)]
      /\ device \in [Callers \X Numbers -> SUBSET DeviceFacts]
      /\ registered \in Seq(Callers \X Numbers)
      /\ pc[c] \in {"platform", "display", "sleep"} \cup Making
  BY DEF UInv, LInv, TypeOK, Create, WaitPlatform, WaitDisplay, Alloc, InitDevice, FillMembers,
         Attach, RegisterService, Sleep, Goto, registry, Making
<1>2. ClassNames \subseteq dict BY <1>1 DEF Ready
<1> USE DEF Goto, registry, services, others
<1>3. CASE WaitPlatform(c) \/ WaitDisplay(c) \/ Sleep(c)
  <2>1. UNCHANGED <<dict, device, registered>> /\ pc'[c] \in {"display", "alloc"}
    BY <1>1, <1>3 DEF WaitPlatform, WaitDisplay, Sleep
  <2>2. Ready(c)' BY <1>2, <2>1 DEF Ready, Classing, StalledHeld, Inserted, Making
  <2>3. Grows /\ DevicesWhole' BY <2>1 DEF Grows, DevicesWhole, UInv
  <2> QED BY <2>2, <2>3
<1>4. CASE Alloc(c) \/ InitDevice(c) \/ FillMembers(c) \/ Attach(c)
  <2>1. UNCHANGED <<at, registered>> /\ pc[c] \in Making
    BY <1>4 DEF Alloc, InitDevice, FillMembers, Attach, Making
  <2>2. <<c, at[c]>> \in Callers \X Numbers BY <1>1, <2>1 DEF AtOne
  <2>3. ClassOf(at[c]) \in dict BY <1>2 DEF ClassOf, ClassNames
  <2>4. PICK f \in DeviceFacts :
          /\ device' = [device EXCEPT ![<<c, at[c]>>] = @ \cup {f}]
          /\ \/ pc[c] = "alloc" /\ pc'[c] = "init" /\ f = "constructed"
             \/ pc[c] = "init" /\ pc'[c] = "members" /\ f = "init"
             \/ pc[c] = "members" /\ pc'[c] = "attach" /\ f = "members"
             \/ pc[c] = "attach" /\ pc'[c] = "register" /\ f = "attached"
    BY <1>1, <1>4, <2>3 DEF Alloc, InitDevice, FillMembers, Attach, Adds, DeviceFacts
  <2>5. device'[<<c, at'[c]>>] = device[<<c, at[c]>>] \cup {f} BY <1>1, <2>1, <2>2, <2>4
  <2>6. Grows BY <1>1, <2>4 DEF Grows
  <2>7. Ready(c)'
    <3>1. /\ pc'[c] \in {"init", "members", "attach", "register"} => "constructed" \in device'[<<c, at'[c]>>]
          /\ pc'[c] \in {"members", "attach", "register"} => "init" \in device'[<<c, at'[c]>>]
          /\ pc'[c] \in {"attach", "register"} => "members" \in device'[<<c, at'[c]>>]
          /\ pc'[c] = "register" => "attached" \in device'[<<c, at'[c]>>]
      BY <1>1, <2>4, <2>5 DEF Ready
    <3>2. pc'[c] \in Making /\ pc'[c] # "cancelled" BY <2>4 DEF Making
    <3> QED BY <1>1, <1>2, <3>1, <3>2 DEF Ready, Classing, StalledHeld, Inserted, Making
  <2>8. DevicesWhole'
    BY <2>1, <2>6, WholeStays DEF UInv, LInv
  <2> QED BY <2>6, <2>7, <2>8
<1>5. CASE RegisterService(c)
  <2>1. UNCHANGED <<at, device>> /\ pc[c] = "register" /\ pc'[c] \in {"sleep", "done"}
        /\ registered' = Append(registered, <<c, at[c]>>)
    BY <1>1, <1>5 DEF RegisterService
  <2>2. <<c, at[c]>> \in Callers \X Numbers BY <1>1, <2>1 DEF AtOne, Making
  <2>3. device[<<c, at[c]>>] = DeviceFacts
    <3>1. DeviceFacts \subseteq device[<<c, at[c]>>] BY <1>1, <2>1 DEF Ready, DeviceFacts
    <3>2. device[<<c, at[c]>>] \subseteq DeviceFacts BY <1>1, <2>2
    <3> QED BY <3>1, <3>2
  <2>4. /\ DOMAIN registered' = 1..(Len(registered) + 1) /\ DOMAIN registered = 1..Len(registered)
        /\ \A i \in 1..Len(registered) : registered'[i] = registered[i]
        /\ registered'[Len(registered) + 1] = <<c, at[c]>> /\ Len(registered) \in Nat
    <3> HIDE DEF registry, services, others
    <3> QED BY <1>1, <2>1, <2>2, AppendProperties, LenProperties
  <2>5. DevicesWhole'
    <3>1. ASSUME NEW i \in DOMAIN registered' PROVE device'[registered'[i]] = DeviceFacts
      <4>1. CASE i \in 1..Len(registered) BY <2>1, <2>4, <4>1 DEF UInv, DevicesWhole
      <4>2. CASE i = Len(registered) + 1 BY <2>1, <2>3, <2>4, <4>2
      <4> QED BY <2>4, <4>1, <4>2
    <3> QED BY <3>1 DEF DevicesWhole
  <2>6. Ready(c)' BY <1>1, <1>2, <2>1 DEF Ready, Classing, StalledHeld, Inserted, Making
  <2>7. Grows BY <1>1, <2>1 DEF Grows
  <2> QED BY <2>5, <2>6, <2>7
<1> QED BY <1>3, <1>4, <1>5 DEF Create

LEMMA NextUInv == UInv /\ [Next]_vars => UInv'
<1> SUFFICES ASSUME UInv, [Next]_vars PROVE UInv'
  OBVIOUS
<1>1. LInv' /\ TypeOK' BY NextLInv DEF UInv, LInv
<1>2. /\ pc \in [Callers -> Steps] /\ TypeOK /\ AtOne /\ Holding /\ stalled = {}
      /\ at \in [Callers -> 0..(NumBlockDevs + Len(Classes) + 1)]
      /\ DevicesWhole /\ \A c \in Callers : Ready(c)
  BY DEF UInv, LInv, TypeOK
<1> USE DEF Goto, registry, services, others
<1>3. ASSUME NEW c \in Callers, Call(c) \/ Start(c), Ready(c)' /\ Grows /\ DevicesWhole'
      PROVE  UInv'
  <2>1. \A d \in Callers \ {c} : pc'[d] = pc[d] /\ at'[d] = at[d] BY <1>2, <1>3, CallersStay
  <2>2. ~immutable => ~immutable'
    BY <1>3 DEF Call, Start, Test, Set, Register, StalledLock, CreateVtables, Construct, Hook,
       AllLock, ClearImmutable, SetObject, Name, AllUnlock, StalledUnlock, Create, WaitPlatform,
       WaitDisplay, Alloc, InitDevice, FillMembers, Attach, RegisterService, Sleep
  <2>3. \A d \in Callers \ {c} : Ready(d)' BY <1>2, <1>3, <2>1, <2>2, ReadyStays
  <2> QED BY <1>1, <1>3, <2>3 DEF UInv
<1>4. ASSUME NEW c \in Callers, Call(c) \/ Test(c) \/ Set(c) PROVE UInv'
  <2>1. UNCHANGED <<dict, device, registered>> /\ pc'[c] \in {"test", "set", "back", "stalled lock"}
        /\ (pc'[c] = "stalled lock" => at'[c] = 1)
    BY <1>2, <1>4 DEF Call, Test, Set
  <2>2. Grows /\ DevicesWhole' BY <1>2, <2>1 DEF Grows, DevicesWhole
  <2>3. Ready(c)'
    <3>1. CASE pc'[c] = "stalled lock"
      <4>1. at'[c] - 1 = 0
        <5>1. at'[c] = 1 BY <2>1, <3>1
        <5> QED BY <5>1
      <4>2. Upto(at'[c] - 1) \subseteq dict' BY <4>1, UptoFacts
      <4> QED BY <3>1, <4>2 DEF Ready, Inserted, Making
    <3>2. CASE pc'[c] \in {"test", "set", "back"}
      BY <3>2 DEF Ready, Classing, StalledHeld, Inserted, Making
    <3> QED BY <2>1, <3>1, <3>2
  <2> QED BY <1>3, <1>4, <2>2, <2>3 DEF Start
<1>5. ASSUME NEW c \in Callers, Register(c) PROVE UInv'
  <2>1. Ready(c)' /\ Grows /\ registered' = registered BY <1>5, RegisterReady
  <2>2. DevicesWhole' BY <1>1, <1>2, <2>1, WholeStays
  <2> QED BY <1>3, <1>5, <2>1, <2>2 DEF Start
<1>6. ASSUME NEW c \in Callers, Create(c) PROVE UInv'
  BY <1>1, <1>3, <1>6, CreateReady DEF Start
<1>7. ASSUME UNCHANGED <<pc, at, dict, device, registered>>,
             \A c \in Callers : pc[c] = "insert" => immutable' = immutable
      PROVE  UInv'
  <2>1. Grows BY <1>7 DEF Grows
  <2>2. \A c \in Callers : Ready(c)' BY <1>2, <1>7, <2>1, ReadyStays
  <2> QED BY <1>1, <1>2, <1>7, <2>2 DEF UInv, DevicesWhole
<1>8. ASSUME NEW t \in Kernel, Load(t) \/ Look(t) \/ LoadInsert(t) \/ LoadEnd(t) \/ LookEnd(t)
      PROVE  UInv'
  <2>1. UNCHANGED <<pc, at, dict, device, registered>>
    BY <1>2, <1>8 DEF Load, Look, LoadInsert, LoadEnd, LookEnd
  <2>2. ASSUME NEW c \in Callers, pc[c] = "insert" PROVE immutable' = immutable
    <3>1. lock["all"] = c BY <1>2, <2>2 DEF Holding, AllHeld
    <3>2. c # None BY DriverAssumption
    <3> QED BY <1>8, <3>1, <3>2 DEF Load, Look, LoadInsert, LoadEnd, LookEnd, TakeLock
  <2> QED BY <1>7, <2>1, <2>2
<1>9. ASSUME NEW s \in Platform, Publish(s) PROVE UInv' BY <1>7, <1>9 DEF Publish
<1>10. ASSUME NEW i \in DOMAIN registered, Number(i) PROVE UInv' BY <1>7, <1>10 DEF Number
<1>11. CASE Quiet \/ UNCHANGED vars BY <1>7, <1>11 DEF Quiet, vars
<1> QED BY <1>4, <1>5, <1>6, <1>8, <1>9, <1>10, <1>11 DEF Next, Others, Start

LEMMA EveryStart == Spec => []UInv
<1>1. Init => UInv
  <2> SUFFICES ASSUME Init PROVE UInv
    OBVIOUS
  <2>1. DevicesWhole BY DEF Init, DevicesWhole
  <2>2. \A c \in Callers : Ready(c)
    BY DEF Init, Ready, Classing, StalledHeld, Inserted, Making
  <2> QED BY <2>1, <2>2, InitLInv DEF UInv
<1> QED BY <1>1, NextUInv, PTL DEF Spec

\* No device is refused for want of its class, although setObject would leave
\* the class out without a word had the dictionary been made immutable again;
\* not even where several calls start the driver at once.
THEOREM NoCancel == Spec => []NeverCancels
<1>1. UInv => NeverCancels BY DEF UInv, Ready, NeverCancels
<1> QED BY <1>1, EveryStart, PTL

-----------------------------------------------------------------------------
(* What a start does, as long as no second call gets past the test.        *)

\* One caller starts the driver.
Once ==
  /\ StartsOnce
  /\ \A c \in Callers : pc[c] \in Busy => executed
  /\ \A c \in Callers : pc[c] = "set" => ~executed
  /\ NeverCancels

\* What it has done for the class it is at, and for the classes before.
ClassAt(c) ==
  pc[c] \in Classing =>
    /\ dict = IF pc[c] \in Inserted THEN Upto(at[c]) ELSE Upto(at[c] - 1)
    /\ pc[c] \notin {"stalled lock", "vtables"} => "vtables" \in class[Class(c)]
    /\ pc[c] \notin {"stalled lock", "vtables", "object"} => "object" \in class[Class(c)]
    /\ pc[c] \in {"all lock", "mutable", "insert"} \cup Inserted => "hook" \in class[Class(c)]
    /\ pc[c] = "insert" => ~immutable

\* What it has done for the device it is at, and for the devices before.
ServiceAt(c) ==
  /\ pc[c] \in Classing \cup {"platform", "display"} => registered = <<>>
  /\ pc[c] \in Making => Len(registered) = at[c]
  /\ pc[c] = "sleep" => Len(registered) = at[c] + 1
  /\ pc[c] \in {"init", "members", "attach", "register"} => "constructed" \in device[<<c, at[c]>>]
  /\ pc[c] \in {"members", "attach", "register"} => "init" \in device[<<c, at[c]>>]
  /\ pc[c] \in {"attach", "register"} => "members" \in device[<<c, at[c]>>]
  /\ pc[c] = "register" => "attached" \in device[<<c, at[c]>>]

\* What others can find.
Found ==
  /\ ~executed => dict = {} /\ registered = <<>>
  /\ executed /\ (\A c \in Callers : pc[c] \notin Classing) => dict = ClassNames
  /\ \A k \in dict : class[k] = ClassFacts \/ \E c \in Callers : pc[c] = "name" /\ Class(c) = k
  /\ \A i \in DOMAIN registered : registered[i][2] = i - 1 /\ device[registered[i]] = DeviceFacts

DInv == LInv /\ Once /\ Found /\ \A c \in Callers : ClassAt(c) /\ ServiceAt(c)

LEMMA InitDInv == Init => DInv
<1> SUFFICES ASSUME Init PROVE DInv
  OBVIOUS
<1>1. LInv BY InitLInv
<1>2. Once
  BY DEF Init, Once, StartsOnce, Starters, Busy, Classing, StalledHeld, Making, NeverCancels
<1>3. Found BY DEF Init, Found
<1>4. ASSUME NEW c \in Callers PROVE ClassAt(c) /\ ServiceAt(c)
  BY DEF Init, ClassAt, ServiceAt, Classing, StalledHeld, Making
<1> QED BY <1>1, <1>2, <1>3, <1>4 DEF DInv

\* Who registers or creates is the only one who does.
LEMMA BusyFrame ==
  ASSUME DInv, NEW c \in Callers, Register(c) \/ Create(c)
  PROVE  /\ pc[c] \in Busy /\ executed /\ executed' = executed
         /\ \A d \in Callers \ {c} : pc[d] \notin Busy /\ pc'[d] = pc[d] /\ at'[d] = at[d]
<1>1. pc[c] \in Busy /\ executed' = executed
  BY DEF Register, StalledLock, CreateVtables, Construct, Hook, AllLock, ClearImmutable, SetObject,
         Name, AllUnlock, StalledUnlock, Create, WaitPlatform, WaitDisplay, Alloc, InitDevice,
         FillMembers, Attach, RegisterService, Sleep, Goto, Busy, Classing, StalledHeld, Making
<1>2. \A d \in Callers \ {c} : pc'[d] = pc[d] /\ at'[d] = at[d]
  BY CallersStay DEF DInv, LInv, Start
<1> QED BY <1>1, <1>2, BusyStarts DEF DInv, Once, StartsOnce

LEMMA BusyReduce ==
  ASSUME DInv, LInv', NEW c \in Callers, Register(c) \/ Create(c),
         pc'[c] \in Busy \cup {"done"}, ClassAt(c)', ServiceAt(c)', Found'
  PROVE  DInv'
<1>1. /\ pc[c] \in Busy /\ executed /\ executed' = executed
      /\ \A d \in Callers \ {c} : pc[d] \notin Busy /\ pc'[d] = pc[d] /\ at'[d] = at[d]
  BY BusyFrame
<1>2. pc'[c] \notin {"set", "cancelled"} /\ c \in Starters
  BY <1>1, BusyStarts DEF Busy, Classing, StalledHeld, Making
<1>3. Once'
  <2>1. Once /\ \A d \in Callers \ {c} : pc[d] # "set" /\ d \notin Starters
    BY <1>1, <1>2, BusyStarts DEF DInv, Once, StartsOnce
  <2>2. StartsOnce' BY <1>1, <2>1 DEF StartsOnce, Starters
  <2> QED BY <1>1, <1>2, <2>1, <2>2 DEF Once, NeverCancels
<1>4. ASSUME NEW d \in Callers PROVE ClassAt(d)' /\ ServiceAt(d)'
  <2>1. CASE d = c BY <2>1
  <2>2. CASE d # c
    <3>1. pc'[d] \notin Busy BY <1>1, <2>2
    <3> QED BY <3>1 DEF ClassAt, ServiceAt, Busy, Making
  <2> QED BY <2>1, <2>2
<1> QED BY <1>3, <1>4 DEF DInv

\* A step of the registration of a class.
LEMMA RegisterStep ==
  ASSUME DInv, LInv', NEW c \in Callers, Register(c)
  PROVE  DInv'
<1>1. /\ pc \in [Callers -> Steps] /\ class \in [ClassNames -> SUBSET ClassFacts]
      /\ at \in [Callers -> 0..(NumBlockDevs + Len(Classes) + 1)] /\ dict \subseteq ClassNames
      /\ lock \in [Locks -> Callers \cup Kernel \cup {None}]
  BY DEF DInv, LInv, TypeOK
<1>2. /\ pc[c] \in Busy /\ executed /\ executed' = executed
      /\ \A d \in Callers \ {c} : pc[d] \notin Busy /\ pc'[d] = pc[d] /\ at'[d] = at[d]
  BY BusyFrame
<1>3. pc[c] \in Classing /\ UNCHANGED <<device, registered>>
  BY DEF Register, StalledLock, CreateVtables, Construct, Hook, AllLock, ClearImmutable, SetObject,
         Name, AllUnlock, StalledUnlock, Goto, services, Classing, StalledHeld
<1>4. at[c] \in 1..3 /\ Class(c) \in ClassNames /\ Class(c) = Classes[at[c]]
  <2>1. at[c] \in 1..3 BY <1>3 DEF DInv, LInv, AtOne
  <2> QED BY <2>1, ClassIs DEF Class
<1>5. ClassAt(c) /\ ServiceAt(c) /\ Found BY DEF DInv
<1>6. registered = <<>> /\ registered' = <<>> BY <1>3, <1>5 DEF ServiceAt
<1>7. \A k \in dict : class[k] = ClassFacts \/ (pc[c] = "name" /\ Class(c) = k)
  <2>1. "name" \in Busy BY DEF Busy, Classing, StalledHeld
  <2> QED BY <1>2, <1>5, <2>1 DEF Found
<1>8. SUFFICES /\ pc'[c] \in Classing \cup {"platform"}
               /\ ClassAt(c)'
               /\ pc'[c] = "platform" => dict' = ClassNames
               /\ \A k \in dict' : class'[k] = ClassFacts \/ (pc'[c] = "name" /\ Class(c)' = k)
  <2>1. ServiceAt(c)'
    <3>1. pc'[c] \notin Making /\ pc'[c] # "sleep" BY <1>8 DEF Classing, StalledHeld, Making
    <3> QED BY <1>6, <3>1 DEF ServiceAt, Making
  <2>2. Found'
    <3>1. ~executed' => dict' = {} /\ registered' = <<>> BY <1>2
    <3>2. executed' /\ (\A d \in Callers : pc'[d] \notin Classing) => dict' = ClassNames BY <1>8
    <3>3. \A k \in dict' : class'[k] = ClassFacts \/ \E d \in Callers : pc'[d] = "name" /\ Class(d)' = k
      BY <1>8
    <3>4. \A i \in DOMAIN registered' :
            registered'[i][2] = i - 1 /\ device'[registered'[i]] = DeviceFacts
      BY <1>6
    <3> QED BY <3>1, <3>2, <3>3, <3>4 DEF Found
  <2>3. pc'[c] \in Busy \cup {"done"} BY <1>8 DEF Busy
  <2> QED BY <1>8, <2>1, <2>2, <2>3, BusyReduce
<1> USE DEF Goto, registry, services, others
<1>9. CASE StalledLock(c) \/ AllLock(c) \/ AllUnlock(c) \/ ClearImmutable(c)
  <2>1. UNCHANGED <<at, dict, class>> /\ Class(c)' = Class(c)
    BY <1>9 DEF StalledLock, AllLock, AllUnlock, ClearImmutable, Class
  <2>2. \/ pc[c] = "stalled lock" /\ pc'[c] = "vtables"
        \/ pc[c] = "all lock" /\ pc'[c] = "mutable"
        \/ pc[c] = "all unlock" /\ pc'[c] = "stalled unlock"
        \/ pc[c] = "mutable" /\ pc'[c] = "insert" /\ immutable' = FALSE
    BY <1>1, <1>9 DEF StalledLock, AllLock, AllUnlock, ClearImmutable
  <2>3. pc'[c] \in Classing BY <2>2 DEF Classing, StalledHeld
  <2>4. ClassAt(c)'
    BY <1>3, <1>5, <2>1, <2>2 DEF ClassAt, Inserted
  <2>5. \A k \in dict' : class'[k] = ClassFacts BY <1>7, <2>1, <2>2
  <2>6. pc'[c] # "platform" BY <2>2
  <2> QED BY <2>3, <2>4, <2>5, <2>6
<1>10. CASE CreateVtables(c) \/ Hook(c)
  <2>1. UNCHANGED <<at, dict, immutable>> /\ Class(c)' = Class(c)
    BY <1>10 DEF CreateVtables, Hook, Class
  <2>2. PICK f \in ClassFacts :
          /\ class' = [class EXCEPT ![Class(c)] = @ \cup {f}]
          /\ \/ pc[c] = "vtables" /\ pc'[c] = "object" /\ f = "vtables"
             \/ pc[c] = "hook" /\ pc'[c] = "all lock" /\ f = "hook"
    BY <1>1, <1>10 DEF CreateVtables, Hook, Gains, ClassFacts
  <2>3. /\ class'[Class(c)] = class[Class(c)] \cup {f}
        /\ \A k \in ClassNames : class[k] \in SUBSET ClassFacts
        /\ \A k \in ClassNames \ {Class(c)} : class'[k] = class[k]
    BY <1>1, <1>4, <2>2
  <2>4. pc'[c] \in Classing /\ pc'[c] # "platform" BY <2>2 DEF Classing, StalledHeld
  <2>5. ClassAt(c)' BY <1>3, <1>5, <2>1, <2>2, <2>3 DEF ClassAt, Inserted
  <2>6. \A k \in dict' : class'[k] = ClassFacts
    <3>1. ASSUME NEW k \in dict' PROVE class'[k] = ClassFacts
      <4>1. k \in ClassNames /\ class[k] = ClassFacts BY <1>1, <1>7, <2>1, <2>2
      <4> QED BY <2>3, <4>1
    <3> QED BY <3>1
  <2> QED BY <2>4, <2>5, <2>6
<1>11. CASE Construct(c)
  <2>1. UNCHANGED <<at, dict, immutable>> /\ Class(c)' = Class(c)
    BY <1>11 DEF Construct, Class
  <2>2. /\ pc[c] = "object" /\ pc'[c] = "hook"
        /\ class' = [class EXCEPT ![Class(c)] = (@ \cup {"object"}) \ {"hook", "name"}]
    BY <1>1, <1>11 DEF Construct
  <2>3. /\ class'[Class(c)] = (class[Class(c)] \cup {"object"}) \ {"hook", "name"}
        /\ \A k \in ClassNames \ {Class(c)} : class'[k] = class[k]
    BY <1>1, <1>4, <2>2
  <2>4. pc'[c] \in Classing /\ pc'[c] # "platform" BY <2>2 DEF Classing, StalledHeld
  <2>5. ClassAt(c)' BY <1>3, <1>5, <2>1, <2>2, <2>3 DEF ClassAt, Inserted
  <2>6. Class(c) \notin dict
    <3>1. dict = Upto(at[c] - 1) BY <1>3, <1>5, <2>2 DEF ClassAt, Inserted
    <3> QED BY <1>4, <3>1, UptoFacts
  <2>7. \A k \in dict' : class'[k] = ClassFacts BY <1>1, <1>7, <2>1, <2>2, <2>3, <2>6
  <2> QED BY <2>4, <2>5, <2>7
<1>12. CASE SetObject(c)
  <2>1. UNCHANGED <<at, class>> /\ Class(c)' = Class(c) BY <1>12 DEF SetObject, Class
  <2>2. pc[c] = "insert" /\ pc'[c] = "name" BY <1>1, <1>12 DEF SetObject
  <2>3. ~immutable /\ dict = Upto(at[c] - 1) BY <1>3, <1>5, <2>2 DEF ClassAt, Inserted
  <2>4. dict' = dict \cup {Class(c)} BY <1>12, <2>3 DEF SetObject
  <2>5. dict' = Upto(at[c]) BY <1>4, <2>3, <2>4, UptoFacts
  <2>6. pc'[c] \in Classing /\ pc'[c] # "platform" BY <2>2 DEF Classing, StalledHeld
  <2>7. ClassAt(c)' BY <1>3, <1>5, <2>1, <2>2, <2>5 DEF ClassAt, Inserted
  <2>8. \A k \in dict' : class'[k] = ClassFacts \/ Class(c)' = k BY <1>7, <2>1, <2>2, <2>4
  <2> QED BY <2>2, <2>6, <2>7, <2>8
<1>13. CASE Name(c)
  <2>1. UNCHANGED <<at, dict, immutable>> /\ Class(c)' = Class(c) BY <1>13 DEF Name, Class
  <2>2. /\ pc[c] = "name" /\ pc'[c] = "all unlock"
        /\ class' = [class EXCEPT ![Class(c)] = @ \cup {"name"}]
    BY <1>1, <1>13 DEF Name, Gains
  <2>3. /\ class'[Class(c)] = class[Class(c)] \cup {"name"}
        /\ class[Class(c)] \in SUBSET ClassFacts
        /\ \A k \in ClassNames \ {Class(c)} : class'[k] = class[k]
    BY <1>1, <1>4, <2>2
  <2>4. {"vtables", "object", "hook"} \subseteq class[Class(c)]
    BY <1>3, <1>5, <2>2 DEF ClassAt, Inserted
  <2>5. class'[Class(c)] = ClassFacts BY <2>3, <2>4 DEF ClassFacts
  <2>6. pc'[c] \in Classing /\ pc'[c] # "platform" BY <2>2 DEF Classing, StalledHeld
  <2>7. ClassAt(c)' BY <1>3, <1>5, <2>1, <2>2, <2>3, <2>4 DEF ClassAt, Inserted
  <2>8. \A k \in dict' : class'[k] = ClassFacts BY <1>1, <1>7, <2>1, <2>3, <2>5
  <2> QED BY <2>6, <2>7, <2>8
<1>14. CASE StalledUnlock(c)
  <2>1. UNCHANGED <<dict, class, immutable>> /\ pc[c] = "stalled unlock" /\ at'[c] = at[c] + 1
    BY <1>1, <1>14 DEF StalledUnlock
  <2>2. pc'[c] = IF at[c] < 3 THEN "stalled lock" ELSE "platform"
    BY <1>1, <1>14, NumberFacts DEF StalledUnlock
  <2>3. dict = Upto(at[c]) BY <1>3, <1>5, <2>1 DEF ClassAt, Inserted
  <2>4. \A k \in dict' : class'[k] = ClassFacts BY <1>7, <2>1
  <2>5. CASE at[c] < 3
    <3>1. pc'[c] = "stalled lock" BY <2>2, <2>5
    <3>2. dict' = Upto(at'[c] - 1)
      <4>1. at'[c] - 1 = at[c]
        <5>1. at[c] \in Int BY <1>4
        <5>2. at'[c] = at[c] + 1 BY <2>1
        <5> QED BY <5>1, <5>2
      <4> QED BY <2>1, <2>3, <4>1
    <3>3. ClassAt(c)' BY <3>1, <3>2 DEF ClassAt, Inserted
    <3>4. pc'[c] \in Classing /\ pc'[c] # "platform" BY <3>1 DEF Classing
    <3> QED BY <2>4, <3>3, <3>4
  <2>6. CASE ~(at[c] < 3)
    <3>1. pc'[c] = "platform" BY <2>2, <2>6
    <3>2. at[c] = 3 BY <1>4, <2>6
    <3>3. dict' = ClassNames BY <2>1, <2>3, <3>2, UptoFacts
    <3>4. ClassAt(c)' BY <3>1 DEF ClassAt, Classing, StalledHeld
    <3> QED BY <2>4, <3>1, <3>3, <3>4
  <2> QED BY <2>5, <2>6
<1> QED BY <1>9, <1>10, <1>11, <1>12, <1>13, <1>14 DEF Register

\* A step of the creation of a device.
LEMMA CreateStep ==
  ASSUME DInv, LInv', NEW c \in Callers, Create(c)
  PROVE  DInv'
<1>1. /\ pc \in [Callers -> Steps] /\ registered \in Seq(Callers \X Numbers)
      /\ device \in [Callers \X Numbers -> SUBSET DeviceFacts]
      /\ at \in [Callers -> 0..(NumBlockDevs + Len(Classes) + 1)]
  BY DEF DInv, LInv, TypeOK
<1>2. /\ pc[c] \in Busy /\ executed /\ executed' = executed
      /\ \A d \in Callers \ {c} : pc[d] \notin Busy /\ pc'[d] = pc[d] /\ at'[d] = at[d]
  BY BusyFrame
<1>3. /\ pc[c] \notin Classing /\ pc[c] # "name" /\ UNCHANGED <<dict, class>>
      /\ pc[c] \in Making \cup {"platform", "display", "sleep"}
  BY DEF Create, WaitPlatform, WaitDisplay, Alloc, InitDevice, FillMembers, Attach,
         RegisterService, Sleep, Goto, registry, Classing, StalledHeld, Making
<1>4. Found /\ ServiceAt(c) /\ AtOne BY DEF DInv, LInv
<1>5. dict = ClassNames
  <2>1. \A d \in Callers : pc[d] \notin Classing BY <1>2, <1>3 DEF Busy
  <2> QED BY <1>2, <1>4, <2>1 DEF Found
<1>6. \A k \in dict : class[k] = ClassFacts
  <2>1. \A d \in Callers : pc[d] # "name"
    <3>1. "name" \in Busy BY DEF Busy, Classing, StalledHeld
    <3> QED BY <1>2, <1>3, <3>1
  <2> QED BY <1>4, <2>1 DEF Found
<1>7. SUFFICES /\ pc'[c] \in Making \cup {"display", "sleep", "done"}
               /\ ServiceAt(c)'
               /\ \A i \in DOMAIN registered' :
                    registered'[i][2] = i - 1 /\ device'[registered'[i]] = DeviceFacts
  <2>1. ClassAt(c)'
    <3>1. pc'[c] \notin Classing BY <1>7 DEF Making, Classing, StalledHeld
    <3> QED BY <3>1 DEF ClassAt
  <2>2. Found' BY <1>2, <1>3, <1>5, <1>6, <1>7 DEF Found
  <2>3. pc'[c] \in Busy \cup {"done"} BY <1>7 DEF Busy
  <2> QED BY <1>7, <2>1, <2>2, <2>3, BusyReduce
<1>8. \A i \in DOMAIN registered :
        registered[i] \in Callers \X Numbers /\ registered[i][2] = i - 1 /\ device[registered[i]] = DeviceFacts
  <2>1. \A i \in DOMAIN registered : registered[i] \in Callers \X Numbers BY <1>1
  <2> QED BY <1>4, <2>1 DEF Found
<1> USE DEF Goto, registry, services, others
<1>9. CASE WaitPlatform(c) \/ WaitDisplay(c)
  <2>1. UNCHANGED <<device, registered>> /\ registered = <<>>
    BY <1>4, <1>9 DEF WaitPlatform, WaitDisplay, ServiceAt
  <2>2. pc'[c] = "display" \/ (pc'[c] = "alloc" /\ at'[c] = 0)
    BY <1>1, <1>9 DEF WaitPlatform, WaitDisplay
  <2>3. pc'[c] \in Making \cup {"display"} BY <2>2 DEF Making
  <2>4. ServiceAt(c)'
    <3>1. Len(registered') = 0 /\ registered' = <<>> BY <2>1
    <3> QED BY <2>2, <3>1 DEF ServiceAt, Making, Classing, StalledHeld
  <2> QED BY <1>8, <2>1, <2>3, <2>4
<1>10. CASE Alloc(c) \/ InitDevice(c) \/ FillMembers(c) \/ Attach(c)
  <2>1. UNCHANGED <<at, registered>> /\ pc[c] \in Making
    BY <1>10 DEF Alloc, InitDevice, FillMembers, Attach, Making
  <2>2. at[c] \in Numbers /\ <<c, at[c]>> \in Callers \X Numbers
    BY <1>4, <2>1 DEF AtOne
  <2>3. ClassOf(at[c]) \in dict BY <1>5 DEF ClassOf, ClassNames
  <2>4. PICK f \in DeviceFacts :
          /\ device' = [device EXCEPT ![<<c, at[c]>>] = @ \cup {f}]
          /\ \/ pc[c] = "alloc" /\ pc'[c] = "init" /\ f = "constructed"
             \/ pc[c] = "init" /\ pc'[c] = "members" /\ f = "init"
             \/ pc[c] = "members" /\ pc'[c] = "attach" /\ f = "members"
             \/ pc[c] = "attach" /\ pc'[c] = "register" /\ f = "attached"
    BY <1>1, <1>10, <2>3 DEF Alloc, InitDevice, FillMembers, Attach, Adds, DeviceFacts
  <2>5. /\ device'[<<c, at[c]>>] = device[<<c, at[c]>>] \cup {f}
        /\ \A d \in Callers \X Numbers : d # <<c, at[c]>> => device'[d] = device[d]
        /\ \A d \in Callers \X Numbers : device[d] \in SUBSET DeviceFacts
    BY <1>1, <2>2, <2>4
  <2>6. \A i \in DOMAIN registered' :
          registered'[i][2] = i - 1 /\ device'[registered'[i]] = DeviceFacts
    <3>1. ASSUME NEW i \in DOMAIN registered PROVE device'[registered[i]] = DeviceFacts
      <4>1. CASE registered[i] = <<c, at[c]>> BY <1>8, <2>5, <4>1
      <4>2. CASE registered[i] # <<c, at[c]>> BY <1>8, <2>5, <4>2
      <4> QED BY <4>1, <4>2
    <3> QED BY <1>8, <2>1, <3>1
  <2>7. pc'[c] \in Making BY <2>4 DEF Making
  <2>8. Len(registered) = at[c] BY <1>4, <2>1 DEF ServiceAt
  <2>9. /\ pc'[c] \notin Classing \cup {"platform", "display"} /\ pc'[c] # "sleep"
        /\ Len(registered') = at'[c] /\ at'[c] = at[c]
    BY <2>1, <2>7, <2>8 DEF Making, Classing, StalledHeld
  <2>10. /\ pc'[c] \in {"init", "members", "attach", "register"} => "constructed" \in device'[<<c, at[c]>>]
         /\ pc'[c] \in {"members", "attach", "register"} => "init" \in device'[<<c, at[c]>>]
         /\ pc'[c] \in {"attach", "register"} => "members" \in device'[<<c, at[c]>>]
         /\ pc'[c] = "register" => "attached" \in device'[<<c, at[c]>>]
    BY <1>4, <2>4, <2>5 DEF ServiceAt
  <2>11. ServiceAt(c)' BY <2>9, <2>10 DEF ServiceAt
  <2> QED BY <2>6, <2>7, <2>11
<1>11. CASE RegisterService(c)
  <2>1. UNCHANGED <<at, device>> /\ pc[c] = "register" BY <1>11 DEF RegisterService
  <2>2. at[c] \in Numbers /\ <<c, at[c]>> \in Callers \X Numbers /\ Len(registered) = at[c]
    BY <1>4, <2>1 DEF AtOne, ServiceAt, Making
  <2>3. pc'[c] \in {"sleep", "done"} BY <1>1, <1>11 DEF RegisterService
  <2>4. registered' = Append(registered, <<c, at[c]>>) BY <1>11 DEF RegisterService
  <2>5. device[<<c, at[c]>>] = DeviceFacts
    <3>1. DeviceFacts \subseteq device[<<c, at[c]>>] BY <1>4, <2>1 DEF ServiceAt, DeviceFacts
    <3>2. device[<<c, at[c]>>] \subseteq DeviceFacts BY <1>1, <2>2
    <3> QED BY <3>1, <3>2
  <2>6. /\ Len(registered') = Len(registered) + 1 /\ Len(registered) \in Nat
        /\ DOMAIN registered' = 1..(Len(registered) + 1) /\ DOMAIN registered = 1..Len(registered)
        /\ \A i \in 1..Len(registered) : registered'[i] = registered[i]
        /\ registered'[Len(registered) + 1] = <<c, at[c]>>
    <3>1. registered \in Seq(Callers \X Numbers) BY <1>1
    <3> HIDE DEF registry, services, others
    <3> QED BY <2>2, <2>4, <3>1, AppendProperties, LenProperties
  <2>7. \A i \in DOMAIN registered' :
          registered'[i][2] = i - 1 /\ device'[registered'[i]] = DeviceFacts
    <3>1. ASSUME NEW i \in DOMAIN registered'
          PROVE  registered'[i][2] = i - 1 /\ device'[registered'[i]] = DeviceFacts
      <4>1. CASE i \in 1..Len(registered) BY <1>8, <2>1, <2>6, <4>1
      <4>2. CASE i = Len(registered) + 1
        <5>1. registered'[i] = <<c, at[c]>> BY <2>6, <4>2
        <5>2. registered'[i][2] = at[c] BY <5>1
        <5>3. i - 1 = at[c] BY <2>2, <2>6, <4>2
        <5>4. device'[registered'[i]] = DeviceFacts BY <2>1, <2>5, <5>1
        <5> QED BY <5>2, <5>3, <5>4
      <4> QED BY <2>6, <4>1, <4>2
    <3> QED BY <3>1
  <2>8. ServiceAt(c)'
    <3>1. Len(registered') = at'[c] + 1 BY <2>1, <2>2, <2>6
    <3> QED BY <2>3, <3>1 DEF ServiceAt, Making, Classing, StalledHeld
  <2> QED BY <2>3, <2>7, <2>8
<1>12. CASE Sleep(c)
  <2>1. UNCHANGED <<device, registered>> /\ pc[c] = "sleep" /\ pc'[c] = "alloc" /\ at'[c] = at[c] + 1
    BY <1>1, <1>12 DEF Sleep
  <2>2. Len(registered') = at'[c] BY <1>4, <2>1 DEF ServiceAt
  <2>3. ServiceAt(c)' BY <2>1, <2>2 DEF ServiceAt, Making, Classing, StalledHeld
  <2>4. pc'[c] \in Making BY <2>1 DEF Making
  <2> QED BY <1>8, <2>1, <2>3, <2>4
<1> QED BY <1>9, <1>10, <1>11, <1>12 DEF Create

\* A step that touches nothing of a start under way.
LEMMA StartStays ==
  ASSUME DInv, UNCHANGED <<at, dict, class, device, registered, executed>>,
         \A c \in Callers : pc'[c] = pc[c] \/ (pc[c] \notin Busy /\ pc'[c] \notin Busy),
         \A c \in Callers : pc[c] = "insert" => immutable' = immutable
  PROVE  Found' /\ \A c \in Callers : ClassAt(c)' /\ ServiceAt(c)'
<1>1. \A c \in Callers : Class(c)' = Class(c) BY DEF Class
<1>2. \A c \in Callers : /\ pc'[c] \in Classing <=> pc[c] \in Classing
                         /\ pc'[c] = "name" <=> pc[c] = "name"
  BY DEF Busy, Classing, StalledHeld
<1>3. Found' BY <1>1, <1>2 DEF DInv, Found
<1>4. ASSUME NEW c \in Callers PROVE ClassAt(c)' /\ ServiceAt(c)'
  <2>1. CASE pc'[c] = pc[c]
    <3>1. ClassAt(c)' BY <1>1, <2>1 DEF DInv, ClassAt
    <3>2. ServiceAt(c)' BY <2>1 DEF DInv, ServiceAt
    <3> QED BY <3>1, <3>2
  <2>2. CASE pc'[c] \notin Busy
    BY <2>2 DEF ClassAt, ServiceAt, Busy, Making
  <2> QED BY <2>1, <2>2
<1> QED BY <1>3, <1>4

LEMMA NextDInv == DInv /\ [Next]_vars /\ StartsOnce' => DInv'
<1> SUFFICES ASSUME DInv, [Next]_vars, StartsOnce' PROVE DInv'
  OBVIOUS
<1>1. LInv' BY NextLInv DEF DInv
<1>2. /\ pc \in [Callers -> Steps] /\ Once /\ Found /\ Holding /\ stalled = {}
      /\ at \in [Callers -> 0..(NumBlockDevs + Len(Classes) + 1)]
  BY DEF DInv, LInv, TypeOK
<1> USE DEF Goto, registry, services, others
<1>3. ASSUME NEW c \in Callers, Call(c) \/ Test(c) PROVE DInv'
  <2>1. UNCHANGED <<at, dict, class, device, registered, executed, immutable>>
    BY <1>3 DEF Call, Test
  <2>2. /\ pc' = [pc EXCEPT ![c] = pc'[c]]
        /\ \/ pc[c] = "idle" /\ pc'[c] = "test"
           \/ pc[c] = "test" /\ pc'[c] = "back" /\ executed
           \/ pc[c] = "test" /\ pc'[c] = "set" /\ ~executed
    BY <1>2, <1>3 DEF Call, Test
  <2>3. \A d \in Callers \ {c} : pc'[d] = pc[d] BY <1>2, <2>2
  <2>4. pc[c] \notin Busy /\ pc'[c] \notin Busy /\ pc'[c] # "cancelled"
    BY <2>2 DEF Busy, Classing, StalledHeld, Making
  <2>5. Found' /\ \A d \in Callers : ClassAt(d)' /\ ServiceAt(d)'
    BY <2>1, <2>3, <2>4, StartStays
  <2>6. Once' BY <1>2, <2>1, <2>2, <2>3, <2>4 DEF Once, NeverCancels
  <2> QED BY <1>1, <2>5, <2>6 DEF DInv
<1>4. ASSUME NEW c \in Callers, Set(c) PROVE DInv'
  <2>1. /\ UNCHANGED <<lock, dict, immutable, stalled, class, device, registered>> /\ executed' = TRUE
        /\ pc[c] = "set" /\ pc' = [pc EXCEPT ![c] = "stalled lock"] /\ at' = [at EXCEPT ![c] = 1]
    BY <1>4 DEF Set
  <2>2. /\ pc'[c] = "stalled lock" /\ at'[c] = 1
        /\ \A d \in Callers \ {c} : pc'[d] = pc[d] /\ at'[d] = at[d]
    BY <1>2, <2>1
  <2>3. ~executed /\ dict = {} /\ registered = <<>>
    BY <1>2, <2>1 DEF Once, Found
  <2>4. \A d \in Callers \ {c} : pc'[d] \notin Busy /\ pc'[d] # "set"
    <3>1. c \in Starters BY <2>1 DEF Starters
    <3> QED BY <1>2, <2>2, <3>1, BusyStarts DEF Once, StartsOnce
  <2>5. pc'[c] \in Classing /\ pc'[c] # "set" BY <2>2 DEF Classing
  <2>6. Once'
    <3>1. NeverCancels' BY <1>2, <2>2 DEF Once, NeverCancels
    <3> QED BY <2>1, <2>4, <2>5, <3>1 DEF Once
  <2>7. Found'
    <3>1. executed' BY <2>1
    <3>2. dict' = {} /\ registered' = <<>> BY <2>1, <2>3
    <3>3. DOMAIN registered' = {} BY <3>2
    <3> QED BY <2>5, <3>1, <3>2, <3>3 DEF Found
  <2>8. ClassAt(c)'
    <3>1. dict' = Upto(at'[c] - 1)
      <4>1. at'[c] - 1 = 0
        <5>1. at'[c] = 1 BY <2>2
        <5> QED BY <5>1
      <4> QED BY <2>1, <2>3, <4>1, UptoFacts
    <3> QED BY <2>2, <3>1 DEF ClassAt, Inserted
  <2>9. ServiceAt(c)' BY <2>1, <2>2, <2>3 DEF ServiceAt, Making
  <2>10. \A d \in Callers : ClassAt(d)' /\ ServiceAt(d)'
    <3>1. ASSUME NEW d \in Callers \ {c} PROVE ClassAt(d)' /\ ServiceAt(d)'
      <4>1. pc'[d] \notin Busy BY <2>4
      <4> QED BY <4>1 DEF ClassAt, ServiceAt, Busy, Making
    <3> QED BY <2>8, <2>9, <3>1
  <2> QED BY <1>1, <2>6, <2>7, <2>10 DEF DInv
<1>5. ASSUME NEW c \in Callers, Register(c) PROVE DInv' BY <1>1, <1>5, RegisterStep
<1>6. ASSUME NEW c \in Callers, Create(c) PROVE DInv' BY <1>1, <1>6, CreateStep
<1>7. ASSUME UNCHANGED <<executed, pc, at, dict, class, device, registered>>,
             \A c \in Callers : pc[c] = "insert" => immutable' = immutable
      PROVE  DInv'
  <2>1. Found' /\ \A d \in Callers : ClassAt(d)' /\ ServiceAt(d)' BY <1>7, StartStays
  <2>2. Once' BY <1>2, <1>7 DEF Once, NeverCancels
  <2> QED BY <1>1, <2>1, <2>2 DEF DInv
<1>8. ASSUME NEW t \in Kernel, Load(t) \/ Look(t) \/ LoadInsert(t) \/ LoadEnd(t) \/ LookEnd(t)
      PROVE  DInv'
  <2>1. UNCHANGED <<executed, pc, at, dict, class, device, registered>>
    BY <1>2, <1>8 DEF Load, Look, LoadInsert, LoadEnd, LookEnd
  <2>2. ASSUME NEW c \in Callers, pc[c] = "insert" PROVE immutable' = immutable
    <3>1. lock["all"] = c BY <1>2, <2>2 DEF Holding, AllHeld
    <3>2. c # None BY DriverAssumption
    <3> QED BY <1>8, <3>1, <3>2 DEF Load, Look, LoadInsert, LoadEnd, LookEnd, TakeLock
  <2> QED BY <1>7, <2>1, <2>2
<1>9. ASSUME NEW s \in Platform, Publish(s) PROVE DInv' BY <1>7, <1>9 DEF Publish
<1>10. ASSUME NEW i \in DOMAIN registered, Number(i) PROVE DInv' BY <1>7, <1>10 DEF Number
<1>11. CASE Quiet \/ UNCHANGED vars BY <1>7, <1>11 DEF Quiet, vars
<1> QED BY <1>3, <1>4, <1>5, <1>6, <1>8, <1>9, <1>10, <1>11 DEF Next, Others, Start

\* A second start once begun stays begun.
LEMMA OnceBefore == LInv /\ [Next]_vars /\ StartsOnce' => StartsOnce
<1> SUFFICES ASSUME LInv, [Next]_vars PROVE Starters \subseteq Starters'
  BY DEF StartsOnce
<1>1. pc \in [Callers -> Steps] BY DEF LInv, TypeOK
<1>2. ASSUME NEW c \in Callers, Call(c) \/ Start(c) PROVE Starters \subseteq Starters'
  <2>1. \A d \in Callers \ {c} : pc'[d] = pc[d] BY <1>2, CallersStay DEF LInv
  <2>2. c \in Starters => pc'[c] \notin {"idle", "test", "back"}
    BY <1>1, <1>2
    DEF Starters, Call, Start, Test, Set, Register, StalledLock, CreateVtables, Construct, Hook,
        AllLock, ClearImmutable, SetObject, Name, AllUnlock, StalledUnlock, Create, WaitPlatform,
        WaitDisplay, Alloc, InitDevice, FillMembers, Attach, RegisterService, Sleep, Goto
  <2> QED BY <2>1, <2>2 DEF Starters
<1>3. CASE pc' = pc BY <1>3 DEF Starters
<1> QED
  BY <1>2, <1>3
  DEF Next, Others, Quiet, vars, Load, Look, LoadInsert, LoadEnd, LookEnd, Publish, Number

OnceInv == LInv /\ (StartsOnce => DInv)

LEMMA Invariance == Spec => []OnceInv
<1>1. Init => OnceInv BY InitDInv, InitLInv DEF OnceInv
<1>2. OnceInv /\ [Next]_vars => OnceInv' BY NextLInv, OnceBefore, NextDInv DEF OnceInv
<1> QED BY <1>1, <1>2, PTL DEF Spec

\* Whoever is offered one of the driver's devices finds it complete, whether
\* one call starts the driver or several do: a device is registered last.
\* Whoever finds one of its classes finds it complete unless a second call got
\* past the test: the class is in the dictionary before its name is set, but
\* the lock is held until it is.
THEOREM WholeWhenVisible == Spec => []VisibleWhole
<1>1. OnceInv /\ UInv => VisibleWhole
  <2> SUFFICES ASSUME OnceInv, UInv PROVE VisibleWhole
    OBVIOUS
  <2>1. ASSUME StartsOnce, lock["all"] \notin Callers, NEW k \in dict PROVE class[k] = ClassFacts
    <3>1. Found /\ Holding BY <2>1 DEF OnceInv, DInv, LInv
    <3>2. ~ \E c \in Callers : pc[c] = "name" BY <2>1, <3>1 DEF Holding, AllHeld
    <3> QED BY <2>1, <3>1, <3>2 DEF Found
  <2> QED BY <2>1 DEF VisibleWhole, UInv, DevicesWhole
<1> QED BY <1>1, Invariance, EveryStart, PTL

-----------------------------------------------------------------------------
(* The order of the disks.                                                 *)

\* A device is made once all before it have their disk numbers.
DiskInv ==
  /\ Len(disks) <= Len(registered) /\ Len(registered) <= Len(disks) + 1
  /\ \A i \in DOMAIN disks : disks[i] = registered[i]
  /\ \A c \in Callers : pc[c] \in Making => Len(disks) = Len(registered)

LEMMA NextDiskInv == DInv /\ DInv' /\ DiskInv /\ Prompt /\ [Next]_vars => DiskInv'
<1> SUFFICES ASSUME DInv, DInv', DiskInv, Prompt, [Next]_vars PROVE DiskInv'
  OBVIOUS
<1>1. /\ registered \in Seq(Callers \X Numbers) /\ disks \in Seq(Callers \X Numbers)
      /\ pc \in [Callers -> Steps]
      /\ at \in [Callers -> 0..(NumBlockDevs + Len(Classes) + 1)]
  BY DEF DInv, LInv, TypeOK
<1>2. /\ Len(registered) \in Nat /\ DOMAIN registered = 1..Len(registered)
      /\ Len(disks) \in Nat /\ DOMAIN disks = 1..Len(disks)
      /\ Len(disks) <= Len(registered) /\ Len(registered) <= Len(disks) + 1
      /\ \A i \in DOMAIN disks : disks[i] = registered[i]
  BY <1>1, LenProperties DEF DiskInv
<1>0. /\ Len(registered) \in Nat /\ Len(disks) \in Nat
      /\ Len(disks) <= Len(registered) /\ Len(registered) <= Len(disks) + 1
  BY <1>2
<1>3. \A c \in Callers : pc[c] \in Making => Len(disks) = Len(registered) BY DEF DiskInv
<1> USE DEF Goto, registry, services, others
<1>4. ASSUME UNCHANGED <<disks, registered>>,
             \A c \in Callers : pc'[c] \in Making => pc[c] \in Making \/ Len(disks) = Len(registered)
      PROVE  DiskInv'
  BY <1>2, <1>3, <1>4 DEF DiskInv
<1>5. ASSUME NEW c \in Callers, Call(c) \/ Start(c), ~RegisterService(c) PROVE DiskInv'
  <2>1. UNCHANGED <<disks, registered>>
    BY <1>5 DEF Call, Start, Test, Set, Register, StalledLock, CreateVtables, Construct, Hook, AllLock,
       ClearImmutable, SetObject, Name, AllUnlock, StalledUnlock, Create, WaitPlatform, WaitDisplay,
       Alloc, InitDevice, FillMembers, Attach, Sleep
  <2>2. \A d \in Callers \ {c} : pc'[d] = pc[d]
    BY <1>5, CallersStay DEF DInv, LInv
  <2>3. ASSUME pc'[c] \in Making, pc[c] \notin Making PROVE Len(disks) = Len(registered)
    <3>1. WaitDisplay(c) \/ Sleep(c)
      BY <1>1, <1>5, <2>3 DEF Call, Start, Test, Set, Register, StalledLock, CreateVtables, Construct,
         Hook, AllLock, ClearImmutable, SetObject, Name, AllUnlock, StalledUnlock, Create,
         WaitPlatform, Alloc, InitDevice, FillMembers, Attach, Making
    <3>2. CASE WaitDisplay(c)
      <4>1. pc[c] = "display" BY <3>2 DEF WaitDisplay
      <4>2. registered = <<>> BY <4>1 DEF DInv, ServiceAt
      <4>3. Len(registered) = 0 BY <4>2
      <4> QED BY <1>2, <4>3
    <3>3. CASE Sleep(c)
      <4>1. pc[c] = "sleep" /\ \E i \in DOMAIN disks : disks[i] = <<c, at[c]>>
        BY <3>3 DEF Sleep
      <4>2. PICK i \in DOMAIN disks : disks[i] = <<c, at[c]>> BY <4>1
      <4>3. i \in DOMAIN registered /\ registered[i] = <<c, at[c]>> BY <1>2, <4>2
      <4>4. registered[i][2] = at[c] BY <4>3
      <4>5. registered[i][2] = i - 1 BY <4>3 DEF DInv, Found
      <4>6. Len(registered) = at[c] + 1 BY <4>1 DEF DInv, ServiceAt
      <4>7. at[c] \in Int BY <1>1, NumberFacts
      <4>8. i \in 1..Len(disks) BY <1>2, <4>2
      <4>9. i - 1 = at[c] BY <4>4, <4>5
      <4>10. i = Len(registered) BY <1>0, <4>6, <4>7, <4>8, <4>9
      <4> QED BY <1>0, <4>8, <4>10
    <3> QED BY <3>1, <3>2, <3>3
  <2> QED BY <1>4, <2>1, <2>2, <2>3
<1>6. ASSUME NEW c \in Callers, RegisterService(c) PROVE DiskInv'
  <2>1. disks' = disks /\ registered' = Append(registered, <<c, at[c]>>) /\ pc[c] = "register"
    BY <1>6 DEF RegisterService
  <2>2. Len(disks) = Len(registered) BY <1>3, <2>1 DEF Making
  <2>3. <<c, at[c]>> \in Callers \X Numbers
    <3>1. at[c] \in Numbers BY <2>1 DEF DInv, LInv, AtOne, Making
    <3> QED BY <3>1
  <2>4. /\ Len(registered') = Len(registered) + 1
        /\ \A i \in 1..Len(registered) : registered'[i] = registered[i]
    <3> HIDE DEF registry, services, others
    <3> QED BY <1>1, <2>1, <2>3, AppendProperties
  <2>5. \A d \in Callers : pc'[d] \notin Making
    <3>1. pc'[c] \in {"sleep", "done"} BY <1>1, <1>6 DEF RegisterService
    <3>2. Create(c) /\ pc[c] \in Busy BY <1>6, <2>1 DEF Create, Busy, Making
    <3>3. \A d \in Callers \ {c} : pc[d] \notin Busy /\ pc'[d] = pc[d] BY <3>2, BusyFrame
    <3> QED BY <3>1, <3>3 DEF Busy, Making
  <2>6. Len(disks') <= Len(registered') /\ Len(registered') <= Len(disks') + 1
    <3>1. Len(disks') = Len(disks) BY <2>1
    <3> QED BY <1>0, <2>2, <2>4, <3>1
  <2>7. \A i \in DOMAIN disks' : disks'[i] = registered'[i]
    <3>1. \A i \in DOMAIN disks : i \in 1..Len(registered) BY <1>2, <2>2
    <3> QED BY <1>2, <2>1, <2>4, <3>1
  <2> QED BY <2>5, <2>6, <2>7 DEF DiskInv
<1>7. ASSUME NEW i \in DOMAIN registered, Number(i) PROVE DiskInv'
  <2>1. UNCHANGED <<pc, registered>> /\ disks' = Append(disks, registered[i])
        /\ \A j \in DOMAIN disks : disks[j] # registered[i]
    BY <1>7 DEF Number
  <2>2. i \notin DOMAIN disks BY <1>2, <2>1
  <2>3. i = Len(disks) + 1 /\ Len(registered) = Len(disks) + 1
    <3>1. i \in 1..Len(registered) /\ i \notin 1..Len(disks) BY <1>2, <1>7, <2>2
    <3> QED BY <1>0, <3>1
  <2>4. registered[i] \in Callers \X Numbers BY <1>1, <1>7
  <2>5. /\ Len(disks') = Len(disks) + 1 /\ DOMAIN disks' = 1..(Len(disks) + 1)
        /\ \A j \in 1..Len(disks) : disks'[j] = disks[j]
        /\ disks'[Len(disks) + 1] = registered[i]
    <3>1. disks \in Seq(Callers \X Numbers) /\ disks' = Append(disks, registered[i]) BY <1>1, <2>1
    <3>2. disks' \in Seq(Callers \X Numbers)
      <4> HIDE DEF registry, services, others
      <4> QED BY <2>4, <3>1, AppendProperties
    <3>3. DOMAIN disks' = 1..Len(disks') BY <3>2, LenProperties
    <3>4. /\ Len(disks') = Len(disks) + 1
          /\ \A j \in 1..Len(disks) : disks'[j] = disks[j]
          /\ disks'[Len(disks) + 1] = registered[i]
      <4> HIDE DEF registry, services, others
      <4> QED BY <2>4, <3>1, AppendProperties
    <3> QED BY <3>3, <3>4
  <2>6. \A c \in Callers : pc'[c] \notin Making
    <3>1. Len(disks) # Len(registered) BY <1>0, <2>3
    <3> QED BY <1>3, <2>1, <3>1
  <2>7. \A j \in DOMAIN disks' : disks'[j] = registered'[j]
    <3>1. ASSUME NEW j \in DOMAIN disks' PROVE disks'[j] = registered'[j]
      <4>1. CASE j \in 1..Len(disks) BY <1>2, <2>1, <2>5, <4>1
      <4>2. CASE j = Len(disks) + 1 BY <2>1, <2>3, <2>5, <4>2
      <4> QED BY <1>2, <2>5, <4>1, <4>2
    <3> QED BY <3>1
  <2>8. Len(disks') <= Len(registered') /\ Len(registered') <= Len(disks') + 1
    <3>1. Len(disks') = Len(disks) + 1 /\ Len(registered') = Len(registered) BY <2>1, <2>5
    <3> QED BY <1>0, <2>3, <3>1
  <2> QED BY <2>6, <2>7, <2>8 DEF DiskInv
<1>8. ASSUME UNCHANGED <<pc, registered, disks>> PROVE DiskInv' BY <1>4, <1>8
<1>9. ASSUME NEW t \in Kernel, Load(t) \/ Look(t) \/ LoadInsert(t) \/ LoadEnd(t) \/ LookEnd(t)
      PROVE  UNCHANGED <<pc, registered, disks>>
  BY <1>9 DEF Load, Look, LoadInsert, LoadEnd, LookEnd
<1>10. ASSUME NEW s \in Platform, Publish(s) PROVE UNCHANGED <<pc, registered, disks>>
  BY <1>10 DEF Publish
<1>11. CASE Quiet \/ UNCHANGED vars BY <1>8, <1>11 DEF Quiet, vars
<1> QED BY <1>5, <1>6, <1>7, <1>8, <1>9, <1>10, <1>11 DEF Next, Others

\* The disks are numbered in the order of registration, provided that each has
\* its number within the second that the start waits for it.
THEOREM DisksInOrder == Prompt => (Spec => []DiskOrder)
<1> SUFFICES ASSUME Prompt PROVE Spec => []DiskOrder
  OBVIOUS
<1> DEFINE OnceDiskInv == StartsOnce => DiskInv
<1>1. Init => OnceDiskInv
  BY DEF Init, DiskInv, DiskOrder, Making
<1>2. OnceInv /\ OnceInv' /\ OnceDiskInv /\ [Next]_vars => OnceDiskInv'
  BY NextDiskInv, OnceBefore DEF OnceInv
<1>3. OnceDiskInv => DiskOrder BY DEF DiskInv, DiskOrder
<1> HIDE DEF OnceDiskInv
<1> QED BY <1>1, <1>2, <1>3, Invariance, PTL DEF Spec

-----------------------------------------------------------------------------
(* Refinement: what the rest of the kernel sees.                           *)

numbers == [i \in DOMAIN registered |-> registered[i][2]]

LEMMA SameNames == R!ClassNames = ClassNames
<1>1. DOMAIN Classes = 1..3 BY DEF Classes
<1>2. R!ClassNames = Upto(3) BY <1>1 DEF R!ClassNames, Upto
<1> QED BY <1>2, UptoFacts

\* Only the steps that take or drop the lock, insert or register can be seen.
LEMMA Unseen ==
  ASSUME dict' = dict, registered' = registered,
         \/ lock'["all"] = lock["all"]
         \/ lock'["all"] \notin Callers /\ lock["all"] \notin Callers,
         lock["all"] \in Callers => at'[lock["all"]] = at[lock["all"]]
  PROVE  UNCHANGED R!vars
<1>1. visible' = visible BY DEF visible, Class
<1> QED BY <1>1 DEF R!vars

LEMMA RegisterRefines ==
  ASSUME DInv, NEW c \in Callers, Register(c)
  PROVE  [R!Next]_(R!vars)
<1>1. /\ pc \in [Callers -> Steps] /\ Holding /\ ClassAt(c) /\ ServiceAt(c)
      /\ at \in [Callers -> 0..(NumBlockDevs + Len(Classes) + 1)]
      /\ lock \in [Locks -> Callers \cup Kernel \cup {None}] /\ None \notin Callers
  BY DriverAssumption DEF DInv, LInv, TypeOK
<1>2. pc[c] \in Classing /\ UNCHANGED <<device, registered>>
  BY DEF Register, StalledLock, CreateVtables, Construct, Hook, AllLock, ClearImmutable, SetObject,
         Name, AllUnlock, StalledUnlock, Goto, services, Classing, StalledHeld
<1>3. at[c] \in 1..3 /\ Class(c) = Classes[at[c]]
  BY <1>2 DEF DInv, LInv, AtOne, Class
<1> USE DEF Goto, registry, services, others
<1>4. CASE StalledLock(c)
  <2>1. UNCHANGED <<at, dict>> /\ lock'["all"] = lock["all"]
    BY <1>1, <1>4 DEF StalledLock, TakeLock, Locks
  <2> QED BY <1>2, <2>1, Unseen
<1>5. CASE CreateVtables(c) \/ Construct(c) \/ Hook(c) \/ ClearImmutable(c) \/ Name(c)
  <2>1. UNCHANGED <<at, dict, lock>>
    BY <1>5 DEF CreateVtables, Construct, Hook, ClearImmutable, Name
  <2> QED BY <1>2, <2>1, Unseen
<1>6. CASE AllLock(c)
  <2>1. /\ UNCHANGED <<at, dict>> /\ pc[c] = "all lock" /\ lock["all"] = None
        /\ lock' = [lock EXCEPT !["all"] = c]
    BY <1>6 DEF AllLock, TakeLock
  <2>2. lock'["all"] = c BY <1>1, <2>1 DEF Locks
  <2>3. dict = Upto(at[c] - 1) BY <1>1, <1>2, <2>1 DEF ClassAt, Inserted
  <2>4. Class(c) \notin dict BY <1>3, <2>3, UptoFacts
  <2>5. Class(c)' = Class(c) BY <2>1 DEF Class
  <2>6. visible' = visible BY <1>1, <2>1, <2>2, <2>4, <2>5 DEF visible
  <2> QED BY <1>2, <2>6 DEF R!vars
<1>7. CASE SetObject(c)
  <2>1. /\ UNCHANGED <<at, lock>> /\ pc[c] = "insert"
        /\ dict' = IF immutable THEN dict ELSE dict \cup {Class(c)}
    BY <1>7 DEF SetObject
  <2>2. lock["all"] = c BY <1>1, <2>1 DEF Holding, AllHeld
  <2>3. Class(c)' = Class(c) BY <2>1 DEF Class
  <2>4. visible' = visible BY <2>1, <2>2, <2>3 DEF visible
  <2> QED BY <1>2, <2>4 DEF R!vars
<1>8. CASE AllUnlock(c)
  <2>1. /\ UNCHANGED <<at, dict>> /\ pc[c] = "all unlock" /\ lock' = [lock EXCEPT !["all"] = None]
    BY <1>8 DEF AllUnlock, DropLock
  <2>2. lock["all"] = c /\ lock'["all"] = None
    BY <1>1, <2>1 DEF Holding, AllHeld, Locks
  <2>3. dict = Upto(at[c]) BY <1>1, <1>2, <2>1 DEF ClassAt, Inserted
  <2>4. visible = Upto(at[c] - 1) /\ visible' = visible \cup {Classes[at[c]]}
    <3>1. visible = dict \ {Classes[at[c]]} BY <1>3, <2>2 DEF visible
    <3>2. visible' = dict BY <1>1, <2>1, <2>2 DEF visible
    <3> QED BY <1>3, <2>3, <3>1, <3>2, UptoFacts
  <2>5. at[c] \in DOMAIN Classes BY <1>3 DEF Classes
  <2>6. R!PublishClass(at[c]) BY <1>2, <2>4 DEF R!PublishClass, Upto
  <2> QED BY <2>5, <2>6 DEF R!Next
<1>9. CASE StalledUnlock(c)
  <2>1. dict' = dict /\ lock' = [lock EXCEPT !["stalled"] = None] /\ pc[c] = "stalled unlock"
        /\ at' = [at EXCEPT ![c] = @ + 1]
    BY <1>9 DEF StalledUnlock, DropLock
  <2>2. lock["all"] # c BY <1>1, <2>1 DEF Holding, AllHeld
  <2>3. lock'["all"] = lock["all"] BY <1>1, <2>1 DEF Locks
  <2>4. lock["all"] \in Callers => at'[lock["all"]] = at[lock["all"]] BY <1>1, <2>1, <2>2
  <2> QED BY <1>2, <2>1, <2>3, <2>4, Unseen
<1> QED BY <1>4, <1>5, <1>6, <1>7, <1>8, <1>9 DEF Register

LEMMA CreateRefines ==
  ASSUME DInv, NEW c \in Callers, Create(c)
  PROVE  [R!Next]_(R!vars)
<1>1. /\ registered \in Seq(Callers \X Numbers) /\ pc \in [Callers -> Steps] /\ Holding
      /\ AtOne /\ ServiceAt(c) /\ Found
      /\ at \in [Callers -> 0..(NumBlockDevs + Len(Classes) + 1)]
  BY DEF DInv, LInv, TypeOK
<1>2. UNCHANGED <<dict, lock>> /\ pc[c] \notin AllHeld /\ pc[c] \notin Classing /\ pc[c] \in Busy
  BY DEF Create, WaitPlatform, WaitDisplay, Alloc, InitDevice, FillMembers, Attach,
         RegisterService, Sleep, Goto, registry, AllHeld, Classing, StalledHeld, Busy, Making
<1>3. lock["all"] # c /\ \A d \in Callers \ {c} : at'[d] = at[d]
  BY <1>1, <1>2, BusyFrame DEF Holding
<1> USE DEF Goto, registry, services, others
<1>4. CASE ~RegisterService(c)
  <2>1. registered' = registered
    BY <1>4 DEF Create, WaitPlatform, WaitDisplay, Alloc, InitDevice, FillMembers, Attach, Sleep
  <2> QED BY <1>2, <1>3, <2>1, Unseen
<1>5. CASE RegisterService(c)
  <2>1. at' = at /\ registered' = Append(registered, <<c, at[c]>>) /\ pc[c] = "register"
    BY <1>5 DEF RegisterService
  <2>2. at[c] \in Numbers /\ Len(registered) = at[c]
    BY <1>1, <2>1 DEF AtOne, ServiceAt, Making
  <2>3. visible' = visible BY <1>2, <2>1 DEF visible, Class
  <2>4. \A d \in Callers : pc[d] \notin Classing
    BY <1>2, BusyFrame DEF Busy
  <2>5. lock["all"] \notin Callers /\ dict = ClassNames
    <3>1. lock["all"] \notin Callers BY <1>1, <2>4 DEF Holding, AllHeld, Classing, StalledHeld
    <3> QED BY <1>1, <2>4, <3>1, BusyFrame DEF Found
  <2>6. visible = R!ClassNames BY <2>5, SameNames DEF visible
  <2>7. numbers \in Seq(Numbers) /\ Len(numbers) = at[c]
    <3>1. DOMAIN registered = 1..Len(registered) /\ Len(registered) \in Nat
          /\ \A i \in DOMAIN registered : registered[i] \in Callers \X Numbers
      BY <1>1, LenProperties
    <3>2. numbers = [i \in 1..Len(registered) |-> registered[i][2]] BY <3>1 DEF numbers
    <3>3. \A i \in 1..Len(registered) : registered[i][2] \in Numbers BY <3>1
    <3>4. numbers \in [1..Len(registered) -> Numbers] BY <3>2, <3>3
    <3>5. numbers \in Seq(Numbers) BY <3>1, <3>4
    <3>6. Len(numbers) = Len(registered) BY <3>1, <3>4, <3>5, LenProperties
    <3> QED BY <2>2, <3>5, <3>6
  <2>8. numbers' = Append(numbers, Len(numbers))
    <3>1. <<c, at[c]>> \in Callers \X Numbers BY <2>2
    <3>2. /\ registered' \in Seq(Callers \X Numbers) /\ Len(registered') = Len(registered) + 1
          /\ \A i \in 1..Len(registered) : registered'[i] = registered[i]
          /\ registered'[Len(registered) + 1] = <<c, at[c]>>
      <4> HIDE DEF registry, services, others
      <4> QED BY <1>1, <2>1, <3>1, AppendProperties
    <3>3. /\ DOMAIN registered' = 1..(at[c] + 1) /\ DOMAIN registered = 1..at[c] /\ at[c] \in Nat
          /\ DOMAIN numbers = 1..at[c]
      BY <1>1, <2>2, <3>2, LenProperties DEF numbers
    <3>4. numbers' = [i \in 1..(at[c] + 1) |-> registered'[i][2]] BY <3>3 DEF numbers
    <3>5. Append(numbers, at[c]) = [i \in 1..(at[c] + 1) |-> IF i = at[c] + 1 THEN at[c] ELSE numbers[i]]
      BY <2>7, <3>3
    <3>6. ASSUME NEW i \in 1..(at[c] + 1)
          PROVE  registered'[i][2] = IF i = at[c] + 1 THEN at[c] ELSE numbers[i]
      <4>1. CASE i = at[c] + 1 BY <2>2, <3>2, <4>1
      <4>2. CASE i # at[c] + 1
        <5>1. i \in 1..at[c] BY <3>3, <4>2
        <5>2. registered'[i] = registered[i] BY <2>2, <3>2, <5>1
        <5>3. numbers[i] = registered[i][2] BY <3>3, <5>1 DEF numbers
        <5> QED BY <4>2, <5>2, <5>3
      <4> QED BY <4>1, <4>2
    <3> QED BY <2>7, <3>4, <3>5, <3>6
  <2>9. Len(numbers) < NumBlockDevs + 1 BY <2>2, <2>7, NumberFacts DEF Numbers
  <2>10. R!RegisterService BY <2>3, <2>6, <2>8, <2>9 DEF R!RegisterService, numbers
  <2> QED BY <2>10 DEF R!Next
<1> QED BY <1>4, <1>5

\* As long as no second call gets past the test of executed, the start shows
\* its classes, then its devices, one by one.
THEOREM Refinement == Spec => ImplementsRegistry
<1>1. Init => R!Init
  <2> SUFFICES ASSUME Init PROVE R!Init
    OBVIOUS
  <2>1. lock["all"] = None /\ None \notin Callers /\ dict = {} /\ registered = <<>>
    BY DriverAssumption DEF Init, Locks
  <2>2. visible = {} BY <2>1 DEF visible
  <2>3. [i \in DOMAIN registered |-> registered[i][2]] = <<>> BY <2>1
  <2> QED BY <2>2, <2>3 DEF R!Init
<1>2. DInv /\ [Next]_vars => [R!Next]_(R!vars)
  <2> SUFFICES ASSUME DInv, [Next]_vars PROVE [R!Next]_(R!vars)
    OBVIOUS
  <2>0. /\ Holding /\ stalled = {} /\ None \notin Callers /\ Callers \cap Kernel = {}
        /\ lock \in [Locks -> Callers \cup Kernel \cup {None}]
        /\ pc \in [Callers -> Steps]
        /\ at \in [Callers -> 0..(NumBlockDevs + Len(Classes) + 1)]
    BY DriverAssumption DEF DInv, LInv, TypeOK
  <2> USE DEF Goto, KGoto, registry, services, others
  <2>1. ASSUME UNCHANGED <<at, dict, lock, registered>> PROVE [R!Next]_(R!vars) BY <2>1, Unseen
  <2>2. ASSUME NEW c \in Callers, Call(c) \/ Test(c) PROVE [R!Next]_(R!vars)
    BY <2>1, <2>2 DEF Call, Test
  <2>3. ASSUME NEW c \in Callers, Set(c) PROVE [R!Next]_(R!vars)
    <3>1. UNCHANGED <<dict, lock, registered>> /\ pc[c] = "set" /\ at' = [at EXCEPT ![c] = 1]
      BY <2>3 DEF Set
    <3>2. lock["all"] # c BY <2>0, <3>1 DEF Holding, AllHeld
    <3>3. lock["all"] \in Callers => at'[lock["all"]] = at[lock["all"]] BY <2>0, <3>1, <3>2
    <3> QED BY <3>1, <3>3, Unseen
  <2>4. ASSUME NEW c \in Callers, Register(c) \/ Create(c) PROVE [R!Next]_(R!vars)
    BY <2>4, RegisterRefines, CreateRefines
  <2>5. ASSUME NEW t \in Kernel, Load(t) \/ Look(t) \/ LoadInsert(t) \/ LoadEnd(t) \/ LookEnd(t)
        PROVE  [R!Next]_(R!vars)
    <3>1. UNCHANGED <<at, dict, registered>>
      BY <2>0, <2>5 DEF Load, Look, LoadInsert, LoadEnd, LookEnd
    <3>2. t \notin Callers BY <2>0
    <3>3. \/ lock'["all"] = lock["all"]
          \/ lock'["all"] \notin Callers /\ lock["all"] \notin Callers
      <4>1. CASE Load(t) BY <2>0, <4>1 DEF Load, TakeLock, Locks
      <4>2. CASE Look(t) \/ LoadInsert(t)
        BY <2>0, <3>2, <4>2 DEF Look, LoadInsert, TakeLock, Locks
      <4>3. CASE LoadEnd(t) \/ LookEnd(t)
        <5>1. lock["all"] = t BY <2>0, <4>3 DEF LoadEnd, LookEnd, Holding
        <5>2. lock'["all"] = None BY <2>0, <4>3 DEF LoadEnd, LookEnd, DropLock, Locks
        <5> QED BY <2>0, <3>2, <5>1, <5>2
      <4> QED BY <2>5, <4>1, <4>2, <4>3
    <3> QED BY <3>1, <3>3, Unseen
  <2>6. ASSUME NEW s \in Platform, Publish(s) PROVE [R!Next]_(R!vars) BY <2>1, <2>6 DEF Publish
  <2>7. ASSUME NEW i \in DOMAIN registered, Number(i) PROVE [R!Next]_(R!vars)
    BY <2>1, <2>7 DEF Number
  <2>8. CASE Quiet \/ UNCHANGED vars BY <2>1, <2>8 DEF Quiet, vars
  <2> QED BY <2>2, <2>3, <2>4, <2>5, <2>6, <2>7, <2>8 DEF Next, Others, Start
<1>3. OnceInv /\ [Next]_vars => [R!Next \/ ~StartsOnce']_(R!vars)
  BY <1>2, OnceBefore DEF OnceInv
<1> QED BY <1>1, <1>3, Invariance, PTL DEF Spec, ImplementsRegistry
=============================================================================
