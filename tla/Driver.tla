------------------------------- MODULE Driver -------------------------------
(***************************************************************************)
(* The start of aleph_bdev_drv: _start() (main.c), which the kernel calls  *)
(* whenever the function it hooks is called, the registration of the       *)
(* driver's three classes (mclass_reg.c and the *_mclass.c files) and the  *)
(* creation of its devices (create_new_aleph_bdev, create_new_aleph_fbdev).*)
(*                                                                         *)
(* Other threads of the kernel load classes of their own, look classes up  *)
(* and give numbers to the disks meanwhile.  What a class or a device has  *)
(* been given so far is a set of facts; names and virtual tables are not   *)
(* written out.  The dictionary of classes and the two locks exist before  *)
(* the hooked function is first called.                                    *)
(***************************************************************************)
EXTENDS Integers, Sequences

CONSTANTS
  Callers,      \* threads that call the hooked function
  Kernel,       \* other threads that load classes or look them up
  NumBlockDevs, \* NUM_BLOCK_DEVS
  Prompt,       \* whether a disk gets its number within IOSleep(1000)
  Visits,       \* bound on what the threads of Kernel do
  None          \* the holder of a free lock

ASSUME DriverAssumption ==
  /\ NumBlockDevs \in 0..10
  /\ Prompt \in BOOLEAN
  /\ Visits \in Nat
  /\ Callers \cap Kernel = {}
  /\ None \notin Callers \cup Kernel

VARIABLES
  executed,   \* executed
  pc,         \* each caller's next step
  at,         \* the number of the class or device it is at
  lock,       \* holders of sStalledClassesLock and sAllClassesLock
  dict,       \* the driver's classes in sAllClassesDict
  immutable,  \* kImmutable of the dictionary
  stalled,    \* the driver's classes on the list of a load under way
  class,      \* what each class has
  device,     \* what each device has
  registered, \* devices registered with IOKit
  disks,      \* block devices in the order of their disk numbers
  present,    \* services of the platform that are there
  kpc,        \* each kernel thread's next step
  visits      \* visits of kernel threads so far

registry == <<lock, dict, immutable, stalled, class>>
services == <<device, registered>>
others   == <<disks, present, kpc, visits>>
vars == <<executed, pc, at, registry, services, others>>

Classes    == <<"bdev", "fb", "fbuc">>
ClassNames == {"bdev", "fb", "fbuc"}
ClassFacts == {"vtables", "object", "hook", "name"}
Locks      == {"stalled", "all"}

\* Devices: the block devices, then the framebuffer.
Numbers     == 0..NumBlockDevs

\* Mutant of BlockDevs: the loop runs while i <= NUM_BLOCK_DEVS.
BlockDevsInclusive == 0..NumBlockDevs

BlockDevs   == 0..(NumBlockDevs - 1)
ClassOf(n)  == IF n \in BlockDevs THEN "bdev" ELSE "fb"
DeviceFacts == {"constructed", "init", "members", "attached"}

Init ==
  /\ executed = FALSE
  /\ pc = [c \in Callers |-> "idle"]
  /\ at = [c \in Callers |-> 0]
  /\ lock = [l \in Locks |-> None]
  /\ dict = {}
  /\ immutable = TRUE
  /\ stalled = {}
  /\ class = [k \in ClassNames |-> {}]
  /\ device = [d \in Callers \X Numbers |-> {}]
  /\ registered = <<>>
  /\ disks = <<>>
  /\ present = {}
  /\ kpc = [t \in Kernel |-> "idle"]
  /\ visits = 0

Goto(c, from, to) == pc[c] = from /\ pc' = [pc EXCEPT ![c] = to]

-----------------------------------------------------------------------------
(* _start().                                                               *)

Call(c) ==
  /\ Goto(c, "idle", "test")
  /\ UNCHANGED <<executed, at, registry, services, others>>

\* Nothing keeps another call from the same test before executed is set.
Test(c) ==
  /\ Goto(c, "test", IF executed THEN "back" ELSE "set")
  /\ UNCHANGED <<executed, at, registry, services, others>>

Set(c) ==
  /\ Goto(c, "set", "stalled lock")
  /\ executed' = TRUE
  /\ at' = [at EXCEPT ![c] = 1]
  /\ UNCHANGED <<registry, services, others>>

-----------------------------------------------------------------------------
(* register_bdev_meta_class(), register_fb_meta_class() and                *)
(* register_fbuc_meta_class(), which differ in the class only.             *)

Class(c) == Classes[at[c]]

\* Mutant of TakeLock: it does not wait.
TakeLockAnyway(c, l) == lock' = [lock EXCEPT ![l] = c]

TakeLock(c, l) == lock[l] = None /\ lock' = [lock EXCEPT ![l] = c]
DropLock(l)    == lock' = [lock EXCEPT ![l] = None]

Gains(c, fact) == class' = [class EXCEPT ![Class(c)] = @ \cup {fact}]

StalledLock(c) ==
  /\ Goto(c, "stalled lock", "vtables")
  /\ TakeLock(c, "stalled")
  /\ UNCHANGED <<executed, at, dict, immutable, stalled, class, services, others>>

\* The virtual tables of the class and of its metaclass.
CreateVtables(c) ==
  /\ Goto(c, "vtables", "object")
  /\ Gains(c, "vtables")
  /\ UNCHANGED <<executed, at, lock, dict, immutable, stalled, services, others>>

\* OSMetaClass_OSMetaClass(), which resets the object and puts it on the list
\* of a load under way, if there is one.
Construct(c) ==
  /\ Goto(c, "object", "hook")
  /\ class' = [class EXCEPT ![Class(c)] = (@ \cup {"object"}) \ {"hook", "name"}]
  /\ stalled' = IF \E t \in Kernel : kpc[t] = "loading"
                THEN stalled \cup {Class(c)} ELSE stalled
  /\ UNCHANGED <<executed, at, lock, dict, immutable, services, others>>

\* mc[0]: alloc() of the metaclass is the driver's from here on.
Hook(c) ==
  /\ Goto(c, "hook", "all lock")
  /\ Gains(c, "hook")
  /\ UNCHANGED <<executed, at, lock, dict, immutable, stalled, services, others>>

AllLock(c) ==
  /\ Goto(c, "all lock", "mutable")
  /\ TakeLock(c, "all")
  /\ UNCHANGED <<executed, at, dict, immutable, stalled, class, services, others>>

\* Mutant of ClearImmutable: the flag is left as it is.
ClearNothing(c) ==
  /\ Goto(c, "mutable", "insert")
  /\ UNCHANGED <<executed, at, registry, services, others>>

ClearImmutable(c) ==
  /\ Goto(c, "mutable", "insert")
  /\ immutable' = FALSE
  /\ UNCHANGED <<executed, at, lock, dict, stalled, class, services, others>>

\* OSDictionary_setObject(), which fails on an immutable dictionary; the result
\* is not looked at.
SetObject(c) ==
  /\ Goto(c, "insert", "name")
  /\ dict' = IF immutable THEN dict ELSE dict \cup {Class(c)}
  /\ UNCHANGED <<executed, at, lock, immutable, stalled, class, services, others>>

\* mc[3] becomes a symbol.
Name(c) ==
  /\ Goto(c, "name", "all unlock")
  /\ Gains(c, "name")
  /\ UNCHANGED <<executed, at, lock, dict, immutable, stalled, services, others>>

AllUnlock(c) ==
  /\ Goto(c, "all unlock", "stalled unlock")
  /\ DropLock("all")
  /\ UNCHANGED <<executed, at, dict, immutable, stalled, class, services, others>>

\* Mutants of StalledUnlock: the lock is kept; the last class is forgotten.
StalledUnlockNothing(c) ==
  /\ Goto(c, "stalled unlock", IF at[c] < Len(Classes) THEN "stalled lock" ELSE "platform")
  /\ at' = [at EXCEPT ![c] = @ + 1]
  /\ UNCHANGED <<executed, registry, services, others>>

StalledUnlockLast(c) ==
  /\ Goto(c, "stalled unlock", IF at[c] < Len(Classes) - 1 THEN "stalled lock" ELSE "platform")
  /\ at' = [at EXCEPT ![c] = @ + 1]
  /\ DropLock("stalled")
  /\ UNCHANGED <<executed, dict, immutable, stalled, class, services, others>>

StalledUnlock(c) ==
  /\ Goto(c, "stalled unlock", IF at[c] < Len(Classes) THEN "stalled lock" ELSE "platform")
  /\ at' = [at EXCEPT ![c] = @ + 1]
  /\ DropLock("stalled")
  /\ UNCHANGED <<executed, dict, immutable, stalled, class, services, others>>

Register(c) ==
  \/ StalledLock(c) \/ CreateVtables(c) \/ Construct(c) \/ Hook(c) \/ AllLock(c)
  \/ ClearImmutable(c) \/ SetObject(c) \/ Name(c) \/ AllUnlock(c) \/ StalledUnlock(c)

-----------------------------------------------------------------------------
(* The devices.                                                            *)

\* waitForMatchingService() for AppleARMPE, then for disp0, without timeout.
WaitPlatform(c) ==
  /\ Goto(c, "platform", "display")
  /\ "AppleARMPE" \in present
  /\ UNCHANGED <<executed, at, registry, services, others>>

WaitDisplay(c) ==
  /\ Goto(c, "display", "alloc")
  /\ "disp0" \in present
  /\ at' = [at EXCEPT ![c] = 0]
  /\ UNCHANGED <<executed, registry, services, others>>

Adds(c, fact) == device' = [device EXCEPT ![<<c, at[c]>>] = @ \cup {fact}]

\* OSMetaClass_allocClassWithName() under the lock of the dictionary, and the
\* driver's alloc function; cancel() if there is no such class.
Alloc(c) ==
  /\ lock["all"] = None
  /\ IF ClassOf(at[c]) \in dict THEN Goto(c, "alloc", "init") /\ Adds(c, "constructed")
     ELSE Goto(c, "alloc", "cancelled") /\ UNCHANGED device
  /\ UNCHANGED <<executed, at, registry, registered, others>>

InitDevice(c) ==
  /\ Goto(c, "init", "members")
  /\ Adds(c, "init")
  /\ UNCHANGED <<executed, at, registry, registered, others>>

\* The members of a block device, its mutex among them, or the property that
\* names the user client class of the framebuffer.
FillMembers(c) ==
  /\ Goto(c, "members", "attach")
  /\ Adds(c, "members")
  /\ UNCHANGED <<executed, at, registry, registered, others>>

Attach(c) ==
  /\ Goto(c, "attach", "register")
  /\ Adds(c, "attached")
  /\ UNCHANGED <<executed, at, registry, registered, others>>

\* registerService(): from now on other threads may match the device.
RegisterService(c) ==
  /\ Goto(c, "register", IF at[c] \in BlockDevs THEN "sleep" ELSE "done")
  /\ registered' = Append(registered, <<c, at[c]>>)
  /\ UNCHANGED <<executed, at, registry, device, others>>

\* Mutant of Sleep: the next device is made at once.
SleepNothing(c) ==
  /\ Goto(c, "sleep", "alloc")
  /\ at' = [at EXCEPT ![c] = @ + 1]
  /\ UNCHANGED <<executed, registry, services, others>>

\* IOSleep(1000), meant to let the device get its disk number.
Sleep(c) ==
  /\ Goto(c, "sleep", "alloc")
  /\ Prompt => \E i \in DOMAIN disks : disks[i] = <<c, at[c]>>
  /\ at' = [at EXCEPT ![c] = @ + 1]
  /\ UNCHANGED <<executed, registry, services, others>>

Create(c) ==
  \/ WaitPlatform(c) \/ WaitDisplay(c) \/ Alloc(c) \/ InitDevice(c)
  \/ FillMembers(c) \/ Attach(c) \/ RegisterService(c) \/ Sleep(c)

Start(c) == Test(c) \/ Set(c) \/ Register(c) \/ Create(c)

-----------------------------------------------------------------------------
(* The rest of the kernel.                                                 *)

KGoto(t, from, to) == kpc[t] = from /\ kpc' = [kpc EXCEPT ![t] = to]

\* A load of other classes: the list of stalled classes is in use until they
\* are in the dictionary, which is then immutable again.
Load(t) ==
  /\ KGoto(t, "idle", "loading")
  /\ visits < Visits /\ visits' = visits + 1
  /\ TakeLock(t, "stalled")
  /\ UNCHANGED <<executed, pc, at, dict, immutable, stalled, class, services, disks, present>>

LoadInsert(t) ==
  /\ KGoto(t, "loading", "inserting")
  /\ TakeLock(t, "all")
  /\ dict' = dict \cup stalled
  /\ stalled' = {}
  /\ immutable' = TRUE
  /\ UNCHANGED <<executed, pc, at, class, services, disks, present, visits>>

LoadEnd(t) ==
  /\ KGoto(t, "inserting", "idle")
  /\ lock' = [l \in Locks |-> None]
  /\ UNCHANGED <<executed, pc, at, dict, immutable, stalled, class, services, disks, present, visits>>

\* A look for a class by name.
Look(t) ==
  /\ KGoto(t, "idle", "looking")
  /\ visits < Visits /\ visits' = visits + 1
  /\ TakeLock(t, "all")
  /\ UNCHANGED <<executed, pc, at, dict, immutable, stalled, class, services, disks, present>>

LookEnd(t) ==
  /\ KGoto(t, "looking", "idle")
  /\ DropLock("all")
  /\ UNCHANGED <<executed, pc, at, dict, immutable, stalled, class, services, disks, present, visits>>

Publish(s) ==
  /\ s \notin present
  /\ present' = present \cup {s}
  /\ UNCHANGED <<executed, pc, at, registry, services, disks, kpc, visits>>

\* The storage family gives a registered block device the next disk number.
Number(i) ==
  /\ registered[i][2] \in BlockDevs
  /\ \A j \in DOMAIN disks : disks[j] # registered[i]
  /\ disks' = Append(disks, registered[i])
  /\ UNCHANGED <<executed, pc, at, registry, services, present, kpc, visits>>

Platform == {"AppleARMPE", "disp0"}

Others ==
  \/ \E t \in Kernel : LoadInsert(t) \/ LoadEnd(t) \/ LookEnd(t)
  \/ \E s \in Platform : Publish(s)
  \/ \E i \in DOMAIN registered : Number(i)

\* Every caller has returned, having started the driver or found it executed,
\* or the kernel has stopped.
Quiet ==
  /\ \/ \A c \in Callers : pc[c] \in {"done", "back"}
     \/ \E c \in Callers : pc[c] = "cancelled"
  /\ UNCHANGED vars

Next ==
  \/ \E c \in Callers : Call(c) \/ Start(c)
  \/ \E t \in Kernel : Load(t) \/ Look(t)
  \/ Others
  \/ Quiet

Spec == Init /\ [][Next]_vars

\* Threads in the driver and in the kernel's own critical sections run on, the
\* platform's services come up and registered disks get numbers.
FairSpec ==
  /\ Spec
  /\ \A c \in Callers : WF_vars(Start(c))
  /\ WF_vars(Others)

-----------------------------------------------------------------------------
(* Properties.                                                             *)

Steps == {"idle", "test", "set", "stalled lock", "vtables", "object", "hook",
          "all lock", "mutable", "insert", "name", "all unlock", "stalled unlock",
          "platform", "display", "alloc", "init", "members", "attach",
          "register", "sleep", "done", "back", "cancelled"}

TypeOK ==
  /\ executed \in BOOLEAN
  /\ pc \in [Callers -> Steps]
  /\ at \in [Callers -> 0..(NumBlockDevs + Len(Classes) + 1)]
  /\ lock \in [Locks -> Callers \cup Kernel \cup {None}]
  /\ dict \subseteq ClassNames
  /\ immutable \in BOOLEAN
  /\ stalled \subseteq ClassNames
  /\ class \in [ClassNames -> SUBSET ClassFacts]
  /\ device \in [Callers \X Numbers -> SUBSET DeviceFacts]
  /\ registered \in Seq(Callers \X Numbers)
  /\ disks \in Seq(Callers \X Numbers)
  /\ present \subseteq Platform
  /\ kpc \in [Kernel -> {"idle", "loading", "inserting", "looking"}]
  /\ visits \in 0..Visits

\* "in case the hook gets called more than once we want to make sure it starts
\* only once": one call at most gets past the test of executed.  It is the test
\* and the set of two calls that can interleave.
Starters == {c \in Callers : pc[c] \notin {"idle", "test", "back"}}
StartsOnce == \A c, d \in Starters : c = d

\* Whoever is offered a device of the driver finds it complete, however many
\* calls start the driver; whoever finds one of its classes in the dictionary
\* finds virtual tables, hooked metaclass and name, unless a second start is
\* constructing the class again.
VisibleWhole ==
  /\ StartsOnce /\ lock["all"] \notin Callers => \A k \in dict : class[k] = ClassFacts
  /\ \A i \in DOMAIN registered : device[registered[i]] = DeviceFacts

\* The classes get into the dictionary although other loads make it immutable
\* again and the result of setObject is not looked at: no device is refused,
\* to any of the calls that start the driver.
NeverCancels == \A c \in Callers : pc[c] # "cancelled"

\* What the rest of the kernel sees of a start, as long as no second call gets
\* past the test: the classes, then the services, appear one by one.
visible == IF lock["all"] \in Callers THEN dict \ {Class(lock["all"])} ELSE dict
R == INSTANCE Registry WITH
       Services <- NumBlockDevs + 1,
       services <- [i \in DOMAIN registered |-> registered[i][2]]
ImplementsRegistry == R!Init /\ [][R!Next \/ ~StartsOnce']_(R!vars)

\* "to make the first registered bdev disk0": the disk numbers of a start that
\* is the only one follow the order of registration.
DiskOrder == StartsOnce => \A i \in DOMAIN disks : disks[i] = registered[i]

\* Every call of the hooked function returns, those that start the driver at
\* the same time too.
StartCompletes == \A c \in Callers : pc[c] = "test" ~> pc[c] \in {"done", "back"}
=============================================================================
