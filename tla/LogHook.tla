------------------------------- MODULE LogHook -------------------------------
(***************************************************************************)
(* The two kernel hooks that log Mach messages,                            *)
(* function-hooks/ipc_kmsg_send and function-hooks/ipc_mqueue_send.  Any   *)
(* kernel thread that sends a message runs one of them, so they run        *)
(* concurrently; both use the mutex pointer at a fixed address, which the  *)
(* first call to find it NULL fills in, and both append to host file 2.    *)
(*                                                                         *)
(* The log is the sequence of messages in the file, each named by the      *)
(* thread that wrote it: a write at an offset in the file replaces what is *)
(* there.                                                                  *)
(***************************************************************************)
EXTENDS Integers, Sequences

CONSTANTS
  Threads, \* kernel threads that run a hook
  Kmsg,    \* those that run the hook of ipc_kmsg_send
  Mutexes, \* mutexes lck_mtx_alloc_init can return
  Calls,   \* bound on the calls made by all of them
  Overlap, \* whether the first calls may overlap
  None     \* no mutex, and the holder of a free one

ASSUME LogHookAssumption ==
  /\ Kmsg \subseteq Threads
  /\ Calls \in Nat
  /\ Overlap \in BOOLEAN
  /\ None \notin Threads
  /\ None \notin Mutexes

VARIABLES
  pc,      \* the next step of each thread's call
  calls,   \* calls made so far
  mtx,     \* *global_mtx
  made,    \* the mutexes allocated so far
  arg,     \* the mutex a thread is about to store, or to lock
  holder,  \* who holds each mutex
  log,     \* host file 2
  offset,  \* what qc_size_file(2) returned to a thread
  panic    \* why the kernel stopped: "no" if it has not

vars == <<pc, calls, mtx, made, arg, holder, log, offset, panic>>

Init ==
  /\ pc = [t \in Threads |-> "idle"]
  /\ calls = 0
  /\ mtx = None
  /\ made = {}
  /\ arg = [t \in Threads |-> None]
  /\ holder = [m \in Mutexes |-> None]
  /\ log = <<>>
  /\ offset = [t \in Threads |-> 0]
  /\ panic = "no"

Goto(t, from, to) ==
  /\ panic = "no"
  /\ pc[t] = from
  /\ pc' = [pc EXCEPT ![t] = to]

\* "hope that first time is non ovrelapping": a call that finds no mutex is
\* alone until it has made one.
FirstCallAlone == mtx = None => \A t \in Threads : pc[t] = "idle"

Enter(t) ==
  /\ Goto(t, "idle", "check")
  /\ calls < Calls
  /\ Overlap \/ FirstCallAlone
  /\ calls' = calls + 1
  /\ UNCHANGED <<mtx, made, arg, holder, log, offset, panic>>

CheckMutex(t) ==
  /\ Goto(t, "check", IF mtx = None THEN "alloc" ELSE "arg")
  /\ UNCHANGED <<calls, mtx, made, arg, holder, log, offset, panic>>

\* lck_grp_alloc_init and lck_mtx_alloc_init.
AllocMutex(t) ==
  /\ Goto(t, "alloc", "store")
  /\ \E m \in Mutexes \ made : /\ made' = made \cup {m}
                             /\ arg' = [arg EXCEPT ![t] = m]
  /\ UNCHANGED <<calls, mtx, holder, log, offset, panic>>

StoreMutex(t) ==
  /\ Goto(t, "store", "arg")
  /\ mtx' = arg[t]
  /\ UNCHANGED <<calls, made, arg, holder, log, offset, panic>>

\* The argument of lck_mtx_lock(*global_mtx), then the call.
ReadMutex(t) ==
  /\ Goto(t, "arg", "lock")
  /\ arg' = [arg EXCEPT ![t] = mtx]
  /\ UNCHANGED <<calls, mtx, made, holder, log, offset, panic>>

Held(t) == IF t \in Kmsg THEN "test" ELSE "malloc"

\* Mutant of Lock: it does not wait.
LockAnyway(t) ==
  /\ Goto(t, "lock", Held(t))
  /\ holder' = [holder EXCEPT ![arg[t]] = t]
  /\ UNCHANGED <<calls, mtx, made, arg, log, offset, panic>>

Lock(t) ==
  /\ Goto(t, "lock", Held(t))
  /\ holder[arg[t]] = None
  /\ holder' = [holder EXCEPT ![arg[t]] = t]
  /\ UNCHANGED <<calls, mtx, made, arg, log, offset, panic>>

\* Mutant of TestPort: a message that is not logged returns with the lock held.
TestPortReturns(t) ==
  /\ \/ Goto(t, "test", "malloc")
     \/ Goto(t, "test", "idle")
  /\ UNCHANGED <<calls, mtx, made, arg, holder, log, offset, panic>>

\* ipc_kmsg_send only: a message with no live remote port is not logged.
TestPort(t) ==
  /\ \/ Goto(t, "test", "malloc")
     \/ Goto(t, "test", "unlock")
  /\ UNCHANGED <<calls, mtx, made, arg, holder, log, offset, panic>>

\* The result of kern_os_malloc is written through unchecked.
Malloc(t) ==
  /\ \/ Goto(t, "malloc", "size") /\ panic' = panic
     \/ Goto(t, "malloc", "malloc") /\ panic' = "memory"
  /\ UNCHANGED <<calls, mtx, made, arg, holder, log, offset>>

\* Mutant of SizeFile: the position of the last message, not of the end.
SizeFileLast(t) ==
  /\ Goto(t, "size", "write")
  /\ offset' = [offset EXCEPT ![t] = Len(log) - 1]
  /\ UNCHANGED <<calls, mtx, made, arg, holder, log, panic>>

SizeFile(t) ==
  /\ Goto(t, "size", "write")
  /\ offset' = [offset EXCEPT ![t] = Len(log)]
  /\ UNCHANGED <<calls, mtx, made, arg, holder, log, panic>>

WriteFile(t) ==
  /\ Goto(t, "write", "unlock")
  /\ log' = IF offset[t] = Len(log) THEN Append(log, t)
            ELSE [log EXCEPT ![offset[t] + 1] = t]
  /\ UNCHANGED <<calls, mtx, made, arg, holder, offset, panic>>

\* lck_mtx_unlock(*global_mtx), which reads the pointer again: the kernel stops
\* when a thread releases a mutex it does not hold.
Unlock(t) ==
  /\ Goto(t, "unlock", "idle")
  /\ IF holder[mtx] = t
     THEN holder' = [holder EXCEPT ![mtx] = None] /\ panic' = panic
     ELSE panic' = "mutex" /\ UNCHANGED holder
  /\ UNCHANGED <<calls, mtx, made, arg, log, offset>>

Step(t) ==
  \/ CheckMutex(t) \/ AllocMutex(t) \/ StoreMutex(t) \/ ReadMutex(t)
  \/ Lock(t) \/ TestPort(t) \/ Malloc(t) \/ SizeFile(t) \/ WriteFile(t)
  \/ Unlock(t)

\* No call is left to be made, or the kernel has stopped.
Quiet ==
  /\ panic # "no" \/ (calls = Calls /\ \A t \in Threads : pc[t] = "idle")
  /\ UNCHANGED vars

Next == Quiet \/ \E t \in Threads : Enter(t) \/ Step(t)

Spec == Init /\ [][Next]_vars

\* A kernel thread inside a hook is scheduled again.
FairSpec == Spec /\ \A t \in Threads : WF_vars(Step(t))

-----------------------------------------------------------------------------
(* Properties.                                                             *)

Steps == {"idle", "check", "alloc", "store", "arg", "lock", "test", "malloc",
          "size", "write", "unlock"}

TypeOK ==
  /\ pc \in [Threads -> Steps]
  /\ calls \in 0..Calls
  /\ mtx \in Mutexes \cup {None}
  /\ made \subseteq Mutexes
  /\ arg \in [Threads -> Mutexes \cup {None}]
  /\ holder \in [Mutexes -> Threads \cup {None}]
  /\ log \in Seq(Threads)
  /\ offset \in [Threads -> Nat]
  /\ panic \in {"no", "mutex", "memory"}

\* A message once in the log stays there: qc_size_file and qc_write_file
\* together append, although either hook may run on any thread in between.
AppendOnly ==
  [][/\ Len(log) <= Len(log')
     /\ \A k \in 1..Len(log) : log'[k] = log[k]]_vars

\* The hooks release the mutex they took, although both read its pointer anew.
NoBadUnlock == panic # "mutex"

\* Every call of a hook returns, whatever calls of either hook it meets.
CallReturns ==
  \A t \in Threads : pc[t] # "idle" ~> pc[t] = "idle" \/ panic # "no"
=============================================================================
