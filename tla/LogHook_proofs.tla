--------------------------- MODULE LogHook_proofs ---------------------------
(***************************************************************************)
(* Proofs about module LogHook, for any threads and any number of calls,   *)
(* when the first call does not overlap another.                           *)
(***************************************************************************)
EXTENDS LogHook, SequenceTheorems, TLAPS

Critical == {"test", "malloc", "size", "write", "unlock"}

\* Until there is a mutex at most one thread is in a hook, and making one.
MakerAlone ==
  mtx = None =>
    /\ \A t \in Threads : pc[t] \in {"idle", "check", "alloc", "store"}
    /\ \A t, u \in Threads : pc[t] # "idle" /\ pc[u] # "idle" => t = u

\* Afterwards nobody makes another, everybody waits for that one, and the
\* threads between lock and unlock hold it.
OneMutex ==
  mtx # None =>
    \A t \in Threads :
      /\ pc[t] \notin {"alloc", "store"}
      /\ pc[t] = "lock" => arg[t] = mtx
      /\ pc[t] \in Critical => holder[mtx] = t

\* What a thread is about to write at is the end of the log.
AtEnd == \A t \in Threads : pc[t] = "write" => offset[t] = Len(log)

Making == \A t \in Threads : pc[t] = "store" => arg[t] \in Mutexes

IInv == TypeOK /\ Making /\ MakerAlone /\ OneMutex /\ AtEnd

-----------------------------------------------------------------------------
(* Type correctness, whether or not the first calls overlap.               *)

LEMMA LogType ==
  ASSUME TypeOK, NEW t \in Threads, WriteFile(t) PROVE log' \in Seq(Threads)
<1>1. CASE offset[t] = Len(log)
  BY <1>1 DEF WriteFile, TypeOK
<1>2. CASE offset[t] # Len(log) /\ offset[t] + 1 \in 1..Len(log)
  BY <1>2, ExceptSeq DEF WriteFile, TypeOK
<1>3. CASE offset[t] # Len(log) /\ offset[t] + 1 \notin 1..Len(log)
  <2>1. log' = log
    BY <1>3 DEF WriteFile, TypeOK
  <2> QED BY <2>1 DEF TypeOK
<1> QED BY <1>1, <1>2, <1>3

LEMMA TypeStep == TypeOK /\ [Next]_vars => TypeOK'
<1> SUFFICES ASSUME TypeOK, [Next]_vars PROVE TypeOK'
  OBVIOUS
<1> USE LogHookAssumption DEF TypeOK, Steps, Goto
<1>1. CASE Quiet \/ UNCHANGED vars BY <1>1 DEF Quiet, vars
<1>2. ASSUME NEW t \in Threads, Enter(t) PROVE TypeOK' BY <1>2 DEF Enter
<1>3. ASSUME NEW t \in Threads, Step(t) PROVE TypeOK'
  <2>1. CASE CheckMutex(t) BY <2>1 DEF CheckMutex
  <2>2. CASE AllocMutex(t) BY <2>2 DEF AllocMutex
  <2>3. CASE StoreMutex(t) BY <2>3 DEF StoreMutex
  <2>4. CASE ReadMutex(t) BY <2>4 DEF ReadMutex
  <2>5. CASE Lock(t) BY <2>5 DEF Lock, Held
  <2>6. CASE TestPort(t) BY <2>6 DEF TestPort
  <2>7. CASE Malloc(t) BY <2>7 DEF Malloc
  <2>8. CASE SizeFile(t) BY <2>8 DEF SizeFile
  <2>9. CASE WriteFile(t) BY <2>9, LogType DEF WriteFile
  <2>10. CASE Unlock(t) BY <2>10 DEF Unlock
  <2> QED
    BY <1>3, <2>1, <2>2, <2>3, <2>4, <2>5, <2>6, <2>7, <2>8, <2>9, <2>10 DEF Step
<1> QED BY <1>1, <1>2, <1>3 DEF Next

LEMMA TypeInit == Init => TypeOK
  BY LogHookAssumption DEF Init, TypeOK, Steps

\* Every variable of the hooks keeps its type.
THEOREM TypeCorrect == Spec => []TypeOK
  BY TypeInit, TypeStep, PTL DEF Spec

-----------------------------------------------------------------------------
(* The inductive invariant, when the first call is alone.                  *)

LEMMA InvInit == Init => IInv
  BY TypeInit DEF Init, IInv, Making, MakerAlone, OneMutex, AtEnd, Critical

LEMMA InvEnter ==
  ASSUME ~Overlap, IInv, NEW t \in Threads, Enter(t)
  PROVE  Making' /\ MakerAlone' /\ OneMutex' /\ AtEnd'
  BY DEF IInv, TypeOK, Making, MakerAlone, OneMutex, AtEnd, Critical, Enter,
         Goto, FirstCallAlone

LEMMA InvThread ==
  ASSUME IInv, NEW t \in Threads, Step(t)
  PROVE  Making' /\ MakerAlone' /\ OneMutex' /\ AtEnd'
<1> USE LogHookAssumption
    DEF IInv, TypeOK, Making, MakerAlone, OneMutex, AtEnd, Critical, Goto
<1>1. CASE CheckMutex(t) BY <1>1 DEF CheckMutex
<1>2. CASE AllocMutex(t) BY <1>2 DEF AllocMutex
<1>3. CASE StoreMutex(t)
  <2>1. mtx = None /\ mtx' # None
    BY <1>3 DEF StoreMutex
  <2>2. \A u \in Threads : pc'[u] = IF u = t THEN "arg" ELSE "idle"
    BY <1>3, <2>1 DEF StoreMutex
  <2> QED BY <1>3, <2>1, <2>2 DEF StoreMutex
<1>4. CASE ReadMutex(t) BY <1>4 DEF ReadMutex
<1>5. CASE Lock(t) BY <1>5 DEF Lock, Held
<1>6. CASE TestPort(t) BY <1>6 DEF TestPort
<1>7. CASE Malloc(t) BY <1>7 DEF Malloc
<1>8. CASE SizeFile(t) BY <1>8 DEF SizeFile
<1>9. CASE WriteFile(t) BY <1>9 DEF WriteFile
<1>10. CASE Unlock(t) BY <1>10 DEF Unlock
<1> QED
  BY <1>1, <1>2, <1>3, <1>4, <1>5, <1>6, <1>7, <1>8, <1>9, <1>10 DEF Step

LEMMA InvStep == ASSUME ~Overlap PROVE IInv /\ [Next]_vars => IInv'
<1> SUFFICES ASSUME IInv, [Next]_vars PROVE IInv'
  OBVIOUS
<1>1. TypeOK'
  BY TypeStep DEF IInv
<1>2. CASE Quiet \/ UNCHANGED vars
  BY <1>1, <1>2
  DEF Quiet, vars, IInv, Making, MakerAlone, OneMutex, AtEnd, Critical
<1> QED BY <1>1, <1>2, InvEnter, InvThread DEF Next, IInv

LEMMA Invariance == ASSUME ~Overlap PROVE Spec => []IInv
<1>1. IInv /\ [Next]_vars => IInv'
  BY InvStep
<1> QED BY <1>1, InvInit, PTL DEF Spec

-----------------------------------------------------------------------------
(* The theorems.                                                           *)

\* If the first call of a hook does not overlap another, no logged message is
\* ever overwritten: finding the size of the log and writing there is an
\* append, in both hooks and on any number of threads.
THEOREM LogAppendOnly == ~Overlap => (Spec => AppendOnly)
<1> SUFFICES ASSUME ~Overlap PROVE Spec => AppendOnly
  OBVIOUS
<1>1. IInv /\ [Next]_vars =>
        [/\ Len(log) <= Len(log')
         /\ \A k \in 1..Len(log) : log'[k] = log[k]]_vars
  <2> SUFFICES ASSUME IInv, Next
               PROVE  /\ Len(log) <= Len(log')
                      /\ \A k \in 1..Len(log) : log'[k] = log[k]
    OBVIOUS
  <2>0. log \in Seq(Threads) /\ Len(log) \in Nat
    BY DEF IInv, TypeOK
  <2>1. CASE log' = log
    BY <2>0, <2>1
  <2>2. ASSUME NEW t \in Threads, WriteFile(t)
        PROVE  /\ Len(log) <= Len(log')
               /\ \A k \in 1..Len(log) : log'[k] = log[k]
    <3>1. log' = Append(log, t)
      BY <2>2 DEF WriteFile, Goto, IInv, AtEnd
    <3> QED BY <2>0, <3>1
  <2> QED
    BY <2>1, <2>2
    DEF Next, Quiet, vars, Enter, Step, CheckMutex, AllocMutex, StoreMutex,
        ReadMutex, Lock, TestPort, Malloc, SizeFile, Unlock
<1>2. Spec => []IInv
  BY Invariance
<1> QED BY <1>1, <1>2, PTL DEF Spec, AppendOnly

\* Under the same condition a hook always releases the mutex it took.
THEOREM GoodUnlocks == ~Overlap => (Spec => []NoBadUnlock)
<1> SUFFICES ASSUME ~Overlap PROVE Spec => []NoBadUnlock
  OBVIOUS
<1>1. Init => NoBadUnlock
  BY DEF Init, NoBadUnlock
<1>2. IInv /\ NoBadUnlock /\ [Next]_vars => NoBadUnlock'
  <2> SUFFICES ASSUME IInv, NoBadUnlock, [Next]_vars PROVE NoBadUnlock'
    OBVIOUS
  <2>1. ASSUME NEW t \in Threads, Unlock(t) PROVE NoBadUnlock'
    <3>1. mtx # None /\ holder[mtx] = t
      BY <2>1 DEF Unlock, Goto, IInv, MakerAlone, OneMutex, Critical
    <3> QED BY <2>1, <3>1 DEF Unlock, NoBadUnlock
  <2> QED
    BY <2>1
    DEF NoBadUnlock, Next, Quiet, vars, Enter, Step, CheckMutex, AllocMutex,
        StoreMutex, ReadMutex, Lock, TestPort, Malloc, SizeFile, WriteFile
<1>3. Spec => []IInv
  BY Invariance
<1> QED BY <1>1, <1>2, <1>3, PTL DEF Spec
=============================================================================
