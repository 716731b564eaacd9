---------------------------- MODULE Tunnel_proofs ----------------------------
(***************************************************************************)
(* Proofs about module Tunnel, for any number of tunnels and descriptors   *)
(* and any set of signals.                                                 *)
(***************************************************************************)
EXTENDS Tunnel, TLAPS

\* The step at which the result of a call is still to be stored for role r.
Storing(r) ==
  CASE r = "listen" -> "storeListen"
    [] r = "in"     -> "storeIn"
    [] r = "out"    -> "storeOut"

\* The roles terminate() has still to look at.
Pending(h) ==
  CASE h \in {"idle", "out"} -> Roles
    [] h = "in"     -> {"in", "listen"}
    [] h = "listen" -> {"listen"}
    [] h = "exit"   -> {}

\* The handler runs in the processes that caught a signal it handles, and a
\* socket that is still to be closed has a number other than -1.  There is no
\* parent to signal before fork().
Shape ==
  \A p \in Procs :
    /\ handler[p] = "idle" <=> caught[p] \subseteq {"SIGPIPE"}
    /\ pc[p] \in {"socket", "storeListen", "setup", "fork"} => parent[p] = "none"
    /\ \A r \in Roles : /\ pc[p] = Storing(r) => ret[p] \in Fds
                        /\ pc[p] \in Has(r) => fd[p][r] \in Fds

\* Why p still has a descriptor f of table s.
Reason(p, s, f) ==
  \/ \E r \in Roles : pc[p] = Storing(r) /\ s = Space(p, r) /\ f = ret[p]
  \/ pc[p] = "exited" /\ caught[p] # {} /\ f = ret[p]
  \/ pc[p] = "exited" /\ "SIGPIPE" \in caught[p]
  \/ \E r \in Pending(handler[p]) :
       pc[p] \in Has(r) /\ s = Space(p, r) /\ f = fd[p][r]

AccountedFor(p) ==
  \A s \in Spaces, f \in Fds :
    owner[s][f] = p => s \in {p, Host} /\ Reason(p, s, f)

Accounted == \A p \in Procs : AccountedFor(p)

\* What p holds, by its position in the code.
Holds(p) ==
  /\ \A r \in Roles :
       /\ pc[p] \in Has(r) => owner[Space(p, r)][fd[p][r]] = p
       /\ pc[p] = Storing(r) => owner[Space(p, r)][ret[p]] = p
  /\ pc[p] = "storeIn" => ret[p] # fd[p]["listen"]
  /\ pc[p] \in Has("in") => fd[p]["in"] # fd[p]["listen"]

Exact == Undisturbed => \A p \in Procs : Holds(p)

IInv == TypeOK /\ Shape /\ Accounted /\ Exact

-----------------------------------------------------------------------------
(* Type correctness.                                                       *)

\* The tables of descriptors keep their type when one is closed or a process
\* ends.
LEMMA TableType ==
  ASSUME TypeOK, NEW p \in Procs, NEW r \in Roles
  PROVE  /\ Closed(p, r) \in [Spaces -> [Fds -> Procs \cup {Nobody}]]
         /\ Exited(p) \in [Spaces -> [Fds -> Procs \cup {Nobody}]]
  BY DEF TypeOK, Closed, Exited, Spaces

\* So they do when a call opens a descriptor.
LEMMA TypeObtain ==
  ASSUME TypeOK, NEW p \in Procs, NEW r \in Roles, NEW from, NEW to \in Steps,
         Obtain(p, r, from, to)
  PROVE  TypeOK'
<1>1. PICK f \in Fds : /\ owner' = [owner EXCEPT ![Space(p, r)][f] = p]
                       /\ ret' = [ret EXCEPT ![p] = f]
  BY DEF Obtain
<1>2. owner' \in [Spaces -> [Fds -> Procs \cup {Nobody}]]
  BY <1>1 DEF TypeOK
<1>3. ret' \in [Procs -> Fds \cup {-1}]
  BY <1>1 DEF TypeOK
<1> QED BY <1>2, <1>3 DEF TypeOK, Obtain, Goto

\* A step of tunnel() and the functions it calls preserves the types.
LEMMA TypeRun == ASSUME TypeOK, NEW p \in Procs, Run(p) PROVE TypeOK'
<1> USE DEF Steps, Roles
<1>1. CASE ListenSocket(p)
  <2>1. CASE Obtain(p, "listen", "socket", "storeListen")
    BY <2>1, TypeObtain
  <2>2. ASSUME NEW to \in Steps, StoreFailure(p, "listen", "socket", to)
        PROVE  TypeOK'
    BY <2>2 DEF TypeOK, StoreFailure, Goto
  <2> QED BY <1>1, <2>1, <2>2 DEF ListenSocket
<1>2. CASE StoreListen(p) BY <1>2 DEF StoreListen, TypeOK, Store, Goto
<1>3. CASE SetUpListener(p) BY <1>3 DEF SetUpListener, TypeOK, Proceed, Goto
<1>4. CASE Fork(p) BY <1>4 DEF Fork, TypeOK, Proceed, Goto
<1>5. CASE Accept(p)
  <2>1. CASE Obtain(p, "in", "accept", "storeIn")
    BY <2>1, TypeObtain
  <2>2. ASSUME NEW to \in Steps, StoreFailure(p, "in", "accept", to)
        PROVE  TypeOK'
    BY <2>2 DEF TypeOK, StoreFailure, Goto
  <2> QED BY <1>5, <2>1, <2>2 DEF Accept
<1>6. CASE StoreIn(p) BY <1>6 DEF StoreIn, TypeOK, Store, Goto
<1>7. CASE OutSocket(p)
  <2>1. CASE Obtain(p, "out", "socketOut", "storeOut")
    BY <2>1, TypeObtain
  <2>2. ASSUME NEW to \in Steps, StoreFailure(p, "out", "socketOut", to)
        PROVE  TypeOK'
    BY <2>2 DEF TypeOK, StoreFailure, Goto
  <2> QED BY <1>7, <2>1, <2>2 DEF OutSocket
<1>8. CASE StoreOut(p) BY <1>8 DEF StoreOut, TypeOK, Store, Goto
<1>9. CASE ConnectTarget(p) BY <1>9 DEF ConnectTarget, TypeOK, Proceed, Goto
<1>10. CASE EndRelay(p) BY <1>10 DEF EndRelay, TypeOK, Proceed, Goto
<1>11. CASE CloseOut(p) BY <1>11, TableType DEF CloseOut, TypeOK, Close, Goto
<1>12. CASE CloseIn(p) BY <1>12, TableType DEF CloseIn, TypeOK, Close, Goto
<1>13. CASE DropOut(p) BY <1>13, TableType DEF DropOut, TypeOK, Close, Goto
<1>14. CASE DropIn(p) BY <1>14, TableType DEF DropIn, TypeOK, Close, Goto
<1>15. CASE DropListen(p) BY <1>15, TableType DEF DropListen, TypeOK, Close, Goto
<1>16. CASE Exit(p) BY <1>16, TableType DEF Exit, TypeOK, Goto
<1> QED
  BY <1>1, <1>2, <1>3, <1>4, <1>5, <1>6, <1>7, <1>8, <1>9, <1>10, <1>11,
     <1>12, <1>13, <1>14, <1>15, <1>16 DEF Run

\* So does a step of terminate().
LEMMA TypeTerminate == ASSUME TypeOK, NEW p \in Procs, Terminate(p) PROVE TypeOK'
<1>1. ASSUME NEW r \in {"out", "in", "listen"}, NEW to \in {"in", "listen", "exit"},
             TerminateClose(p, r, to)
      PROVE  TypeOK'
  BY <1>1, TableType DEF TerminateClose, TypeOK, Roles
<1>2. CASE TerminateExit(p)
  BY <1>2, TableType DEF TerminateExit, TypeOK, Roles, Steps
<1> QED BY <1>1, <1>2 DEF Terminate

\* So does what happens to a process from outside.
LEMMA TypeEnvironment ==
  ASSUME TypeOK, NEW p \in Procs, Environment(p) PROVE TypeOK'
<1>1. CASE ParentExit(p) BY <1>1 DEF ParentExit, TypeOK
<1>2. CASE ParentTerminate(p)
  BY <1>2, TableType DEF ParentTerminate, TypeOK, Roles
<1>3. CASE BrokenPipe(p)
  BY <1>3, TableType DEF BrokenPipe, TypeOK, Steps, Roles
<1>4. ASSUME NEW sig \in HandledSignals, Deliver(p, sig) PROVE TypeOK'
  BY <1>4 DEF Deliver, TypeOK
<1> QED BY <1>1, <1>2, <1>3, <1>4 DEF Environment

LEMMA TypeStep == TypeOK /\ [Next]_vars => TypeOK'
<1> SUFFICES ASSUME TypeOK, [Next]_vars PROVE TypeOK'
  OBVIOUS
<1>1. CASE AllExited \/ UNCHANGED vars BY <1>1 DEF AllExited, vars, TypeOK
<1>2. ASSUME NEW p \in Procs, Run(p) \/ Terminate(p) \/ Environment(p)
      PROVE  TypeOK'
  BY <1>2, TypeRun, TypeTerminate, TypeEnvironment
<1> QED BY <1>1, <1>2 DEF Next

LEMMA TypeInit == Init => TypeOK
  BY DEF Init, TypeOK, Steps, Roles, Spaces, HandledSignals

\* Every variable of the model keeps its type, whatever signals arrive.
THEOREM TypeCorrect == Spec => []TypeOK
  BY TypeInit, TypeStep, PTL DEF Spec

-----------------------------------------------------------------------------
(* What the calls do to the tables, entry by entry.                        *)

LEMMA SpaceType ==
  ASSUME NEW p \in Procs, NEW r \in Roles
  PROVE  Space(p, r) \in {p, Host} /\ Space(p, r) \in Spaces
  BY DEF Space, Spaces

\* A call that opens a descriptor adds one entry, free until then.
LEMMA ObtainEntry ==
  ASSUME TypeOK, NEW p \in Procs, NEW r \in Roles, NEW from, NEW to,
         Obtain(p, r, from, to)
  PROVE  /\ ret'[p] \in Fds
         /\ owner[Space(p, r)][ret'[p]] = Nobody
         /\ \A s \in Spaces, f \in Fds :
              owner'[s][f] = IF s = Space(p, r) /\ f = ret'[p] THEN p
                             ELSE owner[s][f]
<1>1. PICK g \in Fds : /\ owner[Space(p, r)][g] = Nobody
                       /\ owner' = [owner EXCEPT ![Space(p, r)][g] = p]
                       /\ ret' = [ret EXCEPT ![p] = g]
  BY DEF Obtain
<1>2. ret'[p] = g
  BY <1>1 DEF TypeOK
<1>3. Space(p, r) \in Spaces
  BY SpaceType
<1>4. ASSUME NEW s \in Spaces, NEW f \in Fds
      PROVE  owner'[s][f] = IF s = Space(p, r) /\ f = g THEN p ELSE owner[s][f]
  BY <1>1, <1>3 DEF TypeOK
<1> QED BY <1>1, <1>2, <1>4

\* Closing a descriptor frees its entry and no other.
LEMMA ClosedEntry ==
  ASSUME TypeOK, NEW p \in Procs, NEW r \in Roles, NEW s \in Spaces, NEW f \in Fds
  PROVE  Closed(p, r)[s][f] = IF s = Space(p, r) /\ f = fd[p][r] THEN Nobody
                              ELSE owner[s][f]
  BY SpaceType DEF TypeOK, Closed

\* The end of a process frees the entries of its own table.
LEMMA ExitedEntry ==
  ASSUME TypeOK, NEW p \in Procs, NEW s \in Spaces, NEW f \in Fds
  PROVE  Exited(p)[s][f] = IF s = p THEN Nobody ELSE owner[s][f]
  BY DEF TypeOK, Exited, Spaces


-----------------------------------------------------------------------------
(* The other processes.                                                    *)

SameLocals(q) ==
  /\ pc'[q] = pc[q] /\ handler'[q] = handler[q] /\ caught'[q] = caught[q]
  /\ fd'[q] = fd[q] /\ ret'[q] = ret[q] /\ parent'[q] = parent[q]

\* A step of one process gives no descriptor to another.
NoGain(q) == \A s \in Spaces, f \in Fds : owner'[s][f] = q => owner[s][f] = q

LEMMA OthersRun ==
  ASSUME TypeOK, NEW p \in Procs, Run(p), NEW q \in Procs, q # p
  PROVE  SameLocals(q) /\ NoGain(q)
<1> USE TunnelAssumption DEF SameLocals, NoGain, Roles
<1>1. ASSUME NEW r \in Roles, NEW from, NEW to, Obtain(p, r, from, to)
      PROVE  SameLocals(q) /\ NoGain(q)
  <2>1. NoGain(q)
    BY <1>1, ObtainEntry
  <2>2. PICK f \in Fds : ret' = [ret EXCEPT ![p] = f]
    BY <1>1 DEF Obtain
  <2>3. SameLocals(q)
    BY <1>1, <2>2 DEF Obtain, Goto, TypeOK
  <2> QED BY <2>1, <2>3
<1>2. ASSUME NEW r \in Roles, NEW from, NEW to, Close(p, r, from, to)
      PROVE  SameLocals(q) /\ NoGain(q)
  <2>1. NoGain(q)
    BY <1>2, ClosedEntry DEF Close
  <2>2. SameLocals(q)
    BY <1>2 DEF Close, Goto, TypeOK
  <2> QED BY <2>1, <2>2
<1>3. ASSUME NEW r \in Roles, NEW from, NEW to,
             Store(p, r, from, to) \/ StoreFailure(p, r, from, to)
      PROVE  SameLocals(q) /\ NoGain(q)
  BY <1>3 DEF Store, StoreFailure, Goto, TypeOK
<1>4. ASSUME NEW from, NEW to, Proceed(p, from, to)
      PROVE  SameLocals(q) /\ NoGain(q)
  BY <1>4 DEF Proceed, Goto, TypeOK
<1>5. CASE Fork(p)
  BY <1>4, <1>5 DEF Fork, TypeOK
<1>6. CASE Exit(p)
  <2>1. NoGain(q)
    BY <1>6, ExitedEntry DEF Exit
  <2> QED BY <1>6, <2>1 DEF Exit, Goto, TypeOK
<1> QED
  BY <1>1, <1>2, <1>3, <1>4, <1>5, <1>6
  DEF Run, ListenSocket, StoreListen, SetUpListener, Accept, StoreIn,
      OutSocket, StoreOut, ConnectTarget, EndRelay, CloseOut, CloseIn,
      DropOut, DropIn, DropListen

LEMMA OthersTerminate ==
  ASSUME TypeOK, NEW p \in Procs, Terminate(p), NEW q \in Procs, q # p
  PROVE  SameLocals(q) /\ NoGain(q)
<1> USE TunnelAssumption DEF SameLocals, NoGain
<1>1. ASSUME NEW r \in Roles, NEW to, TerminateClose(p, r, to)
      PROVE  SameLocals(q) /\ NoGain(q)
  <2>1. NoGain(q)
    BY <1>1, ClosedEntry DEF TerminateClose
  <2> QED BY <1>1, <2>1 DEF TerminateClose, TypeOK
<1>2. CASE TerminateExit(p)
  <2>1. NoGain(q)
    BY <1>2, ExitedEntry DEF TerminateExit
  <2> QED BY <1>2, <2>1 DEF TerminateExit, TypeOK
<1> QED BY <1>1, <1>2 DEF Terminate, Roles

LEMMA OthersEnvironment ==
  ASSUME TypeOK, NEW p \in Procs, Environment(p), NEW q \in Procs, q # p
  PROVE  SameLocals(q) /\ NoGain(q)
<1> USE TunnelAssumption DEF SameLocals, NoGain
<1>1. CASE ParentExit(p) BY <1>1 DEF ParentExit, TypeOK
<1>2. CASE ParentTerminate(p)
  <2>1. NoGain(q)
    BY <1>2, ClosedEntry DEF ParentTerminate, Roles
  <2> QED BY <1>2, <2>1 DEF ParentTerminate, TypeOK
<1>3. CASE BrokenPipe(p)
  <2>1. NoGain(q)
    BY <1>3, ExitedEntry DEF BrokenPipe
  <2> QED BY <1>3, <2>1 DEF BrokenPipe, TypeOK
<1>4. ASSUME NEW sig \in HandledSignals, Deliver(p, sig)
      PROVE  SameLocals(q) /\ NoGain(q)
  BY <1>4 DEF Deliver, TypeOK
<1> QED BY <1>1, <1>2, <1>3, <1>4 DEF Environment

-----------------------------------------------------------------------------
(* Every descriptor is accounted for.                                      *)

LEMMA AccountedRun ==
  ASSUME TypeOK, Shape, NEW p \in Procs, AccountedFor(p), Run(p)
  PROVE  AccountedFor(p)'
<1> SUFFICES ASSUME NEW s \in Spaces, NEW f \in Fds, owner'[s][f] = p
             PROVE  s \in {p, Host} /\ Reason(p, s, f)'
  BY DEF AccountedFor
<1>0. owner[s][f] = p => s \in {p, Host} /\ Reason(p, s, f)
  BY DEF AccountedFor
<1> USE TunnelAssumption DEF Goto, Reason, Pending, Storing, Has, Roles
<1>1. CASE ListenSocket(p)
  <2>1. CASE Obtain(p, "listen", "socket", "storeListen")
    <3>1. (f = ret'[p] /\ s = Space(p, "listen")) \/ owner[s][f] = p
      BY <2>1, ObtainEntry
    <3>2. s \in {p, Host}
      BY <2>1, <1>0, ObtainEntry, SpaceType
    <3> QED BY <2>1, <3>1, <3>2, <1>0 DEF Obtain, TypeOK
  <2>2. ASSUME NEW to \in {"exit"}, StoreFailure(p, "listen", "socket", to)
        PROVE  s \in {p, Host} /\ Reason(p, s, f)'
    BY <2>2, <1>0 DEF StoreFailure, TypeOK
  <2> QED BY <1>1, <2>1, <2>2 DEF ListenSocket
<1>2. CASE StoreListen(p) BY <1>2, <1>0 DEF StoreListen, Store, TypeOK
<1>3. CASE SetUpListener(p) BY <1>3, <1>0 DEF SetUpListener, Proceed, TypeOK
<1>4. CASE Fork(p) BY <1>4, <1>0 DEF Fork, Proceed, TypeOK
<1>5. CASE Accept(p)
  <2>1. CASE Obtain(p, "in", "accept", "storeIn")
    <3>1. (f = ret'[p] /\ s = Space(p, "in")) \/ owner[s][f] = p
      BY <2>1, ObtainEntry
    <3>2. s \in {p, Host}
      BY <2>1, <1>0, ObtainEntry, SpaceType
    <3> QED BY <2>1, <3>1, <3>2, <1>0 DEF Obtain, TypeOK
  <2>2. ASSUME NEW to \in {"accept", "dropListen"}, StoreFailure(p, "in", "accept", to)
        PROVE  s \in {p, Host} /\ Reason(p, s, f)'
    BY <2>2, <1>0 DEF StoreFailure, TypeOK
  <2> QED BY <1>5, <2>1, <2>2 DEF Accept
<1>6. CASE StoreIn(p) BY <1>6, <1>0 DEF StoreIn, Store, TypeOK
<1>7. CASE OutSocket(p)
  <2>1. CASE Obtain(p, "out", "socketOut", "storeOut")
    <3>1. (f = ret'[p] /\ s = Space(p, "out")) \/ owner[s][f] = p
      BY <2>1, ObtainEntry
    <3>2. s \in {p, Host}
      BY <2>1, <1>0, ObtainEntry, SpaceType
    <3> QED BY <2>1, <3>1, <3>2, <1>0 DEF Obtain, TypeOK
  <2>2. ASSUME NEW to \in {"dropIn"}, StoreFailure(p, "out", "socketOut", to)
        PROVE  s \in {p, Host} /\ Reason(p, s, f)'
    BY <2>2, <1>0 DEF StoreFailure, TypeOK
  <2> QED BY <1>7, <2>1, <2>2 DEF OutSocket
<1>8. CASE StoreOut(p) BY <1>8, <1>0 DEF StoreOut, Store, TypeOK
<1>9. CASE ConnectTarget(p) BY <1>9, <1>0 DEF ConnectTarget, Proceed, TypeOK
<1>10. CASE EndRelay(p) BY <1>10, <1>0 DEF EndRelay, Proceed, TypeOK
<1>11. CASE CloseOut(p)
  BY <1>11, <1>0, ClosedEntry DEF CloseOut, Close, TypeOK
<1>12. CASE CloseIn(p)
  BY <1>12, <1>0, ClosedEntry DEF CloseIn, Close, TypeOK
<1>13. CASE DropOut(p)
  BY <1>13, <1>0, ClosedEntry DEF DropOut, Close, TypeOK
<1>14. CASE DropIn(p)
  BY <1>14, <1>0, ClosedEntry DEF DropIn, Close, TypeOK
<1>15. CASE DropListen(p)
  BY <1>15, <1>0, ClosedEntry DEF DropListen, Close, TypeOK
<1>16. CASE Exit(p)
  BY <1>16, <1>0, ExitedEntry DEF Exit, TypeOK
<1> QED
  BY <1>1, <1>2, <1>3, <1>4, <1>5, <1>6, <1>7, <1>8, <1>9, <1>10, <1>11, <1>12, <1>13, <1>14, <1>15, <1>16 DEF Run


LEMMA AccountedTerminate ==
  ASSUME TypeOK, Shape, NEW p \in Procs, AccountedFor(p), Terminate(p)
  PROVE  AccountedFor(p)'
<1> SUFFICES ASSUME NEW s \in Spaces, NEW f \in Fds, owner'[s][f] = p
             PROVE  s \in {p, Host} /\ Reason(p, s, f)'
  BY DEF AccountedFor
<1>0. owner[s][f] = p => s \in {p, Host} /\ Reason(p, s, f)
  BY DEF AccountedFor
<1> USE TunnelAssumption DEF Reason, Pending, Storing, Has, Roles, Space
<1>1. CASE TerminateClose(p, "out", "in")
  BY <1>0, <1>1, ClosedEntry DEF TerminateClose, TypeOK, Shape
<1>2. CASE TerminateClose(p, "in", "listen")
  BY <1>0, <1>2, ClosedEntry DEF TerminateClose, TypeOK, Shape
<1>3. CASE TerminateClose(p, "listen", "exit")
  BY <1>0, <1>3, ClosedEntry DEF TerminateClose, TypeOK, Shape
<1>4. CASE TerminateExit(p)
  <2>1. caught[p] # {}
    BY <1>4 DEF TerminateExit, Shape
  <2> QED BY <1>0, <1>4, <2>1, ExitedEntry DEF TerminateExit, TypeOK
<1> QED BY <1>1, <1>2, <1>3, <1>4 DEF Terminate

LEMMA AccountedEnvironment ==
  ASSUME TypeOK, Shape, NEW p \in Procs, AccountedFor(p), Environment(p)
  PROVE  AccountedFor(p)'
<1> SUFFICES ASSUME NEW s \in Spaces, NEW f \in Fds, owner'[s][f] = p
             PROVE  s \in {p, Host} /\ Reason(p, s, f)'
  BY DEF AccountedFor
<1>0. owner[s][f] = p => s \in {p, Host} /\ Reason(p, s, f)
  BY DEF AccountedFor
<1> USE TunnelAssumption DEF Reason, Pending, Storing, Has, Roles
<1>1. CASE ParentExit(p) BY <1>0, <1>1 DEF ParentExit
<1>2. CASE ParentTerminate(p)
  <2>1. owner[s][f] = p
    BY <1>2, ClosedEntry DEF ParentTerminate
  <2> QED BY <1>0, <1>2, <2>1 DEF ParentTerminate
<1>3. CASE BrokenPipe(p)
  BY <1>0, <1>3, ExitedEntry DEF BrokenPipe, TypeOK
<1>4. ASSUME NEW sig \in HandledSignals, Deliver(p, sig)
      PROVE  s \in {p, Host} /\ Reason(p, s, f)'
  BY <1>0, <1>4 DEF Deliver, TypeOK
<1> QED BY <1>1, <1>2, <1>3, <1>4 DEF Environment

LEMMA AccountedStep ==
  TypeOK /\ Shape /\ Accounted /\ [Next]_vars => Accounted'
<1> SUFFICES ASSUME TypeOK, Shape, Accounted, [Next]_vars, NEW q \in Procs
             PROVE  AccountedFor(q)'
  BY DEF Accounted
<1>0. AccountedFor(q)
  BY DEF Accounted
<1>1. CASE AllExited \/ UNCHANGED vars
  BY <1>0, <1>1 DEF AllExited, vars, AccountedFor, Reason
<1>2. ASSUME NEW p \in Procs, Run(p) \/ Terminate(p) \/ Environment(p)
      PROVE  AccountedFor(q)'
  <2>1. CASE p = q
    BY <1>0, <1>2, <2>1, AccountedRun, AccountedTerminate, AccountedEnvironment
  <2>2. CASE p # q
    <3>1. SameLocals(q) /\ NoGain(q)
      BY <1>2, <2>2, OthersRun, OthersTerminate, OthersEnvironment
    <3> QED BY <1>0, <3>1 DEF SameLocals, NoGain, AccountedFor, Reason
  <2> QED BY <2>1, <2>2
<1> QED BY <1>1, <1>2 DEF Next

-----------------------------------------------------------------------------
(* Shape.                                                                  *)

ShapeFor(p) ==
  /\ handler[p] = "idle" <=> caught[p] \subseteq {"SIGPIPE"}
  /\ pc[p] \in {"socket", "storeListen", "setup", "fork"} => parent[p] = "none"
  /\ \A r \in Roles : /\ pc[p] = Storing(r) => ret[p] \in Fds
                      /\ pc[p] \in Has(r) => fd[p][r] \in Fds

LEMMA ShapeRun ==
  ASSUME TypeOK, NEW p \in Procs, ShapeFor(p), Run(p)
  PROVE  ShapeFor(p)'
<1> USE DEF TypeOK, ShapeFor, Storing, Has, Roles, Goto
<1>1. CASE ListenSocket(p)
  <2>1. CASE Obtain(p, "listen", "socket", "storeListen")
    BY <2>1, ObtainEntry DEF Obtain
  <2>2. CASE StoreFailure(p, "listen", "socket", "exit")
    BY <2>2 DEF StoreFailure
  <2> QED BY <1>1, <2>1, <2>2 DEF ListenSocket
<1>2. CASE StoreListen(p) BY <1>2 DEF StoreListen, Store
<1>3. CASE SetUpListener(p) BY <1>3 DEF SetUpListener, Proceed
<1>4. CASE Fork(p) BY <1>4 DEF Fork, Proceed
<1>5. CASE Accept(p)
  <2>1. CASE Obtain(p, "in", "accept", "storeIn")
    BY <2>1, ObtainEntry DEF Obtain
  <2>2. ASSUME NEW to \in {"accept", "dropListen"},
               StoreFailure(p, "in", "accept", to)
        PROVE  ShapeFor(p)'
    BY <2>2 DEF StoreFailure
  <2> QED BY <1>5, <2>1, <2>2 DEF Accept
<1>6. CASE StoreIn(p) BY <1>6 DEF StoreIn, Store
<1>7. CASE OutSocket(p)
  <2>1. CASE Obtain(p, "out", "socketOut", "storeOut")
    BY <2>1, ObtainEntry DEF Obtain
  <2>2. CASE StoreFailure(p, "out", "socketOut", "dropIn")
    BY <2>2 DEF StoreFailure
  <2> QED BY <1>7, <2>1, <2>2 DEF OutSocket
<1>8. CASE StoreOut(p) BY <1>8 DEF StoreOut, Store
<1>9. CASE ConnectTarget(p) BY <1>9 DEF ConnectTarget, Proceed
<1>10. CASE EndRelay(p) BY <1>10 DEF EndRelay, Proceed
<1>11. CASE CloseOut(p) BY <1>11 DEF CloseOut, Close
<1>12. CASE CloseIn(p) BY <1>12 DEF CloseIn, Close
<1>13. CASE DropOut(p) BY <1>13 DEF DropOut, Close
<1>14. CASE DropIn(p) BY <1>14 DEF DropIn, Close
<1>15. CASE DropListen(p) BY <1>15 DEF DropListen, Close
<1>16. CASE Exit(p) BY <1>16 DEF Exit
<1> QED
  BY <1>1, <1>2, <1>3, <1>4, <1>5, <1>6, <1>7, <1>8,
     <1>9, <1>10, <1>11, <1>12, <1>13, <1>14, <1>15, <1>16 DEF Run

LEMMA ShapeTerminate ==
  ASSUME TypeOK, NEW p \in Procs, ShapeFor(p), Terminate(p)
  PROVE  ShapeFor(p)'
  BY DEF TypeOK, ShapeFor, Storing, Has, Roles, Terminate, TerminateClose,
         TerminateExit

LEMMA ShapeEnvironment ==
  ASSUME TypeOK, NEW p \in Procs, ShapeFor(p), Environment(p)
  PROVE  ShapeFor(p)'
<1> USE DEF TypeOK, ShapeFor, Storing, Has, Roles
<1>1. CASE ParentExit(p) BY <1>1 DEF ParentExit
<1>2. CASE ParentTerminate(p) BY <1>2 DEF ParentTerminate
<1>3. CASE BrokenPipe(p) BY <1>3 DEF BrokenPipe
<1>4. ASSUME NEW sig \in HandledSignals, Deliver(p, sig) PROVE ShapeFor(p)'
  BY <1>4 DEF Deliver, HandledSignals
<1> QED BY <1>1, <1>2, <1>3, <1>4 DEF Environment

LEMMA ShapeStep == TypeOK /\ Shape /\ [Next]_vars => Shape'
<1> SUFFICES ASSUME TypeOK, Shape, [Next]_vars, NEW q \in Procs
             PROVE  ShapeFor(q)'
  BY DEF Shape, ShapeFor
<1>0. ShapeFor(q)
  BY DEF Shape, ShapeFor
<1>1. CASE AllExited \/ UNCHANGED vars
  BY <1>0, <1>1 DEF AllExited, vars, ShapeFor
<1>2. ASSUME NEW p \in Procs, Run(p) \/ Terminate(p) \/ Environment(p)
      PROVE  ShapeFor(q)'
  <2>1. CASE p = q
    BY <1>0, <1>2, <2>1, ShapeRun, ShapeTerminate, ShapeEnvironment
  <2>2. CASE p # q
    BY <1>0, <1>2, <2>2, OthersRun, OthersTerminate, OthersEnvironment
    DEF SameLocals, ShapeFor
  <2> QED BY <2>1, <2>2
<1> QED BY <1>1, <1>2 DEF Next

-----------------------------------------------------------------------------
(* Until a signal arrives, what the globals say is so.                     *)

\* Being undisturbed is never regained.
LEMMA StillUndisturbed ==
  ASSUME TypeOK, Shape, [Next]_vars, Undisturbed' PROVE Undisturbed
<1>1. CASE AllExited \/ UNCHANGED vars
  BY <1>1 DEF AllExited, vars, Undisturbed
<1>2. ASSUME NEW p \in Procs, Run(p) PROVE Undisturbed
  <2>1. CASE Fork(p)
    BY <1>2, <2>1 DEF Fork, Proceed, Goto, Undisturbed, Shape, TypeOK
  <2>2. CASE ~Fork(p)
    BY <1>2, <2>2
    DEF Undisturbed, Run, ListenSocket, StoreListen, SetUpListener, Accept,
        StoreIn, OutSocket, StoreOut, ConnectTarget, EndRelay, CloseOut,
        CloseIn, DropOut, DropIn, DropListen, Exit, Goto, Obtain, Store,
        StoreFailure, Proceed, Close
  <2> QED BY <2>1, <2>2
<1>3. ASSUME NEW p \in Procs, Terminate(p) PROVE Undisturbed
  BY <1>3
  DEF Undisturbed, Terminate, TerminateClose, TerminateExit
<1>4. ASSUME NEW p \in Procs, Environment(p) PROVE Undisturbed
  BY <1>4
  DEF Undisturbed, Environment, ParentExit, ParentTerminate, BrokenPipe,
      Deliver, TypeOK
<1> QED BY <1>1, <1>2, <1>3, <1>4 DEF Next

\* With everyone undisturbed no handler runs, and nothing happens from outside
\* but the exit of a daemon's parent and SIGPIPE.
LEMMA UndisturbedStep ==
  ASSUME TypeOK, Shape, NEW p \in Procs, Undisturbed, Undisturbed',
         Terminate(p) \/ Environment(p)
  PROVE  ParentExit(p) \/ BrokenPipe(p)
<1>1. handler[p] = "idle"
  BY DEF Undisturbed, Shape
<1>2. ~Terminate(p)
  BY <1>1 DEF Terminate, TerminateClose, TerminateExit
<1>3. ~ParentTerminate(p)
  BY DEF ParentTerminate, Undisturbed, TypeOK
<1>4. ASSUME NEW sig \in HandledSignals, Deliver(p, sig) PROVE FALSE
  BY <1>4 DEF Deliver, Undisturbed, TypeOK, HandledSignals
<1> QED BY <1>2, <1>3, <1>4 DEF Environment

\* A step of p that Exact allows takes no descriptor from another process.
NoLoss(q) == \A s \in Spaces, f \in Fds : owner[s][f] = q => owner'[s][f] = q

LEMMA OthersKeep ==
  ASSUME TypeOK, Shape, Accounted, NEW p \in Procs, Holds(p), Run(p),
         NEW q \in Procs, q # p
  PROVE  NoLoss(q)
<1> USE TunnelAssumption DEF NoLoss, Roles
<1>1. ASSUME NEW r \in Roles, NEW from, NEW to, Obtain(p, r, from, to)
      PROVE  NoLoss(q)
  BY <1>1, ObtainEntry
<1>2. ASSUME NEW r \in Roles, NEW from \in Has(r), NEW to, Close(p, r, from, to)
      PROVE  NoLoss(q)
  <2>1. owner[Space(p, r)][fd[p][r]] = p
    BY <1>2 DEF Close, Goto, Holds
  <2> QED BY <1>2, <2>1, ClosedEntry DEF Close
<1>3. ASSUME NEW r \in Roles, NEW from, NEW to,
             Store(p, r, from, to) \/ StoreFailure(p, r, from, to)
      PROVE  NoLoss(q)
  BY <1>3 DEF Store, StoreFailure
<1>4. ASSUME NEW from, NEW to, Proceed(p, from, to) PROVE NoLoss(q)
  BY <1>4 DEF Proceed
<1>5. CASE Fork(p) BY <1>4, <1>5 DEF Fork
<1>6. CASE Exit(p)
  <2>1. \A f \in Fds : owner[p][f] # q
    BY DEF Accounted, AccountedFor, Spaces
  <2> QED BY <1>6, <2>1, ExitedEntry DEF Exit
<1>7. CASE CloseOut(p) BY <1>2, <1>7 DEF CloseOut, Has
<1>8. CASE CloseIn(p) BY <1>2, <1>8 DEF CloseIn, Has
<1>9. CASE DropOut(p) BY <1>2, <1>9 DEF DropOut, Has
<1>10. CASE DropIn(p) BY <1>2, <1>10 DEF DropIn, Has
<1>11. CASE DropListen(p) BY <1>2, <1>11 DEF DropListen, Has
<1> QED
  BY <1>1, <1>3, <1>4, <1>5, <1>6, <1>7, <1>8, <1>9, <1>10, <1>11
  DEF Run, ListenSocket, StoreListen, SetUpListener, Accept, StoreIn,
      OutSocket, StoreOut, ConnectTarget, EndRelay

LEMMA HoldsRun ==
  ASSUME TypeOK, NEW p \in Procs, ShapeFor(p), Holds(p), Run(p)
  PROVE  Holds(p)'
<1> USE TunnelAssumption DEF TypeOK, Holds, ShapeFor, Storing, Has, Roles, Goto
<1>0. /\ Space(p, "listen") = Space(p, "in")
      /\ Space(p, "listen") # Space(p, "out")
      /\ \A r \in Roles : Space(p, r) \in Spaces
  BY DEF Space, Spaces
<1>1. CASE ListenSocket(p)
  BY <1>0, <1>1, ObtainEntry DEF ListenSocket, Obtain, StoreFailure
<1>2. CASE StoreListen(p) BY <1>2 DEF StoreListen, Store
<1>3. CASE SetUpListener(p) BY <1>3 DEF SetUpListener, Proceed
<1>4. CASE Fork(p) BY <1>4 DEF Fork, Proceed
<1>5. CASE Accept(p)
  BY <1>0, <1>5, ObtainEntry DEF Accept, Obtain, StoreFailure
<1>6. CASE StoreIn(p) BY <1>6 DEF StoreIn, Store
<1>7. CASE OutSocket(p)
  BY <1>0, <1>7, ObtainEntry DEF OutSocket, Obtain, StoreFailure
<1>8. CASE StoreOut(p) BY <1>8 DEF StoreOut, Store
<1>9. CASE ConnectTarget(p) BY <1>9 DEF ConnectTarget, Proceed
<1>10. CASE EndRelay(p) BY <1>10 DEF EndRelay, Proceed
<1>11. CASE CloseOut(p)
  BY <1>0, <1>11, ClosedEntry DEF CloseOut, Close
<1>12. CASE CloseIn(p)
  BY <1>0, <1>12, ClosedEntry DEF CloseIn, Close
<1>13. CASE DropOut(p)
  BY <1>0, <1>13, ClosedEntry DEF DropOut, Close
<1>14. CASE DropIn(p)
  BY <1>0, <1>14, ClosedEntry DEF DropIn, Close
<1>15. CASE DropListen(p)
  BY <1>0, <1>15, ClosedEntry DEF DropListen, Close
<1>16. CASE Exit(p) BY <1>16 DEF Exit
<1> QED
  BY <1>1, <1>2, <1>3, <1>4, <1>5, <1>6, <1>7, <1>8,
     <1>9, <1>10, <1>11, <1>12, <1>13, <1>14, <1>15, <1>16 DEF Run


LEMMA HoldsOutside ==
  ASSUME TypeOK, NEW p \in Procs, Holds(p), ParentExit(p) \/ BrokenPipe(p)
  PROVE  Holds(p)'
<1> USE DEF TypeOK, Holds, Storing, Has, Roles
<1>1. CASE ParentExit(p) BY <1>1 DEF ParentExit, Space
<1>2. CASE BrokenPipe(p) BY <1>2 DEF BrokenPipe
<1> QED BY <1>1, <1>2

LEMMA OthersKeepOutside ==
  ASSUME TypeOK, Accounted, NEW p \in Procs, ParentExit(p) \/ BrokenPipe(p),
         NEW q \in Procs, q # p
  PROVE  NoLoss(q)
<1> USE TunnelAssumption DEF NoLoss
<1>1. CASE ParentExit(p) BY <1>1 DEF ParentExit
<1>2. CASE BrokenPipe(p)
  <2>1. \A f \in Fds : owner[p][f] # q
    BY DEF Accounted, AccountedFor, Spaces
  <2> QED BY <1>2, <2>1, ExitedEntry DEF BrokenPipe
<1> QED BY <1>1, <1>2

\* What a process holds is not disturbed by a step that takes nothing from it.
LEMMA HoldsOther ==
  ASSUME TypeOK, NEW q \in Procs, Holds(q), ShapeFor(q), SameLocals(q), NoLoss(q)
  PROVE  Holds(q)'
<1>1. \A r \in Roles : Space(q, r) \in Spaces
  BY SpaceType
<1> QED
  BY <1>1 DEF Holds, ShapeFor, SameLocals, NoLoss, Storing, Has, Roles, Space

LEMMA ExactStep ==
  TypeOK /\ Shape /\ Accounted /\ Exact /\ [Next]_vars => Exact'
<1> SUFFICES ASSUME TypeOK, Shape, Accounted, Exact, [Next]_vars, Undisturbed',
                    NEW q \in Procs
             PROVE  Holds(q)'
  BY DEF Exact
<1>0. Undisturbed /\ (\A p \in Procs : Holds(p) /\ ShapeFor(p))
  BY StillUndisturbed DEF Exact, Shape, ShapeFor
<1>1. CASE AllExited \/ UNCHANGED vars
  BY <1>0, <1>1 DEF AllExited, vars, Holds, Space
<1>2. ASSUME NEW p \in Procs, Run(p) \/ Terminate(p) \/ Environment(p)
      PROVE  Holds(q)'
  <2>1. Run(p) \/ ParentExit(p) \/ BrokenPipe(p)
    BY <1>0, <1>2, UndisturbedStep
  <2>2. CASE p = q
    BY <1>0, <2>1, <2>2, HoldsRun, HoldsOutside
  <2>3. CASE p # q
    <3>1. SameLocals(q)
      BY <1>2, <2>3, OthersRun, OthersTerminate, OthersEnvironment
    <3>2. NoLoss(q)
      BY <1>0, <2>1, <2>3, OthersKeep, OthersKeepOutside
    <3> QED BY <1>0, <3>1, <3>2, HoldsOther
  <2> QED BY <2>2, <2>3
<1> QED BY <1>1, <1>2 DEF Next

-----------------------------------------------------------------------------
(* The theorems.                                                           *)

LEMMA InvInit == Init => IInv
<1> SUFFICES ASSUME Init PROVE IInv
  OBVIOUS
<1> USE TunnelAssumption DEF Init, Storing, Has, Roles
<1>1. TypeOK
  BY TypeInit
<1>2. Shape
  BY DEF Shape
<1>3. Accounted
  BY DEF Accounted, AccountedFor
<1>4. Exact
  BY DEF Exact, Holds
<1> QED BY <1>1, <1>2, <1>3, <1>4 DEF IInv

LEMMA InvStep == IInv /\ [Next]_vars => IInv'
  BY TypeStep, ShapeStep, AccountedStep, ExactStep DEF IInv

LEMMA Invariance == Spec => []IInv
  BY InvInit, InvStep, PTL DEF Spec

\* Until a tunnel is shut down by a signal, every call on a socket is made on
\* a descriptor the calling process has open: tunnel(),
\* handle_incoming_connection() and send_receive() never use a stale global.
THEOREM NoStaleUse == Spec => []UsesOwnDescriptors
<1>1. IInv => UsesOwnDescriptors
  BY DEF IInv, Exact, Holds, UsesOwnDescriptors
<1> QED BY <1>1, Invariance, PTL

\* A process that ends leaves nothing open in the emulator or elsewhere, except
\* a descriptor a call had returned, and no global held, when a signal arrived.
THEOREM OnlyUnstoredLeaks == Spec => []LeaksOnlyUnstored
<1>1. IInv => LeaksOnlyUnstored
  <2> SUFFICES ASSUME IInv, NEW p \in Procs, pc[p] = "exited",
                      "SIGPIPE" \notin caught[p],
                      NEW s \in Spaces, NEW f \in Fds, owner[s][f] = p
               PROVE  f = ret[p] /\ caught[p] # {}
    BY DEF LeaksOnlyUnstored
  <2>1. Reason(p, s, f) /\ Pending(handler[p]) \subseteq Roles
    BY DEF IInv, Accounted, AccountedFor, TypeOK, Pending, Roles
  <2> QED BY <2>1 DEF Reason, Storing, Has, Roles
<1> QED BY <1>1, Invariance, PTL

\* Until a tunnel is shut down by a signal, no step of one tunnel closes a
\* descriptor another has open, although close() is made on whatever number a
\* global holds and all tunnels share the emulator's table.
THEOREM NoForeignClose == Spec => ClosesOnlyOwn
<1> DEFINE A == Undisturbed' => \A s \in Spaces, f \in Fds :
                  owner[s][f] \in Procs /\ owner'[s][f] # owner[s][f] =>
                    owner'[s][f] = Nobody /\ Moves(owner[s][f])
<1>1. IInv /\ [Next]_vars => [A]_vars
  <2> SUFFICES ASSUME IInv, Next, Undisturbed', NEW s \in Spaces, NEW f \in Fds,
                      owner[s][f] \in Procs, owner'[s][f] # owner[s][f]
               PROVE  owner'[s][f] = Nobody /\ Moves(owner[s][f])
    OBVIOUS
  <2>0. /\ TypeOK /\ Shape /\ Accounted /\ Undisturbed
        /\ \A p \in Procs : Holds(p)
    BY StillUndisturbed DEF IInv, Exact
  <2>1. PICK p \in Procs : Run(p) \/ Terminate(p) \/ Environment(p)
    BY DEF Next, AllExited, vars
  <2>2. Run(p) \/ ParentExit(p) \/ BrokenPipe(p)
    BY <2>0, <2>1, UndisturbedStep
  <2>3. owner[s][f] = p
    BY <2>0, <2>2, OthersKeep, OthersKeepOutside DEF NoLoss
  <2>4. owner'[s][f] = Nobody /\ pc'[p] # pc[p]
    <3> USE TunnelAssumption DEF Goto, Roles
    <3>1. ASSUME NEW r \in Roles, NEW from, NEW to, Obtain(p, r, from, to)
          PROVE  FALSE
      BY <2>0, <2>3, <3>1, ObtainEntry
    <3>2. ASSUME NEW r \in Roles, NEW from, NEW to, from # to,
                 Close(p, r, from, to)
          PROVE  owner'[s][f] = Nobody /\ pc'[p] # pc[p]
      BY <2>0, <2>3, <3>2, ClosedEntry DEF Close, TypeOK
    <3>3. CASE Exit(p)
      BY <2>0, <2>3, <3>3, ExitedEntry DEF Exit, TypeOK
    <3>4. CASE BrokenPipe(p)
      BY <2>0, <2>3, <3>4, ExitedEntry DEF BrokenPipe, TypeOK
    <3> QED
      BY <2>2, <3>1, <3>2, <3>3, <3>4
      DEF ParentExit, Run, ListenSocket, StoreListen, SetUpListener, Fork,
          Accept, StoreIn, OutSocket, StoreOut, ConnectTarget, EndRelay,
          CloseOut, CloseIn, DropOut, DropIn, DropListen, Store, StoreFailure,
          Proceed
  <2> QED BY <2>3, <2>4 DEF Moves
<1> QED BY <1>1, Invariance, PTL DEF ClosesOnlyOwn, Spec
=============================================================================
