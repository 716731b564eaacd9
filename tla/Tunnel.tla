------------------------------- MODULE Tunnel -------------------------------
(***************************************************************************)
(* Tunnel processes (tcp-tunnel/src/main.c) running side by side in the    *)
(* guest, and the descriptors they hold.                                   *)
(*                                                                         *)
(* A process has three sockets, s_listen, s_in and s_out.  Each is either  *)
(* native, i.e. a descriptor of the process, or a QEMU socket, i.e. a      *)
(* number in the one table the emulator keeps for the whole guest: a       *)
(* qemu_call carries the number and nothing that tells processes apart,    *)
(* and the exit of a guest process tells the emulator nothing.             *)
(*                                                                         *)
(* The steps of a process are the calls it makes.  A call that returns a   *)
(* descriptor and the assignment of the result to a global are two steps,  *)
(* because the signal handler reads the globals and may run in between.    *)
(* The bytes relayed are the subject of module Relay.                      *)
(***************************************************************************)
EXTENDS Integers

CONSTANTS
  Procs,     \* tunnel processes
  Inward,    \* those started with direction "in" (DIR_IN)
  Daemons,   \* those started with -d / --daemonize
  Fds,       \* descriptor numbers
  Signals,   \* for each process, the signals the environment may send it
  Host,      \* the emulator's descriptor table
  Nobody     \* the owner of a descriptor that is not open

HandledSignals == {"SIGINT", "SIGTERM"}
Spaces == Procs \cup {Host}
Roles  == {"listen", "in", "out"}

ASSUME TunnelAssumption ==
  /\ Inward \subseteq Procs
  /\ Daemons \subseteq Procs
  /\ Fds \subseteq Nat
  /\ Host \notin Procs
  /\ Nobody \notin Procs

ASSUME SignalsAssumption == Signals \in [Procs -> SUBSET (HandledSignals \cup {"SIGPIPE"})]

VARIABLES
  pc,      \* where each process is in tunnel()
  handler, \* where it is in terminate(), "idle" when no signal was delivered
  caught,  \* the signals delivered to it
  fd,      \* s_listen.fd, s_in.fd and s_out.fd
  ret,     \* a descriptor a call has returned and no global holds yet
  owner,   \* for each table and number, the process that opened it
  parent   \* the process that called fork(), once there is a child

vars == <<pc, handler, caught, fd, ret, owner, parent>>

\* init_qemu_socket / init_native_socket, as main() pairs them with the roles.
Space(p, r) == IF (r = "out") <=> (p \in Inward) THEN p ELSE Host

Init ==
  /\ pc      = [p \in Procs |-> "socket"]
  /\ handler = [p \in Procs |-> "idle"]
  /\ caught  = [p \in Procs |-> {}]
  /\ fd      = [p \in Procs |-> [r \in Roles |-> -1]]
  /\ ret     = [p \in Procs |-> -1]
  /\ owner   = [s \in Spaces |-> [f \in Fds |-> Nobody]]
  /\ parent  = [p \in Procs |-> "none"]

-----------------------------------------------------------------------------
(* The calls.                                                              *)

IsOpen(p, r) == \E q \in Procs : owner[Space(p, r)][fd[p][r]] = q

Goto(p, from, to) ==
  /\ handler[p] = "idle"
  /\ pc[p] = from
  /\ pc' = [pc EXCEPT ![p] = to]
  /\ UNCHANGED <<handler, caught, parent>>

\* socket() or accept() has returned a new descriptor for role r: of a process
\* the lowest that is free, of the emulator any.
Obtain(p, r, from, to) ==
  /\ Goto(p, from, to)
  /\ \E f \in Fds :
       /\ owner[Space(p, r)][f] = Nobody
       /\ Space(p, r) = Host \/ \A g \in Fds : g < f => owner[Space(p, r)][g] # Nobody
       /\ owner' = [owner EXCEPT ![Space(p, r)][f] = p]
       /\ ret' = [ret EXCEPT ![p] = f]
  /\ UNCHANGED fd

\* The descriptor is assigned to the global of role r.
Store(p, r, from, to) ==
  /\ Goto(p, from, to)
  /\ fd' = [fd EXCEPT ![p][r] = ret[p]]
  /\ ret' = [ret EXCEPT ![p] = -1]
  /\ UNCHANGED owner

\* socket() or accept() has returned -1, which the global of role r takes.
StoreFailure(p, r, from, to) ==
  /\ Goto(p, from, to)
  /\ fd' = [fd EXCEPT ![p][r] = -1]
  /\ UNCHANGED <<ret, owner>>

\* A step that opens and closes nothing.
Proceed(p, from, to) == Goto(p, from, to) /\ UNCHANGED <<fd, ret, owner>>

\* Mutant of Closed: the table takes the value a global would be reset to.
ClosedAsUnset(p, r) == [owner EXCEPT ![Space(p, r)][fd[p][r]] = -1]

\* The table after close(fd) for role r; a number that is not open stays so.
Closed(p, r) == [owner EXCEPT ![Space(p, r)][fd[p][r]] = Nobody]

Close(p, r, from, to) ==
  /\ Goto(p, from, to)
  /\ owner' = Closed(p, r)
  /\ UNCHANGED <<fd, ret>>

\* The end of a process closes its native descriptors, and only those.
Exited(p) == [owner EXCEPT ![p] = [f \in Fds |-> Nobody]]

-----------------------------------------------------------------------------
(* tunnel()                                                                *)

ListenSocket(p) ==
  \/ Obtain(p, "listen", "socket", "storeListen")
  \/ StoreFailure(p, "listen", "socket", "exit")

StoreListen(p) == Store(p, "listen", "storeListen", "setup")

\* fcntl, fcntl, bind and listen: any of them may fail.
SetUpListener(p) ==
  \/ /\ Proceed(p, "setup", IF p \in Daemons THEN "fork" ELSE "accept")
     /\ IsOpen(p, "listen")
  \/ Proceed(p, "setup", "dropListen")

\* In the child the globals have the values they had in the parent.
Fork(p) ==
  \/ Proceed(p, "fork", "accept")
  \/ /\ handler[p] = "idle"
     /\ pc[p] = "fork"
     /\ pc' = [pc EXCEPT ![p] = "accept"]
     /\ parent' = [parent EXCEPT ![p] = "forked"]
     /\ UNCHANGED <<handler, caught, fd, ret, owner>>

\* exit(0) in the parent; the child inherited the native descriptors.
ParentExit(p) ==
  /\ parent[p] = "forked"
  /\ parent' = [parent EXCEPT ![p] = "gone"]
  /\ UNCHANGED <<pc, handler, caught, fd, ret, owner>>

\* A signal reaches the parent before its exit(0).  Of its globals only
\* s_listen.fd is set; closing a native one leaves the child's copy open.
ParentTerminate(p) ==
  /\ parent[p] = "forked"
  /\ Signals[p] \cap HandledSignals # {}
  /\ parent' = [parent EXCEPT ![p] = "killed"]
  /\ owner' = IF Space(p, "listen") = Host THEN Closed(p, "listen") ELSE owner
  /\ UNCHANGED <<pc, handler, caught, fd, ret>>

Accept(p) ==
  \/ Obtain(p, "in", "accept", "storeIn") /\ IsOpen(p, "listen")
  \/ StoreFailure(p, "in", "accept", "accept") /\ IsOpen(p, "listen") \* EAGAIN
  \/ StoreFailure(p, "in", "accept", "dropListen")

StoreIn(p) == Store(p, "in", "storeIn", "socketOut")

-----------------------------------------------------------------------------
(* handle_incoming_connection() and send_receive()                         *)

OutSocket(p) ==
  \/ Obtain(p, "out", "socketOut", "storeOut")
  \/ StoreFailure(p, "out", "socketOut", "dropIn")

StoreOut(p) == Store(p, "out", "storeOut", "connect")

\* inet_pton, connect, fcntl and fcntl: any of them may fail.
ConnectTarget(p) ==
  \/ Proceed(p, "connect", "relay") /\ IsOpen(p, "out")
  \/ Proceed(p, "connect", "dropOut")

EndRelay(p) == Proceed(p, "relay", "closeOut")

\* send() on a native socket whose peer has gone raises SIGPIPE, for which
\* main() installs no handler.
BrokenPipe(p) ==
  /\ "SIGPIPE" \in Signals[p]
  /\ handler[p] = "idle"
  /\ pc[p] = "relay"
  /\ pc' = [pc EXCEPT ![p] = "exited"]
  /\ caught' = [caught EXCEPT ![p] = @ \cup {"SIGPIPE"}]
  /\ owner' = Exited(p)
  /\ UNCHANGED <<handler, fd, ret, parent>>

\* Mutants: send_receive() closes the wrong socket; only s_out is closed when
\* connect() fails.
CloseOutTakesIn(p) == Close(p, "in", "closeOut", "closeIn")
DropOutOnly(p) == Close(p, "out", "dropOut", "dropListen")

CloseOut(p) == Close(p, "out", "closeOut", "closeIn")
CloseIn(p)  == Close(p, "in", "closeIn", "accept")

\* The error paths, which end the tunnel.
DropOut(p)    == Close(p, "out", "dropOut", "dropIn")
DropIn(p)     == Close(p, "in", "dropIn", "dropListen")
DropListen(p) == Close(p, "listen", "dropListen", "exit")

Exit(p) ==
  /\ Goto(p, "exit", "exited")
  /\ owner' = Exited(p)
  /\ UNCHANGED <<fd, ret>>

-----------------------------------------------------------------------------
(* terminate()                                                             *)

\* Each signal is blocked while its own handler runs; the handler never
\* returns, and the other signal may interrupt it.
Deliver(p, sig) ==
  /\ sig \in Signals[p] \cap HandledSignals
  /\ sig \notin caught[p]
  /\ pc[p] # "exited"
  /\ caught' = [caught EXCEPT ![p] = @ \cup {sig}]
  /\ handler' = [handler EXCEPT ![p] = "out"]
  /\ UNCHANGED <<pc, fd, ret, owner, parent>>

\* Mutant of TerminateClose: stuck at a socket that was never opened.
TerminateCloseOpen(p, r, to) ==
  /\ pc[p] # "exited" /\ handler[p] = r /\ fd[p][r] # -1
  /\ handler' = [handler EXCEPT ![p] = to]
  /\ owner' = Closed(p, r)
  /\ UNCHANGED <<pc, caught, fd, ret, parent>>

TerminateClose(p, r, to) ==
  /\ pc[p] # "exited"
  /\ handler[p] = r
  /\ handler' = [handler EXCEPT ![p] = to]
  /\ owner' = IF fd[p][r] # -1 THEN Closed(p, r) ELSE owner
  /\ UNCHANGED <<pc, caught, fd, ret, parent>>

TerminateExit(p) ==
  /\ pc[p] # "exited"
  /\ handler[p] = "exit"
  /\ pc' = [pc EXCEPT ![p] = "exited"]
  /\ owner' = Exited(p)
  /\ UNCHANGED <<handler, caught, fd, ret, parent>>

Terminate(p) ==
  \/ TerminateClose(p, "out", "in")
  \/ TerminateClose(p, "in", "listen")
  \/ TerminateClose(p, "listen", "exit")
  \/ TerminateExit(p)

-----------------------------------------------------------------------------
Run(p) ==
  \/ ListenSocket(p) \/ StoreListen(p) \/ SetUpListener(p) \/ Fork(p)
  \/ Accept(p) \/ StoreIn(p)
  \/ OutSocket(p) \/ StoreOut(p) \/ ConnectTarget(p) \/ EndRelay(p)
  \/ CloseOut(p) \/ CloseIn(p)
  \/ DropOut(p) \/ DropIn(p) \/ DropListen(p) \/ Exit(p)

Environment(p) ==
  \/ ParentExit(p) \/ ParentTerminate(p) \/ BrokenPipe(p)
  \/ \E sig \in HandledSignals : Deliver(p, sig)

\* Every process has ended: nothing is left to happen.
AllExited ==
  /\ \A p \in Procs : pc[p] = "exited" /\ parent[p] # "forked"
  /\ UNCHANGED vars

Next ==
  \/ \E p \in Procs : Run(p) \/ Terminate(p) \/ Environment(p)
  \/ AllExited

Spec == Init /\ [][Next]_vars

\* The guest's scheduler runs a handler that can run.
FairSpec == Spec /\ \A p \in Procs : WF_vars(Terminate(p))

-----------------------------------------------------------------------------
(* Properties.                                                             *)

Steps == {"socket", "storeListen", "setup", "fork", "accept", "storeIn",
          "socketOut", "storeOut", "connect", "relay", "closeOut", "closeIn",
          "dropOut", "dropIn", "dropListen", "exit", "exited"}

TypeOK ==
  /\ pc \in [Procs -> Steps]
  /\ handler \in [Procs -> {"idle", "out", "in", "listen", "exit"}]
  /\ caught \in [Procs -> SUBSET (HandledSignals \cup {"SIGPIPE"})]
  /\ fd \in [Procs -> [Roles -> Fds \cup {-1}]]
  /\ ret \in [Procs -> Fds \cup {-1}]
  /\ owner \in [Spaces -> [Fds -> Procs \cup {Nobody}]]
  /\ parent \in [Procs -> {"none", "forked", "gone", "killed"}]

\* The steps at which the process still has to close the socket of role r.
Has(r) ==
  CASE r = "listen" -> {"setup", "fork", "accept", "storeIn", "socketOut",
                        "storeOut", "connect", "relay", "closeOut", "closeIn",
                        "dropOut", "dropIn", "dropListen"}
    [] r = "in"     -> {"socketOut", "storeOut", "connect", "relay",
                        "closeOut", "closeIn", "dropOut", "dropIn"}
    [] r = "out"    -> {"connect", "relay", "closeOut", "dropOut"}

\* No handler of SIGINT or SIGTERM has run anywhere.
Undisturbed ==
  \A p \in Procs : caught[p] \subseteq {"SIGPIPE"} /\ parent[p] # "killed"

\* Until a tunnel is shut down by a signal, every socket call of tunnel(),
\* handle_incoming_connection() and send_receive() is made on a descriptor
\* its own process opened and has not closed, although no global is ever
\* reset to -1 and all tunnels share the emulator's table.
UsesOwnDescriptors ==
  Undisturbed => \A p \in Procs : \A r \in Roles :
                   pc[p] \in Has(r) => owner[Space(p, r)][fd[p][r]] = p

\* Whenever a process has ended, other than by SIGPIPE, every socket it opened
\* is closed, in the emulator too, except one a call had just returned when
\* the signal arrived; with no signal there is no such exception.
LeaksOnlyUnstored ==
  \A p \in Procs : pc[p] = "exited" /\ "SIGPIPE" \notin caught[p] =>
    \A s \in Spaces, f \in Fds :
      owner[s][f] = p => f = ret[p] /\ caught[p] # {}

Moves(p) == pc'[p] # pc[p] \/ handler'[p] # handler[p]

\* Until a tunnel is shut down by a signal, a descriptor is closed by the
\* process that opened it, never through a number kept from an earlier
\* connection and since reused by another tunnel.
ClosesOnlyOwn ==
  [][Undisturbed' => \A s \in Spaces, f \in Fds :
       owner[s][f] \in Procs /\ owner'[s][f] # owner[s][f] =>
         owner'[s][f] = Nobody /\ Moves(owner[s][f])]_vars

\* A tunnel that receives SIGINT or SIGTERM ends, wherever in its loop it was
\* and even if the other signal interrupts the handler.
SignalledTerminates ==
  \A p \in Procs : caught[p] # {} ~> pc[p] = "exited"
=============================================================================
