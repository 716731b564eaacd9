----------------------------- MODULE UserClient -----------------------------
(***************************************************************************)
(* A user client of the framebuffer (aleph_fbuc_dev.c): the table of       *)
(* methods that fbuc_start() installs, the dispatch of a call, the methods *)
(* and the registration of notification ports.  The threads of the process *)
(* that opened the client call it concurrently; nothing in the code locks  *)
(* its members.                                                            *)
(*                                                                         *)
(* Sizes and counts are the code's, except the number of notification      *)
(* types, a constant here.  What a method answers is abstracted to how     *)
(* many of its scalar outputs it sets and whether it sets the structure.   *)
(***************************************************************************)
EXTENDS Integers

CONSTANTS
  Threads,    \* threads of the process that opened the client
  Ports,      \* its Mach ports
  Callbacks,  \* what it gives to recognise a notification
  NotifPorts, \* FBUC_MAX_NOTIF_PORTS
  FrameInfos, \* how many frame infos there are: the cases of
              \* fbuc_ext_meth_supported_frame_info
  None        \* NULL, nothing

ASSUME UserClientAssumption ==
  /\ NotifPorts \in Nat \ {0}
  /\ FrameInfos \in 1..NotifPorts
  /\ None \notin Ports \cup Callbacks

MaxExtFuncs == 96

\* Any size of a structure is accepted.
AnySize == -1

\* What fbuc_start() installs: the selector, and the numbers of scalar inputs,
\* structure input bytes, scalar outputs and structure output bytes.
Installs ==
  { << 3, 2, 0, 1, 0>>,    << 4, 0, 0, 1, 0>>,    << 5, 0, AnySize, 0, 0>>,
    << 6, 3, 0, 0, 0>>,    << 7, 0, 0, 1, 0>>,    << 8, 0, 0, 2, 0>>,
    <<12, 1, 0, 0, 0>>,    <<15, 2, 0, 1, 0>>,    <<17, 0, 3084, 0, 0>>,
    <<18, 0, 0, 1, 0>>,    <<22, 1, 0, 0, 0>>,    <<27, 0, 0, 0, 3084>>,
    <<28, 0, 0, 1, 0>>,    <<33, 1, 0, 0, 0>>,    <<49, 1, 0, 1, 0>>,
    <<50, 1, 0, 0, 0>>,    <<55, 1, 72, 0, 0>>,   <<57, 0, 0, 1, 0>>,
    <<68, 1, 8, 0, 0>>,    <<72, 4, 0, 0, 0>>,    <<73, 2, 0, 0, 0>>,
    <<74, 1, 0, 1, 64>> }

Selectors == {m[1] : m \in Installs}
Method(s) == CHOOSE m \in Installs : m[1] = s

EnableNotifications == 72
ChangeFrameInfo     == 73
SupportedFrameInfo  == 74

\* Not a method: the call of fbuc_registerNotificationPort().
RegisterNotifPort == -1

WithType == {EnableNotifications, ChangeFrameInfo, SupportedFrameInfo}

\* How many scalar inputs a method reads, how many scalar outputs it sets, and
\* whether it sets the structure output.
ScalarsRead(s) == CASE s = 72 -> 3 [] s \in {73, 74} -> 1 [] OTHER -> 0

\* Mutant of ScalarsSet: get_disp_size answers the width only.
ScalarsSetOne(s) == IF s \in {3, 4, 7, 8, 15, 18, 28, 49, 57, 74} THEN 1 ELSE 0

ScalarsSet(s) ==
  CASE s = 8 -> 2 [] s \in {3, 4, 7, 15, 18, 28, 49, 57, 74} -> 1 [] OTHER -> 0
StructureSet(s) == s \in {27, 74}

VARIABLES
  phase,  \* of the client: opened, started, closed or freed
  pc,     \* what each thread is about to do
  call,   \* its call: the selector and the arguments that matter
  read,   \* the port, or the port of the async reference, that it has read
  port,   \* notif_ports[].port
  async,  \* notif_ports[].asnyc_ref64: a port and a callback
  known,  \* how many frame infos the process knows of
  sent,   \* the last notification sent
  mixed   \* not of the code, for the properties: the types whose enabling or
          \* sending has overlapped with another one and is not over yet

vars == <<phase, pc, call, read, port, async, known, sent, mixed>>

Types == 0..(NotifPorts - 1)

Init ==
  /\ phase = "opened"
  /\ pc = [t \in Threads |-> "user"]
  /\ call = [t \in Threads |-> None]
  /\ read = [t \in Threads |-> None]
  /\ port = [y \in Types |-> None]
  /\ async = [y \in Types |-> [port |-> None, cb |-> None]]
  /\ known = 1
  /\ sent = None
  /\ mixed = {}

Goto(t, from, to) == pc[t] = from /\ pc' = [pc EXCEPT ![t] = to]

-----------------------------------------------------------------------------
(* The life of the client, and the calls of the process.                   *)

\* fbuc_initWithTask() and fbuc_start(), before the process gets the client.
Start ==
  /\ phase = "opened" /\ phase' = "started"
  /\ UNCHANGED <<pc, call, read, port, async, known, sent, mixed>>

\* fbuc_clientClose() terminates the client.
Close ==
  /\ phase = "started" /\ phase' = "closed"
  /\ UNCHANGED <<pc, call, read, port, async, known, sent, mixed>>

\* fbuc_destructor(), once no call holds the client any more.
Free ==
  /\ phase = "closed" /\ phase' = "freed"
  /\ \A t \in Threads : pc[t] = "user"
  /\ UNCHANGED <<pc, call, read, port, async, known, sent, mixed>>

\* A process asks for the frame infos it knows of, from the first on, and uses
\* the notifications of those.
KnownTypes == 0..(known - 1)
Calls ==
  [sel : Selectors \ WithType]
  \cup [sel : {EnableNotifications}, type : KnownTypes, cb : Callbacks]
  \cup [sel : {ChangeFrameInfo, SupportedFrameInfo}, type : KnownTypes]
  \cup [sel : {RegisterNotifPort}, type : KnownTypes, port : Ports]

\* A thread is enabling notifications of type y, or sending one.
Uses(t, y) ==
  /\ pc[t] # "user"
  /\ call[t].sel \in {EnableNotifications, ChangeFrameInfo} /\ call[t].type = y

Overlaps(k) ==
  /\ k.sel \in {EnableNotifications, ChangeFrameInfo}
  /\ \E t \in Threads : Uses(t, k.type)

\* A call from user space.  fbuc_externalMethod() stops the kernel if the
\* selector is not installed; IOUserClient_externalMethod(), which it calls with
\* the entry of the table, lets only calls through that have its counts.
Call(t) ==
  /\ phase = "started"
  /\ \E k \in Calls :
       /\ call' = [call EXCEPT ![t] = k]
       /\ Goto(t, "user", IF k.sel = RegisterNotifPort THEN "register"
                          ELSE IF k.sel \in Selectors /\ k.sel < MaxExtFuncs THEN "method"
                          ELSE "cancelled")
       /\ mixed' = IF Overlaps(k) THEN mixed \cup {k.type} ELSE mixed
  /\ UNCHANGED <<phase, read, port, async, known, sent>>

-----------------------------------------------------------------------------
(* The methods.                                                            *)

\* The methods that keep nothing.
Simple(t) ==
  /\ Goto(t, "method", "answer")
  /\ call[t].sel \notin WithType
  /\ UNCHANGED <<phase, call, read, port, async, known, sent, mixed>>

\* fbuc_ext_meth_supported_frame_info(): the name of one; cancel() if it has no
\* name.
NameFrameInfo(t) ==
  /\ pc[t] = "method" /\ call[t].sel = SupportedFrameInfo
  /\ Goto(t, "method", IF call[t].type < FrameInfos THEN "answer" ELSE "cancelled")
  /\ UNCHANGED <<phase, call, read, port, async, known, sent, mixed>>

\* fbuc_ext_meth_enable_notifications(): the port is read, then
\* IOUserClient_setAsyncReference64() writes port and callback.
ReadPort(t) ==
  /\ Goto(t, "method", "async port")
  /\ call[t].sel = EnableNotifications
  /\ read' = [read EXCEPT ![t] = port[call[t].type]]
  /\ UNCHANGED <<phase, call, port, async, known, sent, mixed>>

SetAsyncPort(t) ==
  /\ Goto(t, "async port", "async callback")
  /\ async' = [async EXCEPT ![call[t].type].port = read[t]]
  /\ UNCHANGED <<phase, call, read, port, known, sent, mixed>>

\* Mutant of SetAsyncCallback: the callback is set for the first type.
SetFirstCallback(t) ==
  /\ Goto(t, "async callback", "answer")
  /\ async' = [async EXCEPT ![0].cb = call[t].cb]
  /\ UNCHANGED <<phase, call, read, port, known, sent, mixed>>

SetAsyncCallback(t) ==
  /\ Goto(t, "async callback", "answer")
  /\ async' = [async EXCEPT ![call[t].type].cb = call[t].cb]
  /\ UNCHANGED <<phase, call, read, port, known, sent, mixed>>

\* fbuc_ext_meth_change_frame_info(): IOUserClient_sendAsyncResult64() reads the
\* async reference and sends if there is a port.
ReadAsync(t) ==
  /\ Goto(t, "method", "send")
  /\ call[t].sel = ChangeFrameInfo
  /\ read' = [read EXCEPT ![t] = async[call[t].type].port]
  /\ UNCHANGED <<phase, call, port, async, known, sent, mixed>>

Send(t) ==
  /\ Goto(t, "send", "answer")
  /\ sent' = IF read[t] = None THEN sent
             ELSE [type |-> call[t].type,
                   to |-> [port |-> read[t], cb |-> async[call[t].type].cb]]
  /\ UNCHANGED <<phase, call, read, port, async, known, mixed>>

\* What fbuc_ext_meth_supported_frame_info() answers besides the name.
Reported == FrameInfos

\* The answer reaches the process.
Answer(t) ==
  /\ Goto(t, "answer", "user")
  /\ known' = IF call[t].sel = SupportedFrameInfo THEN Reported ELSE known
  /\ call' = [call EXCEPT ![t] = None]
  /\ read' = [read EXCEPT ![t] = None]
  /\ mixed' = {y \in mixed : \E u \in Threads \ {t} : Uses(u, y)}
  /\ UNCHANGED <<phase, port, async, sent>>

\* Mutant of RegisterPort: the type is kept as the port.
RegisterType(t) ==
  /\ Goto(t, "register", "user") /\ port' = [port EXCEPT ![call[t].type] = call[t].type]
  /\ call' = [call EXCEPT ![t] = None]
  /\ UNCHANGED <<phase, read, async, known, sent, mixed>>

\* fbuc_registerNotificationPort(), which cancel()s beyond the last type; what
\* it keeps besides the port is not used.
RegisterPort(t) ==
  /\ pc[t] = "register"
  /\ IF call[t].type < NotifPorts
     THEN Goto(t, "register", "user") /\ port' = [port EXCEPT ![call[t].type] = call[t].port]
     ELSE Goto(t, "register", "cancelled") /\ UNCHANGED port
  /\ call' = [call EXCEPT ![t] = None]
  /\ UNCHANGED <<phase, read, async, known, sent, mixed>>

Serve(t) ==
  \/ Simple(t) \/ NameFrameInfo(t) \/ ReadPort(t) \/ SetAsyncPort(t)
  \/ SetAsyncCallback(t) \/ ReadAsync(t) \/ Send(t) \/ Answer(t) \/ RegisterPort(t)

\* The client is gone.
Gone == phase = "freed" /\ UNCHANGED vars

Next == Start \/ Close \/ Free \/ Gone \/ \E t \in Threads : Call(t) \/ Serve(t)

Spec == Init /\ [][Next]_vars

-----------------------------------------------------------------------------
(* Properties.                                                             *)

TypeOK ==
  /\ phase \in {"opened", "started", "closed", "freed"}
  /\ pc \in [Threads -> {"user", "register", "method", "async port",
                         "async callback", "send", "answer", "cancelled"}]
  /\ \A t \in Threads : pc[t] # "user" => call[t] \in Calls
  /\ read \in [Threads -> Ports \cup {None}]
  /\ port \in [Types -> Ports \cup {None}]
  /\ async \in [Types -> [port : Ports \cup {None}, cb : Callbacks \cup {None}]]
  /\ known \in 1..FrameInfos
  /\ mixed \subseteq Types

\* A method sets all that its entry of the table promises to the process and
\* reads no argument the entry does not require.
AnswersWhole ==
  \A t \in Threads : pc[t] = "answer" =>
    LET m == Method(call[t].sel) IN
    /\ ScalarsRead(m[1]) <= m[2]
    /\ ScalarsSet(m[1]) = m[4]
    /\ StructureSet(m[1]) <=> m[5] # 0

\* Threads that have read the port for type y and not yet set its callback.
Enabling(y) == {t \in Threads : pc[t] \in {"async port", "async callback"} /\ call[t].type = y}
AnyOf(S) == CHOOSE x \in S : TRUE

\* What is bound to a type: what a thread that is enabling it will have written.
bound == [y \in Types |->
            IF Enabling(y) = {} THEN async[y]
            ELSE LET t == AnyOf(Enabling(y)) IN [port |-> read[t], cb |-> call[t].cb]]
N == INSTANCE Notifications

\* What overlapping calls on type y may do instead: bind anything to that type
\* and send a notification of it anywhere.
Muddled(y) ==
  /\ UNCHANGED port
  /\ \A z \in Types \ {y} : bound'[z] = bound[z]
  /\ sent' = sent \/ sent'.type = y

\* Notifications are bound and sent as if enabling and sending were one step
\* each, although port, async reference and callback are read and written one
\* after another while other threads register ports and use other types.
\* Nothing in the code keeps two threads from using one type at a time: until
\* such calls have all returned that type, and no other, may go wrong, and once
\* they have the promise holds again.
ImplementsNotifications ==
  N!Init /\ [][N!Next \/ \E y \in mixed : Muddled(y)]_(N!vars)
=============================================================================
