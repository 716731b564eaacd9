------------------------- MODULE UserClient_proofs --------------------------
(***************************************************************************)
(* Proofs about module UserClient, for any threads, ports, callbacks and   *)
(* numbers of notification types and frame infos.                          *)
(***************************************************************************)
EXTENDS UserClient, TLAPS

\* Where a thread is that has read the port and not yet set the callback.
Midway == {"async port", "async callback"}

\* Which method a thread is in, by where it is.
AtMethod ==
  /\ call = [t \in Threads |-> call[t]]
  /\ \A t \in Threads :
       /\ pc[t] \in {"method", "answer"} => call[t].sel \in Selectors
       /\ pc[t] = "register" => call[t].sel = RegisterNotifPort
       /\ pc[t] \in Midway => call[t].sel = EnableNotifications
       /\ pc[t] = "send" => call[t].sel = ChangeFrameInfo

\* The calls of such a process end in no cancel().
Uncancelled == \A t \in Threads : pc[t] # "cancelled"

IInv == TypeOK /\ AtMethod /\ Uncancelled

\* No two threads enable or send notifications of a type that is not mixed.
Alone ==
  \A t, u \in Threads, y \in Types \ mixed : Uses(t, y) /\ Uses(u, y) => t = u

\* What a thread has read of such a type it uses is still so, and what it has
\* written of it is still there.
Half ==
  \A t \in Threads :
    pc[t] \in {"async callback", "send"} /\ call[t].type \notin mixed
      => async[call[t].type].port = read[t]

SInv == IInv /\ Alone /\ Half

-----------------------------------------------------------------------------
(* The table and the calls.                                                *)

\* What each entry of the table promises is what the method does.
LEMMA TableFacts ==
  \A m \in Installs :
    /\ m[1] < MaxExtFuncs /\ m[1] # RegisterNotifPort
    /\ ScalarsRead(m[1]) <= m[2]
    /\ ScalarsSet(m[1]) = m[4]
    /\ StructureSet(m[1]) <=> m[5] # 0
BY DEF Installs, MaxExtFuncs, RegisterNotifPort, ScalarsRead, ScalarsSet, StructureSet, AnySize

LEMMA MethodFacts ==
  ASSUME NEW s \in Selectors
  PROVE  Method(s) \in Installs /\ Method(s)[1] = s
<1>1. \E m \in Installs : m[1] = s BY DEF Selectors
<1> QED BY <1>1 DEF Method

LEMMA SelectorFacts ==
  /\ WithType \subseteq Selectors
  /\ \A s \in Selectors : s < MaxExtFuncs /\ s # RegisterNotifPort
<1>1. /\ <<72, 4, 0, 0, 0>> \in Installs
      /\ <<73, 2, 0, 0, 0>> \in Installs
      /\ <<74, 1, 0, 1, 64>> \in Installs
  BY DEF Installs
<1>2. 72 \in Selectors /\ 73 \in Selectors /\ 74 \in Selectors BY <1>1 DEF Selectors
<1> QED BY <1>2, TableFacts DEF Selectors, WithType, EnableNotifications, ChangeFrameInfo,
                               SupportedFrameInfo

\* The types a process uses have a name and a port.
LEMMA CallFacts ==
  ASSUME known \in 1..FrameInfos, NEW k \in Calls
  PROVE  /\ k.sel \in Selectors \cup {RegisterNotifPort}
         /\ k.sel \in WithType \cup {RegisterNotifPort}
              => k.type \in Types /\ k.type < FrameInfos /\ k.type < NotifPorts
         /\ k.sel = EnableNotifications => k.cb \in Callbacks
         /\ k.sel = RegisterNotifPort => k.port \in Ports
<1>1. KnownTypes \subseteq Types /\ \A y \in KnownTypes : y < FrameInfos /\ y < NotifPorts
  BY UserClientAssumption DEF KnownTypes, Types
<1>2. EnableNotifications = 72 /\ ChangeFrameInfo = 73 /\ SupportedFrameInfo = 74
      /\ RegisterNotifPort = -1 /\ WithType = {72, 73, 74}
  BY DEF WithType, EnableNotifications, ChangeFrameInfo, SupportedFrameInfo, RegisterNotifPort
<1>3. -1 \notin Selectors BY <1>2, SelectorFacts
<1>4. CASE k \in [sel : Selectors \ WithType] BY <1>2, <1>3, <1>4
<1>5. CASE k \in [sel : {EnableNotifications}, type : KnownTypes, cb : Callbacks]
  BY <1>1, <1>2, <1>5, SelectorFacts
<1>6. CASE k \in [sel : {ChangeFrameInfo, SupportedFrameInfo}, type : KnownTypes]
  BY <1>1, <1>2, <1>6, SelectorFacts
<1>7. CASE k \in [sel : {RegisterNotifPort}, type : KnownTypes, port : Ports]
  BY <1>1, <1>2, <1>7
<1> QED BY <1>4, <1>5, <1>6, <1>7 DEF Calls

\* The process gets to know more frame infos, and keeps what it may call.
LEMMA CallsGrow ==
  ASSUME known \in 1..FrameInfos, known' \in {known, FrameInfos}
  PROVE  Calls \subseteq Calls'
<1>1. known \in Int /\ known' \in Int /\ known <= known' BY UserClientAssumption
<1>2. \A m, n \in Int : m <= n => 0..(m - 1) \subseteq 0..(n - 1) OBVIOUS
<1>3. KnownTypes \subseteq KnownTypes' BY <1>1, <1>2 DEF KnownTypes
<1> QED BY <1>3 DEF Calls
-----------------------------------------------------------------------------
(* The invariant.                                                          *)

LEMMA InitSInv == Init => SInv
<1> SUFFICES ASSUME Init PROVE SInv
  OBVIOUS
<1>1. TypeOK BY UserClientAssumption DEF Init, TypeOK
<1>2. AtMethod /\ Uncancelled BY DEF Init, AtMethod, Midway, Uncancelled
<1>3. Alone /\ Half BY DEF Init, Alone, Half, Uses
<1> QED BY <1>1, <1>2, <1>3 DEF SInv, IInv

\* A step of one thread leaves the others where they are.
LEMMA OthersStay ==
  ASSUME TypeOK, AtMethod, NEW t \in Threads, Call(t) \/ Serve(t)
  PROVE  \A u \in Threads \ {t} : pc'[u] = pc[u] /\ call'[u] = call[u] /\ read'[u] = read[u]
BY DEF TypeOK, AtMethod, Call, Serve, Simple, NameFrameInfo, ReadPort, SetAsyncPort,
       SetAsyncCallback, ReadAsync, Send, Answer, RegisterPort, Goto

LEMMA NextIInv == IInv /\ [Next]_vars => IInv'
<1> SUFFICES ASSUME IInv, [Next]_vars PROVE IInv'
  OBVIOUS
<1>0. TypeOK /\ AtMethod /\ Uncancelled BY DEF IInv
<1>1. CASE Start \/ Close \/ Free \/ Gone \/ UNCHANGED vars
  <2>1. UNCHANGED <<pc, call, read, port, async, known, mixed>>
        /\ phase' \in {phase, "started", "closed", "freed"}
    BY <1>1 DEF Start, Close, Free, Gone, vars
  <2>2. Calls' = Calls BY <2>1 DEF Calls, KnownTypes
  <2>3. TypeOK' BY <1>0, <2>1, <2>2 DEF TypeOK
  <2>4. AtMethod' /\ Uncancelled' BY <1>0, <2>1 DEF AtMethod, Uncancelled
  <2> QED BY <2>3, <2>4 DEF IInv
<1>2. ASSUME NEW t \in Threads, Call(t) \/ Serve(t) PROVE IInv'
  <2>0. pc \in [Threads -> {"user", "register", "method", "async port", "async callback", "send",
                           "answer", "cancelled"}]
        /\ call = [u \in Threads |-> call[u]]
        /\ read \in [Threads -> Ports \cup {None}]
    BY <1>0 DEF TypeOK, AtMethod
  <2>1. \A u \in Threads \ {t} : pc'[u] = pc[u] /\ call'[u] = call[u] /\ read'[u] = read[u]
    BY <1>0, <1>2, OthersStay
  <2>2. Calls \subseteq Calls' /\ known' \in 1..FrameInfos
    <3>1. known \in 1..FrameInfos BY <1>0 DEF TypeOK
    <3>2. known' \in {known, FrameInfos}
      BY <1>2 DEF Call, Serve, Simple, NameFrameInfo, ReadPort, SetAsyncPort, SetAsyncCallback,
                  ReadAsync, Send, Answer, RegisterPort, Reported
    <3> QED BY <3>1, <3>2, CallsGrow, UserClientAssumption
  <2>12. mixed' \subseteq Types
    <3>1. mixed \subseteq Types /\ known \in 1..FrameInfos BY <1>0 DEF TypeOK
    <3>2. CASE Call(t)
      <4>1. PICK k \in Calls : mixed' = IF Overlaps(k) THEN mixed \cup {k.type} ELSE mixed
        BY <3>2 DEF Call
      <4>2. Overlaps(k) => k.type \in Types BY <3>1, CallFacts DEF Overlaps, WithType
      <4> QED BY <3>1, <4>1, <4>2
    <3>3. CASE Serve(t)
      BY <3>1, <3>3 DEF Serve, Simple, NameFrameInfo, ReadPort, SetAsyncPort, SetAsyncCallback,
                        ReadAsync, Send, Answer, RegisterPort
    <3> QED BY <1>2, <3>2, <3>3
  <2>3. SUFFICES /\ pc'[t] \in {"user", "register", "method", "async port", "async callback",
                                "send", "answer"}
                 /\ pc' = [pc EXCEPT ![t] = pc'[t]]
                 /\ \E k : call' = [call EXCEPT ![t] = k]
                 /\ pc'[t] # "user" => call'[t] \in Calls
                 /\ pc'[t] \in {"method", "answer"} => call'[t].sel \in Selectors
                 /\ pc'[t] = "register" => call'[t].sel = RegisterNotifPort
                 /\ pc'[t] \in Midway => call'[t].sel = EnableNotifications
                 /\ pc'[t] = "send" => call'[t].sel = ChangeFrameInfo
                 /\ phase' = phase
                 /\ read' \in [Threads -> Ports \cup {None}]
                 /\ port' \in [Types -> Ports \cup {None}]
                 /\ async' \in [Types -> [port : Ports \cup {None}, cb : Callbacks \cup {None}]]
    <3>1. call' = [u \in Threads |-> call'[u]] BY <2>0, <2>3
    <3>2. TypeOK'
      <4>1. \A u \in Threads : pc'[u] # "user" => call'[u] \in Calls'
        BY <1>0, <2>1, <2>2, <2>3 DEF TypeOK
      <4>2. pc' \in [Threads -> {"user", "register", "method", "async port", "async callback",
                                "send", "answer", "cancelled"}]
        BY <2>0, <2>3
      <4>3. phase' \in {"opened", "started", "closed", "freed"} BY <1>0, <2>3 DEF TypeOK
      <4>4. /\ read' \in [Threads -> Ports \cup {None}]
            /\ port' \in [Types -> Ports \cup {None}]
            /\ async' \in [Types -> [port : Ports \cup {None}, cb : Callbacks \cup {None}]]
        BY <2>3
      <4> QED BY ONLY <2>2, <2>12, <4>1, <4>2, <4>3, <4>4 DEF TypeOK, Types
    <3>3. AtMethod'
      <4>1. ASSUME NEW u \in Threads
            PROVE  /\ pc'[u] \in {"method", "answer"} => call'[u].sel \in Selectors
                   /\ pc'[u] = "register" => call'[u].sel = RegisterNotifPort
                   /\ pc'[u] \in Midway => call'[u].sel = EnableNotifications
                   /\ pc'[u] = "send" => call'[u].sel = ChangeFrameInfo
        <5>1. CASE u = t BY <2>3, <5>1
        <5>2. CASE u # t
          <6>1. pc'[u] = pc[u] /\ call'[u] = call[u] BY <2>1, <5>2
          <6> QED BY <1>0, <6>1 DEF AtMethod
        <5> QED BY <5>1, <5>2
      <4> QED BY <3>1, <4>1 DEF AtMethod
    <3>4. Uncancelled' BY <1>0, <2>1, <2>3 DEF Uncancelled
    <3> QED BY <3>2, <3>3, <3>4 DEF IInv
  <2>11. call = [call EXCEPT ![t] = call[t]] BY <2>0
  <2>4. /\ port \in [Types -> Ports \cup {None}]
        /\ async \in [Types -> [port : Ports \cup {None}, cb : Callbacks \cup {None}]]
        /\ known \in 1..FrameInfos
    BY <1>0 DEF TypeOK
  <2>5. pc[t] # "user" => call[t] \in Calls BY <1>0 DEF TypeOK
  <2> USE DEF Goto
  <2>6. CASE Call(t)
    <3>1. PICK k \in Calls :
            /\ call' = [call EXCEPT ![t] = k]
            /\ pc' = [pc EXCEPT ![t] = IF k.sel = RegisterNotifPort THEN "register"
                           ELSE IF k.sel \in Selectors /\ k.sel < MaxExtFuncs THEN "method"
                           ELSE "cancelled"]
      BY <2>6 DEF Call
    <3>2. k.sel \in Selectors \cup {RegisterNotifPort} BY <2>4, CallFacts
    <3>3. k.sel # RegisterNotifPort => k.sel \in Selectors /\ k.sel < MaxExtFuncs
      BY <3>2, SelectorFacts
    <3>4. UNCHANGED <<phase, read, port, async>> BY <2>6 DEF Call
    <3>5. pc'[t] = IF k.sel = RegisterNotifPort THEN "register" ELSE "method"
      BY <2>0, <3>1, <3>3
    <3>6. call'[t] = k BY <2>0, <3>1
    <3> QED BY <2>0, <2>4, <3>1, <3>3, <3>4, <3>5, <3>6 DEF Midway
  <2>7. CASE Simple(t) \/ NameFrameInfo(t)
    <3>1. /\ pc[t] = "method" /\ UNCHANGED <<phase, call, read, port, async>>
          /\ call[t] \in Calls /\ call[t].sel \in Selectors
      BY <1>0, <2>5, <2>7 DEF Simple, NameFrameInfo, AtMethod
    <3>2. NameFrameInfo(t) => call[t].type < FrameInfos
      BY <2>4, <3>1, CallFacts DEF NameFrameInfo, WithType
    <3>3. pc' = [pc EXCEPT ![t] = "answer"] BY <2>7, <3>2 DEF Simple, NameFrameInfo
    <3> QED BY <2>0, <2>4, <3>1, <3>3 DEF Midway
  <2>8. CASE ReadPort(t) \/ SetAsyncPort(t) \/ SetAsyncCallback(t) \/ ReadAsync(t) \/ Send(t)
    <3>1. /\ pc[t] \in {"method", "async port", "async callback", "send"}
          /\ UNCHANGED <<phase, call, port>>
          /\ call[t].sel \in {EnableNotifications, ChangeFrameInfo}
      BY <1>0, <2>8 DEF ReadPort, SetAsyncPort, SetAsyncCallback, ReadAsync, Send, AtMethod, Midway
    <3>2. call[t].sel \in WithType /\ call[t].sel \in Selectors
      BY <3>1, SelectorFacts DEF WithType
    <3>3. call[t] \in Calls BY <2>5, <3>1
    <3>4. call[t].type \in Types
          /\ (call[t].sel = EnableNotifications => call[t].cb \in Callbacks)
      BY <2>4, <3>2, <3>3, CallFacts
    <3>5. (\E k : call' = [call EXCEPT ![t] = k]) /\ call'[t] = call[t] BY <2>11, <3>1
    <3>6. CASE ReadPort(t)
      BY <2>0, <2>4, <3>1, <3>3, <3>4, <3>5, <3>6 DEF ReadPort, Midway
    <3>7. CASE SetAsyncPort(t)
      BY <1>0, <2>0, <2>4, <3>1, <3>3, <3>4, <3>5, <3>7 DEF SetAsyncPort, Midway, AtMethod
    <3>8. CASE SetAsyncCallback(t)
      <4>1. pc[t] = "async callback" /\ call[t].cb \in Callbacks
        BY <1>0, <3>4, <3>8 DEF SetAsyncCallback, Midway, AtMethod
      <4>2. async' \in [Types -> [port : Ports \cup {None}, cb : Callbacks \cup {None}]]
        BY <2>4, <3>4, <3>8, <4>1 DEF SetAsyncCallback
      <4>3. pc' = [pc EXCEPT ![t] = "answer"] /\ UNCHANGED <<call, read, port, phase>>
        BY <3>8 DEF SetAsyncCallback
      <4>5. pc'[t] = "answer" BY <2>0, <4>3
      <4>6. pc' = [pc EXCEPT ![t] = pc'[t]] /\ pc'[t] \notin Midway BY <4>3, <4>5 DEF Midway
      <4>7. read' \in [Threads -> Ports \cup {None}] /\ port' \in [Types -> Ports \cup {None}]
        BY <2>0, <2>4, <4>3
      <4> QED BY ONLY <3>2, <3>3, <3>5, <4>2, <4>3, <4>5, <4>6, <4>7
    <3>9. CASE ReadAsync(t)
      <4>1. pc' = [pc EXCEPT ![t] = "send"] /\ UNCHANGED <<port, async, phase>>
            /\ read' = [read EXCEPT ![t] = async[call[t].type].port]
        BY <3>9 DEF ReadAsync
      <4>2. read' \in [Threads -> Ports \cup {None}] BY <2>0, <2>4, <3>4, <4>1
      <4>3. call[t].sel = ChangeFrameInfo BY <3>9 DEF ReadAsync
      <4> QED BY <2>0, <2>4, <3>3, <3>5, <4>1, <4>2, <4>3 DEF Midway
    <3>10. CASE Send(t)
      BY <2>0, <2>4, <3>1, <3>2, <3>3, <3>5, <3>10 DEF Send, Midway
    <3> QED BY <2>8, <3>6, <3>7, <3>8, <3>9, <3>10
  <2>9. CASE Answer(t)
    BY <2>0, <2>4, <2>9 DEF Answer, Midway
  <2>10. CASE RegisterPort(t)
    <3>1. pc[t] = "register" /\ call[t] \in Calls /\ call[t].sel = RegisterNotifPort
      BY <1>0, <2>5, <2>10 DEF RegisterPort, AtMethod
    <3>2. call[t].type \in Types /\ call[t].type < NotifPorts /\ call[t].port \in Ports
      BY <2>4, <3>1, CallFacts
    <3> QED BY <2>0, <2>4, <2>10, <3>2 DEF RegisterPort, Midway
  <2> QED BY <1>2, <2>6, <2>7, <2>8, <2>9, <2>10 DEF Serve
<1> QED BY <1>1, <1>2 DEF Next

\* Where the threads are, what they have called and what they hold.
THEOREM Invariance == Spec => []IInv
<1>1. Init => IInv BY InitSInv DEF SInv
<1> QED BY <1>1, NextIInv, PTL DEF Spec

\* No method writes outside the members and tables it is for.
THEOREM TypeCorrect == Spec => []TypeOK
BY Invariance, PTL DEF IInv

\* Each of the 22 methods sets what its entry of the table has the kernel copy
\* out, and reads what the entry has it copy in.
THEOREM WholeAnswers == Spec => []AnswersWhole
<1>1. IInv => AnswersWhole
  <2> SUFFICES ASSUME IInv, NEW t \in Threads, pc[t] = "answer"
               PROVE  LET m == Method(call[t].sel) IN
                      /\ ScalarsRead(m[1]) <= m[2]
                      /\ ScalarsSet(m[1]) = m[4]
                      /\ StructureSet(m[1]) <=> m[5] # 0
    BY DEF AnswersWhole
  <2>1. call[t].sel \in Selectors BY DEF IInv, AtMethod
  <2>2. Method(call[t].sel) \in Installs BY <2>1, MethodFacts
  <2> QED BY <2>2, TableFacts
<1> QED BY Invariance, <1>1, PTL

-----------------------------------------------------------------------------
(* Types that threads enable and send one after another.                   *)

LEMMA NextSInv == SInv /\ [Next]_vars => SInv'
<1> SUFFICES ASSUME SInv, [Next]_vars PROVE SInv'
  OBVIOUS
<1>0. IInv /\ IInv' /\ TypeOK /\ AtMethod /\ Alone /\ Half
  BY NextIInv DEF SInv, IInv
<1> SUFFICES Alone' /\ Half'
  BY <1>0 DEF SInv
<1>1. CASE Start \/ Close \/ Free \/ Gone \/ UNCHANGED vars
  <2>1. UNCHANGED <<pc, call, read, async, mixed>> BY <1>1 DEF Start, Close, Free, Gone, vars
  <2> QED BY <1>0, <2>1 DEF Alone, Half, Uses
<1>2. ASSUME NEW t \in Threads, Call(t) \/ Serve(t) PROVE Alone' /\ Half'
  <2>0. pc \in [Threads -> {"user", "register", "method", "async port", "async callback", "send",
                           "answer", "cancelled"}]
        /\ call = [u \in Threads |-> call[u]]
        /\ read \in [Threads -> Ports \cup {None}]
        /\ async \in [Types -> [port : Ports \cup {None}, cb : Callbacks \cup {None}]]
    BY <1>0 DEF TypeOK, AtMethod
  <2>1. \A u \in Threads \ {t} : pc'[u] = pc[u] /\ call'[u] = call[u] /\ read'[u] = read[u]
    BY <1>0, <1>2, OthersStay
  <2> USE DEF Goto
  <2>2. \A y \in Types : Uses(t, y)' /\ ~Uses(t, y)
          => Call(t) /\ (y \notin mixed' => \A u \in Threads : ~Uses(u, y))
    <3> SUFFICES ASSUME NEW y \in Types, Uses(t, y)', ~Uses(t, y)
                 PROVE  Call(t) /\ (y \notin mixed' => \A u \in Threads : ~Uses(u, y))
      OBVIOUS
    <3>1. ~Serve(t)
      <4>1. pc'[t] # "cancelled" BY <1>0 DEF IInv, Uncancelled
      <4>2. Serve(t) => pc[t] # "user" /\ (call' = call \/ pc'[t] = "user")
        BY <2>0, <4>1 DEF Serve, Simple, NameFrameInfo, ReadPort, SetAsyncPort, SetAsyncCallback,
                          ReadAsync, Send, Answer, RegisterPort
      <4> QED BY <4>2 DEF Uses
    <3>2. PICK k \in Calls : /\ call' = [call EXCEPT ![t] = k]
                             /\ mixed' = IF Overlaps(k) THEN mixed \cup {k.type} ELSE mixed
      BY <1>2, <3>1 DEF Call
    <3>3. call'[t] = k BY <2>0, <3>2
    <3>4. k.sel \in {EnableNotifications, ChangeFrameInfo} /\ k.type = y BY <3>3 DEF Uses
    <3> QED BY <1>2, <3>1, <3>2, <3>4 DEF Overlaps
  <2>3. \A u \in Threads \ {t}, y \in Types : Uses(u, y)' <=> Uses(u, y) BY <2>1 DEF Uses
  <2>7. \A u \in Threads \ {t}, y \in Types : y \notin mixed' /\ Uses(u, y) => y \notin mixed
    <3>1. CASE Answer(t) BY <3>1 DEF Answer
    <3>2. CASE ~Answer(t)
      <4>1. mixed \subseteq mixed'
        BY <1>2, <3>2 DEF Call, Serve, Simple, NameFrameInfo, ReadPort, SetAsyncPort,
                          SetAsyncCallback, ReadAsync, Send, RegisterPort
      <4> QED BY <4>1
    <3> QED BY <3>1, <3>2
  <2>4. Alone'
    <3> SUFFICES ASSUME NEW u \in Threads, NEW w \in Threads, NEW y \in Types, y \notin mixed',
                        Uses(u, y)', Uses(w, y)'
                 PROVE  u = w
      BY DEF Alone
    <3>1. CASE u # t /\ w # t BY <1>0, <2>3, <2>7, <3>1 DEF Alone
    <3>2. CASE u = t /\ w # t BY <1>0, <2>2, <2>3, <2>7, <3>2 DEF Alone
    <3>3. CASE u # t /\ w = t BY <1>0, <2>2, <2>3, <2>7, <3>3 DEF Alone
    <3> QED BY <3>1, <3>2, <3>3
  <2>5. ASSUME NEW u \in Threads, pc[u] \in {"async port", "async callback", "send"}
        PROVE  call[u].type \in Types /\ Uses(u, call[u].type)
    <3>1. call[u].sel \in {EnableNotifications, ChangeFrameInfo} /\ call[u] \in Calls
      BY <1>0, <2>5 DEF AtMethod, Midway, TypeOK
    <3>2. call[u].type \in Types BY <1>0, <3>1, CallFacts DEF TypeOK, WithType
    <3> QED BY <2>5, <3>1, <3>2 DEF Uses
  \* For the other threads: what they have read stays while the reference of
  \* their type does.
  <2>8. ASSUME NEW u \in Threads \ {t}, pc'[u] \in {"async callback", "send"},
               call'[u].type \notin mixed'
        PROVE  /\ pc[u] \in {"async callback", "send"} /\ call'[u].type = call[u].type
               /\ call[u].type \in Types /\ Uses(u, call[u].type)
               /\ call[u].type \notin mixed
               /\ async[call[u].type].port = read'[u]
    <3>1. pc[u] = pc'[u] /\ call'[u] = call[u] /\ read'[u] = read[u] BY <2>1
    <3>2. call[u].type \in Types /\ Uses(u, call[u].type) BY <2>5, <2>8, <3>1
    <3>3. call[u].type \notin mixed BY <2>7, <2>8, <3>1, <3>2
    <3> QED BY <1>0, <2>8, <3>1, <3>2, <3>3 DEF Half
  <2>6. Half'
    <3>2. ASSUME async' = async, pc'[t] \notin {"async callback", "send"} PROVE Half'
      BY <2>8, <3>2 DEF Half
    <3>3. CASE Call(t) BY <2>0, <3>2, <3>3 DEF Call
    <3>4. CASE Simple(t) \/ NameFrameInfo(t) \/ ReadPort(t) \/ Send(t) \/ Answer(t) \/ RegisterPort(t)
      BY <2>0, <3>2, <3>4 DEF Simple, NameFrameInfo, ReadPort, Send, Answer, RegisterPort
    <3>5. CASE ReadAsync(t)
      <4>1. async' = async /\ call' = call /\ read'[t] = async[call[t].type].port
        BY <2>0, <3>5 DEF ReadAsync
      <4> QED BY <2>8, <4>1 DEF Half
    <3>6. CASE SetAsyncPort(t)
      <4>1. call[t].type \in Types /\ Uses(t, call[t].type) BY <2>5, <3>6 DEF SetAsyncPort
      <4>2. /\ async' = [async EXCEPT ![call[t].type].port = read[t]]
            /\ call' = call /\ read' = read
        BY <3>6 DEF SetAsyncPort
      <4>3. async'[call[t].type].port = read[t] BY <2>0, <4>1, <4>2
      <4>4. ASSUME NEW u \in Threads \ {t}, pc'[u] \in {"async callback", "send"},
                   call'[u].type \notin mixed'
            PROVE  async'[call'[u].type].port = read'[u]
        <5>1. /\ call[u].type \in Types /\ Uses(u, call[u].type) /\ call[u].type \notin mixed
              /\ async[call[u].type].port = read'[u] /\ call'[u].type = call[u].type
          BY <2>8, <4>4
        <5>2. call[u].type # call[t].type BY <1>0, <4>1, <5>1 DEF Alone
        <5>3. async'[call[u].type] = async[call[u].type] BY <2>0, <4>2, <5>1, <5>2
        <5> QED BY <5>1, <5>3
      <4> QED BY <4>2, <4>3, <4>4 DEF Half
    <3>7. CASE SetAsyncCallback(t)
      <4>1. /\ async' = [async EXCEPT ![call[t].type].cb = call[t].cb]
            /\ call' = call /\ read' = read /\ pc'[t] = "answer"
        BY <2>0, <3>7 DEF SetAsyncCallback
      <4>2. \A y \in Types : async'[y].port = async[y].port BY <2>0, <4>1
      <4>3. ASSUME NEW u \in Threads \ {t}, pc'[u] \in {"async callback", "send"},
                   call'[u].type \notin mixed'
            PROVE  async'[call'[u].type].port = read'[u]
        BY <2>8, <4>2, <4>3
      <4> QED BY <4>1, <4>3 DEF Half
    <3> QED BY <1>2, <3>3, <3>4, <3>5, <3>6, <3>7 DEF Serve
  <2> QED BY <2>4, <2>6
<1> QED BY <1>1, <1>2 DEF Next

-----------------------------------------------------------------------------
(* The refinement of Notifications.                                        *)

LEMMA EnablingFacts ==
  ASSUME NEW y \in Types
  PROVE  /\ Enabling(y) = {} => bound[y] = async[y]
         /\ Enabling(y) # {}
              => /\ AnyOf(Enabling(y)) \in Enabling(y)
                 /\ bound[y] = [port |-> read[AnyOf(Enabling(y))], cb |-> call[AnyOf(Enabling(y))].cb]
<1>1. Enabling(y) # {} => AnyOf(Enabling(y)) \in Enabling(y) BY DEF AnyOf
<1> QED BY <1>1 DEF bound

\* What is bound to a type: what the thread that is enabling it will have
\* written, or what is written.
BoundIs ==
  \A y \in Types \ mixed :
    \A t \in Enabling(y) : bound[y] = [port |-> read[t], cb |-> call[t].cb]

LEMMA BoundFacts == SInv => BoundIs
<1> SUFFICES ASSUME SInv, NEW y \in Types, y \notin mixed, NEW t \in Enabling(y)
             PROVE  bound[y] = [port |-> read[t], cb |-> call[t].cb]
  BY DEF BoundIs
<1>1. \A u \in Enabling(y) : u \in Threads /\ Uses(u, y)
  BY DEF SInv, IInv, AtMethod, Midway, Enabling, Uses
<1>2. AnyOf(Enabling(y)) \in Enabling(y)
      /\ bound[y] = [port |-> read[AnyOf(Enabling(y))], cb |-> call[AnyOf(Enabling(y))].cb]
  BY EnablingFacts
<1>3. AnyOf(Enabling(y)) = t BY <1>1, <1>2 DEF SInv, Alone
<1> QED BY <1>2, <1>3

\* What is bound to a type stays while nobody works on it.
LEMMA BoundFrame ==
  ASSUME NEW y \in Types, async'[y] = async[y], Enabling(y)' = Enabling(y),
         \A u \in Enabling(y) : read'[u] = read[u] /\ call'[u] = call[u]
  PROVE  bound'[y] = bound[y]
<1>1. CASE Enabling(y) = {} BY <1>1 DEF bound, Types
<1>2. CASE Enabling(y) # {}
  <2> DEFINE t == AnyOf(Enabling(y))
  <2>1. t \in Enabling(y) /\ bound[y] = [port |-> read[t], cb |-> call[t].cb]
    BY <1>2, EnablingFacts
  <2>2. AnyOf(Enabling(y))' = t OBVIOUS
  <2>3. bound'[y] = [port |-> read'[t], cb |-> call'[t].cb]
    BY <1>2, <2>2 DEF bound, Types
  <2> QED BY <2>1, <2>3
<1> QED BY <1>1, <1>2

LEMMA InitRefines == Init => N!Init
<1> SUFFICES ASSUME Init PROVE N!Init
  OBVIOUS
<1>1. bound = [y \in Types |-> [port |-> None, cb |-> None]] BY DEF Init, bound, Enabling
<1> QED BY <1>1 DEF Init, N!Init, N!Unbound

\* A step that the promise allows, or the muddle of a type that is mixed.
Promised == [N!Next \/ \E y \in mixed : Muddled(y)]_(N!vars)

LEMMA NextRefines == SInv /\ [Next]_vars => Promised
<1> SUFFICES ASSUME SInv, [Next]_vars PROVE Promised
  OBVIOUS
<1>0. SInv' BY NextSInv
<1>1. BoundIs /\ BoundIs'
  <2>1. BoundIs BY BoundFacts
  <2>2. SInv' => BoundIs' BY BoundFacts, PTL
  <2> QED BY <1>0, <2>1, <2>2
<1>2. TypeOK /\ AtMethod /\ Alone /\ Half BY DEF SInv, IInv
<1>3. bound = [y \in Types |-> bound[y]] /\ bound' = [y \in Types |-> bound'[y]]
  BY DEF bound, Types
<1>4. CASE Start \/ Close \/ Free \/ Gone \/ UNCHANGED vars
  <2>1. UNCHANGED <<pc, call, read, port, async, sent>>
    BY <1>4 DEF Start, Close, Free, Gone, vars
  <2>2. bound' = bound BY <2>1 DEF bound, Enabling, Types
  <2> QED BY <2>1, <2>2 DEF N!vars, Promised
<1>5. ASSUME NEW t \in Threads, Call(t) \/ Serve(t) PROVE Promised
  <2>0. pc \in [Threads -> {"user", "register", "method", "async port", "async callback", "send",
                           "answer", "cancelled"}]
        /\ call = [u \in Threads |-> call[u]]
        /\ read \in [Threads -> Ports \cup {None}]
        /\ port \in [Types -> Ports \cup {None}]
        /\ async \in [Types -> [port : Ports \cup {None}, cb : Callbacks \cup {None}]]
    BY <1>2 DEF TypeOK, AtMethod
  <2>1. \A u \in Threads \ {t} : pc'[u] = pc[u] /\ call'[u] = call[u] /\ read'[u] = read[u]
    BY <1>2, <1>5, OthersStay
  <2> USE DEF Goto
  <2>2. ASSUME async' = async, pc[t] \notin Midway, pc'[t] \notin Midway
        PROVE  bound' = bound
    <3>1. ASSUME NEW y \in Types PROVE bound'[y] = bound[y]
      <4>1. Enabling(y)' = Enabling(y) BY <2>1, <2>2 DEF Enabling, Midway
      <4>2. \A u \in Enabling(y) : u \in Threads \ {t} BY <2>2 DEF Enabling, Midway
      <4> QED BY <2>1, <2>2, <4>1, <4>2, BoundFrame
    <3> QED BY <1>3, <3>1
  <2>3. CASE Call(t) \/ Simple(t) \/ NameFrameInfo(t) \/ ReadAsync(t) \/ Answer(t)
    <3>1. pc[t] \notin Midway /\ pc'[t] \notin Midway /\ UNCHANGED <<port, async, sent>>
      BY <2>0, <2>3 DEF Call, Simple, NameFrameInfo, ReadAsync, Answer, Midway
    <3> QED BY <2>2, <3>1 DEF N!vars, Promised
  <2>4. ASSUME pc[t] \in {"method", "async port", "async callback", "send"},
               call[t].sel \in {EnableNotifications, ChangeFrameInfo}
        PROVE  /\ call[t].type \in Types
               /\ call[t].sel = EnableNotifications => call[t].cb \in Callbacks
               /\ call[t].type \notin mixed => Enabling(call[t].type) \subseteq {t}
    <3>1. call[t] \in Calls /\ known \in 1..FrameInfos BY <1>2, <2>4 DEF TypeOK
    <3>2. call[t].type \in Types /\ (call[t].sel = EnableNotifications => call[t].cb \in Callbacks)
      BY <2>4, <3>1, CallFacts DEF WithType
    <3>3. Uses(t, call[t].type) BY <2>4 DEF Uses
    <3>4. ASSUME NEW u \in Enabling(call[t].type) PROVE u \in Threads /\ Uses(u, call[t].type)
      BY <1>2, <3>4 DEF AtMethod, Midway, Enabling, Uses
    <3> QED BY <1>2, <3>2, <3>3, <3>4 DEF Alone
  <2> DEFINE y0 == call[t].type
  <2>5. ASSUME call' = call, \A y \in Types \ {y0} : async'[y] = async[y]
        PROVE  \A y \in Types \ {y0} : bound'[y] = bound[y]
    <3> SUFFICES ASSUME NEW y \in Types \ {y0} PROVE bound'[y] = bound[y]
      OBVIOUS
    <3>1. Enabling(y)' = Enabling(y) BY <2>1, <2>5 DEF Enabling
    <3>2. \A u \in Enabling(y) : u \in Threads \ {t} BY DEF Enabling
    <3> QED BY <2>1, <2>5, <3>1, <3>2, BoundFrame
  \* On a mixed type any binding will do.
  <2>10. ASSUME y0 \in mixed, call' = call, port' = port, sent' = sent \/ sent'.type = y0,
                \A y \in Types \ {y0} : async'[y] = async[y]
         PROVE  Promised
    <3>1. Muddled(y0) BY <2>5, <2>10 DEF Muddled
    <3> QED BY <2>10, <3>1 DEF Promised
  <2>6. CASE ReadPort(t)
    <3>1. /\ pc[t] = "method" /\ pc'[t] = "async port" /\ call[t].sel = EnableNotifications
          /\ UNCHANGED <<call, port, async, sent, mixed>> /\ read'[t] = port[y0]
      BY <2>0, <2>6 DEF ReadPort
    <3>2. y0 \in Types /\ call[t].cb \in Callbacks BY <2>4, <3>1
    <3>6. CASE y0 \in mixed BY <2>10, <3>1, <3>6
    <3>7. CASE y0 \notin mixed
      <4>1. t \in Enabling(y0)' /\ call'[t] = call[t] BY <3>1 DEF Enabling
      <4>2. bound'[y0] = [port |-> read'[t], cb |-> call'[t].cb]
        BY <1>1, <3>1, <3>2, <3>7, <4>1 DEF BoundIs, Types
      <4>3. bound'[y0] = [port |-> port[y0], cb |-> call[t].cb] BY <3>1, <4>1, <4>2
      <4>4. \A y \in Types \ {y0} : bound'[y] = bound[y] BY <2>5, <3>1
      <4>5. bound' = [bound EXCEPT ![y0] = [port |-> port[y0], cb |-> call[t].cb]]
        BY <1>3, <3>2, <4>3, <4>4
      <4> QED BY <3>1, <3>2, <4>5 DEF N!Next, N!Enable, Promised
    <3> QED BY <3>6, <3>7
  <2>7. CASE SetAsyncPort(t) \/ SetAsyncCallback(t)
    <3>1. /\ pc[t] \in Midway /\ call[t].sel = EnableNotifications
          /\ UNCHANGED <<call, read, port, sent, mixed>>
      BY <1>2, <2>7 DEF SetAsyncPort, SetAsyncCallback, AtMethod, Midway
    <3>2. y0 \in Types BY <2>4, <3>1 DEF Midway
    <3>7. \A y \in Types \ {y0} : async'[y] = async[y]
      BY <2>0, <2>7, <3>2 DEF SetAsyncPort, SetAsyncCallback
    <3>9. CASE y0 \in mixed BY <2>10, <3>1, <3>7, <3>9
    <3>10. CASE y0 \notin mixed
      <4>0. t \in Enabling(y0) BY <3>1 DEF Enabling, Midway
      <4>3. bound[y0] = [port |-> read[t], cb |-> call[t].cb]
        BY <1>1, <3>2, <3>10, <4>0 DEF BoundIs
      <4>1. CASE SetAsyncPort(t)
        <5>1. t \in Enabling(y0)' BY <2>0, <3>1, <4>1 DEF SetAsyncPort, Enabling
        <5>2. bound'[y0] = [port |-> read'[t], cb |-> call'[t].cb]
          BY <1>1, <3>1, <3>2, <3>10, <5>1 DEF BoundIs, Types
        <5>3. bound'[y0] = bound[y0] BY <3>1, <4>3, <5>2
        <5>4. bound' = bound BY <1>3, <2>5, <3>1, <3>7, <5>3
        <5> QED BY <3>1, <5>4 DEF N!vars, Promised
      <4>2. CASE SetAsyncCallback(t)
        <5>1. pc[t] = "async callback" /\ pc'[t] = "answer" BY <2>0, <4>2 DEF SetAsyncCallback
        <5>2. Enabling(y0)' = {}
          <6>1. y0 \notin mixed => Enabling(y0) \subseteq {t} BY <2>4, <3>1, <5>1
          <6>2. \A u \in Enabling(y0) : u = t BY <3>10, <6>1
          <6>3. ASSUME NEW u \in Enabling(y0)' PROVE FALSE
            <7>1. u \in Threads /\ u # t BY <5>1, <6>3 DEF Enabling
            <7>2. u \in Enabling(y0) BY <2>1, <3>1, <6>3, <7>1 DEF Enabling
            <7> QED BY <6>2, <7>1, <7>2
          <6> QED BY <6>3
        <5>3. bound'[y0] = async'[y0] BY <3>1, <3>2, <5>2 DEF bound, Types
        <5>4. async[y0].port = read[t] BY <1>2, <3>10, <5>1 DEF Half
        <5>5. async' = [async EXCEPT ![y0].cb = call[t].cb] BY <4>2 DEF SetAsyncCallback
        <5>6. async'[y0] = [async[y0] EXCEPT !.cb = call[t].cb] BY <2>0, <3>2, <5>5
        <5>7. async[y0] \in [port : Ports \cup {None}, cb : Callbacks \cup {None}] BY <2>0, <3>2
        <5>8. async'[y0] = [port |-> read[t], cb |-> call[t].cb] BY ONLY <5>4, <5>6, <5>7
        <5>9. bound'[y0] = bound[y0] BY <4>3, <5>3, <5>8
        <5>10. bound' = bound BY <1>3, <2>5, <3>1, <3>7, <5>9
        <5> QED BY <3>1, <5>10 DEF N!vars, Promised
      <4> QED BY <2>7, <4>1, <4>2
    <3> QED BY <3>9, <3>10
  <2>8. CASE Send(t)
    <3>1. /\ pc[t] = "send" /\ pc'[t] = "answer" /\ call[t].sel = ChangeFrameInfo
          /\ UNCHANGED <<call, read, port, async, mixed>>
      BY <1>2, <2>0, <2>8 DEF Send, AtMethod
    <3>2. bound' = bound BY <2>2, <3>1 DEF Midway
    <3>3. y0 \in Types BY <2>4, <3>1
    <3>6. CASE read[t] = None BY <2>8, <3>1, <3>2, <3>6 DEF Send, N!vars, Promised
    <3>7. ASSUME read[t] # None
          PROVE  sent' = [type |-> y0, to |-> [port |-> read[t], cb |-> async[y0].cb]]
      BY <2>8, <3>7 DEF Send
    <3>8. CASE read[t] # None /\ y0 \in mixed BY <2>10, <3>1, <3>7, <3>8
    <3>9. CASE read[t] # None /\ y0 \notin mixed
      <4>1. Enabling(y0) = {}
        <5>1. Enabling(y0) \subseteq {t} BY <2>4, <3>1, <3>9
        <5> QED BY <3>1, <5>1 DEF Enabling
      <4>2. bound[y0] = async[y0] BY <3>3, <4>1, EnablingFacts
      <4>3. async[y0].port = read[t] BY <1>2, <3>1, <3>9 DEF Half
      <4>4. async[y0] \in [port : Ports \cup {None}, cb : Callbacks \cup {None}] BY <2>0, <3>3
      <4>5. [port |-> read[t], cb |-> async[y0].cb] = async[y0] BY ONLY <4>3, <4>4
      <4>6. sent' = [type |-> y0, to |-> bound[y0]] BY <3>7, <3>9, <4>2, <4>5
      <4>7. bound[y0].port # None BY <3>9, <4>2, <4>3
      <4> QED BY <3>1, <3>2, <3>3, <4>6, <4>7 DEF N!Next, N!Notify, Promised
    <3> QED BY <3>6, <3>8, <3>9
  <2>9. CASE RegisterPort(t)
    <3>1. pc[t] = "register" /\ call[t] \in Calls /\ call[t].sel = RegisterNotifPort
      BY <1>2, <2>9 DEF RegisterPort, AtMethod, TypeOK
    <3>2. y0 \in Types /\ y0 < NotifPorts /\ call[t].port \in Ports
      BY <1>2, <3>1, CallFacts DEF TypeOK
    <3>3. /\ pc'[t] = "user" /\ UNCHANGED <<async, sent>>
          /\ port' = [port EXCEPT ![y0] = call[t].port]
      BY <2>0, <2>9, <3>2 DEF RegisterPort
    <3>4. bound' = bound BY <2>2, <3>1, <3>3 DEF Midway
    <3> QED BY <3>2, <3>3, <3>4 DEF N!Next, N!Register, Promised
  <2> QED BY <1>5, <2>3, <2>6, <2>7, <2>8, <2>9 DEF Serve
<1> QED BY <1>4, <1>5 DEF Next

\* The pieces in which ports, references and callbacks are read and written
\* look like one step each, with any threads and types, but for a type whose
\* enabling or sending overlaps with another one, until all of these are over.
THEOREM Refinement == Spec => ImplementsNotifications
<1>1. SInv /\ [Next]_vars => [N!Next \/ \E y \in mixed : Muddled(y)]_(N!vars)
  BY NextRefines DEF Promised
<1> QED BY <1>1, NextSInv, InitSInv, InitRefines, PTL DEF Spec, ImplementsNotifications
=============================================================================
