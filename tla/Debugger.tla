------------------------------ MODULE Debugger ------------------------------
(***************************************************************************)
(* The gdb commands (gdb/xnu/tasks.py and zone.py), the iterators over the *)
(* kernel's lists and tables that they share (xnu_types.py) and the watch  *)
(* that xnu-switch puts on the current thread (utils.py).  gdb and the     *)
(* kernel take turns: the script runs while the kernel is stopped and      *)
(* waits while the kernel runs, until a breakpoint, the watch or the user  *)
(* stops it again.                                                         *)
(*                                                                         *)
(* A list is a ring through its head, a thread or a task its address.  A   *)
(* table is walked by index, and an entry is its index.  The text a        *)
(* command prints is abstracted to its kind.                               *)
(***************************************************************************)
EXTENDS Integers, Sequences, SequencesExt

CONSTANTS
  Threads,     \* addresses of threads
  AtFirst,     \* the threads in the list at first
  Tasks,       \* the list of tasks
  TaskOf,      \* the task of each thread
  UserThreads, \* threads with a user context
  SpaceOf,     \* the IPC space of each task
  InUse,       \* for each space, and for "zones", which entries are in use
  Others,      \* readable addresses of anything else: vouchers, ports
  Breakpoints, \* the user's breakpoints
  MaxTries,    \* bound on the retries asked for
  Commands,    \* bound on the commands given
  Bad,         \* an address where nothing can be read
  ListHead,    \* the head of a list
  None         \* no argument

TaskSet == ToSet(Tasks)
Spaces  == DOMAIN InUse \ {"zones"}

ASSUME DebuggerAssumption ==
  /\ AtFirst \in Seq(Threads) /\ IsInjective(AtFirst)
  /\ Tasks \in Seq(TaskSet) /\ IsInjective(Tasks)
  /\ Len(AtFirst) > 1
  /\ TaskOf \in [Threads -> TaskSet]
  /\ UserThreads \subseteq Threads
  /\ SpaceOf \in [TaskSet -> Spaces]
  /\ \A h \in DOMAIN InUse : InUse[h] \in Seq(BOOLEAN)
  /\ MaxTries \in Nat /\ Commands \in Nat
  /\ {Bad, ListHead, None} \cap (Threads \cup TaskSet \cup Spaces \cup Others) = {}
  /\ Threads \cap TaskSet = {} /\ (TaskSet \cup {"threads", "tasks"}) \cap DOMAIN InUse = {}
  /\ Others \cap (Threads \cup TaskSet \cup DOMAIN InUse \cup {"threads", "tasks", "zones"}) = {}

VARIABLES
  threads,  \* the kernel's threads, in the order of the list
  current,  \* the thread TPIDR_EL1 points to
  running,  \* whether the kernel runs
  enabled,  \* breakpoints that are enabled
  wanted,   \* those the user has not disabled himself
  watch,    \* whether a watch on TPIDR_EL1 is set
  pc,       \* where the script is
  req,      \* the command and its arguments
  walks,    \* the lists and tables the command is to go over
  ptr,      \* next_thread_ptr or next_task_ptr, or the index, of the iterator
  seen,     \* what has been returned and is looked at
  tries,    \* tmp_tries
  said,     \* what the command has told the user
  stops,    \* how often the kernel has stopped during the command
  visited,  \* the threads it was then on
  failed,   \* whether xnu-switch has ended in an exception
  given     \* commands given so far

kernel == <<threads, current>>
points == <<enabled, wanted, watch>>
asked  == <<req, given>>
walk   == <<walks, ptr, seen>>
wait   == <<tries, stops, visited>>
script == <<points, pc, asked, walk, wait, said, failed>>
vars == <<kernel, running, script>>

\* A command and its pointer and number, where it has them.  Any address may be
\* given that is of the kind asked for, that is not, or where nothing can be read.
Request(cmds, ptrs, counts) == [cmd : cmds, ptr : ptrs \cup Others \cup {Bad}, tries : counts]
Requests ==
  UNION { [cmd : {"xnu-switch", "xnu-threads", "xnu-threads-user", "xnu-threads-current",
                  "xnu-tasks", "xnu-zones"}, ptr : {None}, tries : {0}],
          Request({"xnu-switch"}, Threads, (-1)..MaxTries),
          Request({"xnu-thread-info"}, Threads, {0}),
          Request({"xnu-threads", "xnu-task-info", "xnu-ipc_entry-list-task"}, TaskSet, {0}),
          Request({"xnu-ipc_entry-list-space"}, Spaces, {0}),
          Request({"xnu-voucher-info", "xnu-ipc-port-info"}, {}, {0}) }

Nothing == [cmd |-> "none", ptr |-> None, tries |-> 0]

Init ==
  /\ threads = AtFirst
  /\ current \in ToSet(AtFirst)
  /\ running = FALSE
  /\ enabled = Breakpoints /\ wanted = Breakpoints
  /\ watch = FALSE
  /\ pc = "prompt"
  /\ req = Nothing
  /\ walks = <<>> /\ ptr = ListHead /\ seen = <<>>
  /\ tries = 0 /\ stops = 0 /\ visited = {}
  /\ said = "nothing"
  /\ failed = FALSE
  /\ given = 0

\* A step of the script, which leaves the kernel as it is.
Goto(from, to) ==
  /\ ~running
  /\ pc = from /\ pc' = to
  /\ UNCHANGED kernel

-----------------------------------------------------------------------------
(* The iterators.                                                          *)

\* What a list or table is a part of, in order, and its own places there: a
\* task's threads are linked in the order of all threads.
Row(h) ==
  IF h \in DOMAIN InUse THEN [i \in DOMAIN InUse[h] |-> i]
  ELSE IF h = "tasks" THEN Tasks ELSE threads
Places(h) ==
  IF h \in DOMAIN InUse THEN {i \in DOMAIN InUse[h] : InUse[h][i]}
  ELSE {i \in DOMAIN Row(h) : h \in {"threads", "tasks"} \/ TaskOf[Row(h)[i]] = h}

\* The eight bytes at a link: the next of the list, or its head again.
Link(h, p) ==
  LET after == {i \in Places(h) : p = ListHead \/ \E j \in 1..(i - 1) : Row(h)[j] = p}
  IN IF after = {} THEN ListHead ELSE Row(h)[Min(after)]

\* The lists and tables a command goes over: print_all_threads() measures names
\* in three lists first, and PrintTaskList in one.  Where a pointer is to no task,
\* what is taken for its threads or for its space is no list, like the pointer.
Measured == <<"tasks", "threads", "threads">>
Walks(r) ==
  CASE r.cmd \in {"xnu-threads", "xnu-threads-user"} /\ r.ptr = None -> Append(Measured, "threads")
    [] r.cmd = "xnu-threads-current"        -> Append(Measured, TaskOf[current])
    [] r.cmd = "xnu-threads" /\ r.ptr # None -> <<"tasks">> \o Append(Measured, r.ptr)
    [] r.cmd = "xnu-tasks"                  -> <<"tasks", "tasks">>
    [] r.cmd = "xnu-task-info"              -> <<"tasks">>
    [] r.cmd = "xnu-ipc_entry-list-task"    -> <<"tasks", IF r.ptr \in TaskSet THEN SpaceOf[r.ptr] ELSE r.ptr>>
    [] r.cmd = "xnu-ipc_entry-list-space"   -> <<r.ptr>>
    [] r.cmd = "xnu-zones"                  -> <<"zones">>
    [] OTHER                                -> <<"threads">>

IsTable == walks[1] \in DOMAIN InUse

\* __init__() and __iter__(): the first link, or index 0.
Iter ==
  /\ Goto("iter", "next") /\ walks[1] \notin Others
  /\ ptr' = IF IsTable THEN 0 ELSE Link(walks[1], ListHead)
  /\ seen' = <<>>
  /\ UNCHANGED <<running, points, asked, walks, wait, said, failed>>

\* An iterator over what is no list: what it finds there is printed until it meets
\* its head or an address that cannot be read, which it need not do.
Wander ==
  /\ Goto("iter", "prompt") /\ walks[1] \in Others
  /\ said' = IF said = "doubted" THEN "doubted" ELSE "unchecked"
  /\ UNCHANGED <<running, points, asked, walk, wait, failed>>

\* A table's free entries are passed over, and by xnu-threads user other threads.
Shown(item) ==
  /\ IsTable => InUse[walks[1]][item]
  /\ Len(walks) = 1 /\ req.cmd = "xnu-threads-user" => item \in UserThreads

\* __next__() goes past an item.
Return(item, next) ==
  /\ seen' = IF Shown(item) THEN Append(seen, item) ELSE seen
  /\ ptr' = next
  /\ UNCHANGED <<running, points, asked, walks, wait, said, failed>>

\* Mutant of NextItem: the link is followed before the item is returned.
NextLink ==
  /\ Goto("next", "next") /\ ~IsTable /\ ptr # ListHead
  /\ Return(Link(walks[1], ptr), Link(walks[1], ptr))

NextItem ==
  /\ Goto("next", "next") /\ ~IsTable /\ ptr # ListHead
  /\ Return(ptr, Link(walks[1], ptr))

\* ptr is how many entries have been looked at, and so the index of the next.
NextEntry ==
  /\ Goto("next", "next") /\ IsTable /\ ptr < Len(InUse[walks[1]])
  /\ Return(ptr + 1, ptr + 1)

\* is_thread_exist() and is_task_exist().
Exists == req.ptr \in ToSet(seen)

\* A command about a task looks for it first, and goes on when it has said that it
\* does not exist.
Doubts ==
  /\ req.cmd \in {"xnu-threads", "xnu-task-info", "xnu-ipc_entry-list-task"} /\ req.ptr # None
  /\ Len(walks) = Len(Walks(req)) /\ ~Exists

\* What the command does once it has been over a list.
AfterWalk ==
  IF Len(walks) > 1 THEN <<"iter", IF Doubts THEN "doubted" ELSE said>>
  ELSE CASE req.cmd = "xnu-switch" /\ Exists      -> <<"begin", "waiting">>
         [] req.cmd = "xnu-switch" /\ ~Exists     -> <<"prompt", "usage">>
         [] req.cmd = "xnu-thread-info" /\ Exists -> <<"prompt", "info">>
         [] req.cmd = "xnu-thread-info" /\ ~Exists -> <<"prompt", "missing">>
         [] req.cmd = "xnu-task-info" /\ ~Doubts  -> <<"prompt", "info">>
         [] req.cmd = "xnu-task-info" /\ Doubts   -> <<"prompt", "doubted">>
         [] OTHER                                 -> <<"prompt", "list">>

\* StopIteration.
EndWalk ==
  /\ Goto("next", AfterWalk[1])
  /\ IF IsTable THEN ptr = Len(InUse[walks[1]]) ELSE ptr = ListHead
  /\ said' = AfterWalk[2]
  /\ walks' = IF Len(walks) > 1 THEN Tail(walks) ELSE walks
  /\ UNCHANGED <<running, points, asked, ptr, seen, wait, failed>>

-----------------------------------------------------------------------------
(* The user at gdb's prompt.                                               *)

\* Commands that read at their pointer before anything else, by is_valid_ptr().
Tests == {"xnu-threads", "xnu-task-info", "xnu-ipc_entry-list-task", "xnu-ipc_entry-list-space",
          "xnu-voucher-info", "xnu-ipc-port-info"}

\* invoke(): is_in_kernel_space() and is_valid_ptr() refuse or let the command
\* go on; a voucher or port that can be read is printed.
Command ==
  /\ given < Commands /\ given' = given + 1
  /\ \E r \in Requests, kernelSpace \in BOOLEAN :
       LET refused == ~kernelSpace \/ (r.ptr = Bad /\ r.cmd \in Tests)
           read    == r.cmd \in {"xnu-voucher-info", "xnu-ipc-port-info"}
       IN /\ Goto("prompt", IF refused \/ read THEN "prompt"
                            ELSE IF r.cmd = "xnu-switch" /\ r.ptr = None THEN "begin" ELSE "iter")
          /\ said' = IF refused THEN "refused" ELSE IF read THEN "info" ELSE "nothing"
          /\ req' = r
          /\ walks' = IF refused \/ read THEN <<>> ELSE Walks(r)
  /\ ptr' = ListHead /\ seen' = <<>>
  /\ stops' = 0 /\ visited' = {}
  /\ UNCHANGED <<running, points, tries, failed>>

\* The user disables or enables a breakpoint.
Toggle ==
  /\ Goto("prompt", "prompt")
  /\ \E b \in Breakpoints :
       \/ b \in enabled /\ enabled' = enabled \ {b} /\ wanted' = wanted \ {b}
       \/ b \notin enabled /\ enabled' = enabled \cup {b} /\ wanted' = wanted \cup {b}
  /\ UNCHANGED <<running, watch, asked, walk, wait, said, failed>>

\* The user lets the kernel run.
Continue ==
  /\ Goto("prompt", "prompt")
  /\ running' = TRUE
  /\ said' = "nothing"
  /\ UNCHANGED <<points, asked, walk, wait, failed>>

-----------------------------------------------------------------------------
(* switch_to_thread().                                                     *)

\* disable_all_bp() and conf_curr_thread_watchpoint().
Begin ==
  /\ Goto("begin", "test")
  /\ enabled' = {}
  /\ watch' = TRUE
  /\ tries' = req.tries
  /\ UNCHANGED <<running, wanted, asked, walk, stops, visited, said, failed>>

\* Mutant of Waits: the loop runs until tmp_tries is 0.
WaitsUntilZero == IF req.ptr = None THEN stops = 0 ELSE tries # 0

\* The loop's test.  The current thread is a number and the argument a string,
\* which are never equal, so that only the number of tries ends the loop.
Waits == IF req.ptr = None THEN stops = 0 ELSE tries > 0

GdbContinue ==
  /\ Goto("test", "wait")
  /\ Waits
  /\ running' = TRUE
  /\ UNCHANGED <<points, asked, walk, wait, said, failed>>

\* gdb.execute("continue") has returned.
Count(stop, try) ==
  /\ Goto("wait", "test")
  /\ stops' = stop
  /\ tries' = try
  /\ visited' = visited \cup {current}
  /\ UNCHANGED <<running, points, asked, walk, said, failed>>

\* Mutant of Stopped: the tries are not counted.
StoppedUncounted == Count(stops, tries)

Stopped == Count(stops + 1, IF req.ptr = None THEN tries ELSE tries - 1)

Report ==
  /\ Goto("test", "clean-up")
  /\ ~Waits
  /\ said' = IF tries = 0 /\ req.ptr # None THEN "not-scheduled" ELSE "switched"
  /\ UNCHANGED <<running, points, asked, walk, wait, failed>>

\* delete_bp(), and what is then enabled.
Restore(bps) ==
  /\ Goto("clean-up", "prompt")
  /\ watch' = FALSE
  /\ enabled' = bps
  /\ UNCHANGED <<running, wanted, asked, walk, wait, said, failed>>

\* Mutant of CleanUp: the watch is deleted only.
CleanUpWatch == Restore(enabled)

\* delete_bp() and enable_all_bp().
CleanUp == Restore(Breakpoints)

\* The connection fails, or the user breaks the script off: invoke() raises an
\* error and switch_to_thread() does not clean up.
Fail ==
  /\ pc = "wait" /\ running
  /\ pc' = "prompt" /\ running' = FALSE
  /\ failed' = TRUE
  /\ UNCHANGED <<kernel, points, asked, walk, wait, said>>

Script ==
  \/ Iter \/ NextItem \/ NextEntry \/ EndWalk
  \/ Begin \/ GdbContinue \/ Stopped \/ Report \/ CleanUp

-----------------------------------------------------------------------------
(* The kernel, while it runs.                                              *)

Switch ==
  /\ running
  /\ \E t \in ToSet(threads) \ {current} : current' = t
  /\ running' = ~watch
  /\ UNCHANGED <<threads, script>>

\* A breakpoint stops the kernel, or the user does at the prompt.
Hit ==
  /\ running /\ (enabled # {} \/ pc = "prompt")
  /\ running' = FALSE
  /\ UNCHANGED <<kernel, script>>

Spawn ==
  /\ running
  /\ \E t \in Threads \ ToSet(threads) : threads' = Append(threads, t)
  /\ UNCHANGED <<current, running, script>>

Exit ==
  /\ running /\ Len(threads) > 2
  /\ \E i \in DOMAIN threads : threads[i] # current /\ threads' = RemoveAt(threads, i)
  /\ UNCHANGED <<current, running, script>>

\* The user is done.
Quit == pc = "prompt" /\ given = Commands /\ UNCHANGED vars

Next ==
  \/ Command \/ Toggle \/ Continue \/ Script \/ Wander \/ Fail \/ Quit
  \/ Switch \/ Hit \/ Spawn \/ Exit

Spec == Init /\ [][Next]_vars

\* Python runs on, and so does the kernel's scheduler; what is followed as a list
\* and is none may have no end.
FairSpec == Spec /\ WF_vars(Script) /\ WF_vars(Switch)

-----------------------------------------------------------------------------
(* Properties.                                                             *)

TypeOK ==
  /\ ToSet(threads) \subseteq Threads /\ current \in ToSet(threads)
  /\ running \in BOOLEAN
  /\ enabled \subseteq Breakpoints /\ wanted \subseteq Breakpoints
  /\ watch \in BOOLEAN
  /\ pc \in {"prompt", "iter", "next", "begin", "test", "wait", "clean-up"}
  /\ req \in Requests \cup {Nothing}
  /\ tries \in (-1)..MaxTries
  /\ said \in {"nothing", "refused", "usage", "list", "info", "missing", "doubted",
               "unchecked", "waiting", "switched", "not-scheduled"}
  /\ stops \in 0..(MaxTries + 1)
  /\ failed \in BOOLEAN
  /\ given \in 0..Commands

\* What a list or table of the command has in the kernel that is stopped.
Kept(h) ==
  {x \in {Row(h)[i] : i \in Places(h)} : req.cmd = "xnu-threads-user" => x \in UserThreads}

\* One after the other in the list or table, and hence each once.
InOrder(h) ==
  \A m, n \in DOMAIN seen : m < n =>
    \E i, j \in DOMAIN Row(h) : i < j /\ Row(h)[i] = seen[m] /\ Row(h)[j] = seen[n]

\* Every member of a list, and every used entry of a table, is returned once and
\* in order, whatever lists were gone over before.
ListsWhole == said = "list" => ToSet(seen) = Kept(walks[1]) /\ InOrder(walks[1])

\* What a command says of its pointer is so in the lists of that moment, threads
\* that have come and gone since the last command among them: a task is said not
\* to exist, and a thread is refused, only if it is not there, and what is printed
\* without a word is of the kind asked for.  The list of a space is the exception,
\* which nothing is compared with.
FindsListed ==
  /\ said \in {"usage", "missing"} => req.ptr \notin ToSet(threads)
  /\ said = "doubted" => req.ptr \notin TaskSet
  /\ said = "unchecked" => req.cmd = "xnu-ipc_entry-list-space" /\ req.ptr \notin Spaces
  /\ said = "info" => req.ptr \in CASE req.cmd = "xnu-thread-info" -> ToSet(threads)
                                    [] req.cmd = "xnu-task-info"   -> TaskSet
                                    [] OTHER                       -> Others
  /\ said = "list" /\ req.ptr # None =>
       req.ptr \in IF req.cmd = "xnu-ipc_entry-list-space" THEN Spaces ELSE TaskSet
  /\ pc = "begin" /\ req.ptr # None => req.ptr \in ToSet(threads)

\* xnu-switch stops the kernel at the next context switch, and with arguments
\* after no more switches than asked for.  While it waits nothing but a switch
\* stops the kernel.
StopsAtSwitches ==
  /\ said = "switched" /\ req.ptr = None => stops = 1
  /\ said = "not-scheduled" => stops = req.tries
  /\ pc = "wait" => enabled = {} /\ watch

\* A command is right about the kernel it finds.
AnswersRight == ListsWhole /\ FindsListed /\ StopsAtSwitches

\* As long as no xnu-switch has ended in an exception, every command leaves the
\* user's breakpoints enabled and no watch behind; after one that has, nothing is
\* said.
LeavesNoTrace == pc = "prompt" /\ ~failed => wanted \subseteq enabled /\ ~watch

\* Every command ends, but for one that follows what is no list.
CommandEnds == pc # "prompt" ~> pc = "prompt" \/ (pc = "iter" /\ walks[1] \in Others)

\* "Break on specific thread within specified number of context switches": a
\* thread that is reported as not scheduled was not seen.
FindsThread == said = "not-scheduled" => req.ptr \notin visited
=============================================================================
