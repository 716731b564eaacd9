----------------------------- MODULE AtomicDisk -----------------------------
(***************************************************************************)
(* What a block device promises to the threads that use it: every request  *)
(* takes effect at one moment between the call and its completion, on all  *)
(* its blocks at once.                                                     *)
(***************************************************************************)
EXTENDS Integers

CONSTANTS
  Threads,
  Asks,     \* requests: direction, first block, number of blocks, data
  Blocks,   \* block numbers
  Values,   \* contents of a block
  None      \* no request, no answer

VARIABLES
  store,  \* contents of the disk
  asked,  \* each thread's request, None if it has none
  answer  \* what the request has been answered, before the thread hears it

vars == <<store, asked, answer>>

Span(r) == r.block..(r.block + r.nblks - 1)

Init ==
  /\ store \in [Blocks -> Values]
  /\ asked = [t \in Threads |-> None]
  /\ answer = [t \in Threads |-> None]

Ask(t) ==
  /\ asked[t] = None
  /\ \E r \in Asks : asked' = [asked EXCEPT ![t] = r]
  /\ UNCHANGED <<store, answer>>

Read(t) ==
  /\ asked[t] # None /\ asked[t].dir = "in" /\ answer[t] = None
  /\ answer' = [answer EXCEPT ![t] = [b \in Span(asked[t]) |-> store[b]]]
  /\ UNCHANGED <<store, asked>>

\* The blocks of the request all get new contents, the others none.
Write(t) ==
  /\ asked[t] # None /\ asked[t].dir = "out" /\ answer[t] = None
  /\ store' = [b \in Blocks |-> IF b \in Span(asked[t]) THEN asked[t].data[b]
                                ELSE store[b]]
  /\ answer' = [answer EXCEPT ![t] = asked[t].data]
  /\ UNCHANGED asked

Hear(t) ==
  /\ answer[t] # None
  /\ asked' = [asked EXCEPT ![t] = None]
  /\ answer' = [answer EXCEPT ![t] = None]
  /\ UNCHANGED store

Next == \E t \in Threads : Ask(t) \/ Read(t) \/ Write(t) \/ Hear(t)

Spec == Init /\ [][Next]_vars
=============================================================================
