------------------------------ MODULE BlockDev ------------------------------
(***************************************************************************)
(* One block device of aleph_bdev_drv (aleph_block_dev.c): the size it     *)
(* reports and doAsyncReadWrite(), which kernel threads call concurrently. *)
(* A request is served block by block through dev_buf, the one buffer of   *)
(* the device, under the device's mutex, with the host's file behind it.   *)
(*                                                                         *)
(* A block's contents are a value; offsets, lengths and sizes are numbers  *)
(* of bytes, computed in words that wrap.                                  *)
(***************************************************************************)
EXTENDS Integers

CONSTANTS
  Threads,   \* kernel threads that use the device
  FileSize,  \* what qc_size_file() returned, as a uint64_t
  BlockSize, \* BLOCK_SIZE, also the size of dev_buf
  Word,      \* 2^64
  Values,    \* contents of a block
  MaxBlks,   \* bound on the blocks of a request
  Requests,  \* bound on the requests made by all threads
  Stray,     \* whether a request may lie past the end of the disk
  HostFails, \* whether a qc_read_file or qc_write_file may fail
  None       \* nothing

ASSUME BlockDevAssumption ==
  /\ BlockSize \in Nat \ {0}
  /\ Word \in Nat \ {0} /\ BlockSize < Word
  /\ FileSize \in 0..(Word - 1)
  /\ MaxBlks \in Nat /\ Requests \in Nat
  /\ Stray \in BOOLEAN /\ HostFails \in BOOLEAN
  /\ None \notin Threads /\ None \notin Values

-----------------------------------------------------------------------------
(* Sizes, as create_new_aleph_bdev() and doAsyncReadWrite() compute them.  *)

BlockCount    == ((FileSize + BlockSize - 1) % Word) \div BlockSize
MaxValidBlock == (BlockCount - 1) % Word

Offset(b) == (BlockSize * b) % Word

\* Mutant of Length: the last block is transferred in full.
LengthWhole(off) == BlockSize

\* Up to the end of the file in its last block.
Length(off) ==
  IF (off + BlockSize) % Word > FileSize THEN (FileSize - off) % Word
  ELSE BlockSize

\* The condition of cancel().
Beyond(off, len) == (off + len) % Word >= (FileSize + BlockSize) % Word

-----------------------------------------------------------------------------
VARIABLES
  pc,     \* each thread's position in doAsyncReadWrite()
  req,    \* its arguments: direction, block, nblks, and the data to write
  i,      \* its loop counter
  mem,    \* the memory descriptor: contents by block number
  count,  \* byte_count
  len,    \* length of the transfer under way
  devBuf, \* dev_buf
  holder, \* who holds the mutex
  disk,   \* the host's file
  failed, \* whether a call to the host has failed so far
  made    \* requests made so far

vars == <<pc, req, i, mem, count, len, devBuf, holder, disk, failed, made>>

Blocks == 0..(BlockCount - 1)
Lesser(m, n) == IF m <= n THEN m ELSE n

\* The driver above knows the largest valid block, and asks for none beyond it
\* unless it strays by a block or two.
LastBlock == IF Stray THEN MaxValidBlock + 2 ELSE MaxValidBlock
Spans == {s \in (0..LastBlock) \X (1..MaxBlks) : s[1] + s[2] - 1 <= LastBlock}
DataOf(dir, span) ==
  IF dir = "out" THEN [span -> Values] ELSE {[b \in span |-> None]}
AsksFor(dir, s) == [dir : {dir}, block : {s[1]}, nblks : {s[2]},
                    data : DataOf(dir, s[1]..(s[1] + s[2] - 1))]
Asks == UNION {AsksFor(dir, s) : dir \in {"in", "out"}, s \in Spans}

\* Nothing is neither a request nor an answer.
ASSUME NoneAssumption ==
  /\ None \notin Asks
  /\ \A S \in SUBSET Blocks : None \notin [S -> Values \cup {None}]

Init ==
  /\ pc = [t \in Threads |-> "idle"]
  /\ req = [t \in Threads |-> None]
  /\ i = [t \in Threads |-> 0]
  /\ mem = [t \in Threads |-> None]
  /\ count = [t \in Threads |-> 0]
  /\ len = [t \in Threads |-> 0]
  /\ devBuf = None
  /\ holder = None
  /\ disk \in [Blocks -> Values]
  /\ failed = FALSE
  /\ made = 0

Goto(t, from, to) == pc[t] = from /\ pc' = [pc EXCEPT ![t] = to]

\* A call: the memory descriptor holds the data to write, or nothing yet.
Call(t) ==
  /\ Goto(t, "idle", "lock")
  /\ made < Requests
  /\ made' = made + 1
  /\ \E r \in Asks : /\ req' = [req EXCEPT ![t] = r]
                     /\ mem' = [mem EXCEPT ![t] = r.data]
  /\ UNCHANGED <<i, count, len, devBuf, holder, disk, failed>>

\* Mutant of Lock: it does not wait.
LockAnyway(t) ==
  /\ Goto(t, "lock", "loop")
  /\ holder' = t
  /\ i' = [i EXCEPT ![t] = 0]
  /\ count' = [count EXCEPT ![t] = 0]
  /\ UNCHANGED <<req, mem, len, devBuf, disk, failed, made>>

Lock(t) ==
  /\ Goto(t, "lock", "loop")
  /\ holder = None
  /\ holder' = t
  /\ i' = [i EXCEPT ![t] = 0]
  /\ count' = [count EXCEPT ![t] = 0]
  /\ UNCHANGED <<req, mem, len, devBuf, disk, failed, made>>

Block(t) == req[t].block + i[t]

\* The loop test, the length, and the check that may cancel().
Measure(t) ==
  /\ pc[t] = "loop"
  /\ IF i[t] < req[t].nblks
     THEN LET off == Offset(Block(t)) IN
          /\ Goto(t, "loop", IF Beyond(off, Length(off)) THEN "cancelled" ELSE "first")
          /\ len' = [len EXCEPT ![t] = Length(off)]
     ELSE Goto(t, "loop", "complete") /\ UNCHANGED len
  /\ UNCHANGED <<req, i, mem, count, devBuf, holder, disk, failed, made>>

\* Mutant of ReadFile: the result of the call is taken for the data.
ReadFileResult(t) ==
  /\ Goto(t, "first", "second") /\ req[t].dir = "in"
  /\ devBuf' = len[t]
  /\ UNCHANGED <<req, i, mem, count, len, holder, disk, failed, made>>

\* qc_read_file into dev_buf; if it fails dev_buf keeps what it had.
ReadFile(t) ==
  /\ Goto(t, "first", "second")
  /\ req[t].dir = "in"
  /\ \/ /\ devBuf' = IF Block(t) \in Blocks THEN disk[Block(t)] ELSE devBuf
        /\ UNCHANGED failed
     \/ HostFails /\ failed' = TRUE /\ UNCHANGED devBuf
  /\ UNCHANGED <<req, i, mem, count, len, holder, disk, made>>

EndTransfer(t) ==
  /\ Goto(t, "second", "loop")
  /\ i' = [i EXCEPT ![t] = @ + 1]
  /\ count' = [count EXCEPT ![t] = (@ + len[t]) % Word]

\* writeBytes of the memory descriptor, from dev_buf.
FillMemory(t) ==
  /\ EndTransfer(t)
  /\ req[t].dir = "in"
  /\ mem' = [mem EXCEPT ![t][Block(t)] = devBuf]
  /\ UNCHANGED <<req, len, devBuf, holder, disk, failed, made>>

\* readBytes of the memory descriptor, into dev_buf.
FetchMemory(t) ==
  /\ Goto(t, "first", "second")
  /\ req[t].dir = "out"
  /\ devBuf' = mem[t][Block(t)]
  /\ UNCHANGED <<req, i, mem, count, len, holder, disk, failed, made>>

\* Mutant of WriteFile: the block written is that of the loop counter.
WriteFileAtIndex(t) ==
  /\ EndTransfer(t)
  /\ req[t].dir = "out"
  /\ disk' = [disk EXCEPT ![i[t]] = devBuf]
  /\ UNCHANGED <<req, mem, len, devBuf, holder, failed, made>>

\* qc_write_file from dev_buf, which may fail; the result is not looked at.
WriteFile(t) ==
  /\ EndTransfer(t)
  /\ req[t].dir = "out"
  /\ \/ disk' = [disk EXCEPT ![Block(t)] = devBuf] /\ UNCHANGED failed
     \/ HostFails /\ failed' = TRUE /\ UNCHANGED disk
  /\ UNCHANGED <<req, mem, len, devBuf, holder, made>>

\* The completion action, called with status 0 before the mutex is released.
Complete(t) ==
  /\ Goto(t, "complete", "unlock")
  /\ req' = [req EXCEPT ![t] = None]
  /\ UNCHANGED <<i, mem, count, len, devBuf, holder, disk, failed, made>>

\* Mutant of Unlock: the mutex stays locked.
UnlockNothing(t) ==
  /\ Goto(t, "unlock", "idle")
  /\ mem' = [mem EXCEPT ![t] = None]
  /\ UNCHANGED <<req, i, count, len, devBuf, holder, disk, failed, made>>

Unlock(t) ==
  /\ Goto(t, "unlock", "idle")
  /\ holder' = None
  /\ mem' = [mem EXCEPT ![t] = None]
  /\ UNCHANGED <<req, i, count, len, devBuf, disk, failed, made>>

Serve(t) ==
  \/ Lock(t) \/ Measure(t) \/ ReadFile(t) \/ FillMemory(t) \/ FetchMemory(t)
  \/ WriteFile(t) \/ Complete(t) \/ Unlock(t)

\* All requests have been served.
Finished ==
  /\ made = Requests /\ \A t \in Threads : pc[t] = "idle"
  /\ UNCHANGED vars

Next == Finished \/ \E t \in Threads : Call(t) \/ Serve(t)

Spec == Init /\ [][Next]_vars

\* A kernel thread in the driver is scheduled again.
FairSpec == Spec /\ \A t \in Threads : WF_vars(Serve(t))

-----------------------------------------------------------------------------
(* Properties.                                                             *)

TypeOK ==
  /\ pc \in [Threads -> {"idle", "lock", "loop", "first", "second", "complete",
                         "unlock", "cancelled"}]
  /\ req \in [Threads -> Asks \cup {None}]
  /\ i \in [Threads -> 0..MaxBlks]
  /\ count \in [Threads -> 0..(Word - 1)]
  /\ len \in [Threads -> 0..(Word - 1)]
  /\ devBuf \in Values \cup {None}
  /\ holder \in Threads \cup {None}
  /\ failed \in BOOLEAN
  /\ made \in 0..Requests

Busy(t) == pc[t] \in {"loop", "first", "second", "complete"}

\* A request takes effect when its thread gets the mutex: from then on the
\* blocks still to be written count as written, and those still to be read are
\* what the file has.
store == [b \in Blocks |->
            IF \E t \in Threads : Busy(t) /\ req[t].dir = "out"
                                  /\ b \in Block(t)..(req[t].block + req[t].nblks - 1)
            THEN LET t == CHOOSE t \in Threads : Busy(t) IN req[t].data[b]
            ELSE disk[b]]
answer == [t \in Threads |->
             IF ~Busy(t) THEN None
             ELSE IF req[t].dir = "out" THEN req[t].data
             ELSE [b \in DOMAIN req[t].data |->
                     IF b < Block(t) THEN mem[t][b] ELSE disk[b]]]

D == INSTANCE AtomicDisk WITH asked <- req

\* Requests of different threads do not mix, although each is served block by
\* block through one buffer: as long as no call to the host has failed, the
\* device is an atomic disk.
ImplementsDisk == D!Init /\ [][failed' \/ D!Next]_(D!vars)

\* The completion reports the bytes of the request that are in the file, also
\* when its last block is the partial one at the end.
RightCount ==
  \A t \in Threads : pc[t] = "complete" =>
    count[t] = Lesser(req[t].nblks * BlockSize,
                      FileSize - req[t].block * BlockSize)

\* Even if the host fails now and then, the file only ever takes, in the block
\* it belongs to, data of the request being served.
WritesOwnData ==
  [][disk' # disk =>
       \E t \in Threads :
         /\ holder = t /\ req[t].dir = "out"
         /\ disk' = [disk EXCEPT ![Block(t)] = req[t].data[Block(t)]]]_vars

\* Every request is completed and returns.
RequestCompletes == \A t \in Threads : pc[t] = "lock" ~> pc[t] = "idle"
=============================================================================
