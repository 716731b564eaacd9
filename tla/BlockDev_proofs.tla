--------------------------- MODULE BlockDev_proofs ---------------------------
(***************************************************************************)
(* Proofs about module BlockDev, for any size of file, block and word and  *)
(* any number of threads and requests.                                     *)
(***************************************************************************)
EXTENDS BlockDev, TLAPS

-----------------------------------------------------------------------------
(* Words that wrap.                                                        *)

LEMMA ModSmall == ASSUME NEW w \in Nat \ {0}, NEW x \in 0..(w - 1) PROVE x % w = x
  OBVIOUS

LEMMA ModOver ==
  ASSUME NEW w \in Nat \ {0}, NEW x \in w..(2 * w - 1) PROVE x % w = x - w
  OBVIOUS

LEMMA ModUnder ==
  ASSUME NEW w \in Nat \ {0}, NEW x \in (-w)..(-1) PROVE x % w = x + w
  OBVIOUS

LEMMA ModRange == ASSUME NEW w \in Nat \ {0}, NEW x \in Int PROVE x % w \in 0..(w - 1)
  OBVIOUS

-----------------------------------------------------------------------------
(* The check before a transfer, and the sizes that qc_size_file() may give.  *)

\* The bound of the check does not wrap: not so for the size -1 of a failure.
Unwrapped == FileSize + BlockSize < Word

\* Nor is the file empty.
Sized == FileSize # 0 /\ Unwrapped

\* The check never fires, for any offset: the length chosen just before it ends
\* the transfer at the end of the file or earlier.
LEMMA CheckIsDead ==
  ASSUME Unwrapped, NEW off \in 0..(Word - 1) PROVE ~Beyond(off, Length(off))
<1> USE BlockDevAssumption DEF Unwrapped
<1>1. (FileSize + BlockSize) % Word = FileSize + BlockSize
  BY ModSmall
<1>2. CASE off + BlockSize < Word
  <2>1. (off + BlockSize) % Word = off + BlockSize
    BY <1>2, ModSmall
  <2>2. CASE off + BlockSize <= FileSize
    BY <1>1, <2>1, <2>2 DEF Beyond, Length
  <2>3. CASE off + BlockSize > FileSize /\ off <= FileSize
    <3>1. (FileSize - off) % Word = FileSize - off
      BY <2>3, ModSmall
    <3>2. (off + (FileSize - off)) % Word = FileSize
      BY ModSmall
    <3> QED
      BY <1>1, <2>1, <2>3, <3>1, <3>2 DEF Beyond, Length
  <2>4. CASE off > FileSize
    <3>1. (FileSize - off) % Word = FileSize - off + Word
      BY <2>4, ModUnder
    <3>2. (off + (FileSize - off + Word)) % Word = FileSize
      BY ModOver
    <3> QED
      BY <1>1, <2>1, <2>4, <3>1, <3>2 DEF Beyond, Length
  <2> QED
    BY <2>2, <2>3, <2>4
<1>3. CASE off + BlockSize >= Word
  <2>1. (off + BlockSize) % Word = off + BlockSize - Word
    BY <1>3, ModOver
  <2>2. CASE off + BlockSize - Word > FileSize
    <3>1. off > FileSize
      BY <2>2
    <3>2. (FileSize - off) % Word = FileSize - off + Word
      BY <3>1, ModUnder
    <3>3. (off + (FileSize - off + Word)) % Word = FileSize
      BY ModOver
    <3> QED
      BY <1>1, <2>1, <2>2, <3>2, <3>3 DEF Beyond, Length
  <2>3. CASE off + BlockSize - Word <= FileSize
    BY <1>1, <2>1, <2>3 DEF Beyond, Length
  <2> QED
    BY <2>2, <2>3
<1> QED
  BY <1>2, <1>3

\* If its bound wraps, it fires at the first block of the disk.
LEMMA CheckFires ==
  ASSUME ~Unwrapped PROVE Beyond(Offset(0), Length(Offset(0)))
<1> USE BlockDevAssumption DEF Unwrapped
<1>1. (FileSize + BlockSize) % Word = FileSize + BlockSize - Word
  <2>1. FileSize \in Nat /\ BlockSize \in Nat /\ Word \in Nat \ {0}
        /\ FileSize < Word /\ BlockSize < Word
    BY BlockDevAssumption
  <2>2. FileSize + BlockSize \in Nat /\ FileSize + BlockSize >= Word
    BY <2>1 DEF Unwrapped
  <2>3. FileSize + BlockSize \in Word..(2 * Word - 1)
    BY <2>1, <2>2
  <2> QED
    BY ONLY <2>1, <2>3, ModOver
<1>2. Offset(0) = 0
  <2>1. BlockSize * 0 = 0
    OBVIOUS
  <2> QED
    BY <2>1, ModSmall DEF Offset
<1>3. (0 + BlockSize) % Word = BlockSize /\ (FileSize - 0) % Word = FileSize
      /\ (0 + FileSize) % Word = FileSize
  BY ModSmall
<1>4. CASE BlockSize > FileSize
  <2>1. Length(0) = FileSize
    BY <1>3, <1>4 DEF Length
  <2> QED
    BY <1>1, <1>2, <1>3, <2>1 DEF Beyond
<1>5. CASE BlockSize <= FileSize
  <2>1. Length(0) = BlockSize
    BY <1>3, <1>5 DEF Length
  <2> QED
    BY <1>1, <1>2, <1>3, <2>1 DEF Beyond
<1> QED
  BY <1>4, <1>5

-----------------------------------------------------------------------------
(* Requests.                                                               *)

LEMMA BlockCountNat == BlockCount \in Nat
<1>1. (FileSize + BlockSize - 1) % Word \in Nat
  BY BlockDevAssumption, ModRange
<1>2. \A n \in Nat, d \in Nat \ {0} : n \div d \in Nat
  OBVIOUS
<1> QED
  BY <1>1, <1>2, BlockDevAssumption DEF BlockCount

LEMMA LastBlockNat == LastBlock \in Nat
<1>1. MaxValidBlock \in Nat
  <2>1. BlockCount - 1 \in Int
    BY BlockCountNat
  <2> QED
    BY <2>1, ModRange, BlockDevAssumption DEF MaxValidBlock
<1> QED
  BY <1>1 DEF LastBlock

\* What every request has: some blocks, and data for each of them if it writes.
LEMMA AskShape ==
  ASSUME NEW r \in Asks
  PROVE  /\ r.dir \in {"in", "out"}
         /\ r.block \in Nat
         /\ r.nblks \in 1..MaxBlks
         /\ r.dir = "out" => r.data \in [r.block..(r.block + r.nblks - 1) -> Values]
<1>1. PICK dir \in {"in", "out"}, s \in Spans :
        r \in AsksFor(dir, s)
  BY DEF Asks
<1>2. s[1] \in Nat /\ s[2] \in 1..MaxBlks
  <2>1. s \in (0..LastBlock) \X (1..MaxBlks)
    BY DEF Spans
  <2> QED
    BY <2>1, LastBlockNat
<1>3. r.dir = dir /\ r.block = s[1] /\ r.nblks = s[2]
  BY <1>1 DEF AsksFor
<1>4. r.dir = "out" => r.data \in [s[1]..(s[1] + s[2] - 1) -> Values]
  BY <1>1, <1>3 DEF AsksFor, DataOf
<1> QED
  BY <1>1, <1>2, <1>3, <1>4

-----------------------------------------------------------------------------
(* The inductive invariant: the mutex is held from Lock to Unlock, and what *)
(* is between a request's memory and the file is the request's own data.    *)

Held(t) == pc[t] \in {"loop", "first", "second", "complete", "unlock"}

Exclusive == \A t \in Threads : Held(t) => holder = t

\* The request a thread serves, and how far it has got.
Served ==
  \A t \in Threads :
    /\ pc[t] \in {"lock", "loop", "first", "second", "complete"} => req[t] \in Asks
    /\ pc[t] = "loop" => i[t] <= req[t].nblks
    /\ pc[t] \in {"first", "second"} => i[t] < req[t].nblks

Carried ==
  \A t \in Threads :
    /\ pc[t] \in {"lock", "loop", "first", "second"} /\ req[t].dir = "out" =>
         mem[t] = req[t].data
    /\ pc[t] = "second" /\ req[t].dir = "out" => devBuf = req[t].data[Block(t)]

NotCancelled == Unwrapped => \A t \in Threads : pc[t] # "cancelled"

IInv ==
  /\ TypeOK
  /\ DOMAIN mem = Threads
  /\ disk \in [Blocks -> Values]
  /\ Exclusive
  /\ Served
  /\ Carried
  /\ NotCancelled

LEMMA InitInv == Init => IInv
<1> SUFFICES ASSUME Init PROVE IInv
  OBVIOUS
<1> USE BlockDevAssumption
<1>1. failed \in BOOLEAN
  BY DEF Init
<1>2. TypeOK
  <2>1. /\ pc \in [Threads -> {"idle"}]
        /\ req \in [Threads -> {None}]
        /\ i \in [Threads -> {0}] /\ count \in [Threads -> {0}] /\ len \in [Threads -> {0}]
        /\ devBuf = None /\ holder = None /\ made = 0
    BY DEF Init
  <2> QED
    BY <1>1, <2>1 DEF TypeOK
<1> QED
  BY <1>2 DEF Init, IInv, Exclusive, Served, Carried, NotCancelled, Held

LEMMA NextInv == IInv /\ [Next]_vars => IInv'
<1> SUFFICES ASSUME IInv, [Next]_vars PROVE IInv'
  OBVIOUS
<1> USE BlockDevAssumption
<1>0. /\ TypeOK /\ DOMAIN mem = Threads /\ disk \in [Blocks -> Values]
      /\ Exclusive /\ Served /\ Carried /\ NotCancelled
  BY DEF IInv
<1>1. ASSUME NEW t \in Threads, Call(t) PROVE IInv'
  <2>1. TypeOK'
    BY <1>0, <1>1 DEF TypeOK, Call, Goto
  <2>2. Exclusive' /\ NotCancelled' /\ (DOMAIN mem = Threads /\ disk \in [Blocks -> Values])'
    BY <1>0, <1>1 DEF TypeOK, Call, Goto, Exclusive, Held, NotCancelled
  <2>3. Served'
    BY <1>0, <1>1 DEF TypeOK, Call, Goto, Served
  <2>4. Carried'
    <3>1. PICK r \in Asks : /\ req' = [req EXCEPT ![t] = r]
                           /\ mem' = [mem EXCEPT ![t] = r.data]
      BY <1>1 DEF Call
    <3>2. mem'[t] = req'[t].data
      BY <1>0, <3>1 DEF TypeOK
    <3>3. ASSUME NEW u \in Threads \ {t}
          PROVE  /\ req'[u] = req[u] /\ mem'[u] = mem[u] /\ pc'[u] = pc[u]
                 /\ i'[u] = i[u] /\ devBuf' = devBuf
      BY <1>0, <1>1, <3>1 DEF TypeOK, Call, Goto
    <3> QED
      BY <1>0, <1>1, <3>2, <3>3 DEF TypeOK, Call, Goto, Carried, Block
  <2> QED
    BY <2>1, <2>2, <2>3, <2>4 DEF IInv
<1>2. ASSUME NEW t \in Threads, Lock(t) PROVE IInv'
  <2>1. TypeOK'
    BY <1>0, <1>2 DEF TypeOK, Lock, Goto
  <2>2. Exclusive' /\ NotCancelled' /\ (DOMAIN mem = Threads /\ disk \in [Blocks -> Values])'
    BY <1>0, <1>2 DEF TypeOK, Lock, Goto, Exclusive, Held, NotCancelled
  <2>3. req[t] \in Asks
    BY <1>0, <1>2 DEF Lock, Goto, Served
  <2>4. Served'
    BY <1>0, <1>2, <2>3, AskShape DEF TypeOK, Lock, Goto, Served
  <2>5. Carried'
    BY <1>0, <1>2 DEF TypeOK, Lock, Goto, Carried, Block
  <2> QED
    BY <2>1, <2>2, <2>4, <2>5 DEF IInv
<1>3. ASSUME NEW t \in Threads, Measure(t) PROVE IInv'
  <2>1. req[t] \in Asks /\ i[t] \in Nat /\ pc[t] = "loop"
    BY <1>0, <1>3 DEF Measure, Goto, Served, TypeOK
  <2> DEFINE off == Offset(Block(t))
  <2>2. off \in 0..(Word - 1)
    <3>1. Block(t) \in Nat
      BY <2>1, AskShape DEF Block
    <3>2. BlockSize * Block(t) \in Int
      BY <3>1
    <3> QED
      BY <3>2, ModRange DEF Offset
  <2>3. Length(off) \in 0..(Word - 1)
    <3>1. FileSize - off \in Int
      BY <2>2
    <3>2. (FileSize - off) % Word \in 0..(Word - 1)
      BY <3>1, ModRange
    <3> QED
      BY <3>2 DEF Length
  <2>4. Unwrapped => ~Beyond(off, Length(off))
    BY <2>2, CheckIsDead
  <2>5. \/ /\ i[t] < req[t].nblks
           /\ \/ pc' = [pc EXCEPT ![t] = "first"]
              \/ ~Unwrapped /\ pc' = [pc EXCEPT ![t] = "cancelled"]
           /\ len' = [len EXCEPT ![t] = Length(off)]
        \/ /\ ~(i[t] < req[t].nblks)
           /\ pc' = [pc EXCEPT ![t] = "complete"]
           /\ len' = len
    BY <1>3, <2>4 DEF Measure, Goto
  <2>6. UNCHANGED <<req, i, mem, count, devBuf, holder, disk, failed, made>>
    BY <1>3 DEF Measure
  <2> HIDE DEF off
  <2>7. TypeOK'
    BY <1>0, <2>3, <2>5, <2>6 DEF TypeOK
  <2>8. Exclusive' /\ NotCancelled' /\ (DOMAIN mem = Threads /\ disk \in [Blocks -> Values])'
    BY <1>0, <2>1, <2>5, <2>6 DEF TypeOK, Exclusive, Held, NotCancelled
  <2>9. Served'
    BY <1>0, <2>1, <2>5, <2>6 DEF TypeOK, Served
  <2>10. Carried'
    BY <1>0, <2>1, <2>5, <2>6 DEF TypeOK, Carried, Block
  <2> QED
    BY <2>7, <2>8, <2>9, <2>10 DEF IInv
<1>4. ASSUME NEW t \in Threads, ReadFile(t) PROVE IInv'
  <2>0. /\ failed' \in BOOLEAN
        /\ devBuf' \in Values \cup {None}
        /\ pc[t] = "first" /\ pc' = [pc EXCEPT ![t] = "second"]
        /\ UNCHANGED <<req, i, mem, count, len, holder, disk, made>>
    <3>1. failed' = failed \/ failed' = TRUE
      BY <1>4 DEF ReadFile
    <3>2. failed' \in BOOLEAN
      BY <1>0, <3>1 DEF TypeOK
    <3>3. devBuf' \in {devBuf} \cup {disk[b] : b \in Blocks}
      BY <1>4 DEF ReadFile
    <3> QED
      BY <1>0, <1>4, <3>2, <3>3 DEF TypeOK, ReadFile, Goto
  <2>1. TypeOK'
    BY <1>0, <2>0 DEF TypeOK
  <2>2. Exclusive' /\ NotCancelled' /\ (DOMAIN mem = Threads /\ disk \in [Blocks -> Values])'
    BY <1>0, <1>4 DEF TypeOK, ReadFile, Goto, Exclusive, Held, NotCancelled
  <2>3. Served'
    BY <1>0, <1>4 DEF TypeOK, ReadFile, Goto, Served
  <2>4. Carried'
    BY <1>0, <1>4 DEF TypeOK, ReadFile, Goto, Carried, Block, Exclusive, Held
  <2> QED
    BY <2>1, <2>2, <2>3, <2>4 DEF IInv
<1>5. ASSUME NEW t \in Threads, EndTransfer(t), pc[t] = "second",
             UNCHANGED <<req, len, devBuf, holder, made>>, failed' \in BOOLEAN,
             req[t].dir = "out" => UNCHANGED mem,
             DOMAIN mem' = Threads, \A u \in Threads \ {t} : mem'[u] = mem[u],
             disk' \in [Blocks -> Values]
      PROVE IInv'
  <2>1. req[t] \in Asks /\ i[t] \in 0..MaxBlks /\ i[t] < req[t].nblks
    BY <1>0, <1>5 DEF Served, TypeOK
  <2>2. i[t] + 1 \in 0..MaxBlks /\ i[t] + 1 <= req[t].nblks
    BY <2>1, AskShape
  <2>3. (count[t] + len[t]) % Word \in 0..(Word - 1)
    <3>1. count[t] + len[t] \in Int
      BY <1>0 DEF TypeOK
    <3> QED
      BY <3>1, ModRange
  <2>4. TypeOK'
    BY <1>0, <1>5, <2>2, <2>3 DEF TypeOK, EndTransfer, Goto
  <2>5. Exclusive' /\ NotCancelled'
    BY <1>0, <1>5 DEF TypeOK, EndTransfer, Goto, Exclusive, Held, NotCancelled
  <2>6. Served'
    BY <1>0, <1>5, <2>1, <2>2 DEF TypeOK, EndTransfer, Goto, Served
  <2>7. Carried'
    BY <1>0, <1>5 DEF TypeOK, EndTransfer, Goto, Carried, Block
  <2> QED
    BY <1>5, <2>4, <2>5, <2>6, <2>7 DEF IInv
<1>6. ASSUME NEW t \in Threads, FillMemory(t) PROVE IInv'
  <2>1. pc[t] = "second" /\ req[t].dir = "in"
    BY <1>6 DEF FillMemory, EndTransfer, Goto
  <2>2. DOMAIN mem' = Threads /\ \A u \in Threads \ {t} : mem'[u] = mem[u]
    BY <1>0, <1>6 DEF FillMemory
  <2> QED
    BY <1>0, <1>5, <1>6, <2>1, <2>2 DEF FillMemory, TypeOK
<1>7. ASSUME NEW t \in Threads, WriteFile(t) PROVE IInv'
  <2>1. pc[t] = "second" /\ req[t].dir = "out" /\ req[t] \in Asks
        /\ i[t] < req[t].nblks /\ i[t] \in Nat
    BY <1>0, <1>7 DEF WriteFile, EndTransfer, Goto, Served, TypeOK
  <2>2. devBuf \in Values
    <3>1. Block(t) \in req[t].block..(req[t].block + req[t].nblks - 1)
      BY <2>1, AskShape DEF Block
    <3>2. devBuf = req[t].data[Block(t)]
      BY <1>0, <2>1 DEF Carried
    <3> QED
      BY <2>1, <3>1, <3>2, AskShape
  <2>3. disk' \in [Blocks -> Values]
    BY <1>0, <1>7, <2>2 DEF WriteFile
  <2> QED
    BY <1>0, <1>5, <1>7, <2>1, <2>3 DEF WriteFile, TypeOK
<1>8. ASSUME NEW t \in Threads, FetchMemory(t) PROVE IInv'
  <2>1. /\ pc[t] = "first" /\ req[t].dir = "out" /\ req[t] \in Asks
        /\ i[t] < req[t].nblks /\ i[t] \in Nat /\ mem[t] = req[t].data
    BY <1>0, <1>8 DEF FetchMemory, Goto, Served, Carried, TypeOK
  <2>2. devBuf' = req[t].data[Block(t)] /\ devBuf' \in Values
    <3>1. Block(t) \in req[t].block..(req[t].block + req[t].nblks - 1)
      BY <2>1, AskShape DEF Block
    <3> QED
      BY <1>8, <2>1, <3>1, AskShape DEF FetchMemory
  <2>3. TypeOK'
    BY <1>0, <1>8, <2>2 DEF TypeOK, FetchMemory, Goto
  <2>4. Exclusive' /\ NotCancelled' /\ (DOMAIN mem = Threads /\ disk \in [Blocks -> Values])'
    BY <1>0, <1>8 DEF TypeOK, FetchMemory, Goto, Exclusive, Held, NotCancelled
  <2>5. Served'
    BY <1>0, <1>8 DEF TypeOK, FetchMemory, Goto, Served
  <2>6. Carried'
    BY <1>0, <1>8, <2>2 DEF TypeOK, FetchMemory, Goto, Carried, Block, Exclusive, Held
  <2> QED
    BY <2>3, <2>4, <2>5, <2>6 DEF IInv
<1>9. ASSUME NEW t \in Threads, Complete(t) PROVE IInv'
  <2>1. TypeOK'
    BY <1>0, <1>9 DEF TypeOK, Complete, Goto
  <2>2. Exclusive' /\ NotCancelled' /\ (DOMAIN mem = Threads /\ disk \in [Blocks -> Values])'
    BY <1>0, <1>9 DEF TypeOK, Complete, Goto, Exclusive, Held, NotCancelled
  <2>3. Served' /\ Carried'
    BY <1>0, <1>9 DEF TypeOK, Complete, Goto, Served, Carried, Block
  <2> QED
    BY <2>1, <2>2, <2>3 DEF IInv
<1>10. ASSUME NEW t \in Threads, Unlock(t) PROVE IInv'
  <2>1. TypeOK'
    BY <1>0, <1>10 DEF TypeOK, Unlock, Goto
  <2>2. Exclusive' /\ NotCancelled' /\ (DOMAIN mem = Threads /\ disk \in [Blocks -> Values])'
    BY <1>0, <1>10 DEF TypeOK, Unlock, Goto, Exclusive, Held, NotCancelled
  <2>3. Served' /\ Carried'
    BY <1>0, <1>10 DEF TypeOK, Unlock, Goto, Served, Carried, Block
  <2> QED
    BY <2>1, <2>2, <2>3 DEF IInv
<1>11. CASE UNCHANGED vars
  BY <1>0, <1>11 DEF vars, IInv, TypeOK, Exclusive, Held, Served, Carried, Block,
                     NotCancelled
<1> QED
  BY <1>1, <1>2, <1>3, <1>4, <1>6, <1>7, <1>8, <1>9, <1>10, <1>11
     DEF Next, Serve, Finished

-----------------------------------------------------------------------------
(* The theorems.                                                           *)

LEMMA Invariance == Spec => []IInv
<1> QED
  BY InitInv, NextInv, PTL DEF Spec

\* The types of the driver's variables, whatever the host does and whatever
\* blocks are asked for.
THEOREM TypeCorrect == Spec => []TypeOK
<1>1. IInv => TypeOK
  BY DEF IInv
<1> QED
  BY <1>1, Invariance, PTL

\* doAsyncReadWrite() never calls cancel() for a transfer out of bounds, for
\* any request at all, on a file of any size, the empty one too, of which a
\* block more still fits a word: the test that guards the call cannot be true.
THEOREM NeverCancels == Unwrapped /\ Spec => [](\A t \in Threads : pc[t] # "cancelled")
<1>1. Unwrapped /\ IInv => \A t \in Threads : pc[t] # "cancelled"
  BY DEF IInv, NotCancelled
<1>2. CASE Unwrapped
  <2>1. IInv => \A t \in Threads : pc[t] # "cancelled"
    BY <1>1, <1>2
  <2> QED
    BY <2>1, Invariance, PTL
<1> QED
  BY <1>2

\* For the sizes left over, the -1 of a qc_size_file() that fails among them, the
\* check stops the kernel at the first block of the disk, which is none.
THEOREM CancelsAtFirst ==
  ~Unwrapped /\ Spec =>
    [][\A t \in Threads :
         Measure(t) /\ i[t] < req[t].nblks /\ Block(t) = 0 => pc'[t] = "cancelled"]_vars
<1> DEFINE Cancels == \A t \in Threads :
             Measure(t) /\ i[t] < req[t].nblks /\ Block(t) = 0 => pc'[t] = "cancelled"
<1>1. ASSUME ~Unwrapped, IInv PROVE Cancels
  <2> SUFFICES ASSUME NEW t \in Threads, Measure(t), i[t] < req[t].nblks, Block(t) = 0
               PROVE  pc'[t] = "cancelled"
    OBVIOUS
  <2>1. Beyond(Offset(Block(t)), Length(Offset(Block(t))))
    BY <1>1, CheckFires
  <2>2. pc' = [pc EXCEPT ![t] = "cancelled"]
    BY <2>1 DEF Measure, Goto
  <2> QED
    BY <1>1, <2>2 DEF IInv, TypeOK
<1>2. CASE ~Unwrapped
  <2>1. IInv /\ [Next]_vars => [Cancels]_vars
    BY <1>1, <1>2
  <2> QED
    BY <2>1, Invariance, PTL DEF Spec
<1> QED
  BY <1>2

\* doAsyncReadWrite() writes to the file, under the mutex, the data of the
\* request being served in the block it belongs to, although the data passes
\* through a buffer that all requests of the device share.
THEOREM OwnDataWritten == Spec => WritesOwnData
<1> DEFINE Own == disk' # disk =>
             \E t \in Threads :
               /\ holder = t /\ req[t].dir = "out"
               /\ disk' = [disk EXCEPT ![Block(t)] = req[t].data[Block(t)]]
<1>1. IInv /\ [Next]_vars => Own
  <2> SUFFICES ASSUME IInv, [Next]_vars, disk' # disk PROVE Own
    OBVIOUS
  <2>1. PICK t \in Threads : WriteFile(t)
    BY DEF Next, Finished, Serve, Call, Lock, Measure, ReadFile, FillMemory,
           FetchMemory, Complete, Unlock, vars
  <2>2. pc[t] = "second" /\ req[t].dir = "out"
        /\ disk' = [disk EXCEPT ![Block(t)] = devBuf]
    BY <2>1 DEF WriteFile, EndTransfer, Goto
  <2>3. holder = t /\ devBuf = req[t].data[Block(t)]
    BY <2>2 DEF IInv, Exclusive, Held, Carried
  <2> QED
    BY <2>2, <2>3
<1>2. IInv /\ [Next]_vars => [Own]_vars
  BY <1>1
<1> QED
  BY <1>2, Invariance, PTL DEF Spec, WritesOwnData
-----------------------------------------------------------------------------
(* The bytes counted, when no request strays and there is a disk: what a    *)
(* thread has transferred is its request's blocks so far, up to the end of  *)
(* the file.                                                                *)

OnDisk == ~Stray /\ Sized

LEMMA Spread ==
  ASSUME NEW d \in Nat, NEW a \in Int, NEW b \in Int
  PROVE  d * (a + b) = a * d + b * d /\ (a + 1) * d = a * d + d
  OBVIOUS

LEMMA Monotone ==
  ASSUME NEW d \in Nat, NEW a \in Nat, NEW b \in Nat, a <= b PROVE d * a <= d * b
  OBVIOUS

LEMMA Quotient ==
  ASSUME NEW d \in Nat \ {0}, NEW a \in Nat
  PROVE  d * (a \div d) <= a /\ (a >= d => a \div d >= 1) /\ a \div d <= a
  OBVIOUS

LEMMA NoWrap ==
  ASSUME Sized
  PROVE  /\ BlockSize * BlockCount <= FileSize + BlockSize - 1
         /\ BlockCount >= 1 /\ MaxValidBlock = BlockCount - 1
<1> USE BlockDevAssumption DEF Sized, Unwrapped
<1>1. (FileSize + BlockSize - 1) % Word = FileSize + BlockSize - 1
  BY ModSmall
<1>2. BlockCount = (FileSize + BlockSize - 1) \div BlockSize
  BY <1>1 DEF BlockCount
<1>3. /\ BlockSize * BlockCount <= FileSize + BlockSize - 1
      /\ BlockCount >= 1 /\ BlockCount <= FileSize + BlockSize - 1
  BY <1>2, Quotient
<1>4. BlockCount - 1 \in 0..(Word - 1)
  BY <1>3, BlockCountNat
<1> QED
  BY <1>3, <1>4, ModSmall DEF MaxValidBlock

\* The offset of a block of the disk does not wrap, and its length ends it at
\* the end of the file.
LEMMA BlockInFile ==
  ASSUME Sized, NEW b \in Nat, b <= BlockCount - 1
  PROVE  /\ Offset(b) = BlockSize * b /\ BlockSize * b \in Nat
         /\ BlockSize * b < FileSize
         /\ Length(Offset(b)) = Lesser(BlockSize, FileSize - BlockSize * b)
<1> USE BlockDevAssumption DEF Sized, Unwrapped
<1> DEFINE off == BlockSize * b
<1>1. off \in Nat
  OBVIOUS
<1>2. off + BlockSize <= BlockSize * BlockCount
  <2>1. BlockSize * (b + 1) <= BlockSize * BlockCount
    BY Monotone, BlockCountNat
  <2>2. BlockSize * (b + 1) = BlockSize * b + BlockSize
    BY Spread
  <2> QED
    BY <2>1, <2>2
<1>3. off < FileSize
  <2>1. BlockSize * BlockCount \in Int
    BY BlockCountNat
  <2> HIDE DEF off
  <2> QED
    BY <1>1, <1>2, <2>1, NoWrap
<1> HIDE DEF off
<1>4. off % Word = off /\ (off + BlockSize) % Word = off + BlockSize
      /\ (FileSize - off) % Word = FileSize - off
  <2>1. off \in 0..(Word - 1)
    BY <1>1, <1>3
  <2>2. off + BlockSize \in 0..(Word - 1)
    BY <1>1, <1>3
  <2>3. FileSize - off \in 0..(Word - 1)
    BY <1>1, <1>3
  <2> QED
    BY <2>1, <2>2, <2>3, ModSmall
<1>5. Length(off) = Lesser(BlockSize, FileSize - off)
  BY <1>1, <1>3, <1>4 DEF Length, Lesser
<1>6. Offset(b) = off
  BY <1>4 DEF Offset, off
<1> QED
  BY <1>1, <1>3, <1>5, <1>6 DEF off

\* The bytes of the first n blocks of request r that are in the file.
Bytes(r, n) == Lesser(n * BlockSize, FileSize - r.block * BlockSize)

LEMMA NextBytes ==
  ASSUME OnDisk, NEW r \in Asks, NEW n \in Nat, n < r.nblks
  PROVE  LET m == Length(Offset(r.block + n)) IN
         (Bytes(r, n) + m) % Word = Bytes(r, n + 1)
<1> USE BlockDevAssumption DEF Sized, Unwrapped
<1>1. r.block \in Nat /\ r.nblks \in Nat /\ r.block + r.nblks - 1 <= BlockCount - 1
  <2>1. PICK dir \in {"in", "out"}, s \in Spans : r \in AsksFor(dir, s)
    BY DEF Asks
  <2>2. s[1] + s[2] - 1 <= MaxValidBlock /\ r.block = s[1] /\ r.nblks = s[2]
    BY <2>1 DEF Spans, AsksFor, LastBlock, OnDisk
  <2> QED
    BY <2>2, AskShape, NoWrap DEF OnDisk
<1> DEFINE b == r.block + n
           at == r.block * BlockSize
           done == n * BlockSize
<1>2. b \in Nat /\ b <= BlockCount - 1
  BY <1>1, BlockCountNat
<1>3. at \in Nat /\ done \in Nat /\ BlockSize * b = at + done
      /\ (n + 1) * BlockSize = done + BlockSize
  BY <1>1, Spread
<1>4. at + done < FileSize /\ Length(Offset(b)) = Lesser(BlockSize, FileSize - (at + done))
  BY <1>2, <1>3, BlockInFile DEF OnDisk
<1>5. Bytes(r, n) = Lesser(done, FileSize - at)
      /\ Bytes(r, n + 1) = Lesser(done + BlockSize, FileSize - at)
  BY <1>3 DEF Bytes
<1> HIDE DEF at, done
<1>6. Bytes(r, n) + Length(Offset(b)) = Bytes(r, n + 1) /\ Bytes(r, n + 1) \in 0..(Word - 1)
  BY <1>3, <1>4, <1>5 DEF Lesser
<1> QED
  BY <1>6, ModSmall

Counting ==
  \A t \in Threads :
    /\ pc[t] \in {"loop", "first", "second", "complete"} => count[t] = Bytes(req[t], i[t])
    /\ pc[t] \in {"first", "second"} => len[t] = Length(Offset(Block(t)))
    /\ pc[t] = "complete" => i[t] = req[t].nblks

LEMMA NoBytes ==
  ASSUME OnDisk, NEW r \in Asks PROVE Bytes(r, 0) = 0
<1> USE BlockDevAssumption DEF Sized, Unwrapped
<1>1. r.block \in Nat /\ r.block <= BlockCount - 1
  <2>1. PICK dir \in {"in", "out"}, s \in Spans : r \in AsksFor(dir, s)
    BY DEF Asks
  <2>2. s[1] + s[2] - 1 <= MaxValidBlock /\ r.block = s[1] /\ r.nblks = s[2]
    BY <2>1 DEF Spans, AsksFor, LastBlock, OnDisk
  <2>3. r.block \in Nat /\ r.nblks \in Nat \ {0}
    BY AskShape
  <2>4. MaxValidBlock = BlockCount - 1
    BY NoWrap DEF OnDisk
  <2> QED
    BY <2>2, <2>3, <2>4, BlockCountNat
<1>2. r.block * BlockSize \in Nat /\ r.block * BlockSize < FileSize
  <2>1. r.block * BlockSize = BlockSize * r.block
    BY <1>1
  <2> QED
    BY <1>1, <2>1, BlockInFile DEF OnDisk
<1> QED
  BY <1>2 DEF Bytes, Lesser

LEMMA CountingStep ==
  ASSUME OnDisk, IInv, Counting, [Next]_vars PROVE Counting'
<1>0. TypeOK /\ Served
  BY DEF IInv
<1>1. ASSUME NEW t \in Threads, Call(t) \/ Complete(t) \/ Unlock(t) PROVE Counting'
  BY <1>0, <1>1 DEF Call, Complete, Unlock, Goto, Counting, TypeOK, Block
<1>2. ASSUME NEW t \in Threads, Lock(t) PROVE Counting'
  <2>1. req[t] \in Asks
    BY <1>0, <1>2 DEF Lock, Goto, Served
  <2>2. Bytes(req[t], 0) = 0
    BY <2>1, NoBytes
  <2> QED
    BY <1>0, <1>2, <2>2 DEF Lock, Goto, Counting, TypeOK, Block
<1>3. ASSUME NEW t \in Threads, Measure(t) PROVE Counting'
  <2>1. /\ pc[t] = "loop" /\ req[t] \in Asks /\ i[t] <= req[t].nblks /\ i[t] \in Nat
        /\ UNCHANGED <<req, i, count>>
    BY <1>0, <1>3 DEF Measure, Served, TypeOK
  <2>2. CASE i[t] < req[t].nblks
    <3>1. /\ pc' \in {[pc EXCEPT ![t] = x] : x \in {"first", "cancelled"}}
          /\ len' = [len EXCEPT ![t] = Length(Offset(Block(t)))]
      BY <1>3, <2>2 DEF Measure, Goto
    <3> QED
      BY <1>0, <2>1, <3>1 DEF Counting, TypeOK, Block
  <2>3. CASE ~(i[t] < req[t].nblks)
    <3>1. pc' = [pc EXCEPT ![t] = "complete"] /\ len' = len
      BY <1>3, <2>3 DEF Measure, Goto
    <3>2. i[t] = req[t].nblks
      BY <2>1, <2>3, AskShape
    <3> QED
      BY <1>0, <2>1, <3>1, <3>2 DEF Counting, TypeOK, Block
  <2> QED
    BY <2>2, <2>3
<1>4. ASSUME NEW t \in Threads, ReadFile(t) \/ FetchMemory(t) PROVE Counting'
  BY <1>0, <1>4 DEF ReadFile, FetchMemory, Goto, Counting, TypeOK, Block
<1>5. ASSUME NEW t \in Threads, FillMemory(t) \/ WriteFile(t) PROVE Counting'
  <2>1. /\ pc[t] = "second" /\ pc' = [pc EXCEPT ![t] = "loop"]
        /\ i' = [i EXCEPT ![t] = i[t] + 1]
        /\ count' = [count EXCEPT ![t] = (count[t] + len[t]) % Word]
        /\ UNCHANGED <<req, len>>
    BY <1>5 DEF FillMemory, WriteFile, EndTransfer, Goto
  <2>2. req[t] \in Asks /\ i[t] \in Nat /\ i[t] < req[t].nblks
    BY <1>0, <2>1 DEF Served, TypeOK
  <2>3. (count[t] + len[t]) % Word = Bytes(req[t], i[t] + 1)
    BY <2>1, <2>2, NextBytes DEF Counting, Block
  <2> QED
    BY <1>0, <2>1, <2>3 DEF Counting, TypeOK, Block
<1>6. CASE UNCHANGED vars
  BY <1>6 DEF vars, Counting, Block
<1> QED
  BY <1>1, <1>2, <1>3, <1>4, <1>5, <1>6 DEF Next, Serve, Finished

\* The completion of doAsyncReadWrite() reports the bytes of the request that
\* are in the file, for every size of block, every size of file that leaves a
\* disk (Sized), and every request that lies on the disk.
THEOREM CountedRight == OnDisk /\ Spec => []RightCount
<1>1. Init => Counting
  BY DEF Init, Counting
<1>2. OnDisk /\ IInv /\ Counting /\ [Next]_vars => Counting'
  BY CountingStep
<1>3. Counting => RightCount
  BY DEF Counting, RightCount, Bytes
<1>4. CASE ~OnDisk
  BY <1>4
<1>5. CASE OnDisk
  <2>1. IInv /\ Counting /\ [Next]_vars => Counting'
    BY <1>2, <1>5
  <2> QED
    BY <1>1, <1>3, <2>1, Invariance, PTL DEF Spec
<1> QED
  BY <1>4, <1>5
-----------------------------------------------------------------------------
(* The refinement of the atomic disk, when no request strays.  While a      *)
(* thread is Busy nobody else is, so that what the disk holds and what the  *)
(* requests have been answered follow from its progress alone.              *)

Of(r) == r.block..(r.block + r.nblks - 1)

\* The disk as it counts once request r has taken effect and the blocks from n
\* on are still to be transferred.
Taken(d, r, n) ==
  [b \in Blocks |-> IF r.dir = "out" /\ b \in n..(r.block + r.nblks - 1)
                    THEN r.data[b] ELSE d[b]]

View ==
  /\ \A t \in Threads : Busy(t) => store = Taken(disk, req[t], Block(t))
  /\ (\A t \in Threads : ~Busy(t)) => store = disk

LEMMA Alone == IInv => \A t, u \in Threads : Busy(t) /\ Busy(u) => t = u
BY DEF IInv, Exclusive, Held, Busy

LEMMA Viewed == IInv => View
<1> SUFFICES ASSUME IInv PROVE View
  OBVIOUS
<1>1. ASSUME NEW t \in Threads, Busy(t) PROVE store = Taken(disk, req[t], Block(t))
  <2>1. \A u \in Threads : Busy(u) <=> u = t
    BY <1>1, Alone
  <2>2. (CHOOSE u \in Threads : Busy(u)) = t
    BY <2>1
  <2> HIDE DEF Busy
  <2>3. \A b \in Blocks :
          (\E u \in Threads : Busy(u) /\ req[u].dir = "out"
                              /\ b \in Block(u)..(req[u].block + req[u].nblks - 1))
          <=> (req[t].dir = "out" /\ b \in Block(t)..(req[t].block + req[t].nblks - 1))
    BY <2>1
  <2> QED
    BY <2>2, <2>3 DEF store, Taken
<1>2. ASSUME \A t \in Threads : ~Busy(t) PROVE store = disk
  <2>1. store = [b \in Blocks |-> disk[b]]
    BY <1>2 DEF store
  <2>2. disk \in [Blocks -> Values]
    BY DEF IInv
  <2> QED
    BY <2>1, <2>2
<1> QED
  BY <1>1, <1>2 DEF View

\* What a request asks for is on the disk.
LEMMA AskInside ==
  ASSUME OnDisk, NEW r \in Asks
  PROVE  /\ Of(r) \subseteq Blocks /\ DOMAIN r.data = Of(r)
         /\ r.data \in [Of(r) -> Values \cup {None}]
<1>1. PICK dir \in {"in", "out"}, s \in Spans : r \in AsksFor(dir, s)
  BY DEF Asks
<1>2. /\ s[1] + s[2] - 1 <= MaxValidBlock /\ r.block = s[1] /\ r.nblks = s[2]
      /\ r.dir = dir /\ r.data \in DataOf(dir, s[1]..(s[1] + s[2] - 1))
  BY <1>1 DEF Spans, AsksFor, LastBlock, OnDisk
<1>3. r.data \in DataOf(r.dir, Of(r))
  BY <1>2 DEF Of
<1>4. r.data \in [Of(r) -> Values \cup {None}]
  BY <1>3 DEF DataOf
<1>5. r.block \in Nat /\ r.nblks \in Nat /\ MaxValidBlock = BlockCount - 1
  BY AskShape, NoWrap DEF OnDisk
<1>6. Of(r) \subseteq Blocks
  BY <1>2, <1>5, BlockCountNat DEF Of, Blocks
<1> QED
  BY <1>4, <1>6

Progress ==
  \A t \in Threads :
    /\ pc[t] \in {"idle", "unlock"} => req[t] = None
    /\ pc[t] = "complete" => i[t] = req[t].nblks
    /\ pc[t] \in {"lock", "loop", "first", "second", "complete"} =>
         mem[t] \in [Of(req[t]) -> Values \cup {None}]
    /\ ~failed /\ pc[t] = "second" /\ req[t].dir = "in" => devBuf = disk[Block(t)]

LEMMA ProgressStep ==
  ASSUME OnDisk, IInv, Progress, [Next]_vars PROVE Progress'
<1>0. TypeOK /\ Served /\ Exclusive /\ DOMAIN mem = Threads
  BY DEF IInv
<1>1. ASSUME NEW t \in Threads, Call(t) PROVE Progress'
  <2>1. PICK r \in Asks : /\ req' = [req EXCEPT ![t] = r]
                         /\ mem' = [mem EXCEPT ![t] = r.data]
    BY <1>1 DEF Call
  <2>2. r.data \in [Of(r) -> Values \cup {None}]
    BY AskInside
  <2>3. req'[t] = r /\ mem'[t] = r.data /\ pc'[t] = "lock"
    BY <1>0, <1>1, <2>1 DEF TypeOK, Call, Goto
  <2>4. ASSUME NEW u \in Threads \ {t}
        PROVE  /\ req'[u] = req[u] /\ mem'[u] = mem[u] /\ pc'[u] = pc[u]
               /\ i'[u] = i[u] /\ devBuf' = devBuf /\ disk' = disk /\ failed' = failed
    BY <1>0, <1>1, <2>1 DEF TypeOK, Call, Goto
  <2> QED
    BY <2>2, <2>3, <2>4 DEF Progress, Block
<1>2. ASSUME NEW t \in Threads, Lock(t) PROVE Progress'
  BY <1>0, <1>2 DEF Lock, Goto, Progress, TypeOK, Block
<1>3. ASSUME NEW t \in Threads, Measure(t) PROVE Progress'
  <2>1. /\ pc[t] = "loop" /\ req[t] \in Asks /\ i[t] <= req[t].nblks /\ i[t] \in Nat
        /\ UNCHANGED <<req, i, mem, devBuf, disk, failed>>
        /\ \/ pc' \in {[pc EXCEPT ![t] = x] : x \in {"first", "cancelled"}}
           \/ pc' = [pc EXCEPT ![t] = "complete"] /\ ~(i[t] < req[t].nblks)
    BY <1>0, <1>3 DEF Measure, Goto, Served, TypeOK
  <2>2. pc'[t] = "complete" => i[t] = req[t].nblks
    BY <1>0, <2>1, AskShape DEF TypeOK
  <2> QED
    BY <1>0, <2>1, <2>2 DEF Progress, TypeOK, Block
<1>4. ASSUME NEW t \in Threads, ReadFile(t) PROVE Progress'
  <2>1. /\ pc[t] = "first" /\ pc' = [pc EXCEPT ![t] = "second"]
        /\ req[t] \in Asks /\ i[t] < req[t].nblks /\ i[t] \in Nat
        /\ UNCHANGED <<req, i, mem, disk>>
    BY <1>0, <1>4 DEF ReadFile, Goto, Served, TypeOK
  <2>2. Block(t) \in Blocks
    <3>1. Block(t) \in Of(req[t])
      BY <2>1, AskShape DEF Block, Of
    <3> QED
      BY <2>1, <3>1, AskInside
  <2>3. ~failed' => devBuf' = disk[Block(t)]
    BY <1>4, <2>2 DEF ReadFile
  <2>4. \A u \in Threads \ {t} : pc[u] # "second"
    BY <1>0, <2>1 DEF Exclusive, Held
  <2> QED
    BY <1>0, <2>1, <2>3, <2>4 DEF Progress, TypeOK, Block
<1>5. ASSUME NEW t \in Threads, FetchMemory(t) PROVE Progress'
  <2>1. /\ pc[t] = "first" /\ pc' = [pc EXCEPT ![t] = "second"] /\ req[t].dir = "out"
        /\ UNCHANGED <<req, i, mem, disk, failed>>
    BY <1>5 DEF FetchMemory, Goto
  <2>2. \A u \in Threads \ {t} : pc[u] # "second"
    BY <1>0, <2>1 DEF Exclusive, Held
  <2> QED
    BY <1>0, <2>1, <2>2 DEF Progress, TypeOK, Block
<1>6. ASSUME NEW t \in Threads, FillMemory(t) \/ WriteFile(t) PROVE Progress'
  <2>1. /\ pc[t] = "second" /\ pc' = [pc EXCEPT ![t] = "loop"]
        /\ i' = [i EXCEPT ![t] = i[t] + 1] /\ UNCHANGED req
        /\ mem' = mem \/ mem' = [mem EXCEPT ![t][Block(t)] = devBuf]
    BY <1>6 DEF FillMemory, WriteFile, EndTransfer, Goto
  <2>2. mem'[t] \in [Of(req[t]) -> Values \cup {None}]
    <3>1. devBuf \in Values \cup {None} /\ mem[t] \in [Of(req[t]) -> Values \cup {None}]
      BY <1>0, <2>1 DEF TypeOK, Progress
    <3>2. mem'[t] = mem[t] \/ mem'[t] = [mem[t] EXCEPT ![Block(t)] = devBuf]
      BY <1>0, <2>1
    <3> QED
      BY <3>1, <3>2
  <2>3. \A u \in Threads \ {t} : pc[u] # "second" /\ mem'[u] = mem[u]
    BY <1>0, <2>1 DEF Exclusive, Held
  <2> QED
    BY <1>0, <2>1, <2>2, <2>3 DEF Progress, TypeOK
<1>7. ASSUME NEW t \in Threads, Complete(t) PROVE Progress'
  BY <1>0, <1>7 DEF Complete, Goto, Progress, TypeOK, Block
<1>8. ASSUME NEW t \in Threads, Unlock(t) PROVE Progress'
  <2>1. /\ pc[t] = "unlock" /\ pc' = [pc EXCEPT ![t] = "idle"]
        /\ mem' = [mem EXCEPT ![t] = None]
        /\ UNCHANGED <<req, i, devBuf, disk, failed>>
    BY <1>8 DEF Unlock, Goto
  <2>2. \A u \in Threads \ {t} : mem'[u] = mem[u] /\ pc'[u] = pc[u]
    BY <1>0, <2>1 DEF TypeOK
  <2>3. pc'[t] = "idle"
    BY <1>0, <2>1 DEF TypeOK
  <2> QED
    BY <2>1, <2>2, <2>3 DEF Progress, Block
<1>9. CASE UNCHANGED vars
  BY <1>9 DEF vars, Progress, Block
<1> QED
  BY <1>1, <1>2, <1>3, <1>4, <1>5, <1>6, <1>7, <1>8, <1>9 DEF Next, Serve, Finished

\* A thread that is not serving a request leaves the answers of others alone.
LEMMA AnswerOf ==
  ASSUME NEW t \in Threads
  PROVE  /\ ~Busy(t) => answer[t] = None
         /\ Busy(t) /\ req[t].dir = "out" => answer[t] = req[t].data
         /\ Busy(t) /\ req[t].dir = "in" =>
              answer[t] = [b \in DOMAIN req[t].data |->
                             IF b < Block(t) THEN mem[t][b] ELSE disk[b]]
BY DEF answer

LEMMA Answered ==
  ASSUME OnDisk, IInv, Progress, NEW t \in Threads, Busy(t) PROVE answer[t] # None
<1>1. /\ req[t] \in Asks /\ mem[t] \in [Of(req[t]) -> Values \cup {None}]
      /\ disk \in [Blocks -> Values]
  BY DEF Busy, IInv, Served, Progress
<1>2. /\ Of(req[t]) \subseteq Blocks /\ DOMAIN req[t].data = Of(req[t])
      /\ req[t].data \in [Of(req[t]) -> Values \cup {None}]
  BY <1>1, AskInside
<1>3. answer[t] \in [Of(req[t]) -> Values \cup {None}]
  <2>1. CASE req[t].dir = "out"
    BY <1>2, <2>1, AnswerOf
  <2>2. CASE req[t].dir = "in"
    <3>1. answer[t] = [b \in Of(req[t]) |-> IF b < Block(t) THEN mem[t][b] ELSE disk[b]]
      BY <1>2, <2>2, AnswerOf
    <3> QED
      BY <1>1, <1>2, <3>1
  <2> QED
    BY <1>1, <2>1, <2>2, AskShape
<1> QED
  BY <1>2, <1>3, NoneAssumption

\* What the steps have in common: nobody else is served, before or after.
LEMMA OthersWait ==
  ASSUME IInv, IInv', NEW t \in Threads, Held(t) \/ Held(t)', NEW u \in Threads \ {t}
  PROVE  (Held(t) => ~Busy(u)) /\ (Held(t)' => ~Busy(u)')
BY DEF IInv, Exclusive, Held, Busy

\* A step that changes neither who is served nor the file, nor the progress of
\* anybody, is not seen.
LEMMA Unseen ==
  ASSUME IInv, IInv', View, View', UNCHANGED <<req, disk>>,
         \A t \in Threads : Busy(t)' <=> Busy(t),
         \A t \in Threads : Busy(t) => i'[t] = i[t] /\ mem'[t] = mem[t]
  PROVE  UNCHANGED <<store, req, answer>>
<1>1. ASSUME NEW t \in Threads, Busy(t) PROVE Block(t)' = Block(t)
  BY <1>1 DEF Block
<1>2. store' = store
  <2>1. CASE \E t \in Threads : Busy(t)
    <3>1. PICK t \in Threads : Busy(t)
      BY <2>1
    <3>2. store = Taken(disk, req[t], Block(t))
      BY <3>1 DEF View
    <3>3. store' = Taken(disk', req'[t], Block(t)')
      BY <3>1 DEF View
    <3> QED
      BY <1>1, <3>1, <3>2, <3>3
  <2>2. CASE \A t \in Threads : ~Busy(t)
    BY <2>2 DEF View
  <2> QED
    BY <2>1, <2>2
<1>3. ASSUME NEW t \in Threads PROVE answer'[t] = answer[t]
  <2>1. CASE Busy(t)
    <3>1. Block(t)' = Block(t) /\ Busy(t)' /\ mem'[t] = mem[t] /\ req'[t] = req[t]
      BY <1>1, <2>1
    <3> QED
      BY <2>1, <3>1 DEF answer
  <2>2. CASE ~Busy(t)
    BY <2>2 DEF answer
  <2> QED
    BY <2>1, <2>2
<1>4. answer' = answer
  BY <1>3 DEF answer
<1> QED
  BY <1>2, <1>4

LEMMA StepRefines ==
  ASSUME OnDisk, IInv, IInv', Progress, Progress', View, View', [Next]_vars, ~failed'
  PROVE  [D!Next]_(D!vars)
<1>0. TypeOK /\ Served /\ Exclusive /\ DOMAIN mem = Threads
  BY DEF IInv
<1>1. ASSUME NEW t \in Threads, Call(t) PROVE D!Ask(t)
  <2>1. PICK r \in Asks : /\ req' = [req EXCEPT ![t] = r]
                         /\ mem' = [mem EXCEPT ![t] = r.data]
    BY <1>1 DEF Call
  <2>2. /\ pc[t] = "idle" /\ pc' = [pc EXCEPT ![t] = "lock"]
        /\ UNCHANGED <<i, count, len, devBuf, holder, disk, failed>>
    BY <1>1 DEF Call, Goto
  <2>3. req[t] = None /\ ~Busy(t) /\ ~Busy(t)'
    BY <1>0, <2>2 DEF Progress, Busy, TypeOK
  <2>4. ASSUME NEW u \in Threads \ {t}
        PROVE  /\ req'[u] = req[u] /\ mem'[u] = mem[u] /\ Busy(u)' = Busy(u)
               /\ Block(u)' = Block(u)
    BY <1>0, <2>1, <2>2 DEF TypeOK, Busy, Block
  <2>5. store' = store
    <3>1. CASE \E u \in Threads : Busy(u)
      <4>1. PICK u \in Threads \ {t} : Busy(u)
        BY <2>3, <3>1
      <4>2. Busy(u)' /\ req'[u] = req[u] /\ Block(u)' = Block(u)
        BY <2>4, <4>1
      <4>3. store = Taken(disk, req[u], Block(u))
        BY <4>1 DEF View
      <4>4. store' = Taken(disk', req'[u], Block(u)')
        BY <4>2 DEF View
      <4> QED
        BY <2>2, <4>2, <4>3, <4>4
    <3>2. CASE \A u \in Threads : ~Busy(u)
      <4>1. \A u \in Threads : ~Busy(u)'
        BY <2>3, <2>4, <3>2
      <4> QED
        BY <2>2, <3>2, <4>1 DEF View
    <3> QED
      BY <3>1, <3>2
  <2>6. ASSUME NEW u \in Threads PROVE answer'[u] = answer[u]
    <3>1. CASE u = t
      BY <2>3, <3>1 DEF answer
    <3>2. CASE u # t
      <4>1. /\ req'[u] = req[u] /\ mem'[u] = mem[u] /\ Busy(u)' = Busy(u)
            /\ Block(u)' = Block(u) /\ disk' = disk
        BY <2>2, <2>4, <3>2
      <4> QED
        BY <4>1 DEF answer
    <3> QED
      BY <3>1, <3>2
  <2>7. answer' = answer
    BY <2>6 DEF answer
  <2> QED
    BY <2>1, <2>3, <2>5, <2>7 DEF D!Ask
<1>2. ASSUME NEW t \in Threads, Lock(t) PROVE D!Read(t) \/ D!Write(t)
  <2>1. /\ pc[t] = "lock" /\ pc' = [pc EXCEPT ![t] = "loop"] /\ holder = None
        /\ i' = [i EXCEPT ![t] = 0]
        /\ UNCHANGED <<req, mem, len, devBuf, disk, failed, made>>
    BY <1>2 DEF Lock, Goto
  <2>2. req[t] \in Asks /\ req[t] # None
    BY <1>0, <2>1, NoneAssumption DEF Served
  <2>3. \A u \in Threads : ~Busy(u)
    BY <1>0, <2>1, BlockDevAssumption DEF Exclusive, Held, Busy
  <2>4. Busy(t)' /\ Block(t)' = req[t].block /\ \A u \in Threads \ {t} : ~Busy(u)'
    <3>1. pc'[t] = "loop" /\ i'[t] = 0 /\ \A u \in Threads \ {t} : pc'[u] = pc[u]
      BY <1>0, <2>1 DEF TypeOK
    <3>2. req[t].block + 0 = req[t].block
      BY <2>2, AskShape
    <3> QED
      BY <2>1, <2>3, <3>1, <3>2 DEF Busy, Block
  <2>5. store = disk /\ store' = Taken(disk, req[t], req[t].block)
    <3>1. store' = Taken(disk', req'[t], Block(t)')
      BY <2>4 DEF View
    <3> QED
      BY <2>1, <2>3, <2>4, <3>1 DEF View
  <2>6. /\ Of(req[t]) \subseteq Blocks /\ DOMAIN req[t].data = Of(req[t])
        /\ disk \in [Blocks -> Values]
    BY <2>2, AskInside DEF IInv
  <2>7. answer = [u \in Threads |-> None]
    BY <2>3 DEF answer
  <2>8. \A u \in Threads \ {t} : answer'[u] = None
    BY <2>4 DEF answer
  <2>9. CASE req[t].dir = "in"
    <3>1. store' = store
      BY <2>5, <2>6, <2>9 DEF Taken
    <3>2. answer'[t] = [b \in D!Span(req[t]) |-> store[b]]
      <4>1. answer'[t] = [b \in DOMAIN req[t].data |->
                            IF b < req[t].block THEN mem'[t][b] ELSE disk[b]]
        BY <2>1, <2>4, <2>9 DEF answer
      <4>2. \A b \in Of(req[t]) : ~(b < req[t].block)
        BY <2>2, AskShape DEF Of
      <4> QED
        BY <2>5, <2>6, <4>1, <4>2 DEF Of, D!Span
    <3>3. answer' = [answer EXCEPT ![t] = [b \in D!Span(req[t]) |-> store[b]]]
      <4> DEFINE new == [b \in D!Span(req[t]) |-> store[b]]
      <4>1. answer'[t] = new /\ answer' = [u \in Threads |-> answer'[u]]
        BY <3>2 DEF answer
      <4> HIDE DEF new
      <4>2. answer' = [answer EXCEPT ![t] = new]
        BY <2>7, <2>8, <4>1
      <4> QED
        BY <4>2 DEF new
    <3> QED
      BY <2>1, <2>2, <2>7, <2>9, <3>1, <3>3 DEF D!Read
  <2>10. CASE req[t].dir = "out"
    <3>1. store' = [b \in Blocks |-> IF b \in D!Span(req[t]) THEN req[t].data[b]
                                     ELSE store[b]]
      BY <2>5, <2>10 DEF Taken, D!Span
    <3>2. answer'[t] = req[t].data /\ answer' = [u \in Threads |-> answer'[u]]
      BY <2>1, <2>4, <2>10 DEF answer
    <3>3. answer' = [answer EXCEPT ![t] = req[t].data]
      BY <2>7, <2>8, <3>2
    <3> QED
      BY <2>1, <2>2, <2>7, <2>10, <3>1, <3>3 DEF D!Write
  <2> QED
    BY <2>2, <2>9, <2>10, AskShape
<1>3. ASSUME NEW t \in Threads, Measure(t) \/ ReadFile(t) \/ FetchMemory(t) \/ Unlock(t)
      PROVE  UNCHANGED D!vars
  <2>1. UNCHANGED <<req, i, disk>>
    BY <1>3 DEF Measure, ReadFile, FetchMemory, Unlock
  <2>2. ASSUME NEW u \in Threads PROVE Busy(u)' <=> Busy(u)
    <3>1. \/ /\ pc[t] \in {"loop", "first"}
             /\ pc' \in {[pc EXCEPT ![t] = x] : x \in {"first", "second", "complete", "cancelled"}}
          \/ pc[t] = "unlock" /\ pc' = [pc EXCEPT ![t] = "idle"]
      BY <1>3 DEF Measure, ReadFile, FetchMemory, Unlock, Goto
    <3>2. pc'[t] # "cancelled"
      BY DEF IInv, NotCancelled, OnDisk, Sized
    <3> QED
      BY <1>0, <3>1, <3>2 DEF TypeOK, Busy
  <2>3. ASSUME NEW u \in Threads, Busy(u) PROVE i'[u] = i[u] /\ mem'[u] = mem[u]
    <3>1. mem' = mem \/ (pc[t] = "unlock" /\ mem' = [mem EXCEPT ![t] = None])
      BY <1>3 DEF Measure, ReadFile, FetchMemory, Unlock, Goto
    <3> QED
      BY <1>0, <2>1, <2>3, <3>1 DEF Busy
  <2>4. UNCHANGED <<store, req, answer>>
    BY <2>1, <2>2, <2>3, Unseen
  <2> QED
    BY <2>4 DEF D!vars
<1>4. ASSUME NEW t \in Threads, FillMemory(t) \/ WriteFile(t) PROVE UNCHANGED D!vars
  <2>1. /\ pc[t] = "second" /\ pc' = [pc EXCEPT ![t] = "loop"]
        /\ i' = [i EXCEPT ![t] = i[t] + 1] /\ UNCHANGED <<req, devBuf>>
        /\ \/ /\ req[t].dir = "in" /\ disk' = disk
              /\ mem' = [mem EXCEPT ![t][Block(t)] = devBuf]
           \/ /\ req[t].dir = "out" /\ mem' = mem
              /\ (disk' = [disk EXCEPT ![Block(t)] = devBuf] \/ failed')
    BY <1>4 DEF FillMemory, WriteFile, EndTransfer, Goto
  <2>2. ~failed
    BY <1>4 DEF FillMemory, WriteFile
  <2>3. /\ req[t] \in Asks /\ i[t] \in Nat /\ i[t] < req[t].nblks
        /\ mem[t] \in [Of(req[t]) -> Values \cup {None}]
        /\ disk \in [Blocks -> Values] /\ Carried
    BY <1>0, <2>1 DEF Served, TypeOK, Progress, IInv
  <2>4. /\ Of(req[t]) \subseteq Blocks /\ DOMAIN req[t].data = Of(req[t])
        /\ req[t].block \in Nat /\ req[t].nblks \in Nat
    BY <2>3, AskInside, AskShape
  <2>5. /\ Block(t) \in Of(req[t]) /\ Block(t)' = Block(t) + 1
        /\ Block(t) \in Int
    <3>1. i'[t] = i[t] + 1
      BY <1>0, <2>1 DEF TypeOK
    <3>2. Block(t) = req[t].block + i[t] /\ Block(t)' = req[t].block + (i[t] + 1)
      BY <2>1, <3>1 DEF Block
    <3>3. Of(req[t]) = req[t].block..(req[t].block + req[t].nblks - 1)
      BY DEF Of
    <3>4. /\ req[t].block + i[t] \in req[t].block..(req[t].block + req[t].nblks - 1)
          /\ req[t].block + (i[t] + 1) = (req[t].block + i[t]) + 1
      BY <2>3, <2>4
    <3> QED
      BY <3>2, <3>3, <3>4
  <2>6. Busy(t) /\ Busy(t)' /\ \A u \in Threads \ {t} : ~Busy(u) /\ ~Busy(u)'
    <3>1. pc'[t] = "loop"
      BY <1>0, <2>1 DEF TypeOK
    <3> QED
      BY <2>1, <3>1, Alone, OthersWait DEF Busy, Held
  <2>7. ASSUME NEW u \in Threads \ {t} PROVE answer[u] = None /\ answer'[u] = None
    BY <2>6 DEF answer
  <2>8. /\ store = Taken(disk, req[t], Block(t))
        /\ store' = Taken(disk', req[t], Block(t) + 1)
    <3>1. store' = Taken(disk', req'[t], Block(t)')
      BY <2>6 DEF View
    <3> QED
      BY <2>1, <2>5, <2>6, <3>1 DEF View
  <2>9. CASE /\ req[t].dir = "in" /\ disk' = disk
             /\ mem' = [mem EXCEPT ![t][Block(t)] = devBuf]
    <3>1. store' = store
      BY <2>8, <2>9 DEF Taken
    <3>2. devBuf = disk[Block(t)]
      BY <2>1, <2>2, <2>9 DEF Progress
    <3>3. mem'[t] = [mem[t] EXCEPT ![Block(t)] = devBuf]
      BY <1>0, <2>9
    <3>4. answer[t] = [b \in Of(req[t]) |-> IF b < Block(t) THEN mem[t][b] ELSE disk[b]]
      BY <2>4, <2>6, <2>9, AnswerOf
    <3>5. answer'[t] = [b \in Of(req[t]) |->
                          IF b < Block(t) + 1 THEN mem'[t][b] ELSE disk[b]]
      <4>1. answer'[t] = [b \in DOMAIN req[t].data |->
                            IF b < Block(t)' THEN mem'[t][b] ELSE disk[b]]
        BY <2>1, <2>6, <2>9 DEF answer
      <4> QED
        BY <2>4, <2>5, <4>1
    <3>6. ASSUME NEW b \in Of(req[t])
          PROVE  (IF b < Block(t) THEN mem[t][b] ELSE disk[b])
                 = (IF b < Block(t) + 1 THEN mem'[t][b] ELSE disk[b])
      <4>1. b \in Int
        BY <2>4 DEF Of
      <4>2. CASE b = Block(t)
        BY <2>3, <2>5, <3>2, <3>3, <4>1, <4>2
      <4>3. CASE b # Block(t)
        BY <2>3, <2>5, <3>3, <4>1, <4>3
      <4> QED
        BY <4>2, <4>3
    <3>7. answer'[t] = answer[t]
      BY <3>4, <3>5, <3>6
    <3>8. answer' = answer
      BY <2>7, <3>7 DEF answer
    <3> QED
      BY <2>1, <3>1, <3>8 DEF D!vars
  <2>10. CASE /\ req[t].dir = "out" /\ mem' = mem
              /\ disk' = [disk EXCEPT ![Block(t)] = devBuf]
    <3>1. devBuf = req[t].data[Block(t)]
      BY <2>1, <2>3, <2>10 DEF Carried
    <3> DEFINE last == req[t].block + req[t].nblks - 1
               data == req[t].data
    <3>2. ASSUME NEW b \in Blocks
          PROVE  (IF b \in Block(t)..last THEN data[b] ELSE disk[b])
                 = (IF b \in (Block(t) + 1)..last THEN data[b] ELSE disk'[b])
      <4>1. b \in Int /\ last \in Int /\ Block(t) <= last
        BY <2>4, <2>5, BlockCountNat DEF Blocks, Of
      <4> HIDE DEF last
      <4>2. CASE b = Block(t)
        <5>1. disk'[b] = data[b]
          BY <2>3, <2>10, <3>1, <4>2
        <5> QED
          BY <2>5, <4>1, <4>2, <5>1
      <4>3. CASE b # Block(t)
        <5>1. disk'[b] = disk[b]
          BY <2>3, <2>10, <4>3
        <5> QED
          BY <2>5, <4>1, <4>3, <5>1
      <4> QED
        BY <4>2, <4>3
    <3>3. store = [b \in Blocks |-> IF b \in Block(t)..last THEN data[b] ELSE disk[b]]
      BY <2>8, <2>10 DEF Taken
    <3>4. store' = [b \in Blocks |->
                      IF b \in (Block(t) + 1)..last THEN data[b] ELSE disk'[b]]
      BY <2>8, <2>10 DEF Taken
    <3> HIDE DEF last, data
    <3>5. store' = store
      BY <3>2, <3>3, <3>4
    <3>6. answer'[t] = answer[t]
      BY <2>1, <2>6, <2>10 DEF answer
    <3>7. answer' = answer
      BY <2>7, <3>6 DEF answer
    <3> QED
      BY <2>1, <3>5, <3>7 DEF D!vars
  <2> QED
    BY <2>1, <2>9, <2>10
<1>5. ASSUME NEW t \in Threads, Complete(t) PROVE D!Hear(t)
  <2>1. /\ pc[t] = "complete" /\ pc' = [pc EXCEPT ![t] = "unlock"]
        /\ req' = [req EXCEPT ![t] = None] /\ disk' = disk
    BY <1>5 DEF Complete, Goto
  <2>2. Busy(t) /\ \A u \in Threads : ~Busy(u)'
    <3>1. pc'[t] = "unlock"
      BY <1>0, <2>1 DEF TypeOK
    <3> QED
      BY <2>1, <3>1, OthersWait DEF Busy, Held
  <2>3. /\ req[t] \in Asks /\ i[t] = req[t].nblks
        /\ req[t].block \in Nat /\ req[t].nblks \in Nat
    BY <1>0, <2>1, AskShape DEF Served, Progress
  <2>4. store = disk
    <3>1. Block(t)..(req[t].block + req[t].nblks - 1) = {}
      BY <2>3 DEF Block
    <3>2. store = [b \in Blocks |-> disk[b]]
      BY <2>2, <3>1 DEF View, Taken
    <3> QED
      BY <3>2 DEF IInv
  <2>5. store' = store
    BY <2>1, <2>2, <2>4 DEF View
  <2>6. answer' = [u \in Threads |-> None]
    BY <2>2 DEF answer
  <2>7. answer' = [answer EXCEPT ![t] = None]
    <3>1. \A u \in Threads \ {t} : answer[u] = None
      BY <2>1, <2>2, OthersWait DEF answer, Held
    <3>2. answer = [u \in Threads |-> answer[u]]
      BY DEF answer
    <3> HIDE DEF answer
    <3> QED
      BY <2>6, <3>1, <3>2
  <2>8. answer[t] # None
    BY <2>2, Answered
  <2> QED
    BY <2>1, <2>5, <2>7, <2>8 DEF D!Hear
<1>6. CASE UNCHANGED vars
  <2>1. \A t \in Threads : (Busy(t)' <=> Busy(t)) /\ i'[t] = i[t] /\ mem'[t] = mem[t]
    BY <1>6 DEF vars, Busy
  <2>2. UNCHANGED <<store, req, answer>>
    BY <1>6, <2>1, Unseen DEF vars
  <2> QED
    BY <2>2 DEF D!vars
<1> QED
  BY <1>1, <1>2, <1>3, <1>4, <1>5, <1>6 DEF Next, Serve, Finished, D!Next

\* doAsyncReadWrite() implements the atomic disk, for every size of block and of
\* a file that leaves a disk, and any number of threads: as long as no call to the host has failed,
\* a request on the disk takes effect on all its blocks at once when its thread
\* gets the mutex.
THEOREM Refinement == OnDisk /\ Spec => ImplementsDisk
<1>1. Init => Progress /\ D!Init
  <2> SUFFICES ASSUME Init PROVE Progress /\ D!Init
    OBVIOUS
  <2>1. \A t \in Threads : ~Busy(t)
    BY DEF Init, Busy
  <2>2. store = disk
    BY <2>1, InitInv, Viewed DEF View
  <2>3. answer = [t \in Threads |-> None]
    BY <2>1 DEF answer
  <2> QED
    BY <2>2, <2>3 DEF Init, Progress, D!Init
<1>2. CASE ~OnDisk
  BY <1>2
<1>3. CASE OnDisk
  <2>1. IInv /\ Progress /\ [Next]_vars => Progress'
    BY <1>3, ProgressStep
  <2>2. IInv /\ IInv' /\ Progress /\ Progress' /\ View /\ View' /\ [Next]_vars
        => [failed' \/ D!Next]_(D!vars)
    BY <1>3, StepRefines
  <2> QED
    BY <1>1, <2>1, <2>2, Invariance, Viewed, PTL DEF Spec, ImplementsDisk
<1> QED
  BY <1>2, <1>3
=============================================================================
