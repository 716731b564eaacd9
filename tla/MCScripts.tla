----------------------------- MODULE MCScripts ------------------------------
(***************************************************************************)
(* An instance of the scripts for TLC: the gdb commands on the kernel of   *)
(* MCDebugger, and the bootstrap scripts with bytes of two bits, hence a   *)
(* ring of eight, and hashes of two digits with one letter.  They are      *)
(* programs of their own: in a behaviour one of them runs.                 *)
(***************************************************************************)
EXTENDS MCDebugger, Lzss, TrustCache, TLC

MCBytes == 0..3

\* Any five bytes, with a header that is right, too short or too long.
MCShort == [src : [1..5 -> MCBytes], srclen : {3, 5, 6}, decompsize : {4, 9}]

\* Copies that go over what is in the ring already: three pairs, the first two
\* of them three bytes long.
MCLong ==
  [src : {<<0, i, 1, j, 3, c, k, m>> :
            i \in MCBytes, j \in MCBytes, k \in MCBytes, m \in MCBytes, c \in {0, 1, 2}},
   srclen : {8}, decompsize : {12}]
MCFiles == MCShort \cup MCLong

\* The characters 0, B and a.
MCValue == (48 :> 0) @@ (66 :> 11) @@ (97 :> 10)

\* No command has been given, no image is being unpacked, no hash has been read.
NoCommand == given = 0 /\ ~running /\ enabled = wanted /\ threads = MCAtFirst /\ current = t1
MCAnyFile == [src |-> <<0, 0, 0, 0, 0>>, srclen |-> 5, decompsize |-> 9]
NoImage   == srcidx = 0 /\ ended = "no" /\ file = MCAnyFile

MCInit == Init /\ LzssInit /\ NoLines /\ (NoCommand \/ NoImage)
MCNext ==
  \/ Next /\ NoImage /\ NoLines /\ UNCHANGED <<lzss, hashes>>
  \/ LzssNext /\ NoCommand /\ NoLines /\ UNCHANGED <<vars, hashes>>
  \/ (NextLine \/ AllLines) /\ NoCommand /\ NoImage /\ UNCHANGED <<vars, lzss>>
MCSpec ==
  /\ MCInit /\ [][MCNext]_<<vars, lzss, hashes>>
  /\ WF_vars(Script) /\ WF_vars(Switch)
=============================================================================
