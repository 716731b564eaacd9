-------------------------------- MODULE Lzss --------------------------------
(***************************************************************************)
(* decompress_lzss() of bootstrap_scripts/decompress_lzss.py, which unpacks *)
(* a kernel image: a ring of the last N bytes, text_buf, that is read and  *)
(* written at positions of its own, and a shift register of flags whose    *)
(* upper half of ones counts the flags left.                               *)
(*                                                                         *)
(* A byte has Bits bits and is split at Half (16 in the code), so that N   *)
(* and F follow.  One step reads or writes at most one byte.               *)
(***************************************************************************)
EXTENDS Powers, Sequences

CONSTANTS
  Bits,       \* bits of a byte
  Half,       \* what the two fields of the second byte of a pair are split by
  Threshold,  \* THRESHOLD
  Space,      \* the byte " "
  Files,      \* what may be given to the script
  Idle        \* no copy under way

Byte == Pow2[Bits]
N    == Byte * (Byte \div Half)
F    == Half + Threshold

\* The compressed bytes, and both lengths in the header, which are not checked.
ASSUME LzssAssumption ==
  /\ Bits \in Nat /\ Half \in Nat \ {0} /\ Threshold \in Nat
  /\ Byte \in Nat \ {0} /\ Byte % Half = 0
  /\ N \in Nat /\ F \in 1..(N - 1)
  /\ Space \in 0..(Byte - 1)
  /\ Files \subseteq [src : Seq(0..(Byte - 1)), srclen : Nat, decompsize : Nat]
  /\ Idle \notin [pos : 0..(N - 1), left : Nat] \cup [dist : 1..N, left : Nat]

VARIABLES
  file,     \* what was given
  srcidx,
  flags,
  text_buf,
  r,
  first,    \* i, once it has been read
  pair,     \* i + k, and how many k are left, of the pair being copied
  out,      \* dst, up to dstidx
  state,    \* what is read next: a control byte or nothing, an item, a second byte
  ended     \* "no", or how the loop has ended

lzss == <<file, srcidx, flags, text_buf, r, first, pair, out, state, ended>>

LzssInit ==
  /\ file \in Files
  /\ srcidx = 0 /\ flags = 0 /\ first = 0
  /\ text_buf = [n \in 0..(N + F - 2) |-> Space]
  /\ r = N - F
  /\ pair = Idle
  /\ out = <<>>
  /\ state = "next" /\ ended = "no"

-----------------------------------------------------------------------------
\* Mutant of Wrap: position N is not yet wrapped.
WrapLate(n) == IF n > N THEN 0 ELSE n

\* & (N - 1) of a position that has gone up by one.
Wrap(n) == IF n = N THEN 0 ELSE n

\* flags >>= 1 leaves a flag if the bit above the byte is still set.
FlagsLeft == (flags \div (2 * Byte)) % 2 = 1

\* The loop is about to read a byte, and the file has one.
Reads ==
  /\ ended = "no" /\ pair = Idle
  /\ state = "next" => ~FlagsLeft
InFile == srcidx < file.srclen /\ srcidx < Len(file.src)

Given == file.src[srcidx + 1]

Read(from, to) ==
  /\ Reads /\ InFile
  /\ state = from /\ state' = to
  /\ srcidx' = srcidx + 1
  /\ UNCHANGED <<file, ended>>

\* A byte goes to dst, if there is room, and to the ring.
Emit(b) ==
  /\ Len(out) < file.decompsize
  /\ out' = Append(out, b)
  /\ text_buf' = [text_buf EXCEPT ![r] = b]
  /\ r' = Wrap(r + 1)

text == <<text_buf, r, out>>

\* The ones above the byte count its flags.
Refill ==
  /\ Read("next", "item")
  /\ flags' = Given + (Byte - 1) * Byte
  /\ UNCHANGED <<text, first, pair>>

Shift ==
  /\ ended = "no" /\ pair = Idle
  /\ state = "next" /\ FlagsLeft /\ state' = "item"
  /\ flags' = flags \div 2
  /\ UNCHANGED <<file, srcidx, text, first, pair, ended>>

Literal ==
  /\ flags % 2 = 1
  /\ Read("item", "next")
  /\ Emit(Given)
  /\ UNCHANGED <<flags, first, pair>>

First ==
  /\ flags % 2 = 0
  /\ Read("item", "second")
  /\ first' = Given
  /\ UNCHANGED <<flags, text, pair>>

\* i |= (j & 0xF0) << 4, and so many bytes to copy.
CopyFrom(count) ==
  /\ Read("second", "next")
  /\ pair' = [pos |-> first + Byte * (Given \div Half), left |-> count]
  /\ UNCHANGED <<flags, text, first>>

\* Mutant of Second: the loop is over range(j).
SecondShort == CopyFrom((Given % Half) + Threshold)

Second == CopyFrom((Given % Half) + Threshold + 1)

\* One turn of the loop over k; the byte it reads may be one it has written.
CopyByte ==
  /\ ended = "no" /\ pair # Idle
  /\ Emit(text_buf[pair.pos])
  /\ pair' = IF pair.left = 1 THEN Idle
             ELSE [pos |-> Wrap(pair.pos + 1), left |-> pair.left - 1]
  /\ UNCHANGED <<file, srcidx, flags, first, state, ended>>

End(how) == ended' = how /\ UNCHANGED <<file, srcidx, flags, text, first, pair, state>>

\* The header's length is reached, in the middle of a pair too.
Break == Reads /\ srcidx >= file.srclen /\ End("done")

\* IndexError: the file is shorter than the header says.
Truncated == Reads /\ srcidx < file.srclen /\ srcidx >= Len(file.src) /\ End("error")

\* IndexError: dst is full.
Overrun ==
  /\ ended = "no" /\ Len(out) = file.decompsize
  /\ pair # Idle \/ (Reads /\ InFile /\ state = "item" /\ flags % 2 = 1)
  /\ End("error")

Over == ended # "no" /\ UNCHANGED lzss

LzssNext ==
  \/ Refill \/ Shift \/ Literal \/ First \/ Second \/ CopyByte
  \/ Break \/ Truncated \/ Overrun \/ Over

LzssSpec == LzssInit /\ [][LzssNext]_lzss

-----------------------------------------------------------------------------
(* Properties.                                                             *)

LzssTypeOK ==
  /\ file \in Files
  /\ srcidx \in 0..Len(file.src)
  /\ flags \in Nat
  /\ text_buf \in [0..(N + F - 2) -> 0..(Byte - 1)]
  /\ r \in 0..(N - 1)
  /\ pair \in [pos : 0..(N - 1), left : Nat \ {0}] \cup {Idle}
  /\ first \in 0..(Byte - 1)
  /\ out \in Seq(0..(Byte - 1)) /\ Len(out) <= file.decompsize
  /\ state \in {"next", "item", "second"} /\ ended \in {"no", "done", "error"}

\* How far position n of the ring is behind the position to be written.
Behind(n) == IF n < r THEN r - n ELSE r - n + N

Past(s, d) == IF d <= Len(s) THEN s[Len(s) + 1 - d] ELSE Space

\* The ring has the last N bytes of the text, with spaces before its start.
RingIsPast == \A n \in 0..(N - 1) : text_buf[n] = Past(out, Behind(n))

\* While a pair is copied both positions go up, so that the byte copied is
\* always the same distance back in the text.
CopiesFromText ==
  [][pair # Idle /\ out' # out =>
       /\ out' = Append(out, Past(out, Behind(pair.pos)))
       /\ pair' # Idle => Behind(pair.pos)' = Behind(pair.pos)]_lzss

\* The items of the control byte that are left, whether each is a literal: the
\* upper half of flags has one bit more than there are bits left to shift in.
FlagsToShift ==
  IF flags = 0 THEN 0 ELSE CHOOSE n \in 0..(Bits - 1) : flags \div Byte = Pow2[n + 1] - 1
kinds ==
  IF state = "next" THEN [n \in 1..FlagsToShift |-> (flags \div Pow2[n]) % 2 = 1]
  ELSE [n \in 1..(FlagsToShift + 1) |-> (flags \div Pow2[n - 1]) % 2 = 1]

L == INSTANCE Lz77 WITH
       src  <- file.src,
       at   <- IF state = "second" THEN srcidx - 1 ELSE srcidx,
       copy <- IF pair = Idle THEN Idle
               ELSE [dist |-> Behind(pair.pos), left |-> pair.left]

\* The script unpacks what the compressed bytes stand for, up to where the
\* header, the file or the room in dst ends: the ring with its two positions
\* that wrap, and the register of flags, are a text with distances and a list
\* of kinds.
ImplementsLz77 == L!Spec
=============================================================================
