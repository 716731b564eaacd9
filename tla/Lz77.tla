-------------------------------- MODULE Lz77 --------------------------------
(***************************************************************************)
(* What a compressed image stands for: a text made of literals and of      *)
(* copies of what is already in it.  A control byte says, from its lowest  *)
(* bit up, which of the next Bits items are literals.  A copy is given by  *)
(* a distance back into the text, which is preceded by spaces, and a copy  *)
(* longer than its distance repeats what it has written itself.  There is  *)
(* no buffer here and no register that is shifted.                         *)
(***************************************************************************)
EXTENDS Powers, Sequences

CONSTANTS Bits, Half, Threshold, Space, Idle

VARIABLES
  src,    \* the compressed bytes
  at,     \* how many of them have been used
  kinds,  \* the items left of the control byte: whether each is a literal
  copy,   \* the distance and the length left of the copy under way, or Idle
  out     \* the text

vars == <<src, at, kinds, copy, out>>

Byte == Pow2[Bits]
N    == Byte * (Byte \div Half)
F    == Half + Threshold

\* The byte at a distance back in the text.
Past(s, d) == IF d <= Len(s) THEN s[Len(s) + 1 - d] ELSE Space

Init == at = 0 /\ kinds = <<>> /\ copy = Idle /\ out = <<>>

Control ==
  /\ copy = Idle /\ kinds = <<>> /\ at < Len(src)
  /\ kinds' = [n \in 1..Bits |-> (src[at + 1] \div Pow2[n - 1]) % 2 = 1]
  /\ at' = at + 1
  /\ UNCHANGED <<src, copy, out>>

Literal ==
  /\ copy = Idle /\ kinds # <<>> /\ Head(kinds) /\ at < Len(src)
  /\ out' = Append(out, src[at + 1])
  /\ at' = at + 1
  /\ kinds' = Tail(kinds)
  /\ UNCHANGED <<src, copy>>

\* The position counts from F before the first multiple of N after the start
\* of the text; distance 0 is N.
Match ==
  /\ copy = Idle /\ kinds # <<>> /\ ~Head(kinds) /\ at + 1 < Len(src)
  /\ LET position == src[at + 1] + Byte * (src[at + 2] \div Half)
         back     == (Len(out) - F - position) % N
     IN copy' = [dist |-> IF back = 0 THEN N ELSE back,
                 left |-> (src[at + 2] % Half) + Threshold + 1]
  /\ at' = at + 2
  /\ kinds' = Tail(kinds)
  /\ UNCHANGED <<src, out>>

Copy ==
  /\ copy # Idle
  /\ out' = Append(out, Past(out, copy.dist))
  /\ copy' = IF copy.left = 1 THEN Idle ELSE [copy EXCEPT !.left = @ - 1]
  /\ UNCHANGED <<src, at, kinds>>

Next == Control \/ Literal \/ Match \/ Copy

Spec == Init /\ [][Next]_vars
=============================================================================
