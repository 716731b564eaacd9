----------------------------- MODULE TrustCache -----------------------------
(***************************************************************************)
(* bootstrap_scripts/create_trustcache.py: from a file with one hash per   *)
(* line to the buffer in which the kernel looks hashes up by bisection.    *)
(*                                                                         *)
(* A line is what strip() leaves of it, a sequence of the codes of its     *)
(* characters.  A hash has Digits hexadecimal digits (40 in the code), and *)
(* may be followed by anything; a shorter one ends the script.             *)
(***************************************************************************)
EXTENDS Integers, Sequences

CONSTANTS
  Digits,   \* the digits of a hash
  Value,    \* the value of each character that is a digit, upper or lower case
  Tails,    \* how many characters may follow the digits
  MaxLines  \* bound on the lines of a file

ASSUME TrustCacheAssumption ==
  /\ Digits \in Nat \ {0} /\ Tails \subseteq Nat /\ MaxLines \in Nat
  /\ DOMAIN Value \subseteq Nat /\ Value \in [DOMAIN Value -> Nat]

VARIABLE
  hashes    \* the lines, as far as they have been split and stripped

Codes == DOMAIN Value
Lines == {<<>>} \cup UNION {[1..(Digits + n) -> Codes] : n \in Tails}

NoLines == hashes = <<>>

NextLine ==
  /\ Len(hashes) < MaxLines
  /\ \E line \in Lines : hashes' = Append(hashes, line)

\* Every line has been split off.
AllLines == UNCHANGED hashes

TrustCacheSpec == NoLines /\ [][NextLine \/ AllLines]_hashes

\* The order of Python's bytes: as in a dictionary, by code.
Before(s, t) ==
  \/ Len(s) < Len(t) /\ s = SubSeq(t, 1, Len(s))
  \/ \E n \in DOMAIN s \cap DOMAIN t :
       s[n] < t[n] /\ \A m \in 1..(n - 1) : s[m] = t[m]

\* Mutant of Sorted: in the order of the file.
Unsorted(lines) == lines

\* sorted(): each line once, and none after a greater one.
Sorted(lines) ==
  LET places == DOMAIN lines
      order  == CHOOSE p \in [places -> places] :
                  /\ \A n \in places : \E i \in places : p[i] = n
                  /\ \A i, j \in places : i < j => ~Before(lines[p[j]], lines[p[i]])
  IN [n \in places |-> lines[order[n]]]

\* An entry is the digits as numbers; its type and flags are always 0.
Entry(line) == [n \in 1..Digits |-> Value[line[n]]]

\* What create_tc() writes: the number of the lines, and an entry for each one
\* that is not blank.
TrustCacheOf(lines) ==
  LET sorted == Sorted(lines)
      written[n \in 0..Len(sorted)] ==
        IF n = 0 THEN <<>>
        ELSE IF sorted[n] = <<>> THEN written[n - 1]
        ELSE Append(written[n - 1], Entry(sorted[n]))
  IN [count |-> Len(sorted), entries |-> written[Len(sorted)]]

\* The kernel's bisection among count entries.
Lookup(tc, hash) ==
  LET found[range \in (1..(tc.count + 1)) \X (0..tc.count)] ==
        LET low == range[1]  high == range[2]
            middle == (low + high) \div 2
        IN IF low > high THEN FALSE
           ELSE IF tc.entries[middle] = hash THEN TRUE
           ELSE IF Before(tc.entries[middle], hash) THEN found[<<middle + 1, high>>]
           ELSE found[<<low, middle - 1>>]
  IN found[<<1, tc.count>>]

-----------------------------------------------------------------------------
(* Property.                                                               *)

\* As many entries as the number before them says.
Counted(tc) == tc.count = Len(tc.entries)

\* No entry comes after a greater one.
Rising(tc) ==
  \A i, j \in DOMAIN tc.entries : i < j => ~Before(tc.entries[j], tc.entries[i])

Blank == \E n \in DOMAIN hashes : hashes[n] = <<>>

\* Two hashes are in one order as text and in the other as numbers, as they may be
\* when their letters are not of one case.
Crossed ==
  \E m, n \in DOMAIN hashes :
     /\ hashes[m] # <<>> /\ hashes[n] # <<>>
     /\ Before(hashes[m], hashes[n]) /\ Before(Entry(hashes[n]), Entry(hashes[m]))

\* create_trustcache.py:53: "the kernel does a binary search for the hash so
\* they must be sorted".  The number of the entries is right for a file without a
\* blank line and for no other, and they are sorted for a file without hashes that
\* cross and for no other.  Where both are so the search finds every hash of the
\* file and nothing else, although what is sorted is the text of whole lines,
\* doubles among them.
EveryHashFound ==
  LET tc == TrustCacheOf(hashes)
  IN /\ Counted(tc) <=> ~Blank
     /\ Rising(tc) <=> ~Crossed
     /\ Counted(tc) /\ Rising(tc) =>
          \A hash \in {Entry(line) : line \in [1..Digits -> Codes]} :
            Lookup(tc, hash) <=> \E n \in DOMAIN hashes : Entry(hashes[n]) = hash
=============================================================================
