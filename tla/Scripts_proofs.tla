--------------------------- MODULE Scripts_proofs ---------------------------
(***************************************************************************)
(* Theorems about the three scripts: the gdb commands (Debugger), the      *)
(* decompressor of kernel images (Lzss) and the trust cache's generator    *)
(* (TrustCache), for any kernel, any image and any file of hashes.         *)
(*                                                                         *)
(* What they share comes first: the least number of a set and induction    *)
(* with it, division, and powers of two.                                   *)
(***************************************************************************)
EXTENDS Lzss, Debugger, TrustCache, SequenceTheorems, WellFoundedInduction, TLAPS

(* Numbers.                                                                *)

\* The order of the numbers, as a relation.
LEMMA LessIn == \A x, y \in Nat : x < y => <<x, y>> \in OpToRel(<, Nat)
  BY Zenon DEF OpToRel

\* Every set of numbers that is not empty has a least one.
LEMMA LeastOne ==
  ASSUME NEW T \in SUBSET Nat, T # {}
  PROVE  \E x \in T : \A y \in T : x <= y
<1>1. PICK x \in T : \A y \in T : <<y, x>> \notin OpToRel(<, Nat)
  BY WFMin, NatLessThanWellFounded, Zenon
<1>2. \A y \in T : ~ (y < x)
  BY <1>1, LessIn, Zenon
<1> QED
  BY <1>2

\* Induction, for a set of numbers.
LEMMA Induction ==
  ASSUME NEW T \in SUBSET Nat, 0 \in T, \A n \in Nat : n \in T => n + 1 \in T
  PROVE  \A n \in Nat : n \in T
<1> SUFFICES ASSUME Nat \ T # {} PROVE FALSE
  OBVIOUS
<1>1. PICK x \in Nat \ T : \A y \in Nat \ T : x <= y
  <2>1. Nat \ T \in SUBSET Nat
    OBVIOUS
  <2> QED
    BY <2>1, LeastOne
<1>2. x - 1 \in Nat /\ (x - 1) + 1 = x /\ ~ (x <= x - 1)
  BY <1>1
<1> QED
  BY <1>1, <1>2

\* Division of an integer, with its remainder ...
LEMMA Division == ASSUME NEW a \in Int, NEW d \in Nat \ {0}
  PROVE a \div d \in Int /\ a % d \in 0..(d - 1) /\ a = d * (a \div d) + (a % d)
  BY SMTT(30)
\* ... and without.
LEMMA Quotient == ASSUME NEW a \in Int, NEW d \in Nat \ {0}
  PROVE a \div d \in Int /\ d * (a \div d) <= a /\ a < d * (a \div d) + d
  BY SMTT(30)
\* A greater factor makes a product greater by a divisor or more.
LEMMA Less == ASSUME NEW q \in Int, NEW p \in Int, NEW d \in Nat \ {0}, q < p
  PROVE d * q + d <= d * p
  BY SMTT(30)
\* The quotient is the only number with its bounds, ...
LEMMA DivIs == ASSUME NEW a \in Int, NEW d \in Nat \ {0}, NEW q \in Int, d * q <= a, a < d * q + d
  PROVE a \div d = q
<1> DEFINE p == a \div d
<1>1. p \in Int /\ d * p <= a /\ a < d * p + d
  BY Quotient
<1> HIDE DEF p
<1>2. CASE q < p
  BY <1>1, <1>2, Less, SMTT(30)
<1>3. CASE p < q
  BY <1>1, <1>3, Less, SMTT(30)
<1> QED
  BY <1>1, <1>2, <1>3 DEF p

\* ... and the remainder the only one in its range.
LEMMA ModIs ==
  ASSUME NEW a \in Int, NEW d \in Nat \ {0}, NEW q \in Int, NEW x \in 0..(d - 1), a = d * q + x
  PROVE  a % d = x
<1>1. a \div d = q
  <2>1. d * q <= a /\ a < d * q + d
    BY SMTT(30)
  <2> QED
    BY <2>1, DivIs
<1>2. a = d * (a \div d) + (a % d) /\ a % d \in 0..(d - 1)
  BY Division
<1> QED
  BY <1>1, <1>2, SMTT(30)

\* Two divisions are one by the product: shifts add up.
LEMMA DivDiv == ASSUME NEW a \in Int, NEW b \in Nat \ {0}, NEW c \in Nat \ {0}
  PROVE (a \div b) \div c = a \div (b * c)
<1> DEFINE p == a \div b  q == p \div c
<1>1. p \in Int /\ b * p <= a /\ a < b * p + b
  BY Quotient
<1>2. q \in Int /\ c * q <= p /\ p < c * q + c
  BY <1>1, Quotient
<1> HIDE DEF p, q
<1>3. b * c \in Nat \ {0}
  BY SMTT(30)
<1>4. b * (c * q) <= b * p
  BY <1>1, <1>2, SMTT(30)
<1>5. b * p + b <= b * (c * q + c)
  BY <1>1, <1>2, Less, SMTT(30)
<1>6. (b * c) * q <= a /\ a < (b * c) * q + b * c
  <2>1. b * (c * q) = (b * c) * q /\ b * (c * q + c) = (b * c) * q + b * c
    BY <1>2, SMTT(30)
  <2>2. b * (c * q) \in Int /\ b * c \in Int /\ b * p \in Int /\ (b * c) * q \in Int
    BY <1>1, <1>2, SMTT(30)
  <2> QED
    BY <1>1, <1>4, <1>5, <2>1, <2>2, SMTT(30)
<1> QED
  BY <1>2, <1>3, <1>6, DivIs DEF p, q

\* A multiple of the divisor goes through.
LEMMA DivAdd == ASSUME NEW a \in Int, NEW d \in Nat \ {0}, NEW x \in Int
  PROVE (a + d * x) \div d = (a \div d) + x
<1> DEFINE p == a \div d
<1>1. p \in Int /\ d * p <= a /\ a < d * p + d
  BY Quotient
<1> HIDE DEF p
<1>2. d * (p + x) = d * p + d * x /\ d * x \in Int /\ d * p \in Int
  BY <1>1, SMTT(30)
<1>3. p + x \in Int /\ d * (p + x) <= a + d * x /\ a + d * x < d * (p + x) + d
  BY <1>1, <1>2, SMTT(30)
<1>4. a + d * x \in Int
  BY <1>2
<1> QED
  BY <1>3, <1>4, DivIs DEF p

\* Pow2 is the function that its definition says.
LEMMA Pow2Is == Pow2[0] = 1 /\ \A n \in Nat : Pow2[n] \in Nat /\ Pow2[n + 1] = 2 * Pow2[n]
<1> DEFINE Good(g, n) == g \in [0..n -> Nat] /\ g[0] = 1 /\ \A k \in 1..n : g[k] = 2 * g[k - 1]
<1>1. \A n \in Nat : \E g : Good(g, n)
  <2> DEFINE T == {n \in Nat : \E g : Good(g, n)}
  <2>1. 0 \in T
    <3>1. Good([k \in 0..0 |-> 1], 0)
      OBVIOUS
    <3> QED
      BY <3>1
  <2>2. ASSUME NEW n \in Nat, n \in T PROVE n + 1 \in T
    <3>1. PICK g : Good(g, n)
      BY <2>2
    <3> DEFINE h == [k \in 0..(n + 1) |-> IF k = n + 1 THEN 2 * g[n] ELSE g[k]]
    <3>2. \A k \in 0..(n + 1) : k # n + 1 => k \in 0..n
      OBVIOUS
    <3>3. h \in [0..(n + 1) -> Nat]
      BY <3>1, <3>2
    <3>4. h[0] = 1
      BY <3>1
    <3>5. ASSUME NEW k \in 1..(n + 1) PROVE h[k] = 2 * h[k - 1]
      <4>1. CASE k = n + 1
        BY <4>1, <3>1
      <4>2. CASE k # n + 1
        BY <4>2, <3>1
      <4> QED
        BY <4>1, <4>2
    <3>6. Good(h, n + 1)
      BY <3>3, <3>4, <3>5
    <3> HIDE DEF Good, h
    <3>7. \E gg : Good(gg, n + 1)
      BY <3>6, Zenon
    <3> QED
      BY <3>7
  <2> HIDE DEF Good
  <2>3. T \in SUBSET Nat
    OBVIOUS
  <2> HIDE DEF T
  <2>4. \A n \in Nat : n \in T
    BY <2>1, <2>2, <2>3, Induction
  <2> QED
    BY <2>4 DEF T
<1>2. ASSUME NEW n \in Nat, NEW m \in Nat, NEW g, NEW h, Good(g, n), Good(h, m)
      PROVE  \A k \in Nat : k <= n /\ k <= m => g[k] = h[k]
  <2> DEFINE T == {k \in Nat : k <= n /\ k <= m => g[k] = h[k]}
  <2>1. 0 \in T
    BY <1>2
  <2>2. ASSUME NEW k \in Nat, k \in T PROVE k + 1 \in T
    <3> SUFFICES ASSUME k + 1 <= n, k + 1 <= m PROVE g[k + 1] = h[k + 1]
      OBVIOUS
    <3>1. k + 1 \in 1..n /\ k + 1 \in 1..m /\ (k + 1) - 1 = k /\ k <= n /\ k <= m
      OBVIOUS
    <3>2. g[k + 1] = 2 * g[k] /\ h[k + 1] = 2 * h[k]
      BY <1>2, <3>1
    <3> QED
      BY <2>2, <3>1, <3>2
  <2>3. T \in SUBSET Nat
    OBVIOUS
  <2> HIDE DEF T
  <2>4. \A k \in Nat : k \in T
    BY <2>1, <2>2, <2>3, Induction
  <2> QED
    BY <2>4 DEF T
<1> DEFINE G(n) == CHOOSE g : Good(g, n)
           f == [n \in Nat |-> G(n)[n]]
<1>3. \A n \in Nat : Good(G(n), n)
  <2> HIDE DEF Good
  <2> QED
    BY <1>1, Zenon
<1> HIDE DEF G
<1>4. f[0] = 1 /\ \A n \in Nat : f[n] \in Nat
  BY <1>3
<1>5. ASSUME NEW n \in Nat, n # 0 PROVE f[n] = 2 * f[n - 1]
  <2>1. n \in 1..n /\ n - 1 \in Nat /\ n - 1 <= n /\ n - 1 <= n - 1
    BY <1>5
  <2>2. G(n)[n] = 2 * G(n)[n - 1]
    BY <1>3, <2>1
  <2>3. G(n)[n - 1] = G(n - 1)[n - 1]
    <3>1. Good(G(n), n) /\ Good(G(n - 1), n - 1)
      BY <1>3, <2>1
    <3> HIDE DEF Good
    <3> QED
      BY <3>1, <2>1, <1>2
  <2> QED
    BY <2>1, <2>2, <2>3
<1>6. f = [n \in Nat |-> IF n = 0 THEN 1 ELSE 2 * f[n - 1]]
  BY <1>4, <1>5
<1>7. \E ff : ff = [n \in Nat |-> IF n = 0 THEN 1 ELSE 2 * ff[n - 1]]
  <2> HIDE DEF f
  <2> QED
    BY <1>6
<1>8. Pow2 = [n \in Nat |-> IF n = 0 THEN 1 ELSE 2 * Pow2[n - 1]]
  BY <1>7, Zenon DEF Pow2
<1>9. Pow2[0] = 1 /\ \A n \in Nat : n # 0 => Pow2[n] = 2 * Pow2[n - 1]
  BY <1>8
<1>10. \A n \in Nat : Pow2[n + 1] = 2 * Pow2[n]
  <2>1. \A n \in Nat : n + 1 \in Nat /\ n + 1 # 0 /\ (n + 1) - 1 = n
    OBVIOUS
  <2> QED
    BY <1>9, <2>1
<1>11. \A n \in Nat : Pow2[n] \in Nat
  <2> DEFINE T == {n \in Nat : Pow2[n] \in Nat}
  <2>1. T \in SUBSET Nat /\ 0 \in T /\ \A n \in Nat : n \in T => n + 1 \in T
    BY <1>9, <1>10
  <2> HIDE DEF T
  <2>2. \A n \in Nat : n \in T
    BY <2>1, Induction
  <2> QED
    BY <2>2 DEF T
<1> QED
  BY <1>9, <1>10, <1>11


\* A power is positive, ...
LEMMA PowSigns == \A n \in Nat : Pow2[n] \in Nat \ {0}
<1> DEFINE T == {n \in Nat : Pow2[n] \in Nat \ {0}}
<1>1. T \in SUBSET Nat /\ 0 \in T /\ \A n \in Nat : n \in T => n + 1 \in T
  BY Pow2Is
<1> HIDE DEF T
<1>2. \A n \in Nat : n \in T
  BY <1>1, Induction
<1> QED
  BY <1>2 DEF T

\* ... greater than those before it, ...
LEMMA PowLess == \A n \in Nat : \A m \in Nat : m < n => Pow2[m] < Pow2[n]
<1> DEFINE T == {n \in Nat : \A m \in Nat : m < n => Pow2[m] < Pow2[n]}
<1>1. T \in SUBSET Nat /\ 0 \in T
  OBVIOUS
<1>2. ASSUME NEW n \in Nat, n \in T PROVE n + 1 \in T
  <2>1. \A m \in Nat : m < n + 1 => m < n \/ m = n
    OBVIOUS
  <2>2. Pow2[n] < Pow2[n + 1]
    BY Pow2Is, PowSigns
  <2>3. \A m \in Nat : m < n => Pow2[m] < Pow2[n]
    BY <1>2
  <2>4. ASSUME NEW m \in Nat, m < n + 1 PROVE Pow2[m] < Pow2[n + 1]
    BY <2>1, <2>2, <2>3, <2>4, PowSigns
  <2> QED
    BY <2>4
<1> HIDE DEF T
<1>3. \A n \in Nat : n \in T
  BY <1>1, <1>2, Induction
<1> QED
  BY <1>3 DEF T

\* ... and the product of two whose exponents add up to its own.
LEMMA PowSum == ASSUME NEW a \in Nat PROVE \A b \in Nat : Pow2[a + b] = Pow2[a] * Pow2[b]
<1> DEFINE T == {b \in Nat : Pow2[a + b] = Pow2[a] * Pow2[b]}
<1>1. T \in SUBSET Nat /\ 0 \in T
  BY Pow2Is
<1>2. ASSUME NEW b \in Nat, b \in T PROVE b + 1 \in T
  <2>1. Pow2[b + 1] = 2 * Pow2[b] /\ Pow2[(a + b) + 1] = 2 * Pow2[a + b] /\ (a + b) + 1 = a + (b + 1)
    BY Pow2Is
  <2>2. Pow2[a + b] = Pow2[a] * Pow2[b]
    BY <1>2
  <2>3. Pow2[a] * (2 * Pow2[b]) = 2 * (Pow2[a] * Pow2[b])
    BY Pow2Is, SMTT(30)
  <2> QED
    BY <2>1, <2>2, <2>3
<1> HIDE DEF T
<1>3. \A b \in Nat : b \in T
  BY <1>1, <1>2, Induction
<1> QED
  BY <1>3 DEF T

-----------------------------------------------------------------------------
(* The gdb commands: what is so of a command at every step.                *)

\* The threads are a list, and each is in it once.
Linked == threads \in Seq(Threads) /\ IsInjective(threads)

\* While the kernel runs no command has answered, and the script waits; while a
\* command goes over lists it has said no more than that there is no such task.
Answers ==
  /\ running => pc \in {"prompt", "wait"} /\ said \in {"nothing", "waiting"}
  /\ pc \in {"iter", "next"} => said \in {"nothing", "doubted"}
  /\ pc \in {"begin", "test", "wait"} => said \in {"nothing", "waiting"}

\* While a command goes over lists and tables, those that are left are the last of
\* those it is to go over, and its pointer is one that can be read or is looked for
\* in a list.
Items == Threads \cup TaskSet \cup Nat
Heads == {"threads", "tasks", "zones"} \cup TaskSet \cup Spaces \cup Others
Rest(w) ==
  /\ Len(walks) <= Len(w)
  /\ \A i \in 1..Len(walks) : walks[i] = w[i + (Len(w) - Len(walks))]
Walking ==
  /\ walks \in Seq(Heads)
  /\ pc \in {"iter", "next"} =>
       /\ walks # <<>> /\ stops = 0
       /\ req \in Requests /\ (req.ptr = Bad => req.cmd \notin Tests)
       /\ req.cmd \notin {"xnu-voucher-info", "xnu-ipc-port-info"}
       /\ Walks(req) \in Seq(Heads) /\ Rest(Walks(req))
  /\ pc = "next" => walks[1] \notin Others

\* Past the list of the tasks it has been said that there is no such task.
Warned ==
  pc \in {"iter", "next"} /\ req.cmd \in {"xnu-threads", "xnu-ipc_entry-list-task"} /\ req.ptr # None
    /\ Len(walks) < Len(Walks(req)) /\ req.ptr \notin TaskSet => said = "doubted"

\* The iterator has returned the members before the next one, in their order;
\* xnu-threads user leaves out some in the last list only.
Gone(h, p) ==
  {i \in Places(h) :
     IF h \in DOMAIN InUse THEN i <= p
     ELSE p = ListHead \/ \E j \in DOMAIN Row(h) : i < j /\ Row(h)[j] = p}
Took(x) == Len(walks) = 1 /\ req.cmd = "xnu-threads-user" => x \in UserThreads
Iterating ==
  /\ seen \in Seq(Items)
  /\ pc = "next" =>
       /\ IF IsTable THEN ptr \in 0..Len(InUse[walks[1]])
          ELSE ptr # ListHead => \E i \in Places(walks[1]) : Row(walks[1])[i] = ptr
       /\ ToSet(seen) = {x \in {Row(walks[1])[i] : i \in Gone(walks[1], ptr)} : Took(x)}
       /\ InOrder(walks[1])

\* While xnu-switch has the watch set, tmp_tries and the stops add up.
Counting ==
  /\ pc = "begin" => stops = 0
  /\ pc \in {"test", "wait"} =>
       /\ enabled = {} /\ watch
       /\ IF req.ptr = None THEN stops \in {0, 1}
          ELSE tries = req.tries - stops /\ (stops = 0 \/ tries >= 0)
  /\ pc = "wait" => Waits

\* Until xnu-switch begins, the breakpoints are the user's.
Untouched ==
  pc \in {"prompt", "iter", "next", "begin"} /\ ~failed => wanted \subseteq enabled /\ ~watch

\* What every step keeps.  AnswersRight is about the command that has just ended;
\* the rest says what has been established by the time it ends.
IInv ==
  TypeOK /\ Linked /\ Answers /\ Walking /\ Warned /\ Iterating /\ Counting /\ Untouched /\ AnswersRight

-----------------------------------------------------------------------------
(* Lemmas about numbers, sequences and lists.                              *)

\* What Min chooses.
LEMMA MinIs ==
  ASSUME NEW T \in SUBSET Nat, T # {}
  PROVE  Min(T) \in T /\ \A y \in T : Min(T) <= y
<1>1. \E x \in T : \A y \in T : x <= y
  BY LeastOne
<1> QED
  BY <1>1, Zenon DEF Min

\* Taking an element out of a sequence.
LEMMA Removed ==
  ASSUME NEW S, NEW s \in Seq(S), IsInjective(s), NEW i \in DOMAIN s
  PROVE  /\ RemoveAt(s, i) \in Seq(S) /\ IsInjective(RemoveAt(s, i))
         /\ \A j \in DOMAIN s : j # i => s[j] \in ToSet(RemoveAt(s, i))
<1> DEFINE a == SubSeq(s, 1, i - 1)  b == SubSeq(s, i + 1, Len(s))  c == RemoveAt(s, i)
<1>0. Len(s) \in Nat /\ i \in 1..Len(s) /\ DOMAIN s = 1..Len(s)
  OBVIOUS
<1>1. a \in Seq(S) /\ Len(a) = i - 1 /\ \A j \in 1..(i - 1) : a[j] = s[j]
  BY <1>0
<1>2. b \in Seq(S) /\ Len(b) = Len(s) - i /\ \A j \in 1..(Len(s) - i) : b[j] = s[i + j]
  <2>1. b = [j \in 1..(Len(s) - i) |-> s[i + j]]
    BY <1>0
  <2>2. \A j \in 1..(Len(s) - i) : s[i + j] \in S
    BY <1>0
  <2> QED
    BY <1>0, <2>1, <2>2
<1>3. c = a \o b
  BY DEF RemoveAt
<1> HIDE DEF a, b, c
<1>4. /\ c \in Seq(S) /\ Len(c) = Len(s) - 1
      /\ \A j \in 1..(Len(s) - 1) : c[j] = IF j < i THEN s[j] ELSE s[j + 1]
  <2>1. /\ c \in Seq(S) /\ Len(c) = Len(s) - 1
        /\ \A j \in 1..(Len(s) - 1) : c[j] = IF j <= i - 1 THEN a[j] ELSE b[j - (i - 1)]
    <3>1. /\ a \o b \in Seq(S) /\ Len(a \o b) = Len(a) + Len(b)
          /\ \A j \in 1..(Len(a) + Len(b)) : (a \o b)[j] = IF j <= Len(a) THEN a[j] ELSE b[j - Len(a)]
      BY <1>1, <1>2, ConcatProperties, Zenon
    <3>2. Len(a) + Len(b) = Len(s) - 1
      BY <1>0, <1>1, <1>2
    <3> QED
      BY <1>1, <1>3, <3>1, <3>2
  <2>2. ASSUME NEW j \in 1..(Len(s) - 1) PROVE c[j] = IF j < i THEN s[j] ELSE s[j + 1]
    <3>1. CASE j < i
      BY <3>1, <2>1, <1>0, <1>1
    <3>2. CASE ~(j < i)
      <4>1. j - (i - 1) \in 1..(Len(s) - i) /\ i + (j - (i - 1)) = j + 1
        BY <3>2, <1>0
      <4>2. b[j - (i - 1)] = s[j + 1]
        BY <4>1, <1>2
      <4>3. ~(j <= i - 1)
        BY <3>2, <1>0
      <4> QED
        BY <3>2, <4>2, <4>3, <2>1
    <3> QED
      BY <3>1, <3>2
  <2> QED
    BY <2>1, <2>2
<1>5. IsInjective(c)
  <2>1. DOMAIN c = 1..(Len(s) - 1)
    BY <1>4
  <2>2. ASSUME NEW m \in 1..(Len(s) - 1), NEW n \in 1..(Len(s) - 1), c[m] = c[n] PROVE m = n
    <3> DEFINE f(j) == IF j < i THEN j ELSE j + 1
    <3>1. f(m) \in 1..Len(s) /\ f(n) \in 1..Len(s) /\ c[m] = s[f(m)] /\ c[n] = s[f(n)]
      BY <1>0, <1>4
    <3>2. f(m) = f(n)
      BY <3>1, <2>2, <1>0 DEF IsInjective
    <3> QED
      BY <3>2, <1>0
  <2> QED
    BY <2>1, <2>2 DEF IsInjective
<1>6. ASSUME NEW j \in 1..Len(s), j # i PROVE s[j] \in ToSet(c)
  <2>1. CASE j < i
    BY <2>1, <1>0, <1>4 DEF ToSet
  <2>2. CASE j > i
    <3>1. j - 1 \in 1..(Len(s) - 1) /\ ~ (j - 1 < i) /\ (j - 1) + 1 = j
      BY <2>2, <1>0
    <3>2. c[j - 1] = s[j]
      BY <3>1, <1>4
    <3> QED
      BY <3>1, <3>2, <1>4 DEF ToSet
  <2> QED
    BY <1>6, <2>1, <2>2
<1> QED
  BY <1>0, <1>4, <1>5, <1>6 DEF c

-----------------------------------------------------------------------------
(* Lemmas about the lists and tables.                                      *)

\* A list is a sequence without doubles, in which its head is not.
LEMMA RowIs ==
  ASSUME Linked, NEW h
  PROVE  /\ Row(h) \in Seq(Items) /\ IsInjective(Row(h))
         /\ Places(h) \subseteq DOMAIN Row(h) /\ Places(h) \in SUBSET Nat
         /\ h \notin DOMAIN InUse => ListHead \notin ToSet(Row(h))
<1> USE DebuggerAssumption DEF DebuggerAssumption
<1>1. CASE h \in DOMAIN InUse
  <2>1. InUse[h] \in Seq(BOOLEAN) /\ DOMAIN InUse[h] = 1..Len(InUse[h]) /\ Len(InUse[h]) \in Nat
    BY <1>1
  <2>2. Row(h) = [i \in 1..Len(InUse[h]) |-> i]
    BY <1>1, <2>1 DEF Row
  <2>3. Places(h) \subseteq 1..Len(InUse[h])
    BY <1>1, <2>1 DEF Places
  <2>4. Row(h) \in Seq(Items) /\ DOMAIN Row(h) = 1..Len(InUse[h])
    BY <2>1, <2>2 DEF Items
  <2> QED
    BY <1>1, <2>2, <2>3, <2>4 DEF IsInjective
<1>2. CASE h \notin DOMAIN InUse
  <2>1. Tasks \in Seq(TaskSet) /\ ListHead \notin TaskSet
    BY DEF TaskSet, ToSet
  <2>2. threads \in Seq(Items) /\ Tasks \in Seq(Items)
    BY <2>1 DEF Linked, Items
  <2>3. ListHead \notin ToSet(threads) /\ ListHead \notin ToSet(Tasks)
    BY <2>1 DEF Linked, ToSet
  <2>4. Row(h) \in {threads, Tasks}
    BY <1>2 DEF Row
  <2>5. Row(h) \in Seq(Items) /\ IsInjective(Row(h)) /\ ListHead \notin ToSet(Row(h))
    BY <2>2, <2>3, <2>4 DEF Linked
  <2>6. Places(h) \subseteq DOMAIN Row(h)
    BY <1>2 DEF Places
  <2> QED
    BY <2>5, <2>6
<1> QED
  BY <1>1, <1>2
\* Lists and tables depend on nothing but the kernel's threads.
LEMMA Kernel ==
  ASSUME threads' = threads, NEW h
  PROVE  /\ Row(h)' = Row(h) /\ Places(h)' = Places(h)
         /\ \A p : Gone(h, p)' = Gone(h, p) /\ Link(h, p)' = Link(h, p)
<1>1. Row(h)' = Row(h)
  BY DEF Row
<1>2. Places(h)' = Places(h)
  BY <1>1 DEF Places
<1> QED
  BY <1>1, <1>2 DEF Gone, Link

\* The head links to the first member.
LEMMA FirstLink ==
  ASSUME Linked, NEW h, h \notin DOMAIN InUse, NEW q, q = Link(h, ListHead)
  PROVE  /\ q # ListHead => \E i \in Places(h) : Row(h)[i] = q
         /\ Gone(h, q) = {}
<1> DEFINE A == {i \in Places(h) : ListHead = ListHead \/ \E j \in 1..(i - 1) : Row(h)[j] = ListHead}
<1>0. A = Places(h) /\ q = IF A = {} THEN ListHead ELSE Row(h)[Min(A)]
  BY DEF Link
<1>1. Row(h) \in Seq(Items) /\ IsInjective(Row(h)) /\ A \in SUBSET Nat /\ A \subseteq DOMAIN Row(h)
      /\ ListHead \notin ToSet(Row(h))
  BY <1>0, RowIs
<1> HIDE DEF A
<1>2. CASE A = {}
  BY <1>0, <1>2 DEF Gone
<1>3. CASE A # {}
  <2>1. Min(A) \in A /\ \A y \in A : Min(A) <= y
    BY <1>1, <1>3, MinIs
  <2>2. q = Row(h)[Min(A)] /\ q # ListHead
    BY <1>0, <1>1, <1>3, <2>1 DEF ToSet
  <2>3. \A j \in DOMAIN Row(h) : Row(h)[j] = q => j = Min(A)
    BY <1>1, <2>1, <2>2 DEF IsInjective
  <2>4. \A i \in Places(h) : ~ (i < Min(A))
    BY <1>0, <1>1, <2>1
  <2> QED
    BY <1>0, <2>1, <2>2, <2>3, <2>4 DEF Gone
<1> QED
  BY <1>2, <1>3

\* A member links to the next: a step along the list goes past one member, which
\* comes after those that are gone.
LEMMA NextLinkIs ==
  ASSUME Linked, NEW h, h \notin DOMAIN InUse, NEW k \in Places(h), NEW p, p = Row(h)[k],
         NEW q, q = Link(h, p)
  PROVE  /\ q # ListHead => \E i \in Places(h) : Row(h)[i] = q
         /\ Gone(h, q) = Gone(h, p) \cup {k}
         /\ \A i \in Gone(h, p) : i < k
<1> DEFINE A == {i \in Places(h) : p = ListHead \/ \E j \in 1..(i - 1) : Row(h)[j] = p}
<1>1. Row(h) \in Seq(Items) /\ IsInjective(Row(h)) /\ Places(h) \in SUBSET Nat
      /\ Places(h) \subseteq DOMAIN Row(h) /\ ListHead \notin ToSet(Row(h))
  BY RowIs
<1>2. p # ListHead /\ \A j \in DOMAIN Row(h) : Row(h)[j] = p => j = k
  BY <1>1 DEF IsInjective, ToSet
<1>3. A = {i \in Places(h) : k < i}
  <2>1. \A i \in Places(h) : 1..(i - 1) \subseteq DOMAIN Row(h)
    BY <1>1
  <2>2. k \in Nat \ {0}
    BY <1>1
  <2>3. \A i \in Places(h) : k < i => k \in 1..(i - 1)
    BY <1>1, <2>2
  <2>4. \A i \in Places(h) : \A j \in 1..(i - 1) : j < i
    BY <1>1
  <2> QED
    BY <1>1, <1>2, <2>1, <2>3, <2>4
<1>4. Gone(h, p) = {i \in Places(h) : i < k}
  BY <1>1, <1>2 DEF Gone
<1>5. q = IF A = {} THEN ListHead ELSE Row(h)[Min(A)]
  BY DEF Link
<1> HIDE DEF A
<1>6. CASE A = {}
  <2>1. Gone(h, q) = Places(h)
    BY <1>5, <1>6 DEF Gone
  <2>2. \A i \in Places(h) : i < k \/ i = k
    BY <1>1, <1>3, <1>6
  <2> QED
    BY <1>4, <1>5, <1>6, <2>1, <2>2
<1>7. CASE A # {}
  <2>1. Min(A) \in A /\ \A y \in A : Min(A) <= y
    BY <1>1, <1>3, <1>7, MinIs
  <2>2. q = Row(h)[Min(A)] /\ q # ListHead /\ Min(A) \in Places(h)
    BY <1>1, <1>3, <1>5, <1>7, <2>1 DEF ToSet
  <2>3. \A j \in DOMAIN Row(h) : Row(h)[j] = q => j = Min(A)
    BY <1>1, <2>2 DEF IsInjective
  <2>4. Gone(h, q) = {i \in Places(h) : i < Min(A)}
    <3>1. \A i \in Places(h) : (\E j \in DOMAIN Row(h) : i < j /\ Row(h)[j] = q) <=> i < Min(A)
      BY <1>1, <2>2, <2>3
    <3> QED
      BY <2>2, <3>1 DEF Gone
  <2>5. \A i \in Places(h) : i < Min(A) <=> i < k \/ i = k
    <3>1. k \in Nat /\ Min(A) \in Nat /\ k < Min(A) /\ \A i \in Places(h) : i \in Nat
      BY <1>1, <1>3, <2>1
    <3>2. \A i \in Places(h) : k < i => Min(A) <= i
      BY <1>3, <2>1
    <3> QED
      BY <3>1, <3>2
  <2> QED
    BY <1>4, <2>2, <2>4, <2>5
<1> QED
  BY <1>4, <1>6, <1>7

\* A step along a table goes past one entry.
LEMMA NextEntryIs ==
  ASSUME Linked, NEW h \in DOMAIN InUse, NEW p \in 0..Len(InUse[h]), p < Len(InUse[h])
  PROVE  /\ p + 1 \in DOMAIN Row(h) /\ Row(h)[p + 1] = p + 1 /\ p + 1 \in 0..Len(InUse[h])
         /\ p + 1 \in Places(h) <=> InUse[h][p + 1]
         /\ Gone(h, p + 1) = Gone(h, p) \cup ({p + 1} \cap Places(h))
         /\ \A i \in Gone(h, p) : i < p + 1
<1>1. Places(h) \in SUBSET Nat
  BY RowIs
<1>2. InUse[h] \in Seq(BOOLEAN)
  BY DebuggerAssumption DEF DebuggerAssumption
<1>3. Len(InUse[h]) \in Nat /\ DOMAIN InUse[h] = 1..Len(InUse[h]) /\ p \in Nat
  BY <1>2
<1>4. p + 1 \in DOMAIN InUse[h] /\ p + 1 \in 0..Len(InUse[h])
  BY <1>3
<1>5. Row(h) = [i \in DOMAIN InUse[h] |-> i] /\ Places(h) = {i \in DOMAIN InUse[h] : InUse[h][i]}
  BY DEF Row, Places
<1>6. p + 1 \in DOMAIN Row(h) /\ Row(h)[p + 1] = p + 1 /\ (p + 1 \in Places(h) <=> InUse[h][p + 1])
  BY <1>4, <1>5
<1>7. \A i \in Places(h) : (i <= p + 1 <=> i <= p \/ i = p + 1) /\ (i <= p => i < p + 1)
  BY <1>1, <1>3
<1>8. \A q : Gone(h, q) = {i \in Places(h) : i <= q}
  BY DEF Gone
<1>9. Gone(h, p + 1) = Gone(h, p) \cup ({p + 1} \cap Places(h))
  BY <1>7, <1>8
<1> QED
  BY <1>4, <1>6, <1>7, <1>8, <1>9
-----------------------------------------------------------------------------
(* The commands.                                                           *)

\* What the proofs use of the constants.
LEMMA Constants ==
  /\ MaxTries \in Nat /\ Commands \in Nat
  /\ \A x \in {Bad, ListHead, None} :
       x \notin Threads /\ x \notin TaskSet /\ x \notin Spaces /\ x \notin Others
  /\ \A x \in Others : x \notin Threads /\ x \notin TaskSet /\ x \notin Spaces
                          /\ x \notin {"threads", "tasks", "zones"}
  /\ TaskOf \in [Threads -> TaskSet] /\ SpaceOf \in [TaskSet -> Spaces]
  /\ "threads" \notin DOMAIN InUse /\ "tasks" \notin DOMAIN InUse /\ \A x \in TaskSet : x \notin Threads
<1> USE DebuggerAssumption DEF DebuggerAssumption
<1>1. MaxTries \in Nat /\ Commands \in Nat
  OBVIOUS
<1>2. \A x \in {Bad, ListHead, None} : x \notin Threads /\ x \notin TaskSet /\ x \notin Spaces /\ x \notin Others
  <2>1. {Bad, ListHead, None} \cap (Threads \cup TaskSet \cup Spaces \cup Others) = {}
    OBVIOUS
  <2> QED
    BY ONLY <2>1
<1>3. TaskOf \in [Threads -> TaskSet] /\ SpaceOf \in [TaskSet -> Spaces]
  OBVIOUS
<1>4. "threads" \notin DOMAIN InUse /\ "tasks" \notin DOMAIN InUse /\ \A x \in TaskSet : x \notin Threads
  <2>1. Threads \cap TaskSet = {} /\ (TaskSet \cup {"threads", "tasks"}) \cap DOMAIN InUse = {}
    OBVIOUS
  <2> QED
    BY ONLY <2>1
<1>5. \A x \in Others : x \notin Threads /\ x \notin TaskSet /\ x \notin Spaces
                          /\ x \notin {"threads", "tasks", "zones"}
  <2>1. Others \cap (Threads \cup TaskSet \cup DOMAIN InUse \cup {"threads", "tasks", "zones"}) = {}
    OBVIOUS
  <2> QED
    BY ONLY <2>1 DEF Spaces
<1> QED
  BY <1>1, <1>2, <1>3, <1>4, <1>5

\* The arguments that each command may have.
LEMMA RequestIs ==
  ASSUME NEW rq \in Requests
  PROVE  /\ rq.tries \in (-1)..MaxTries
         /\ rq.cmd \in {"xnu-switch", "xnu-threads", "xnu-threads-user", "xnu-threads-current",
                       "xnu-tasks", "xnu-zones", "xnu-thread-info", "xnu-task-info",
                       "xnu-ipc_entry-list-task", "xnu-ipc_entry-list-space",
                       "xnu-voucher-info", "xnu-ipc-port-info"}
         /\ rq.cmd \in {"xnu-switch", "xnu-thread-info"} => rq.ptr \in {None, Bad} \cup Threads \cup Others
         /\ rq.cmd \in {"xnu-task-info", "xnu-ipc_entry-list-task"} =>
              rq.ptr \in {Bad} \cup TaskSet \cup Others
         /\ rq.cmd = "xnu-threads" => rq.ptr \in {None, Bad} \cup TaskSet \cup Others
         /\ rq.cmd = "xnu-ipc_entry-list-space" => rq.ptr \in {Bad} \cup Spaces \cup Others
         /\ rq.cmd \in {"xnu-voucher-info", "xnu-ipc-port-info"} => rq.ptr \in {Bad} \cup Others
         /\ rq.cmd \in {"xnu-threads-user", "xnu-threads-current", "xnu-tasks", "xnu-zones"} =>
              rq.ptr = None
<1> USE Constants DEF Request
<1>1. CASE rq \in [cmd : {"xnu-switch", "xnu-threads", "xnu-threads-user", "xnu-threads-current",
                         "xnu-tasks", "xnu-zones"}, ptr : {None}, tries : {0}]
  BY <1>1
<1>2. CASE rq \in Request({"xnu-switch"}, Threads, (-1)..MaxTries)
  BY <1>2
<1>3. CASE rq \in Request({"xnu-thread-info"}, Threads, {0})
  BY <1>3
<1>4. CASE rq \in Request({"xnu-threads", "xnu-task-info", "xnu-ipc_entry-list-task"}, TaskSet, {0})
  BY <1>4
<1>5. CASE rq \in Request({"xnu-ipc_entry-list-space"}, Spaces, {0})
  BY <1>5
<1>6. CASE rq \in Request({"xnu-voucher-info", "xnu-ipc-port-info"}, {}, {0})
  BY <1>6
<1> HIDE DEF Request
<1> QED
  BY <1>1, <1>2, <1>3, <1>4, <1>5, <1>6 DEF Requests

\* The heads of the lists and tables a command goes over.
LEMMA WalksAre ==
  ASSUME TypeOK, NEW rq \in Requests, rq.ptr = Bad => rq.cmd \notin Tests,
         rq.cmd \notin {"xnu-voucher-info", "xnu-ipc-port-info"}
  PROVE  Walks(rq) \in Seq(Heads) /\ Walks(rq) # <<>>
<1> USE Constants
<1>0. {"threads", "tasks", "zones"} \subseteq Heads /\ TaskSet \subseteq Heads /\ Spaces \subseteq Heads
      /\ Others \subseteq Heads
  BY DEF Heads
<1>1. TaskOf[current] \in TaskSet
  BY DEF TypeOK
<1>2. Measured \in Seq(Heads)
  BY <1>0 DEF Measured
<1>3. \A h \in Heads : Append(Measured, h) \in Seq(Heads) /\ Append(Measured, h) # <<>>
                       /\ <<"tasks">> \o Append(Measured, h) \in Seq(Heads)
                       /\ <<"tasks">> \o Append(Measured, h) # <<>>
  BY <1>0, <1>2 DEF Measured
<1>4. CASE rq.cmd \in {"xnu-threads", "xnu-threads-user"} /\ rq.ptr = None
  BY <1>0, <1>3, <1>4 DEF Walks
<1>5. CASE rq.cmd = "xnu-threads-current"
  BY <1>0, <1>1, <1>3, <1>5 DEF Walks
<1>6. CASE rq.cmd = "xnu-threads" /\ rq.ptr # None
  BY <1>0, <1>3, <1>6, RequestIs DEF Walks, Tests
<1>7. CASE rq.cmd \in {"xnu-switch", "xnu-thread-info"}
  BY <1>0, <1>7 DEF Walks
<1>8. CASE rq.cmd \in {"xnu-tasks", "xnu-zones", "xnu-task-info"}
  BY <1>0, <1>8 DEF Walks
<1>10. CASE rq.cmd \in {"xnu-ipc_entry-list-task", "xnu-ipc_entry-list-space"}
  <2>1. rq.cmd = "xnu-ipc_entry-list-task" => (IF rq.ptr \in TaskSet THEN SpaceOf[rq.ptr] ELSE rq.ptr) \in Heads
    BY <1>0, RequestIs DEF Tests
  <2>2. rq.cmd = "xnu-ipc_entry-list-space" => rq.ptr \in Heads
    BY <1>0, RequestIs DEF Tests
  <2> QED
    BY <1>0, <1>10, <2>1, <2>2 DEF Walks
<1>11. rq.cmd = "xnu-threads-user" => rq.ptr = None
  BY RequestIs
<1> QED
  BY <1>4, <1>5, <1>6, <1>7, <1>8, <1>10, <1>11, RequestIs DEF Tests
\* The lists that names are measured in, and one more, as they are, and after that
\* of the tasks.
LEMMA MeasuredIs ==
  \A h : LET m == Append(Measured, h)
             w == <<"tasks">> \o m
         IN /\ Len(m) = 4 /\ m[1] = "tasks" /\ m[2] = "threads" /\ m[3] = "threads" /\ m[4] = h
            /\ Len(w) = 5 /\ w[1] = "tasks" /\ \A i \in 1..4 : w[i + 1] = m[i]
<1> SUFFICES ASSUME NEW h
             PROVE  LET m == Append(Measured, h)
                        w == <<"tasks">> \o m
                    IN /\ Len(m) = 4 /\ m[1] = "tasks" /\ m[2] = "threads" /\ m[3] = "threads" /\ m[4] = h
                       /\ Len(w) = 5 /\ w[1] = "tasks" /\ \A i \in 1..4 : w[i + 1] = m[i]
  OBVIOUS
<1> DEFINE S == {"tasks", "threads", h}  s == Measured  m == Append(s, h)  f == <<"tasks">>  w == f \o m
<1>1. s \in Seq(S) /\ Len(s) = 3 /\ s[1] = "tasks" /\ s[2] = "threads" /\ s[3] = "threads" /\ h \in S
  BY DEF Measured
<1>2. f \in Seq(S) /\ Len(f) = 1 /\ f[1] = "tasks"
  OBVIOUS
<1> HIDE DEF s, S, f
<1>3. m \in Seq(S) /\ Len(m) = Len(s) + 1 /\ (\A i \in 1..Len(s) : m[i] = s[i]) /\ m[Len(s) + 1] = h
  <2>1. \A q \in Seq(S), x \in S :
          /\ Append(q, x) \in Seq(S) /\ Len(Append(q, x)) = Len(q) + 1
          /\ (\A i \in 1..Len(q) : Append(q, x)[i] = q[i]) /\ Append(q, x)[Len(q) + 1] = x
    BY AppendProperties
  <2>2. s \in Seq(S) /\ h \in S
    BY <1>1 DEF S
  <2> QED
    BY <2>1, <2>2, Zenon
<1> HIDE DEF m
<1>4. Len(m) = 4 /\ m[1] = "tasks" /\ m[2] = "threads" /\ m[3] = "threads" /\ m[4] = h
  BY <1>1, <1>3
<1>5. Len(w) = Len(f) + Len(m) /\ \A i \in 1..(Len(f) + Len(m)) : w[i] = IF i <= Len(f) THEN f[i] ELSE m[i - Len(f)]
  BY <1>2, <1>3, ConcatProperties, Zenon
<1> HIDE DEF w
<1>6. Len(w) = 5 /\ w[1] = "tasks" /\ \A i \in 1..4 : w[i + 1] = m[i]
  BY <1>2, <1>4, <1>5
<1> QED
  BY <1>4, <1>6 DEF m, w, f, s

\* A command about a task goes over the list of the tasks first, and the last of its
\* lists is what the pointer stands for, or, for xnu-task-info, that of the tasks.
LEMMA LastWalk ==
  ASSUME NEW rq, rq.cmd = "xnu-threads" => rq.ptr # None, NEW w, w = Walks(rq)
  PROVE  /\ rq.cmd \in {"xnu-threads", "xnu-task-info", "xnu-ipc_entry-list-task"} => w[1] = "tasks"
         /\ rq.cmd = "xnu-threads" => w[Len(w)] = rq.ptr
         /\ rq.cmd = "xnu-ipc_entry-list-task" =>
              w[Len(w)] = IF rq.ptr \in TaskSet THEN SpaceOf[rq.ptr] ELSE rq.ptr
         /\ rq.cmd = "xnu-ipc_entry-list-space" => w[Len(w)] = rq.ptr
         /\ rq.cmd = "xnu-task-info" => w = <<"tasks">>
         /\ rq.cmd \in {"xnu-switch", "xnu-thread-info"} => w = <<"threads">>
<1>1. CASE rq.cmd = "xnu-threads"
  <2>1. w = <<"tasks">> \o Append(Measured, rq.ptr)
    BY <1>1 DEF Walks
  <2>2. Len(w) = 5 /\ w[1] = "tasks" /\ w[4 + 1] = rq.ptr
    BY <2>1, MeasuredIs, 4 \in 1..4
  <2> QED
    BY <1>1, <2>2
<1>2. CASE rq.cmd # "xnu-threads"
  BY <1>2 DEF Walks
<1> QED
  BY <1>1, <1>2

-----------------------------------------------------------------------------
(* The walks.                                                              *)

\* What has been printed stays whole while the kernel is stopped.
LEMMA ListsKept ==
  ASSUME ListsWhole, threads' = threads, UNCHANGED <<walks, seen, req>>, said' = "list" => said = "list"
  PROVE  ListsWhole'
<1> SUFFICES ASSUME said' = "list" PROVE ToSet(seen)' = Kept(walks[1])' /\ InOrder(walks[1])'
  BY DEF ListsWhole
<1>1. ToSet(seen) = Kept(walks[1]) /\ InOrder(walks[1])
  BY DEF ListsWhole
<1>2. Row(walks[1])' = Row(walks[1]) /\ Places(walks[1])' = Places(walks[1])
  BY DEF Row, Places
<1> QED
  BY <1>1, <1>2 DEF Kept, InOrder

\* No list is found through a pointer to nothing of the kind, which is not the first
\* thing a command about a task looks at.
LEMMA NoList ==
  ASSUME TypeOK, NEW rq \in Requests, NEW w, w = Walks(rq), NEW i \in 1..Len(w), w[i] \in Others,
         rq.cmd \notin {"xnu-voucher-info", "xnu-ipc-port-info"}
  PROVE  /\ rq.ptr \in Others /\ rq.ptr # None
         /\ \/ rq.cmd = "xnu-ipc_entry-list-space"
            \/ rq.cmd \in {"xnu-threads", "xnu-ipc_entry-list-task"} /\ i # 1
<1> USE Constants
<1>2. TaskOf[current] \notin Others
  BY DEF TypeOK
<1>3. \A h : h \notin Others /\ w = Append(Measured, h) => FALSE
  <2> SUFFICES ASSUME NEW h, h \notin Others, w = Append(Measured, h) PROVE FALSE
    OBVIOUS
  <2>1. Len(w) = 4 /\ w[1] = "tasks" /\ w[2] = "threads" /\ w[3] = "threads" /\ w[4] = h
    BY MeasuredIs
  <2> QED
    BY <2>1
<1>4. CASE rq.cmd \in {"xnu-threads", "xnu-threads-user"} /\ rq.ptr = None
  BY <1>3, <1>4 DEF Walks
<1>5. CASE rq.cmd = "xnu-threads-current"
  BY <1>2, <1>3, <1>5 DEF Walks
<1>6. CASE rq.cmd = "xnu-threads" /\ rq.ptr # None
  <2> DEFINE m == Append(Measured, rq.ptr)
  <2>1. w = <<"tasks">> \o m
    BY <1>6 DEF Walks
  <2>2. /\ m[1] = "tasks" /\ m[2] = "threads" /\ m[3] = "threads" /\ m[4] = rq.ptr
        /\ Len(w) = 5 /\ w[1] = "tasks" /\ \A n \in 1..4 : w[n + 1] = m[n]
    BY <2>1, MeasuredIs
  <2> HIDE DEF m
  <2>3. i \in {1, 2, 3, 4, 5} /\ w[2] = m[1] /\ w[3] = m[2] /\ w[4] = m[3] /\ w[5] = m[4]
    BY <2>2
  <2> QED
    BY <1>6, <2>2, <2>3
<1>7. CASE rq.cmd \in {"xnu-switch", "xnu-thread-info"}
  BY <1>7 DEF Walks
<1>8. CASE rq.cmd \in {"xnu-tasks", "xnu-zones", "xnu-task-info"}
  BY <1>8 DEF Walks
<1>9. CASE rq.cmd = "xnu-ipc_entry-list-task"
  <2>1. w = <<"tasks", IF rq.ptr \in TaskSet THEN SpaceOf[rq.ptr] ELSE rq.ptr>>
    BY <1>9 DEF Walks
  <2>2. rq.ptr \in TaskSet => SpaceOf[rq.ptr] \notin Others
    OBVIOUS
  <2> QED
    BY <1>9, <2>1, <2>2
<1>10. CASE rq.cmd = "xnu-ipc_entry-list-space"
  <2>1. w = <<rq.ptr>>
    BY <1>10 DEF Walks
  <2> QED
    BY <1>10, <2>1
<1>11. rq.cmd = "xnu-threads-user" => rq.ptr = None
  BY RequestIs
<1> QED
  BY <1>4, <1>5, <1>6, <1>7, <1>8, <1>9, <1>10, <1>11, RequestIs

\* What a command goes over stays so while the kernel is stopped, and so does what
\* is left of it.
LEMMA WalksKept ==
  ASSUME Walking, UNCHANGED <<current, req, walks, stops>>,
         pc' \in {"iter", "next"} => pc \in {"iter", "next"},
         pc' = "next" => walks[1] \notin Others
  PROVE  Walking' /\ (Warned /\ said' = said => Warned')
<1>1. Walks(req)' = Walks(req)
  BY DEF Walks
<1>2. Rest(Walks(req))' = Rest(Walks(req))
  BY <1>1 DEF Rest
<1> QED
  BY <1>1, <1>2 DEF Walking, Warned

LEMMA IterStep == ASSUME IInv, Iter PROVE IInv'
<1> DEFINE h == walks[1]
<1>1. Linked /\ threads' = threads /\ walks' = walks /\ pc = "iter" /\ pc' = "next" /\ seen' = <<>>
      /\ UNCHANGED <<running, points, asked, walks, wait, said, failed, kernel>> /\ ~running
  BY DEF Iter, Goto, IInv, kernel
<1>2. TypeOK' /\ Linked' /\ Answers' /\ Counting' /\ Untouched'
  BY <1>1
  DEF IInv, TypeOK, Linked, Answers, Counting, Untouched, Waits, points, asked, wait, kernel
<1>3. Walking' /\ Warned'
  BY <1>1, WalksKept DEF IInv, Iter, asked, wait, kernel
<1>4. Iterating'
  <2>1. IF IsTable THEN ptr' = 0 ELSE ptr' = Link(h, ListHead)
    BY DEF Iter
  <2>2. Row(h)' = Row(h) /\ Places(h)' = Places(h) /\ Gone(h, ptr') = {} /\ IsTable' = IsTable
    <3>1. IsTable => Gone(h, 0) = {}
      BY <1>1, RowIs DEF Gone, IsTable
    <3> QED
      BY <1>1, <2>1, <3>1, Kernel, FirstLink DEF IsTable
  <2>6. IsTable => 0 \in 0..Len(InUse[h])
    <3>1. IsTable => InUse[h] \in Seq(BOOLEAN)
      BY DebuggerAssumption DEF DebuggerAssumption, IsTable
    <3> QED
      BY <3>1
  <2>3. IF IsTable THEN ptr' \in 0..Len(InUse[h])
        ELSE ptr' # ListHead => \E i \in Places(h) : Row(h)[i] = ptr'
    BY <1>1, <2>1, <2>6, FirstLink DEF IsTable
  <2>4. Gone(h, ptr)' = {}
    BY <1>1, <2>2 DEF Gone
  <2>5. ToSet(seen') = {} /\ InOrder(h)' /\ seen' \in Seq(Items)
    BY <1>1 DEF ToSet, InOrder
  <2> QED
    BY <1>1, <2>2, <2>3, <2>4, <2>5 DEF Iterating
<1>5. AnswersRight'
  BY <1>1 DEF asked, IInv, AnswersRight, Answers, ListsWhole, FindsListed, StopsAtSwitches, wait
<1> QED
  BY <1>2, <1>3, <1>4, <1>5 DEF IInv
\* An item is returned, unless it is not shown, and the iterator goes past its
\* place.
LEMMA ReturnStep ==
  ASSUME IInv, Goto("next", "next"), NEW k \in DOMAIN Row(walks[1]), NEW item, item = Row(walks[1])[k],
         NEW next, Return(item, next),
         IF IsTable THEN next \in 0..Len(InUse[walks[1]])
         ELSE next # ListHead => \E i \in Places(walks[1]) : Row(walks[1])[i] = next,
         Shown(item) <=> k \in Places(walks[1]) /\ Took(item),
         Gone(walks[1], next) = Gone(walks[1], ptr) \cup ({k} \cap Places(walks[1])),
         \A i \in Gone(walks[1], ptr) : i < k
  PROVE  IInv'
<1> DEFINE h == walks[1]
<1>1. /\ Linked /\ pc = "next" /\ pc' = "next" /\ ~running
      /\ UNCHANGED <<running, points, asked, walks, wait, said, failed, kernel>>
      /\ walks' = walks /\ threads' = threads /\ req' = req /\ ptr' = next
  BY DEF Return, Goto, IInv, kernel, asked
<1>2. TypeOK' /\ Linked' /\ Answers' /\ Counting' /\ Untouched'
  BY <1>1
  DEF IInv, TypeOK, Linked, Answers, Counting, Untouched, Waits, points, asked, wait, kernel
<1>3. Walking' /\ Warned'
  BY <1>1, WalksKept DEF IInv, Walking, asked, wait, kernel
<1>4. Iterating'
  <2>1. Row(h) \in Seq(Items) /\ IsInjective(Row(h)) /\ Places(h) \subseteq DOMAIN Row(h)
        /\ Places(h) \in SUBSET Nat /\ k \in DOMAIN Row(h) /\ item \in Items
    BY <1>1, RowIs
  <2>2. /\ seen \in Seq(Items) /\ InOrder(h)
        /\ ToSet(seen) = {x \in {Row(h)[i] : i \in Gone(h, ptr)} : Took(x)}
    BY <1>1 DEF IInv, Iterating
  <2>3. Row(h)' = Row(h) /\ Places(h)' = Places(h) /\ Gone(h, ptr)' = Gone(h, next)
        /\ IsTable' = IsTable /\ \A x : Took(x)' = Took(x)
    BY <1>1, Kernel DEF Gone, IsTable, Took, asked
  <2>4. seen' = IF Shown(item) THEN Append(seen, item) ELSE seen
    BY DEF Return
  <2>5. seen' \in Seq(Items) /\ ToSet(seen') = IF Shown(item) THEN ToSet(seen) \cup {item} ELSE ToSet(seen)
    <3>1. CASE Shown(item)
      <4>1. seen' \in Seq(Items) /\ Len(seen') = Len(seen) + 1 /\ seen'[Len(seen) + 1] = item
            /\ \A n \in 1..Len(seen) : seen'[n] = seen[n]
        BY <2>1, <2>2, <2>4, <3>1
      <4>2. DOMAIN seen' = DOMAIN seen \cup {Len(seen) + 1}
        BY <2>2, <4>1
      <4> QED
        BY <2>2, <3>1, <4>1, <4>2 DEF ToSet
    <3>2. CASE ~Shown(item)
      BY <2>2, <2>4, <3>2 DEF ToSet
    <3> QED
      BY <3>1, <3>2
  <2>6. ToSet(seen') = {x \in {Row(h)[i] : i \in Gone(h, next)} : Took(x)}
    <3>1. CASE k \in Places(h)
      BY <2>2, <2>5, <3>1
    <3>2. CASE k \notin Places(h)
      BY <2>2, <2>5, <3>2
    <3> QED
      BY <3>1, <3>2
  <2>7. InOrder(h)'
    <3>1. ASSUME NEW m \in DOMAIN seen', NEW n \in DOMAIN seen', m < n
          PROVE  \E i, j \in DOMAIN Row(h) : i < j /\ Row(h)[i] = seen'[m] /\ Row(h)[j] = seen'[n]
      <4>1. CASE ~Shown(item) \/ n # Len(seen) + 1
        <5>1. m \in DOMAIN seen /\ n \in DOMAIN seen /\ seen'[m] = seen[m] /\ seen'[n] = seen[n]
          BY <2>1, <2>2, <2>4, <3>1, <4>1
        <5> QED
          BY <2>2, <3>1, <5>1 DEF InOrder
      <4>2. CASE Shown(item) /\ n = Len(seen) + 1
        <5>1. m \in DOMAIN seen /\ seen'[m] = seen[m] /\ seen'[n] = item
          BY <2>1, <2>2, <2>4, <3>1, <4>2
        <5>2. seen[m] \in ToSet(seen)
          BY <5>1 DEF ToSet
        <5>3. PICK i \in Gone(h, ptr) : Row(h)[i] = seen[m]
          BY <2>2, <5>2
        <5>4. i < k /\ i \in DOMAIN Row(h)
          BY <2>1, <5>3 DEF Gone
        <5> QED
          BY <2>1, <5>1, <5>3, <5>4
      <4> QED
        BY <4>1, <4>2
    <3> QED
      BY <1>1, <2>3, <3>1 DEF InOrder
  <2> QED
    BY <1>1, <2>3, <2>5, <2>6, <2>7 DEF Iterating
<1>5. AnswersRight'
  BY <1>1 DEF asked, IInv, AnswersRight, Answers, ListsWhole, FindsListed, StopsAtSwitches, wait
<1> QED
  BY <1>2, <1>3, <1>4, <1>5 DEF IInv

LEMMA NextItemStep == ASSUME IInv, NextItem PROVE IInv'
<1> DEFINE h == walks[1]
<1>1. Linked /\ pc = "next" /\ ~IsTable /\ ptr # ListHead /\ Goto("next", "next") /\ Return(ptr, Link(h, ptr))
  BY DEF NextItem, Goto, IInv
<1>2. PICK k \in Places(h) : ptr = Row(h)[k]
  BY <1>1 DEF IInv, Iterating
<1>3. /\ Link(h, ptr) # ListHead => \E i \in Places(h) : Row(h)[i] = Link(h, ptr)
      /\ Gone(h, Link(h, ptr)) = Gone(h, ptr) \cup {k}
      /\ \A i \in Gone(h, ptr) : i < k
  BY <1>1, <1>2, NextLinkIs DEF IsTable
<1>4. {k} = {k} \cap Places(h) /\ (Shown(ptr) <=> k \in Places(h) /\ Took(ptr))
  BY <1>1 DEF Shown, Took
<1>5. k \in DOMAIN Row(h)
  BY <1>1, RowIs
<1> QED
  BY <1>1, <1>2, <1>3, <1>4, <1>5, ReturnStep

LEMMA NextEntryStep == ASSUME IInv, NextEntry PROVE IInv'
<1> DEFINE h == walks[1]  k == ptr + 1
<1>1. Linked /\ pc = "next" /\ IsTable /\ ptr < Len(InUse[h]) /\ Goto("next", "next") /\ Return(k, k)
  BY DEF NextEntry, Goto, IInv
<1>2. ptr \in 0..Len(InUse[h]) /\ h \in DOMAIN InUse
  BY <1>1 DEF IInv, Iterating, IsTable
<1>3. /\ k \in DOMAIN Row(h) /\ Row(h)[k] = k /\ k \in 0..Len(InUse[h])
      /\ k \in Places(h) <=> InUse[h][k]
      /\ Gone(h, k) = Gone(h, ptr) \cup ({k} \cap Places(h))
      /\ \A i \in Gone(h, ptr) : i < k
  BY <1>1, <1>2, NextEntryIs
<1>4. Shown(k) <=> k \in Places(h) /\ Took(k)
  BY <1>1, <1>3 DEF Shown, Took
<1> HIDE DEF k
<1> QED
  BY <1>1, <1>3, <1>4, ReturnStep

\* At the end of a list or table all of it has been returned.
LEMMA WalkWhole ==
  ASSUME IInv, pc = "next", IF IsTable THEN ptr = Len(InUse[walks[1]]) ELSE ptr = ListHead
  PROVE  /\ ToSet(seen) = {x \in {Row(walks[1])[i] : i \in Places(walks[1])} : Took(x)}
         /\ InOrder(walks[1])
<1> DEFINE h == walks[1]
<1>1. Linked /\ InOrder(h) /\ ToSet(seen) = {x \in {Row(h)[i] : i \in Gone(h, ptr)} : Took(x)}
  BY DEF IInv, Iterating
<1>2. Gone(h, ptr) = Places(h)
  <2>1. CASE IsTable
    <3>1. InUse[h] \in Seq(BOOLEAN) /\ ptr = Len(InUse[h])
      BY <2>1, DebuggerAssumption DEF DebuggerAssumption, IsTable
    <3>2. DOMAIN InUse[h] = 1..ptr
      BY <3>1
    <3>3. Places(h) \subseteq 1..ptr
      BY <2>1, <3>2 DEF Places, IsTable
    <3>4. Places(h) \in SUBSET Nat
      BY <1>1, RowIs
    <3>5. \A i \in Places(h) : i <= ptr
      BY <3>3, <3>4
    <3> QED
      BY <2>1, <3>5 DEF Gone, IsTable
  <2>2. CASE ~IsTable
    BY <2>2 DEF Gone, IsTable
  <2> QED
    BY <2>1, <2>2
<1> QED
  BY <1>1, <1>2

\* What the command has been over when it is at the end of its first or last list.
LEMMA WalkIs ==
  ASSUME IInv, pc = "next", NEW w, w = Walks(req)
  PROVE  /\ Len(walks) = 1 => walks[1] = w[Len(w)]
         /\ Len(walks) = Len(w) => walks[1] = w[1]
<1>1. Rest(w) /\ w \in Seq(Heads) /\ walks \in Seq(Heads) /\ walks # <<>>
  BY DEF IInv, Walking
<1>2. Len(w) \in Nat /\ Len(walks) \in Nat \ {0}
  BY <1>1
<1>3. walks[1] = w[1 + (Len(w) - Len(walks))]
  BY <1>1, <1>2 DEF Rest
<1>4. 1 + (Len(w) - 1) = Len(w) /\ 1 + (Len(w) - Len(w)) = 1
  BY <1>2
<1> QED
  BY <1>3, <1>4

\* A task is looked for among the tasks.
LEMMA ExistsIs ==
  ASSUME IInv, pc = "next", IF IsTable THEN ptr = Len(InUse[walks[1]]) ELSE ptr = ListHead,
         req.cmd \in {"xnu-threads", "xnu-task-info", "xnu-ipc_entry-list-task"}, req.ptr # None,
         Len(walks) = Len(Walks(req))
  PROVE  Exists <=> req.ptr \in TaskSet
<1>1. walks[1] = "tasks"
  BY WalkIs, LastWalk
<1>2. \A x : Took(x)
  BY DEF Took
<1>3. Row("tasks") = Tasks /\ Places("tasks") = DOMAIN Tasks
  BY Constants DEF Row, Places
<1>4. ToSet(seen) = {Tasks[i] : i \in DOMAIN Tasks}
  BY <1>1, <1>2, <1>3, WalkWhole
<1> QED
  BY <1>4 DEF Exists, TaskSet, ToSet

\* What is left of a sequence without its head.
LEMMA TailIs ==
  ASSUME NEW S, NEW s \in Seq(S), s # <<>>
  PROVE  Len(s) \in Nat \ {0} /\ Tail(s) \in Seq(S) /\ Len(Tail(s)) = Len(s) - 1
<1>1. Tail(s) \in Seq(S) /\ Len(Tail(s)) = Len(s) - 1
  BY HeadTailProperties, Zenon
<1>2. Len(s) \in Nat /\ Len(Tail(s)) \in Nat
  BY <1>1
<1> QED
  BY <1>1, <1>2

LEMMA EndWalkStep == ASSUME IInv, EndWalk PROVE IInv'
<1>1. /\ TypeOK /\ Linked /\ pc = "next" /\ pc' = AfterWalk[1] /\ said' = AfterWalk[2] /\ ~running
      /\ threads' = threads /\ UNCHANGED <<running, points, asked, ptr, seen, wait, failed, kernel>>
      /\ walks' = IF Len(walks) > 1 THEN Tail(walks) ELSE walks
      /\ said \in {"nothing", "doubted"} /\ walks \in Seq(Heads) /\ walks # <<>> /\ stops = 0
      /\ seen \in Seq(Items)
  BY DEF EndWalk, Goto, IInv, kernel, Answers, Walking, Warned, Iterating
<1>0. Len(walks) \in Nat \ {0} /\ Tail(walks) \in Seq(Heads) /\ Len(Tail(walks)) = Len(walks) - 1
  BY <1>1, TailIs, Zenon
<1>2. CASE Len(walks) > 1
  <2>1. pc' = "iter" /\ walks' = Tail(walks) /\ said' = IF Doubts THEN "doubted" ELSE said
    BY <1>1, <1>2 DEF AfterWalk
  <2>2. walks' \in Seq(Heads) /\ Len(walks') = Len(walks) - 1 /\ Len(walks) \in Nat
    BY <1>0, <2>1
  <2>3. walks' # <<>>
    <3>1. Len(<<>>) = 0
      OBVIOUS
    <3>2. Len(walks') # 0
      <4>1. \A n \in Nat : n > 1 => n - 1 # 0
        OBVIOUS
      <4> QED
        BY <1>2, <2>2, <4>1, Zenon
    <3> QED
      BY <3>1, <3>2, Zenon
  <2>4. Walking'
    <3>1. Walks(req)' = Walks(req)
      BY <1>1 DEF Walks, asked, kernel
    <3> DEFINE w == Walks(req)
    <3>2. w \in Seq(Heads) /\ Len(walks) <= Len(w)
          /\ \A i \in 1..Len(walks) : walks[i] = w[i + (Len(w) - Len(walks))]
      BY <1>1 DEF IInv, Walking, Rest
    <3> HIDE DEF w
    <3>3. Len(w) \in Nat
      BY <3>2
    <3>4. \A i \in 1..Len(walks') : walks'[i] = walks[i + 1]
      <4>1. Len(walks) # 0
        BY <1>0
      <4> QED
        BY <1>1, <2>1, <2>2, <4>1
    <3>5. \A i \in 1..Len(walks') : walks'[i] = w[i + (Len(w) - Len(walks'))]
      <4>1. ASSUME NEW i \in 1..Len(walks') PROVE walks'[i] = w[i + (Len(w) - Len(walks'))]
        <5>1. i + 1 \in 1..Len(walks) /\ (i + 1) + (Len(w) - Len(walks)) = i + (Len(w) - Len(walks'))
          BY <2>2, <3>3
        <5> QED
          BY <3>2, <3>4, <5>1
      <4> QED
        BY <4>1
    <3>6. Len(walks') <= Len(w)
      BY <2>2, <3>2, <3>3
    <3>7. Rest(Walks(req))'
      BY <3>1, <3>5, <3>6 DEF Rest, w
    <3>8. stops' = 0 /\ req' = req
      BY <1>1 DEF asked, wait
    <3> QED
      BY <1>1, <2>1, <2>2, <2>3, <3>1, <3>7, <3>8 DEF IInv, Walking
  <2>7. Warned'
    <3>1. Walks(req)' = Walks(req) /\ req' = req
      BY <1>1 DEF Walks, asked, kernel
    <3> SUFFICES ASSUME req.cmd \in {"xnu-threads", "xnu-ipc_entry-list-task"}, req.ptr # None,
                        req.ptr \notin TaskSet
                 PROVE  said' = "doubted"
      BY <3>1 DEF Warned
    <3>2. Rest(Walks(req)) /\ Walks(req) \in Seq(Heads)
      BY <1>1 DEF IInv, Walking
    <3>3. Len(walks) = Len(Walks(req)) \/ Len(walks) < Len(Walks(req))
      BY <1>0, <3>2 DEF Rest
    <3>4. CASE Len(walks) = Len(Walks(req))
      BY <1>1, <2>1, <3>4, ExistsIs DEF Doubts, EndWalk
    <3>5. CASE Len(walks) < Len(Walks(req))
      BY <1>1, <2>1, <3>5 DEF IInv, Warned
    <3> QED
      BY <3>3, <3>4, <3>5
  <2>5. TypeOK' /\ Linked' /\ Answers' /\ Counting' /\ Untouched' /\ Iterating'
    BY <1>1, <2>1
    DEF IInv, TypeOK, Linked, Answers, Counting, Untouched, Iterating, Waits, points, asked, wait, kernel
  <2>6. AnswersRight'
    <3>1. Doubts => req.ptr \notin TaskSet
      BY <1>1, ExistsIs DEF Doubts, EndWalk
    <3>2. said = "doubted" => req.ptr \notin TaskSet
      BY DEF IInv, AnswersRight, FindsListed
    <3>3. req' = req /\ said' \in {"nothing", "doubted"} /\ pc' = "iter"
      BY <1>1, <2>1 DEF asked
    <3>4. FindsListed'
      BY <2>1, <3>1, <3>2, <3>3 DEF FindsListed
    <3> QED
      BY <3>3, <3>4 DEF AnswersRight, ListsWhole, StopsAtSwitches
  <2> QED
    BY <2>4, <2>5, <2>6, <2>7 DEF IInv
<1>3. CASE ~(Len(walks) > 1)
  <2>1. Len(walks) = 1 /\ walks' = walks
    BY <1>0, <1>1, <1>3
  <2>2. /\ ToSet(seen) = {x \in {Row(walks[1])[i] : i \in Places(walks[1])} : Took(x)}
        /\ InOrder(walks[1])
    BY <1>1, WalkWhole DEF EndWalk
  <2>3. /\ pc' \in {"prompt", "begin"} /\ said' \in {"waiting", "usage", "info", "missing", "doubted", "list"}
        /\ pc' = "begin" => said' = "waiting"
    <3>1. AfterWalk \in {<<"begin", "waiting">>, <<"prompt", "usage">>, <<"prompt", "info">>,
                         <<"prompt", "missing">>, <<"prompt", "doubted">>, <<"prompt", "list">>}
      BY <1>3 DEF AfterWalk
    <3> QED
      BY <1>1, <3>1
  <2>4. TypeOK' /\ Linked' /\ Answers' /\ Counting' /\ Untouched' /\ Iterating' /\ Walking' /\ Warned'
    BY <1>1, <2>1, <2>3
    DEF IInv, TypeOK, Linked, Answers, Counting, Untouched, Iterating, Walking, Warned, Waits, points, asked,
        wait, kernel
  <2>5. ListsWhole'
    <3>1. ToSet(seen) = Kept(walks[1])
      BY <2>1, <2>2 DEF Kept, Took
    <3>2. Row(walks[1])' = Row(walks[1]) /\ Places(walks[1])' = Places(walks[1])
      BY <1>1, <2>1, Kernel
    <3> QED
      BY <1>1, <2>1, <2>2, <3>1, <3>2 DEF ListsWhole, Kept, InOrder, asked
  <2>6. FindsListed'
    <3> DEFINE w == Walks(req)
    <3>1. req' = req /\ ToSet(threads)' = ToSet(threads)
      BY <1>1 DEF asked, ToSet
    <3>2. walks[1] = w[Len(w)] /\ walks[1] \notin Others /\ req \in Requests
          /\ (req.ptr = Bad => req.cmd \notin Tests)
          /\ req.cmd \notin {"xnu-voucher-info", "xnu-ipc-port-info"}
      BY <1>1, <2>1, WalkIs DEF IInv, Walking
    <3>3. CASE req.cmd \in {"xnu-switch", "xnu-thread-info"}
      <4>1. w = <<"threads">>
        BY <3>3, LastWalk
      <4>2. walks[1] = "threads"
        BY <3>2, <4>1
      <4>3. ToSet(seen) = ToSet(threads)
        BY <2>2, <3>3, <4>2, Constants DEF Row, Places, ToSet, Took
      <4>4. /\ said' = "info" => Exists /\ req.cmd = "xnu-thread-info"
            /\ said' \in {"usage", "missing"} => ~Exists
            /\ pc' = "begin" => Exists
            /\ said' \in {"waiting", "usage", "info", "missing"}
        BY <1>1, <1>3, <3>3 DEF AfterWalk
      <4> QED
        BY <3>1, <4>3, <4>4 DEF Exists, FindsListed
    <3>4. CASE req.cmd = "xnu-task-info"
      <4>1. w = <<"tasks">> /\ req.ptr # None
        <5>1. w = <<"tasks">>
          BY <3>4, LastWalk
        <5>2. req.ptr \in TaskSet \cup Others
          BY <3>2, <3>4, RequestIs DEF Tests
        <5> QED
          BY <5>1, <5>2, Constants
      <4>2. Len(walks) = Len(w)
        BY <2>1, <4>1
      <4>3. Doubts <=> req.ptr \notin TaskSet
        BY <1>1, <3>4, <4>1, <4>2, ExistsIs DEF Doubts, EndWalk
      <4>4. pc' = "prompt" /\ said' = IF Doubts THEN "doubted" ELSE "info"
        BY <1>1, <1>3, <3>4 DEF AfterWalk
      <4> QED
        BY <3>1, <3>4, <4>3, <4>4 DEF FindsListed
    <3>5. CASE req.cmd \notin {"xnu-switch", "xnu-thread-info", "xnu-task-info"}
      <4>1. pc' = "prompt" /\ said' = "list"
        BY <1>1, <1>3, <3>5 DEF AfterWalk
      <4>2. req.ptr # None =>
              req.ptr \in IF req.cmd = "xnu-ipc_entry-list-space" THEN Spaces ELSE TaskSet
        <5> SUFFICES ASSUME req.ptr # None
                     PROVE  req.ptr \in IF req.cmd = "xnu-ipc_entry-list-space" THEN Spaces ELSE TaskSet
          OBVIOUS
        <5>1. req.cmd \in {"xnu-threads", "xnu-ipc_entry-list-task", "xnu-ipc_entry-list-space"}
          BY <3>2, <3>5, RequestIs
        <5>2. req.ptr # Bad
          BY <3>2, <5>1 DEF Tests
        <5>3. req.ptr \notin TaskSet => w[Len(w)] = req.ptr
          <6>1. req.cmd \in {"xnu-threads", "xnu-ipc_entry-list-space"} => w[Len(w)] = req.ptr
            BY LastWalk
          <6>2. req.cmd = "xnu-ipc_entry-list-task" =>
                  w[Len(w)] = IF req.ptr \in TaskSet THEN SpaceOf[req.ptr] ELSE req.ptr
            BY LastWalk
          <6> QED
            BY <5>1, <6>1, <6>2
        <5>4. req.ptr \notin TaskSet => req.ptr \notin Others
          BY <3>2, <5>3
        <5>5. req.cmd = "xnu-ipc_entry-list-space" => w[Len(w)] = req.ptr
          BY LastWalk
        <5> QED
          BY <3>2, <5>1, <5>2, <5>4, <5>5, RequestIs
      <4> QED
        BY <3>1, <4>1, <4>2 DEF FindsListed
    <3> QED
      BY <3>3, <3>4, <3>5
  <2>7. StopsAtSwitches'
    BY <2>3 DEF StopsAtSwitches
  <2> QED
    BY <2>4, <2>5, <2>6, <2>7 DEF IInv, AnswersRight
<1> QED
  BY <1>2, <1>3
-----------------------------------------------------------------------------
(* The prompt.                                                             *)

LEMMA CommandStep == ASSUME IInv, Command PROVE IInv'
<1>1. PICK rq \in Requests, kernelSpace \in BOOLEAN :
        LET refused == ~kernelSpace \/ (rq.ptr = Bad /\ rq.cmd \in Tests)
            read    == rq.cmd \in {"xnu-voucher-info", "xnu-ipc-port-info"}
        IN /\ Goto("prompt", IF refused \/ read THEN "prompt"
                             ELSE IF rq.cmd = "xnu-switch" /\ rq.ptr = None THEN "begin" ELSE "iter")
           /\ said' = IF refused THEN "refused" ELSE IF read THEN "info" ELSE "nothing"
           /\ req' = rq
           /\ walks' = IF refused \/ read THEN <<>> ELSE Walks(rq)
  BY DEF Command
<1>2. /\ TypeOK /\ Linked /\ pc = "prompt" /\ ~running /\ threads' = threads /\ current' = current
      /\ req' = rq
      /\ UNCHANGED <<running, points, tries, failed, kernel>> /\ seen' = <<>> /\ stops' = 0
      /\ given \in Nat /\ given < Commands /\ given' = given + 1
  BY <1>1, Constants DEF Command, Goto, IInv, kernel, TypeOK
<1>3. \/ /\ pc' = "prompt" /\ walks' = <<>>
         /\ said' = "refused" \/ (said' = "info" /\ (rq.ptr = Bad => rq.cmd \notin Tests)
                                 /\ rq.cmd \in {"xnu-voucher-info", "xnu-ipc-port-info"})
      \/ /\ pc' \in {"begin", "iter"} /\ walks' = Walks(rq) /\ said' = "nothing"
         /\ pc' = "begin" => rq.ptr = None
         /\ (rq.ptr = Bad => rq.cmd \notin Tests)
         /\ rq.cmd \notin {"xnu-voucher-info", "xnu-ipc-port-info"}
  BY <1>1 DEF Goto
<1>4. TypeOK' /\ Linked' /\ Answers' /\ Counting' /\ Untouched'
  <2>1. TypeOK'
    BY <1>2, <1>3, Constants DEF TypeOK, points, kernel
  <2>2. Linked' /\ Answers' /\ Counting' /\ Untouched'
    BY <1>2, <1>3 DEF IInv, Linked, Answers, Counting, Untouched, points, kernel
  <2> QED
    BY <2>1, <2>2
<1>5. Walking'
  <2>1. CASE pc' = "prompt"
    BY <1>3, <2>1 DEF Walking
  <2>2. CASE pc' # "prompt"
    <3>1. walks' = Walks(rq) /\ Walks(rq) \in Seq(Heads) /\ Walks(rq) # <<>> /\ pc' \in {"begin", "iter"}
      BY <1>2, <1>3, <2>2, WalksAre
    <3>2. Walks(req)' = Walks(rq)
      BY <1>2 DEF Walks
    <3>3. Len(Walks(rq)) \in Nat
      BY <3>1
    <3>4. Rest(Walks(req))'
      BY <3>1, <3>2, <3>3 DEF Rest
    <3> QED
      BY <1>2, <1>3, <2>2, <3>1, <3>2, <3>4 DEF Walking
  <2> QED
    BY <2>1, <2>2
<1>8. Warned'
  <2>1. pc' = "iter" => Walks(req)' = Walks(rq) /\ walks' = Walks(rq) /\ Walks(rq) \in Seq(Heads)
    BY <1>2, <1>3, WalksAre DEF Walks
  <2>2. pc' = "iter" => Len(Walks(rq)) \in Nat
    BY <2>1
  <2> QED
    BY <1>3, <2>1, <2>2 DEF Warned
<1>6. Iterating'
  BY <1>2, <1>3 DEF Iterating
<1>7. AnswersRight'
  <2>1. rq.cmd \in {"xnu-voucher-info", "xnu-ipc-port-info"} /\ (rq.ptr = Bad => rq.cmd \notin Tests)
          => rq.ptr \in Others
    BY RequestIs DEF Tests
  <2> QED
    BY <1>2, <1>3, <2>1 DEF AnswersRight, ListsWhole, FindsListed, StopsAtSwitches
<1> QED
  BY <1>4, <1>5, <1>6, <1>7, <1>8 DEF IInv

\* Where there is no list, the command has said that there is no such task, or it
\* was given a space.
LEMMA WanderStep == ASSUME IInv, Wander PROVE IInv'
<1>1. /\ pc = "iter" /\ pc' = "prompt" /\ ~running /\ walks[1] \in Others
      /\ UNCHANGED <<running, points, asked, walk, wait, failed, kernel>>
      /\ said' = IF said = "doubted" THEN "doubted" ELSE "unchecked"
  BY DEF Wander, Goto, kernel
<1>2. TypeOK' /\ Linked' /\ Answers' /\ Walking' /\ Warned' /\ Iterating' /\ Counting' /\ Untouched'
  BY <1>1
  DEF IInv, TypeOK, Linked, Answers, Walking, Warned, Iterating, Counting, Untouched, points, asked, walk, wait,
      kernel
<1>3. FindsListed'
  <2> DEFINE w == Walks(req)
  <2>1. /\ Rest(w) /\ w \in Seq(Heads) /\ walks \in Seq(Heads) /\ walks # <<>> /\ req \in Requests
        /\ req.cmd \notin {"xnu-voucher-info", "xnu-ipc-port-info"}
    BY <1>1 DEF IInv, Walking
  <2> HIDE DEF w
  <2>2. Len(w) \in Nat /\ Len(walks) \in Nat \ {0} /\ Len(walks) <= Len(w)
    BY <2>1 DEF Rest
  <2> DEFINE i == 1 + (Len(w) - Len(walks))
  <2>3. i \in 1..Len(w) /\ walks[1] = w[i] /\ (i # 1 => Len(walks) < Len(w))
    BY <2>1, <2>2 DEF Rest
  <2> HIDE DEF i
  <2>4. /\ req.ptr \in Others /\ req.ptr # None
        /\ \/ req.cmd = "xnu-ipc_entry-list-space"
           \/ req.cmd \in {"xnu-threads", "xnu-ipc_entry-list-task"} /\ i # 1
    BY <1>1, <2>1, <2>3, NoList DEF IInv, w
  <2>5. req.ptr \notin TaskSet /\ req.ptr \notin Spaces
    BY <2>4, Constants
  <2>6. said = "doubted" \/ req.cmd = "xnu-ipc_entry-list-space"
    BY <1>1, <2>3, <2>4, <2>5 DEF IInv, Warned, w
  <2>7. req' = req
    BY <1>1 DEF asked
  <2> QED
    BY <1>1, <2>5, <2>6, <2>7 DEF FindsListed
<1>4. ListsWhole' /\ StopsAtSwitches' /\ Warned'
  BY <1>1 DEF ListsWhole, StopsAtSwitches, Warned
<1> QED
  BY <1>1, <1>2, <1>3, <1>4 DEF IInv, AnswersRight

LEMMA ToggleStep == ASSUME IInv, Toggle PROVE IInv'
<1>1. /\ pc = "prompt" /\ pc' = "prompt" /\ ~running /\ threads' = threads
      /\ UNCHANGED <<running, watch, asked, walk, wait, said, failed, kernel>>
  BY DEF Toggle, Goto, kernel
<1>2. PICK b \in Breakpoints :
        \/ b \in enabled /\ enabled' = enabled \ {b} /\ wanted' = wanted \ {b}
        \/ b \notin enabled /\ enabled' = enabled \cup {b} /\ wanted' = wanted \cup {b}
  BY DEF Toggle
<1>3. TypeOK' /\ Linked' /\ Answers' /\ Walking' /\ Warned' /\ Iterating' /\ Counting' /\ Untouched'
  BY <1>1, <1>2
  DEF IInv, TypeOK, Linked, Answers, Walking, Warned, Iterating, Counting, Untouched, asked, walk, wait, kernel
<1>4. ListsWhole'
  BY <1>1, ListsKept DEF IInv, AnswersRight, walk, asked
<1>5. FindsListed' /\ StopsAtSwitches'
  BY <1>1 DEF IInv, AnswersRight, FindsListed, StopsAtSwitches, asked, wait
<1> QED
  BY <1>3, <1>4, <1>5 DEF IInv, AnswersRight

LEMMA ContinueStep == ASSUME IInv, Continue PROVE IInv'
  BY DEF Continue, Goto, IInv, TypeOK, Linked, Answers, Walking, Warned, Iterating, Counting, Untouched,
         AnswersRight, ListsWhole, FindsListed, StopsAtSwitches, points, asked, walk, wait, kernel

-----------------------------------------------------------------------------
(* switch_to_thread().                                                     *)

\* The tries asked for, whichever command was given.
LEMMA TriesAre == ASSUME TypeOK PROVE req.tries \in (-1)..MaxTries
  BY RequestIs, Constants DEF TypeOK, Nothing

LEMMA BeginStep == ASSUME IInv, Begin PROVE IInv'
<1>1. req.tries \in (-1)..MaxTries
  BY TriesAre DEF IInv
<1>2. TypeOK' /\ Linked' /\ Answers' /\ Walking' /\ Warned' /\ Iterating' /\ Counting' /\ Untouched'
  BY <1>1, Constants
  DEF Begin, Goto, IInv, TypeOK, Linked, Answers, Walking, Warned, Iterating, Counting, Untouched, Waits, asked,
      walk, kernel
<1>3. AnswersRight'
  BY DEF Begin, Goto, IInv, Answers, AnswersRight, ListsWhole, FindsListed, StopsAtSwitches
<1> QED
  BY <1>2, <1>3 DEF IInv

LEMMA GdbContinueStep == ASSUME IInv, GdbContinue PROVE IInv'
<1>1. TypeOK' /\ Linked' /\ Answers' /\ Walking' /\ Warned' /\ Iterating' /\ Counting' /\ Untouched'
  BY DEF GdbContinue, Goto, IInv, TypeOK, Linked, Answers, Walking, Warned, Iterating, Counting, Untouched,
         Waits, points, asked, walk, wait, kernel
<1>2. AnswersRight'
  BY DEF GdbContinue, Goto, IInv, Answers, Counting, AnswersRight, ListsWhole, FindsListed,
         StopsAtSwitches, points
<1> QED
  BY <1>1, <1>2 DEF IInv

LEMMA StoppedStep == ASSUME IInv, Stopped PROVE IInv'
<1>0. req.tries \in (-1)..MaxTries
  BY TriesAre DEF IInv
<1>1. TypeOK' /\ Counting'
  BY <1>0, Constants
  DEF Stopped, Count, Goto, IInv, TypeOK, Counting, Waits, points, asked, kernel
<1>2. Linked' /\ Answers' /\ Walking' /\ Warned' /\ Iterating' /\ Untouched'
  BY DEF Stopped, Count, Goto, IInv, Linked, Answers, Walking, Warned, Iterating, Untouched, points, asked,
         walk, kernel
<1>3. AnswersRight'
  BY DEF Stopped, Count, Goto, IInv, Answers, AnswersRight, ListsWhole, FindsListed, StopsAtSwitches
<1> QED
  BY <1>1, <1>2, <1>3 DEF IInv

LEMMA ReportStep == ASSUME IInv, Report PROVE IInv'
<1>1. TypeOK' /\ Linked' /\ Answers' /\ Walking' /\ Warned' /\ Iterating' /\ Counting' /\ Untouched'
  BY DEF Report, Goto, IInv, TypeOK, Linked, Answers, Walking, Warned, Iterating, Counting, Untouched,
         points, asked, walk, wait, kernel
<1>2. StopsAtSwitches'
  <2>1. /\ pc = "test" /\ pc' = "clean-up" /\ ~Waits /\ UNCHANGED <<req, tries, stops>>
        /\ said' = IF tries = 0 /\ req.ptr # None THEN "not-scheduled" ELSE "switched"
    BY DEF Report, Goto, asked, wait
  <2>2. /\ stops \in Nat /\ tries \in Int /\ req.tries \in Int
        /\ IF req.ptr = None THEN stops \in {0, 1}
           ELSE tries = req.tries - stops /\ (stops = 0 \/ tries >= 0)
    BY <2>1, TriesAre, Constants DEF IInv, TypeOK, Counting
  <2> QED
    BY <2>1, <2>2 DEF StopsAtSwitches, Waits
<1>3. ListsWhole' /\ FindsListed'
  BY DEF Report, Goto, ListsWhole, FindsListed
<1> QED
  BY <1>1, <1>2, <1>3 DEF IInv, AnswersRight

LEMMA CleanUpStep == ASSUME IInv, CleanUp PROVE IInv'
<1>1. TypeOK' /\ Linked' /\ Answers' /\ Walking' /\ Warned' /\ Iterating' /\ Counting' /\ Untouched'
  BY DEF CleanUp, Restore, Goto, IInv, TypeOK, Linked, Answers, Walking, Warned, Iterating, Counting,
         Untouched, asked, walk, wait, kernel
<1>2. ListsWhole'
  BY ListsKept DEF CleanUp, Restore, Goto, IInv, AnswersRight, walk, asked, kernel
<1>3. FindsListed' /\ StopsAtSwitches'
  BY DEF CleanUp, Restore, Goto, IInv, AnswersRight, FindsListed, StopsAtSwitches, asked, wait, kernel
<1> QED
  BY <1>1, <1>2, <1>3 DEF IInv, AnswersRight

LEMMA FailStep == ASSUME IInv, Fail PROVE IInv'
<1>1. TypeOK' /\ Linked' /\ Answers' /\ Walking' /\ Warned' /\ Iterating' /\ Counting' /\ Untouched'
  BY DEF Fail, IInv, TypeOK, Linked, Answers, Walking, Warned, Iterating, Counting, Untouched, points, asked,
         walk, wait, kernel
<1>2. AnswersRight'
  BY DEF Fail, IInv, Answers, AnswersRight, ListsWhole, FindsListed, StopsAtSwitches
<1> QED
  BY <1>1, <1>2 DEF IInv
-----------------------------------------------------------------------------
(* The kernel.                                                             *)

\* While the kernel runs, its steps do not touch the command.
LEMMA RunningStep ==
  ASSUME IInv, running, UNCHANGED script, TypeOK', Linked'
  PROVE  IInv'
<1>1. Answers' /\ Walking' /\ Warned' /\ Iterating' /\ Counting' /\ Untouched'
  BY DEF IInv, Answers, Walking, Warned, Iterating, Counting, Untouched, Waits, script, points, asked, walk, wait
<1>2. AnswersRight'
  BY DEF IInv, Answers, AnswersRight, ListsWhole, FindsListed, StopsAtSwitches, script, points, asked, wait
<1> QED
  BY <1>1, <1>2 DEF IInv

LEMMA SwitchStep == ASSUME IInv, Switch PROVE IInv'
<1>1. TypeOK' /\ Linked'
  BY DEF Switch, IInv, TypeOK, Linked, script, points, asked, walk, wait
<1> QED
  BY <1>1, RunningStep DEF Switch

LEMMA HitStep == ASSUME IInv, Hit PROVE IInv'
<1>1. TypeOK' /\ Linked'
  BY DEF Hit, IInv, TypeOK, Linked, script, points, asked, walk, wait, kernel
<1> QED
  BY <1>1, RunningStep DEF Hit

LEMMA SpawnStep == ASSUME IInv, Spawn PROVE IInv'
<1>1. PICK t \in Threads \ ToSet(threads) : threads' = Append(threads, t)
  BY DEF Spawn
<1>2. threads \in Seq(Threads) /\ IsInjective(threads)
  BY DEF IInv, Linked
<1>3. /\ threads' \in Seq(Threads) /\ DOMAIN threads' = 1..(Len(threads) + 1) /\ Len(threads) \in Nat
      /\ DOMAIN threads = 1..Len(threads) /\ threads'[Len(threads) + 1] = t
      /\ \A i \in 1..Len(threads) : threads'[i] = threads[i]
  BY <1>1, <1>2
<1>4. IsInjective(threads')
  BY <1>1, <1>2, <1>3 DEF IsInjective, ToSet
<1>5. ToSet(threads') \subseteq Threads /\ ToSet(threads) \subseteq ToSet(threads')
  BY <1>3 DEF ToSet
<1>6. TypeOK' /\ Linked'
  BY <1>3, <1>4, <1>5 DEF Spawn, IInv, TypeOK, Linked, script, points, asked, walk, wait
<1> QED
  BY <1>6, RunningStep DEF Spawn

LEMMA ExitStep == ASSUME IInv, Exit PROVE IInv'
<1>1. PICK i \in DOMAIN threads : threads[i] # current /\ threads' = RemoveAt(threads, i)
  BY DEF Exit
<1>2. threads \in Seq(Threads) /\ IsInjective(threads) /\ current \in ToSet(threads)
  BY DEF IInv, Linked, TypeOK
<1>3. threads' \in Seq(Threads) /\ IsInjective(threads') /\ current \in ToSet(threads')
  BY <1>1, <1>2, Removed DEF ToSet
<1>4. ToSet(threads') \subseteq Threads
  BY <1>3 DEF ToSet
<1>5. TypeOK' /\ Linked'
  BY <1>3, <1>4 DEF Exit, IInv, TypeOK, Linked, script, points, asked, walk, wait
<1> QED
  BY <1>5, RunningStep DEF Exit

-----------------------------------------------------------------------------
(* The theorems.                                                           *)

LEMMA Starts == Init => IInv
<1> SUFFICES ASSUME Init PROVE IInv
  OBVIOUS
<1>1. AtFirst \in Seq(Threads) /\ IsInjective(AtFirst)
  BY DebuggerAssumption DEF DebuggerAssumption
<1>2. ToSet(AtFirst) \subseteq Threads
  BY <1>1 DEF ToSet
<1>5. TypeOK /\ Linked
  <2>1. 0 \in (-1)..MaxTries /\ 0 \in 0..(MaxTries + 1) /\ 0 \in 0..Commands
    BY Constants
  <2>2. TypeOK
    BY <1>2, <2>1 DEF Init, TypeOK
  <2> QED
    BY <1>1, <2>2 DEF Init, Linked
<1>3. Answers /\ Walking /\ Warned /\ Iterating /\ Counting /\ Untouched
  BY DEF Init, Answers, Walking, Warned, Iterating, Counting, Untouched
<1>4. AnswersRight
  BY DEF Init, AnswersRight, ListsWhole, FindsListed, StopsAtSwitches
<1> QED
  BY <1>3, <1>4, <1>5 DEF IInv

LEMMA StutterStep == ASSUME IInv, UNCHANGED vars PROVE IInv'
<1>1. TypeOK' /\ Linked' /\ Answers' /\ Counting' /\ Untouched'
  BY DEF IInv, TypeOK, Linked, Answers, Counting, Untouched, Waits, vars, kernel, script, points,
         asked, walk, wait
<1>5. Walking' /\ Warned'
  BY WalksKept DEF IInv, Walking, vars, kernel, script, asked, walk, wait
<1>4. Iterating'
  <2>1. /\ Row(walks[1])' = Row(walks[1]) /\ Places(walks[1])' = Places(walks[1])
        /\ Gone(walks[1], ptr)' = Gone(walks[1], ptr) /\ IsTable' = IsTable /\ \A x : Took(x)' = Took(x)
    BY DEF Row, Places, Gone, IsTable, Took, vars, kernel, script, walk, asked
  <2> QED
    BY <2>1 DEF IInv, Iterating, InOrder, vars, script, walk
<1>2. ListsWhole'
  BY ListsKept DEF IInv, AnswersRight, vars, kernel, script, walk, asked
<1>3. FindsListed' /\ StopsAtSwitches'
  BY DEF IInv, AnswersRight, FindsListed, StopsAtSwitches, vars, kernel, script, points, asked, wait
<1> QED
  BY <1>1, <1>2, <1>3, <1>4, <1>5 DEF IInv, AnswersRight

LEMMA Steps == IInv /\ [Next]_vars => IInv'
<1> SUFFICES ASSUME IInv, [Next]_vars PROVE IInv'
  OBVIOUS
<1>1. CASE Script
  BY <1>1, IterStep, NextItemStep, NextEntryStep, EndWalkStep, BeginStep, GdbContinueStep, StoppedStep,
     ReportStep, CleanUpStep DEF Script
<1>2. CASE Command \/ Toggle \/ Continue \/ Wander \/ Fail
  BY <1>2, CommandStep, ToggleStep, ContinueStep, WanderStep, FailStep
<1>3. CASE Switch \/ Hit \/ Spawn \/ Exit
  BY <1>3, SwitchStep, HitStep, SpawnStep, ExitStep
<1>4. CASE Quit \/ UNCHANGED vars
  BY <1>4, StutterStep DEF Quit
<1> QED
  BY <1>1, <1>2, <1>3, <1>4 DEF Next

\* The variables of the commands and of gdb keep their types: no more stops than
\* tries, and tmp_tries does not run past what was asked for.
THEOREM TypeCorrect == Spec => []TypeOK
<1>1. IInv => TypeOK
  BY DEF IInv
<1> QED
  BY Starts, Steps, <1>1, PTL DEF Spec

\* Whatever threads there are, and come and go between commands, the lists that
\* are printed are whole and in order, what is said of an argument, of any kind, is
\* so in the list, and xnu-switch stops the kernel as often as it says.
THEOREM AnswersCorrect == Spec => []AnswersRight
<1>1. IInv => AnswersRight
  BY DEF IInv
<1> QED
  BY Starts, Steps, <1>1, PTL DEF Spec

\* As long as no xnu-switch has ended in an exception, any number of commands leave
\* no watch and no breakpoint of the user disabled.
THEOREM NoTrace == Spec => []LeavesNoTrace
<1>1. IInv => LeavesNoTrace
  BY DEF IInv, Untouched, LeavesNoTrace
<1> QED
  BY Starts, Steps, <1>1, PTL DEF Spec

-----------------------------------------------------------------------------
(* The decompressor: sizes, and the register of flags.                     *)

Bytes == 0..(Byte - 1)

\* What is assumed of the sizes, with N and F as numbers.
LEMMA Sizes == /\ Byte \in Nat \ {0} /\ Half \in Nat \ {0} /\ Threshold \in Nat
               /\ N \in Nat /\ F \in 1..(N - 1) /\ Space \in Bytes
  BY LzssAssumption DEF LzssAssumption, Bytes

\* A register f with m ones above the lowest of its upper half: it can be shifted
\* m times more.  Its bits, and that number, as kinds computes them.
Held(f, m) == f \div Byte = Pow2[m + 1] - 1
Bit(f, n) == (f \div Pow2[n]) % 2 = 1
Shifts(f) == IF f = 0 THEN 0 ELSE CHOOSE n \in 0..(Bits - 1) : Held(f, n)

\* A byte has a bit, as the ring has room for F of them.
LEMMA BitsIs == Bits \in Nat \ {0} /\ Byte = Pow2[Bits]
<1>1. Bits \in Nat /\ Byte = Pow2[Bits]
  BY LzssAssumption DEF LzssAssumption, Byte
<1>2. Bits # 0
  <2> SUFFICES ASSUME Bits = 0 PROVE FALSE
    OBVIOUS
  <2>1. Byte = 1
    BY <1>1, Pow2Is
  <2>2. 1 \div Half \in Int /\ 1 \div Half <= 1
    <3>1. 1 \div Half \in Int /\ Half * (1 \div Half) <= 1
      BY Sizes, Quotient
    <3> QED
      BY <3>1, Sizes, SMTT(30)
  <2>3. N <= 1
    BY <2>1, <2>2 DEF N
  <2> QED
    BY <2>3, Sizes
<1> QED
  BY <1>1, <1>2

\* The ones above the byte tell how often the register can be shifted.
LEMMA ShiftsIs ==
  ASSUME NEW f \in Nat, NEW m \in 0..(Bits - 1), Held(f, m)
  PROVE  f # 0 /\ Shifts(f) = m
<1>1. f # 0
  <2>1. Pow2[m + 1] = 2 * Pow2[m] /\ Pow2[m] \in Nat \ {0}
    BY BitsIs, Pow2Is, PowSigns
  <2>2. 0 \div Byte = 0
    BY Sizes, DivIs
  <2> QED
    BY <2>1, <2>2 DEF Held
<1>2. ASSUME NEW n \in 0..(Bits - 1), Held(f, n) PROVE n = m
  <2>1. n \in Nat /\ m \in Nat /\ Pow2[n + 1] = Pow2[m + 1] /\ n + 1 \in Nat /\ m + 1 \in Nat
    <3>1. n \in Nat /\ m \in Nat /\ n + 1 \in Nat /\ m + 1 \in Nat
      BY BitsIs
    <3>2. Pow2[n + 1] \in Nat /\ Pow2[m + 1] \in Nat
      BY <3>1, PowSigns
    <3>3. Pow2[n + 1] - 1 = Pow2[m + 1] - 1
      BY <1>2, Zenon DEF Held
    <3> QED
      BY <3>1, <3>2, <3>3
  <2>2. ~ (n + 1 < m + 1) /\ ~ (m + 1 < n + 1)
    BY <2>1, PowLess, PowSigns
  <2> QED
    BY <2>1, <2>2
<1> QED
  BY <1>1, <1>2 DEF Shifts

\* The bit tested after a shift is there as long as a flag is left.
LEMMA LeftIs ==
  ASSUME NEW f \in Nat, NEW m \in 0..(Bits - 1), Held(f, m)
  PROVE  /\ (f \div (2 * Byte)) % 2 = 1 <=> m > 0
         /\ m > 0 => Held(f \div 2, m - 1)
<1>1. m \in Nat /\ Pow2[m] \in Nat \ {0} /\ Pow2[m + 1] = 2 * Pow2[m]
  BY BitsIs, Pow2Is, PowSigns
<1>2. f \div (2 * Byte) = Pow2[m] - 1 /\ (f \div 2) \div Byte = Pow2[m] - 1
  <2>1. (f \div Byte) \div 2 = f \div (Byte * 2) /\ (f \div 2) \div Byte = f \div (2 * Byte)
    <3>1. f \in Int /\ 2 \in Nat \ {0} /\ Byte \in Nat \ {0}
      BY Sizes
    <3> QED
      BY <3>1, DivDiv, Zenon
  <2>2. (2 * Pow2[m] - 1) \div 2 = Pow2[m] - 1
    BY <1>1
  <2>3. Byte * 2 = 2 * Byte
    BY Sizes
  <2> QED
    BY <1>1, <2>1, <2>2, <2>3 DEF Held
<1>3. (f \div (2 * Byte)) % 2 = 1 <=> m > 0
  <2>1. CASE m = 0
    BY <1>2, <2>1, Pow2Is
  <2>2. CASE m # 0
    <3>1. m - 1 \in Nat /\ (m - 1) + 1 = m
      BY <1>1, <2>2
    <3>2. Pow2[m - 1] \in Nat /\ Pow2[m] = 2 * Pow2[m - 1]
      BY <3>1, Pow2Is
    <3> QED
      BY <1>1, <1>2, <2>2, <3>2
  <2> QED
    BY <2>1, <2>2
<1> QED
  BY <1>1, <1>2, <1>3 DEF Held

\* A control byte comes with all its flags, under the ones that count them.
LEMMA Refilled ==
  ASSUME NEW g \in Bytes, NEW f, f = g + (Byte - 1) * Byte
  PROVE  /\ f \in Nat /\ Held(f, Bits - 1)
         /\ \A n \in 1..Bits : Bit(f, n - 1) <=> Bit(g, n - 1)
<1>1. Byte \in Nat \ {0} /\ g \in Nat /\ g < Byte /\ (Byte - 1) * Byte \in Nat
      /\ (Byte - 1) * Byte = Byte * (Byte - 1) /\ Byte - 1 \in Nat
  BY Sizes, SMTT(30) DEF Bytes
<1>2. f \div Byte = Byte - 1
  <2>1. Byte * (Byte - 1) <= f /\ f < Byte * (Byte - 1) + Byte /\ f \in Int
    BY <1>1
  <2> QED
    BY <1>1, <2>1, DivIs
<1>3. Held(f, Bits - 1)
  BY <1>2, BitsIs DEF Held
<1>4. ASSUME NEW n \in 1..Bits PROVE Bit(f, n - 1) <=> Bit(g, n - 1)
  <2> DEFINE P == Pow2[n - 1]  S == Pow2[Bits - n]
  <2>1. n - 1 \in Nat /\ Bits - n \in Nat /\ (n - 1) + ((Bits - n) + 1) = Bits /\ (Bits - n) + 1 \in Nat
    BY BitsIs
  <2>2. P \in Nat \ {0} /\ S \in Nat /\ Byte = P * (2 * S)
    <3>1. Pow2[(n - 1) + ((Bits - n) + 1)] = P * Pow2[(Bits - n) + 1]
      BY <2>1, PowSum
    <3>2. Pow2[(Bits - n) + 1] = 2 * S
      BY <2>1, Pow2Is
    <3> QED
      BY <2>1, <3>1, <3>2, BitsIs, PowSigns
  <2> HIDE DEF P, S
  <2> DEFINE y == (Byte - 1) * S
  <2>3. y \in Int /\ (Byte - 1) * Byte = P * (2 * y)
    BY <1>1, <2>2, SMTT(30)
  <2> HIDE DEF y
  <2>4. f \div P = (g \div P) + 2 * y
    <3>1. g \in Int /\ 2 * y \in Int /\ f = g + P * (2 * y)
      BY <1>1, <2>3
    <3>2. (g + P * (2 * y)) \div P = (g \div P) + 2 * y
      BY <2>2, <3>1, DivAdd, Zenon
    <3> QED
      BY <3>1, <3>2, Zenon
  <2>5. g \div P \in Int
    BY <1>1, <2>2, Quotient
  <2>6. (f \div P) % 2 = (g \div P) % 2
    BY <2>3, <2>4, <2>5
  <2> QED
    BY <2>6 DEF Bit, P
<1> QED
  BY <1>1, <1>3, <1>4
Ring  == 0..(N - 1)

\* The position in a pair, put together from its two bytes, is one of the ring.
LEMMA Position ==
  ASSUME NEW i \in Bytes, NEW j \in Bytes
  PROVE  i + Byte * (j \div Half) \in Ring
<1> DEFINE m == Byte \div Half  q == j \div Half
<1>1. Byte = Half * m /\ m \in Nat
  BY LzssAssumption, SMTT(30) DEF LzssAssumption
<1>2. q \in Nat /\ Half * q <= j
  BY Sizes, SMTT(30) DEF Bytes
<1>3. q < m
  BY <1>1, <1>2, Sizes, SMTT(30) DEF Bytes
<1> HIDE DEF m, q
<1>4. Byte * q <= Byte * (m - 1) /\ Byte * q \in Nat /\ Byte * (m - 1) = Byte * m - Byte
  BY <1>1, <1>2, <1>3, Sizes, SMTT(30)
<1>5. N = Byte * m
  BY DEF N, m
<1>6. i + Byte * q <= Byte * m - 1
  <2> DEFINE x == Byte * q  y == Byte * m
  <2>1. x \in Int /\ y \in Int /\ x <= y - Byte
    BY <1>1, <1>4, Sizes, SMTT(30)
  <2> HIDE DEF x, y
  <2>2. i + x <= y - 1
    BY <2>1, Sizes DEF Bytes
  <2> QED
    BY <2>2 DEF x, y
<1>7. i + Byte * q \in Nat /\ i + Byte * q <= N - 1
  BY <1>4, <1>5, <1>6, Sizes DEF Bytes
<1>8. i + Byte * q \in Ring
  BY <1>7, Sizes DEF Ring
<1> QED
  BY <1>8 DEF q

\* A pair copies at least one byte.
LEMMA Counts == ASSUME NEW j \in Bytes PROVE (j % Half) + Threshold + 1 \in Nat \ {0}
  BY Sizes DEF Bytes

\* What a file gives is a byte.
LEMMA GivenByte == ASSUME LzssTypeOK, InFile PROVE Given \in Bytes /\ srcidx + 1 \in 0..Len(file.src)
<1> DEFINE s == file.src
<1>1. s \in Seq(Bytes)
  BY LzssAssumption DEF LzssAssumption, LzssTypeOK, Bytes
<1>2. srcidx \in Nat /\ srcidx < Len(s)
  BY DEF LzssTypeOK, InFile
<1> HIDE DEF s
<1>3. srcidx + 1 \in 1..Len(s) /\ Len(s) \in Nat
  BY <1>1, <1>2
<1>4. s[srcidx + 1] \in Bytes
  BY <1>1, <1>3
<1> QED
  BY <1>3, <1>4 DEF Given, s

-----------------------------------------------------------------------------
(* The ring.                                                               *)

\* A byte that is emitted keeps the types and the ring.
LEMMA EmitKeeps ==
  ASSUME LzssTypeOK, RingIsPast, NEW b \in Bytes, Emit(b)
  PROVE  /\ text_buf' \in [0..(N + F - 2) -> Bytes]
         /\ r' \in Ring
         /\ out' \in Seq(Bytes) /\ Len(out') <= file.decompsize
         /\ RingIsPast'
<1> USE Sizes
<1>1. r \in Ring /\ text_buf \in [0..(N + F - 2) -> Bytes] /\ out \in Seq(Bytes) /\ file.decompsize \in Nat
  BY LzssAssumption DEF LzssAssumption, LzssTypeOK, Ring, Bytes
<1>2. r' \in Ring /\ r' = IF r = N - 1 THEN 0 ELSE r + 1
  <2>1. r' = Wrap(r + 1)
    BY DEF Emit
  <2> QED
    BY <1>1, <2>1 DEF Wrap, Ring
<1>3. out' \in Seq(Bytes) /\ Len(out') = Len(out) + 1 /\ Len(out) + 1 <= file.decompsize
      /\ out'[Len(out) + 1] = b /\ \A n \in 1..Len(out) : out'[n] = out[n]
  BY <1>1 DEF Emit, Bytes
<1>4. text_buf' = [text_buf EXCEPT ![r] = b]
  BY DEF Emit
<1>5. text_buf' \in [0..(N + F - 2) -> Bytes]
  BY <1>1, <1>4
<1>6. ASSUME NEW n \in Ring PROVE text_buf'[n] = Past(out', Behind(n)')
  <2>1. CASE n = r
    <3>1. Behind(n)' = 1
      BY <2>1, <1>1, <1>2 DEF Behind, Ring
    <3>2. text_buf'[n] = b
      BY <2>1, <1>1, <1>4 DEF Ring
    <3> QED
      BY <3>1, <3>2, <1>1, <1>3 DEF Past
  <2>2. CASE n # r
    <3>1. Behind(n)' = Behind(n) + 1 /\ Behind(n) \in 1..(N - 1)
      BY <2>2, <1>1, <1>2 DEF Behind, Ring
    <3>2. text_buf'[n] = text_buf[n]
      BY <2>2, <1>1, <1>4 DEF Ring
    <3>3. text_buf[n] = Past(out, Behind(n))
      BY DEF RingIsPast, Ring
    <3>4. Past(out', Behind(n) + 1) = Past(out, Behind(n))
      <4> DEFINE d == Behind(n)
      <4>1. CASE d <= Len(out)
        <5>1. Len(out) + 1 - d \in 1..Len(out) /\ Len(out') + 1 - (d + 1) = Len(out) + 1 - d
          BY <3>1, <4>1, <1>1, <1>3
        <5>2. out'[Len(out') + 1 - (d + 1)] = out[Len(out) + 1 - d]
          BY <5>1, <1>3
        <5> QED
          BY <3>1, <4>1, <5>2, <1>1, <1>3 DEF Past
      <4>2. CASE ~(d <= Len(out))
        BY <3>1, <4>2, <1>1, <1>3 DEF Past
      <4> QED
        BY <4>1, <4>2
    <3> QED
      BY <3>1, <3>2, <3>3, <3>4
  <2> QED
    BY <2>1, <2>2
<1>7. RingIsPast'
  BY <1>6 DEF RingIsPast, Ring
<1> QED
  BY <1>2, <1>3, <1>5, <1>7

-----------------------------------------------------------------------------
LzssInv == LzssTypeOK /\ RingIsPast

LEMMA LzssStarts == LzssInit => LzssInv
<1> SUFFICES ASSUME LzssInit PROVE LzssInv
  OBVIOUS
<1> USE Sizes
<1>1. file \in Files /\ file.src \in Seq(0..(Byte - 1)) /\ file.decompsize \in Nat
  BY LzssAssumption DEF LzssInit, LzssAssumption
<1>2. LzssTypeOK
  BY <1>1 DEF LzssInit, LzssTypeOK, Bytes
<1>3. ASSUME NEW n \in 0..(N - 1) PROVE text_buf[n] = Past(out, Behind(n))
  <2>1. Behind(n) \in 1..N
    BY <1>2, <1>3 DEF LzssTypeOK, Behind
  <2> QED
    BY <2>1 DEF LzssInit, Past
<1> QED
  BY <1>2, <1>3 DEF LzssInv, RingIsPast

LEMMA LzssSteps == LzssInv /\ [LzssNext]_lzss => LzssInv'
<1> SUFFICES ASSUME LzssTypeOK, RingIsPast, [LzssNext]_lzss PROVE LzssTypeOK' /\ RingIsPast'
  BY DEF LzssInv
<1> USE Sizes
<1> DEFINE RingAlone == UNCHANGED <<text_buf, r, out>>
<1>0. ASSUME RingAlone PROVE RingIsPast'
  BY <1>0 DEF RingIsPast, Past, Behind
<1>1. CASE Refill
  <2>1. Given \in Bytes /\ srcidx + 1 \in 0..Len(file.src)
    BY <1>1, GivenByte DEF Refill, Read
  <2>2. flags' \in Nat
    BY <1>1, <2>1 DEF Refill, Bytes
  <2> QED
    BY <1>0, <1>1, <2>1, <2>2 DEF Refill, Read, text, LzssTypeOK
<1>2. CASE Shift
  BY <1>0, <1>2 DEF Shift, text, LzssTypeOK
<1>3. CASE Literal
  <2>1. Given \in Bytes /\ srcidx + 1 \in 0..Len(file.src)
    BY <1>3, GivenByte DEF Literal, Read
  <2>2. Emit(Given)
    BY <1>3 DEF Literal
  <2>3. /\ text_buf' \in [0..(N + F - 2) -> Bytes] /\ r' \in Ring
        /\ out' \in Seq(Bytes) /\ Len(out') <= file.decompsize /\ RingIsPast'
    BY <2>1, <2>2, EmitKeeps
  <2> QED
    BY <1>3, <2>1, <2>3 DEF Literal, Read, LzssTypeOK, Bytes, Ring
<1>4. CASE First
  <2>1. Given \in Bytes /\ srcidx + 1 \in 0..Len(file.src)
    BY <1>4, GivenByte DEF First, Read
  <2> QED
    BY <1>0, <1>4, <2>1 DEF First, Read, text, LzssTypeOK, Bytes
<1>5. CASE Second
  <2>1. Given \in Bytes /\ srcidx + 1 \in 0..Len(file.src)
    BY <1>5, GivenByte DEF Second, CopyFrom, Read
  <2>2. first \in Bytes
    BY DEF LzssTypeOK, Bytes
  <2>3. pair' = [pos |-> first + Byte * (Given \div Half), left |-> (Given % Half) + Threshold + 1]
    BY <1>5 DEF Second, CopyFrom
  <2>4. pair' \in [pos : 0..(N - 1), left : Nat \ {0}]
    BY <2>1, <2>2, <2>3, Position, Counts DEF Ring
  <2> QED
    BY <1>0, <1>5, <2>1, <2>4 DEF Second, CopyFrom, Read, text, LzssTypeOK
<1>6. CASE CopyByte
  <2>1. pair \in [pos : 0..(N - 1), left : Nat \ {0}]
    BY <1>6 DEF CopyByte, LzssTypeOK
  <2>2. text_buf[pair.pos] \in Bytes
    BY <2>1 DEF LzssTypeOK, Bytes
  <2>3. Emit(text_buf[pair.pos])
    BY <1>6 DEF CopyByte
  <2>4. /\ text_buf' \in [0..(N + F - 2) -> Bytes] /\ r' \in Ring
        /\ out' \in Seq(Bytes) /\ Len(out') <= file.decompsize /\ RingIsPast'
    BY <2>2, <2>3, EmitKeeps
  <2>5. pair' \in [pos : 0..(N - 1), left : Nat \ {0}] \cup {Idle}
    BY <1>6, <2>1 DEF CopyByte, Wrap
  <2> QED
    BY <1>6, <2>4, <2>5 DEF CopyByte, LzssTypeOK, Bytes, Ring
<1>7. CASE Break \/ Truncated \/ Overrun
  BY <1>0, <1>7 DEF Break, Truncated, Overrun, End, text, LzssTypeOK
<1>8. CASE Over \/ UNCHANGED lzss
  BY <1>0, <1>8 DEF Over, lzss, LzssTypeOK
<1> QED
  BY <1>1, <1>2, <1>3, <1>4, <1>5, <1>6, <1>7, <1>8 DEF LzssNext

\* The script's variables have their types: no index leaves the ring, text_buf
\* or dst, whatever the file says.
THEOREM LzssTypeCorrect == LzssSpec => []LzssTypeOK
<1>1. LzssInv => LzssTypeOK
  BY DEF LzssInv
<1> QED
  BY LzssStarts, LzssSteps, <1>1, PTL DEF LzssSpec

\* text_buf always has the last N bytes of the text, with spaces before its
\* start, at the positions the pairs of the image count on.
THEOREM RingCorrect == LzssSpec => []RingIsPast
<1>1. LzssInv => RingIsPast
  BY DEF LzssInv
<1> QED
  BY LzssStarts, LzssSteps, <1>1, PTL DEF LzssSpec

\* A byte of a pair is copied from as far back as the one before it.
LEMMA CopyIs ==
  ASSUME LzssInv, CopyByte
  PROVE  /\ out' = Append(out, Past(out, Behind(pair.pos)))
         /\ pair' # Idle => Behind(pair.pos)' = Behind(pair.pos)
<1>0. LzssTypeOK /\ RingIsPast
  BY DEF LzssInv
<1>1. pair \in [pos : 0..(N - 1), left : Nat \ {0}] /\ r \in 0..(N - 1)
  BY <1>0 DEF CopyByte, LzssTypeOK
<1>2. text_buf[pair.pos] = Past(out, Behind(pair.pos))
  BY <1>0, <1>1 DEF RingIsPast
<1>3. r' = IF r = N - 1 THEN 0 ELSE r + 1
  <2>1. r' = Wrap(r + 1)
    BY DEF CopyByte, Emit
  <2> QED
    BY <1>1, <2>1, Sizes DEF Wrap
<1>4. ASSUME pair' # Idle PROVE Behind(pair.pos)' = Behind(pair.pos)
  <2>1. pair'.pos = IF pair.pos = N - 1 THEN 0 ELSE pair.pos + 1
    <3>1. pair'.pos = Wrap(pair.pos + 1)
      BY <1>4 DEF CopyByte
    <3> QED
      BY <1>1, <3>1, Sizes DEF Wrap
  <2>2. pair.pos \in 0..(N - 1) /\ r \in 0..(N - 1) /\ N \in Nat
    BY <1>1, Sizes
  <2>3. Behind(pair.pos)' = IF pair'.pos < r' THEN r' - pair'.pos ELSE r' - pair'.pos + N
    BY DEF Behind
  <2>4. Behind(pair.pos) = IF pair.pos < r THEN r - pair.pos ELSE r - pair.pos + N
    BY DEF Behind
  <2> QED
    BY <2>1, <2>2, <2>3, <2>4, <1>3
<1> QED
  BY <1>2, <1>4 DEF CopyByte, Emit

\* Every byte of a pair is copied from the same distance back in the text, over
\* bytes the same pair has written too.
THEOREM CopyCorrect == LzssSpec => CopiesFromText
<1> DEFINE Copied ==
      pair # Idle /\ out' # out =>
        /\ out' = Append(out, Past(out, Behind(pair.pos)))
        /\ pair' # Idle => Behind(pair.pos)' = Behind(pair.pos)
<1>1. LzssInv /\ [LzssNext]_lzss => [Copied]_lzss
  <2> SUFFICES ASSUME LzssTypeOK, RingIsPast, LzssNext, pair # Idle, out' # out
               PROVE  /\ out' = Append(out, Past(out, Behind(pair.pos)))
                      /\ pair' # Idle => Behind(pair.pos)' = Behind(pair.pos)
    BY DEF LzssInv, lzss
  <2>1. CopyByte
    BY DEF LzssNext, Refill, Shift, Literal, First, Second, CopyFrom, Read, Reads, Break,
           Truncated, Overrun, End, Over, text, lzss
  <2> QED
    BY <2>1, CopyIs DEF LzssInv
<1> QED
  BY LzssStarts, LzssSteps, <1>1, PTL DEF LzssSpec, CopiesFromText

-----------------------------------------------------------------------------
(* The script unpacks what the bytes stand for.                            *)

\* The register of flags is empty or counts the flags left; the first byte of a
\* pair is the one before; and the ring's position is the length of the text.
Registers ==
  /\ (flags = 0 /\ state = "next") \/ \E m \in 0..(Bits - 1) : Held(flags, m)
  /\ state = "second" => srcidx > 0 /\ first = file.src[srcidx] /\ flags % 2 = 0
  /\ r = (Len(out) - F) % N

\* A byte that is emitted moves the ring's position on.
LEMMA PlaceStep ==
  ASSUME LzssTypeOK, r = (Len(out) - F) % N, NEW b \in Bytes, Emit(b)
  PROVE  r' = (Len(out') - F) % N
<1>1. out \in Seq(Bytes) /\ Len(out) \in Nat /\ r \in 0..(N - 1)
  BY DEF LzssTypeOK, Bytes
<1>2. Len(out') = Len(out) + 1 /\ r' = Wrap(r + 1)
  BY <1>1 DEF Emit
<1>3. Len(out) - F \in Int /\ N \in Nat \ {0}
  BY <1>1, Sizes
<1> DEFINE a == Len(out) - F  q == a \div N
<1>4. q \in Int /\ a = N * q + r
  BY <1>3, Division
<1> HIDE DEF a, q
<1>5. a \in Int /\ a + 1 \in Int /\ Len(out') - F = a + 1
  BY <1>1, <1>2, <1>3, Sizes DEF a
<1>6. CASE r + 1 = N
  <2>1. N * (q + 1) = N * q + N /\ N * q \in Int /\ q + 1 \in Int
    BY <1>3, <1>4, SMTT(30)
  <2>2. a + 1 = N * (q + 1) + 0 /\ 0 \in 0..(N - 1)
    <3>1. r = N - 1 /\ N \in Int /\ a \in Int
      BY <1>1, <1>3, <1>5, <1>6
    <3>2. \A x \in Int : a = x + r => a + 1 = (x + N) + 0
      BY ONLY <3>1
    <3>3. 0 \in 0..(N - 1)
      BY <1>3
    <3> QED
      BY <1>4, <2>1, <3>2, <3>3, Zenon
  <2>3. (a + 1) % N = 0
    BY <1>3, <1>5, <2>1, <2>2, ModIs, Zenon
  <2> QED
    BY <1>2, <1>5, <1>6, <2>3 DEF Wrap
<1>7. CASE r + 1 # N
  <2>1. a + 1 = N * q + (r + 1)
    BY <1>1, <1>3, <1>4, SMTT(30)
  <2>2. r + 1 \in 0..(N - 1)
    BY <1>1, <1>3, <1>7
  <2>3. (a + 1) % N = r + 1
    BY <1>3, <1>4, <1>5, <2>1, <2>2, ModIs, Zenon
  <2> QED
    BY <1>2, <1>5, <1>7, <2>3 DEF Wrap
<1> QED
  BY <1>6, <1>7

LEMMA RegistersStart == LzssInit => Registers
<1> SUFFICES ASSUME LzssInit PROVE Registers
  OBVIOUS
<1>1. Len(out) - F = N * (-1) + (N - F) /\ N - F \in 0..(N - 1) /\ N \in Nat \ {0} /\ Len(out) - F \in Int
  BY Sizes DEF LzssInit
<1>2. (Len(out) - F) % N = N - F
  BY <1>1, ModIs
<1> QED
  BY <1>2 DEF LzssInit, Registers

LEMMA RegistersStep == LzssInv /\ Registers /\ [LzssNext]_lzss => Registers'
<1> SUFFICES ASSUME LzssTypeOK, RingIsPast, Registers, [LzssNext]_lzss PROVE Registers'
  BY DEF LzssInv
<1> USE DEF Registers
<1>0. flags \in Nat
  BY DEF LzssTypeOK
<1>1. CASE Refill
  <2>1. Given \in Bytes
    BY <1>1, GivenByte DEF Refill, Read
  <2>2. flags' = Given + (Byte - 1) * Byte /\ state' = "item" /\ UNCHANGED <<r, out>>
    BY <1>1 DEF Refill, Read, text
  <2>3. Held(flags', Bits - 1) /\ Bits - 1 \in 0..(Bits - 1)
    BY <2>1, <2>2, Refilled, BitsIs
  <2> QED
    BY <2>2, <2>3
<1>2. CASE Shift
  <2>1. FlagsLeft /\ flags' = flags \div 2 /\ state' = "item" /\ UNCHANGED <<r, out>>
    BY <1>2 DEF Shift, text
  <2>2. flags # 0
    <3>1. 0 \div (2 * Byte) = 0
      BY Sizes, DivIs
    <3> QED
      BY <2>1, <3>1 DEF FlagsLeft
  <2>3. PICK m \in 0..(Bits - 1) : Held(flags, m)
    BY <2>2
  <2>4. m > 0 /\ Held(flags', m - 1) /\ m - 1 \in 0..(Bits - 1)
    BY <1>0, <2>1, <2>3, LeftIs, BitsIs DEF FlagsLeft
  <2> QED
    BY <2>1, <2>4
<1>3. CASE Literal
  <2>1. Given \in Bytes /\ Emit(Given) /\ flags' = flags /\ state = "item" /\ state' = "next"
    BY <1>3, GivenByte DEF Literal, Read
  <2> QED
    BY <2>1, PlaceStep
<1>4. CASE First
  <2>1. /\ srcidx' = srcidx + 1 /\ first' = file.src[srcidx + 1] /\ file' = file /\ flags % 2 = 0
        /\ flags' = flags /\ UNCHANGED <<r, out>> /\ state = "item"
    BY <1>4 DEF First, Read, Given, text
  <2>2. srcidx \in Nat
    BY DEF LzssTypeOK
  <2> QED
    BY <2>1, <2>2
<1>5. CASE Second
  BY <1>5 DEF Second, CopyFrom, Read, text
<1>6. CASE CopyByte
  <2>1. text_buf[pair.pos] \in Bytes
    <3>1. pair.pos \in 0..(N - 1)
      BY <1>6 DEF CopyByte, LzssTypeOK
    <3>2. pair.pos \in 0..(N + F - 2)
      BY <3>1, Sizes
    <3> QED
      BY <3>2 DEF LzssTypeOK, Bytes
  <2>2. Emit(text_buf[pair.pos]) /\ UNCHANGED <<file, srcidx, flags, first, state>>
    BY <1>6 DEF CopyByte
  <2> QED
    BY <2>1, <2>2, PlaceStep
<1>7. CASE Break \/ Truncated \/ Overrun
  BY <1>7 DEF Break, Truncated, Overrun, End, text
<1>8. CASE Over \/ UNCHANGED lzss
  BY <1>8 DEF Over, lzss
<1> QED
  BY <1>1, <1>2, <1>3, <1>4, <1>5, <1>6, <1>7, <1>8 DEF LzssNext

-----------------------------------------------------------------------------(* Each step is a step of Lz77, or none.                                   *)

\* What the refinement puts for at and copy.
At == IF state = "second" THEN srcidx - 1 ELSE srcidx
Copying == IF pair = Idle THEN Idle ELSE [dist |-> Behind(pair.pos), left |-> pair.left]

\* The list of kinds, in the names used here.
LEMMA KindsAre ==
  /\ kinds = IF state = "next" THEN [n \in 1..Shifts(flags) |-> Bit(flags, n)]
             ELSE [n \in 1..(Shifts(flags) + 1) |-> Bit(flags, n - 1)]
  /\ kinds' = IF state' = "next" THEN [n \in 1..Shifts(flags') |-> Bit(flags', n)]
              ELSE [n \in 1..(Shifts(flags') + 1) |-> Bit(flags', n - 1)]
  BY DEF kinds, FlagsToShift, Shifts, Held, Bit

\* Taking an item from the list of kinds.
LEMMA TailKinds ==
  ASSUME NEW f, NEW m \in Nat, NEW s, s = [n \in 1..(m + 1) |-> Bit(f, n - 1)]
  PROVE  /\ s # <<>> /\ Tail(s) = [n \in 1..m |-> Bit(f, n)]
         /\ f \in Nat => (Head(s) <=> f % 2 = 1)
<1>1. s \in Seq(BOOLEAN) /\ Len(s) = m + 1
  BY DEF Bit
<1>2. Tail(s) = [n \in 1..m |-> Bit(f, n)]
  <2>1. Tail(s) = [n \in 1..(Len(s) - 1) |-> s[n + 1]]
    BY <1>1
  <2>2. \A n \in 1..m : n + 1 \in 1..(m + 1) /\ (n + 1) - 1 = n
    OBVIOUS
  <2>3. \A n \in 1..m : s[n + 1] = Bit(f, n)
    BY <2>2
  <2>4. Len(s) - 1 = m
    BY <1>1
  <2> QED
    BY <2>1, <2>3, <2>4
<1>3. ASSUME f \in Nat PROVE Head(s) <=> f % 2 = 1
  <2>1. 1 \in 1..(m + 1) /\ 1 - 1 = 0
    OBVIOUS
  <2>2. Head(s) = Bit(f, 0)
    BY <1>1, <2>1
  <2>3. f \div 1 = f
    BY <1>3
  <2> QED
    BY <2>2, <2>3, Pow2Is DEF Bit
<1>4. s # <<>>
  BY <1>1
<1> HIDE DEF Bit
<1> QED
  BY <1>2, <1>3, <1>4, Zenon

\* A copy under way has a distance and a length.
LEMMA CopyingIs ==
  ASSUME LzssTypeOK
  PROVE  /\ pair = Idle <=> Copying = Idle
         /\ pair # Idle => /\ pair.pos \in Ring /\ Behind(pair.pos) \in 1..N /\ pair.left \in Nat \ {0}
                           /\ Copying = [dist |-> Behind(pair.pos), left |-> pair.left]
<1>1. CASE pair = Idle
  BY <1>1 DEF Copying
<1>2. CASE pair # Idle
  <2>1. pair.pos \in Ring /\ pair.left \in Nat \ {0} /\ r \in Ring
    BY <1>2 DEF LzssTypeOK, Ring
  <2>2. Behind(pair.pos) \in 1..N
    BY <2>1, Sizes DEF Behind, Ring
  <2>3. [dist |-> Behind(pair.pos), left |-> pair.left] \in [dist : 1..N, left : Nat]
    BY <2>1, <2>2
  <2>4. Copying # Idle
    BY <1>2, <2>3, LzssAssumption DEF Copying, LzssAssumption
  <2> QED
    BY <1>2, <2>1, <2>2, <2>4 DEF Copying
<1> QED
  BY <1>1, <1>2

\* The abstract script counts in the same powers.
LEMMA SamePowers == L!Pow2 = Pow2
  BY DEF L!Pow2, Pow2

\* The steps that the abstract script does not take.
LEMMA Unseen ==
  ASSUME UNCHANGED <<file, out>>, At' = At, kinds' = kinds, UNCHANGED <<pair, r>>
  PROVE  UNCHANGED L!vars
<1>1. Copying' = Copying
  BY DEF Copying, Behind
<1> QED
  BY <1>1 DEF L!vars, At, Copying

\* A control byte is read when no kind is left, and gives all of them.
LEMMA RefillRefines ==
  ASSUME LzssInv, Registers, Refill
  PROVE  L!Control
<1>1. /\ LzssTypeOK /\ pair = Idle /\ state = "next" /\ ~FlagsLeft /\ state' = "item" /\ InFile
      /\ srcidx' = srcidx + 1 /\ flags' = Given + (Byte - 1) * Byte
      /\ UNCHANGED <<file, r, out, pair>>
  BY DEF LzssInv, Refill, Read, Reads, text
<1>2. Given \in Bytes /\ flags \in Nat /\ Given = file.src[srcidx + 1]
  BY <1>1, GivenByte DEF LzssTypeOK, Given
<1>3. Shifts(flags) = 0
  <2>1. CASE flags = 0
    BY <2>1 DEF Shifts
  <2>2. CASE flags # 0
    <3>1. PICK m \in 0..(Bits - 1) : Held(flags, m)
      BY <2>2 DEF Registers
    <3>2. ~(m > 0)
      BY <1>1, <1>2, <3>1, LeftIs DEF FlagsLeft
    <3>3. m = 0
      BY <3>2
    <3> QED
      BY <1>2, <3>1, <3>3, ShiftsIs
  <2> QED
    BY <2>1, <2>2
<1>4. kinds = <<>>
  BY <1>1, <1>3, KindsAre
<1>5. kinds' = [n \in 1..Bits |-> Bit(Given, n - 1)]
  <2>1. /\ flags' \in Nat /\ Held(flags', Bits - 1)
        /\ \A n \in 1..Bits : Bit(flags', n - 1) <=> Bit(Given, n - 1)
    BY <1>1, <1>2, Refilled
  <2>2. Bits - 1 \in 0..(Bits - 1) /\ (Bits - 1) + 1 = Bits
    BY BitsIs
  <2>3. Shifts(flags') = Bits - 1
    BY <2>1, <2>2, ShiftsIs
  <2>4. kinds' = [n \in 1..Bits |-> Bit(flags', n - 1)]
    BY <1>1, <2>2, <2>3, KindsAre
  <2>5. \A n \in 1..Bits : Bit(flags', n - 1) = Bit(Given, n - 1)
    BY <2>1 DEF Bit
  <2> HIDE DEF Bit
  <2> QED
    BY <2>4, <2>5
<1>6. At = srcidx /\ At' = At + 1 /\ At < Len(file.src)
  BY <1>1 DEF At, InFile
<1>7. Copying = Idle /\ Copying' = Copying
  BY <1>1 DEF Copying
<1>8. kinds' = [n \in 1..Bits |-> (file.src[At + 1] \div Pow2[n - 1]) % 2 = 1]
  BY <1>2, <1>5, <1>6 DEF Bit
<1> QED
  BY <1>1, <1>2, <1>4, <1>6, <1>7, <1>8, SamePowers DEF L!Control, At, Copying

\* Shifting the register does not change the list of kinds.
LEMMA ShiftRefines ==
  ASSUME LzssInv, Registers, Shift
  PROVE  UNCHANGED L!vars
<1>1. /\ LzssTypeOK /\ state = "next" /\ FlagsLeft /\ state' = "item" /\ flags' = flags \div 2
      /\ UNCHANGED <<file, srcidx, r, out, pair>>
  BY DEF LzssInv, Shift, text
<1>2. flags \in Nat /\ flags' \in Nat
  <2>1. flags \in Nat
    BY <1>1 DEF LzssTypeOK
  <2> QED
    BY <1>1, <2>1
<1>3. flags # 0
  <2>1. 0 \div (2 * Byte) = 0
    BY Sizes, DivIs
  <2> QED
    BY <1>1, <2>1 DEF FlagsLeft
<1>4. PICK m \in 0..(Bits - 1) : Held(flags, m)
  BY <1>3 DEF Registers
<1>5. m > 0 /\ Held(flags', m - 1) /\ m - 1 \in 0..(Bits - 1) /\ (m - 1) + 1 = m
  BY <1>1, <1>2, <1>4, LeftIs, BitsIs DEF FlagsLeft
<1>6. Shifts(flags) = m /\ Shifts(flags') = m - 1
  BY <1>2, <1>4, <1>5, ShiftsIs
<1>7. \A n \in 1..m : Bit(flags', n - 1) = Bit(flags, n)
  <2> TAKE n \in 1..m
  <2>1. n - 1 \in Nat /\ (n - 1) + 1 = n
    OBVIOUS
  <2>2. Pow2[n] = 2 * Pow2[n - 1] /\ Pow2[n - 1] \in Nat \ {0}
    BY <2>1, Pow2Is, PowSigns
  <2>3. flags \in Int /\ 2 \in Nat \ {0}
    BY <1>2
  <2>4. (flags \div 2) \div Pow2[n - 1] = flags \div (2 * Pow2[n - 1])
    BY <2>2, <2>3, DivDiv, Zenon
  <2> QED
    BY <1>1, <2>2, <2>4 DEF Bit
<1>8. kinds' = kinds
  <2>1. kinds = [n \in 1..m |-> Bit(flags, n)]
    BY <1>1, <1>6, KindsAre
  <2>2. kinds' = [n \in 1..m |-> Bit(flags', n - 1)]
    BY <1>1, <1>5, <1>6, KindsAre
  <2> QED
    BY <1>7, <2>1, <2>2
<1>9. At' = At
  BY <1>1 DEF At
<1> QED
  BY <1>1, <1>8, <1>9, Unseen

\* An item that is used is the head of the kinds that are left.
LEMMA Used ==
  ASSUME LzssTypeOK, Registers, state # "next", state' = "next", flags' = flags
  PROVE  kinds # <<>> /\ kinds' = Tail(kinds) /\ (Head(kinds) <=> flags % 2 = 1)
<1>1. PICK m \in 0..(Bits - 1) : Held(flags, m)
  BY DEF Registers
<1>2. flags \in Nat /\ m \in Nat
  BY BitsIs DEF LzssTypeOK
<1>3. Shifts(flags) = m
  BY <1>1, <1>2, ShiftsIs
<1>4. kinds = [n \in 1..(m + 1) |-> Bit(flags, n - 1)] /\ kinds' = [n \in 1..m |-> Bit(flags, n)]
  BY <1>3, KindsAre
<1> QED
  BY <1>2, <1>4, TailKinds

\* A literal is the first of the kinds.
LEMMA LiteralRefines ==
  ASSUME LzssInv, Registers, Literal
  PROVE  L!Literal
<1>1. /\ LzssTypeOK /\ pair = Idle /\ state = "item" /\ state' = "next" /\ flags % 2 = 1 /\ InFile
      /\ srcidx' = srcidx + 1 /\ out' = Append(out, Given) /\ UNCHANGED <<file, flags, pair>>
  BY DEF LzssInv, Literal, Read, Reads, Emit
<1>2. kinds # <<>> /\ kinds' = Tail(kinds) /\ Head(kinds)
  BY <1>1, Used
<1>3. At = srcidx /\ At' = At + 1 /\ At < Len(file.src) /\ Given = file.src[At + 1]
  BY <1>1 DEF At, InFile, Given
<1>4. Copying = Idle /\ Copying' = Copying
  BY <1>1 DEF Copying
<1> QED
  BY <1>1, <1>2, <1>3, <1>4 DEF L!Literal, At, Copying

\* The first byte of a pair is not used yet.
LEMMA FirstRefines ==
  ASSUME LzssInv, Registers, First
  PROVE  UNCHANGED L!vars
<1>1. /\ LzssTypeOK /\ state = "item" /\ state' = "second" /\ srcidx' = srcidx + 1
      /\ UNCHANGED <<file, flags, r, out, pair>>
  BY DEF LzssInv, First, Read, text
<1>2. srcidx \in Nat
  BY <1>1 DEF LzssTypeOK
<1>3. kinds' = kinds
  BY <1>1, KindsAre
<1>4. At' = At
  BY <1>1, <1>2 DEF At
<1> QED
  BY <1>1, <1>3, <1>4, Unseen

\* The distance back is the ring's, from what the pair counts from.
LEMMA BackIs ==
  ASSUME NEW len \in Nat, NEW p \in Ring, r \in Ring, r = (len - F) % N
  PROVE  LET back == (len - F - p) % N IN Behind(p) = IF back = 0 THEN N ELSE back
<1> DEFINE a == len - F  q == a \div N
<1>1. N \in Nat \ {0} /\ a \in Int /\ a - p \in Int /\ r \in Nat /\ p \in Nat /\ r < N /\ p < N
  BY Sizes DEF Ring
<1>2. q \in Int /\ a = N * q + r
  BY <1>1, Division
<1>3. N * q \in Int
  BY <1>1, <1>2, SMTT(30)
<1> HIDE DEF a, q
<1>4. CASE p <= r
  <2>1. a - p = N * q + (r - p) /\ r - p \in 0..(N - 1)
    BY <1>1, <1>2, <1>3, <1>4
  <2>2. (a - p) % N = r - p
    <3>1. a - p \in Int /\ N \in Nat \ {0} /\ q \in Int /\ r - p \in 0..(N - 1) /\ a - p = N * q + (r - p)
      BY <1>1, <1>2, <2>1
    <3> QED
      BY ONLY <3>1, ModIs
  <2> QED
    BY <1>1, <1>4, <2>2 DEF Behind, a
<1>5. CASE ~(p <= r)
  <2>1. N * (q - 1) = N * q - N /\ q - 1 \in Int
    BY <1>1, <1>2, SMTT(30)
  <2>2. a - p = N * (q - 1) + (r - p + N) /\ r - p + N \in 0..(N - 1)
    BY <1>1, <1>2, <1>3, <1>5, <2>1
  <2>3. (a - p) % N = r - p + N
    BY <1>1, <2>1, <2>2, ModIs, Zenon
  <2> QED
    BY <1>1, <1>5, <2>3 DEF Behind, a
<1> QED
  BY <1>4, <1>5

\* With the second byte the pair is a match: its position is a distance.
LEMMA SecondRefines ==
  ASSUME LzssInv, Registers, Second
  PROVE  L!Match
<1> DEFINE p == first + Byte * (Given \div Half)
<1>1. /\ LzssTypeOK /\ pair = Idle /\ state = "second" /\ state' = "next" /\ InFile
      /\ srcidx' = srcidx + 1 /\ UNCHANGED <<file, flags, r, out>>
      /\ pair' = [pos |-> p, left |-> (Given % Half) + Threshold + 1]
  BY DEF LzssInv, Second, CopyFrom, Read, Reads, text
<1>2. srcidx \in Nat /\ srcidx > 0 /\ first = file.src[srcidx] /\ flags % 2 = 0
  BY <1>1 DEF Registers, LzssTypeOK
<1>3. kinds # <<>> /\ kinds' = Tail(kinds) /\ ~Head(kinds)
  <2>1. LzssTypeOK /\ state # "next" /\ state' = "next" /\ flags' = flags /\ ~(flags % 2 = 1)
    BY <1>1, <1>2
  <2> QED
    BY <2>1, Used, Zenon
<1>4. At + 1 = srcidx /\ At + 2 = srcidx + 1 /\ At' = At + 2 /\ At + 1 < Len(file.src)
      /\ first = file.src[At + 1] /\ Given = file.src[At + 2]
  BY <1>1, <1>2 DEF At, InFile, Given
<1>5. p \in Ring
  BY <1>1, GivenByte, Position DEF LzssTypeOK, Bytes
<1>6. r \in Ring /\ Len(out) \in Nat /\ r = (Len(out) - F) % N
  BY <1>1 DEF LzssTypeOK, Registers, Ring
<1> DEFINE back == (Len(out) - F - p) % N
<1>7. Behind(p) = IF back = 0 THEN N ELSE back
  BY <1>5, <1>6, BackIs
<1> HIDE DEF p
<1>8. Behind(pair.pos)' = Behind(p) /\ pair' # Idle
  <2>1. pair' \in [pos : 0..(N - 1), left : Nat] /\ pair'.pos = p /\ r' = r
    <3>1. (Given % Half) + Threshold + 1 \in Nat
      BY <1>1, GivenByte, Counts
    <3> QED
      BY <1>1, <1>5, <3>1 DEF Ring
  <2>2. Behind(pair.pos)' = IF pair'.pos < r' THEN r' - pair'.pos ELSE r' - pair'.pos + N
    BY DEF Behind
  <2>3. pair' # Idle
    BY <2>1, LzssAssumption DEF LzssAssumption
  <2> QED
    BY <2>1, <2>2, <2>3 DEF Behind
<1>9. Copying = Idle
      /\ Copying' = [dist |-> IF back = 0 THEN N ELSE back, left |-> (Given % Half) + Threshold + 1]
  BY <1>1, <1>7, <1>8 DEF Copying
<1>10. L!N = N /\ L!F = F /\ L!Byte = Byte
  BY SamePowers DEF L!N, L!F, L!Byte, N, F, Byte
<1> QED
  BY <1>1, <1>3, <1>4, <1>9, <1>10 DEF L!Match, At, Copying, p

\* A turn of the copying loop is one of the match, at its distance.
LEMMA CopyRefines ==
  ASSUME LzssInv, Registers, CopyByte
  PROVE  L!Copy
<1>1. /\ LzssTypeOK /\ pair # Idle /\ UNCHANGED <<file, srcidx, flags, state>>
      /\ pair' = IF pair.left = 1 THEN Idle ELSE [pos |-> Wrap(pair.pos + 1), left |-> pair.left - 1]
  BY DEF LzssInv, CopyByte
<1>2. /\ out' = Append(out, Past(out, Behind(pair.pos)))
      /\ pair' # Idle => Behind(pair.pos)' = Behind(pair.pos)
  BY CopyIs DEF LzssInv
<1>3. /\ Copying # Idle /\ Copying = [dist |-> Behind(pair.pos), left |-> pair.left]
      /\ pair.left \in Nat \ {0} /\ pair.pos \in Ring
  BY <1>1, CopyingIs
<1>4. Copying' = IF pair.left = 1 THEN Idle ELSE [Copying EXCEPT !.left = @ - 1]
  <2>1. CASE pair.left = 1
    BY <1>1, <2>1 DEF Copying
  <2>2. CASE pair.left # 1
    <3>1. pair' \in [pos : 0..(N - 1), left : Nat] /\ pair'.left = pair.left - 1
      BY <1>1, <1>3, <2>2, Sizes DEF Wrap, Ring
    <3>2. pair' # Idle
      BY <3>1, LzssAssumption DEF LzssAssumption
    <3>3. Copying' = [dist |-> Behind(pair.pos), left |-> pair.left - 1]
      BY <1>2, <3>1, <3>2 DEF Copying
    <3> QED
      BY <1>3, <2>2, <3>3
  <2> QED
    BY <2>1, <2>2
<1>5. At' = At /\ kinds' = kinds
  BY <1>1, KindsAre DEF At
<1> QED
  BY <1>1, <1>2, <1>3, <1>4, <1>5 DEF L!Copy, L!Past, Past, At, Copying

\* The ring with its two positions that wrap, and the register of flags, stand for
\* a text, distances back in it and a list of kinds: whatever the file says, every
\* byte of dst is what the compressed bytes stand for.
THEOREM Unpacks == LzssSpec => ImplementsLz77
<1>1. LzssInit => L!Init
  <2> SUFFICES ASSUME LzssInit PROVE L!Init
    OBVIOUS
  <2>1. kinds = <<>>
    BY KindsAre DEF LzssInit, Shifts
  <2> QED
    BY <2>1 DEF LzssInit, L!Init
<1>2. LzssInv /\ Registers /\ [LzssNext]_lzss => [L!Next]_(L!vars)
  <2> SUFFICES ASSUME LzssInv, Registers, [LzssNext]_lzss PROVE [L!Next]_(L!vars)
    OBVIOUS
  <2>1. CASE Refill \/ Literal \/ Second \/ CopyByte
    BY <2>1, RefillRefines, LiteralRefines, SecondRefines, CopyRefines DEF L!Next
  <2>2. CASE Shift \/ First
    BY <2>2, ShiftRefines, FirstRefines
  <2>3. CASE Break \/ Truncated \/ Overrun \/ Over \/ UNCHANGED lzss
    <3>1. UNCHANGED <<file, srcidx, flags, r, out, pair, state>>
      BY <2>3 DEF Break, Truncated, Overrun, Over, End, text, lzss
    <3>2. At' = At /\ kinds' = kinds
      BY <3>1, KindsAre DEF At
    <3> QED
      BY <3>1, <3>2, Unseen
  <2> QED
    BY <2>1, <2>2, <2>3 DEF LzssNext
<1> QED
  BY <1>1, <1>2, LzssStarts, LzssSteps, RegistersStart, RegistersStep, PTL
  DEF LzssSpec, ImplementsLz77, L!Spec

-----------------------------------------------------------------------------
(* The order of the lines.                                                 *)

\* Lines and entries: sequences of the numbers of characters or of digits.
Text == Seq(Nat)

\* The order, index by index.
Prefix(s, t) == Len(s) < Len(t) /\ \A m \in 1..Len(s) : s[m] = t[m]
Differ(s, t, n) ==
  n \in 1..Len(s) /\ n \in 1..Len(t) /\ s[n] < t[n] /\ \A m \in 1..(n - 1) : s[m] = t[m]

\* Before, without SubSeq.
LEMMA BeforeIs ==
  ASSUME NEW s \in Text, NEW t \in Text
  PROVE  Before(s, t) <=> Prefix(s, t) \/ \E n \in Nat : Differ(s, t, n)
<1>0. DOMAIN s = 1..Len(s) /\ DOMAIN t = 1..Len(t) /\ Len(s) \in Nat /\ Len(t) \in Nat
  BY DEF Text
<1>1. ASSUME Len(s) < Len(t)
      PROVE  s = SubSeq(t, 1, Len(s)) <=> \A m \in 1..Len(s) : s[m] = t[m]
  <2> DEFINE u == SubSeq(t, 1, Len(s))
  <2>1. u \in Text /\ Len(u) = Len(s) /\ \A m \in 1..Len(s) : u[m] = t[m]
    <3>1. u = [m \in 1..Len(s) |-> t[m]]
      BY <1>1 DEF Text
    <3>2. \A m \in 1..Len(s) : t[m] \in Nat
      BY <1>1 DEF Text
    <3> QED
      BY <3>1, <3>2 DEF Text
  <2> HIDE DEF u
  <2>2. (\A m \in 1..Len(s) : s[m] = u[m]) => s = u
    BY <2>1, SeqEqual, Zenon DEF Text
  <2> QED
    BY <2>1, <2>2, Zenon DEF u
<1>2. (\E n \in DOMAIN s \cap DOMAIN t : s[n] < t[n] /\ \A m \in 1..(n - 1) : s[m] = t[m])
      <=> \E n \in Nat : Differ(s, t, n)
  <2>1. \A n : n \in DOMAIN s \cap DOMAIN t => n \in Nat
    BY <1>0
  <2> QED
    BY <1>0, <2>1, Zenon DEF Differ
<1> QED
  BY <1>1, <1>2, Zenon DEF Before, Prefix

\* Of two different lines one comes first.
LEMMA BeforeTotal ==
  ASSUME NEW s \in Text, NEW t \in Text
  PROVE  s = t \/ Before(s, t) \/ Before(t, s)
<1> DEFINE D == {n \in DOMAIN s \cap DOMAIN t : s[n] # t[n]}
<1>0. /\ DOMAIN s = 1..Len(s) /\ DOMAIN t = 1..Len(t) /\ Len(s) \in Nat /\ Len(t) \in Nat
      /\ \A n \in DOMAIN s : s[n] \in Nat
      /\ \A n \in DOMAIN t : t[n] \in Nat
  BY DEF Text
<1>1. CASE D = {}
  <2>0. \A n \in DOMAIN s \cap DOMAIN t : s[n] = t[n]
    BY <1>1
  <2> HIDE DEF D
  <2>1. CASE Len(s) = Len(t)
    BY <1>0, <2>0, <2>1, SeqEqual DEF Text
  <2>2. CASE Len(s) < Len(t)
    BY <1>0, <2>0, <2>2, BeforeIs DEF Prefix
  <2>3. CASE Len(t) < Len(s)
    BY <1>0, <2>0, <2>3, BeforeIs DEF Prefix
  <2>4. Len(s) = Len(t) \/ Len(s) < Len(t) \/ Len(t) < Len(s)
    <3>1. \A m, n \in Nat : m = n \/ m < n \/ n < m
      OBVIOUS
    <3> QED
      BY <1>0, <3>1, Zenon
  <2> QED
    BY <2>1, <2>2, <2>3, <2>4, Zenon
<1>2. CASE D # {}
  <2>1. D \in SUBSET Nat
    BY <1>0
  <2>2. PICK n \in D : \A m \in D : n <= m
    BY <1>2, <2>1, LeastOne
  <2>3. \A m \in 1..(n - 1) : s[m] = t[m]
    <3>1. \A m \in 1..(n - 1) : m \in DOMAIN s \cap DOMAIN t /\ ~(n <= m)
      BY <1>0
    <3> QED
      BY <2>2, <3>1
  <2>4. s[n] < t[n] \/ t[n] < s[n]
    BY <1>0
  <2>5. n \in Nat /\ (Differ(s, t, n) \/ Differ(t, s, n))
    BY <1>0, <2>3, <2>4 DEF Differ
  <2> QED
    BY <2>5, BeforeIs
<1> QED
  BY <1>1, <1>2

\* No line is before itself.
LEMMA BeforeNot == ASSUME NEW s \in Text PROVE ~Before(s, s)
<1>1. Len(s) \in Nat /\ \A n \in DOMAIN s : s[n] \in Nat
  BY DEF Text
<1> QED
  BY <1>1, BeforeIs DEF Prefix, Differ

\* The order is transitive.
LEMMA BeforeOn ==
  ASSUME NEW s \in Text, NEW t \in Text, NEW u \in Text, Before(s, t), Before(t, u)
  PROVE  Before(s, u)
<1>0. /\ DOMAIN s = 1..Len(s) /\ DOMAIN t = 1..Len(t) /\ DOMAIN u = 1..Len(u)
      /\ Len(s) \in Nat /\ Len(t) \in Nat /\ Len(u) \in Nat
      /\ \A n \in DOMAIN s : s[n] \in Nat
      /\ \A n \in DOMAIN t : t[n] \in Nat
      /\ \A n \in DOMAIN u : u[n] \in Nat
  BY DEF Text
<1>1. Prefix(s, t) \/ \E n \in Nat : Differ(s, t, n)
  BY BeforeIs
<1>2. Prefix(t, u) \/ \E n \in Nat : Differ(t, u, n)
  BY BeforeIs
<1>3. Prefix(s, u) => Before(s, u)
  BY BeforeIs
<1>4. ASSUME NEW n \in Nat, Differ(s, u, n) PROVE Before(s, u)
  BY <1>4, BeforeIs
<1> USE DEF Prefix, Differ
<1>5. CASE Prefix(s, t) /\ Prefix(t, u)
  BY <1>0, <1>3, <1>5
<1>6. ASSUME NEW n \in Nat, Prefix(s, t), Differ(t, u, n) PROVE Before(s, u)
  <2>1. CASE n <= Len(s)
    BY <1>0, <1>4, <1>6, <2>1
  <2>2. CASE ~(n <= Len(s))
    <3>1. \A m \in 1..Len(s) : m \in 1..(n - 1)
      BY <1>0, <2>2
    <3>2. Len(s) < Len(u)
      BY <1>0, <1>6, <2>2
    <3> QED
      BY <1>3, <1>6, <3>1, <3>2
  <2> QED
    BY <2>1, <2>2
<1>7. ASSUME NEW n \in Nat, Differ(s, t, n), Prefix(t, u) PROVE Before(s, u)
  BY <1>0, <1>4, <1>7
<1>8. ASSUME NEW n \in Nat, NEW m \in Nat, Differ(s, t, n), Differ(t, u, m) PROVE Before(s, u)
  <2>1. CASE n <= m
    <3>1. Differ(s, u, n)
      BY <1>0, <1>8, <2>1
    <3> QED
      BY <1>4, <3>1
  <2>2. CASE ~(n <= m)
    <3>1. Differ(s, u, m)
      BY <1>0, <1>8, <2>2
    <3> QED
      BY <1>4, <3>1
  <2> QED
    BY <2>1, <2>2
<1> HIDE DEF Prefix, Differ
<1> QED
  BY ONLY <1>1, <1>2, <1>5, <1>6, <1>7, <1>8

-----------------------------------------------------------------------------
(* Sorting.                                                                *)

\* p names each line of s once, and no line after a greater one.
Order(s, p) ==
  /\ \A n \in DOMAIN s : \E i \in DOMAIN s : p[i] = n
  /\ \A i, j \in DOMAIN s : i < j => ~Before(s[p[j]], s[p[i]])

\* Not after: the order of lines that may be the same.
LEMMA NotAfter ==
  ASSUME NEW s \in Text, NEW t \in Text, NEW u \in Text, ~Before(t, s), ~Before(u, t)
  PROVE  ~Before(u, s)
BY BeforeTotal, BeforeOn, Zenon

\* A line can be put in its place among lines that are sorted.
LEMMA Inserted ==
  ASSUME NEW n \in Nat, NEW s \in [1..(n + 1) -> Text],
         NEW p \in [1..n -> 1..n], Order([m \in 1..n |-> s[m]], p)
  PROVE  \E q \in [1..(n + 1) -> 1..(n + 1)] : Order(s, q)
<1> DEFINE x == s[n + 1]
           K == {k \in 1..(n + 1) : k = n + 1 \/ Before(x, s[p[k]])}
<1>0. /\ \A k \in 1..n : p[k] \in 1..n /\ p[k] \in 1..(n + 1) /\ s[p[k]] \in Text
      /\ n + 1 \in 1..(n + 1) /\ x \in Text
      /\ \A m \in 1..n : \E i \in 1..n : p[i] = m
  <2>1. \A m \in 1..n : \E i \in 1..n : p[i] = m
    BY DEF Order
  <2>2. \A k \in 1..n : p[k] \in 1..n /\ p[k] \in 1..(n + 1)
    OBVIOUS
  <2>3. n + 1 \in 1..(n + 1)
    OBVIOUS
  <2>4. \A k \in 1..(n + 1) : s[k] \in Text
    OBVIOUS
  <2> QED
    BY <2>1, <2>2, <2>3, <2>4, Zenon
<1>1. \A i, j \in 1..n : i < j => ~Before(s[p[j]], s[p[i]])
  BY <1>0 DEF Order
<1>2. PICK k \in K : \A m \in K : k <= m
  <2>1. K \in SUBSET Nat /\ n + 1 \in K
    BY <1>0
  <2> HIDE DEF K
  <2> QED
    BY <2>1, LeastOne
<1>3. k \in 1..(n + 1) /\ (k # n + 1 => Before(x, s[p[k]]))
  BY <1>2
<1>4. \A m \in 1..n : m < k => ~Before(x, s[p[m]])
  <2>1. \A m \in 1..n : m < k => m \in 1..(n + 1) /\ ~(k <= m)
    BY <1>3
  <2> QED
    BY <1>2, <2>1
<1> HIDE DEF K, x
<1> DEFINE q == [i \in 1..(n + 1) |-> IF i < k THEN p[i] ELSE IF i = k THEN n + 1 ELSE p[i - 1]]
<1>5. \A i \in 1..(n + 1) : /\ i < k => i \in 1..n /\ q[i] = p[i]
                            /\ i = k => q[i] = n + 1
                            /\ i > k => i - 1 \in 1..n /\ i - 1 >= k /\ q[i] = p[i - 1]
  BY <1>3
<1>6. q \in [1..(n + 1) -> 1..(n + 1)]
  <2>1. \A i \in 1..(n + 1) : q[i] \in 1..(n + 1)
    <3> TAKE i \in 1..(n + 1)
    <3>1. i < k \/ i = k \/ i > k
      BY <1>3
    <3> HIDE DEF q
    <3> QED
      BY <1>0, <1>5, <3>1
  <2> QED
    BY <2>1
<1> HIDE DEF q
<1>7. ASSUME NEW m \in 1..(n + 1) PROVE \E i \in 1..(n + 1) : q[i] = m
  <2>1. CASE m = n + 1
    BY <1>3, <1>5, <2>1
  <2>2. CASE m # n + 1
    <3>1. PICK i \in 1..n : p[i] = m
      BY <1>0, <2>2
    <3>2. CASE i < k
      <4>1. i \in 1..(n + 1)
        OBVIOUS
      <4>2. q[i] = m
        BY <1>5, <3>1, <3>2, <4>1
      <4> QED
        BY <4>1, <4>2, Zenon
    <3>3. CASE ~(i < k)
      <4>1. i + 1 \in 1..(n + 1) /\ i + 1 > k /\ (i + 1) - 1 = i
        BY <1>3, <3>3
      <4> QED
        BY <1>5, <3>1, <4>1
    <3> QED
      BY <3>2, <3>3
  <2> QED
    BY <2>1, <2>2
<1>8. \A m \in 1..n : m >= k => Before(x, s[p[m]]) \/ x = s[p[m]]
  <2> TAKE m \in 1..n
  <2> HAVE m >= k
  <2>1. k \in 1..n /\ Before(x, s[p[k]])
    BY <1>3
  <2>2. ~Before(s[p[k]], x)
    BY <1>0, <2>1, BeforeOn, BeforeNot
  <2>3. ~Before(s[p[m]], s[p[k]])
    <3>1. CASE m = k
      BY <1>0, <2>1, <3>1, BeforeNot
    <3>2. CASE m # k
      BY <1>1, <2>1, <3>2
    <3> QED
      BY <3>1, <3>2
  <2>4. ~Before(s[p[m]], x)
    BY <1>0, <2>1, <2>2, <2>3, NotAfter
  <2> QED
    BY <1>0, <2>4, BeforeTotal
<1>9. ASSUME NEW i \in 1..(n + 1), NEW j \in 1..(n + 1), i < j PROVE ~Before(s[q[j]], s[q[i]])
  <2>1. CASE j < k
    <3>1. i \in 1..n /\ j \in 1..n /\ q[i] = p[i] /\ q[j] = p[j]
      BY <1>3, <1>5, <1>9, <2>1
    <3> QED
      BY <1>1, <1>9, <3>1
  <2>2. CASE j = k
    <3>1. i \in 1..n /\ i < k /\ q[i] = p[i] /\ s[q[j]] = x
      BY <1>3, <1>5, <1>9, <2>2 DEF x
    <3> QED
      BY <1>4, <3>1
  <2>3. CASE j > k /\ i = k
    <3>1. j - 1 \in 1..n /\ j - 1 >= k /\ q[j] = p[j - 1] /\ s[q[i]] = x
      BY <1>5, <2>3 DEF x
    <3> QED
      BY <1>0, <1>8, <3>1, BeforeOn, BeforeNot
  <2>4. CASE j > k /\ i > k
    <3>1. i - 1 \in 1..n /\ j - 1 \in 1..n /\ i - 1 < j - 1 /\ q[i] = p[i - 1] /\ q[j] = p[j - 1]
      BY <1>5, <1>9, <2>4
    <3> QED
      BY <1>1, <3>1
  <2>5. CASE j > k /\ i < k
    <3>1. i \in 1..n /\ j - 1 \in 1..n /\ i < j - 1 /\ q[i] = p[i] /\ q[j] = p[j - 1]
      BY <1>3, <1>5, <2>5
    <3> QED
      BY <1>1, <3>1
  <2> QED
    BY <1>3, <2>1, <2>2, <2>3, <2>4, <2>5
<1>10. Order(s, q)
  BY <1>7, <1>9 DEF Order
<1> QED
  BY <1>6, <1>10

\* Any number of lines can be sorted.
LEMMA Sortable == \A n \in Nat : \A s \in [1..n -> Text] : \E p \in [1..n -> 1..n] : Order(s, p)
<1> DEFINE T == {n \in Nat : \A s \in [1..n -> Text] : \E p \in [1..n -> 1..n] : Order(s, p)}
<1>1. 0 \in T
  <2>1. ASSUME NEW s \in [1..0 -> Text] PROVE \E p \in [1..0 -> 1..0] : Order(s, p)
    <3>1. [m \in 1..0 |-> m] \in [1..0 -> 1..0]
      OBVIOUS
    <3>2. Order(s, [m \in 1..0 |-> m])
      BY DEF Order
    <3> QED
      BY <3>1, <3>2
  <2> QED
    BY <2>1
<1>2. ASSUME NEW n \in Nat, n \in T PROVE n + 1 \in T
  <2>1. ASSUME NEW s \in [1..(n + 1) -> Text]
        PROVE  \E q \in [1..(n + 1) -> 1..(n + 1)] : Order(s, q)
    <3> DEFINE t == [m \in 1..n |-> s[m]]
    <3>1. t \in [1..n -> Text]
      <4>1. \A m \in 1..n : m \in 1..(n + 1)
        OBVIOUS
      <4> QED
        BY <4>1
    <3>2. PICK p \in [1..n -> 1..n] : Order(t, p)
      BY <1>2, <3>1
    <3> QED
      BY <3>2, Inserted
  <2> QED
    BY <2>1
<1>3. T \in SUBSET Nat
  OBVIOUS
<1> HIDE DEF T
<1>4. \A n \in Nat : n \in T
  BY <1>1, <1>2, <1>3, Induction
<1> QED
  BY <1>4 DEF T

\* sorted() has the lines of the file, none after a greater one.
LEMMA SortedIs ==
  ASSUME NEW s \in Seq(Text)
  PROVE  /\ Sorted(s) \in Seq(Text) /\ Len(Sorted(s)) = Len(s)
         /\ \A n \in DOMAIN s : \E i \in DOMAIN s : Sorted(s)[i] = s[n]
         /\ \A i \in DOMAIN s : \E n \in DOMAIN s : Sorted(s)[i] = s[n]
         /\ \A i, j \in DOMAIN s : i < j => ~Before(Sorted(s)[j], Sorted(s)[i])
<1> DEFINE P == DOMAIN s  c == CHOOSE p \in [P -> P] : Order(s, p)
<1>1. P = 1..Len(s) /\ Len(s) \in Nat /\ s \in [1..Len(s) -> Text]
  OBVIOUS
<1>2. \E p \in [P -> P] : Order(s, p)
  BY <1>1, Sortable
<1>3. c \in [P -> P] /\ Order(s, c)
  BY <1>2
<1>4. Sorted(s) = [n \in P |-> s[c[n]]]
  BY Zenon DEF Sorted, Order
<1> HIDE DEF c
<1>5. Sorted(s) \in Seq(Text) /\ Len(Sorted(s)) = Len(s)
  BY <1>1, <1>3, <1>4
<1>6. \A i \in P : Sorted(s)[i] = s[c[i]] /\ c[i] \in P
  BY <1>3, <1>4
<1>7. \A n \in P : \E i \in P : Sorted(s)[i] = s[n]
  <2> TAKE n \in P
  <2>1. PICK i \in P : c[i] = n
    BY <1>3 DEF Order
  <2> QED
    BY <1>6, <2>1
<1>8. \A i, j \in P : i < j => ~Before(Sorted(s)[j], Sorted(s)[i])
  BY <1>3, <1>6, Zenon DEF Order
<1> QED
  BY <1>5, <1>6, <1>7, <1>8, Zenon

-----------------------------------------------------------------------------
(* The bisection.                                                          *)

\* Among entries that are sorted it finds what is there and nothing else.
LEMMA Bisection ==
  ASSUME NEW tc, NEW hash \in Text, tc.count \in Nat,
         \A n \in 1..tc.count : tc.entries[n] \in Text,
         \A i, j \in 1..tc.count : i < j => ~Before(tc.entries[j], tc.entries[i])
  PROVE  Lookup(tc, hash) <=> \E n \in 1..tc.count : tc.entries[n] = hash
<1> DEFINE C == tc.count
           e == tc.entries
           In(low, high) == \E n \in low..high : e[n] = hash
           Turn(f, range) ==
             LET low == range[1]  high == range[2]
                 middle == (low + high) \div 2
             IN IF low > high THEN FALSE
                ELSE IF e[middle] = hash THEN TRUE
                ELSE IF Before(e[middle], hash) THEN f[<<middle + 1, high>>]
                ELSE f[<<low, middle - 1>>]
           Ranges == (1..(C + 1)) \X (0..C)
           Loop(f) == [range \in Ranges |-> Turn(f, range)]
           found == CHOOSE f : f = Loop(f)
           G == [range \in Ranges |-> In(range[1], range[2])]
<1>1. ASSUME NEW low \in 1..(C + 1), NEW high \in 0..C, low <= high
      PROVE  LET m == (low + high) \div 2
             IN /\ m \in low..high /\ m \in 1..C /\ m + 1 \in 1..(C + 1) /\ m - 1 \in 0..C
  BY <1>1
<1> HIDE DEF In
<1>2. ASSUME NEW low \in 1..(C + 1), NEW high \in 0..C, low <= high,
             NEW m, m = (low + high) \div 2, e[m] # hash
      PROVE  In(low, high) <=> IF Before(e[m], hash) THEN In(m + 1, high) ELSE In(low, m - 1)
  <2>1. m \in low..high /\ m \in 1..C /\ low \in Nat /\ high \in Nat /\ m \in Nat
    BY <1>1, <1>2
  <2>2. CASE Before(e[m], hash)
    <3>1. \A n \in low..high : e[n] = hash => n \in (m + 1)..high
      <4> TAKE n \in low..high
      <4> HAVE e[n] = hash
      <4>1. n \in 1..C /\ ~(n < m) /\ n # m
        BY <1>2, <2>1, <2>2
      <4> QED
        BY <2>1, <4>1
    <3>2. \A n \in (m + 1)..high : n \in low..high
      BY <2>1
    <3> QED
      BY <2>2, <3>1, <3>2, Zenon DEF In
  <2>3. CASE ~Before(e[m], hash)
    <3>0. Before(hash, e[m])
      BY <1>2, <2>1, <2>3, BeforeTotal
    <3>1. \A n \in low..high : e[n] = hash => n \in low..(m - 1)
      <4> TAKE n \in low..high
      <4> HAVE e[n] = hash
      <4>1. n \in 1..C /\ ~(m < n) /\ n # m
        BY <1>2, <2>1, <3>0
      <4> QED
        BY <2>1, <4>1
    <3>2. \A n \in low..(m - 1) : n \in low..high
      BY <2>1
    <3> QED
      BY <2>3, <3>1, <3>2, Zenon DEF In
  <2> QED
    BY <2>2, <2>3
<1>3. ASSUME NEW low \in 1..(C + 1), NEW high \in 0..C PROVE G[<<low, high>>] = Turn(G, <<low, high>>)
  <2>1. \A x \in 1..(C + 1), y \in 0..C : G[<<x, y>>] = In(x, y)
    OBVIOUS
  <2> DEFINE m == (low + high) \div 2
  <2> HIDE DEF G, e
  <2>2. Turn(G, <<low, high>>) = IF low > high THEN FALSE
                                 ELSE IF e[m] = hash THEN TRUE
                                 ELSE IF Before(e[m], hash) THEN G[<<m + 1, high>>] ELSE G[<<low, m - 1>>]
    OBVIOUS
  <2> HIDE DEF Turn
  <2>3. CASE low > high
    <3>1. In(low, high) = FALSE
      BY <2>3 DEF In
    <3> QED
      BY <2>1, <2>2, <2>3, <3>1
  <2>4. CASE ~(low > high)
    <3>0. low <= high
      BY <2>4
    <3>1. m \in low..high /\ m \in 1..C /\ m + 1 \in 1..(C + 1) /\ m - 1 \in 0..C
      BY <1>1, <3>0
    <3>2. e[m] = hash => In(low, high)
      BY <3>1 DEF In
    <3>3. G[<<m + 1, high>>] = In(m + 1, high) /\ G[<<low, m - 1>>] = In(low, m - 1)
      BY <2>1, <3>1
    <3>4. e[m] # hash =>
            (In(low, high) <=> IF Before(e[m], hash) THEN In(m + 1, high) ELSE In(low, m - 1))
      BY <1>2, <3>0 DEF e
    <3> HIDE DEF m
    <3>6. In(low, high) \in BOOLEAN /\ In(m + 1, high) \in BOOLEAN /\ In(low, m - 1) \in BOOLEAN
      BY DEF In
    <3> QED
      BY <2>1, <2>2, <2>4, <3>2, <3>3, <3>4, <3>6, Zenon
  <2> QED
    BY <2>3, <2>4
<1>4. G = Loop(G)
  <2>1. \A range \in Ranges : G[range] = Turn(G, range)
    <3> TAKE range \in Ranges
    <3>1. PICK low \in 1..(C + 1), high \in 0..C : range = <<low, high>>
      OBVIOUS
    <3> HIDE DEF G, Turn, Ranges
    <3> QED
      BY <1>3, <3>1
  <2>2. G = [range \in Ranges |-> G[range]]
    OBVIOUS
  <2> HIDE DEF G, Turn, Ranges
  <2> QED
    BY <2>1, <2>2
<1>5. found = Loop(found)
  <2> HIDE DEF G, Loop
  <2> QED
    BY <1>4, Zenon
<1> DEFINE T == {n \in Nat : \A low \in 1..(C + 1), high \in 0..C :
                                high + 1 - low <= n => found[<<low, high>>] = G[<<low, high>>]}
<1>6. ASSUME NEW low \in 1..(C + 1), NEW high \in 0..C PROVE found[<<low, high>>] = Turn(found, <<low, high>>)
  <2>1. <<low, high>> \in Ranges
    OBVIOUS
  <2> HIDE DEF found, Ranges, Turn
  <2>2. Loop(found)[<<low, high>>] = Turn(found, <<low, high>>)
    BY <2>1
  <2> HIDE DEF Loop
  <2> QED
    BY <1>5, <2>2, Zenon
<1>7. 0 \in T
  <2>1. ASSUME NEW low \in 1..(C + 1), NEW high \in 0..C, high + 1 - low <= 0
        PROVE  found[<<low, high>>] = G[<<low, high>>]
    <3>1. low > high
      BY <2>1
    <3> HIDE DEF found, G
    <3>2. Turn(found, <<low, high>>) = FALSE /\ Turn(G, <<low, high>>) = FALSE
      BY <3>1
    <3> HIDE DEF Turn
    <3> QED
      BY <1>3, <1>6, <3>2
  <2> HIDE DEF found, G
  <2> QED
    BY <2>1
<1>8. ASSUME NEW n \in Nat, n \in T PROVE n + 1 \in T
  <2>1. ASSUME NEW low \in 1..(C + 1), NEW high \in 0..C, high + 1 - low <= n + 1
        PROVE  found[<<low, high>>] = G[<<low, high>>]
    <3> HIDE DEF found, G
    <3>1. CASE low > high
      <4>1. Turn(found, <<low, high>>) = FALSE /\ Turn(G, <<low, high>>) = FALSE
        BY <3>1
      <4> HIDE DEF Turn
      <4> QED
        BY <1>3, <1>6, <4>1
    <3>2. CASE ~(low > high)
      <4> DEFINE m == (low + high) \div 2
      <4>1. low <= high
        BY <3>2
      <4>2. m \in low..high /\ m + 1 \in 1..(C + 1) /\ m - 1 \in 0..C
        BY <1>1, <4>1
      <4>3. high + 1 - (m + 1) <= n /\ (m - 1) + 1 - low <= n
        BY <2>1, <4>2
      <4> HIDE DEF m
      <4>4. found[<<m + 1, high>>] = G[<<m + 1, high>>] /\ found[<<low, m - 1>>] = G[<<low, m - 1>>]
        BY <1>8, <4>2, <4>3
      <4> HIDE DEF e
      <4>5. Turn(found, <<low, high>>) = Turn(G, <<low, high>>)
        BY <4>4 DEF m
      <4> HIDE DEF Turn
      <4> QED
        BY <1>3, <1>6, <4>5
    <3> QED
      BY <3>1, <3>2
  <2> HIDE DEF found, G
  <2> QED
    BY <2>1
<1>9. \A n \in Nat : n \in T
  <2>1. T \in SUBSET Nat
    OBVIOUS
  <2> HIDE DEF T
  <2> QED
    BY <1>7, <1>8, <2>1, Induction
<1>10. found[<<1, C>>] = G[<<1, C>>]
  <2>1. 1 \in 1..(C + 1) /\ C \in 0..C /\ C + 1 - 1 <= C /\ C \in Nat
    OBVIOUS
  <2> HIDE DEF found, G, C
  <2> QED
    BY <1>9, <2>1
<1>11. G[<<1, C>>] = In(1, C)
  OBVIOUS
<1>12. Lookup(tc, hash) = found[<<1, C>>]
  BY Zenon DEF Lookup
<1> QED
  BY <1>10, <1>11, <1>12, Zenon DEF In

-----------------------------------------------------------------------------
(* The entries.                                                            *)

\* A line that is not blank has its digits, and an entry made of them.
LEMMA LineIs ==
  ASSUME NEW line \in Lines
  PROVE  /\ line \in Text /\ Digits \in Nat \ {0}
         /\ line # <<>> =>
              /\ \A n \in 1..Digits : n \in 1..Len(line) /\ line[n] \in Codes /\ line[n] \in Nat
              /\ Entry(line) \in [1..Digits -> Nat] /\ Entry(line) \in Text /\ Len(Entry(line)) = Digits
              /\ \A n \in 1..Digits : Entry(line)[n] = Value[line[n]] /\ Value[line[n]] \in Nat
<1>1. Digits \in Nat \ {0} /\ Codes \subseteq Nat /\ Value \in [Codes -> Nat] /\ Tails \subseteq Nat
  BY TrustCacheAssumption DEF TrustCacheAssumption, Codes
<1>2. CASE line = <<>>
  BY <1>1, <1>2 DEF Text
<1>3. CASE line # <<>>
  <2>1. PICK k \in Nat : line \in [1..(Digits + k) -> Codes]
    BY <1>1, <1>3 DEF Lines
  <2>2. line \in Text /\ Len(line) = Digits + k
    BY <1>1, <2>1 DEF Text
  <2>3. \A n \in 1..Digits : n \in 1..Len(line) /\ line[n] \in Codes /\ line[n] \in Nat
    <3>1. \A n \in 1..Digits : n \in 1..(Digits + k)
      BY <1>1
    <3> QED
      BY <1>1, <2>1, <2>2, <3>1
  <2>4. Entry(line) = [n \in 1..Digits |-> Value[line[n]]]
    BY DEF Entry
  <2>5. \A n \in 1..Digits : Value[line[n]] \in Nat
    BY <1>1, <2>3
  <2> QED
    BY <1>1, <2>2, <2>3, <2>4, <2>5 DEF Text
<1> QED
  BY <1>2, <1>3

\* Blank lines come first when lines are sorted.
LEMMA BlanksFirst ==
  ASSUME NEW s \in Seq(Text), \A i, j \in 1..Len(s) : i < j => ~Before(s[j], s[i])
  PROVE  \E k \in 0..Len(s) : \A n \in 1..Len(s) : s[n] = <<>> <=> n <= k
<1> DEFINE B == {n \in 1..Len(s) : s[n] # <<>>}
<1>1. Len(s) \in Nat /\ B \in SUBSET Nat /\ \A n \in 1..Len(s) : s[n] \in Text
  OBVIOUS
<1>2. CASE B = {}
  <2>1. Len(s) \in 0..Len(s) /\ \A n \in 1..Len(s) : n <= Len(s) /\ s[n] = <<>>
    BY <1>1, <1>2
  <2> QED
    BY <2>1, Zenon
<1>3. CASE B # {}
  <2>1. PICK b \in B : \A n \in B : b <= n
    BY <1>1, <1>3, LeastOne
  <2>2. b \in 1..Len(s) /\ s[b] # <<>> /\ s[b] \in Text /\ b - 1 \in 0..Len(s)
    BY <1>1, <2>1
  <2>3. <<>> \in Text /\ Len(<<>>) = 0 /\ Len(s[b]) \in Nat \ {0}
    BY <2>2 DEF Text
  <2>4. Before(<<>>, s[b])
    <3>1. Prefix(<<>>, s[b])
      BY <2>3 DEF Prefix
    <3> QED
      BY <2>2, <2>3, <3>1, BeforeIs
  <2>5. ASSUME NEW n \in 1..Len(s) PROVE s[n] = <<>> <=> n <= b - 1
    <3>1. n < b => s[n] = <<>>
      BY <1>1, <2>1, <2>2
    <3>2. n > b => s[n] # <<>>
      BY <2>2, <2>4
    <3>3. n < b \/ n = b \/ n > b
      BY <1>1, <2>2
    <3>4. n <= b - 1 <=> n < b
      BY <1>1, <2>2
    <3> QED
      BY <1>1, <2>2, <3>1, <3>2, <3>3, <3>4
  <2> QED
    BY <2>2, <2>5
<1> QED
  BY <1>2, <1>3

\* What create_tc() writes: after k blank lines, an entry for each of the others.
LEMMA WrittenIs ==
  ASSUME NEW lines \in Seq(Lines)
  PROVE  /\ TrustCacheOf(lines).count = Len(lines)
         /\ \E k \in 0..Len(lines) :
              /\ \A n \in 1..Len(lines) : Sorted(lines)[n] = <<>> <=> n <= k
              /\ TrustCacheOf(lines).entries \in Seq(Text)
              /\ Len(TrustCacheOf(lines).entries) = Len(lines) - k
              /\ \A n \in 1..(Len(lines) - k) :
                   TrustCacheOf(lines).entries[n] = Entry(Sorted(lines)[n + k])
<1> DEFINE s == Sorted(lines)
           Loop(f) == [n \in 0..Len(s) |-> IF n = 0 THEN <<>>
                                           ELSE IF s[n] = <<>> THEN f[n - 1]
                                           ELSE Append(f[n - 1], Entry(s[n]))]
           written == CHOOSE f : f = Loop(f)
<1>1. /\ Len(s) \in Nat /\ Len(s) = Len(lines) /\ s \in Seq(Text)
      /\ \A n \in 1..Len(s) : s[n] # <<>> => Entry(s[n]) \in Text
      /\ \A i, j \in 1..Len(s) : i < j => ~Before(s[j], s[i])
  <2>1. lines \in Seq(Text)
    BY LineIs
  <2>2. /\ s \in Seq(Text) /\ Len(s) = Len(lines)
        /\ \A i \in DOMAIN lines : \E n \in DOMAIN lines : s[i] = lines[n]
        /\ \A i, j \in DOMAIN lines : i < j => ~Before(s[j], s[i])
    BY <2>1, SortedIs, Zenon
  <2>3. \A n \in DOMAIN lines : lines[n] \in Lines
    OBVIOUS
  <2>4. DOMAIN lines = 1..Len(lines) /\ Len(lines) \in Nat
    OBVIOUS
  <2> HIDE DEF s
  <2> QED
    BY <2>2, <2>3, <2>4, LineIs
<1>2. TrustCacheOf(lines) = [count |-> Len(s), entries |-> written[Len(s)]]
  BY Zenon DEF TrustCacheOf
<1> HIDE DEF s
<1>0. PICK k \in 0..Len(s) : \A n \in 1..Len(s) : s[n] = <<>> <=> n <= k
  BY <1>1, BlanksFirst
<1> DEFINE Left(n) == IF n <= k THEN 0 ELSE n - k
           G == [n \in 0..Len(s) |-> [m \in 1..Left(n) |-> Entry(s[m + k])]]
<1>3. ASSUME NEW n \in 1..Len(s) PROVE G[n] = IF s[n] = <<>> THEN G[n - 1] ELSE Append(G[n - 1], Entry(s[n]))
  <2>1. n - 1 \in 0..Len(s) /\ n \in 0..Len(s) /\ n - 1 \in Nat /\ n \in Nat /\ k \in Nat
    BY <1>1
  <2>2. G[n - 1] = [m \in 1..Left(n - 1) |-> Entry(s[m + k])] /\ G[n] = [m \in 1..Left(n) |-> Entry(s[m + k])]
    BY <2>1
  <2> HIDE DEF G
  <2>7. CASE s[n] = <<>>
    <3>1. n <= k /\ n - 1 <= k
      BY <1>0, <2>1, <2>7
    <3> QED
      BY <2>2, <2>7, <3>1
  <2>8. CASE s[n] # <<>>
    <3>1. n > k /\ Left(n) = n - k /\ Left(n - 1) = n - k - 1 /\ n - k \in Nat \ {0}
      BY <1>0, <2>1, <2>8
    <3> DEFINE g == G[n - 1]  b == Entry(s[n])  p == n - k
    <3>2. g = [m \in 1..(p - 1) |-> Entry(s[m + k])] /\ G[n] = [m \in 1..p |-> Entry(s[m + k])]
          /\ p \in Nat \ {0} /\ p + k = n
      BY <2>1, <2>2, <3>1
    <3>3. \A m \in 1..p : Entry(s[m + k]) \in Text
      <4>1. ASSUME NEW m \in 1..p PROVE Entry(s[m + k]) \in Text
        <5>1. m + k \in 1..Len(s) /\ ~(m + k <= k)
          BY <1>1, <2>1, <3>1
        <5> QED
          BY <1>0, <1>1, <5>1
      <4> QED
        BY <4>1
    <3>4. b \in Text /\ b = Entry(s[p + k])
      BY <1>1, <2>8, <3>2
    <3> HIDE DEF g, b, p
    <3>5. g \in Seq(Text) /\ Len(g) = p - 1 /\ G[n] \in Seq(Text) /\ Len(G[n]) = p
      <4>1. \A q \in Nat : (\A m \in 1..q : Entry(s[m + k]) \in Text) =>
               /\ [m \in 1..q |-> Entry(s[m + k])] \in Seq(Text)
               /\ Len([m \in 1..q |-> Entry(s[m + k])]) = q
        OBVIOUS
      <4>2. p - 1 \in Nat /\ p \in Nat /\ \A m \in 1..(p - 1) : m \in 1..p
        BY <3>2
      <4> QED
        BY <3>2, <3>3, <4>1, <4>2
    <3>6. Append(g, b) \in Seq(Text) /\ Len(Append(g, b)) = p
          /\ \A m \in 1..p : Append(g, b)[m] = IF m = p THEN b ELSE g[m]
      BY <3>2, <3>4, <3>5
    <3>7. \A m \in 1..p : Append(g, b)[m] = G[n][m]
      <4>1. \A m \in 1..p : m # p => m \in 1..(p - 1)
        BY <3>2
      <4>2. \A m \in 1..p : G[n][m] = Entry(s[m + k])
        BY <3>2
      <4>3. \A m \in 1..(p - 1) : g[m] = Entry(s[m + k])
        BY <3>2
      <4> QED
        BY <3>4, <3>6, <4>1, <4>2, <4>3, Zenon
    <3>8. Append(g, b) = G[n]
      BY <3>5, <3>6, <3>7, SeqEqual
    <3> QED
      BY <2>8, <3>8 DEF g, b
  <2> QED
    BY <2>7, <2>8
<1>4. G[0] = <<>>
  BY <1>1
<1>5. G = Loop(G)
  <2>1. G = [n \in 0..Len(s) |-> G[n]]
    OBVIOUS
  <2>2. \A n \in 0..Len(s) : n # 0 => n \in 1..Len(s)
    BY <1>1
  <2> HIDE DEF G
  <2>3. \A n \in 0..Len(s) : G[n] = IF n = 0 THEN <<>> ELSE IF s[n] = <<>> THEN G[n - 1]
                                    ELSE Append(G[n - 1], Entry(s[n]))
    BY <1>3, <1>4, <2>2
  <2> QED
    BY <2>1, <2>3
<1>6. written = Loop(written)
  <2> HIDE DEF G, Loop
  <2> QED
    BY <1>5, Zenon
<1>7. /\ written[0] = <<>>
      /\ \A n \in 1..Len(s) :
           written[n] = IF s[n] = <<>> THEN written[n - 1] ELSE Append(written[n - 1], Entry(s[n]))
  <2> HIDE DEF written
  <2>1. 0 \in 0..Len(s) /\ \A n \in 1..Len(s) : n \in 0..Len(s) /\ n # 0
    BY <1>1
  <2>2. \A n \in 0..Len(s) : Loop(written)[n] = IF n = 0 THEN <<>> ELSE IF s[n] = <<>> THEN written[n - 1]
                                                ELSE Append(written[n - 1], Entry(s[n]))
    OBVIOUS
  <2> HIDE DEF Loop
  <2> QED
    BY <1>6, <2>1, <2>2
<1> HIDE DEF written, G
<1> DEFINE T == {n \in Nat : n <= Len(s) => written[n] = G[n]}
<1>8. \A n \in Nat : n \in T
  <2>1. 0 \in T
    BY <1>4, <1>7
  <2>2. ASSUME NEW n \in Nat, n \in T PROVE n + 1 \in T
    <3> SUFFICES ASSUME n + 1 <= Len(s) PROVE written[n + 1] = G[n + 1]
      OBVIOUS
    <3>1. n + 1 \in 1..Len(s) /\ (n + 1) - 1 = n /\ n <= Len(s)
      BY <1>1
    <3> QED
      BY <1>3, <1>7, <2>2, <3>1
  <2>3. T \in SUBSET Nat
    OBVIOUS
  <2> HIDE DEF T
  <2> QED
    BY <2>1, <2>2, <2>3, Induction
<1>9. written[Len(s)] = G[Len(s)]
  BY <1>1, <1>8
<1> DEFINE e == written[Len(s)]  p == Len(s) - k
<1>10. p \in Nat /\ e = [m \in 1..p |-> Entry(s[m + k])]
  <2>1. Len(s) \in 0..Len(s) /\ p \in Nat /\ Left(Len(s)) = p
    BY <1>0, <1>1
  <2> QED
    BY <1>9, <2>1 DEF G
<1>11. \A m \in 1..p : Entry(s[m + k]) \in Text
  <2>1. ASSUME NEW m \in 1..p PROVE Entry(s[m + k]) \in Text
    <3>1. m + k \in 1..Len(s) /\ ~(m + k <= k)
      BY <1>0, <1>1
    <3> QED
      BY <1>0, <1>1, <3>1
  <2> QED
    BY <2>1
<1> HIDE DEF e, p
<1>12. e \in Seq(Text) /\ Len(e) = p /\ \A m \in 1..p : e[m] = Entry(s[m + k])
  BY <1>10, <1>11
<1>13. TrustCacheOf(lines).count = Len(lines) /\ TrustCacheOf(lines).entries = e
  BY <1>1, <1>2 DEF e
<1>14. p = Len(lines) - k /\ k \in 0..Len(lines) /\ \A n \in 1..Len(lines) : s[n] = <<>> <=> n <= k
  BY <1>0, <1>1 DEF p
<1> QED
  BY <1>12, <1>13, <1>14 DEF s

-----------------------------------------------------------------------------
\* The lines are lines.
LinesOK == hashes \in Seq(Lines)

\* The state after any number of lines.
LEMMA Found == LinesOK => EveryHashFound
<1> SUFFICES ASSUME LinesOK PROVE EveryHashFound
  OBVIOUS
<1> DEFINE tc == TrustCacheOf(hashes)  s == Sorted(hashes)  c == Len(hashes)
<1>1. /\ hashes \in Seq(Lines) /\ DOMAIN hashes = 1..c /\ c \in Nat
      /\ \A n \in 1..c : hashes[n] \in Lines /\ hashes[n] \in Text
                        /\ hashes[n] # <<>> => Entry(hashes[n]) \in Text
      /\ hashes \in Seq(Text)
  <2>1. hashes \in Seq(Lines) /\ DOMAIN hashes = 1..c /\ c \in Nat
        /\ \A n \in 1..c : hashes[n] \in Lines
    BY DEF LinesOK
  <2> QED
    BY <2>1, LineIs
<1>2. PICK k \in 0..c :
        /\ \A n \in 1..c : s[n] = <<>> <=> n <= k
        /\ tc.entries \in Seq(Text) /\ Len(tc.entries) = c - k /\ tc.count = c
        /\ \A n \in 1..(c - k) : tc.entries[n] = Entry(s[n + k])
  BY <1>1, WrittenIs, Zenon
<1>3. /\ \A n \in 1..c : \E i \in 1..c : s[i] = hashes[n]
      /\ \A i \in 1..c : \E n \in 1..c : s[i] = hashes[n]
      /\ \A i, j \in 1..c : i < j => ~Before(s[j], s[i])
  <2>1. /\ \A n \in DOMAIN hashes : \E i \in DOMAIN hashes : s[i] = hashes[n]
        /\ \A i \in DOMAIN hashes : \E n \in DOMAIN hashes : s[i] = hashes[n]
        /\ \A i, j \in DOMAIN hashes : i < j => ~Before(s[j], s[i])
    BY <1>1, SortedIs, Zenon
  <2> HIDE DEF s
  <2> QED
    BY <1>1, <2>1
<1> HIDE DEF tc, s, c
<1>4. k \in Nat /\ DOMAIN tc.entries = 1..(c - k)
  BY <1>1, <1>2
<1>5. Counted(tc) <=> ~Blank
  <2>1. Counted(tc) <=> k = 0
    BY <1>1, <1>2, <1>4 DEF Counted
  <2>2. CASE Blank
    <3>1. PICK n \in 1..c : hashes[n] = <<>>
      BY <1>1, <2>2 DEF Blank
    <3>2. PICK i \in 1..c : s[i] = <<>>
      BY <1>3, <3>1
    <3>3. i <= k
      BY <1>2, <3>2
    <3> QED
      BY <1>1, <1>4, <2>1, <2>2, <3>3
  <2>3. CASE ~Blank
    <3> SUFFICES ASSUME k # 0 PROVE FALSE
      BY <2>1, <2>3
    <3>1. k \in 1..c
      BY <1>1, <1>2
    <3>2. s[k] = <<>>
      BY <1>2, <1>4, <3>1
    <3> QED
      BY <1>1, <1>3, <2>3, <3>1, <3>2 DEF Blank
  <2> QED
    BY <2>2, <2>3
\* The places of two entries among the lines.
<1>6. ASSUME NEW i \in 1..(c - k)
      PROVE  /\ i + k \in 1..c /\ s[i + k] # <<>> /\ tc.entries[i] = Entry(s[i + k])
             /\ \E n \in 1..c : s[i + k] = hashes[n]
  <2>1. i + k \in 1..c /\ ~(i + k <= k)
    BY <1>1, <1>4
  <2> QED
    BY <1>2, <1>3, <2>1
<1>7. Rising(tc) <=> ~Crossed
  <2>1. ASSUME ~Rising(tc) PROVE Crossed
    <3>1. PICK i \in 1..(c - k), j \in 1..(c - k) : i < j /\ Before(tc.entries[j], tc.entries[i])
      BY <1>4, <2>1 DEF Rising
    <3>2. PICK m \in 1..c : s[i + k] = hashes[m]
      BY <1>6
    <3>3. PICK n \in 1..c : s[j + k] = hashes[n]
      BY <1>6
    <3>4. /\ hashes[m] # <<>> /\ hashes[n] # <<>> /\ tc.entries[i] = Entry(hashes[m])
          /\ tc.entries[j] = Entry(hashes[n])
      BY <1>6, <3>2, <3>3
    <3>5. ~Before(hashes[n], hashes[m])
      <4>1. i + k \in 1..c /\ j + k \in 1..c /\ i + k < j + k
        BY <1>1, <1>4, <1>6, <3>1
      <4> QED
        BY <1>3, <3>2, <3>3, <4>1
    <3>6. Before(Entry(hashes[n]), Entry(hashes[m]))
      BY <3>1, <3>4
    <3>7. hashes[m] # hashes[n]
      BY <1>1, <3>4, <3>6, BeforeNot
    <3>8. Before(hashes[m], hashes[n])
      BY <1>1, <3>5, <3>7, BeforeTotal
    <3> QED
      BY <1>1, <3>4, <3>6, <3>8 DEF Crossed
  <2>2. ASSUME Crossed PROVE ~Rising(tc)
    <3>1. PICK m \in 1..c, n \in 1..c :
            /\ hashes[m] # <<>> /\ hashes[n] # <<>>
            /\ Before(hashes[m], hashes[n]) /\ Before(Entry(hashes[n]), Entry(hashes[m]))
      BY <1>1, <2>2 DEF Crossed
    <3>2. PICK i \in 1..c : s[i] = hashes[m]
      BY <1>3
    <3>3. PICK j \in 1..c : s[j] = hashes[n]
      BY <1>3
    <3>4. i > k /\ j > k
      BY <1>1, <1>2, <1>4, <3>1, <3>2, <3>3
    <3>5. i < j
      <4>1. ~(j < i)
        BY <1>3, <3>1, <3>2, <3>3
      <4>2. i # j
        BY <1>1, <3>1, <3>2, <3>3, BeforeNot
      <4> QED
        BY <1>1, <4>1, <4>2
    <3> DEFINE x == i - k  y == j - k
    <3>6. x \in 1..(c - k) /\ y \in 1..(c - k) /\ x < y /\ x + k = i /\ y + k = j
      BY <1>1, <1>4, <3>4, <3>5
    <3> HIDE DEF x, y
    <3>7. tc.entries[x] = Entry(hashes[m]) /\ tc.entries[y] = Entry(hashes[n])
      BY <1>6, <3>2, <3>3, <3>6
    <3> QED
      BY <1>4, <3>1, <3>6, <3>7 DEF Rising
  <2> QED
    BY <2>1, <2>2
<1>8. ASSUME Counted(tc), Rising(tc), NEW hash \in {Entry(line) : line \in [1..Digits -> Codes]}
      PROVE  Lookup(tc, hash) <=> \E n \in DOMAIN hashes : Entry(hashes[n]) = hash
  <2>1. k = 0 /\ DOMAIN tc.entries = 1..c /\ tc.count = c
    BY <1>1, <1>2, <1>4, <1>8 DEF Counted
  <2>2. \A n \in 1..c : tc.entries[n] = Entry(s[n])
    BY <1>1, <1>2, <2>1
  <2>3. hash \in Text
    <3>1. PICK line \in [1..Digits -> Codes] : hash = Entry(line)
      BY <1>8
    <3>2. Digits \in Nat \ {0} /\ Value \in [Codes -> Nat]
      BY TrustCacheAssumption DEF TrustCacheAssumption, Codes
    <3>3. Entry(line) \in [1..Digits -> Nat]
      BY <3>2 DEF Entry
    <3>4. \A t \in [1..Digits -> Nat] : t \in Text
      BY <3>2 DEF Text
    <3> QED
      BY <3>1, <3>3, <3>4
  <2>4. Lookup(tc, hash) <=> \E n \in 1..c : tc.entries[n] = hash
    <3>1. /\ tc.count \in Nat /\ \A n \in 1..tc.count : tc.entries[n] \in Text
          /\ \A i, j \in 1..tc.count : i < j => ~Before(tc.entries[j], tc.entries[i])
      BY <1>1, <1>2, <1>8, <2>1 DEF Rising
    <3> QED
      BY <2>1, <2>3, <3>1, Bisection, Zenon
  <2>5. (\E n \in 1..c : tc.entries[n] = hash) <=> \E n \in 1..c : Entry(hashes[n]) = hash
    <3>1. ASSUME NEW n \in 1..c, tc.entries[n] = hash PROVE \E i \in 1..c : Entry(hashes[i]) = hash
      BY <1>3, <2>2, <3>1, Zenon
    <3>2. ASSUME NEW n \in 1..c, Entry(hashes[n]) = hash PROVE \E i \in 1..c : tc.entries[i] = hash
      BY <1>3, <2>2, <3>2, Zenon
    <3> QED
      BY <3>1, <3>2
  <2> QED
    BY <1>1, <2>4, <2>5
<1> QED
  BY <1>5, <1>7, <1>8, Zenon DEF EveryHashFound, tc

\* Of any file of hashes: the number of entries is right unless a line is blank,
\* and they are sorted unless two hashes are in one order as text and in the other
\* as numbers; where both are so the kernel's bisection finds each hash and nothing
\* else.
THEOREM HashesFound == TrustCacheSpec => []EveryHashFound
<1>1. NoLines => LinesOK
  BY DEF NoLines, LinesOK
<1>2. LinesOK /\ [NextLine \/ AllLines]_hashes => LinesOK'
  <2> SUFFICES ASSUME LinesOK, [NextLine \/ AllLines]_hashes PROVE LinesOK'
    OBVIOUS
  <2>1. CASE NextLine
    BY <2>1 DEF NextLine, LinesOK
  <2>2. CASE AllLines \/ UNCHANGED hashes
    BY <2>2 DEF AllLines, LinesOK
  <2> QED
    BY <2>1, <2>2
<1> QED
  BY <1>1, <1>2, Found, PTL DEF TrustCacheSpec
=============================================================================
