----------------------------- MODULE WavProofs -----------------------------
(***************************************************************************)
(* What the loops of wav.c compute, for chunks of every length: the        *)
(* samples of 24 bits are widened to 32, or narrowed from 32, each in its  *)
(* place, although source and destination overlap in one buffer.           *)
(*                                                                         *)
(* A loop is a recursive function from the number of its turns to the      *)
(* memory, and a recursive function is chosen by its equation.  Each proof *)
(* gives the memory after i turns in closed form, shows that it satisfies  *)
(* the equation, and that nothing else does.                               *)
(***************************************************************************)
EXTENDS Sndkit, WellFoundedInduction, TLAPS

Before == OpToRel(<, Nat)

LEMMA BeforeIsWellFounded ==
  IsWellFoundedOn(Before, Nat) /\ \A a, b \in Nat : <<a, b>> \in Before <=> a < b
<1>1. IsWellFoundedOn(Before, Nat)
  BY NatLessThanWellFounded DEF Before
<1>2. \A a, b \in Nat : <<a, b>> \in Before <=> a < b
  BY DEF Before, OpToRel
<1>. QED
  BY <1>1, <1>2

\* Induction, for sets: the library's theorems are for operators.
LEMMA SetInduction ==
  ASSUME NEW S, 0 \in S, \A n \in Nat : n \in S => n + 1 \in S PROVE Nat \subseteq S
<1>. SUFFICES ASSUME Nat \ S # {} PROVE FALSE
  OBVIOUS
<1>1. PICK x \in Nat \ S : \A y \in Nat \ S : ~(<<y, x>> \in Before)
  <2>. DEFINE T == Nat \ S
  <2>1. T \subseteq Nat /\ T # {}
    OBVIOUS
  <2>. HIDE DEF T
  <2>2. IsWellFoundedOn(Before, Nat)
    BY BeforeIsWellFounded
  <2>3. \E x \in T : \A y \in T : ~(<<y, x>> \in Before)
    BY ONLY <2>1, <2>2, WFMin, Zenon
  <2>. QED
    BY <2>3 DEF T
<1>2. x # 0 /\ x - 1 \in Nat /\ x - 1 < x /\ (x - 1) + 1 = x
  BY <1>1
<1>3. x - 1 \in S
  BY <1>1, <1>2, BeforeIsWellFounded
<1>. QED
  BY <1>1, <1>2, <1>3

---------------------------------------------------------------------------
(* wav_32bit_to_24bit: sample i moves from 4 * i to 3 * i, the first first. *)

\* The memory after i turns.
NarrowedAt(s, n, i) ==
  [k \in 0 .. 4 * n - 1 |-> IF k < 3 * i THEN s[4 * (k \div 3) + (k % 3) + 1] ELSE s[k + 1]]

NarrowLoop(g, s, n) ==
  g = [i \in 0 .. n |-> IF i = 0 THEN Memory(s, 4 * n) ELSE Narrow(g[i - 1], i - 1)]

\* What is read in a turn was not overwritten in the turns before.
LEMMA NarrowTurn ==
  ASSUME NEW s, NEW n \in Nat, NEW i \in 1 .. n
  PROVE  Narrow(NarrowedAt(s, n, i - 1), i - 1) = NarrowedAt(s, n, i)
<1>. DEFINE m == NarrowedAt(s, n, i - 1)
            j == i - 1
<1>1. j \in Nat /\ i = j + 1 /\ j < n /\ DOMAIN m = 0 .. 4 * n - 1
  BY DEF NarrowedAt
<1>2. ASSUME NEW k \in 0 .. 4 * n - 1
      PROVE  (IF k \in 3 * j .. 3 * j + 2 THEN m[4 * j + k - 3 * j] ELSE m[k])
             = IF k < 3 * i THEN s[4 * (k \div 3) + (k % 3) + 1] ELSE s[k + 1]
  <2>. HIDE DEF j
  <2>1. CASE k \in 3 * j .. 3 * j + 2
    <3>. DEFINE a == 4 * j + k - 3 * j
    <3>1. k \div 3 = j /\ k % 3 = k - 3 * j /\ k < 3 * i
      BY <1>1, <2>1
    <3>2. a \in 0 .. 4 * n - 1 /\ ~(a < 3 * j) /\ a + 1 = 4 * (k \div 3) + (k % 3) + 1
      BY <1>1, <2>1, <3>1
    <3>. HIDE DEF a
    <3>3. m[a] = s[a + 1]
      BY <3>2 DEF NarrowedAt, j
    <3>. QED
      BY <2>1, <3>1, <3>2, <3>3 DEF a
  <2>2. CASE k \notin 3 * j .. 3 * j + 2
    <3>1. k < 3 * i <=> k < 3 * j
      BY <1>1, <2>2
    <3>. QED
      BY <2>2, <3>1 DEF NarrowedAt, j
  <2>. QED
    BY <2>1, <2>2
<1>. QED
  BY <1>1, <1>2 DEF Narrow, NarrowedAt

LEMMA NarrowLoopIs ==
  ASSUME NEW s \in Seq(Nat), NEW n \in Nat, 4 * n <= Len(s), NEW g, NarrowLoop(g, s, n)
  PROVE  g[n] = NarrowedAt(s, n, n)
<1>1. Memory(s, 4 * n) = NarrowedAt(s, n, 0)
  <2>1. \A k \in 0 .. 4 * n - 1 : k < Len(s) /\ ~(k < 3 * 0)
    OBVIOUS
  <2>. QED
    BY <2>1 DEF Memory, NarrowedAt
<1>2. \A i \in 0 .. n : g[i] = IF i = 0 THEN NarrowedAt(s, n, 0) ELSE Narrow(g[i - 1], i - 1)
  BY <1>1 DEF NarrowLoop
<1>. DEFINE S == {i \in Nat : i <= n => g[i] = NarrowedAt(s, n, i)}
<1>3. 0 \in S
  BY <1>2
<1>4. ASSUME NEW i \in Nat, i \in S PROVE i + 1 \in S
  <2>1. SUFFICES ASSUME i + 1 <= n PROVE g[i + 1] = NarrowedAt(s, n, i + 1)
    OBVIOUS
  <2>2. i + 1 \in 1 .. n /\ (i + 1) - 1 = i /\ i + 1 \in 0 .. n /\ i + 1 # 0 /\ i <= n
    BY <2>1
  <2>3. g[i + 1] = Narrow(NarrowedAt(s, n, i), i)
    BY <1>2, <1>4, <2>2
  <2>4. Narrow(NarrowedAt(s, n, (i + 1) - 1), (i + 1) - 1) = NarrowedAt(s, n, i + 1)
    BY <2>2, NarrowTurn
  <2>. QED
    BY <2>2, <2>3, <2>4
<1>5. Nat \subseteq S
  <2>. HIDE DEF S
  <2>. QED
    BY <1>3, <1>4, SetInduction
<1>. QED
  BY <1>5

\* The loop's equation has a solution, so the function chosen is one.
LEMMA NarrowLoopChosen ==
  ASSUME NEW s \in Seq(Nat), NEW n \in Nat, 4 * n <= Len(s)
  PROVE  NarrowLoop(CHOOSE g : NarrowLoop(g, s, n), s, n)
<1>. DEFINE f == [i \in 0 .. n |-> NarrowedAt(s, n, i)]
<1>1. Memory(s, 4 * n) = NarrowedAt(s, n, 0)
  <2>1. \A k \in 0 .. 4 * n - 1 : k < Len(s) /\ ~(k < 3 * 0)
    OBVIOUS
  <2>. QED
    BY <2>1 DEF Memory, NarrowedAt
<1>2. ASSUME NEW i \in 0 .. n
      PROVE  f[i] = IF i = 0 THEN Memory(s, 4 * n) ELSE Narrow(f[i - 1], i - 1)
  <2>1. CASE i = 0
    BY <1>1, <2>1
  <2>2. CASE i # 0
    <3>1. i \in 1 .. n /\ i - 1 \in 0 .. n
      BY <2>2
    <3>. QED
      BY <3>1, <2>2, NarrowTurn
  <2>. QED
    BY <2>1, <2>2
<1>3. NarrowLoop(f, s, n)
  BY <1>2 DEF NarrowLoop
<1>. HIDE DEF NarrowLoop, f
<1>. QED
  BY <1>3, Zenon

\* Three bytes of each four are kept, in their order; what is left over is dropped.
THEOREM NarrowCorrect ==
  \A s \in Seq(Nat) :
    wav_32bit_to_24bit(s)
      = [k \in 1 .. 3 * (Len(s) \div 4) |-> s[4 * ((k - 1) \div 3) + ((k - 1) % 3) + 1]]
<1>. SUFFICES ASSUME NEW s \in Seq(Nat)
              PROVE  wav_32bit_to_24bit(s)
                       = [k \in 1 .. 3 * (Len(s) \div 4) |->
                            s[4 * ((k - 1) \div 3) + ((k - 1) % 3) + 1]]
  OBVIOUS
<1>. DEFINE n == Len(s) \div 4
            g == CHOOSE h : NarrowLoop(h, s, n)
<1>1. wav_32bit_to_24bit(s) = Bytes(g[n], 3 * n)
  BY Zenon DEF wav_32bit_to_24bit, NarrowLoop
<1>2. n \in Nat /\ 4 * n <= Len(s)
  OBVIOUS
<1>. HIDE DEF n
<1>3. g[n] = NarrowedAt(s, n, n)
  <2>1. NarrowLoop(g, s, n)
    BY <1>2, NarrowLoopChosen
  <2>. HIDE DEF g
  <2>. QED
    BY <1>2, <2>1, NarrowLoopIs
<1>. HIDE DEF g
<1>4. \A k \in 1 .. 3 * n : k - 1 \in 0 .. 4 * n - 1 /\ k - 1 < 3 * n
  BY <1>2
<1>5. Bytes(NarrowedAt(s, n, n), 3 * n)
        = [k \in 1 .. 3 * n |-> s[4 * ((k - 1) \div 3) + ((k - 1) % 3) + 1]]
  BY <1>4 DEF Bytes, NarrowedAt
<1>. QED
  BY <1>1, <1>3, <1>5 DEF n

---------------------------------------------------------------------------
(* wav_expand_24bit_to_32bit: sample j moves from 3 * j to 4 * j, the last   *)
(* first; the first three, whose places overlap, by way of tmp_sample.       *)

\* The memory after i turns.
WidenedAt(s, n, i) ==
  [k \in 0 .. 4 * n + 11 |->
     IF k >= 4 * (n - i) /\ k < 4 * n
     THEN IF k % 4 = 3 THEN Pad ELSE s[3 * (k \div 4) + (k % 4) + 1]
     ELSE IF k < Len(s) THEN s[k + 1] ELSE Pad]

WidenLoop(g, s, n, loops) ==
  g = [i \in 0 .. loops |-> IF i = 0 THEN Memory(s, 4 * n + 12) ELSE Widen(g[i - 1], n - i)]

LEMMA WidenStart ==
  ASSUME NEW s \in Seq(Nat), NEW n \in Nat
  PROVE  Memory(s, 4 * n + 12) = WidenedAt(s, n, 0)
<1>1. \A k \in 0 .. 4 * n + 11 : ~(k >= 4 * (n - 0) /\ k < 4 * n)
  OBVIOUS
<1>2. (4 * n + 12) - 1 = 4 * n + 11
  OBVIOUS
<1>. QED
  BY <1>1, <1>2 DEF Memory, WidenedAt

LEMMA WidenTurn ==
  ASSUME NEW s \in Seq(Nat), NEW n \in Nat, 3 * n <= Len(s), NEW i \in 1 .. n
  PROVE  Widen(WidenedAt(s, n, i - 1), n - i) = WidenedAt(s, n, i)
<1>. DEFINE m == WidenedAt(s, n, i - 1)
            j == n - i
            after(k) == IF k >= 4 * j /\ k < 4 * n
                        THEN IF k % 4 = 3 THEN Pad ELSE s[3 * (k \div 4) + (k % 4) + 1]
                        ELSE IF k < Len(s) THEN s[k + 1] ELSE Pad
            len == Len(s)
<1>1. /\ j \in Nat /\ j < n /\ n - (i - 1) = j + 1 /\ len \in Nat /\ 3 * n <= len
      /\ DOMAIN m = 0 .. 4 * n + 11
  BY DEF WidenedAt
<1>2. ASSUME NEW k \in 0 .. 4 * n + 11
      PROVE  (CASE k \in 4 * j .. 4 * j + 2 -> m[3 * j + k - 4 * j]
                [] k = 4 * j + 3 -> Pad
                [] OTHER -> m[k]) = after(k)
  <2>. HIDE DEF j, len
  <2>1. CASE k \in 4 * j .. 4 * j + 2
    <3>. DEFINE a == 3 * j + k - 4 * j
    <3>1. k \div 4 = j /\ k % 4 = k - 4 * j /\ k % 4 # 3 /\ k >= 4 * j /\ k < 4 * n
      BY <1>1, <2>1, SMTT(60)
    <3>2. a \in 0 .. 4 * n + 11 /\ ~(a >= 4 * (j + 1)) /\ a < len
          /\ a + 1 = 3 * (k \div 4) + (k % 4) + 1
      BY <1>1, <2>1, <3>1
    <3>. HIDE DEF a
    <3>3. m[a] = s[a + 1]
      BY <1>1, <3>2 DEF WidenedAt, len
    <3>4. after(k) = s[a + 1]
      BY <3>1, <3>2
    <3>5. m[3 * j + k - 4 * j] = after(k)
      BY <3>3, <3>4 DEF a
    <3>6. k # 4 * j + 3
      BY <1>1, <2>1
    <3>. HIDE DEF m, after
    <3>. QED
      BY <2>1, <3>5, <3>6
  <2>2. CASE k = 4 * j + 3
    <3>1. k % 4 = 3 /\ k >= 4 * j /\ k < 4 * n /\ k \notin 4 * j .. 4 * j + 2
      BY <1>1, <2>2
    <3>. QED
      BY <2>2, <3>1
  <2>3. CASE k \notin 4 * j .. 4 * j + 3
    <3>1. /\ (k >= 4 * j) <=> (k >= 4 * (j + 1))
          /\ k # 4 * j + 3 /\ k \notin 4 * j .. 4 * j + 2
      BY <1>1, <2>3
    <3>2. m[k] = after(k)
      BY <1>1, <3>1 DEF WidenedAt
    <3>. QED
      BY <3>1, <3>2
  <2>4. k \in 4 * j .. 4 * j + 3 => k \in 4 * j .. 4 * j + 2 \/ k = 4 * j + 3
    BY <1>1
  <2>. QED
    BY <2>1, <2>2, <2>3, <2>4
<1>. QED
  BY <1>1, <1>2 DEF Widen, WidenedAt

LEMMA WidenLoopIs ==
  ASSUME NEW s \in Seq(Nat), NEW n \in Nat, 3 * n <= Len(s), NEW loops \in Nat, loops <= n,
         NEW g, WidenLoop(g, s, n, loops)
  PROVE  g[loops] = WidenedAt(s, n, loops)
<1>1. \A i \in 0 .. loops :
        g[i] = IF i = 0 THEN WidenedAt(s, n, 0) ELSE Widen(g[i - 1], n - i)
  BY WidenStart DEF WidenLoop
<1>. DEFINE S == {i \in Nat : i <= loops => g[i] = WidenedAt(s, n, i)}
<1>2. 0 \in S
  BY <1>1
<1>3. ASSUME NEW i \in Nat, i \in S PROVE i + 1 \in S
  <2>1. SUFFICES ASSUME i + 1 <= loops PROVE g[i + 1] = WidenedAt(s, n, i + 1)
    OBVIOUS
  <2>2. /\ i + 1 \in 1 .. n /\ (i + 1) - 1 = i /\ i + 1 \in 0 .. loops /\ i + 1 # 0
        /\ i <= loops
    BY <2>1
  <2>3. g[i + 1] = Widen(WidenedAt(s, n, i), n - (i + 1))
    BY <1>1, <1>3, <2>2
  <2>4. Widen(WidenedAt(s, n, (i + 1) - 1), n - (i + 1)) = WidenedAt(s, n, i + 1)
    BY <2>2, WidenTurn
  <2>. QED
    BY <2>2, <2>3, <2>4
<1>4. Nat \subseteq S
  <2>. HIDE DEF S
  <2>. QED
    BY <1>2, <1>3, SetInduction
<1>. QED
  BY <1>4

LEMMA WidenLoopChosen ==
  ASSUME NEW s \in Seq(Nat), NEW n \in Nat, 3 * n <= Len(s), NEW loops \in Nat, loops <= n
  PROVE  WidenLoop(CHOOSE g : WidenLoop(g, s, n, loops), s, n, loops)
<1>. DEFINE f == [i \in 0 .. loops |-> WidenedAt(s, n, i)]
<1>1. ASSUME NEW i \in 0 .. loops
      PROVE  f[i] = IF i = 0 THEN Memory(s, 4 * n + 12) ELSE Widen(f[i - 1], n - i)
  <2>1. CASE i = 0
    BY <2>1, WidenStart
  <2>2. CASE i # 0
    <3>1. i \in 1 .. n /\ i - 1 \in 0 .. loops
      BY <2>2
    <3>. QED
      BY <3>1, <2>2, WidenTurn
  <2>. QED
    BY <2>1, <2>2
<1>2. WidenLoop(f, s, n, loops)
  BY <1>1 DEF WidenLoop
<1>. HIDE DEF WidenLoop, f
<1>. QED
  BY <1>2, Zenon

\* The turns that the loop leaves to tmp_sample: all but the first three samples are moved.
Turns(n) == IF n > 3 THEN n - 3 ELSE 0

\* The last step of wav_expand_24bit_to_32bit, on the memory m.
ByTmpSample(m, n) ==
  LET tmp_sample == [k \in 0 .. 8 |-> m[k]]
  IN  Bytes([k \in DOMAIN m |-> CASE k > 11 -> m[k]
                                  [] k <= 11 /\ k % 4 = 3 -> Pad
                                  [] OTHER -> tmp_sample[3 * (k \div 4) + (k % 4)]],
            4 * n)

\* Every sample keeps its three bytes and gets a fourth, however few samples there are.
THEOREM ExpandCorrect ==
  \A s \in Seq(Nat) :
    wav_expand_24bit_to_32bit(s)
      = [k \in 1 .. 4 * (Len(s) \div 3) |->
           IF k % 4 = 0 THEN Pad ELSE s[3 * ((k - 1) \div 4) + (k % 4)]]
<1>. SUFFICES ASSUME NEW s \in Seq(Nat)
              PROVE  wav_expand_24bit_to_32bit(s)
                       = [k \in 1 .. 4 * (Len(s) \div 3) |->
                            IF k % 4 = 0 THEN Pad ELSE s[3 * ((k - 1) \div 4) + (k % 4)]]
  OBVIOUS
<1>. DEFINE n == Len(s) \div 3
            len == Len(s)
            g == CHOOSE h : WidenLoop(h, s, n, Turns(n))
            m == WidenedAt(s, n, Turns(n))
<1>1. wav_expand_24bit_to_32bit(s) = ByTmpSample(g[Turns(n)], n)
  BY Zenon DEF wav_expand_24bit_to_32bit, WidenLoop, Turns, ByTmpSample
<1>2. n \in Nat /\ len \in Nat /\ 3 * n <= len
  OBVIOUS
<1>. HIDE DEF n
<1>3. Turns(n) \in Nat /\ Turns(n) <= n
  BY <1>2 DEF Turns
<1>4. g[Turns(n)] = m
  <2>1. WidenLoop(g, s, n, Turns(n))
    BY <1>2, <1>3, WidenLoopChosen
  <2>. HIDE DEF g
  <2>. QED
    BY <1>2, <1>3, <2>1, WidenLoopIs
<1>. HIDE DEF g, len
<1>5. DOMAIN m = 0 .. 4 * n + 11
  BY DEF WidenedAt
<1>6. ASSUME NEW k \in 0 .. 4 * n - 1, k > 11
      PROVE  m[k] = IF k % 4 = 3 THEN Pad ELSE s[3 * (k \div 4) + (k % 4) + 1]
  <2>1. k \in 0 .. 4 * n + 11 /\ k >= 4 * (n - Turns(n)) /\ k < 4 * n
    BY <1>2, <1>6 DEF Turns
  <2>. QED
    BY <2>1 DEF WidenedAt
<1>7. ASSUME NEW k \in 0 .. 4 * n - 1, k <= 11, k % 4 # 3
      PROVE  /\ 3 * (k \div 4) + (k % 4) \in 0 .. 8
             /\ m[3 * (k \div 4) + (k % 4)] = s[3 * (k \div 4) + (k % 4) + 1]
  <2>. DEFINE a == 3 * (k \div 4) + (k % 4)
  <2>1. a \in 0 .. 8 /\ a \in 0 .. 4 * n + 11 /\ a < len
    BY <1>2, <1>7
  <2>2. ~(a >= 4 * (n - Turns(n)) /\ a < 4 * n)
    BY <1>2, <2>1 DEF Turns
  <2>. HIDE DEF a
  <2>3. m[a] = s[a + 1]
    BY <2>1, <2>2 DEF WidenedAt, len
  <2>. QED
    BY <2>1, <2>3 DEF a
<1>. DEFINE result(k) == CASE k > 11 -> m[k]
                           [] k <= 11 /\ k % 4 = 3 -> Pad
                           [] OTHER -> [l \in 0 .. 8 |-> m[l]][3 * (k \div 4) + (k % 4)]
<1>. HIDE DEF m
<1>8. ASSUME NEW k \in 0 .. 4 * n - 1
      PROVE  result(k) = IF k % 4 = 3 THEN Pad ELSE s[3 * (k \div 4) + (k % 4) + 1]
  <2>1. CASE k > 11
    BY <1>6, <2>1
  <2>2. CASE k <= 11 /\ k % 4 = 3
    BY <1>2, <2>2
  <2>3. CASE k <= 11 /\ k % 4 # 3
    BY <1>2, <1>7, <2>3
  <2>. QED
    BY <1>2, <2>1, <2>2, <2>3
<1>9. ByTmpSample(m, n) = Bytes([k \in 0 .. 4 * n + 11 |-> result(k)], 4 * n)
  BY <1>5, Zenon DEF ByTmpSample
<1>. HIDE DEF result
<1>10. ASSUME NEW k \in 1 .. 4 * n
       PROVE  [l \in 0 .. 4 * n + 11 |-> result(l)][k - 1]
                = IF k % 4 = 0 THEN Pad ELSE s[3 * ((k - 1) \div 4) + (k % 4)]
  <2>1. k - 1 \in 0 .. 4 * n - 1 /\ k - 1 \in 0 .. 4 * n + 11
    BY <1>2
  <2>2. (k - 1) % 4 = 3 <=> k % 4 = 0
    BY <1>2
  <2>3. k % 4 # 0 => 3 * ((k - 1) \div 4) + ((k - 1) % 4) + 1 = 3 * ((k - 1) \div 4) + (k % 4)
    BY <1>2
  <2>. QED
    BY <1>8, <2>1, <2>2, <2>3
<1>11. Bytes([k \in 0 .. 4 * n + 11 |-> result(k)], 4 * n)
         = [k \in 1 .. 4 * n |->
              IF k % 4 = 0 THEN Pad ELSE s[3 * ((k - 1) \div 4) + (k % 4)]]
  BY <1>10 DEF Bytes
<1>. QED
  BY <1>1, <1>4, <1>9, <1>11 DEF n

\* The two conversions undo each other: a sample widened for the device and narrowed for the
\* file is the sample it was, whole samples being all that is kept.
THEOREM RoundTripCorrect ==
  \A s \in Seq(Nat) :
    wav_32bit_to_24bit(wav_expand_24bit_to_32bit(s)) = [k \in 1 .. 3 * (Len(s) \div 3) |-> s[k]]
<1>. SUFFICES ASSUME NEW s \in Seq(Nat)
              PROVE  wav_32bit_to_24bit(wav_expand_24bit_to_32bit(s))
                       = [k \in 1 .. 3 * (Len(s) \div 3) |-> s[k]]
  OBVIOUS
<1>. DEFINE n == Len(s) \div 3
            w == wav_expand_24bit_to_32bit(s)
<1>1. n \in Nat /\ 3 * n <= Len(s) /\ Len(s) \in Nat
  OBVIOUS
<1>2. w = [k \in 1 .. 4 * n |-> IF k % 4 = 0 THEN Pad ELSE s[3 * ((k - 1) \div 4) + (k % 4)]]
  BY ExpandCorrect
<1>. HIDE DEF w, n
<1>3. ASSUME NEW k \in 1 .. 4 * n
      PROVE  IF k % 4 = 0 THEN Pad \in Nat ELSE s[3 * ((k - 1) \div 4) + (k % 4)] \in Nat
  <2>1. k % 4 # 0 => 3 * ((k - 1) \div 4) + (k % 4) \in 1 .. 3 * n
    BY <1>1
  <2>. QED
    BY <1>1, <2>1 DEF Pad
<1>4. w \in Seq(Nat) /\ Len(w) = 4 * n
  <2>1. \A k \in 1 .. 4 * n : w[k] \in Nat
    BY <1>2, <1>3
  <2>2. 4 * n \in Nat /\ w = [k \in 1 .. 4 * n |-> w[k]]
    BY <1>1, <1>2
  <2>. QED
    BY <2>1, <2>2, SMTT(60)
<1>5. (4 * n) \div 4 = n
  BY <1>1
<1>6. wav_32bit_to_24bit(w) = [k \in 1 .. 3 * n |-> w[4 * ((k - 1) \div 3) + ((k - 1) % 3) + 1]]
  BY <1>4, <1>5, NarrowCorrect
<1>7. ASSUME NEW k \in 1 .. 3 * n
      PROVE  w[4 * ((k - 1) \div 3) + ((k - 1) % 3) + 1] = s[k]
  <2>. DEFINE i == (k - 1) \div 3
              r == (k - 1) % 3
              m == 4 * i + r + 1
  <2>1. i \in 0 .. n - 1 /\ r \in 0 .. 2 /\ k = 3 * i + r + 1
    BY <1>1
  <2>. HIDE DEF i, r
  <2>2. m \in 1 .. 4 * n /\ m % 4 = r + 1 /\ (m - 1) \div 4 = i
    BY <1>1, <2>1
  <2>. HIDE DEF m
  <2>3. w[m] = s[3 * i + (r + 1)]
    BY <1>2, <2>1, <2>2
  <2>4. 3 * i + (r + 1) = k
    BY <2>1
  <2>. QED
    BY <2>3, <2>4 DEF m, i, r
<1>. QED
  BY <1>6, <1>7 DEF w, n
============================================================================
