--------------------------- MODULE ScriptProofs ----------------------------
(***************************************************************************)
(* Proofs about the tools that a script starts and judges: test_snd.sh and *)
(* sndtest, test_bluetooth and the current test that runs beside it, the   *)
(* polls of the sensors, and the pictures of test_lcd.                     *)
(***************************************************************************)
EXTENDS SndTest, Bluetooth, Sensors, Lcd, TLAPS

(* test_snd.sh: the tester hears nothing but samples of this recording, in  *)
(* their order.                                                            *)

Rising(s) == \A i, j \in DOMAIN s : i < j => s[i] < s[j]

\* Every sample was delivered by the microphone.
Real(s, m) == \A i \in DOMAIN s : s[i] \in 1 .. m

\* The samples of s are older than those of t after the first n.
Older(s, t, n) == \A i \in DOMAIN s, j \in DOMAIN t : j > n => s[i] < t[j]

SndTyped ==
  /\ step \in {"ring", "record", "replay", "passed", "failed"}
  /\ at_line \in {"setup", "loop", "read", "write"}
  /\ snd_ops \in Nat /\ mic \in Nat
  /\ record_file \in Seq(Nat) /\ buff \in Seq(Nat) /\ replayed \in Seq(Nat)
  /\ step \in {"passed", "failed"} => at_line = "setup"
  /\ at_line # "setup" /\ Replaying => snd_ops <= Len(File)

\* What was recorded so far; its end is where the next write goes.
RecordingInv ==
  step = "record" =>
    /\ replayed = <<>> /\ Rising(record_file) /\ Real(record_file, mic)
    /\ at_line = "setup" => record_file = <<>>
    /\ at_line # "setup" => snd_ops = Len(record_file)
    /\ at_line = "write" => Rising(buff) /\ Real(buff, mic) /\ Older(record_file, buff, 0)

\* What was played is older than what is in the buffer, and that than what is in the file.
ReplayInv ==
  step = "replay" =>
    /\ Rising(record_file) /\ Real(record_file, mic)
    /\ at_line = "setup" => replayed = <<>>
    /\ at_line # "setup" => Older(replayed, record_file, snd_ops)
    /\ at_line = "write" =>
         /\ Rising(buff) /\ Real(buff, mic)
         /\ Older(replayed, buff, 0) /\ Older(buff, record_file, snd_ops)

Heard == Rising(replayed) /\ Real(replayed, mic)

RingInv == step = "ring" => replayed = <<>>

SndInv == SndTyped /\ RecordingInv /\ ReplayInv /\ Heard /\ RingInv

---------------------------------------------------------------------------
\* Part of a chunk is in the order of the chunk.
LEMMA SamplesOf ==
  ASSUME NEW s \in Seq(Nat), NEW a \in Nat, NEW n \in Nat, a + n <= Len(s)
  PROVE  /\ SubSeq(s, a + 1, a + n) \in Seq(Nat) /\ Len(SubSeq(s, a + 1, a + n)) = n
         /\ \A i \in 1 .. n : SubSeq(s, a + 1, a + n)[i] = s[a + i]
<1>. DEFINE t == SubSeq(s, a + 1, a + n)
<1>1. t \in Seq(Nat)
  OBVIOUS
<1>2. Len(t) = n
  OBVIOUS
<1>3. ASSUME NEW i \in 1 .. n PROVE t[i] = s[a + i]
  BY SMTT(60)
<1>. QED
  BY <1>1, <1>2, <1>3

LEMMA PartRises ==
  ASSUME NEW s \in Seq(Nat), NEW a \in Nat, NEW n \in Nat, a + n <= Len(s), NEW m \in Nat,
         Rising(s), Real(s, m)
  PROVE  /\ Rising(SubSeq(s, a + 1, a + n)) /\ Real(SubSeq(s, a + 1, a + n), m)
         /\ Older(SubSeq(s, a + 1, a + n), s, a + n)
<1>. DEFINE part == SubSeq(s, a + 1, a + n)
<1>1. part \in Seq(Nat) /\ Len(part) = n /\ \A i \in 1 .. n : part[i] = s[a + i]
  BY SamplesOf
<1>2. DOMAIN part = 1 .. n /\ \A i \in 1 .. n : a + i \in DOMAIN s
  BY <1>1
<1>. HIDE DEF part
<1>3. Rising(part)
  <2>. SUFFICES ASSUME NEW i \in 1 .. n, NEW j \in 1 .. n, i < j PROVE part[i] < part[j]
    BY <1>2 DEF Rising
  <2>1. a + i \in DOMAIN s /\ a + j \in DOMAIN s /\ a + i < a + j
    BY <1>2
  <2>. QED
    BY <2>1, <1>1 DEF Rising
<1>4. Real(part, m)
  <2>. SUFFICES ASSUME NEW i \in 1 .. n PROVE part[i] \in 1 .. m
    BY <1>2 DEF Real
  <2>1. a + i \in DOMAIN s
    BY <1>2
  <2>. QED
    BY <2>1, <1>1 DEF Real
<1>5. Older(part, s, a + n)
  <2>. SUFFICES ASSUME NEW i \in 1 .. n, NEW j \in DOMAIN s, j > a + n PROVE part[i] < s[j]
    BY <1>2 DEF Older
  <2>1. a + i \in DOMAIN s /\ a + i < j
    BY <1>2
  <2>. QED
    BY <2>1, <1>1 DEF Rising
<1>. QED
  BY <1>3, <1>4, <1>5 DEF part

LEMMA BeginRises ==
  ASSUME NEW s \in Seq(Nat), NEW n \in Nat, n <= Len(s), NEW m \in Nat, Rising(s), Real(s, m)
  PROVE  /\ SubSeq(s, 1, n) \in Seq(Nat) /\ Len(SubSeq(s, 1, n)) = n
         /\ \A i \in 1 .. n : SubSeq(s, 1, n)[i] = s[i]
         /\ Rising(SubSeq(s, 1, n)) /\ Real(SubSeq(s, 1, n), m)
<1>1. 0 \in Nat /\ 0 + 1 = 1 /\ 0 + n = n /\ 0 + n <= Len(s)
  OBVIOUS
<1>2. SubSeq(s, 0 + 1, 0 + n) = SubSeq(s, 1, n)
  BY <1>1
<1>3. Rising(SubSeq(s, 0 + 1, 0 + n)) /\ Real(SubSeq(s, 0 + 1, 0 + n), m)
  BY <1>1, PartRises
<1>. QED
  BY <1>2, <1>3, SMTT(60)

\* Older samples followed by newer ones.
LEMMA JoinRises ==
  ASSUME NEW s \in Seq(Nat), NEW t \in Seq(Nat), NEW m \in Nat,
         Rising(s), Real(s, m), Rising(t), Real(t, m), Older(s, t, 0)
  PROVE  /\ s \o t \in Seq(Nat) /\ Len(s \o t) = Len(s) + Len(t)
         /\ Rising(s \o t) /\ Real(s \o t, m)
<1>0. Len(s \o t) = Len(s) + Len(t)
  OBVIOUS
<1>1. /\ s \o t \in Seq(Nat) /\ DOMAIN (s \o t) = 1 .. Len(s) + Len(t)
      /\ \A i \in 1 .. Len(s) : (s \o t)[i] = s[i]
      /\ \A i \in Len(s) + 1 .. Len(s) + Len(t) :
           (s \o t)[i] = t[i - Len(s)] /\ i - Len(s) \in 1 .. Len(t)
  OBVIOUS
<1>2. DOMAIN s = 1 .. Len(s) /\ DOMAIN t = 1 .. Len(t) /\ Len(s) \in Nat /\ Len(t) \in Nat
  OBVIOUS
<1>. DEFINE j == s \o t
<1>3. /\ DOMAIN j = 1 .. Len(s) + Len(t) /\ \A i \in 1 .. Len(s) : j[i] = s[i]
      /\ \A i \in Len(s) + 1 .. Len(s) + Len(t) :
           j[i] = t[i - Len(s)] /\ i - Len(s) \in 1 .. Len(t)
  BY <1>1
<1>. HIDE DEF j
\* A sample of the whole is one of s or one of t.
<1>4. ASSUME NEW i \in DOMAIN j, i <= Len(s)
      PROVE  i \in DOMAIN s /\ j[i] = s[i]
  BY <1>2, <1>3, <1>4
<1>5. ASSUME NEW i \in DOMAIN j, i > Len(s)
      PROVE  i - Len(s) \in DOMAIN t /\ i - Len(s) > 0 /\ j[i] = t[i - Len(s)]
  <2>1. i \in Len(s) + 1 .. Len(s) + Len(t)
    BY <1>2, <1>3, <1>5
  <2>2. j[i] = t[i - Len(s)] /\ i - Len(s) \in 1 .. Len(t)
    BY <1>3, <2>1
  <2>. QED
    BY <1>2, <2>1, <2>2
<1>6. DOMAIN j \subseteq Nat
  BY <1>2, <1>3
<1>7. Rising(j)
  <2>. SUFFICES ASSUME NEW p \in DOMAIN j, NEW q \in DOMAIN j, p < q PROVE j[p] < j[q]
    BY DEF Rising
  <2>1. CASE q <= Len(s)
    <3>1. p <= Len(s)
      BY <1>2, <1>6, <2>1
    <3>2. p \in DOMAIN s /\ q \in DOMAIN s /\ j[p] = s[p] /\ j[q] = s[q]
      BY <1>4, <2>1, <3>1
    <3>. QED
      BY <3>2 DEF Rising
  <2>2. CASE p > Len(s)
    <3>1. q > Len(s)
      BY <1>2, <1>6, <2>2
    <3>2. /\ p - Len(s) \in DOMAIN t /\ j[p] = t[p - Len(s)]
          /\ q - Len(s) \in DOMAIN t /\ j[q] = t[q - Len(s)]
      BY <1>5, <2>2, <3>1
    <3>3. p - Len(s) < q - Len(s)
      BY <1>2, <1>6
    <3>. QED
      BY <3>2, <3>3 DEF Rising
  <2>3. CASE p <= Len(s) /\ q > Len(s)
    <3>1. /\ p \in DOMAIN s /\ j[p] = s[p]
          /\ q - Len(s) \in DOMAIN t /\ q - Len(s) > 0 /\ j[q] = t[q - Len(s)]
      BY <1>4, <1>5, <2>3
    <3>. QED
      BY <3>1 DEF Older
  <2>. QED
    BY <1>2, <1>6, <2>1, <2>2, <2>3
<1>8. Real(j, m)
  <2>. SUFFICES ASSUME NEW p \in DOMAIN j PROVE j[p] \in 1 .. m
    BY DEF Real
  <2>1. CASE p <= Len(s)
    BY <1>4, <2>1 DEF Real
  <2>2. CASE p > Len(s)
    BY <1>5, <2>2 DEF Real
  <2>. QED
    BY <1>2, <1>6, <2>1, <2>2
<1>. QED
  BY <1>0, <1>1, <1>7, <1>8 DEF j

---------------------------------------------------------------------------
\* record_file, which was emptied before, is written at its end.
LEMMA WritesAtEnd ==
  ASSUME NEW s \in Seq(Nat), NEW t \in Seq(Nat), NEW n \in Nat
  PROVE  SubSeq(s, 1, Len(s)) \o t \o SubSeq(s, Len(s) + n + 1, Len(s)) = s \o t
<1>1. SubSeq(s, 1, Len(s)) = s
  OBVIOUS
<1>2. SubSeq(s, Len(s) + n + 1, Len(s)) = <<>>
  OBVIOUS
<1>. DEFINE j == s \o t
<1>3. j \in Seq(Nat) /\ s \o t \o <<>> = j \o <<>>
  OBVIOUS
<1>. HIDE DEF j
<1>4. j \o <<>> = j
  BY <1>3
<1>. QED
  BY <1>1, <1>2, <1>3, <1>4 DEF j

\* A new process begins with an empty buffer at the start of its file.
LEMMA SetupKeeps ==
  ASSUME SndInv, Setup PROVE SndInv'
<1>1. /\ at_line = "setup" /\ at_line' = "loop" /\ snd_ops' = 0 /\ buff' = <<>>
      /\ step \in {"ring", "record", "replay"}
      /\ UNCHANGED <<step, record_file, mic, replayed>>
  BY DEF Setup, SndInv, SndTyped
<1>2. File' \in Seq(Nat)
  <2>1. CASE step = "ring"
    <3>. DEFINE tone == [i \in 1 .. Ring |-> 0]
    <3>1. tone \in Seq(Nat)
      BY SamplesAssumption
    <3>2. step' = "ring"
      BY <1>1, <2>1
    <3>3. File' = tone
      BY <3>2 DEF File
    <3>. QED
      BY <3>1, <3>3
  <2>2. CASE step # "ring"
    <3>1. File' = record_file
      BY <1>1, <2>2 DEF File
    <3>. QED
      BY <3>1 DEF SndInv, SndTyped
  <2>. QED
    BY <2>1, <2>2
<1>3. SndTyped'
  BY <1>1, <1>2 DEF SndInv, SndTyped, Replaying
<1>4. RecordingInv'
  BY <1>1 DEF SndInv, SndTyped, RecordingInv
<1>5. ReplayInv'
  BY <1>1 DEF SndInv, SndTyped, ReplayInv, Older
<1>6. Heard' /\ RingInv'
  BY <1>1 DEF SndInv, Heard, RingInv
<1>. QED
  BY <1>3, <1>4, <1>5, <1>6 DEF SndInv

\* Steps that leave what is recorded, read and played.
LEMMA ControlKeeps ==
  ASSUME SndInv, \/ SndtestFails \/ sig_alram \/ Loop \/ UNCHANGED svars PROVE SndInv'
<1>1. CASE SndtestFails
  BY <1>1 DEF SndtestFails, SndInv, SndTyped, RecordingInv, ReplayInv, Heard, RingInv
<1>2. CASE sig_alram
  BY <1>2 DEF sig_alram, SndInv, SndTyped, RecordingInv, ReplayInv, Heard, RingInv, Replaying, File
<1>3. CASE Loop
  <2>1. /\ at_line = "loop" /\ at_line' = "read"
        /\ UNCHANGED <<step, snd_ops, buff, record_file, mic, replayed>>
    BY <1>3 DEF Loop
  <2>. QED
    BY <2>1 DEF SndInv, SndTyped, RecordingInv, ReplayInv, Heard, RingInv, Replaying, File
<1>4. CASE UNCHANGED svars
  BY <1>4 DEF svars, SndInv, SndTyped, RecordingInv, ReplayInv, Heard, RingInv, Replaying, File
<1>. QED
  BY <1>1, <1>2, <1>3, <1>4

---------------------------------------------------------------------------
LEMMA ReadFileKeeps ==
  ASSUME SndInv, Read, Replaying PROVE SndInv'
<1>. DEFINE n == Least(DEFAULT_BUF_SIZE, Len(File) - snd_ops)
<1>1. /\ at_line = "read" /\ UNCHANGED <<step, record_file, replayed, mic>>
      /\ buff' = SubSeq(File, snd_ops + 1, snd_ops + n) /\ snd_ops' = snd_ops + n
      /\ at_line' = IF n = 0 THEN "loop" ELSE "write"
  BY DEF Read, ReadFile, ReadMic
<1>2. File \in Seq(Nat) /\ UNCHANGED File
  <2>1. CASE step = "ring"
    <3>. DEFINE tone == [i \in 1 .. Ring |-> 0]
    <3>1. tone \in Seq(Nat)
      BY SamplesAssumption
    <3>2. File = tone /\ File' = tone
      BY <1>1, <2>1 DEF File
    <3>. QED
      BY <3>1, <3>2
  <2>2. CASE step # "ring"
    <3>1. File = record_file /\ File' = record_file
      BY <1>1, <2>2 DEF File
    <3>. QED
      BY <3>1 DEF SndInv, SndTyped
  <2>. QED
    BY <2>1, <2>2
<1>3. snd_ops \in Nat /\ snd_ops <= Len(File) /\ mic \in Nat
  BY <1>1 DEF SndInv, SndTyped
<1>4. n \in Nat /\ snd_ops + n <= Len(File)
  BY <1>2, <1>3, SamplesAssumption DEF Least
<1>. HIDE DEF n
<1>5. buff' \in Seq(Nat)
  BY <1>1, <1>2, <1>3, <1>4, SamplesOf
<1>6. SndTyped'
  BY <1>1, <1>2, <1>3, <1>4, <1>5 DEF SndInv, SndTyped, Replaying
<1>7. RecordingInv' /\ RingInv' /\ Heard'
  BY <1>1 DEF SndInv, RecordingInv, RingInv, Heard, Replaying
<1>8. ReplayInv'
  <2>. SUFFICES ASSUME step = "replay" PROVE ReplayInv'
    BY <1>1 DEF ReplayInv
  <2>1. File = record_file
    BY DEF File
  <2>2. Rising(record_file) /\ Real(record_file, mic) /\ Older(replayed, record_file, snd_ops)
    BY <1>1 DEF SndInv, ReplayInv
  <2>3. Rising(buff') /\ Real(buff', mic) /\ Older(buff', record_file, snd_ops + n)
    BY <1>1, <1>2, <1>3, <1>4, <2>1, <2>2, PartRises
  <2>4. Older(replayed, record_file, snd_ops + n)
    BY <1>3, <1>4, <2>2 DEF Older, SndInv, SndTyped
  <2>5. Older(replayed, buff', 0)
    <3>. SUFFICES ASSUME NEW i \in DOMAIN replayed, NEW j \in DOMAIN (buff')
                  PROVE  replayed[i] < buff'[j]
      BY DEF Older
    <3>1. j \in 1 .. n /\ buff'[j] = record_file[snd_ops + j]
      BY <1>1, <1>2, <1>3, <1>4, <2>1, SamplesOf, SMTT(60)
    <3>2. snd_ops + j \in DOMAIN record_file /\ snd_ops + j > snd_ops
      BY <1>2, <1>3, <1>4, <2>1, <3>1
    <3>. QED
      BY <2>2, <3>1, <3>2 DEF Older
  <2>. QED
    BY <1>1, <2>2, <2>3, <2>4, <2>5 DEF ReplayInv
<1>. QED
  BY <1>6, <1>7, <1>8 DEF SndInv

LEMMA ReadMicKeeps ==
  ASSUME SndInv, Read, ~Replaying PROVE SndInv'
<1>1. /\ at_line = "read" /\ step = "record"
      /\ UNCHANGED <<step, record_file, replayed, snd_ops>>
      /\ mic \in Nat /\ snd_ops \in Nat
  BY DEF Read, ReadMic, ReadFile, Replaying, SndInv, SndTyped
<1>2. PICK n \in 0 .. Least(DEFAULT_BUF_SIZE, MaxHeard - mic) :
        /\ buff' = [i \in 1 .. n |-> mic + i] /\ mic' = mic + n
        /\ at_line' = IF n = 0 THEN "loop" ELSE "write"
  BY DEF Read, ReadMic, ReadFile
<1>3. n \in Nat
  OBVIOUS
<1>4. buff' \in Seq(Nat) /\ Len(buff') = n /\ \A i \in 1 .. n : buff'[i] = mic + i
  BY <1>1, <1>2, <1>3
<1>5. SndTyped'
  BY <1>1, <1>2, <1>3, <1>4 DEF SndInv, SndTyped, Replaying
<1>6. ReplayInv' /\ RingInv'
  BY <1>1 DEF ReplayInv, RingInv
<1>7. /\ replayed = <<>> /\ Rising(record_file) /\ Real(record_file, mic)
      /\ snd_ops = Len(record_file) /\ record_file \in Seq(Nat)
  BY <1>1 DEF SndInv, SndTyped, RecordingInv
<1>8. Heard'
  BY <1>1, <1>7 DEF Heard, Rising, Real
<1>9. Real(record_file, mic')
  BY <1>1, <1>2, <1>3, <1>7 DEF Real
<1>10. DOMAIN (buff') = 1 .. n
  BY <1>4
<1>11. Rising(buff') /\ Real(buff', mic')
  BY <1>1, <1>2, <1>3, <1>4, <1>10 DEF Rising, Real
<1>12. Older(record_file, buff', 0)
  BY <1>1, <1>3, <1>4, <1>7, <1>10 DEF Older, Real
<1>13. RecordingInv'
  BY <1>1, <1>2, <1>7, <1>9, <1>11, <1>12 DEF RecordingInv
<1>. QED
  BY <1>5, <1>6, <1>8, <1>13 DEF SndInv

---------------------------------------------------------------------------
\* A part of the chunk is played; the rest of it is dropped.
LEMMA WriteSoundKeeps ==
  ASSUME SndInv, Write, Replaying PROVE SndInv'
<1>1. PICK n \in 0 .. Len(buff) :
        /\ replayed' = IF step = "replay" THEN replayed \o SubSeq(buff, 1, n) ELSE replayed
        /\ UNCHANGED <<record_file, snd_ops>>
  BY DEF Write
<1>2. /\ at_line = "write" /\ at_line' = "loop" /\ buff' = <<>>
      /\ UNCHANGED <<step, mic>> /\ step \in {"ring", "replay"}
      /\ n \in Nat /\ n <= Len(buff) /\ buff \in Seq(Nat) /\ replayed \in Seq(Nat) /\ mic \in Nat
  BY DEF Write, SndInv, SndTyped, Replaying
<1>3. CASE step = "ring"
  <2>1. UNCHANGED <<replayed, File, Replaying>>
    BY <1>1, <1>2, <1>3 DEF File, Replaying
  <2>. QED
    BY <1>1, <1>2, <1>3, <2>1 DEF SndInv, SndTyped, RecordingInv, ReplayInv, Heard, RingInv
<1>4. CASE step = "replay"
  <2>. DEFINE part == SubSeq(buff, 1, n)
  <2>1. /\ Rising(buff) /\ Real(buff, mic) /\ Older(replayed, buff, 0)
        /\ Older(buff, record_file, snd_ops) /\ Older(replayed, record_file, snd_ops)
        /\ Rising(replayed) /\ Real(replayed, mic) /\ Rising(record_file) /\ Real(record_file, mic)
    BY <1>2, <1>4 DEF SndInv, ReplayInv, Heard
  <2>2. part \in Seq(Nat) /\ Len(part) = n /\ \A i \in 1 .. n : part[i] = buff[i]
    BY <1>2, <2>1, BeginRises
  <2>3. Rising(part) /\ Real(part, mic)
    BY <1>2, <2>1, BeginRises
  <2>4. replayed' = replayed \o part
    BY <1>1, <1>2, <1>4
  <2>. HIDE DEF part
  <2>5. \A i \in DOMAIN part : i \in DOMAIN buff /\ part[i] = buff[i]
    BY <1>2, <2>2
  <2>6. Older(replayed, part, 0) /\ Older(part, record_file, snd_ops)
    BY <2>1, <2>5 DEF Older
  <2>7. replayed' \in Seq(Nat) /\ Heard'
    BY <1>2, <2>1, <2>2, <2>3, <2>4, <2>6, JoinRises DEF Heard
  <2>8. Older(replayed', record_file, snd_ops)
    <3>. SUFFICES ASSUME NEW i \in DOMAIN (replayed'), NEW j \in DOMAIN record_file, j > snd_ops
                  PROVE  replayed'[i] < record_file[j]
      BY DEF Older
    <3>1. i \in 1 .. Len(replayed) + Len(part)
      BY <1>2, <2>2, <2>4
    <3>2. CASE i <= Len(replayed)
      <4>1. i \in DOMAIN replayed /\ replayed'[i] = replayed[i]
        BY <1>2, <2>2, <2>4, <3>1, <3>2
      <4>. QED
        BY <2>1, <4>1 DEF Older
    <3>3. CASE i > Len(replayed)
      <4>1. i - Len(replayed) \in DOMAIN part /\ replayed'[i] = part[i - Len(replayed)]
        BY <1>2, <2>2, <2>4, <3>1, <3>3
      <4>. QED
        BY <2>6, <4>1 DEF Older
    <3>. QED
      BY <1>2, <3>1, <3>2, <3>3
  <2>9. UNCHANGED <<File, Replaying>>
    BY <1>1, <1>2, <1>4 DEF File, Replaying
  <2>10. SndTyped'
    BY <1>1, <1>2, <2>7, <2>9 DEF SndInv, SndTyped
  <2>11. ReplayInv'
    BY <1>1, <1>2, <1>4, <2>1, <2>8 DEF ReplayInv
  <2>12. RecordingInv' /\ RingInv'
    BY <1>2, <1>4 DEF RecordingInv, RingInv
  <2>. QED
    BY <2>7, <2>10, <2>11, <2>12 DEF SndInv
<1>. QED
  BY <1>2, <1>3, <1>4

\* A part of the chunk is appended to the recording.
LEMMA WriteFileKeeps ==
  ASSUME SndInv, Write, ~Replaying PROVE SndInv'
<1>1. PICK n \in 0 .. Len(buff) :
        /\ record_file' = SubSeq(record_file, 1, snd_ops) \o SubSeq(buff, 1, n)
                            \o SubSeq(record_file, snd_ops + n + 1, Len(record_file))
        /\ snd_ops' = snd_ops + n /\ UNCHANGED replayed
  BY DEF Write
<1>2. /\ at_line = "write" /\ at_line' = "loop" /\ buff' = <<>> /\ step = "record"
      /\ UNCHANGED <<step, mic>>
      /\ n \in Nat /\ n <= Len(buff) /\ buff \in Seq(Nat) /\ record_file \in Seq(Nat)
      /\ mic \in Nat /\ snd_ops \in Nat
  BY DEF Write, SndInv, SndTyped, Replaying
<1>3. /\ Rising(buff) /\ Real(buff, mic) /\ Older(record_file, buff, 0)
      /\ Rising(record_file) /\ Real(record_file, mic)
      /\ replayed = <<>> /\ snd_ops = Len(record_file)
  BY <1>2 DEF SndInv, RecordingInv
<1>. DEFINE part == SubSeq(buff, 1, n)
<1>4. part \in Seq(Nat) /\ Len(part) = n /\ \A i \in 1 .. n : part[i] = buff[i]
  BY <1>2, <1>3, BeginRises
<1>5. Rising(part) /\ Real(part, mic)
  BY <1>2, <1>3, BeginRises
<1>6. record_file' = SubSeq(record_file, 1, Len(record_file)) \o part
                       \o SubSeq(record_file, Len(record_file) + n + 1, Len(record_file))
  BY <1>1, <1>3
<1>. HIDE DEF part
<1>7. record_file' = record_file \o part
  BY <1>2, <1>4, <1>6, WritesAtEnd
<1>8. Older(record_file, part, 0)
  <2>1. \A i \in DOMAIN part : i \in DOMAIN buff /\ part[i] = buff[i]
    BY <1>2, <1>4, SMTT(60)
  <2>. QED
    BY <1>3, <2>1 DEF Older
<1>9. record_file' \in Seq(Nat) /\ Rising(record_file') /\ Real(record_file', mic)
  BY <1>2, <1>3, <1>4, <1>5, <1>7, <1>8, JoinRises
<1>10. snd_ops' = Len(record_file') /\ snd_ops' \in Nat
  <2>1. Len(record_file \o part) = Len(record_file) + Len(part)
    BY <1>2, <1>3, <1>4, <1>5, <1>8, JoinRises
  <2>2. Len(record_file') = Len(record_file) + n
    BY <1>4, <1>7, <2>1
  <2>3. snd_ops' = snd_ops + n /\ snd_ops = Len(record_file)
    BY <1>1, <1>3
  <2>. QED
    BY <1>2, <2>2, <2>3
<1>11. SndTyped'
  BY <1>1, <1>2, <1>9, <1>10 DEF SndInv, SndTyped, Replaying
<1>12. RecordingInv'
  BY <1>1, <1>2, <1>3, <1>9, <1>10 DEF RecordingInv
<1>13. ReplayInv' /\ RingInv' /\ Heard'
  BY <1>1, <1>2 DEF ReplayInv, RingInv, Heard, SndInv
<1>. QED
  BY <1>11, <1>12, <1>13 DEF SndInv

\* The next process of sndtest; the script empties record_file before it records, and
\* the tester has heard nothing of it before the last one plays.
LEMMA EndsKeep ==
  ASSUME SndInv, SndtestEnds PROVE SndInv'
<1>1. at_line' = "setup" /\ UNCHANGED <<snd_ops, buff, mic, replayed>>
  BY DEF SndtestEnds
<1>2. CASE step = "ring" /\ step' = "record" /\ record_file' = <<>>
  BY <1>1, <1>2 DEF SndInv, SndTyped, RecordingInv, ReplayInv, Heard, RingInv, Rising, Real
<1>3. CASE step = "record" /\ step' = "replay" /\ UNCHANGED record_file
  <2>1. Rising(record_file) /\ Real(record_file, mic) /\ replayed = <<>>
    BY <1>3 DEF SndInv, RecordingInv
  <2>. QED
    BY <1>1, <1>3, <2>1 DEF SndInv, SndTyped, RecordingInv, ReplayInv, Heard, RingInv
<1>4. CASE step = "replay" /\ step' = "passed" /\ record_file' = <<>>
  BY <1>1, <1>4 DEF SndInv, SndTyped, RecordingInv, ReplayInv, Heard, RingInv
<1>. QED
  BY <1>2, <1>3, <1>4 DEF SndtestEnds

LEMMA SndStart == SndTestInit => SndInv
<1>. SUFFICES ASSUME SndTestInit PROVE SndInv
  OBVIOUS
<1>1. record_file \in Seq(Nat)
  <2>. DEFINE old == [i \in 1 .. Stale |-> 0]
  <2>1. old \in Seq(Nat)
    BY SamplesAssumption
  <2>2. record_file = <<>> \/ record_file = old
    BY DEF SndTestInit
  <2>3. <<>> \in Seq(Nat)
    OBVIOUS
  <2>. HIDE DEF old
  <2>. QED
    BY <2>1, <2>2, <2>3
<1>. QED
  BY <1>1 DEF SndTestInit, SndInv, SndTyped, RecordingInv, ReplayInv, Heard, RingInv, Rising, Real

LEMMA SndStep == SndInv /\ [SndTestNext]_svars => SndInv'
BY SetupKeeps, ControlKeeps, ReadFileKeeps, ReadMicKeeps, WriteSoundKeeps, WriteFileKeeps,
   EndsKeep DEF SndTestNext

\* What rises and is real is of this recording, once and in order.
LEMMA HearsIs == SndInv => HearsThisRecording
<1>. SUFFICES ASSUME SndInv, NEW i \in DOMAIN replayed
              PROVE  replayed[i] \in 1 .. mic /\ (i > 1 => replayed[i - 1] < replayed[i])
  BY DEF HearsThisRecording
<1>1. replayed \in Seq(Nat) /\ Rising(replayed) /\ Real(replayed, mic)
  BY DEF SndInv, SndTyped, Heard
<1>2. i > 1 => i - 1 \in DOMAIN replayed /\ i - 1 < i
  BY <1>1
<1>. QED
  BY <1>1, <1>2 DEF Rising, Real

\* What the tester hears was recorded by this script, in its order and once: the offsets
\* of reads and writes, which may each be incomplete, never fall back or apart.
THEOREM HearsThisRecordingCorrect == SndTestSpec => []HearsThisRecording
BY HearsIs, SndStart, SndStep, PTL DEF SndTestSpec

\* A file is read no further than to the length stat gave for it, 0 when it failed.
SndRoom ==
  /\ alarm_flag \in {0, 1} /\ mic <= MaxHeard /\ Len(buff) <= DEFAULT_BUF_SIZE
  /\ at_line = "write" => buff # <<>>
  /\ at_line # "setup" /\ Replaying =>
       /\ file_length \in {0, Len(File)} /\ snd_ops <= file_length
       /\ at_line = "read" => snd_ops < file_length

LEMMA FileIs == ASSUME SndInv PROVE File \in Seq(Nat)
<1>1. [i \in 1 .. Ring |-> 0] \in Seq(Nat)
  BY SamplesAssumption
<1>2. record_file \in Seq(Nat)
  BY DEF SndInv, SndTyped
<1>. QED
  BY <1>1, <1>2 DEF File

LEMMA RoomStep ==
  ASSUME SndInv, SndRoom, [SndTestNext]_svars PROVE SndRoom'
<1>1. /\ File \in Seq(Nat) /\ Len(File) \in Nat /\ buff \in Seq(Nat) /\ mic \in Nat
      /\ snd_ops \in Nat /\ MaxHeard \in Nat /\ DEFAULT_BUF_SIZE \in Nat \ {0}
  BY FileIs, SamplesAssumption DEF SndInv, SndTyped
<1>2. ASSUME UNCHANGED <<step, record_file>> PROVE File' = File /\ Replaying' = Replaying
  BY <1>2 DEF File, Replaying
<1>3. CASE Setup
  <2>1. /\ at_line' = "loop" /\ alarm_flag' = 1 /\ snd_ops' = 0 /\ buff' = <<>> /\ mic' = mic
        /\ Replaying => file_length' \in {Len(File), 0}
        /\ UNCHANGED <<step, record_file>>
    BY <1>3 DEF Setup
  <2>2. Len(<<>>) = 0
    OBVIOUS
  <2>. QED
    BY <1>1, <1>2, <2>1, <2>2 DEF SndRoom
<1>4. CASE SndtestFails
  BY <1>4 DEF SndtestFails, SndRoom
<1>5. CASE sig_alram
  <2>1. /\ UNCHANGED <<step, at_line, snd_ops, file_length, buff, record_file, mic>>
        /\ alarm_flag' = 0
    BY <1>5 DEF sig_alram
  <2>. QED
    BY <1>2, <2>1 DEF SndRoom
<1>6. CASE Loop
  <2>1. /\ UNCHANGED <<step, alarm_flag, snd_ops, file_length, buff, record_file, mic>>
        /\ at_line = "loop" /\ at_line' = "read" /\ (Replaying => snd_ops < file_length)
    BY <1>6 DEF Loop
  <2>. QED
    BY <1>2, <2>1 DEF SndRoom
<1>7. CASE Read /\ ReadFile
  <2>. DEFINE n == Least(DEFAULT_BUF_SIZE, Len(File) - snd_ops)
  <2>1. /\ UNCHANGED <<step, alarm_flag, file_length, record_file, mic>> /\ Replaying
        /\ snd_ops' = snd_ops + n /\ buff' = SubSeq(File, snd_ops + 1, snd_ops + n)
        /\ at_line' = (IF n = 0 THEN "loop" ELSE "write") /\ at_line = "read"
    BY <1>7 DEF Read, ReadFile
  <2>2. /\ file_length = Len(File) /\ snd_ops < Len(File)
    <3>1. at_line # "setup" /\ at_line = "read" /\ Replaying
      BY <2>1
    <3>2. file_length \in {0, Len(File)} /\ snd_ops < file_length
      BY <3>1, Zenon DEF SndRoom
    <3>3. ~(snd_ops < 0)
      BY <1>1
    <3>. QED
      BY <3>2, <3>3
  <2>3. n \in Nat /\ n <= DEFAULT_BUF_SIZE /\ snd_ops + n <= Len(File)
    BY <1>1, <2>2 DEF Least
  <2>. HIDE DEF n
  <2>4. buff' \in Seq(Nat) /\ Len(buff') = n
    BY <1>1, <2>1, <2>3, SamplesOf
  <2>5. at_line' = "write" => buff' # <<>>
    BY <2>1, <2>4
  <2>. QED
    BY <1>1, <1>2, <2>1, <2>2, <2>3, <2>4, <2>5 DEF SndRoom
<1>8. CASE Read /\ ReadMic
  <2>1. PICK n \in 0 .. Least(DEFAULT_BUF_SIZE, MaxHeard - mic) :
          /\ buff' = [i \in 1 .. n |-> mic + i] /\ mic' = mic + n
          /\ at_line' = IF n = 0 THEN "loop" ELSE "write"
    BY <1>8 DEF ReadMic
  <2>2. n \in Nat /\ n <= DEFAULT_BUF_SIZE /\ mic + n <= MaxHeard
    BY <1>1, <2>1 DEF SndRoom, Least
  <2>3. Len(buff') = n
    BY <2>1, <2>2
  <2>4. at_line' = "write" => buff' # <<>>
    BY <2>1, <2>2, <2>3
  <2>5. UNCHANGED <<step, alarm_flag, record_file>> /\ ~Replaying
    BY <1>8 DEF Read, ReadMic
  <2>. QED
    BY <1>2, <2>1, <2>2, <2>3, <2>4, <2>5 DEF SndRoom
<1>9. CASE Write
  <2>1. /\ at_line' = "loop" /\ at_line = "write" /\ buff' = <<>>
        /\ UNCHANGED <<step, alarm_flag, file_length, mic>>
        /\ Replaying => UNCHANGED <<record_file, snd_ops>>
    BY <1>9 DEF Write
  <2>2. Len(<<>>) = 0 /\ Replaying' = Replaying
    BY <2>1 DEF Replaying
  <2>. QED
    BY <1>1, <1>2, <2>1, <2>2 DEF SndRoom
<1>10. CASE SndtestEnds
  BY <1>10 DEF SndtestEnds, SndRoom
<1>11. CASE UNCHANGED svars
  BY <1>2, <1>11 DEF svars, SndRoom
<1>. QED
  BY <1>3, <1>4, <1>5, <1>6, <1>7, <1>8, <1>9, <1>10, <1>11 DEF SndTestNext, Read

\* Nothing is recorded yet.
LEMMA RoomStart == SndTestInit => SndRoom
<1>. SUFFICES ASSUME SndTestInit PROVE SndRoom
  OBVIOUS
<1>1. Len(<<>>) = 0 /\ 0 <= MaxHeard /\ 0 <= DEFAULT_BUF_SIZE
  BY SamplesAssumption
<1>. QED
  BY <1>1 DEF SndTestInit, SndRoom

\* What is read and written fits the buffer and the files.
LEMMA SndRoomIsType == SndInv /\ SndRoom => SndTestTypeOK
BY SamplesAssumption DEF SndInv, SndTyped, SndRoom, SndTestTypeOK

\* sndtest reads a file to its length and no further, and what it holds to be written
\* fits its buffer, for every size of the buffer and of the files.
THEOREM SndTestTypeCorrect == SndTestSpec => []SndTestTypeOK
<1>1. SndInv /\ SndRoom /\ [SndTestNext]_svars => SndRoom'
  BY RoomStep
<1>. QED
  BY RoomStart, <1>1, SndRoomIsType, SndStart, SndStep, PTL DEF SndTestSpec

---------------------------------------------------------------------------
(* test_bluetooth: a verdict is a touch of the current test it ends, and a *)
(* success is one of five commands completed, for any number of getevents, *)
(* of resets on the line and of scripts.                                   *)

\* The log of a current test under way holds nothing older than its first touch, and
\* nor does a getevent.
LogIsOurs ==
  /\ taken \subseteq touched
  /\ UnderWay /\ log \in Buttons => touched # {} /\ log \in Tells(touched)

CtInv == LogIsOurs /\ VerdictWasTouched

\* More touches tell no less.
LEMMA TellsMore ==
  ASSUME NEW few, NEW many, few \subseteq many PROVE Tells(few) \subseteq Tells(many)
BY DEF Tells

\* They tell of a button or of none.
LEMMA TellsOfButtons ==
  ASSUME NEW some, some \subseteq Spots PROVE Tells(some) \subseteq Buttons
<1>1. some \cup {Origin} \subseteq [x : {"left", "right"}, y : {"buttons", "above"}]
  <2>1. Spots \subseteq [x : {"left", "right"}, y : {"buttons", "above"}]
    BY ForkedAssumption DEF Spots
  <2>2. Origin \in [x : {"left", "right"}, y : {"buttons", "above"}]
    BY DEF Origin
  <2>. QED
    BY <2>1, <2>2
<1>2. ASSUME NEW p \in some \cup {Origin}, NEW q \in some \cup {Origin}
      PROVE  button_select([x |-> p.x, y |-> q.y]) \in Buttons
  <2>1. p.x \in {"left", "right"} /\ q.y \in {"buttons", "above"}
    BY <1>1
  <2>. QED
    BY <2>1 DEF button_select, Buttons
<1>3. ASSUME NEW t \in Tells(some) PROVE t \in Buttons
  <2>1. PICK p \in some \cup {Origin}, q \in some \cup {Origin} :
          t = button_select([x |-> p.x, y |-> q.y])
    BY <1>3 DEF Tells
  <2>. QED
    BY <1>2, <2>1, Zenon
<1>. QED
  BY <1>3

\* A step of the program, of a getevent or of the user keeps the log the current test's:
\* Prepare removes it, Open empties it, Touch writes what was touched.
LEMMA TestKeepsLog ==
  ASSUME CtInv, Test \/ UserTouches PROVE CtInv'
<1>1. CASE Prepare
  BY <1>1 DEF Prepare, CtInv, LogIsOurs, VerdictWasTouched, UnderWay, Buttons
<1>2. CASE Open
  BY <1>2 DEF Open, CtInv, LogIsOurs, VerdictWasTouched, UnderWay, Buttons
<1>3. CASE Judge
  BY <1>3 DEF Judge, Selected, CtInv, LogIsOurs, VerdictWasTouched, UnderWay, Buttons
<1>4. CASE TouchElsewhere
  BY <1>4 DEF TouchElsewhere, CtInv, LogIsOurs, VerdictWasTouched, UnderWay, Buttons
<1>5. CASE NoTouchYet
  BY <1>5 DEF NoTouchYet, Selected, CtInv, LogIsOurs, VerdictWasTouched, UnderWay, Buttons
<1>6. CASE NoLogYet
  BY <1>6 DEF NoLogYet, Selected, CtInv, LogIsOurs, VerdictWasTouched, UnderWay, Buttons
<1>7. CASE UserTouches
  <2>1. PICK t \in Spots : Touch(t)
    BY <1>7 DEF UserTouches
  <2>2. taken \subseteq touched /\ UnderWay /\ UNCHANGED ct /\ touched' = touched \cup {t}
    BY <2>1 DEF Touch, CtInv, LogIsOurs
  <2>3. /\ Tells(taken \cup {t}) \subseteq Tells(touched')
        /\ Tells(touched) \subseteq Tells(touched')
    BY <2>2, TellsMore
  <2>4. VerdictWasTouched'
    BY <2>2 DEF UnderWay, VerdictWasTouched
  <2>5. taken' \subseteq touched'
    BY <2>1, <2>2 DEF Touch
  <2>6. log' \in Tells(taken \cup {t}) \/ log' = log
    BY <2>1 DEF Touch
  <2>7. log' \in Buttons => log' \in Tells(touched')
    BY <2>2, <2>3, <2>6 DEF CtInv, LogIsOurs
  <2>. QED
    BY <2>2, <2>4, <2>5, <2>7 DEF CtInv, LogIsOurs
<1>. QED
  BY <1>1, <1>2, <1>3, <1>4, <1>5, <1>6, <1>7 DEF Test, Select

\* The end of a run of test_bluetooth leaves the log and decides nothing in a current test.
LEMMA ExitKeepsLog ==
  ASSUME NEW c, CtInv, ExitWith(c) PROVE CtInv'
BY DEF ExitWith, CtInv, LogIsOurs, VerdictWasTouched, UnderWay, Buttons

\* What does not touch the variables of the current test keeps its invariant.
LEMMA FrameKeepsLog ==
  ASSUME CtInv, UNCHANGED ctvars PROVE CtInv'
BY DEF ctvars, CtInv, LogIsOurs, VerdictWasTouched, UnderWay, Buttons

LEMMA ReadKeepsLog ==
  ASSUME CtInv, ReadEvent PROVE CtInv'
<1>1. \/ UNCHANGED ctvars
      \/ ExitWith(0)
      \/ ExitWith(hci + 2)
  BY DEF ReadEvent
<1>. QED
  BY <1>1, ExitKeepsLog, FrameKeepsLog

LEMMA NextKeepsLog ==
  ASSUME CtInv, [BtNext]_btvars PROVE CtInv'
<1>1. CASE Ready \/ Lose \/ Answer \/ StartTool \/ Expired
  <2>1. UNCHANGED ctvars
    BY <1>1 DEF Ready, Lose, Answer, StartTool, Expired
  <2>. QED
    BY <2>1, FrameKeepsLog
<1>2. CASE NextScript
  BY <1>2 DEF NextScript, PowerUp, CtInv, LogIsOurs, VerdictWasTouched, UnderWay, Buttons
<1>3. CASE UNCHANGED btvars
  <2>1. UNCHANGED ctvars
    BY <1>3 DEF btvars
  <2>. QED
    BY <2>1, FrameKeepsLog
<1>. QED
  BY <1>1, <1>2, <1>3, ReadKeepsLog, TestKeepsLog DEF BtNext, Tool

\* The verdict of a current test is a touch of this one: the log that all scripts share
\* is removed before the first getevent opens it.
THEOREM VerdictWasTouchedCorrect == BtSpec => []VerdictWasTouched
<1>1. BtInit => CtInv
  BY DEF BtInit, CtInit, CtInv, LogIsOurs, VerdictWasTouched, UnderWay, Buttons
<1>2. CtInv /\ [BtNext]_btvars => CtInv'
  BY NextKeepsLog
<1>3. CtInv => VerdictWasTouched
  BY DEF CtInv
<1>. QED
  BY <1>1, <1>2, <1>3, PTL DEF BtSpec

---------------------------------------------------------------------------
\* Every answer on the line that reports success was given during this run: init_uart
\* drops the older ones.
OwnAnswers ==
  \A i \in DOMAIN events : events[i].status = "ok" => events[i].cmd \in executed

\* The commands before the one under way were completed.
InOrder == hci > 0 => \A i \in 1 .. hci - 1 : Commands[i] \in executed

\* The run that judges the controller is the first one of its script.
FirstRun == ct \in {"off", "prepare"} /\ hci > 0 => code = -1

AllDone == code = 0 /\ ct \in {"off", "prepare"} => \A i \in 1 .. 5 : Commands[i] \in executed

CommandNames ==
  {"reset", "read_bd_addr", "set_event_filter", "write_scan_enable", "enable_dut_mode"}

ToolTyped ==
  /\ events \in Seq([cmd : CommandNames, status : {"ok", "error"}])
  /\ pending \in Seq(CommandNames)
  /\ hci \in 0 .. 5 /\ code \in Int

ToolInv == ToolTyped /\ OwnAnswers /\ InOrder /\ FirstRun /\ AllDone

LEMMA CommandsAre ==
  /\ Len(Commands) = 5 /\ DOMAIN Commands = 1 .. 5
  /\ \A i \in 1 .. 5 : Commands[i] \in CommandNames
BY DEF Commands, CommandNames

\* The commands are sent and answered in their order.
LEMMA AnswerKeeps ==
  ASSUME ToolInv, Answer PROVE ToolInv'
<1>. USE DEF ToolInv, ToolTyped
<1>1. pending # <<>> /\ Head(pending) \in CommandNames /\ Tail(pending) \in Seq(CommandNames)
  BY DEF Answer
<1>2. PICK status \in {"ok", "error"} :
        /\ events' = Append(events, [cmd |-> Head(pending), status |-> status])
        /\ executed' = IF status = "ok" THEN executed \cup {Head(pending)} ELSE executed
  BY DEF Answer
<1>3. UNCHANGED <<ct, hci, code>> /\ pending' = Tail(pending) /\ executed \subseteq executed'
  BY <1>2 DEF Answer, ctvars
<1>4. ToolTyped'
  BY <1>1, <1>2, <1>3
<1>5. OwnAnswers'
  <2>. SUFFICES ASSUME NEW i \in DOMAIN events', events'[i].status = "ok"
                PROVE  events'[i].cmd \in executed'
    BY DEF OwnAnswers
  <2>1. CASE i \in DOMAIN events
    <3>1. events'[i] = events[i]
      BY <1>2, <2>1
    <3>. QED
      BY <2>1, <3>1, <1>3 DEF OwnAnswers
  <2>2. CASE i = Len(events) + 1
    <3>1. events'[i] = [cmd |-> Head(pending), status |-> status]
      BY <1>2, <2>2
    <3>. QED
      BY <3>1, <1>2
  <2>. QED
    BY <1>2, <2>1, <2>2
<1>6. InOrder' /\ FirstRun' /\ AllDone'
  BY <1>3 DEF InOrder, FirstRun, AllDone
<1>. QED
  BY <1>4, <1>5, <1>6

\* A run begins with an empty buffer, so no answer to an earlier one is read.
LEMMA StartKeeps ==
  ASSUME ToolInv, StartTool PROVE ToolInv'
<1>1. ToolTyped'
  BY DEF StartTool, ToolInv, ToolTyped, CommandNames
<1>2. OwnAnswers' /\ InOrder'
  BY DEF StartTool, OwnAnswers, InOrder
<1>3. FirstRun' /\ AllDone'
  BY DEF StartTool, ctvars, FirstRun, AllDone
<1>. QED
  BY <1>1, <1>2, <1>3 DEF ToolInv

\* An exit code of 0 means that the last command, too, was completed.
LEMMA ReadKeeps ==
  ASSUME ToolInv, ReadEvent PROVE ToolInv'
<1>. USE DEF ToolInv, ToolTyped
<1>1. /\ hci \in 1 .. 5 /\ events # <<>> /\ events' = Tail(events)
      /\ UNCHANGED executed /\ Head(events) = events[1] /\ 1 \in DOMAIN events
  BY DEF ReadEvent
<1>2. OwnAnswers'
  BY <1>1 DEF OwnAnswers
<1>3. events' \in Seq([cmd : CommandNames, status : {"ok", "error"}])
  BY <1>1
<1>4. CASE ~Matches(Head(events))
  <2>1. hci' = 0 /\ code' = hci + 2 /\ UNCHANGED pending
    BY <1>4 DEF ReadEvent, ExitWith
  <2>. QED
    BY <1>1, <1>2, <1>3, <2>1 DEF InOrder, FirstRun, AllDone
<1>5. CASE Matches(Head(events)) /\ hci = 5
  <2>1. hci' = 0 /\ code' = 0 /\ UNCHANGED pending
    BY <1>5, CommandsAre DEF ReadEvent, ExitWith
  <2>2. Commands[5] \in executed
    BY <1>1, <1>5 DEF Matches, OwnAnswers
  <2>3. \A i \in 1 .. 5 : Commands[i] \in executed
    BY <1>1, <1>5, <2>2 DEF InOrder
  <2>. QED
    BY <1>1, <1>2, <1>3, <2>1, <2>3 DEF InOrder, FirstRun, AllDone
<1>6. CASE Matches(Head(events)) /\ hci # 5
  <2>1. /\ hci' = hci + 1 /\ pending' = Append(pending, Commands[hci + 1])
        /\ UNCHANGED <<ct, code>>
    BY <1>6, CommandsAre DEF ReadEvent, ctvars
  <2>2. Commands[hci] \in executed
    BY <1>1, <1>6 DEF Matches, OwnAnswers
  <2>3. hci + 1 \in 1 .. 5 /\ Commands[hci + 1] \in CommandNames
    BY <1>1, <1>6, CommandsAre
  <2>4. ToolTyped'
    BY <1>3, <2>1, <2>3
  <2>5. InOrder'
    BY <1>1, <2>1, <2>2 DEF InOrder
  <2>6. FirstRun' /\ AllDone'
    BY <1>1, <2>1 DEF FirstRun, AllDone
  <2>. QED
    BY <1>2, <2>4, <2>5, <2>6
<1>. QED
  BY <1>4, <1>5, <1>6

\* The loop of the current test starts no run that would judge the controller.
LEMMA LoopKeeps ==
  ASSUME ToolInv, Test \/ UserTouches, UNCHANGED hvars PROVE ToolInv'
<1>1. UNCHANGED <<events, pending, hci, code, executed>>
  BY DEF hvars
<1>2. ct' \in {"off", "prepare"} => ct' = ct
  BY DEF Test, Select, UserTouches, Prepare, Open, Judge, TouchElsewhere, NoTouchYet, NoLogYet,
         Touch
<1>. QED
  BY <1>1, <1>2 DEF ToolInv, ToolTyped, OwnAnswers, InOrder, FirstRun, AllDone

LEMMA LineKeeps ==
  ASSUME ToolInv, Ready \/ Lose \/ Expired \/ NextScript \/ UNCHANGED btvars PROVE ToolInv'
<1>. USE DEF ToolInv, ToolTyped, OwnAnswers, InOrder, FirstRun, AllDone
<1>1. CASE Ready
  BY <1>1 DEF Ready, ctvars
<1>2. CASE Lose
  <2>1. Tail(pending) \in Seq(CommandNames)
    BY <1>2 DEF Lose
  <2>. QED
    BY <1>2, <2>1 DEF Lose, ctvars
<1>3. CASE Expired
  <2>1. Append(pending, "reset") \in Seq(CommandNames)
    BY DEF CommandNames
  <2>. QED
    BY <1>3, <2>1 DEF Expired, ctvars
<1>4. CASE NextScript
  <2>1. /\ UNCHANGED <<hci, executed>> /\ hci = 0 /\ code' = -1
        /\ events' = <<>> /\ pending' = <<>>
    BY <1>4 DEF NextScript, PowerUp
  <2>. QED
    BY <2>1
<1>5. CASE UNCHANGED btvars
  BY <1>5 DEF btvars, ctvars, hvars
<1>. QED
  BY <1>1, <1>2, <1>3, <1>4, <1>5

LEMMA ToolStart == BtInit => ToolInv
BY DEF BtInit, ToolInv, ToolTyped, OwnAnswers, InOrder, FirstRun, AllDone

LEMMA ToolStep == ToolInv /\ [BtNext]_btvars => ToolInv'
BY AnswerKeeps, StartKeeps, ReadKeeps, LoopKeeps, LineKeeps DEF BtNext, Tool

\* Where the last of the commands was completed all of them were.
LEMMA SuccessIs == ToolInv => SuccessIsReal
BY CommandsAre DEF ToolInv, AllDone, SuccessIsReal

\* test_bluetooth reports success only when the controller completed each of the five
\* commands since the tool was started, with any number of resets on the line.
THEOREM SuccessIsRealCorrect == BtSpec => []SuccessIsReal
BY SuccessIs, ToolStart, ToolStep, PTL DEF BtSpec

---------------------------------------------------------------------------
\* Every getevent is one that was forked, and a log that is not there yet has one coming.
CtRoom ==
  /\ ct \in {"off", "prepare", "work", "select", "passed", "failed", "unselected"}
  /\ log \in Buttons \cup {"absent", "empty"}
  /\ taken \subseteq touched /\ touched \subseteq Spots
  /\ forked \in Nat /\ linked \in Nat /\ forked + linked <= MaxForked
  /\ UnderWay /\ log = "absent" => forked > 0

LEMMA CtRoomStep ==
  ASSUME CtRoom, Test \/ UserTouches PROVE CtRoom'
<1>. USE ForkedAssumption DEF CtRoom, UnderWay, Buttons
<1>1. CASE Prepare
  BY <1>1 DEF Prepare
<1>2. CASE Open
  BY <1>2 DEF Open
<1>3. CASE Judge
  BY <1>3 DEF Judge, Selected
<1>4. CASE TouchElsewhere
  BY <1>4 DEF TouchElsewhere, Selected
<1>5. CASE NoTouchYet
  BY <1>5 DEF NoTouchYet, Selected
<1>6. CASE NoLogYet
  BY <1>6 DEF NoLogYet, Selected
<1>7. CASE UserTouches
  <2>1. PICK t \in Spots : Touch(t)
    BY <1>7 DEF UserTouches
  <2>4. taken \cup {t} \subseteq Spots /\ Tells(taken \cup {t}) \subseteq Buttons
    BY TellsOfButtons
  <2>2. CASE linked > 0 /\ log' \in Tells(taken \cup {t}) /\ linked' = 0
    BY <2>1, <2>2, <2>4 DEF Touch
  <2>3. CASE UNCHANGED <<log, linked>>
    BY <2>1, <2>3 DEF Touch
  <2>. QED
    BY <2>1, <2>2, <2>3 DEF Touch
<1>. QED
  BY <1>1, <1>2, <1>3, <1>4, <1>5, <1>6, <1>7 DEF Test, Select

LEMMA CtRoomFrame ==
  ASSUME CtRoom, UNCHANGED ctvars PROVE CtRoom'
BY DEF CtRoom, ctvars, UnderWay

LEMMA CtRoomExit ==
  ASSUME CtRoom, NEW c, ExitWith(c) PROVE CtRoom'
BY DEF CtRoom, ExitWith, UnderWay

\* The exit code is one that main of test_bluetooth returns; before the first no current
\* test is under way.
BtRoom ==
  /\ chip \in [state : {"booting", "ready"}, health : {"good", "faulty"}]
  /\ code \in -1 .. 7 /\ scripts \in 0 .. MaxScripts
  /\ code = -1 => ct = "off"

LEMMA CtRoomNext == CtRoom /\ [BtNext]_btvars => CtRoom'
<1>. SUFFICES ASSUME CtRoom, [BtNext]_btvars PROVE CtRoom'
  OBVIOUS
<1>1. CASE Ready \/ Lose \/ Answer \/ StartTool \/ Expired \/ UNCHANGED btvars
  <2>1. UNCHANGED ctvars
    BY <1>1 DEF Ready, Lose, Answer, StartTool, Expired, btvars
  <2>. QED
    BY <2>1, CtRoomFrame
<1>2. CASE ReadEvent
  <2>1. UNCHANGED ctvars \/ ExitWith(0) \/ ExitWith(hci + 2)
    BY <1>2 DEF ReadEvent
  <2>. QED
    BY <2>1, CtRoomFrame, CtRoomExit
<1>3. CASE NextScript
  BY <1>3 DEF NextScript, CtRoom, UnderWay
<1>. QED
  BY <1>1, <1>2, <1>3, CtRoomStep DEF BtNext, Tool

LEMMA BtRoomNext == ToolInv /\ BtRoom /\ [BtNext]_btvars => BtRoom'
<1>. SUFFICES ASSUME ToolInv, BtRoom, [BtNext]_btvars PROVE BtRoom'
  OBVIOUS
<1>. USE DEF BtRoom
<1>1. CASE Ready
  BY <1>1 DEF Ready, ctvars
<1>2. CASE Lose \/ Answer \/ StartTool \/ Expired
  BY <1>2 DEF Lose, Answer, StartTool, Expired, ctvars
<1>3. CASE ReadEvent
  <2>1. hci \in 1 .. 5 /\ UNCHANGED <<chip, scripts>>
    BY <1>3 DEF ReadEvent, ToolInv, ToolTyped
  <2>2. UNCHANGED <<ct, code>> \/ code' = 0 \/ code' = hci + 2
    BY <1>3 DEF ReadEvent, ExitWith, ctvars
  <2>. QED
    BY <2>1, <2>2
<1>4. CASE NextScript
  BY <1>4, ScriptsAssumption DEF NextScript, PowerUp
<1>5. CASE (Test \/ UserTouches) /\ UNCHANGED hvars
  <2>1. UNCHANGED <<chip, code, scripts>>
    BY <1>5 DEF hvars
  <2>2. ct = "off" => ct' = "off"
    BY <1>5 DEF Test, UserTouches, Prepare, Open, Select, Judge, Selected, TouchElsewhere,
       NoTouchYet, NoLogYet, Touch, UnderWay
  <2>. QED
    BY <2>1, <2>2
<1>6. CASE UNCHANGED btvars
  BY <1>6 DEF btvars, ctvars, hvars
<1>. QED
  BY <1>1, <1>2, <1>3, <1>4, <1>5, <1>6 DEF BtNext, Tool

LEMMA BtStart == BtInit => CtInv /\ ToolInv /\ CtRoom /\ BtRoom
<1>. SUFFICES ASSUME BtInit PROVE CtInv /\ ToolInv /\ CtRoom /\ BtRoom
  OBVIOUS
<1>1. CtInv
  BY DEF BtInit, CtInit, CtInv, LogIsOurs, VerdictWasTouched, UnderWay, Buttons
<1>2. ToolInv
  BY ToolStart
<1>3. CtRoom
  BY ForkedAssumption DEF BtInit, CtInit, CtRoom, UnderWay
<1>4. BtRoom
  BY ScriptsAssumption DEF BtInit, CtInit, BtRoom
<1>. QED
  BY <1>1, <1>2, <1>3, <1>4

LEMMA BtRoomIsType == CtRoom /\ BtRoom /\ ToolInv => BtTypeOK
<1>. SUFFICES ASSUME CtRoom, BtRoom, ToolInv PROVE BtTypeOK
  OBVIOUS
<1>1. CtTypeOK
  BY ForkedAssumption DEF CtRoom, CtTypeOK
<1>2. ASSUME NEW i \in DOMAIN pending PROVE \E j \in DOMAIN Commands : pending[i] = Commands[j]
  <2>1. pending[i] \in CommandNames
    BY DEF ToolInv, ToolTyped
  <2>2. \A name \in CommandNames : \E j \in 1 .. 5 : name = Commands[j]
    BY DEF CommandNames, Commands
  <2>. QED
    BY <2>1, <2>2, CommandsAre
<1>3. hci \in 0 .. Len(Commands)
  BY CommandsAre DEF ToolInv, ToolTyped
<1>. QED
  BY <1>1, <1>2, <1>3 DEF BtRoom, BtTypeOK, UnderWay

\* test_bluetooth and the current test beside it: no more getevents than were forked,
\* no exit code but those of main.
THEOREM BtTypeCorrect == BtSpec => []BtTypeOK
BY ToolStep, BtStart, CtRoomNext, BtRoomNext, BtRoomIsType, PTL DEF BtSpec

\* No step but that of a select without a log says "select failed".
LEMMA UnselectedStep ==
  CtRoom /\ [BtNext]_btvars => [ct' = "unselected" /\ ct # "unselected" => forked > 0]_ctvars
<1>. SUFFICES ASSUME CtRoom, [BtNext]_btvars, ct' = "unselected", ct # "unselected"
              PROVE  forked > 0
  OBVIOUS
<1>1. ct' # ct /\ ct' \notin {"select", "prepare", "off", "work", "passed", "failed"}
  OBVIOUS
<1>2. ~(Ready \/ Lose \/ Answer \/ StartTool \/ Expired \/ UNCHANGED btvars)
  BY <1>1 DEF Ready, Lose, Answer, StartTool, Expired, btvars, ctvars
<1>3. ~ReadEvent /\ ~NextScript
  BY <1>1 DEF ReadEvent, ExitWith, NextScript, ctvars
<1>4. NoLogYet
  BY <1>1, <1>2, <1>3 DEF BtNext, Tool, Test, UserTouches, Prepare, Open, Select, Judge,
     TouchElsewhere, NoTouchYet, Touch
<1>. QED
  BY <1>4 DEF NoLogYet, Selected, CtRoom, UnderWay

\* The current test ends with "select failed" only in a race: the log it did not find is
\* one that a getevent, forked but not yet running, was about to open.
THEOREM UnselectedIsRaceCorrect == BtSpec => UnselectedIsRace
BY UnselectedStep, BtStart, CtRoomNext, PTL DEF BtSpec, UnselectedIsRace

---------------------------------------------------------------------------
(* Sensors: what a pass rests on, however many attempts, words and polls    *)
(* there are and whatever fails on the way.                                *)

\* What a verdict to come rests on, for each test.
Pah8001Inv == pah8001 /\ phase = "poweroff" => state = "on"

\* The buffer of test_current holds what was read last, or nothing was read yet.
CurrentInv == test = "current" => seen = {} \/ seen = {current_buff}

\* A supply other than the one seen last has changed, or a cat failed; test_charge.sh
\* passes at the first difference.
ChargeInv ==
  test = "charge" =>
    /\ phase # "passed" => count = 0
    /\ phase = "poll" /\ online # laststate => seen # {}

SensorsInv ==
  /\ test \in {"frizz", "assembly", "frame", "current", "charge"}
  /\ count \in Nat
  /\ Pah8001Inv /\ CurrentInv /\ ChargeInv /\ PassRestsOnReads

LEMMA SensorsStart == SensorsInit => SensorsInv
BY DEF SensorsInit, SensorsInv, Pah8001Inv, CurrentInv, ChargeInv, PassRestsOnReads, pah8001

\* test_frizz judges the words of the last attempt, and no others.
LEMMA FrizzStep ==
  ASSUME SensorsInv, frizz_test PROVE SensorsInv'
<1>1. /\ test = "frizz" /\ test' = "frizz" /\ raw_data' = seen' /\ count' = count
      /\ phase' = "passed" => raw_data' = 1 .. Words
  BY DEF frizz_test, Sample
<1>. QED
  BY <1>1 DEF SensorsInv, Pah8001Inv, CurrentInv, ChargeInv, PassRestsOnReads, pah8001

\* test_pah8001 passes only after FACTORY_TEST_END, and with enough good reads.
LEMMA Pah8001Step ==
  ASSUME SensorsInv, Pah8001Start \/ Pah8001Get \/ Pah8001End \/ poweroff PROVE SensorsInv'
<1>. USE DEF SensorsInv, Pah8001Inv, CurrentInv, ChargeInv, PassRestsOnReads, pah8001
<1>1. CASE Pah8001Start
  BY <1>1 DEF Pah8001Start
<1>2. CASE Pah8001Get
  <2>1. count' \in Nat
    <3>1. PICK good \in {0, 1} : count' = count + good \/ count' = count
      BY <1>2 DEF Pah8001Get
    <3>. QED
      BY <3>1
  <2>2. test' = test /\ pah8001 /\ phase' \in {"poll", "end", "error"}
    BY <1>2 DEF Pah8001Get
  <2>. QED
    BY <2>1, <2>2
<1>3. CASE Pah8001End
  BY <1>3 DEF Pah8001End
<1>4. CASE poweroff
  BY <1>4 DEF poweroff
<1>. QED
  BY <1>1, <1>2, <1>3, <1>4

\* A current is judged as soon as it is in the buffer.
LEMMA CurrentStep ==
  ASSUME SensorsInv, ReadCurrent PROVE SensorsInv'
<1>1. /\ test = "current" /\ test' = "current" /\ count' = count
      /\ \/ seen' = {current_buff'}
         \/ current_buff' = current_buff /\ seen' = seen
      /\ phase' = "passed" => current_buff' = "low"
  BY DEF ReadCurrent
<1>. QED
  BY <1>1 DEF SensorsInv, Pah8001Inv, CurrentInv, ChargeInv, PassRestsOnReads, pah8001

\* The supply that test_charge.sh compares with is one that was there, or a cat failed.
LEMMA ChargeStep ==
  ASSUME SensorsInv, Plug \/ LastState \/ PollCharge \/ PollFails PROVE SensorsInv'
<1>. USE DEF SensorsInv, Pah8001Inv, CurrentInv, ChargeInv, PassRestsOnReads, pah8001
<1>1. CASE Plug
  BY <1>1 DEF Plug
<1>2. CASE LastState
  <2>1. /\ test = "charge" /\ test' = test /\ phase = "start" /\ phase' = "poll"
        /\ count' = count /\ online' = online
    BY <1>2 DEF LastState
  <2>2. laststate' = online \/ seen' # {}
    BY <1>2 DEF LastState, Cat
  <2>. QED
    BY <2>1, <2>2
<1>3. CASE PollCharge
  <2>1. /\ test = "charge" /\ test' = test /\ phase = "poll" /\ online' = online
        /\ phase' # "passed" => count' <= 0
        /\ phase' \in {"passed", "poll", "failed"}
    BY <1>3 DEF PollCharge
  <2>2. count' \in Nat /\ count = 0
    BY <1>3, <2>1 DEF PollCharge
  <2>3. PICK read \in {0, 1} :
          /\ Cat(read) /\ laststate' = read
          /\ count' = IF read # laststate THEN count + 1 ELSE count
    BY <1>3 DEF PollCharge
  <2>4. (read = online /\ seen' = seen) \/ seen' # {}
    BY <2>3 DEF Cat
  <2>5. laststate' # online => seen' # {}
    BY <2>3, <2>4
  <2>6. phase' = "passed" => count' > 0
    BY <1>3 DEF PollCharge
  <2>7. phase' = "passed" => seen' # {}
    BY <2>1, <2>2, <2>3, <2>4, <2>6
  <2>. QED
    BY <2>1, <2>2, <2>5, <2>7
<1>4. CASE PollFails
  BY <1>4 DEF PollFails
<1>. QED
  BY <1>1, <1>2, <1>3, <1>4

LEMMA SensorsStep == SensorsInv /\ [SensorsNext]_sensorvars => SensorsInv'
<1>. SUFFICES ASSUME SensorsInv, [SensorsNext]_sensorvars PROVE SensorsInv'
  OBVIOUS
<1>1. CASE NoDevice \/ UNCHANGED sensorvars
  BY <1>1 DEF NoDevice, sensorvars, SensorsInv, Pah8001Inv, CurrentInv, ChargeInv,
     PassRestsOnReads, pah8001
<1>. QED
  BY <1>1, FrizzStep, Pah8001Step, CurrentStep, ChargeStep DEF SensorsNext

\* What a pass rests on, whatever failed on the way: the sample is one the hub delivered at
\* once, the good reads were enough and the factory test was ended, a change of the supply
\* that is counted took place during the polls or was an empty cat.
THEOREM PassRestsOnReadsCorrect == SensorsSpec => []PassRestsOnReads
<1>1. SensorsInv => PassRestsOnReads
  BY DEF SensorsInv
<1>. QED
  BY <1>1, SensorsStep, SensorsStart, PTL DEF SensorsSpec

\* A read of test_pah8001 is counted once at most, and test_charge.sh stops at a change.
SensorsRange ==
  /\ SensorsTypeOK
  /\ pah8001 => count <= polls /\ polls <= timeout + 1
  /\ pah8001 /\ phase \in {"start", "poll"} => polls <= timeout

LEMMA SensorsRangeStep ==
  ASSUME SensorsInv, SensorsRange, [SensorsNext]_sensorvars PROVE SensorsRange'
<1>. USE DEF SensorsRange, SensorsTypeOK, pah8001
<1>1. CASE NoDevice
  BY <1>1 DEF NoDevice
<1>2. CASE frizz_test
  <2>1. raw_data' \subseteq 1 .. Words /\ phase' \in {"poll", "passed", "failed"} /\ polls' = polls + 1
    BY <1>2 DEF frizz_test, Sample
  <2>. QED
    BY <1>2, <2>1 DEF frizz_test
<1>3. CASE Pah8001Start
  BY <1>3 DEF Pah8001Start
<1>4. CASE Pah8001Get
  <2>1. PICK good \in {0, 1} : count' = count + good \/ count' = count
    BY <1>4 DEF Pah8001Get
  <2>2. /\ polls <= timeout /\ polls' = polls + 1 /\ phase = "poll"
        /\ phase' \in {"poll", "end", "error"} /\ (phase' = "poll" => polls < timeout)
        /\ count' \in Nat /\ count' <= count + 1
    BY <1>4, <2>1 DEF Pah8001Get
  <2>3. /\ timeout \in Nat /\ count \in Nat /\ count <= polls /\ polls \in Nat
    BY <1>4, PollsAssumption DEF Pah8001Get
  <2>4. /\ polls' \in Nat /\ polls' <= timeout + 1 /\ count' <= polls'
        /\ count' \in 0 .. timeout + 1 /\ (phase' = "poll" => polls' <= timeout)
    BY ONLY <2>2, <2>3
  <2>. QED
    BY <1>4, <2>2, <2>4 DEF Pah8001Get
<1>5. CASE Pah8001End
  BY <1>5 DEF Pah8001End
<1>6. CASE poweroff
  BY <1>6 DEF poweroff
<1>7. CASE ReadCurrent
  <2>1. current_buff' \in Currents /\ phase' \in {"passed", "failed", "poll"}
    BY <1>7 DEF ReadCurrent
  <2>. QED
    BY <1>7, <2>1 DEF ReadCurrent
<1>8. CASE Plug
  BY <1>8 DEF Plug
<1>9. CASE LastState
  BY <1>9 DEF LastState
<1>10. CASE PollCharge
  <2>1. count = 0
    BY <1>10 DEF PollCharge, SensorsInv, ChargeInv
  <2>2. count' \in 0 .. timeout + 1
    BY <1>10, <2>1, PollsAssumption DEF PollCharge
  <2>. QED
    BY <1>10, <2>2 DEF PollCharge
<1>11. CASE PollFails
  BY <1>11 DEF PollFails
<1>12. CASE UNCHANGED sensorvars
  BY <1>12 DEF sensorvars
<1>. QED
  BY <1>1, <1>2, <1>3, <1>4, <1>5, <1>6, <1>7, <1>8, <1>9, <1>10, <1>11, <1>12 DEF SensorsNext

\* No poll was made yet.
LEMMA RangeStart == SensorsInit => SensorsRange
BY PollsAssumption DEF SensorsInit, SensorsRange, SensorsTypeOK, pah8001

\* Every poll ends within its budget: what is counted stays within the reads made.
THEOREM SensorsTypeCorrect == SensorsSpec => []SensorsTypeOK
<1>1. SensorsInv /\ [SensorsNext]_sensorvars => SensorsInv'
  BY SensorsStep
<1>2. SensorsInv /\ SensorsRange /\ [SensorsNext]_sensorvars => SensorsRange'
  BY SensorsRangeStep
<1>3. SensorsRange => SensorsTypeOK
  BY DEF SensorsRange
<1>. QED
  BY RangeStart, <1>1, <1>2, <1>3, SensorsStart, PTL DEF SensorsSpec

---------------------------------------------------------------------------
(* test_lcd: where the lines are not padded and no pan is refused, the       *)
(* screen shows whole pictures, for every size of the screen and of the      *)
(* squares.                                                                  *)

LEMMA ProductIs == \A a, b \in Nat : a * b \in Nat
OBVIOUS

LEMMA ProductGrows ==
  ASSUME NEW a \in Nat, NEW b \in Nat, NEW c \in Nat, a <= b PROVE a * c <= b * c
OBVIOUS

\* A row and a column are told from the word they share.
LEMMA SamePlace ==
  ASSUME NEW w \in Nat, NEW r \in Nat, NEW q \in Nat, NEW a \in 0 .. w - 1, NEW b \in 0 .. w - 1,
         r * w + a = q * w + b
  PROVE  r = q /\ a = b
OBVIOUS

LEMMA DivisionIs ==
  ASSUME NEW a \in Nat, NEW d \in Nat \ {0}
  PROVE  a = (a \div d) * d + (a % d) /\ a % d \in 0 .. d - 1 /\ a \div d \in Nat
OBVIOUS

LEMMA QuotientIs ==
  ASSUME NEW a \in Nat, NEW d \in Nat \ {0}, NEW q \in Nat, q * d <= a, a < q * d + d
  PROVE  a \div d = q
OBVIOUS

---------------------------------------------------------------------------
Columns == 0 .. xres - 1
Rows == 0 .. yres - 1

\* The two frame buffers.
Buffers == {0, 1}

\* The word that holds column x of line y of buffer b.
Place(b, x, y) == (b * yres + y) * xres + x
Cell(b, x, y) == memory[Place(b, x, y)]

\* What is left to be drawn of each picture, from its first stroke on; before the first,
\* of set_full_screen.
Plan(p) == IF p = 0 THEN <<Clear(1)>> ELSE Picture(p, id(p))

Strokes(p) == CASE p = 0 -> 1 [] p \in 1 .. 5 -> 1 [] p = 6 -> 3 [] p = 7 -> k * k + 2 [] p = 8 -> 0

\* The first n stripes on the black that was there.
StripeTo(n, y) ==
  IF n >= 1 /\ y < yres \div 3 THEN red
  ELSE IF n >= 2 /\ y >= yres \div 3 /\ y < 2 * (yres \div 3) THEN green
  ELSE IF n >= 3 /\ y >= (2 * yres) \div 3 /\ y < (2 * yres) \div 3 + yres \div 3 THEN blue
  ELSE black

\* The first n squares on black, line by line.
BoardTo(n, x, y) ==
  LET i == x \div (xres \div k)
      j == y \div (yres \div k)
  IN  IF i < k /\ j < k /\ j * k + i < n /\ (i + j) % 2 = 0 THEN white ELSE black

Filled(b, color) == \A x \in Columns, y \in Rows : Cell(b, x, y) = color
Striped(n) == \A x \in Columns, y \in Rows : Cell(0, x, y) = StripeTo(n, y)
Boarded(n) == \A x \in Columns, y \in Rows : Cell(1, x, y) = BoardTo(n, x, y)

\* What both buffers hold, while the strokes are made.
Drawn ==
  /\ picture \in {0, 1} => Filled(0, left)
  /\ picture \in 2 .. 6 => Filled(id(picture - 1), picture - 1)
  /\ picture \in 1 .. 5 /\ Len(strokes) = 0 => Filled(id(picture), picture)
  /\ picture = 6 => Striped(3 - Len(strokes))
  /\ picture = 7 /\ Len(strokes) = k * k + 2 => Striped(3)
  /\ picture = 7 /\ Len(strokes) <= k * k + 1 => Filled(0, black)
  /\ picture = 7 /\ Len(strokes) <= k * k => Boarded(k * k - Len(strokes))
  /\ picture = 8 => Boarded(k * k)

Panned == yoffset = IF picture = 0 THEN 0 ELSE id(picture - 1) * yres

Colours == 1 .. 6
Blocks == [loc : Nat, w : Nat, h : Nat, color : Colours]
Showing == lcd = "running" \/ picture = 8

LcdTyped ==
  /\ stride \in Nat /\ stride >= xres /\ smem_len \in Nat
  /\ yoffset \in {0, yres} /\ refused \in {"no", "yes"}
  /\ picture \in 0 .. 8 /\ lcd \in {"start", "running", "passed", "failed"}
  /\ strokes \in Seq(Blocks) /\ buffercount = IF picture = 8 THEN 7 ELSE picture
  /\ Showing => memory \in [0 .. smem_len - 1 -> Colours]
  /\ ~Showing => strokes = <<>> /\ picture = 0
  /\ lcd = "start" => picture = 0

PlanInv ==
  Showing =>
    /\ Len(strokes) <= Strokes(picture)
    /\ \A i \in 1 .. Len(strokes) :
         strokes[i] = Plan(picture)[Strokes(picture) - Len(strokes) + i]

LcdInv == LcdTyped /\ PlanInv /\ (Showing /\ Faithful => Panned /\ Drawn)

---------------------------------------------------------------------------
LEMMA SizesAre ==
  /\ xres \in Nat /\ yres \in Nat /\ k \in Nat \ {0} /\ xres > 0 /\ yres > 0
  /\ k <= xres /\ k <= yres
BY SizesAssumption

LEMMA PlaceIn ==
  ASSUME NEW b \in Buffers, NEW x \in Columns, NEW y \in Rows
  PROVE  Place(b, x, y) \in 0 .. 2 * yres * xres - 1
<1>. DEFINE r == b * yres + y
            total == 2 * yres
<1>1. r \in Nat /\ total \in Nat /\ r + 1 <= total /\ x \in Nat /\ x < xres /\ xres \in Nat
  BY SizesAre DEF Buffers, Columns, Rows
<1>. HIDE DEF r, total
<1>2. (r + 1) * xres <= total * xres /\ (r + 1) * xres = r * xres + xres
  BY <1>1, ProductGrows
<1>3. r * xres \in Nat /\ total * xres \in Nat
  BY <1>1, ProductIs
<1>4. r * xres + x \in 0 .. total * xres - 1
  BY <1>1, <1>2, <1>3
<1>. QED
  BY <1>4 DEF Place, r, total

\* A block within the lines of one buffer covers what lies in its columns and its rows.
LEMMA BlockCovers ==
  ASSUME stride = xres,
         NEW b \in Buffers, NEW x \in Columns, NEW y \in Rows,
         NEW c \in Buffers, NEW x0 \in Nat, NEW y0 \in Nat, NEW w \in Nat, NEW h \in Nat,
         x0 + w <= xres, y0 + h <= yres, NEW color
  PROVE  Covers(Block(Place(c, x0, y0), w, h, color), Place(b, x, y))
           <=> b = c /\ x0 <= x /\ x < x0 + w /\ y0 <= y /\ y < y0 + h
<1>. DEFINE r == b * yres + y
            q == c * yres + y0
<1>1. /\ x \in Nat /\ x < xres /\ xres \in Nat /\ y \in Nat /\ y < yres /\ yres \in Nat
      /\ b \in {0, 1} /\ c \in {0, 1} /\ r \in Nat /\ q \in Nat
  BY SizesAre DEF Buffers, Columns, Rows
<1>2. Covers(Block(Place(c, x0, y0), w, h, color), Place(b, x, y))
        <=> \E i \in 0 .. w - 1, j \in 0 .. h - 1 : r * xres + x = q * xres + x0 + i + j * xres
  BY DEF Covers, Block, Place
<1>3. ASSUME NEW i \in 0 .. w - 1, NEW j \in 0 .. h - 1,
             r * xres + x = q * xres + x0 + i + j * xres
      PROVE  b = c /\ x0 <= x /\ x < x0 + w /\ y0 <= y /\ y < y0 + h
  <2>. HIDE DEF r, q
  <2>1. (q + j) * xres = q * xres + j * xres /\ q * xres \in Nat /\ j * xres \in Nat /\ r * xres \in Nat
    BY <1>1, ProductIs
  <2>2. r * xres + x = (q + j) * xres + (x0 + i)
    BY <1>1, <1>3, <2>1
  <2>3. q + j \in Nat /\ x0 + i \in 0 .. xres - 1 /\ x \in 0 .. xres - 1
    BY <1>1
  <2>4. r = q + j /\ x = x0 + i
    BY <1>1, <2>2, <2>3, SamePlace
  <2>5. b * yres + y = c * yres + (y0 + j) /\ y \in 0 .. yres - 1 /\ y0 + j \in 0 .. yres - 1
    BY <1>1, <2>4 DEF r, q
  <2>6. b = c /\ y = y0 + j
    BY <1>1, <2>5, SamePlace
  <2>. QED
    BY <1>1, <2>4, <2>6
<1>4. ASSUME b = c, x0 <= x, x < x0 + w, y0 <= y, y < y0 + h
      PROVE  \E i \in 0 .. w - 1, j \in 0 .. h - 1 : r * xres + x = q * xres + x0 + i + j * xres
  <2>. DEFINE i == x - x0
              j == y - y0
  <2>1. i \in 0 .. w - 1 /\ j \in 0 .. h - 1 /\ r = q + j /\ x = x0 + i
    BY <1>1, <1>4
  <2>. HIDE DEF r, q, i, j
  <2>2. (q + j) * xres = q * xres + j * xres /\ q * xres \in Nat /\ j * xres \in Nat
    BY <1>1, <2>1, ProductIs
  <2>3. r * xres + x = q * xres + x0 + i + j * xres
    BY <1>1, <2>1, <2>2
  <2>. QED
    BY <2>1, <2>3
<1>. QED
  BY <1>2, <1>3, <1>4

\* clear_screen covers all of its buffer, and nothing else.
LEMMA ClearCovers ==
  ASSUME stride = xres, NEW b \in Buffers, NEW x \in Columns, NEW y \in Rows, NEW c \in Buffers
  PROVE  Covers(Clear(c), Place(b, x, y)) <=> b = c
<1>. DEFINE size == yres * xres
            line == y * xres
<1>1. /\ x \in Nat /\ x < xres /\ xres \in Nat /\ y \in Nat /\ y < yres /\ yres \in Nat
      /\ b \in {0, 1} /\ c \in {0, 1}
  BY SizesAre DEF Buffers, Columns, Rows
<1>2. size \in Nat /\ line \in Nat /\ line + x < size
  <2>1. (y + 1) * xres <= size /\ (y + 1) * xres = line + xres
    BY <1>1, ProductGrows
  <2>2. size \in Nat /\ line \in Nat
    BY <1>1, ProductIs
  <2>. HIDE DEF size, line
  <2>. QED
    BY <1>1, <2>1, <2>2
<1>3. Place(b, x, y) = b * size + line + x /\ data(c) = c * size /\ xres * yres = size
  BY <1>1 DEF Place, data
<1>4. Covers(Clear(c), Place(b, x, y))
        <=> \E i \in 0 .. size - 1 : b * size + line + x = c * size + i
  <2>1. Covers(Clear(c), Place(b, x, y))
          <=> \E i \in 0 .. size - 1, j \in 0 .. 0 :
                b * size + line + x = c * size + i + j * stride
    BY <1>3 DEF Covers, Clear, Block
  <2>. HIDE DEF size, line
  <2>. QED
    BY <1>1, <1>2, <2>1
<1>. HIDE DEF size, line
<1>. QED
  BY <1>1, <1>2, <1>4

---------------------------------------------------------------------------
(* The strokes of each picture *)

\* The blocks, by the place where they begin.
LEMMA BlocksAre ==
  ASSUME NEW n \in Nat, NEW m \in Nat
  PROVE  data(n) = Place(n, 0, 0) /\ data(n) + m * xres = Place(n, 0, m)
<1>. DEFINE r == n * yres
<1>1. r \in Nat /\ xres \in Nat
  BY SizesAre
<1>. HIDE DEF r
<1>2. (r + m) * xres = r * xres + m * xres /\ r * xres \in Nat /\ m * xres \in Nat
  BY <1>1, ProductIs
<1>3. (r + 0) * xres + 0 = r * xres
  BY <1>1, <1>2
<1>. QED
  BY <1>2, <1>3 DEF data, Place, r

LEMMA SquaresFit ==
  /\ xres \div k \in Nat \ {0} /\ yres \div k \in Nat \ {0}
  /\ k * (xres \div k) <= xres /\ k * (yres \div k) <= yres
<1>1. \A n \in Nat : n >= k => n \div k \in Nat \ {0} /\ k * (n \div k) <= n
  <2>. SUFFICES ASSUME NEW n \in Nat, n >= k PROVE n \div k \in Nat \ {0} /\ k * (n \div k) <= n
    OBVIOUS
  <2>1. k \in Nat \ {0}
    BY SizesAre
  <2>2. n = (n \div k) * k + (n % k) /\ n % k \in 0 .. k - 1 /\ n \div k \in Nat
    BY <2>1, DivisionIs
  <2>. DEFINE q == n \div k
  <2>3. (n \div k) * k = k * q
    BY <2>1, <2>2
  <2>4. q = 0 => k * q = 0
    BY <2>1
  <2>. QED
    BY <2>1, <2>2, <2>3, <2>4
<1>. QED
  BY <1>1, SizesAre

\* Column i and row j of the squares.
LEMMA SquareIs ==
  ASSUME NEW i \in 0 .. k - 1, NEW j \in 0 .. k - 1
  PROVE  LET w == xres \div k
             h == yres \div k
         IN  /\ Square(i, j, 1) = Block(Place(1, i * w, j * h), w, h,
                                        IF (i + j) % 2 = 0 THEN white ELSE black)
             /\ i * w \in Nat /\ j * h \in Nat /\ i * w + w <= xres /\ j * h + h <= yres
<1>. DEFINE w == xres \div k
            h == yres \div k
<1>1. /\ w \in Nat /\ h \in Nat /\ k \in Nat /\ k * w <= xres /\ k * h <= yres
      /\ xres \in Nat /\ yres \in Nat
  BY SquaresFit, SizesAre
<1>. HIDE DEF w, h
<1>2. i \in Nat /\ j \in Nat /\ i + 1 <= k /\ j + 1 <= k
  BY <1>1
<1>3. data(1) + xres * (j * h) + i * w = Place(1, i * w, j * h)
  <2>. DEFINE m == j * h
              c == i * w
  <2>1. m \in Nat /\ c \in Nat
    BY <1>1, <1>2, ProductIs
  <2>. HIDE DEF m, c
  <2>2. (1 * yres + m) * xres = 1 * yres * xres + xres * m
    BY ONLY <1>1, <2>1
  <2>3. data(1) + xres * m + c = Place(1, c, m)
    BY <2>2 DEF data, Place
  <2>. QED
    BY <2>3 DEF m, c
<1>4. ASSUME NEW a \in Nat, a + 1 <= k, NEW b \in Nat, NEW n \in Nat, k * b <= n
      PROVE  a * b \in Nat /\ a * b + b <= n
  <2>1. (a + 1) * b <= k * b /\ (a + 1) * b = a * b + b
    BY <1>1, <1>4, ProductGrows
  <2>2. a * b \in Nat /\ k * b \in Nat
    BY <1>1, <1>4, ProductIs
  <2>. QED
    BY <1>4, <2>1, <2>2
<1>5. i * w \in Nat /\ j * h \in Nat /\ i * w + w <= xres /\ j * h + h <= yres
  BY <1>1, <1>2, <1>4
<1>6. Square(i, j, 1) = Block(Place(1, i * w, j * h), w, h,
                              IF (i + j) % 2 = 0 THEN white ELSE black)
  BY <1>3 DEF Square, w, h
<1>. QED
  BY <1>5, <1>6 DEF w, h

\* A square covers the places of its column and its row.
LEMMA SquareCovers ==
  ASSUME stride = xres, NEW b \in Buffers, NEW x \in Columns, NEW y \in Rows,
         NEW i \in 0 .. k - 1, NEW j \in 0 .. k - 1
  PROVE  Covers(Square(i, j, 1), Place(b, x, y))
           <=> b = 1 /\ x \div (xres \div k) = i /\ y \div (yres \div k) = j
<1>. DEFINE w == xres \div k
            h == yres \div k
<1>1. /\ w \in Nat \ {0} /\ h \in Nat \ {0} /\ i \in Nat /\ j \in Nat
      /\ x \in Nat /\ y \in Nat /\ 1 \in Buffers
  BY SquaresFit, SizesAre DEF Columns, Rows, Buffers
<1>2. /\ Square(i, j, 1) = Block(Place(1, i * w, j * h), w, h,
                                 IF (i + j) % 2 = 0 THEN white ELSE black)
      /\ i * w \in Nat /\ j * h \in Nat /\ i * w + w <= xres /\ j * h + h <= yres
  BY SquareIs
<1>. HIDE DEF w, h
<1>3. Covers(Square(i, j, 1), Place(b, x, y))
        <=> b = 1 /\ i * w <= x /\ x < i * w + w /\ j * h <= y /\ y < j * h + h
  BY <1>1, <1>2, BlockCovers, SMTT(60)
<1>4. ASSUME NEW a \in Nat, NEW q \in Nat, NEW d \in Nat \ {0}
      PROVE  (q * d <= a /\ a < q * d + d) <=> a \div d = q
  <2>1. a = (a \div d) * d + (a % d) /\ a % d \in 0 .. d - 1 /\ a \div d \in Nat
    BY DivisionIs
  <2>2. a \div d = q => q * d <= a /\ a < q * d + d
    <3>1. q * d \in Nat
      BY ProductIs
    <3>. QED
      BY <2>1, <3>1
  <2>. QED
    BY <2>2, QuotientIs
<1>. QED
  BY <1>1, <1>3, <1>4, ZenonT(60) DEF w, h

LEMMA IdIs ==
  ASSUME NEW p \in 1 .. 8
  PROVE  /\ id(p) \in Buffers /\ id(p - 1) \in Buffers /\ id(p) # id(p - 1)
         /\ id(0) = 0 /\ id(1) = 1 /\ id(5) = 1 /\ id(6) = 0 /\ id(7) = 1
BY DEF id, Buffers

\* A stroke changes what it covers.
LEMMA StrokePaints ==
  ASSUME LcdInv, Faithful, framebuffer_set_color
  PROVE  \A b \in Buffers, x \in Columns, y \in Rows :
           memory'[Place(b, x, y)] = IF Covers(Head(strokes), Place(b, x, y))
                                     THEN Head(strokes).color ELSE Cell(b, x, y)
<1>1. /\ memory \in [0 .. smem_len - 1 -> Colours] /\ smem_len \in Nat
      /\ smem_len >= 2 * yres * xres
  BY DEF LcdInv, LcdTyped, Faithful, TwoBuffers, Showing, framebuffer_set_color
<1>. SUFFICES ASSUME NEW b \in Buffers, NEW x \in Columns, NEW y \in Rows
              PROVE  memory'[Place(b, x, y)] = IF Covers(Head(strokes), Place(b, x, y))
                                               THEN Head(strokes).color ELSE Cell(b, x, y)
  OBVIOUS
<1>2. Place(b, x, y) \in DOMAIN memory
  <2>. DEFINE place == Place(b, x, y)
              all == 2 * yres * xres
  <2>1. place \in 0 .. all - 1 /\ all \in Nat
    BY PlaceIn, SizesAre, ProductIs
  <2>. HIDE DEF place, all
  <2>2. place \in 0 .. smem_len - 1
    BY <1>1, <2>1 DEF all
  <2>. QED
    BY <1>1, <2>2 DEF place
<1>. QED
  BY <1>2 DEF framebuffer_set_color, Cell

\* The next stroke is the one the plan has next.
LEMMA StrokeIsPlanned ==
  ASSUME LcdInv, framebuffer_set_color
  PROVE  /\ Len(strokes) \in Nat \ {0} /\ Len(strokes) <= Strokes(picture)
         /\ Head(strokes) = Plan(picture)[Strokes(picture) - Len(strokes) + 1]
         /\ Len(strokes') = Len(strokes) - 1 /\ picture' = picture
         /\ picture \in 0 .. 7 /\ Head(strokes) \in Blocks
<1>1. strokes \in Seq(Blocks) /\ strokes # <<>>
  BY DEF LcdInv, LcdTyped, framebuffer_set_color
<1>2. /\ Len(strokes) \in Nat \ {0} /\ Head(strokes) = strokes[1] /\ Head(strokes) \in Blocks
      /\ Len(Tail(strokes)) = Len(strokes) - 1
  BY <1>1
<1>3. /\ Len(strokes) <= Strokes(picture)
      /\ \A i \in 1 .. Len(strokes) :
           strokes[i] = Plan(picture)[Strokes(picture) - Len(strokes) + i]
  BY DEF LcdInv, PlanInv, Showing, framebuffer_set_color
<1>4. picture \in 0 .. 8
  BY DEF LcdInv, LcdTyped
<1>5. picture # 8
  BY <1>2, <1>3 DEF Strokes
<1>. QED
  BY <1>2, <1>3, <1>4, <1>5 DEF framebuffer_set_color

\* Before the first picture, set_full_screen clears the buffer that is not shown.
LEMMA ClearsTheOther ==
  ASSUME LcdInv, Faithful, Drawn, framebuffer_set_color, picture = 0
  PROVE  Drawn'
<1>1. Head(strokes) = Clear(1)
  <2>1. Strokes(picture) = 1 /\ Plan(picture) = <<Clear(1)>>
    BY DEF Strokes, Plan
  <2>2. Len(strokes) = 1
    BY <2>1, StrokeIsPlanned
  <2>. QED
    BY <2>1, <2>2, StrokeIsPlanned
<1>2. stride = xres /\ 0 \in Buffers /\ 1 \in Buffers
  BY DEF Faithful, TwoBuffers, Buffers
<1>3. \A x \in Columns, y \in Rows : memory'[Place(0, x, y)] = left
  BY <1>1, <1>2, StrokePaints, ClearCovers DEF Drawn, Filled
<1>4. picture' = 0
  BY StrokeIsPlanned
<1>. QED
  BY <1>3, <1>4 DEF Drawn, Filled, Cell

\* A colour fills one buffer and leaves the other, which is shown.
LEMMA FillsOne ==
  ASSUME LcdInv, Faithful, Drawn, framebuffer_set_color, picture \in 1 .. 5
  PROVE  Drawn'
<1>. DEFINE n == id(picture)
            m == id(picture - 1)
<1>1. n \in Buffers /\ m \in Buffers /\ n # m /\ n \in Nat
  BY IdIs DEF Buffers
<1>2. Head(strokes) = Block(Place(n, 0, 0), xres, yres, picture)
  <2>1. Strokes(picture) = 1 /\ Plan(picture) = <<Block(data(n), xres, yres, picture)>>
    BY DEF Strokes, Plan, Picture, FillColor
  <2>2. Len(strokes) = 1
    BY <2>1, StrokeIsPlanned
  <2>3. data(n) = Place(n, 0, 0)
    BY <1>1, BlocksAre
  <2>. QED
    BY <2>1, <2>2, <2>3, StrokeIsPlanned
<1>. HIDE DEF n, m
<1>3. ASSUME NEW b \in Buffers, NEW x \in Columns, NEW y \in Rows
      PROVE  Covers(Head(strokes), Place(b, x, y)) <=> b = n
  <2>1. /\ stride = xres /\ xres \in Nat /\ yres \in Nat /\ x \in Nat /\ y \in Nat
        /\ x < 0 + xres /\ y < 0 + yres /\ 0 <= x /\ 0 <= y /\ 0 + xres <= xres /\ 0 + yres <= yres
    BY SizesAre DEF Faithful, TwoBuffers, Columns, Rows
  <2>2. Covers(Block(Place(n, 0, 0), xres, yres, picture), Place(b, x, y))
          <=> b = n /\ 0 <= x /\ x < 0 + xres /\ 0 <= y /\ y < 0 + yres
    BY <1>1, <2>1, BlockCovers
  <2>. QED
    BY <1>2, <2>1, <2>2
<1>4. Head(strokes).color = picture
  BY <1>2 DEF Block
<1>5. \A x \in Columns, y \in Rows : /\ memory'[Place(n, x, y)] = picture
                                     /\ memory'[Place(m, x, y)] = Cell(m, x, y)
  BY <1>1, <1>3, <1>4, StrokePaints
<1>6. picture' = picture
  BY StrokeIsPlanned
<1>7. picture \in 2 .. 5 => \A x \in Columns, y \in Rows : memory'[Place(m, x, y)] = picture - 1
  BY <1>5 DEF Drawn, Filled, m
<1>8. picture = 1 => \A x \in Columns, y \in Rows : memory'[Place(0, x, y)] = left
  BY <1>5 DEF Drawn, Filled, m, id
<1>. QED
  BY <1>5, <1>6, <1>7, <1>8 DEF Drawn, Filled, Cell, n, m

LEMMA ThirdsFit ==
  /\ yres \div 3 \in Nat /\ (2 * yres) \div 3 \in Nat
  /\ 2 * (yres \div 3) <= (2 * yres) \div 3
  /\ (2 * yres) \div 3 + yres \div 3 <= yres
<1>1. \A n \in Nat : /\ n \div 3 \in Nat /\ (2 * n) \div 3 \in Nat
                     /\ 2 * (n \div 3) <= (2 * n) \div 3
                     /\ (2 * n) \div 3 + n \div 3 <= n
  OBVIOUS
<1>. QED
  BY <1>1, SizesAre

\* A stripe covers its lines.
LEMMA StripeCovers ==
  ASSUME stride = xres, NEW b \in Buffers, NEW x \in Columns, NEW y \in Rows,
         NEW m \in Nat, NEW h \in Nat, m + h <= yres, NEW color
  PROVE  Covers(Block(data(0) + m * xres, xres, h, color), Place(b, x, y))
           <=> b = 0 /\ m <= y /\ y < m + h
<1>1. /\ xres \in Nat /\ 0 \in Buffers /\ 0 \in Nat /\ x \in Nat /\ x < 0 + xres /\ 0 <= x
      /\ 0 + xres <= xres
  BY SizesAre DEF Buffers, Columns
<1>2. data(0) + m * xres = Place(0, 0, m)
  BY <1>1, BlocksAre
<1>3. Covers(Block(Place(0, 0, m), xres, h, color), Place(b, x, y))
        <=> b = 0 /\ 0 <= x /\ x < 0 + xres /\ m <= y /\ y < m + h
  BY <1>1, BlockCovers
<1>. QED
  BY <1>1, <1>2, <1>3

\* The stripes, one after the other.
LEMMA DrawsStripes ==
  ASSUME LcdInv, Faithful, Drawn, framebuffer_set_color, picture = 6
  PROVE  Drawn'
<1>. DEFINE h == yres \div 3
            t == (2 * yres) \div 3
            l == Len(strokes)
            B(m, color) == Block(data(0) + m * xres, xres, h, color)
<1>1. h \in Nat /\ t \in Nat /\ 2 * h <= t /\ t + h <= yres /\ yres \in Nat
  BY ThirdsFit, SizesAre
<1>2. l \in 1 .. 3 /\ Head(strokes) = Stripes(0)[4 - l]
  <2>1. Strokes(picture) = 3 /\ Plan(picture) = Stripes(0)
    BY DEF Strokes, Plan, Picture, id
  <2>2. l \in Nat \ {0} /\ l <= 3 /\ Head(strokes) = Stripes(0)[3 - l + 1]
    BY <2>1, StrokeIsPlanned
  <2>. HIDE DEF l
  <2>3. l \in 1 .. 3 /\ 3 - l + 1 = 4 - l
    BY <2>2
  <2>. QED
    BY <2>2, <2>3, Zenon
<1>3. /\ l = 3 => Head(strokes) = Block(data(0), xres, h, red)
      /\ l = 2 => Head(strokes) = B(h, green)
      /\ l = 1 => Head(strokes) = B(t, blue)
  <2>1. /\ Stripes(0)[1] = Block(data(0), xres, h, red)
        /\ Stripes(0)[2] = B(h, green)
        /\ Stripes(0)[3] = B(t, blue)
    BY DEF Stripes
  <2>. HIDE DEF l
  <2>2. (l = 3 => 4 - l = 1) /\ (l = 2 => 4 - l = 2) /\ (l = 1 => 4 - l = 3)
    OBVIOUS
  <2>. QED
    BY <1>2, <2>1, <2>2, Zenon
<1>4. B(0, red) = Block(data(0), xres, h, red)
  <2>1. 0 * xres = 0 /\ data(0) = 0
    BY SizesAre DEF data
  <2>. QED
    BY <2>1
<1>5. Len(strokes') = l - 1 /\ picture' = 6
  BY StrokeIsPlanned
<1>6. \A x \in Columns, y \in Rows : Cell(0, x, y) = StripeTo(3 - l, y) /\ Cell(1, x, y) = 5
  BY DEF Drawn, Striped, Filled, id
<1>7. stride = xres /\ 0 \in Buffers /\ 1 \in Buffers
  BY DEF Faithful, TwoBuffers, Buffers
<1>8. ASSUME NEW m \in Nat, m + h <= yres, NEW color, Head(strokes) = B(m, color),
             NEW x \in Columns, NEW y \in Rows
      PROVE  /\ memory'[Place(0, x, y)] =
                  IF m <= y /\ y < m + h THEN color ELSE StripeTo(3 - l, y)
             /\ memory'[Place(1, x, y)] = 5
  <2>1. Head(strokes).color = color
    BY <1>8 DEF Block
  <2>2. \A b \in Buffers : Covers(Head(strokes), Place(b, x, y)) <=> b = 0 /\ m <= y /\ y < m + h
    BY <1>1, <1>7, <1>8, StripeCovers
  <2>. QED
    BY <1>6, <1>7, <2>1, <2>2, StrokePaints
<1>9. \A x \in Columns, y \in Rows : /\ memory'[Place(0, x, y)] = StripeTo(4 - l, y)
                                     /\ memory'[Place(1, x, y)] = 5
  <2>. SUFFICES ASSUME NEW x \in Columns, NEW y \in Rows
                PROVE  /\ memory'[Place(0, x, y)] = StripeTo(4 - l, y)
                       /\ memory'[Place(1, x, y)] = 5
    OBVIOUS
  <2>. y \in Nat
    BY <1>1 DEF Rows
  <2>1. CASE l = 3
    <3>1. /\ memory'[Place(0, x, y)] = IF 0 <= y /\ y < 0 + h THEN red ELSE StripeTo(3 - l, y)
          /\ memory'[Place(1, x, y)] = 5
      BY <1>1, <1>3, <1>4, <1>8, <2>1
    <3>. QED
      BY <1>1, <2>1, <3>1 DEF StripeTo
  <2>2. CASE l = 2
    <3>1. /\ memory'[Place(0, x, y)] = IF h <= y /\ y < h + h THEN green ELSE StripeTo(3 - l, y)
          /\ memory'[Place(1, x, y)] = 5
      BY <1>1, <1>3, <1>8, <2>2
    <3>. QED
      BY <1>1, <2>2, <3>1 DEF StripeTo
  <2>3. CASE l = 1
    <3>1. /\ memory'[Place(0, x, y)] = IF t <= y /\ y < t + h THEN blue ELSE StripeTo(3 - l, y)
          /\ memory'[Place(1, x, y)] = 5
      BY <1>1, <1>3, <1>8, <2>3
    <3>. QED
      BY <1>1, <2>3, <3>1 DEF StripeTo
  <2>. QED
    BY <1>2, <2>1, <2>2, <2>3
<1>10. 3 - Len(strokes') = 4 - l /\ id(6 - 1) = 1
  BY <1>2, <1>5 DEF id
<1>. QED
  BY <1>5, <1>9, <1>10 DEF Drawn, Filled, Striped, StripeTo, Cell

\* Two clears, then the squares.
LEMMA SquaresAre ==
  /\ k * k \in Nat \ {0} /\ Len(Squares(1)) = k * k + 2
  /\ Squares(1)[1] = Clear(0) /\ Squares(1)[2] = Clear(1)
  /\ \A s \in 1 .. k * k : Squares(1)[s + 2] = Square((s - 1) % k, (s - 1) \div k, 1)
<1>. DEFINE two == <<Clear(0), Clear(1)>>
            S(s) == Square((s - 1) % k, (s - 1) \div k, 1)
            kk == k * k
            rest == [s \in 1 .. kk |-> S(s)]
<1>1. kk \in Nat \ {0}
  BY SizesAre
<1>2. Squares(1) = two \o rest
  BY DEF Squares
<1>. HIDE DEF kk, S
<1>3. rest \in Seq({S(s) : s \in 1 .. kk}) /\ Len(rest) = kk /\ \A s \in 1 .. kk : rest[s] = S(s)
  BY <1>1
<1>4. two \in Seq({Clear(0), Clear(1)}) /\ Len(two) = 2 /\ two[1] = Clear(0) /\ two[2] = Clear(1)
  OBVIOUS
<1>. HIDE DEF two, rest
<1>5. /\ Len(two \o rest) = kk + 2 /\ (two \o rest)[1] = Clear(0) /\ (two \o rest)[2] = Clear(1)
      /\ \A s \in 1 .. kk : (two \o rest)[s + 2] = S(s)
  <2>. DEFINE U == {Clear(0), Clear(1)} \cup {S(s) : s \in 1 .. kk}
  <2>1. two \in Seq(U) /\ rest \in Seq(U)
    BY <1>3, <1>4
  <2>. HIDE DEF U
  <2>2. /\ Len(two \o rest) = Len(two) + Len(rest)
        /\ \A i \in 1 .. Len(two) + Len(rest) :
             (two \o rest)[i] = IF i <= Len(two) THEN two[i] ELSE rest[i - Len(two)]
    BY <2>1
  <2>. QED
    BY <1>1, <1>3, <1>4, <2>2
<1>. QED
  BY <1>1, <1>2, <1>5 DEF kk, S

\* The word of the s-th square.
LEMMA SquareOf ==
  ASSUME NEW s \in 1 .. k * k
  PROVE  /\ (s - 1) % k \in 0 .. k - 1 /\ (s - 1) \div k \in 0 .. k - 1
         /\ s - 1 = ((s - 1) \div k) * k + ((s - 1) % k)
<1>1. k \in Nat \ {0} /\ k * k \in Nat
  BY SizesAre
<1>. DEFINE n == s - 1
            q == n \div k
            r == n % k
<1>2. n \in Nat /\ n < k * k
  BY <1>1
<1>. HIDE DEF n
<1>3. n = q * k + r /\ r \in 0 .. k - 1 /\ q \in Nat
  BY <1>1, <1>2, DivisionIs
<1>. HIDE DEF q, r
<1>4. q < k
  <2>. SUFFICES ASSUME k <= q PROVE FALSE
    BY <1>1, <1>3
  <2>1. k * k <= q * k /\ q * k \in Nat
    BY <1>1, <1>3, ProductGrows, ProductIs
  <2>. QED
    BY <1>1, <1>2, <1>3, <2>1
<1>. QED
  BY <1>1, <1>3, <1>4 DEF n, q, r

\* The board has one square more.
LEMMA BoardGrows ==
  ASSUME NEW s \in 1 .. k * k, NEW x \in Columns, NEW y \in Rows
  PROVE  LET i == (s - 1) % k
             j == (s - 1) \div k
         IN  BoardTo(s, x, y) =
               IF x \div (xres \div k) = i /\ y \div (yres \div k) = j
               THEN IF (i + j) % 2 = 0 THEN white ELSE black
               ELSE BoardTo(s - 1, x, y)
<1>. DEFINE i == (s - 1) % k
            j == (s - 1) \div k
            a == x \div (xres \div k)
            b == y \div (yres \div k)
<1>1. /\ i \in 0 .. k - 1 /\ j \in 0 .. k - 1 /\ s - 1 = j * k + i
      /\ s - 1 \in Nat /\ s \in Nat /\ k \in Nat
  BY SquareOf, SizesAre
<1>2. a \in Nat /\ b \in Nat
  <2>1. /\ x \in Nat /\ y \in Nat /\ xres \div k \in Nat \ {0} /\ yres \div k \in Nat \ {0}
    BY SquaresFit, SizesAre DEF Columns, Rows
  <2>. QED
    BY <2>1, DivisionIs
<1>3. /\ BoardTo(s, x, y) =
           IF a < k /\ b < k /\ b * k + a < s /\ (a + b) % 2 = 0 THEN white ELSE black
      /\ BoardTo(s - 1, x, y) =
           IF a < k /\ b < k /\ b * k + a < s - 1 /\ (a + b) % 2 = 0 THEN white ELSE black
  BY DEF BoardTo
<1>. HIDE DEF i, j, a, b
<1>4. CASE a = i /\ b = j
  <2>1. a < k /\ b < k /\ b * k + a < s
    BY <1>1, <1>4
  <2>. QED
    BY <1>3, <1>4, <2>1 DEF i, j, a, b
<1>5. CASE ~(a = i /\ b = j)
  <2>1. ASSUME a < k, b < k PROVE b * k + a # s - 1
    <3>1. a \in 0 .. k - 1 /\ b \in Nat /\ i \in 0 .. k - 1 /\ j \in Nat
      BY <1>1, <1>2, <2>1
    <3>2. b * k + a = j * k + i => b = j /\ a = i
      BY <1>1, <3>1, SamePlace
    <3>. QED
      BY <1>1, <1>5, <3>2
  <2>2. b * k \in Nat
    BY <1>1, <1>2, ProductIs
  <2>3. a < k /\ b < k => (b * k + a < s <=> b * k + a < s - 1)
    BY <1>1, <1>2, <2>1, <2>2
  <2>4. BoardTo(s, x, y) = BoardTo(s - 1, x, y)
    BY <1>3, <2>3
  <2>. QED
    BY <1>5, <2>4 DEF i, j, a, b
<1>. QED
  BY <1>4, <1>5

\* Both buffers are cleared, and the squares are drawn into buffer 1 one after the other.
LEMMA DrawsSquares ==
  ASSUME LcdInv, Faithful, Drawn, framebuffer_set_color, picture = 7
  PROVE  Drawn'
<1>. DEFINE l == Len(strokes)
            kk == k * k
<1>1. kk \in Nat \ {0}
  BY SquaresAre
<1>2. /\ l \in Nat \ {0} /\ l <= kk + 2 /\ Head(strokes) = Squares(1)[kk + 2 - l + 1]
      /\ Len(strokes') = l - 1 /\ picture' = 7
  <2>1. Strokes(picture) = kk + 2 /\ Plan(picture) = Squares(1)
    BY DEF Strokes, Plan, Picture, id
  <2>2. /\ l \in Nat \ {0} /\ l <= Strokes(picture)
        /\ Head(strokes) = Plan(picture)[Strokes(picture) - l + 1]
        /\ Len(strokes') = l - 1 /\ picture' = picture
    BY StrokeIsPlanned
  <2>. HIDE DEF l, kk
  <2>3. l <= kk + 2
    BY ONLY <2>1, <2>2
  <2>4. Head(strokes) = Squares(1)[kk + 2 - l + 1]
    BY ONLY <1>1, <2>1, <2>2
  <2>5. picture' = 7
    BY <2>2
  <2>. QED
    BY ONLY <2>2, <2>3, <2>4, <2>5
<1>3. stride = xres /\ 0 \in Buffers /\ 1 \in Buffers
  BY DEF Faithful, TwoBuffers, Buffers
<1>4. /\ l <= kk + 1 => \A x \in Columns, y \in Rows : Cell(0, x, y) = black
      /\ l <= kk => \A x \in Columns, y \in Rows : Cell(1, x, y) = BoardTo(kk - l, x, y)
  BY DEF Drawn, Filled, Boarded
<1>5. CASE l = kk + 2
  <2>1. Head(strokes) = Clear(0)
    <3>. HIDE DEF l, kk
    <3>1. kk + 2 - l + 1 = 1
      BY <1>1, <1>5
    <3>. QED
      BY <1>2, <3>1, SquaresAre
  <2>2. \A x \in Columns, y \in Rows : memory'[Place(0, x, y)] = black
    BY <1>3, <2>1, StrokePaints, ClearCovers DEF Clear, Block
  <2>3. picture' = 7 /\ Len(strokes') = k * k + 1 /\ k * k \in Nat
    BY <1>1, <1>2, <1>5
  <2>4. Len(strokes') # k * k + 2 /\ ~(Len(strokes') <= k * k)
    <3>. DEFINE m == Len(strokes')
    <3>. HIDE DEF m, kk
    <3>1. m = kk + 1 => m # kk + 2 /\ ~(m <= kk)
      BY <1>1
    <3>. QED
      BY <2>3, <3>1 DEF m, kk
  <2>. QED
    BY <2>2, <2>3, <2>4 DEF Drawn, Filled, Cell
<1>6. CASE l = kk + 1
  <2>1. Head(strokes) = Clear(1)
    <3>. HIDE DEF l, kk
    <3>1. kk + 2 - l + 1 = 2
      BY <1>1, <1>6
    <3>. QED
      BY <1>2, <3>1, SquaresAre
  <2>2. \A x \in Columns, y \in Rows : /\ memory'[Place(0, x, y)] = black
                                       /\ memory'[Place(1, x, y)] = black
    <3>1. l <= kk + 1
      <4>. HIDE DEF l, kk
      <4>. QED
        BY <1>1, <1>6
    <3>2. Head(strokes).color = black
      BY <2>1 DEF Clear, Block
    <3>3. \A x \in Columns, y \in Rows : /\ ~Covers(Clear(1), Place(0, x, y))
                                         /\ Covers(Clear(1), Place(1, x, y))
      BY <1>3, ClearCovers
    <3>. QED
      BY <1>3, <1>4, <2>1, <3>1, <3>2, <3>3, StrokePaints
  <2>3. \A x \in Columns, y \in Rows : BoardTo(0, x, y) = black
    <3>. SUFFICES ASSUME NEW x \in Columns, NEW y \in Rows PROVE BoardTo(0, x, y) = black
      OBVIOUS
    <3>. DEFINE a == x \div (xres \div k)
                b == y \div (yres \div k)
    <3>1. a \in Nat /\ b \in Nat
      <4>1. /\ x \in Nat /\ y \in Nat /\ xres \div k \in Nat \ {0} /\ yres \div k \in Nat \ {0}
        BY SquaresFit, SizesAre DEF Columns, Rows
      <4>. QED
        BY <4>1, DivisionIs
    <3>2. BoardTo(0, x, y) =
            IF a < k /\ b < k /\ b * k + a < 0 /\ (a + b) % 2 = 0 THEN white ELSE black
      BY DEF BoardTo
    <3>. HIDE DEF a, b
    <3>3. b * k \in Nat
      BY <3>1, SizesAre
    <3>4. ~(b * k + a < 0)
      BY <3>1, <3>3
    <3>. QED
      BY <3>2, <3>4
  <2>4. picture' = 7 /\ Len(strokes') = k * k /\ k * k \in Nat
    BY <1>1, <1>2, <1>6
  <2>5. /\ Len(strokes') # k * k + 2 /\ k * k - Len(strokes') = 0
    <3>. DEFINE m == Len(strokes')
    <3>. HIDE DEF m, kk
    <3>1. m = kk => m # kk + 2 /\ kk - m = 0
      BY <1>1
    <3>. QED
      BY <2>4, <3>1 DEF m, kk
  <2>6. Boarded(k * k - Len(strokes))'
    BY <2>2, <2>3, <2>5 DEF Boarded, BoardTo, Cell
  <2>. QED
    BY <2>2, <2>4, <2>5, <2>6 DEF Drawn, Filled, Cell
<1>7. CASE l <= kk
  <2>. DEFINE s == kk - l + 1
              i == (s - 1) % k
              j == (s - 1) \div k
  <2>1. s \in 1 .. kk /\ kk + 2 - l + 1 = s + 2 /\ s - 1 = kk - l
    <3>. HIDE DEF l, kk
    <3>. QED
      BY <1>1, <1>2, <1>7
  <2>. HIDE DEF s
  <2>2. Head(strokes) = Square(i, j, 1)
    BY <1>2, <2>1, SquaresAre
  <2>3. i \in 0 .. k - 1 /\ j \in 0 .. k - 1
    BY <2>1, SquareOf
  <2>4. Head(strokes).color = IF (i + j) % 2 = 0 THEN white ELSE black
    BY <2>2 DEF Square, Block
  <2>5. ASSUME NEW x \in Columns, NEW y \in Rows
        PROVE  /\ memory'[Place(0, x, y)] = black
               /\ memory'[Place(1, x, y)] = BoardTo(s, x, y)
    <3>1. /\ ~Covers(Square(i, j, 1), Place(0, x, y))
          /\ Covers(Square(i, j, 1), Place(1, x, y))
               <=> x \div (xres \div k) = i /\ y \div (yres \div k) = j
      BY <1>3, <2>3, SquareCovers
    <3>2. l <= kk + 1
      <4>. HIDE DEF l, kk
      <4>. QED
        BY <1>1, <1>2, <1>7
    <3>3. memory'[Place(0, x, y)] = black
      BY <1>3, <1>4, <2>2, <3>1, <3>2, StrokePaints
    <3>4. Cell(1, x, y) = BoardTo(s - 1, x, y)
      BY <1>4, <1>7, <2>1
    <3>5. memory'[Place(1, x, y)] =
            IF x \div (xres \div k) = i /\ y \div (yres \div k) = j
            THEN IF (i + j) % 2 = 0 THEN white ELSE black
            ELSE BoardTo(s - 1, x, y)
      BY <1>3, <2>2, <2>4, <3>1, <3>4, StrokePaints
    <3>. QED
      BY <2>1, <3>3, <3>5, BoardGrows
  <2>6. /\ picture' = 7 /\ Len(strokes') # k * k + 2 /\ k * k - Len(strokes') = s
    <3>. DEFINE m == Len(strokes')
    <3>1. m = l - 1
      BY <1>2
    <3>. HIDE DEF m, kk, l
    <3>2. m # kk + 2 /\ kk - m = s
      BY <1>1, <1>2, <1>7, <3>1 DEF s
    <3>. QED
      BY <1>2, <3>2 DEF m, kk
  <2>7. Boarded(k * k - Len(strokes))'
    BY <2>5, <2>6 DEF Boarded, BoardTo, Cell
  <2>. QED
    BY <2>5, <2>6, <2>7 DEF Drawn, Filled, Cell
<1>8. l = kk + 2 \/ l = kk + 1 \/ l <= kk
  <2>. HIDE DEF l, kk
  <2>. QED
    BY <1>1, <1>2
<1>. QED
  BY <1>5, <1>6, <1>7, <1>8

LEMMA BlockIs ==
  ASSUME NEW loc \in Nat, NEW w \in Nat, NEW h \in Nat, NEW color \in Colours
  PROVE  Block(loc, w, h, color) \in Blocks
BY DEF Block, Blocks

\* The plan of a picture has its strokes.
LEMMA PlanIs ==
  ASSUME NEW p \in 0 .. 8
  PROVE  Plan(p) \in Seq(Blocks) /\ Len(Plan(p)) = Strokes(p)
<1>1. /\ xres \in Nat /\ yres \in Nat /\ xres * yres \in Nat
      /\ yres \div 3 \in Nat /\ (2 * yres) \div 3 \in Nat
  BY SizesAre, ThirdsFit, ProductIs
<1>2. \A n \in Nat : data(n) \in Nat /\ \A m \in Nat : data(n) + m * xres \in Nat
  <2>. SUFFICES ASSUME NEW n \in Nat, NEW m \in Nat
                PROVE  data(n) \in Nat /\ data(n) + m * xres \in Nat
    OBVIOUS
  <2>1. n * yres \in Nat /\ m * xres \in Nat
    BY <1>1, ProductIs
  <2>2. (n * yres) * xres \in Nat
    BY <1>1, <2>1, ProductIs
  <2>3. data(n) \in Nat
    BY <2>2 DEF data
  <2>. QED
    BY <2>1, <2>3
<1>3. /\ red \in Colours /\ green \in Colours /\ blue \in Colours /\ black \in Colours
      /\ white \in Colours /\ 0 \in Nat /\ 1 \in Nat
  BY DEF red, green, blue, black, white, Colours
<1>4. Clear(0) \in Blocks /\ Clear(1) \in Blocks
  BY <1>1, <1>2, <1>3, BlockIs DEF Clear
<1>5. CASE p = 0
  BY <1>4, <1>5 DEF Plan, Strokes
<1>6. CASE p \in 1 .. 5
  <2>1. Block(data(id(p)), xres, yres, p) \in Blocks
    <3>1. id(p) \in Nat /\ p \in Colours
      BY <1>6, IdIs DEF Buffers, Colours
    <3>. QED
      BY <1>1, <1>2, <3>1, BlockIs
  <2>2. Plan(p) = <<Block(data(id(p)), xres, yres, p)>> /\ Strokes(p) = 1
    BY <1>6 DEF Plan, Picture, FillColor, Strokes
  <2>. QED
    BY <2>1, <2>2
<1>7. CASE p = 6
  <2>. DEFINE s1 == Block(data(0), xres, yres \div 3, red)
              s2 == Block(data(0) + (yres \div 3) * xres, xres, yres \div 3, green)
              s3 == Block(data(0) + ((2 * yres) \div 3) * xres, xres, yres \div 3, blue)
  <2>1. s1 \in Blocks
    BY <1>1, <1>2, <1>3, BlockIs
  <2>2. s2 \in Blocks
    BY <1>1, <1>2, <1>3, BlockIs
  <2>3. s3 \in Blocks
    BY <1>1, <1>2, <1>3, BlockIs
  <2>4. Plan(p) = <<s1, s2, s3>> /\ Strokes(p) = 3
    BY <1>7 DEF Plan, Picture, Stripes, Strokes, id
  <2>. HIDE DEF s1, s2, s3
  <2>. QED
    BY <2>1, <2>2, <2>3, <2>4
<1>8. CASE p = 7
  <2>1. \A s \in 1 .. k * k : Square((s - 1) % k, (s - 1) \div k, 1) \in Blocks
    <3>. SUFFICES ASSUME NEW s \in 1 .. k * k
                  PROVE  Square((s - 1) % k, (s - 1) \div k, 1) \in Blocks
      OBVIOUS
    <3>. DEFINE i == (s - 1) % k
                j == (s - 1) \div k
                w == xres \div k
                h == yres \div k
    <3>1. i \in 0 .. k - 1 /\ j \in 0 .. k - 1
      BY SquareOf
    <3>. HIDE DEF i, j
    <3>2. /\ Square(i, j, 1) = Block(Place(1, i * w, j * h), w, h,
                                     IF (i + j) % 2 = 0 THEN white ELSE black)
          /\ i * w \in Nat /\ j * h \in Nat
      BY <3>1, SquareIs
    <3>3. w \in Nat /\ h \in Nat
      BY SquaresFit
    <3>. HIDE DEF w, h
    <3>4. Place(1, i * w, j * h) \in Nat
      <4>1. 1 * yres + j * h \in Nat
        BY <1>1, <3>2
      <4>2. (1 * yres + j * h) * xres \in Nat
        BY <1>1, <4>1, ProductIs
      <4>. QED
        BY <3>2, <4>2 DEF Place
    <3>5. (IF (i + j) % 2 = 0 THEN white ELSE black) \in Colours
      BY <1>3
    <3>. QED
      BY <3>2, <3>3, <3>4, <3>5, BlockIs DEF i, j
  <2>. DEFINE two == <<Clear(0), Clear(1)>>
              S(s) == Square((s - 1) % k, (s - 1) \div k, 1)
              rest == [s \in 1 .. k * k |-> S(s)]
  <2>2. /\ Plan(p) = Squares(1) /\ Strokes(p) = k * k + 2
        /\ Squares(1) = two \o rest
    <3>1. Plan(p) = Squares(1) /\ Strokes(p) = k * k + 2
      BY <1>8 DEF Plan, Picture, Strokes, id
    <3>2. Squares(1) = two \o rest
      BY DEF Squares
    <3>. QED
      BY <3>1, <3>2
  <2>3. two \in Seq(Blocks)
    BY <1>4
  <2>4. rest \in Seq(Blocks)
    <3>1. k * k \in Nat
      BY SquaresAre
    <3>. HIDE DEF S
    <3>2. \A s \in 1 .. k * k : S(s) \in Blocks
      BY <2>1 DEF S
    <3>. DEFINE kk == k * k
    <3>3. kk \in Nat /\ \A s \in 1 .. kk : S(s) \in Blocks
      BY <3>1, <3>2
    <3>. HIDE DEF kk
    <3>4. [s \in 1 .. kk |-> S(s)] \in Seq(Blocks)
      BY ONLY <3>3
    <3>. QED
      BY <3>4 DEF kk
  <2>. HIDE DEF two, rest
  <2>5. two \o rest \in Seq(Blocks)
    BY <2>3, <2>4
  <2>. QED
    BY <2>2, <2>5, SquaresAre
<1>9. CASE p = 8
  BY <1>9 DEF Plan, Picture, Strokes
<1>. QED
  BY <1>5, <1>6, <1>7, <1>8, <1>9

---------------------------------------------------------------------------
(* The steps *)

LEMMA LcdStart == LcdInit => LcdInv
BY SizesAssumption DEF LcdInit, LcdInv, LcdTyped, PlanInv, Showing

LEMMA LcdFrame == LcdInv /\ UNCHANGED lvars => LcdInv'
<1>. SUFFICES ASSUME LcdInv, UNCHANGED lvars PROVE LcdInv'
  OBVIOUS
<1>1. LcdTyped'
  BY DEF lvars, LcdInv, LcdTyped, Showing
<1>2. PlanInv'
  BY DEF lvars, LcdInv, PlanInv, Showing, Strokes, Plan
<1>3. (Showing /\ Faithful => Panned /\ Drawn)'
  BY DEF lvars, LcdInv, Showing, Faithful, TwoBuffers, Panned, Drawn, Filled, Striped, Boarded, Cell
<1>. QED
  BY <1>1, <1>2, <1>3 DEF LcdInv

\* clear_screen, framebuffer_set_color.
LEMMA StrokeStep ==
  ASSUME LcdInv, framebuffer_set_color PROVE LcdInv'
<1>. DEFINE l == Len(strokes)
<1>1. /\ l \in Nat \ {0} /\ l <= Strokes(picture) /\ Len(strokes') = l - 1
      /\ picture' = picture /\ picture \in 0 .. 7 /\ Head(strokes) \in Blocks
  BY StrokeIsPlanned
<1>2. Showing /\ Showing' /\ strokes \in Seq(Blocks) /\ strokes # <<>>
  BY DEF framebuffer_set_color, Showing, LcdInv, LcdTyped
<1>3. LcdTyped'
  <2>1. Tail(strokes) \in Seq(Blocks) /\ Head(strokes).color \in Colours
    BY <1>1, <1>2 DEF Blocks
  <2>2. memory \in [0 .. smem_len - 1 -> Colours]
    BY <1>2 DEF LcdInv, LcdTyped
  <2>3. memory' \in [0 .. smem_len - 1 -> Colours]
    BY <2>1, <2>2 DEF framebuffer_set_color
  <2>. QED
    BY <1>2, <2>1, <2>3 DEF framebuffer_set_color, LcdInv, LcdTyped
<1>4. PlanInv'
  <2>1. /\ strokes' = Tail(strokes)
        /\ \A i \in 1 .. l : strokes[i] = Plan(picture)[Strokes(picture) - l + i]
    BY <1>2 DEF framebuffer_set_color, LcdInv, PlanInv
  <2>2. Strokes(picture) \in Nat
    BY <1>1, SquaresAre DEF Strokes
  <2>3. ASSUME NEW i \in 1 .. l - 1
        PROVE  strokes'[i] = Plan(picture)[Strokes(picture) - (l - 1) + i]
    <3>1. strokes'[i] = strokes[i + 1]
      BY <1>2, <2>1
    <3>2. i + 1 \in 1 .. l /\ Strokes(picture) - l + (i + 1) = Strokes(picture) - (l - 1) + i
      <4>. HIDE DEF l
      <4>. QED
        BY <1>1, <2>2
    <3>. QED
      BY <2>1, <3>1, <3>2
  <2>4. l - 1 <= Strokes(picture)
    <3>. HIDE DEF l
    <3>. QED
      BY <1>1, <2>2
  <2>5. Strokes(picture)' = Strokes(picture) /\ Plan(picture)' = Plan(picture)
    BY <1>1 DEF Strokes, Plan
  <2>. HIDE DEF l
  <2>. QED
    BY <1>1, <2>3, <2>4, <2>5 DEF PlanInv
<1>5. ASSUME Faithful' PROVE Panned' /\ Drawn'
  <2>1. Faithful
    BY <1>5 DEF Faithful, TwoBuffers, framebuffer_set_color
  <2>2. Panned /\ Drawn
    BY <1>2, <2>1 DEF LcdInv
  <2>3. Panned'
    BY <1>1, <2>2 DEF Panned, framebuffer_set_color
  <2>4. picture = 0 \/ picture \in 1 .. 5 \/ picture = 6 \/ picture = 7
    BY <1>1
  <2>. QED
    BY <2>1, <2>2, <2>3, <2>4, ClearsTheOther, FillsOne, DrawsStripes, DrawsSquares
<1>. QED
  BY <1>3, <1>4, <1>5 DEF LcdInv

\* The functions that draw the pictures and the pans between them.
LEMMA PictureStep ==
  ASSUME LcdInv, NextPicture PROVE LcdInv'
<1>. DEFINE p == picture
            q == picture + 1
<1>1. /\ p \in 0 .. 7 /\ q \in 1 .. 8 /\ picture' = q /\ p = q - 1 /\ buffercount = p
      /\ strokes = <<>> /\ lcd = "running" /\ lcd' = "running" /\ memory' = memory
      /\ stride' = stride /\ smem_len' = smem_len
  BY DEF LcdInv, LcdTyped, NextPicture
<1>2. Showing /\ Showing'
  BY <1>1 DEF Showing
<1>3. strokes' = Plan(q) /\ strokes' \in Seq(Blocks) /\ Len(strokes') = Strokes(q)
  <2>1. Plan(q) = Picture(q, id(q))
    BY <1>1 DEF Plan
  <2>2. strokes' = Picture(q, id(q))
    BY <1>1 DEF NextPicture
  <2>. HIDE DEF q
  <2>3. q \in 0 .. 8
    BY <1>1
  <2>4. Plan(q) \in Seq(Blocks) /\ Len(Plan(q)) = Strokes(q)
    BY <2>3, PlanIs
  <2>. QED
    BY <2>1, <2>2, <2>4
<1>4. LcdTyped'
  <2>1. yoffset' \in {0, yres} /\ refused' \in {"no", "yes"}
    <3>1. \A n \in Nat : id(n) * yres \in {0, yres}
      BY SizesAre DEF id
    <3>. QED
      BY <1>1, <3>1 DEF LcdInv, LcdTyped, NextPicture, set_active_framebuffer
  <2>2. buffercount' = IF picture' = 8 THEN 7 ELSE picture'
    BY <1>1 DEF NextPicture
  <2>3. /\ memory \in [0 .. smem_len - 1 -> Colours] /\ stride \in Nat /\ stride >= xres
        /\ smem_len \in Nat
    BY <1>2 DEF LcdInv, LcdTyped
  <2>. QED
    BY <1>1, <1>2, <1>3, <2>1, <2>2, <2>3 DEF LcdTyped
<1>5. PlanInv'
  <2>1. Strokes(q) \in Nat
    BY <1>1, SquaresAre DEF Strokes
  <2>2. \A i \in 1 .. Len(strokes') : strokes'[i] = Plan(q)[Strokes(q) - Len(strokes') + i]
    <3>. DEFINE m == Len(strokes')
    <3>1. m = Strokes(q)
      BY <1>3
    <3>. HIDE DEF m
    <3>2. \A i \in 1 .. m : Strokes(q) - m + i = i
      BY <2>1, <3>1
    <3>. QED
      BY <1>3, <3>2 DEF m
  <2>3. Strokes(picture)' = Strokes(q) /\ Plan(picture)' = Plan(q)
    BY <1>1 DEF Strokes, Plan
  <2>. QED
    BY <1>3, <2>1, <2>2, <2>3 DEF PlanInv
<1>6. ASSUME Faithful' PROVE Panned' /\ Drawn'
  <2>1. Faithful /\ refused' = "no"
    BY <1>6 DEF Faithful, TwoBuffers, NextPicture, set_active_framebuffer
  <2>2. Panned /\ Drawn
    BY <1>2, <2>1 DEF LcdInv
  <2>3. Panned'
    <3>1. CASE p = 0
      BY <1>1, <2>2, <3>1, SizesAre DEF Panned, NextPicture, id
    <3>2. CASE p # 0
      <4>1. yoffset' = id(p) * yres
        BY <1>1, <2>1, <3>2 DEF NextPicture, set_active_framebuffer
      <4>. QED
        BY <1>1, <4>1 DEF Panned
    <3>. QED
      BY <3>1, <3>2
  <2>4. Len(strokes) = 0 /\ k * k \in Nat
    BY <1>1, SquaresAre
  <2>5. CASE p = 0
    <3>1. picture' = 1 /\ Len(strokes') = 1
      BY <1>1, <1>3, <2>5 DEF Strokes
    <3>2. \A x \in Columns, y \in Rows : memory'[Place(0, x, y)] = left
      BY <1>1, <2>2, <2>5 DEF Drawn, Filled, Cell
    <3>. QED
      BY <2>3, <3>1, <3>2 DEF Drawn, Filled, Cell
  <2>6. CASE p \in 1 .. 4
    <3>1. picture' \in 2 .. 5 /\ Len(strokes') = 1 /\ picture' - 1 = p
      <4>1. q \in 2 .. 5 /\ q - 1 = p
        BY <2>6
      <4>. HIDE DEF q
      <4>2. Strokes(q) = 1
        BY <4>1 DEF Strokes
      <4>. QED
        BY <1>1, <1>3, <4>1, <4>2
    <3>2. Filled(id(p), p)
      BY <2>2, <2>4, <2>6 DEF Drawn
    <3>3. \A x \in Columns, y \in Rows : memory'[Place(id(p), x, y)] = p
      BY <1>1, <3>2 DEF Filled, Cell
    <3>. HIDE DEF p
    <3>. QED
      BY <2>3, <3>1, <3>3 DEF Drawn, Filled, Cell
  <2>7. CASE p = 5
    <3>1. picture' = 6 /\ Len(strokes') = 3
      BY <1>1, <1>3, <2>7 DEF Strokes
    <3>2. Filled(id(5), 5) /\ Filled(id(4), 4) /\ id(4) = 0
      BY <2>2, <2>4, <2>7 DEF Drawn, id
    <3>3. \A x \in Columns, y \in Rows : /\ memory'[Place(id(5), x, y)] = 5
                                         /\ memory'[Place(0, x, y)] = 4
      BY <1>1, <3>2 DEF Filled, Cell
    <3>4. \A y \in Rows : StripeTo(0, y) = 4
      BY DEF StripeTo, black
    <3>5. Striped(3 - Len(strokes))'
      BY <3>1, <3>3, <3>4 DEF Striped, StripeTo, Cell
    <3>6. Filled(id(picture - 1), picture - 1)'
      BY <3>1, <3>3 DEF Filled, Cell
    <3>. QED
      BY <2>3, <3>1, <3>5, <3>6 DEF Drawn
  <2>8. CASE p = 6
    <3>1. \A x \in Columns, y \in Rows : memory'[Place(0, x, y)] = StripeTo(3, y)
      BY <1>1, <2>2, <2>4, <2>8 DEF Drawn, Striped, Cell
    <3>2. picture' = 7 /\ Len(strokes') = k * k + 2
      BY <1>1, <1>3, <2>8 DEF Strokes
    <3>3. ~(Len(strokes') <= k * k + 1) /\ ~(Len(strokes') <= k * k)
      <4>. DEFINE kk == k * k
      <4>. HIDE DEF kk
      <4>1. ~(kk + 2 <= kk + 1) /\ ~(kk + 2 <= kk)
        BY <2>4 DEF kk
      <4>. QED
        BY <3>2, <4>1 DEF kk
    <3>4. Striped(3)'
      BY <3>1 DEF Striped, StripeTo, Cell
    <3>. QED
      BY <2>3, <3>2, <3>3, <3>4 DEF Drawn
  <2>9. CASE p = 7
    <3>1. Boarded(k * k)
      <4>1. 0 <= k * k /\ k * k - 0 = k * k
        BY <2>4
      <4>. QED
        BY <2>2, <2>4, <2>9, <4>1 DEF Drawn
    <3>2. picture' = 8
      BY <1>1, <2>9
    <3>3. Boarded(k * k)'
      BY <1>1, <3>1 DEF Boarded, BoardTo, Cell
    <3>. QED
      BY <2>3, <3>2, <3>3 DEF Drawn
  <2>. QED
    BY <1>1, <2>3, <2>5, <2>6, <2>7, <2>8, <2>9
<1>. QED
  BY <1>4, <1>5, <1>6 DEF LcdInv

\* gr_init and set_full_screen.
LEMMA InitStep ==
  ASSUME LcdInv, gr_init PROVE LcdInv'
<1>1. /\ picture = 0 /\ picture' = 0 /\ lcd' = "running" /\ stride' = stride
      /\ strokes' = <<Clear(1)>> /\ buffercount = 0 /\ buffercount' = 0
      /\ stride \in Nat /\ stride >= xres
  BY DEF LcdInv, LcdTyped, gr_init
<1>2. memory' = [word \in 0 .. smem_len - 1 |-> left] /\ smem_len' = smem_len
  BY DEF gr_init
<1>3. <<Clear(1)>> \in Seq(Blocks) /\ Strokes(0) = 1 /\ Plan(0) = <<Clear(1)>>
  <2>1. Plan(0) = <<Clear(1)>> /\ Strokes(0) = 1
    BY DEF Plan, Strokes
  <2>. QED
    BY <2>1, PlanIs
<1>4. LcdTyped'
  BY <1>1, <1>2, <1>3, SizesAre DEF LcdInv, LcdTyped, gr_init, Colours, left, Showing
<1>5. PlanInv'
  BY <1>1, <1>3 DEF PlanInv, Strokes, Plan
<1>6. ASSUME Faithful' PROVE Panned' /\ Drawn'
  <2>1. stride = xres /\ yoffset' = 0
    BY <1>1, <1>6 DEF Faithful, TwoBuffers, gr_init
  <2>2. \A x \in Columns, y \in Rows : memory'[Place(0, x, y)] = left
    <3>. SUFFICES ASSUME NEW x \in Columns, NEW y \in Rows
                  PROVE  memory'[Place(0, x, y)] = left
      OBVIOUS
    <3>. DEFINE place == Place(0, x, y)
                all == 2 * yres * xres
    <3>1. place \in 0 .. all - 1 /\ all \in Nat
      BY PlaceIn, SizesAre, ProductIs DEF Buffers
    <3>2. smem_len \in Nat /\ smem_len >= all
      BY <1>1, <1>2, <1>6, <2>1 DEF Faithful, TwoBuffers, LcdInv, LcdTyped
    <3>. HIDE DEF place, all
    <3>3. place \in 0 .. smem_len - 1
      BY <3>1, <3>2
    <3>. QED
      BY <1>2, <3>3 DEF place
  <2>. QED
    BY <1>1, <2>1, <2>2 DEF Panned, Drawn, Filled, Cell
<1>. QED
  BY <1>4, <1>5, <1>6 DEF LcdInv

LEMMA LcdStep == LcdInv /\ [LcdNext]_lvars => LcdInv'
<1>. SUFFICES ASSUME LcdInv, [LcdNext]_lvars PROVE LcdInv'
  OBVIOUS
<1>1. CASE NoFrameBuffer \/ test_lcd
  <2>1. UNCHANGED <<stride, smem_len, memory, yoffset, refused, buffercount, picture, strokes>>
        /\ lcd' \in {"passed", "failed"} /\ (Showing' <=> Showing)
    BY <1>1 DEF NoFrameBuffer, test_lcd, Showing, LcdInv, LcdTyped
  <2>2. LcdTyped'
    BY <2>1 DEF LcdInv, LcdTyped
  <2>3. PlanInv'
    BY <2>1 DEF LcdInv, PlanInv, Strokes, Plan
  <2>4. (Showing /\ Faithful => Panned /\ Drawn)'
    BY <2>1 DEF LcdInv, Faithful, TwoBuffers, Panned, Drawn, Filled, Striped, Boarded, Cell
  <2>. QED
    BY <2>2, <2>3, <2>4 DEF LcdInv
<1>2. CASE DrawsBeyond
  <2>1. /\ ~Showing' /\ lcd' = "failed" /\ picture' = 0 /\ strokes' = <<>> /\ buffercount' = 0
        /\ UNCHANGED <<stride, smem_len, memory, yoffset, refused>>
    BY <1>2 DEF DrawsBeyond, Showing
  <2>2. LcdTyped'
    BY <2>1 DEF LcdInv, LcdTyped
  <2>. QED
    BY <2>1, <2>2 DEF LcdInv, PlanInv
<1>. QED
  BY <1>1, <1>2, InitStep, StrokeStep, PictureStep, LcdFrame DEF LcdNext

\* Every stroke is a block of one colour.
LEMMA LcdTypeIs == LcdInv => LcdTypeOK
<1>. SUFFICES ASSUME LcdInv PROVE LcdTypeOK
  OBVIOUS
<1>1. \A s \in DOMAIN strokes : strokes[s] \in Blocks
  BY DEF LcdInv, LcdTyped
<1>. QED
  BY <1>1 DEF LcdInv, LcdTyped, LcdTypeOK, Showing, Blocks, Colours

\* Everything the program keeps has its type, for every screen and every number of squares.
THEOREM LcdTypeCorrect == LcdSpec => []LcdTypeOK
BY LcdTypeIs, LcdStart, LcdStep, PTL DEF LcdSpec

\* The buffer that was panned to holds the picture that is expected.
LEMMA ShowsIs == LcdInv => ShowsPictures
<1>. SUFFICES ASSUME LcdInv, Showing, Faithful, NEW x \in Columns, NEW y \in Rows
              PROVE  Visible(x, y) = Expected(x, y)
  BY DEF ShowsPictures, Showing, Faithful, TwoBuffers, Columns, Rows
<1>. DEFINE p == picture
<1>1. Panned /\ Drawn /\ p \in 0 .. 8 /\ stride = xres
  BY DEF LcdInv, LcdTyped, Faithful, TwoBuffers
<1>2. x \in Nat /\ y \in Nat /\ y < yres /\ xres \in Nat /\ yres \in Nat
  BY SizesAre DEF Columns, Rows
<1>3. p = 0 => Visible(x, y) = Cell(0, x, y)
  <2>. SUFFICES ASSUME p = 0 PROVE Visible(x, y) = Cell(0, x, y)
    OBVIOUS
  <2>1. yoffset = 0 * yres
    BY <1>1, <1>2 DEF Panned
  <2>. QED
    BY <1>1, <2>1 DEF Visible, Cell, Place
<1>4. p \in 1 .. 8 => Visible(x, y) = Cell(id(p - 1), x, y)
  BY <1>1 DEF Panned, Visible, Cell, Place
<1>5. CASE p \in {0, 1}
  BY <1>1, <1>3, <1>4, <1>5 DEF Drawn, Filled, Expected, id
<1>6. CASE p \in 2 .. 6
  BY <1>1, <1>4, <1>6 DEF Drawn, Filled, Expected
<1>7. CASE p = 7
  <2>1. Visible(x, y) = Cell(0, x, y)
    BY <1>4, <1>7 DEF id
  <2>2. Len(strokes) \in Nat /\ Len(strokes) <= k * k + 2 /\ k * k \in Nat
    BY <1>7, SquaresAre DEF LcdInv, PlanInv, LcdTyped, Strokes
  <2>3. CASE Len(strokes) = k * k + 2
    <3>1. Visible(x, y) = StripeTo(3, y)
      BY <1>1, <1>7, <2>1, <2>3 DEF Drawn, Striped
    <3>2. StripeTo(3, y) = Stripe(y)
      <4>1. yres \div 3 \in Nat
        BY ThirdsFit
      <4>. QED
        BY <1>2, <4>1 DEF StripeTo, Stripe
    <3>. QED
      BY <1>7, <2>3, <3>1, <3>2 DEF Expected
  <2>4. CASE Len(strokes) # k * k + 2
    <3>1. Len(strokes) <= k * k + 1
      <4>. DEFINE kk == k * k
                  l == Len(strokes)
      <4>1. l \in Nat /\ l <= kk + 2 /\ kk \in Nat /\ l # kk + 2
        BY <2>2, <2>4
      <4>. HIDE DEF kk, l
      <4>2. l <= kk + 1
        BY <4>1
      <4>. QED
        BY <4>2 DEF kk, l
    <3>2. Visible(x, y) = black
      BY <1>1, <1>7, <2>1, <3>1 DEF Drawn, Filled
    <3>. QED
      BY <1>7, <2>4, <3>2 DEF Expected
  <2>. QED
    BY <2>3, <2>4
<1>8. CASE p = 8
  <2>1. Visible(x, y) = BoardTo(k * k, x, y)
    <3>1. id(8 - 1) = 1
      BY DEF id
    <3>. QED
      BY <1>1, <1>4, <1>8, <3>1 DEF Drawn, Boarded
  <2>2. BoardTo(k * k, x, y) = Board(x, y)
    <3>. DEFINE a == x \div (xres \div k)
                b == y \div (yres \div k)
                odd == (a + b) % 2
    <3>1. a \in Nat /\ b \in Nat /\ k \in Nat
      <4>1. xres \div k \in Nat \ {0} /\ yres \div k \in Nat \ {0} /\ k \in Nat
        BY SquaresFit, SizesAre
      <4>. QED
        BY <1>2, <4>1, DivisionIs
    <3>2. /\ BoardTo(k * k, x, y) =
               IF a < k /\ b < k /\ b * k + a < k * k /\ odd = 0 THEN white ELSE black
          /\ Board(x, y) = IF a < k /\ b < k /\ odd = 0 THEN white ELSE black
      BY DEF BoardTo, Board
    <3>. HIDE DEF a, b, odd
    <3>3. ASSUME a < k, b < k PROVE b * k + a < k * k
      <4>1. (b + 1) * k <= k * k /\ (b + 1) * k = b * k + k
        BY <3>1, <3>3, ProductGrows
      <4>2. b * k \in Nat /\ k * k \in Nat
        BY <3>1, ProductIs
      <4>. QED
        BY <3>1, <3>3, <4>1, <4>2
    <3>. QED
      BY <3>2, <3>3
  <2>. QED
    BY <1>8, <2>1, <2>2 DEF Expected
<1>. QED
  BY <1>1, <1>5, <1>6, <1>7, <1>8

\* Nothing is drawn where it can be seen (main, framebuffer_set_color, clear_screen and
\* set_active_framebuffer of test_lcd.c): the screen shows the pictures whole and in order.
THEOREM ShowsPicturesCorrect == LcdSpec => []ShowsPictures
BY ShowsIs, LcdStart, LcdStep, PTL DEF LcdSpec

---------------------------------------------------------------------------
(* Drawing stays within the mapped memory, also where lines are padded.    *)

Mapped(block) == \A word : Covers(block, word) => word \in 0 .. 2 * yres * stride - 1

\* A block of one buffer: its last line begins at least a line before the end.
LEMMA BlockMapped ==
  ASSUME stride \in Nat, stride >= xres, NEW n \in Buffers, NEW c \in Nat, NEW m \in Nat,
         NEW w \in Nat, NEW h \in Nat, c + w <= xres, m + h <= yres, NEW color
  PROVE  Mapped(Block(Place(n, c, m), w, h, color))
<1>. SUFFICES ASSUME NEW i \in 0 .. w - 1, NEW j \in 0 .. h - 1
              PROVE  Place(n, c, m) + i + j * stride \in 0 .. 2 * yres * stride - 1
  BY DEF Mapped, Covers, Block
<1>. DEFINE r == n * yres + m
            total == 2 * yres
<1>1. /\ r \in Nat /\ total \in Nat /\ r + j + 1 <= total /\ i \in Nat /\ j \in Nat
      /\ c + i < stride /\ xres \in Nat
  BY SizesAre DEF Buffers
<1>2. Place(n, c, m) = r * xres + c
  BY DEF Place
<1>. HIDE DEF r, total
<1>3. r * xres \in Nat /\ r * stride \in Nat /\ j * stride \in Nat /\ total * stride \in Nat
  BY <1>1, ProductIs
<1>4. xres * r <= stride * r /\ xres * r = r * xres /\ stride * r = r * stride
  BY <1>1, ProductGrows
<1>5. /\ (r + j + 1) * stride <= total * stride
      /\ (r + j + 1) * stride = r * stride + j * stride + stride
  BY <1>1, ProductGrows
<1>6. r * xres + c + i + j * stride \in 0 .. total * stride - 1
  BY <1>1, <1>3, <1>4, <1>5
<1>. QED
  BY <1>2, <1>6 DEF total

\* A cleared buffer lies within the lines of the two, however they are padded.
LEMMA ClearMapped ==
  ASSUME stride \in Nat, stride >= xres, NEW n \in Buffers PROVE Mapped(Clear(n))
<1>. DEFINE m == n * yres
            total == 2 * yres
<1>1. /\ m \in Nat /\ total \in Nat /\ yres \in Nat /\ m + yres <= total /\ xres \in Nat
  BY SizesAre DEF Buffers
<1>2. Clear(n) = Block(m * xres, xres * yres, 1, black)
  BY DEF Clear, data
<1>. HIDE DEF m, total
<1>3. /\ m * xres \in Nat /\ xres * yres \in Nat /\ total * xres \in Nat
      /\ total * stride \in Nat
  BY <1>1, ProductIs
<1>4. (m + yres) * xres <= total * xres /\ (m + yres) * xres = m * xres + xres * yres
  BY <1>1, ProductGrows
<1>5. total * xres <= total * stride
  <2>1. xres * total <= stride * total /\ xres * total = total * xres
        /\ stride * total = total * stride
    BY <1>1, ProductGrows
  <2>. QED
    BY <2>1
<1>6. ASSUME NEW i \in 0 .. xres * yres - 1, NEW j \in 0 .. 0
      PROVE  m * xres + i + j * stride \in 0 .. total * stride - 1
  <2>1. j * stride = 0
    OBVIOUS
  <2>. QED
    BY <1>3, <1>4, <1>5, <2>1
<1>7. ASSUME NEW i \in 0 .. xres * yres - 1, NEW j \in 0 .. 1 - 1
      PROVE  m * xres + i + j * stride \in 0 .. 2 * yres * stride - 1
  BY <1>6 DEF total
<1>. QED
  BY <1>2, <1>7 DEF Mapped, Covers, Block

\* Every stroke of every picture stays within the memory.
LEMMA PlanMapped ==
  ASSUME stride \in Nat, stride >= xres, NEW p \in 0 .. 8, NEW s \in 1 .. Strokes(p)
  PROVE  Mapped(Plan(p)[s])
<1>1. xres \in Nat /\ yres \in Nat /\ 0 \in Buffers /\ 1 \in Buffers
  BY SizesAre DEF Buffers
<1>2. ASSUME NEW n \in Buffers, NEW m \in Nat, NEW h \in Nat, m + h <= yres, NEW color
      PROVE  Mapped(Block(data(n) + m * xres, xres, h, color))
  <2>1. n \in Nat /\ data(n) + m * xres = Place(n, 0, m)
    BY BlocksAre DEF Buffers
  <2>2. Mapped(Block(Place(n, 0, m), xres, h, color))
    BY <1>1, <1>2, BlockMapped
  <2>. QED
    BY <2>1, <2>2
<1>3. CASE p = 0
  BY <1>1, <1>3, ClearMapped DEF Plan, Strokes
<1>4. CASE p \in 1 .. 5
  <2>1. id(p) \in Buffers /\ data(id(p)) = Place(id(p), 0, 0)
    BY <1>4, IdIs, BlocksAre DEF Buffers
  <2>2. Mapped(Block(Place(id(p), 0, 0), xres, yres, p))
    BY <1>1, <2>1, BlockMapped
  <2>3. Plan(p) = <<Block(data(id(p)), xres, yres, p)>> /\ s = 1
    BY <1>4 DEF Plan, Picture, FillColor, Strokes
  <2>. QED
    BY <2>1, <2>2, <2>3
<1>5. CASE p = 6
  <2>. DEFINE s1 == Block(data(0), xres, yres \div 3, red)
              s2 == Block(data(0) + (yres \div 3) * xres, xres, yres \div 3, green)
              s3 == Block(data(0) + ((2 * yres) \div 3) * xres, xres, yres \div 3, blue)
  <2>1. /\ yres \div 3 \in Nat /\ (2 * yres) \div 3 \in Nat /\ 0 + yres \div 3 <= yres
        /\ yres \div 3 + yres \div 3 <= yres /\ (2 * yres) \div 3 + yres \div 3 <= yres
    BY <1>1, ThirdsFit
  <2>2. data(0) + 0 * xres = data(0)
    BY <1>1 DEF data
  <2>3. Mapped(s1)
    BY <1>1, <1>2, <2>1, <2>2
  <2>4. Mapped(s2)
    BY <1>1, <1>2, <2>1
  <2>5. Mapped(s3)
    BY <1>1, <1>2, <2>1
  <2>6. Plan(p) = <<s1, s2, s3>> /\ s \in 1 .. 3
    BY <1>5 DEF Plan, Picture, Stripes, Strokes, id
  <2>. HIDE DEF s1, s2, s3
  <2>. QED
    BY <2>3, <2>4, <2>5, <2>6
<1>6. CASE p = 7
  <2>1. Plan(p) = Squares(1) /\ s \in 1 .. k * k + 2 /\ k * k \in Nat
    BY <1>6, SquaresAre DEF Plan, Picture, Strokes, id
  <2>2. CASE s \in {1, 2}
    BY <1>1, <2>1, <2>2, ClearMapped, SquaresAre
  <2>3. CASE s \notin {1, 2}
    <3>. DEFINE q == s - 2
                i == (q - 1) % k
                j == (q - 1) \div k
                w == xres \div k
                h == yres \div k
    <3>1. q \in 1 .. k * k /\ s = q + 2
      BY <2>1, <2>3
    <3>. HIDE DEF q
    <3>2. i \in 0 .. k - 1 /\ j \in 0 .. k - 1 /\ Squares(1)[q + 2] = Square(i, j, 1)
      BY <3>1, SquareOf, SquaresAre
    <3>. HIDE DEF i, j
    <3>3. /\ Square(i, j, 1) = Block(Place(1, i * w, j * h), w, h,
                                     IF (i + j) % 2 = 0 THEN white ELSE black)
          /\ i * w \in Nat /\ j * h \in Nat /\ i * w + w <= xres /\ j * h + h <= yres
      BY <3>2, SquareIs
    <3>4. w \in Nat /\ h \in Nat
      BY SquaresFit
    <3>. HIDE DEF w, h
    <3>5. Mapped(Square(i, j, 1))
      BY <1>1, <3>3, <3>4, BlockMapped
    <3>. QED
      BY <2>1, <3>1, <3>2, <3>5
  <2>. QED
    BY <2>2, <2>3
<1>7. CASE p = 8
  BY <1>7 DEF Strokes
<1>. QED
  BY <1>3, <1>4, <1>5, <1>6, <1>7

\* What is drawn is a block of the plan, and the plan fits where both buffers do.
LEMMA MemoryIs == LcdInv => DrawsInMemory
<1>. SUFFICES ASSUME LcdInv, TwoBuffers, NEW s \in DOMAIN strokes PROVE ~Beyond(strokes[s])
  BY DEF DrawsInMemory
<1>1. /\ strokes \in Seq(Blocks) /\ picture \in 0 .. 8 /\ stride \in Nat /\ stride >= xres
      /\ smem_len \in Nat
  BY DEF LcdInv, LcdTyped
<1>2. Showing /\ s \in 1 .. Len(strokes)
  BY <1>1 DEF LcdInv, LcdTyped
<1>. DEFINE all == Strokes(picture)
            n == Len(strokes)
            i == all - n + s
            words == 2 * yres * stride
<1>3. n <= all /\ strokes[s] = Plan(picture)[i]
  BY <1>2 DEF LcdInv, PlanInv
<1>4. all \in Nat /\ n \in Nat
  <2>1. Len(Plan(picture)) = Strokes(picture) /\ Plan(picture) \in Seq(Blocks)
    BY <1>1, PlanIs
  <2>. QED
    BY <1>1, <2>1
<1>5. i \in 1 .. all
  <2>. HIDE DEF all
  <2>. QED
    BY <1>2, <1>3, <1>4
<1>. HIDE DEF i
<1>6. Mapped(strokes[s])
  BY <1>1, <1>3, <1>5, PlanMapped
<1>7. DOMAIN memory = 0 .. smem_len - 1
  BY <1>2 DEF LcdInv, LcdTyped
<1>8. words \in Nat /\ words <= smem_len
  <2>1. 2 * yres \in Nat
    BY SizesAre
  <2>2. words \in Nat
    BY <1>1, <2>1, ProductIs
  <2>. QED
    BY <1>1, <2>2 DEF TwoBuffers
<1>9. \A word : Covers(strokes[s], word) => word \in 0 .. words - 1
  BY <1>6 DEF Mapped
<1>. HIDE DEF words
<1>10. \A word : Covers(strokes[s], word) => word \in DOMAIN memory
  BY <1>1, <1>7, <1>8, <1>9
<1>. QED
  BY <1>10 DEF Beyond, Covers

\* Where the mapped memory holds two buffers, no drawing call (framebuffer_set_color,
\* clear_screen) writes outside of it, though it begins a block by the screen's width and
\* goes on by the stride: for every screen, padding, length and number of squares.
THEOREM DrawsInMemoryCorrect == LcdSpec => []DrawsInMemory
BY MemoryIs, LcdStart, LcdStep, PTL DEF LcdSpec
============================================================================
