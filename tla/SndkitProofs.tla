--------------------------- MODULE SndkitProofs ----------------------------
(***************************************************************************)
(* Proofs about sndkit, for all lengths of the file and of the recording   *)
(* and every way in which reads and writes are incomplete: what the device *)
(* gets of the file, what the record file gets of the device, and how much *)
(* of it.                                                                  *)
(***************************************************************************)
EXTENDS WavProofs

(* Where main and its threads are *)

Busy == {"read", "write"}

\* Where the threads may be, by the place main is at.
Control ==
  /\ main \in {"setup", "record", "join", "copy", "returned", "aborted"}
  /\ main = "setup" => p_pc = "none" /\ r_pc = "none"
  /\ main = "record" => r_pc = "none" /\ ~Converting
  /\ main = "join" => ~Converting
  /\ main = "copy" => r_pc = "none" /\ Converting
  /\ main = "returned" => p_pc \notin Busy /\ r_pc \notin Busy

LEMMA ControlStep == Control /\ [Next]_vars => Control'
<1> SUFFICES ASSUME Control, [Next]_vars PROVE Control'
  OBVIOUS
<1> USE DEF Control, Busy, Converting
<1>1. CASE StartReplay
  BY <1>1 DEF StartReplay, rvars
<1>2. CASE StartRecord
  BY <1>2 DEF StartRecord, pvars
<1>3. CASE Join
  BY <1>3 DEF Join, pvars, rvars
<1>4. CASE PlayRead
  <2>1. main' \in {main, "aborted"} /\ main \in {"record", "join"}
    BY <1>4 DEF PlayRead, Playing
  <2> QED
    BY <1>4, <2>1 DEF PlayRead, rvars
<1>5. CASE PlayWrite
  BY <1>5 DEF PlayWrite, Playing, mvars, rvars
<1>6. CASE PlayEnds
  BY <1>6 DEF PlayEnds, Playing, mvars, rvars
<1>7. CASE RecordRead
  BY <1>7 DEF RecordRead, mvars, pvars
<1>8. CASE RecordWrite
  BY <1>8 DEF RecordWrite, mvars, pvars
<1>9. CASE RecordEnds
  BY <1>9 DEF RecordEnds, mvars, pvars
<1>10. CASE CopyStarts
  BY <1>10 DEF CopyStarts, rvars
<1>11. CASE CopyRead
  BY <1>11 DEF CopyRead, mvars, rvars
<1>12. CASE CopyWrite
  BY <1>12 DEF CopyWrite, mvars
<1>13. CASE CopyEnds
  BY <1>13 DEF CopyEnds, rvars
<1>14. CASE SetupFails
  BY <1>14 DEF SetupFails, pvars, rvars
<1>15. CASE PlayFails
  BY <1>15 DEF PlayFails, Playing, mvars, rvars
<1>16. CASE RecordFails
  BY <1>16 DEF RecordFails, mvars, pvars
<1>17. CASE CopyFails
  BY <1>17 DEF CopyFails, rvars
<1>18. CASE UNCHANGED vars
  BY <1>18 DEF vars, mvars, pvars, rvars
<1> QED
  BY <1>1, <1>2, <1>3, <1>4, <1>5, <1>6, <1>7, <1>8, <1>9, <1>10, <1>11, <1>12, <1>13,
     <1>14, <1>15, <1>16, <1>17, <1>18 DEF Next, Main, Play, Record, Copy

---------------------------------------------------------------------------
(* The length of a recording.  The samples are not typed: what a conversion *)
(* in place leaves in the buffer is defined by recursion over the samples.  *)

IsSequence(s) == \E S : s \in Seq(S)

LEMMA Appended ==
  ASSUME NEW s, NEW t, IsSequence(s), IsSequence(t),
         NEW i \in Nat, NEW n \in Nat, i + n <= Len(t)
  PROVE  /\ IsSequence(s \o SubSeq(t, i + 1, i + n))
         /\ Len(s \o SubSeq(t, i + 1, i + n)) = Len(s) + n
<1>1. PICK S : s \in Seq(S)
  BY DEF IsSequence
<1>2. PICK T : t \in Seq(T)
  BY DEF IsSequence
<1> DEFINE u == SubSeq(t, i + 1, i + n)
<1>3. u \in Seq(T) /\ Len(u) = n
  <2>1. Len(t) \in Nat
    BY <1>2
  <2>2. \A k \in i + 1 .. i + n : k \in 1 .. Len(t)
    BY <2>1
  <2> QED
    BY <1>2, <2>1, <2>2
<1>4. s \in Seq(S \cup T) /\ u \in Seq(S \cup T)
  BY <1>1, <1>3
<1> HIDE DEF u
<1>5. s \o u \in Seq(S \cup T) /\ Len(s \o u) = Len(s) + Len(u)
  BY <1>4
<1>6. IsSequence(s \o u) /\ Len(s \o u) = Len(s) + n
  BY <1>3, <1>5 DEF IsSequence
<1> QED
  BY <1>6 DEF u

LEMMA ShortEnough ==
  ASSUME NEW s, IsSequence(s), NEW n \in Nat
  PROVE  LET c == SubSeq(s, 1, Min2(Len(s), n))
         IN  IsSequence(c) /\ Len(c) \in Nat /\ Len(c) <= n
<1>1. PICK S : s \in Seq(S)
  BY DEF IsSequence
<1> DEFINE k == Min2(Len(s), n)
<1>2. k \in Nat /\ k <= Len(s) /\ k <= n
  BY <1>1 DEF Min2
<1> HIDE DEF k
<1>3. \A j \in 1 .. k : j \in 1 .. Len(s)
  BY <1>1, <1>2
<1>4. SubSeq(s, 1, k) \in Seq(S) /\ Len(SubSeq(s, 1, k)) = k
  BY <1>1, <1>2, <1>3
<1>5. IsSequence(SubSeq(s, 1, k))
  BY <1>4 DEF IsSequence
<1> QED
  BY <1>2, <1>4, <1>5 DEF k

LEMMA BytesSequence ==
  ASSUME NEW m, NEW n \in Nat
  PROVE  IsSequence(Bytes(m, n))
<1> DEFINE S == {m[k - 1] : k \in 1 .. n}
<1>1. \A k \in 1 .. n : m[k - 1] \in S
  OBVIOUS
<1> HIDE DEF S
<1>2. Bytes(m, n) \in Seq(S)
  BY <1>1 DEF Bytes
<1> QED
  BY <1>2 DEF IsSequence

\* Written and still to be written add up to the announced length; the chunk at
\* hand is never longer than what is still to be written.
Balance ==
  ~Converting =>
    /\ IsSequence(recorded) /\ IsSequence(r_buff)
    /\ record_len \in Nat /\ r_pos \in Nat
    /\ r_pc \in {"none", "read", "write", "ended", "failed"}
    /\ r_pc \in {"none", "read", "ended"} => Len(recorded) + record_len = RecordLen
    /\ r_pc = "ended" => record_len = 0
    /\ r_pc = "write" =>
         /\ Len(r_buff) <= record_len /\ r_pos <= Len(r_buff)
         /\ Len(recorded) + record_len = RecordLen + r_pos

LEMMA SequenceLength == \A s : IsSequence(s) => Len(s) \in Nat
BY DEF IsSequence

LEMMA BalanceInit == Init => Balance
<1>1. IsSequence(<<>>) /\ Len(<<>>) = 0
  BY DEF IsSequence
<1> QED
  BY <1>1, LengthAssumption DEF Init, Balance

LEMMA PartOf ==
  ASSUME NEW n \in Nat, NEW k \in SomeOf(n)
  PROVE  k \in Nat /\ k <= n
BY LengthAssumption DEF SomeOf

LEMMA ReadBalance == Balance /\ Control /\ RecordRead => Balance'
<1> SUFFICES ASSUME Balance, Control, RecordRead PROVE Balance'
  OBVIOUS
<1>1. ~Converting /\ params' = params /\ recorded' = recorded /\ record_len' = record_len
      /\ r_pc = "read" /\ r_pc' = "write" /\ r_pos' = 0
  BY DEF RecordRead, Control, mvars
<1>2. IsSequence(recorded) /\ record_len \in Nat /\ Len(recorded) + record_len = RecordLen
  BY <1>1 DEF Balance
<1>3. IsSequence(r_buff') /\ Len(r_buff') \in Nat /\ Len(r_buff') <= record_len
  <2>1. PICK n \in Delivered :
          LET got == [i \in 1 .. n |-> heard + i]
              samples == IF Wide THEN wav_32bit_to_24bit(got) ELSE got
          IN  r_buff' = SubSeq(samples, 1, Min2(Len(samples), record_len))
    BY DEF RecordRead
  <2>2. n \in Nat
    <3> DEFINE asked == IF buffer_size > record_len THEN record_len ELSE buffer_size
    <3>1. asked \in Nat /\ asked \div 4 \in Nat
      BY <1>2, BufferAssumption
    <3>2. n \in SomeOf(asked) \/ \E k \in SomeOf(asked \div 4) : n = 4 * k
      BY DEF Delivered
    <3> HIDE DEF asked
    <3> QED
      BY <3>1, <3>2, PartOf
  <2> DEFINE got == [i \in 1 .. n |-> heard + i]
             samples == IF Wide THEN wav_32bit_to_24bit(got) ELSE got
  <2>3. got \in Seq({heard + i : i \in 1 .. n}) /\ Len(got) = n
    BY <2>2
  <2>4. IsSequence(got)
    BY <2>3 DEF IsSequence
  <2>5. Len(got) \div 4 \in Nat
    BY <2>2, <2>3
  <2>6. IsSequence(wav_32bit_to_24bit(got))
    <3> DEFINE w == 3 * (Len(got) \div 4)
    <3>1. w \in Nat
      <4>1. \A d \in Nat : 3 * d \in Nat
        OBVIOUS
      <4> QED
        BY <2>5, <4>1, Zenon
    <3>2. \E m : wav_32bit_to_24bit(got) = Bytes(m, w)
      BY Zenon DEF wav_32bit_to_24bit
    <3> QED
      BY <3>1, <3>2, BytesSequence
  <2>7. IsSequence(samples)
    BY <2>4, <2>6
  <2> HIDE DEF got, samples
  <2>8. r_buff' = SubSeq(samples, 1, Min2(Len(samples), record_len))
    BY <2>1 DEF samples, got
  <2> QED
    BY <1>2, <2>7, <2>8, ShortEnough
<1> QED
  BY <1>1, <1>2, <1>3 DEF Balance

LEMMA WriteBalance == Balance /\ Control /\ RecordWrite => Balance'
<1> SUFFICES ASSUME Balance, Control, RecordWrite PROVE Balance'
  OBVIOUS
<1>1. ~Converting /\ params' = params /\ r_buff' = r_buff /\ r_pc = "write"
  BY DEF RecordWrite, Control, mvars
<1>2. /\ IsSequence(recorded) /\ IsSequence(r_buff)
      /\ record_len \in Nat /\ r_pos \in Nat
      /\ Len(r_buff) <= record_len /\ r_pos <= Len(r_buff)
      /\ Len(recorded) + record_len = RecordLen + r_pos
  BY <1>1 DEF Balance
<1>3. Len(r_buff) \in Nat /\ Len(recorded) \in Nat
  BY <1>2, SequenceLength
<1>4. PICK n \in SomeOf(Len(r_buff) - r_pos) :
        recorded' = recorded \o SubSeq(r_buff, r_pos + 1, r_pos + n) /\ r_pos' = r_pos + n
  BY DEF RecordWrite
<1>5. n \in Nat /\ n <= Len(r_buff) - r_pos
  <2>1. Len(r_buff) - r_pos \in Nat
    BY <1>2, <1>3
  <2> QED
    BY <2>1, PartOf
<1>6. IsSequence(recorded') /\ Len(recorded') = Len(recorded) + n
  <2>1. r_pos + n <= Len(r_buff)
    BY <1>2, <1>3, <1>5
  <2>2. /\ IsSequence(recorded \o SubSeq(r_buff, r_pos + 1, r_pos + n))
        /\ Len(recorded \o SubSeq(r_buff, r_pos + 1, r_pos + n)) = Len(recorded) + n
    <3>1. IsSequence(recorded) /\ IsSequence(r_buff) /\ r_pos \in Nat /\ n \in Nat
      BY <1>2, <1>5
    <3> QED
      BY ONLY <2>1, <3>1, Appended, ZenonT(60)
  <2>3. recorded' = recorded \o SubSeq(r_buff, r_pos + 1, r_pos + n)
    BY <1>4
  <2> QED
    BY ONLY <2>2, <2>3
<1>7. r_pos' \in Nat /\ r_pos' <= Len(r_buff) /\ Len(recorded') + record_len = RecordLen + r_pos'
  <2>1. /\ RecordLen \in Nat /\ r_pos \in Nat /\ record_len \in Nat
        /\ Len(r_buff) \in Nat /\ Len(recorded) \in Nat
    BY <1>2, <1>3, LengthAssumption
  <2>2. r_pos' = r_pos + n /\ Len(recorded') = Len(recorded) + n
    BY <1>4, <1>6
  <2>3. Len(recorded) + record_len = RecordLen + r_pos
    BY <1>2
  <2> QED
    BY ONLY <1>5, <2>1, <2>2, <2>3
<1>8. CASE r_pos' = Len(r_buff)
  <2>1. r_pc' = "read" /\ record_len' = record_len - Len(r_buff)
    BY <1>8 DEF RecordWrite
  <2>2. record_len' \in Nat /\ Len(recorded') + record_len' = RecordLen
    <3>1. RecordLen \in Nat /\ record_len \in Nat /\ Len(r_buff) \in Nat /\ Len(recorded') \in Nat
      BY <1>2, <1>3, <1>6, LengthAssumption, SequenceLength
    <3>2. Len(r_buff) <= record_len
      BY <1>2
    <3> QED
      BY ONLY <1>7, <1>8, <2>1, <3>1, <3>2
  <2> QED
    BY <1>1, <1>2, <1>6, <1>7, <2>1, <2>2 DEF Balance
<1>9. CASE r_pos' # Len(r_buff)
  <2>1. r_pc' = r_pc /\ record_len' = record_len
    BY <1>9 DEF RecordWrite
  <2> QED
    BY <1>1, <1>2, <1>6, <1>7, <2>1 DEF Balance
<1> QED
  BY <1>8, <1>9

\* What a step must leave alone for Balance to stay.
LEMMA Frame ==
  Balance /\ UNCHANGED <<params, recorded, r_buff, record_len, r_pos, r_pc>> => Balance'
BY DEF Balance, Converting

LEMMA BalanceStep == Balance /\ Control /\ [Next]_vars => Balance'
<1> SUFFICES ASSUME Balance, Control, [Next]_vars PROVE Balance'
  OBVIOUS
<1>1. CASE RecordRead
  BY <1>1, ReadBalance
<1>2. CASE RecordWrite
  BY <1>2, WriteBalance
<1>3. CASE RecordEnds \/ RecordFails
  <2>1. UNCHANGED <<params, recorded, r_buff, record_len, r_pos>>
    BY <1>3 DEF RecordEnds, RecordFails, mvars
  <2>2. (r_pc' = "failed") \/ (r_pc = "read" /\ r_pc' = "ended" /\ record_len <= 0)
    BY <1>3 DEF RecordEnds, RecordFails
  <2> QED
    BY <2>1, <2>2 DEF Balance, Converting
<1>4. CASE StartRecord
  BY <1>4 DEF StartRecord, pvars, Balance, Control, Converting
<1>5. CASE (Main /\ ~StartRecord) \/ Play \/ SetupFails \/ PlayFails \/ UNCHANGED vars
  <2>1. UNCHANGED <<params, recorded, r_buff, record_len, r_pos, r_pc>>
    BY <1>5 DEF Main, Play, StartReplay, Join, PlayRead, PlayWrite, PlayEnds, SetupFails,
                PlayFails, vars, mvars, pvars, rvars
  <2> QED
    BY <2>1, Frame
<1>6. CASE Copy \/ CopyFails
  <2>1. Converting /\ params' = params
    BY <1>6 DEF Copy, CopyStarts, CopyRead, CopyWrite, CopyEnds, CopyFails, Control, mvars
  <2> QED
    BY <2>1 DEF Balance, Converting
<1> QED
  BY <1>1, <1>2, <1>3, <1>4, <1>5, <1>6 DEF Next, Record, Main

---------------------------------------------------------------------------
(* What is played, recorded and converted: byte by byte, what was written  *)
(* and what is left of the chunk continue one stream.                      *)

\* s, and then what follows place p of t, begin the stream f.
Continues(s, t, p, f) ==
  /\ s \in Seq(Nat) /\ t \in Seq(Nat) /\ p \in Nat /\ p <= Len(t) /\ p <= Len(s)
  /\ \A i \in 1 .. Len(s) : s[i] = f[i]
  /\ \A i \in 1 .. Len(t) : t[i] = f[Len(s) - p + i]

Positive == Nat \ {0}
SameBytes == [k \in Positive |-> k]
WideBytes == [k \in Positive |-> IF k % 4 = 0 THEN Pad ELSE 3 * ((k - 1) \div 4) + (k % 4)]
NarrowBytes == [k \in Positive |-> 4 * ((k - 1) \div 3) + ((k - 1) % 3) + 1]

\* What the device is to get for the first n bytes of the file.
SoundLength(n) == IF Wide THEN 4 * (n \div 3) ELSE n

States == {"none", "read", "write", "ended", "failed"}

SndkitTyped ==
  /\ params \in Params /\ ret \in {0, -1} /\ p_pc \in States /\ r_pc \in States
  /\ at \in Nat /\ at <= params.size /\ params.size \in Nat /\ DataLen \in Int
  /\ replay_data_len \in Int /\ heard \in Nat

\* The chunk at hand was written, unless it is being.
Written ==
  p_pc \in {"none", "ended"} \/ (p_pc = "read" /\ main # "aborted") => p_pos = Len(p_buff)

\* What was played and the rest of the chunk are the sound of the bytes read, which
\* end with a sample.
Sounds ==
  /\ Continues(played, p_buff, p_pos, IF Wide THEN WideBytes ELSE SameBytes)
  /\ Len(played) + Len(p_buff) = SoundLength(at) + p_pos
  /\ Wide => at = params.size \/ \E c \in Nat : at = 3 * c

PlayInv ==
  /\ Converting => played = <<>>
  /\ ~Converting =>
       /\ played \in Seq(Nat) /\ p_buff \in Seq(Nat) /\ p_pos \in Nat /\ p_pos <= Len(p_buff)
       /\ Aligned => Sounds
       /\ ~forever => replay_data_len = DataLen - at
       /\ p_pc = "ended" => at = params.size \/ (~forever /\ at >= DataLen)

RecordInv ==
  /\ Converting => r_buff = <<>> /\ r_pos = 0 /\ record_len = RecordLen
  /\ ~Converting =>
       /\ Continues(recorded, r_buff, r_pos, IF Wide THEN NarrowBytes ELSE SameBytes)
       /\ r_pc \in {"none", "read"} => r_pos = Len(r_buff)
       /\ Len(recorded) <= RecordLen /\ record_len <= RecordLen
       /\ Wide => \E c \in Nat : heard = 4 * c /\ Len(recorded) + Len(r_buff) = 3 * c + r_pos
       /\ ~Wide => Len(recorded) + Len(r_buff) = heard + r_pos

CopyInv ==
  Converting =>
    /\ Continues(recorded, p_buff, p_pos, SameBytes)
    /\ Len(recorded) + Len(p_buff) = at + p_pos
    /\ params.mode = "makewav" => replay_data_len = params.size - at
    /\ main \in {"setup", "copy"} => ret = 0
    /\ main = "returned" /\ ret = 0 /\ params.mode = "makewav" => p_pc = "ended" /\ at = params.size
    /\ params.mode = "strip" => replay_data_len = DataLen - at
    /\ p_pc = "ended" /\ params.mode = "strip" => at = params.size \/ at >= DataLen

SndkitInv == SndkitTyped /\ Written /\ PlayInv /\ RecordInv /\ CopyInv

---------------------------------------------------------------------------
\* A part of the chunk is written: the stream is continued.
LEMMA WriteContinues ==
  ASSUME NEW s, NEW t, NEW p, NEW f, Continues(s, t, p, f), NEW n \in Nat, n <= Len(t) - p
  PROVE  /\ Continues(s \o SubSeq(t, p + 1, p + n), t, p + n, f)
         /\ Len(s \o SubSeq(t, p + 1, p + n)) = Len(s) + n
<1>. DEFINE part == SubSeq(t, p + 1, p + n)
            len == Len(s)
            max == Len(t)
<1>1. /\ s \in Seq(Nat) /\ t \in Seq(Nat) /\ p \in Nat /\ p <= len /\ len \in Nat /\ max \in Nat
      /\ n <= max - p
  BY DEF Continues
<1>2. part \in Seq(Nat) /\ Len(part) = n
  BY <1>1
<1>3. \A i \in 1 .. n : part[i] = t[p + i]
  BY <1>1
<1>4. s \o part \in Seq(Nat) /\ Len(s \o part) = len + n
  BY <1>1, <1>2
<1>. HIDE DEF part, len
<1>5. ASSUME NEW i \in 1 .. len + n PROVE (s \o part)[i] = f[i]
  <2>1. CASE i <= len
    <3>1. i \in 1 .. len /\ (s \o part)[i] = s[i]
      BY <1>1, <1>2, <2>1 DEF len
    <3>. QED
      BY <3>1 DEF Continues, len
  <2>2. CASE i > len
    <3>. DEFINE d == i - len
    <3>1. d \in 1 .. n /\ p + d \in 1 .. max /\ len - p + (p + d) = i
      BY <1>1, <2>2
    <3>2. (s \o part)[i] = part[d]
      BY <1>1, <1>2, <2>2 DEF len
    <3>. HIDE DEF d
    <3>3. t[p + d] = f[len - p + (p + d)]
      BY <3>1 DEF Continues, len
    <3>. QED
      BY <1>3, <3>1, <3>2, <3>3
  <2>3. i <= len \/ i > len
    BY <1>1
  <2>. QED
    BY <2>1, <2>2, <2>3, Zenon
<1>6. \A i \in 1 .. max : t[i] = f[(len + n) - (p + n) + i]
  <2>1. (len + n) - (p + n) = len - p
    BY <1>1
  <2>. QED
    BY <2>1 DEF Continues, len
<1>7. p + n \in Nat /\ p + n <= max /\ p + n <= len + n
  BY <1>1
<1>8. Continues(s \o part, t, p + n, f)
  BY <1>1, <1>4, <1>5, <1>6, <1>7 DEF Continues
<1>. QED
  BY <1>4, <1>8 DEF part, len

\* The next chunk is read, what was before it being written.
LEMMA ReadContinues ==
  ASSUME NEW s, NEW t, NEW p, NEW f, Continues(s, t, p, f),
         NEW u \in Seq(Nat), \A i \in 1 .. Len(u) : u[i] = f[Len(s) + i]
  PROVE  Continues(s, u, 0, f)
<1>1. s \in Seq(Nat) /\ Len(s) \in Nat /\ \A i \in 1 .. Len(s) : s[i] = f[i]
  BY DEF Continues
<1>2. Len(s) - 0 = Len(s) /\ 0 <= Len(u)
  BY <1>1
<1>. QED
  BY <1>1, <1>2 DEF Continues

LEMMA OpeningOf ==
  ASSUME NEW s \in Seq(Nat), NEW n \in Nat, NEW w, w = [i \in 1 .. n |-> w[i]],
         \A i \in 1 .. n : w[i] \in Nat, Len(s) <= n, \A i \in 1 .. Len(s) : s[i] = w[i]
  PROVE  Opening(s, w)
<1>. DEFINE len == Len(s)
            begin == SubSeq(w, 1, len)
<1>1. w \in Seq(Nat) /\ Len(w) = n /\ len \in Nat /\ len <= n
  OBVIOUS
<1>2. begin \in Seq(Nat) /\ Len(begin) = len
  BY <1>1, SMTT(60)
<1>3. \A i \in 1 .. len : begin[i] = w[i]
  BY <1>1
<1>. HIDE DEF begin
<1>4. s = begin
  <2>1. s = [i \in 1 .. len |-> s[i]] /\ begin = [i \in 1 .. len |-> begin[i]]
    BY <1>1, <1>2
  <2>2. \A i \in 1 .. len : s[i] = begin[i]
    BY <1>3
  <2>. HIDE DEF len
  <2>. QED
    BY <2>1, <2>2
<1>. QED
  BY <1>1, <1>4 DEF Opening, begin

---------------------------------------------------------------------------
LEMMA SequenceOf ==
  ASSUME NEW s, NEW n \in Nat, s = [i \in 1 .. n |-> s[i]], \A i \in 1 .. n : s[i] \in Nat
  PROVE  s \in Seq(Nat) /\ Len(s) = n
OBVIOUS

\* A chunk, widened: of each sample the three bytes, and a fourth.
LEMMA WidePiece ==
  ASSUME at \in Nat, NEW n \in Nat
  PROVE  LET u == wav_expand_24bit_to_32bit(Chunk((n \div 3) * 3))
         IN  /\ u \in Seq(Nat) /\ Len(u) = 4 * (n \div 3)
             /\ \A i \in 1 .. Len(u) :
                  u[i] = IF i % 4 = 0 THEN Pad ELSE at + (3 * ((i - 1) \div 4) + (i % 4))
<1>. DEFINE w == n \div 3
            whole == Chunk(w * 3)
            u == wav_expand_24bit_to_32bit(whole)
<1>1. w \in Nat
  OBVIOUS
<1>. HIDE DEF w
<1>2. /\ whole \in Seq(Nat) /\ Len(whole) = 3 * w
      /\ \A i \in 1 .. 3 * w : whole[i] = at + i
  BY <1>1 DEF Chunk
<1>. HIDE DEF whole
<1>3. Len(whole) \div 3 = w
  BY <1>1, <1>2
<1>4. u = [i \in 1 .. 4 * w |->
             IF i % 4 = 0 THEN Pad ELSE whole[3 * ((i - 1) \div 4) + (i % 4)]]
  BY <1>2, <1>3, ExpandCorrect, Zenon
<1>5. ASSUME NEW i \in 1 .. 4 * w
      PROVE  /\ u[i] \in Nat
             /\ u[i] = IF i % 4 = 0 THEN Pad ELSE at + (3 * ((i - 1) \div 4) + (i % 4))
  <2>. DEFINE a == 3 * ((i - 1) \div 4) + (i % 4)
  <2>1. u[i] = IF i % 4 = 0 THEN Pad ELSE whole[a]
    BY <1>4
  <2>2. CASE i % 4 = 0
    BY <2>1, <2>2 DEF Pad
  <2>3. CASE i % 4 # 0
    <3>1. a \in 1 .. 3 * w
      BY <1>1, <2>3
    <3>. HIDE DEF a
    <3>2. whole[a] = at + a /\ at + a \in Nat
      BY <1>2, <3>1
    <3>. QED
      BY <2>1, <2>3, <3>2 DEF a
  <2>. QED
    BY <2>2, <2>3
<1>. HIDE DEF u
<1>6. u \in Seq(Nat) /\ Len(u) = 4 * w
  <2>1. 4 * w \in Nat
    BY <1>1
  <2>2. u = [i \in 1 .. 4 * w |-> u[i]]
    BY <1>4
  <2>. QED
    BY <2>1, <2>2, <1>5, SequenceOf
<1>. QED
  BY <1>5, <1>6 DEF u, whole, w

\* A chunk that begins with a sample, widened, continues the sound.
LEMMA WideChunk ==
  ASSUME NEW c \in Nat, at = 3 * c, NEW n \in Nat
  PROVE  LET u == wav_expand_24bit_to_32bit(Chunk((n \div 3) * 3))
         IN  /\ u \in Seq(Nat) /\ Len(u) = 4 * (n \div 3)
             /\ \A i \in 1 .. Len(u) : u[i] = WideBytes[4 * c + i]
<1>. DEFINE u == wav_expand_24bit_to_32bit(Chunk((n \div 3) * 3))
<1>1. /\ u \in Seq(Nat) /\ Len(u) = 4 * (n \div 3)
      /\ \A i \in 1 .. Len(u) :
           u[i] = IF i % 4 = 0 THEN Pad ELSE at + (3 * ((i - 1) \div 4) + (i % 4))
  <2>1. at \in Nat
    OBVIOUS
  <2>. QED
    BY <2>1, WidePiece, Zenon
<1>. HIDE DEF u
<1>2. ASSUME NEW i \in 1 .. Len(u) PROVE u[i] = WideBytes[4 * c + i]
  <2>1. i \in Nat /\ i > 0
    BY <1>1
  <2>2. 4 * c + i \in Positive /\ (4 * c + i) % 4 = i % 4
        /\ (4 * c + i - 1) \div 4 = c + (i - 1) \div 4
    BY <2>1 DEF Positive
  <2>3. WideBytes[4 * c + i] = IF i % 4 = 0 THEN Pad
                               ELSE 3 * c + (3 * ((i - 1) \div 4) + (i % 4))
    BY <2>1, <2>2 DEF WideBytes
  <2>. QED
    BY <1>1, <2>3
<1>. QED
  BY <1>1, <1>2 DEF u

LEMMA SameChunk ==
  ASSUME at \in Nat, NEW n \in Nat
  PROVE  /\ Chunk(n) \in Seq(Nat) /\ Len(Chunk(n)) = n
         /\ \A i \in 1 .. n : Chunk(n)[i] = SameBytes[at + i]
BY DEF Chunk, SameBytes, Positive

\* Three bytes of each sample that the device delivered.
LEMMA NarrowChunk ==
  ASSUME NEW c \in Nat, NEW w \in Nat, NEW got \in Seq(Nat), Len(got) = 4 * w,
         \A i \in 1 .. 4 * w : got[i] = 4 * c + i
  PROVE  LET u == wav_32bit_to_24bit(got)
         IN  /\ u \in Seq(Nat) /\ Len(u) = 3 * w
             /\ \A i \in 1 .. Len(u) : u[i] = NarrowBytes[3 * c + i]
<1>. DEFINE u == wav_32bit_to_24bit(got)
<1>1. Len(got) \div 4 = w
  OBVIOUS
<1>2. u = [i \in 1 .. 3 * (Len(got) \div 4) |-> got[4 * ((i - 1) \div 3) + ((i - 1) % 3) + 1]]
  BY NarrowCorrect, Zenon
<1>3. u = [i \in 1 .. 3 * w |-> got[4 * ((i - 1) \div 3) + ((i - 1) % 3) + 1]]
  BY <1>1, <1>2, Zenon
<1>4. ASSUME NEW i \in 1 .. 3 * w
      PROVE  u[i] \in Nat /\ u[i] = NarrowBytes[3 * c + i]
  <2>. DEFINE a == 4 * ((i - 1) \div 3) + ((i - 1) % 3) + 1
  <2>1. /\ 3 * c + i \in Positive /\ (3 * c + i - 1) % 3 = (i - 1) % 3
        /\ (3 * c + i - 1) \div 3 = c + (i - 1) \div 3
    BY DEF Positive
  <2>2. NarrowBytes[3 * c + i] = 4 * c + a
    BY <2>1 DEF NarrowBytes
  <2>3. u[i] = got[a]
    BY <1>3
  <2>4. a \in 1 .. 4 * w
    OBVIOUS
  <2>. HIDE DEF a
  <2>5. got[a] = 4 * c + a /\ 4 * c + a \in Nat
    BY <2>4
  <2>. QED
    BY <2>2, <2>3, <2>5
<1>. HIDE DEF u
<1>5. u \in Seq(Nat) /\ Len(u) = 3 * w
  <2>1. 3 * w \in Nat
    OBVIOUS
  <2>2. u = [i \in 1 .. 3 * w |-> u[i]]
    BY <1>3
  <2>. QED
    BY <2>1, <2>2, <1>4, SequenceOf
<1>. QED
  BY <1>4, <1>5 DEF u

---------------------------------------------------------------------------
\* The parts of the invariant that a step leaves alone.
LEMMA PlayFrame ==
  ASSUME PlayInv, UNCHANGED <<params, p_pc, at, replay_data_len, p_buff, p_pos, played>>
  PROVE  PlayInv'
BY DEF PlayInv, Aligned, Sounds, Converting, Wide, forever, DataLen, SoundLength

LEMMA RecordFrame ==
  ASSUME RecordInv,
         UNCHANGED <<params, r_pc, heard, record_len, r_buff, r_pos>>,
         Converting \/ UNCHANGED recorded
  PROVE  RecordInv'
BY DEF RecordInv, Converting, Wide

LEMMA CopyFrame ==
  ASSUME ~Converting, params' = params PROVE CopyInv'
BY DEF CopyInv, Converting

\* What play reads next: a part of the file, of which whole samples stay.
LEMMA PlayReads ==
  ASSUME SndkitInv, Control, PlayRead
  PROVE  \E n \in Nat :
           /\ n <= Left /\ (params.type # "raw" => n = Left)
           /\ at' = at + n /\ at + n <= params.size
           /\ replay_data_len' = IF forever THEN replay_data_len ELSE replay_data_len - n
           /\ p_buff' = IF Wide THEN wav_expand_24bit_to_32bit(Chunk((n \div 3) * 3)) ELSE Chunk(n)
           /\ p_buff' \in Seq(Nat)
           /\ \/ p_pc' = (IF Len(p_buff') > 0 THEN "write" ELSE "read") /\ UNCHANGED main
              \/ main' = "aborted" /\ UNCHANGED p_pc
<1>. DEFINE whole(n) == Chunk((n \div 3) * 3)
<1>1. PICK n \in ReadSizes :
        /\ at' = at + n
        /\ replay_data_len' = IF forever THEN replay_data_len ELSE replay_data_len - n
        /\ p_buff' = IF Wide THEN wav_expand_24bit_to_32bit(whole(n)) ELSE Chunk(n)
        /\ \/ p_pc' = (IF Len(p_buff') > 0 THEN "write" ELSE "read") /\ UNCHANGED main
           \/ Wide /\ ~Asserted(whole(n)) /\ main' = "aborted" /\ UNCHANGED p_pc
  BY DEF PlayRead
<1>2. at \in Nat /\ at <= params.size /\ params.size \in Nat
  BY DEF SndkitInv, SndkitTyped
<1>3. Left \in Nat /\ at + Left <= params.size
  <2>1. buffer_size \in Nat
    BY BufferAssumption
  <2>. QED
    BY <1>2, <2>1 DEF Left, Min2
<1>4. n \in Nat /\ n <= Left /\ (params.type # "raw" => n = Left)
  BY <1>3, PartOf DEF ReadSizes
<1>5. at + n <= params.size
  BY <1>2, <1>3, <1>4
<1>6. p_buff' \in Seq(Nat)
  <2>1. CASE Wide
    BY <1>1, <1>2, <1>4, <2>1, WidePiece
  <2>2. CASE ~Wide
    BY <1>1, <1>2, <1>4, <2>2, SameChunk
  <2>. QED
    BY <2>1, <2>2
<1>. QED
  BY <1>1, <1>4, <1>5, <1>6

\* A buffer that holds whole samples keeps the chunks in step with the sound.
LEMMA PlayReadSounds ==
  ASSUME SndkitInv, Control, PlayRead, Aligned
  PROVE  Sounds'
<1>. DEFINE f == IF Wide THEN WideBytes ELSE SameBytes
            whole(n) == Chunk((n \div 3) * 3)
<1>1. /\ main \in {"record", "join"} /\ ~Converting /\ p_pc = "read" /\ Left > 0
      /\ params' = params /\ played' = played /\ p_pos' = 0
  BY DEF PlayRead, Playing, Control, rvars
<1>2. PICK n \in Nat :
        /\ n <= Left /\ (params.type # "raw" => n = Left)
        /\ at' = at + n /\ at + n <= params.size
        /\ p_buff' = IF Wide THEN wav_expand_24bit_to_32bit(whole(n)) ELSE Chunk(n)
  BY PlayReads
<1>3. at \in Nat /\ at <= params.size /\ params.size \in Nat
  BY DEF SndkitInv, SndkitTyped
<1>4. buffer_size \in Nat /\ (Left = buffer_size \/ at + Left = params.size) /\ Left \in Nat
  <2>1. buffer_size \in Nat
    BY BufferAssumption
  <2>. QED
    BY <1>3, <2>1 DEF Left, Min2
<1>7. /\ Continues(played, p_buff, p_pos, f)
      /\ Len(played) + Len(p_buff) = SoundLength(at) + p_pos
      /\ Wide => at = params.size \/ \E c \in Nat : at = 3 * c
  BY <1>1 DEF SndkitInv, PlayInv, Sounds
<1>8. p_pos = Len(p_buff)
  BY <1>1 DEF SndkitInv, Written
<1>9. Len(played) = SoundLength(at) /\ Len(played) \in Nat /\ p_pos \in Nat
  <2>1. played \in Seq(Nat) /\ p_pos \in Nat
    BY <1>7 DEF Continues
  <2>2. SoundLength(at) \in Nat
    BY <1>3 DEF SoundLength
  <2>3. Len(played) \in Nat
    BY <2>1
  <2>. HIDE DEF f
  <2>. QED
    BY <1>7, <1>8, <2>1, <2>2, <2>3
<1>. HIDE DEF f, whole
<1>10. /\ p_buff' \in Seq(Nat) /\ \A i \in 1 .. Len(p_buff') : p_buff'[i] = f[Len(played) + i]
       /\ Len(played) + Len(p_buff') = SoundLength(at + n)
       /\ Wide => at + n = params.size \/ \E c \in Nat : at + n = 3 * c
  <2>1. CASE Wide
    <3>1. params.type # "raw"
      BY <2>1 DEF Wide
    <3>2. at # params.size
      BY <1>1, <1>3, <1>4 DEF Left, Min2
    <3>3. PICK c \in Nat : at = 3 * c
      BY <1>7, <2>1, <3>2
    <3>. DEFINE u == wav_expand_24bit_to_32bit(Chunk((n \div 3) * 3))
    <3>4. /\ u \in Seq(Nat) /\ Len(u) = 4 * (n \div 3)
          /\ \A i \in 1 .. Len(u) : u[i] = WideBytes[4 * c + i]
      BY <1>2, <3>3, WideChunk
    <3>5. p_buff' = u
      BY <1>2, <2>1 DEF whole
    <3>. HIDE DEF u
    <3>6. Len(played) = 4 * c /\ f = WideBytes
      <4>1. SoundLength(at) = 4 * c
        BY <2>1, <3>3 DEF SoundLength
      <4>. QED
        BY <1>9, <2>1, <4>1 DEF f
    <3>7. SoundLength(at + n) = 4 * c + 4 * (n \div 3)
      BY <1>2, <2>1, <3>3 DEF SoundLength
    <3>8. at + n = params.size \/ \E d \in Nat : at + n = 3 * d
      <4>1. CASE at + Left = params.size
        BY <1>2, <3>1, <4>1
      <4>2. CASE Left = buffer_size
        <5>1. buffer_size % 3 = 0
          BY <2>1 DEF Aligned
        <5>2. buffer_size = 3 * (buffer_size \div 3) /\ buffer_size \div 3 \in Nat
          BY <1>4, <5>1
        <5>3. at + n = 3 * (c + buffer_size \div 3) /\ c + buffer_size \div 3 \in Nat
          BY <1>2, <3>1, <3>3, <4>2, <5>2
        <5>. QED
          BY <5>3
      <4>. QED
        BY <1>4, <4>1, <4>2
    <3>. QED
      BY <3>4, <3>5, <3>6, <3>7, <3>8
  <2>2. CASE ~Wide
    <3>1. /\ p_buff' \in Seq(Nat) /\ Len(p_buff') = n
          /\ \A i \in 1 .. n : p_buff'[i] = SameBytes[at + i]
      BY <1>2, <1>3, <2>2, SameChunk
    <3>2. Len(played) = at /\ f = SameBytes /\ SoundLength(at + n) = at + n
      BY <1>9, <2>2 DEF SoundLength, f
    <3>. QED
      BY <2>2, <3>1, <3>2
  <2>. QED
    BY <2>1, <2>2
<1>11. Continues(played, p_buff', 0, f)
  BY <1>7, <1>10, ReadContinues
<1>12. UNCHANGED <<Wide, f>> /\ SoundLength(at)' = SoundLength(at + n)
  BY <1>1, <1>2 DEF Wide, f, SoundLength
<1>13. Len(played') + Len(p_buff') = SoundLength(at)' + p_pos'
  <2>1. Len(played) \in Nat /\ Len(p_buff') \in Nat
    BY <1>9, <1>10
  <2>. QED
    BY <1>1, <1>10, <1>12, <2>1
<1>14. Continues(played', p_buff', p_pos', f')
  BY <1>1, <1>11, <1>12
<1>15. Wide' => at' = params'.size \/ \E c \in Nat : at' = 3 * c
  BY <1>1, <1>2, <1>10, <1>12
<1>. QED
  BY <1>13, <1>14, <1>15 DEF Sounds, f

LEMMA PlayReadKeeps ==
  ASSUME SndkitInv, Control, PlayRead PROVE SndkitInv'
<1>1. /\ main \in {"record", "join"} /\ ~Converting /\ p_pc = "read"
      /\ params' = params /\ ret' = ret /\ played' = played /\ p_pos' = 0
      /\ UNCHANGED <<r_pc, heard, record_len, r_buff, r_pos, recorded>>
  BY DEF PlayRead, Playing, Control, rvars
<1>2. PICK n \in Nat :
        /\ at' = at + n /\ at + n <= params.size
        /\ replay_data_len' = IF forever THEN replay_data_len ELSE replay_data_len - n
        /\ p_buff' \in Seq(Nat)
        /\ \/ p_pc' = (IF Len(p_buff') > 0 THEN "write" ELSE "read") /\ UNCHANGED main
           \/ main' = "aborted" /\ UNCHANGED p_pc
  BY PlayReads
<1>3. /\ params \in Params /\ at \in Nat /\ params.size \in Nat
      /\ DataLen \in Int /\ replay_data_len \in Int /\ ret \in {0, -1} /\ r_pc \in States
      /\ heard \in Nat
  BY DEF SndkitInv, SndkitTyped
<1>4. played \in Seq(Nat) /\ (~forever => replay_data_len = DataLen - at)
  BY <1>1 DEF SndkitInv, PlayInv
<1>5. Len(p_buff') \in Nat
  BY <1>2
<1>6. p_pc' \in {"read", "write"} /\ (p_pc' = "read" /\ main' # "aborted" => Len(p_buff') = 0)
  BY <1>1, <1>2, <1>5
<1>7. UNCHANGED <<Converting, Wide, forever, DataLen, Aligned>>
  BY <1>1 DEF Converting, Wide, forever, DataLen, Aligned
<1>8. ~forever => replay_data_len' = DataLen - at'
  BY <1>2, <1>3, <1>4
<1>9. at' \in Nat /\ replay_data_len' \in Int
  BY <1>2, <1>3
<1>10. SndkitTyped'
  BY <1>1, <1>2, <1>3, <1>6, <1>7, <1>9 DEF SndkitTyped, States
<1>11. Written'
  BY <1>1, <1>6 DEF Written
<1>12. PlayInv'
  <2>1. played' \in Seq(Nat) /\ p_buff' \in Seq(Nat) /\ p_pos' \in Nat /\ p_pos' <= Len(p_buff')
    BY <1>1, <1>2, <1>4, <1>5
  <2>2. Aligned' => Sounds'
    BY <1>7, PlayReadSounds
  <2>3. ~forever' => replay_data_len' = DataLen' - at'
    BY <1>7, <1>8
  <2>4. ~Converting' /\ p_pc' # "ended"
    BY <1>1, <1>6, <1>7
  <2>. QED
    BY <2>1, <2>2, <2>3, <2>4 DEF PlayInv
<1>13. RecordInv' /\ CopyInv'
  BY <1>1, RecordFrame, CopyFrame DEF SndkitInv
<1>. QED
  BY <1>10, <1>11, <1>12, <1>13 DEF SndkitInv

\* The device takes a part of the chunk.
LEMMA PlayWriteKeeps ==
  ASSUME SndkitInv, Control, PlayWrite PROVE SndkitInv'
<1>. DEFINE f == IF Wide THEN WideBytes ELSE SameBytes
<1>1. /\ main \in {"record", "join"} /\ ~Converting /\ p_pc = "write"
      /\ p_pc' = IF p_pos' = Len(p_buff) THEN "read" ELSE "write"
      /\ UNCHANGED <<params, main, ret, at, replay_data_len, p_buff>>
      /\ UNCHANGED <<r_pc, heard, record_len, r_buff, r_pos, recorded>>
  BY DEF PlayWrite, Playing, Control, mvars, rvars
<1>2. PICK n \in SomeOf(Len(p_buff) - p_pos) :
        played' = played \o SubSeq(p_buff, p_pos + 1, p_pos + n) /\ p_pos' = p_pos + n
  BY DEF PlayWrite
<1>3. /\ played \in Seq(Nat) /\ p_buff \in Seq(Nat) /\ p_pos \in Nat /\ p_pos <= Len(p_buff)
      /\ ~forever => replay_data_len = DataLen - at
      /\ Aligned => Sounds
  BY <1>1 DEF SndkitInv, PlayInv
<1>. HIDE DEF f
<1>4. Len(played) \in Nat /\ Len(p_buff) \in Nat
  BY <1>3
<1>5. n \in Nat /\ n <= Len(p_buff) - p_pos
  <2>1. Len(p_buff) - p_pos \in Nat
    BY <1>3, <1>4
  <2>. QED
    BY <2>1, PartOf
<1>6. played' \in Seq(Nat) /\ p_pos' \in Nat /\ p_pos' <= Len(p_buff)
  <2>1. \A i \in p_pos + 1 .. p_pos + n : i \in 1 .. Len(p_buff)
    BY <1>3, <1>4, <1>5
  <2>2. SubSeq(p_buff, p_pos + 1, p_pos + n) \in Seq(Nat)
    BY <1>3, <1>4, <1>5, <2>1
  <2>. QED
    BY <1>2, <1>3, <1>4, <1>5, <2>2
<1>7. UNCHANGED <<Converting, Wide, forever, DataLen, f, SoundLength(at), Aligned>>
  BY <1>1 DEF Converting, Wide, forever, DataLen, f, SoundLength, Aligned
<1>8. ASSUME Aligned PROVE Sounds'
  <2>0. /\ Continues(played, p_buff, p_pos, f)
        /\ Len(played) + Len(p_buff) = SoundLength(at) + p_pos
        /\ Wide => at = params.size \/ \E c \in Nat : at = 3 * c
    BY <1>3, <1>8 DEF Sounds, f
  <2>1. Continues(played', p_buff', p_pos', f) /\ Len(played') = Len(played) + n
    <3>1. /\ Continues(played \o SubSeq(p_buff, p_pos + 1, p_pos + n), p_buff, p_pos + n, f)
          /\ Len(played \o SubSeq(p_buff, p_pos + 1, p_pos + n)) = Len(played) + n
      <4>1. Continues(played, p_buff, p_pos, f) /\ n \in Nat /\ n <= Len(p_buff) - p_pos
        BY <1>5, <2>0
      <4>. QED
        BY ONLY <4>1, WriteContinues, ZenonT(60)
    <3>. QED
      BY <1>1, <1>2, <3>1
  <2>2. Len(played') + Len(p_buff') = SoundLength(at) + p_pos'
    <3>1. SoundLength(at) \in Nat
      BY DEF SoundLength, SndkitInv, SndkitTyped
    <3>2. /\ p_buff' = p_buff /\ p_pos' = p_pos + n /\ Len(played') = Len(played) + n
          /\ Len(played) + Len(p_buff) = SoundLength(at) + p_pos
      BY <1>1, <1>2, <2>0, <2>1
    <3>. QED
      BY ONLY <3>1, <3>2, <1>3, <1>4, <1>5, SMTT(60)
  <2>. QED
    BY <1>1, <1>7, <2>0, <2>1, <2>2 DEF Sounds, f
<1>9. SndkitTyped' /\ Written'
  BY <1>1, <1>7 DEF SndkitInv, SndkitTyped, States, Written
<1>10. PlayInv'
  BY <1>1, <1>3, <1>6, <1>7, <1>8 DEF PlayInv
<1>11. RecordInv' /\ CopyInv'
  BY <1>1, RecordFrame, CopyFrame DEF SndkitInv
<1>. QED
  BY <1>9, <1>10, <1>11 DEF SndkitInv

\* Playing ends with the data chunk or with the file.
LEMMA PlayEndsKeeps ==
  ASSUME SndkitInv, Control, PlayEnds \/ PlayFails PROVE SndkitInv'
<1>1. /\ main \in {"record", "join"} /\ ~Converting
      /\ UNCHANGED <<params, main, ret, at, replay_data_len, p_buff, p_pos, played>>
      /\ UNCHANGED <<r_pc, heard, record_len, r_buff, r_pos, recorded>>
      /\ \/ p_pc' = "failed"
         \/ /\ p_pc = "read" /\ p_pc' = "ended"
            /\ (~forever /\ replay_data_len <= 0) \/ Left = 0
  BY DEF PlayEnds, PlayFails, Playing, Control, mvars, rvars
<1>2. p_pc' = "ended" => at = params.size \/ (~forever /\ at >= DataLen)
  <2>1. /\ buffer_size \in Nat /\ buffer_size # 0 /\ at \in Nat /\ params.size \in Nat
        /\ DataLen \in Int /\ (~forever => replay_data_len = DataLen - at)
    BY <1>1, BufferAssumption DEF SndkitInv, SndkitTyped, PlayInv
  <2>. QED
    BY <1>1, <2>1 DEF Left, Min2
<1>3. SndkitTyped' /\ Written'
  BY <1>1 DEF SndkitInv, SndkitTyped, States, Written, DataLen
<1>4. PlayInv'
  <2>1. UNCHANGED <<Converting, forever, DataLen, Aligned, Sounds>>
    BY <1>1 DEF Converting, Wide, forever, DataLen, SoundLength, Aligned, Sounds
  <2>. QED
    BY <1>1, <1>2, <2>1 DEF SndkitInv, PlayInv
<1>5. RecordInv' /\ CopyInv'
  BY <1>1, RecordFrame, CopyFrame DEF SndkitInv
<1>. QED
  BY <1>3, <1>4, <1>5 DEF SndkitInv

\* main starts the threads and waits for them.
LEMMA MainKeeps ==
  ASSUME SndkitInv, Control, Main PROVE SndkitInv'
<1>1. /\ ~Converting /\ main # "aborted"
      /\ UNCHANGED <<params, ret, at, replay_data_len, p_buff, p_pos, played>>
      /\ UNCHANGED <<heard, record_len, r_buff, r_pos, recorded>>
      /\ p_pc' \in {p_pc, "none", "read"} /\ r_pc' \in {r_pc, "none", "read"}
      /\ p_pc' # p_pc => main = "setup" /\ p_pc = "none"
      /\ r_pc' # r_pc => r_pc = "none"
      /\ main' # "aborted"
  BY DEF Main, StartReplay, StartRecord, Join, Control, pvars, rvars
<1>2. SndkitTyped'
  BY <1>1 DEF SndkitInv, SndkitTyped, States, DataLen
<1>3. Written'
  BY <1>1 DEF SndkitInv, Written
<1>4. UNCHANGED <<Converting, Wide, forever, DataLen, SoundLength(at)>>
  BY <1>1 DEF Converting, Wide, forever, DataLen, SoundLength
<1>5. PlayInv'
  <2>1. UNCHANGED <<Aligned, Sounds>>
    BY <1>1, <1>4 DEF Aligned, Sounds
  <2>. QED
    BY <1>1, <1>4, <2>1 DEF SndkitInv, PlayInv
<1>6. RecordInv'
  BY <1>1, <1>4 DEF SndkitInv, RecordInv
<1>7. CopyInv'
  BY <1>1, CopyFrame
<1>. QED
  BY <1>2, <1>3, <1>5, <1>6, <1>7 DEF SndkitInv

---------------------------------------------------------------------------
LEMMA WholeIs ==
  ASSUME NEW s \in Seq(Nat), NEW n \in Nat, Len(s) <= n
  PROVE  SubSeq(s, 1, Min2(Len(s), n)) = s
<1>1. Min2(Len(s), n) = Len(s)
  BY DEF Min2
<1>2. SubSeq(s, 1, Len(s)) = s
  OBVIOUS
<1>. QED
  BY <1>1, <1>2

\* The device delivers a part of what is asked for, whole samples of a wide recording.
LEMMA RecordReadKeeps ==
  ASSUME SndkitInv, Control, Balance, RecordRead PROVE SndkitInv'
<1>. DEFINE f == IF Wide THEN NarrowBytes ELSE SameBytes
            got(n) == [i \in 1 .. n |-> heard + i]
            samples(n) == IF Wide THEN wav_32bit_to_24bit(got(n)) ELSE got(n)
            asked == IF buffer_size > record_len THEN record_len ELSE buffer_size
<1>1. /\ main = "join" /\ ~Converting /\ r_pc = "read" /\ r_pc' = "write" /\ r_pos' = 0
      /\ UNCHANGED <<params, main, ret, record_len, recorded>>
      /\ UNCHANGED <<p_pc, at, replay_data_len, p_buff, p_pos, played>>
  BY DEF RecordRead, Control, mvars, pvars
<1>2. PICK n \in Delivered :
        heard' = heard + n /\ r_buff' = SubSeq(samples(n), 1, Min2(Len(samples(n)), record_len))
  BY DEF RecordRead
<1>3. /\ record_len \in Nat /\ heard \in Nat /\ Len(recorded) <= RecordLen /\ record_len <= RecordLen
      /\ asked \in Nat /\ asked <= record_len
  BY <1>1, BufferAssumption DEF SndkitInv, SndkitTyped, RecordInv, Balance
<1>4. Delivered = IF Wide THEN {4 * i : i \in SomeOf(asked \div 4) \ {0}} ELSE SomeOf(asked)
  BY Zenon DEF Delivered
<1>5. /\ Continues(recorded, r_buff, r_pos, f) /\ r_pos = Len(r_buff)
      /\ Wide => \E c \in Nat : heard = 4 * c /\ Len(recorded) + Len(r_buff) = 3 * c + r_pos
      /\ ~Wide => Len(recorded) + Len(r_buff) = heard + r_pos
  BY <1>1 DEF SndkitInv, RecordInv
<1>. HIDE DEF f, got, samples, asked
<1>6. r_pos \in Nat /\ Len(recorded) \in Nat
  BY <1>5 DEF Continues
<1>7. /\ r_buff' \in Seq(Nat) /\ \A i \in 1 .. Len(r_buff') : r_buff'[i] = f[Len(recorded) + i]
      /\ Wide => \E c \in Nat : heard' = 4 * c /\ Len(recorded) + Len(r_buff') = 3 * c
      /\ ~Wide => Len(recorded) + Len(r_buff') = heard'
      /\ heard' \in Nat
  <2>1. CASE Wide
    <3>1. PICK c \in Nat : heard = 4 * c /\ Len(recorded) + Len(r_buff) = 3 * c + r_pos
      BY <1>5, <2>1
    <3>2. Len(recorded) = 3 * c
      BY <1>5, <1>6, <3>1
    <3>3. PICK w \in SomeOf(asked \div 4) \ {0} : n = 4 * w
      BY <1>4, <2>1
    <3>4. asked \div 4 \in Nat /\ 4 * (asked \div 4) <= asked
      BY <1>3
    <3>5. w \in Nat /\ w <= asked \div 4
      BY <3>4, PartOf
    <3>6. 3 * w <= record_len /\ n \in Nat
      BY <1>3, <3>3, <3>4, <3>5
    <3>. DEFINE u == wav_32bit_to_24bit(got(n))
    <3>7. got(n) \in Seq(Nat) /\ Len(got(n)) = 4 * w /\ \A i \in 1 .. 4 * w : got(n)[i] = 4 * c + i
      BY <3>1, <3>3, <3>5 DEF got
    <3>8. /\ u \in Seq(Nat) /\ Len(u) = 3 * w
          /\ \A i \in 1 .. Len(u) : u[i] = NarrowBytes[3 * c + i]
      <4>1. c \in Nat /\ w \in Nat
        BY <3>5
      <4>. QED
        BY ONLY <3>7, <4>1, NarrowChunk, ZenonT(30)
    <3>9. samples(n) = u
      BY <2>1 DEF samples
    <3>. HIDE DEF u
    <3>10. r_buff' = u
      BY <1>2, <1>3, <3>6, <3>8, <3>9, WholeIs
    <3>11. heard' = 4 * (c + w) /\ c + w \in Nat /\ Len(recorded) + Len(r_buff') = 3 * (c + w)
      <4>1. heard' = 4 * c + 4 * w /\ w \in Nat
        BY <1>2, <3>1, <3>3, <3>5
      <4>2. Len(recorded) + Len(r_buff') = 3 * c + 3 * w
        BY <3>2, <3>8, <3>10
      <4>. QED
        BY ONLY <4>1, <4>2, c \in Nat
    <3>12. f = NarrowBytes
      BY <2>1 DEF f
    <3>. QED
      BY <2>1, <3>2, <3>8, <3>10, <3>11, <3>12, SMTT(60)
  <2>2. CASE ~Wide
    <3>1. n \in SomeOf(asked)
      BY <1>4, <2>2
    <3>2. n \in Nat /\ n <= record_len
      BY <1>3, <3>1, PartOf
    <3>. DEFINE u == got(n)
    <3>3. u \in Seq(Nat) /\ Len(u) = n /\ \A i \in 1 .. n : u[i] = heard + i
      BY <1>3, <3>2 DEF got
    <3>4. samples(n) = u
      BY <2>2 DEF samples
    <3>. HIDE DEF u
    <3>5. r_buff' = u
      BY <1>2, <1>3, <3>2, <3>3, <3>4, WholeIs
    <3>6. Len(recorded) = heard /\ f = SameBytes
      <4>1. Len(r_buff) \in Nat
        BY <1>5, <1>6
      <4>. QED
        BY <1>3, <1>5, <1>6, <2>2, <4>1 DEF f
    <3>7. \A i \in 1 .. n : SameBytes[heard + i] = heard + i
      BY <1>3, <3>2 DEF SameBytes, Positive
    <3>8. /\ r_buff' \in Seq(Nat) /\ Len(r_buff') = n
          /\ \A i \in 1 .. n : r_buff'[i] = f[Len(recorded) + i]
      BY <3>3, <3>5, <3>6, <3>7
    <3>9. heard' = heard + n /\ heard' \in Nat /\ Len(recorded) + Len(r_buff') = heard'
      BY <1>2, <1>3, <3>2, <3>6, <3>8
    <3>. QED
      BY <2>2, <3>8, <3>9
  <2>. QED
    BY <2>1, <2>2
<1>8. Continues(recorded, r_buff', 0, f)
  BY <1>5, <1>7, ReadContinues
<1>9. UNCHANGED <<Converting, Wide, f, DataLen>>
  BY <1>1 DEF Converting, Wide, f, DataLen
<1>10. SndkitTyped' /\ Written'
  BY <1>1, <1>7, <1>9 DEF SndkitInv, SndkitTyped, States, Written
<1>11. RecordInv'
  <2>1. Len(r_buff') \in Nat
    BY <1>7
  <2>2. Len(recorded') + Len(r_buff') \in Nat
    BY <1>1, <1>6, <2>1
  <2>3. Continues(recorded', r_buff', r_pos', f')
    BY <1>1, <1>8, <1>9
  <2>4. Wide' => \E c \in Nat : heard' = 4 * c /\ Len(recorded') + Len(r_buff') = 3 * c + r_pos'
    <3>. SUFFICES ASSUME Wide
                  PROVE  \E c \in Nat :
                           heard' = 4 * c /\ Len(recorded') + Len(r_buff') = 3 * c + r_pos'
      BY <1>9
    <3>1. PICK c \in Nat : heard' = 4 * c /\ Len(recorded) + Len(r_buff') = 3 * c
      BY <1>7
    <3>2. Len(recorded') + Len(r_buff') = 3 * c + r_pos'
      BY <1>1, <3>1
    <3>. QED
      BY <3>1, <3>2
  <2>5. ~Wide' => Len(recorded') + Len(r_buff') = heard' + r_pos'
    BY <1>1, <1>7, <1>9, <2>2
  <2>6. ~Converting' /\ r_pc' = "write" /\ Len(recorded') <= RecordLen /\ record_len' <= RecordLen
    BY <1>1, <1>3, <1>9
  <2>. QED
    BY <2>3, <2>4, <2>5, <2>6 DEF RecordInv, f
<1>12. PlayInv' /\ CopyInv'
  BY <1>1, PlayFrame, CopyFrame DEF SndkitInv
<1>. QED
  BY <1>10, <1>11, <1>12 DEF SndkitInv

\* The record file takes a part of the chunk.
LEMMA RecordWriteKeeps ==
  ASSUME SndkitInv, Control, Balance, RecordWrite PROVE SndkitInv'
<1>. DEFINE f == IF Wide THEN NarrowBytes ELSE SameBytes
<1>1. /\ main = "join" /\ ~Converting /\ r_pc = "write" /\ r_pc' \in {"read", "write"}
      /\ r_pc' = "read" => r_pos' = Len(r_buff)
      /\ UNCHANGED <<params, main, ret, heard, r_buff>>
      /\ UNCHANGED <<p_pc, at, replay_data_len, p_buff, p_pos, played>>
  BY DEF RecordWrite, Control, mvars, pvars
<1>2. PICK n \in SomeOf(Len(r_buff) - r_pos) :
        recorded' = recorded \o SubSeq(r_buff, r_pos + 1, r_pos + n) /\ r_pos' = r_pos + n
  BY DEF RecordWrite
<1>3. /\ Continues(recorded, r_buff, r_pos, f)
      /\ Wide => \E c \in Nat : heard = 4 * c /\ Len(recorded) + Len(r_buff) = 3 * c + r_pos
      /\ ~Wide => Len(recorded) + Len(r_buff) = heard + r_pos
  BY <1>1 DEF SndkitInv, RecordInv
<1>4. /\ Len(r_buff) <= record_len /\ Len(recorded) + record_len = RecordLen + r_pos
      /\ record_len \in Nat /\ record_len <= RecordLen /\ heard \in Nat
  BY <1>1 DEF Balance, SndkitInv, SndkitTyped, RecordInv
<1>. HIDE DEF f
<1>5. /\ recorded \in Seq(Nat) /\ r_buff \in Seq(Nat) /\ r_pos \in Nat /\ r_pos <= Len(r_buff)
      /\ Len(recorded) \in Nat /\ Len(r_buff) \in Nat
  BY <1>3 DEF Continues
<1>6. n \in Nat /\ n <= Len(r_buff) - r_pos
  <2>1. Len(r_buff) - r_pos \in Nat
    BY <1>5
  <2>. QED
    BY <2>1, PartOf
<1>7. Continues(recorded', r_buff', r_pos', f) /\ Len(recorded') = Len(recorded) + n
  <2>1. /\ Continues(recorded \o SubSeq(r_buff, r_pos + 1, r_pos + n), r_buff, r_pos + n, f)
        /\ Len(recorded \o SubSeq(r_buff, r_pos + 1, r_pos + n)) = Len(recorded) + n
    <3>1. Continues(recorded, r_buff, r_pos, f) /\ n \in Nat /\ n <= Len(r_buff) - r_pos
      BY <1>3, <1>6
    <3>. QED
      BY ONLY <3>1, WriteContinues, ZenonT(60)
  <2>. QED
    BY <1>1, <1>2, <2>1
<1>8. record_len' \in Nat /\ record_len' <= RecordLen
  <2>1. record_len' = record_len \/ record_len' = record_len - Len(r_buff)
    BY DEF RecordWrite
  <2>2. RecordLen \in Nat
    BY LengthAssumption
  <2>. QED
    BY ONLY <1>4, <1>5, <2>1, <2>2
<1>9. Len(recorded') <= RecordLen
  <2>1. RecordLen \in Nat
    BY LengthAssumption
  <2>2. Len(recorded') = Len(recorded) + n
    BY <1>7
  <2>. QED
    BY ONLY <1>4, <1>5, <1>6, <2>1, <2>2
<1>10. UNCHANGED <<Converting, Wide, f, DataLen>>
  BY <1>1 DEF Converting, Wide, f, DataLen
<1>11. SndkitTyped' /\ Written'
  BY <1>1, <1>10 DEF SndkitInv, SndkitTyped, States, Written
<1>12. RecordInv'
  <2>1. r_buff' = r_buff /\ heard' = heard /\ r_pos' = r_pos + n /\ Len(recorded') = Len(recorded) + n
    BY <1>1, <1>2, <1>7
  <2>. DEFINE a == Len(recorded)
              b == Len(r_buff)
              added == Len(recorded')
              left == Len(r_buff')
  <2>2. a \in Nat /\ b \in Nat /\ added = a + n /\ left = b /\ r_pos' = r_pos + n
    BY <1>5, <2>1
  <2>. HIDE DEF a, b, added, left
  <2>3. \A t \in Nat : a + b = t + r_pos => added + left = t + r_pos'
    BY ONLY <1>5, <1>6, <2>2
  <2>4. Wide' => \E c \in Nat : heard' = 4 * c /\ Len(recorded') + Len(r_buff') = 3 * c + r_pos'
    <3>. SUFFICES ASSUME Wide
                  PROVE  \E c \in Nat :
                           heard' = 4 * c /\ Len(recorded') + Len(r_buff') = 3 * c + r_pos'
      BY <1>10
    <3>1. PICK c \in Nat : heard = 4 * c /\ Len(recorded) + Len(r_buff) = 3 * c + r_pos
      BY <1>3
    <3>2. Len(recorded') + Len(r_buff') = 3 * c + r_pos'
      <4>1. 3 * c \in Nat
        OBVIOUS
      <4>. QED
        BY <2>3, <3>1, <4>1 DEF a, b, added, left
    <3>. QED
      BY <2>1, <3>1, <3>2
  <2>5. ~Wide' => Len(recorded') + Len(r_buff') = heard' + r_pos'
    <3>. SUFFICES ASSUME ~Wide PROVE Len(recorded') + Len(r_buff') = heard' + r_pos'
      BY <1>10
    <3>1. Len(recorded) + Len(r_buff) = heard + r_pos
      BY <1>3
    <3>2. heard \in Nat /\ heard' = heard
      BY <1>1, <1>4
    <3>. QED
      BY <2>3, <3>1, <3>2 DEF a, b, added, left
  <2>. QED
    BY <1>1, <1>7, <1>8, <1>9, <1>10, <2>4, <2>5 DEF RecordInv, f
<1>13. PlayInv' /\ CopyInv'
  BY <1>1, PlayFrame, CopyFrame DEF SndkitInv
<1>. QED
  BY <1>11, <1>12, <1>13 DEF SndkitInv

LEMMA RecordEndsKeeps ==
  ASSUME SndkitInv, Control, RecordEnds \/ RecordFails PROVE SndkitInv'
<1>1. /\ main = "join" /\ ~Converting /\ r_pc' \in {"ended", "failed"}
      /\ UNCHANGED <<params, main, ret, heard, record_len, r_buff, r_pos, recorded>>
      /\ UNCHANGED <<p_pc, at, replay_data_len, p_buff, p_pos, played>>
  BY DEF RecordEnds, RecordFails, Control, mvars, pvars
<1>2. SndkitTyped' /\ Written'
  BY <1>1 DEF SndkitInv, SndkitTyped, States, Written, DataLen
<1>3. RecordInv'
  BY <1>1 DEF SndkitInv, RecordInv, Converting, Wide
<1>4. PlayInv' /\ CopyInv'
  BY <1>1, PlayFrame, CopyFrame DEF SndkitInv
<1>. QED
  BY <1>2, <1>3, <1>4 DEF SndkitInv

---------------------------------------------------------------------------
(* makewav and strip_wav *)

LEMMA CopyReadKeeps ==
  ASSUME SndkitInv, Control, CopyRead PROVE SndkitInv'
<1>. DEFINE n == Left
<1>1. /\ main = "copy" /\ Converting /\ p_pc = "read" /\ p_pc' = "write" /\ p_pos' = 0
      /\ at' = at + n /\ replay_data_len' = replay_data_len - n /\ p_buff' = Chunk(n)
      /\ UNCHANGED <<params, main, ret, played>>
      /\ UNCHANGED <<r_pc, heard, record_len, r_buff, r_pos, recorded>>
  BY DEF CopyRead, Control, mvars, rvars
<1>2. /\ at \in Nat /\ at <= params.size /\ params.size \in Nat /\ replay_data_len \in Int
  BY DEF SndkitInv, SndkitTyped
<1>3. n \in Nat /\ at + n <= params.size
  <2>1. buffer_size \in Nat
    BY BufferAssumption
  <2>. QED
    BY <1>2, <2>1 DEF Left, Min2
<1>. HIDE DEF n
<1>4. /\ Continues(recorded, p_buff, p_pos, SameBytes)
      /\ Len(recorded) + Len(p_buff) = at + p_pos
      /\ params.mode = "makewav" => replay_data_len = params.size - at
      /\ params.mode = "strip" => replay_data_len = DataLen - at
      /\ ret = 0 /\ p_pos = Len(p_buff)
  BY <1>1 DEF SndkitInv, CopyInv, Written
<1>5. Len(recorded) = at
  <2>1. Len(recorded) \in Nat /\ Len(p_buff) \in Nat
    BY <1>4 DEF Continues
  <2>. QED
    BY <1>2, <1>4, <2>1
<1>6. /\ p_buff' \in Seq(Nat) /\ Len(p_buff') = n
      /\ \A i \in 1 .. n : p_buff'[i] = SameBytes[Len(recorded) + i]
  BY <1>1, <1>2, <1>3, <1>5, SameChunk
<1>7. Continues(recorded, p_buff', 0, SameBytes)
  BY <1>4, <1>6, ReadContinues
<1>8. Converting' /\ at' \in Nat /\ at' <= params.size /\ replay_data_len' \in Int
  BY <1>1, <1>2, <1>3 DEF Converting
<1>9. SndkitTyped' /\ Written'
  BY <1>1, <1>8 DEF SndkitInv, SndkitTyped, States, Written, DataLen
<1>10. CopyInv'
  <2>1. Len(recorded') + Len(p_buff') = at' + p_pos'
    BY <1>1, <1>2, <1>3, <1>5, <1>6
  <2>2. /\ params'.mode = "makewav" => replay_data_len' = params'.size - at'
        /\ params'.mode = "strip" => replay_data_len' = DataLen' - at'
    <3>1. DataLen \in Int /\ DataLen' = DataLen
      BY <1>1 DEF SndkitInv, SndkitTyped, DataLen
    <3>. QED
      BY <1>1, <1>2, <1>3, <1>4, <3>1
  <2>3. Continues(recorded', p_buff', p_pos', SameBytes)
    BY <1>1, <1>7
  <2>. QED
    BY <1>1, <1>4, <2>1, <2>2, <2>3 DEF CopyInv
<1>11. PlayInv' /\ RecordInv'
  BY <1>1, <1>8, RecordFrame DEF SndkitInv, PlayInv
<1>. QED
  BY <1>9, <1>10, <1>11 DEF SndkitInv

LEMMA CopyWriteKeeps ==
  ASSUME SndkitInv, Control, CopyWrite PROVE SndkitInv'
<1>1. /\ main = "copy" /\ Converting /\ p_pc = "write"
      /\ p_pc' = IF p_pos' = Len(p_buff) THEN "read" ELSE "write"
      /\ UNCHANGED <<params, main, ret, at, replay_data_len, p_buff, played>>
      /\ UNCHANGED <<r_pc, heard, record_len, r_buff, r_pos>>
  BY DEF CopyWrite, Control, mvars
<1>2. PICK n \in SomeOf(Len(p_buff) - p_pos) :
        recorded' = recorded \o SubSeq(p_buff, p_pos + 1, p_pos + n) /\ p_pos' = p_pos + n
  BY DEF CopyWrite
<1>3. /\ Continues(recorded, p_buff, p_pos, SameBytes)
      /\ Len(recorded) + Len(p_buff) = at + p_pos
      /\ params.mode = "makewav" => replay_data_len = params.size - at
      /\ params.mode = "strip" => replay_data_len = DataLen - at
      /\ ret = 0
  BY <1>1 DEF SndkitInv, CopyInv
<1>4. /\ p_pos \in Nat /\ p_pos <= Len(p_buff) /\ Len(recorded) \in Nat /\ Len(p_buff) \in Nat
      /\ at \in Nat
  BY <1>3 DEF Continues, SndkitInv, SndkitTyped
<1>5. n \in Nat /\ n <= Len(p_buff) - p_pos
  <2>1. Len(p_buff) - p_pos \in Nat
    BY <1>4
  <2>. QED
    BY <2>1, PartOf
<1>6. Continues(recorded', p_buff', p_pos', SameBytes) /\ Len(recorded') = Len(recorded) + n
  <2>1. /\ Continues(recorded \o SubSeq(p_buff, p_pos + 1, p_pos + n), p_buff, p_pos + n, SameBytes)
        /\ Len(recorded \o SubSeq(p_buff, p_pos + 1, p_pos + n)) = Len(recorded) + n
    <3>1. Continues(recorded, p_buff, p_pos, SameBytes) /\ n \in Nat /\ n <= Len(p_buff) - p_pos
      BY <1>3, <1>5
    <3>. QED
      BY ONLY <3>1, WriteContinues, ZenonT(60)
  <2>. QED
    BY <1>1, <1>2, <2>1
<1>7. Converting'
  BY <1>1 DEF Converting
<1>8. SndkitTyped' /\ Written'
  BY <1>1 DEF SndkitInv, SndkitTyped, States, Written, DataLen
<1>9. CopyInv'
  <2>1. Len(recorded') + Len(p_buff') = at' + p_pos'
    <3>1. /\ p_buff' = p_buff /\ p_pos' = p_pos + n /\ at' = at
          /\ Len(recorded') = Len(recorded) + n /\ Len(recorded) + Len(p_buff) = at + p_pos
      BY <1>1, <1>2, <1>3, <1>6
    <3>. QED
      BY ONLY <1>4, <1>5, <3>1
  <2>. QED
    BY <1>1, <1>3, <1>6, <2>1 DEF CopyInv, DataLen
<1>10. PlayInv' /\ RecordInv'
  BY <1>1, <1>7, RecordFrame DEF SndkitInv, PlayInv
<1>. QED
  BY <1>8, <1>9, <1>10 DEF SndkitInv

\* makewav returns 0 at the end of its file only.
LEMMA CopyEndsKeeps ==
  ASSUME SndkitInv, Control, CopyStarts \/ CopyEnds \/ CopyFails PROVE SndkitInv'
<1>1. /\ Converting
      /\ UNCHANGED <<params, at, replay_data_len, p_buff, p_pos, played>>
      /\ UNCHANGED <<r_pc, heard, record_len, r_buff, r_pos, recorded>>
      /\ \/ main = "setup" /\ main' = "copy" /\ p_pc = "none" /\ p_pc' = "read" /\ ret' = ret
         \/ /\ main = "copy" /\ main' = "returned" /\ p_pc = "read" /\ p_pc' = "ended" /\ ret' = ret
            /\ replay_data_len <= 0 \/ Left = 0
         \/ /\ main = "copy" /\ main' = "returned" /\ p_pc' = "failed"
            /\ ret' \in {0, -1} /\ (params.mode = "makewav" => ret' = -1)
  BY DEF CopyStarts, CopyEnds, CopyFails, Control, rvars
<1>2. /\ ret \in {0, -1} /\ p_pc' \in States /\ ret' \in {0, -1}
  BY <1>1 DEF SndkitInv, SndkitTyped, States
<1>3. SndkitTyped' /\ Written'
  BY <1>1, <1>2 DEF SndkitInv, SndkitTyped, Written, DataLen
<1>4. p_pc' = "ended" /\ params.mode = "makewav" => at = params.size
  <2>1. /\ buffer_size \in Nat /\ buffer_size # 0 /\ at \in Nat /\ params.size \in Nat
        /\ at <= params.size
        /\ (params.mode = "makewav" => replay_data_len = params.size - at)
    BY <1>1, BufferAssumption DEF SndkitInv, SndkitTyped, CopyInv
  <2>. QED
    BY <1>1, <2>1 DEF Left, Min2
<1>5. p_pc' = "ended" /\ params.mode = "strip" => at = params.size \/ at >= DataLen
  <2>1. /\ buffer_size \in Nat /\ buffer_size # 0 /\ at \in Nat /\ params.size \in Nat
        /\ at <= params.size /\ DataLen \in Int
        /\ (params.mode = "strip" => replay_data_len = DataLen - at)
    BY <1>1, BufferAssumption DEF SndkitInv, SndkitTyped, CopyInv
  <2>. QED
    BY <1>1, <2>1 DEF Left, Min2
<1>7. CopyInv'
  BY <1>1, <1>2, <1>4, <1>5 DEF SndkitInv, CopyInv, DataLen
<1>6. PlayInv' /\ RecordInv'
  BY <1>1, RecordFrame DEF SndkitInv, PlayInv, Converting
<1>. QED
  BY <1>3, <1>6, <1>7 DEF SndkitInv

LEMMA RestKeeps ==
  ASSUME SndkitInv, Control, SetupFails \/ UNCHANGED vars PROVE SndkitInv'
<1>1. /\ UNCHANGED <<params, p_pc, at, replay_data_len, p_buff, p_pos, played>>
      /\ UNCHANGED <<r_pc, heard, record_len, r_buff, r_pos, recorded>>
      /\ UNCHANGED <<main, ret>> \/ (main = "setup" /\ main' = "returned" /\ ret' = -1)
  BY DEF SetupFails, vars, mvars, pvars, rvars
<1>2. SndkitTyped' /\ Written'
  BY <1>1 DEF SndkitInv, SndkitTyped, Written, DataLen
<1>3. CopyInv'
  BY <1>1 DEF SndkitInv, CopyInv, Converting, DataLen
<1>4. PlayInv' /\ RecordInv'
  BY <1>1, PlayFrame, RecordFrame DEF SndkitInv
<1>. QED
  BY <1>2, <1>3, <1>4 DEF SndkitInv

---------------------------------------------------------------------------
Invariants == Control /\ Balance /\ SndkitInv

LEMMA InvariantsInit == Init => Invariants
<1>. SUFFICES ASSUME Init PROVE Invariants
  OBVIOUS
<1>1. Control /\ Balance
  BY BalanceInit DEF Init, Control
<1>2. /\ params \in Params /\ ret = 0 /\ main = "setup" /\ p_pc = "none" /\ r_pc = "none"
      /\ at = 0 /\ p_pos = 0 /\ r_pos = 0 /\ heard = 0 /\ record_len = RecordLen
      /\ p_buff = <<>> /\ r_buff = <<>> /\ played = <<>> /\ recorded = <<>>
      /\ replay_data_len = IF params.mode = "makewav" THEN params.size
                           ELSE IF forever THEN 0 ELSE DataLen
  BY DEF Init
<1>3. params.size \in Nat /\ DataLen \in Int
  <2>1. params.size \in Sizes /\ params.trailer \in Trailers
    BY <1>2 DEF Params
  <2>2. params.size \in Nat /\ params.trailer \in Int
    BY <2>1, FilesAssumption, Zenon
  <2>. QED
    BY <2>2 DEF DataLen
<1>4. SndkitTyped /\ Written
  BY <1>2, <1>3 DEF SndkitTyped, Written, States
<1>5. \A f : Continues(<<>>, <<>>, 0, f) /\ Len(<<>>) = 0
  BY DEF Continues
<1>6. PlayInv
  <2>1. SoundLength(0) = 0
    BY DEF SoundLength
  <2>2. ~forever /\ ~Converting => replay_data_len = DataLen - at
    BY <1>2, <1>3 DEF Converting
  <2>3. at = 3 * 0
    BY <1>2
  <2>4. Sounds
    BY <1>2, <1>5, <2>1, <2>3 DEF Sounds
  <2>. QED
    BY <1>2, <1>5, <2>2, <2>4 DEF PlayInv, Continues
<1>7. RecordInv
  <2>1. heard = 4 * 0 /\ Len(recorded) + Len(r_buff) = 3 * 0 + r_pos
    BY <1>2, <1>5
  <2>2. 0 <= RecordLen /\ RecordLen <= RecordLen
    BY LengthAssumption
  <2>. QED
    BY <1>2, <1>5, <2>1, <2>2 DEF RecordInv
<1>8. CopyInv
  <2>1. /\ params.mode = "makewav" => replay_data_len = params.size - at
        /\ params.mode = "strip" => replay_data_len = DataLen - at
    BY <1>2, <1>3 DEF forever, Converting
  <2>. QED
    BY <1>2, <1>5, <2>1 DEF CopyInv
<1>. QED
  BY <1>1, <1>4, <1>6, <1>7, <1>8 DEF Invariants, SndkitInv

LEMMA InvariantsStep == Invariants /\ [Next]_vars => Invariants'
<1>. SUFFICES ASSUME Control, Balance, SndkitInv, [Next]_vars PROVE Invariants'
  BY DEF Invariants
<1>1. Control' /\ Balance'
  BY ControlStep, BalanceStep
<1>2. SndkitInv'
  BY PlayReadKeeps, PlayWriteKeeps, PlayEndsKeeps, MainKeeps, RecordReadKeeps, RecordWriteKeeps,
     RecordEndsKeeps, CopyReadKeeps, CopyWriteKeeps, CopyEndsKeeps, RestKeeps
     DEF Next, Play, Record, Copy
<1>. QED
  BY <1>1, <1>2 DEF Invariants

LEMMA InvariantsCorrect == Spec => []Invariants
BY InvariantsInit, InvariantsStep, PTL DEF Spec

\* What continues a stream is made of its bytes, within the bounds of the chunk.
LEMMA SndkitTypeIs == Invariants => TypeOK
<1>. SUFFICES ASSUME Control, Balance, SndkitInv PROVE TypeOK
  BY DEF Invariants
<1>1. SndkitTyped /\ PlayInv /\ RecordInv /\ CopyInv
  BY DEF SndkitInv
<1>2. <<>> \in Seq(Nat) /\ Len(<<>>) = 0
  OBVIOUS
<1>3. /\ p_buff \in Seq(Nat) /\ p_pos \in Nat /\ p_pos <= Len(p_buff)
      /\ played \in Seq(Nat) /\ recorded \in Seq(Nat)
  <2>1. CASE Converting
    BY <1>1, <1>2, <2>1 DEF PlayInv, CopyInv, Continues
  <2>2. CASE ~Converting
    <3>. DEFINE g == IF Wide THEN NarrowBytes ELSE SameBytes
    <3>1. /\ played \in Seq(Nat) /\ p_buff \in Seq(Nat) /\ p_pos \in Nat /\ p_pos <= Len(p_buff)
          /\ Continues(recorded, r_buff, r_pos, g)
      BY <1>1, <2>2 DEF PlayInv, RecordInv
    <3>. HIDE DEF g
    <3>. QED
      BY <3>1 DEF Continues
  <2>. QED
    BY <2>1, <2>2
<1>4. /\ r_buff \in Seq(Nat) /\ r_pos \in Nat /\ r_pos <= Len(r_buff)
      /\ record_len \in Nat /\ record_len <= RecordLen
  <2>1. CASE Converting
    BY <1>1, <1>2, <2>1, LengthAssumption DEF RecordInv
  <2>2. CASE ~Converting
    BY <1>1, <2>2 DEF RecordInv, Continues, Balance
  <2>. QED
    BY <2>1, <2>2
<1>5. main \in {"setup", "record", "join", "copy", "returned", "aborted"}
  BY DEF Control
<1>6. Len(p_buff) \in Nat /\ Len(r_buff) \in Nat /\ RecordLen \in Nat
  BY <1>3, <1>4, LengthAssumption
<1>7. at \in 0 .. params.size /\ p_pos \in 0 .. Len(p_buff) /\ r_pos \in 0 .. Len(r_buff)
      /\ record_len \in 0 .. RecordLen
  BY <1>1, <1>3, <1>4, <1>6 DEF SndkitTyped
<1>. QED
  BY <1>1, <1>3, <1>4, <1>5, <1>7 DEF TypeOK, SndkitTyped, States

\* The values of main, of the two threads and of the copy loops, in all their steps:
\* what is read stays within the file, what is written within the chunk.
THEOREM SndkitTypeCorrect == Spec => []TypeOK
BY SndkitTypeIs, InvariantsCorrect, PTL

---------------------------------------------------------------------------
(* The whole sound, and the part of it that each file or device has *)

LEMMA WholeSound ==
  ASSUME NEW n \in Nat
  PROVE  /\ \A k \in 1 .. 4 * n : Widened(n)[k] = WideBytes[k] /\ Widened(n)[k] \in Nat
         /\ \A k \in 1 .. n : Narrowed(n)[k] = NarrowBytes[k] /\ Narrowed(n)[k] \in Nat
         /\ \A k \in 1 .. n : [i \in 1 .. n |-> i][k] = SameBytes[k]
<1>1. \A k \in 1 .. 4 * n : Widened(n)[k] = WideBytes[k] /\ Widened(n)[k] \in Nat
  BY DEF Widened, WideBytes, Positive, Pad
<1>2. \A k \in 1 .. n : Narrowed(n)[k] = NarrowBytes[k] /\ Narrowed(n)[k] \in Nat
  BY DEF Narrowed, NarrowBytes, Positive
<1>3. \A k \in 1 .. n : [i \in 1 .. n |-> i][k] = SameBytes[k]
  BY DEF SameBytes, Positive
<1>. QED
  BY <1>1, <1>2, <1>3

\* What begins the stream f, and is no longer than w, is an opening of w.
LEMMA BeginsWith ==
  ASSUME NEW s, NEW t, NEW p, NEW f, Continues(s, t, p, f), NEW n \in Nat,
         NEW w, w = [i \in 1 .. n |-> w[i]], \A i \in 1 .. n : w[i] = f[i] /\ w[i] \in Nat,
         Len(s) <= n
  PROVE  Opening(s, w)
<1>1. s \in Seq(Nat) /\ Len(s) \in Nat /\ \A i \in 1 .. Len(s) : s[i] = f[i]
  BY DEF Continues
<1>2. \A i \in 1 .. Len(s) : i \in 1 .. n
  BY <1>1
<1>3. \A i \in 1 .. Len(s) : s[i] = w[i]
  BY <1>1, <1>2
<1>. QED
  BY <1>1, <1>3, OpeningOf

LEMMA LongerFile ==
  ASSUME NEW a \in Nat, NEW b \in Nat, a <= b
  PROVE  SoundLength(a) <= SoundLength(b) /\ SoundLength(a) \in Nat /\ SoundLength(b) \in Nat
BY DEF SoundLength

\* What was played begins the sound of the file; at the end nothing of the chunk is left.
LEMMA PlayedIs == Invariants => PlayedIsFile
<1>. SUFFICES ASSUME SndkitInv, Aligned PROVE PlayedIsFile
  BY DEF Invariants, PlayedIsFile
<1>. DEFINE n == SoundLength(params.size)
            w == IF Wide THEN Widened(params.size \div 3) ELSE [i \in 1 .. params.size |-> i]
            f == IF Wide THEN WideBytes ELSE SameBytes
<1>1. at \in Nat /\ params.size \in Nat /\ at <= params.size /\ DataLen \in Int
  BY DEF SndkitInv, SndkitTyped
<1>2. n \in Nat /\ w = [i \in 1 .. n |-> w[i]] /\ \A i \in 1 .. n : w[i] = f[i] /\ w[i] \in Nat
  <2>1. params.size \div 3 \in Nat
    BY <1>1
  <2>2. CASE Wide
    BY <1>1, <2>1, <2>2, WholeSound DEF SoundLength, Widened
  <2>3. CASE ~Wide
    BY <1>1, <2>3, WholeSound DEF SoundLength
  <2>. QED
    BY <2>2, <2>3
<1>. HIDE DEF w, f
<1>3. CASE Converting
  <2>1. played = <<>> /\ played \in Seq(Nat) /\ Len(played) = 0
    BY <1>3 DEF SndkitInv, PlayInv
  <2>2. Opening(played, w)
    <3>. HIDE DEF n
    <3>1. \A i \in 1 .. n : w[i] \in Nat
      BY <1>2
    <3>2. Len(played) <= n /\ \A i \in 1 .. Len(played) : played[i] = w[i]
      BY <1>2, <2>1
    <3>. QED
      BY <1>2, <2>1, <3>1, <3>2, OpeningOf
  <2>. QED
    BY <1>3, <2>2 DEF PlayedIsFile, FileSound, w
<1>4. CASE ~Converting
  <2>1. /\ Continues(played, p_buff, p_pos, f)
        /\ Len(played) + Len(p_buff) = SoundLength(at) + p_pos
        /\ p_pc = "ended" => at = params.size \/ at >= DataLen
        /\ p_pc = "ended" => p_pos = Len(p_buff)
    BY <1>4 DEF SndkitInv, PlayInv, Sounds, Written, f
  <2>2. /\ Len(played) \in Nat /\ p_pos \in Nat /\ Len(p_buff) \in Nat /\ p_pos <= Len(p_buff)
    BY <2>1 DEF Continues
  <2>3. SoundLength(at) <= n /\ SoundLength(at) \in Nat
    BY <1>1, LongerFile
  <2>4. Len(played) <= n
    <3>. HIDE DEF n
    <3>. QED
      BY <1>2, <2>1, <2>2, <2>3
  <2>5. Opening(played, w)
    BY <1>2, <2>1, <2>4, BeginsWith
  <2>6. ASSUME p_pc = "ended"
        PROVE  LET whole == Min2(DataLen, params.size)
               IN  Len(played) >= (IF Wide THEN 4 * (whole \div 3) ELSE whole)
    <3>. DEFINE whole == Min2(DataLen, params.size)
    <3>1. Len(played) = SoundLength(at)
      BY <2>1, <2>2, <2>3, <2>6
    <3>2. whole \in Int /\ whole <= at
      BY <1>1, <2>1, <2>6 DEF Min2
    <3>. HIDE DEF whole
    <3>3. 4 * (whole \div 3) <= 4 * (at \div 3)
      BY <1>1, <3>2
    <3>. QED
      BY <1>1, <3>1, <3>2, <3>3 DEF SoundLength, whole
  <2>. QED
    BY <2>5, <2>6 DEF PlayedIsFile, FileSound, w
<1>. QED
  BY <1>3, <1>4

\* The device gets the sound of the file, each sample once and in its place, for every
\* file and way in which reads and writes are incomplete, and at the end all of it: with
\* every buffer, but for 24 bit WAV files only where it is a multiple of three.
THEOREM PlayedIsFileCorrect == Spec => []PlayedIsFile
BY PlayedIs, InvariantsCorrect, PTL

\* What was recorded begins the sound of the device.
LEMMA RecordedIs == Invariants => RecordedIsSound
<1>. SUFFICES ASSUME SndkitInv, ~Converting
              PROVE  Opening(recorded, IF Wide THEN Narrowed(RecordLen)
                                       ELSE [i \in 1 .. RecordLen |-> i])
  BY DEF Invariants, RecordedIsSound
<1>. DEFINE w == IF Wide THEN Narrowed(RecordLen) ELSE [i \in 1 .. RecordLen |-> i]
            f == IF Wide THEN NarrowBytes ELSE SameBytes
<1>1. RecordLen \in Nat
  BY LengthAssumption
<1>2. w = [i \in 1 .. RecordLen |-> w[i]] /\ \A i \in 1 .. RecordLen : w[i] = f[i] /\ w[i] \in Nat
  <2>1. CASE Wide
    BY <1>1, <2>1, WholeSound DEF Narrowed
  <2>2. CASE ~Wide
    BY <1>1, <2>2, WholeSound
  <2>. QED
    BY <2>1, <2>2
<1>3. Continues(recorded, r_buff, r_pos, f) /\ Len(recorded) <= RecordLen
  BY DEF SndkitInv, RecordInv
<1>. HIDE DEF w, f
<1>4. Opening(recorded, w)
  BY <1>1, <1>2, <1>3, BeginsWith
<1>. QED
  BY <1>4 DEF w

\* The record file gets the sound of the device, each sample once and in place, for every
\* buffer and length and every way in which the file takes it and the device delivers it,
\* whole samples to a 24 bit recording.
THEOREM RecordedIsSoundCorrect == Spec => []RecordedIsSound
BY RecordedIs, InvariantsCorrect, PTL

\* Where the bytes written are 1 to n, the file begins with them, whatever was there.
LEMMA CopiedOf ==
  ASSUME recorded \in Seq(Nat), NEW n \in Nat, n <= Len(recorded),
         \A i \in 1 .. n : recorded[i] = i
  PROVE  Copied(n)
<1>1. \A i \in 1 .. n : i \in DOMAIN recorded
  OBVIOUS
<1>. QED
  BY <1>1 DEF Copied, RecordFile

\* A copy that ended was of every byte of the file, or of the chunk.
LEMMA ConvertedIs == Invariants => ConvertedWhole
<1>. SUFFICES ASSUME SndkitInv, NEW n \in Int,
                     \/ main = "returned" /\ ret = 0 /\ params.mode = "makewav" /\ n = params.size
                     \/ p_pc = "ended" /\ params.mode = "strip" /\ n = Min2(DataLen, params.size)
              PROVE  Copied(n)
  <2>. SUFFICES ASSUME SndkitInv PROVE ConvertedWhole
    BY DEF Invariants
  <2>1. params.size \in Nat /\ Min2(DataLen, params.size) \in Int
    BY DEF SndkitInv, SndkitTyped, Min2
  <2>. QED
    BY <2>1 DEF ConvertedWhole
<1>1. Converting
  BY DEF Converting
<1>2. /\ Continues(recorded, p_buff, p_pos, SameBytes)
      /\ Len(recorded) + Len(p_buff) = at + p_pos
      /\ p_pc = "ended" /\ at \in Nat /\ params.size \in Nat /\ DataLen \in Int
      /\ n <= at
  BY <1>1 DEF SndkitInv, SndkitTyped, CopyInv, Min2
<1>3. p_pos = Len(p_buff)
  BY <1>2 DEF SndkitInv, Written
<1>4. /\ recorded \in Seq(Nat) /\ Len(recorded) \in Nat /\ Len(p_buff) \in Nat
      /\ \A i \in 1 .. Len(recorded) : recorded[i] = SameBytes[i]
  BY <1>2 DEF Continues
<1>5. Len(recorded) = at
  BY <1>2, <1>3, <1>4
<1>6. CASE n \in Nat
  <2>1. \A i \in 1 .. n : recorded[i] = i
    BY <1>2, <1>4, <1>5, <1>6 DEF SameBytes, Positive
  <2>. QED
    BY <1>2, <1>4, <1>5, <1>6, <2>1, CopiedOf
<1>7. CASE n \notin Nat
  <2>1. 1 .. n = {}
    BY <1>7
  <2>. QED
    BY <2>1 DEF Copied
<1>. QED
  BY <1>6, <1>7

\* A conversion that makewav reports as successful is complete, wherever reads and
\* writes fail and however little they take, over whatever file was there; and so is the
\* raw file when strip_wav comes to the end of the chunk or file.
THEOREM ConvertedWholeCorrect == Spec => []ConvertedWhole
BY ConvertedIs, InvariantsCorrect, PTL

---------------------------------------------------------------------------
\* A recording ends when nothing is left of its length; every byte was written in
\* place of an older one, and nothing past them.
LEMMA RecordedWholeIs == Invariants => RecordedWhole
<1>. SUFFICES ASSUME Invariants, ~Converting, r_pc = "ended"
              PROVE  /\ 1 .. RecordLen \subseteq DOMAIN RecordFile
                     /\ \A i \in DOMAIN RecordFile : RecordFile[i] = OldByte <=> i > RecordLen
  BY DEF RecordedWhole
<1>1. IsSequence(recorded) /\ record_len = 0 /\ Len(recorded) + record_len = RecordLen
  BY DEF Invariants, Balance
<1>2. recorded \in Seq(Nat)
  BY SndkitTypeIs DEF TypeOK
<1>3. Len(recorded) = RecordLen /\ RecordLen \in Nat /\ OldLen \in Nat
  BY <1>1, SequenceLength, LengthAssumption
<1>4. DOMAIN recorded = 1 .. RecordLen
  BY <1>2, <1>3
<1>5. /\ DOMAIN RecordFile = 1 .. RecordLen \cup 1 .. OldLen
      /\ \A i \in DOMAIN RecordFile :
           RecordFile[i] = IF i \in 1 .. RecordLen THEN recorded[i] ELSE OldByte
  BY <1>4 DEF RecordFile
<1>6. \A i \in 1 .. RecordLen : recorded[i] # OldByte
  <2>. SUFFICES ASSUME NEW i \in 1 .. RecordLen PROVE recorded[i] # OldByte
    OBVIOUS
  <2>1. i \in 1 .. Len(recorded)
    BY <1>3
  <2>2. recorded[i] \in Nat
    BY <1>2, <2>1
  <2>3. \A x \in Nat : x # -1
    OBVIOUS
  <2>. QED
    BY <2>2, <2>3 DEF OldByte
<1>7. \A i \in DOMAIN RecordFile : i \in 1 .. RecordLen \/ i > RecordLen
  BY <1>3, <1>5
<1>8. \A i \in 1 .. RecordLen : ~(i > RecordLen)
  BY <1>3
<1>. QED
  BY <1>5, <1>6, <1>7, <1>8

\* A recording that ended is in the file as long as its header announces, with nothing of
\* an older file among it and nothing written behind it, for every buffer, older file and
\* way in which the device delivers and the file takes the sound.
THEOREM RecordedWholeCorrect == Spec => []RecordedWhole
BY RecordedWholeIs, InvariantsCorrect, PTL
============================================================================
