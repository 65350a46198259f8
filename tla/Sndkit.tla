------------------------------ MODULE Sndkit ------------------------------
(***************************************************************************)
(* sndkit, the WAV player, recorder and converter of the speaker test: the *)
(* main program, its replay and record threads, the chunk loops, and the   *)
(* conversions between samples of 24 bits, as a WAV file holds them, and   *)
(* of 32 bits, as the device takes them.                                   *)
(*                                                                         *)
(* A byte of the replay file or of the device is its number in the stream. *)
(* A write may take a part of what it is given, a read of the device or of *)
(* a pipe deliver less than was asked; a file is read in full blocks.      *)
(***************************************************************************)
EXTENDS Integers, Sequences

CONSTANTS
  buffer_size,     \* what a read asks for: DEFAULT_BUFF_SIZE or -B; FILE_BLOCK_LEN
  Sizes,           \* lengths of the replay file's contents, without the header
  Trailers,        \* how many bytes follow the data chunk; < 0: the file is cut short
  RecordLen,       \* bytes to be recorded: width * channels * speed * duration
  Parts,           \* lengths of the incomplete reads and writes
  OldLen            \* length, past the header's place, of a file already there under the
                   \* name of the file to write; 0: none

ASSUME BufferAssumption == buffer_size \in Nat \ {0}
ASSUME LengthAssumption == RecordLen \in Nat /\ Parts \subseteq Nat \ {0} /\ OldLen \in Nat
ASSUME FilesAssumption == Sizes \subseteq Nat /\ Trailers \subseteq Int

Pad == 0

Modes == {"replay", "record", "both", "makewav", "strip"}

\* What the command line and the WAV header of the replay file say.
Params == [mode : Modes, type : {"wav", "raw"}, format : {"16bit", "24bit"},
           size : Sizes, trailer : Trailers]

VARIABLES
  params,
  main,            \* "setup", "record" (about to start it), "join", "returned", "aborted"
  ret

VARIABLES          \* play, and the copy loops of makewav and strip_wav
  p_pc,            \* "none", "read", "write", "ended" or "failed"
  at,              \* bytes read from the replay file
  replay_data_len,
  p_buff, p_pos,   \* the chunk, and how much of it is written
  played           \* what the device got

VARIABLES          \* record
  r_pc,
  heard,           \* bytes the device delivered
  record_len,
  r_buff, r_pos,
  recorded         \* what was written to the record file after its header

mvars == <<params, main, ret>>
pvars == <<p_pc, at, replay_data_len, p_buff, p_pos, played>>
rvars == <<r_pc, heard, record_len, r_buff, r_pos, recorded>>
vars == <<mvars, pvars, rvars>>

Wide == params.type = "wav" /\ params.format = "24bit"
Converting == params.mode \in {"makewav", "strip"}
DataLen == params.size - params.trailer
forever == params.type = "raw" /\ ~Converting

Init ==
  /\ params \in Params
  /\ main = "setup" /\ ret = 0
  /\ p_pc = "none" /\ at = 0 /\ p_buff = <<>> /\ p_pos = 0 /\ played = <<>>
  /\ replay_data_len = IF params.mode = "makewav" THEN params.size
                       ELSE IF forever THEN 0 ELSE DataLen
  /\ r_pc = "none" /\ heard = 0 /\ record_len = RecordLen
  /\ r_buff = <<>> /\ r_pos = 0 /\ recorded = <<>>

\* The file written to is opened without O_TRUNC: an older one keeps what is not
\* written over.
OldByte == -1
RecordFile == [i \in DOMAIN recorded \cup 1 .. OldLen |->
                 IF i \in DOMAIN recorded THEN recorded[i] ELSE OldByte]

---------------------------------------------------------------------------
(* The conversions, in place: memory is a function from 0 *)

Memory(s, size) == [k \in 0 .. size - 1 |-> IF k < Len(s) THEN s[k + 1] ELSE Pad]
Bytes(m, n) == [k \in 1 .. n |-> m[k - 1]]
Min2(a, b) == IF a < b THEN a ELSE b

\* What read and write may return when asked for n bytes.
SomeOf(n) == {n} \cup {k \in Parts : k < n}

\* Sample i moves from 3 bytes to 4.
Widen(m, i) ==
  [k \in DOMAIN m |-> CASE k \in 4 * i .. 4 * i + 2 -> m[3 * i + k - 4 * i]
                        [] k = 4 * i + 3 -> Pad
                        [] OTHER -> m[k]]

\* Mutant: from the first sample to the last.
WidenForward(s) ==
  LET n == Len(s) \div 3
      moved[i \in 0 .. n] == IF i = 0 THEN Memory(s, 4 * n) ELSE Widen(moved[i - 1], i - 1)
  IN  Bytes(moved[n], 4 * n)

\* From the last sample to the fourth; the first three by way of tmp_sample.
wav_expand_24bit_to_32bit(s) ==
  LET n == Len(s) \div 3
      loops == IF n > 3 THEN n - 3 ELSE 0
      moved[i \in 0 .. loops] ==
        IF i = 0 THEN Memory(s, 4 * n + 12) ELSE Widen(moved[i - 1], n - i)
      m == moved[loops]
      tmp_sample == [k \in 0 .. 8 |-> m[k]]
  IN  Bytes([k \in DOMAIN m |-> CASE k > 11 -> m[k]
                                  [] k <= 11 /\ k % 4 = 3 -> Pad
                                  [] OTHER -> tmp_sample[3 * (k \div 4) + (k % 4)]],
            4 * n)

\* assert(src == data) after the loop, which steps back n - 3 samples.
Asserted(s) == Len(s) \div 3 >= 3

\* Sample i moves from 4 bytes to 3.
Narrow(m, i) ==
  [k \in DOMAIN m |-> IF k \in 3 * i .. 3 * i + 2 THEN m[4 * i + k - 3 * i] ELSE m[k]]

\* Mutant: a multiple of 4 is kept.
NarrowKeepsLength(s) == s

wav_32bit_to_24bit(s) ==
  LET n == Len(s) \div 4
      moved[i \in 0 .. n] == IF i = 0 THEN Memory(s, 4 * n) ELSE Narrow(moved[i - 1], i - 1)
  IN  Bytes(moved[n], 3 * n)

---------------------------------------------------------------------------
(* main *)

\* A file or device that cannot be opened or configured, a file that is no
\* WAV file: all this before a thread is started.
SetupFails ==
  /\ main = "setup"
  /\ main' = "returned" /\ ret' = -1
  /\ UNCHANGED <<params, pvars, rvars>>

\* pthread_create may fail, which is only reported.
StartReplay ==
  /\ main = "setup" /\ ~Converting
  /\ main' = "record"
  /\ p_pc' \in IF params.mode = "record" THEN {"none"} ELSE {"none", "read"}
  /\ UNCHANGED <<params, ret, at, replay_data_len, p_buff, p_pos, played, rvars>>

StartRecord ==
  /\ main = "record"
  /\ main' = "join"
  /\ r_pc' \in IF params.mode = "replay" THEN {"none"} ELSE {"none", "read"}
  /\ UNCHANGED <<params, ret, pvars, heard, record_len, r_buff, r_pos, recorded>>

\* The results of the threads are not looked at.
Join ==
  /\ main = "join"
  /\ p_pc \notin {"read", "write"} /\ r_pc \notin {"read", "write"}
  /\ main' = "returned"
  /\ UNCHANGED <<params, ret, pvars, rvars>>

---------------------------------------------------------------------------
(* play *)

Playing == main \in {"record", "join"}

\* What is left of the file, at most a buffer; from a pipe any part of it.
Chunk(n) == [i \in 1 .. n |-> at + i]
Left == Min2(buffer_size, params.size - at)
ReadSizes == IF params.type = "raw" THEN SomeOf(Left) ELSE {Left}

\* A failed assertion ends the program, or nothing where NDEBUG is defined.
PlayRead ==
  /\ Playing /\ p_pc = "read" /\ (forever \/ replay_data_len > 0)
  /\ Left > 0
  /\ \E n \in ReadSizes :
       LET whole == Chunk((n \div 3) * 3) IN
       /\ at' = at + n
       /\ replay_data_len' = IF forever THEN replay_data_len ELSE replay_data_len - n
       /\ p_buff' = IF Wide THEN wav_expand_24bit_to_32bit(whole) ELSE Chunk(n)
       /\ \/ p_pc' = (IF Len(p_buff') > 0 THEN "write" ELSE "read") /\ UNCHANGED main
          \/ Wide /\ ~Asserted(whole) /\ main' = "aborted" /\ UNCHANGED p_pc
  /\ p_pos' = 0
  /\ UNCHANGED <<params, ret, played, rvars>>

PlayWrite ==
  /\ Playing /\ p_pc = "write"
  /\ \E n \in SomeOf(Len(p_buff) - p_pos) :
       /\ played' = played \o SubSeq(p_buff, p_pos + 1, p_pos + n)
       /\ p_pos' = p_pos + n
  /\ p_pc' = IF p_pos' = Len(p_buff) THEN "read" ELSE "write"
  /\ UNCHANGED <<mvars, at, replay_data_len, p_buff, rvars>>

\* Mutant: the end of the file is not noticed.
PlayEndsByLength ==
  /\ Playing /\ p_pc = "read"
  /\ ~forever /\ replay_data_len <= 0
  /\ p_pc' = "ended"
  /\ UNCHANGED <<mvars, at, replay_data_len, p_buff, p_pos, played, rvars>>

\* The end of the data chunk, or of the file.
PlayEnds ==
  /\ Playing /\ p_pc = "read"
  /\ (~forever /\ replay_data_len <= 0) \/ Left = 0
  /\ p_pc' = "ended"
  /\ UNCHANGED <<mvars, at, replay_data_len, p_buff, p_pos, played, rvars>>

PlayFails ==
  /\ Playing /\ p_pc \in {"read", "write"}
  /\ p_pc' = "failed"
  /\ UNCHANGED <<mvars, at, replay_data_len, p_buff, p_pos, played, rvars>>

---------------------------------------------------------------------------
(* record *)

\* The device delivers whole samples of 4 bytes to a 24 bit WAV recording. Less
\* than a sample, should it come, would count as nothing: n_read / 4 * 3.
Delivered ==
  LET asked == IF buffer_size > record_len THEN record_len ELSE buffer_size
  IN  IF Wide THEN {4 * k : k \in SomeOf(asked \div 4) \ {0}} ELSE SomeOf(asked)

\* Mutant: the last chunk is as long as the others.
RecordReadWhole ==
  /\ main = "join" /\ r_pc = "read" /\ record_len > 0
  /\ heard' = heard + buffer_size
  /\ r_buff' = [i \in 1 .. buffer_size |-> heard + i]
  /\ r_pos' = 0 /\ r_pc' = "write"
  /\ UNCHANGED <<mvars, pvars, record_len, recorded>>

\* Zero bytes ("REC: zero bytes! why?") is a stuttering step.
RecordRead ==
  /\ main = "join" /\ r_pc = "read" /\ record_len > 0
  /\ \E n \in Delivered :
       LET got == [i \in 1 .. n |-> heard + i]
           samples == IF Wide THEN wav_32bit_to_24bit(got) ELSE got
       IN  /\ heard' = heard + n
           /\ r_buff' = SubSeq(samples, 1, Min2(Len(samples), record_len))
  /\ r_pos' = 0 /\ r_pc' = "write"
  /\ UNCHANGED <<mvars, pvars, record_len, recorded>>

\* Mutant: the length is reduced by what the device delivered.
RecordWriteHeard ==
  /\ main = "join" /\ r_pc = "write"
  /\ \E n \in SomeOf(Len(r_buff) - r_pos) :
       /\ recorded' = recorded \o SubSeq(r_buff, r_pos + 1, r_pos + n)
       /\ r_pos' = r_pos + n
  /\ IF r_pos' = Len(r_buff)
     THEN r_pc' = "read" /\ record_len' = RecordLen - heard
     ELSE UNCHANGED <<r_pc, record_len>>
  /\ UNCHANGED <<mvars, pvars, heard, r_buff>>

RecordWrite ==
  /\ main = "join" /\ r_pc = "write"
  /\ \E n \in SomeOf(Len(r_buff) - r_pos) :
       /\ recorded' = recorded \o SubSeq(r_buff, r_pos + 1, r_pos + n)
       /\ r_pos' = r_pos + n
  /\ IF r_pos' = Len(r_buff)
     THEN r_pc' = "read" /\ record_len' = record_len - Len(r_buff)
     ELSE UNCHANGED <<r_pc, record_len>>
  /\ UNCHANGED <<mvars, pvars, heard, r_buff>>

RecordEnds ==
  /\ main = "join" /\ r_pc = "read" /\ record_len <= 0
  /\ r_pc' = "ended"
  /\ UNCHANGED <<mvars, pvars, heard, record_len, r_buff, r_pos, recorded>>

RecordFails ==
  /\ main = "join" /\ r_pc \in {"read", "write"}
  /\ r_pc' = "failed"
  /\ UNCHANGED <<mvars, pvars, heard, record_len, r_buff, r_pos, recorded>>

---------------------------------------------------------------------------
(* makewav and strip_wav: from the replay file to the record file *)

CopyStarts ==
  /\ main = "setup" /\ Converting
  /\ main' = "copy" /\ p_pc' = "read"
  /\ UNCHANGED <<params, ret, at, replay_data_len, p_buff, p_pos, played, rvars>>

CopyRead ==
  /\ main = "copy" /\ p_pc = "read" /\ replay_data_len > 0 /\ Left > 0
  /\ at' = at + Left /\ replay_data_len' = replay_data_len - Left
  /\ p_buff' = Chunk(Left) /\ p_pos' = 0 /\ p_pc' = "write"
  /\ UNCHANGED <<mvars, played, rvars>>

CopyWrite ==
  /\ main = "copy" /\ p_pc = "write"
  /\ \E n \in SomeOf(Len(p_buff) - p_pos) :
       /\ recorded' = recorded \o SubSeq(p_buff, p_pos + 1, p_pos + n)
       /\ p_pos' = p_pos + n
  /\ p_pc' = IF p_pos' = Len(p_buff) THEN "read" ELSE "write"
  /\ UNCHANGED <<mvars, at, replay_data_len, p_buff, played, r_pc, heard, record_len,
                 r_buff, r_pos>>

CopyEnds ==
  /\ main = "copy" /\ p_pc = "read" /\ (replay_data_len <= 0 \/ Left = 0)
  /\ main' = "returned" /\ p_pc' = "ended"
  /\ UNCHANGED <<params, ret, at, replay_data_len, p_buff, p_pos, played, rvars>>

\* Mutant: makewav, like strip_wav, forgets the result of read.
CopyFailsSilently ==
  /\ main = "copy"
  /\ main' = "returned" /\ p_pc' = "failed"
  /\ ret' = IF p_pc = "read" THEN 0 ELSE -1
  /\ UNCHANGED <<params, at, replay_data_len, p_buff, p_pos, played, rvars>>

\* strip_wav forgets that read failed.
CopyFails ==
  /\ main = "copy"
  /\ main' = "returned" /\ p_pc' = "failed"
  /\ ret' = IF p_pc = "read" /\ params.mode = "strip" THEN 0 ELSE -1
  /\ UNCHANGED <<params, at, replay_data_len, p_buff, p_pos, played, rvars>>

---------------------------------------------------------------------------
Main == StartReplay \/ StartRecord \/ Join
Play == PlayRead \/ PlayWrite \/ PlayEnds
Record == RecordRead \/ RecordWrite \/ RecordEnds
Copy == CopyStarts \/ CopyRead \/ CopyWrite \/ CopyEnds

Next == Main \/ Play \/ Record \/ Copy
        \/ SetupFails \/ PlayFails \/ RecordFails \/ CopyFails

Spec == Init /\ [][Next]_vars

\* The threads run, and the device delivers and takes sound; no failure comes
\* to the help of a loop that does not end.
Fairness == WF_vars(Main) /\ WF_vars(Play) /\ WF_vars(Record) /\ WF_vars(Copy)

FairSpec == Spec /\ Fairness

---------------------------------------------------------------------------
TypeOK ==
  /\ params \in Params
  /\ main \in {"setup", "record", "join", "copy", "returned", "aborted"}
  /\ ret \in {0, -1}
  /\ {p_pc, r_pc} \subseteq {"none", "read", "write", "ended", "failed"}
  /\ at \in 0 .. params.size /\ replay_data_len \in Int
  /\ p_pos \in 0 .. Len(p_buff) /\ r_pos \in 0 .. Len(r_buff)
  /\ {p_buff, played, r_buff, recorded} \subseteq Seq(Nat)
  /\ heard \in Nat /\ record_len \in 0 .. RecordLen

\* What the conversions are to do, sample by sample
Widened(n) == [k \in 1 .. 4 * n |-> IF k % 4 = 0 THEN Pad ELSE 3 * ((k - 1) \div 4) + (k % 4)]
Narrowed(n) == [k \in 1 .. n |-> 4 * ((k - 1) \div 3) + ((k - 1) % 3) + 1]

Opening(s, t) == Len(s) <= Len(t) /\ s = SubSeq(t, 1, Len(s))

\* With a buffer that is no multiple of three, which -B may set, a chunk of a 24 bit
\* WAV file ends within a sample.
Aligned == Wide => buffer_size % 3 = 0

FileSound == IF Wide THEN Widened(params.size \div 3) ELSE [k \in 1 .. params.size |-> k]

\* Unless the buffer cuts samples (Aligned), the device gets the sound of the file, each
\* sample once and in its place, whatever parts of the buffer it takes, and at the end
\* all of the data chunk.
PlayedIsFile ==
  Aligned =>
    /\ Opening(played, FileSound)
    /\ p_pc = "ended" /\ ~Converting =>
         LET whole == Min2(DataLen, params.size)
         IN  Len(played) >= (IF Wide THEN 4 * (whole \div 3) ELSE whole)

\* The record file gets the sound of the device, each sample once and in place.
RecordedIsSound ==
  ~Converting =>
    Opening(recorded, IF Wide THEN Narrowed(RecordLen) ELSE [k \in 1 .. RecordLen |-> k])

\* When a recording ended, all the bytes that its header announced before the first of
\* them was heard are there and none of them is left from an older file; nothing was
\* written behind them.  (A 24 bit WAV recording never ends.)
RecordedWhole ==
  ~Converting /\ r_pc = "ended" =>
    /\ 1 .. RecordLen \subseteq DOMAIN RecordFile
    /\ \A i \in DOMAIN RecordFile : RecordFile[i] = OldByte <=> i > RecordLen

\* The file written to begins with the first n bytes of the one read.
Copied(n) == \A i \in 1 .. n : i \in DOMAIN RecordFile /\ RecordFile[i] = i

\* The whole raw file follows the header where makewav reports success, and the whole
\* data chunk is in the raw file where strip_wav came to the end of the chunk or file:
\* over whatever file was there before, and wherever reads and writes stop short.
ConvertedWhole ==
  /\ main = "returned" /\ ret = 0 /\ params.mode = "makewav" => Copied(params.size)
  /\ p_pc = "ended" /\ params.mode = "strip" => Copied(Min2(DataLen, params.size))

Ended == main \in {"returned", "aborted"}

\* Playing, converting, and recording anything but a 24 bit WAV file end, and
\* main returns: no loop over the chunks runs on without progress.
LoopsEnd == ~(Wide /\ params.mode \in {"record", "both"}) => <>Ended

\* A recording ends: sndkit.c:211 promises that --duration is its length.
AllEnds == <>Ended
===========================================================================
