------------------------------ MODULE SndTest ------------------------------
(***************************************************************************)
(* test_snd.sh, which lets sndtest play a ring tone, record, and play the  *)
(* recording; each run ends with its file or after the seconds of its      *)
(* alarm.  The current test between them is module CurrentTest's.          *)
(*                                                                         *)
(* A sample recorded is its number; 0 is one that an earlier test left in  *)
(* record_file.  The alarm does not interrupt a read: signal() lets it     *)
(* restart.                                                                *)
(***************************************************************************)
EXTENDS Naturals, Sequences

CONSTANTS
  DEFAULT_BUF_SIZE,      \* samples
  Ring,                  \* samples of sound_test.wav
  Stale,                 \* samples in record_file before the script starts
  MaxHeard               \* bound: samples that the microphone delivers
ASSUME SamplesAssumption ==
  DEFAULT_BUF_SIZE \in Nat \ {0} /\ Ring \in Nat /\ Stale \in Nat /\ MaxHeard \in Nat

VARIABLES
  step,            \* the sndtest that runs: "ring", "record", "replay"; "passed", "failed"
  at_line,         \* in it: "setup", "loop", "read", "write"
  alarm_flag,      \* 1 until the alarm went off
  snd_ops,             \* the offset in its file
  file_length,     \* replay_file_length
  buff,            \* samples read and not written
  record_file, mic, replayed
svars ==
  <<step, at_line, alarm_flag, snd_ops, file_length, buff, record_file, mic, replayed>>

SndTestInit ==
  /\ step = "ring" /\ at_line = "setup" /\ alarm_flag = 1
  /\ snd_ops = 0 /\ file_length = 0 /\ buff = <<>>
  /\ record_file \in {<<>>, [i \in 1 .. Stale |-> 0]}
  /\ mic = 0 /\ replayed = <<>>

Replaying == step \in {"ring", "replay"}

File == IF step = "ring" THEN [i \in 1 .. Ring |-> 0] ELSE record_file

Least(m, n) == IF m < n THEN m ELSE n

---------------------------------------------------------------------------
(* A process of sndtest: its variables are new. *)

\* stat may fail; the length is 0 then.
Setup ==
  /\ at_line = "setup" /\ step \notin {"passed", "failed"}
  /\ at_line' = "loop" /\ alarm_flag' = 1 /\ snd_ops' = 0 /\ buff' = <<>>
  /\ file_length' \in IF Replaying THEN {Len(File), 0} ELSE {0}
  /\ UNCHANGED <<step, record_file, mic, replayed>>

\* check_arg, a device or a file.
SndtestFails ==
  /\ at_line = "setup" /\ step \notin {"passed", "failed"} /\ step' = "failed"
  /\ UNCHANGED <<at_line, alarm_flag, snd_ops, file_length, buff, record_file, mic, replayed>>

sig_alram ==
  /\ at_line \in {"loop", "read", "write"} /\ alarm_flag = 1 /\ alarm_flag' = 0
  /\ UNCHANGED <<step, at_line, snd_ops, file_length, buff, record_file, mic, replayed>>

\* Mutant: only the end of a file ends the loop.
LoopIgnoresAlarm ==
  /\ at_line = "loop" /\ (Replaying => snd_ops < file_length)
  /\ at_line' = "read"
  /\ UNCHANGED <<step, alarm_flag, snd_ops, file_length, buff, record_file, mic, replayed>>

Loop ==
  /\ at_line = "loop" /\ alarm_flag = 1 /\ (Replaying => snd_ops < file_length)
  /\ at_line' = "read"
  /\ UNCHANGED <<step, alarm_flag, snd_ops, file_length, buff, record_file, mic, replayed>>

ReadFile ==
  /\ Replaying
  /\ LET n == Least(DEFAULT_BUF_SIZE, Len(File) - snd_ops)
     IN  /\ buff' = SubSeq(File, snd_ops + 1, snd_ops + n) /\ snd_ops' = snd_ops + n
         /\ at_line' = IF n = 0 THEN "loop" ELSE "write"
  /\ UNCHANGED mic

ReadMic ==
  /\ ~Replaying
  /\ \E n \in 0 .. Least(DEFAULT_BUF_SIZE, MaxHeard - mic) :
       /\ buff' = [i \in 1 .. n |-> mic + i] /\ mic' = mic + n
       /\ at_line' = IF n = 0 THEN "loop" ELSE "write"
  /\ UNCHANGED snd_ops

Read ==
  /\ at_line = "read" /\ (ReadFile \/ ReadMic)
  /\ UNCHANGED <<step, alarm_flag, file_length, record_file, replayed>>

\* What is not written of a chunk is not written later.
Write ==
  /\ at_line = "write" /\ at_line' = "loop" /\ buff' = <<>>
  /\ \E n \in 0 .. Len(buff) :
       LET part == SubSeq(buff, 1, n)
       IN  IF Replaying
           THEN /\ replayed' = IF step = "replay" THEN replayed \o part ELSE replayed
                /\ UNCHANGED <<record_file, snd_ops>>
           ELSE /\ record_file' = SubSeq(record_file, 1, snd_ops) \o part
                                    \o SubSeq(record_file, snd_ops + n + 1, Len(record_file))
                /\ snd_ops' = snd_ops + n /\ UNCHANGED replayed
  /\ UNCHANGED <<step, alarm_flag, file_length, mic>>

\* Mutant: record_file is not emptied before the recording.
EndsKeepsFile ==
  /\ \/ at_line = "loop" /\ (alarm_flag = 0 \/ (Replaying /\ snd_ops >= file_length))
     \/ at_line \in {"read", "write"}
  /\ at_line' = "setup"
  /\ step' = IF step = "ring" THEN "record" ELSE IF step = "record" THEN "replay" ELSE "passed"
  /\ UNCHANGED <<alarm_flag, snd_ops, file_length, buff, record_file, mic, replayed>>

\* The loop is over, or a read or a write failed: run returns 0 in either case, and the
\* script goes on.
SndtestEnds ==
  /\ \/ at_line = "loop" /\ (alarm_flag = 0 \/ (Replaying /\ snd_ops >= file_length))
     \/ at_line \in {"read", "write"}
  /\ at_line' = "setup"
  /\ \/ step = "ring" /\ step' = "record" /\ record_file' = <<>>
     \/ step = "record" /\ step' = "replay" /\ UNCHANGED record_file
     \/ step = "replay" /\ step' = "passed" /\ record_file' = <<>>
  /\ UNCHANGED <<alarm_flag, snd_ops, file_length, buff, mic, replayed>>

SndTestNext == Setup \/ SndtestFails \/ sig_alram \/ Loop \/ Read \/ Write \/ SndtestEnds

SndTestSpec == SndTestInit /\ [][SndTestNext]_svars

\* The device delivers or takes something, and the alarm goes off.
SndTestFairness ==
  /\ WF_svars(Setup) /\ WF_svars(Loop) /\ WF_svars(Read) /\ WF_svars(Write)
  /\ WF_svars(at_line = "loop" /\ SndtestEnds) /\ WF_svars(sig_alram)

SndTestFairSpec == SndTestSpec /\ SndTestFairness

---------------------------------------------------------------------------
\* A playback never reads beyond the length that stat gave, and what it has not yet
\* written was read in its last read.
SndTestTypeOK ==
  /\ step \in {"ring", "record", "replay", "passed", "failed"}
  /\ at_line \in {"setup", "loop", "read", "write"} /\ alarm_flag \in {0, 1}
  /\ at_line # "setup" /\ Replaying => snd_ops <= file_length
  /\ Len(buff) <= DEFAULT_BUF_SIZE /\ mic \in 0 .. MaxHeard
  /\ at_line = "write" => buff # <<>>

\* What the tester hears of the recording was recorded by this script, in this order
\* and once, whatever read or write was incomplete or failed: record_file is opened
\* without being truncated, and holds nothing older.
HearsThisRecording ==
  \A i \in DOMAIN replayed :
    /\ replayed[i] \in 1 .. mic
    /\ i > 1 => replayed[i - 1] < replayed[i]

\* Every sndtest ends, in the end by its alarm, and the script with it.
ScriptEnds == <>(step \in {"passed", "failed"})
===========================================================================
