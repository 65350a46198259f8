------------------------------ MODULE Sensors ------------------------------
(***************************************************************************)
(* Five tests that poll a part and judge it by what they read: test_frizz  *)
(* (gsensor, gyro or magnet), test_pah8001 with --test=1 and --test=2,     *)
(* test_current and test_charge.sh, before its current test.  The parts    *)
(* answer as they like; reads and ioctls may fail at any time.             *)
(***************************************************************************)
EXTENDS Naturals

CONSTANTS
  Words,           \* of a sample of test_frizz: the header, then 4 or 5 values
  try_times,       \* 5
  timeout, Enough, \* test_pah8001: reads after the first, 50; good ones, 5, not enough
  MaxPolls         \* of test_charge.sh, 120
ASSUME PollsAssumption ==
  Words \in Nat /\ try_times \in Nat /\ timeout \in Nat /\ Enough \in Nat /\ MaxPolls \in Nat

Currents == {"charging", "low", "standard", "high"}   \* <= 0, < 100, = 100, > 100

VARIABLES
  test,            \* "frizz", "assembly", "frame", "current", "charge"
  phase,           \* "start", "poll", "end", "poweroff", "error"; "passed", "failed"
  polls,           \* attempts, reads or polls made
  raw_data,        \* words of the sample that are as they should be: see Sample
  count,           \* good reads of test_pah8001; changes test_charge.sh saw
  state,           \* the PAH8001: "off", "on", "testing"
  current_buff,    \* what test_current read
  online, laststate,   \* the supply: 0 or 1; as test_charge.sh saw it
  seen             \* what was delivered: words, "value"s, a current; of the supply, whether it
                   \* was plugged, or unplugged, and whether a cat of its node was empty
sensorvars == <<test, phase, polls, raw_data, count, state, current_buff, online, laststate, seen>>

\* buff of test_current is not initialized.
SensorsInit ==
  /\ test \in {"frizz", "assembly", "frame", "current", "charge"} /\ phase = "start"
  /\ polls = 0 /\ raw_data = {} /\ count = 0 /\ state = "off"
  /\ current_buff \in Currents /\ online \in {0, 1} /\ laststate = online /\ seen = {}

\* The node or device cannot be opened; test_current goes on.
NoDevice ==
  /\ phase = "start" /\ test # "current" /\ phase' = "failed"
  /\ UNCHANGED <<test, polls, raw_data, count, state, current_buff, online, laststate, seen>>

---------------------------------------------------------------------------
(* test_frizz: an attempt that delivers fewer words than it should, or more, is   *)
(* repeated; the last one is judged by its words alone.                           *)

\* Mutant: the words of an earlier attempt stay.
SampleOver(words) == raw_data' = raw_data \cup words

\* The words copied that are not zero, and of the header that it is the right one.
Sample(words) == raw_data' = words

\* An attempt copies cnt words, or fails after any of them.
frizz_test ==
  /\ test = "frizz" /\ phase \in {"start", "poll"}
  /\ \E cnt \in 0 .. Words + 1, words \in SUBSET (1 .. Words), ok \in {"yes", "no"} :
       /\ \A w \in words : w <= cnt
       /\ Sample(words) /\ seen' = words
       /\ phase' = IF ~(ok = "yes" /\ cnt = Words) /\ polls + 1 < try_times THEN "poll"
                   ELSE IF raw_data' = 1 .. Words THEN "passed" ELSE "failed"
  /\ polls' = polls + 1
  /\ UNCHANGED <<test, count, state, current_buff, online, laststate>>

---------------------------------------------------------------------------
(* test_pah8001, mechanical assembly or frame average; poweron and poweroff may    *)
(* fail, and main does not look.                                                   *)

pah8001 == test \in {"assembly", "frame"}

Pah8001Start ==
  /\ pah8001 /\ phase = "start"
  /\ \/ phase' = "poll" /\ state' = "testing"
     \/ phase' = "error" /\ state' \in {"off", "on"}
  /\ UNCHANGED <<test, polls, raw_data, count, current_buff, online, laststate, seen>>

\* A read that fails ends the assembly test without FACTORY_TEST_END, and of the frame
\* average the loop only.
Pah8001Get ==
  /\ pah8001 /\ phase = "poll"
  /\ \/ /\ \E good \in IF test = "assembly" THEN {0, 1} ELSE {0} : count' = count + good
        /\ phase' = IF polls < timeout THEN "poll" ELSE "end"
        /\ seen' = {"value"}
     \/ phase' = (IF test = "frame" THEN "end" ELSE "error") /\ UNCHANGED <<count, seen>>
  /\ polls' = polls + 1
  /\ UNCHANGED <<test, raw_data, state, current_buff, online, laststate>>

Pah8001End ==
  /\ pah8001 /\ phase = "end"
  /\ \/ phase' = "poweroff" /\ state' = "on"
     \/ phase' = "error" /\ UNCHANGED state
  /\ UNCHANGED <<test, polls, raw_data, count, current_buff, online, laststate, seen>>

poweroff ==
  /\ pah8001 /\ phase \in {"poweroff", "error"}
  /\ state' \in {"off", state}
  /\ phase' = IF phase = "poweroff" /\ (test = "assembly" => count > Enough) THEN "passed" ELSE "failed"
  /\ UNCHANGED <<test, polls, raw_data, count, current_buff, online, laststate, seen>>

---------------------------------------------------------------------------
(* test_current reads until it has a current above or below the standard one; a    *)
(* read that fails leaves what was read before, or nothing.                        *)

ReadCurrent ==
  /\ test = "current" /\ phase \in {"start", "poll"}
  /\ \/ \E c \in Currents : current_buff' = c /\ seen' = {c}
     \/ UNCHANGED <<current_buff, seen>>
  /\ phase' = CASE current_buff' = "low" -> "passed"
                [] current_buff' = "high" -> "failed"
                [] OTHER -> "poll"
  /\ UNCHANGED <<test, polls, raw_data, count, state, online, laststate>>

---------------------------------------------------------------------------
(* test_charge.sh: one change of the supply passes, two polls a second *)

Plug ==
  /\ test = "charge" /\ phase = "poll" /\ online' = 1 - online
  /\ seen' = seen \cup {"plugged"}
  /\ UNCHANGED <<test, phase, polls, raw_data, count, state, current_buff, laststate>>

\* What cat gives of the node.  Where it fails that is nothing, which [ takes for 0.
Cat(read) ==
  \/ read = online /\ UNCHANGED seen
  \/ read = 0 /\ seen' = seen \cup {"empty"}

LastState ==
  /\ test = "charge" /\ phase = "start" /\ phase' = "poll"
  /\ \E read \in {0, 1} : Cat(read) /\ laststate' = read
  /\ UNCHANGED <<test, polls, raw_data, count, state, current_buff, online>>

PollCharge ==
  /\ test = "charge" /\ phase = "poll"
  /\ \E read \in {0, 1} :
       /\ Cat(read) /\ laststate' = read
       /\ count' = IF read # laststate THEN count + 1 ELSE count
  /\ polls' = polls + 1
  /\ phase' = IF count' > 0 THEN "passed" ELSE IF polls' < MaxPolls THEN "poll" ELSE "failed"
  /\ UNCHANGED <<test, raw_data, state, current_buff, online>>

\* The node holds neither 0 nor 1.
PollFails ==
  /\ test = "charge" /\ phase = "poll" /\ phase' = "failed"
  /\ UNCHANGED <<test, polls, raw_data, count, state, current_buff, online, laststate, seen>>

---------------------------------------------------------------------------
SensorsNext ==
  \/ NoDevice \/ frizz_test \/ Pah8001Start \/ Pah8001Get \/ Pah8001End \/ poweroff
  \/ ReadCurrent \/ Plug \/ LastState \/ PollCharge \/ PollFails

SensorsSpec == SensorsInit /\ [][SensorsNext]_sensorvars

---------------------------------------------------------------------------
SensorsTypeOK ==
  /\ test \in {"frizz", "assembly", "frame", "current", "charge"}
  /\ phase \in {"start", "poll", "end", "poweroff", "error", "passed", "failed"}
  /\ polls \in Nat /\ raw_data \subseteq 1 .. Words /\ count \in 0 .. timeout + 1
  /\ state \in {"off", "on", "testing"} /\ current_buff \in Currents
  /\ online \in {0, 1} /\ laststate \in {0, 1}

\* What a pass rests on.  The sample test_frizz judges is one the hub delivered at once,
\* not put together from several attempts; mechanical assembly had enough good reads, and
\* no pass of test_pah8001 leaves the sensor in its factory test; test_current does not
\* judge the current of an earlier read again; test_charge.sh does not count a change that
\* took place before its polls.  What a failing read may do all the same: nothing was read
\* for a frame average or current, or an empty cat was taken for a change of the supply.
PassRestsOnReads ==
  phase = "passed" =>
    CASE test = "frizz" -> seen = 1 .. Words
      [] test = "assembly" -> count > Enough /\ state # "testing"
      [] test = "frame" -> state # "testing"
      [] test = "current" -> seen \in {{"low"}, {}}
      [] test = "charge" -> seen # {}
=============================================================================
