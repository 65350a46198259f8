----------------------------- MODULE Pretest -----------------------------
(***************************************************************************)
(* The orchestrator, pretest.sh: it runs the script of every test that     *)
(* /proc/hardware/list names, waits for a touch of the screen after each,  *)
(* collects the failures, and then hangs or waits for the last touch.      *)
(*                                                                         *)
(* Around it: the test scripts, of which only the exit status matters      *)
(* here, the input devices, and the touch screen, whose driver may         *)
(* register it late.                                                       *)
(***************************************************************************)
EXTENDS Integers, Sequences, FiniteSets

CONSTANTS
  HardwareList,      \* the items of the line mmi.item of /proc/hardware/list
  TsNum              \* the touch screen's event number

ASSUME ListAssumption == HardwareList \in Seq(STRING)
ASSUME NumberAssumption == TsNum \in 0 .. 9

\* The calls of check_scripts, in order
Checks == <<"bluetooth", "charge", "touchkey", "backlight", "vibrator", "lcddisplay",
            "heartrate", "gsensor", "gyrsensor", "magsensor", "proximity">>

Items == 1 .. Len(HardwareList)
Checked == {Checks[c] : c \in 1 .. Len(Checks)}
LastTouch == Len(Checks) + 1

VARIABLES
  touchscreen,  \* "registered" with the kernel, or "absent"
  log,          \* /tmp/check_touch.log: is the touch screen listed, whose event is it
  eventnum,     \* shell variable of checktouch
  pc,           \* "ask", "again" (getevent, first and later), "items", "script", "hang" or "passed"
  check,        \* the check being made, 0 before the first and LastTouch after the last
  k,            \* the item check_scripts looks at
  err,          \* shell variable of check_scripts
  failed_count,
  failures      \* "$@", without the word it starts with

VARIABLES
  runs,         \* history: how the script of each item ended
  confirmed     \* history: touches since the last script, "none" or "some"

system == <<touchscreen>>
touching == <<log, eventnum>>
checking == <<check, k, err, failed_count, failures>>
vars == <<system, touching, checking, pc, runs, confirmed>>

NoLog == [listed |-> "no", event |-> "none"]

Init ==
  /\ touchscreen \in {"registered", "absent"}
  /\ log = NoLog /\ eventnum = -1
  /\ pc = "ask" /\ check = 0 /\ k = 1
  /\ err = 0 /\ failed_count = 0 /\ failures = <<>>
  /\ runs = [i \in Items |-> "untested"] /\ confirmed = "none"

---------------------------------------------------------------------------
(* The touch screen *)

Register ==
  /\ touchscreen = "absent"
  /\ touchscreen' = "registered"
  /\ UNCHANGED <<touching, checking, pc, runs, confirmed>>

---------------------------------------------------------------------------
(* checktouch, and the same loop at the end of the script *)

\* What the shell sees of the value main returns
ExitStatus(value) == (value + 256) % 256

\* Mutant: a touch screen that is not listed gives 0.
test_eventnum_zero(l) == IF l.listed = "yes" THEN TsNum ELSE 0

test_eventnum(l) == IF l.listed = "yes" THEN TsNum ELSE -1

\* Mutant: the last loop has no break.
TouchSeenNoBreak ==
  CASE check = 0 -> pc' = "items" /\ check' = 1 /\ k' = 1
    [] check \in 1 .. Len(Checks) -> pc' = "items" /\ UNCHANGED <<check, k>>
    [] OTHER -> pc' = "again" /\ UNCHANGED <<check, k>>

\* The first check begins, or the loop over the items goes on, or it was the
\* last touch.
TouchSeen ==
  CASE check = 0 -> pc' = "items" /\ check' = 1 /\ k' = 1
    [] check \in 1 .. Len(Checks) -> pc' = "items" /\ UNCHANGED <<check, k>>
    [] OTHER -> pc' = "passed" /\ UNCHANGED <<check, k>>

\* Mutant: the log is removed after the touch.
GetEventCleans(device) ==
  /\ pc \in {"ask", "again"}
  /\ device = "touchscreen" => touchscreen = "registered"
  /\ eventnum' = IF touchscreen = "registered" /\ pc = "ask" THEN TsNum ELSE eventnum
  /\ confirmed' = IF device = "touchscreen" THEN "some" ELSE confirmed
  /\ IF eventnum' = TsNum /\ device = "touchscreen"
     THEN TouchSeen /\ log' = NoLog
     ELSE pc' = "again" /\ UNCHANGED <<check, k, log>>
  /\ UNCHANGED <<system, err, failed_count, failures, runs>>

\* Mutant: any event counts once the touch screen is known.
GetEventAnyDevice(device) ==
  /\ pc \in {"ask", "again"}
  /\ device = "touchscreen" => touchscreen = "registered"
  /\ log' = [listed |-> IF touchscreen = "registered" THEN "yes" ELSE "no", event |-> device]
  /\ eventnum' = IF pc = "ask" \/ eventnum = -1 THEN ExitStatus(test_eventnum(log'))
                                                ELSE eventnum
  /\ confirmed' = IF device = "touchscreen" THEN "some" ELSE confirmed
  /\ IF eventnum' = TsNum THEN TouchSeen ELSE pc' = "again" /\ UNCHANGED <<check, k>>
  /\ UNCHANGED <<system, err, failed_count, failures, runs>>

\* `getevent -c 1` writes the devices there are and one event.  The number is
\* looked up in the first log, and in later ones while it is -1; the touch
\* counts if the event is of the device with this number.
GetEvent(device) ==
  /\ pc \in {"ask", "again"}
  /\ device = "touchscreen" => touchscreen = "registered"
  /\ log' = [listed |-> IF touchscreen = "registered" THEN "yes" ELSE "no", event |-> device]
  /\ eventnum' = IF pc = "ask" \/ eventnum = -1 THEN ExitStatus(test_eventnum(log'))
                                                ELSE eventnum
  /\ confirmed' = IF device = "touchscreen" THEN "some" ELSE confirmed
  /\ IF eventnum' = TsNum /\ device = "touchscreen"
     THEN TouchSeen
     ELSE pc' = "again" /\ UNCHANGED <<check, k>>
  /\ UNCHANGED <<system, err, failed_count, failures, runs>>

---------------------------------------------------------------------------
(* check_scripts *)

SkipItem ==
  /\ pc = "items" /\ k \in Items /\ HardwareList[k] # Checks[check]
  /\ k' = k + 1
  /\ UNCHANGED <<system, touching, check, err, failed_count, failures, pc, runs, confirmed>>

StartScript ==
  /\ pc = "items" /\ k \in Items /\ HardwareList[k] = Checks[check]
  /\ pc' = "script"
  /\ UNCHANGED <<system, touching, checking, runs, confirmed>>

\* Mutant: the count is set where it is to be increased.
ScriptReturnsSetsCount(status) ==
  /\ pc = "script"
  /\ err' = status /\ failed_count' = status
  /\ runs' = [runs EXCEPT ![k] = IF status = 0 THEN "passed" ELSE "failed"]
  /\ k' = k + 1
  /\ pc' = "ask" /\ confirmed' = "none"
  /\ UNCHANGED <<system, touching, check, failures>>

ScriptReturns(status) ==
  /\ pc = "script"
  /\ err' = status
  /\ failed_count' = IF status # 0 THEN failed_count + 1 ELSE failed_count
  /\ runs' = [runs EXCEPT ![k] = IF status = 0 THEN "passed" ELSE "failed"]
  /\ k' = k + 1
  /\ pc' = "ask" /\ confirmed' = "none"
  /\ UNCHANGED <<system, touching, check, failures>>

\* Mutant: the next call begins with the err of the last.
CheckReturnsKeepsErr ==
  /\ pc = "items" /\ k \notin Items
  /\ failures' = IF err # 0 THEN Append(failures, Checks[check]) ELSE failures
  /\ check' = check + 1 /\ k' = 1
  /\ pc' = IF check < Len(Checks) THEN "items"
           ELSE IF failed_count > 0 THEN "hang" ELSE "ask"
  /\ UNCHANGED <<system, touching, err, failed_count, runs, confirmed>>

\* check_scripts returns err; the caller notes a failure and makes the next
\* call, which begins with err=0, or after the last one looks at the count.
CheckReturns ==
  /\ pc = "items" /\ k \notin Items
  /\ failures' = IF err # 0 THEN Append(failures, Checks[check]) ELSE failures
  /\ check' = check + 1 /\ k' = 1 /\ err' = 0
  /\ pc' = IF check < Len(Checks) THEN "items"
           ELSE IF failed_count > 0 THEN "hang" ELSE "ask"
  /\ UNCHANGED <<system, touching, failed_count, runs, confirmed>>

---------------------------------------------------------------------------
Devices == {"touchscreen", "other"}
Statuses == {0, 1}

Run == SkipItem \/ StartScript \/ CheckReturns \/ \E s \in Statuses : ScriptReturns(s)

Next == Register \/ Run \/ \E d \in Devices : GetEvent(d)

Spec == Init /\ [][Next]_vars

\* A test script returns, the touch screen registers some day, and the operator
\* touches the screen again and again while the script waits for it.
FairSpec ==
  Spec /\ WF_vars(Run) /\ WF_vars(Register) /\ SF_vars(GetEvent("touchscreen"))

---------------------------------------------------------------------------
TypeOK ==
  /\ touchscreen \in {"registered", "absent"}
  /\ log \in [listed : {"yes", "no"}, event : Devices \cup {"none"}]
  /\ eventnum \in {-1, TsNum, 255}
  /\ pc \in {"ask", "again", "items", "script", "hang", "passed"}
  /\ check \in 0 .. LastTouch /\ k \in 1 .. Len(HardwareList) + 1
  /\ err \in Statuses /\ failed_count \in Nat /\ failures \in Seq(Checked)
  /\ runs \in [Items -> {"untested", "passed", "failed"}]
  /\ confirmed \in {"none", "some"}

\* "pretest pass" (pretest.sh:247) is said only when every item that has a
\* check was tested and none of its scripts failed, even an item listed twice.
PassMeansAllPassed ==
  pc = "passed" => \A i \in Items : HardwareList[i] \in Checked => runs[i] = "passed"

Shown(item) == \E f \in 1 .. Len(failures) : failures[f] = item

\* Once the checks are over, the count that decides over the hang is the number of
\* failed scripts, no check is shown as failed (pretest.sh:211) that did not fail, and
\* an item listed once that failed is shown.  Of an item listed twice this is not said.
FailuresNamed ==
  check = LastTouch =>
    /\ failed_count = Cardinality({i \in Items : runs[i] = "failed"})
    /\ \A c \in 1 .. Len(Checks) : Shown(Checks[c]) =>
         \E i \in Items : runs[i] = "failed" /\ HardwareList[i] = Checks[c]
    /\ \A i \in Items :
         runs[i] = "failed" /\ (\A j \in Items \ {i} : HardwareList[j] # HardwareList[i])
           => Shown(HardwareList[i])

\* pretest.sh:210 says of the list at the end "print the devices that failed the
\* test": every item one of whose scripts failed, and that is counted, is in it.
FailedAreShown ==
  check = LastTouch => \A i \in Items : runs[i] = "failed" => Shown(HardwareList[i])

\* While a script runs, the log that its current test hands to test_eventnum
\* exists and lists the touch screen.
ScriptFindsTouchscreen == pc = "script" => log.listed = "yes"

\* No test starts before the operator touched the screen after the last one.
StartsAfterTouch == pc = "script" => confirmed = "some"

Ended == pc \in {"hang", "passed"}

\* Once the touch screen was found in a first log the script ends, with the hang
\* that shows the failures or with the last touch, whatever fails and whatever
\* events other devices send.
EndsOnceFound == eventnum = TsNum ~> Ended

\* The script ends however late the touch screen registers: the loop of
\* pretest.sh:64 is there to look its number up again.
RunEnds == <>Ended
===========================================================================
