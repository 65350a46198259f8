---------------------------- MODULE Bluetooth ----------------------------
(***************************************************************************)
(* test_bluetooth, five HCI commands to a controller on a serial line, and *)
(* test_bluetooth.sh, which runs it once to judge the controller and again *)
(* and again in the current test.  The controller boots when the script    *)
(* powers it; a reset sent before may be lost or answered late, and is     *)
(* repeated by the alarm of proc_reset.                                    *)
(***************************************************************************)
EXTENDS CurrentTest, Integers, Sequences

CONSTANTS
  MaxUnderWay,     \* bound: commands and answers on the line when a reset is repeated
  MaxScripts       \* bound: scripts with a current test, one after the other
ASSUME ScriptsAssumption == MaxUnderWay \in Nat /\ MaxScripts \in Nat

Commands ==
  <<"reset", "read_bd_addr", "set_event_filter", "write_scan_enable", "enable_dut_mode">>

VARIABLES
  chip,            \* [state : "booting" or "ready", health : "good" or "faulty"]
  pending,         \* commands on their way
  events,          \* Command Completes in the serial line's buffer
  hci,             \* the command whose answer test_bluetooth waits for; 0: not running
  code,            \* its exit code; -1 before the first one
  executed,        \* commands completed since it was started
  scripts
hvars == <<chip, pending, events, hci, code, executed, scripts>>
btvars == <<ctvars, hvars>>

PowerUp ==
  /\ chip' = [state |-> "booting", health |-> chip.health]
  /\ pending' = <<>> /\ events' = <<>>

BtInit ==
  /\ CtInit
  /\ chip \in [state : {"booting"}, health : {"good", "faulty"}]
  /\ pending = <<>> /\ events = <<>> /\ hci = 0 /\ code = -1 /\ executed = {} /\ scripts = 0

---------------------------------------------------------------------------
(* The controller and the line *)

Ready ==
  /\ chip.state = "booting" /\ chip' = [chip EXCEPT !.state = "ready"]
  /\ UNCHANGED <<ctvars, pending, events, hci, code, executed, scripts>>

Lose ==
  /\ chip.state = "booting" /\ pending # <<>> /\ pending' = Tail(pending)
  /\ UNCHANGED <<ctvars, chip, events, hci, code, executed, scripts>>

Answer ==
  /\ chip.state = "ready" /\ pending # <<>>
  /\ pending' = Tail(pending)
  /\ \E status \in IF chip.health = "good" THEN {"ok"} ELSE {"ok", "error"} :
       /\ events' = Append(events, [cmd |-> Head(pending), status |-> status])
       /\ executed' = IF status = "ok" THEN executed \cup {Head(pending)} ELSE executed
  /\ UNCHANGED <<ctvars, chip, hci, code, scripts>>

---------------------------------------------------------------------------
(* test_bluetooth *)

\* init_uart drops what is in the buffer; commands that the controller has
\* already taken are not affected.
StartTool ==
  /\ hci = 0 /\ ((ct = "off" /\ code = -1) \/ ct = "work")
  /\ events' = <<>> /\ pending' = Append(pending, "reset")
  /\ hci' = 1 /\ executed' = {}
  /\ UNCHANGED <<ctvars, chip, code, scripts>>

\* Mutant: no alarm is set.
NoAlarm == hci = 1 /\ UNCHANGED btvars

\* After two seconds, then every four, until something was read.
Expired ==
  /\ hci = 1 /\ Len(pending) + Len(events) < MaxUnderWay
  /\ pending' = Append(pending, "reset")
  /\ UNCHANGED <<ctvars, chip, events, hci, code, executed, scripts>>

\* A run ends: in the script's test its code decides, in the current test it does not.
ExitWith(c) ==
  /\ hci' = 0 /\ code' = c
  /\ ct' \in IF ct = "work" THEN {"select"} ELSE IF c = 0 THEN {"prepare", "off"} ELSE {"off"}
  /\ UNCHANGED <<log, forked, linked, taken, touched>>

Matches(e) == e.cmd = Commands[hci] /\ e.status = "ok"

\* Mutant: only the status of the answer is looked at.
ReadStatusOnly ==
  /\ hci > 0 /\ events # <<>> /\ events' = Tail(events)
  /\ IF Head(events).status # "ok" THEN ExitWith(hci + 2) /\ UNCHANGED pending
     ELSE IF hci = Len(Commands) THEN ExitWith(0) /\ UNCHANGED pending
     ELSE /\ hci' = hci + 1 /\ pending' = Append(pending, Commands[hci + 1])
          /\ UNCHANGED <<ctvars, code>>
  /\ UNCHANGED <<chip, executed, scripts>>

\* Any answer but the expected one is an error: its length or its code differ.
ReadEvent ==
  /\ hci > 0 /\ events # <<>> /\ events' = Tail(events)
  /\ IF ~Matches(Head(events)) THEN ExitWith(hci + 2) /\ UNCHANGED pending
     ELSE IF hci = Len(Commands) THEN ExitWith(0) /\ UNCHANGED pending
     ELSE /\ hci' = hci + 1 /\ pending' = Append(pending, Commands[hci + 1])
          /\ UNCHANGED <<ctvars, code>>
  /\ UNCHANGED <<chip, executed, scripts>>

\* The next script with a current test; the controller is powered anew.
NextScript ==
  /\ scripts < MaxScripts /\ hci = 0 /\ code # -1 /\ ct \notin {"prepare", "work", "select"}
  /\ scripts' = scripts + 1 /\ code' = -1 /\ ct' = "off" /\ PowerUp
  /\ UNCHANGED <<log, forked, linked, taken, touched, hci, executed>>

---------------------------------------------------------------------------
UserTouches == \E place \in Spots : Touch(place)

Test == Prepare \/ Open \/ Select

Tool == StartTool \/ ReadEvent

BtNext ==
  \/ Ready \/ Lose \/ Answer \/ Tool \/ Expired \/ NextScript
  \/ (Test \/ UserTouches) /\ UNCHANGED hvars

BtSpec == BtInit /\ [][BtNext]_btvars

\* The controller boots and answers, the programs run and the alarm goes off, and a
\* user who sees no reaction touches "success" again, until its log holds that touch.
BtFairness ==
  /\ WF_btvars(Ready) /\ WF_btvars(Answer) /\ WF_btvars(Tool) /\ WF_btvars(Expired)
  /\ WF_btvars(Prepare /\ UNCHANGED hvars) /\ WF_btvars(Open /\ UNCHANGED hvars)
  /\ WF_btvars(Select /\ UNCHANGED hvars)
  /\ SF_btvars(Touch([x |-> "left", y |-> "buttons"]) /\ log' = "success" /\ UNCHANGED hvars)

BtFairSpec == BtSpec /\ BtFairness

---------------------------------------------------------------------------
BtTypeOK ==
  /\ CtTypeOK
  /\ chip \in [state : {"booting", "ready"}, health : {"good", "faulty"}]
  /\ \A i \in DOMAIN pending : \E j \in DOMAIN Commands : pending[i] = Commands[j]
  /\ hci \in 0 .. Len(Commands) /\ code \in -1 .. 7 /\ scripts \in 0 .. MaxScripts
  /\ code = -1 => ~UnderWay

\* test_bluetooth succeeds only when the controller completed each of the five
\* commands during this run, however many resets and late answers are on the line.
SuccessIsReal ==
  code = 0 /\ ct \in {"off", "prepare"} => {Commands[i] : i \in DOMAIN Commands} \subseteq executed

\* test_bluetooth has no timeout but the alarm of its reset, and yet it ends when the
\* controller boots and answers; a current test, which runs it in a loop, ends once
\* the user keeps touching a button.
TestEnds ==
  /\ hci > 0 ~> hci = 0
  /\ ct = "work" ~> ct \in {"passed", "failed", "unselected"}

\* What proc_reset and the others say of themselves, "success returns 0": a
\* controller that completes every command with success passes the test.
GoodPasses == chip.health = "good" /\ ct = "off" => code \in {-1, 0}
===========================================================================
