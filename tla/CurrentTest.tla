---------------------------- MODULE CurrentTest ----------------------------
(***************************************************************************)
(* currenttest, the loop by which six of the scripts keep a part at work   *)
(* while its current is measured, until the user touches "success" or      *)
(* "failure": a getevent in the background writes the touch to a log,      *)
(* get_select reads the log.  What the part does in the meantime is left   *)
(* to the module that extends this one.                                    *)
(*                                                                         *)
(* getevent writes nothing before it has its five events.  They may be of  *)
(* several touches, and without an x or a y, which a driver need not send  *)
(* when it is what it was.  What is written to a removed log has no effect. *)
(***************************************************************************)
EXTENDS Naturals

CONSTANTS
  F1,              \* of the environment: 1 where the screen is turned by 180 degrees
  AboveOn,         \* bound: the sides on which it is touched above the buttons
  MaxForked        \* bound: background processes not yet running
ASSUME ForkedAssumption == F1 \in {0, 1} /\ AboveOn \subseteq {"left", "right"} /\ MaxForked \in Nat

\* Where the user sees a touch: on the side of a button, in their row or above it.
Spots == [x : {"left", "right"}, y : {"buttons"}] \cup [x : AboveOn, y : {"above"}]
Buttons == {"success", "failure", "elsewhere"}

button_select(place) ==
  CASE place.y = "above" -> "elsewhere"
    [] place.y = "buttons" /\ place.x = "left" -> "success"
    [] place.y = "buttons" /\ place.x = "right" -> "failure"

\* What the x = 0 and y = 0 stand for that get_select begins with.
Origin == IF F1 = 1 THEN [x |-> "right", y |-> "buttons"] ELSE [x |-> "left", y |-> "above"]

VARIABLES
  ct,              \* "off", "prepare", "work", "select"; "passed", "failed", "unselected"
  log,             \* /tmp/test_select.log: "absent", "empty" or what it says of a button
  forked, linked,  \* getevents: about to open the log; writing to it
  taken,           \* touches that a getevent has the events of, but not yet five
  touched          \* touches since this current test began

ctvars == <<ct, log, forked, linked, taken, touched>>

CtInit ==
  ct = "off" /\ log = "absent" /\ forked = 0 /\ linked = 0 /\ taken = {} /\ touched = {}

UnderWay == ct \in {"work", "select"}

\* Mutant: the log of an earlier current test stays.
PrepareKeepsLog ==
  /\ ct = "prepare" /\ forked < MaxForked
  /\ forked' = forked + 1 /\ touched' = {} /\ ct' = "work"
  /\ UNCHANGED <<log, linked, taken>>

Prepare ==
  /\ ct = "prepare" /\ forked < MaxForked
  /\ log' = "absent" /\ linked' = 0 /\ taken' = {}
  /\ forked' = forked + 1 /\ touched' = {} /\ ct' = "work"

\* The shell's child opens and truncates the log, then runs getevent.
Open ==
  /\ forked > 0
  /\ forked' = forked - 1 /\ linked' = linked + 1 /\ log' = "empty"
  /\ UNCHANGED <<ct, taken, touched>>

\* What the log says of the places touched: the x of one and the y of one, or zero.
Tells(places) ==
  {button_select([x |-> p.x, y |-> q.y]) : p \in places \cup {Origin}, q \in places \cup {Origin}}

Touch(place) ==
  /\ UnderWay
  /\ touched' = touched \cup {place}
  /\ \/ linked > 0 /\ log' \in Tells(taken \cup {place}) /\ linked' = 0 /\ taken' = {}
     \/ linked > 0 /\ taken' = taken \cup {place} /\ UNCHANGED <<log, linked>>
     \/ linked = 0 /\ UNCHANGED <<log, linked, taken>>
  /\ UNCHANGED <<ct, forked>>

Selected(t) == ct = "select" /\ log = t

\* get_select found the touch of a button.
Judge ==
  /\ \/ Selected("success") /\ ct' = "passed"
     \/ Selected("failure") /\ ct' = "failed"
  /\ UNCHANGED <<log, forked, linked, taken, touched>>

\* Mutant: no getevent for the next touch.
TouchElsewhereOnce ==
  /\ Selected("elsewhere")
  /\ log' = "absent" /\ linked' = 0 /\ taken' = {} /\ ct' = "work"
  /\ UNCHANGED <<forked, touched>>

\* A touch beside the buttons: another one is awaited.
TouchElsewhere ==
  /\ Selected("elsewhere") /\ forked < MaxForked
  /\ log' = "absent" /\ linked' = 0 /\ taken' = {} /\ forked' = forked + 1 /\ ct' = "work"
  /\ UNCHANGED touched

\* get_select returns 4: fewer than five events.
NoTouchYet == Selected("empty") /\ ct' = "work" /\ UNCHANGED <<log, forked, linked, taken, touched>>

\* get_select cannot open the log and returns -1, which is none of 1 to 4.
NoLogYet == Selected("absent") /\ ct' = "unselected" /\ UNCHANGED <<log, forked, linked, taken, touched>>

Select == Judge \/ TouchElsewhere \/ NoTouchYet \/ NoLogYet

---------------------------------------------------------------------------
CtTypeOK ==
  /\ ct \in {"off", "prepare", "work", "select", "passed", "failed", "unselected"}
  /\ log \in Buttons \cup {"absent", "empty"}
  /\ forked \in 0 .. MaxForked /\ linked \in 0 .. MaxForked + 1
  /\ taken \subseteq touched /\ touched \subseteq Spots

\* The verdict is read from touches of this current test, not from one that an earlier
\* one, or the getevent it left behind, wrote to the log they share: from the x of one and
\* the y of one, or zero where the five events had none.
VerdictWasTouched ==
  /\ ct = "passed" => touched # {} /\ "success" \in Tells(touched)
  /\ ct = "failed" => touched # {} /\ "failure" \in Tells(touched)

\* "select failed" is no broken log: a getevent was about to open it.
UnselectedIsRace == [][ct' = "unselected" /\ ct # "unselected" => forked > 0]_ctvars
===========================================================================
