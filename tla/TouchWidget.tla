--------------------------- MODULE TouchWidget ---------------------------
(***************************************************************************)
(* The touch button library of test_keyboard/widget.c, as start_listen     *)
(* runs it: a kernel input queue filled by the touch driver, the touch     *)
(* state machine of get_touch, catch_action_for_button and the dispatch to *)
(* the button's callback.  The constants choose the program: the touch     *)
(* screen test (test_touchbutton.c) or the key test (inputevent.c).        *)
(*                                                                         *)
(* The driver reports as widget.c:460 describes: a touch is a series of    *)
(* groups, each of EV_ABS events and an EV_SYN, and lifting the finger is  *)
(* an EV_SYN alone.  Of the EV_ABS events the listener uses two, X and Y.  *)
(* A full queue is emptied by the kernel but for the newest event, which   *)
(* may tear a group apart.                                                 *)
(*                                                                         *)
(* The screen is a grid.  A button is a cell of it, and the other cells    *)
(* are the screen beside the buttons.                                      *)
(***************************************************************************)
EXTENDS Naturals, Sequences

CONSTANTS
  Column, Row, \* the grid
  Button,      \* the cells that are buttons
  Origin,      \* coordinate 0, which istouchingbutton finds in no button
  None,        \* no button: id 0
  Up,          \* where the finger is when it does not touch
  Fast,        \* the buttons with Fast_Touch == ENABLE
  DrawEnd,     \* the buttons with Draw_Button_In_End == ENABLE
  Callback,    \* the buttons whose func is check_bt
  EcsButton,   \* the buttons given mode ECS_LISTEN before start_listen
  MaxQueue,    \* events the kernel keeps for the reader
  MaxReports   \* bound on the groups a run of the model reports

Cell == Column \X Row
Place == (Column \cup {Origin}) \X (Row \cup {Origin})

ASSUME ScreenAssumption ==
  /\ Button \subseteq Cell /\ Origin \notin Column \cup Row
  /\ None \notin Button /\ Up \notin Place
ASSUME KindsAssumption == Fast \cup DrawEnd \cup Callback \cup EcsButton \subseteq Button
ASSUME BoundAssumption == MaxQueue \in Nat /\ MaxQueue > 1 /\ MaxReports \in Nat

AbsX(c) == [type |-> "x", at |-> c]
AbsY(r) == [type |-> "y", at |-> r]
Syn == [type |-> "syn", at |-> Origin]
Dropped == [type |-> "dropped", at |-> Origin]
Event == {AbsX(c) : c \in Column} \cup {AbsY(r) : r \in Row} \cup {Syn, Dropped}

VARIABLES
  queue,     \* what the kernel holds for the reader
  finger,    \* where the finger is, or Up
  reports,   \* groups reported so far
  state,     \* rec_touch.state: RESET_TOUCH, KEEP_TOUCH or END_TOUCH
  place,     \* rec_touch.x and rec_touch.y
  bt_id,     \* rec_touch.bt_id, None for 0
  drawn,     \* the picture on the screen, per button
  result,    \* button->result = 1
  mode,      \* button->mode
  pc,        \* "open", "wait" (epoll_wait) or "returned"
  ret        \* what start_listen returned

VARIABLES
  touched,   \* history: buttons the finger has been on
  tapped     \* history: buttons a finger was lifted from

driver == <<queue, finger, reports, touched, tapped>>
listener == <<state, place, bt_id, drawn, result, mode, pc, ret>>
vars == <<driver, listener>>

\* rec_touch at first: its place is static and zero.
init_param == state = "RESET" /\ place = <<Origin, Origin>> /\ bt_id = None

\* The buttons come from init_button, are drawn released and have no result.
Init ==
  /\ queue = <<>> /\ finger = Up /\ reports = 0
  /\ init_param
  /\ drawn = [b \in Button |-> "released"]
  /\ result = [b \in Button |-> 0]
  /\ mode = [b \in Button |-> IF b \in EcsButton THEN "ECS_LISTEN" ELSE "NORMAL"]
  /\ pc = "open" /\ ret = "none"
  /\ touched = {} /\ tapped = {}

---------------------------------------------------------------------------
(* The touch driver and the kernel's queue *)

Push(q, e) == IF Len(q) < MaxQueue THEN Append(q, e) ELSE <<Dropped, e>>

\* The finger comes down, moves or stays, and the driver reports a group.
Report(p) ==
  /\ reports < MaxReports
  /\ reports' = reports + 1
  /\ finger' = p
  /\ queue' = Push(Push(Push(queue, AbsX(p[1])), AbsY(p[2])), Syn)
  /\ touched' = touched \cup ({p} \cap Button)
  /\ UNCHANGED <<tapped, listener>>

Lift ==
  /\ finger # Up
  /\ finger' = Up
  /\ queue' = Push(queue, Syn)
  /\ tapped' = tapped \cup ({finger} \cap Button)
  /\ UNCHANGED <<reports, touched, listener>>

---------------------------------------------------------------------------
(* The listener *)

\* Without a touch screen or a key device epoll_ctl refuses the descriptor.
OpenDevices ==
  /\ pc = "open"
  /\ \/ pc' = "wait" /\ ret' = ret
     \/ pc' = "returned" /\ ret' = "error"
  /\ UNCHANGED <<driver, state, place, bt_id, drawn, result, mode>>

ButtonAt(p) == IF p \in Button THEN p ELSE None

\* The EV_SYN case of get_touch
NextTouchState(s) ==
  CASE s = "RESET" -> "KEEP" [] s = "KEEP" -> "END" [] OTHER -> "RESET"

\* The listener reads one event; what it does with it is atomic, for the
\* driver only shares the queue.
Read ==
  /\ pc = "wait" /\ queue # <<>>
  /\ queue' = Tail(queue)
  /\ UNCHANGED <<finger, reports, touched, tapped>>

\* Mutant: EV_ABS does not reset the touch state.
ReadAbsKeepState ==
  /\ Read
  /\ \/ Head(queue).type = "x" /\ place' = <<Head(queue).at, place[2]>>
     \/ Head(queue).type = "y" /\ place' = <<place[1], Head(queue).at>>
  /\ UNCHANGED <<state, bt_id, drawn, result, mode, pc, ret>>

ReadAbs ==
  /\ Read
  /\ \/ Head(queue).type = "x" /\ place' = <<Head(queue).at, place[2]>>
     \/ Head(queue).type = "y" /\ place' = <<place[1], Head(queue).at>>
  /\ state' = "RESET"
  /\ UNCHANGED <<bt_id, drawn, result, mode, pc, ret>>

ReadDropped ==
  /\ Read /\ Head(queue).type = "dropped"
  /\ UNCHANGED listener

\* A synchronisation that ends a group, ends a touch or is one too many
ReadSyn(s) ==
  /\ Read /\ Head(queue).type = "syn"
  /\ s = NextTouchState(state) /\ state' = s
  /\ UNCHANGED place

\* The callback of the touch screen test: this button ends the listening if
\* every button has a result.
check_bt(b, results) ==
  IF \A c \in Button : results[c] = 1 THEN [mode EXCEPT ![b] = "ECS_LISTEN"] ELSE mode

\* Mutant: results are counted up.
DispatchCountsUp(b) ==
  /\ result' = [result EXCEPT ![b] = @ + 1]
  /\ mode' = IF b \in Callback THEN check_bt(b, result') ELSE mode
  /\ IF mode'[b] = "ECS_LISTEN" THEN pc' = "returned" /\ ret' = "ok"
                                ELSE UNCHANGED <<pc, ret>>

\* Mutant: find_button_by_id finds the first button whatever the id.
DispatchFirstInList(b) ==
  /\ result' = [result EXCEPT ![CHOOSE c \in Button : TRUE] = 1]
  /\ UNCHANGED <<mode, pc, ret>>

\* Mutant: the callback runs before the result is stored.
DispatchCallbackFirst(b) ==
  /\ result' = [result EXCEPT ![b] = 1]
  /\ mode' = IF b \in Callback THEN check_bt(b, result) ELSE mode
  /\ IF mode'[b] = "ECS_LISTEN" THEN pc' = "returned" /\ ret' = "ok"
                                ELSE UNCHANGED <<pc, ret>>

\* start_listen with the id that catch_action_for_button returned
Dispatch(b) ==
  /\ result' = [result EXCEPT ![b] = 1]
  /\ mode' = IF b \in Callback THEN check_bt(b, result') ELSE mode
  /\ IF mode'[b] = "ECS_LISTEN" THEN pc' = "returned" /\ ret' = "ok"
                                ELSE UNCHANGED <<pc, ret>>

NoDispatch == UNCHANGED <<result, mode, pc, ret>>

\* draw_button of the button left, if its release is to be drawn.  The field
\* button->state is set just before each drawing and read nowhere else.
Released(b) == IF b \in DrawEnd THEN [drawn EXCEPT ![b] = "released"] ELSE drawn

\* Mutant: the button left stays the touched one.
TouchOffKeepsButton ==
  /\ ReadSyn("KEEP") /\ ButtonAt(place) = None
  /\ drawn' = Released(bt_id)
  /\ bt_id' = bt_id
  /\ NoDispatch

\* KEEP_TOUCH away from the buttons
TouchOff ==
  /\ ReadSyn("KEEP") /\ ButtonAt(place) = None
  /\ drawn' = Released(bt_id)
  /\ bt_id' = None
  /\ NoDispatch

\* Mutant: the button left is not drawn.
TouchOnLeavesLast ==
  /\ ReadSyn("KEEP") /\ ButtonAt(place) # None
  /\ drawn' = [drawn EXCEPT ![place] = "pressed"]
  /\ bt_id' = place
  /\ IF place \in Fast THEN Dispatch(place) ELSE NoDispatch

\* KEEP_TOUCH on a button: the one touched before is drawn released, unless
\* it is this one, and a Fast_Touch button is dispatched at once.
TouchOn ==
  /\ ReadSyn("KEEP") /\ ButtonAt(place) # None
  /\ drawn' = IF bt_id = place THEN drawn
              ELSE [Released(bt_id) EXCEPT ![place] = "pressed"]
  /\ bt_id' = place
  /\ IF place \in Fast THEN Dispatch(place) ELSE NoDispatch

\* END_TOUCH: the button touched last is dispatched; bt_id stays.
TouchEnds ==
  /\ ReadSyn("END")
  /\ drawn' = Released(bt_id)
  /\ IF bt_id \in Button THEN Dispatch(bt_id) ELSE NoDispatch
  /\ UNCHANGED bt_id

IdleSyn ==
  /\ ReadSyn("RESET")
  /\ UNCHANGED <<bt_id, drawn>>
  /\ NoDispatch

Listen == ReadAbs \/ ReadDropped \/ TouchOff \/ TouchOn \/ TouchEnds \/ IdleSyn

Next == OpenDevices \/ Listen \/ Lift \/ \E p \in Cell : Report(p)

Spec == Init /\ [][Next]_vars

\* epoll is level triggered: what is left in the queue wakes the listener.
FairSpec == Spec /\ WF_vars(OpenDevices) /\ WF_vars(Listen)

---------------------------------------------------------------------------
TypeOK ==
  /\ queue \in Seq(Event) /\ Len(queue) <= MaxQueue
  /\ finger \in Cell \cup {Up}
  /\ reports \in 0 .. MaxReports
  /\ state \in {"RESET", "KEEP", "END"}
  /\ place \in Place /\ bt_id \in Button \cup {None}
  /\ drawn \in [Button -> {"released", "pressed"}]
  /\ result \in [Button -> {0, 1}]
  /\ mode \in [Button -> {"NORMAL", "ECS_LISTEN"}]
  /\ pc \in {"open", "wait", "returned"}
  /\ ret \in {"none", "ok", "error"}
  /\ touched \subseteq Button /\ tapped \subseteq Button

\* A button is counted only if the finger has been on it (test_touchbutton.c:30).
CountedWasTouched == \A b \in Button : result[b] = 1 => b \in touched

\* The picture follows the finger (widget.h:95): a button that is to be drawn
\* released after its use is drawn pressed only while the touch is on it, and
\* one that is not stays pressed once it has been counted, also when the kernel
\* drops events and the listener takes a lift for a touch.
PictureFollowsTouch ==
  \A b \in Button :
    /\ b \in DrawEnd /\ drawn[b] = "pressed" => bt_id = b /\ state # "END"
    /\ b \notin DrawEnd /\ result[b] = 1 => drawn[b] = "pressed"

\* check_bt ends the listening at the very touch that makes the results complete:
\* not before, and never later, when no further touch may come.
EndsWhenAllCounted == ret = "ok" <=> \A b \in Button : result[b] = 1

\* When start_listen returns 0 the touch is on a button of mode ECS_LISTEN that
\* has a result, and no other button of this mode has one: of the pass and fail
\* buttons of inputevent.c exactly one is counted.
OneVerdict ==
  ret = "ok" => \E b \in Button : /\ place = b /\ mode[b] = "ECS_LISTEN"
                                  /\ \A c \in Button : mode[c] = "ECS_LISTEN" =>
                                                        (result[c] = 1 <=> c = b)

\* A button from which a finger was lifted is counted, unless the listening
\* has ended: no early return of catch_action_for_button loses an event.
TapCounts == \A b \in Button : b \in tapped ~> (result[b] = 1 \/ pc = "returned")
===========================================================================
