------------------------ MODULE TouchWidgetProofs ------------------------
(***************************************************************************)
(* Proofs about TouchWidget, for every screen, every set of buttons of     *)
(* every kind and every length of the kernel's queue.                      *)
(***************************************************************************)
EXTENDS TouchWidget, TLAPS

---------------------------------------------------------------------------
(* Types *)

LEMMA PushType ==
  ASSUME NEW q \in Seq(Event), Len(q) <= MaxQueue, NEW e \in Event
  PROVE  Push(q, e) \in Seq(Event) /\ Len(Push(q, e)) <= MaxQueue
<1>1. CASE Len(q) < MaxQueue
  BY <1>1, BoundAssumption DEF Push
<1>2. CASE ~(Len(q) < MaxQueue)
  <2>1. Dropped \in Event
    BY DEF Event
  <2> QED
    BY <1>2, <2>1, BoundAssumption DEF Push
<1> QED
  BY <1>1, <1>2

LEMMA ReleasedType ==
  ASSUME drawn \in [Button -> {"released", "pressed"}], NEW b
  PROVE  Released(b) \in [Button -> {"released", "pressed"}]
BY DEF Released

LEMMA DispatchType ==
  ASSUME TypeOK, NEW b \in Button, Dispatch(b)
  PROVE  /\ result' \in [Button -> {0, 1}]
         /\ mode' \in [Button -> {"NORMAL", "ECS_LISTEN"}]
         /\ pc' \in {"open", "wait", "returned"} /\ ret' \in {"none", "ok", "error"}
<1>1. result' \in [Button -> {0, 1}]
  BY DEF Dispatch, TypeOK
<1>2. mode' \in [Button -> {"NORMAL", "ECS_LISTEN"}]
  BY DEF Dispatch, check_bt, TypeOK
<1>3. pc' \in {"open", "wait", "returned"} /\ ret' \in {"none", "ok", "error"}
  BY DEF Dispatch, TypeOK
<1> QED
  BY <1>1, <1>2, <1>3

LEMMA ReadType ==
  ASSUME TypeOK, Read
  PROVE  /\ queue' \in Seq(Event) /\ Len(queue') <= MaxQueue
         /\ Head(queue) \in Event
         /\ UNCHANGED <<finger, reports, touched, tapped>>
<1>1. queue \in Seq(Event) /\ queue # <<>>
  BY DEF TypeOK, Read
<1>2. Tail(queue) \in Seq(Event) /\ Len(Tail(queue)) = Len(queue) - 1 /\ Head(queue) \in Event
  BY <1>1
<1> QED
  BY <1>1, <1>2, BoundAssumption DEF TypeOK, Read

\* What the four kinds of synchronisation have in common
LEMMA ReadSynType ==
  ASSUME TypeOK, NEW s \in {"RESET", "KEEP", "END"}, ReadSyn(s)
  PROVE  /\ queue' \in Seq(Event) /\ Len(queue') <= MaxQueue
         /\ UNCHANGED <<finger, reports, touched, tapped, place>>
         /\ state' = s
BY ReadType DEF ReadSyn

LEMMA TypeInit == Init => TypeOK
<1> SUFFICES ASSUME Init PROVE TypeOK
  OBVIOUS
<1>1. queue \in Seq(Event) /\ Len(queue) <= MaxQueue
  BY BoundAssumption DEF Init, init_param
<1>2. /\ drawn \in [Button -> {"released", "pressed"}]
      /\ result \in [Button -> {0, 1}]
      /\ mode \in [Button -> {"NORMAL", "ECS_LISTEN"}]
  BY DEF Init, init_param
<1>3. place \in Place
  BY DEF Init, init_param, Place
<1>4. reports \in 0 .. MaxReports
  BY BoundAssumption DEF Init, init_param
<1> QED
  BY <1>1, <1>2, <1>3, <1>4 DEF Init, init_param, TypeOK

LEMMA TypeStep == TypeOK /\ [Next]_vars => TypeOK'
<1> SUFFICES ASSUME TypeOK, [Next]_vars PROVE TypeOK'
  OBVIOUS
<1>1. CASE OpenDevices
  BY <1>1 DEF OpenDevices, driver, TypeOK
<1>2. ASSUME NEW p \in Cell, Report(p) PROVE TypeOK'
  <2>1. AbsX(p[1]) \in Event /\ AbsY(p[2]) \in Event /\ Syn \in Event
    BY DEF Event, Cell
  <2> DEFINE q1 == Push(queue, AbsX(p[1]))
             q2 == Push(q1, AbsY(p[2]))
  <2>2. q1 \in Seq(Event) /\ Len(q1) <= MaxQueue
    BY <2>1, PushType DEF TypeOK
  <2>3. q2 \in Seq(Event) /\ Len(q2) <= MaxQueue
    BY <2>1, <2>2, PushType
  <2>4. Push(q2, Syn) \in Seq(Event) /\ Len(Push(q2, Syn)) <= MaxQueue
    BY <2>1, <2>3, PushType
  <2>5. queue' \in Seq(Event) /\ Len(queue') <= MaxQueue
    BY <1>2, <2>4 DEF Report
  <2>6. reports' \in 0 .. MaxReports /\ finger' \in Cell \cup {Up} /\ touched' \subseteq Button
    BY <1>2, BoundAssumption DEF Report, TypeOK
  <2> QED
    BY <1>2, <2>5, <2>6 DEF Report, listener, TypeOK
<1>3. CASE Lift
  <2>1. Syn \in Event
    BY DEF Event
  <2>2. queue' \in Seq(Event) /\ Len(queue') <= MaxQueue
    BY <1>3, <2>1, PushType DEF Lift, TypeOK
  <2>3. tapped' \subseteq Button
    BY <1>3 DEF Lift, TypeOK
  <2> QED
    BY <1>3, <2>2, <2>3 DEF Lift, listener, TypeOK
<1>4. CASE ReadAbs
  <2>1. place' \in Place
    <3>1. \/ \E c \in Column : Head(queue) = AbsX(c)
          \/ \E r \in Row : Head(queue) = AbsY(r)
      BY <1>4, ReadType DEF ReadAbs, Event, AbsX, AbsY, Syn, Dropped
    <3>2. CASE \E c \in Column : Head(queue) = AbsX(c)
      BY <1>4, <3>2 DEF ReadAbs, AbsX, Place, TypeOK
    <3>3. CASE \E r \in Row : Head(queue) = AbsY(r)
      BY <1>4, <3>3 DEF ReadAbs, AbsY, Place, TypeOK
    <3> QED
      BY <3>1, <3>2, <3>3
  <2> QED
    BY <1>4, <2>1, ReadType DEF ReadAbs, TypeOK
<1>5. CASE ReadDropped
  BY <1>5, ReadType DEF ReadDropped, listener, TypeOK
<1>6. CASE TouchOff
  <2>1. drawn' \in [Button -> {"released", "pressed"}]
    BY <1>6, ReleasedType DEF TouchOff, TypeOK
  <2> QED
    BY <1>6, <2>1, ReadSynType DEF TouchOff, NoDispatch, TypeOK
<1>7. CASE TouchOn
  <2>1. place \in Button
    BY <1>7 DEF TouchOn, ButtonAt
  <2>2. drawn' \in [Button -> {"released", "pressed"}]
    BY <1>7, ReleasedType DEF TouchOn, TypeOK
  <2>3. /\ result' \in [Button -> {0, 1}]
        /\ mode' \in [Button -> {"NORMAL", "ECS_LISTEN"}]
        /\ pc' \in {"open", "wait", "returned"} /\ ret' \in {"none", "ok", "error"}
    <3>1. CASE place \in Fast
      BY <1>7, <2>1, <3>1, DispatchType DEF TouchOn
    <3>2. CASE place \notin Fast
      BY <1>7, <3>2 DEF TouchOn, NoDispatch, TypeOK
    <3> QED
      BY <3>1, <3>2
  <2> QED
    BY <1>7, <2>1, <2>2, <2>3, ReadSynType DEF TouchOn, TypeOK
<1>8. CASE TouchEnds
  <2>1. drawn' \in [Button -> {"released", "pressed"}]
    BY <1>8, ReleasedType DEF TouchEnds, TypeOK
  <2>2. /\ result' \in [Button -> {0, 1}]
        /\ mode' \in [Button -> {"NORMAL", "ECS_LISTEN"}]
        /\ pc' \in {"open", "wait", "returned"} /\ ret' \in {"none", "ok", "error"}
    <3>1. CASE bt_id \in Button
      BY <1>8, <3>1, DispatchType DEF TouchEnds
    <3>2. CASE bt_id \notin Button
      BY <1>8, <3>2 DEF TouchEnds, NoDispatch, TypeOK
    <3> QED
      BY <3>1, <3>2
  <2> QED
    BY <1>8, <2>1, <2>2, ReadSynType DEF TouchEnds, TypeOK
<1>9. CASE IdleSyn
  BY <1>9, ReadSynType DEF IdleSyn, NoDispatch, TypeOK
<1>10. CASE UNCHANGED vars
  BY <1>10 DEF vars, driver, listener, TypeOK
<1> QED
  BY <1>1, <1>2, <1>3, <1>4, <1>5, <1>6, <1>7, <1>8, <1>9, <1>10 DEF Next, Listen

\* Every variable keeps its type; the queue never outgrows the kernel's buffer,
\* and no event makes the listener hold a button that does not exist.
THEOREM TypeCorrect == Spec => []TypeOK
BY TypeInit, TypeStep, PTL DEF Spec

---------------------------------------------------------------------------
(* The driver and the events that are no synchronisation leave the buttons  *)
(* alone.                                                                   *)

LEMMA OtherSteps ==
  ASSUME \/ \E p \in Cell : Report(p)
         \/ Lift \/ ReadDropped \/ UNCHANGED vars
  PROVE  UNCHANGED listener
BY DEF Report, Lift, ReadDropped, listener, vars

---------------------------------------------------------------------------
(* The end of the touch screen test.  All buttons are NORMAL until the end, *)
(* so only check_bt can end the listening, and it sees the last result.     *)

AllCounted == \A b \in Button : result[b] = 1

EndsInv ==
  /\ ret = "ok" <=> AllCounted
  /\ pc # "returned" => ret = "none"
  /\ ret # "ok" => \A b \in Button : mode[b] = "NORMAL"

LEMMA DispatchEnds ==
  ASSUME Callback = Button, TypeOK, EndsInv, pc = "wait",
         NEW b \in Button, Dispatch(b)
  PROVE  EndsInv'
<1>1. ret = "none" /\ mode[b] = "NORMAL"
  BY DEF EndsInv
<1>2. mode' = check_bt(b, result')
  BY DEF Dispatch
<1>3. CASE AllCounted'
  <2>1. mode' = [mode EXCEPT ![b] = "ECS_LISTEN"]
    BY <1>2, <1>3 DEF check_bt, AllCounted
  <2>2. mode'[b] = "ECS_LISTEN"
    BY <2>1 DEF TypeOK
  <2>3. pc' = "returned" /\ ret' = "ok"
    BY <2>2 DEF Dispatch
  <2> QED
    BY <1>3, <2>3 DEF EndsInv
<1>4. CASE ~AllCounted'
  <2>1. mode' = mode
    BY <1>2, <1>4 DEF check_bt, AllCounted
  <2>2. pc' = pc /\ ret' = ret
    BY <1>1, <2>1 DEF Dispatch
  <2> QED
    BY <1>1, <1>4, <2>1, <2>2 DEF EndsInv
<1> QED
  BY <1>3, <1>4

LEMMA NoDispatchEnds == ASSUME EndsInv, NoDispatch PROVE EndsInv'
BY DEF NoDispatch, EndsInv, AllCounted

LEMMA EndsStep ==
  ASSUME Callback = Button, Button # {}, TypeOK, EndsInv, [Next]_vars
  PROVE  EndsInv'
<1>1. CASE OpenDevices
  <2>1. result' = result /\ mode' = mode /\ ret = "none"
    BY <1>1 DEF OpenDevices, EndsInv
  <2>2. ret' \in {"none", "error"} /\ (pc' # "returned" => ret' = "none")
    BY <1>1, <2>1 DEF OpenDevices
  <2> QED
    BY <2>1, <2>2 DEF EndsInv, AllCounted
<1>2. CASE (\E p \in Cell : Report(p)) \/ Lift \/ ReadDropped \/ UNCHANGED vars
  BY <1>2, OtherSteps DEF listener, EndsInv, AllCounted
<1>3. CASE ReadAbs
  BY <1>3 DEF ReadAbs, EndsInv, AllCounted
<1>4. CASE TouchOff \/ IdleSyn
  BY <1>4, NoDispatchEnds DEF TouchOff, IdleSyn
<1>5. CASE TouchOn
  <2>1. place \in Button /\ pc = "wait"
    BY <1>5 DEF TouchOn, ButtonAt, ReadSyn, Read
  <2> QED
    BY <1>5, <2>1, DispatchEnds, NoDispatchEnds DEF TouchOn
<1>6. CASE TouchEnds
  <2>1. pc = "wait"
    BY <1>6 DEF TouchEnds, ReadSyn, Read
  <2> QED
    BY <1>6, <2>1, DispatchEnds, NoDispatchEnds DEF TouchEnds
<1> QED
  BY <1>1, <1>2, <1>3, <1>4, <1>5, <1>6 DEF Next, Listen

\* The touch screen test (test_touchbutton.c:31-44, 65-77): with check_bt as
\* the callback of every button, listening ends at the touch that completes
\* the results, whatever the screen, the touches and the lost events.
THEOREM EndsCorrect ==
  ASSUME Callback = Button, EcsButton = {}, Button # {}
  PROVE  Spec => []EndsWhenAllCounted
<1>1. Init => EndsInv
  BY DEF Init, init_param, EndsInv, AllCounted
<1>2. TypeOK /\ EndsInv /\ [Next]_vars => EndsInv'
  BY EndsStep
<1>3. EndsInv => EndsWhenAllCounted
  BY DEF EndsInv, AllCounted, EndsWhenAllCounted
<1> QED
  BY <1>1, <1>2, <1>3, TypeCorrect, PTL DEF Spec

---------------------------------------------------------------------------
(* The verdict.  While a touch is kept, bt_id is the button under it; and   *)
(* the first dispatch of an ECS_LISTEN button ends the listening.           *)

Undecided ==
  /\ ret = "none"
  /\ \A b \in Button : mode[b] = "ECS_LISTEN" => result[b] = 0

VerdictInv ==
  /\ state = "KEEP" => bt_id = ButtonAt(place)
  /\ pc # "returned" => Undecided
  /\ OneVerdict

LEMMA DispatchDecides ==
  ASSUME TypeOK, VerdictInv, pc = "wait", NEW b \in Button, Dispatch(b), place' = b
  PROVE  (pc' # "returned" => Undecided') /\ OneVerdict'
<1>1. /\ \A c \in Button \ {b} : mode'[c] = mode[c] /\ result'[c] = result[c]
      /\ result'[b] = 1 /\ Undecided
  BY DEF Dispatch, check_bt, VerdictInv, TypeOK
<1>2. CASE mode'[b] = "ECS_LISTEN"
  <2>1. pc' = "returned" /\ ret' = "ok"
    BY <1>2 DEF Dispatch
  <2>2. \A c \in Button : mode'[c] = "ECS_LISTEN" => (result'[c] = 1 <=> c = b)
    BY <1>1 DEF Undecided
  <2> QED
    BY <1>2, <2>1, <2>2 DEF OneVerdict
<1>3. CASE mode'[b] # "ECS_LISTEN"
  <2>1. pc' = pc /\ ret' = ret
    BY <1>3 DEF Dispatch
  <2> QED
    BY <1>1, <1>3, <2>1 DEF Undecided, OneVerdict
<1> QED
  BY <1>2, <1>3

LEMMA WaitingIsUndecided ==
  ASSUME VerdictInv, pc = "wait", NoDispatch
  PROVE  Undecided' /\ OneVerdict'
BY DEF VerdictInv, NoDispatch, Undecided, OneVerdict

LEMMA VerdictStep == TypeOK /\ VerdictInv /\ [Next]_vars => VerdictInv'
<1> SUFFICES ASSUME TypeOK, VerdictInv, [Next]_vars PROVE VerdictInv'
  OBVIOUS
<1>1. CASE OpenDevices
  <2>1. /\ state' = state /\ bt_id' = bt_id /\ place' = place
        /\ mode' = mode /\ result' = result /\ Undecided
    BY <1>1 DEF OpenDevices, VerdictInv
  <2>2. ret' # "ok" /\ (pc' # "returned" => ret' = "none")
    BY <1>1, <2>1 DEF OpenDevices, Undecided
  <2> QED
    BY <2>1, <2>2 DEF VerdictInv, Undecided, OneVerdict
<1>2. CASE (\E p \in Cell : Report(p)) \/ Lift \/ ReadDropped \/ UNCHANGED vars
  BY <1>2, OtherSteps DEF listener, VerdictInv, Undecided, OneVerdict
<1>3. CASE ReadAbs
  <2>1. /\ pc = "wait" /\ pc' = pc /\ ret' = ret /\ state' = "RESET"
        /\ mode' = mode /\ result' = result
    BY <1>3 DEF ReadAbs, Read
  <2> QED
    BY <2>1 DEF VerdictInv, Undecided, OneVerdict
<1>4. CASE TouchOff
  <2>1. pc = "wait" /\ NoDispatch /\ bt_id' = ButtonAt(place) /\ place' = place
    BY <1>4 DEF TouchOff, ReadSyn, Read
  <2> QED
    BY <2>1, WaitingIsUndecided DEF VerdictInv
<1>5. CASE IdleSyn
  <2>1. pc = "wait" /\ NoDispatch /\ state' = "RESET"
    BY <1>5 DEF IdleSyn, ReadSyn, Read
  <2> QED
    BY <2>1, WaitingIsUndecided DEF VerdictInv
<1>6. CASE TouchOn
  <2>1. pc = "wait" /\ place \in Button /\ place' = place /\ bt_id' = ButtonAt(place)
    BY <1>6, SMTT(60) DEF TouchOn, ButtonAt, ReadSyn, Read
  <2>2. CASE place \in Fast
    BY <1>6, <2>1, <2>2, DispatchDecides, ZenonT(60) DEF TouchOn, VerdictInv
  <2>3. CASE place \notin Fast
    BY <1>6, <2>1, <2>3, WaitingIsUndecided DEF TouchOn, VerdictInv
  <2> QED
    BY <2>2, <2>3
<1>7. CASE TouchEnds
  <2>1. pc = "wait" /\ state = "KEEP" /\ state' = "END" /\ place' = place
    BY <1>7 DEF TouchEnds, ReadSyn, Read, NextTouchState, TypeOK
  <2>2. bt_id = ButtonAt(place)
    BY <2>1 DEF VerdictInv
  <2>3. CASE bt_id \in Button
    <3>1. place' = bt_id
      BY <2>1, <2>2, <2>3, ScreenAssumption DEF ButtonAt
    <3> QED
      BY <1>7, <2>1, <2>3, <3>1, DispatchDecides DEF TouchEnds, VerdictInv
  <2>4. CASE bt_id \notin Button
    BY <1>7, <2>1, <2>4, WaitingIsUndecided DEF TouchEnds, VerdictInv
  <2> QED
    BY <2>3, <2>4
<1> QED
  BY <1>1, <1>2, <1>3, <1>4, <1>5, <1>6, <1>7 DEF Next, Listen

\* When the listening ends, exactly one ECS_LISTEN button has a result, and it
\* is the button the touch was on last (inputevent.c:30-37), for every screen
\* and under any loss of events.
THEOREM VerdictCorrect == Spec => []OneVerdict
<1>1. Init => VerdictInv
  BY DEF Init, init_param, VerdictInv, Undecided, OneVerdict
<1>2. VerdictInv => OneVerdict
  BY DEF VerdictInv
<1> QED
  BY <1>1, <1>2, VerdictStep, TypeCorrect, PTL DEF Spec

---------------------------------------------------------------------------
(* The picture.  A button that is to be drawn released is drawn pressed     *)
(* only while it is bt_id; one that is not is drawn pressed from the time   *)
(* it becomes bt_id.                                                        *)

PictureInv ==
  /\ PictureFollowsTouch
  /\ bt_id \in Button \ DrawEnd => drawn[bt_id] = "pressed"

\* What a button looks like after the one touched before was released
LEMMA ReleasedPicture ==
  ASSUME TypeOK, PictureInv, NEW b \in Button
  PROVE  /\ b \in DrawEnd => Released(bt_id)[b] = "released"
         /\ b \notin DrawEnd => Released(bt_id)[b] = drawn[b]
BY DEF TypeOK, PictureInv, PictureFollowsTouch, Released

LEMMA DispatchResult ==
  ASSUME TypeOK, NEW b \in Button, Dispatch(b), NEW c \in Button, result'[c] = 1
  PROVE  c = b \/ result[c] = 1
BY DEF Dispatch, TypeOK

LEMMA PictureStep == TypeOK /\ PictureInv /\ [Next]_vars => PictureInv'
<1> SUFFICES ASSUME TypeOK, PictureInv, [Next]_vars PROVE PictureInv'
  OBVIOUS
<1>1. CASE OpenDevices
  BY <1>1 DEF OpenDevices, PictureInv, PictureFollowsTouch
<1>2. CASE (\E p \in Cell : Report(p)) \/ Lift \/ ReadDropped \/ UNCHANGED vars
  BY <1>2, OtherSteps DEF listener, PictureInv, PictureFollowsTouch
<1>3. CASE ReadAbs
  BY <1>3 DEF ReadAbs, PictureInv, PictureFollowsTouch
<1>4. CASE TouchOff
  <2>1. drawn' = Released(bt_id) /\ bt_id' = None /\ result' = result
    BY <1>4 DEF TouchOff, NoDispatch
  <2>2. ASSUME NEW b \in Button
        PROVE  /\ b \in DrawEnd => drawn'[b] = "released"
               /\ b \notin DrawEnd /\ result'[b] = 1 => drawn'[b] = "pressed"
    BY <2>1, ReleasedPicture DEF PictureInv, PictureFollowsTouch
  <2> QED
    BY <2>1, <2>2, ScreenAssumption DEF PictureInv, PictureFollowsTouch
<1>5. CASE TouchOn
  <2>1. place \in Button /\ bt_id' = place /\ state' = "KEEP"
    BY <1>5 DEF TouchOn, ButtonAt, ReadSyn
  <2>2. drawn' \in [Button -> {"released", "pressed"}]
    <3>1. Released(bt_id) \in [Button -> {"released", "pressed"}]
      BY ReleasedType DEF TypeOK
    <3> QED
      BY <1>5, <3>1 DEF TouchOn, TypeOK
  <2>3. drawn'[place] = "pressed" \/ (bt_id = place /\ place \in DrawEnd)
    <3>1. CASE bt_id = place
      BY <1>5, <2>1, <3>1 DEF TouchOn, PictureInv
    <3>2. CASE bt_id # place
      <4>1. Released(bt_id) \in [Button -> {"released", "pressed"}]
        BY ReleasedType DEF TypeOK
      <4> QED
        BY <1>5, <2>1, <3>2, <4>1 DEF TouchOn
    <3> QED
      BY <3>1, <3>2
  <2>4. ASSUME NEW b \in Button, b # place
        PROVE  /\ b \in DrawEnd => drawn'[b] = "released"
               /\ b \notin DrawEnd => drawn'[b] = drawn[b]
    <3>1. CASE bt_id = place
      BY <1>5, <2>4, <3>1 DEF TouchOn, PictureInv, PictureFollowsTouch, TypeOK
    <3>2. CASE bt_id # place
      <4>1. drawn'[b] = Released(bt_id)[b]
        <5>1. Released(bt_id) \in [Button -> {"released", "pressed"}]
          BY ReleasedType DEF TypeOK
        <5> QED
          BY <1>5, <2>4, <3>2, <5>1 DEF TouchOn
      <4> QED
        BY <4>1, ReleasedPicture
    <3> QED
      BY <3>1, <3>2
  <2>5. ASSUME NEW b \in Button, b # place, result'[b] = 1 PROVE result[b] = 1
    <3>1. CASE place \in Fast
      BY <1>5, <2>1, <2>5, <3>1, DispatchResult DEF TouchOn
    <3>2. CASE place \notin Fast
      BY <1>5, <2>5, <3>2 DEF TouchOn, NoDispatch
    <3> QED
      BY <3>1, <3>2
  <2>6. \A b \in Button : b \in DrawEnd /\ drawn'[b] = "pressed" => b = place
    BY <2>4
  <2>7. \A b \in Button : b \notin DrawEnd /\ result'[b] = 1 => drawn'[b] = "pressed"
    BY <2>3, <2>4, <2>5 DEF PictureInv, PictureFollowsTouch
  <2> QED
    BY <2>1, <2>3, <2>6, <2>7 DEF PictureInv, PictureFollowsTouch
<1>6. CASE TouchEnds
  <2>1. drawn' = Released(bt_id) /\ bt_id' = bt_id
    BY <1>6 DEF TouchEnds
  <2>2. ASSUME NEW b \in Button, result'[b] = 1 PROVE b = bt_id \/ result[b] = 1
    <3>1. CASE bt_id \in Button
      BY <1>6, <2>2, <3>1, DispatchResult DEF TouchEnds
    <3>2. CASE bt_id \notin Button
      BY <1>6, <2>2, <3>2 DEF TouchEnds, NoDispatch
    <3> QED
      BY <3>1, <3>2
  <2>3. ASSUME NEW b \in Button
        PROVE  /\ b \in DrawEnd => drawn'[b] = "released"
               /\ b \notin DrawEnd /\ result'[b] = 1 => drawn'[b] = "pressed"
               /\ b \notin DrawEnd /\ b = bt_id => drawn'[b] = "pressed"
    BY <2>1, <2>2, ReleasedPicture DEF PictureInv, PictureFollowsTouch
  <2> QED
    BY <2>1, <2>3 DEF PictureInv, PictureFollowsTouch
<1>7. CASE IdleSyn
  BY <1>7 DEF IdleSyn, ReadSyn, NoDispatch, PictureInv, PictureFollowsTouch
<1> QED
  BY <1>1, <1>2, <1>3, <1>4, <1>5, <1>6, <1>7 DEF Next, Listen

\* The picture follows the touch (widget.h:95) for every mix of kinds of
\* buttons, and when touches and lifts have changed places in a full queue.
THEOREM PictureCorrect == Spec => []PictureFollowsTouch
<1>1. Init => PictureInv
  BY ScreenAssumption DEF Init, init_param, PictureInv, PictureFollowsTouch
<1>2. PictureInv => PictureFollowsTouch
  BY DEF PictureInv
<1> QED
  BY <1>1, <1>2, PictureStep, TypeCorrect, PTL DEF Spec

---------------------------------------------------------------------------
(* What is counted was touched, while the queue does not overflow.  Then the  *)
(* groups stay whole, and the place a group puts together is one the finger   *)
(* was on.                                                                    *)

Good(p) == p \in Button => p \in touched

\* A report and the lift after it are four events.
RoomInv == Len(queue) + (IF finger = Up THEN 0 ELSE 1) <= 4 * reports

GroupInv ==
  /\ \A i \in 1 .. Len(queue) : queue[i].type # "dropped"
  /\ \A i \in 1 .. Len(queue) : queue[i].type = "x" =>
       /\ i + 2 <= Len(queue) /\ queue[i + 1].type = "y" /\ queue[i + 2].type = "syn"
       /\ Good(<<queue[i].at, queue[i + 1].at>>)
  /\ \A i \in 2 .. Len(queue) : queue[i].type = "y" => queue[i - 1].type = "x"

FollowInv ==
  /\ IF queue # <<>> /\ queue[1].type = "y"
     THEN Len(queue) >= 2 /\ queue[2].type = "syn" /\ Good(<<place[1], queue[1].at>>)
     ELSE Good(place)
  /\ Good(bt_id)

TouchedInv == RoomInv /\ GroupInv /\ FollowInv /\ CountedWasTouched

\* A group is appended whole, as long as there is room.
LEMMA ReportAppends ==
  ASSUME TypeOK, RoomInv, 4 * MaxReports <= MaxQueue, NEW p \in Cell, Report(p)
  PROVE  /\ queue' \in Seq(Event) /\ Len(queue') = Len(queue) + 3
         /\ \A i \in 1 .. Len(queue) : queue'[i] = queue[i]
         /\ queue'[Len(queue) + 1] = AbsX(p[1])
         /\ queue'[Len(queue) + 2] = AbsY(p[2])
         /\ queue'[Len(queue) + 3] = Syn
<1>. DEFINE n == Len(queue)
            q1 == Append(queue, AbsX(p[1]))
            q2 == Append(q1, AbsY(p[2]))
            q3 == Append(q2, Syn)
<1>1. queue \in Seq(Event) /\ n \in Nat /\ reports \in Nat /\ MaxReports \in Nat /\ MaxQueue \in Nat
  BY BoundAssumption DEF TypeOK
<1>2. n <= 4 * reports /\ reports + 1 <= MaxReports
  BY <1>1 DEF RoomInv, Report
<1>3. n + 4 <= MaxQueue
  <2>. HIDE DEF n
  <2>. QED
    BY <1>1, <1>2
<1>4. AbsX(p[1]) \in Event /\ AbsY(p[2]) \in Event /\ Syn \in Event
  BY DEF Event, Cell
<1>5. q1 \in Seq(Event) /\ Len(q1) = n + 1 /\ q1[n + 1] = AbsX(p[1])
      /\ \A i \in 1 .. n : q1[i] = queue[i]
  BY <1>1, <1>4
<1>6. Push(queue, AbsX(p[1])) = q1
  BY <1>1, <1>3 DEF Push
<1>. HIDE DEF q1
<1>7. q2 \in Seq(Event) /\ Len(q2) = n + 2 /\ q2[n + 2] = AbsY(p[2])
      /\ \A i \in 1 .. n + 1 : q2[i] = q1[i]
  BY <1>1, <1>4, <1>5
<1>8. Push(q1, AbsY(p[2])) = q2
  BY <1>1, <1>3, <1>5 DEF Push
<1>. HIDE DEF q2
<1>9. q3 \in Seq(Event) /\ Len(q3) = n + 3 /\ q3[n + 3] = Syn
      /\ \A i \in 1 .. n + 2 : q3[i] = q2[i]
  BY <1>1, <1>4, <1>7
<1>10. Push(q2, Syn) = q3
  BY <1>1, <1>3, <1>7 DEF Push
<1>11. queue' = q3
  BY <1>6, <1>8, <1>10 DEF Report
<1>. HIDE DEF q3, n
<1>12. \A i \in 1 .. n : q3[i] = queue[i] /\ q3[n + 1] = AbsX(p[1]) /\ q3[n + 2] = AbsY(p[2])
  BY <1>1, <1>5, <1>7, <1>9
<1>13. q3[n + 1] = AbsX(p[1]) /\ q3[n + 2] = AbsY(p[2])
  BY <1>1, <1>5, <1>7, <1>9
<1>. QED
  BY <1>9, <1>11, <1>12, <1>13 DEF n

\* Reading an event leaves the groups behind it whole.
LEMMA ReadKeepsGroups ==
  ASSUME TypeOK, RoomInv, GroupInv, Read
  PROVE  /\ RoomInv' /\ GroupInv'
         /\ queue[1].type = "x" =>
              /\ queue' # <<>> /\ queue'[1].type = "y" /\ Len(queue') >= 2 /\ queue'[2].type = "syn"
              /\ Good(<<queue[1].at, queue'[1].at>>)
         /\ queue[1].type # "x" => queue' = <<>> \/ queue'[1].type # "y"
         /\ queue[1].type # "dropped" /\ Head(queue) = queue[1]
<1>. DEFINE n == Len(queue)
<1>1. /\ queue \in Seq(Event) /\ n \in Nat \ {0} /\ reports \in Nat
      /\ queue' \in Seq(Event) /\ Len(queue') = n - 1 /\ Head(queue) = queue[1]
      /\ \A i \in 1 .. n - 1 : queue'[i] = queue[i + 1]
  BY DEF TypeOK, Read
<1>2. UNCHANGED <<finger, reports, touched, tapped>>
  BY DEF Read
<1>3. RoomInv'
  <2>. DEFINE f == IF finger = Up THEN 0 ELSE 1
  <2>1. n + f <= 4 * reports /\ f \in Nat /\ f' = f
    BY <1>2 DEF RoomInv
  <2>. HIDE DEF n, f
  <2>2. (n - 1) + f <= 4 * reports
    BY <1>1, <2>1
  <2>. USE DEF f
  <2>. QED
    BY <1>1, <1>2, <2>2 DEF RoomInv
<1>. HIDE DEF n
<1>4. \A i \in 1 .. n - 1 : i + 1 \in 1 .. n /\ i + 1 \in 2 .. n
  BY <1>1
<1>5. \A i \in 1 .. n - 1 : queue'[i].type # "dropped"
  BY <1>1, <1>4 DEF GroupInv, n
<1>6. ASSUME NEW i \in 1 .. n - 1, queue'[i].type = "x"
      PROVE  /\ i + 2 <= n - 1 /\ queue'[i + 1].type = "y" /\ queue'[i + 2].type = "syn"
             /\ Good(<<queue[i].at, queue[i + 1].at>>)'
  <2>1. i + 1 \in 1 .. n /\ queue'[i] = queue[i + 1]
    BY <1>1, <1>4
  <2>2. /\ (i + 1) + 2 <= n /\ queue[(i + 1) + 1].type = "y" /\ queue[(i + 1) + 2].type = "syn"
        /\ Good(<<queue[i + 1].at, queue[(i + 1) + 1].at>>)
    BY <1>6, <2>1 DEF GroupInv, n
  <2>3. i + 1 \in 1 .. n - 1 /\ i + 2 \in 1 .. n - 1 /\ (i + 2) + 1 = (i + 1) + 2 /\ i + 2 <= n - 1
    BY <1>1, <2>2
  <2>4. queue'[i + 1] = queue[(i + 1) + 1] /\ queue'[i + 2] = queue[(i + 1) + 2]
    BY <1>1, <2>3
  <2>. QED
    BY <1>2, <2>1, <2>2, <2>3, <2>4 DEF Good
<1>7. ASSUME NEW i \in 2 .. n - 1, queue'[i].type = "y" PROVE queue'[i - 1].type = "x"
  <2>1. i \in 1 .. n - 1 /\ i - 1 \in 1 .. n - 1 /\ i + 1 \in 2 .. n /\ (i - 1) + 1 = i /\ (i + 1) - 1 = i
    BY <1>1
  <2>2. queue[i + 1].type = "y" /\ queue'[i - 1] = queue[i]
    BY <1>1, <1>7, <2>1
  <2>. QED
    BY <2>1, <2>2 DEF GroupInv, n
<1>8. GroupInv'
  BY <1>1, <1>5, <1>6, <1>7 DEF GroupInv
<1>9. ASSUME queue[1].type = "x"
      PROVE  /\ queue' # <<>> /\ queue'[1].type = "y" /\ Len(queue') >= 2 /\ queue'[2].type = "syn"
             /\ Good(<<queue[1].at, queue'[1].at>>)
  <2>1. 1 \in 1 .. n
    BY <1>1
  <2>2. /\ 1 + 2 <= n /\ queue[1 + 1].type = "y" /\ queue[1 + 2].type = "syn"
        /\ Good(<<queue[1].at, queue[1 + 1].at>>)
    BY <1>9, <2>1 DEF GroupInv, n
  <2>3. 1 \in 1 .. n - 1 /\ 2 \in 1 .. n - 1 /\ n - 1 >= 2
    BY <1>1, <2>2
  <2>4. queue'[1] = queue[1 + 1] /\ queue'[2] = queue[1 + 2] /\ queue' # <<>>
    BY <1>1, <2>3
  <2>. QED
    BY <1>1, <2>2, <2>3, <2>4
<1>10. ASSUME queue' # <<>>, queue'[1].type = "y" PROVE queue[1].type = "x"
  <2>1. 1 \in 1 .. n - 1 /\ 2 \in 2 .. n
    BY <1>1, <1>10
  <2>2. queue[2].type = "y"
    BY <1>1, <1>10, <2>1
  <2>. QED
    BY <2>1, <2>2 DEF GroupInv, n
<1>11. queue[1].type # "dropped"
  BY <1>1 DEF GroupInv, n
<1>. QED
  BY <1>1, <1>3, <1>8, <1>9, <1>10, <1>11

\* Every step keeps the groups whole, and what is counted touched.
LEMMA TouchedStep ==
  ASSUME TypeOK, TouchedInv, 4 * MaxReports <= MaxQueue, [Next]_vars
  PROVE  TouchedInv'
<1>. DEFINE n == Len(queue)
<1>1. queue \in Seq(Event) /\ n \in Nat /\ reports \in Nat /\ MaxReports \in Nat /\ MaxQueue \in Nat
      /\ \A i \in 1 .. n : queue[i] \in Event
  BY BoundAssumption DEF TypeOK
<1>2. ASSUME NEW p \in Cell, Report(p) PROVE TouchedInv'
  <2>1. /\ queue' \in Seq(Event) /\ Len(queue') = n + 3
        /\ \A i \in 1 .. n : queue'[i] = queue[i]
        /\ queue'[n + 1] = AbsX(p[1]) /\ queue'[n + 2] = AbsY(p[2]) /\ queue'[n + 3] = Syn
    BY <1>2, ReportAppends DEF TouchedInv
  <2>2. /\ touched \subseteq touched' /\ (p \in Button => p \in touched') /\ p = <<p[1], p[2]>>
        /\ reports' = reports + 1 /\ UNCHANGED listener
    BY <1>2 DEF Report, Cell
  <2>3. RoomInv'
    <3>1. n <= 4 * reports
      BY <1>1 DEF TouchedInv, RoomInv
    <3>. HIDE DEF n
    <3>2. (n + 3) + 1 <= 4 * (reports + 1) /\ (n + 3) + 0 <= 4 * (reports + 1)
      BY <1>1, <3>1
    <3>. QED
      BY <2>1, <2>2, <3>2 DEF RoomInv
  <2>4. GroupInv'
    <3>. HIDE DEF n
    <3>1. ASSUME NEW i \in 1 .. n + 3 PROVE i \in 1 .. n \/ i = n + 1 \/ i = n + 2 \/ i = n + 3
      BY <1>1
    <3>2. /\ AbsX(p[1]).type = "x" /\ AbsX(p[1]).at = p[1] /\ AbsY(p[2]).type = "y"
          /\ AbsY(p[2]).at = p[2] /\ Syn.type = "syn"
      BY DEF AbsX, AbsY, Syn
    <3>3. \A i \in 1 .. n + 3 : queue'[i].type # "dropped"
      BY <1>1, <2>1, <3>1, <3>2 DEF TouchedInv, GroupInv, n
    <3>4. ASSUME NEW i \in 1 .. n + 3, queue'[i].type = "x"
          PROVE  /\ i + 2 <= n + 3 /\ queue'[i + 1].type = "y" /\ queue'[i + 2].type = "syn"
                 /\ Good(<<queue[i].at, queue[i + 1].at>>)'
      <4>1. CASE i \in 1 .. n
        <5>1. /\ i + 2 <= n /\ queue[i + 1].type = "y" /\ queue[i + 2].type = "syn"
              /\ Good(<<queue[i].at, queue[i + 1].at>>) /\ queue'[i] = queue[i]
          BY <2>1, <3>4, <4>1 DEF TouchedInv, GroupInv, n
        <5>2. i + 1 \in 1 .. n /\ i + 2 \in 1 .. n
          BY <1>1, <4>1, <5>1, SMTT(60)
        <5>3. queue'[i + 1] = queue[i + 1] /\ queue'[i + 2] = queue[i + 2]
          BY <2>1, <5>2
        <5>4. i + 2 <= n + 3
          BY <1>1, <5>1
        <5>5. Good(<<queue[i].at, queue[i + 1].at>>)'
          BY <2>2, <5>1, <5>3 DEF Good
        <5>. QED
          BY <5>1, <5>3, <5>4, <5>5
      <4>2. CASE i = n + 1
        <5>1. i + 1 = n + 2 /\ i + 2 = n + 3
          BY <1>1, <4>2
        <5>2. queue'[i].at = p[1] /\ queue'[i + 1].at = p[2]
          BY <2>1, <3>2, <4>2, <5>1
        <5>3. Good(<<queue[i].at, queue[i + 1].at>>)'
          BY <2>2, <5>2 DEF Good
        <5>. QED
          BY <1>1, <2>1, <3>2, <5>1, <5>3
      <4>3. i # n + 2 /\ i # n + 3
        BY <2>1, <3>2, <3>4
      <4>. QED
        BY <3>1, <4>1, <4>2, <4>3
    <3>5. ASSUME NEW i \in 2 .. n + 3, queue'[i].type = "y" PROVE queue'[i - 1].type = "x"
      <4>1. CASE i \in 1 .. n
        <5>1. i - 1 \in 1 .. n /\ i \in 2 .. n
          BY <1>1, <4>1
        <5>. QED
          BY <2>1, <3>5, <4>1, <5>1 DEF TouchedInv, GroupInv, n
      <4>2. CASE i = n + 2
        <5>1. i - 1 = n + 1
          BY <1>1, <4>2
        <5>. QED
          BY <2>1, <3>2, <5>1
      <4>3. i # n + 1 /\ i # n + 3
        BY <2>1, <3>2, <3>5
      <4>. QED
        BY <1>1, <3>1, <4>1, <4>2, <4>3
    <3>. QED
      BY <2>1, <3>3, <3>4, <3>5 DEF GroupInv
  <2>5. FollowInv'
    <3>1. Good(place)' \/ ~Good(place)
      BY <2>2 DEF Good, listener
    <3>2. Good(bt_id)'
      BY <2>2 DEF Good, listener, TouchedInv, FollowInv
    <3>3. CASE queue = <<>>
      <4>1. Good(place) /\ n = 0
        BY <3>3 DEF TouchedInv, FollowInv
      <4>2. queue'[1] = AbsX(p[1])
        BY <2>1, <4>1
      <4>. QED
        BY <3>1, <3>2, <4>1, <4>2 DEF FollowInv, AbsX
    <3>4. CASE queue # <<>>
      <4>1. 1 \in 1 .. n /\ queue'[1] = queue[1] /\ queue' # <<>>
        BY <1>1, <2>1, <3>4
      <4>2. CASE queue[1].type = "y"
        <5>1. n >= 2 /\ queue[2].type = "syn" /\ Good(<<place[1], queue[1].at>>)
          BY <3>4, <4>2 DEF TouchedInv, FollowInv
        <5>2. queue'[2] = queue[2] /\ Len(queue') >= 2
          BY <1>1, <2>1, <5>1
        <5>. QED
          BY <2>2, <3>2, <4>1, <4>2, <5>1, <5>2 DEF FollowInv, Good, listener
      <4>3. CASE queue[1].type # "y"
        BY <3>1, <3>2, <3>4, <4>1, <4>3 DEF FollowInv, TouchedInv
      <4>. QED
        BY <4>2, <4>3
    <3>. QED
      BY <3>3, <3>4
  <2>6. CountedWasTouched'
    BY <2>2 DEF TouchedInv, CountedWasTouched, listener
  <2>. QED
    BY <2>3, <2>4, <2>5, <2>6 DEF TouchedInv
<1>3. CASE Lift
  <2>1. /\ UNCHANGED listener /\ touched' = touched /\ finger' = Up /\ reports' = reports /\ finger # Up
        /\ queue' = Push(queue, Syn) /\ reports <= MaxReports
    BY <1>1, <1>3 DEF Lift, TypeOK
  <2>2. n + 1 <= 4 * reports
    BY <2>1 DEF TouchedInv, RoomInv
  <2>3. n < MaxQueue
    <3>. HIDE DEF n
    <3>. QED
      BY <1>1, <2>1, <2>2
  <2>4. /\ queue' \in Seq(Event) /\ Len(queue') = n + 1 /\ queue'[n + 1] = Syn
        /\ \A i \in 1 .. n : queue'[i] = queue[i]
    <3>1. Syn \in Event /\ queue' = Append(queue, Syn)
      BY <2>1, <2>3 DEF Push, Event
    <3>. QED
      BY <1>1, <3>1
  <2>5. RoomInv'
    BY <1>1, <2>1, <2>2, <2>4 DEF RoomInv
  <2>6. GroupInv'
    <3>. HIDE DEF n
    <3>1. \A i \in 1 .. n + 1 : i \in 1 .. n \/ i = n + 1
      BY <1>1
    <3>2. Syn.type = "syn"
      BY DEF Syn
    <3>3. \A i \in 1 .. n + 1 : queue'[i].type # "dropped"
      BY <2>4, <3>1, <3>2 DEF TouchedInv, GroupInv, n
    <3>4. ASSUME NEW i \in 1 .. n + 1, queue'[i].type = "x"
          PROVE  /\ i + 2 <= n + 1 /\ queue'[i + 1].type = "y" /\ queue'[i + 2].type = "syn"
                 /\ Good(<<queue[i].at, queue[i + 1].at>>)'
      <4>1. i \in 1 .. n
        BY <2>4, <3>1, <3>2, <3>4
      <4>2. /\ i + 2 <= n /\ queue[i + 1].type = "y" /\ queue[i + 2].type = "syn"
            /\ Good(<<queue[i].at, queue[i + 1].at>>) /\ queue'[i] = queue[i]
        BY <2>4, <3>4, <4>1 DEF TouchedInv, GroupInv, n
      <4>3. i + 1 \in 1 .. n /\ i + 2 \in 1 .. n
        BY <1>1, <4>1, <4>2
      <4>4. queue'[i + 1] = queue[i + 1] /\ queue'[i + 2] = queue[i + 2]
        BY <2>4, <4>3
      <4>5. i + 2 <= n + 1
        BY <1>1, <4>2
      <4>6. Good(<<queue[i].at, queue[i + 1].at>>)'
        BY <2>1, <4>2, <4>4 DEF Good
      <4>. QED
        BY <4>2, <4>4, <4>5, <4>6
    <3>5. ASSUME NEW i \in 2 .. n + 1, queue'[i].type = "y" PROVE queue'[i - 1].type = "x"
      <4>1. i \in 1 .. n
        BY <1>1, <2>4, <3>1, <3>2, <3>5
      <4>2. i - 1 \in 1 .. n /\ i \in 2 .. n
        BY <1>1, <4>1
      <4>. QED
        BY <2>4, <3>5, <4>1, <4>2 DEF TouchedInv, GroupInv, n
    <3>. QED
      BY <2>4, <3>3, <3>4, <3>5 DEF GroupInv
  <2>7. FollowInv'
    <3>1. CASE queue = <<>>
      <4>1. queue'[1] = Syn /\ Good(place) /\ Good(bt_id)
        BY <2>4, <3>1 DEF TouchedInv, FollowInv
      <4>. QED
        BY <2>1, <4>1 DEF FollowInv, Good, Syn, listener
    <3>2. CASE queue # <<>>
      <4>1. queue'[1] = queue[1] /\ queue' # <<>>
        BY <1>1, <2>4, <3>2
      <4>2. n >= 2 => queue'[2] = queue[2] /\ Len(queue') >= 2
        BY <1>1, <2>4
      <4>. QED
        BY <2>1, <3>2, <4>1, <4>2 DEF TouchedInv, FollowInv, Good, listener
    <3>. QED
      BY <3>1, <3>2
  <2>8. CountedWasTouched'
    BY <2>1 DEF TouchedInv, CountedWasTouched, listener
  <2>. QED
    BY <2>5, <2>6, <2>7, <2>8 DEF TouchedInv
<1>4. CASE UNCHANGED vars \/ OpenDevices
  BY <1>4 DEF vars, driver, listener, OpenDevices, TouchedInv, RoomInv, GroupInv, FollowInv, Good,
     CountedWasTouched
<1>5. CASE ReadDropped
  <2>1. Read /\ Head(queue).type = "dropped"
    BY <1>5 DEF ReadDropped
  <2>. QED
    BY <2>1, ReadKeepsGroups DEF TouchedInv
<1>6. CASE ReadAbs
  <2>1. /\ Read /\ Head(queue).type \in {"x", "y"} /\ UNCHANGED <<bt_id, result, touched>>
        /\ Head(queue).type = "x" => place' = <<Head(queue).at, place[2]>>
        /\ Head(queue).type = "y" => place' = <<place[1], Head(queue).at>>
    BY <1>6 DEF ReadAbs, Read
  <2>2. RoomInv' /\ GroupInv' /\ Head(queue) = queue[1]
    BY <2>1, ReadKeepsGroups DEF TouchedInv
  <2>3. CountedWasTouched' /\ Good(bt_id)'
    BY <2>1 DEF TouchedInv, CountedWasTouched, FollowInv, Good
  <2>4. CASE queue[1].type = "x"
    <3>1. /\ queue' # <<>> /\ queue'[1].type = "y" /\ Len(queue') >= 2 /\ queue'[2].type = "syn"
          /\ Good(<<queue[1].at, queue'[1].at>>)
      BY <2>1, <2>4, ReadKeepsGroups DEF TouchedInv
    <3>2. place'[1] = queue[1].at
      BY <2>1, <2>2, <2>4
    <3>3. FollowInv'
      BY <2>1, <2>3, <3>1, <3>2 DEF FollowInv, Good
    <3>. QED
      BY <2>2, <2>3, <3>3 DEF TouchedInv
  <2>5. CASE queue[1].type = "y"
    <3>1. queue' = <<>> \/ queue'[1].type # "y"
      BY <2>1, <2>5, ReadKeepsGroups DEF TouchedInv
    <3>2. place' = <<place[1], queue[1].at>> /\ Good(<<place[1], queue[1].at>>)
      BY <2>1, <2>2, <2>5 DEF TouchedInv, FollowInv, Read
    <3>3. FollowInv'
      BY <2>1, <2>3, <3>1, <3>2 DEF FollowInv, Good
    <3>. QED
      BY <2>2, <2>3, <3>3 DEF TouchedInv
  <2>. QED
    BY <2>1, <2>2, <2>4, <2>5
<1>7. ASSUME NEW s, ReadSyn(s), Good(bt_id)', CountedWasTouched' PROVE TouchedInv'
  <2>1. Read /\ Head(queue).type = "syn" /\ UNCHANGED <<place, touched>>
    BY <1>7 DEF ReadSyn, Read
  <2>2. RoomInv' /\ GroupInv' /\ Head(queue) = queue[1]
    BY <2>1, ReadKeepsGroups DEF TouchedInv
  <2>3. queue' = <<>> \/ queue'[1].type # "y"
    BY <2>1, <2>2, ReadKeepsGroups DEF TouchedInv
  <2>4. Good(place)'
    BY <2>1, <2>2 DEF TouchedInv, FollowInv, Good
  <2>. QED
    BY <1>7, <2>2, <2>3, <2>4 DEF TouchedInv, FollowInv
<1>8. ASSUME NEW b \in Button, Dispatch(b), b \in touched, touched' = touched PROVE CountedWasTouched'
  <2>1. result' = [result EXCEPT ![b] = 1]
    BY <1>8 DEF Dispatch
  <2>. QED
    BY <1>8, <2>1 DEF TouchedInv, CountedWasTouched, TypeOK
<1>9. ASSUME NEW s, ReadSyn(s)
      PROVE  /\ touched' = touched /\ Good(place) /\ Good(bt_id)
             /\ NoDispatch => CountedWasTouched'
  <2>1. Read /\ Head(queue).type = "syn" /\ touched' = touched
    BY <1>9 DEF ReadSyn, Read
  <2>2. queue[1].type = "syn"
    BY <2>1, ReadKeepsGroups DEF TouchedInv
  <2>. QED
    BY <2>1, <2>2 DEF TouchedInv, FollowInv, CountedWasTouched, NoDispatch
<1>10. CASE TouchOff
  <2>1. ReadSyn("KEEP") /\ bt_id' = None /\ NoDispatch
    BY <1>10 DEF TouchOff
  <2>. QED
    BY <1>7, <1>9, <2>1, ScreenAssumption DEF Good
<1>11. CASE TouchOn
  <2>1. /\ ReadSyn("KEEP") /\ bt_id' = place /\ place \in Button
        /\ Dispatch(place) \/ NoDispatch
    BY <1>11 DEF TouchOn, ButtonAt
  <2>2. place \in touched /\ touched' = touched
    BY <1>9, <2>1 DEF Good
  <2>3. CountedWasTouched'
    BY <1>8, <1>9, <2>1, <2>2
  <2>. QED
    BY <1>7, <2>1, <2>2, <2>3 DEF Good
<1>12. CASE TouchEnds
  <2>1. /\ ReadSyn("END") /\ bt_id' = bt_id
        /\ (bt_id \in Button /\ Dispatch(bt_id)) \/ NoDispatch
    BY <1>12 DEF TouchEnds
  <2>2. Good(bt_id) /\ touched' = touched
    BY <1>9, <2>1
  <2>3. CountedWasTouched'
    BY <1>8, <1>9, <2>1, <2>2 DEF Good
  <2>. QED
    BY <1>7, <2>1, <2>2, <2>3 DEF Good
<1>13. CASE IdleSyn
  <2>1. ReadSyn("RESET") /\ bt_id' = bt_id /\ NoDispatch
    BY <1>13 DEF IdleSyn
  <2>. QED
    BY <1>7, <1>9, <2>1 DEF Good
<1>. QED
  BY <1>2, <1>3, <1>4, <1>5, <1>6, <1>10, <1>11, <1>12, <1>13 DEF Next, Listen

\* While the kernel's queue has room for all groups and lifts, no button is counted that
\* the finger was not on, whatever the screen and the kinds of the buttons
\* (widget.c:403 combines an X and a Y that are read one by one).
THEOREM CountedCorrect ==
  ASSUME 4 * MaxReports <= MaxQueue
  PROVE  Spec => []CountedWasTouched
<1>1. Init => TouchedInv
  <2>. SUFFICES ASSUME Init PROVE TouchedInv
    OBVIOUS
  <2>1. RoomInv /\ GroupInv
    BY DEF Init, init_param, RoomInv, GroupInv
  <2>2. FollowInv
    BY ScreenAssumption DEF Init, init_param, FollowInv, Good, Cell
  <2>3. CountedWasTouched
    BY DEF Init, init_param, CountedWasTouched
  <2>. QED
    BY <2>1, <2>2, <2>3 DEF TouchedInv
<1>2. TypeOK /\ TouchedInv /\ [Next]_vars => TouchedInv'
  BY TouchedStep
<1>3. TouchedInv => CountedWasTouched
  BY DEF TouchedInv
<1>. QED
  BY <1>1, <1>2, <1>3, TypeCorrect, PTL DEF Spec
===========================================================================
