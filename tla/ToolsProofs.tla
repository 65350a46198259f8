---------------------------- MODULE ToolsProofs ----------------------------
(***************************************************************************)
(* The tools together: a step is one tool's and leaves the others at rest, *)
(* and at rest each of them has the invariant it was proved to have alone. *)
(***************************************************************************)
EXTENDS MCTools, SndkitProofs, ScriptProofs, NetutilsProofs

toolvars == <<vars, nvars, btvars, dvars, svars, lvars, sensorvars>>

\* A step of the tools is a step of each tool, or none.
LEMMA StepIsOfOne ==
  [ToolsNext]_toolvars =>
    /\ [Next]_vars /\ [NetcfgNext]_nvars /\ [BtNext]_btvars /\ [DhcpcdNext]_dvars
    /\ [SndTestNext]_svars /\ [LcdNext]_lvars /\ [SensorsNext]_sensorvars
<1>. SUFFICES ASSUME [ToolsNext]_toolvars
              PROVE  /\ Next \/ UNCHANGED vars
                     /\ NetcfgNext \/ UNCHANGED nvars
                     /\ BtNext \/ UNCHANGED btvars
                     /\ DhcpcdNext \/ UNCHANGED dvars
                     /\ SndTestNext \/ UNCHANGED svars
                     /\ LcdNext \/ UNCHANGED lvars
                     /\ SensorsNext \/ UNCHANGED sensorvars
  OBVIOUS
<1>. QED
  BY Zenon DEF ToolsNext, toolvars

---------------------------------------------------------------------------
(* At rest *)

LEMMA SndkitAtRest == SndkitRests => Invariants
<1>. DEFINE some == CHOOSE s \in Sizes : s > 0
<1>1. some \in Sizes /\ some > 0 /\ 0 \in Trailers
  BY RestAssumption
<1>. HIDE DEF some
<1>. SUFFICES ASSUME SndkitRests PROVE Invariants
  OBVIOUS
<1>2. params = [mode |-> "replay", type |-> "raw", format |-> "16bit", size |-> some,
                trailer |-> 0]
  BY DEF SndkitRests, some
<1>3. /\ params.mode = "replay" /\ params.type = "raw" /\ params.format = "16bit"
      /\ params.size = some /\ params.trailer = 0 /\ some \in Nat
  BY <1>1, <1>2, FilesAssumption
<1>4. params \in Params
  BY <1>1, <1>2 DEF Params, Modes
<1>5. ~Converting /\ ~Wide /\ forever /\ DataLen \in Int
  BY <1>3 DEF Converting, Wide, forever, DataLen
<1>6. /\ main = "returned" /\ ret = 0 /\ p_pc = "none" /\ r_pc = "none" /\ at = 0 /\ p_pos = 0
      /\ r_pos = 0 /\ heard = 0 /\ record_len = RecordLen /\ replay_data_len = 0
      /\ p_buff = <<>> /\ r_buff = <<>> /\ played = <<>> /\ recorded = <<>>
  BY DEF SndkitRests
<1>7. RecordLen \in Nat /\ <<>> \in Seq(Nat) /\ Len(<<>>) = 0 /\ IsSequence(<<>>)
  BY LengthAssumption DEF IsSequence
<1>8. \A f : Continues(<<>>, <<>>, 0, f)
  BY DEF Continues
<1>9. Control /\ Balance
  BY <1>5, <1>6, <1>7 DEF Control, Balance, Busy
<1>10. SndkitTyped /\ Written
  BY <1>3, <1>4, <1>5, <1>6, <1>7 DEF SndkitTyped, Written, States
<1>11. PlayInv
  <2>1. SoundLength(at) = 0
    BY <1>5, <1>6 DEF SoundLength
  <2>2. Sounds
    BY <1>5, <1>6, <1>7, <1>8, <2>1 DEF Sounds
  <2>. QED
    BY <1>5, <1>6, <1>7, <2>2 DEF PlayInv
<1>12. RecordInv /\ CopyInv
  BY <1>5, <1>6, <1>7, <1>8 DEF RecordInv, CopyInv
<1>. QED
  BY <1>9, <1>10, <1>11, <1>12 DEF Invariants, SndkitInv

NetcfgHolds == LineInv /\ NetInv /\ DhcpInv /\ SockInv /\ WifiInv /\ NetRoom

LEMMA NetcfgAtRest == NetcfgRests => NetcfgHolds
<1>. SUFFICES ASSUME NetcfgRests PROVE NetcfgHolds
  OBVIOUS
<1>1. /\ net = absent /\ others = [count |-> MaxOthers, quiet |-> "yes"] /\ sock = "closed"
      /\ status = "idle" /\ asked = <<>> /\ done = <<>> /\ ops = <<>> /\ lease = None
      /\ lines = MaxLines /\ script = "off" /\ dumps = <<>>
  BY DEF NetcfgRests
<1>2. LineInv
  BY <1>1 DEF LineInv
<1>3. NetInv
  BY <1>1, BoundsAssumption DEF NetInv, absent, Grants
<1>4. DhcpInv
  BY <1>1 DEF DhcpInv, InDhcp, Configured
<1>5. SockInv
  BY <1>1 DEF SockInv, Lost, Running, SocketLost
<1>6. WifiInv
  BY <1>1 DEF WifiInv, WifiOk
<1>7. NetRoom
  BY <1>1, BoundsAssumption DEF NetRoom
<1>. QED
  BY <1>2, <1>3, <1>4, <1>5, <1>6, <1>7 DEF NetcfgHolds

BtHolds == CtInv /\ ToolInv /\ CtRoom /\ BtRoom

LEMMA BluetoothAtRest == BluetoothRests => BtHolds
<1>. SUFFICES ASSUME BluetoothRests PROVE BtHolds
  OBVIOUS
<1>1. /\ ct = "off" /\ log = "absent" /\ forked = 0 /\ linked = 0 /\ taken = {} /\ touched = {}
      /\ chip = [state |-> "ready", health |-> "faulty"] /\ pending = <<>> /\ events = <<>>
      /\ hci = 0 /\ code = 3 /\ executed = {} /\ scripts = MaxScripts
  BY DEF BluetoothRests
<1>2. CtInv
  BY <1>1 DEF CtInv, LogIsOurs, VerdictWasTouched, UnderWay, Buttons
<1>3. ToolInv
  BY <1>1 DEF ToolInv, ToolTyped, OwnAnswers, InOrder, FirstRun, AllDone
<1>4. CtRoom
  BY <1>1, ForkedAssumption DEF CtRoom, UnderWay
<1>5. BtRoom
  BY <1>1, ScriptsAssumption DEF BtRoom
<1>. QED
  BY <1>2, <1>3, <1>4, <1>5 DEF BtHolds

DhcpcdHolds == Inv /\ DhcpcdRoom

LEMMA DhcpcdAtRest == DhcpcdPropsRests => DhcpcdHolds
<1>. SUFFICES ASSUME DhcpcdPropsRests PROVE DhcpcdHolds
  OBVIOUS
<1>1. \A c \in Caller : call[c] = Rest
  BY DEF DhcpcdPropsRests
<1>2. Inv
  <2>1. Rest \in Calls
    BY DEF Rest, Calls, Places
  <2>2. Typed
    BY <2>1 DEF DhcpcdPropsRests, Typed
  <2>3. Placed(Rest) /\ Fresh(Rest) /\ Silent(Rest)
    BY DEF Rest, Placed, Fresh, Silent
  <2>. QED
    BY <1>1, <2>2, <2>3 DEF Inv
<1>3. DhcpcdRoom
  <2>1. /\ info = [p \in Prefix |-> "none"] /\ told = [p \in Prefix |-> "no"]
        /\ calls = MaxCalls
    BY DEF DhcpcdPropsRests
  <2>2. info \in [Prefix -> {"none", "valid", "invalid"}]
    BY <2>1
  <2>3. told \in [Prefix -> {"yes", "no"}]
    BY <2>1
  <2>4. calls \in 0 .. MaxCalls
    BY <2>1, CallsAssumption
  <2>5. \A c \in Caller : call[c].pc = "await_running" => call[c].op = "request"
    BY <1>1 DEF Rest
  <2>. QED
    BY <2>2, <2>3, <2>4, <2>5 DEF DhcpcdRoom
<1>. QED
  BY <1>2, <1>3 DEF DhcpcdHolds

SndTestHolds == SndInv /\ SndRoom

LEMMA SndTestAtRest == SndTestRests => SndTestHolds
<1>. SUFFICES ASSUME SndTestRests PROVE SndTestHolds
  OBVIOUS
<1>1. Len(<<>>) = 0 /\ 0 <= MaxHeard /\ 0 <= DEFAULT_BUF_SIZE
  BY SamplesAssumption
<1>2. SndInv
  BY DEF SndTestRests, SndInv, SndTyped, RecordingInv, ReplayInv, Heard, RingInv, Rising, Real
<1>3. SndRoom
  BY <1>1 DEF SndTestRests, SndRoom
<1>. QED
  BY <1>2, <1>3 DEF SndTestHolds

LEMMA LcdAtRest == LcdRests => LcdInv
BY SizesAre DEF LcdRests, LcdInv, LcdTyped, PlanInv, Showing

SensorsHold == SensorsInv /\ SensorsRange

LEMMA SensorsAtRest == SensorsRests => SensorsHold
<1>. SUFFICES ASSUME SensorsRests PROVE SensorsHold
  OBVIOUS
<1>1. /\ test = "charge" /\ phase = "failed" /\ polls = MaxPolls /\ raw_data = {} /\ count = 0
      /\ state = "off" /\ current_buff = "low" /\ online = 0 /\ laststate = 0 /\ seen = {}
  BY DEF SensorsRests
<1>2. SensorsInv
  BY <1>1 DEF SensorsInv, Pah8001Inv, CurrentInv, ChargeInv, PassRestsOnReads, pah8001
<1>3. SensorsRange
  BY <1>1, PollsAssumption DEF SensorsRange, SensorsTypeOK, pah8001, Currents
<1>. QED
  BY <1>2, <1>3 DEF SensorsHold

---------------------------------------------------------------------------
ToolsHold ==
  /\ Invariants /\ NetcfgHolds /\ BtHolds /\ DhcpcdHolds /\ SndTestHolds /\ LcdInv /\ SensorsHold

LEMMA ToolsStart == ToolsInit => ToolsHold
<1>1. Init => Invariants
  BY InvariantsInit
<1>2. NetcfgInit => NetcfgHolds
  BY NetcfgStarts, NetRoomStart DEF NetcfgHolds
<1>3. BtInit => BtHolds
  BY BtStart DEF BtHolds
<1>4. DhcpcdInit => DhcpcdHolds
  BY InvInit, DhcpcdRoomStart DEF DhcpcdHolds
<1>5. SndTestInit => SndTestHolds
  BY SndStart, RoomStart DEF SndTestHolds
<1>6. LcdInit => LcdInv
  BY LcdStart
<1>7. SensorsInit => SensorsHold
  BY SensorsStart, RangeStart DEF SensorsHold
<1>. QED
  BY <1>1, <1>2, <1>3, <1>4, <1>5, <1>6, <1>7, SndkitAtRest, NetcfgAtRest, BluetoothAtRest,
     DhcpcdAtRest, SndTestAtRest, LcdAtRest, SensorsAtRest, Zenon DEF ToolsInit, ToolsHold

LEMMA ToolsStep == ToolsHold /\ [ToolsNext]_toolvars => ToolsHold'
<1>. SUFFICES ASSUME ToolsHold, [ToolsNext]_toolvars PROVE ToolsHold'
  OBVIOUS
<1>1. Invariants'
  BY StepIsOfOne, InvariantsStep, Zenon DEF ToolsHold
<1>2. NetcfgHolds'
  BY StepIsOfOne, LineInvStep, NetInvStep, DhcpInvStep, SockInvStep, WifiInvStep, NetRoomStep
     DEF ToolsHold, NetcfgHolds
<1>3. BtHolds'
  BY StepIsOfOne, NextKeepsLog, ToolStep, CtRoomNext, BtRoomNext DEF ToolsHold, BtHolds
<1>4. DhcpcdHolds'
  BY StepIsOfOne, InvStep, DhcpcdRoomStep DEF ToolsHold, DhcpcdHolds
<1>5. SndTestHolds'
  BY StepIsOfOne, SndStep, RoomStep DEF ToolsHold, SndTestHolds
<1>6. LcdInv'
  BY StepIsOfOne, LcdStep DEF ToolsHold
<1>7. SensorsHold'
  BY StepIsOfOne, SensorsStep, SensorsRangeStep DEF ToolsHold, SensorsHold
<1>. QED
  BY <1>1, <1>2, <1>3, <1>4, <1>5, <1>6, <1>7 DEF ToolsHold

LEMMA ToolsCorrect == ToolsSpec => []ToolsHold
BY ToolsStart, ToolsStep, PTL DEF ToolsSpec, toolvars

\* Whichever tool a script calls, all that every tool keeps has its type.
THEOREM ToolsTypeCorrect == ToolsSpec => []ToolsTypeOK
<1>1. ToolsHold => ToolsTypeOK
  <2>. SUFFICES ASSUME ToolsHold PROVE ToolsTypeOK
    OBVIOUS
  <2>1. TypeOK
    BY SndkitTypeIs DEF ToolsHold
  <2>2. NetcfgTypeOK
    BY NetRoomIsType DEF ToolsHold, NetcfgHolds
  <2>3. BtTypeOK
    BY BtRoomIsType DEF ToolsHold, BtHolds
  <2>4. DhcpcdTypeOK
    BY DhcpcdRoomIsType DEF ToolsHold, DhcpcdHolds
  <2>5. SndTestTypeOK
    BY SndRoomIsType DEF ToolsHold, SndTestHolds
  <2>6. LcdTypeOK
    BY LcdTypeIs DEF ToolsHold
  <2>7. SensorsTypeOK
    BY DEF ToolsHold, SensorsHold, SensorsRange
  <2>. QED
    BY <2>1, <2>2, <2>3, <2>4, <2>5, <2>6, <2>7 DEF ToolsTypeOK
<1>. QED
  BY <1>1, ToolsCorrect, PTL

\* What each tool promises, of sndkit's sound to the pass of a sensor, it keeps among the
\* others: pretest.sh runs one script at a time and no tool touches the state of another.
ToolsSafe ==
  /\ PlayedIsFile /\ RecordedIsSound /\ RecordedWhole /\ ConvertedWhole
  /\ Configured /\ NoOldLease /\ SocketLost /\ WifiOk
  /\ VerdictWasTouched /\ SuccessIsReal
  /\ FreshAnswer /\ StopForgets /\ HearsThisRecording /\ ShowsPictures /\ DrawsInMemory
  /\ PassRestsOnReads

\* The safety of every tool, whichever of them the scripts of pretest.sh call.
THEOREM ToolsSafeCorrect == ToolsSpec => []ToolsSafe
<1>1. ToolsHold => ToolsSafe
  <2>. SUFFICES ASSUME ToolsHold PROVE ToolsSafe
    OBVIOUS
  <2>1. /\ PlayedIsFile /\ RecordedIsSound /\ RecordedWhole /\ ConvertedWhole
    BY PlayedIs, RecordedIs, RecordedWholeIs, ConvertedIs DEF ToolsHold, Invariants
  <2>2. Configured /\ NoOldLease /\ SocketLost /\ WifiOk
    BY NoOldLeaseIs DEF ToolsHold, NetcfgHolds, DhcpInv, SockInv, WifiInv
  <2>3. VerdictWasTouched /\ SuccessIsReal
    BY SuccessIs DEF ToolsHold, BtHolds, CtInv
  <2>4. FreshAnswer /\ StopForgets
    BY FreshIs DEF ToolsHold, DhcpcdHolds
  <2>5. HearsThisRecording /\ ShowsPictures /\ DrawsInMemory /\ PassRestsOnReads
    BY HearsIs, ShowsIs, MemoryIs DEF ToolsHold, SndTestHolds, SensorsHold, SensorsInv
  <2>. QED
    BY <2>1, <2>2, <2>3, <2>4, <2>5 DEF ToolsSafe
<1>. QED
  BY <1>1, ToolsCorrect, PTL

\* The one action property of the tools: "select failed" is a race for the log, also
\* where the current test is one of several tools.
THEOREM ToolsRaceCorrect == ToolsSpec => UnselectedIsRace
<1>1. ToolsHold /\ [ToolsNext]_toolvars =>
        [ct' = "unselected" /\ ct # "unselected" => forked > 0]_ctvars
  BY StepIsOfOne, UnselectedStep DEF ToolsHold, BtHolds
<1>. QED
  BY <1>1, ToolsStart, ToolsStep, PTL DEF ToolsSpec, toolvars, UnselectedIsRace
============================================================================
