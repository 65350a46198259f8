----------------------------- MODULE MCTools -----------------------------
(***************************************************************************)
(* The tools that the scripts of pretest.sh call, which runs one script at *)
(* a time: a behaviour is one tool's, the others are at rest.              *)
(***************************************************************************)
EXTENDS MCSndkit, Netcfg, Bluetooth, DhcpcdProps, SndTest, Lcd, Sensors

SomeLines ==
  {<<c>> : c \in {"dhcp", "up", "down", "hwaddr", "flhosts", "deldefault"}} \cup
  {<<"dhcp", "down">>, <<"up", "dhcp">>, <<"dhcp", "flhosts">>, <<"dhcp", "deldefault">>,
   <<"flhosts", "up">>, <<"hwaddr", "up">>}

\* The file of sndkit at rest has a sound.
ASSUME RestAssumption == 0 \in Trailers /\ \E s \in Sizes : s > 0

SndkitRests ==
  /\ params = [mode |-> "replay", type |-> "raw", format |-> "16bit",
               size |-> CHOOSE s \in Sizes : s > 0, trailer |-> 0]
  /\ main = "returned" /\ ret = 0
  /\ p_pc = "none" /\ at = 0 /\ p_buff = <<>> /\ p_pos = 0 /\ played = <<>>
  /\ replay_data_len = 0
  /\ r_pc = "none" /\ heard = 0 /\ record_len = RecordLen
  /\ r_buff = <<>> /\ r_pos = 0 /\ recorded = <<>>

NetcfgRests ==
  /\ net = absent /\ others = [count |-> MaxOthers, quiet |-> "yes"]
  /\ sock = "closed" /\ status = "idle" /\ asked = <<>> /\ done = <<>> /\ ops = <<>>
  /\ lease = None /\ lines = MaxLines /\ script = "off" /\ dumps = <<>>

BluetoothRests ==
  /\ ct = "off" /\ log = "absent" /\ forked = 0 /\ linked = 0 /\ taken = {} /\ touched = {}
  /\ chip = [state |-> "ready", health |-> "faulty"]
  /\ pending = <<>> /\ events = <<>> /\ hci = 0 /\ code = 3 /\ executed = {}
  /\ scripts = MaxScripts

DhcpcdPropsRests ==
  /\ result = [p \in Prefix |-> ""] /\ svc = [p \in Prefix |-> ""]
  /\ info = [p \in Prefix |-> "none"] /\ told = [p \in Prefix |-> "no"]
  /\ renewal = [p \in Prefix |-> "no"]
  /\ call = [c \in Caller |-> Rest] /\ calls = MaxCalls

SndTestRests ==
  /\ step = "passed" /\ at_line = "setup" /\ alarm_flag = 1 /\ snd_ops = 0 /\ file_length = 0
  /\ buff = <<>> /\ record_file = <<>> /\ mic = 0 /\ replayed = <<>>

LcdRests ==
  /\ stride = xres /\ smem_len = 0 /\ memory = <<>> /\ yoffset = 0 /\ refused = "no"
  /\ buffercount = 0 /\ picture = 0 /\ strokes = <<>> /\ lcd = "passed"

SensorsRests ==
  /\ test = "charge" /\ phase = "failed" /\ polls = MaxPolls /\ raw_data = {} /\ count = 0
  /\ state = "off" /\ current_buff = "low" /\ online = 0 /\ laststate = 0 /\ seen = {}

ToolsInit ==
  \/ Init /\ NetcfgRests /\ BluetoothRests /\ DhcpcdPropsRests /\ SndTestRests /\ LcdRests
     /\ SensorsRests
  \/ NetcfgInit /\ SndkitRests /\ BluetoothRests /\ DhcpcdPropsRests /\ SndTestRests /\ LcdRests
     /\ SensorsRests
  \/ BtInit /\ SndkitRests /\ NetcfgRests /\ DhcpcdPropsRests /\ SndTestRests /\ LcdRests
     /\ SensorsRests
  \/ DhcpcdInit /\ SndkitRests /\ NetcfgRests /\ BluetoothRests /\ SndTestRests /\ LcdRests
     /\ SensorsRests
  \/ SndTestInit /\ SndkitRests /\ NetcfgRests /\ BluetoothRests /\ DhcpcdPropsRests /\ LcdRests
     /\ SensorsRests
  \/ LcdInit /\ SndkitRests /\ NetcfgRests /\ BluetoothRests /\ DhcpcdPropsRests /\ SndTestRests
     /\ SensorsRests
  \/ SensorsInit /\ SndkitRests /\ NetcfgRests /\ BluetoothRests /\ DhcpcdPropsRests
     /\ SndTestRests /\ LcdRests

ToolsNext ==
  \/ Next /\ UNCHANGED <<nvars, btvars, dvars, svars, lvars, sensorvars>>
  \/ NetcfgNext /\ UNCHANGED <<vars, btvars, dvars, svars, lvars, sensorvars>>
  \/ BtNext /\ UNCHANGED <<vars, nvars, dvars, svars, lvars, sensorvars>>
  \/ DhcpcdNext /\ UNCHANGED <<vars, nvars, btvars, svars, lvars, sensorvars>>
  \/ SndTestNext /\ UNCHANGED <<vars, nvars, btvars, dvars, lvars, sensorvars>>
  \/ LcdNext /\ UNCHANGED <<vars, nvars, btvars, dvars, svars, sensorvars>>
  \/ SensorsNext /\ UNCHANGED <<vars, nvars, btvars, dvars, svars, lvars>>

ToolsSpec ==
  /\ ToolsInit /\ [][ToolsNext]_<<vars, nvars, btvars, dvars, svars, lvars, sensorvars>>
  /\ Fairness /\ BtFairness /\ SndTestFairness

\* The type invariants of the tools.
ToolsTypeOK ==
  TypeOK /\ NetcfgTypeOK /\ BtTypeOK /\ DhcpcdTypeOK /\ SndTestTypeOK /\ LcdTypeOK /\ SensorsTypeOK
===========================================================================
