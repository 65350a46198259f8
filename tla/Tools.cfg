CONSTANTS
  buffer_size = 24
  Sizes = {26, 34}
  Trailers <- SomeTrailers
  RecordLen = 36
  Parts = {5}
  OldLen = 40
  Leases = {"a", "b"}
  Lines <- SomeLines
  MaxLines = 2
  MaxOthers = 2
  F1 = 0
  AboveOn = {"left"}
  MaxForked = 2
  MaxUnderWay = 3
  MaxScripts = 1
  Caller = {"c1", "c2"}
  Interface = {"p2p0", "p2p1"}
  P2p = {"p2p0", "p2p1"}
  MaxCalls = 3
  DEFAULT_BUF_SIZE = 2
  Ring = 3
  Stale = 4
  MaxHeard = 5
  xres = 3
  yres = 5
  Padding = {0, 1}
  Lengths = {29, 40}
  k = 2
  Words = 3
  try_times = 3
  timeout = 4
  Enough = 2
  MaxPolls = 3
SPECIFICATION ToolsSpec
INVARIANTS ToolsTypeOK PlayedIsFile RecordedIsSound RecordedWhole ConvertedWhole
INVARIANTS Configured NoOldLease SocketLost WifiOk
INVARIANTS VerdictWasTouched SuccessIsReal
INVARIANTS FreshAnswer StopForgets HearsThisRecording ShowsPictures DrawsInMemory
INVARIANTS PassRestsOnReads
PROPERTIES LoopsEnd UnselectedIsRace TestEnds ScriptEnds
CHECK_DEADLOCK FALSE
