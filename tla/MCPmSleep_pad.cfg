\* Only the pad wakes the chip.
CONSTANTS
  Word = 1024
  K = 5
  Calib = 20
  LongLimit = 100
  PastLimit = 896
  MinSleep = 46
  Early = 10
  RefAge = 15
  RefUses = 1
  RefMod = 512
  Spans <- MCSpans
  SourceSets <- MCPad
  IsrTime = 0
  IdleTimes <- MCIdle
  Base = 1000
  Calls = 2
SPECIFICATION Spec
INVARIANTS
  TickRecovered
