\* The least sleep has the margin the code gives it: less than a group of 32k ticks.
CONSTANTS
  Word = 1024
  K = 5
  Calib = 20
  LongLimit = 100
  PastLimit = 896
  MinSleep = 23
  Early = 10
  RefAge = 15
  RefUses = 1
  RefMod = 512
  Spans <- MCLeastSpans
  SourceSets <- MCTimer
  IsrTime = 0
  IdleTimes <- MCIdle
  Base = 1000
  Calls = 2
SPECIFICATION Spec
INVARIANTS
  MatchAhead
