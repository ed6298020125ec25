\* Timer wake-ups, also with the pad, three calls; interrupts shorter than the margin.
CONSTANTS
  Word = 1024
  K = 5
  Calib = 20
  LongLimit = 100
  PastLimit = 896
  MinSleep = 46
  Early = 10
  RefAge = 15
  RefUses = 1
  RefMod = 512
  Spans <- MCSpans
  SourceSets <- MCTimer
  IsrTime = 3
  IdleTimes <- MCIdle
  Base = 1000
  Calls = 3
SPECIFICATION Spec
INVARIANTS
  TypeOK
  SleepsInTime
  TickRecovered
PROPERTIES
  CallReturns
