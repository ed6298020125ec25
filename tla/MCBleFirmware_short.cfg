\* A wake-up less than two milliseconds ahead.
CONSTANTS
  Disturbances = 0
  Bits <- MCBits
  RandomBytes <- MCRandomBytes
  Company <- MCCompany
  RandomStatic <- MCRandomStatic
  Factory <- MCFactory
  None = None
  CmdCounts = {3}
  AclCounts = {3}
  RxCounts = {3}
  CmdSizes = {68}
  AclLengths = {27}
  RxSizes = {73}
  TickMs = 3
  Word = 48
  Spans = {5}
  Bases = {0, 46}
  IsrTicks = 6
  Preempted = 7
SPECIFICATION Spec
INVARIANTS
  NeverSleepsPastTick
CHECK_DEADLOCK FALSE
