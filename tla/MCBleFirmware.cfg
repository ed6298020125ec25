\* Four disturbances: two resets can each hit a boot, a wake-up and a sleep.
\* Buffer counts on both sides of every power of two and of 9, 17 and 33.
\* Three ticks a millisecond, wake-ups up to six milliseconds ahead, a timer
\* about to overflow.
CONSTANTS
  Disturbances = 4
  Bits <- MCBits
  RandomBytes <- MCRandomBytes
  Company <- MCCompany
  RandomStatic <- MCRandomStatic
  Factory <- MCFactory
  None = None
  CmdCounts = {2, 33}
  AclCounts = {1, 2, 3, 4, 9, 10, 17, 18, 32, 34}
  RxCounts = {1, 3, 8, 32, 33}
  CmdSizes = {68, 258}
  AclLengths = {27, 251}
  RxSizes = {73, 255}
  TickMs = 3
  Word = 48
  Spans = {5, 6, 8, 11, 12, 18}
  Bases = {0, 46}
  IsrTicks = 6
  Preempted = 7
SPECIFICATION Spec
INVARIANTS
  TypeOK
  AddressesWritten
  BootTruthful
  StartsConfigured
  
PROPERTIES
  AddressesSafe
  StartUpEnds
CHECK_DEADLOCK FALSE
