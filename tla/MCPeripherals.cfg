CONSTANTS
  ThreadPins <- PinOfThread
  HandlerPins <- PinOfHandler
  Plls <- PllValues
  CclkDivs = {4}
  MspiDivs = {1, 4}
  OscCalls = 2
  KickTimes = {0, 2}
  RcTicks = {7600, 7812, 8400}
  RcErrors <- Drifts
  RcSleeps = {960, 28800}
  PinCalls = 2
  PinUsers <- AllPinUsers
  PwmIds = {0, 3}
  WdPeriods = {1, 170000, 180000}
  WdClocks = {24}
  AdcVolts <- Volts
  AdcWords = {1, 3}
  AudioModes <- AudioUses
  AudioFlows = {"out", "both"}
  AudioInits = 2
  RfChannels = {0, 10, 11, 24, 36, 37, 38, 39}
  RfOffsets = {5, 80}
  RfLevels = {63, 128}
  RfIndexes = {0, 7, 23}
  RfPipes = {1, 63}
  RfSettles = {85, 112}
  PkeW = 2
  PkeModWords = 2
  PkeWidth <- Moduli
  PkeCalls = 3
  TrngBase = 6
  MultiplierW = 3
  MultiplierZ = 4
  PortLengths <- Lengths
  DmaChns = {0, 1}
  DmaUses <- EndsUsed
  DmaLens = {5, 8}
  DmaCalls = 3
  IrqCases <- Irqs
  FifoNum = 4
  FifoSize = 8
  PtrMod = 8
  FifoLens = {0, 6, 8}
  FieldsAsked = 2
  DpCalls = 2
  EndpointLens = {0, 1, 3}
  EndpointSize = 4
  ShortValues = {0, 255, 258, 65535}
  IrDepth = 1
  SlaveDepth = 2
  SlaveLens = {1, 4}
  SlaveBytes = 8
  XipOffsets = {0, 511, 65536, 16909060}
  Frames <- MdecFrames
  DriversUsed <- AllDrivers
SPECIFICATION Spec
INVARIANTS
  TypeOK
  ClocksSound
  ModesWhole
  ReadingsTrue
  
  PinsAsSet
  PkeModExact
  PkeResultsOwn
  FifoInOrder
  BuffersMoved
  
  RegistersHold
  GeneratorsRun
