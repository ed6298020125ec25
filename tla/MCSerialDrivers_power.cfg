\* Deep power-down and release.
CONSTANTS
  UartClocks <- Clocks
  UartRates <- Rates
  UartDepth = 8
  UartNumbers = 12
  HalfWordResets = FALSE
  DmaPorts = {0}
  RevSizes = {4, 12}
  I2cDepth = 8
  I2cLengths = {1, 2, 9}
  RestartAcked = TRUE
  SpiDepth = 8
  SpiLengths = {1, 4, 9}
  LoopLengths = {1, 3, 4, 5, 8, 9, 13}
  HspiConfigs <- HspiUses
  PspiConfigs <- PspiUses
  PhaseLengths = {1, 6}
  AddrLenGrows = TRUE
  CardFactors <- Factors
  CardTimes = {34, 100, 10000}
  rf_irq = rf_irq
  low_irq = low_irq
  high_irq = high_irq
  Irqs <- MCIrqs
  Priority <- MCPriority
  SdkIrqs = {rf_irq}
  RamIrqs = {rf_irq, high_irq}
  ThreadOps <- PowerOps
  IsrOps = {}
  OpIrqs = {}
  Preemptible = {FALSE}
  Threshold = 1
  MaxPolls = 1
  DriversUsed = {"flash"}
SPECIFICATION Spec
INVARIANT
  CsHighDuringRelease
