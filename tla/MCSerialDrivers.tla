-------------------------- MODULE MCSerialDrivers --------------------------
(* Instances of SerialDrivers for TLC.  The clocks and rates are those of  *)
(* the table above uart_init, and the usual rates between them.  Of the    *)
(* interrupts, the low one is at the threshold of the flash driver, the    *)
(* high one above it.                                                      *)
EXTENDS SerialDrivers, TLC
CONSTANTS rf_irq, low_irq, high_irq

MCIrqs == {rf_irq, low_irq, high_irq}
MCPriority == (rf_irq :> 1) @@ (low_irq :> 1) @@ (high_irq :> 2)

HandlerOps == {flash_write_page, flash_read_page}
PowerOps == {flash_deep_powerdown, flash_release_deep_powerdown}

Clocks == {16000000, 24000000, 32000000, 48000000}
Rates == {9600, 19200, 38400, 57600, 115200, 230400, 460800, 1000000, 2000000}

\* A flash's commands in one, four and two lanes, and a display's.
HspiUses ==
  {[io |-> "SINGLE", dummy |-> 8, cmdEn |-> TRUE, cmdFmt |-> FALSE,
    addrEn |-> TRUE, addrFmt |-> FALSE, addrLen |-> 3],
   [io |-> "QUAD", dummy |-> 6, cmdEn |-> TRUE, cmdFmt |-> FALSE,
    addrEn |-> TRUE, addrFmt |-> TRUE, addrLen |-> 3],
   [io |-> "DUAL", dummy |-> 16, cmdEn |-> TRUE, cmdFmt |-> TRUE,
    addrEn |-> FALSE, addrFmt |-> FALSE, addrLen |-> 4]}
PspiUses ==
  {[io |-> "SINGLE", dummy |-> 8, cmdEn |-> TRUE],
   [io |-> "DUAL", dummy |-> 4, cmdEn |-> TRUE],
   [io |-> "3_LINE", dummy |-> 4, cmdEn |-> FALSE]}

Factors == {<<372, 1>>, <<372, 2>>, <<512, 8>>}
AllDrivers == Drivers
=============================================================================
