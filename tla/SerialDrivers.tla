--------------------------- MODULE SerialDrivers --------------------------
(***************************************************************************)
(* The drivers of the serial ports of the B91: UART, I2C, SPI, the smart   *)
(* card on the second UART, and the flash on its bus.  What one does says  *)
(* nothing about another; a behaviour uses one of them, chosen at the      *)
(* start, and the rest stay as they begin.                                 *)
(***************************************************************************)
EXTENDS UartBaud, UartPort, I2c, Spi, SpiPhases, S7816, FlashDriver

CONSTANT DriversUsed   \* the drivers a behaviour may choose

VARIABLE driver        \* the driver in use

vars == <<driver, baudVars, uartVars, dmaVars, i2cVars, spiVars, phaseVars, cardVars,
          flashVars>>

Drivers == {"uart_baud", "uart_fifo", "uart_dma", "i2c", "spi", "spi_phases", "s7816",
            "flash"}

ASSUME DriversAssumption == DriversUsed \subseteq Drivers

(* A driver not in use begins in one state only.                           *)
Init ==
  /\ driver \in DriversUsed
  /\ BaudInit
  /\ UartFifoInit /\ (driver # "uart_fifo" => uartWidth = 1)
  /\ UartDmaInit
  /\ I2cInit
  /\ SpiInit
  /\ PhaseInit /\ (driver # "spi_phases" => spiSel = "HSPI")
  /\ S7816Init
  /\ FlashInit /\ (driver # "flash" => ~preempt)

Next ==
  \/ /\ driver = "uart_baud" /\ BaudNext
     /\ UNCHANGED <<driver, uartVars, dmaVars, i2cVars, spiVars, phaseVars, cardVars, flashVars>>
  \/ /\ driver = "uart_fifo" /\ UartFifoNext
     /\ UNCHANGED <<driver, baudVars, dmaVars, i2cVars, spiVars, phaseVars, cardVars, flashVars>>
  \/ /\ driver = "uart_dma" /\ UartDmaNext
     /\ UNCHANGED <<driver, baudVars, uartVars, i2cVars, spiVars, phaseVars, cardVars, flashVars>>
  \/ /\ driver = "i2c" /\ I2cNext
     /\ UNCHANGED <<driver, baudVars, uartVars, dmaVars, spiVars, phaseVars, cardVars, flashVars>>
  \/ /\ driver = "spi" /\ SpiNext
     /\ UNCHANGED <<driver, baudVars, uartVars, dmaVars, i2cVars, phaseVars, cardVars, flashVars>>
  \/ /\ driver = "spi_phases" /\ PhaseNext
     /\ UNCHANGED <<driver, baudVars, uartVars, dmaVars, i2cVars, spiVars, cardVars, flashVars>>
  \/ /\ driver = "s7816" /\ S7816Next
     /\ UNCHANGED <<driver, baudVars, uartVars, dmaVars, i2cVars, spiVars, phaseVars, flashVars>>
  \/ /\ driver = "flash" /\ FlashNext
     /\ UNCHANGED <<driver, baudVars, uartVars, dmaVars, i2cVars, spiVars, phaseVars, cardVars>>

(* A driver that polls goes on, and the hardware it waits for does its     *)
(* part; nothing makes an application call.                                *)
Fairness ==
  /\ WF_dmaVars(UartSending)
  /\ I2cFairness
  /\ SpiFairness
  /\ FlashFairness

Spec == Init /\ [][Next]_vars /\ Fairness

-----------------------------------------------------------------------------
TypeOK ==
  /\ driver \in Drivers
  /\ UartFifoTypeOK
  /\ UartDmaTypeOK
  /\ I2cTypeOK
  /\ SpiTypeOK
  /\ FlashTypeOK

(* Bytes pass through the UART in order and are all counted, by the data   *)
(* registers and by DMA.                                                   *)
UartDelivers == UartInOrder /\ RevLengthExact

(* The divider and the oversampling chosen make the rate asked for, on the *)
(* UART and on the card's data line.                                       *)
RatesAccurate == BaudAccurate /\ CardRate

(* The SPI drivers move every byte, in the phases and lanes asked for.     *)
SpiTransfers == SpiMovesAll /\ WireAsAsked

(* The polled calls of the bus drivers, the transmits of the UART and the  *)
(* operations of the flash end, in every state of the device.              *)
SerialCallsEnd == TxDoneReported /\ I2cReturns /\ SpiReturns /\ OperationEnds
=============================================================================
