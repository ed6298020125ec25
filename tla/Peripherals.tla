--------------------------- MODULE Peripherals ----------------------------
(***************************************************************************)
(* The drivers of the B91 that use no other and no bus: pins, clocks and   *)
(* oscillators, timers, converter, the analog port, shared registers,      *)
(* audio, radio, the DMA channels, ports of data, interrupt masks and      *)
(* flags, the ring of the controller, and the engines for public keys and  *)
(* random numbers.  What one does says nothing about another; a behaviour  *)
(* uses one of them, chosen at the start, and the rest stay as they begin. *)
(***************************************************************************)
EXTENDS AnalogGpio, AnalogPort, PinMux, ClockTree, Oscillators, Timers, Adc,
        AudioPaths, Radio, DmaChannels, InterruptFlags, Utilities, PkeEngine,
        Trng, RegisterFields, DataPorts

CONSTANT DriversUsed   \* the drivers a behaviour may choose

VARIABLE driver        \* the driver in use

chipVars == <<gpioVars, portVars, pinVars, clockVars, oscVars, tmrVars, adcVars>>
engineVars == <<audioVars, radioVars, dmaVars, irqVars, fifoVars, pkeArgs, pkeVars, trngVars, fldVars, dpVars>>
vars == <<driver, chipVars, engineVars>>

Drivers == {"gpio", "analog_port", "pin_mux", "clock", "oscillators", "timers", "adc",
            "audio", "radio", "dma", "interrupts", "fifo", "pke_mod", "pke_engine", "trng",
            "fields", "ports"}

ASSUME DriversAssumption == DriversUsed \subseteq Drivers

(* A driver not in use begins in one state only.                           *)
Init ==
  /\ driver \in DriversUsed
  /\ GpioInit
  /\ driver # "gpio" => kinds["thread"] = "input"
  /\ PortInit
  /\ PinMuxInit
  /\ ClockInit
  /\ OscInit /\ (driver # "oscillators" => oscUser = "registers")
  /\ TimersInit /\ (driver # "timers" => tmrUser = "timers")
  /\ AdcInit
  /\ AudioInit
  /\ RadioInit /\ (driver # "radio" => rfKinds = {"run"})
  /\ DmaInit /\ (driver # "dma" => Used = CHOOSE ends \in DmaUses : TRUE)
  /\ IrqInit /\ (driver # "interrupts" => irqPort = "aes")
  /\ FifoInit /\ (driver # "fifo" => ~fifoNested)
  /\ PkeModInit
  /\ PkeEngineInit
  /\ TrngInit
  /\ FieldsInit /\ (driver # "fields" => fldReg = "rst0" /\ fldStart = {})
  /\ DataPortsInit /\ (driver # "ports" => dpPort = "swire")

ChipNext ==
  \/ /\ driver = "gpio" /\ GpioNext
     /\ UNCHANGED <<portVars, pinVars, clockVars, oscVars, tmrVars, adcVars>>
  \/ /\ driver = "analog_port" /\ PortNext
     /\ UNCHANGED <<gpioVars, pinVars, clockVars, oscVars, tmrVars, adcVars>>
  \/ /\ driver = "pin_mux" /\ PinMuxNext
     /\ UNCHANGED <<gpioVars, portVars, clockVars, oscVars, tmrVars, adcVars>>
  \/ /\ driver = "clock" /\ ClockNext
     /\ UNCHANGED <<gpioVars, portVars, pinVars, oscVars, tmrVars, adcVars>>
  \/ /\ driver = "oscillators" /\ OscNext
     /\ UNCHANGED <<gpioVars, portVars, pinVars, clockVars, tmrVars, adcVars>>
  \/ /\ driver = "timers" /\ TimersNext
     /\ UNCHANGED <<gpioVars, portVars, pinVars, clockVars, oscVars, adcVars>>
  \/ /\ driver = "adc" /\ AdcNext
     /\ UNCHANGED <<gpioVars, portVars, pinVars, clockVars, oscVars, tmrVars>>

EngineNext ==
  \/ /\ driver = "audio" /\ AudioNext
     /\ UNCHANGED <<radioVars, dmaVars, irqVars, fifoVars, pkeArgs, pkeVars, trngVars, fldVars, dpVars>>
  \/ /\ driver = "radio" /\ RadioNext
     /\ UNCHANGED <<audioVars, dmaVars, irqVars, fifoVars, pkeArgs, pkeVars, trngVars, fldVars, dpVars>>
  \/ /\ driver = "dma" /\ DmaNext
     /\ UNCHANGED <<audioVars, radioVars, irqVars, fifoVars, pkeArgs, pkeVars, trngVars, fldVars, dpVars>>
  \/ /\ driver = "interrupts" /\ IrqNext
     /\ UNCHANGED <<audioVars, radioVars, dmaVars, fifoVars, pkeArgs, pkeVars, trngVars, fldVars, dpVars>>
  \/ /\ driver = "fifo" /\ FifoNext
     /\ UNCHANGED <<audioVars, radioVars, dmaVars, irqVars, pkeArgs, pkeVars, trngVars, fldVars, dpVars>>
  \/ /\ driver = "pke_mod" /\ PkeModNext
     /\ UNCHANGED <<audioVars, radioVars, dmaVars, irqVars, fifoVars, pkeVars, trngVars, fldVars, dpVars>>
  \/ /\ driver = "pke_engine" /\ PkeEngineNext
     /\ UNCHANGED <<audioVars, radioVars, dmaVars, irqVars, fifoVars, pkeArgs, trngVars, fldVars, dpVars>>
  \/ /\ driver = "trng" /\ TrngNext
     /\ UNCHANGED <<audioVars, radioVars, dmaVars, irqVars, fifoVars, pkeArgs, pkeVars, fldVars, dpVars>>
  \/ /\ driver = "fields" /\ FieldsNext
     /\ UNCHANGED <<audioVars, radioVars, dmaVars, irqVars, fifoVars, pkeArgs, pkeVars, trngVars, dpVars>>
  \/ /\ driver = "ports" /\ DataPortsNext
     /\ UNCHANGED <<audioVars, radioVars, dmaVars, irqVars, fifoVars, pkeArgs, pkeVars, trngVars, fldVars>>

Next ==
  \/ ChipNext /\ UNCHANGED <<driver, engineVars>>
  \/ EngineNext /\ UNCHANGED <<driver, chipVars>>

Spec == Init /\ [][Next]_vars

-----------------------------------------------------------------------------
TypeOK ==
  /\ driver \in Drivers
  /\ GpioTypeOK
  /\ TrngTypeOK

(* No step of a change of clocks leaves the limits, none leaves a record   *)
(* that the registers contradict, and the oscillators below the tree are   *)
(* the ones chosen and as they were calibrated.                            *)
ClocksSound == LimitsDuringCall /\ ClockRecorded /\ OscillatorsSound

(* Registers hold what was written to them: a field of one that several    *)
(* functions, or several drivers, write what it was asked last, and an     *)
(* analog register its own byte of the buffer that was written, as a       *)
(* buffer read from them holds theirs, each in its place.                  *)
RegistersHold == FieldsAsAsked /\ PortMovesAll

(* What is given a function or switched on is configured as a whole,       *)
(* whatever was before: a pin with its selection, its input buffer and its *)
(* pull-up, an audio path with its clocks, supplies and rates, and the     *)
(* radio with every register of its mode.                                  *)
ModesWhole == PinsServe /\ AudioServed /\ RadioConfigured

(* What goes through a buffer arrives: by a DMA channel, as much as its    *)
(* driver asked for and where, and through the ports of data in its order. *)
BuffersMoved == DmaMovesAsAsked /\ PortsDeliver
=============================================================================
