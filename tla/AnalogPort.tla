----------------------------- MODULE AnalogPort -----------------------------
(***************************************************************************)
(* The transfers of the analog register port (analog.c) that the processor *)
(* makes byte by byte.  The port has a data register of four bytes, which  *)
(* it exchanges with an internal one of four: while those are shifted, the *)
(* processor fills or empties the data register.  Only in the loops that   *)
(* poll the port does the processor wait for it; between them it is faster *)
(* than the port, interrupts being disabled and the code in RAM, so that   *)
(* the last byte of the internal register moves while it waits.            *)
(*                                                                         *)
(* Bytes are named by their position, 1 being the one of address addr.     *)
(***************************************************************************)
EXTENDS Integers, Sequences

CONSTANT PortLengths        \* lengths passed to the buffer functions

(* reg_ana_len and len_t are bytes.                                        *)
ASSUME PortAssumption == PortLengths \subseteq 1 .. 255

VARIABLES
  portPc,        \* where the caller is
  portCall,      \* the call: operation and length
  portIdx,       \* wr_idx, rd_idx
  portLeft,      \* len_t
  portBuff,      \* bytes the caller has taken from, or put in, its buffer
  portSlots,     \* hardware: the data register, 0 a slot without a byte
  portShift,     \* hardware: the internal register
  portDone,      \* hardware: bytes written to, or read from, the registers
  portGot,       \* the bytes stored in the caller's buffer
  portBusy       \* FLD_ANA_BUSY, and which way

portCpu == <<portPc, portCall, portIdx, portLeft, portBuff, portGot>>
portHw == <<portSlots, portShift, portDone, portBusy>>
portVars == <<portCpu, portHw>>

NoSlots == [i \in 0 .. 3 |-> 0]
Filled(slots) == {i \in 0 .. 3 : slots[i] # 0}

PortInit ==
  /\ portPc = "idle" /\ portCall = [op |-> "none", len |-> 0]
  /\ portIdx = 0 /\ portLeft = 0 /\ portBuff = 0 /\ portGot = <<>>
  /\ portSlots = NoSlots /\ portShift = <<>> /\ portDone = 0 /\ portBusy = "no"

-----------------------------------------------------------------------------
(* The port.                                                               *)
TXBUFF_IRQ == Filled(portSlots) = {}
RXBUFF_IRQ == Filled(portSlots) = 0 .. 3
Waiting ==                  \* in a loop that polls, and not about to leave it
  CASE portPc = "tx_irq" -> ~TXBUFF_IRQ
    [] portPc = "rx_irq" -> ~RXBUFF_IRQ
    [] OTHER -> portPc = "analog_wait" /\ portBusy # "no"

InOrder(slots) ==           \* the bytes of the data register, from slot 0
  LET n == {i \in 0 .. 3 : \A j \in 0 .. i : slots[j] # 0}
  IN [i \in 1 .. (IF n = {} THEN 0 ELSE CHOOSE k \in 1 .. 4 : k - 1 \in n /\ k \notin n) |-> slots[i - 1]]

PortTakes ==                \* a write: the internal register is refilled
  /\ portBusy = "write" /\ portShift = <<>> /\ portSlots[0] # 0
  /\ portShift' = InOrder(portSlots)
  /\ portSlots' = NoSlots
  /\ UNCHANGED <<portCpu, portDone, portBusy>>

PortWrites ==
  /\ portBusy = "write" /\ portShift # <<>>
  /\ Len(portShift) = 1 => Waiting
  /\ portDone' = IF Head(portShift) = portDone + 1 THEN portDone + 1 ELSE -1
  /\ portShift' = Tail(portShift)
  /\ portBusy' = IF Len(portShift) = 1 /\ Filled(portSlots) = {} THEN "no" ELSE "write"
  /\ UNCHANGED <<portCpu, portSlots>>

(* A read: four bytes, or the last ones, go to the data register together. *)
PortReads ==
  /\ portBusy = "read"
  /\ LET in == Append(portShift, portDone + 1)
         last == portDone + 1 = portCall.len
     IN /\ last \/ Len(in) = 4 => Waiting /\ Filled(portSlots) = {}
        /\ portDone' = portDone + 1
        /\ portShift' = IF last \/ Len(in) = 4 THEN <<>> ELSE in
        /\ portSlots' = IF last \/ Len(in) = 4
                        THEN [i \in 0 .. 3 |-> IF i < Len(in) THEN in[i + 1] ELSE 0]
                        ELSE portSlots
        /\ portBusy' = IF last THEN "no" ELSE "read"
  /\ UNCHANGED portCpu

-----------------------------------------------------------------------------
(* The processor.                                                          *)
PortBegin(op, len) ==
  /\ portPc = "idle"
  /\ portCall' = [op |-> op, len |-> len]
  /\ portIdx' = 0 /\ portGot' = <<>> /\ portDone' = 0

(* analog_write_reg16 and _reg32, as analog_write_reg8: the data register  *)
(* is stored at once.                                                      *)
analog_write_reg(n) ==
  /\ PortBegin("write", n)
  /\ portSlots' = [i \in 0 .. 3 |-> IF i < n THEN i + 1 ELSE 0]
  /\ portBusy' = "write" /\ portBuff' = n /\ portLeft' = 0
  /\ portPc' = "analog_wait"
  /\ UNCHANGED portShift

analog_read_reg(n) ==
  /\ PortBegin("read", n)
  /\ portBusy' = "read" /\ portLeft' = n /\ portBuff' = 0
  /\ portPc' = "analog_wait"
  /\ UNCHANGED <<portSlots, portShift>>

(* The first four bytes are stored before the port is started.             *)
analog_write_buff(len) ==
  /\ PortBegin("write", len)
  /\ LET n == IF len <= 4 THEN len ELSE 4 IN
       /\ portSlots' = [i \in 0 .. 3 |-> IF i < n THEN i + 1 ELSE 0]
       /\ portBuff' = n
       /\ portLeft' = len - n
       /\ portPc' = IF len <= 4 THEN "analog_wait" ELSE "start"
  /\ portBusy' = "write"
  /\ UNCHANGED portShift

(* The port has taken them when the processor stores the next.             *)
WriteStarted ==
  /\ portPc = "start" /\ portShift # <<>>
  /\ portPc' = "write"
  /\ UNCHANGED <<portCall, portIdx, portLeft, portBuff, portGot, portHw>>

WriteByte ==
  /\ portPc = "write"
  /\ IF portLeft = 0 THEN portPc' = "analog_wait" /\ UNCHANGED <<portIdx, portLeft, portBuff, portSlots>>
     ELSE /\ portSlots' = [portSlots EXCEPT ![portIdx] = portBuff + 1]
          /\ portBuff' = portBuff + 1 /\ portLeft' = portLeft - 1
          /\ portIdx' = (portIdx + 1) % 4
          /\ portPc' = IF portIdx = 3 THEN "tx_irq" ELSE "write"
  /\ UNCHANGED <<portCall, portGot, portShift, portDone, portBusy>>

\* The next bytes are stored before the port has taken these.
WriteIrqFault ==
  /\ portPc = "tx_irq"
  /\ portPc' = "write"
  /\ UNCHANGED <<portCall, portIdx, portLeft, portBuff, portGot, portHw>>

WriteIrq ==
  /\ portPc = "tx_irq" /\ TXBUFF_IRQ
  /\ portPc' = "write"
  /\ UNCHANGED <<portCall, portIdx, portLeft, portBuff, portGot, portHw>>

analog_read_buff(len) ==
  /\ PortBegin("read", len)
  /\ portBusy' = "read" /\ portLeft' = len /\ portBuff' = 0
  /\ portPc' = IF len > 4 THEN "rx_irq" ELSE "analog_wait"
  /\ UNCHANGED <<portSlots, portShift>>

ReadIrq ==
  /\ portPc = "rx_irq" /\ RXBUFF_IRQ
  /\ portPc' = "read"
  /\ UNCHANGED <<portCall, portIdx, portLeft, portBuff, portGot, portHw>>

TakeByte ==
  /\ portGot' = Append(portGot, portSlots[portIdx])
  /\ portSlots' = [portSlots EXCEPT ![portIdx] = 0]
  /\ portBuff' = portBuff + 1 /\ portLeft' = portLeft - 1
  /\ portIdx' = (portIdx + 1) % 4

ReadByte ==                 \* the loop is left when four or less remain
  /\ portPc = "read"
  /\ TakeByte
  /\ portPc' = IF portIdx # 3 THEN "read"
               ELSE IF portLeft' <= 4 THEN "analog_wait" ELSE "rx_irq"
  /\ UNCHANGED <<portCall, portShift, portDone, portBusy>>

analog_wait ==
  /\ portPc = "analog_wait" /\ portBusy = "no"
  /\ portPc' = IF portCall.op = "read" THEN "rest" ELSE "return"
  /\ UNCHANGED <<portCall, portIdx, portLeft, portBuff, portGot, portHw>>

ReadRest ==
  /\ portPc = "rest"
  /\ IF portLeft = 0 THEN portPc' = "return" /\ UNCHANGED <<portIdx, portLeft, portBuff, portGot, portSlots>>
     ELSE TakeByte /\ UNCHANGED portPc
  /\ UNCHANGED <<portCall, portShift, portDone, portBusy>>

PortReturn ==
  /\ portPc = "return"
  /\ portPc' = "idle"
  /\ UNCHANGED <<portCall, portIdx, portLeft, portBuff, portGot, portHw>>

PortNext ==
  \/ PortTakes \/ PortWrites \/ PortReads
  \/ \E n \in {1, 2, 4} : analog_write_reg(n) \/ analog_read_reg(n)
  \/ \E len \in PortLengths : analog_write_buff(len) \/ analog_read_buff(len)
  \/ WriteStarted \/ WriteByte \/ WriteIrq
  \/ ReadIrq \/ ReadByte \/ analog_wait \/ ReadRest \/ PortReturn

-----------------------------------------------------------------------------
(* When a transfer returns, all of its bytes have moved, each once and     *)
(* between its own address and its own place in the buffer, whatever the   *)
(* length; and the processor never waits for an idle port.                 *)
PortMovesAll ==
  /\ portPc = "return" =>
       /\ portDone = portCall.len /\ portBuff = portCall.len
       /\ portSlots = NoSlots /\ portShift = <<>>
       /\ portCall.op = "read" => portGot = [i \in 1 .. portCall.len |-> i]
  /\ portDone # -1
  /\ \A i \in DOMAIN portGot : portGot[i] = i
  /\ Waiting => portBusy # "no"
=============================================================================
