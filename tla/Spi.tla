-------------------------------- MODULE Spi ---------------------------------
(***************************************************************************)
(* The polled transfers of the SPI master (drivers/B91/spi.c).  Bytes are  *)
(* named by their position: the master writes 1, 2, ... and the slave      *)
(* sends 1, 2, ... back, or, in a loop-back transfer, each byte it gets.   *)
(* The data register is four bytes wide; the driver counts the lanes from  *)
(* 0 in every spi_write and spi_read, and the hardware from the last time  *)
(* its FIFO was cleared.                                                   *)
(***************************************************************************)
EXTENDS Integers, Sequences

CONSTANTS
  SpiDepth,         \* bytes the transmit and the receive FIFO hold
  SpiLengths,       \* lengths of write_data and read_data
  LoopLengths       \* lengths of a loop-back transfer

ASSUME SpiAssumption ==
  /\ SpiDepth \in Nat /\ SpiDepth >= 4
  /\ SpiLengths \subseteq Nat \ {0}
  /\ LoopLengths \subseteq Nat \ {0}

VARIABLES
  spiPc,            \* where the caller is
  spiCall,          \* the call: operation and lengths
  chunk,            \* loop-back: i and chunk_size
  spiDo,            \* the running spi_write and spi_read: [at, left], and
                    \* the lane each uses next
  spiTx, spiRx,     \* hardware: the two FIFOs
  spiTxLane,        \* hardware: the lane of the next byte, per FIFO
  spiRxLane,
  spiLeft,          \* hardware: bytes the transfer still writes and reads
  spiHeld,          \* hardware: a byte received but not yet in the FIFO
  spiSent,          \* the last byte that went out, 0 before the first
  spiTaken          \* the position spi_read filled last, and with what

spiCpuVars == <<spiPc, spiCall, chunk, spiDo, spiTaken>>
spiBusVars == <<spiTx, spiRx, spiTxLane, spiRxLane, spiLeft, spiHeld, spiSent>>
spiVars == <<spiCpuVars, spiBusVars>>

Wrong == -1         \* what a lane holds that the hardware did not expect

NoMove == [at |-> 0, left |-> 0, lane |-> 0]
NoSpiCall == [op |-> "none", wr |-> 0, rd |-> 0]

SpiInit ==
  /\ spiPc = "idle" /\ spiCall = NoSpiCall
  /\ chunk = [i |-> 0, size |-> 0]
  /\ spiDo = NoMove
  /\ spiTaken = [at |-> 0, val |-> 0]
  /\ spiTx = <<>> /\ spiRx = <<>> /\ spiTxLane = 0 /\ spiRxLane = 0
  /\ spiLeft = [wr |-> 0, rd |-> 0]
  /\ spiHeld = 0 /\ spiSent = 0

spi_is_busy == spiLeft # [wr |-> 0, rd |-> 0]

-----------------------------------------------------------------------------
(* The driver.                                                             *)

spi_tx_fifo_clr == spiTx' = <<>> /\ spiTxLane' = 0
spi_rx_fifo_clr == spiRx' = <<>> /\ spiRxLane' = 0

(* What a call starts with: counts and mode, and spi_set_cmd, which        *)
(* triggers the transfer.  (A count of 0 would stand for 2^24 bytes.)      *)
SpiBegin(op, wr, rd) ==
  /\ spiPc = "idle"
  /\ spiCall' = [op |-> op, wr |-> wr, rd |-> rd]
  /\ spiLeft' = [wr |-> wr, rd |-> rd]
  /\ spiHeld' = 0 /\ spiSent' = 0
  /\ spiTaken' = [at |-> 0, val |-> 0]

(* spi_master_write, spi_master_write_plus: the receive FIFO is left.      *)
SpiWrite(len) ==
  /\ SpiBegin("write", len, 0)
  /\ spi_tx_fifo_clr /\ UNCHANGED <<spiRx, spiRxLane>>
  /\ spiPc' = "write"
  /\ spiDo' = [at |-> 0, left |-> len, lane |-> 0]
  /\ UNCHANGED chunk

(* spi_master_write_read, spi_master_write_read_plus.                      *)
SpiWriteRead(wr, rd) ==
  /\ SpiBegin("write_read", wr, rd)
  /\ spi_tx_fifo_clr /\ spi_rx_fifo_clr
  /\ spiPc' = "write"
  /\ spiDo' = [at |-> 0, left |-> wr, lane |-> 0]
  /\ UNCHANGED chunk

(* spi_master_read_plus: the transmit FIFO is left.                        *)
SpiRead(rd) ==
  /\ SpiBegin("read", 0, rd)
  /\ spi_rx_fifo_clr /\ UNCHANGED <<spiTx, spiTxLane>>
  /\ spiPc' = "read"
  /\ spiDo' = [at |-> 0, left |-> rd, lane |-> 0]
  /\ UNCHANGED chunk

(* It triggers before it clears the FIFOs and sets the counts.  Both are   *)
(* empty between calls, and no byte moves until the first one is written,  *)
(* after all of this.                                                      *)
spi_master_write_read_loopback(len) ==
  /\ SpiBegin("loopback", len, len)
  /\ spi_tx_fifo_clr /\ spi_rx_fifo_clr
  /\ spiPc' = "chunk"
  /\ chunk' = [i |-> 0, size |-> 4]
  /\ UNCHANGED spiDo

Moved == [at |-> spiDo.at + 1, left |-> spiDo.left - 1, lane |-> (spiDo.lane + 1) % 4]

SpiWriteByte ==             \* one turn of the loop of spi_write
  /\ spiPc = "write" /\ spiDo.left > 0
  /\ Len(spiTx) < SpiDepth
  /\ spiTx' = Append(spiTx, IF spiDo.lane = spiTxLane THEN spiDo.at + 1 ELSE Wrong)
  /\ spiTxLane' = (spiTxLane + 1) % 4
  /\ spiDo' = Moved
  /\ UNCHANGED <<spiPc, spiCall, chunk, spiTaken, spiRx, spiRxLane, spiLeft, spiHeld, spiSent>>

SpiReadByte ==              \* one turn of the loop of spi_read
  /\ spiPc = "read" /\ spiDo.left > 0
  /\ spiRx # <<>>
  /\ spiTaken' = [at |-> spiDo.at + 1,
                  val |-> IF spiDo.lane = spiRxLane THEN Head(spiRx) ELSE Wrong]
  /\ spiRx' = Tail(spiRx)
  /\ spiRxLane' = (spiRxLane + 1) % 4
  /\ spiDo' = Moved
  /\ UNCHANGED <<spiPc, spiCall, chunk, spiTx, spiTxLane, spiLeft, spiHeld, spiSent>>

(* Loop-back, the head of the loop: the tail may be a smaller chunk.       *)
LoopChunk ==
  /\ spiPc = "chunk" /\ chunk.i < spiCall.wr
  /\ LET rest == spiCall.wr - chunk.i
         size == IF chunk.size > rest THEN rest ELSE chunk.size
     IN /\ chunk' = [chunk EXCEPT !.size = size]
        /\ spiDo' = [at |-> chunk.i, left |-> size, lane |-> 0]
  /\ spiPc' = "write"
  /\ UNCHANGED <<spiCall, spiTaken, spiBusVars>>

(* Which bytes to read after a chunk was written.  The last byte shifted   *)
(* in stays in the hardware until the next one starts, so that the head    *)
(* reads one byte less than was sent, and the tail one more.               *)
LoopRead ==
  LET len == spiCall.wr IN
  IF len <= 4 THEN [at |-> 0, left |-> chunk.size, lane |-> 0]
  ELSE IF chunk.i = 0 THEN [at |-> 0, left |-> chunk.size - 1, lane |-> 0]
  ELSE IF len - chunk.i > 4 THEN [at |-> chunk.i - 1, left |-> chunk.size, lane |-> 0]
  ELSE [at |-> chunk.i - 1, left |-> chunk.size + 1, lane |-> 0]

SpiWritten ==               \* spi_write returns
  /\ spiPc = "write" /\ spiDo.left = 0
  /\ CASE spiCall.op = "write" -> spiPc' = "wait" /\ UNCHANGED spiDo
       [] spiCall.op = "write_read" ->
            /\ spiPc' = "read"
            /\ spiDo' = [at |-> 0, left |-> spiCall.rd, lane |-> 0]
       [] OTHER -> spiPc' = "read" /\ spiDo' = LoopRead
  /\ UNCHANGED <<spiCall, chunk, spiTaken, spiBusVars>>

SpiWasRead ==               \* spi_read returns; loop-back clears both FIFOs
  /\ spiPc = "read" /\ spiDo.left = 0
  /\ IF spiCall.op = "loopback"
     THEN /\ spiPc' = "chunk"
          /\ chunk' = [chunk EXCEPT !.i = @ + chunk.size]
          /\ spi_tx_fifo_clr /\ spi_rx_fifo_clr
     ELSE spiPc' = "wait" /\ UNCHANGED <<chunk, spiTx, spiRx, spiTxLane, spiRxLane>>
  /\ UNCHANGED <<spiCall, spiDo, spiTaken, spiLeft, spiHeld, spiSent>>

LoopEnd ==
  /\ spiPc = "chunk" /\ chunk.i >= spiCall.wr
  /\ spiPc' = "wait"
  /\ UNCHANGED <<spiCall, chunk, spiDo, spiTaken, spiBusVars>>

SpiReturn ==
  /\ spiPc = "wait" /\ ~spi_is_busy
  /\ spiPc' = "idle"
  /\ UNCHANGED <<spiCall, chunk, spiDo, spiTaken, spiBusVars>>

SpiDriver ==
  \/ SpiWriteByte \/ SpiReadByte \/ LoopChunk \/ SpiWritten \/ SpiWasRead
  \/ LoopEnd \/ SpiReturn

-----------------------------------------------------------------------------
(* The hardware.  The clock stops while a FIFO cannot give or take a byte. *)

ShiftOut ==                 \* write, and the first part of write_read
  /\ spiCall.op \in {"write", "write_read"} /\ spiLeft.wr > 0
  /\ spiTx # <<>>
  /\ spiSent' = IF Head(spiTx) = spiSent + 1 THEN spiSent + 1 ELSE Wrong
  /\ spiTx' = Tail(spiTx)
  /\ spiLeft' = [spiLeft EXCEPT !.wr = @ - 1]
  /\ UNCHANGED <<spiCpuVars, spiRx, spiTxLane, spiRxLane, spiHeld>>

ShiftIn ==                  \* read, and the second part of write_read
  /\ spiCall.op \in {"read", "write_read"}
  /\ spiLeft.wr = 0 /\ spiLeft.rd > 0
  /\ Len(spiRx) < SpiDepth
  /\ spiRx' = Append(spiRx, spiCall.rd - spiLeft.rd + 1)
  /\ spiLeft' = [spiLeft EXCEPT !.rd = @ - 1]
  /\ UNCHANGED <<spiCpuVars, spiTx, spiTxLane, spiRxLane, spiHeld, spiSent>>

(* write_and_read: the byte held enters the receive FIFO when the next     *)
(* one is shifted, and the last byte of the transfer right away.           *)
Exchange ==
  /\ spiCall.op = "loopback" /\ spiLeft.wr > 0
  /\ spiTx # <<>>
  /\ Len(spiRx) + 2 <= SpiDepth
  /\ LET byte == Head(spiTx)
         last == spiLeft.wr = 1
         held == IF spiHeld = 0 THEN <<>> ELSE <<spiHeld>>
     IN /\ spiRx' = spiRx \o held \o (IF last THEN <<byte>> ELSE <<>>)
        /\ spiHeld' = IF last THEN 0 ELSE byte
        /\ spiSent' = IF byte = spiSent + 1 THEN byte ELSE Wrong
  /\ spiTx' = Tail(spiTx)
  /\ spiLeft' = [wr |-> spiLeft.wr - 1, rd |-> spiLeft.rd - 1]
  /\ UNCHANGED <<spiCpuVars, spiTxLane, spiRxLane>>

SpiHardware == ShiftOut \/ ShiftIn \/ Exchange

SpiUser ==
  \/ \E len \in SpiLengths : SpiWrite(len) \/ SpiRead(len)
  \/ \E wr, rd \in SpiLengths : SpiWriteRead(wr, rd)
  \/ \E len \in LoopLengths : spi_master_write_read_loopback(len)

SpiNext == SpiUser \/ SpiDriver \/ SpiHardware

SpiSpec == SpiInit /\ [][SpiNext]_spiVars
SpiFairness == WF_spiVars(SpiDriver) /\ WF_spiVars(SpiHardware)

-----------------------------------------------------------------------------
SpiTypeOK ==
  /\ spiPc \in {"idle", "chunk", "write", "read", "wait"}
  /\ spiCall.op \in {"none", "write", "read", "write_read", "loopback"}
  /\ spiDo.lane \in 0 .. 3 /\ spiDo.left \in Nat
  /\ Len(spiTx) <= SpiDepth /\ Len(spiRx) <= SpiDepth
  /\ spiTxLane \in 0 .. 3 /\ spiRxLane \in 0 .. 3
  /\ spiLeft.wr \in Nat /\ spiLeft.rd \in Nat

(* Every byte read lands at the position of the byte the slave sent, and   *)
(* every byte sent is the next one of the caller's buffer; a call that has *)
(* returned wrote and read all its bytes, none too many.                   *)
SpiMovesAll ==
  /\ spiTaken.at = spiTaken.val /\ spiSent # Wrong
  /\ spiPc = "idle" => spiSent = spiCall.wr /\ spiTaken.at = spiCall.rd

(* Every call returns.                                                     *)
SpiReturns == spiPc # "idle" ~> spiPc = "idle"
=============================================================================
