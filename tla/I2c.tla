-------------------------------- MODULE I2c ---------------------------------
(***************************************************************************)
(* The I2C master (drivers/B91/i2c.c): i2c_master_write, i2c_master_read   *)
(* and i2c_master_write_read, each an address phase followed by a data     *)
(* phase that the driver feeds or empties byte by byte while the hardware  *)
(* runs the bus.  reg_i2c_mst's busy bit is "cycle # none".                *)
(***************************************************************************)
EXTENDS Integers

CONSTANTS
  I2cDepth,         \* bytes the transmit and the receive buffer hold (8)
  I2cLengths,       \* lengths of a data phase
  RestartAcked      \* a slave that answered also answers a repeated start

(* A call launches its write with the first byte: of no bytes, it would    *)
(* return with the bus held.                                               *)
ASSUME I2cAssumption ==
  /\ I2cDepth \in Nat \ {0}
  /\ I2cLengths \subseteq Nat \ {0}
  /\ RestartAcked \in BOOLEAN

VARIABLES
  i2cStopEn,        \* g_i2c_stop_en
  i2cPc,            \* where the caller is
  i2cCall,          \* the call: operation, lengths, and g_i2c_stop_en
  i2cCnt,           \* cnt: bytes moved to or from the buffer
  i2cResult,        \* what the last call returned
  cycle,            \* hardware: the launched cycle, its length, stop or not
  i2cTx, i2cRx,     \* hardware: bytes in the two buffers
  nackIn,           \* FLD_I2C_ACK_IN: the last address was not acknowledged
  bus,              \* "free", or "held" from a START on
  slaveGot,         \* bytes the slave took in this call
  selected          \* the slave was selected by every address of this call

i2cCpuVars == <<i2cStopEn, i2cPc, i2cCall, i2cCnt, i2cResult>>
i2cBusVars == <<cycle, i2cTx, i2cRx, nackIn, bus, slaveGot, selected>>
i2cVars == <<i2cCpuVars, i2cBusVars>>

NoCycle == [kind |-> "none", left |-> 0, stop |-> FALSE]
Launch(kind, left, stop) == [kind |-> kind, left |-> left, stop |-> stop]
I2cBusy == cycle.kind # "none"

NoI2cCall == [op |-> "none", wr |-> 0, rd |-> 0, stop |-> FALSE]

I2cInit ==
  /\ i2cStopEn = TRUE
  /\ i2cPc = "idle" /\ i2cCall = NoI2cCall /\ i2cCnt = 0 /\ i2cResult = 1
  /\ cycle = NoCycle /\ i2cTx = 0 /\ i2cRx = 0 /\ nackIn = FALSE
  /\ bus = "free" /\ slaveGot = 0 /\ selected = TRUE

-----------------------------------------------------------------------------
(* The driver.                                                             *)

i2c_master_send_stop(en) ==
  /\ i2cPc = "idle"
  /\ i2cStopEn' = en
  /\ UNCHANGED <<i2cPc, i2cCall, i2cCnt, i2cResult, i2cBusVars>>

(* Every call clears its buffer and launches START and the address.        *)
I2cBegin(op, wr, rd) ==
  /\ i2cPc = "idle"
  /\ i2cPc' = "address"
  /\ i2cCall' = [op |-> op, wr |-> wr, rd |-> rd,
                 stop |-> i2cStopEn \/ op = "write_read"]
  /\ i2cCnt' = 0
  /\ IF op = "read" THEN i2cRx' = 0 /\ UNCHANGED i2cTx
     ELSE i2cTx' = 0 /\ UNCHANGED i2cRx
  /\ cycle' = Launch("address", 1, FALSE)
  /\ slaveGot' = 0 /\ selected' = TRUE
  /\ UNCHANGED <<i2cStopEn, i2cResult, nackIn, bus>>

i2c_master_write(len) == I2cBegin("write", len, 0)
i2c_master_read(len) == I2cBegin("read", 0, len)
i2c_master_write_read(wr, rd) == I2cBegin("write_read", wr, rd)

(* No answer: a STOP is launched, and the call returns 0 after it.         *)
I2cNack ==
  /\ i2cPc = "address" /\ ~I2cBusy /\ nackIn
  /\ i2cPc' = "stop"
  /\ cycle' = Launch("stop", 0, TRUE)
  /\ UNCHANGED <<i2cStopEn, i2cCall, i2cCnt, i2cResult,
                 i2cTx, i2cRx, nackIn, bus, slaveGot, selected>>

I2cStopped ==
  /\ i2cPc = "stop" /\ ~I2cBusy
  /\ i2cPc' = "idle"
  /\ i2cResult' = 0
  /\ UNCHANGED <<i2cStopEn, i2cCall, i2cCnt, i2cBusVars>>

I2cWritePhaseFault ==       \* writes on although the slave did not answer
  /\ i2cPc = "address" /\ ~I2cBusy
  /\ i2cCall.op # "read"
  /\ i2cPc' = "fill"
  /\ UNCHANGED <<i2cStopEn, i2cCall, i2cCnt, i2cResult, i2cBusVars>>

I2cWritePhase ==            \* reg_i2c_len = len; the loop launches the cycle
  /\ i2cPc = "address" /\ ~I2cBusy /\ ~nackIn
  /\ i2cCall.op # "read"
  /\ i2cPc' = "fill"
  /\ UNCHANGED <<i2cStopEn, i2cCall, i2cCnt, i2cResult, i2cBusVars>>

(* The cycle is launched together with the first byte.  The first data     *)
(* phase of i2c_master_write_read ends without a STOP.                     *)
I2cFill ==
  /\ i2cPc = "fill" /\ i2cCnt < i2cCall.wr
  /\ i2cTx < I2cDepth
  /\ i2cTx' = i2cTx + 1
  /\ i2cCnt' = i2cCnt + 1
  /\ cycle' = IF i2cCnt > 0 THEN cycle
              ELSE Launch("write", i2cCall.wr, i2cCall.stop /\ i2cCall.op = "write")
  /\ UNCHANGED <<i2cStopEn, i2cPc, i2cCall, i2cResult,
                 i2cRx, nackIn, bus, slaveGot, selected>>

I2cWritten ==
  /\ i2cPc = "fill" /\ i2cCnt = i2cCall.wr /\ ~I2cBusy
  /\ i2cCall.op = "write"
  /\ i2cPc' = "idle"
  /\ i2cResult' = 1
  /\ UNCHANGED <<i2cStopEn, i2cCall, i2cCnt, i2cBusVars>>

I2cRestart ==               \* i2c_master_write_read: START and address again
  /\ i2cPc = "fill" /\ i2cCnt = i2cCall.wr /\ ~I2cBusy
  /\ i2cCall.op = "write_read"
  /\ i2cPc' = "restart"
  /\ i2cCnt' = 0
  /\ i2cRx' = 0
  /\ cycle' = Launch("address", 1, FALSE)
  /\ UNCHANGED <<i2cStopEn, i2cCall, i2cResult, i2cTx, nackIn, bus, slaveGot, selected>>

(* The read cycle, launched after the first address only if it was         *)
(* acknowledged; after the repeated one nackIn is not looked at.           *)
I2cReadPhase ==
  /\ ~I2cBusy
  /\ \/ i2cPc = "address" /\ ~nackIn /\ i2cCall.op = "read"
     \/ i2cPc = "restart"
  /\ i2cPc' = "take"
  /\ cycle' = Launch("read", i2cCall.rd, i2cCall.stop)
  /\ UNCHANGED <<i2cStopEn, i2cCall, i2cCnt, i2cResult,
                 i2cTx, i2cRx, nackIn, bus, slaveGot, selected>>

I2cTake ==
  /\ i2cPc = "take" /\ i2cCnt < i2cCall.rd
  /\ i2cRx > 0
  /\ i2cRx' = i2cRx - 1
  /\ i2cCnt' = i2cCnt + 1
  /\ UNCHANGED <<i2cStopEn, i2cPc, i2cCall, i2cResult,
                 cycle, i2cTx, nackIn, bus, slaveGot, selected>>

I2cWasRead ==
  /\ i2cPc = "take" /\ i2cCnt = i2cCall.rd /\ ~I2cBusy
  /\ i2cPc' = "idle"
  /\ i2cResult' = 1
  /\ UNCHANGED <<i2cStopEn, i2cCall, i2cCnt, i2cBusVars>>

I2cDriver ==
  \/ I2cNack \/ I2cStopped \/ I2cWritePhase \/ I2cFill \/ I2cWritten
  \/ I2cRestart \/ I2cReadPhase \/ I2cTake \/ I2cWasRead

-----------------------------------------------------------------------------
(* The hardware and the slave.                                             *)

BusAddress ==
  /\ cycle.kind = "address"
  /\ \E nack \in BOOLEAN :
       /\ RestartAcked /\ i2cPc = "restart" => ~nack
       /\ nackIn' = nack
       /\ selected' = (selected /\ ~nack)
  /\ cycle' = NoCycle
  /\ bus' = "held"
  /\ UNCHANGED <<i2cCpuVars, i2cTx, i2cRx, slaveGot>>

(* What is left of a cycle after one more byte; a STOP frees the bus.      *)
BusByte ==
  LET last == cycle.left <= 1
  IN /\ cycle' = IF last THEN NoCycle ELSE [cycle EXCEPT !.left = @ - 1]
     /\ bus' = IF last /\ cycle.stop THEN "free" ELSE bus

BusWrite ==
  /\ cycle.kind = "write" /\ i2cTx > 0
  /\ i2cTx' = i2cTx - 1
  /\ slaveGot' = slaveGot + 1
  /\ BusByte
  /\ UNCHANGED <<i2cCpuVars, i2cRx, nackIn, selected>>

BusRead ==                  \* with nobody selected the line reads as ones
  /\ cycle.kind = "read" /\ i2cRx < I2cDepth
  /\ i2cRx' = i2cRx + 1
  /\ BusByte
  /\ UNCHANGED <<i2cCpuVars, i2cTx, nackIn, slaveGot, selected>>

BusStop ==
  /\ cycle.kind = "stop"
  /\ BusByte
  /\ UNCHANGED <<i2cCpuVars, i2cTx, i2cRx, nackIn, slaveGot, selected>>

I2cHardware == BusAddress \/ BusWrite \/ BusRead \/ BusStop

I2cUser ==
  \/ \E en \in BOOLEAN : i2c_master_send_stop(en)
  \/ \E len \in I2cLengths : i2c_master_write(len) \/ i2c_master_read(len)
  \/ \E wr, rd \in I2cLengths : i2c_master_write_read(wr, rd)

I2cNext == I2cUser \/ I2cDriver \/ I2cHardware

I2cSpec == I2cInit /\ [][I2cNext]_i2cVars
I2cFairness == WF_i2cVars(I2cDriver) /\ WF_i2cVars(I2cHardware)

-----------------------------------------------------------------------------
I2cTypeOK ==
  /\ i2cStopEn \in BOOLEAN
  /\ i2cPc \in {"idle", "address", "stop", "fill", "restart", "take"}
  /\ i2cCall \in [op : {"none", "write", "read", "write_read"},
                  wr : I2cLengths \cup {0}, rd : I2cLengths \cup {0},
                  stop : BOOLEAN]
  /\ i2cCnt \in Nat /\ i2cResult \in {0, 1}
  /\ cycle \in [kind : {"none", "address", "write", "read", "stop"},
                left : Nat, stop : BOOLEAN]
  /\ i2cTx \in 0 .. I2cDepth /\ i2cRx \in 0 .. I2cDepth
  /\ nackIn \in BOOLEAN /\ bus \in {"free", "held"}
  /\ slaveGot \in Nat /\ selected \in BOOLEAN

(* "every write or read API will send a stop command at the end"           *)
(* (i2c.c:73): a call that is over has freed the bus, answered or not,     *)
(* unless the application switched the STOP off.                           *)
I2cBusReleased == i2cPc = "idle" /\ i2cCall.stop => bus = "free"

(* The result means what the comments of the three functions say: 1 if     *)
(* the slave answered to every address and the data was moved, 0 if the    *)
(* slave did not answer, and then no data was moved.                       *)
I2cResultTruthful ==
  i2cPc = "idle" =>
    IF i2cResult = 1 THEN selected /\ slaveGot = i2cCall.wr
    ELSE ~selected /\ slaveGot = 0

(* A call that is over told the truth and freed the bus.                   *)
I2cCallsSound == I2cBusReleased /\ I2cResultTruthful

(* Every call returns.                                                     *)
I2cReturns == i2cPc # "idle" ~> i2cPc = "idle"
=============================================================================
