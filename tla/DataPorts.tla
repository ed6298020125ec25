----------------------------- MODULE DataPorts ------------------------------
(***************************************************************************)
(* The ports that the processor feeds or empties itself: endpoints of USB, *)
(* the AES engine, the infrared fifo of PWM0, the single wire, the buffers *)
(* of the I2C slave, the window onto a device on the HSPI (xip) and the    *)
(* registers of the motion decoder.  A driver and the other side of its    *)
(* port take turns in any order; a behaviour uses one port.                *)
(*                                                                         *)
(* What the caller hands over is noted in dpGiven, what the far side has   *)
(* got of it in dpLine.                                                    *)
(***************************************************************************)
EXTENDS Integers, Sequences

LOCAL INSTANCE SequencesExt

CONSTANTS
  DpCalls,       \* bound on the calls of a behaviour
  EndpointLens,  \* lengths of the packets, at most EndpointSize
  EndpointSize,  \* bytes an endpoint holds
  ShortValues,   \* values of sixteen bits
  IrDepth,       \* groups the infrared fifo holds (8)
  SlaveDepth,    \* bytes either buffer of the slave holds (8)
  SlaveLens,     \* lengths of its calls
  SlaveBytes,    \* bound on what the master of the slave sends
  XipOffsets,    \* offsets into the device
  Frames         \* frames of the motion decoder, without their check byte

VARIABLES
  dpPort,        \* the port in use
  dpAt,          \* where the caller is
  dpCall,        \* its call: arguments and progress
  dpReg,         \* the registers of the port
  dpGiven, dpLine,
  dpCount        \* calls made

dpVars == <<dpPort, dpAt, dpCall, dpReg, dpGiven, dpLine, dpCount>>

\* A call of one step, or the first step of one.
DpBegin(port, at) ==
  /\ dpPort = port /\ dpAt = "idle" /\ dpCount < DpCalls
  /\ dpAt' = at /\ dpCount' = dpCount + 1
  /\ UNCHANGED dpPort
DpStep(port, from, to) ==
  /\ dpPort = port /\ dpAt = from /\ dpAt' = to
  /\ UNCHANGED <<dpPort, dpCount>>
\* A step of the far side.
DpFar(port) == dpPort = port /\ UNCHANGED <<dpPort, dpAt, dpCall, dpCount>>

-----------------------------------------------------------------------------
(* USB.  A packet is written to its endpoint while the host is refused,    *)
(* and is the host's from the acknowledgement on (usbhw_is_ep_busy).       *)
EndpointReset == [ptr |-> 0, dat |-> [i \in 0 .. EndpointSize - 1 |-> "none"], busy |-> FALSE]

usbhw_write_ep ==
  \/ /\ DpBegin("usb_ep", "fill")
     /\ \E n \in EndpointLens : dpCall' = [i \in 1 .. n |-> <<dpCount, i>>]
     /\ dpReg' = [dpReg EXCEPT !.ptr = 0]
     /\ UNCHANGED <<dpGiven, dpLine>>
  \/ /\ DpStep("usb_ep", "fill", "fill") /\ dpCall # <<>>
     /\ dpReg' = [dpReg EXCEPT !.dat[dpReg.ptr] = dpCall[1], !.ptr = @ + 1]
     /\ dpCall' = Tail(dpCall)
     /\ UNCHANGED <<dpGiven, dpLine>>
  \/ /\ DpStep("usb_ep", "fill", "idle") /\ dpCall = <<>>
     /\ dpReg' = [dpReg EXCEPT !.busy = TRUE]
     /\ dpGiven' = Append(dpGiven, [i \in 1 .. dpReg.ptr |-> <<dpCount - 1, i>>])
     /\ UNCHANGED <<dpCall, dpLine>>

usbhw_is_ep_busy == dpReg.busy

HostFetches ==
  /\ DpFar("usb_ep") /\ dpReg.busy
  /\ dpLine' = Append(dpLine, [i \in 1 .. dpReg.ptr |-> dpReg.dat[i - 1]])
  /\ dpReg' = [dpReg EXCEPT !.busy = FALSE]
  /\ UNCHANGED dpGiven

(* A value of sixteen bits passes the control endpoint low byte first.     *)
usbhw_write_ctrl_ep_u16 ==
  \/ /\ DpBegin("usb_ctrl", "high")
     /\ \E v \in ShortValues :
          dpCall' = v /\ dpReg' = Append(dpReg, v % 256) /\ dpGiven' = Append(dpGiven, v)
     /\ UNCHANGED dpLine
  \/ /\ DpStep("usb_ctrl", "high", "idle")
     /\ dpReg' = Append(dpReg, dpCall \div 256)
     /\ UNCHANGED <<dpCall, dpGiven, dpLine>>
HostReads ==
  /\ DpFar("usb_ctrl") /\ dpAt = "idle" /\ Len(dpReg) = 2
  /\ dpLine' = Append(dpLine, dpReg[1] + 256 * dpReg[2])
  /\ dpReg' = <<>>
  /\ UNCHANGED dpGiven

HostWrites ==
  /\ DpFar("usb_ctrl") /\ dpAt = "idle" /\ dpReg = <<>> /\ Len(dpGiven) < DpCalls
  /\ \E v \in ShortValues : dpReg' = <<v % 256, v \div 256, "in">> /\ dpGiven' = Append(dpGiven, v)
  /\ UNCHANGED dpLine
usbhw_read_ctrl_ep_u16 ==
  \/ /\ DpBegin("usb_ctrl", "second")
     /\ dpCall' = dpReg[1] /\ dpReg' = Tail(dpReg)
     /\ UNCHANGED <<dpGiven, dpLine>>
  \/ /\ DpStep("usb_ctrl", "second", "idle")
     /\ dpLine' = Append(dpLine, dpReg[1] * 256 + dpCall) /\ dpReg' = <<>>
     /\ UNCHANGED <<dpCall, dpGiven>>

-----------------------------------------------------------------------------
(* AES.  Callers keep the first byte first, the engine the last, in words  *)
(* of which the lowest byte comes first.  The cipher is any that depends   *)
(* on mode, key and text in their order.                                   *)
Block(what, n) == [i \in 0 .. 15 |-> <<what, n, i>>]
Cipher(mode, key, text) == [i \in 0 .. 15 |-> <<mode, key[i], text[i]>>]
AesReset ==
  LET none == Block("none", 0)
  IN [key |-> none, buff |-> none, result |-> none, start |-> FALSE, mode |-> "none"]

\* Word i of the engine, of the bytes from 12 - 4 i on.
aes_set_key_data ==
  /\ DpStep("aes", "words", IF dpCall.i = 3 THEN "start" ELSE "words")
  /\ dpReg' = [dpReg EXCEPT
       !.key = [b \in 0 .. 15 |-> IF b \div 4 = dpCall.i THEN dpCall.key[15 - b] ELSE @[b]],
       !.buff = [b \in 0 .. 15 |-> IF b \div 4 = dpCall.i THEN dpCall.text[15 - b] ELSE @[b]]]
  /\ dpCall' = [dpCall EXCEPT !.i = @ + 1]
  /\ UNCHANGED <<dpGiven, dpLine>>

\* aes_encrypt and aes_decrypt.
AesBegin ==
  /\ DpBegin("aes", "words")
  /\ \E mode \in {"encrypt", "decrypt"} :
       LET key == Block("key", dpCount)
           text == Block("text", dpCount)
       IN /\ dpCall' = [mode |-> mode, key |-> key, text |-> text, i |-> 0]
          /\ dpGiven' = Append(dpGiven, Cipher(mode, key, text))
  /\ UNCHANGED <<dpReg, dpLine>>
aes_set_mode ==
  /\ DpStep("aes", "start", "wait")
  /\ dpReg' = [dpReg EXCEPT !.start = TRUE, !.mode = dpCall.mode]
  /\ UNCHANGED <<dpCall, dpGiven, dpLine>>
AesEngine ==
  /\ DpFar("aes") /\ dpReg.start
  /\ LET back(f) == [i \in 0 .. 15 |-> f[15 - i]]
     IN dpReg' = [dpReg EXCEPT
          !.result = back(Cipher(dpReg.mode, back(dpReg.key), back(dpReg.buff))), !.start = FALSE]
  /\ UNCHANGED <<dpGiven, dpLine>>

aes_wait_done ==
  /\ DpStep("aes", "wait", "result") /\ ~dpReg.start
  /\ UNCHANGED <<dpCall, dpReg, dpGiven, dpLine>>
aes_get_result ==
  /\ DpStep("aes", "result", "idle")
  /\ dpLine' = Append(dpLine, [i \in 0 .. 15 |-> dpReg.result[15 - i]])
  /\ UNCHANGED <<dpCall, dpReg, dpGiven>>

-----------------------------------------------------------------------------
(* The infrared fifo.  A group is a number of pulses, of which fourteen    *)
(* bits count, and two switches; it is written to two registers in turn.   *)
pwm_cal_pwm0_ir_fifo_cfg_data(pulses, shadow, carrier) ==
  carrier * 2^15 + shadow * 2^14 + (pulses % 2^14)

pwm_set_pwm0_ir_fifo_cfg_data ==
  \/ /\ DpBegin("ir", "full")
     /\ \E pulses \in ShortValues, shadow, carrier \in {0, 1} :
          /\ dpCall' = pwm_cal_pwm0_ir_fifo_cfg_data(pulses, shadow, carrier)
          /\ dpGiven' = Append(dpGiven, <<pulses % 2^14, shadow, carrier>>)
     /\ UNCHANGED <<dpReg, dpLine>>
  \/ /\ DpStep("ir", "full", "idle") /\ Len(dpReg.fifo) < IrDepth
     /\ dpReg' = [fifo |-> Append(dpReg.fifo, dpCall), index |-> (dpReg.index + 1) % 2]
     /\ UNCHANGED <<dpCall, dpGiven, dpLine>>
pwm_clr_pwm0_ir_fifo ==
  /\ DpStep("ir", "idle", "idle")
  /\ dpReg' = [dpReg EXCEPT !.fifo = <<>>]
  /\ dpGiven' = dpLine
  /\ UNCHANGED <<dpCall, dpLine>>
PwmPlays ==
  /\ DpFar("ir") /\ dpReg.fifo # <<>>
  /\ LET group == Head(dpReg.fifo)
     IN dpLine' = Append(dpLine, <<group % 2^14, (group \div 2^14) % 2, group \div 2^15>>)
  /\ dpReg' = [dpReg EXCEPT !.fifo = Tail(@)]
  /\ UNCHANGED dpGiven

-----------------------------------------------------------------------------
(* The single wire: a command or a byte, and the bit that says the wire    *)
(* has not taken it yet.                                                   *)
swire_master_write(cmd) ==
  /\ DpBegin("swire", "data")
  /\ dpCall' = cmd
  /\ dpReg' = [dpReg EXCEPT !.data = dpCount]
  /\ dpGiven' = Append(dpGiven, <<cmd, dpCount>>)
  /\ UNCHANGED dpLine
SwireLaunch ==
  /\ DpStep("swire", "data", "wait")
  /\ dpReg' = [dpReg EXCEPT !.cmd = dpCall, !.wr = TRUE]
  /\ UNCHANGED <<dpCall, dpGiven, dpLine>>
swire_wait_wr_done ==
  /\ DpStep("swire", "wait", "idle") /\ ~dpReg.wr
  /\ UNCHANGED <<dpCall, dpReg, dpGiven, dpLine>>
WireTakes ==
  /\ DpFar("swire") /\ dpReg.wr
  /\ dpLine' = Append(dpLine, <<dpReg.cmd, dpReg.data>>)
  /\ dpReg' = [dpReg EXCEPT !.wr = FALSE]
  /\ UNCHANGED dpGiven

-----------------------------------------------------------------------------
(* The I2C slave.  The master is held while the buffer it needs is full or *)
(* empty.  A read takes its bytes from the lanes of the data register from *)
(* the first on and clears nothing; a write discards what is left of the   *)
(* one before.                                                             *)
Stray == "stray"            \* what a lane holds that is not the oldest byte

i2c_slave_read ==
  \/ /\ DpBegin("i2c_rx", "read")
     /\ \E n \in SlaveLens : dpCall' = [cnt |-> 0, len |-> n]
     /\ UNCHANGED <<dpReg, dpGiven, dpLine>>
  \/ /\ DpStep("i2c_rx", "read", "read") /\ dpCall.cnt < dpCall.len /\ dpReg.fifo # <<>>
     /\ dpLine' = Append(dpLine, IF dpCall.cnt % 4 = dpReg.lane THEN Head(dpReg.fifo) ELSE Stray)
     /\ dpReg' = [fifo |-> Tail(dpReg.fifo), lane |-> (dpReg.lane + 1) % 4]
     /\ dpCall' = [dpCall EXCEPT !.cnt = @ + 1]
     /\ UNCHANGED dpGiven
  \/ /\ DpStep("i2c_rx", "read", "idle") /\ dpCall.cnt = dpCall.len
     /\ UNCHANGED <<dpCall, dpReg, dpGiven, dpLine>>

i2c_clr_fifo ==             \* I2C_RX_BUFF_CLR
  /\ DpStep("i2c_rx", "idle", "idle")
  /\ dpReg' = [fifo |-> <<>>, lane |-> 0]
  /\ dpGiven' = dpLine
  /\ UNCHANGED <<dpCall, dpLine>>

MasterSends ==
  /\ DpFar("i2c_rx") /\ Len(dpReg.fifo) < SlaveDepth /\ Len(dpGiven) < SlaveBytes
  /\ dpReg' = [dpReg EXCEPT !.fifo = Append(@, Len(dpGiven))]
  /\ dpGiven' = Append(dpGiven, Len(dpGiven))
  /\ UNCHANGED dpLine

i2c_slave_write ==
  \/ /\ DpBegin("i2c_tx", "write")
     /\ \E n \in SlaveLens : dpCall' = n
     /\ dpReg' = <<>> /\ dpGiven' = dpLine
     /\ UNCHANGED dpLine
  \/ /\ DpStep("i2c_tx", "write", "write") /\ dpCall > 0 /\ Len(dpReg) < SlaveDepth
     /\ LET byte == <<dpCount, dpCall>>
        IN dpReg' = Append(dpReg, byte) /\ dpGiven' = Append(dpGiven, byte)
     /\ dpCall' = dpCall - 1
     /\ UNCHANGED dpLine
  \/ /\ DpStep("i2c_tx", "write", "idle") /\ dpCall = 0
     /\ UNCHANGED <<dpCall, dpReg, dpGiven, dpLine>>
MasterTakes ==
  /\ DpFar("i2c_tx") /\ dpReg # <<>>
  /\ dpLine' = Append(dpLine, Head(dpReg)) /\ dpReg' = Tail(dpReg)
  /\ UNCHANGED dpGiven

-----------------------------------------------------------------------------
(* The window of the HSPI: an access at i of the window is one at the      *)
(* device's offset + i, under the command and the transfer mode of its     *)
(* direction; the offset is in four registers.                             *)
hspi_xip_addr_offset(offset) == [k \in 0 .. 3 |-> (offset \div 256^k) % 256]
DeviceAddress(regs, i) ==
  regs.offset[0] + 256 * regs.offset[1] + 256^2 * regs.offset[2] + 256^3 * regs.offset[3] + i

XipBegin(way, n) ==
  /\ DpBegin("xip", "access")
  /\ \E offset \in XipOffsets :
       /\ dpCall' = [way |-> way, i |-> 0, len |-> n]
       /\ dpReg' = [dpReg EXCEPT !.offset = hspi_xip_addr_offset(offset),
                                 !.cmd[way] = dpCount, !.mode[way] = dpCount]
       /\ dpGiven' = dpGiven \o [i \in 1 .. n |-> <<way, dpCount, dpCount, offset + i - 1>>]
  /\ UNCHANGED dpLine

hspi_master_write_xip(data_len) == XipBegin("w", data_len)
hspi_master_read_xip(data_len) == XipBegin("r", data_len)
hspi_master_write_xip_cmd_data == XipBegin("w", 1)

\* An access of the call under way.
XipAccess ==
  /\ DpStep("xip", "access", IF dpCall.i + 1 >= dpCall.len THEN "idle" ELSE "access")
  /\ dpLine' = IF dpCall.len = 0 THEN dpLine ELSE
       LET way == dpCall.way
       IN Append(dpLine, <<way, dpReg.cmd[way], dpReg.mode[way], DeviceAddress(dpReg, dpCall.i)>>)
  /\ dpCall' = [dpCall EXCEPT !.i = @ + 1]
  /\ UNCHANGED <<dpReg, dpGiven>>

-----------------------------------------------------------------------------
(* The motion decoder.  Its five bytes are read one by one, and a frame    *)
(* may come in between; the last byte checks the others.                   *)
Bit(n, i) == (n \div 2^i) % 2
Xor(a, b) ==                \* of the lower eight bits
  LET upto[i \in 0 .. 8] ==
        IF i = 0 THEN 0 ELSE upto[i - 1] + 2^(i - 1) * ((Bit(a, i - 1) + Bit(b, i - 1)) % 2)
  IN upto[8]

MdecCrc(d) ==
  LET m2 == (d[1] \div 32) * 16 + (d[1] % 8)
  IN Xor(Xor(m2 + d[2], d[3]) + d[4], 165)
Framed(d) == Append(d, MdecCrc(d))

mdec_read_dat ==
  \/ /\ DpBegin("mdec", "bytes")
     /\ dpCall' = [dat |-> <<>>, torn |-> FALSE]
     /\ UNCHANGED <<dpReg, dpGiven, dpLine>>
  \/ /\ DpStep("mdec", "bytes", IF Len(dpCall.dat) = 4 THEN "crc" ELSE "bytes")
     /\ dpCall' = [dpCall EXCEPT !.dat = Append(@, dpReg[Len(@) + 1])]
     /\ UNCHANGED <<dpReg, dpGiven, dpLine>>
  \/ /\ DpStep("mdec", "crc", "idle")
     /\ dpLine' = IF MdecCrc(dpCall.dat) = dpCall.dat[5] THEN Append(dpLine, dpCall.dat) ELSE dpLine
     /\ UNCHANGED <<dpCall, dpReg, dpGiven>>

(* At most one frame comes during a read, and it differs from the one      *)
(* before in two bytes at most, besides the last: of three, two could      *)
(* change and keep their sum.                                              *)
MdecReceives ==
  /\ dpPort = "mdec" /\ Len(dpGiven) <= DpCalls
  /\ dpAt = "idle" \/ ~dpCall.torn
  /\ \E d \in Frames :
       /\ \E a, b \in 1 .. 4 : \A i \in (1 .. 4) \ {a, b} : d[i] = dpReg[i]
       /\ dpReg' = Framed(d) /\ dpGiven' = Append(dpGiven, Framed(d))
  /\ dpCall' = [dpCall EXCEPT !.torn = TRUE]
  /\ UNCHANGED <<dpPort, dpAt, dpLine, dpCount>>

-----------------------------------------------------------------------------
DataPortReset ==
  [usb_ep |-> EndpointReset, usb_ctrl |-> <<>>, aes |-> AesReset,
   ir |-> [fifo |-> <<>>, index |-> 0], swire |-> [data |-> 0, cmd |-> FALSE, wr |-> FALSE],
   i2c_rx |-> [fifo |-> <<>>, lane |-> 0], i2c_tx |-> <<>>,
   xip |-> [offset |-> hspi_xip_addr_offset(0), cmd |-> [w |-> 0, r |-> 0], mode |-> [w |-> 0, r |-> 0]],
   mdec |-> Framed(CHOOSE d \in Frames : TRUE)]

DataPortsInit ==
  /\ dpPort \in DOMAIN DataPortReset
  /\ dpAt = "idle"
  /\ dpCall = IF dpPort = "mdec" THEN [dat |-> <<>>, torn |-> FALSE] ELSE 0
  /\ dpReg = DataPortReset[dpPort]
  /\ dpGiven = IF dpPort = "mdec" THEN <<dpReg>> ELSE <<>>
  /\ dpLine = <<>>
  /\ dpCount = 0

(* The application writes to an endpoint that is not busy, answers what    *)
(* the host has sent on the control endpoint and puts nothing over what    *)
(* the host has not read yet.                                              *)
UsbPort ==
  \/ dpPort = "usb_ep" /\ (dpAt = "idle" => ~usbhw_is_ep_busy) /\ usbhw_write_ep
  \/ dpPort = "usb_ctrl" /\ (dpAt = "idle" => dpReg = <<>>) /\ usbhw_write_ctrl_ep_u16
  \/ dpPort = "usb_ctrl" /\ (dpAt = "idle" => Len(dpReg) = 3) /\ usbhw_read_ctrl_ep_u16
  \/ HostFetches \/ HostReads \/ HostWrites
AesPort == AesBegin \/ aes_set_key_data \/ aes_set_mode \/ AesEngine \/ aes_wait_done \/ aes_get_result
IrPort == pwm_set_pwm0_ir_fifo_cfg_data \/ pwm_clr_pwm0_ir_fifo \/ PwmPlays
WirePort == (\E cmd \in BOOLEAN : swire_master_write(cmd)) \/ SwireLaunch \/ swire_wait_wr_done \/ WireTakes

(* The application reads four bytes at a time, or clears the buffer before *)
(* it reads again.                                                         *)
SlavePort ==
  \/ dpPort = "i2c_rx" /\ (dpAt = "idle" => dpReg.lane = 0) /\ i2c_slave_read
  \/ i2c_clr_fifo \/ MasterSends \/ i2c_slave_write \/ MasterTakes
XipPort ==
  \/ \E n \in {0, 1, 3} : hspi_master_write_xip(n) \/ hspi_master_read_xip(n)
  \/ hspi_master_write_xip_cmd_data
  \/ XipAccess
MdecPort == mdec_read_dat \/ MdecReceives

\* All calls made and nothing under way.
DpRest ==
  /\ dpAt = "idle" /\ dpCount = DpCalls
  /\ UNCHANGED dpVars

DataPortsNext ==
  UsbPort \/ AesPort \/ IrPort \/ WirePort \/ SlavePort \/ XipPort \/ MdecPort \/ DpRest

-----------------------------------------------------------------------------
(* The far side gets what was given in its order, none of it twice; what   *)
(* the motion decoder's driver reports is a frame that it once held, never *)
(* the bytes of two; and when the caller is done and the port has run      *)
(* empty, nothing is left over.                                            *)
PortRunsEmpty ==
  CASE dpPort = "usb_ep" -> ~dpReg.busy
    [] dpPort = "ir" -> dpReg.fifo = <<>>
    [] dpPort = "i2c_rx" -> dpReg.fifo = <<>>
    [] dpPort \in {"usb_ctrl", "i2c_tx"} -> dpReg = <<>>
    [] OTHER -> TRUE
PortsDeliver ==
  IF dpPort = "mdec" THEN \A i \in DOMAIN dpLine : Contains(dpGiven, dpLine[i])
  ELSE /\ IsPrefix(dpLine, dpGiven)
       /\ dpAt = "idle" /\ PortRunsEmpty => dpLine = dpGiven
=============================================================================
