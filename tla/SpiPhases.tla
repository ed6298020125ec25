----------------------------- MODULE SpiPhases ------------------------------
(***************************************************************************)
(* What a transfer of the SPI modules looks like on the wire (spi.c,       *)
(* spi.h): lanes, command, address, dummy cycles and data.  Spi models how *)
(* the bytes of one call move; here a call is one step, and what counts is *)
(* the registers it leaves alone: they hold what an earlier configuration, *)
(* or an earlier transfer, put there.                                      *)
(***************************************************************************)
EXTENDS Integers, Sequences

CONSTANTS
  HspiConfigs,   \* hspi_config_t passed to hspi_master_config_plus
  PspiConfigs,   \* pspi_config_t passed to pspi_master_config_plus
  PhaseLengths,  \* lengths of a transfer, in bytes
  AddrLenGrows   \* no configuration shortens the address of one before

IoModes == {"SINGLE", "DUAL", "QUAD", "3_LINE"}
HspiConfig == [io : IoModes, dummy : 1 .. 16, cmdEn : BOOLEAN, cmdFmt : BOOLEAN,
               addrEn : BOOLEAN, addrFmt : BOOLEAN, addrLen : 1 .. 4]
PspiConfig == [io : IoModes \ {"QUAD"}, dummy : 1 .. 16, cmdEn : BOOLEAN]

\* What the fields of the registers can hold.
ASSUME SpiPhasesAssumption ==
  /\ HspiConfigs \subseteq HspiConfig
  /\ PspiConfigs \subseteq PspiConfig
  /\ PhaseLengths \subseteq 1 .. 2^24 - 1

Modules == {"HSPI", "PSPI"}

VARIABLES
  spiSel,        \* the module in use: they share no register
  spiReg,        \* its registers, by the field
  spiAsked,      \* the parameters of the configuring calls
  spiWire        \* the last transfer: what was asked and what went out

phaseVars == <<spiSel, spiReg, spiAsked, spiWire>>

-----------------------------------------------------------------------------
(* The registers.  Lengths are stored less one: three bytes, four bits for *)
(* the dummy cycles, two for the address.                                  *)
spi_tx_cnt(r, cnt) == [r EXCEPT !.tx = (cnt - 1) % 2^24]
spi_rx_cnt(r, cnt) == [r EXCEPT !.rx = (cnt - 1) % 2^24]
\* The field holds the count itself.
spi_set_dummy_cntFault(r, cnt) == [r EXCEPT !.dummy = cnt % 16]

spi_set_dummy_cnt(r, cnt) == [r EXCEPT !.dummy = (cnt - 1) % 16]
spi_set_transmode(r, mode) == [r EXCEPT !.transmode = mode]
spi_set_cmd(r, cmd) == [r EXCEPT !.cmd = cmd]

(* The bits of the new length are added to those of the old.               *)
LenBits(len) == {b \in 0 .. 1 : ((len - 1) \div 2^b) % 2 = 1}
hspi_set_addr_len(r, len) == [r EXCEPT !.addrLen = @ \cup LenBits(len)]

(* The bits of the lanes.  The one for four lanes is the HSPI's.           *)
NoQuad(r) == IF spiSel = "HSPI" THEN [r EXCEPT !.quad = FALSE] ELSE r
spi_set_normal_mode(r) == NoQuad([r EXCEPT !.dual = FALSE, !.line3 = FALSE])
spi_set_dual_mode(r) == NoQuad([r EXCEPT !.dual = TRUE, !.line3 = FALSE])
hspi_set_quad_mode(r) == [r EXCEPT !.quad = TRUE, !.dual = FALSE, !.line3 = FALSE]
spi_set_3line_mode(r) == NoQuad([r EXCEPT !.line3 = TRUE, !.dual = FALSE])

spi_set_io_mode(r, mode) ==
  CASE mode = "SINGLE" -> spi_set_normal_mode(r)
    [] mode = "DUAL" -> spi_set_dual_mode(r)
    [] mode = "QUAD" -> hspi_set_quad_mode(r)
    [] mode = "3_LINE" -> spi_set_3line_mode(r)

spi_master_init(r, div_clock, mode) == [r EXCEPT !.div = div_clock, !.master = TRUE, !.work = mode]
spi_slave_init(r, mode) == [r EXCEPT !.master = FALSE, !.work = mode]

hspi_addr_dis(r) == [r EXCEPT !.addrEn = FALSE]
spi_master_config(r, mode) ==
  LET off == [r EXCEPT !.cmdEn = FALSE]
  IN spi_set_io_mode(IF spiSel = "HSPI" THEN hspi_addr_dis(off) ELSE off, mode)

hspi_master_config_plus(r, c) ==
  [spi_set_dummy_cnt(hspi_set_addr_len(spi_set_io_mode(r, c.io), c.addrLen), c.dummy)
     EXCEPT !.cmdEn = c.cmdEn, !.cmdFmt = c.cmdFmt, !.addrEn = c.addrEn, !.addrFmt = c.addrFmt]

pspi_master_config_plus(r, c) ==
  [spi_set_dummy_cnt(spi_set_io_mode(r, c.io), c.dummy) EXCEPT !.cmdEn = c.cmdEn]

-----------------------------------------------------------------------------
(* The hardware: the transfer the registers describe.  Quad precedes dual. *)
Lanes(r) == CASE r.quad -> "QUAD" [] r.dual -> "DUAL" [] r.line3 -> "3_LINE" [] OTHER -> "SINGLE"

WRITE_ONLY == 1
READ_ONLY == 2
WRITE_READ == 3
WRITE_DUMMY_READ == 5
DUMMY_WRITE == 8
DUMMY_READ == 9

Phases(mode, tx, dummy, rx) ==
  CASE mode = WRITE_ONLY -> <<<<"write", tx>>>>
    [] mode = READ_ONLY -> <<<<"read", rx>>>>
    [] mode = WRITE_READ -> <<<<"write", tx>>, <<"read", rx>>>>
    [] mode = WRITE_DUMMY_READ -> <<<<"write", tx>>, <<"dummy", dummy>>, <<"read", rx>>>>
    [] mode = DUMMY_WRITE -> <<<<"dummy", dummy>>, <<"write", tx>>>>
    [] mode = DUMMY_READ -> <<<<"dummy", dummy>>, <<"read", rx>>>>

Seen(r) ==
  [lanes |-> Lanes(r), work |-> r.work,
   cmd |-> IF r.cmdEn THEN <<r.cmd, IF r.cmdFmt THEN Lanes(r) ELSE "SINGLE">> ELSE <<>>,
   addr |-> IF r.addrEn THEN <<r.addr, 1 + (IF 0 \in r.addrLen THEN 1 ELSE 0)
                                 + (IF 1 \in r.addrLen THEN 2 ELSE 0),
                               IF r.addrFmt THEN Lanes(r) ELSE "SINGLE">> ELSE <<>>,
   data |-> Phases(r.transmode, r.tx + 1, r.dummy + 1, r.rx + 1)]

Wanted(q, mode, cmd, addr, tx, rx) ==
  [lanes |-> q.io, work |-> q.work,
   cmd |-> IF q.cmdEn THEN <<cmd, IF q.cmdFmt THEN q.io ELSE "SINGLE">> ELSE <<>>,
   addr |-> IF q.addrEn THEN <<addr, q.addrLen, IF q.addrFmt THEN q.io ELSE "SINGLE">> ELSE <<>>,
   data |-> Phases(mode, tx, q.dummy, rx)]

(* dma_set_size: words, rounded up, and the bytes of the last one.  What   *)
(* the channel moves is what the module was told to move.                  *)
DmaBytes(len) ==
  LET words == (len + 3) \div 4 rest == len % 4
  IN IF rest = 0 THEN 4 * words ELSE 4 * (words - 1) + rest

-----------------------------------------------------------------------------
(* The transfers.  HSPI stores the address where the call has one.         *)
NoConfig == [io |-> "none", work |-> 0, cmdEn |-> FALSE, cmdFmt |-> FALSE, addrEn |-> FALSE,
             addrFmt |-> FALSE, addrLen |-> 0, dummy |-> 0, kind |-> "none"]
NoWire == [want |-> <<>>, got |-> <<>>, dma |-> <<>>]

PhaseInit ==
  /\ spiSel \in Modules
  /\ spiReg =
       [div |-> 0, master |-> TRUE, work |-> 0, dual |-> FALSE, line3 |-> FALSE, quad |-> FALSE,
        cmdEn |-> FALSE, cmdFmt |-> FALSE, addrEn |-> FALSE, addrFmt |-> FALSE, addrLen |-> {},
        dummy |-> 0, transmode |-> 0, tx |-> 0, rx |-> 0, cmd |-> 0, addr |-> 0,
        txDma |-> FALSE, rxDma |-> FALSE]
  /\ spiAsked = NoConfig
  /\ spiWire = NoWire

hspi_set_address(r, addr) == IF spiSel = "HSPI" THEN [r EXCEPT !.addr = addr] ELSE r

Transfer(r, want, dma) ==
  /\ spiReg' = r
  /\ spiWire' = [want |-> want, got |-> Seen(r), dma |-> dma]
  /\ UNCHANGED <<spiSel, spiAsked>>

(* The bits that hand a FIFO to its DMA channel are set and never cleared. *)
spi_set_tx_dma_en(r) == [r EXCEPT !.txDma = TRUE]
spi_set_rx_dma_en(r) == [r EXCEPT !.rxDma = TRUE]
spi_set_dma(way, len) == <<way, DmaBytes(len), len>>

(* After spi_master_config; the command stored only starts the transfer.   *)
spi_master_write(r, len, dma) ==
  Transfer(spi_set_cmd(spi_set_transmode(spi_tx_cnt(r, len), WRITE_ONLY), 0),
           Wanted(spiAsked, WRITE_ONLY, 0, 0, len, 0), dma)
spi_master_write_dma(len) ==
  spi_master_write(spi_set_tx_dma_en(spiReg), len, <<spi_set_dma("write", len)>>)

spi_master_write_read(r, wr_len, rd_len, dma) ==
  Transfer(spi_set_cmd(spi_set_transmode(spi_rx_cnt(spi_tx_cnt(r, wr_len), rd_len), WRITE_READ), 0),
           Wanted(spiAsked, WRITE_READ, 0, 0, wr_len, rd_len), dma)
spi_master_write_read_dma(wr_len, rd_len) ==
  spi_master_write_read(spi_set_rx_dma_en(spi_set_tx_dma_en(spiReg)), wr_len, rd_len,
                        <<spi_set_dma("write", wr_len), spi_set_dma("read", rd_len)>>)

(* After a configuration of the other kind.                                *)
spi_master_write_plus(r, cmd, addr, len, wr_mode, dma) ==
  Transfer(spi_set_cmd(spi_tx_cnt(spi_set_transmode(hspi_set_address(r, addr), wr_mode), len), cmd),
           Wanted(spiAsked, wr_mode, cmd, addr, len, 0), dma)
spi_master_write_dma_plus(cmd, addr, len, wr_mode) ==
  spi_master_write_plus(spi_set_tx_dma_en(spiReg), cmd, addr, len, wr_mode, <<spi_set_dma("write", len)>>)

spi_read_plus(r, cmd, addr, len, rd_mode, dma) ==
  Transfer(spi_set_cmd(spi_rx_cnt(spi_set_transmode(hspi_set_address(r, addr), rd_mode), len), cmd),
           Wanted(spiAsked, rd_mode, cmd, addr, 0, len), dma)
spi_master_read_dma_plus(cmd, addr, len, rd_mode) ==
  spi_read_plus(spi_set_rx_dma_en(spiReg), cmd, addr, len, rd_mode, <<spi_set_dma("read", len)>>)

(* The address bytes of this one are data.                                 *)
spi_master_write_read_plus(r, cmd, addr_len, len, mode, dma) ==
  Transfer(spi_set_cmd(spi_set_transmode(spi_rx_cnt(spi_tx_cnt(r, addr_len), len), mode), cmd),
           Wanted(spiAsked, mode, cmd, 0, addr_len, len), dma)
spi_master_write_read_dma_plus(cmd, addr_len, len, mode) ==
  spi_master_write_read_plus(spi_set_rx_dma_en(spi_set_tx_dma_en(spiReg)), cmd, addr_len, len, mode,
                             <<spi_set_dma("write", addr_len), spi_set_dma("read", len)>>)

-----------------------------------------------------------------------------
Configure(r, q) ==
  /\ spiReg' = r /\ spiAsked' = q /\ spiWire' = NoWire
  /\ UNCHANGED spiSel

HspiAsked(c) ==
  [kind |-> "plus", work |-> spiAsked.work, io |-> c.io, dummy |-> c.dummy, cmdEn |-> c.cmdEn,
   cmdFmt |-> c.cmdFmt, addrEn |-> c.addrEn, addrFmt |-> c.addrFmt, addrLen |-> c.addrLen]
PspiAsked(c) ==
  [NoConfig EXCEPT !.kind = "plus", !.work = spiAsked.work, !.io = c.io, !.dummy = c.dummy,
                   !.cmdEn = c.cmdEn]
PlainAsked(io) == [NoConfig EXCEPT !.kind = "plain", !.work = spiAsked.work, !.io = io]

(* A configuration whose length lacks a bit of an earlier one asks for a   *)
(* length the register cannot take.                                        *)
MayFollow(c) == AddrLenGrows => spiReg.addrLen \subseteq LenBits(c.addrLen)

PhaseConfigure ==
  \/ \E mode \in {0, 3} :
       \/ Configure(spi_master_init(spiReg, 1, mode), [spiAsked EXCEPT !.work = mode])
       \/ Configure(spi_slave_init(spiReg, mode), [NoConfig EXCEPT !.work = mode])
  \/ /\ spiReg.master
     /\ \/ \E io \in {"SINGLE", "3_LINE"} :
             Configure(spi_master_config(spiReg, io), PlainAsked(io))
        \/ \E c \in HspiConfigs : spiSel = "HSPI" /\ MayFollow(c)
             /\ Configure(hspi_master_config_plus(spiReg, c), HspiAsked(c))
        \/ \E c \in PspiConfigs : spiSel = "PSPI"
             /\ Configure(pspi_master_config_plus(spiReg, c), PspiAsked(c))

(* The caller uses the calls of the kind it configured the module for, and *)
(* the one that takes the address as data with the address phase off.      *)
PlainTransfer(len) ==
  \/ spi_master_write(spiReg, len, <<>>) \/ spi_master_write_dma(len)
  \/ \E rd_len \in PhaseLengths :
       spi_master_write_read(spiReg, len, rd_len, <<>>) \/ spi_master_write_read_dma(len, rd_len)

PlusTransfer(len) ==
  \/ \E addr \in {0, 1}, mode \in {WRITE_ONLY, DUMMY_WRITE} :
       \/ spi_master_write_plus(spiReg, 1, addr, len, mode, <<>>)
       \/ spi_master_write_dma_plus(1, addr, len, mode)
  \/ \E addr \in {0, 1}, mode \in {READ_ONLY, DUMMY_READ} :
       \/ spi_read_plus(spiReg, 1, addr, len, mode, <<>>)
       \/ spi_master_read_dma_plus(1, addr, len, mode)
  \/ \E rd_len \in PhaseLengths, mode \in {WRITE_READ, WRITE_DUMMY_READ} :
       /\ ~spiAsked.addrEn
       /\ \/ spi_master_write_read_plus(spiReg, 1, len, rd_len, mode, <<>>)
          \/ spi_master_write_read_dma_plus(1, len, rd_len, mode)

PhaseTransfer ==
  \E len \in PhaseLengths :
    \/ spiAsked.kind = "plain" /\ PlainTransfer(len)
    \/ spiAsked.kind = "plus" /\ PlusTransfer(len)

PhaseNext == PhaseConfigure \/ PhaseTransfer

-----------------------------------------------------------------------------
(* Whatever was configured and transferred before, the transfer on the     *)
(* wire has the lanes, the command, the address, the dummy cycles and the  *)
(* lengths that this call and the last configuration asked for, and the    *)
(* DMA channel moves as many bytes.                                        *)
WireAsAsked ==
  /\ spiWire.want # <<>> => spiWire.got = spiWire.want
  /\ \A i \in DOMAIN spiWire.dma : spiWire.dma[i][2] = spiWire.dma[i][3]
=============================================================================
