----------------------------- MODULE SerialProof ----------------------------
(***************************************************************************)
(* Proofs about the drivers of the serial ports, for any configurations    *)
(* and any lengths of transfers: that the calls of the I2C master tell the *)
(* truth and free the bus, that bytes pass through the UART in order and   *)
(* are counted, that an SPI transfer is on the wire the one asked for and  *)
(* its polled loops move every byte to its place, and that a smart card is *)
(* reset as it needs.  Each driver has an inductive invariant of its own;  *)
(* a step of the composed system is a step of one driver, and the rest     *)
(* stutter.                                                                *)
(***************************************************************************)
EXTENDS SerialDrivers, FlashProof, ModArith, SequenceTheorems

-----------------------------------------------------------------------------
(* The wire.  The registers hold what the last configuration asked for, in *)
(* the fields a transfer of its kind depends on; a configuration of        *)
(* another kind may have left the others as they are.                      *)
PhaseReg ==
  [div : Nat, master : BOOLEAN, work : Nat, dual : BOOLEAN, line3 : BOOLEAN, quad : BOOLEAN,
   cmdEn : BOOLEAN, cmdFmt : BOOLEAN, addrEn : BOOLEAN, addrFmt : BOOLEAN,
   addrLen : SUBSET {0, 1}, dummy : 0 .. 15, transmode : Nat, tx : Nat, rx : Nat, cmd : Nat,
   addr : Nat, txDma : BOOLEAN, rxDma : BOOLEAN]

Asked ==
  [io : IoModes \cup {"none"}, work : Nat, cmdEn : BOOLEAN, cmdFmt : BOOLEAN, addrEn : BOOLEAN,
   addrFmt : BOOLEAN, addrLen : 0 .. 4, dummy : 0 .. 16, kind : {"none", "plain", "plus"}]

(* The address phase, the command's lanes and the fourth lane are the HSPI's. *)
HspiOnly(r) == spiSel = "PSPI" => ~r.quad /\ ~r.addrEn /\ ~r.cmdFmt

Matches(r, q) ==
  /\ r.work = q.work
  /\ q.kind # "none" =>
       /\ Lanes(r) = q.io
       /\ r.cmdEn <=> q.cmdEn
       /\ r.addrEn <=> q.addrEn
       /\ q.cmdEn \/ q.addrEn => q.kind = "plus"
  /\ q.kind = "plus" =>
       /\ q.dummy = r.dummy + 1
       /\ q.cmdEn => (r.cmdFmt <=> q.cmdFmt)
       /\ q.addrEn => (r.addrFmt <=> q.addrFmt) /\ r.addrLen = LenBits(q.addrLen)
                      /\ q.addrLen \in 1 .. 4

PhaseTypeOK == spiSel \in Modules /\ spiReg \in PhaseReg /\ spiAsked \in Asked
PhaseIInv == PhaseTypeOK /\ HspiOnly(spiReg) /\ Matches(spiReg, spiAsked) /\ WireAsAsked

(* The bits of an address length give the length back.                     *)
LEMMA AddrLength ==
  ASSUME NEW len \in 1 .. 4
  PROVE  /\ LenBits(len) \in SUBSET {0, 1}
         /\ 1 + (IF 0 \in LenBits(len) THEN 1 ELSE 0)
              + (IF 1 \in LenBits(len) THEN 2 ELSE 0) = len
<1>1. (len - 1) \div 2^0 = len - 1 /\ 2^1 = 2
  OBVIOUS
<1>2. (0 \in LenBits(len) <=> (len - 1) % 2 = 1)
      /\ (1 \in LenBits(len) <=> ((len - 1) \div 2) % 2 = 1)
  BY <1>1 DEF LenBits
<1>3. LenBits(len) \in SUBSET {0, 1}
  BY DEF LenBits
<1>4. QED
  BY <1>2, <1>3

(* The channel moves the bytes the module was told to move.                *)
LEMMA DmaExact == ASSUME NEW len \in Nat  PROVE DmaBytes(len) = len
BY DEF DmaBytes

LEMMA NoneAsked ==
  /\ NoConfig \in Asked /\ NoConfig.kind = "none" /\ NoConfig.work = 0
  /\ NoConfig.cmdEn = FALSE /\ NoConfig.cmdFmt = FALSE /\ NoConfig.addrEn = FALSE
BY DEF NoConfig, Asked

LEMMA PhaseInitial == PhaseInit => PhaseIInv
<1> SUFFICES ASSUME PhaseInit  PROVE PhaseIInv
  OBVIOUS
<1>1. spiReg \in PhaseReg /\ ~spiReg.quad /\ ~spiReg.addrEn /\ ~spiReg.cmdFmt /\ spiReg.work = 0
  BY DEF PhaseInit, PhaseReg
<1>2. spiAsked \in Asked /\ spiAsked.kind = "none" /\ spiAsked.work = 0
  BY DEF PhaseInit, NoConfig, Asked
<1>3. WireAsAsked
  BY DEF PhaseInit, NoWire, WireAsAsked
<1>4. QED
  BY <1>1, <1>2, <1>3 DEF PhaseInit, PhaseIInv, PhaseTypeOK, HspiOnly, Matches

-----------------------------------------------------------------------------
(* Configurations.                                                         *)
LEMMA IoModeSet ==
  ASSUME NEW r \in PhaseReg, NEW io \in IoModes, HspiOnly(r), io = "QUAD" => spiSel = "HSPI",
         spiSel \in Modules
  PROVE  \E dual, line3, quad \in BOOLEAN :
           /\ spi_set_io_mode(r, io) = [r EXCEPT !.dual = dual, !.line3 = line3, !.quad = quad]
           /\ quad => spiSel = "HSPI"
           /\ Lanes(spi_set_io_mode(r, io)) = io
<1>1. CASE io = "QUAD"
  <2>1. spi_set_io_mode(r, io) = [r EXCEPT !.dual = FALSE, !.line3 = FALSE, !.quad = TRUE]
    BY <1>1 DEF spi_set_io_mode, hspi_set_quad_mode, PhaseReg
  <2>2. Lanes(spi_set_io_mode(r, io)) = io
    BY <1>1, <2>1 DEF Lanes, PhaseReg
  <2>3. QED
    BY <1>1, <2>1, <2>2
<1>2. ASSUME NEW dual \in BOOLEAN, NEW line3 \in BOOLEAN,
             spi_set_io_mode(r, io) = NoQuad([r EXCEPT !.dual = dual, !.line3 = line3])
      PROVE  /\ spi_set_io_mode(r, io) = [r EXCEPT !.dual = dual, !.line3 = line3, !.quad = FALSE]
             /\ Lanes(spi_set_io_mode(r, io)) =
                  CASE dual -> "DUAL" [] line3 -> "3_LINE" [] OTHER -> "SINGLE"
  <2>1. [r EXCEPT !.dual = dual, !.line3 = line3] \in PhaseReg
    BY DEF PhaseReg
  <2>2. spiSel = "PSPI" => r.quad = FALSE
    BY DEF HspiOnly, PhaseReg
  <2>3. spi_set_io_mode(r, io) = [r EXCEPT !.dual = dual, !.line3 = line3, !.quad = FALSE]
    BY <1>2, <2>1, <2>2 DEF NoQuad, PhaseReg, Modules
  <2>4. QED
    BY <2>3 DEF Lanes, PhaseReg
<1>3. CASE io = "SINGLE"
  BY <1>2, <1>3 DEF spi_set_io_mode, spi_set_normal_mode
<1>4. CASE io = "DUAL"
  BY <1>2, <1>4 DEF spi_set_io_mode, spi_set_dual_mode
<1>5. CASE io = "3_LINE"
  BY <1>2, <1>5 DEF spi_set_io_mode, spi_set_3line_mode
<1>6. QED
  BY <1>1, <1>3, <1>4, <1>5 DEF IoModes

(* What a configuration leaves is right when the registers match it.       *)
Fits(r, q) == r \in PhaseReg /\ q \in Asked /\ HspiOnly(r) /\ Matches(r, q)

LEMMA Configured ==
  ASSUME NEW r, NEW q, Configure(r, q), spiSel \in Modules, Fits(r, q)
  PROVE  PhaseIInv'
<1> USE DEF Fits
<1>1. spiReg' = r /\ spiAsked' = q /\ spiSel' = spiSel /\ spiWire' = NoWire
  BY DEF Configure
<1>2. PhaseTypeOK' /\ HspiOnly(spiReg)'
  BY <1>1 DEF PhaseTypeOK, HspiOnly
<1>3. Matches(spiReg, spiAsked)'
  BY <1>1 DEF Matches, Lanes, LenBits
<1>4. WireAsAsked'
  BY <1>1 DEF WireAsAsked, NoWire
<1>5. QED
  BY <1>2, <1>3, <1>4 DEF PhaseIInv

LEMMA MasterFits ==
  ASSUME PhaseIInv, NEW mode \in Nat
  PROVE  Fits(spi_master_init(spiReg, 1, mode), [spiAsked EXCEPT !.work = mode])
<1>0. spiReg \in PhaseReg /\ spiAsked \in Asked /\ HspiOnly(spiReg)
      /\ Matches(spiReg, spiAsked) /\ spiSel \in Modules
  BY DEF PhaseIInv, PhaseTypeOK
<1> DEFINE r == spi_master_init(spiReg, 1, mode)
           q == [spiAsked EXCEPT !.work = mode]
<1>1. r = [spiReg EXCEPT !.div = 1, !.master = TRUE, !.work = mode]
  BY DEF spi_master_init
<1>2. q \in Asked
  BY <1>0 DEF Asked
<1> HIDE DEF r
<1>3. r \in PhaseReg
  BY <1>0, <1>1 DEF PhaseReg
<1>4. Lanes(r) = Lanes(spiReg)
  BY <1>0, <1>1 DEF Lanes, PhaseReg
<1>5. HspiOnly(r)
  BY <1>0, <1>1 DEF HspiOnly, PhaseReg
<1>6. Matches(r, q)
  BY <1>0, <1>1, <1>4 DEF Matches, PhaseReg, Asked
<1>7. QED
  BY <1>2, <1>3, <1>5, <1>6 DEF Fits, r

LEMMA SlaveFits ==
  ASSUME PhaseIInv, NEW mode \in Nat
  PROVE  Fits(spi_slave_init(spiReg, mode), [NoConfig EXCEPT !.work = mode])
<1>0. spiReg \in PhaseReg /\ HspiOnly(spiReg)
  BY DEF PhaseIInv, PhaseTypeOK
<1> DEFINE r == spi_slave_init(spiReg, mode)
           q == [NoConfig EXCEPT !.work = mode]
<1>1. r = [spiReg EXCEPT !.master = FALSE, !.work = mode]
  BY DEF spi_slave_init
<1>2. q \in Asked /\ q.work = mode /\ q.kind = "none"
  BY NoneAsked DEF Asked
<1> HIDE DEF r, q
<1>3. r \in PhaseReg /\ HspiOnly(r) /\ r.work = mode
  BY <1>0, <1>1 DEF PhaseReg, HspiOnly
<1>4. Matches(r, q)
  BY <1>2, <1>3 DEF Matches
<1>5. QED
  BY <1>2, <1>3, <1>4 DEF Fits, r, q

LEMMA PlainFits ==
  ASSUME PhaseIInv, NEW io \in {"SINGLE", "3_LINE"}
  PROVE  Fits(spi_master_config(spiReg, io), PlainAsked(io))
<1>0. spiReg \in PhaseReg /\ spiAsked \in Asked /\ HspiOnly(spiReg)
      /\ Matches(spiReg, spiAsked) /\ spiSel \in Modules
  BY DEF PhaseIInv, PhaseTypeOK
<1> DEFINE off == [spiReg EXCEPT !.cmdEn = FALSE]
           base == IF spiSel = "HSPI" THEN hspi_addr_dis(off) ELSE off
           r == spi_set_io_mode(base, io)
           q == PlainAsked(io)
<1>1. base = [spiReg EXCEPT !.cmdEn = FALSE, !.addrEn = FALSE]
  <2>1. spiSel = "PSPI" => spiReg.addrEn = FALSE
    BY <1>0 DEF HspiOnly, PhaseReg
  <2>2. QED
    BY <1>0, <2>1 DEF hspi_addr_dis, PhaseReg, Modules
<1>2. base \in PhaseReg /\ HspiOnly(base) /\ base.work = spiReg.work /\ base.cmdEn = FALSE
      /\ base.addrEn = FALSE
  BY <1>0, <1>1 DEF PhaseReg, HspiOnly
<1> HIDE DEF base
<1>3. PICK dual \in BOOLEAN, line3 \in BOOLEAN, quad \in BOOLEAN :
        /\ r = [base EXCEPT !.dual = dual, !.line3 = line3, !.quad = quad]
        /\ quad => spiSel = "HSPI"
        /\ Lanes(r) = io
  <2>1. io \in IoModes /\ io # "QUAD"
    BY DEF IoModes
  <2>2. QED
    BY <1>0, <1>2, <2>1, IoModeSet
<1>4. r \in PhaseReg /\ HspiOnly(r) /\ r.work = spiReg.work /\ r.cmdEn = FALSE
      /\ r.addrEn = FALSE
  BY <1>2, <1>3 DEF PhaseReg, HspiOnly
<1>5. q \in Asked /\ q.work = spiAsked.work /\ q.kind = "plain" /\ q.io = io
      /\ q.cmdEn = FALSE /\ q.addrEn = FALSE
  <2>1. q = [NoConfig EXCEPT !.kind = "plain", !.work = spiAsked.work, !.io = io]
    BY DEF PlainAsked
  <2>2. spiAsked.work \in Nat /\ io \in IoModes
    BY <1>0 DEF Asked, IoModes
  <2>3. QED
    BY <2>1, <2>2, NoneAsked DEF Asked
<1>6. r = spi_master_config(spiReg, io)
  BY DEF spi_master_config, base
<1> HIDE DEF r, q
<1>7. Matches(r, q)
  BY <1>0, <1>3, <1>4, <1>5 DEF Matches
<1>8. QED
  BY <1>4, <1>5, <1>6, <1>7 DEF Fits, q

LEMMA HspiFits ==
  ASSUME PhaseIInv, AddrLenGrows, NEW c \in HspiConfig, spiSel = "HSPI", MayFollow(c)
  PROVE  Fits(hspi_master_config_plus(spiReg, c), HspiAsked(c))
<1>0. spiReg \in PhaseReg /\ spiAsked \in Asked /\ HspiOnly(spiReg)
      /\ Matches(spiReg, spiAsked) /\ spiSel \in Modules
  BY DEF PhaseIInv, PhaseTypeOK
<1> DEFINE base == spi_set_io_mode(spiReg, c.io)
           r == hspi_master_config_plus(spiReg, c)
           q == HspiAsked(c)
<1>1. c.io \in IoModes /\ c.dummy \in 1 .. 16 /\ c.addrLen \in 1 .. 4 /\ c.cmdEn \in BOOLEAN
      /\ c.cmdFmt \in BOOLEAN /\ c.addrEn \in BOOLEAN /\ c.addrFmt \in BOOLEAN
  BY DEF HspiConfig
<1>2. PICK dual \in BOOLEAN, line3 \in BOOLEAN, quad \in BOOLEAN :
        /\ base = [spiReg EXCEPT !.dual = dual, !.line3 = line3, !.quad = quad]
        /\ Lanes(base) = c.io
  BY <1>0, <1>1, IoModeSet
<1>3. spiReg.addrLen \cup LenBits(c.addrLen) = LenBits(c.addrLen)
      /\ LenBits(c.addrLen) \in SUBSET {0, 1}
  BY <1>1, AddrLength DEF MayFollow
<1>4. (c.dummy - 1) % 16 = c.dummy - 1
  BY <1>1
<1>5. base \in PhaseReg /\ base.addrLen = spiReg.addrLen /\ base.work = spiReg.work
  BY <1>0, <1>2 DEF PhaseReg
<1> HIDE DEF base
<1>6. r = [base EXCEPT !.addrLen = LenBits(c.addrLen), !.dummy = c.dummy - 1, !.cmdEn = c.cmdEn,
                       !.cmdFmt = c.cmdFmt, !.addrEn = c.addrEn, !.addrFmt = c.addrFmt]
  BY <1>3, <1>4, <1>5
     DEF hspi_master_config_plus, hspi_set_addr_len, spi_set_dummy_cnt, base, PhaseReg
<1> HIDE DEF r
<1>7. r \in PhaseReg /\ r.work = spiReg.work /\ r.cmdEn = c.cmdEn /\ r.addrEn = c.addrEn
      /\ r.cmdFmt = c.cmdFmt /\ r.addrFmt = c.addrFmt /\ r.addrLen = LenBits(c.addrLen)
      /\ r.dummy = c.dummy - 1
  <2>1. c.dummy - 1 \in 0 .. 15
    BY <1>1
  <2>2. r \in PhaseReg
    BY <1>1, <1>3, <1>5, <1>6, <2>1 DEF PhaseReg
  <2>3. QED
    BY <1>5, <1>6, <2>2 DEF PhaseReg
<1>8. Lanes(r) = c.io
  BY <1>2, <1>5, <1>6 DEF Lanes, PhaseReg
<1>9. HspiOnly(r)
  BY DEF HspiOnly
<1>10. q \in Asked /\ q.work = spiAsked.work /\ q.kind = "plus" /\ q.io = c.io
       /\ q.cmdEn = c.cmdEn /\ q.cmdFmt = c.cmdFmt /\ q.addrEn = c.addrEn
       /\ q.addrFmt = c.addrFmt /\ q.addrLen = c.addrLen /\ q.dummy = c.dummy
  BY <1>0, <1>1 DEF HspiAsked, Asked
<1> HIDE DEF q
<1>11. Matches(r, q)
  BY <1>0, <1>1, <1>7, <1>8, <1>10 DEF Matches
<1>12. QED
  BY <1>7, <1>9, <1>10, <1>11 DEF Fits, r, q

LEMMA PspiFits ==
  ASSUME PhaseIInv, NEW c \in PspiConfig, spiSel = "PSPI"
  PROVE  Fits(pspi_master_config_plus(spiReg, c), PspiAsked(c))
<1>0. spiReg \in PhaseReg /\ spiAsked \in Asked /\ HspiOnly(spiReg)
      /\ Matches(spiReg, spiAsked) /\ spiSel \in Modules
  BY DEF PhaseIInv, PhaseTypeOK
<1> DEFINE base == spi_set_io_mode(spiReg, c.io)
           r == pspi_master_config_plus(spiReg, c)
           q == PspiAsked(c)
<1>1. c.io \in IoModes /\ c.io # "QUAD" /\ c.dummy \in 1 .. 16 /\ c.cmdEn \in BOOLEAN
  BY DEF PspiConfig
<1>2. PICK dual \in BOOLEAN, line3 \in BOOLEAN, quad \in BOOLEAN :
        /\ base = [spiReg EXCEPT !.dual = dual, !.line3 = line3, !.quad = quad]
        /\ quad => spiSel = "HSPI"
        /\ Lanes(base) = c.io
  BY <1>0, <1>1, IoModeSet
<1>3. (c.dummy - 1) % 16 = c.dummy - 1
  BY <1>1
<1>4. base \in PhaseReg /\ base.work = spiReg.work /\ HspiOnly(base)
  BY <1>0, <1>2 DEF PhaseReg, HspiOnly
<1> HIDE DEF base
<1>5. r = [base EXCEPT !.dummy = c.dummy - 1, !.cmdEn = c.cmdEn]
  BY <1>3, <1>4 DEF pspi_master_config_plus, spi_set_dummy_cnt, base, PhaseReg
<1> HIDE DEF r
<1>6. r \in PhaseReg /\ r.work = spiReg.work /\ r.cmdEn = c.cmdEn /\ r.dummy = c.dummy - 1
      /\ HspiOnly(r)
  <2>1. c.dummy - 1 \in 0 .. 15
    BY <1>1
  <2>2. r \in PhaseReg
    BY <1>1, <1>4, <1>5, <2>1 DEF PhaseReg
  <2>3. QED
    BY <1>4, <1>5, <2>2 DEF PhaseReg, HspiOnly
<1>7. Lanes(r) = c.io
  BY <1>2, <1>4, <1>5 DEF Lanes, PhaseReg
<1>8. q \in Asked /\ q.work = spiAsked.work /\ q.kind = "plus" /\ q.io = c.io
       /\ q.cmdEn = c.cmdEn /\ q.cmdFmt = FALSE /\ q.addrEn = FALSE /\ q.dummy = c.dummy
  <2>1. q = [NoConfig EXCEPT !.kind = "plus", !.work = spiAsked.work, !.io = c.io,
                             !.dummy = c.dummy, !.cmdEn = c.cmdEn]
    BY DEF PspiAsked
  <2>2. spiAsked.work \in Nat /\ c.dummy \in 0 .. 16
    BY <1>0, <1>1 DEF Asked
  <2> HIDE DEF q
  <2>3. q \in Asked
    BY <1>1, <2>1, <2>2, NoneAsked DEF Asked
  <2>4. q.cmdFmt = FALSE /\ q.addrEn = FALSE
    BY <2>1, NoneAsked DEF Asked
  <2>5. QED
    BY <2>1, <2>3, <2>4, NoneAsked DEF Asked
<1> HIDE DEF q
<1>9. Matches(r, q)
  BY <1>0, <1>1, <1>6, <1>7, <1>8 DEF Matches, HspiOnly
<1>10. QED
  BY <1>6, <1>8, <1>9 DEF Fits, r, q

LEMMA ConfigureStep == ASSUME AddrLenGrows, PhaseIInv, PhaseConfigure  PROVE PhaseIInv'
<1>0. spiSel \in Modules
  BY DEF PhaseIInv, PhaseTypeOK
<1>1. ASSUME NEW mode \in {0, 3},
             Configure(spi_master_init(spiReg, 1, mode), [spiAsked EXCEPT !.work = mode])
      PROVE  PhaseIInv'
  BY <1>0, <1>1, MasterFits, Configured
<1>2. ASSUME NEW mode \in {0, 3},
             Configure(spi_slave_init(spiReg, mode), [NoConfig EXCEPT !.work = mode])
      PROVE  PhaseIInv'
  BY <1>0, <1>2, SlaveFits, Configured
<1>3. ASSUME NEW io \in {"SINGLE", "3_LINE"},
             Configure(spi_master_config(spiReg, io), PlainAsked(io))
      PROVE  PhaseIInv'
  BY <1>0, <1>3, PlainFits, Configured
<1>4. ASSUME NEW c \in HspiConfigs, spiSel = "HSPI", MayFollow(c),
             Configure(hspi_master_config_plus(spiReg, c), HspiAsked(c))
      PROVE  PhaseIInv'
  BY <1>0, <1>4, HspiFits, Configured, SpiPhasesAssumption DEF SpiPhasesAssumption
<1>5. ASSUME NEW c \in PspiConfigs, spiSel = "PSPI",
             Configure(pspi_master_config_plus(spiReg, c), PspiAsked(c))
      PROVE  PhaseIInv'
  BY <1>0, <1>5, PspiFits, Configured, SpiPhasesAssumption DEF SpiPhasesAssumption
<1>6. QED
  BY <1>1, <1>2, <1>3, <1>4, <1>5 DEF PhaseConfigure

-----------------------------------------------------------------------------
(* Transfers, which leave what was configured alone.                       *)
SameSetUp(r) ==
  /\ r \in PhaseReg
  /\ r.work = spiReg.work /\ r.dual = spiReg.dual /\ r.line3 = spiReg.line3
  /\ r.quad = spiReg.quad /\ r.cmdEn = spiReg.cmdEn /\ r.cmdFmt = spiReg.cmdFmt
  /\ r.addrEn = spiReg.addrEn /\ r.addrFmt = spiReg.addrFmt
  /\ r.addrLen = spiReg.addrLen /\ r.dummy = spiReg.dummy

Exact(dma) == \A i \in DOMAIN dma : dma[i][2] = dma[i][3]

LEMMA Transferred ==
  ASSUME PhaseIInv, NEW r, NEW want, NEW dma, Transfer(r, want, dma), SameSetUp(r),
         Seen(r) = want, Exact(dma)
  PROVE  PhaseIInv'
<1>1. spiReg' = r /\ spiWire' = [want |-> want, got |-> Seen(r), dma |-> dma]
      /\ spiSel' = spiSel /\ spiAsked' = spiAsked
  BY DEF Transfer
<1>2. PhaseTypeOK'
  BY <1>1 DEF PhaseIInv, PhaseTypeOK, SameSetUp
<1>3. HspiOnly(spiReg)'
  BY <1>1 DEF PhaseIInv, HspiOnly, SameSetUp
<1>4. Lanes(r) = Lanes(spiReg)
  BY DEF Lanes, SameSetUp
<1>5. Matches(r, spiAsked)
  BY <1>4 DEF PhaseIInv, Matches, SameSetUp
<1>6. Matches(spiReg, spiAsked)'
  BY <1>1, <1>5 DEF Matches, Lanes, LenBits
<1>7. WireAsAsked'
  BY <1>1 DEF WireAsAsked, Exact
<1>8. QED
  BY <1>2, <1>3, <1>6, <1>7 DEF PhaseIInv

LEMMA SeenIsWanted ==
  ASSUME PhaseIInv, spiAsked.kind # "none", NEW r, SameSetUp(r), NEW opcode, NEW addr, NEW tx, NEW rx,
         spiAsked.cmdEn => r.cmd = opcode, spiAsked.addrEn => r.addr = addr,
         Phases(r.transmode, r.tx + 1, r.dummy + 1, r.rx + 1)
           = Phases(r.transmode, tx, spiAsked.dummy, rx)
  PROVE  Seen(r) = Wanted(spiAsked, r.transmode, opcode, addr, tx, rx)
<1>0. Matches(spiReg, spiAsked) /\ r \in PhaseReg /\ spiAsked \in Asked
  BY DEF PhaseIInv, PhaseTypeOK, SameSetUp
<1>1. Lanes(r) = Lanes(spiReg)
  BY DEF Lanes, SameSetUp
<1>2. Lanes(r) = spiAsked.io /\ r.work = spiAsked.work
  BY <1>0, <1>1 DEF Matches, SameSetUp
<1>3. (IF r.cmdEn THEN <<r.cmd, IF r.cmdFmt THEN Lanes(r) ELSE "SINGLE">> ELSE <<>>)
        = IF spiAsked.cmdEn THEN <<opcode, IF spiAsked.cmdFmt THEN spiAsked.io ELSE "SINGLE">>
          ELSE <<>>
  BY <1>0, <1>2 DEF Matches, SameSetUp, Asked
<1>4. ASSUME spiAsked.addrEn
      PROVE  1 + (IF 0 \in r.addrLen THEN 1 ELSE 0) + (IF 1 \in r.addrLen THEN 2 ELSE 0)
               = spiAsked.addrLen
  <2>1. spiAsked.kind = "plus"
    BY <1>0, <1>4 DEF Matches, Asked
  <2>2. r.addrLen = LenBits(spiAsked.addrLen) /\ spiAsked.addrLen \in 1 .. 4
    BY <1>0, <1>4, <2>1 DEF Matches, SameSetUp
  <2>3. QED
    BY <2>2, AddrLength
<1>5. (IF r.addrEn THEN <<r.addr, 1 + (IF 0 \in r.addrLen THEN 1 ELSE 0)
                                    + (IF 1 \in r.addrLen THEN 2 ELSE 0),
                          IF r.addrFmt THEN Lanes(r) ELSE "SINGLE">> ELSE <<>>)
        = IF spiAsked.addrEn
          THEN <<addr, spiAsked.addrLen, IF spiAsked.addrFmt THEN spiAsked.io ELSE "SINGLE">>
          ELSE <<>>
  <2>1. r.addrEn <=> spiAsked.addrEn
    BY <1>0 DEF Matches, SameSetUp
  <2>2. CASE spiAsked.addrEn
    <3>1. r.addrFmt <=> spiAsked.addrFmt
      BY <1>0, <2>2 DEF Matches, SameSetUp, Asked
    <3>2. r.addr = addr
      BY <2>2
    <3>3. QED
      BY <1>2, <1>4, <2>1, <2>2, <3>1, <3>2
  <2>3. CASE ~spiAsked.addrEn
    BY <2>1, <2>3
  <2>4. QED
    BY <2>2, <2>3
<1>6. QED
  BY <1>2, <1>3, <1>5 DEF Seen, Wanted

(* A length that the counter can hold.                                     *)
LEMMA CountKept ==
  ASSUME NEW len \in PhaseLengths
  PROVE  len \in Nat /\ (len - 1) % 2^24 \in Nat /\ ((len - 1) % 2^24) + 1 = len
<1>1. len \in 1 .. 2^24 - 1
  BY SpiPhasesAssumption DEF SpiPhasesAssumption
<1>2. QED
  BY <1>1

(* The registers of a transfer: the set-up's, with counts, mode, command   *)
(* and address.                                                            *)
Loaded(r, tx, rx, mode, opcode, addr) ==
  [r EXCEPT !.tx = tx, !.rx = rx, !.transmode = mode, !.cmd = opcode, !.addr = addr]

LEMMA Registers ==
  ASSUME NEW r, SameSetUp(r), NEW tx \in Nat, NEW rx \in Nat, NEW mode \in Nat, NEW opcode \in Nat,
         NEW addr \in Nat
  PROVE  SameSetUp(Loaded(r, tx, rx, mode, opcode, addr))
<1> DEFINE t == Loaded(r, tx, rx, mode, opcode, addr)
<1>1. t \in PhaseReg
  BY DEF SameSetUp, PhaseReg, Loaded
<1>2. QED
  BY <1>1 DEF SameSetUp, PhaseReg, Loaded

LEMMA Addressed ==
  ASSUME PhaseIInv, NEW r, SameSetUp(r), NEW addr \in Nat, NEW a,
         a = IF spiSel = "HSPI" THEN addr ELSE r.addr
  PROVE  /\ hspi_set_address(r, addr) = [r EXCEPT !.addr = a]
         /\ a \in Nat
         /\ spiAsked.addrEn /\ spiAsked.kind # "none" => a = addr
<1>1. r \in PhaseReg /\ spiSel \in Modules
  BY DEF SameSetUp, PhaseIInv, PhaseTypeOK
<1>2. spiAsked.addrEn /\ spiAsked.kind # "none" => spiSel = "HSPI"
  BY <1>1 DEF PhaseIInv, HspiOnly, Matches, Modules
<1>3. QED
  BY <1>1, <1>2 DEF hspi_set_address, PhaseReg

(* What each mode makes of the counts.                                     *)
LEMMA PhasesAre ==
  ASSUME NEW tx, NEW dummy, NEW rx
  PROVE  /\ Phases(1, tx, dummy, rx) = <<<<"write", tx>>>>
         /\ Phases(2, tx, dummy, rx) = <<<<"read", rx>>>>
         /\ Phases(3, tx, dummy, rx) = <<<<"write", tx>>, <<"read", rx>>>>
         /\ Phases(5, tx, dummy, rx) = <<<<"write", tx>>, <<"dummy", dummy>>, <<"read", rx>>>>
         /\ Phases(8, tx, dummy, rx) = <<<<"dummy", dummy>>, <<"write", tx>>>>
         /\ Phases(9, tx, dummy, rx) = <<<<"dummy", dummy>>, <<"read", rx>>>>
BY DEF Phases, WRITE_ONLY, READ_ONLY, WRITE_READ, WRITE_DUMMY_READ, DUMMY_WRITE, DUMMY_READ

LEMMA WriteStep ==
  ASSUME PhaseIInv, spiAsked.kind = "plain", NEW r, SameSetUp(r), NEW len \in PhaseLengths,
         NEW dma, Exact(dma)
  PROVE  spi_master_write(r, len, dma) => PhaseIInv'
<1> DEFINE tx == (len - 1) % 2^24
           t == spi_set_cmd(spi_set_transmode(spi_tx_cnt(r, len), WRITE_ONLY), 0)
<1>1. len \in Nat /\ tx \in Nat /\ tx + 1 = len /\ r \in PhaseReg
  BY CountKept DEF SameSetUp
<1>2. t = Loaded(r, tx, r.rx, 1, 0, r.addr)
  BY <1>1 DEF Loaded, spi_set_cmd, spi_set_transmode, spi_tx_cnt, WRITE_ONLY, PhaseReg
<1>3. r.rx \in Nat /\ r.addr \in Nat
  BY <1>1 DEF PhaseReg
<1> HIDE DEF tx, t
<1>4. SameSetUp(t) /\ t.tx = tx /\ t.transmode = 1
  <2>1. tx \in Nat /\ r.rx \in Nat /\ r.addr \in Nat
    BY <1>1, <1>2, <1>3
  <2>2. SameSetUp(Loaded(r, tx, r.rx, 1, 0, r.addr))
    BY <2>1, Registers
  <2>3. t.tx = tx /\ t.transmode = 1
    BY <1>1, <1>2 DEF Loaded, PhaseReg
  <2>4. QED
    BY <1>2, <2>2, <2>3
<1>5. Phases(t.transmode, t.tx + 1, t.dummy + 1, t.rx + 1)
        = Phases(t.transmode, len, spiAsked.dummy, 0)
  BY <1>1, <1>4, PhasesAre
<1>6. ~spiAsked.cmdEn /\ ~spiAsked.addrEn
  BY DEF PhaseIInv, Matches
<1>7. Seen(t) = Wanted(spiAsked, WRITE_ONLY, 0, 0, len, 0)
  <2>1. spiAsked.kind # "none" /\ (spiAsked.cmdEn => t.cmd = 0) /\ (spiAsked.addrEn => t.addr = 0)
    BY <1>6
  <2>2. Seen(t) = Wanted(spiAsked, t.transmode, 0, 0, len, 0)
    BY <1>4, <1>5, <2>1, SeenIsWanted
  <2>3. QED
    BY <1>4, <2>2 DEF WRITE_ONLY
<1>8. QED
  BY <1>4, <1>7, Transferred DEF spi_master_write, t

LEMMA WriteReadStep ==
  ASSUME PhaseIInv, spiAsked.kind = "plain", NEW r, SameSetUp(r), NEW len \in PhaseLengths,
         NEW rd_len \in PhaseLengths, NEW dma, Exact(dma)
  PROVE  spi_master_write_read(r, len, rd_len, dma) => PhaseIInv'
<1> DEFINE tx == (len - 1) % 2^24
           rx == (rd_len - 1) % 2^24
           t == spi_set_cmd(spi_set_transmode(spi_rx_cnt(spi_tx_cnt(r, len), rd_len), WRITE_READ), 0)
<1>1. tx \in Nat /\ tx + 1 = len /\ rx \in Nat /\ rx + 1 = rd_len /\ r \in PhaseReg
  BY CountKept DEF SameSetUp
<1>2. t = Loaded(r, tx, rx, 3, 0, r.addr)
  BY <1>1 DEF Loaded, spi_set_cmd, spi_set_transmode, spi_tx_cnt, spi_rx_cnt, WRITE_READ, PhaseReg
<1>3. r.addr \in Nat
  BY <1>1 DEF PhaseReg
<1> HIDE DEF tx, rx, t
<1>4. SameSetUp(t) /\ t.tx = tx /\ t.rx = rx /\ t.transmode = 3
  <2>1. tx \in Nat /\ rx \in Nat /\ r.addr \in Nat
    BY <1>1, <1>2, <1>3
  <2>2. SameSetUp(Loaded(r, tx, rx, 3, 0, r.addr))
    BY <2>1, Registers
  <2>3. t.tx = tx /\ t.rx = rx /\ t.transmode = 3
    BY <1>1, <1>2 DEF Loaded, PhaseReg
  <2>4. QED
    BY <1>2, <2>2, <2>3
<1>5. Phases(t.transmode, t.tx + 1, t.dummy + 1, t.rx + 1)
        = Phases(t.transmode, len, spiAsked.dummy, rd_len)
  BY <1>1, <1>4, PhasesAre
<1>6. ~spiAsked.cmdEn /\ ~spiAsked.addrEn
  BY DEF PhaseIInv, Matches
<1>7. Seen(t) = Wanted(spiAsked, WRITE_READ, 0, 0, len, rd_len)
  <2>1. spiAsked.kind # "none" /\ (spiAsked.cmdEn => t.cmd = 0) /\ (spiAsked.addrEn => t.addr = 0)
    BY <1>6
  <2>2. Seen(t) = Wanted(spiAsked, t.transmode, 0, 0, len, rd_len)
    BY <1>4, <1>5, <2>1, SeenIsWanted
  <2>3. QED
    BY <1>4, <2>2 DEF WRITE_READ
<1>8. QED
  BY <1>4, <1>7, Transferred DEF spi_master_write_read, t

LEMMA WritePlusStep ==
  ASSUME PhaseIInv, spiAsked.kind = "plus", NEW r, SameSetUp(r), NEW opcode \in Nat, NEW addr \in Nat,
         NEW len \in PhaseLengths, NEW mode \in {WRITE_ONLY, DUMMY_WRITE}, NEW dma, Exact(dma)
  PROVE  spi_master_write_plus(r, opcode, addr, len, mode, dma) => PhaseIInv'
<1> DEFINE tx == (len - 1) % 2^24
           a == IF spiSel = "HSPI" THEN addr ELSE r.addr
           t == spi_set_cmd(spi_tx_cnt(spi_set_transmode(hspi_set_address(r, addr), mode), len), opcode)
<1>1. tx \in Nat /\ tx + 1 = len /\ r \in PhaseReg /\ r.rx \in Nat
  BY CountKept DEF SameSetUp, PhaseReg
<1>2. hspi_set_address(r, addr) = [r EXCEPT !.addr = a] /\ a \in Nat /\ (spiAsked.addrEn => a = addr)
  BY Addressed
<1>3. mode \in {1, 8}
  BY DEF WRITE_ONLY, DUMMY_WRITE
<1> HIDE DEF a
<1>4. t = Loaded(r, tx, r.rx, mode, opcode, a)
  BY <1>1, <1>2 DEF Loaded, spi_set_cmd, spi_set_transmode, spi_tx_cnt, PhaseReg
<1> HIDE DEF tx, t
<1>5. SameSetUp(t) /\ t.tx = tx /\ t.transmode = mode /\ t.cmd = opcode /\ t.addr = a
  <2>1. tx \in Nat /\ r.rx \in Nat /\ mode \in Nat /\ a \in Nat
    BY <1>1, <1>2, <1>3
  <2>2. SameSetUp(Loaded(r, tx, r.rx, mode, opcode, a))
    BY <2>1, Registers
  <2>3. t.tx = tx /\ t.transmode = mode /\ t.cmd = opcode /\ t.addr = a
    BY <1>1, <1>4 DEF Loaded, PhaseReg
  <2>4. QED
    BY <1>4, <2>2, <2>3
<1>6. t.dummy + 1 = spiAsked.dummy
  BY <1>5 DEF PhaseIInv, Matches, SameSetUp
<1>7. Phases(t.transmode, t.tx + 1, t.dummy + 1, t.rx + 1)
        = Phases(t.transmode, len, spiAsked.dummy, 0)
  BY <1>1, <1>3, <1>5, <1>6, PhasesAre
<1>8. Seen(t) = Wanted(spiAsked, mode, opcode, addr, len, 0)
  <2>1. spiAsked.kind # "none" /\ (spiAsked.cmdEn => t.cmd = opcode) /\ (spiAsked.addrEn => t.addr = addr)
    BY <1>2, <1>5
  <2>2. Seen(t) = Wanted(spiAsked, t.transmode, opcode, addr, len, 0)
    BY <1>5, <1>7, <2>1, SeenIsWanted
  <2>3. QED
    BY <1>5, <2>2
<1>9. QED
  BY <1>5, <1>8, Transferred DEF spi_master_write_plus, t

LEMMA ReadPlusStep ==
  ASSUME PhaseIInv, spiAsked.kind = "plus", NEW r, SameSetUp(r), NEW opcode \in Nat, NEW addr \in Nat,
         NEW len \in PhaseLengths, NEW mode \in {READ_ONLY, DUMMY_READ}, NEW dma, Exact(dma)
  PROVE  spi_read_plus(r, opcode, addr, len, mode, dma) => PhaseIInv'
<1> DEFINE rx == (len - 1) % 2^24
           a == IF spiSel = "HSPI" THEN addr ELSE r.addr
           t == spi_set_cmd(spi_rx_cnt(spi_set_transmode(hspi_set_address(r, addr), mode), len), opcode)
<1>1. rx \in Nat /\ rx + 1 = len /\ r \in PhaseReg /\ r.tx \in Nat
  BY CountKept DEF SameSetUp, PhaseReg
<1>2. hspi_set_address(r, addr) = [r EXCEPT !.addr = a] /\ a \in Nat /\ (spiAsked.addrEn => a = addr)
  BY Addressed
<1>3. mode \in {2, 9}
  BY DEF READ_ONLY, DUMMY_READ
<1> HIDE DEF a
<1>4. t = Loaded(r, r.tx, rx, mode, opcode, a)
  BY <1>1, <1>2 DEF Loaded, spi_set_cmd, spi_set_transmode, spi_rx_cnt, PhaseReg
<1> HIDE DEF rx, t
<1>5. SameSetUp(t) /\ t.rx = rx /\ t.transmode = mode /\ t.cmd = opcode /\ t.addr = a
  <2>1. r.tx \in Nat /\ rx \in Nat /\ mode \in Nat /\ a \in Nat
    BY <1>1, <1>2, <1>3
  <2>2. SameSetUp(Loaded(r, r.tx, rx, mode, opcode, a))
    BY <2>1, Registers
  <2>3. t.rx = rx /\ t.transmode = mode /\ t.cmd = opcode /\ t.addr = a
    BY <1>1, <1>4 DEF Loaded, PhaseReg
  <2>4. QED
    BY <1>4, <2>2, <2>3
<1>6. t.dummy + 1 = spiAsked.dummy
  BY <1>5 DEF PhaseIInv, Matches, SameSetUp
<1>7. Phases(t.transmode, t.tx + 1, t.dummy + 1, t.rx + 1)
        = Phases(t.transmode, 0, spiAsked.dummy, len)
  BY <1>1, <1>3, <1>5, <1>6, PhasesAre
<1>8. Seen(t) = Wanted(spiAsked, mode, opcode, addr, 0, len)
  <2>1. spiAsked.kind # "none" /\ (spiAsked.cmdEn => t.cmd = opcode) /\ (spiAsked.addrEn => t.addr = addr)
    BY <1>2, <1>5
  <2>2. Seen(t) = Wanted(spiAsked, t.transmode, opcode, addr, 0, len)
    BY <1>5, <1>7, <2>1, SeenIsWanted
  <2>3. QED
    BY <1>5, <2>2
<1>9. QED
  BY <1>5, <1>8, Transferred DEF spi_read_plus, t

LEMMA WriteReadPlusStep ==
  ASSUME PhaseIInv, spiAsked.kind = "plus", ~spiAsked.addrEn, NEW r, SameSetUp(r), NEW opcode \in Nat,
         NEW len \in PhaseLengths, NEW rd_len \in PhaseLengths,
         NEW mode \in {WRITE_READ, WRITE_DUMMY_READ}, NEW dma, Exact(dma)
  PROVE  spi_master_write_read_plus(r, opcode, len, rd_len, mode, dma) => PhaseIInv'
<1> DEFINE tx == (len - 1) % 2^24
           rx == (rd_len - 1) % 2^24
           t == spi_set_cmd(spi_set_transmode(spi_rx_cnt(spi_tx_cnt(r, len), rd_len), mode), opcode)
<1>1. tx \in Nat /\ tx + 1 = len /\ rx \in Nat /\ rx + 1 = rd_len /\ r \in PhaseReg
      /\ r.addr \in Nat
  BY CountKept DEF SameSetUp, PhaseReg
<1>2. mode \in {3, 5}
  BY DEF WRITE_READ, WRITE_DUMMY_READ
<1>3. t = Loaded(r, tx, rx, mode, opcode, r.addr)
  BY <1>1 DEF Loaded, spi_set_cmd, spi_set_transmode, spi_tx_cnt, spi_rx_cnt, PhaseReg
<1> HIDE DEF tx, rx, t
<1>4. SameSetUp(t) /\ t.tx = tx /\ t.rx = rx /\ t.transmode = mode /\ t.cmd = opcode
  <2>1. tx \in Nat /\ rx \in Nat /\ mode \in Nat /\ r.addr \in Nat
    BY <1>1, <1>2, <1>3
  <2>2. SameSetUp(Loaded(r, tx, rx, mode, opcode, r.addr))
    BY <2>1, Registers
  <2>3. t.tx = tx /\ t.rx = rx /\ t.transmode = mode /\ t.cmd = opcode
    BY <1>1, <1>3 DEF Loaded, PhaseReg
  <2>4. QED
    BY <1>3, <2>2, <2>3
<1>5. t.dummy + 1 = spiAsked.dummy
  BY <1>4 DEF PhaseIInv, Matches, SameSetUp
<1>6. Phases(t.transmode, t.tx + 1, t.dummy + 1, t.rx + 1)
        = Phases(t.transmode, len, spiAsked.dummy, rd_len)
  BY <1>1, <1>2, <1>4, <1>5, PhasesAre
<1>7. Seen(t) = Wanted(spiAsked, mode, opcode, 0, len, rd_len)
  <2>1. spiAsked.kind # "none" /\ (spiAsked.cmdEn => t.cmd = opcode) /\ (spiAsked.addrEn => t.addr = 0)
    BY <1>4
  <2>2. Seen(t) = Wanted(spiAsked, t.transmode, opcode, 0, len, rd_len)
    BY <1>4, <1>6, <2>1, SeenIsWanted
  <2>3. QED
    BY <1>4, <2>2
<1>8. QED
  BY <1>4, <1>7, Transferred DEF spi_master_write_read_plus, t

(* What a transfer starts from: the registers, with or without DMA.        *)
LEMMA Starts ==
  ASSUME PhaseIInv
  PROVE  /\ SameSetUp(spiReg)
         /\ SameSetUp(spi_set_tx_dma_en(spiReg)) /\ SameSetUp(spi_set_rx_dma_en(spiReg))
         /\ SameSetUp(spi_set_rx_dma_en(spi_set_tx_dma_en(spiReg)))
<1>1. spiReg \in PhaseReg
  BY DEF PhaseIInv, PhaseTypeOK
<1>2. SameSetUp(spi_set_tx_dma_en(spiReg))
  BY <1>1 DEF SameSetUp, PhaseReg, spi_set_tx_dma_en
<1>3. SameSetUp(spi_set_rx_dma_en(spiReg))
  BY <1>1 DEF SameSetUp, PhaseReg, spi_set_rx_dma_en
<1>4. SameSetUp(spi_set_rx_dma_en(spi_set_tx_dma_en(spiReg)))
  <2> DEFINE r == spi_set_tx_dma_en(spiReg)
  <2>1. r \in PhaseReg
    BY <1>2 DEF SameSetUp
  <2> HIDE DEF r
  <2>2. spi_set_rx_dma_en(r) \in PhaseReg
    BY <2>1 DEF PhaseReg, spi_set_rx_dma_en
  <2>3. QED
    BY <1>2, <2>1, <2>2 DEF SameSetUp, PhaseReg, spi_set_rx_dma_en, r
<1>5. QED
  BY <1>1, <1>2, <1>3, <1>4 DEF SameSetUp

LEMMA DmaStarts ==
  ASSUME NEW wr \in Nat, NEW rd \in Nat
  PROVE  /\ Exact(<<>>)
         /\ Exact(<<spi_set_dma("write", wr)>>) /\ Exact(<<spi_set_dma("read", rd)>>)
         /\ Exact(<<spi_set_dma("write", wr), spi_set_dma("read", rd)>>)
<1>1. ASSUME NEW way, NEW len \in Nat  PROVE spi_set_dma(way, len)[2] = spi_set_dma(way, len)[3]
  BY <1>1, DmaExact DEF spi_set_dma
<1>2. QED
  BY <1>1 DEF Exact

LEMMA PlainTransferStep ==
  ASSUME PhaseIInv, spiAsked.kind = "plain", NEW len \in PhaseLengths, PlainTransfer(len)
  PROVE  PhaseIInv'
<1>0. len \in Nat
  BY CountKept
<1>1. CASE spi_master_write(spiReg, len, <<>>)
  BY <1>0, <1>1, Starts, DmaStarts, WriteStep
<1>2. CASE spi_master_write_dma(len)
  BY <1>0, <1>2, Starts, DmaStarts, WriteStep DEF spi_master_write_dma
<1>3. ASSUME NEW rd_len \in PhaseLengths, spi_master_write_read(spiReg, len, rd_len, <<>>)
      PROVE  PhaseIInv'
  BY <1>0, <1>3, Starts, DmaStarts, WriteReadStep
<1>4. ASSUME NEW rd_len \in PhaseLengths, spi_master_write_read_dma(len, rd_len)
      PROVE  PhaseIInv'
  BY <1>0, <1>4, CountKept, Starts, DmaStarts, WriteReadStep DEF spi_master_write_read_dma
<1>5. QED
  BY <1>1, <1>2, <1>3, <1>4 DEF PlainTransfer

LEMMA PlusTransferStep ==
  ASSUME PhaseIInv, spiAsked.kind = "plus", NEW len \in PhaseLengths, PlusTransfer(len)
  PROVE  PhaseIInv'
<1>0. len \in Nat /\ 1 \in Nat
  BY CountKept
<1>1. ASSUME NEW addr \in {0, 1}, NEW mode \in {WRITE_ONLY, DUMMY_WRITE},
             \/ spi_master_write_plus(spiReg, 1, addr, len, mode, <<>>)
             \/ spi_master_write_dma_plus(1, addr, len, mode)
      PROVE  PhaseIInv'
  <2>1. addr \in Nat
    BY <1>1
  <2>2. QED
    BY <1>0, <1>1, <2>1, Starts, DmaStarts, WritePlusStep DEF spi_master_write_dma_plus
<1>2. ASSUME NEW addr \in {0, 1}, NEW mode \in {READ_ONLY, DUMMY_READ},
             \/ spi_read_plus(spiReg, 1, addr, len, mode, <<>>)
             \/ spi_master_read_dma_plus(1, addr, len, mode)
      PROVE  PhaseIInv'
  <2>1. addr \in Nat
    BY <1>2
  <2>2. QED
    BY <1>0, <1>2, <2>1, Starts, DmaStarts, ReadPlusStep DEF spi_master_read_dma_plus
<1>3. ASSUME NEW rd_len \in PhaseLengths, NEW mode \in {WRITE_READ, WRITE_DUMMY_READ},
             ~spiAsked.addrEn,
             \/ spi_master_write_read_plus(spiReg, 1, len, rd_len, mode, <<>>)
             \/ spi_master_write_read_dma_plus(1, len, rd_len, mode)
      PROVE  PhaseIInv'
  <2>1. rd_len \in Nat
    BY <1>3, CountKept
  <2>2. QED
    BY <1>0, <1>3, <2>1, Starts, DmaStarts, WriteReadPlusStep DEF spi_master_write_read_dma_plus
<1>4. QED
  BY <1>1, <1>2, <1>3 DEF PlusTransfer

LEMMA PhaseStep == AddrLenGrows /\ PhaseIInv /\ [PhaseNext]_phaseVars => PhaseIInv'
<1> SUFFICES ASSUME AddrLenGrows, PhaseIInv, [PhaseNext]_phaseVars  PROVE PhaseIInv'
  OBVIOUS
<1>1. CASE UNCHANGED phaseVars
  BY <1>1 DEF phaseVars, PhaseIInv, PhaseTypeOK, HspiOnly, Matches, Lanes, LenBits, WireAsAsked
<1>2. QED
  BY <1>1, ConfigureStep, PlainTransferStep, PlusTransferStep DEF PhaseNext, PhaseTransfer

-----------------------------------------------------------------------------
(* The bytes.  Position by position: what waits in a FIFO are the next     *)
(* bytes in order, the driver's count of them agrees with the hardware's,  *)
(* and so does its count of the lanes.                                     *)
SpiOps == {"none", "write", "read", "write_read", "loopback"}

SpiTypes ==
  /\ spiPc \in {"idle", "chunk", "write", "read", "wait"}
  /\ spiCall \in [op : SpiOps, wr : Nat, rd : Nat]
  /\ chunk \in [i : Nat, size : Nat]
  /\ spiDo \in [at : Nat, left : Nat, lane : 0 .. 3]
  /\ spiTaken \in [at : Nat, val : Int]
  /\ spiTx \in Seq(Int) /\ Len(spiTx) <= SpiDepth
  /\ spiRx \in Seq(Int) /\ Len(spiRx) <= SpiDepth
  /\ spiTxLane \in 0 .. 3 /\ spiRxLane \in 0 .. 3
  /\ spiLeft \in [wr : Nat, rd : Nat]
  /\ spiHeld \in Nat /\ spiSent \in Nat

(* Which calls there are, and where they can be.                           *)
SpiCalls ==
  /\ spiPc = "chunk" => spiCall.op = "loopback"
  /\ spiPc = "write" => spiCall.op \in {"write", "write_read", "loopback"}
  /\ spiPc = "read" => spiCall.op \in {"read", "write_read", "loopback"}
  /\ spiPc # "idle" => spiCall.op # "none"
  /\ spiCall.op \in {"none", "write"} => spiCall.rd = 0 /\ spiLeft.rd = 0
  /\ spiCall.op \in {"none", "read"} => spiCall.wr = 0
  /\ spiCall.op = "loopback" => spiCall.rd = spiCall.wr /\ spiLeft.rd = spiLeft.wr
  /\ spiPc = "idle" => spiLeft.wr = 0 /\ spiLeft.rd = 0

(* Out: sent, then waiting, then the bytes spi_write still has.            *)
SpiOut ==
  /\ spiSent + spiLeft.wr = spiCall.wr
  /\ spiCall.op # "read" => \A k \in 1 .. Len(spiTx) : spiTx[k] = spiSent + k
  /\ spiPc = "write" =>
       /\ spiDo.at = spiSent + Len(spiTx) /\ spiDo.lane = spiTxLane
       /\ spiDo.at + spiDo.left =
            IF spiCall.op = "loopback" THEN chunk.i + chunk.size ELSE spiCall.wr
  /\ spiCall.op \in {"write", "write_read"} /\ spiPc # "write" =>
       spiSent + Len(spiTx) = spiCall.wr

(* The bytes of a loop-back transfer that are in the receive FIFO or taken *)
(* from it when s have gone out: the last but one, until the end.          *)
Came(s) == IF s = 0 \/ s = spiCall.wr THEN s ELSE s - 1

(* In: taken, then waiting.                                                *)
SpiIn ==
  /\ spiTaken.at = spiTaken.val
  /\ spiCall.op \in {"none", "write"} => spiTaken.at = 0
  /\ spiCall.op \in {"read", "write_read"} =>
       spiTaken.at + Len(spiRx) + spiLeft.rd = spiCall.rd
  /\ spiCall.op \in {"read", "write_read", "loopback"} =>
       \A k \in 1 .. Len(spiRx) : spiRx[k] = spiTaken.at + k
  /\ spiPc = "read" =>
       /\ spiDo.at = spiTaken.at /\ spiDo.lane = spiRxLane
       /\ spiDo.at + spiDo.left =
            IF spiCall.op = "loopback" THEN Came(chunk.i + chunk.size) ELSE spiCall.rd
  /\ spiPc = "write" => spiRxLane = 0 \/ spiCall.op = "write"
  /\ spiPc = "write" /\ spiCall.op = "write_read" => spiTaken.at = 0
  /\ spiCall.op \in {"read", "write_read"} /\ spiPc \in {"wait", "idle"} =>
       spiTaken.at = spiCall.rd

(* The loop-back transfer: chunks of four, and the rest.                   *)
SpiLoop ==
  spiCall.op = "loopback" =>
    /\ spiHeld = IF spiSent = spiCall.wr THEN 0 ELSE spiSent
    /\ spiTaken.at + Len(spiRx) = Came(spiSent)
    /\ spiPc = "chunk" => /\ chunk.i = spiSent /\ spiTx = <<>> /\ spiRx = <<>>
                          /\ spiTxLane = 0 /\ spiRxLane = 0
                          /\ chunk.i < spiCall.wr => chunk.size = 4
                          /\ chunk.i \in 1 .. 3 => chunk.i = spiCall.wr
    /\ spiPc \in {"write", "read"} =>
         /\ chunk.i < spiCall.wr /\ chunk.i \notin 1 .. 3
         /\ chunk.size = IF spiCall.wr - chunk.i < 4 THEN spiCall.wr - chunk.i ELSE 4
    /\ spiPc = "write" => spiTaken.at = Came(chunk.i)
    /\ spiPc = "read" => spiSent + Len(spiTx) = chunk.i + chunk.size
    /\ spiPc \in {"wait", "idle"} =>
         spiSent = spiCall.wr /\ spiTaken.at = spiCall.wr /\ spiTx = <<>>

SpiIInv == SpiTypes /\ SpiCalls /\ SpiOut /\ SpiIn /\ SpiLoop

LEMMA SpiSound == SpiIInv => SpiTypeOK /\ SpiMovesAll
<1> SUFFICES ASSUME SpiIInv  PROVE SpiTypeOK /\ SpiMovesAll
  OBVIOUS
<1>1. SpiTypeOK
  BY DEF SpiIInv, SpiTypes, SpiTypeOK, SpiOps
<1>2. spiTaken.at = spiTaken.val /\ spiSent # Wrong
  BY DEF SpiIInv, SpiTypes, SpiIn, Wrong
<1>3. ASSUME spiPc = "idle"  PROVE spiSent = spiCall.wr /\ spiTaken.at = spiCall.rd
  <2>1. spiSent = spiCall.wr
    BY <1>3 DEF SpiIInv, SpiCalls, SpiOut, SpiTypes
  <2>2. spiCall.op \in SpiOps
    BY DEF SpiIInv, SpiTypes
  <2>3. spiTaken.at = spiCall.rd
    BY <1>3, <2>2 DEF SpiIInv, SpiCalls, SpiIn, SpiLoop, SpiOps
  <2>4. QED
    BY <2>1, <2>3
<1>4. QED
  BY <1>1, <1>2, <1>3 DEF SpiMovesAll

LEMMA SpiInitial == SpiInit => SpiIInv
<1> SUFFICES ASSUME SpiInit  PROVE SpiIInv
  OBVIOUS
<1>1. /\ spiPc = "idle" /\ spiCall = NoSpiCall /\ chunk = [i |-> 0, size |-> 0]
      /\ spiDo = NoMove /\ spiTaken = [at |-> 0, val |-> 0]
      /\ spiTxLane = 0 /\ spiRxLane = 0 /\ spiLeft = [wr |-> 0, rd |-> 0]
      /\ spiHeld = 0 /\ spiSent = 0
  BY DEF SpiInit
<1>2. /\ spiTx \in Seq(Int) /\ Len(spiTx) = 0 /\ spiRx \in Seq(Int) /\ Len(spiRx) = 0
      /\ spiCall.op = "none" /\ spiCall.wr = 0 /\ spiCall.rd = 0
  BY <1>1 DEF SpiInit, NoSpiCall
<1>3. SpiTypes
  BY <1>1, <1>2, SpiAssumption DEF SpiAssumption, SpiTypes, NoSpiCall, NoMove, SpiOps
<1>4. SpiCalls /\ SpiOut /\ SpiIn /\ SpiLoop
  BY <1>1, <1>2 DEF SpiCalls, SpiOut, SpiIn, SpiLoop
<1>5. QED
  BY <1>3, <1>4 DEF SpiIInv

(* The numbers the steps below reckon with.                                *)
LEMMA SpiNumbers ==
  ASSUME SpiTypes
  PROVE  /\ spiCall.op \in SpiOps /\ spiCall.wr \in Nat /\ spiCall.rd \in Nat
         /\ chunk.i \in Nat /\ chunk.size \in Nat
         /\ spiDo.at \in Nat /\ spiDo.left \in Nat /\ spiDo.lane \in 0 .. 3
         /\ spiTaken.at \in Nat /\ spiLeft.wr \in Nat /\ spiLeft.rd \in Nat
         /\ spiSent \in Nat /\ spiHeld \in Nat
         /\ Len(spiTx) \in Nat /\ Len(spiRx) \in Nat
BY DEF SpiTypes

(* One turn of a loop moves the driver by one byte and one lane.           *)
LEMMA SpiMoved ==
  ASSUME SpiTypes, spiDo.left > 0
  PROVE  [at |-> spiDo.at + 1, left |-> spiDo.left - 1, lane |-> (spiDo.lane + 1) % 4]
           \in [at : Nat, left : Nat, lane : 0 .. 3]
<1>1. spiDo.at + 1 \in Nat /\ spiDo.left - 1 \in Nat
  <2>1. spiDo.at \in Nat /\ spiDo.left \in Nat
    BY SpiNumbers
  <2>2. QED
    BY <2>1
<1>2. (spiDo.lane + 1) % 4 \in 0 .. 3
  <2>1. spiDo.lane \in 0 .. 3
    BY SpiNumbers
  <2>2. QED
    BY <2>1
<1>3. QED
  BY <1>1, <1>2

LEMMA WriteByteStep == ASSUME SpiIInv, SpiWriteByte  PROVE SpiIInv'
<1>0. SpiTypes /\ SpiCalls /\ SpiOut /\ SpiIn /\ SpiLoop
  BY DEF SpiIInv
<1>1. /\ spiPc = "write" /\ spiDo.left > 0 /\ Len(spiTx) < SpiDepth
      /\ spiTxLane' = (spiTxLane + 1) % 4
      /\ spiDo' = [at |-> spiDo.at + 1, left |-> spiDo.left - 1, lane |-> (spiDo.lane + 1) % 4]
      /\ UNCHANGED <<spiPc, spiCall, chunk, spiTaken, spiRx, spiRxLane, spiLeft, spiHeld, spiSent>>
  BY DEF SpiWriteByte, Moved
<1>2. spiTx' = Append(spiTx, spiDo.at + 1)
  BY <1>0, <1>1 DEF SpiWriteByte, SpiOut
<1>3. /\ spiTx' \in Seq(Int) /\ Len(spiTx') = Len(spiTx) + 1
      /\ \A k \in 1 .. Len(spiTx) : spiTx'[k] = spiTx[k]
      /\ spiTx'[Len(spiTx) + 1] = spiDo.at + 1
  <2>1. spiTx \in Seq(Int) /\ spiDo.at + 1 \in Int
    BY <1>0 DEF SpiTypes
  <2>2. QED
    BY <1>2, <2>1
<1>4. spiDo'.at = spiDo.at + 1 /\ spiDo'.left = spiDo.left - 1
      /\ spiDo'.lane = (spiDo.lane + 1) % 4
  BY <1>1
<1>5. spiTx' # <<>>
  BY <1>0, <1>3, SpiNumbers
<1>6. SpiTypes'
  <2>1. spiDo' \in [at : Nat, left : Nat, lane : 0 .. 3]
    BY <1>0, <1>1, SpiMoved
  <2>2. (spiTxLane + 1) % 4 \in 0 .. 3
    BY <1>0 DEF SpiTypes
  <2>3. Len(spiTx') <= SpiDepth
    BY <1>0, <1>1, <1>3, SpiNumbers, SpiAssumption DEF SpiAssumption
  <2>4. QED
    BY <1>0, <1>1, <1>3, <2>1, <2>2, <2>3 DEF SpiTypes
<1>7. SpiCalls'
  BY <1>0, <1>1 DEF SpiCalls
<1>8. SpiOut'
  <2>0. spiDo.at = spiSent + Len(spiTx) /\ spiDo.lane = spiTxLane /\ spiSent \in Nat
        /\ Len(spiTx) \in Nat /\ spiDo.left \in Nat /\ spiDo.at \in Nat
    BY <1>0, <1>1, SpiNumbers DEF SpiOut
  <2>1. ASSUME NEW k \in 1 .. Len(spiTx'), spiCall.op # "read"  PROVE spiTx'[k] = spiSent + k
    <3>1. k \in 1 .. Len(spiTx) \/ k = Len(spiTx) + 1
      BY <1>3, <2>0
    <3>2. CASE k \in 1 .. Len(spiTx)
      BY <1>0, <1>3, <2>1, <3>2 DEF SpiOut
    <3>3. CASE k = Len(spiTx) + 1
      BY <1>3, <2>0, <3>3
    <3>4. QED
      BY <3>1, <3>2, <3>3
  <2>2. spiDo'.at = spiSent + Len(spiTx') /\ spiDo'.lane = spiTxLane'
        /\ spiDo'.at + spiDo'.left = spiDo.at + spiDo.left
    <3>1. spiTxLane' = (spiTxLane + 1) % 4
      BY <1>1
    <3>2. QED
      BY <1>3, <1>4, <2>0, <3>1
  <2>3. QED
    BY <1>0, <1>1, <2>1, <2>2 DEF SpiOut
<1>9. SpiIn'
  BY <1>0, <1>1 DEF SpiIn, Came
<1>10. SpiLoop'
  BY <1>0, <1>1 DEF SpiLoop, Came
<1>11. QED
  BY <1>6, <1>7, <1>8, <1>9, <1>10 DEF SpiIInv

LEMMA ReadByteStep == ASSUME SpiIInv, SpiReadByte  PROVE SpiIInv'
<1>0. SpiTypes /\ SpiCalls /\ SpiOut /\ SpiIn /\ SpiLoop
  BY DEF SpiIInv
<1>1. /\ spiPc = "read" /\ spiDo.left > 0 /\ spiRx # <<>>
      /\ spiRx' = Tail(spiRx) /\ spiRxLane' = (spiRxLane + 1) % 4
      /\ spiDo' = [at |-> spiDo.at + 1, left |-> spiDo.left - 1, lane |-> (spiDo.lane + 1) % 4]
      /\ UNCHANGED <<spiPc, spiCall, chunk, spiTx, spiTxLane, spiLeft, spiHeld, spiSent>>
  BY DEF SpiReadByte, Moved
<1>2. spiDo.lane = spiRxLane /\ spiDo.at = spiTaken.at
      /\ spiCall.op \in {"read", "write_read", "loopback"}
  BY <1>0, <1>1 DEF SpiIn, SpiCalls
<1>3. spiTaken' = [at |-> spiDo.at + 1, val |-> Head(spiRx)]
  BY <1>2 DEF SpiReadByte
<1>4. /\ spiRx' \in Seq(Int) /\ Len(spiRx') = Len(spiRx) - 1 /\ Len(spiRx) \in Nat \ {0}
      /\ \A k \in 1 .. Len(spiRx') : spiRx'[k] = spiRx[k + 1]
      /\ Head(spiRx) = spiRx[1]
  <2>1. spiRx \in Seq(Int) /\ spiRx # <<>>
    BY <1>0, <1>1 DEF SpiTypes
  <2>2. QED
    BY <1>1, <2>1, HeadTailProperties, LenProperties, EmptySeq
<1>5. Head(spiRx) = spiDo.at + 1
  BY <1>0, <1>2, <1>4, SpiNumbers DEF SpiIn
<1>6. spiDo'.at = spiDo.at + 1 /\ spiDo'.left = spiDo.left - 1
      /\ spiDo'.lane = (spiDo.lane + 1) % 4 /\ spiTaken'.at = spiDo.at + 1
      /\ spiTaken'.val = spiTaken'.at
  BY <1>1, <1>3, <1>5
<1>7. SpiTypes'
  <2>1. spiDo' \in [at : Nat, left : Nat, lane : 0 .. 3]
    BY <1>0, <1>1, SpiMoved
  <2>2. (spiRxLane + 1) % 4 \in 0 .. 3
    BY <1>0 DEF SpiTypes
  <2>3. Len(spiRx') <= SpiDepth
    BY <1>0, <1>4, SpiAssumption DEF SpiAssumption, SpiTypes
  <2>4. spiTaken' \in [at : Nat, val : Int]
    <3>1. spiDo.at + 1 \in Nat
      BY <1>0, SpiNumbers
    <3>2. QED
      BY <1>3, <1>5, <3>1
  <2>5. QED
    BY <1>0, <1>1, <1>4, <2>1, <2>2, <2>3, <2>4 DEF SpiTypes
<1>8. SpiCalls'
  BY <1>0, <1>1 DEF SpiCalls
<1>9. SpiOut'
  BY <1>0, <1>1 DEF SpiOut
<1>10. SpiIn'
  <2>0. spiTaken'.at = spiTaken.at + 1 /\ spiTaken.at \in Nat /\ Len(spiRx) \in Nat
        /\ spiDo.left \in Nat /\ spiDo.at = spiTaken.at
    BY <1>0, <1>2, <1>6, SpiNumbers
  <2>1. ASSUME NEW k \in 1 .. Len(spiRx')  PROVE spiRx'[k] = spiTaken'.at + k
    <3>1. k + 1 \in 1 .. Len(spiRx) /\ k \in Nat
      BY <1>4, <2>0
    <3>2. spiRx[k + 1] = spiTaken.at + (k + 1)
      BY <1>0, <1>2, <3>1 DEF SpiIn
    <3>3. spiTaken.at + (k + 1) = spiTaken'.at + k
      BY <2>0, <3>1
    <3>4. QED
      BY <1>4, <3>2, <3>3
  <2>2. spiTaken'.at + Len(spiRx') = spiTaken.at + Len(spiRx)
        /\ spiDo'.at + spiDo'.left = spiDo.at + spiDo.left
        /\ spiDo'.at = spiTaken'.at /\ spiDo'.lane = spiRxLane'
    <3>1. spiRxLane' = (spiRxLane + 1) % 4 /\ spiDo.lane = spiRxLane
      BY <1>1, <1>2
    <3>2. Len(spiRx') = Len(spiRx) - 1
      BY <1>4
    <3>3. spiTaken'.at + Len(spiRx') = spiTaken.at + Len(spiRx)
      BY <2>0, <3>2
    <3>4. spiDo'.at = spiDo.at + 1 /\ spiDo'.left = spiDo.left - 1
      BY <1>6
    <3>5. spiDo'.at + spiDo'.left = spiDo.at + spiDo.left /\ spiDo'.at = spiTaken'.at
      BY <2>0, <3>4
    <3>6. spiDo'.lane = spiRxLane'
      BY <1>6, <3>1
    <3>7. QED
      BY <3>3, <3>5, <3>6
  <2>3. Came(chunk.i + chunk.size)' = Came(chunk.i + chunk.size)
    BY <1>1 DEF Came
  <2>4. QED
    BY <1>0, <1>1, <1>2, <1>6, <2>1, <2>2, <2>3 DEF SpiIn
<1>11. SpiLoop'
  <2>1. spiTaken'.at + Len(spiRx') = spiTaken.at + Len(spiRx)
    BY <1>0, <1>2, <1>4, <1>6, SpiNumbers
  <2>2. QED
    BY <1>0, <1>1, <2>1 DEF SpiLoop, Came
<1>12. QED
  BY <1>7, <1>8, <1>9, <1>10, <1>11 DEF SpiIInv

LEMMA NothingHeld ==
  ASSUME NEW s, s = <<>>
  PROVE  s \in Seq(Int) /\ Len(s) = 0 /\ Len(s) <= SpiDepth
BY SpiAssumption DEF SpiAssumption

(* A call begins: the FIFOs it uses are empty.                             *)
LEMMA BeginStep ==
  ASSUME SpiIInv, spiPc = "idle", NEW op \in SpiOps \ {"none"}, NEW wr \in Nat, NEW rd \in Nat,
         op = "write" => rd = 0, op = "read" => wr = 0, op = "loopback" => rd = wr /\ wr > 0,
         SpiBegin(op, wr, rd), spiDo' \in [at : Nat, left : Nat, lane : 0 .. 3],
         chunk' \in [i : Nat, size : Nat],
         op # "read" => spi_tx_fifo_clr, op = "read" => UNCHANGED <<spiTx, spiTxLane>>,
         op # "write" => spi_rx_fifo_clr, op = "write" => UNCHANGED <<spiRx, spiRxLane>>,
         op \in {"write", "write_read"} => spiPc' = "write" /\ spiDo'.left = wr,
         op = "read" => spiPc' = "read" /\ spiDo'.left = rd,
         op = "loopback" => spiPc' = "chunk" /\ chunk'.i = 0 /\ chunk'.size = 4,
         op # "loopback" => spiDo'.at = 0 /\ spiDo'.lane = 0
  PROVE  SpiIInv'
<1>0. SpiTypes
  BY DEF SpiIInv
<1>1. /\ spiCall' = [op |-> op, wr |-> wr, rd |-> rd] /\ spiLeft' = [wr |-> wr, rd |-> rd]
      /\ spiHeld' = 0 /\ spiSent' = 0 /\ spiTaken' = [at |-> 0, val |-> 0]
  BY DEF SpiBegin
<1>2. /\ spiCall'.op = op /\ spiCall'.wr = wr /\ spiCall'.rd = rd
      /\ spiLeft'.wr = wr /\ spiLeft'.rd = rd /\ spiTaken'.at = 0 /\ spiTaken'.val = 0
  BY <1>1
<1>3. spiTx' \in Seq(Int) /\ Len(spiTx') <= SpiDepth /\ spiTxLane' \in 0 .. 3
      /\ (op # "read" => spiTx' = <<>> /\ Len(spiTx') = 0 /\ spiTxLane' = 0)
  <2>1. CASE op = "read"
    BY <1>0, <2>1 DEF SpiTypes
  <2>2. CASE op # "read"
    <3>1. spiTx' = <<>> /\ spiTxLane' = 0
      BY <2>2 DEF spi_tx_fifo_clr
    <3>2. QED
      BY <2>2, <3>1, NothingHeld
  <2>3. QED
    BY <2>1, <2>2
<1>4. spiRx' \in Seq(Int) /\ Len(spiRx') <= SpiDepth /\ spiRxLane' \in 0 .. 3
      /\ (op # "write" => spiRx' = <<>> /\ Len(spiRx') = 0 /\ spiRxLane' = 0)
  <2>1. CASE op = "write"
    BY <1>0, <2>1 DEF SpiTypes
  <2>2. CASE op # "write"
    <3>1. spiRx' = <<>> /\ spiRxLane' = 0
      BY <2>2 DEF spi_rx_fifo_clr
    <3>2. QED
      BY <2>2, <3>1, NothingHeld
  <2>3. QED
    BY <2>1, <2>2
<1>5. spiPc' \in {"chunk", "write", "read"}
  BY DEF SpiOps
<1>6. SpiTypes'
  BY <1>1, <1>3, <1>4, <1>5 DEF SpiTypes
<1>7. SpiCalls'
  BY <1>2, <1>5 DEF SpiCalls, SpiOps
<1>8. SpiOut'
  BY <1>1, <1>2, <1>3, <1>5 DEF SpiOut, SpiOps
<1>9. SpiIn'
  BY <1>2, <1>4, <1>5 DEF SpiIn, SpiOps
<1>10. SpiLoop'
  BY <1>1, <1>2, <1>3, <1>4, <1>5 DEF SpiLoop, Came
<1>11. QED
  BY <1>6, <1>7, <1>8, <1>9, <1>10 DEF SpiIInv

LEMMA UserStep == ASSUME SpiIInv, SpiUser  PROVE SpiIInv'
<1>0. SpiTypes /\ 0 \in 0 .. 3
  BY DEF SpiIInv
<1>1. ASSUME NEW len \in SpiLengths  PROVE len \in Nat
  BY SpiAssumption DEF SpiAssumption
<1>2. ASSUME NEW len \in SpiLengths, SpiWrite(len)  PROVE SpiIInv'
  <2>1. len \in Nat
    BY <1>1
  <2>2. SpiBegin("write", len, 0) /\ spi_tx_fifo_clr /\ UNCHANGED <<spiRx, spiRxLane>>
        /\ spiPc = "idle" /\ spiPc' = "write" /\ chunk' = chunk
        /\ spiDo' = [at |-> 0, left |-> len, lane |-> 0]
    BY <1>2 DEF SpiWrite, SpiBegin
  <2>3. spiDo' \in [at : Nat, left : Nat, lane : 0 .. 3] /\ spiDo'.left = len /\ spiDo'.at = 0
        /\ spiDo'.lane = 0
    BY <1>0, <2>1, <2>2
  <2>4. chunk' \in [i : Nat, size : Nat]
    BY <1>0, <2>2 DEF SpiTypes
  <2>5. QED
    BY <2>1, <2>2, <2>3, <2>4, BeginStep DEF SpiOps
<1>3. ASSUME NEW rd \in SpiLengths, SpiRead(rd)  PROVE SpiIInv'
  <2>1. rd \in Nat
    BY <1>1
  <2>2. SpiBegin("read", 0, rd) /\ spi_rx_fifo_clr /\ UNCHANGED <<spiTx, spiTxLane>>
        /\ spiPc = "idle" /\ spiPc' = "read" /\ chunk' = chunk
        /\ spiDo' = [at |-> 0, left |-> rd, lane |-> 0]
    BY <1>3 DEF SpiRead, SpiBegin
  <2>3. spiDo' \in [at : Nat, left : Nat, lane : 0 .. 3] /\ spiDo'.left = rd /\ spiDo'.at = 0
        /\ spiDo'.lane = 0
    BY <1>0, <2>1, <2>2
  <2>4. chunk' \in [i : Nat, size : Nat]
    BY <1>0, <2>2 DEF SpiTypes
  <2>5. QED
    BY <2>1, <2>2, <2>3, <2>4, BeginStep DEF SpiOps
<1>4. ASSUME NEW wr \in SpiLengths, NEW rd \in SpiLengths, SpiWriteRead(wr, rd)  PROVE SpiIInv'
  <2>1. wr \in Nat /\ rd \in Nat
    BY <1>1
  <2>2. SpiBegin("write_read", wr, rd) /\ spi_tx_fifo_clr /\ spi_rx_fifo_clr
        /\ spiPc = "idle" /\ spiPc' = "write" /\ chunk' = chunk
        /\ spiDo' = [at |-> 0, left |-> wr, lane |-> 0]
    BY <1>4 DEF SpiWriteRead, SpiBegin
  <2>3. spiDo' \in [at : Nat, left : Nat, lane : 0 .. 3] /\ spiDo'.left = wr /\ spiDo'.at = 0
        /\ spiDo'.lane = 0
    BY <1>0, <2>1, <2>2
  <2>4. chunk' \in [i : Nat, size : Nat]
    BY <1>0, <2>2 DEF SpiTypes
  <2>5. QED
    BY <2>1, <2>2, <2>3, <2>4, BeginStep DEF SpiOps
<1>5. ASSUME NEW len \in LoopLengths, spi_master_write_read_loopback(len)  PROVE SpiIInv'
  <2>1. len \in Nat /\ len > 0
    BY SpiAssumption DEF SpiAssumption
  <2>2. SpiBegin("loopback", len, len) /\ spi_tx_fifo_clr /\ spi_rx_fifo_clr
        /\ spiPc = "idle" /\ spiPc' = "chunk" /\ chunk' = [i |-> 0, size |-> 4]
        /\ spiDo' = spiDo
    BY <1>5 DEF spi_master_write_read_loopback, SpiBegin
  <2>3. chunk' \in [i : Nat, size : Nat] /\ chunk'.i = 0 /\ chunk'.size = 4
    BY <2>2
  <2>4. spiDo' \in [at : Nat, left : Nat, lane : 0 .. 3]
    BY <1>0, <2>2 DEF SpiTypes
  <2>5. QED
    BY <2>1, <2>2, <2>3, <2>4, BeginStep DEF SpiOps
<1>6. QED
  BY <1>2, <1>3, <1>4, <1>5 DEF SpiUser

LEMMA LoopChunkStep == ASSUME SpiIInv, LoopChunk  PROVE SpiIInv'
<1>0. SpiTypes /\ SpiCalls /\ SpiOut /\ SpiIn /\ SpiLoop
  BY DEF SpiIInv
<1> DEFINE i == chunk.i
           rest == spiCall.wr - i
           size == IF chunk.size > rest THEN rest ELSE chunk.size
<1>1. /\ spiPc = "chunk" /\ spiPc' = "write" /\ i < spiCall.wr
      /\ chunk' = [chunk EXCEPT !.size = size]
      /\ spiDo' = [at |-> i, left |-> size, lane |-> 0]
      /\ UNCHANGED <<spiCall, spiTaken, spiTx, spiRx, spiTxLane, spiRxLane, spiLeft, spiHeld,
                     spiSent>>
  BY DEF LoopChunk, spiBusVars
<1>2. spiCall.op = "loopback" /\ i = spiSent /\ spiTx = <<>> /\ spiRx = <<>>
      /\ spiTxLane = 0 /\ spiRxLane = 0 /\ chunk.size = 4 /\ i \notin 1 .. 3
  BY <1>0, <1>1 DEF SpiCalls, SpiLoop
<1>3. i \in Nat /\ spiCall.wr \in Nat /\ spiTaken.at \in Nat
  BY <1>0, SpiNumbers
<1>4. size = (IF spiCall.wr - i < 4 THEN spiCall.wr - i ELSE 4) /\ size \in Nat /\ size > 0
  BY <1>1, <1>2, <1>3
<1> HIDE DEF size
<1>5. chunk'.i = i /\ chunk'.size = size /\ chunk' \in [i : Nat, size : Nat]
      /\ spiDo'.at = i /\ spiDo'.left = size /\ spiDo'.lane = 0
      /\ spiDo' \in [at : Nat, left : Nat, lane : 0 .. 3]
  <2>1. chunk \in [i : Nat, size : Nat] /\ 0 \in 0 .. 3
    BY <1>0 DEF SpiTypes
  <2>2. chunk' = [chunk EXCEPT !.size = size] /\ spiDo' = [at |-> i, left |-> size, lane |-> 0]
    BY <1>1
  <2>3. QED
    BY <1>3, <1>4, <2>1, <2>2
<1> HIDE DEF i
<1>6. Len(spiTx) = 0 /\ Len(spiRx) = 0
  BY <1>2
<1>7. spiTaken.at = Came(i)
  BY <1>0, <1>2, <1>3, <1>6 DEF SpiLoop
<1>8. SpiTypes'
  BY <1>0, <1>1, <1>5 DEF SpiTypes
<1>9. SpiCalls'
  BY <1>0, <1>1, <1>2 DEF SpiCalls
<1>10. SpiOut'
  BY <1>0, <1>1, <1>2, <1>3, <1>5, <1>6 DEF SpiOut
<1>11. SpiIn'
  BY <1>0, <1>1, <1>2 DEF SpiIn
<1>12. SpiLoop'
  BY <1>0, <1>1, <1>2, <1>4, <1>5, <1>7 DEF SpiLoop, Came
<1>13. QED
  BY <1>8, <1>9, <1>10, <1>11, <1>12 DEF SpiIInv

LEMMA CameIs ==
  ASSUME NEW s
  PROVE  Came(s) = IF s = 0 \/ s = spiCall.wr THEN s ELSE s - 1
BY DEF Came

(* What the loop-back transfer reads after a chunk ends with the last byte *)
(* that has come in when the chunk has gone out.                           *)
LEMMA LoopReads ==
  ASSUME SpiIInv, spiPc = "write", spiCall.op = "loopback"
  PROVE  /\ LoopRead \in [at : Nat, left : Nat, lane : 0 .. 3]
         /\ LoopRead.at = spiTaken.at /\ LoopRead.lane = 0
         /\ LoopRead.at + LoopRead.left = Came(chunk.i + chunk.size)
<1> DEFINE n == spiCall.wr
           i == chunk.i
           size == chunk.size
<1>0. SpiTypes /\ SpiLoop
  BY DEF SpiIInv
<1>1. n \in Nat /\ i \in Nat /\ size \in Nat
  BY <1>0, SpiNumbers
<1>2. i < n /\ i \notin 1 .. 3 /\ size = (IF n - i < 4 THEN n - i ELSE 4)
      /\ spiTaken.at = (IF i = 0 \/ i = n THEN i ELSE i - 1)
  BY <1>0 DEF SpiLoop, Came
<1>3. LoopRead = IF n <= 4 THEN [at |-> 0, left |-> size, lane |-> 0]
                 ELSE IF i = 0 THEN [at |-> 0, left |-> size - 1, lane |-> 0]
                 ELSE IF n - i > 4 THEN [at |-> i - 1, left |-> size, lane |-> 0]
                 ELSE [at |-> i - 1, left |-> size + 1, lane |-> 0]
  BY DEF LoopRead
<1> DEFINE end == i + size
<1> HIDE DEF n, i, size
<1>4. end = i + size /\ end \in Nat
  BY <1>1
<1> HIDE DEF end
<1>5. Came(end) = IF end = 0 \/ end = n THEN end ELSE end - 1
  BY CameIs DEF n
<1>6. \E at, left \in Nat :
        /\ LoopRead = [at |-> at, left |-> left, lane |-> 0]
        /\ at = spiTaken.at /\ at + left = Came(end)
  <2>1. CASE n <= 4
    BY <1>1, <1>2, <1>3, <1>4, <1>5, <2>1
  <2>2. CASE n > 4 /\ i = 0
    BY <1>1, <1>2, <1>3, <1>4, <1>5, <2>2
  <2>3. CASE n > 4 /\ i # 0 /\ n - i > 4
    BY <1>1, <1>2, <1>3, <1>4, <1>5, <2>3
  <2>4. CASE n > 4 /\ i # 0 /\ n - i <= 4
    BY <1>1, <1>2, <1>3, <1>4, <1>5, <2>4
  <2>5. QED
    BY <1>1, <2>1, <2>2, <2>3, <2>4
<1>7. 0 \in 0 .. 3
  OBVIOUS
<1>8. QED
  BY <1>6, <1>7 DEF i, size, end

LEMMA WrittenStep == ASSUME SpiIInv, SpiWritten  PROVE SpiIInv'
<1>0. SpiTypes /\ SpiCalls /\ SpiOut /\ SpiIn /\ SpiLoop
  BY DEF SpiIInv
<1>1. /\ spiPc = "write" /\ spiDo.left = 0
      /\ UNCHANGED <<spiCall, chunk, spiTaken, spiTx, spiRx, spiTxLane, spiRxLane, spiLeft,
                     spiHeld, spiSent>>
  BY DEF SpiWritten, spiBusVars
<1>2. spiCall.op \in {"write", "write_read", "loopback"} /\ spiCall.wr \in Nat
      /\ spiSent \in Nat /\ Len(spiTx) \in Nat /\ spiCall.rd \in Nat /\ spiDo.at \in Nat
  BY <1>0, <1>1, SpiNumbers DEF SpiCalls
<1>3. CASE spiCall.op = "write"
  <2>1. spiPc' = "wait" /\ spiDo' = spiDo
    BY <1>3 DEF SpiWritten
  <2>2. spiSent + Len(spiTx) = spiCall.wr
    BY <1>0, <1>1, <1>2, <1>3 DEF SpiOut
  <2>3. SpiTypes'
    BY <1>0, <1>1, <2>1 DEF SpiTypes
  <2>4. SpiCalls'
    BY <1>0, <1>1, <1>3, <2>1 DEF SpiCalls
  <2>5. SpiOut'
    BY <1>0, <1>1, <1>3, <2>1, <2>2 DEF SpiOut
  <2>6. SpiIn' /\ SpiLoop'
    BY <1>0, <1>1, <1>3, <2>1 DEF SpiIn, SpiLoop
  <2>7. QED
    BY <2>3, <2>4, <2>5, <2>6 DEF SpiIInv
<1>4. CASE spiCall.op = "write_read"
  <2>1. spiPc' = "read" /\ spiDo' = [at |-> 0, left |-> spiCall.rd, lane |-> 0]
    BY <1>4 DEF SpiWritten
  <2>2. spiSent + Len(spiTx) = spiCall.wr
    BY <1>0, <1>1, <1>2, <1>4 DEF SpiOut
  <2>3. spiDo' \in [at : Nat, left : Nat, lane : 0 .. 3] /\ spiDo'.at = 0
        /\ spiDo'.left = spiCall.rd /\ spiDo'.lane = 0
    BY <1>2, <2>1
  <2>4. SpiTypes'
    BY <1>0, <1>1, <2>1, <2>3 DEF SpiTypes
  <2>5. SpiCalls'
    BY <1>0, <1>1, <1>4, <2>1 DEF SpiCalls
  <2>6. SpiOut'
    BY <1>0, <1>1, <1>4, <2>1, <2>2 DEF SpiOut
  <2>7. SpiIn' /\ SpiLoop'
    BY <1>0, <1>1, <1>2, <1>4, <2>1, <2>3 DEF SpiIn, SpiLoop
  <2>8. QED
    BY <2>4, <2>5, <2>6, <2>7 DEF SpiIInv
<1>5. CASE spiCall.op = "loopback"
  <2>1. spiPc' = "read" /\ spiDo' = LoopRead
    BY <1>5 DEF SpiWritten
  <2>2. spiSent + Len(spiTx) = chunk.i + chunk.size /\ spiRxLane = 0
    BY <1>0, <1>1, <1>2, <1>5 DEF SpiOut, SpiIn
  <2>3. spiDo' \in [at : Nat, left : Nat, lane : 0 .. 3] /\ spiDo'.at = spiTaken.at
        /\ spiDo'.at + spiDo'.left = Came(chunk.i + chunk.size) /\ spiDo'.lane = 0
    BY <1>1, <1>5, <2>1, LoopReads
  <2>4. SpiTypes'
    BY <1>0, <1>1, <2>1, <2>3 DEF SpiTypes
  <2>5. SpiCalls'
    BY <1>0, <1>1, <1>5, <2>1 DEF SpiCalls
  <2>6. SpiOut'
    BY <1>0, <1>1, <1>5, <2>1 DEF SpiOut
  <2>7. SpiIn' /\ SpiLoop'
    BY <1>0, <1>1, <1>5, <2>1, <2>2, <2>3 DEF SpiIn, SpiLoop, Came
  <2>8. QED
    BY <2>4, <2>5, <2>6, <2>7 DEF SpiIInv
<1>6. QED
  BY <1>2, <1>3, <1>4, <1>5

(* When a loop-back transfer has read what a chunk has brought in, the     *)
(* chunk has gone out whole and nothing waits.                             *)
LEMMA ChunkOver ==
  ASSUME SpiIInv, spiPc = "read", spiDo.left = 0, spiCall.op = "loopback"
  PROVE  spiSent = chunk.i + chunk.size /\ Len(spiTx) = 0 /\ Len(spiRx) = 0
<1> DEFINE n == spiCall.wr
           end == chunk.i + chunk.size
<1>0. SpiTypes /\ SpiIn /\ SpiLoop /\ SpiOut
  BY DEF SpiIInv
<1>1. n \in Nat /\ end \in Nat /\ spiTaken.at \in Nat /\ Len(spiTx) \in Nat
      /\ Len(spiRx) \in Nat /\ spiSent \in Nat /\ spiLeft.wr \in Nat
  BY <1>0, SpiNumbers
<1>2. spiSent + Len(spiTx) = end
  BY <1>0 DEF SpiLoop
<1>3. spiSent + spiLeft.wr = n
  BY <1>0 DEF SpiOut
<1>4. spiTaken.at + Len(spiRx) = IF spiSent = 0 \/ spiSent = n THEN spiSent ELSE spiSent - 1
  BY <1>0 DEF SpiLoop, Came
<1>5. spiTaken.at = IF end = 0 \/ end = n THEN end ELSE end - 1
  <2>1. spiDo.at = spiTaken.at /\ spiDo.at + spiDo.left = Came(end)
    BY <1>0 DEF SpiIn
  <2>2. spiTaken.at = Came(end)
    BY <1>1, <2>1
  <2>3. QED
    BY <2>2 DEF Came
<1>6. end = n \/ end >= 4
  <2>1. chunk.i < n /\ chunk.size = (IF n - chunk.i < 4 THEN n - chunk.i ELSE 4)
    BY <1>0 DEF SpiLoop
  <2>2. chunk.i \in Nat
    BY <1>0, SpiNumbers
  <2>3. QED
    BY <1>1, <2>1, <2>2
<1>7. end <= n
  <2>1. chunk.i < n /\ chunk.size = (IF n - chunk.i < 4 THEN n - chunk.i ELSE 4)
    BY <1>0 DEF SpiLoop
  <2>2. chunk.i \in Nat
    BY <1>0, SpiNumbers
  <2>3. QED
    BY <1>1, <2>1, <2>2
<1> HIDE DEF n, end
<1>8. spiSent = end
  BY <1>1, <1>2, <1>3, <1>4, <1>5, <1>6, <1>7
<1>9. QED
  BY <1>1, <1>2, <1>4, <1>5, <1>8 DEF end

LEMMA WasReadStep == ASSUME SpiIInv, SpiWasRead  PROVE SpiIInv'
<1>0. SpiTypes /\ SpiCalls /\ SpiOut /\ SpiIn /\ SpiLoop
  BY DEF SpiIInv
<1>1. /\ spiPc = "read" /\ spiDo.left = 0
      /\ UNCHANGED <<spiCall, spiDo, spiTaken, spiLeft, spiHeld, spiSent>>
  BY DEF SpiWasRead
<1>2. spiCall.op \in {"read", "write_read", "loopback"} /\ spiDo.at = spiTaken.at
      /\ spiTaken.at \in Nat /\ spiCall.wr \in Nat /\ chunk.i \in Nat /\ chunk.size \in Nat
  BY <1>0, <1>1, SpiNumbers DEF SpiCalls, SpiIn
<1>3. CASE spiCall.op # "loopback"
  <2>1. spiPc' = "wait" /\ UNCHANGED <<chunk, spiTx, spiRx, spiTxLane, spiRxLane>>
    BY <1>3 DEF SpiWasRead
  <2>2. spiTaken.at = spiCall.rd
    BY <1>0, <1>1, <1>2, <1>3 DEF SpiIn
  <2>3. SpiTypes'
    BY <1>0, <1>1, <2>1 DEF SpiTypes
  <2>4. SpiCalls'
    BY <1>0, <1>1, <1>2, <1>3, <2>1 DEF SpiCalls
  <2>5. SpiOut'
    BY <1>0, <1>1, <1>3, <2>1 DEF SpiOut
  <2>6. SpiIn' /\ SpiLoop'
    BY <1>0, <1>1, <1>3, <2>1, <2>2 DEF SpiIn, SpiLoop
  <2>7. QED
    BY <2>3, <2>4, <2>5, <2>6 DEF SpiIInv
<1>4. CASE spiCall.op = "loopback"
  <2>1. /\ spiPc' = "chunk" /\ chunk' = [chunk EXCEPT !.i = chunk.i + chunk.size]
        /\ spiTx' = <<>> /\ spiTxLane' = 0 /\ spiRx' = <<>> /\ spiRxLane' = 0
    <3>1. chunk' = [chunk EXCEPT !.i = @ + chunk.size]
      BY <1>4 DEF SpiWasRead
    <3>2. QED
      BY <1>4, <3>1 DEF SpiWasRead, spi_tx_fifo_clr, spi_rx_fifo_clr
  <2>2. spiSent = chunk.i + chunk.size /\ Len(spiTx) = 0 /\ Len(spiRx) = 0
    BY <1>1, <1>4, ChunkOver
  <2>3. /\ spiTx' \in Seq(Int) /\ Len(spiTx') = 0 /\ Len(spiTx') <= SpiDepth
        /\ spiRx' \in Seq(Int) /\ Len(spiRx') = 0 /\ Len(spiRx') <= SpiDepth
    BY <2>1, NothingHeld
  <2>4. chunk' \in [i : Nat, size : Nat] /\ chunk'.i = spiSent /\ chunk'.size = chunk.size
    <3>1. chunk \in [i : Nat, size : Nat] /\ chunk' = [chunk EXCEPT !.i = chunk.i + chunk.size]
          /\ chunk.i + chunk.size \in Nat /\ spiSent = chunk.i + chunk.size
      BY <1>0, <1>2, <2>1, <2>2 DEF SpiTypes
    <3>2. QED
      BY <3>1
  <2>5. spiTaken.at = Came(spiSent)
    <3>1. spiTaken.at + Len(spiRx) = Came(spiSent)
      BY <1>0, <1>4 DEF SpiLoop
    <3>2. QED
      BY <1>2, <2>2, <3>1
  <2>6. (spiSent < spiCall.wr => chunk.size = 4) /\ (spiSent \in 1 .. 3 => spiSent = spiCall.wr)
    <3>1. chunk.i < spiCall.wr
          /\ chunk.size = (IF spiCall.wr - chunk.i < 4 THEN spiCall.wr - chunk.i ELSE 4)
      BY <1>0, <1>1, <1>4 DEF SpiLoop
    <3>2. QED
      BY <1>2, <2>2, <3>1
  <2>7. SpiTypes'
    BY <1>0, <1>1, <2>1, <2>3, <2>4 DEF SpiTypes
  <2>8. SpiCalls'
    BY <1>0, <1>1, <1>4, <2>1 DEF SpiCalls
  <2>9. SpiOut'
    BY <1>0, <1>1, <1>4, <2>1, <2>3 DEF SpiOut
  <2>10. SpiIn'
    BY <1>0, <1>1, <1>4, <2>1, <2>3 DEF SpiIn
  <2>11. SpiLoop'
    <3>1. spiTaken.at + 0 = spiTaken.at
      BY <1>2
    <3>2. QED
      BY <1>0, <1>1, <1>4, <2>1, <2>3, <2>4, <2>5, <2>6, <3>1 DEF SpiLoop, Came
  <2>12. QED
    BY <2>7, <2>8, <2>9, <2>10, <2>11 DEF SpiIInv
<1>5. QED
  BY <1>3, <1>4

LEMMA LoopEndStep == ASSUME SpiIInv, LoopEnd  PROVE SpiIInv'
<1>0. SpiTypes /\ SpiCalls /\ SpiOut /\ SpiIn /\ SpiLoop
  BY DEF SpiIInv
<1>1. /\ spiPc = "chunk" /\ chunk.i >= spiCall.wr /\ spiPc' = "wait"
      /\ UNCHANGED <<spiCall, chunk, spiDo, spiTaken, spiTx, spiRx, spiTxLane, spiRxLane, spiLeft,
                     spiHeld, spiSent>>
  BY DEF LoopEnd, spiBusVars
<1>2. spiCall.op = "loopback" /\ chunk.i = spiSent /\ spiTx = <<>> /\ Len(spiRx) = 0
  BY <1>0, <1>1 DEF SpiCalls, SpiLoop
<1>3. spiSent = spiCall.wr /\ spiTaken.at = spiCall.wr
  <2>1. spiSent \in Nat /\ spiLeft.wr \in Nat /\ spiCall.wr \in Nat /\ spiTaken.at \in Nat
    BY <1>0, SpiNumbers
  <2>2. spiSent = spiCall.wr
    BY <1>0, <1>1, <1>2, <2>1 DEF SpiOut
  <2>3. spiTaken.at + 0 = spiSent
    BY <1>0, <1>2, <2>2 DEF SpiLoop, Came
  <2>4. QED
    BY <2>1, <2>2, <2>3
<1>4. SpiTypes'
  BY <1>0, <1>1 DEF SpiTypes
<1>5. SpiCalls'
  BY <1>0, <1>1, <1>2 DEF SpiCalls
<1>6. SpiOut'
  BY <1>0, <1>1, <1>2 DEF SpiOut
<1>7. SpiIn' /\ SpiLoop'
  BY <1>0, <1>1, <1>2, <1>3 DEF SpiIn, SpiLoop, Came
<1>8. QED
  BY <1>4, <1>5, <1>6, <1>7 DEF SpiIInv

LEMMA SpiReturnStep == ASSUME SpiIInv, SpiReturn  PROVE SpiIInv'
<1>0. SpiTypes /\ SpiCalls /\ SpiOut /\ SpiIn /\ SpiLoop
  BY DEF SpiIInv
<1>1. /\ spiPc = "wait" /\ spiPc' = "idle"
      /\ UNCHANGED <<spiCall, chunk, spiDo, spiTaken, spiTx, spiRx, spiTxLane, spiRxLane, spiLeft,
                     spiHeld, spiSent>>
  BY DEF SpiReturn, spiBusVars
<1>2. spiLeft.wr = 0 /\ spiLeft.rd = 0
  <2>1. spiLeft = [wr |-> 0, rd |-> 0]
    BY DEF SpiReturn, spi_is_busy
  <2>2. QED
    BY <2>1
<1>3. SpiTypes'
  BY <1>0, <1>1 DEF SpiTypes
<1>4. SpiCalls'
  BY <1>0, <1>1, <1>2 DEF SpiCalls
<1>5. SpiOut'
  BY <1>0, <1>1 DEF SpiOut
<1>6. SpiIn' /\ SpiLoop'
  BY <1>0, <1>1 DEF SpiIn, SpiLoop, Came
<1>7. QED
  BY <1>3, <1>4, <1>5, <1>6 DEF SpiIInv

-----------------------------------------------------------------------------
(* The hardware's steps.                                                   *)
LEMMA TxTaken ==
  ASSUME SpiTypes, spiTx # <<>>, spiTx' = Tail(spiTx),
         \A k \in 1 .. Len(spiTx) : spiTx[k] = spiSent + k, spiSent' = spiSent + 1
  PROVE  /\ Head(spiTx) = spiSent + 1 /\ spiTx' \in Seq(Int)
         /\ Len(spiTx') = Len(spiTx) - 1 /\ Len(spiTx) \in Nat \ {0} /\ Len(spiTx') <= SpiDepth
         /\ \A k \in 1 .. Len(spiTx') : spiTx'[k] = spiSent' + k
<1>1. /\ spiTx \in Seq(Int) /\ Len(spiTx) <= SpiDepth /\ spiSent \in Nat
      /\ SpiDepth \in Nat
  BY SpiAssumption DEF SpiTypes, SpiAssumption
<1>2. /\ spiTx' \in Seq(Int) /\ Len(spiTx') = Len(spiTx) - 1 /\ Len(spiTx) \in Nat \ {0}
      /\ \A k \in 1 .. Len(spiTx') : spiTx'[k] = spiTx[k + 1]
      /\ Head(spiTx) = spiTx[1]
  BY <1>1, HeadTailProperties, LenProperties, EmptySeq
<1>3. Head(spiTx) = spiSent + 1
  BY <1>1, <1>2
<1>4. ASSUME NEW k \in 1 .. Len(spiTx')  PROVE spiTx'[k] = spiSent' + k
  <2>1. k + 1 \in 1 .. Len(spiTx) /\ k \in Nat
    BY <1>2
  <2>2. spiTx[k + 1] = spiSent + (k + 1)
    BY <2>1
  <2>3. QED
    BY <1>1, <1>2, <2>1, <2>2
<1>5. Len(spiTx') <= SpiDepth
  BY <1>1, <1>2
<1>6. QED
  BY <1>2, <1>3, <1>4, <1>5

LEMMA ShiftOutStep == ASSUME SpiIInv, ShiftOut  PROVE SpiIInv'
<1>0. SpiTypes /\ SpiCalls /\ SpiOut /\ SpiIn /\ SpiLoop
  BY DEF SpiIInv
<1>1. /\ spiCall.op \in {"write", "write_read"} /\ spiLeft.wr > 0 /\ spiTx # <<>>
      /\ spiTx' = Tail(spiTx) /\ spiLeft' = [spiLeft EXCEPT !.wr = spiLeft.wr - 1]
      /\ UNCHANGED <<spiPc, spiCall, chunk, spiDo, spiTaken, spiRx, spiTxLane, spiRxLane, spiHeld>>
  BY DEF ShiftOut, spiCpuVars
<1>2. /\ spiTx \in Seq(Int) /\ spiSent \in Nat /\ spiLeft.wr \in Nat /\ spiLeft.rd \in Nat
      /\ spiCall.wr \in Nat /\ Len(spiTx) \in Nat
  BY <1>0, SpiNumbers DEF SpiTypes
<1>3. \A k \in 1 .. Len(spiTx) : spiTx[k] = spiSent + k
  BY <1>0, <1>1 DEF SpiOut
<1>4. Head(spiTx) = spiSent + 1
  <2>1. Head(spiTx) = spiTx[1] /\ Len(spiTx) # 0
    BY <1>1, <1>2, HeadTailProperties, EmptySeq
  <2>2. QED
    BY <1>2, <1>3, <2>1
<1>5. spiSent' = spiSent + 1
  BY <1>4 DEF ShiftOut
<1>6. /\ spiTx' \in Seq(Int) /\ Len(spiTx') = Len(spiTx) - 1 /\ Len(spiTx') <= SpiDepth
      /\ \A k \in 1 .. Len(spiTx') : spiTx'[k] = spiSent' + k
  BY <1>0, <1>1, <1>3, <1>5, TxTaken
<1>7. spiLeft' \in [wr : Nat, rd : Nat] /\ spiLeft'.wr = spiLeft.wr - 1 /\ spiLeft'.rd = spiLeft.rd
  <2>1. spiLeft \in [wr : Nat, rd : Nat] /\ spiLeft' = [spiLeft EXCEPT !.wr = spiLeft.wr - 1]
        /\ spiLeft.wr - 1 \in Nat
    BY <1>0, <1>1, <1>2 DEF SpiTypes
  <2>2. QED
    BY <2>1
<1>8. spiSent' + Len(spiTx') = spiSent + Len(spiTx) /\ spiSent' + spiLeft'.wr = spiSent + spiLeft.wr
      /\ spiSent' \in Nat
  <2>1. Len(spiTx') = Len(spiTx) - 1 /\ spiLeft'.wr = spiLeft.wr - 1 /\ spiSent' = spiSent + 1
    BY <1>5, <1>6, <1>7
  <2>2. Len(spiTx) \in Nat /\ spiLeft.wr \in Nat /\ spiSent \in Nat
    BY <1>2
  <2>3. QED
    BY <2>1, <2>2
<1>9. SpiTypes'
  BY <1>0, <1>1, <1>6, <1>7, <1>8 DEF SpiTypes
<1>10. SpiCalls'
  BY <1>0, <1>1, <1>7 DEF SpiCalls
<1>11. SpiOut'
  BY <1>0, <1>1, <1>6, <1>8 DEF SpiOut
<1>12. SpiIn' /\ SpiLoop'
  BY <1>0, <1>1, <1>7 DEF SpiIn, SpiLoop
<1>13. QED
  BY <1>9, <1>10, <1>11, <1>12 DEF SpiIInv

LEMMA ShiftInStep == ASSUME SpiIInv, ShiftIn  PROVE SpiIInv'
<1>0. SpiTypes /\ SpiCalls /\ SpiOut /\ SpiIn /\ SpiLoop
  BY DEF SpiIInv
<1> DEFINE byte == spiCall.rd - spiLeft.rd + 1
<1>1. /\ spiCall.op \in {"read", "write_read"} /\ spiLeft.wr = 0 /\ spiLeft.rd > 0
      /\ Len(spiRx) < SpiDepth
      /\ spiRx' = Append(spiRx, byte) /\ spiLeft' = [spiLeft EXCEPT !.rd = spiLeft.rd - 1]
      /\ UNCHANGED <<spiPc, spiCall, chunk, spiDo, spiTaken, spiTx, spiTxLane, spiRxLane, spiHeld,
                     spiSent>>
  BY DEF ShiftIn, spiCpuVars
<1>2. /\ spiRx \in Seq(Int) /\ spiLeft.rd \in Nat /\ spiCall.rd \in Nat /\ Len(spiRx) \in Nat
      /\ spiTaken.at \in Nat
  BY <1>0, SpiNumbers DEF SpiTypes
<1>3. spiTaken.at + Len(spiRx) + spiLeft.rd = spiCall.rd
      /\ \A k \in 1 .. Len(spiRx) : spiRx[k] = spiTaken.at + k
  BY <1>0, <1>1 DEF SpiIn
<1>4. byte = spiTaken.at + (Len(spiRx) + 1) /\ byte \in Int
  BY <1>2, <1>3
<1>5. /\ spiRx' \in Seq(Int) /\ Len(spiRx') = Len(spiRx) + 1
      /\ \A k \in 1 .. Len(spiRx) : spiRx'[k] = spiRx[k]
      /\ spiRx'[Len(spiRx) + 1] = byte
  <2>1. spiRx' = Append(spiRx, byte)
    BY <1>1
  <2> HIDE DEF byte
  <2>2. QED
    BY <1>2, <1>4, <2>1
<1> HIDE DEF byte
<1>6. ASSUME NEW k \in 1 .. Len(spiRx')  PROVE spiRx'[k] = spiTaken.at + k
  <2>1. k \in 1 .. Len(spiRx) \/ k = Len(spiRx) + 1
    BY <1>2, <1>5
  <2>2. QED
    BY <1>3, <1>4, <1>5, <2>1
<1>7. spiLeft' \in [wr : Nat, rd : Nat] /\ spiLeft'.wr = spiLeft.wr /\ spiLeft'.rd = spiLeft.rd - 1
  <2>1. spiLeft \in [wr : Nat, rd : Nat] /\ spiLeft' = [spiLeft EXCEPT !.rd = spiLeft.rd - 1]
        /\ spiLeft.rd - 1 \in Nat
    BY <1>0, <1>1, <1>2 DEF SpiTypes
  <2>2. QED
    BY <2>1
<1>8. spiTaken.at + Len(spiRx') + spiLeft'.rd = spiCall.rd
  <2>1. Len(spiRx') = Len(spiRx) + 1 /\ spiLeft'.rd = spiLeft.rd - 1
        /\ spiTaken.at + Len(spiRx) + spiLeft.rd = spiCall.rd
    BY <1>3, <1>5, <1>7
  <2>2. Len(spiRx) \in Nat /\ spiLeft.rd \in Nat /\ spiTaken.at \in Nat
    BY <1>2
  <2>3. QED
    BY <2>1, <2>2
<1>9. Len(spiRx') <= SpiDepth
  BY <1>1, <1>2, <1>5, SpiAssumption DEF SpiAssumption
<1>10. SpiTypes'
  BY <1>0, <1>1, <1>5, <1>7, <1>9 DEF SpiTypes
<1>11. SpiCalls'
  <2>1. spiPc # "idle"
    BY <1>0, <1>1 DEF SpiCalls
  <2>2. QED
    BY <1>0, <1>1, <1>7, <2>1 DEF SpiCalls
<1>12. SpiOut'
  BY <1>0, <1>1, <1>7 DEF SpiOut
<1>13. SpiIn' /\ SpiLoop'
  BY <1>0, <1>1, <1>6, <1>8 DEF SpiIn, SpiLoop
<1>14. QED
  BY <1>10, <1>11, <1>12, <1>13 DEF SpiIInv

(* A FIFO that holds the bytes after the one taken last goes on so with    *)
(* the next byte, or with none.                                            *)
LEMMA NextBehind ==
  ASSUME NEW s \in Seq(Int), NEW at \in Nat, \A k \in 1 .. Len(s) : s[k] = at + k,
         NEW t \in Seq(Int), Len(t) \in 0 .. 1, Len(t) = 1 => t[1] = at + Len(s) + 1
  PROVE  /\ s \o t \in Seq(Int) /\ Len(s \o t) = Len(s) + Len(t)
         /\ \A k \in 1 .. Len(s \o t) : (s \o t)[k] = at + k
<1>1. Len(s) \in Nat /\ (Len(t) = 0 \/ Len(t) = 1)
  BY LenProperties
<1>2. /\ s \o t \in Seq(Int) /\ Len(s \o t) = Len(s) + Len(t)
      /\ \A k \in 1 .. Len(s) + Len(t) :
            (s \o t)[k] = IF k <= Len(s) THEN s[k] ELSE t[k - Len(s)]
  BY ConcatProperties
<1>3. ASSUME NEW k \in 1 .. Len(s) + Len(t)  PROVE (s \o t)[k] = at + k
  <2>1. (s \o t)[k] = IF k <= Len(s) THEN s[k] ELSE t[k - Len(s)]
    BY <1>2
  <2>2. CASE k <= Len(s)
    <3>1. k \in 1 .. Len(s)
      BY <1>1, <2>2
    <3>2. QED
      BY <2>1, <2>2, <3>1
  <2>3. CASE k > Len(s)
    <3>0. k \in Nat /\ k <= Len(s) + Len(t)
      BY <1>1
    <3>1. Len(t) = 1
      <4>1. Len(t) # 0
        BY <1>1, <2>3, <3>0
      <4>2. QED
        BY <1>1, <4>1
    <3>2. k <= Len(s) + 1 /\ Len(s) \in Nat
      BY <1>1, <3>0, <3>1
    <3>3. k = Len(s) + 1 /\ ~(k <= Len(s)) /\ k - Len(s) = 1
      BY <2>3, <3>0, <3>2
    <3>4. (s \o t)[k] = t[1] /\ t[1] = at + Len(s) + 1
      BY <2>1, <3>1, <3>3
    <3>5. QED
      BY <1>1, <3>3, <3>4
  <2>4. QED
    BY <1>1, <2>2, <2>3
<1>4. QED
  BY <1>2, <1>3

(* What one exchange puts into the receive FIFO: the byte held, and the    *)
(* byte itself when it is the last.                                        *)
LEMMA Enters ==
  ASSUME SpiIInv, Exchange
  PROVE  /\ spiRx' \in Seq(Int) /\ Len(spiRx') \in Nat /\ Len(spiRx') <= SpiDepth
         /\ spiTaken.at + Len(spiRx') = Came(spiSent + 1)
         /\ \A k \in 1 .. Len(spiRx') : spiRx'[k] = spiTaken.at + k
<1> DEFINE n == spiCall.wr
           at == spiTaken.at
           left == spiLeft.wr
           byte == Head(spiTx)
           held == IF spiHeld = 0 THEN <<>> ELSE <<spiHeld>>
           tail == IF left = 1 THEN <<byte>> ELSE <<>>
           first == spiRx \o held
           next == spiSent + 1
<1>0. SpiTypes /\ SpiOut /\ SpiIn /\ SpiLoop
  BY DEF SpiIInv
<1>1. /\ spiCall.op = "loopback" /\ left > 0 /\ spiTx # <<>> /\ Len(spiRx) + 2 <= SpiDepth
      /\ spiRx' = first \o tail
  BY DEF Exchange
<1>2. /\ n \in Nat /\ at \in Nat /\ left \in Nat /\ spiSent \in Nat /\ spiHeld \in Nat
      /\ spiRx \in Seq(Int) /\ Len(spiRx) \in Nat
  BY <1>0, SpiNumbers DEF SpiTypes
<1>3. spiSent + left = n /\ \A k \in 1 .. Len(spiTx) : spiTx[k] = spiSent + k
  BY <1>0, <1>1 DEF SpiOut
<1>4. byte = next
  <2>1. spiTx \in Seq(Int)
    BY <1>0 DEF SpiTypes
  <2>2. Head(spiTx) = spiTx[1] /\ Len(spiTx) # 0 /\ Len(spiTx) \in Nat
    BY <1>1, <2>1, HeadTailProperties, EmptySeq, LenProperties
  <2>3. QED
    BY <1>2, <1>3, <2>2
<1>5. \A k \in 1 .. Len(spiRx) : spiRx[k] = at + k
  BY <1>0, <1>1 DEF SpiIn
<1>6. /\ spiHeld = IF spiSent = n THEN 0 ELSE spiSent
      /\ at + Len(spiRx) = IF spiSent = 0 \/ spiSent = n THEN spiSent ELSE spiSent - 1
  BY <1>0, <1>1 DEF SpiLoop, Came
<1>7. next \in Nat /\ next = spiSent + 1
  BY <1>2
<1>8. Came(next) = IF next = 0 \/ next = n THEN next ELSE next - 1
  <2> HIDE DEF next
  <2>1. QED
    BY CameIs
<1> HIDE DEF n, at, left, next
<1>9. spiHeld = spiSent /\ spiSent < n
  BY <1>1, <1>2, <1>3, <1>6
<1>10. /\ held \in Seq(Int) /\ Len(held) = (IF spiHeld = 0 THEN 0 ELSE 1)
       /\ Len(held) = 1 => held[1] = spiHeld
  <2>1. CASE spiHeld = 0
    BY <2>1
  <2>2. CASE spiHeld # 0
    BY <1>2, <2>2
  <2>3. QED
    BY <2>1, <2>2
<1>11. /\ tail \in Seq(Int) /\ Len(tail) = (IF left = 1 THEN 1 ELSE 0)
       /\ Len(tail) = 1 => tail[1] = byte
  <2>1. byte \in Int
    BY <1>4, <1>7
  <2> HIDE DEF byte
  <2>2. CASE left = 1
    BY <2>1, <2>2
  <2>3. CASE left # 1
    BY <2>3
  <2>4. QED
    BY <2>2, <2>3
<1> HIDE DEF held, tail, byte
<1>12. /\ first \in Seq(Int) /\ Len(first) = Len(spiRx) + Len(held)
       /\ \A k \in 1 .. Len(first) : first[k] = at + k
  <2>1. Len(held) \in 0 .. 1 /\ (Len(held) = 1 => held[1] = at + Len(spiRx) + 1)
    BY <1>2, <1>6, <1>9, <1>10
  <2>2. QED
    BY <1>2, <1>5, <1>10, <2>1, NextBehind
<1> HIDE DEF first
<1>13. Len(first) = Len(spiRx) + (IF spiHeld = 0 THEN 0 ELSE 1) /\ at + Len(first) = spiSent
  <2>1. Len(first) = Len(spiRx) + (IF spiHeld = 0 THEN 0 ELSE 1)
    BY <1>10, <1>12
  <2>2. QED
    BY <1>2, <1>6, <1>9, <2>1
<1> DEFINE all == first \o tail
           more == Len(all)
<1>14. /\ all \in Seq(Int) /\ more = Len(first) + Len(tail)
       /\ \A k \in 1 .. more : all[k] = at + k
  <2>1. Len(tail) \in 0 .. 1
    BY <1>11
  <2>2. Len(tail) = 1 => tail[1] = at + Len(first) + 1
    BY <1>4, <1>7, <1>11, <1>13
  <2>3. QED
    BY <1>2, <1>11, <1>12, <2>1, <2>2, NextBehind
<1>15. spiRx' = all /\ Len(spiRx') = more
  BY <1>1
<1> HIDE DEF all, more
<1>16. more = Len(spiRx) + (IF spiHeld = 0 THEN 0 ELSE 1) + (IF left = 1 THEN 1 ELSE 0)
  BY <1>11, <1>13, <1>14
<1>17. more \in Nat /\ more <= SpiDepth
  <2>1. SpiDepth \in Nat /\ Len(spiRx) \in Nat /\ Len(spiRx) + 2 <= SpiDepth
    BY <1>1, <1>2, SpiAssumption DEF SpiAssumption
  <2>2. PICK a \in {0, 1}, b \in {0, 1} : more = Len(spiRx) + a + b
    BY <1>16
  <2>3. QED
    BY <2>1, <2>2
<1>18. at + more = Came(next)
  <2>1. at + Len(first) = spiSent /\ more = Len(first) + (IF left = 1 THEN 1 ELSE 0)
    BY <1>13, <1>16
  <2>2. Len(first) \in Nat
    BY <1>2, <1>13
  <2>3. left = 1 <=> next = n
    BY <1>2, <1>3, <1>7
  <2>4. at \in Nat /\ spiSent \in Nat /\ next = spiSent + 1
    BY <1>2, <1>7
  <2>5. at + more = IF left = 1 THEN next ELSE next - 1
    BY <2>1, <2>2, <2>4
  <2>6. next # 0
    BY <1>2, <1>7
  <2>7. QED
    BY <1>8, <2>3, <2>5, <2>6
<1>19. QED
  BY <1>14, <1>15, <1>17, <1>18 DEF at, next

LEMMA ExchangeStep == ASSUME SpiIInv, Exchange  PROVE SpiIInv'
<1>0. SpiTypes /\ SpiCalls /\ SpiOut /\ SpiIn /\ SpiLoop
  BY DEF SpiIInv
<1>1. /\ spiCall.op = "loopback" /\ spiLeft.wr > 0 /\ spiTx # <<>> /\ spiTx' = Tail(spiTx)
      /\ spiLeft' = [wr |-> spiLeft.wr - 1, rd |-> spiLeft.rd - 1]
      /\ UNCHANGED <<spiPc, spiCall, chunk, spiDo, spiTaken, spiTxLane, spiRxLane>>
  BY DEF Exchange, spiCpuVars
<1>2. /\ spiTx \in Seq(Int) /\ spiSent \in Nat /\ spiLeft.wr \in Nat /\ spiLeft.rd \in Nat
      /\ spiCall.wr \in Nat /\ Len(spiTx) \in Nat
  BY <1>0, SpiNumbers DEF SpiTypes
<1>3. /\ \A k \in 1 .. Len(spiTx) : spiTx[k] = spiSent + k
      /\ spiSent + spiLeft.wr = spiCall.wr /\ spiLeft.rd = spiLeft.wr
  BY <1>0, <1>1 DEF SpiOut, SpiCalls
<1>4. Head(spiTx) = spiSent + 1
  <2>1. Head(spiTx) = spiTx[1] /\ Len(spiTx) # 0
    BY <1>1, <1>2, HeadTailProperties, EmptySeq
  <2>2. QED
    BY <1>2, <1>3, <2>1
<1>5. spiSent' = spiSent + 1
  BY <1>4 DEF Exchange
<1>6. /\ spiTx' \in Seq(Int) /\ Len(spiTx') = Len(spiTx) - 1 /\ Len(spiTx') <= SpiDepth
      /\ \A k \in 1 .. Len(spiTx') : spiTx'[k] = spiSent' + k
  BY <1>0, <1>1, <1>3, <1>5, TxTaken
<1>7. spiLeft' \in [wr : Nat, rd : Nat] /\ spiLeft'.wr = spiLeft.wr - 1
      /\ spiLeft'.rd = spiLeft'.wr
  <2>1. spiLeft.wr - 1 \in Nat /\ spiLeft.rd - 1 \in Nat
    BY <1>1, <1>2, <1>3
  <2>2. QED
    BY <1>1, <1>3, <2>1
<1>8. spiSent' + Len(spiTx') = spiSent + Len(spiTx) /\ spiSent' + spiLeft'.wr = spiSent + spiLeft.wr
      /\ spiSent' \in Nat
  <2>1. Len(spiTx') = Len(spiTx) - 1 /\ spiLeft'.wr = spiLeft.wr - 1 /\ spiSent' = spiSent + 1
    BY <1>5, <1>6, <1>7
  <2>2. Len(spiTx) \in Nat /\ spiLeft.wr \in Nat /\ spiSent \in Nat
    BY <1>2
  <2>3. QED
    BY <2>1, <2>2
<1>9. /\ spiHeld' \in Nat /\ spiHeld' = IF spiSent' = spiCall.wr THEN 0 ELSE spiSent'
  <2>1. spiHeld' = IF spiLeft.wr = 1 THEN 0 ELSE Head(spiTx)
    BY DEF Exchange
  <2>2. spiLeft.wr = 1 <=> spiSent + 1 = spiCall.wr
    BY <1>2, <1>3
  <2>3. QED
    BY <1>2, <1>4, <1>5, <2>1, <2>2
<1>10. /\ spiRx' \in Seq(Int) /\ Len(spiRx') <= SpiDepth
       /\ spiTaken.at + Len(spiRx') = Came(spiSent')
       /\ \A k \in 1 .. Len(spiRx') : spiRx'[k] = spiTaken.at + k
  BY <1>5, Enters
<1>11. spiPc \in {"write", "read"}
  BY <1>0, <1>1 DEF SpiTypes, SpiLoop
<1>12. SpiTypes'
  BY <1>0, <1>1, <1>6, <1>7, <1>8, <1>9, <1>10 DEF SpiTypes
<1>13. SpiCalls'
  BY <1>0, <1>1, <1>7, <1>11 DEF SpiCalls
<1>14. SpiOut'
  BY <1>0, <1>1, <1>6, <1>8, <1>11 DEF SpiOut
<1>15. SpiIn'
  BY <1>0, <1>1, <1>10, <1>11 DEF SpiIn, Came
<1>16. SpiLoop'
  BY <1>0, <1>1, <1>8, <1>9, <1>10, <1>11 DEF SpiLoop, Came
<1>17. QED
  BY <1>12, <1>13, <1>14, <1>15, <1>16 DEF SpiIInv

LEMMA SpiStep == SpiIInv /\ [SpiNext]_spiVars => SpiIInv'
<1> SUFFICES ASSUME SpiIInv, [SpiNext]_spiVars  PROVE SpiIInv'
  OBVIOUS
<1>1. CASE UNCHANGED spiVars
  <2>1. UNCHANGED <<spiPc, spiCall, chunk, spiDo, spiTaken, spiTx, spiRx, spiTxLane, spiRxLane,
                    spiLeft, spiHeld, spiSent>>
    BY <1>1 DEF spiVars, spiCpuVars, spiBusVars
  <2>2. SpiTypes'
    BY <2>1 DEF SpiIInv, SpiTypes
  <2>3. SpiCalls'
    BY <2>1 DEF SpiIInv, SpiCalls
  <2>4. SpiOut'
    BY <2>1 DEF SpiIInv, SpiOut
  <2>5. SpiIn'
    BY <2>1 DEF SpiIInv, SpiIn, Came
  <2>6. SpiLoop'
    BY <2>1 DEF SpiIInv, SpiLoop, Came
  <2>7. QED
    BY <2>2, <2>3, <2>4, <2>5, <2>6 DEF SpiIInv
<1>2. CASE SpiUser
  BY <1>2, UserStep
<1>3. CASE SpiDriver
  BY <1>3, WriteByteStep, ReadByteStep, LoopChunkStep, WrittenStep, WasReadStep, LoopEndStep,
     SpiReturnStep DEF SpiDriver
<1>4. CASE SpiHardware
  BY <1>4, ShiftOutStep, ShiftInStep, ExchangeStep DEF SpiHardware
<1>5. QED
  BY <1>1, <1>2, <1>3, <1>4 DEF SpiNext

-----------------------------------------------------------------------------
(* The I2C master.  What the bus has done for the call so far, at each     *)
(* place of the driver.                                                    *)
I2cFilling ==
  /\ selected /\ i2cCall.op \in {"write", "write_read"}
  /\ slaveGot + i2cTx = i2cCnt /\ i2cCnt <= i2cCall.wr
  /\ i2cCnt = 0 => ~I2cBusy
  /\ I2cBusy => /\ cycle.kind = "write" /\ cycle.left = i2cCall.wr - slaveGot /\ cycle.left > 0
                /\ cycle.stop <=> (i2cCall.stop /\ i2cCall.op = "write")
  /\ i2cCnt > 0 /\ ~I2cBusy =>
       slaveGot = i2cCall.wr /\ (i2cCall.stop /\ i2cCall.op = "write" => bus = "free")

I2cPlaces ==
  /\ i2cPc = "idle" => ~I2cBusy /\ I2cBusReleased /\ I2cResultTruthful
  /\ i2cPc = "address" =>
         /\ i2cCnt = 0 /\ slaveGot = 0 /\ i2cCall.op # "none"
         /\ i2cCall.op # "read" => i2cTx = 0
         /\ IF I2cBusy THEN cycle.kind = "address" /\ selected ELSE selected <=> ~nackIn
  /\ i2cPc = "stop" =>
         /\ ~selected /\ slaveGot = 0
         /\ IF I2cBusy THEN cycle.kind = "stop" /\ cycle.left = 0 /\ cycle.stop
            ELSE bus = "free"
  /\ i2cPc = "fill" => I2cFilling
  /\ i2cPc = "restart" =>
         /\ selected /\ slaveGot = i2cCall.wr /\ i2cCnt = 0
         /\ I2cBusy => cycle.kind = "address"
  /\ i2cPc = "take" =>
         /\ selected /\ slaveGot = i2cCall.wr
         /\ I2cBusy => cycle.kind = "read" /\ (cycle.stop <=> i2cCall.stop)
         /\ ~I2cBusy /\ i2cCall.stop => bus = "free"

I2cIInv ==
  /\ I2cTypeOK
  /\ i2cCall.op \in {"write", "write_read"} => i2cCall.wr > 0
  /\ i2cCall.op \in {"none", "read"} => i2cCall.wr = 0
  /\ I2cPlaces

Cycles == [kind : {"none", "address", "write", "read", "stop"}, left : Nat, stop : BOOLEAN]

LEMMA I2cInitial == I2cInit => I2cIInv
<1> SUFFICES ASSUME I2cInit  PROVE I2cIInv
  OBVIOUS
<1> USE I2cAssumption DEF I2cAssumption, I2cInit, NoI2cCall, NoCycle
<1>1. I2cTypeOK
  <2>1. i2cCall \in [op : {"none", "write", "read", "write_read"},
                     wr : I2cLengths \cup {0}, rd : I2cLengths \cup {0}, stop : BOOLEAN]
    OBVIOUS
  <2>2. cycle \in Cycles
    BY DEF Cycles
  <2>3. i2cTx \in 0 .. I2cDepth /\ i2cRx \in 0 .. I2cDepth
    OBVIOUS
  <2>4. QED
    BY <2>1, <2>2, <2>3 DEF I2cTypeOK, Cycles
<1>2. I2cPlaces
  BY DEF I2cPlaces, I2cBusy, I2cBusReleased, I2cResultTruthful
<1>3. QED
  BY <1>1, <1>2 DEF I2cIInv

LEMMA I2cNumbers == I2cTypeOK => i2cCall.wr \in Nat /\ i2cCall.rd \in Nat
<1> SUFFICES ASSUME I2cTypeOK  PROVE i2cCall.wr \in Nat /\ i2cCall.rd \in Nat
  OBVIOUS
<1>1. i2cCall.wr \in I2cLengths \cup {0} /\ i2cCall.rd \in I2cLengths \cup {0}
  BY DEF I2cTypeOK
<1>2. I2cLengths \cup {0} \subseteq Nat
  BY I2cAssumption DEF I2cAssumption
<1>3. QED
  BY <1>1, <1>2

LEMMA I2cUserStep == I2cIInv /\ I2cUser => I2cIInv'
<1> SUFFICES ASSUME I2cIInv, I2cUser  PROVE I2cIInv'
  OBVIOUS
<1> USE I2cAssumption DEF I2cAssumption, I2cIInv, I2cTypeOK, I2cPlaces, I2cBusy, Launch
<1>1. ASSUME NEW en \in BOOLEAN, i2c_master_send_stop(en)  PROVE I2cIInv'
  BY <1>1 DEF i2c_master_send_stop, i2cBusVars, I2cBusReleased, I2cResultTruthful
<1>2. ASSUME NEW len \in I2cLengths, i2c_master_write(len)  PROVE I2cIInv'
  BY <1>2 DEF i2c_master_write, I2cBegin
<1>3. ASSUME NEW len \in I2cLengths, i2c_master_read(len)  PROVE I2cIInv'
  BY <1>3 DEF i2c_master_read, I2cBegin
<1>4. ASSUME NEW wr \in I2cLengths, NEW rd \in I2cLengths, i2c_master_write_read(wr, rd)
      PROVE  I2cIInv'
  BY <1>4 DEF i2c_master_write_read, I2cBegin
<1>5. QED
  BY <1>1, <1>2, <1>3, <1>4 DEF I2cUser

LEMMA I2cDriverStep == I2cIInv /\ I2cDriver => I2cIInv'
<1> SUFFICES ASSUME I2cIInv, I2cDriver  PROVE I2cIInv'
  OBVIOUS
<1> USE I2cAssumption DEF I2cAssumption, I2cIInv, I2cTypeOK, I2cPlaces, I2cBusy, Launch
<1>1. CASE I2cNack
  <2>1. cycle' \in Cycles
    BY <1>1 DEF I2cNack, Cycles
  <2>2. I2cTypeOK'
    BY <1>1, <2>1 DEF I2cNack, Cycles
  <2>3. I2cPlaces'
    BY <1>1, <2>1 DEF I2cNack, Cycles
  <2>4. QED
    BY <1>1, <2>2, <2>3 DEF I2cNack
<1>2. CASE I2cStopped
  <2>1. cycle' \in Cycles
    BY <1>2 DEF I2cStopped, i2cBusVars, I2cBusReleased, I2cResultTruthful, Cycles
  <2>2. I2cTypeOK'
    BY <1>2, <2>1 DEF I2cStopped, i2cBusVars, I2cBusReleased, I2cResultTruthful, Cycles
  <2>3. I2cPlaces'
    BY <1>2, <2>1 DEF I2cStopped, i2cBusVars, I2cBusReleased, I2cResultTruthful, Cycles
  <2>4. QED
    BY <1>2, <2>2, <2>3 DEF I2cStopped, i2cBusVars, I2cBusReleased, I2cResultTruthful
<1>3. CASE I2cWritePhase
  <2>1. I2cTypeOK'
    BY <1>3 DEF I2cWritePhase, i2cBusVars
  <2>2. selected /\ i2cCall.op \in {"write", "write_read"} /\ i2cTx = 0
    BY <1>3 DEF I2cWritePhase
  <2>3. I2cFilling'
    <3>1. cycle' = cycle /\ cycle.kind = "none" /\ i2cCall' = i2cCall /\ i2cCnt' = 0
      BY <1>3 DEF I2cWritePhase, i2cBusVars
    <3>2. selected' = selected /\ slaveGot' = 0 /\ i2cTx' = 0
      BY <1>3, <2>2 DEF I2cWritePhase, i2cBusVars
    <3>3. 0 <= i2cCall.wr
      BY I2cNumbers
    <3>4. QED
      BY <2>2, <3>1, <3>2, <3>3 DEF I2cFilling
  <2>4. QED
    BY <1>3, <2>1, <2>3 DEF I2cWritePhase, i2cBusVars
<1>4. CASE I2cFill
  <2> DEFINE ends == i2cCall.stop /\ i2cCall.op = "write"
  <2>1. CASE i2cCnt = 0
    <3>1. ends \in BOOLEAN
      BY Zenon
    <3> HIDE DEF ends
    <3>2. cycle' = [kind |-> "write", left |-> i2cCall.wr, stop |-> ends]
      BY <1>4, <2>1 DEF I2cFill, ends
    <3>3. cycle' \in Cycles /\ cycle'.kind = "write" /\ cycle'.left = i2cCall.wr
             /\ cycle'.stop = ends
      BY <3>1, <3>2, I2cNumbers DEF Cycles
    <3>4. I2cTypeOK'
      BY <1>4, <2>1, <3>3 DEF I2cFill, I2cFilling, Cycles
    <3>5. I2cFilling'
      <4>1. /\ slaveGot' = 0 /\ i2cTx' = 1 /\ i2cCnt' = 1 /\ 1 <= i2cCall.wr
            /\ selected' = selected /\ selected /\ i2cCall' = i2cCall
            /\ i2cCall.op \in {"write", "write_read"}
        BY <1>4, <2>1, I2cNumbers DEF I2cFill, I2cFilling
      <4>2. cycle'.stop <=> (i2cCall.stop /\ i2cCall.op = "write")
        BY <3>1, <3>3, Zenon DEF ends
      <4>3. QED
        BY <3>3, <4>1, <4>2, I2cNumbers DEF I2cFilling
    <3>6. QED
      BY <1>4, <3>4, <3>5 DEF I2cFill
  <2>2. CASE i2cCnt > 0
    BY <1>4, <2>2, I2cNumbers DEF I2cFill, I2cFilling
  <2>3. QED
    BY <2>1, <2>2
<1>5. CASE I2cWritten
  BY <1>5 DEF I2cWritten, i2cBusVars, I2cFilling, I2cBusReleased, I2cResultTruthful
<1>6. CASE I2cRestart
  BY <1>6 DEF I2cRestart, I2cFilling
<1>7. CASE I2cReadPhase
  BY <1>7 DEF I2cReadPhase
<1>8. CASE I2cTake
  BY <1>8 DEF I2cTake
<1>9. CASE I2cWasRead
  BY <1>9 DEF I2cWasRead, i2cBusVars, I2cBusReleased, I2cResultTruthful
<1>10. QED
  BY <1>1, <1>2, <1>3, <1>4, <1>5, <1>6, <1>7, <1>8, <1>9 DEF I2cDriver

(* A slave that answers once answers to the repeated start, too: the       *)
(* driver does not look (that it may not is the run serial_nack).          *)
LEMMA I2cHardwareStep == RestartAcked /\ I2cIInv /\ I2cHardware => I2cIInv'
<1> SUFFICES ASSUME RestartAcked, I2cIInv, I2cHardware  PROVE I2cIInv'
  OBVIOUS
<1> USE I2cAssumption DEF I2cAssumption, I2cIInv, I2cTypeOK, I2cPlaces, I2cBusy, NoCycle, I2cFilling
<1>1. CASE BusAddress
  <2>1. cycle' \in Cycles
    BY <1>1 DEF BusAddress, i2cCpuVars, Cycles
  <2>2. I2cTypeOK'
    BY <1>1, <2>1 DEF BusAddress, i2cCpuVars, Cycles
  <2>3. i2cPc \in {"address", "restart"} /\ selected
    BY <1>1 DEF BusAddress
  <2>4. PICK nack \in BOOLEAN : /\ i2cPc = "restart" => ~nack
                                /\ nackIn' = nack /\ selected' = (selected /\ ~nack)
    BY <1>1 DEF BusAddress
  <2>5. selected' <=> ~nackIn'
    BY <2>3, <2>4, Zenon
  <2>6. i2cPc = "restart" => selected'
    BY <2>3, <2>4, Zenon
  <2>7. I2cPlaces'
    BY <1>1, <2>1, <2>3, <2>5, <2>6 DEF BusAddress, i2cCpuVars, Cycles
  <2>8. QED
    BY <1>1, <2>2, <2>7 DEF BusAddress, i2cCpuVars
<1>2. CASE BusWrite
  <2>1. cycle' \in Cycles
    BY <1>2 DEF BusWrite, BusByte, i2cCpuVars, Cycles
  <2>2. I2cTypeOK'
    BY <1>2, <2>1 DEF BusWrite, BusByte, i2cCpuVars, Cycles
  <2>3. i2cPc = "fill" /\ cycle.left = i2cCall.wr - slaveGot
    BY <1>2 DEF BusWrite
  <2>4. CASE cycle.left <= 1
    <3>1. cycle' = NoCycle /\ slaveGot' = i2cCall.wr /\ bus' = IF cycle.stop THEN "free" ELSE bus
      BY <1>2, <2>3, <2>4 DEF BusWrite, BusByte
    <3>2. I2cPlaces'
      BY <1>2, <2>2, <2>3, <3>1 DEF BusWrite, i2cCpuVars
    <3>3. QED
      BY <1>2, <2>2, <3>2 DEF BusWrite, i2cCpuVars
  <2>5. CASE cycle.left > 1
    <3>1. cycle' = [cycle EXCEPT !.left = cycle.left - 1]
      BY <1>2, <2>5 DEF BusWrite, BusByte
    <3>2. I2cPlaces'
      BY <1>2, <2>2, <2>3, <2>5, <3>1 DEF BusWrite, i2cCpuVars
    <3>3. QED
      BY <1>2, <2>2, <3>2 DEF BusWrite, i2cCpuVars
  <2>6. QED
    BY <2>4, <2>5
<1>3. CASE BusRead
  <2>1. cycle' \in Cycles
    BY <1>3 DEF BusRead, BusByte, i2cCpuVars, Cycles
  <2>2. I2cTypeOK'
    BY <1>3, <2>1 DEF BusRead, BusByte, i2cCpuVars, Cycles
  <2>3. I2cPlaces'
    BY <1>3, <2>1 DEF BusRead, BusByte, i2cCpuVars, Cycles
  <2>4. QED
    BY <1>3, <2>2, <2>3 DEF BusRead, BusByte, i2cCpuVars
<1>4. CASE BusStop
  <2>1. cycle' \in Cycles
    BY <1>4 DEF BusStop, BusByte, i2cCpuVars, Cycles
  <2>2. I2cTypeOK'
    BY <1>4, <2>1 DEF BusStop, BusByte, i2cCpuVars, Cycles
  <2>3. i2cPc = "stop" /\ cycle' = NoCycle /\ bus' = "free"
    BY <1>4 DEF BusStop, BusByte
  <2>4. I2cPlaces'
    BY <1>4, <2>2, <2>3 DEF BusStop, i2cCpuVars
  <2>5. QED
    BY <1>4, <2>2, <2>4 DEF BusStop, i2cCpuVars
<1>5. QED
  BY <1>1, <1>2, <1>3, <1>4 DEF I2cHardware

LEMMA I2cStep == RestartAcked /\ I2cIInv /\ [I2cNext]_i2cVars => I2cIInv'
<1> SUFFICES ASSUME RestartAcked, I2cIInv, [I2cNext]_i2cVars  PROVE I2cIInv'
  OBVIOUS
<1>1. CASE UNCHANGED i2cVars
  BY <1>1 DEF i2cVars, i2cCpuVars, i2cBusVars, I2cIInv, I2cTypeOK, I2cPlaces, I2cBusy,
     I2cFilling, I2cBusReleased, I2cResultTruthful
<1>2. QED
  BY <1>1, I2cUserStep, I2cDriverStep, I2cHardwareStep DEF I2cNext

LEMMA I2cSound == I2cIInv => I2cTypeOK /\ I2cCallsSound
BY DEF I2cIInv, I2cPlaces, I2cCallsSound, I2cBusReleased, I2cResultTruthful

-----------------------------------------------------------------------------
(* The UART without DMA.  The driver's index is the hardware's lane, save  *)
(* between a reset and the clearing of the index, when nothing has passed; *)
(* and the bytes in both FIFOs carry consecutive numbers.                  *)
UartLanes ==
  /\ uartWidth = 1 => IF "tx" \in uartOwed THEN uartTxLane = 0
                      ELSE uart_tx_byte_index = uartTxLane
  /\ uartWidth = 2 => uartTxLane = 2 * uart_tx_hword_index
  /\ uartWidth = 4 => uartTxLane = 0
  /\ IF "rx" \in uartOwed THEN uartRxLane = 0 ELSE uart_rx_byte_index = uartRxLane

UartNumbered ==
  /\ UartInOrder
  /\ \A k \in 1 .. Len(uartRx) : uartRx[k] = Number(uartCame - Len(uartRx) + k - 1)

UartIInv == UartFifoTypeOK /\ UartLanes /\ UartNumbered

LEMMA Numbers == UartNumbers \in Nat \ {0}
BY UartPortAssumption DEF UartPortAssumption

LEMMA NumberType ==
  ASSUME NEW a \in Int
  PROVE  Number(a) \in UartByte /\ Number(a) \in Int
BY Numbers, DivMod DEF Number, UartByte

(* Numbers can be taken modulo UartNumbers at any point of a sum.          *)
LEMMA NumberAgain ==
  ASSUME NEW a \in Int, NEW b \in Int
  PROVE  Number(Number(a) + b) = Number(a + b)
<1>1. PICK q \in Int, r \in Int : a = UartNumbers * q + r /\ a % UartNumbers = r
  <2>1. a % UartNumbers \in Int /\ a \div UartNumbers \in Int
    BY Numbers, DivMod
  <2>2. QED
    BY <2>1, Numbers, DivMod
<1>2. PICK q2 \in Int, t \in 0 .. UartNumbers - 1 :
        r + b = UartNumbers * q2 + t /\ (r + b) % UartNumbers = t
  <2>1. r + b \in Int
    OBVIOUS
  <2>2. (r + b) \div UartNumbers \in Int /\ (r + b) % UartNumbers \in 0 .. UartNumbers - 1
        /\ r + b = UartNumbers * ((r + b) \div UartNumbers) + ((r + b) % UartNumbers)
    BY <2>1, Numbers, DivMod
  <2>3. QED
    BY <2>2
<1>3. Number(Number(a) + b) = t
  BY <1>1, <1>2 DEF Number
<1>4. a + b = UartNumbers * (q + q2) + t
  <2>1. UartNumbers * q \in Int /\ UartNumbers * q2 \in Int
    BY Numbers
  <2>2. UartNumbers * (q + q2) = UartNumbers * q + UartNumbers * q2
    BY Numbers
  <2>3. QED
    BY <1>1, <1>2, <2>1, <2>2
<1>5. (a + b) % UartNumbers = t
  <2>1. q + q2 \in Int
    OBVIOUS
  <2>2. (UartNumbers * (q + q2) + t) % UartNumbers = t
    BY <2>1, Numbers, ModUnique
  <2>3. QED
    BY <1>4, <2>2
<1>6. QED
  BY <1>3, <1>5 DEF Number

(* Bytes put at the end of a sequence.                                     *)
LEMMA PutBehind ==
  ASSUME NEW S, NEW s \in Seq(S), NEW n \in Nat, NEW t \in [1 .. n -> S]
  PROVE  /\ s \o t \in Seq(S)
         /\ Len(s \o t) = Len(s) + n
         /\ \A k \in 1 .. Len(s) + n : (s \o t)[k] = IF k <= Len(s) THEN s[k] ELSE t[k - Len(s)]
<1>1. t \in Seq(S) /\ Len(t) = n
  OBVIOUS
<1>2. QED
  BY <1>1, ConcatProperties

(* Bytes stored at the lane the hardware expects are the next ones sent.   *)
LEMMA StoredInOrder ==
  ASSUME UartFifoTypeOK, UartNumbered, NEW bytes \in 1 .. 4,
         Len(uartTx) + bytes <= UartDepth, StoreAt(uartTxLane, bytes)
  PROVE  /\ uartTx' \in Seq(UartByte \cup {Stale})
         /\ uartSent' \in UartByte
         /\ Len(uartTx') <= UartDepth
         /\ \A k \in DOMAIN uartTx' : uartTx'[k] = Number(uartSent' - Len(uartTx') + k - 1)
<1> DEFINE S == UartByte \cup {Stale}
           new == [k \in 1 .. bytes |-> Number(uartSent + k - 1)]
<1>1. uartSent \in Int /\ Len(uartTx) \in Nat /\ uartTx \in Seq(S)
  BY Numbers DEF UartFifoTypeOK, UartByte
<1>2. new \in [1 .. bytes -> S]
  <2>1. \A k \in 1 .. bytes : Number(uartSent + k - 1) \in S
    BY <1>1, NumberType
  <2>2. QED
    BY <2>1
<1>3. uartTx' = uartTx \o new /\ uartSent' = Number(uartSent + bytes)
  BY DEF StoreAt
<1>4. bytes \in Nat
  OBVIOUS
<1> HIDE DEF S
<1>5. /\ uartTx' \in Seq(S) /\ Len(uartTx') = Len(uartTx) + bytes
      /\ \A k \in 1 .. Len(uartTx) + bytes :
            uartTx'[k] = IF k <= Len(uartTx) THEN uartTx[k] ELSE new[k - Len(uartTx)]
  <2> HIDE DEF new
  <2>1. QED
    BY <1>1, <1>2, <1>3, <1>4, PutBehind
<1>6. uartSent' \in UartByte
  BY <1>1, <1>3, <1>4, NumberType
<1>7. ASSUME NEW k \in 1 .. Len(uartTx) + bytes
      PROVE  uartTx'[k] = Number(uartSent + k - Len(uartTx) - 1)
  <2>1. CASE k <= Len(uartTx)
    <3>1. k \in DOMAIN uartTx
      BY <2>1, <1>1
    <3>2. uartTx[k] = Number(uartSent - Len(uartTx) + k - 1)
      BY <3>1 DEF UartNumbered, UartInOrder
    <3>3. uartSent - Len(uartTx) + k - 1 = uartSent + k - Len(uartTx) - 1
      BY <1>1
    <3>4. QED
      BY <1>5, <2>1, <3>2, <3>3
  <2>2. CASE k > Len(uartTx)
    <3>1. k - Len(uartTx) \in 1 .. bytes
      BY <2>2, <1>1
    <3>2. new[k - Len(uartTx)] = Number(uartSent + (k - Len(uartTx)) - 1)
      BY <3>1
    <3>3. uartSent + (k - Len(uartTx)) - 1 = uartSent + k - Len(uartTx) - 1
      BY <1>1
    <3>4. QED
      BY <1>1, <1>5, <2>2, <3>2, <3>3
  <2>3. QED
    BY <2>1, <2>2, <1>1
<1>8. ASSUME NEW k \in 1 .. Len(uartTx) + bytes
      PROVE  Number(uartSent' - Len(uartTx') + k - 1) = Number(uartSent + k - Len(uartTx) - 1)
  <2> DEFINE b == k - 1 - (Len(uartTx) + bytes)
  <2>1. uartSent' - Len(uartTx') + k - 1 = Number(uartSent + bytes) + b
    <3>1. uartSent + bytes \in Int
      BY <1>1
    <3>2. Number(uartSent + bytes) \in Int
      BY <3>1, NumberType
    <3>3. QED
      BY <1>1, <1>3, <1>5, <3>2
  <2>2. uartSent + bytes + b = uartSent + k - Len(uartTx) - 1
    BY <1>1
  <2>3. b \in Int /\ uartSent + bytes \in Int
    BY <1>1
  <2> HIDE DEF b
  <2>4. Number(Number(uartSent + bytes) + b) = Number(uartSent + bytes + b)
    BY <2>3, NumberAgain
  <2>5. QED
    BY <2>1, <2>2, <2>4
<1>9. DOMAIN uartTx' = 1 .. Len(uartTx) + bytes
  BY <1>5, LenProperties
<1>10. \A k \in DOMAIN uartTx' : uartTx'[k] = Number(uartSent' - Len(uartTx') + k - 1)
  BY <1>7, <1>8, <1>9
<1>11. Len(uartTx') <= UartDepth
  BY <1>5
<1>12. QED
  BY <1>5, <1>6, <1>10, <1>11 DEF S

(* What the three calls that send have in common, and each of them.        *)
LEMMA SentInOrder ==
  ASSUME UartIInv, NEW bytes \in 1 .. 4, Len(uartTx) + bytes <= UartDepth,
         StoreAt(uartTxLane, bytes)
  PROVE  /\ UartNumbered'
         /\ uartTx' \in Seq(UartByte \cup {Stale}) /\ uartSent' \in UartByte
         /\ uartTxLane' = (uartTxLane + bytes) % 4
         /\ UNCHANGED <<uartWidth, uartRxVars, uartOwed>>
<1>1. /\ uartTx' \in Seq(UartByte \cup {Stale}) /\ uartSent' \in UartByte
      /\ Len(uartTx') <= UartDepth
      /\ \A k \in DOMAIN uartTx' : uartTx'[k] = Number(uartSent' - Len(uartTx') + k - 1)
  BY StoredInOrder DEF UartIInv
<1>2. uartRead' = uartRead /\ uartCame' = uartCame /\ uartRx' = uartRx
  BY DEF StoreAt, uartRxVars
<1>3. UartNumbered'
  BY <1>1, <1>2 DEF UartIInv, UartNumbered, UartInOrder
<1>4. QED
  BY <1>1, <1>3 DEF StoreAt

LEMMA UartSendSteps ==
  ASSUME UartIInv
  PROVE  /\ uartWidth = 1 /\ "tx" \notin uartOwed /\ uart_send_byte => UartIInv'
         /\ uartWidth = 2 /\ uart_send_hword => UartIInv'
         /\ uartWidth = 4 /\ uart_send_word => UartIInv'
<1> USE DEF uart_get_txfifo_num
<1>1. UartDepth = 8 /\ Len(uartTx) \in Nat /\ uartTxLane \in 0 .. 3
  BY UartPortAssumption, LenProperties DEF UartPortAssumption, UartIInv, UartFifoTypeOK
<1>2. ASSUME uartWidth = 1, "tx" \notin uartOwed, uart_send_byte  PROVE UartIInv'
  <2>1. uart_tx_byte_index = uartTxLane
    BY <1>2 DEF UartIInv, UartLanes
  <2>2. StoreAt(uartTxLane, 1) /\ Len(uartTx) + 1 <= UartDepth
    BY <1>1, <1>2, <2>1 DEF uart_send_byte
  <2>3. /\ UartNumbered' /\ uartTx' \in Seq(UartByte \cup {Stale}) /\ uartSent' \in UartByte
        /\ uartTxLane' = (uartTxLane + 1) % 4 /\ UNCHANGED <<uartWidth, uartRxVars, uartOwed>>
    BY <2>2, SentInOrder
  <2>4. uart_tx_byte_index' = (uart_tx_byte_index + 1) % 4
        /\ uart_tx_hword_index' = uart_tx_hword_index
    BY <1>2 DEF uart_send_byte
  <2>5. UartFifoTypeOK'
    BY <1>1, <2>3, <2>4 DEF UartIInv, UartFifoTypeOK, uartRxVars
  <2>6. UartLanes'
    BY <1>1, <1>2, <2>1, <2>3, <2>4 DEF UartIInv, UartLanes, uartRxVars
  <2>7. QED
    BY <2>3, <2>5, <2>6 DEF UartIInv
<1>3. ASSUME uartWidth = 2, uart_send_hword  PROVE UartIInv'
  <2>1. uartTxLane = 2 * uart_tx_hword_index /\ uart_tx_hword_index \in {0, 1}
    BY <1>3 DEF UartIInv, UartLanes, UartFifoTypeOK
  <2>2. StoreAt(uartTxLane, 2) /\ Len(uartTx) + 2 <= UartDepth
    BY <1>1, <1>3, <2>1 DEF uart_send_hword
  <2>3. /\ UartNumbered' /\ uartTx' \in Seq(UartByte \cup {Stale}) /\ uartSent' \in UartByte
        /\ uartTxLane' = (uartTxLane + 2) % 4 /\ UNCHANGED <<uartWidth, uartRxVars, uartOwed>>
    BY <2>2, SentInOrder
  <2>4. uart_tx_hword_index' = (uart_tx_hword_index + 1) % 2
        /\ uart_tx_byte_index' = uart_tx_byte_index
    BY <1>3 DEF uart_send_hword
  <2>5. uart_tx_hword_index' \in 0 .. 1 /\ uartTxLane' \in 0 .. 3
        /\ uartTxLane' = 2 * uart_tx_hword_index'
    BY <2>1, <2>3, <2>4
  <2>6. UartFifoTypeOK'
    BY <2>3, <2>4, <2>5 DEF UartIInv, UartFifoTypeOK, uartRxVars
  <2>7. UartLanes'
    BY <1>3, <2>3, <2>4, <2>5 DEF UartIInv, UartLanes, uartRxVars
  <2>8. QED
    BY <2>3, <2>6, <2>7 DEF UartIInv
<1>4. ASSUME uartWidth = 4, uart_send_word  PROVE UartIInv'
  <2>1. uartTxLane = 0
    BY <1>4 DEF UartIInv, UartLanes
  <2>2. StoreAt(uartTxLane, 4) /\ Len(uartTx) + 4 <= UartDepth
    BY <1>1, <1>4, <2>1 DEF uart_send_word
  <2>3. /\ UartNumbered' /\ uartTx' \in Seq(UartByte \cup {Stale}) /\ uartSent' \in UartByte
        /\ uartTxLane' = (uartTxLane + 4) % 4 /\ UNCHANGED <<uartWidth, uartRxVars, uartOwed>>
    BY <2>2, SentInOrder
  <2>4. UNCHANGED <<uart_tx_byte_index, uart_tx_hword_index>> /\ uartTxLane' = 0
    BY <1>4, <2>1, <2>3 DEF uart_send_word
  <2>5. UartFifoTypeOK'
    BY <2>3, <2>4 DEF UartIInv, UartFifoTypeOK, uartRxVars
  <2>6. UartLanes'
    BY <1>4, <2>3, <2>4 DEF UartIInv, UartLanes, uartRxVars
  <2>7. QED
    BY <2>3, <2>5, <2>6 DEF UartIInv
<1>5. QED
  BY <1>2, <1>3, <1>4

(* The sending half as it is, and a receiving half that a step of the      *)
(* other side of the port, or a read, leaves.                              *)
LEMMA UartReadStep ==
  ASSUME UartIInv, uart_get_rxfifo_num > 0, "rx" \notin uartOwed, uart_read_byte
  PROVE  UartIInv'
<1>1. uartRx \in Seq(UartByte) /\ uartCame \in Int /\ Len(uartRx) \in Nat /\ uartRx # <<>>
  BY Numbers, LenProperties, EmptySeq DEF UartIInv, UartFifoTypeOK, uart_get_rxfifo_num, UartByte
<1>2. uart_rx_byte_index = uartRxLane /\ uartRxLane \in 0 .. 3
  BY DEF UartIInv, UartLanes, UartFifoTypeOK
<1>3. /\ uartRead' = Head(uartRx) /\ uartRx' = Tail(uartRx)
      /\ uart_rx_byte_index' = uartRxLane' /\ uartRxLane' = (uartRxLane + 1) % 4
  BY <1>2 DEF uart_read_byte
<1>4. UNCHANGED <<uartWidth, uartTxVars, uartCame, uartOwed>>
  BY DEF uart_read_byte
<1>5. /\ uartRx' \in Seq(UartByte) /\ Len(uartRx') = Len(uartRx) - 1
      /\ \A i \in 1 .. Len(uartRx') : uartRx'[i] = uartRx[i + 1]
      /\ uartRead' = uartRx[1] /\ uartRead' \in UartByte
  <2>1. Head(uartRx) = uartRx[1]
    BY <1>1
  <2>2. QED
    BY <1>1, <1>3, <2>1, HeadTailProperties
<1>6. Len(uartRx) >= 1
  BY <1>1, EmptySeq
<1>7. uartRead' = Number(uartCame - Len(uartRx))
  BY <1>1, <1>5, <1>6 DEF UartIInv, UartNumbered
<1>8. UartFifoTypeOK'
  BY <1>2, <1>3, <1>4, <1>5 DEF UartIInv, UartFifoTypeOK, uartTxVars
<1>9. UartLanes'
  BY <1>3, <1>4 DEF UartIInv, UartLanes, uartTxVars
<1>10. UartInOrder'
  <2>1. uartCame - (Len(uartRx) - 1) - 1 = uartCame - Len(uartRx)
    BY <1>1
  <2>2. uartRead' = Number(uartCame' - Len(uartRx') - 1)
    BY <1>4, <1>5, <1>7, <2>1
  <2>3. QED
    BY <1>4, <2>2 DEF UartIInv, UartNumbered, UartInOrder, uartTxVars
<1>11. ASSUME NEW k \in 1 .. Len(uartRx')
       PROVE  uartRx'[k] = Number(uartCame' - Len(uartRx') + k - 1)
  <2>1. k + 1 \in 1 .. Len(uartRx)
    BY <1>1, <1>5
  <2>2. uartRx[k + 1] = Number(uartCame - Len(uartRx) + (k + 1) - 1)
    BY <2>1 DEF UartIInv, UartNumbered
  <2>3. uartCame - Len(uartRx) + (k + 1) - 1 = uartCame - (Len(uartRx) - 1) + k - 1
    BY <1>1
  <2>4. QED
    BY <1>4, <1>5, <2>2, <2>3
<1>12. QED
  BY <1>8, <1>9, <1>10, <1>11 DEF UartIInv, UartNumbered

LEMMA UartShiftInStep == ASSUME UartIInv, UartShiftIn  PROVE UartIInv'
<1>1. uartRx \in Seq(UartByte) /\ uartCame \in UartByte /\ uartCame \in Int /\ Len(uartRx) \in Nat
  BY Numbers, LenProperties DEF UartIInv, UartFifoTypeOK, UartByte
<1>2. uartRx' = Append(uartRx, uartCame) /\ uartCame' = Number(uartCame + 1)
  BY DEF UartShiftIn
<1>3. UNCHANGED <<uartWidth, uartTxVars, uart_rx_byte_index, uartRxLane, uartRead, uartOwed>>
  BY DEF UartShiftIn
<1>4. /\ uartRx' \in Seq(UartByte) /\ Len(uartRx') = Len(uartRx) + 1
      /\ \A i \in 1 .. Len(uartRx) : uartRx'[i] = uartRx[i]
      /\ uartRx'[Len(uartRx) + 1] = uartCame
  BY <1>1, <1>2
<1>5. uartCame' \in UartByte
  BY <1>1, <1>2, NumberType
<1>6. ASSUME NEW b \in Int  PROVE Number(uartCame' + b) = Number(uartCame + (b + 1))
  <2>1. uartCame + 1 \in Int /\ uartCame + 1 + b = uartCame + (b + 1)
    BY <1>1
  <2>2. QED
    BY <1>2, <2>1, NumberAgain
<1>7. uartRead' = Number(uartCame' - Len(uartRx') - 1)
  <2>1. -Len(uartRx') - 1 \in Int /\ uartCame' \in Int
    BY <1>1, <1>4, <1>5, Numbers DEF UartByte
  <2>2. Number(uartCame' + (-Len(uartRx') - 1)) = Number(uartCame + (-Len(uartRx') - 1 + 1))
    BY <1>6, <2>1
  <2>3. /\ uartCame' + (-Len(uartRx') - 1) = uartCame' - Len(uartRx') - 1
        /\ uartCame + (-Len(uartRx') - 1 + 1) = uartCame - Len(uartRx) - 1
    BY <1>1, <1>4, <2>1
  <2>4. QED
    BY <1>3, <2>2, <2>3 DEF UartIInv, UartNumbered, UartInOrder
<1>8. ASSUME NEW k \in 1 .. Len(uartRx')
      PROVE  uartRx'[k] = Number(uartCame' - Len(uartRx') + k - 1)
  <2> DEFINE b == -Len(uartRx') + k - 1
  <2>1. b \in Int /\ uartCame' \in Int
    BY <1>1, <1>4, <1>5, Numbers DEF UartByte
  <2>2. /\ uartCame' + b = uartCame' - Len(uartRx') + k - 1
        /\ uartCame + (b + 1) = uartCame - Len(uartRx) + k - 1
    BY <1>1, <1>4, <2>1
  <2> HIDE DEF b
  <2>3. Number(uartCame' - Len(uartRx') + k - 1) = Number(uartCame - Len(uartRx) + k - 1)
    BY <1>6, <2>1, <2>2
  <2>4. CASE k <= Len(uartRx)
    BY <1>1, <1>4, <2>3, <2>4 DEF UartIInv, UartNumbered
  <2>5. CASE k = Len(uartRx) + 1
    <3>1. uartCame - Len(uartRx) + k - 1 = uartCame
      BY <1>1, <2>5
    <3>2. Number(uartCame) = uartCame
      BY <1>1, Numbers, ModUnique DEF Number, UartByte
    <3>3. QED
      BY <1>4, <2>3, <2>5, <3>1, <3>2
  <2>6. QED
    BY <1>1, <1>4, <2>4, <2>5
<1>9. UartFifoTypeOK'
  BY <1>3, <1>4, <1>5 DEF UartIInv, UartFifoTypeOK, uartTxVars
<1>10. UartLanes'
  BY <1>3 DEF UartIInv, UartLanes, uartTxVars
<1>11. UartNumbered'
  BY <1>3, <1>7, <1>8 DEF UartIInv, UartNumbered, UartInOrder, uartTxVars
<1>12. QED
  BY <1>9, <1>10, <1>11 DEF UartIInv

LEMMA UartShiftOutStep == ASSUME UartIInv, UartShiftOut  PROVE UartIInv'
<1> DEFINE S == UartByte \cup {Stale}
<1>1. uartTx \in Seq(S) /\ uartTx # <<>> /\ Len(uartTx) \in Nat /\ uartSent \in Int
  BY Numbers, LenProperties DEF UartIInv, UartFifoTypeOK, UartByte, UartShiftOut
<1>2. uartTx' = Tail(uartTx)
      /\ UNCHANGED <<uartWidth, uart_tx_byte_index, uart_tx_hword_index, uartTxLane, uartSent,
                     uartRxVars, uartOwed>>
  BY DEF UartShiftOut
<1> HIDE DEF S
<1>3. /\ uartTx' \in Seq(S) /\ Len(uartTx') = Len(uartTx) - 1
      /\ \A i \in 1 .. Len(uartTx') : uartTx'[i] = uartTx[i + 1]
      /\ DOMAIN uartTx' = 1 .. Len(uartTx') /\ DOMAIN uartTx = 1 .. Len(uartTx)
  BY <1>1, <1>2, HeadTailProperties, LenProperties
<1>4. ASSUME NEW k \in DOMAIN uartTx'
      PROVE  uartTx'[k] = Number(uartSent' - Len(uartTx') + k - 1)
  <2>1. k + 1 \in DOMAIN uartTx /\ k \in Int
    BY <1>1, <1>3, <1>4
  <2>2. uartTx[k + 1] = Number(uartSent - Len(uartTx) + (k + 1) - 1)
    BY <2>1 DEF UartIInv, UartNumbered, UartInOrder
  <2>3. uartSent - Len(uartTx) + (k + 1) - 1 = uartSent - (Len(uartTx) - 1) + k - 1
    BY <1>1, <2>1
  <2>4. QED
    BY <1>2, <1>3, <1>4, <2>2, <2>3
<1>5. Len(uartTx') <= UartDepth
  <2>1. Len(uartTx) <= UartDepth /\ UartDepth = 8
    BY UartPortAssumption DEF UartPortAssumption, UartIInv, UartNumbered, UartInOrder
  <2>2. QED
    BY <1>1, <1>3, <2>1
<1>6. UartNumbered'
  BY <1>2, <1>4, <1>5 DEF UartIInv, UartNumbered, UartInOrder, uartRxVars
<1>7. UartFifoTypeOK'
  BY <1>2, <1>3 DEF UartIInv, UartFifoTypeOK, uartRxVars, S
<1>8. UartLanes'
  BY <1>2 DEF UartIInv, UartLanes, uartRxVars
<1>9. QED
  BY <1>6, <1>7, <1>8 DEF UartIInv

LEMMA UartResetStep ==
  ASSUME UartIInv, uartWidth = 2 => uart_tx_hword_index = 0, uart_reset
  PROVE  UartIInv'
<1>1. /\ uartTx' = <<>> /\ uartTxLane' = 0 /\ uartSent' = 0
      /\ uartRx' = <<>> /\ uartRxLane' = 0 /\ uartCame' = 0 /\ uartRead' = Number(-1)
      /\ uartOwed' = {"tx", "rx"}
      /\ UNCHANGED <<uartWidth, uart_tx_byte_index, uart_tx_hword_index, uart_rx_byte_index>>
  BY DEF uart_reset
<1>2. uartTx' \in Seq(UartByte \cup {Stale}) /\ uartRx' \in Seq(UartByte)
  BY <1>1
<1>3. 0 \in UartByte /\ Number(-1) \in UartByte
  BY Numbers, NumberType DEF UartByte
<1>4. UartFifoTypeOK'
  BY <1>1, <1>2, <1>3 DEF UartIInv, UartFifoTypeOK
<1>5. UartLanes'
  BY <1>1 DEF UartIInv, UartLanes
<1>6. UartNumbered'
  <2>1. Len(uartTx') = 0 /\ Len(uartRx') = 0 /\ DOMAIN uartTx' = {} /\ 0 - 0 - 1 = -1
    BY <1>1
  <2>2. Len(uartTx') <= UartDepth
    BY <2>1, UartPortAssumption DEF UartPortAssumption
  <2>3. QED
    BY <1>1, <2>1, <2>2 DEF UartNumbered, UartInOrder
<1>7. QED
  BY <1>4, <1>5, <1>6 DEF UartIInv

LEMMA UartClearSteps ==
  ASSUME UartIInv
  PROVE  /\ "tx" \in uartOwed /\ uart_clr_tx_index => UartIInv'
         /\ "rx" \in uartOwed /\ uart_clr_rx_index => UartIInv'
<1>1. ASSUME "tx" \in uartOwed, uart_clr_tx_index  PROVE UartIInv'
  BY <1>1 DEF uart_clr_tx_index, UartIInv, UartFifoTypeOK, UartLanes, UartNumbered, UartInOrder,
     uartRxVars
<1>2. ASSUME "rx" \in uartOwed, uart_clr_rx_index  PROVE UartIInv'
  BY <1>2 DEF uart_clr_rx_index, UartIInv, UartFifoTypeOK, UartLanes, UartNumbered, UartInOrder,
     uartTxVars
<1>3. QED
  BY <1>1, <1>2

LEMMA UartInitial == UartFifoInit => UartIInv
<1> SUFFICES ASSUME UartFifoInit  PROVE UartIInv
  OBVIOUS
<1>1. uartTx \in Seq(UartByte \cup {Stale}) /\ uartRx \in Seq(UartByte)
  BY DEF UartFifoInit
<1>2. 0 \in UartByte /\ Number(-1) \in UartByte
  BY Numbers, NumberType DEF UartByte
<1>3. UartFifoTypeOK
  BY <1>1, <1>2 DEF UartFifoInit, UartFifoTypeOK
<1>4. UartLanes
  BY DEF UartFifoInit, UartLanes
<1>5. UartNumbered
  <2>1. Len(uartTx) = 0 /\ Len(uartRx) = 0 /\ DOMAIN uartTx = {} /\ 0 - 0 - 1 = -1
    BY DEF UartFifoInit
  <2>2. Len(uartTx) <= UartDepth
    BY <2>1, UartPortAssumption DEF UartPortAssumption
  <2>3. QED
    BY <2>1, <2>2 DEF UartFifoInit, UartNumbered, UartInOrder
<1>6. QED
  BY <1>3, <1>4, <1>5 DEF UartIInv

(* Nothing clears the index of half-words: a sender of half-words resets   *)
(* the port between two whole words only.                                  *)
LEMMA UartStep == ~HalfWordResets /\ UartIInv /\ [UartFifoNext]_uartVars => UartIInv'
<1> SUFFICES ASSUME ~HalfWordResets, UartIInv, [UartFifoNext]_uartVars  PROVE UartIInv'
  OBVIOUS
<1>1. CASE UNCHANGED uartVars
  BY <1>1 DEF uartVars, uartTxVars, uartRxVars, UartIInv, UartFifoTypeOK, UartLanes,
     UartNumbered, UartInOrder
<1>2. CASE UartCaller
  BY <1>2, UartSendSteps, UartReadStep, UartResetStep, UartClearSteps DEF UartCaller
<1>3. QED
  BY <1>1, <1>2, UartShiftOutStep, UartShiftInStep DEF UartFifoNext

-----------------------------------------------------------------------------
(* The UART with DMA.  A channel that runs was given the size that         *)
(* uart_dma_rev_size holds, as long as the application receives on one     *)
(* port: the variable is one for both.                                     *)
OnePort == \E port : DmaPorts = {port}

UartDmaIInv ==
  /\ UartDmaTypeOK
  /\ RevLengthExact
  /\ \A port \in DmaPorts :
       rev[port].on => /\ rev[port].size = uart_dma_rev_size /\ uart_dma_rev_size \in RevSizes
                       /\ rev[port].got < rev[port].size /\ rev[port].len = NoLength

Channel == [on : BOOLEAN, size : RevSizes \cup {0}, got : Nat, len : Int]

(* Of a size that is a whole number of words, and bytes fewer than that,   *)
(* the length computed is the number of bytes.                             *)
LEMMA LengthOf ==
  ASSUME NEW port, rev[port].size = uart_dma_rev_size, uart_dma_rev_size \in RevSizes,
         rev[port].got \in Nat, rev[port].got < rev[port].size
  PROVE  uart_get_dma_rev_data_len(port) = rev[port].got
<1> DEFINE size == uart_dma_rev_size
           got == rev[port].got
<1>1. size \in Nat /\ size % 4 = 0 /\ got \in Nat
  BY RevSizesAssumption DEF RevSizesAssumption
<1>2. SizeRegister(port) = Words(size) - Words(got)
  <2>1. (size % 4) * 2^22 = 0
    BY <1>1
  <2>2. Words(size) \in Int /\ Words(got) \in Int
    BY <1>1 DEF Words
  <2>3. QED
    BY <2>1, <2>2 DEF SizeRegister
<1> HIDE DEF size, got
<1>3. Words(size) = size \div 4
  BY <1>1 DEF Words
<1>4. (size \div 4) - (Words(size) - Words(got)) = Words(got)
  <2>1. size \div 4 \in Int /\ Words(got) \in Int
    BY <1>1 DEF Words
  <2>2. QED
    BY <1>3, <2>1
<1>5. uart_get_dma_rev_data_len(port) =
        IF got % 4 = 0 THEN 4 * Words(got) ELSE 4 * (Words(got) - 1) + (got % 4)
  BY <1>2, <1>4 DEF uart_get_dma_rev_data_len, size, got
<1>6. @ = got
  BY <1>1 DEF Words
<1>7. QED
  BY <1>5, <1>6 DEF got

LEMMA UartDmaInitial == UartDmaInit => UartDmaIInv
<1> SUFFICES ASSUME UartDmaInit  PROVE UartDmaIInv
  OBVIOUS
<1>1. Stopped \in Channel
  BY DEF Stopped, Channel, NoLength
<1>2. rev \in [DmaPorts -> Channel] /\ \A port \in DmaPorts : rev[port] = Stopped
  BY <1>1 DEF UartDmaInit
<1>3. UartDmaTypeOK
  <2>1. \A port \in DmaPorts : rev[port].got = 0 /\ rev[port].size = 0
    BY <1>2 DEF Stopped
  <2>2. \A port \in DmaPorts : rev[port].got <= rev[port].size
    BY <2>1
  <2>3. txDone \in BOOLEAN /\ txOn \in BOOLEAN /\ sendPc = "idle" /\ uart_dma_rev_size = 0
    BY DEF UartDmaInit
  <2>4. QED
    BY <1>2, <2>2, <2>3 DEF UartDmaTypeOK, Channel
<1>4. QED
  BY <1>2, <1>3 DEF UartDmaIInv, RevLengthExact, Stopped

LEMMA UartSendingStep ==
  ASSUME UartDmaIInv, UartSendDma \/ UartSending  PROVE UartDmaIInv'
<1> USE DEF UartDmaIInv, UartDmaTypeOK, RevLengthExact, dmaRxVars
<1>1. CASE UartSendDma
  BY <1>1 DEF UartSendDma, SendOrder
<1>2. CASE uart_clr_tx_done
  BY <1>2 DEF uart_clr_tx_done, SendOrder
<1>3. CASE UartStartChannel
  BY <1>3 DEF UartStartChannel, SendOrder
<1>4. CASE UartTransmitted
  BY <1>4 DEF UartTransmitted
<1>5. QED
  BY <1>1, <1>2, <1>3, <1>4 DEF UartSending

(* A step of a port's channel: what it becomes is sound for the port.      *)
Sound(c, size) ==
  /\ c \in Channel /\ c.got <= c.size
  /\ c.len # NoLength => c.len = c.got
  /\ c.on => c.size = size /\ size \in RevSizes /\ c.got < c.size /\ c.len = NoLength

LEMMA UartPortStep ==
  ASSUME OnePort, UartDmaIInv, NEW port \in DmaPorts, NEW c,
         rev' = [rev EXCEPT ![port] = c], Sound(c, uart_dma_rev_size'),
         uart_dma_rev_size' \in RevSizes \cup {0}, UNCHANGED dmaTxVars
  PROVE  UartDmaIInv'
<1>1. DmaPorts = {port}
  BY DEF OnePort
<1>2. rev' \in [DmaPorts -> Channel] /\ \A p \in DmaPorts : rev'[p] = c
  BY <1>1 DEF UartDmaIInv, UartDmaTypeOK, Sound, Channel
<1>3. UartDmaTypeOK'
  BY <1>2 DEF UartDmaIInv, UartDmaTypeOK, Sound, Channel, dmaTxVars
<1>4. QED
  BY <1>2, <1>3 DEF UartDmaIInv, RevLengthExact, Sound

LEMMA UartDmaStep == OnePort /\ UartDmaIInv /\ [UartDmaNext]_dmaVars => UartDmaIInv'
<1> SUFFICES ASSUME OnePort, UartDmaIInv, [UartDmaNext]_dmaVars  PROVE UartDmaIInv'
  OBVIOUS
<1>0. \A port \in DmaPorts : rev[port] \in Channel
  BY DEF UartDmaIInv, UartDmaTypeOK, Channel
<1>1. CASE UNCHANGED dmaVars
  BY <1>1 DEF dmaVars, dmaTxVars, dmaRxVars, UartDmaIInv, UartDmaTypeOK, RevLengthExact
<1>2. CASE UartSendDma \/ UartSending
  BY <1>2, UartSendingStep
<1>3. ASSUME NEW port \in DmaPorts, NEW size \in RevSizes, uart_receive_dma(port, size)
      PROVE  UartDmaIInv'
  <2> DEFINE c == [on |-> TRUE, size |-> size, got |-> Waiting(port), len |-> NoLength]
  <2>1. size \in Nat /\ size >= 4
    BY RevSizesAssumption DEF RevSizesAssumption
  <2>2. Waiting(port) \in 0 .. 3
    BY <1>0 DEF Waiting, Channel
  <2>3. c \in Channel
    BY <2>2 DEF Channel, NoLength
  <2>4. Sound(c, size)
    BY <2>1, <2>2, <2>3 DEF Sound, NoLength
  <2>5. uart_dma_rev_size' = size /\ rev' = [rev EXCEPT ![port] = c] /\ UNCHANGED dmaTxVars
    BY <1>3 DEF uart_receive_dma
  <2> HIDE DEF c
  <2>6. QED
    BY <2>4, <2>5, UartPortStep
<1>4. ASSUME NEW port \in DmaPorts, UartReceive(port)  PROVE UartDmaIInv'
  <2> DEFINE c == [rev[port] EXCEPT !.got = rev[port].got + 1]
  <2>1. c \in Channel /\ c.on = rev[port].on /\ c.size = rev[port].size
        /\ c.got = rev[port].got + 1 /\ c.len = rev[port].len
    BY <1>0 DEF Channel
  <2>2. rev[port].on /\ rev[port].got + 1 < rev[port].size
        /\ rev' = [rev EXCEPT ![port] = c] /\ UNCHANGED <<dmaTxVars, uart_dma_rev_size>>
    BY <1>4 DEF UartReceive
  <2> HIDE DEF c
  <2>3. rev[port].len = NoLength
    BY <2>2 DEF UartDmaIInv
  <2>4. rev[port].size = uart_dma_rev_size /\ uart_dma_rev_size \in RevSizes
        /\ rev[port].got \in Nat /\ rev[port].size \in Nat
    BY <2>2, RevSizesAssumption DEF UartDmaIInv, UartDmaTypeOK, RevSizesAssumption
  <2>5. Sound(c, uart_dma_rev_size')
    BY <2>1, <2>2, <2>3, <2>4 DEF Sound
  <2>6. QED
    BY <2>2, <2>5, UartPortStep DEF UartDmaIInv, UartDmaTypeOK
<1>5. ASSUME NEW port \in DmaPorts, UartRevDone(port)  PROVE UartDmaIInv'
  <2> DEFINE len == uart_get_dma_rev_data_len(port)
             c == [rev[port] EXCEPT !.on = FALSE, !.len = len]
  <2>1. rev[port].on /\ rev' = [rev EXCEPT ![port] = c]
        /\ UNCHANGED <<dmaTxVars, uart_dma_rev_size>>
    BY <1>5 DEF UartRevDone
  <2>2. len = rev[port].got /\ len \in Nat
    <3>1. rev[port].got \in Nat
      BY <1>0 DEF Channel
    <3>2. QED
      BY <2>1, <3>1, LengthOf DEF UartDmaIInv
  <2> HIDE DEF len
  <2>3. c \in Channel /\ c.on = FALSE /\ c.size = rev[port].size /\ c.got = rev[port].got
        /\ c.len = len
    <3>1. rev[port] \in Channel /\ len \in Int
      BY <1>0, <2>2
    <3>2. QED
      BY <3>1 DEF Channel
  <2> HIDE DEF c
  <2>4. Sound(c, uart_dma_rev_size')
    BY <1>0, <2>1, <2>2, <2>3 DEF Sound, UartDmaIInv, UartDmaTypeOK, Channel
  <2>5. QED
    BY <2>1, <2>4, UartPortStep DEF UartDmaIInv, UartDmaTypeOK
<1>6. QED
  BY <1>1, <1>2, <1>3, <1>4, <1>5 DEF UartDmaNext

-----------------------------------------------------------------------------
(* The smart card.  What holds before each statement of a call, given by   *)
(* the statements left: of a cold reset the first five lists, of a warm    *)
(* one three, and of a release three.                                      *)
CardTypes ==
  /\ cardLines \in [rst : {0, 1}, vcc : {0, 1}, clkDiv : {2, 4, 6}, clkOn : BOOLEAN,
                    rtx : BOOLEAN, uart : {cardLines.uart}]
  /\ cardSet \in [clock : {0, 4, 6, 12}, rstTime : Nat, rate : {cardSet.rate}]
  /\ cardSeen \in Nat

(* The reset time set is long enough at the clock set.                     *)
CardReady ==
  /\ CardSetUp /\ CardMHz(cardLines.clkDiv) = cardSet.clock
  /\ cardSet.rstTime * cardSet.clock >= NeededCycles

CardRuns == CardActive /\ cardLines.vcc = 1 /\ cardLines.clkOn /\ cardLines.rtx
              /\ cardSeen >= NeededCycles /\ CardReady
CardWaits == ~CardActive /\ cardLines.vcc = 1 /\ CardReady

CardPlaces ==
  \/ cardTodo = <<>> /\ (CardActive => CardRuns) /\ (CardSetUp => CardReady)
  \/ cardTodo = s7816_coldreset /\ ~CardActive /\ CardReady
  \/ cardTodo = <<"wait 20", "clock on", "wait reset", "rtx", "rst high">> /\ CardWaits
  \/ cardTodo = <<"clock on", "wait reset", "rtx", "rst high">> /\ CardWaits
  \/ cardTodo = <<"wait reset", "rtx", "rst high">> /\ CardWaits /\ cardLines.clkOn
  \/ cardTodo = <<"rtx", "rst high">> /\ CardWaits /\ cardLines.clkOn /\ cardSeen >= NeededCycles
  \/ cardTodo \in {s7816_warmreset, s7816_release_trig} /\ CardRuns
  \/ cardTodo = <<"wait reset", "rst high">> /\ CardWaits /\ cardLines.clkOn /\ cardLines.rtx
  \/ cardTodo = <<"rst high">> /\ CardWaits /\ cardLines.clkOn /\ cardLines.rtx
                               /\ cardSeen >= NeededCycles
  \/ cardTodo \in {<<"clock off", "vcc low">>, <<"vcc low">>} /\ ~CardActive /\ CardReady

CardIInv == CardTypes /\ CardPlaces

(* The first of a list of statements, and the others.                      *)
LEMMA FirstOfOne ==
  ASSUME NEW a
  PROVE  Head(<<a>>) = a /\ Tail(<<a>>) = <<>>
OBVIOUS
LEMMA FirstOfTwo ==
  ASSUME NEW a, NEW b
  PROVE  Head(<<a, b>>) = a /\ Tail(<<a, b>>) = <<b>>
OBVIOUS
LEMMA FirstOfThree ==
  ASSUME NEW a, NEW b, NEW c
  PROVE  Head(<<a, b, c>>) = a /\ Tail(<<a, b, c>>) = <<b, c>>
OBVIOUS

(* The first of each list of statements, and the others.                   *)
LEMMA ColdFirst ==
  /\ Head(<<"vcc high", "wait 20", "clock on", "wait reset", "rtx", "rst high">>) = "vcc high"
  /\ Tail(<<"vcc high", "wait 20", "clock on", "wait reset", "rtx", "rst high">>) = <<"wait 20", "clock on", "wait reset", "rtx", "rst high">>
<1> DEFINE a == "vcc high"
           b == "wait 20"
           c == "clock on"
           d == "wait reset"
           e == "rtx"
           f == "rst high"
<1> HIDE DEF a, b, c, d, e, f
<1>1. Head(<<a, b, c, d, e, f>>) = a /\ Tail(<<a, b, c, d, e, f>>) = <<b, c, d, e, f>>
  OBVIOUS
<1>2. QED
  BY <1>1 DEF a, b, c, d, e, f
LEMMA ColdSecond ==
  /\ Head(<<"wait 20", "clock on", "wait reset", "rtx", "rst high">>) = "wait 20"
  /\ Tail(<<"wait 20", "clock on", "wait reset", "rtx", "rst high">>) = <<"clock on", "wait reset", "rtx", "rst high">>
<1> DEFINE a == "wait 20"
           b == "clock on"
           c == "wait reset"
           d == "rtx"
           e == "rst high"
<1> HIDE DEF a, b, c, d, e
<1>1. Head(<<a, b, c, d, e>>) = a /\ Tail(<<a, b, c, d, e>>) = <<b, c, d, e>>
  OBVIOUS
<1>2. QED
  BY <1>1 DEF a, b, c, d, e
LEMMA ColdThird ==
  /\ Head(<<"clock on", "wait reset", "rtx", "rst high">>) = "clock on"
  /\ Tail(<<"clock on", "wait reset", "rtx", "rst high">>) = <<"wait reset", "rtx", "rst high">>
<1> DEFINE a == "clock on"
           b == "wait reset"
           c == "rtx"
           d == "rst high"
<1> HIDE DEF a, b, c, d
<1>1. Head(<<a, b, c, d>>) = a /\ Tail(<<a, b, c, d>>) = <<b, c, d>>
  OBVIOUS
<1>2. QED
  BY <1>1 DEF a, b, c, d
LEMMA ColdFourth ==
  ASSUME NEW todo, todo = <<"wait reset", "rtx", "rst high">>
  PROVE  Head(todo) = "wait reset" /\ Tail(todo) = <<"rtx", "rst high">>
BY FirstOfThree, Zenon
LEMMA ColdFifth ==
  ASSUME NEW todo, todo = <<"rtx", "rst high">>
  PROVE  Head(todo) = "rtx" /\ Tail(todo) = <<"rst high">>
BY FirstOfTwo, Zenon
LEMMA LastRise ==
  ASSUME NEW todo, todo = <<"rst high">>
  PROVE  Head(todo) = "rst high" /\ Tail(todo) = <<>>
BY FirstOfOne, Zenon
LEMMA WarmFirst ==
  ASSUME NEW todo, todo = <<"rst low", "wait reset", "rst high">>
  PROVE  Head(todo) = "rst low" /\ Tail(todo) = <<"wait reset", "rst high">>
BY FirstOfThree, Zenon
LEMMA WarmSecond ==
  ASSUME NEW todo, todo = <<"wait reset", "rst high">>
  PROVE  Head(todo) = "wait reset" /\ Tail(todo) = <<"rst high">>
BY FirstOfTwo, Zenon
LEMMA ReleaseFirst ==
  ASSUME NEW todo, todo = <<"rst low", "clock off", "vcc low">>
  PROVE  Head(todo) = "rst low" /\ Tail(todo) = <<"clock off", "vcc low">>
BY FirstOfThree, Zenon
LEMMA ReleaseSecond ==
  ASSUME NEW todo, todo = <<"clock off", "vcc low">>
  PROVE  Head(todo) = "clock off" /\ Tail(todo) = <<"vcc low">>
BY FirstOfTwo, Zenon
LEMMA ReleaseThird ==
  ASSUME NEW todo, todo = <<"vcc low">>
  PROVE  Head(todo) = "vcc low" /\ Tail(todo) = <<>>
BY FirstOfOne, Zenon

(* What a statement does to the lines and to the count.                    *)
LinesAfter(s) ==
  CASE s = "vcc high" -> [cardLines EXCEPT !.vcc = 1]
    [] s = "vcc low" -> [cardLines EXCEPT !.vcc = 0]
    [] s = "clock on" -> [cardLines EXCEPT !.clkOn = TRUE]
    [] s = "clock off" -> [cardLines EXCEPT !.clkOn = FALSE]
    [] s = "rst high" -> [cardLines EXCEPT !.rst = 1]
    [] s = "rst low" -> [cardLines EXCEPT !.rst = 0]
    [] s = "rtx" -> [cardLines EXCEPT !.rtx = TRUE]
    [] OTHER -> cardLines

SeenAfter(s) ==
  CASE s = "rst low" -> 0
    [] s = "wait 20" -> cardSeen + Clocked(20)
    [] s = "wait reset" -> cardSeen + Clocked(cardSet.rstTime)
    [] OTHER -> cardSeen

LEMMA StatementDoes ==
  ASSUME Statement, NEW s, NEW rest, Head(cardTodo) = s, Tail(cardTodo) = rest
  PROVE  cardTodo' = rest /\ cardLines' = LinesAfter(s) /\ cardSeen' = SeenAfter(s)
         /\ cardSet' = cardSet
BY DEF Statement, LinesAfter, SeenAfter

(* A delay counts cycles while the card is in reset with its clock on.     *)
LEMMA ClockedIs ==
  ASSUME CardTypes, NEW us \in Nat
  PROVE  /\ Clocked(us) \in Nat
         /\ cardLines.clkOn /\ CardWaits => Clocked(us) = us * cardSet.clock
<1>1. cardLines.clkDiv \in {2, 4, 6} /\ CardMHz(cardLines.clkDiv) \in {4, 6, 12}
  BY DEF CardTypes, CardMHz
<1>2. Clocked(us) \in Nat
  BY <1>1 DEF Clocked
<1>3. ASSUME cardLines.clkOn, CardWaits  PROVE Clocked(us) = us * cardSet.clock
  <2>1. cardLines.rst = 0
    BY <1>3 DEF CardWaits, CardActive, CardTypes
  <2>2. QED
    BY <1>3, <2>1 DEF Clocked, CardWaits, CardReady
<1>4. QED
  BY <1>2, <1>3

LEMMA CardStatement == ASSUME CardIInv, Statement  PROVE CardIInv'
<1>0. CardTypes /\ CardPlaces
  BY DEF CardIInv
<1>1. CASE cardTodo = s7816_coldreset /\ ~CardActive /\ CardReady
  <2>1. Head(cardTodo) = "vcc high"
        /\ Tail(cardTodo) = <<"wait 20", "clock on", "wait reset", "rtx", "rst high">>
    BY <1>1, ColdFirst, Zenon DEF s7816_coldreset
  <2>2. cardTodo' = <<"wait 20", "clock on", "wait reset", "rtx", "rst high">>
        /\ cardLines' = [cardLines EXCEPT !.vcc = 1] /\ cardSeen' = cardSeen /\ cardSet' = cardSet
    BY <2>1, StatementDoes DEF LinesAfter, SeenAfter
  <2>3. CardTypes'
    BY <1>0, <2>2 DEF CardTypes
  <2>4. CardWaits'
    BY <1>0, <1>1, <2>2 DEF CardTypes, CardRuns, CardWaits, CardReady, CardActive, CardSetUp
  <2>5. CardPlaces'
    BY <2>2, <2>4 DEF CardPlaces
  <2>6. QED
    BY <2>3, <2>5 DEF CardIInv
<1>2. CASE cardTodo = <<"wait 20", "clock on", "wait reset", "rtx", "rst high">> /\ CardWaits
  <2>1. Head(cardTodo) = "wait 20"
        /\ Tail(cardTodo) = <<"clock on", "wait reset", "rtx", "rst high">>
    BY <1>2, ColdSecond, Zenon
  <2>2. cardTodo' = <<"clock on", "wait reset", "rtx", "rst high">>
        /\ cardLines' = cardLines /\ cardSeen' = cardSeen + Clocked(20) /\ cardSet' = cardSet
    BY <2>1, StatementDoes DEF LinesAfter, SeenAfter
  <2>3. cardSeen' \in Nat
    <3>1. Clocked(20) \in Nat
      BY <1>0, ClockedIs
    <3>2. cardSeen \in Nat
      BY <1>0 DEF CardTypes
    <3>3. cardSeen' = cardSeen + Clocked(20)
      BY <2>2
    <3>4. QED
      BY <3>1, <3>2, <3>3
  <2>4. CardTypes'
    BY <1>0, <2>2, <2>3 DEF CardTypes
  <2>5. CardPlaces'
    BY <1>0, <1>2, <2>2 DEF CardPlaces, CardRuns, CardWaits, CardReady, CardActive, CardSetUp
  <2>6. QED
    BY <2>4, <2>5 DEF CardIInv
<1>3. CASE cardTodo = <<"clock on", "wait reset", "rtx", "rst high">> /\ CardWaits
  <2>1. Head(cardTodo) = "clock on" /\ Tail(cardTodo) = <<"wait reset", "rtx", "rst high">>
    BY <1>3, ColdThird, Zenon
  <2>2. cardTodo' = <<"wait reset", "rtx", "rst high">>
        /\ cardLines' = [cardLines EXCEPT !.clkOn = TRUE] /\ cardSeen' = cardSeen
        /\ cardSet' = cardSet
    BY <2>1, StatementDoes DEF LinesAfter, SeenAfter
  <2>3. CardTypes'
    BY <1>0, <2>2 DEF CardTypes
  <2>4. CardWaits' /\ cardLines'.clkOn
    BY <1>0, <1>3, <2>2 DEF CardTypes, CardRuns, CardWaits, CardReady, CardActive, CardSetUp
  <2>5. CardPlaces'
    BY <2>2, <2>4 DEF CardPlaces
  <2>6. QED
    BY <2>3, <2>5 DEF CardIInv
<1>4. CASE cardTodo = <<"wait reset", "rtx", "rst high">> /\ CardWaits /\ cardLines.clkOn
  <2>1. Head(cardTodo) = "wait reset" /\ Tail(cardTodo) = <<"rtx", "rst high">>
    BY <1>4, ColdFourth
  <2>2. cardTodo' = <<"rtx", "rst high">>
        /\ cardLines' = cardLines /\ cardSeen' = cardSeen + Clocked(cardSet.rstTime)
        /\ cardSet' = cardSet
    BY <2>1, StatementDoes DEF LinesAfter, SeenAfter
  <2>3. cardSeen' \in Nat /\ cardSeen' >= NeededCycles
    <3>1. cardSet.rstTime \in Nat /\ cardSeen \in Nat
      BY <1>0 DEF CardTypes
    <3>2. Clocked(cardSet.rstTime) \in Nat
          /\ Clocked(cardSet.rstTime) = cardSet.rstTime * cardSet.clock
      BY <1>0, <1>4, <3>1, ClockedIs
    <3>3. cardSet.rstTime * cardSet.clock >= NeededCycles
      BY <1>4 DEF CardWaits, CardReady
    <3>4. cardSeen' = cardSeen + Clocked(cardSet.rstTime) /\ NeededCycles = 400
          /\ Clocked(cardSet.rstTime) >= NeededCycles
      BY <2>2, <3>2, <3>3 DEF NeededCycles
    <3>5. QED
      BY <3>1, <3>2, <3>4
  <2>4. CardTypes'
    BY <1>0, <2>2, <2>3 DEF CardTypes
  <2>5. CardPlaces'
    BY <1>0, <1>4, <2>2, <2>3 DEF CardPlaces, CardRuns, CardWaits, CardReady, CardActive, CardSetUp
  <2>6. QED
    BY <2>4, <2>5 DEF CardIInv
<1>5. CASE cardTodo = <<"rtx", "rst high">> /\ CardWaits /\ cardLines.clkOn
             /\ cardSeen >= NeededCycles
  <2>1. Head(cardTodo) = "rtx" /\ Tail(cardTodo) = <<"rst high">>
    BY <1>5, ColdFifth
  <2>2. cardTodo' = <<"rst high">> /\ cardLines' = [cardLines EXCEPT !.rtx = TRUE]
        /\ cardSeen' = cardSeen /\ cardSet' = cardSet
    BY <2>1, StatementDoes DEF LinesAfter, SeenAfter
  <2>3. CardTypes'
    BY <1>0, <2>2 DEF CardTypes
  <2>4. CardWaits' /\ cardLines'.clkOn /\ cardLines'.rtx /\ cardSeen' >= NeededCycles
    BY <1>0, <1>5, <2>2 DEF CardTypes, CardRuns, CardWaits, CardReady, CardActive, CardSetUp
  <2>5. CardPlaces'
    BY <2>2, <2>4 DEF CardPlaces
  <2>6. QED
    BY <2>3, <2>5 DEF CardIInv
<1>6. CASE cardTodo \in {s7816_warmreset, s7816_release_trig} /\ CardRuns
  <2>1. Head(cardTodo) = "rst low"
        /\ Tail(cardTodo) \in {<<"wait reset", "rst high">>, <<"clock off", "vcc low">>}
    BY <1>6, WarmFirst, ReleaseFirst DEF s7816_warmreset, s7816_release_trig
  <2>2. cardTodo' \in {<<"wait reset", "rst high">>, <<"clock off", "vcc low">>}
        /\ cardLines' = [cardLines EXCEPT !.rst = 0] /\ cardSeen' = 0 /\ cardSet' = cardSet
    BY <2>1, StatementDoes DEF LinesAfter, SeenAfter
  <2>3. CardTypes'
    BY <1>0, <2>2 DEF CardTypes
  <2>4. ~CardActive' /\ CardReady' /\ cardLines'.vcc = 1 /\ cardLines'.clkOn /\ cardLines'.rtx
    <3>1. cardLines' = [cardLines EXCEPT !.rst = 0] /\ cardSet' = cardSet
      BY <2>2
    <3>2. CardRuns
      BY <1>6
    <3>3. QED
      BY <1>0, <3>1, <3>2 DEF CardTypes, CardRuns, CardReady, CardActive, CardSetUp
  <2>5. CardPlaces'
    BY <2>2, <2>4 DEF CardPlaces, CardWaits
  <2>6. QED
    BY <2>3, <2>5 DEF CardIInv
<1>7. CASE cardTodo = <<"wait reset", "rst high">> /\ CardWaits /\ cardLines.clkOn /\ cardLines.rtx
  <2>1. Head(cardTodo) = "wait reset" /\ Tail(cardTodo) = <<"rst high">>
    BY <1>7, WarmSecond
  <2>2. cardTodo' = <<"rst high">> /\ cardLines' = cardLines
        /\ cardSeen' = cardSeen + Clocked(cardSet.rstTime) /\ cardSet' = cardSet
    BY <2>1, StatementDoes DEF LinesAfter, SeenAfter
  <2>3. cardSeen' \in Nat /\ cardSeen' >= NeededCycles
    <3>1. cardSet.rstTime \in Nat /\ cardSeen \in Nat
      BY <1>0 DEF CardTypes
    <3>2. Clocked(cardSet.rstTime) \in Nat
          /\ Clocked(cardSet.rstTime) = cardSet.rstTime * cardSet.clock
      BY <1>0, <1>7, <3>1, ClockedIs
    <3>3. cardSet.rstTime * cardSet.clock >= NeededCycles
      BY <1>7 DEF CardWaits, CardReady
    <3>4. cardSeen' = cardSeen + Clocked(cardSet.rstTime) /\ NeededCycles = 400
          /\ Clocked(cardSet.rstTime) >= NeededCycles
      BY <2>2, <3>2, <3>3 DEF NeededCycles
    <3>5. QED
      BY <3>1, <3>2, <3>4
  <2>4. CardTypes'
    BY <1>0, <2>2, <2>3 DEF CardTypes
  <2>5. CardPlaces'
    BY <1>0, <1>7, <2>2, <2>3 DEF CardPlaces, CardRuns, CardWaits, CardReady, CardActive, CardSetUp
  <2>6. QED
    BY <2>4, <2>5 DEF CardIInv
<1>8. CASE cardTodo = <<"rst high">> /\ CardWaits /\ cardLines.clkOn /\ cardLines.rtx
             /\ cardSeen >= NeededCycles
  <2>1. Head(cardTodo) = "rst high" /\ Tail(cardTodo) = <<>>
    BY <1>8, LastRise
  <2>2. cardTodo' = <<>> /\ cardLines' = [cardLines EXCEPT !.rst = 1]
        /\ cardSeen' = cardSeen /\ cardSet' = cardSet
    BY <2>1, StatementDoes DEF LinesAfter, SeenAfter
  <2>3. CardTypes'
    BY <1>0, <2>2 DEF CardTypes
  <2>4. CardRuns'
    BY <1>0, <1>8, <2>2 DEF CardTypes, CardRuns, CardWaits, CardReady, CardActive, CardSetUp
  <2>5. CardPlaces'
    BY <2>2, <2>4 DEF CardPlaces, CardRuns
  <2>6. QED
    BY <2>3, <2>5 DEF CardIInv
<1>9. CASE cardTodo \in {<<"clock off", "vcc low">>, <<"vcc low">>} /\ ~CardActive /\ CardReady
  <2>1. \/ Head(cardTodo) = "clock off" /\ Tail(cardTodo) = <<"vcc low">>
        \/ Head(cardTodo) = "vcc low" /\ Tail(cardTodo) = <<>>
    BY <1>9, ReleaseSecond, ReleaseThird
  <2>2. /\ cardTodo' \in {<<"vcc low">>, <<>>}
        /\ cardLines' = [cardLines EXCEPT !.clkOn = FALSE] \/ cardLines' = [cardLines EXCEPT !.vcc = 0]
        /\ cardSeen' = cardSeen /\ cardSet' = cardSet
    BY <2>1, StatementDoes DEF LinesAfter, SeenAfter
  <2>3. CardTypes'
    BY <1>0, <2>2 DEF CardTypes
  <2>4. ~CardActive' /\ CardReady'
    BY <1>0, <1>9, <2>2 DEF CardTypes, CardRuns, CardWaits, CardReady, CardActive, CardSetUp
  <2>5. CardPlaces'
    BY <2>2, <2>4 DEF CardPlaces
  <2>6. QED
    BY <2>3, <2>5 DEF CardIInv
<1>10. cardTodo # <<>>
  BY DEF Statement
<1>11. QED
  BY <1>1, <1>2, <1>3, <1>4, <1>5, <1>6, <1>7, <1>8, <1>9, <1>10, <1>0 DEF CardPlaces

LEMMA CardInitial == S7816Init => CardIInv
BY DEF S7816Init, CardIInv, CardTypes, CardPlaces, CardActive, CardSetUp

(* The clocks the application may ask for, and their dividers.             *)
LEMMA ClockAsked ==
  ASSUME NEW clock \in {4, 6, 12}
  PROVE  /\ ClockDiv(clock) \in {2, 4, 6} /\ CardMHz(ClockDiv(clock)) = clock
         /\ 40000 \div clock \in Nat /\ (40000 \div clock) * clock >= NeededCycles
<1>1. CASE clock = 4
  BY <1>1 DEF ClockDiv, CardMHz, NeededCycles
<1>2. CASE clock = 6
  BY <1>2 DEF ClockDiv, CardMHz, NeededCycles
<1>3. CASE clock = 12
  BY <1>3 DEF ClockDiv, CardMHz, NeededCycles
<1>4. QED
  BY <1>1, <1>2, <1>3

LEMMA CardStep == CardIInv /\ [S7816Next]_cardVars => CardIInv'
<1> SUFFICES ASSUME CardIInv, [S7816Next]_cardVars  PROVE CardIInv'
  OBVIOUS
<1>0. CardTypes /\ CardPlaces
  BY DEF CardIInv
<1>1. CASE UNCHANGED cardVars
  BY <1>1 DEF cardVars, CardIInv, CardTypes, CardPlaces, CardActive, CardSetUp, CardReady,
     CardRuns, CardWaits
<1>2. CASE Statement
  BY <1>2, CardStatement
<1>3. ASSUME cardTodo = <<>>  PROVE (CardActive => CardRuns) /\ (CardSetUp => CardReady)
  <2>1. cardTodo # s7816_coldreset /\ cardTodo \notin {s7816_warmreset, s7816_release_trig}
    BY <1>3 DEF s7816_coldreset, s7816_warmreset, s7816_release_trig
  <2>2. QED
    BY <1>0, <1>3, <2>1 DEF CardPlaces
<1>4. ASSUME cardTodo = <<>>, ~CardActive, NEW clock \in {4, 6, 12}, NEW f, NEW d,
             s7816_init(clock, f, d)
      PROVE  CardIInv'
  <2> DEFINE t == 40000 \div clock
             uart == Cal(24000000, ((clock * 1000000) * d) \div f)
  <2>1. ClockDiv(clock) \in {2, 4, 6} /\ CardMHz(ClockDiv(clock)) = clock
        /\ t \in Nat /\ t * clock >= NeededCycles
    BY ClockAsked
  <2>2. /\ cardSet' = [clock |-> clock, rstTime |-> t, rate |-> <<f, d>>]
        /\ cardLines' = [cardLines EXCEPT !.clkDiv = ClockDiv(clock), !.clkOn = FALSE,
                                         !.uart = uart]
        /\ cardSeen' = cardSeen /\ cardTodo' = cardTodo
    BY <1>0, <1>4 DEF s7816_init, s7816_set_clk, CardTypes
  <2> HIDE DEF t, uart
  <2>3. CardTypes'
    BY <1>0, <2>1, <2>2 DEF CardTypes
  <2>4. cardSet'.clock = clock /\ cardSet'.rstTime = t
        /\ cardLines'.clkDiv = ClockDiv(clock) /\ cardLines'.rst = cardLines.rst
    BY <1>0, <2>2 DEF CardTypes
  <2>5. CardReady' /\ ~CardActive'
    BY <1>4, <2>1, <2>4 DEF CardReady, CardActive, CardSetUp
  <2>6. QED
    BY <1>4, <2>2, <2>3, <2>5 DEF CardIInv, CardPlaces
<1>5. ASSUME cardTodo = <<>>, S7816SetPin  PROVE CardIInv'
  <2>1. cardLines' = [cardLines EXCEPT !.rst = 0, !.vcc = 0] /\ cardSeen' = 0
        /\ cardSet' = cardSet /\ cardTodo' = <<>>
    BY <1>5 DEF S7816SetPin
  <2>2. CardTypes'
    BY <1>0, <2>1 DEF CardTypes
  <2>3. ~CardActive' /\ (CardSetUp => CardReady')
    BY <1>0, <1>3, <1>5, <2>1 DEF CardTypes, CardActive, CardSetUp, CardReady
  <2>4. CardSetUp' => CardSetUp
    BY <2>1 DEF CardSetUp
  <2>5. QED
    BY <2>1, <2>2, <2>3, <2>4 DEF CardIInv, CardPlaces
<1>6. ASSUME cardTodo = <<>>, CardSetUp, NEW us \in CardTimes, us * cardSet.clock >= NeededCycles,
             s7816_set_time(us)
      PROVE  CardIInv'
  <2>0. us \in Nat
    BY S7816Assumption DEF S7816Assumption
  <2>1. cardSet' = [cardSet EXCEPT !.rstTime = us] /\ cardLines' = cardLines
        /\ cardSeen' = cardSeen /\ cardTodo' = cardTodo
    BY <1>6 DEF s7816_set_time
  <2>2. cardSet'.clock = cardSet.clock /\ cardSet'.rstTime = us
    BY <1>0, <2>1 DEF CardTypes
  <2>3. CardTypes'
    BY <1>0, <2>0, <2>1 DEF CardTypes
  <2>4. (CardActive => CardRuns) /\ CardReady
    BY <1>3, <1>6
  <2>5. CardReady'
    BY <1>6, <2>1, <2>2, <2>4 DEF CardReady, CardSetUp
  <2>6. CardActive' => CardRuns'
    BY <2>1, <2>4, <2>5 DEF CardRuns, CardActive
  <2>7. QED
    BY <1>6, <2>1, <2>3, <2>5, <2>6 DEF CardIInv, CardPlaces
<1>7. ASSUME cardTodo = <<>>, CardSetUp, ~CardActive, CardCall(s7816_coldreset)  PROVE CardIInv'
  <2>1. cardTodo' = s7816_coldreset /\ UNCHANGED <<cardSet, cardLines, cardSeen>>
    BY <1>7 DEF CardCall
  <2>2. CardTypes' /\ ~CardActive' /\ CardReady'
    BY <1>0, <1>3, <1>7, <2>1 DEF CardTypes, CardActive, CardReady, CardSetUp
  <2>3. QED
    BY <2>1, <2>2 DEF CardIInv, CardPlaces
<1>8. ASSUME cardTodo = <<>>, CardActive,
             CardCall(s7816_warmreset) \/ CardCall(s7816_release_trig)
      PROVE  CardIInv'
  <2>1. cardTodo' \in {s7816_warmreset, s7816_release_trig}
        /\ UNCHANGED <<cardSet, cardLines, cardSeen>>
    BY <1>8 DEF CardCall
  <2>2. CardTypes' /\ CardRuns'
    BY <1>0, <1>3, <1>8, <2>1 DEF CardTypes, CardRuns, CardActive, CardReady, CardSetUp
  <2>3. QED
    BY <2>1, <2>2 DEF CardIInv, CardPlaces
<1>9. QED
  BY <1>1, <1>2, <1>4, <1>5, <1>6, <1>7, <1>8 DEF S7816Next

LEMMA CardSound == CardIInv => CardReset
<1> SUFFICES ASSUME CardIInv, CardActive  PROVE CardReset
  BY DEF CardReset
<1>1. CardRuns
  BY DEF CardIInv, CardPlaces, CardWaits
<1>2. QED
  BY <1>1 DEF CardReset, CardRuns, CardReady

-----------------------------------------------------------------------------
(* The drivers together.  A step is a step of the driver in use, and the   *)
(* others stay as they are.                                                *)
LEMMA OneDriverSteps ==
  [Next]_vars =>
    /\ [UartFifoNext]_uartVars /\ [UartDmaNext]_dmaVars /\ [I2cNext]_i2cVars
    /\ [SpiNext]_spiVars /\ [PhaseNext]_phaseVars /\ [S7816Next]_cardVars
    /\ [FlashNext]_flashVars /\ driver' = driver
<1> SUFFICES ASSUME [Next]_vars
             PROVE  /\ UartFifoNext \/ UNCHANGED uartVars
                    /\ UartDmaNext \/ UNCHANGED dmaVars
                    /\ I2cNext \/ UNCHANGED i2cVars
                    /\ SpiNext \/ UNCHANGED spiVars
                    /\ PhaseNext \/ UNCHANGED phaseVars
                    /\ S7816Next \/ UNCHANGED cardVars
                    /\ FlashNext \/ UNCHANGED flashVars
                    /\ driver' = driver
  OBVIOUS
<1>1. CASE UNCHANGED vars
  BY <1>1, Zenon DEF vars
<1>2. CASE Next
  BY <1>2, Zenon DEF Next
<1>3. QED
  BY <1>1, <1>2

(* The calls of the I2C master end with the bus free, and return what the  *)
(* slave answered and gave (i2c_master_write, i2c_master_read,             *)
(* i2c_master_write_read), if a slave that has answered its address does   *)
(* so again at a repeated start.                                           *)
THEOREM I2cAlwaysSound == RestartAcked /\ Spec => []I2cCallsSound
<1>1. RestartAcked /\ Init => I2cIInv
  BY I2cInitial DEF Init
<1>2. RestartAcked /\ I2cIInv /\ [Next]_vars => I2cIInv'
  BY OneDriverSteps, I2cStep
<1>3. I2cIInv => I2cCallsSound
  BY I2cSound
<1>4. RestartAcked => RestartAcked'
  OBVIOUS
<1>5. QED
  BY <1>1, <1>2, <1>3, <1>4, PTL DEF Spec

(* Bytes pass the UART in the order given, over both data registers'       *)
(* lanes, if a sender of half-words does not reset the port; and the       *)
(* length uart_get_dma_rev_data_len computes is the number of bytes        *)
(* received, if one port receives (uart_dma_rev_size is shared).           *)
THEOREM UartAlwaysDelivers == ~HalfWordResets /\ OnePort /\ Spec => []UartDelivers
<1> DEFINE Used == ~HalfWordResets /\ OnePort
           Inv == UartIInv /\ UartDmaIInv
<1>1. Init => Inv
  BY UartInitial, UartDmaInitial DEF Init
<1>2. Used /\ Inv /\ [Next]_vars => Inv'
  <2> SUFFICES ASSUME Used, UartIInv, UartDmaIInv, [Next]_vars
               PROVE  UartIInv' /\ UartDmaIInv'
    OBVIOUS
  <2>1. UartIInv'
    BY OneDriverSteps, UartStep
  <2>2. UartDmaIInv'
    BY OneDriverSteps, UartDmaStep
  <2>3. QED
    BY <2>1, <2>2
<1>3. Inv => UartDelivers
  BY DEF UartIInv, UartNumbered, UartDmaIInv, UartDelivers
<1>4. Used => Used'
  BY DEF OnePort
<1>5. QED
  BY <1>1, <1>2, <1>3, <1>4, PTL DEF Spec

(* The polled SPI transfers move every byte to its place and no other, and *)
(* the transfer on the wire has the phases, lanes and lengths asked for,   *)
(* if no configuration shortens the address of one before.                 *)
THEOREM SpiAlwaysTransfers == AddrLenGrows /\ Spec => []SpiTransfers
<1> DEFINE Inv == SpiIInv /\ PhaseIInv
<1>1. Init => Inv
  BY SpiInitial, PhaseInitial DEF Init
<1>2. AddrLenGrows /\ Inv /\ [Next]_vars => Inv'
  <2> SUFFICES ASSUME AddrLenGrows, SpiIInv, PhaseIInv, [Next]_vars
               PROVE  SpiIInv' /\ PhaseIInv'
    OBVIOUS
  <2>1. SpiIInv'
    BY OneDriverSteps, SpiStep
  <2>2. PhaseIInv'
    BY OneDriverSteps, PhaseStep
  <2>3. QED
    BY <2>1, <2>2
<1>3. Inv => SpiTransfers
  BY SpiSound DEF PhaseIInv, SpiTransfers
<1>4. AddrLenGrows => AddrLenGrows'
  OBVIOUS
<1>5. QED
  BY <1>1, <1>2, <1>3, <1>4, PTL DEF Spec

(* A card is never clocked before it is supplied, and its reset line rises *)
(* only after the clock cycles asked for (s7816_coldreset,                 *)
(* s7816_warmreset, s7816_release_trig), for any clock rate, factors and   *)
(* times.                                                                  *)
THEOREM CardAlwaysReset == Spec => []CardReset
<1>1. Init => CardIInv
  BY CardInitial DEF Init
<1>2. CardIInv /\ [Next]_vars => CardIInv'
  BY OneDriverSteps, CardStep
<1>3. QED
  BY <1>1, <1>2, CardSound, PTL DEF Spec

(* The drivers' state has its types.                                       *)
THEOREM SerialTypesKept ==
  RestartAcked /\ ~HalfWordResets /\ OnePort /\ Spec => []TypeOK
<1> DEFINE Used == RestartAcked /\ ~HalfWordResets /\ OnePort
           Inv == /\ driver \in Drivers /\ UartIInv /\ UartDmaIInv /\ I2cIInv /\ SpiIInv
                  /\ FlashIInv
<1>1. Init => Inv
  BY UartInitial, UartDmaInitial, I2cInitial, SpiInitial, FlashInitIInv, DriversAssumption
     DEF Init, DriversAssumption
<1>2. Used /\ Inv /\ [Next]_vars => Inv'
  <2> SUFFICES ASSUME Used, Inv, [Next]_vars  PROVE Inv'
    OBVIOUS
  <2>1. driver' \in Drivers
    BY OneDriverSteps DEF Drivers
  <2>2. UartIInv'
    BY OneDriverSteps, UartStep
  <2>3. UartDmaIInv'
    BY OneDriverSteps, UartDmaStep
  <2>4. I2cIInv'
    BY OneDriverSteps, I2cStep
  <2>5. SpiIInv'
    BY OneDriverSteps, SpiStep
  <2>6. FlashIInv'
    BY OneDriverSteps, FlashNextIInv
  <2>7. QED
    BY <2>1, <2>2, <2>3, <2>4, <2>5, <2>6 DEF Drivers
<1>3. Inv => TypeOK
  BY I2cSound, SpiSound, FlashIInvSafe DEF TypeOK, UartIInv, UartDmaIInv
<1>4. Used => Used'
  BY DEF OnePort
<1>5. QED
  BY <1>1, <1>2, <1>3, <1>4, PTL DEF Spec
=============================================================================
