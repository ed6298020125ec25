---------------------------- MODULE DmaChannels -----------------------------
(***************************************************************************)
(* The DMA channels (dma.h) and the drivers that share them.  A channel is *)
(* given to one end of a driver by a *_set_dma_config function, which      *)
(* stores a table in its control register; a transfer then sets addresses  *)
(* and size and enables it.  Registers keep what an earlier transfer, or   *)
(* an earlier driver, put there.                                           *)
(*                                                                         *)
(* A call is the sequence of its statements, executed one at a time; the   *)
(* hardware runs the enabled channels in between.  The control register is *)
(* the set of its bits, as <<field, bit>>.                                 *)
(***************************************************************************)
EXTENDS Integers, Sequences

LOCAL INSTANCE TLC

CONSTANTS
  DmaChns,       \* channels the application uses, 0 and 1 among them
  DmaUses,       \* sets of ends of drivers: an application uses one of them
  DmaLens,       \* lengths, in bytes
  DmaCalls       \* bound on the calls of a behaviour

-----------------------------------------------------------------------------
(* The tables.  Data goes to a port, whose address is fixed and which asks *)
(* for it, or comes from one; the widths are those of words.               *)
DmaReq ==
  [SPI_AHB_TX |-> 0, SPI_AHB_RX |-> 1, UART0_TX |-> 2, UART0_RX |-> 3, SPI_APB_TX |-> 4,
   SPI_APB_RX |-> 5, I2C_TX |-> 6, I2C_RX |-> 7, ZB_TX |-> 8, ZB_RX |-> 9, PWM_TX |-> 10,
   ALGM_TX |-> 12, ALGM_RX |-> 13, UART1_TX |-> 14, UART1_RX |-> 15, AUDIO0_TX |-> 16,
   AUDIO0_RX |-> 17, AUDIO1_TX |-> 18, AUDIO1_RX |-> 19]

FieldBits(f, n) == {<<f, b>> : b \in {i \in 0 .. 4 : (n \div 2^i) % 2 = 1}}
Words == {<<"dstwidth", 1>>, <<"srcwidth", 1>>}
ToPort(line) ==
  FieldBits("dst_req_sel", DmaReq[line]) \cup Words \cup {<<"dst_addr_ctrl", 1>>, <<"dstmode", 0>>}
FromPort(line) ==
  FieldBits("src_req_sel", DmaReq[line]) \cup Words \cup {<<"src_addr_ctrl", 1>>, <<"srcmode", 0>>}

hspi_tx_dma_config == ToPort("SPI_AHB_TX")
hspi_rx_dma_config == FromPort("SPI_AHB_RX")
pspi_tx_dma_config == ToPort("SPI_APB_TX")
pspi_rx_dma_config == FromPort("SPI_APB_RX")
i2c_tx_dma_config == ToPort("I2C_TX")
i2c_rx_dma_config == FromPort("I2C_RX") \cup FieldBits("dst_req_sel", DmaReq.AUDIO0_TX)
uart_tx_dma_config == [n \in 0 .. 1 |-> ToPort(IF n = 0 THEN "UART0_TX" ELSE "UART1_TX")]
uart_rx_dma_config == [n \in 0 .. 1 |-> FromPort(IF n = 0 THEN "UART0_RX" ELSE "UART1_RX")]
adc_rx_dma_config == FromPort("AUDIO1_RX")
audio_dma_tx_config == ToPort("AUDIO0_TX")
audio_dma_rx_config == FromPort("AUDIO0_RX")
pwm_tx_dma_config == ToPort("PWM_TX")
analog_tx_dma_config == ToPort("ALGM_TX")
analog_rx_dma_config == FromPort("ALGM_RX")
rf_tx_dma_config == ToPort("ZB_TX") \cup {<<"read_num_en", 0>>, <<"auto_en", 0>>}
rf_rx_dma_config == FromPort("ZB_RX") \cup {<<"auto_en", 0>>}

ConfigOf ==
  [hspi_tx |-> hspi_tx_dma_config, hspi_rx |-> hspi_rx_dma_config,
   pspi_tx |-> pspi_tx_dma_config, pspi_rx |-> pspi_rx_dma_config,
   i2c_tx |-> i2c_tx_dma_config, i2c_rx |-> i2c_rx_dma_config,
   uart0_tx |-> uart_tx_dma_config[0], uart0_rx |-> uart_rx_dma_config[0],
   uart1_tx |-> uart_tx_dma_config[1], uart1_rx |-> uart_rx_dma_config[1],
   adc_rx |-> adc_rx_dma_config, pwm_tx |-> pwm_tx_dma_config,
   audio_tx |-> audio_dma_tx_config, audio_rx |-> audio_dma_rx_config,
   ana_tx |-> analog_tx_dma_config, ana_rx |-> analog_rx_dma_config,
   rf_tx |-> rf_tx_dma_config, rf_rx |-> rf_rx_dma_config]

Ends == DOMAIN ConfigOf

ASSUME DmaAssumption ==
  /\ {0, 1} \subseteq DmaChns /\ DmaChns \subseteq 0 .. 7
  /\ DmaUses # {} /\ DmaUses \subseteq SUBSET Ends
  /\ DmaLens \subseteq 1 .. 2^24 - 4
  /\ DmaCalls \in Nat

(* The line an end needs, and which of them send.                          *)
LineOf ==
  [hspi_tx |-> "SPI_AHB_TX", hspi_rx |-> "SPI_AHB_RX", pspi_tx |-> "SPI_APB_TX",
   pspi_rx |-> "SPI_APB_RX", i2c_tx |-> "I2C_TX", i2c_rx |-> "I2C_RX", uart0_tx |-> "UART0_TX",
   uart0_rx |-> "UART0_RX", uart1_tx |-> "UART1_TX", uart1_rx |-> "UART1_RX",
   adc_rx |-> "AUDIO1_RX", pwm_tx |-> "PWM_TX", audio_tx |-> "AUDIO0_TX",
   audio_rx |-> "AUDIO0_RX", ana_tx |-> "ALGM_TX", ana_rx |-> "ALGM_RX",
   rf_tx |-> "ZB_TX", rf_rx |-> "ZB_RX"]
Port(e) ==                  \* whose data register
  CASE e \in {"hspi_tx", "hspi_rx"} -> "hspi"    [] e \in {"pspi_tx", "pspi_rx"} -> "pspi"
    [] e \in {"i2c_tx", "i2c_rx"} -> "i2c"       [] e \in {"uart0_tx", "uart0_rx"} -> "uart0"
    [] e \in {"uart1_tx", "uart1_rx"} -> "uart1" [] e \in {"audio_tx", "audio_rx"} -> "audio"
    [] e \in {"ana_tx", "ana_rx"} -> "analog"    [] e = "adc_rx" -> "fifo1"
    [] e = "pwm_tx" -> "pwm"  [] e = "rf_tx" -> "rf_tx" [] e = "rf_rx" -> "rf_rx"
Sends == {"hspi_tx", "pspi_tx", "i2c_tx", "uart0_tx", "uart1_tx", "pwm_tx", "audio_tx",
          "ana_tx", "rf_tx"}

-----------------------------------------------------------------------------
(* Statements, on a channel's register, on a list in memory, or on what a  *)
(* peripheral counts; and how a statement is executed, below.              *)
Stmt(k, at, v) == [kind |-> k, at |-> at, v |-> v]

dma_cal_size(len) == [words |-> (len + 3) \div 4, rest |-> len % 4]

\* The bits of the table before stay.
dma_configFault(c, table) == <<Stmt("set", c, <<"ctl", "or", table>>)>>

dma_config(c, table) == <<Stmt("set", c, <<"ctl", "clear", {}>>), Stmt("set", c, <<"ctl", "or", table>>)>>

dma_set_size(c, len) == <<Stmt("set", c, <<"size", "=", dma_cal_size(len)>>)>>
dma_set_address(c, src, dst) == <<Stmt("set", c, <<"src", "=", src>>), Stmt("set", c, <<"dst", "=", dst>>)>>
dma_chn_en(c, e, list, ring) == <<Stmt("en", c, [end |-> e, list |-> list, ring |-> ring])>>
dma_chn_dis(c) == <<Stmt("dis", c, 0)>>
dma_clr_irq_mask(c, m) == <<Stmt("set", c, <<"masked", "or", m>>)>>
dma_set_irq_mask(c, m) == <<Stmt("set", c, <<"masked", "only", m>>)>>
List(c, head) == <<Stmt("set", c, <<"llp", "=", head>>)>>
Counts(e, n) == <<Stmt("count", e, n)>>

(* A buffer of memory is known by the end that uses it and a number.       *)
Buf(e, i) == <<e, i>>
Piece(e, i, len) == [mem |-> Buf(e, i), bytes |-> len]

(* Addresses in the order of the end's direction; then size, then enable.  *)
Addresses(c, e, i) ==
  IF e \in Sends THEN dma_set_address(c, Buf(e, i), <<Port(e), 0>>)
                 ELSE dma_set_address(c, <<Port(e), 0>>, Buf(e, i))
spi_set_dma(c, e, len) ==
  Addresses(c, e, 1) \o dma_set_size(c, len) \o dma_chn_en(c, e, <<Piece(e, 1, len)>>, FALSE)

spi_master_write_dma(c, e, len) == Counts(e, len) \o spi_set_dma(c, e, len)
spi_master_write_read_dma(c, d, e, f, wr, rd) ==
  Counts(e, wr) \o Counts(f, rd) \o spi_set_dma(c, e, wr) \o spi_set_dma(d, f, rd)
spi_set_tx_dma(c, e, len) == Counts(e, len) \o spi_set_dma(c, e, len)
spi_set_rx_dma(c, e, len) == spi_set_dma(c, e, len)    \* the master counts

(* The channel is enabled before the length and the launch are stored.     *)
i2c_master_write_dma(c, e, len) ==
  dma_set_size(c, len) \o Addresses(c, e, 1)
    \o dma_chn_en(c, e, <<Piece(e, 1, len)>>, FALSE) \o Counts(e, len)
i2c_master_read_dma(c, e, len) == i2c_master_write_dma(c, e, len)
i2c_slave_set_tx_dma(c, e, len) == spi_set_dma(c, e, len)
i2c_slave_set_rx_dma(c, e, len) == spi_set_dma(c, e, len)

uart_send_dma(c, e, len) == spi_set_dma(c, e, len)
uart_receive_dma(c, e, size) == dma_chn_dis(c) \o spi_set_dma(c, e, size)

adc_set_dma_config(c) ==
  dma_config(c, adc_rx_dma_config) \o dma_clr_irq_mask(c, {"TC", "ERR", "ABT"})
    \o dma_set_irq_mask(c, {"TC"})
AdcSamples(c, e, len) == spi_set_dma(c, e, len)

(* The fifo's own wrap, of 16 bits, beside the channel's size.             *)
audio_set_buff_len(e, len) == Counts(e, 4 * ((len % 2^16) \div 4))
audio_dma_config(c, e, len, head) ==
  audio_set_buff_len(e, len) \o dma_config(c, ConfigOf[e]) \o Addresses(c, e, 1)
    \o dma_set_size(c, len) \o List(c, head)
audio_dma_add_list_element(c, element, next, e, i, len) ==
  <<Stmt("element", element, [chn |-> c, end |-> e, i |-> i, size |-> dma_cal_size(len), llp |-> next])>>
AudioRxChain(c, len) ==
  audio_dma_config(c, "audio_rx", len, "rx_list")
    \o audio_dma_add_list_element(c, "rx_list", "rx_list", "audio_rx", 1, len)
    \o dma_chn_en(c, "audio_rx", <<Piece("audio_rx", 1, len)>>, TRUE)
AudioTxChain(c, len) ==
  audio_dma_config(c, "audio_tx", len, "tx_list")
    \o audio_dma_add_list_element(c, "tx_list", "tx_list", "audio_tx", 1, len)
    \o dma_chn_en(c, "audio_tx", <<Piece("audio_tx", 1, len)>>, TRUE)

pwm_set_dma_buf(c, len) == Addresses(c, "pwm_tx", 1) \o dma_set_size(c, len)
pwm_ir_dma_mode_start(c, list, ring) == dma_chn_en(c, "pwm_tx", list, ring)
pwm_set_dma_chain_llp(c, len, head) ==
  dma_config(c, pwm_tx_dma_config) \o Addresses(c, "pwm_tx", 1) \o dma_set_size(c, len) \o List(c, head)

(* Two buffers, the second of another length, then the end of the list or  *)
(* the first again.                                                        *)
PwmChain(c, len, other, ring) ==
  pwm_set_dma_chain_llp(c, len, "pwm_2")
    \o audio_dma_add_list_element(c, "pwm_2", IF ring THEN "pwm_1" ELSE "nil", "pwm_tx", 2, other)
    \o audio_dma_add_list_element(c, "pwm_1", "pwm_2", "pwm_tx", 1, len)
    \o pwm_ir_dma_mode_start(c, <<Piece("pwm_tx", 1, len), Piece("pwm_tx", 2, other)>>, ring)

(* The register port's transfers set their table each time, last.          *)
analog_buff_dma(c, e, len) ==
  (IF e = "ana_rx" THEN Counts(e, len) ELSE <<>>) \o Addresses(c, e, 1) \o dma_set_size(c, len)
    \o dma_config(c, ConfigOf[e]) \o dma_chn_en(c, e, <<Piece(e, 1, len)>>, FALSE)

analog_reg32_dma(c, e) == analog_buff_dma(c, e, 4)     \* one word
(* Pairs of address and datum; started when the channel is enabled.        *)
analog_write_addr_data_dma(c, len) == analog_buff_dma(c, "ana_tx", len)

(* The radio has channels 0 and 1 and triggers them itself; it finds the   *)
(* packets to send by itself, and receives them four bytes into a buffer.  *)
rf_set_tx_dma_config ==
  dma_config(0, rf_tx_dma_config) \o <<Stmt("set", 0, <<"dst", "=", <<"rf_tx", 0>>>>)>>
rf_set_rx_dma ==
  dma_config(1, rf_rx_dma_config) \o <<Stmt("set", 1, <<"src", "=", <<"rf_rx", 0>>>>)>>
    \o <<Stmt("set", 1, <<"size", "=", [words |-> 2^22 - 1, rest |-> 3]>>)>>
    \o <<Stmt("set", 1, <<"dst", "=", Buf("rf_rx", 1)>>)>>

-----------------------------------------------------------------------------
VARIABLES
  dmaReg,        \* the registers of each channel
  dmaList,       \* the list elements in memory
  dmaChnOf,      \* the drivers' variables: the channel of an end
  dmaOwner,      \* the end a channel was configured for last
  dmaTodo,       \* statements the running call still executes
  dmaAsked,      \* what an enabled channel was asked to move
  dmaCount,      \* the bytes a peripheral was told to move, 0 when not told
  dmaCalled      \* calls made

dmaVars == <<dmaReg, dmaList, dmaChnOf, dmaOwner, dmaTodo, dmaAsked, dmaCount, dmaCalled>>

Nothing == [end |-> "none", list |-> <<>>, ring |-> FALSE]
Empty == <<"none", 0>>
ResetChannel ==
  [ctl |-> {}, masked |-> {}, src |-> Empty, dst |-> Empty, size |-> dma_cal_size(0),
   llp |-> "nil", en |-> FALSE]
NoElement == [ctl |-> {}, masked |-> {}, src |-> Empty, dst |-> Empty,
              size |-> dma_cal_size(0), llp |-> "nil"]
Elements == {"rx_list", "tx_list", "pwm_1", "pwm_2"}

DmaAtReset(ends) ==
  [reg |-> [c \in DmaChns |-> ResetChannel], list |-> [e \in Elements |-> NoElement],
   chnOf |-> [e \in ends |-> 0], owner |-> [c \in DmaChns |-> "none"],
   asked |-> [c \in DmaChns |-> Nothing], count |-> [e \in ends |-> 0]]

Used == DOMAIN dmaChnOf

DmaInit ==
  /\ \E ends \in DmaUses :
       LET s == DmaAtReset(ends) IN
       /\ dmaReg = s.reg /\ dmaList = s.list /\ dmaAsked = s.asked
       /\ dmaChnOf = s.chnOf /\ dmaOwner = s.owner /\ dmaCount = s.count
  /\ dmaTodo = <<>> /\ dmaCalled = 0

(* How a field changes: dma_set_irq_mask leaves the bits given as the only *)
(* interrupts that are not masked.                                         *)
Changed(old, how, v) ==
  CASE how = "or" -> old \cup v
    [] how = "clear" -> v
    [] how = "only" -> (old \cup {"TC", "ERR", "ABT"}) \ v
    [] how = "=" -> v

ElementOf(s) ==             \* the control register as it is now
  LET v == s.v out == v.end \in Sends IN
  [ctl |-> dmaReg[v.chn].ctl, masked |-> dmaReg[v.chn].masked,
   src |-> IF out THEN Buf(v.end, v.i) ELSE <<Port(v.end), 0>>,
   dst |-> IF out THEN <<Port(v.end), 0>> ELSE Buf(v.end, v.i), size |-> v.size, llp |-> v.llp]

DmaStatement ==
  /\ dmaTodo # <<>>
  /\ LET s == Head(dmaTodo) IN
       /\ dmaReg' =
            CASE s.kind = "set" -> [dmaReg EXCEPT ![s.at][s.v[1]] = Changed(@, s.v[2], s.v[3])]
              [] s.kind \in {"en", "dis"} -> [dmaReg EXCEPT ![s.at].en = s.kind = "en"]
              [] OTHER -> dmaReg
       /\ dmaAsked' =
            CASE s.kind = "en" -> [dmaAsked EXCEPT ![s.at] = s.v]
              [] s.kind = "dis" -> [dmaAsked EXCEPT ![s.at] = Nothing]
              [] OTHER -> dmaAsked
       /\ dmaList' = IF s.kind = "element" THEN [dmaList EXCEPT ![s.at] = ElementOf(s)] ELSE dmaList
       /\ dmaCount' = IF s.kind = "count" THEN [dmaCount EXCEPT ![s.at] = s.v] ELSE dmaCount
  /\ dmaTodo' = Tail(dmaTodo)
  /\ UNCHANGED <<dmaChnOf, dmaOwner, dmaCalled>>

-----------------------------------------------------------------------------
(* The hardware.  At the end of a piece the channel loads the next element *)
(* of its list, with the control word in it, or is disabled.               *)
ByRadio(c) == <<"auto_en", 0>> \in dmaReg[c].ctl

DmaRuns(c) ==
  LET r == dmaReg[c] asked == dmaAsked[c] IN
  /\ r.en /\ ~ByRadio(c)
  /\ dmaReg' =
       [dmaReg EXCEPT ![c] = IF r.llp = "nil" THEN [r EXCEPT !.en = FALSE]
                             ELSE [en |-> TRUE] @@ dmaList[r.llp]]
  /\ dmaAsked' =
       [dmaAsked EXCEPT ![c] =
          IF asked.ring THEN [asked EXCEPT !.list = Append(Tail(@), Head(@))]
          ELSE IF Len(asked.list) <= 1 THEN Nothing
          ELSE [asked EXCEPT !.list = Tail(@)]]
  /\ UNCHANGED <<dmaList, dmaChnOf, dmaOwner, dmaTodo, dmaCount, dmaCalled>>

(* The radio starts its channels; to send, it provides address and size.   *)
RadioTriggers(c) ==
  LET r == dmaReg[c] e == dmaOwner[c] sent == [words |-> 4, rest |-> 0] IN
  /\ dmaTodo = <<>> /\ e \in {"rf_tx", "rf_rx"} /\ ~r.en /\ ByRadio(c)
  /\ dmaReg' = [dmaReg EXCEPT ![c] =
                  IF e = "rf_rx" THEN [r EXCEPT !.en = TRUE]
                  ELSE [r EXCEPT !.en = TRUE, !.src = Buf(e, 1), !.size = sent]]
  /\ dmaAsked' = [dmaAsked EXCEPT ![c] =
                    [end |-> e, ring |-> FALSE,
                     list |-> <<Piece(e, 1, IF e = "rf_rx" THEN 2^24 - 5 ELSE 16)>>]]
  /\ UNCHANGED <<dmaList, dmaChnOf, dmaOwner, dmaTodo, dmaCount, dmaCalled>>

-----------------------------------------------------------------------------
(* The calls.  The application gives a channel to another end, or starts a *)
(* transfer, when the channel is not running, nor another one for the same *)
(* end.  Only the drivers of audio and PWM store a list; a channel they    *)
(* used is theirs until the reset, for the others would go on into that    *)
(* list.                                                                   *)
Stopped(c) == ~dmaReg[c].en
NoListLeft(c) == dmaReg[c].llp = "nil"
Unused(ends) == \A c \in DmaChns : dmaOwner[c] \in ends => Stopped(c)

DmaCall(stmts, own, chn_of, told) ==
  /\ dmaTodo = <<>> /\ dmaCalled < DmaCalls
  /\ dmaTodo' = stmts /\ dmaOwner' = own /\ dmaChnOf' = chn_of
  /\ dmaCount' = [e \in Used |-> IF e \in told THEN 0 ELSE dmaCount[e]]
  /\ dmaCalled' = dmaCalled + 1
  /\ UNCHANGED <<dmaReg, dmaList, dmaAsked>>

SetConfig(c, e, stmts) ==   \* the *_set_dma_config functions
  /\ e \in Used /\ Stopped(c) /\ NoListLeft(c) /\ Unused({e})
  /\ DmaCall(stmts, [dmaOwner EXCEPT ![c] = e], [dmaChnOf EXCEPT ![e] = c], {})

PlainEnds == {"hspi_tx", "hspi_rx", "pspi_tx", "pspi_rx", "i2c_tx", "i2c_rx", "uart0_tx",
              "uart0_rx", "uart1_tx", "uart1_rx", "pwm_tx"}
DmaConfigure ==
  \/ \E c \in DmaChns, e \in PlainEnds : SetConfig(c, e, dma_config(c, ConfigOf[e]))
  \/ \E c \in DmaChns : SetConfig(c, "adc_rx", adc_set_dma_config(c))
  \/ SetConfig(0, "rf_tx", rf_set_tx_dma_config)
  \/ SetConfig(1, "rf_rx", rf_set_rx_dma)

Owns(e) == e \in Used /\ dmaOwner[dmaChnOf[e]] = e
Run(e, stmts) ==
  Owns(e) /\ Stopped(dmaChnOf[e]) /\ NoListLeft(dmaChnOf[e]) /\ DmaCall(stmts, dmaOwner, dmaChnOf, {e})

DmaTransfer ==
  \E len \in DmaLens :
    \/ \E e \in {"hspi_tx", "pspi_tx"} :
         \/ Run(e, spi_master_write_dma(dmaChnOf[e], e, len))
         \/ Run(e, spi_set_tx_dma(dmaChnOf[e], e, len))
    \/ \E e \in {"hspi_rx", "pspi_rx"} : Run(e, spi_set_rx_dma(dmaChnOf[e], e, len))
    \/ \E p \in {<<"hspi_tx", "hspi_rx">>, <<"pspi_tx", "pspi_rx">>}, rd \in DmaLens :
         /\ Owns(p[1]) /\ Owns(p[2]) /\ Stopped(dmaChnOf[p[2]]) /\ NoListLeft(dmaChnOf[p[2]])
         /\ Run(p[1], spi_master_write_read_dma(dmaChnOf[p[1]], dmaChnOf[p[2]], p[1], p[2], len, rd))
    \/ len < 256 /\ Run("i2c_tx", i2c_master_write_dma(dmaChnOf["i2c_tx"], "i2c_tx", len))
    \/ len < 256 /\ Run("i2c_rx", i2c_master_read_dma(dmaChnOf["i2c_rx"], "i2c_rx", len))
    \/ len < 256 /\ Run("i2c_tx", i2c_slave_set_tx_dma(dmaChnOf["i2c_tx"], "i2c_tx", len))
    \/ len < 256 /\ Run("i2c_rx", i2c_slave_set_rx_dma(dmaChnOf["i2c_rx"], "i2c_rx", len))
    \/ \E e \in {"uart0_tx", "uart1_tx"} : Run(e, uart_send_dma(dmaChnOf[e], e, len))
    \/ \E e \in {"uart0_rx", "uart1_rx"} :    \* may be called while it runs
         /\ Owns(e) /\ NoListLeft(dmaChnOf[e])
         /\ DmaCall(uart_receive_dma(dmaChnOf[e], e, len), dmaOwner, dmaChnOf, {e})
    \/ Run("adc_rx", AdcSamples(dmaChnOf["adc_rx"], "adc_rx", len))
    \/ Run("pwm_tx", pwm_set_dma_buf(dmaChnOf["pwm_tx"], len)
                       \o pwm_ir_dma_mode_start(dmaChnOf["pwm_tx"], <<Piece("pwm_tx", 1, len)>>, FALSE))
    \/ \E c \in DmaChns, e \in {"ana_tx", "ana_rx"} \cap Used :
         /\ Stopped(c) /\ NoListLeft(c) /\ Unused({"ana_tx", "ana_rx"})
         /\ \E stmts \in {analog_buff_dma(c, e, len), analog_reg32_dma(c, e)}
                            \cup (IF e = "ana_tx" THEN {analog_write_addr_data_dma(c, len)} ELSE {}) :
              DmaCall(stmts, [dmaOwner EXCEPT ![c] = e], dmaChnOf, {e})

(* The lists: one of each kind is in use at most.                          *)
Chain(c, e, stmts) ==
  /\ e \in Used /\ Stopped(c) /\ Unused({e})
  /\ DmaCall(stmts, [dmaOwner EXCEPT ![c] = e], [dmaChnOf EXCEPT ![e] = c], {e})

DmaChain ==
  \E c \in DmaChns, len \in DmaLens :
    /\ len % 4 = 0 /\ len < 2^16
    /\ \/ Chain(c, "audio_rx", AudioRxChain(c, len))
       \/ Chain(c, "audio_tx", AudioTxChain(c, len))
       \/ \E other \in DmaLens :      \* a ring if the pieces are alike
            Chain(c, "pwm_tx", PwmChain(c, len, other, len = other))

DmaStop ==                  \* audio_*_dma_dis, adc_clr_sample_status_dma
  \E e \in {"audio_rx", "audio_tx", "adc_rx"} :
    /\ Owns(e) /\ ~Stopped(dmaChnOf[e])
    /\ DmaCall(dma_chn_dis(dmaChnOf[e]), dmaOwner, dmaChnOf, {})

DmaReset ==
  /\ dmaTodo = <<>> /\ dmaCalled > 0
  /\ LET s == DmaAtReset(Used) IN
       /\ dmaReg' = s.reg /\ dmaList' = s.list /\ dmaAsked' = s.asked
       /\ dmaChnOf' = s.chnOf /\ dmaOwner' = s.owner /\ dmaCount' = s.count
  /\ dmaCalled' = 0
  /\ UNCHANGED dmaTodo

DmaNext ==
  \/ DmaStatement
  \/ \E c \in DmaChns : DmaRuns(c) \/ RadioTriggers(c)
  \/ dmaTodo = <<>> /\ (DmaConfigure \/ DmaTransfer \/ DmaChain \/ DmaStop)
  \/ DmaReset

-----------------------------------------------------------------------------
(* The transfer a channel's registers describe.                            *)
Number(f, ctl) ==
  LET bit(b) == IF <<f, b>> \in ctl THEN 2^b ELSE 0
  IN bit(0) + bit(1) + bit(2) + bit(3) + bit(4)
SizeInBytes(s) == IF s.rest = 0 THEN 4 * s.words ELSE 4 * (s.words - 1) + s.rest
Described(r) ==
  LET out == <<"dstmode", 0>> \in r.ctl in == <<"srcmode", 0>> \in r.ctl IN
  [line |-> IF out = in THEN -1
            ELSE Number(IF out THEN "dst_req_sel" ELSE "src_req_sel", r.ctl),
   fixed |-> {f \in {"src_addr_ctrl", "dst_addr_ctrl"} : Number(f, r.ctl) = 2},
   wide |-> Words \subseteq r.ctl,
   port |-> IF out THEN r.dst ELSE r.src, mem |-> IF out THEN r.src ELSE r.dst,
   bytes |-> SizeInBytes(r.size)]
Request(e, piece) ==
  [line |-> DmaReq[LineOf[e]],
   fixed |-> {IF e \in Sends THEN "dst_addr_ctrl" ELSE "src_addr_ctrl"},
   wide |-> TRUE, port |-> <<Port(e), 0>>, mem |-> piece.mem, bytes |-> piece.bytes]

(* Whatever the channels were used for before, and however the hardware    *)
(* interleaves with the calls, an enabled channel moves a piece its driver *)
(* asked for: between that driver's port and that piece's buffer, on the   *)
(* port's request line, all of its bytes and no more, and as many as the   *)
(* peripheral was told; a list is followed to its end; and a channel stops *)
(* only when nothing is left.                                              *)
DmaMovesAsAsked ==
  \A c \in DmaChns :
    LET asked == dmaAsked[c] IN
    IF dmaReg[c].en
    THEN /\ asked.list # <<>>
         /\ Described(dmaReg[c]) = Request(asked.end, Head(asked.list))
         /\ dmaTodo = <<>> /\ ~ByRadio(c) /\ asked.end # "pwm_tx" =>
              dmaCount[asked.end] \in {0, Head(asked.list).bytes}
         /\ asked.end = "adc_rx" => "TC" \notin dmaReg[c].masked
    ELSE asked.list = <<>>
=============================================================================
