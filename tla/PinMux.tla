------------------------------- MODULE PinMux --------------------------------
(***************************************************************************)
(* Giving pins to peripherals: the *_set_pin functions of the drivers, and *)
(* gpio_init with the defaults of gpio_default.h.  A pin carries the       *)
(* function its two bits of a byte select, that byte being shared with     *)
(* three more pins, unless its bit of the function register makes it a     *)
(* GPIO.  Some functions also need a bit of reg_gpio_pad_mul_sel, which    *)
(* all pins share.  The masks and values of the byte are written out in    *)
(* each driver.                                                            *)
(*                                                                         *)
(* A call is the sequence of its register accesses, as in AnalogGpio, and  *)
(* is executed access by access.                                           *)
(***************************************************************************)
EXTENDS AnalogGpio

LOCAL INSTANCE SequencesExt
LOCAL INSTANCE TLC

CONSTANTS
  PinCalls,      \* bound on the calls of a behaviour
  PinUsers       \* the users of pins, of AllPinUsers

AllPinUsers == {"uart", "uart_flow", "rtx", "i2c", "hspi", "pspi", "spi_cs",
                "spi_slave", "pwm", "s7816", "i2s", "dmic", "adc", "usb", "timer", "init"}

ASSUME PinMuxAssumption == PinCalls \in Nat /\ PinUsers \subseteq AllPinUsers

Mux(p) == <<"mux", p[1], IF p[2] > 3 THEN "h" ELSE "l">>    \* reg_gpio_func_mux
MuxOf(p, mask, val) == Field(Mux(p), mask, val)
MulSel(b) == BM_SET(<<"mul_sel", "all">>, b)

Own(p) == {2 * (p[2] % 4), 2 * (p[2] % 4) + 1}              \* BIT_RNG(start_bit, start_bit + 1)
MuxPlain(p, n) == MuxOf(p, Own(p), Shifted(n, 2 * (p[2] % 4)))

-----------------------------------------------------------------------------
(* Each table: pin, the bits of the byte cleared, those set, pad_mul_sel's.*)
UartTx == {<<<<"A", 3>>, {7, 6}, {6}, {}>>, <<<<"B", 2>>, {5, 4}, {5}, {0}>>,
           <<<<"D", 2>>, {5, 4}, {}, {}>>,  <<<<"C", 6>>, {5, 4}, {5}, {0}>>,
           <<<<"D", 6>>, {5, 4}, {}, {}>>,  <<<<"E", 0>>, {1, 0}, {0}, {}>>}
UartRx == {<<<<"A", 4>>, {1, 0}, {0}, {}>>, <<<<"B", 3>>, {7, 6}, {7}, {0}>>,
           <<<<"D", 3>>, {7, 6}, {}, {}>>,  <<<<"C", 7>>, {7, 6}, {7}, {0}>>,
           <<<<"D", 7>>, {7, 6}, {}, {}>>,  <<<<"E", 2>>, {5, 4}, {4}, {}>>}
UartCts == {<<<<"A", 1>>, {2, 3}, {2}, {}>>, <<<<"B", 6>>, {4, 5}, {5}, {0}>>,
            <<<<"D", 0>>, {0, 1}, {}, {}>>,  <<<<"C", 4>>, {0, 1}, {1}, {0}>>,
            <<<<"D", 4>>, {0, 1}, {}, {}>>,  <<<<"E", 1>>, {2, 3}, {2}, {}>>}
UartRts == {<<<<"A", 2>>, {4, 5}, {4}, {}>>, <<<<"B", 4>>, {0, 1}, {1}, {0}>>,
            <<<<"D", 1>>, {2, 3}, {}, {}>>,  <<<<"C", 5>>, {2, 3}, {3}, {0}>>,
            <<<<"D", 5>>, {2, 3}, {}, {}>>,  <<<<"E", 3>>, {6, 7}, {6}, {}>>}

(* The pins each UART may use.                                             *)
uart_tx_pin_e ==
  [UART0 |-> {<<"A", 3>>, <<"B", 2>>, <<"D", 2>>}, UART1 |-> {<<"C", 6>>, <<"D", 6>>, <<"E", 0>>}]
uart_rx_pin_e ==
  [UART0 |-> {<<"A", 4>>, <<"B", 3>>, <<"D", 3>>}, UART1 |-> {<<"C", 7>>, <<"D", 7>>, <<"E", 2>>}]
uart_cts_pin_e ==
  [UART0 |-> {<<"A", 1>>, <<"B", 6>>, <<"D", 0>>}, UART1 |-> {<<"C", 4>>, <<"D", 4>>, <<"E", 1>>}]
uart_rts_pin_e ==
  [UART0 |-> {<<"A", 2>>, <<"B", 4>>, <<"D", 1>>}, UART1 |-> {<<"C", 5>>, <<"D", 5>>, <<"E", 3>>}]
s7816_rtx_pin_e ==
  {<<"A", 4>>, <<"B", 3>>, <<"D", 3>>, <<"C", 7>>, <<"D", 7>>, <<"E", 2>>}
PullUp(p) == gpio_set_up_down_res(p, gpio_pull_type_e.GPIO_PIN_PULLUP_10K)
Entry(table, p) == CHOOSE r \in table : r[1] = p
Selected(r) == (IF r[4] = {} THEN <<>> ELSE MulSel(r[4])) \o MuxOf(r[1], r[2], r[3])

uart_set_fuc_pin(t, r) ==
  Selected(t) \o Selected(r) \o gpio_function_dis(t[1]) \o gpio_function_dis(r[1])

uart_set_pin(t, r) ==
  PullUp(t[1]) \o PullUp(r[1]) \o uart_set_fuc_pin(t, r)
    \o gpio_input_en(t[1]) \o gpio_input_en(r[1])

uart_set_rtx_pin(r) ==                        \* also s7816_set_rtx_pin
  PullUp(r[1]) \o Selected(r) \o gpio_input_en(r[1]) \o gpio_function_dis(r[1])

(* The polarity these two set is the UART's, and no part of a pin.         *)
uart_cts_config(r) == Selected(r) \o gpio_function_dis(r[1]) \o gpio_input_en(r[1])
uart_rts_config(r) == Selected(r) \o gpio_function_dis(r[1])

I2cSda == {<<<<"B", 3>>, {7, 6}, {6}, {}>>, <<<<"C", 2>>, {5, 4}, {}, {}>>,
           <<<<"E", 2>>, {5, 4}, {}, {}>>,  <<<<"E", 3>>, {7, 6}, {}, {}>>}
I2cScl == {<<<<"B", 2>>, {5, 4}, {4}, {}>>, <<<<"C", 1>>, {3, 2}, {}, {}>>,
           <<<<"E", 0>>, {1, 0}, {}, {}>>,  <<<<"E", 1>>, {3, 2}, {}, {}>>}

i2c_sda_pin_e == {<<"B", 3>>, <<"C", 2>>, <<"E", 2>>, <<"E", 3>>}
i2c_scl_pin_e == {<<"B", 2>>, <<"C", 1>>, <<"E", 0>>, <<"E", 1>>}

i2c_set_pin(d, c) ==
  gpio_function_dis(c[1]) \o gpio_function_dis(d[1]) \o Selected(d) \o Selected(c)
    \o PullUp(d[1]) \o PullUp(c[1]) \o gpio_input_en(d[1]) \o gpio_input_en(c[1])

(* The pins of a configuration, signal by signal.                          *)
hspi_pin_config_t == <<"CLK", "CSN", "MOSI_IO0", "MISO_IO1", "WP_IO2", "HOLD_IO3">>
hspi_pin_def_e ==
  [CLK |-> {<<"B", 4>>, <<"A", 2>>}, CSN |-> {<<"B", 6>>, <<"A", 1>>},
   MOSI_IO0 |-> {<<"B", 3>>, <<"A", 4>>}, MISO_IO1 |-> {<<"B", 2>>, <<"A", 3>>},
   WP_IO2 |-> {<<"B", 1>>}, HOLD_IO3 |-> {<<"B", 0>>}]
pspi_pin_config_t == <<"CLK", "CSN", "MOSI_IO0", "MISO_IO1">>
pspi_pin_def_e ==
  [CLK |-> {<<"C", 5>>, <<"B", 5>>, <<"D", 1>>}, CSN |-> {<<"C", 4>>, <<"C", 0>>, <<"D", 0>>},
   MOSI_IO0 |-> {<<"C", 7>>, <<"B", 7>>, <<"D", 3>>}, MISO_IO1 |-> {<<"C", 6>>, <<"B", 6>>, <<"D", 2>>}]

\* The pin becomes peripheral before its function is selected.
hspi_set_pin_muxFault(p) ==
  gpio_function_dis(p) \o gpio_input_en(p)
    \o (IF p[1] = "A" THEN MulSel({1}) \o MuxPlain(p, 2) ELSE MuxPlain(p, 0))

hspi_set_pin_mux(p) ==
  (IF p[1] = "A" THEN MulSel({1}) \o MuxPlain(p, 2) ELSE MuxPlain(p, 0))
    \o gpio_function_dis(p) \o gpio_input_en(p)

hspi_set_pin(config) == FlattenSeq([i \in 1 .. Len(config) |-> hspi_set_pin_mux(config[i])])

pspi_set_pin_mux(p) ==
  MuxPlain(p, IF p[1] = "C" /\ p[2] >= 4 THEN 0 ELSE 1) \o gpio_function_dis(p) \o gpio_input_en(p)

pspi_set_pin(config) == FlattenSeq([i \in 1 .. Len(config) |-> pspi_set_pin_mux(config[i])])

hspi_cs_pin_en(p) == hspi_set_pin_mux(p)
pspi_cs_pin_en(p) == pspi_set_pin_mux(p)
hspi_cs_pin_dis(p) ==
  gpio_output_en(p) \o gpio_input_dis(p) \o gpio_set_high_level(p) \o gpio_function_en(p)
pspi_cs_pin_dis(p) == hspi_cs_pin_dis(p)

(* The high byte is computed from the low one, of which only PA0's bits    *)
(* were left: PA5 to PA7 lose their functions too.                         *)
spi_slave_set_pin ==
  Field(<<"mux", "A", "l">>, 2 .. 7, {}) \o Store(<<"mux", "A", "h">>, {})
    \o BM_CLR(<<"func", "A">>, 1 .. 4) \o BM_SET(<<"ie", "A">>, 1 .. 4)

pwm_pin_e ==
  ({"B"} \X {0, 1, 4, 5, 7}) \cup {<<"C", 0>>} \cup ({"D"} \X {0, 1, 2, 3, 4, 5, 7})
    \cup ({"E"} \X {0, 1, 2, 3, 4, 5, 6, 7})

pwm_set_pin(p) ==
  (IF p = <<"B", 7>> THEN MuxPlain(p, 0) \o BM_CLR(<<"mul_sel", "all">>, {3})
   ELSE IF p \in {<<"B", 4>>, <<"D", 7>>, <<"E", 6>>, <<"E", 7>>} THEN MuxPlain(p, 1)
   ELSE MulSel({0}) \o MuxPlain(p, 2))
    \o gpio_function_dis(p)

s7816_set_rst_pin(p) ==                       \* and s7816_set_vcc_pin
  gpio_function_en(p) \o gpio_output_en(p) \o gpio_input_dis(p) \o gpio_set_low_level(p)

s7816_set_pin(rst, vcc) ==
  s7816_set_rst_pin(rst) \o s7816_set_rst_pin(vcc)
    \o MuxOf(<<"A", 0>>, {0, 1}, {0}) \o gpio_function_dis(<<"A", 0>>)

audio_i2s_set_pin_mux(p) == MuxPlain(p, IF p = <<"C", 3>> THEN 0 ELSE 1) \o gpio_function_dis(p)
i2s_pin_e ==
  [BCK |-> <<"C", 3>>, ADC_LR |-> <<"C", 4>>, ADC_DAT |-> <<"C", 5>>, DAC_LR |-> <<"C", 6>>,
   DAC_DAT |-> <<"C", 7>>]
audio_i2s_set_pin ==
  audio_i2s_set_pin_mux(i2s_pin_e.BCK) \o audio_i2s_set_pin_mux(i2s_pin_e.ADC_LR)
    \o audio_i2s_set_pin_mux(i2s_pin_e.ADC_DAT) \o audio_i2s_set_pin_mux(i2s_pin_e.DAC_LR)
    \o audio_i2s_set_pin_mux(i2s_pin_e.DAC_DAT)

(* For the groups B and C the whole of reg_gpio_pad_mul_sel is stored.     *)
DmicGroups ==
  [B3 |-> Store(<<"mul_sel", "all">>, {2}) \o Field(<<"mux", "B", "h">>, {0, 1}, {})
            \o Field(<<"mux", "B", "l">>, 4 .. 7, {}) \o BM_CLR(<<"func", "B">>, {2, 3, 4}),
   C3 |-> Store(<<"mul_sel", "all">>, {0})
            \o Field(<<"mux", "C", "l">>, 2 .. 7, {3, 5, 7}) \o BM_CLR(<<"func", "C">>, {1, 2, 3}),
   D3 |-> Field(<<"mux", "D", "h">>, 0 .. 5, {0, 2, 4}) \o BM_CLR(<<"func", "D">>, {4, 5, 6}),
   B2 |-> Store(<<"mul_sel", "all">>, {2})
            \o Field(<<"mux", "B", "l">>, 4 .. 7, {}) \o BM_CLR(<<"func", "B">>, {2, 3}),
   C2 |-> Store(<<"mul_sel", "all">>, {0})
            \o Field(<<"mux", "C", "l">>, 2 .. 5, {3, 5}) \o BM_CLR(<<"func", "C">>, {1, 2}),
   D2 |-> Field(<<"mux", "D", "h">>, 0 .. 3, {0, 2}) \o BM_CLR(<<"func", "D">>, {4, 5})]
DmicPins ==
  [B3 |-> {"B"} \X {2, 3, 4}, C3 |-> {"C"} \X {1, 2, 3}, D3 |-> {"D"} \X {4, 5, 6},
   B2 |-> {"B"} \X {2, 3},    C2 |-> {"C"} \X {1, 2},    D2 |-> {"D"} \X {4, 5}]

adc_input_pin_def_e == ({"B"} \X Bits) \cup {<<"D", 0>>, <<"D", 1>>}
adc_pin_config(mode, p) ==
  gpio_function_en(p) \o gpio_input_dis(p)
    \o (IF mode = "ADC_GPIO_MODE" THEN gpio_output_dis(p) \o gpio_set_low_level(p)
        ELSE gpio_output_en(p) \o gpio_set_high_level(p))
adc_set_diff_pin(p, n) == adc_pin_config("ADC_GPIO_MODE", p) \o adc_pin_config("ADC_GPIO_MODE", n)

usb_set_pin_en ==
  MuxOf(<<"A", 5>>, {2, 3}, {}) \o gpio_function_dis(<<"A", 5>>)
    \o MuxOf(<<"A", 6>>, {4, 5}, {}) \o gpio_function_dis(<<"A", 6>>)
    \o BM_SET(<<"ie", "A">>, {5, 6}) \o BM_SET(<<"usb", "0b">>, {7})

timer_gpio_init(p, line, falling) ==
  gpio_function_en(p) \o gpio_output_dis(p) \o gpio_input_en(p)
    \o gpio_set_up_down_res(p, IF falling THEN 3 ELSE 2)
    \o gpio_set_irq(p, IF falling THEN "LOW_LEVEL" ELSE "HIGH_LEVEL", line) \o gpio_irq_en(p, line)

(* The defaults of a group: inputs enabled, outputs disabled, what is put  *)
(* out, strong pins, GPIOs, resistors.  PA7 is the debugger's wire, pulled *)
(* up; PE6 and PE7 are the wires of its clocked interface.                 *)
Defaults(in, special, pull) ==
  [ie |-> in, oen |-> Bits, out |-> {}, ds |-> Bits, func |-> Bits \ special,
   pull_l |-> {}, pull_h |-> pull]
DefaultsA == Defaults({7}, {7}, {6})
DefaultsB == Defaults({}, {}, {})
DefaultsC == Defaults({}, {}, {})
DefaultsD == Defaults({}, {}, {})
DefaultsE == Defaults({6, 7}, {6, 7}, {})
DefaultsOf == [A |-> DefaultsA, B |-> DefaultsB, C |-> DefaultsC, D |-> DefaultsD, E |-> DefaultsE]

(* Whole registers are stored, a group's setting2 with polarity and        *)
(* interrupts for A, B and E; functions stay selected.                     *)
StoreDefault(r, g) == Store(<<r, g>>, DefaultsOf[g][r])
gpio_init_group(g) ==
  FlattenSeq([i \in 1 .. 5 |-> StoreDefault(<<"ie", "oen", "out", "ds", "func">>[i], g)])
    \o (IF g \in {"A", "B", "E"} THEN Store(<<"pol", g>>, {}) \o Store(<<"irq", g>>, {}) ELSE <<>>)
gpio_analog_resistance_init(g) == StoreDefault("pull_l", g) \o StoreDefault("pull_h", g)
gpio_init(resistances) ==
  LET init(g) == gpio_init_group(g)
      pull(g) == IF resistances THEN gpio_analog_resistance_init(g) ELSE <<>>
  IN init("A") \o init("B") \o init("C") \o init("D") \o init("E")
       \o pull("A") \o pull("B") \o pull("C") \o pull("D") \o pull("E")

-----------------------------------------------------------------------------
(* What a pin must be for its user: its function, the bits it needs in     *)
(* reg_gpio_pad_mul_sel, an enabled input, a pull-up.  The functions are   *)
(* uniform per peripheral and group.                                       *)
Role(fn, sel, in, up) == [fn |-> fn, sel |-> sel, in |-> in, up |-> up]
UartRole(p, in, up) ==
  CASE p[1] \in {"A", "E"} -> Role(1, {}, in, up)
    [] p[1] \in {"B", "C"} -> Role(2, {0}, in, up)
    [] p[1] = "D"          -> Role(0, {}, in, up)
I2cRole(p)  == Role(IF p[1] = "B" THEN 1 ELSE 0, {}, TRUE, TRUE)
HspiRole(p) == IF p[1] = "A" THEN Role(2, {1}, TRUE, FALSE) ELSE Role(0, {}, TRUE, FALSE)
PspiRole(p) == Role(IF p[1] = "C" /\ p[2] # 0 THEN 0 ELSE 1, {}, TRUE, FALSE)
PwmRole(p)  ==
  CASE p = <<"B", 7>> -> Role(0, {}, FALSE, FALSE)
    [] p \in {<<"B", 4>>, <<"D", 7>>, <<"E", 6>>, <<"E", 7>>} -> Role(1, {}, FALSE, FALSE)
    [] OTHER -> Role(2, {0}, FALSE, FALSE)
I2sRole(p)  == Role(IF p = <<"C", 3>> THEN 0 ELSE 1, {}, FALSE, FALSE)
DmicRole(g) ==
  CASE g \in {"B2", "B3"} -> Role(0, {2}, FALSE, FALSE)
    [] g \in {"C2", "C3"} -> Role(2, {0}, FALSE, FALSE)
    [] OTHER              -> Role(1, {}, FALSE, FALSE)


-----------------------------------------------------------------------------
(* The calls: accesses, the roles they give, the pins they take back, and  *)
(* whether pins are made peripheral last.                                  *)
PinCall(acc, roles) == [acc |-> acc, roles |-> roles, freed |-> {}, last |-> TRUE]
Freeing(acc, pins) == [acc |-> acc, roles |-> <<>>, freed |-> pins, last |-> TRUE]
RangeOf(s) == {s[i] : i \in 1 .. Len(s)}

(* SPI pins of one group or, for PSPI, of one row of its table.            *)
HspiPinSets ==
  {[i \in 1 .. x[1] |-> CHOOSE p \in hspi_pin_def_e[hspi_pin_config_t[i]] : p[1] = x[2]] :
     x \in {<<4, "A">>, <<6, "B">>}}
PspiPinSets ==
  {[i \in 1 .. 4 |-> CHOOSE p \in pspi_pin_def_e[pspi_pin_config_t[i]] : p \in row] :
     row \in {{"C"} \X (4 .. 7), ({"B"} \X Bits) \cup {<<"C", 0>>}, {"D"} \X Bits}}
FreePins == {<<"A", 1>>, <<"B", 6>>}

CallsOf(user) ==
  CASE user = "uart" ->
         {PinCall(uart_set_pin(x[1], x[2]), [p \in {x[1][1], x[2][1]} |-> UartRole(p, TRUE, TRUE)]) :
            x \in UNION {{<<Entry(UartTx, t), Entry(UartRx, r)>> :
                           t \in uart_tx_pin_e[u], r \in uart_rx_pin_e[u]} : u \in {"UART0", "UART1"}}}
    [] user = "uart_flow" ->
         {PinCall(uart_cts_config(r), [p \in {r[1]} |-> UartRole(p, TRUE, FALSE)]) :
            r \in UNION {{Entry(UartCts, p) : p \in uart_cts_pin_e[u]} : u \in {"UART0", "UART1"}}}
           \cup {PinCall(uart_rts_config(r), [p \in {r[1]} |-> UartRole(p, FALSE, FALSE)]) :
                   r \in UNION {{Entry(UartRts, p) : p \in uart_rts_pin_e[u]} : u \in {"UART0", "UART1"}}}
    [] user = "rtx" ->
         {PinCall(uart_set_rtx_pin(r), [p \in {r[1]} |-> UartRole(p, TRUE, TRUE)]) :
            r \in {Entry(UartRx, p) : p \in s7816_rtx_pin_e}}
    [] user = "i2c" ->
         {[PinCall(i2c_set_pin(x[1], x[2]), [p \in {x[1][1], x[2][1]} |-> I2cRole(p)]) EXCEPT !.last = FALSE] :
            x \in {<<Entry(I2cSda, d), Entry(I2cScl, c)>> : d \in i2c_sda_pin_e, c \in i2c_scl_pin_e}}
    [] user = "hspi" ->
         {PinCall(hspi_set_pin(c), [p \in RangeOf(c) |-> HspiRole(p)]) : c \in HspiPinSets}
    [] user = "pspi" ->
         {PinCall(pspi_set_pin(c), [p \in RangeOf(c) |-> PspiRole(p)]) : c \in PspiPinSets}
    [] user = "spi_cs" -> {Freeing(hspi_cs_pin_dis(p), {p}) : p \in hspi_pin_def_e.CSN}
           \cup {Freeing(pspi_cs_pin_dis(p), {p}) : p \in pspi_pin_def_e.CSN}
           \cup {PinCall(hspi_cs_pin_en(p), [q \in {p} |-> HspiRole(q)]) : p \in hspi_pin_def_e.CSN}
           \cup {PinCall(pspi_cs_pin_en(p), [q \in {p} |-> PspiRole(q)]) : p \in pspi_pin_def_e.CSN}
    [] user = "spi_slave" ->
         {PinCall(spi_slave_set_pin, [p \in {<<"A", n>> : n \in 1 .. 4} |-> Role(0, {}, TRUE, FALSE)])}
    [] user = "pwm" -> {PinCall(pwm_set_pin(p), [q \in {p} |-> PwmRole(q)]) : p \in pwm_pin_e}
    [] user = "s7816" ->
         {[PinCall(s7816_set_pin(<<"A", 1>>, <<"A", 2>>), [p \in {<<"A", 0>>} |-> UartRole(p, FALSE, FALSE)])
             EXCEPT !.freed = {<<"A", 1>>, <<"A", 2>>}]}
    [] user = "i2s" ->
         {PinCall(audio_i2s_set_pin, [p \in {i2s_pin_e[s] : s \in DOMAIN i2s_pin_e} |-> I2sRole(p)])}
    [] user = "dmic" ->
         {PinCall(DmicGroups[g], [p \in DmicPins[g] |-> DmicRole(g)]) :
            g \in DOMAIN DmicGroups}
    [] user = "adc" ->
         {Freeing(adc_pin_config("ADC_VBAT_MODE", p), {p}) : p \in adc_input_pin_def_e}
           \cup {Freeing(adc_set_diff_pin(<<"B", 0>>, p), {<<"B", 0>>, p}) :
                   p \in adc_input_pin_def_e \ {<<"B", 0>>}}
    [] user = "usb" ->
         {PinCall(usb_set_pin_en, [p \in {<<"A", 5>>, <<"A", 6>>} |-> Role(0, {}, TRUE, FALSE)])}
    [] user = "timer" ->
         {Freeing(timer_gpio_init(p, l, f), {p}) : p \in FreePins, l \in {"risc0", "risc1"}, f \in BOOLEAN}
    [] user = "init" ->
         {Freeing(gpio_init(r), {<<Groups[i], n>> : i \in 1 .. 5, n \in Bits}) : r \in BOOLEAN}

-----------------------------------------------------------------------------
VARIABLES
  pinReg,        \* the registers that decide what a pin is
  pinTodo,       \* accesses the running call still makes
  pinGiven,      \* the roles it gives
  pinLeft,       \* of these pins, those it must make peripheral last
  pinRole,       \* the roles of the pins
  pinCalled      \* calls made

pinVars == <<pinReg, pinTodo, pinGiven, pinLeft, pinRole, pinCalled>>

PinRegs ==
  {<<"mul_sel", "all">>}
    \cup {<<"mux", Groups[i], half>> : i \in 1 .. 5, half \in {"l", "h"}}
    \cup {<<r, Groups[i]>> : r \in {"func", "ie", "pull_l", "pull_h"}, i \in 1 .. 5}

NoPins == [p \in {} |-> 0]

(* After a reset and gpio_init; the functions selected are the reset's.    *)
ResetPins ==
  [r \in PinRegs |->
     CASE r[1] \in {"func", "ie", "pull_l", "pull_h"} -> DefaultsOf[r[2]][r[1]]
       [] r = <<"mux", "D", "l">> -> 4 .. 7
       [] OTHER -> {}]

PinMuxInit ==
  /\ pinReg = ResetPins
  /\ pinTodo = <<>> /\ pinGiven = NoPins /\ pinLeft = {} /\ pinRole = NoPins /\ pinCalled = 0

IsGpio(p) == p[2] \in pinReg[<<"func", p[1]>>]
Selects(p, role) ==
  /\ pinReg[Mux(p)] \cap Own(p) = Shifted(role.fn, 2 * (p[2] % 4))
  /\ role.sel \subseteq pinReg[<<"mul_sel", "all">>]

(* A call of the user.  A call that stores the whole of the selection      *)
(* register comes before those that need other bits of it: the user's part.*)
KeepsSelection(call) ==
  \A i \in 1 .. Len(call.acc) :
    LET a == call.acc[i] IN
      a.reg = <<"mul_sel", "all">> /\ ~Loads(a) =>
        \A p \in DOMAIN pinRole \ DOMAIN call.roles : pinRole[p].sel \subseteq a.put

PinCallStart ==
  /\ pinTodo = <<>> /\ pinCalled < PinCalls
  /\ \E user \in PinUsers : \E call \in CallsOf(user) :
       LET mine == DOMAIN call.roles \cup call.freed IN
       /\ KeepsSelection(call)
       /\ pinTodo' = SelectSeq(call.acc, LAMBDA a : a.reg \in PinRegs)
       /\ pinGiven' = [p \in DOMAIN call.roles |-> call.roles[p]]
       /\ pinLeft' = IF call.last THEN {p \in DOMAIN call.roles : IsGpio(p)} ELSE {}
       /\ pinRole' = [p \in DOMAIN pinRole \ mine |-> pinRole[p]]
  /\ pinCalled' = pinCalled + 1
  /\ UNCHANGED pinReg

PinAccess ==
  /\ pinTodo # <<>>
  /\ LET a == Head(pinTodo) IN pinReg' = [pinReg EXCEPT ![a.reg] = Result(@, a)]
  /\ pinTodo' = Tail(pinTodo)
  /\ IF Len(pinTodo) > 1 THEN UNCHANGED <<pinGiven, pinLeft, pinRole>>
     ELSE /\ pinRole' = pinGiven @@ pinRole
          /\ pinGiven' = NoPins /\ pinLeft' = {}
  /\ UNCHANGED pinCalled

PinReset ==
  /\ pinTodo = <<>> /\ pinCalled = PinCalls
  /\ pinReg' = ResetPins /\ pinRole' = NoPins /\ pinCalled' = 0
  /\ UNCHANGED <<pinTodo, pinGiven, pinLeft>>

PinMuxNext == PinCallStart \/ PinAccess \/ PinReset

-----------------------------------------------------------------------------
(* A pin that was given to a peripheral serves it, also while other pins   *)
(* are given to others, until it is taken back; and a pin that a call      *)
(* takes from the GPIOs carries its new function from the start.           *)
PinsServe ==
  /\ \A p \in DOMAIN pinRole :
       /\ ~IsGpio(p) /\ Selects(p, pinRole[p])
       /\ pinRole[p].in => p[2] \in pinReg[<<"ie", p[1]>>]
       /\ pinRole[p].up => Shifted(3, 2 * (p[2] % 4)) \subseteq
                             pinReg[<<IF p[2] > 3 THEN "pull_h" ELSE "pull_l", p[1]>>]
  /\ \A p \in pinLeft : IsGpio(p) \/ Selects(p, pinGiven[p])
=============================================================================
