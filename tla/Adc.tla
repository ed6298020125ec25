-------------------------------- MODULE Adc ---------------------------------
(***************************************************************************)
(* The SAR ADC (adc.c, adc.h): its analog registers, the globals from      *)
(* which adc_calculate_voltage undoes what the registers do to the input,  *)
(* the code read from two analog bytes while conversions go on, and the    *)
(* samples fetched by DMA through the audio input FIFO 1.                  *)
(*                                                                         *)
(* The globals and the registers are written by different functions, and   *)
(* only g_adc_vref survives a sleep with retention.  The hardware between  *)
(* input and code is as the driver's own tables use it.                    *)
(***************************************************************************)
EXTENDS Integers, Sequences

CONSTANTS
  AdcVolts,      \* inputs, in mV; negative when the negative pin is higher
  AdcWords       \* words of a transfer by DMA

ASSUME AdcAssumption == AdcVolts \subseteq Int /\ AdcWords \subseteq Nat \ {0}

VARIABLES
  adc,           \* registers, by the field, and the globals g_adc_*
  adcFor,        \* the *_sample_init that made adc what it is, or "none"
  adcRate,       \* the frequency last asked
  adcWord,       \* the bytes of the code: a mark of their conversion
  adcReader,     \* where adc_get_code is, and what it has read
  adcDma         \* FIFO 1, the channel and where adc_get_code_dma is

adcVars == <<adc, adcFor, adcRate, adcWord, adcReader, adcDma>>

-----------------------------------------------------------------------------
(* The setters.  "1P2V" and "0P9V" are the references, 1175 and 900 mV.    *)
adc_set_ref_voltage(c, v_ref) ==
  [c EXCEPT !.vref = v_ref, !.bias = IF v_ref = "1P2V" THEN \h3d ELSE \h15,
            !.g_adc_vref = IF v_ref = "1P2V" THEN 1175 ELSE 900]

Shift1(n) == <<1, 2, 4, 8>>[n + 1]      \* 1 << n
adc_set_scale_factor(c, pre_scale) ==
  [c EXCEPT !.scale = pre_scale, !.g_adc_pre_scale = Shift1(pre_scale)]

\* The global is not reset when the divider goes off.
adc_set_vbat_dividerFault(c, vbat_div) ==
  [c EXCEPT !.vbat = vbat_div,
            !.g_adc_vbat_divider = IF vbat_div # 0 THEN 5 - vbat_div ELSE @]

adc_set_vbat_divider(c, vbat_div) ==
  [c EXCEPT !.vbat = vbat_div,
            !.g_adc_vbat_divider = IF vbat_div # 0 THEN 5 - vbat_div ELSE 1]

(* The two high bits of r_max_mc are in the register of r_max_s.           *)
adc_set_state_length(c, r_max_mc, r_max_s) ==
  [c EXCEPT !.mcLow = r_max_mc % 256, !.mcHigh = (r_max_mc \div 256) % 4, !.s = r_max_s % 16]

adc_set_sample_rate(c, freq) ==
  CASE freq = 23 -> [adc_set_state_length(c, 1023, 15) EXCEPT !.tsample = 24]
    [] freq = 48 -> [adc_set_state_length(c, 490, 10) EXCEPT !.tsample = 12]
    [] freq = 96 -> [adc_set_state_length(c, 240, 10) EXCEPT !.tsample = 6]

adc_set_diff_input(c, p_ain, n_ain) == [c EXCEPT !.diff = TRUE, !.p = p_ain, !.n = n_ain]

(* Leaves the converter off, and the divider and the input as they were.   *)
adc_init(c, v_ref, pre_scale, freq) ==
  adc_set_sample_rate(
    adc_set_scale_factor(
      adc_set_ref_voltage([c EXCEPT !.down = TRUE, !.clk = TRUE, !.div = 5], v_ref),
      pre_scale), freq)

adc_gpio_sample_init(c, v_ref, pre_scale, freq) ==
  adc_set_diff_input(
    adc_set_vbat_divider(adc_init(c, v_ref, pre_scale, freq), 0), "pin", "GND")

adc_temperature_sample_init(c) ==
  [adc_set_vbat_divider(adc_set_diff_input(adc_init(c, "1P2V", 0, 96), "temp", "temp"), 0)
     EXCEPT !.sensorDown = FALSE]

adc_battery_voltage_sample_init(c) ==
  adc_set_diff_input(
    adc_set_vbat_divider(adc_init(c, "1P2V", 2, 96), 0), "vbat", "GND")

-----------------------------------------------------------------------------
(* The converter: 8192 steps of the reference, bit 13 the sign, after the  *)
(* pre-scaler and, on the battery's channel, the divider.                  *)
FullScale(c) ==
  (IF c.vref = "1P2V" THEN 1175 ELSE 900) * Shift1(c.scale)
    * (IF c.p = "vbat" /\ c.vbat = 2 THEN 3 ELSE 1)       \* ADC_VBAT_DIV_1F3
InRange(c, mv) == -FullScale(c) <= mv /\ mv < FullScale(c)
Converted(c, mv) == IF mv < 0 THEN 16384 + (mv * 8192) \div FullScale(c)
                    ELSE (mv * 8192) \div FullScale(c)

(* The end of adc_get_code: a negative input counts as none.               *)
Clipped(code) == IF (code \div 8192) % 2 = 1 THEN 0 ELSE code % 8192

adc_calculate_voltage(c, adc_code) ==
  ((adc_code * c.g_adc_vbat_divider * c.g_adc_pre_scale * c.g_adc_vref) \div 8192) % 65536

SamplesPerSecond(c) == 24000000 \div (256 * c.mcHigh + c.mcLow + c.s)

-----------------------------------------------------------------------------
AdcQuiet == adcReader.pc = "idle" /\ adcDma.pc = "idle"

NoAdcDma == [pc |-> "idle", asked |-> 0, reset |-> TRUE, fifo |-> <<>>,
             on |-> FALSE, left |-> 0, tc |-> FALSE, buf |-> <<>>]

AdcInit ==
  /\ adc = [vref |-> "1P2V", bias |-> 0, scale |-> 0, vbat |-> 0, p |-> "none", n |-> "none",
            diff |-> FALSE, mcLow |-> 0, mcHigh |-> 0, s |-> 1, tsample |-> 0,
            clk |-> FALSE, div |-> 0, down |-> TRUE, sensorDown |-> TRUE,
            g_adc_vref |-> 1175, g_adc_pre_scale |-> 0, g_adc_vbat_divider |-> 0]
  /\ adcFor = "none" /\ adcRate = 0
  /\ adcWord = [low |-> 0, high |-> 0, locked |-> FALSE]
  /\ adcReader = [pc |-> "idle", low |-> 0, high |-> 0]
  /\ adcDma = NoAdcDma

AdcSet(c, use, rate) ==
  /\ AdcQuiet
  /\ adc' = c /\ adcFor' = use /\ adcRate' = rate
  /\ UNCHANGED <<adcWord, adcReader, adcDma>>

AdcSetUp ==
  \/ \E v_ref \in {"1P2V", "0P9V"}, pre_scale \in {0, 2}, freq \in {23, 48, 96} :
       \/ AdcSet(adc_gpio_sample_init(adc, v_ref, pre_scale, freq), "pin", freq)
       \* adc_init alone: the divider's global may still be 0.
       \/ AdcSet(adc_init(adc, v_ref, pre_scale, freq), "none", freq)
  \/ AdcSet(adc_temperature_sample_init(adc), "temp", 96)
  \/ AdcSet(adc_battery_voltage_sample_init(adc), "vbat", 96)

(* adc_power_on, and the calls an application makes after an init.         *)
AdcTune ==
  /\ adcFor # "none"
  /\ \/ AdcSet([adc EXCEPT !.down = FALSE], adcFor, adcRate)
     \/ \E v_ref \in {"1P2V", "0P9V"} : AdcSet(adc_set_ref_voltage(adc, v_ref), adcFor, adcRate)
     \/ \E pre_scale \in {0, 2} : AdcSet(adc_set_scale_factor(adc, pre_scale), adcFor, adcRate)
     \/ \E freq \in {23, 48, 96} : AdcSet(adc_set_sample_rate(adc, freq), adcFor, freq)
     \/ adcFor = "vbat" /\ \E vbat_div \in {0, 2} :
          AdcSet(adc_set_vbat_divider(adc, vbat_div), adcFor, adcRate)

(* A sleep with retention: data that is not in its section starts anew, as *)
(* do the converter's registers.                                           *)
AdcSleep ==
  AdcSet([adc EXCEPT !.g_adc_pre_scale = 0, !.g_adc_vbat_divider = 0,
                     !.down = TRUE, !.sensorDown = TRUE], "none", 0)

-----------------------------------------------------------------------------
(* adc_get_code: lock, read the two bytes, unlock, clip.                   *)
ReadOrder == [idle |-> "lock", lock |-> "low", low |-> "high", high |-> "unlock", unlock |-> "idle"]

AdcCanSample == adcFor # "none" /\ ~adc.down

adc_get_code ==
  /\ adcDma.pc = "idle"
  /\ adcReader.pc = "idle" => AdcCanSample
  /\ adcReader' =
       [pc |-> ReadOrder[adcReader.pc],
        low |-> IF adcReader.pc = "low" THEN adcWord.low ELSE adcReader.low,
        high |-> IF adcReader.pc = "high" THEN adcWord.high ELSE adcReader.high]
  /\ adcWord' = [adcWord EXCEPT !.locked =
       (@ \/ adcReader.pc = "lock") /\ adcReader.pc # "unlock"]
  /\ UNCHANGED <<adc, adcFor, adcRate, adcDma>>

(* A conversion ends: the bytes are replaced unless locked, and the FIFO   *)
(* takes the sample unless held in reset.  The mark of a byte is that of   *)
(* its conversion; a word of the FIFO is "new" in the call that waits.     *)
AdcConversion ==
  /\ ~AdcQuiet /\ AdcCanSample
  /\ adcWord' = IF adcWord.locked THEN adcWord
                ELSE [adcWord EXCEPT !.low = 1 - @, !.high = 1 - @]
  /\ adcDma' = IF adcDma.reset \/ Len(adcDma.fifo) = 2 THEN adcDma
               ELSE [adcDma EXCEPT !.fifo = Append(@, "new")]
  /\ UNCHANGED <<adc, adcFor, adcRate, adcReader>>

(* adc_get_code_dma.  adc_start_sample_dma starts channel and FIFO.        *)
adc_start_sample_dma ==
  /\ AdcQuiet /\ AdcCanSample
  /\ \E words \in AdcWords :
       adcDma' = [adcDma EXCEPT
         !.pc = "wait", !.asked = words, !.left = words, !.on = TRUE, !.reset = FALSE,
         !.buf = <<>>, !.fifo = [i \in DOMAIN @ |-> "old"]]
  /\ UNCHANGED <<adc, adcFor, adcRate, adcWord, adcReader>>

(* The channel moves a word; the last one raises TC.                       *)
AdcDmaMoves ==
  /\ adcDma.on /\ adcDma.left > 0 /\ adcDma.fifo # <<>>
  /\ adcDma' = [adcDma EXCEPT !.buf = Append(@, Head(adcDma.fifo)), !.fifo = Tail(@),
                              !.left = @ - 1, !.tc = @ \/ adcDma.left = 1]
  /\ UNCHANGED <<adc, adcFor, adcRate, adcWord, adcReader>>

(* The poll of TC, adc_stop_sample_dma, adc_clr_sample_status_dma.         *)
FinishDma(d) ==
  CASE d.pc = "wait" /\ d.tc -> [d EXCEPT !.pc = "stop"]
    [] d.pc = "stop" -> [d EXCEPT !.pc = "clear", !.reset = TRUE, !.fifo = <<>>]
    [] d.pc = "clear" -> [d EXCEPT !.pc = "idle", !.on = FALSE, !.tc = FALSE]
    [] OTHER -> d

adc_get_code_dma ==
  /\ adcDma' = FinishDma(adcDma)
  /\ adcDma' # adcDma
  /\ UNCHANGED <<adc, adcFor, adcRate, adcWord, adcReader>>

AdcNext ==
  \/ AdcSetUp \/ AdcTune \/ AdcSleep
  \/ adc_get_code \/ AdcConversion
  \/ adc_start_sample_dma \/ AdcDmaMoves \/ adc_get_code_dma

-----------------------------------------------------------------------------
(* After a *_sample_init, whatever was set before and tuned since, the     *)
(* voltage calculated from a code is the input's to a step of the          *)
(* converter, and samples come at the rate asked, to a percent.            *)
AdcTruthful ==
  adcFor \in {"pin", "vbat"} =>
    /\ \A mv \in AdcVolts : InRange(adc, mv) =>
         LET found == adc_calculate_voltage(adc, Clipped(Converted(adc, mv)))
         IN IF mv < 0 THEN found = 0
            ELSE mv - found \in 0 .. (FullScale(adc) \div 8192 + 1)
    /\ (SamplesPerSecond(adc) - 1000 * adcRate) * 100 \in -1000 * adcRate .. 1000 * adcRate

(* The code returned is one conversion's, both bytes, and the words that   *)
(* adc_get_code_dma returns are all of the length asked, converted since   *)
(* the call began.                                                         *)
SamplesWhole ==
  /\ adcReader.pc = "idle" => adcReader.low = adcReader.high
  /\ adcDma.pc = "idle" =>
       /\ Len(adcDma.buf) = adcDma.asked
       /\ \A i \in DOMAIN adcDma.buf : adcDma.buf[i] = "new"

(* What the application is told of an input is what was at it.             *)
ReadingsTrue == AdcTruthful /\ SamplesWhole
=============================================================================
