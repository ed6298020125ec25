------------------------------ MODULE ChipProof -----------------------------
(***************************************************************************)
(* The inductive invariants of the pins, the clocks, the oscillators, the  *)
(* port of the analog registers and the shared registers, for              *)
(* PeripheralsProof.  The pins: what each context still has to store,      *)
(* and with which bits, agrees with what the pins are to be; a load is as  *)
(* fresh as the last store to its register, unless the other context is    *)
(* between its own load and store.  The clocks: in each place of a call    *)
(* the registers are those before the call or those asked, which ones      *)
(* depends on the place.  The oscillators: the records of source and trim  *)
(* agree with the registers, in the middle of a calibration too, and the   *)
(* drift stays within what some sleep allows.  The port: the bytes of a    *)
(* call lie without a gap in the caller's buffer, the data register and    *)
(* the internal one, and how many are where depends on the place.  The     *)
(* shared registers: each field is as asked last, which every setter keeps *)
(* as no two fields share a bit.                                           *)
(***************************************************************************)
EXTENDS AnalogGpio, ClockTree, Oscillators, AnalogPort, RegisterFields, ModArith,
        SequenceTheorems, WellFoundedInduction, TLAPS

-----------------------------------------------------------------------------
(* The calls of the pins are sequences of accesses whose new bits lie      *)
(* under their mask; a store of a whole register inverts nothing.          *)
Banks ==
  {"ie", "ds", "oen", "out", "func", "pe", "pull_l", "pull_h", "irq", "risc0", "risc1", "pol",
   "risc_mask", "irq_ctrl", "irq_clr", "wake_pol", "wake_en", "lpc"}
Parts == {"A", "B", "C", "D", "E", "F", "all", "06", "07", "0b", "0d"}

Accesses ==
  {a \in [reg : Banks \X Parts, mask : SUBSET Bits, put : SUBSET Bits, invert : BOOLEAN] :
     a.put \subseteq a.mask /\ (a.invert => Loads(a))}

GpioCalls == {s \in Seq(Accesses) : s # <<>>}

LEMMA PinParts ==
  ASSUME NEW p \in gpio_pin_e
  PROVE  p[1] \in Parts /\ p[2] \in Bits
BY DEF gpio_pin_e, Bits, Parts

LEMMA OneAccess ==
  ASSUME NEW a \in Accesses
  PROVE  <<a>> \in GpioCalls
BY DEF GpioCalls

LEMMA FieldCall ==
  ASSUME NEW r \in Banks \X Parts, NEW m \in SUBSET Bits, NEW v \in SUBSET m
  PROVE  Field(r, m, v) \in GpioCalls
<1>1. Access(r, m, v) \in [reg : Banks \X Parts, mask : SUBSET Bits, put : SUBSET Bits, invert : BOOLEAN]
  BY DEF Access
<1>2. Access(r, m, v).put = v /\ Access(r, m, v).mask = m /\ Access(r, m, v).invert = FALSE
  BY DEF Access
<1>3. Access(r, m, v) \in Accesses
  BY <1>1, <1>2 DEF Accesses
<1>4. QED
  BY <1>3, OneAccess DEF Field

LEMMA JoinedCalls ==
  ASSUME NEW s \in GpioCalls, NEW t \in GpioCalls
  PROVE  s \o t \in GpioCalls
<1>1. s \in Seq(Accesses) /\ t \in Seq(Accesses) /\ s # <<>>
  BY DEF GpioCalls
<1>2. s \o t \in Seq(Accesses) /\ Len(s \o t) = Len(s) + Len(t)
  BY <1>1
<1>3. Len(s) > 0 /\ Len(t) >= 0 /\ Len(s) \in Nat /\ Len(t) \in Nat
  BY <1>1
<1>4. Len(s \o t) # 0
  BY <1>2, <1>3
<1>5. QED
  BY <1>2, <1>4 DEF GpioCalls

LEMMA BitCall ==
  ASSUME NEW name \in Banks, NEW p \in gpio_pin_e
  PROVE  /\ BM_SET(<<name, p[1]>>, {p[2]}) \in GpioCalls
         /\ BM_CLR(<<name, p[1]>>, {p[2]}) \in GpioCalls
<1>1. <<name, p[1]>> \in Banks \X Parts /\ {p[2]} \in SUBSET Bits
  BY PinParts
<1>2. QED
  BY <1>1, FieldCall DEF BM_SET, BM_CLR

LEMMA SmallBits ==
  /\ BitsOf(0) = {} /\ BitsOf(1) = {0} /\ BitsOf(2) = {1} /\ BitsOf(3) = {0, 1}
  /\ BitsOf(5) = {0, 2}
<1>1. 2 ^ 0 = 1 /\ 2 ^ 1 = 2 /\ 2 ^ 2 = 4
  OBVIOUS
<1>2. ASSUME NEW n \in 0 .. 5, NEW i
      PROVE  i \in BitsOf(n) <=>
               ((i = 0 /\ n % 2 = 1) \/ (i = 1 /\ (n \div 2) % 2 = 1) \/ (i = 2 /\ (n \div 4) % 2 = 1))
  <2>1. i \in BitsOf(n) <=> i \in 0 .. 2 /\ (n \div (2 ^ i)) % 2 = 1
    BY DEF BitsOf
  <2>2. i \in 0 .. 2 <=> i = 0 \/ i = 1 \/ i = 2
    OBVIOUS
  <2>3. n \div 1 = n
    OBVIOUS
  <2>4. QED
    BY <1>1, <2>1, <2>2, <2>3
<1>3. BitsOf(0) = {} /\ BitsOf(1) = {0} /\ BitsOf(2) = {1}
  BY <1>2
<1>4. BitsOf(3) = {0, 1} /\ BitsOf(5) = {0, 2}
  BY <1>2
<1>5. QED
  BY <1>3, <1>4

LEMMA PullCall ==
  ASSUME NEW p \in gpio_pin_e, NEW res \in {0, 2, 3}
  PROVE  gpio_set_up_down_res(p, res) \in GpioCalls
<1> DEFINE shift == 2 * (p[2] % 4)
           bank == IF p[2] > 3 THEN "pull_h" ELSE "pull_l"
<1>1. p[1] \in Parts /\ p[2] \in Bits
  BY PinParts
<1>2. shift \in {0, 2, 4, 6}
  <2>1. p[2] % 4 \in 0 .. 3
    BY <1>1 DEF Bits
  <2>2. QED
    BY <2>1
<1>3. bank \in Banks
  BY DEF Banks
<1>4. res % 4 = res
  OBVIOUS
<1>5. BitsOf(res) \subseteq {0, 1}
  BY SmallBits
<1> HIDE DEF shift
<1>6. Shifted(res, shift) \subseteq {shift, shift + 1}
  BY <1>2, <1>5 DEF Shifted
<1>7. {shift, shift + 1} \subseteq Bits
  BY <1>2 DEF Bits
<1>8. Field(<<bank, p[1]>>, {shift, shift + 1}, Shifted(res, shift)) \in GpioCalls
  <2> HIDE DEF bank
  <2>1. QED
    BY <1>1, <1>3, <1>6, <1>7, FieldCall
<1>9. QED
  BY <1>4, <1>8 DEF gpio_set_up_down_res, shift, bank

LEMMA ToggleCall ==
  ASSUME NEW p \in gpio_pin_e
  PROVE  gpio_toggle(p) \in GpioCalls
<1> DEFINE a == [Access(<<"out", p[1]>>, {p[2]}, {}) EXCEPT !.invert = TRUE]
<1>1. p[1] \in Parts /\ p[2] \in Bits
  BY PinParts
<1> DEFINE b == Access(<<"out", p[1]>>, {p[2]}, {})
           All == [reg : Banks \X Parts, mask : SUBSET Bits, put : SUBSET Bits, invert : BOOLEAN]
<1>2. b \in All /\ b.put = {} /\ b.mask = {p[2]}
  BY <1>1 DEF Access, Banks
<1>3. {p[2]} # Bits
  <2>1. 0 \in Bits /\ 1 \in Bits
    BY DEF Bits
  <2>2. QED
    BY <2>1
<1>4. a = [b EXCEPT !.invert = TRUE]
  OBVIOUS
<1>5. a \in All /\ a.put = {} /\ a.mask = {p[2]}
  <2> HIDE DEF a, b
  <2>1. QED
    BY <1>2, <1>4
<1>6. a \in Accesses
  <2> HIDE DEF a
  <2>1. QED
    BY <1>3, <1>5 DEF Accesses, Loads
<1>7. QED
  BY <1>6, OneAccess DEF gpio_toggle

LEMMA IrqCall ==
  ASSUME NEW p \in gpio_pin_e, NEW t \in gpio_irq_trigger_type_e
  PROVE  gpio_set_irq(p, t, "irq") \in GpioCalls
<1> DEFINE pol == IF t \in {"FALLING_EDGE", "LOW_LEVEL"} THEN {p[2]} ELSE {}
           lvl == IF t \in {"HIGH_LEVEL", "LOW_LEVEL"} THEN {4} ELSE {}
           all == <<"risc_mask", "all">>
           ctl == BM_SET(<<"irq_ctrl", "all">>, {3})
           clr == Store(<<"irq_clr", "all">>, {0})
<1>1. p[1] \in Parts /\ p[2] \in Bits
  BY PinParts
<1>2. all \in Banks \X Parts /\ <<"irq_ctrl", "all">> \in Banks \X Parts
        /\ <<"irq_clr", "all">> \in Banks \X Parts /\ <<"pol", p[1]>> \in Banks \X Parts
  BY <1>1 DEF Banks, Parts
<1>3. {0} \subseteq Bits /\ {3} \subseteq Bits /\ {4} \subseteq Bits
  BY DEF Bits
<1>4. Field(<<"pol", p[1]>>, {p[2]}, pol) \in GpioCalls
  BY <1>1, <1>2, FieldCall
<1>5. Field(all, {4}, lvl) \in GpioCalls
  BY <1>2, <1>3, FieldCall
<1>6. ctl \in GpioCalls /\ BM_SET(all, {0}) \in GpioCalls
  BY <1>2, <1>3, FieldCall DEF BM_SET
<1>7. clr \in GpioCalls
  BY <1>2, <1>3, FieldCall DEF Store
<1>8. Line("irq") = 0
  BY DEF Line
<1>14. Line("irq") + 4 = 4
  BY <1>8
<1>9. gpio_set_irq(p, t, "irq") =
        Field(<<"pol", p[1]>>, {p[2]}, pol) \o Field(all, {4}, lvl) \o ctl \o clr \o BM_SET(all, {0})
  BY <1>8, <1>14, Zenon DEF gpio_set_irq
<1> HIDE DEF pol, lvl, all, ctl, clr
<1>10. Field(<<"pol", p[1]>>, {p[2]}, pol) \o Field(all, {4}, lvl) \in GpioCalls
  BY <1>4, <1>5, JoinedCalls
<1>11. Field(<<"pol", p[1]>>, {p[2]}, pol) \o Field(all, {4}, lvl) \o ctl \in GpioCalls
  BY <1>10, <1>6, JoinedCalls
<1>12. Field(<<"pol", p[1]>>, {p[2]}, pol) \o Field(all, {4}, lvl) \o ctl \o clr \in GpioCalls
  BY <1>11, <1>7, JoinedCalls
<1>13. QED
  BY <1>12, <1>6, <1>9, JoinedCalls

LEMMA WakeupCall ==
  ASSUME NEW p \in gpio_pin_e, NEW high \in BOOLEAN, NEW en \in BOOLEAN
  PROVE  pm_set_gpio_wakeup(p, high, en) \in GpioCalls
<1>1. "wake_pol" \in Banks /\ "wake_en" \in Banks
  BY DEF Banks
<1>2. /\ BM_SET(<<"wake_pol", p[1]>>, {p[2]}) \in GpioCalls
      /\ BM_CLR(<<"wake_pol", p[1]>>, {p[2]}) \in GpioCalls
      /\ BM_SET(<<"wake_en", p[1]>>, {p[2]}) \in GpioCalls
      /\ BM_CLR(<<"wake_en", p[1]>>, {p[2]}) \in GpioCalls
  BY <1>1, BitCall
<1>3. QED
  BY <1>2, JoinedCalls DEF pm_set_gpio_wakeup

LEMMA ShutdownCall ==
  ASSUME NEW p \in gpio_pin_e, HasInput(p)
  PROVE  gpio_shutdown(p) \in GpioCalls
<1>1. "oen" \in Banks /\ "out" \in Banks /\ "ie" \in Banks
  BY DEF Banks
<1>2. /\ BM_SET(<<"oen", p[1]>>, {p[2]}) \in GpioCalls
      /\ BM_CLR(<<"out", p[1]>>, {p[2]}) \in GpioCalls
      /\ BM_CLR(<<"ie", p[1]>>, {p[2]}) \in GpioCalls
  BY <1>1, BitCall
<1>3. BM_SET(<<"oen", p[1]>>, {p[2]}) \o BM_CLR(<<"out", p[1]>>, {p[2]}) \in GpioCalls
  BY <1>2, JoinedCalls
<1>4. QED
  BY <1>2, <1>3, JoinedCalls DEF gpio_shutdown

(* A function of 1 .. 5 is a sequence.                                     *)
LEMMA FiveInRow ==
  ASSUME NEW S, NEW s \in [1 .. 5 -> S]
  PROVE  s \in Seq(S) /\ Len(s) = 5
<1>1. Seq(S) = UNION {[1 .. n -> S] : n \in Nat}
  BY SeqDef, Zenon
<1>2. [1 .. 5 -> S] \in {[1 .. n -> S] : n \in Nat}
  OBVIOUS
<1>3. s \in Seq(S)
  BY <1>1, <1>2, Zenon
<1>4. Len(s) \in Nat /\ DOMAIN s = 1 .. Len(s)
  BY <1>3, LenProperties
<1>5. QED
  BY <1>3, <1>4

(* A store to the register of one name in each of the five groups.         *)
LEMMA StoresCall ==
  ASSUME NEW name \in Banks, NEW vals \in [1 .. 5 -> SUBSET Bits]
  PROVE  [i \in 1 .. 5 |-> Access(<<name, Groups[i]>>, Bits, vals[i])] \in GpioCalls
<1> DEFINE s == [i \in 1 .. 5 |-> Access(<<name, Groups[i]>>, Bits, vals[i])]
<1>1. ASSUME NEW i \in 1 .. 5
      PROVE  Access(<<name, Groups[i]>>, Bits, vals[i]) \in Accesses
  <2>1. Groups[i] \in Parts
    BY DEF Groups, Parts
  <2>2. <<name, Groups[i]>> \in Banks \X Parts /\ vals[i] \in SUBSET Bits
    BY <2>1
  <2>3. QED
    BY <2>2 DEF Access, Accesses
<1>2. s \in [1 .. 5 -> Accesses]
  BY <1>1
<1>3. s \in Seq(Accesses) /\ Len(s) = 5
  <2> HIDE DEF s
  <2>1. QED
    BY <1>2, FiveInRow
<1>4. s # <<>>
  <2> HIDE DEF s
  <2>1. QED
    BY <1>3
<1>5. QED
  BY <1>3, <1>4 DEF GpioCalls

LEMMA ShutdownAllCall == gpio_shutdown_all \in GpioCalls
<1> DEFINE Each(name, vals) == [i \in 1 .. 5 |-> Access(<<name, Groups[i]>>, Bits, vals[i])]
           funcs == <<Bits \ {7}, Bits, Bits, Bits, Bits>>
           ones == [i \in 1 .. 5 |-> Bits]
           zeros == [i \in 1 .. 5 |-> {}]
           inputs == <<{7}, {}, {}, {}, {}>>
<1>1. /\ funcs \in [1 .. 5 -> SUBSET Bits] /\ ones \in [1 .. 5 -> SUBSET Bits]
      /\ zeros \in [1 .. 5 -> SUBSET Bits] /\ inputs \in [1 .. 5 -> SUBSET Bits]
  BY DEF Bits
<1>2. "func" \in Banks /\ "oen" \in Banks /\ "out" \in Banks /\ "ie" \in Banks
  BY DEF Banks
<1>3. gpio_shutdown_all =
        Each("func", funcs) \o Each("oen", ones) \o Each("out", zeros) \o Each("ie", inputs)
  BY DEF gpio_shutdown_all
<1> HIDE DEF funcs, ones, zeros, inputs
<1>4. /\ Each("func", funcs) \in GpioCalls /\ Each("oen", ones) \in GpioCalls
      /\ Each("out", zeros) \in GpioCalls /\ Each("ie", inputs) \in GpioCalls
  BY <1>1, <1>2, StoresCall
<1> HIDE DEF Each
<1>5. Each("func", funcs) \o Each("oen", ones) \in GpioCalls
  BY <1>4, JoinedCalls
<1>6. Each("func", funcs) \o Each("oen", ones) \o Each("out", zeros) \in GpioCalls
  BY <1>4, <1>5, JoinedCalls
<1>7. QED
  BY <1>3, <1>4, <1>6, JoinedCalls

LEMMA ComparatorCall ==
  /\ lpc_set_input_ref(TRUE, 5) \in GpioCalls /\ lpc_set_input_ref(FALSE, 2) \in GpioCalls
  /\ lpc_set_input_chn(3) \in GpioCalls /\ lpc_set_scaling_coeff(1) \in GpioCalls
  /\ lpc_power_down \in GpioCalls /\ lpc_power_on \in GpioCalls
<1>1. /\ <<"lpc", "06">> \in Banks \X Parts /\ <<"lpc", "07">> \in Banks \X Parts
      /\ <<"lpc", "0b">> \in Banks \X Parts /\ <<"lpc", "0d">> \in Banks \X Parts
  BY DEF Banks, Parts
<1>2. /\ {0, 1, 2} \subseteq Bits /\ {4, 5, 6} \subseteq Bits /\ {4, 5} \subseteq Bits
      /\ {3} \subseteq Bits /\ {1} \subseteq Bits /\ {7} \subseteq Bits
  BY DEF Bits
<1>3. Shifted(5, 4) = {4, 6} /\ Shifted(2, 4) = {5} /\ Shifted(3, 0) = {0, 1} /\ Shifted(1, 4) = {4}
  <2>1. BitsOf(5) = {0, 2} /\ BitsOf(2) = {1} /\ BitsOf(3) = {0, 1} /\ BitsOf(1) = {0}
    BY SmallBits
  <2>2. QED
    BY <2>1 DEF Shifted
<1>4. Field(<<"lpc", "0b">>, {3}, {3}) \in GpioCalls /\ Field(<<"lpc", "0b">>, {3}, {}) \in GpioCalls
  BY <1>1, <1>2, FieldCall
<1>5. Field(<<"lpc", "0d">>, {7}, {7}) \in GpioCalls /\ Field(<<"lpc", "0d">>, {7}, {}) \in GpioCalls
  BY <1>1, <1>2, FieldCall
<1>6. /\ Field(<<"lpc", "0d">>, {4, 5, 6}, Shifted(5, 4)) \in GpioCalls
      /\ Field(<<"lpc", "0d">>, {4, 5, 6}, Shifted(2, 4)) \in GpioCalls
  BY <1>1, <1>2, <1>3, FieldCall
<1>7. lpc_set_input_ref(TRUE, 5) \in GpioCalls
  <2>1. Field(<<"lpc", "0b">>, {3}, {3}) \o Field(<<"lpc", "0d">>, {7}, {7}) \in GpioCalls
    BY <1>4, <1>5, JoinedCalls
  <2>2. QED
    BY <2>1, <1>6, JoinedCalls DEF lpc_set_input_ref
<1>8. lpc_set_input_ref(FALSE, 2) \in GpioCalls
  <2>1. Field(<<"lpc", "0b">>, {3}, {}) \o Field(<<"lpc", "0d">>, {7}, {}) \in GpioCalls
    BY <1>4, <1>5, JoinedCalls
  <2>2. QED
    BY <2>1, <1>6, JoinedCalls DEF lpc_set_input_ref
<1>9. lpc_set_input_chn(3) \in GpioCalls /\ lpc_set_scaling_coeff(1) \in GpioCalls
  BY <1>1, <1>2, <1>3, FieldCall DEF lpc_set_input_chn, lpc_set_scaling_coeff
<1>10. lpc_power_down \in GpioCalls /\ lpc_power_on \in GpioCalls
  BY <1>1, <1>2, FieldCall DEF lpc_power_down, lpc_power_on, BM_SET, BM_CLR
<1>11. QED
  BY <1>7, <1>8, <1>9, <1>10

LEMMA CallsSound ==
  ASSUME NEW kind \in Kinds, NEW pins \in SUBSET gpio_pin_e, NEW s \in Calls(kind, pins)
  PROVE  s \in GpioCalls
<1>0. s # <<>>
  BY DEF Calls
<1>1. CASE kind = "input"
  <2>1. PICK p \in pins : s \in {gpio_input_en(p), gpio_input_dis(p)}
    BY <1>1 DEF Calls
  <2>2. "ie" \in Banks
    BY DEF Banks
  <2>3. QED
    BY <1>0, <2>1, <2>2, BitCall DEF gpio_input_en, gpio_input_dis
<1>2. CASE kind = "strength"
  <2>1. PICK p \in pins : s \in {gpio_ds_en(p), gpio_ds_dis(p)}
    BY <1>2 DEF Calls
  <2>2. "ds" \in Banks
    BY DEF Banks
  <2>3. QED
    BY <2>1, <2>2, BitCall DEF gpio_ds_en, gpio_ds_dis
<1>3. CASE kind = "pull"
  <2>1. PICK p \in pins, r \in DOMAIN gpio_pull_type_e \ {"GPIO_PIN_PULLUP_1M"} :
          s = gpio_set_up_down_res(p, gpio_pull_type_e[r])
    BY <1>3 DEF Calls
  <2>2. gpio_pull_type_e[r] \in {0, 2, 3}
    BY DEF gpio_pull_type_e
  <2>3. QED
    BY <2>1, <2>2, PullCall
<1>4. CASE kind = "pull_30k"
  <2>1. PICK p \in pins : s = gpio_set_pullup_res_30k(p)
    BY <1>4 DEF Calls
  <2>2. "pe" \in Banks /\ "oen" \in Banks /\ "out" \in Banks
    BY DEF Banks
  <2>3. /\ BM_SET(<<"pe", p[1]>>, {p[2]}) \in GpioCalls
        /\ BM_SET(<<"oen", p[1]>>, {p[2]}) \in GpioCalls
        /\ BM_SET(<<"out", p[1]>>, {p[2]}) \in GpioCalls
    BY <2>2, BitCall
  <2>4. QED
    BY <2>1, <2>3, JoinedCalls DEF gpio_set_pullup_res_30k
<1>5. CASE kind = "function"
  <2>1. PICK p \in pins : s \in {gpio_function_en(p), gpio_function_dis(p)}
    BY <1>5 DEF Calls
  <2>2. "func" \in Banks
    BY DEF Banks
  <2>3. QED
    BY <2>1, <2>2, BitCall DEF gpio_function_en, gpio_function_dis
<1>6. CASE kind = "level"
  <2>1. PICK p \in pins : s = gpio_toggle(p) \/ \E v \in BOOLEAN : s = gpio_set_level(p, v)
    BY <1>6 DEF Calls
  <2>2. "out" \in Banks
    BY DEF Banks
  <2>3. QED
    BY <2>1, <2>2, BitCall, ToggleCall DEF gpio_set_level, gpio_set_high_level, gpio_set_low_level
<1>7. CASE kind = "output"
  <2>1. PICK p \in pins, v \in BOOLEAN : s = gpio_set_output(p, v)
    BY <1>7 DEF Calls
  <2>2. "oen" \in Banks
    BY DEF Banks
  <2>3. QED
    BY <2>1, <2>2, BitCall DEF gpio_set_output, gpio_output_en, gpio_output_dis
<1>8. CASE kind = "irq"
  <2>1. PICK p \in pins : s \in {gpio_irq_en(p, "risc0"), gpio_irq_dis(p, "risc0")}
    BY <1>8 DEF Calls
  <2>2. "risc0" \in Banks
    BY DEF Banks
  <2>3. QED
    BY <2>1, <2>2, BitCall DEF gpio_irq_en, gpio_irq_dis
<1>9. CASE kind = "trigger"
  <2>1. PICK p \in pins, t \in gpio_irq_trigger_type_e : s = gpio_set_irq(p, t, "irq")
    BY <1>9 DEF Calls
  <2>2. QED
    BY <2>1, IrqCall
<1>10. CASE kind = "wakeup"
  <2>1. s \in WakeupCalls(pins)
    BY <1>10 DEF Calls
  <2>2. PICK p \in pins : s \in {pm_set_gpio_wakeup(p, TRUE, TRUE), pm_set_gpio_wakeup(p, FALSE, TRUE),
                                 pm_set_gpio_wakeup(p, TRUE, FALSE)}
    BY <2>1, Zenon DEF WakeupCalls
  <2>3. QED
    BY <2>2, WakeupCall, Zenon
<1>11. CASE kind = "shutdown"
  <2>1. s = gpio_shutdown_all \/ \E p \in pins : s = gpio_shutdown(p)
    BY <1>11 DEF Calls
  <2>2. ASSUME NEW p \in pins, s = gpio_shutdown(p)
        PROVE  HasInput(p)
    BY <1>0, <2>2 DEF gpio_shutdown
  <2>3. QED
    BY <2>1, <2>2, ShutdownCall, ShutdownAllCall
<1>12. CASE kind = "comparator"
  <2>1. lpc_reference_e.LPC_REF_PB0 = 5 /\ lpc_reference_e.LPC_REF_923MV = 2
    BY DEF lpc_reference_e
  <2>2. s \in ComparatorCalls
    BY <1>12 DEF Calls
  <2>3. \/ s = lpc_set_input_ref(TRUE, lpc_reference_e.LPC_REF_PB0)
        \/ s = lpc_set_input_ref(FALSE, lpc_reference_e.LPC_REF_923MV)
        \/ s = lpc_set_input_chn(3)
        \/ s = lpc_set_scaling_coeff(1)
    BY <2>2, Zenon DEF ComparatorCalls
  <2>4. QED
    BY <2>1, <2>3, ComparatorCall, Zenon
<1>13. CASE kind = "comparator_power"
  <2>1. s \in {lpc_power_down, lpc_power_on}
    BY <1>13 DEF Calls
  <2>2. QED
    BY <2>1, ComparatorCall
<1>14. QED
  BY <1>1, <1>2, <1>3, <1>4, <1>5, <1>6, <1>7, <1>8, <1>9, <1>10, <1>11, <1>12, <1>13 DEF Kinds

-----------------------------------------------------------------------------
(* The invariant.  One caller at a time is in the port, with interrupts    *)
(* disabled; what the port holds is that caller's; and the register a      *)
(* write in progress will have agrees with what was wanted, and a copy     *)
(* with the register, but for the bits a handler changed under a copy.     *)
OwnAccesses == {a \in Accesses : a.reg \in Registers(kinds)}
CallerPlaces == {"idle", "enter", "address", "start", "wait", "leave"}
InPort == {"address", "start", "wait", "leave"}

GpioTypes ==
  /\ kinds \in [Callers -> Kinds]
  /\ reg \in [Registers(kinds) -> SUBSET Bits]
  /\ want \in [Registers(kinds) -> SUBSET Bits]
  /\ raced \in [Registers(kinds) -> SUBSET Bits]
  /\ port \in [addr : (Banks \X Parts) \cup {<<"none", "00">>}, data : SUBSET Bits,
               cmd : {"idle", "read", "write"}]
  /\ gpioMie \in BOOLEAN
  /\ caller \in [Callers -> [at : CallerPlaces, todo : Seq(OwnAccesses), write : BOOLEAN,
                             copy : SUBSET Bits, r : BOOLEAN]]
  /\ \A c \in Callers : caller[c].at # "idle" => caller[c].todo # <<>>

GpioTurns ==
  /\ \A c \in Callers : caller[c].at \in InPort => ~gpioMie
  /\ caller["handler"].at # "idle" => caller["thread"].at \in {"idle", "enter"}

PortOwned ==
  /\ port.cmd # "idle" => caller[Running].at = "wait"
  /\ \A c \in Callers : caller[c].at \in {"start", "wait"} => port.addr = Now(c).reg
  /\ \A c \in Callers : caller[c].at = "wait" /\ port.cmd # "idle" =>
       (port.cmd = "write" <=> caller[c].write)
  /\ \A c \in Callers : caller[c].at = "wait" /\ ~caller[c].write /\ port.cmd = "idle" =>
       port.data = reg[Now(c).reg]
  /\ \A c \in Callers : caller[c].at = "leave" /\ ~caller[c].write =>
       caller[c].copy = reg[Now(c).reg]

\* A register as it will be once the write in progress is done.
Due(r) == IF port.cmd = "write" /\ port.addr = r THEN port.data ELSE reg[r]

AgreesBut(v, w, bits) == \A b \in Bits : b \notin bits => (b \in v <=> b \in w)

CopyInUse(c) ==
  caller[c].at \in {"enter", "address", "start"} /\ caller[c].write /\ Loads(Now(c))

BitsAgree ==
  /\ \A r \in Registers(kinds) : AgreesBut(Due(r), want[r], raced[r])
  /\ \A c \in Callers : CopyInUse(c) =>
       AgreesBut(caller[c].copy, Due(Now(c).reg), raced[Now(c).reg])

GpioIInv == GpioTypes /\ GpioTurns /\ PortOwned /\ BitsAgree

-----------------------------------------------------------------------------
(* What a write does to the bits: where the other caller holds a copy, the *)
(* bits it changes are raced from now on, elsewhere those it sets are not. *)
LEMMA WrittenBits ==
  ASSUME NEW copy, NEW due, NEW wanted, NEW old, NEW new, NEW a \in Accesses,
         NEW holds \in BOOLEAN,
         new = IF holds THEN old \cup a.mask ELSE IF a.invert THEN old ELSE old \ a.mask,
         AgreesBut(due, wanted, old),
         Loads(a) => AgreesBut(copy, due, old)
  PROVE  AgreesBut(Result(copy, a), Result(wanted, a), new)
<1>1. a.put \subseteq a.mask /\ (a.invert => Loads(a)) /\ (~Loads(a) => a.mask = Bits)
        /\ a.invert \in BOOLEAN
  BY DEF Accesses, Loads
<1> SUFFICES ASSUME NEW b \in Bits, b \notin new
             PROVE  b \in Result(copy, a) <=> b \in Result(wanted, a)
  BY DEF AgreesBut
<1>2. CASE b \in a.mask /\ ~a.invert
  BY <1>1, <1>2 DEF Result
<1>3. CASE b \notin a.mask
  <2>1. Loads(a) /\ b \notin old
    BY <1>1, <1>3
  <2>2. b \in copy <=> b \in wanted
    BY <2>1 DEF AgreesBut
  <2>3. QED
    BY <1>1, <1>3, <2>2 DEF Result
<1>4. CASE b \in a.mask /\ a.invert
  <2>1. Loads(a) /\ b \notin old
    BY <1>1, <1>4
  <2>2. b \in copy <=> b \in wanted
    BY <2>1 DEF AgreesBut
  <2>3. QED
    BY <1>1, <1>4, <2>2 DEF Result
<1>5. QED
  BY <1>1, <1>2, <1>3, <1>4

LEMMA HeldBits ==
  ASSUME NEW copy, NEW due, NEW other, NEW old, NEW a \in Accesses,
         AgreesBut(other, due, old),
         Loads(a) => AgreesBut(copy, due, old)
  PROVE  AgreesBut(other, Result(copy, a), old \cup a.mask)
<1>1. a.put \subseteq a.mask /\ (~Loads(a) => a.mask = Bits)
  BY DEF Accesses, Loads
<1> SUFFICES ASSUME NEW b \in Bits, b \notin old, b \notin a.mask
             PROVE  b \in other <=> b \in Result(copy, a)
  BY DEF AgreesBut
<1>2. Loads(a)
  BY <1>1
<1>3. b \in other <=> b \in copy
  BY <1>2 DEF AgreesBut
<1>4. QED
  BY <1>1, <1>3 DEF Result

LEMMA ResultTyped ==
  ASSUME NEW v \in SUBSET Bits, NEW a \in Accesses
  PROVE  Result(v, a) \in SUBSET Bits
BY DEF Result, Accesses

LEMMA TheOther ==
  ASSUME NEW c \in Callers, NEW d \in Callers, d # c
  PROVE  (CHOOSE o \in Callers : o # c) = d
<1>1. \E o \in Callers : o # c
  OBVIOUS
<1>2. (CHOOSE o \in Callers : o # c) \in Callers /\ (CHOOSE o \in Callers : o # c) # c
  BY <1>1
<1>3. QED
  BY <1>2 DEF Callers

LEMMA RunsAlone ==
  ASSUME GpioTurns, NEW c \in Callers, c = Running, NEW d \in Callers, d # c
  PROVE  caller[d].at \in {"idle", "enter"} /\ caller[d].at \notin InPort
           /\ (c = "thread" => caller[d].at = "idle")
BY DEF GpioTurns, Running, Callers, InPort

(* The calls a caller makes are accesses to the registers modelled.        *)
LEMMA SeqOfParts ==
  ASSUME NEW S, NEW T, NEW s \in Seq(S), \A i \in 1 .. Len(s) : s[i] \in T
  PROVE  s \in Seq(T)
<1>1. Len(s) \in Nat /\ s \in [1 .. Len(s) -> S]
  BY LenProperties
<1>2. s \in [1 .. Len(s) -> T]
  BY <1>1
<1>3. Seq(T) = UNION {[1 .. n -> T] : n \in Nat}
  BY SeqDef, Zenon
<1>4. [1 .. Len(s) -> T] \in {[1 .. n -> T] : n \in Nat}
  BY <1>1
<1>5. QED
  BY <1>2, <1>3, <1>4, Zenon

LEMMA CallTyped ==
  ASSUME kinds \in [Callers -> Kinds],
         NEW s \in Calls(kinds["thread"], ThreadPins) \cup Calls(kinds["handler"], HandlerPins)
  PROVE  s \in Seq(OwnAccesses) /\ s # <<>>
<1>1. s \in GpioCalls
  <2>1. kinds["thread"] \in Kinds /\ kinds["handler"] \in Kinds
    BY DEF Callers
  <2>2. ThreadPins \in SUBSET gpio_pin_e /\ HandlerPins \in SUBSET gpio_pin_e
    BY GpioAssumption
  <2>3. QED
    BY <2>1, <2>2, CallsSound
<1>2. s \in Seq(Accesses) /\ s # <<>>
  BY <1>1 DEF GpioCalls
<1>3. ASSUME NEW i \in 1 .. Len(s)
      PROVE  s[i] \in OwnAccesses
  <2>1. s[i] \in Accesses
    BY <1>2, ElementOfSeq
  <2>2. s[i].reg \in Registers(kinds)
    BY DEF Registers
  <2>3. QED
    BY <2>1, <2>2 DEF OwnAccesses
<1>4. s \in Seq(OwnAccesses)
  BY <1>2, <1>3, SeqOfParts
<1>5. QED
  BY <1>2, <1>4

CallerState ==
  [at : CallerPlaces, todo : Seq(OwnAccesses), write : BOOLEAN, copy : SUBSET Bits, r : BOOLEAN]

LEMMA CallerParts ==
  ASSUME GpioTypes, NEW c \in Callers
  PROVE  /\ caller[c] \in CallerState
         /\ caller[c].at \in CallerPlaces /\ caller[c].todo \in Seq(OwnAccesses)
         /\ caller[c].write \in BOOLEAN /\ caller[c].copy \in SUBSET Bits
         /\ caller[c].r \in BOOLEAN
         /\ caller[c].at # "idle" =>
              /\ Now(c) \in OwnAccesses /\ Now(c) \in Accesses /\ Now(c).reg \in Registers(kinds)
              /\ Tail(caller[c].todo) \in Seq(OwnAccesses)
<1>1. caller[c] \in CallerState
  BY DEF GpioTypes, CallerState
<1>2. /\ caller[c].at \in CallerPlaces /\ caller[c].todo \in Seq(OwnAccesses)
      /\ caller[c].write \in BOOLEAN /\ caller[c].copy \in SUBSET Bits
      /\ caller[c].r \in BOOLEAN
  BY <1>1 DEF CallerState
<1>3. ASSUME caller[c].at # "idle"
      PROVE  Now(c) \in OwnAccesses /\ Tail(caller[c].todo) \in Seq(OwnAccesses)
  <2>1. caller[c].todo # <<>>
    BY <1>3 DEF GpioTypes
  <2>2. Len(caller[c].todo) \in Nat \ {0}
    BY <1>2, <2>1, EmptySeq
  <2>3. 1 \in 1 .. Len(caller[c].todo)
    BY <2>2
  <2>4. caller[c].todo[1] \in OwnAccesses
    BY <1>2, <2>3, ElementOfSeq
  <2>5. QED
    BY <1>2, <2>1, <2>4 DEF Now
<1>4. QED
  BY <1>1, <1>2, <1>3 DEF OwnAccesses

(* Before the next access nothing is held, and a store is told at once.    *)
LEMMA BeforeParts ==
  ASSUME NEW todo \in Seq(OwnAccesses)
  PROVE  /\ Before(todo) \in CallerState
         /\ Before(todo).at \in {"idle", "enter"}
         /\ Before(todo).at # "idle" => todo # <<>> /\ Before(todo).todo = todo
         /\ Before(todo).at # "idle" /\ Before(todo).write => ~Loads(Before(todo).todo[1])
<1>1. CASE todo = <<>>
  <2>1. Before(todo) = [at |-> "idle", todo |-> <<>>, write |-> FALSE, copy |-> {}, r |-> FALSE]
    BY <1>1 DEF Before, Idle
  <2>2. <<>> \in Seq(OwnAccesses)
    OBVIOUS
  <2>3. QED
    BY <2>1, <2>2 DEF CallerState, CallerPlaces
<1>2. CASE todo # <<>>
  <2> DEFINE w == ~Loads(todo[1])
  <2>1. Before(todo) = [at |-> "enter", todo |-> todo, write |-> w, copy |-> {}, r |-> FALSE]
    BY <1>2 DEF Before
  <2>2. w \in BOOLEAN
    BY DEF Loads
  <2>3. Before(todo).write <=> w
    <3> HIDE DEF w
    <3>1. Before(todo).write = w
      BY <2>1
    <3>2. QED
      BY <3>1
  <2>4. Before(todo).at = "enter" /\ Before(todo).todo = todo
    BY <2>1
  <2>5. Before(todo) \in CallerState
    <3> HIDE DEF w
    <3>1. QED
      BY <2>1, <2>2 DEF CallerState, CallerPlaces
  <2>6. QED
    BY <1>2, <2>3, <2>4, <2>5
<1>3. QED
  BY <1>1, <1>2

LEMMA GpioInitial == GpioInit => GpioIInv
<1> SUFFICES ASSUME GpioInit PROVE GpioIInv
  OBVIOUS
<1>1. kinds \in [Callers -> Kinds] /\ gpioMie = TRUE
  BY DEF GpioInit
<1>2. reg = [r \in Registers(kinds) |-> {1, 3, 5, 7}] /\ want = reg
        /\ raced = [r \in DOMAIN reg |-> {}]
  BY DEF GpioInit
<1>3. {1, 3, 5, 7} \in SUBSET Bits
  BY DEF Bits
<1>4. /\ reg \in [Registers(kinds) -> SUBSET Bits] /\ want \in [Registers(kinds) -> SUBSET Bits]
      /\ raced \in [Registers(kinds) -> SUBSET Bits]
  BY <1>2, <1>3
<1>5. port = [addr |-> <<"none", "00">>, data |-> {}, cmd |-> "idle"]
  BY DEF GpioInit
<1>6. port \in [addr : (Banks \X Parts) \cup {<<"none", "00">>}, data : SUBSET Bits,
                cmd : {"idle", "read", "write"}] /\ port.cmd = "idle"
  BY <1>5
<1>7. \A c \in Callers : caller[c] = Idle
  BY DEF GpioInit
<1>8. Idle \in CallerState /\ Idle.at = "idle"
  <2>1. <<>> \in Seq(OwnAccesses)
    OBVIOUS
  <2>2. QED
    BY <2>1 DEF Idle, CallerState, CallerPlaces
<1>9. caller \in [Callers -> CallerState] /\ \A c \in Callers : caller[c].at = "idle"
  <2>1. caller = [c \in Callers |-> Idle]
    BY DEF GpioInit
  <2>2. QED
    BY <1>7, <1>8, <2>1
<1>10. GpioTypes
  BY <1>1, <1>4, <1>6, <1>9 DEF GpioTypes, CallerState
<1>11. GpioTurns
  BY <1>1, <1>9 DEF GpioTurns, InPort, Callers
<1>12. PortOwned
  BY <1>6, <1>9 DEF PortOwned
<1>13. BitsAgree
  <2>1. \A c \in Callers : ~CopyInUse(c)
    BY <1>9 DEF CopyInUse
  <2>2. \A r \in Registers(kinds) : Due(r) = want[r]
    BY <1>2, <1>6 DEF Due
  <2>3. \A r \in Registers(kinds) : AgreesBut(Due(r), want[r], raced[r])
    BY <2>2 DEF AgreesBut
  <2>4. QED
    BY <2>1, <2>3 DEF BitsAgree
<1>14. QED
  BY <1>10, <1>11, <1>12, <1>13 DEF GpioIInv

-----------------------------------------------------------------------------
(* The steps.                                                              *)

(* A call begins: of the thread, or of the handler that interrupts it.     *)
LEMMA CallStep ==
  ASSUME GpioIInv, NEW c \in Callers, caller[c].at = "idle",
         c = "handler" => gpioMie,
         c = "thread" => caller["handler"].at = "idle",
         NEW s \in Seq(OwnAccesses), s # <<>>,
         caller' = [caller EXCEPT ![c] = Before(s)],
         UNCHANGED <<reg, port, gpioMie, kinds, want, raced>>
  PROVE  GpioIInv'
<1>1. /\ GpioTypes /\ GpioTurns /\ PortOwned /\ BitsAgree
      /\ \A d \in Callers : caller[d] \in CallerState /\ caller[d].todo \in Seq(OwnAccesses)
  BY CallerParts DEF GpioIInv
<1>2. /\ caller \in [Callers -> CallerState] /\ Before(s) \in CallerState
      /\ Before(s).at \in {"idle", "enter"}
      /\ Before(s).at # "idle" => Before(s).todo # <<>>
      /\ Before(s).at # "idle" /\ Before(s).write => ~Loads(Before(s).todo[1])
  BY <1>1, BeforeParts DEF GpioTypes, CallerState
<1> DEFINE new == Before(s)
<1> HIDE DEF new
<1>3. /\ caller' \in [Callers -> CallerState] /\ caller'[c] = new
      /\ \A d \in Callers : d # c => caller'[d] = caller[d]
  BY <1>2 DEF new
<1>4. UNCHANGED <<OwnAccesses, Registers(kinds)>>
  BY DEF OwnAccesses
<1>5. GpioTypes'
  <2>1. CallerState' = CallerState
    BY <1>4 DEF CallerState
  <2>2. \A d \in Callers : caller'[d].at # "idle" => caller'[d].todo # <<>>
    BY <1>1, <1>2, <1>3 DEF GpioTypes, new
  <2>3. caller' \in [Callers -> CallerState']
    BY <1>3, <2>1
  <2>4. QED
    BY <1>1, <1>4, <2>2, <2>3 DEF GpioTypes, CallerState
<1>6. new.at \in {"idle", "enter"} /\ new.at \notin InPort /\ new.at \notin {"start", "wait", "leave", "address"}
  BY <1>2 DEF new, InPort
<1>7. GpioTurns'
  <2>1. c = "handler" => caller["thread"].at \in {"idle", "enter"}
    <3>1. c = "handler" => caller["thread"].at \notin InPort
      BY <1>1 DEF GpioTurns, Callers
    <3>2. caller["thread"].at \in CallerPlaces
      BY <1>1 DEF CallerState, Callers
    <3>3. QED
      BY <3>1, <3>2 DEF CallerPlaces, InPort
  <2>2. QED
    BY <1>1, <1>3, <1>6, <2>1 DEF GpioTurns, Callers
<1>8. \A d \in Callers : caller'[d].at \in {"start", "wait", "leave", "address"} =>
        d # c /\ caller'[d] = caller[d] /\ Now(d)' = Now(d)
  BY <1>3, <1>6 DEF Now
<1>9. PortOwned'
  <2>1. port.cmd # "idle" => caller'[Running'].at = "wait"
    <3>1. SUFFICES ASSUME port.cmd # "idle" PROVE caller'[Running'].at = "wait"
      OBVIOUS
    <3>2. caller[Running].at = "wait" /\ Running \in Callers
      BY <1>1, <3>1 DEF PortOwned, Running, Callers
    <3>3. c # Running /\ gpioMie = FALSE
      BY <1>1, <3>2 DEF GpioTurns, InPort, GpioTypes
    <3>4. c = "thread" /\ Running = "handler"
      BY <3>2, <3>3 DEF Callers
    <3>5. FALSE
      BY <3>2, <3>4
    <3>6. QED
      BY <3>5
  <2>2. QED
    BY <1>1, <1>8, <2>1 DEF PortOwned
<1>10. BitsAgree'
  <2>1. \A r : Due(r)' = Due(r)
    BY DEF Due
  <2>2. ASSUME NEW d \in Callers, CopyInUse(d)'
        PROVE  d # c /\ CopyInUse(d) /\ caller'[d] = caller[d] /\ Now(d)' = Now(d)
    BY <1>2, <1>3, <2>2 DEF CopyInUse, Now, new
  <2>3. QED
    BY <1>1, <1>4, <2>1, <2>2 DEF BitsAgree
<1>11. QED
  BY <1>5, <1>7, <1>9, <1>10 DEF GpioIInv

LEMMA CallsStep == GpioIInv /\ (GpioCall \/ GpioInterrupt) => GpioIInv'
<1>1. ASSUME GpioIInv, GpioCall PROVE GpioIInv'
  <2>1. kinds \in [Callers -> Kinds] /\ "thread" \in Callers
    BY <1>1 DEF GpioIInv, GpioTypes, Callers
  <2>2. PICK s \in Calls(kinds["thread"], ThreadPins) : caller' = [caller EXCEPT !["thread"] = Before(s)]
    BY <1>1 DEF GpioCall
  <2>3. s \in Seq(OwnAccesses) /\ s # <<>>
    BY <2>1, CallTyped
  <2>4. caller["thread"].at = "idle" /\ caller["handler"].at = "idle"
          /\ UNCHANGED <<reg, port, gpioMie, kinds, want, raced>>
    BY <1>1 DEF GpioCall, Running
  <2>5. QED
    BY <1>1, <2>1, <2>2, <2>3, <2>4, CallStep
<1>2. ASSUME GpioIInv, GpioInterrupt PROVE GpioIInv'
  <2>1. kinds \in [Callers -> Kinds] /\ "handler" \in Callers
    BY <1>2 DEF GpioIInv, GpioTypes, Callers
  <2>2. PICK s \in Calls(kinds["handler"], HandlerPins) : caller' = [caller EXCEPT !["handler"] = Before(s)]
    BY <1>2 DEF GpioInterrupt
  <2>3. s \in Seq(OwnAccesses) /\ s # <<>>
    BY <2>1, CallTyped
  <2>4. caller["handler"].at = "idle" /\ gpioMie
          /\ UNCHANGED <<reg, port, gpioMie, kinds, want, raced>>
    BY <1>2 DEF GpioInterrupt, Running
  <2>5. QED
    BY <1>2, <2>1, <2>2, <2>3, <2>4, CallStep
<1>3. QED
  BY <1>1, <1>2

(* What a step of a running call does to its place.                        *)
Moved(c, at, write, copy) ==
  /\ caller' \in [Callers -> CallerState]
  /\ \A d \in Callers : d # c => caller'[d] = caller[d] /\ Now(d)' = Now(d)
  /\ caller'[c].at = at /\ caller'[c].todo = caller[c].todo /\ Now(c)' = Now(c)
  /\ caller'[c].write <=> write
  /\ caller'[c].copy = copy

LEMMA MovedGoto ==
  ASSUME GpioTypes, NEW c \in Callers, NEW at \in CallerPlaces, Goto(c, at)
  PROVE  Moved(c, at, caller[c].write, caller[c].copy)
<1> DEFINE new == [caller[c] EXCEPT !.at = at]
<1>1. caller \in [Callers -> CallerState] /\ caller[c] \in CallerState
  BY DEF GpioTypes, CallerState
<1>2. caller' = [caller EXCEPT ![c] = new]
  BY DEF Goto
<1>3. new \in CallerState /\ new.at = at /\ new.todo = caller[c].todo /\ new.write = caller[c].write
        /\ new.copy = caller[c].copy
  BY <1>1 DEF CallerState
<1> HIDE DEF new
<1>4. caller' \in [Callers -> CallerState] /\ caller'[c] = new
        /\ \A d \in Callers : d # c => caller'[d] = caller[d]
  BY <1>1, <1>2, <1>3
<1>5. QED
  BY <1>3, <1>4 DEF Moved, Now

LEMMA MovedRead ==
  ASSUME GpioTypes, NEW c \in Callers, NEW v \in SUBSET Bits, HasRead(c, v)
  PROVE  Moved(c, "enter", TRUE, v)
<1> DEFINE new == [[[caller[c] EXCEPT !.at = "enter"] EXCEPT !.write = TRUE] EXCEPT !.copy = v]
<1>1. caller \in [Callers -> CallerState] /\ caller[c] \in CallerState
  BY DEF GpioTypes, CallerState
<1>2. caller' = [caller EXCEPT ![c] = new]
  BY <1>1 DEF HasRead, CallerState
<1>3. new \in CallerState /\ new.at = "enter" /\ new.todo = caller[c].todo /\ new.write = TRUE
        /\ new.copy = v
  BY <1>1 DEF CallerState, CallerPlaces
<1> HIDE DEF new
<1>4. caller' \in [Callers -> CallerState] /\ caller'[c] = new
        /\ \A d \in Callers : d # c => caller'[d] = caller[d]
  BY <1>1, <1>2, <1>3
<1>5. QED
  BY <1>3, <1>4 DEF Moved, Now

LEMMA MovedIn ==
  ASSUME GpioTypes, NEW c \in Callers,
         caller' = [caller EXCEPT ![c].at = "address", ![c].r = gpioMie]
  PROVE  Moved(c, "address", caller[c].write, caller[c].copy)
<1> DEFINE new == [[caller[c] EXCEPT !.at = "address"] EXCEPT !.r = gpioMie]
<1>1. caller \in [Callers -> CallerState] /\ caller[c] \in CallerState /\ gpioMie \in BOOLEAN
  BY DEF GpioTypes, CallerState
<1>2. caller' = [caller EXCEPT ![c] = new]
  BY <1>1 DEF CallerState
<1>3. new \in CallerState /\ new.at = "address" /\ new.todo = caller[c].todo
        /\ new.write = caller[c].write /\ new.copy = caller[c].copy
  BY <1>1 DEF CallerState, CallerPlaces
<1> HIDE DEF new
<1>4. caller' \in [Callers -> CallerState] /\ caller'[c] = new
        /\ \A d \in Callers : d # c => caller'[d] = caller[d]
  BY <1>1, <1>2, <1>3
<1>5. QED
  BY <1>3, <1>4 DEF Moved, Now

LEMMA MovedOut ==
  ASSUME GpioTypes, NEW c \in Callers, NEW v \in SUBSET Bits,
         caller' = [caller EXCEPT ![c].at = "leave", ![c].copy = v]
  PROVE  Moved(c, "leave", caller[c].write, v)
<1> DEFINE new == [[caller[c] EXCEPT !.at = "leave"] EXCEPT !.copy = v]
<1>1. caller \in [Callers -> CallerState] /\ caller[c] \in CallerState
  BY DEF GpioTypes, CallerState
<1>2. caller' = [caller EXCEPT ![c] = new]
  BY <1>1 DEF CallerState
<1>3. new \in CallerState /\ new.at = "leave" /\ new.todo = caller[c].todo
        /\ new.write = caller[c].write /\ new.copy = v
  BY <1>1 DEF CallerState, CallerPlaces
<1> HIDE DEF new
<1>4. caller' \in [Callers -> CallerState] /\ caller'[c] = new
        /\ \A d \in Callers : d # c => caller'[d] = caller[d]
  BY <1>1, <1>2, <1>3
<1>5. QED
  BY <1>3, <1>4 DEF Moved, Now

(* Running is one of the two, and while it moves on it still runs.         *)
LEMMA StillRuns ==
  ASSUME GpioTurns, NEW c \in Callers, c = Running, caller[c].at # "idle",
         caller'[c].at # "idle", \A d \in Callers : d # c => caller'[d] = caller[d]
  PROVE  Running' = c
BY DEF Running, Callers

LEMMA TypesKept ==
  ASSUME GpioTypes, NEW c \in Callers, caller[c].at # "idle",
         caller' \in [Callers -> CallerState], caller'[c].todo = caller[c].todo,
         \A d \in Callers : d # c => caller'[d] = caller[d],
         UNCHANGED <<kinds, reg, want, raced>>, gpioMie' \in BOOLEAN,
         port' \in [addr : (Banks \X Parts) \cup {<<"none", "00">>}, data : SUBSET Bits,
                    cmd : {"idle", "read", "write"}]
  PROVE  GpioTypes'
<1>1. \A d \in Callers : caller'[d].at # "idle" => caller'[d].todo # <<>>
  BY DEF GpioTypes
<1>2. Registers(kinds)' = Registers(kinds) /\ OwnAccesses' = OwnAccesses
  BY DEF OwnAccesses
<1>3. CallerState' = CallerState
  BY <1>2 DEF CallerState
<1>4. QED
  BY <1>1, <1>2, <1>3 DEF GpioTypes, CallerState

(* A step of the caller that runs can only disturb what the port holds for *)
(* that caller: the other one is outside.                                  *)
LEMMA PortKept ==
  ASSUME GpioTypes, GpioTurns, NEW c \in Callers, c = Running, caller[c].at # "idle",
         \A d \in Callers : d # c => caller'[d] = caller[d],
         port.cmd' # "idle" => caller'[c].at = "wait",
         caller'[c].at \in {"start", "wait"} => port.addr' = Now(c)'.reg,
         caller'[c].at = "wait" /\ port.cmd' # "idle" => (port.cmd' = "write" <=> caller'[c].write),
         caller'[c].at = "wait" /\ ~caller'[c].write /\ port.cmd' = "idle" =>
           port.data' = reg'[Now(c)'.reg],
         caller'[c].at = "leave" /\ ~caller'[c].write => caller'[c].copy = reg'[Now(c)'.reg]
  PROVE  PortOwned'
<1>1. \A d \in Callers : d # c => caller'[d].at \in {"idle", "enter"}
  BY RunsAlone
<1>2. \A d \in Callers : caller'[d].at \in {"start", "wait", "leave"} => d = c
  BY <1>1
<1>3. caller'[c].at # "idle" => Running' = c
  BY StillRuns
<1>4. port.cmd' # "idle" => caller'[Running'].at = "wait"
  BY <1>3
<1>5. \A d \in Callers : caller'[d].at \in {"start", "wait"} => port.addr' = Now(d)'.reg
  BY <1>2
<1>6. \A d \in Callers : caller'[d].at = "wait" /\ port.cmd' # "idle" =>
        (port.cmd' = "write" <=> caller'[d].write)
  BY <1>2
<1>7. \A d \in Callers : caller'[d].at = "wait" /\ ~caller'[d].write /\ port.cmd' = "idle" =>
        port.data' = reg'[Now(d)'.reg]
  BY <1>2
<1>8. \A d \in Callers : caller'[d].at = "leave" /\ ~caller'[d].write =>
        caller'[d].copy = reg'[Now(d)'.reg]
  BY <1>2
<1>9. QED
  BY <1>4, <1>5, <1>6, <1>7, <1>8 DEF PortOwned

(* And it keeps the turns: in the port only with interrupts disabled.      *)
LEMMA TurnsKept ==
  ASSUME GpioTypes, GpioTurns, NEW c \in Callers, c = Running, caller[c].at # "idle",
         \A d \in Callers : d # c => caller'[d] = caller[d],
         caller'[c].at \in InPort => ~gpioMie'
  PROVE  GpioTurns'
<1>1. \A d \in Callers : d # c => caller'[d].at \in {"idle", "enter"} /\ caller'[d].at \notin InPort
        /\ (c = "thread" => caller'[d].at = "idle")
  BY RunsAlone
<1>2. \A d \in Callers : caller'[d].at \in InPort => ~gpioMie'
  BY <1>1
<1>3. "thread" \in Callers /\ "handler" \in Callers /\ (c = "thread" \/ c = "handler")
  BY DEF Callers
<1>4. caller'["handler"].at # "idle" => caller'["thread"].at \in {"idle", "enter"}
  BY <1>1, <1>3
<1>5. QED
  BY <1>2, <1>4 DEF GpioTurns

(* A step that writes nothing: a copy it takes is what the register holds. *)
LEMMA BitsKept ==
  ASSUME GpioTypes, BitsAgree, NEW c \in Callers,
         \A d \in Callers : d # c => caller'[d] = caller[d] /\ Now(d)' = Now(d),
         UNCHANGED <<kinds, want, raced>>, \A r \in Registers(kinds) : Due(r)' = Due(r),
         CopyInUse(c)' => /\ Now(c)' = Now(c) /\ Now(c).reg \in Registers(kinds)
                          /\ \/ caller'[c].copy = Due(Now(c).reg)
                             \/ CopyInUse(c) /\ caller'[c].copy = caller[c].copy
  PROVE  BitsAgree'
<1>1. Registers(kinds)' = Registers(kinds)
  OBVIOUS
<1>2. \A r \in Registers(kinds) : AgreesBut(Due(r)', want'[r], raced'[r])
  BY DEF BitsAgree
<1>3. ASSUME NEW d \in Callers, CopyInUse(d)'
      PROVE  AgreesBut(caller'[d].copy, Due(Now(d).reg)', raced'[Now(d)'.reg])
  <2>1. CASE d # c
    <3>1. CopyInUse(d) /\ Now(d)' = Now(d) /\ caller'[d] = caller[d]
      BY <1>3, <2>1 DEF CopyInUse
    <3>2. Now(d).reg \in Registers(kinds)
      BY <3>1, CallerParts DEF CopyInUse
    <3>3. AgreesBut(caller[d].copy, Due(Now(d).reg), raced[Now(d).reg])
      BY <3>1 DEF BitsAgree
    <3>4. Due(Now(d).reg)' = Due(Now(d).reg)
      BY <3>1, <3>2 DEF Due
    <3>5. QED
      BY <3>1, <3>3, <3>4
  <2>2. CASE d = c
    <3>1. Now(c)' = Now(c) /\ Now(c).reg \in Registers(kinds)
      BY <1>3, <2>2
    <3>2. Due(Now(c).reg)' = Due(Now(c).reg)
      BY <3>1 DEF Due
    <3>3. CASE caller'[c].copy = Due(Now(c).reg)
      BY <2>2, <3>1, <3>2, <3>3 DEF AgreesBut
    <3>4. CASE CopyInUse(c) /\ caller'[c].copy = caller[c].copy
      <4>1. AgreesBut(caller[c].copy, Due(Now(c).reg), raced[Now(c).reg])
        BY <3>4 DEF BitsAgree
      <4>2. QED
        BY <2>2, <3>1, <3>2, <3>4, <4>1
    <3>5. QED
      BY <1>3, <2>2, <3>3, <3>4
  <2>3. QED
    BY <2>1, <2>2
<1>4. \A d \in Callers : CopyInUse(d)' =>
        AgreesBut(caller'[d].copy, Due(Now(d).reg)', raced'[Now(d)'.reg])
  BY <1>3
<1>5. QED
  BY <1>1, <1>2, <1>4 DEF BitsAgree

(* A step that writes a register, or has the port write it.                *)
LEMMA BitsWritten ==
  ASSUME GpioTypes, GpioTurns, BitsAgree, NEW c \in Callers, c = Running,
         caller[c].at \in {"enter", "start"}, caller[c].write, Note(c), UNCHANGED kinds,
         \A d \in Callers : d # c => caller'[d] = caller[d] /\ Now(d)' = Now(d),
         \A r \in Registers(kinds) :
           Due(r)' = IF r = Now(c).reg THEN Result(caller[c].copy, Now(c)) ELSE Due(r),
         ~CopyInUse(c)'
  PROVE  BitsAgree'
<1>0. Now(c) \in Accesses /\ Now(c).reg \in Registers(kinds) /\ caller[c].at # "idle"
  BY CallerParts
<1>a. PICK a \in Accesses : a = Now(c)
  BY <1>0
<1>1. a \in Accesses /\ a.reg \in Registers(kinds) /\ caller[c].at # "idle"
  BY <1>0, <1>a
<1>2. PICK o \in Callers : o # c
  BY DEF Callers
<1>3. (CHOOSE x \in Callers : x # c) = o /\ \A d \in Callers : d # c => d = o
  BY <1>2, TheOther DEF Callers
<1>4. /\ want' = [want EXCEPT ![a.reg] = Result(@, a)]
      /\ raced' = [raced EXCEPT ![a.reg] =
                     IF HoldsCopy(o, a.reg) THEN @ \cup a.mask
                     ELSE IF a.invert THEN @ ELSE @ \ a.mask]
  BY <1>3, <1>a DEF Note
<1>5. caller[o].at \in {"idle", "enter"}
  BY <1>2, RunsAlone
<1>6. /\ want \in [Registers(kinds) -> SUBSET Bits] /\ raced \in [Registers(kinds) -> SUBSET Bits]
      /\ Registers(kinds)' = Registers(kinds)
  BY DEF GpioTypes
<1>7. HoldsCopy(o, a.reg) <=> CopyInUse(o) /\ Now(o).reg = a.reg
  BY <1>5 DEF HoldsCopy, CopyInUse
<1>8. Loads(a) => AgreesBut(caller[c].copy, Due(a.reg), raced[a.reg])
  BY <1>a DEF BitsAgree, CopyInUse
<1>9. AgreesBut(Due(a.reg), want[a.reg], raced[a.reg])
  BY <1>1 DEF BitsAgree
<1>10. /\ Due(a.reg)' = Result(caller[c].copy, a)
       /\ \A r \in Registers(kinds) : r # a.reg => Due(r)' = Due(r)
  BY <1>1, <1>a
<1> DEFINE holds == HoldsCopy(o, a.reg)
           new == IF holds THEN raced[a.reg] \cup a.mask
                  ELSE IF a.invert THEN raced[a.reg] ELSE raced[a.reg] \ a.mask
<1>11. holds \in BOOLEAN
  BY DEF HoldsCopy
<1>12. /\ want'[a.reg] = Result(want[a.reg], a) /\ raced'[a.reg] = new
       /\ \A r \in Registers(kinds) : r # a.reg => want'[r] = want[r] /\ raced'[r] = raced[r]
  BY <1>1, <1>4, <1>6
<1> HIDE DEF holds
<1>13. AgreesBut(Result(caller[c].copy, a), Result(want[a.reg], a), new)
  BY <1>1, <1>8, <1>9, <1>11, WrittenBits
<1>14. \A r \in Registers(kinds) : AgreesBut(Due(r)', want'[r], raced'[r])
  <2> HIDE DEF new
  <2> SUFFICES ASSUME NEW r \in Registers(kinds) PROVE AgreesBut(Due(r)', want'[r], raced'[r])
    OBVIOUS
  <2>1. CASE r = a.reg
    BY <1>10, <1>12, <1>13, <2>1
  <2>2. CASE r # a.reg
    <3>1. AgreesBut(Due(r), want[r], raced[r])
      BY DEF BitsAgree
    <3>2. QED
      BY <1>10, <1>12, <2>2, <3>1
  <2>3. QED
    BY <2>1, <2>2
<1>15. ASSUME NEW d \in Callers, CopyInUse(d)'
       PROVE  AgreesBut(caller'[d].copy, Due(Now(d).reg)', raced'[Now(d)'.reg])
  <2>1. d = o /\ d # c
    BY <1>3, <1>15
  <2>2. CopyInUse(o) /\ Now(o)' = Now(o) /\ caller'[o] = caller[o]
    BY <1>15, <2>1 DEF CopyInUse
  <2>3. Now(o).reg \in Registers(kinds)
    BY <2>2, CallerParts DEF CopyInUse
  <2>4. AgreesBut(caller[o].copy, Due(Now(o).reg), raced[Now(o).reg])
    BY <2>2 DEF BitsAgree
  <2>5. CASE Now(o).reg # a.reg
    <3>1. PICK r \in Registers(kinds) : r = Now(o).reg
      BY <2>3
    <3>2. Due(r)' = Due(r) /\ raced'[r] = raced[r]
      BY <1>10, <1>12, <2>5, <3>1
    <3>3. Due(Now(o).reg)' = Due(Now(o).reg)
      BY <2>2, <3>1, <3>2 DEF Due
    <3>4. QED
      BY <2>1, <2>2, <2>4, <3>1, <3>2, <3>3
  <2>6. CASE Now(o).reg = a.reg
    <3>1. holds
      BY <1>7, <2>2, <2>6 DEF holds
    <3>2. new = raced[a.reg] \cup a.mask
      BY <3>1
    <3>3. AgreesBut(caller[o].copy, Result(caller[c].copy, a), raced[a.reg] \cup a.mask)
      BY <1>1, <1>8, <2>4, <2>6, HeldBits
    <3>4. Due(Now(o).reg)' = Result(caller[c].copy, a)
      BY <1>10, <2>2, <2>6 DEF Due
    <3>5. raced'[Now(o)'.reg] = raced[a.reg] \cup a.mask
      BY <1>12, <2>2, <2>6, <3>2
    <3>6. QED
      BY <2>1, <2>2, <3>3, <3>4, <3>5
  <2>7. QED
    BY <2>5, <2>6
<1>16. \A d \in Callers : CopyInUse(d)' =>
         AgreesBut(caller'[d].copy, Due(Now(d).reg)', raced'[Now(d)'.reg])
  BY <1>15
<1>17. QED
  BY <1>6, <1>14, <1>16 DEF BitsAgree

LEMMA CommandIdle ==
  ASSUME PortOwned, NEW c \in Callers, c = Running, caller[c].at # "wait"
  PROVE  port.cmd = "idle"
BY DEF PortOwned

LEMMA LoadStep ==
  ASSUME GpioIInv, NEW c \in Callers, MmioLoad(c)
  PROVE  GpioIInv'
<1>1. GpioTypes /\ GpioTurns /\ PortOwned /\ BitsAgree
  BY DEF GpioIInv
<1>2. c = Running /\ caller[c].at = "enter" /\ UNCHANGED <<reg, port, gpioMie, kinds, want, raced>>
  BY DEF MmioLoad, At
<1>3. Now(c) \in Accesses /\ Now(c).reg \in Registers(kinds)
  BY <1>1, <1>2, CallerParts
<1>4. reg[Now(c).reg] \in SUBSET Bits
  BY <1>1, <1>3 DEF GpioTypes
<1>5. Moved(c, "enter", TRUE, reg[Now(c).reg])
  BY <1>1, <1>4, MovedRead DEF MmioLoad
<1>6. /\ caller' \in [Callers -> CallerState] /\ caller'[c].todo = caller[c].todo
      /\ \A d \in Callers : d # c => caller'[d] = caller[d] /\ Now(d)' = Now(d)
      /\ caller'[c].at = "enter" /\ Now(c)' = Now(c) /\ caller'[c].copy = reg[Now(c).reg]
  BY <1>5 DEF Moved
<1>7. port.cmd = "idle"
  BY <1>1, <1>2, CommandIdle
<1>8. GpioTypes'
  BY <1>1, <1>2, <1>6, TypesKept DEF GpioTypes
<1>9. GpioTurns'
  BY <1>1, <1>2, <1>6, TurnsKept DEF InPort
<1>10. PortOwned'
  BY <1>1, <1>2, <1>6, <1>7, PortKept
<1>11. BitsAgree'
  <2>1. Due(Now(c).reg) = reg[Now(c).reg]
    BY <1>7 DEF Due
  <2>2. \A r \in Registers(kinds) : Due(r)' = Due(r)
    BY <1>2 DEF Due
  <2>3. QED
    BY <1>1, <1>2, <1>3, <1>6, <2>1, <2>2, BitsKept
<1>12. QED
  BY <1>8, <1>9, <1>10, <1>11 DEF GpioIInv

LEMMA EnterStep ==
  ASSUME GpioIInv, NEW c \in Callers, AnalogEnter(c)
  PROVE  GpioIInv'
<1>1. GpioTypes /\ GpioTurns /\ PortOwned /\ BitsAgree
  BY DEF GpioIInv
<1>2. c = Running /\ caller[c].at = "enter" /\ UNCHANGED <<reg, port, kinds, want, raced>>
        /\ gpioMie' = FALSE
  BY DEF AnalogEnter, At
<1>3. Now(c) \in Accesses /\ Now(c).reg \in Registers(kinds)
  BY <1>1, <1>2, CallerParts
<1>5. Moved(c, "address", caller[c].write, caller[c].copy)
  BY <1>1, MovedIn DEF AnalogEnter
<1>6. /\ caller' \in [Callers -> CallerState] /\ caller'[c].todo = caller[c].todo
      /\ \A d \in Callers : d # c => caller'[d] = caller[d] /\ Now(d)' = Now(d)
      /\ caller'[c].at = "address" /\ Now(c)' = Now(c) /\ caller'[c].copy = caller[c].copy
      /\ (caller'[c].write <=> caller[c].write)
  BY <1>5 DEF Moved
<1>7. port.cmd = "idle"
  BY <1>1, <1>2, CommandIdle
<1>8. GpioTypes'
  BY <1>1, <1>2, <1>6, TypesKept DEF GpioTypes
<1>9. GpioTurns'
  BY <1>1, <1>2, <1>6, TurnsKept
<1>10. PortOwned'
  BY <1>1, <1>2, <1>6, <1>7, PortKept
<1>11. BitsAgree'
  <2>1. CopyInUse(c)' => CopyInUse(c)
    BY <1>2, <1>6 DEF CopyInUse
  <2>2. \A r \in Registers(kinds) : Due(r)' = Due(r)
    BY <1>2 DEF Due
  <2>3. QED
    BY <1>1, <1>2, <1>3, <1>6, <2>1, <2>2, BitsKept
<1>12. QED
  BY <1>8, <1>9, <1>10, <1>11 DEF GpioIInv

LEMMA AddressStep ==
  ASSUME GpioIInv, NEW c \in Callers, AnalogAddress(c)
  PROVE  GpioIInv'
<1>1. GpioTypes /\ GpioTurns /\ PortOwned /\ BitsAgree
  BY DEF GpioIInv
<1>2. c = Running /\ caller[c].at = "address" /\ UNCHANGED <<reg, gpioMie, kinds, want, raced>>
        /\ port' = [port EXCEPT !.addr = Now(c).reg]
  BY DEF AnalogAddress, At
<1>3. Now(c) \in Accesses /\ Now(c).reg \in Registers(kinds) /\ Now(c).reg \in Banks \X Parts
  BY <1>1, <1>2, CallerParts DEF Accesses
<1>4. /\ port' \in [addr : (Banks \X Parts) \cup {<<"none", "00">>}, data : SUBSET Bits,
                    cmd : {"idle", "read", "write"}]
      /\ port'.addr = Now(c).reg /\ port'.data = port.data /\ port'.cmd = port.cmd
  BY <1>1, <1>2, <1>3 DEF GpioTypes
<1>5. Moved(c, "start", caller[c].write, caller[c].copy)
  BY <1>1, MovedGoto DEF AnalogAddress, CallerPlaces
<1>6. /\ caller' \in [Callers -> CallerState] /\ caller'[c].todo = caller[c].todo
      /\ \A d \in Callers : d # c => caller'[d] = caller[d] /\ Now(d)' = Now(d)
      /\ caller'[c].at = "start" /\ Now(c)' = Now(c) /\ caller'[c].copy = caller[c].copy
      /\ (caller'[c].write <=> caller[c].write)
  BY <1>5 DEF Moved
<1>7. port.cmd = "idle"
  BY <1>1, <1>2, CommandIdle
<1>8. GpioTypes'
  BY <1>1, <1>2, <1>4, <1>6, TypesKept DEF GpioTypes
<1>9. GpioTurns'
  BY <1>1, <1>2, <1>6, TurnsKept DEF GpioTurns, InPort
<1>10. PortOwned'
  BY <1>1, <1>2, <1>4, <1>6, <1>7, PortKept
<1>11. BitsAgree'
  <2>1. CopyInUse(c)' => CopyInUse(c)
    BY <1>2, <1>6 DEF CopyInUse
  <2>2. \A r \in Registers(kinds) : Due(r)' = Due(r)
    BY <1>2, <1>4, <1>7 DEF Due
  <2>3. QED
    BY <1>1, <1>2, <1>3, <1>6, <2>1, <2>2, BitsKept
<1>12. QED
  BY <1>8, <1>9, <1>10, <1>11 DEF GpioIInv

LEMMA StartReadStep ==
  ASSUME GpioIInv, NEW c \in Callers, AnalogStartRead(c)
  PROVE  GpioIInv'
<1>1. GpioTypes /\ GpioTurns /\ PortOwned /\ BitsAgree
  BY DEF GpioIInv
<1>2. c = Running /\ caller[c].at = "start" /\ UNCHANGED <<reg, gpioMie, kinds, want, raced>>
        /\ port' = [port EXCEPT !.cmd = "read"] /\ ~caller[c].write
  BY DEF AnalogStartRead, At
<1>4. /\ port' \in [addr : (Banks \X Parts) \cup {<<"none", "00">>}, data : SUBSET Bits,
                    cmd : {"idle", "read", "write"}]
      /\ port'.addr = port.addr /\ port'.cmd = "read"
  BY <1>1, <1>2 DEF GpioTypes
<1>5. Moved(c, "wait", caller[c].write, caller[c].copy)
  BY <1>1, MovedGoto DEF AnalogStartRead, CallerPlaces
<1>6. /\ caller' \in [Callers -> CallerState] /\ caller'[c].todo = caller[c].todo
      /\ \A d \in Callers : d # c => caller'[d] = caller[d] /\ Now(d)' = Now(d)
      /\ caller'[c].at = "wait" /\ Now(c)' = Now(c) /\ caller'[c].copy = caller[c].copy
      /\ ~caller'[c].write
  BY <1>2, <1>5 DEF Moved
<1>7. port.cmd = "idle" /\ port.addr = Now(c).reg
  BY <1>1, <1>2, CommandIdle DEF PortOwned
<1>8. GpioTypes'
  BY <1>1, <1>2, <1>4, <1>6, TypesKept DEF GpioTypes
<1>9. GpioTurns'
  BY <1>1, <1>2, <1>6, TurnsKept DEF GpioTurns, InPort
<1>10. PortOwned'
  BY <1>1, <1>2, <1>4, <1>6, <1>7, PortKept
<1>11. BitsAgree'
  <2>1. ~CopyInUse(c)'
    BY <1>6 DEF CopyInUse
  <2>2. \A r \in Registers(kinds) : Due(r)' = Due(r)
    BY <1>2, <1>4, <1>7 DEF Due
  <2>3. QED
    BY <1>1, <1>2, <1>6, <2>1, <2>2, BitsKept
<1>12. QED
  BY <1>8, <1>9, <1>10, <1>11 DEF GpioIInv

LEMMA WaitStep ==
  ASSUME GpioIInv, NEW c \in Callers, AnalogWait(c)
  PROVE  GpioIInv'
<1> DEFINE v == IF caller[c].write THEN caller[c].copy ELSE port.data
<1>1. GpioTypes /\ GpioTurns /\ PortOwned /\ BitsAgree
  BY DEF GpioIInv
<1>2. c = Running /\ caller[c].at = "wait" /\ UNCHANGED <<reg, port, gpioMie, kinds, want, raced>>
        /\ port.cmd = "idle"
  BY DEF AnalogWait, At
<1>3. caller' = [caller EXCEPT ![c].at = "leave", ![c].copy = v]
  <2>1. caller \in [Callers -> CallerState]
    BY <1>1 DEF GpioTypes, CallerState
  <2>2. QED
    BY <2>1 DEF AnalogWait
<1>4. v \in SUBSET Bits
  BY <1>1, CallerParts DEF GpioTypes
<1>5. Moved(c, "leave", caller[c].write, v)
  <2> HIDE DEF v
  <2>1. QED
    BY <1>1, <1>3, <1>4, MovedOut
<1>6. /\ caller' \in [Callers -> CallerState] /\ caller'[c].todo = caller[c].todo
      /\ \A d \in Callers : d # c => caller'[d] = caller[d] /\ Now(d)' = Now(d)
      /\ caller'[c].at = "leave" /\ Now(c)' = Now(c) /\ caller'[c].copy = v
      /\ (caller'[c].write <=> caller[c].write)
  BY <1>5 DEF Moved
<1>7. ~caller[c].write => v = reg[Now(c).reg]
  BY <1>1, <1>2 DEF PortOwned
<1> HIDE DEF v
<1>8. GpioTypes'
  BY <1>1, <1>2, <1>6, TypesKept DEF GpioTypes
<1>9. GpioTurns'
  BY <1>1, <1>2, <1>6, TurnsKept DEF GpioTurns, InPort
<1>10. PortOwned'
  BY <1>1, <1>2, <1>6, <1>7, PortKept
<1>11. BitsAgree'
  <2>1. ~CopyInUse(c)'
    BY <1>6 DEF CopyInUse
  <2>2. \A r \in Registers(kinds) : Due(r)' = Due(r)
    BY <1>2 DEF Due
  <2>3. QED
    BY <1>1, <1>2, <1>6, <2>1, <2>2, BitsKept
<1>12. QED
  BY <1>8, <1>9, <1>10, <1>11 DEF GpioIInv

(* An access is over: the next one begins, or the call returns.            *)
Stepped(c) ==
  /\ caller' \in [Callers -> CallerState]
  /\ \A d \in Callers : d # c => caller'[d] = caller[d] /\ Now(d)' = Now(d)
  /\ caller'[c].at \in {"idle", "enter"}
  /\ caller'[c].at # "idle" => caller'[c].todo # <<>>
  /\ ~(caller'[c].at # "idle" /\ caller'[c].write /\ Loads(caller'[c].todo[1]))

LEMMA SteppedOn ==
  ASSUME GpioTypes, NEW c \in Callers, caller[c].at # "idle", HasWritten(c)
  PROVE  Stepped(c)
<1> DEFINE new == Before(Tail(caller[c].todo))
<1>1. caller \in [Callers -> CallerState] /\ Tail(caller[c].todo) \in Seq(OwnAccesses)
  BY CallerParts DEF GpioTypes, CallerState
<1>2. caller' = [caller EXCEPT ![c] = new]
  BY <1>1 DEF HasWritten
<1>3. /\ new \in CallerState /\ new.at \in {"idle", "enter"}
      /\ new.at # "idle" => new.todo # <<>>
      /\ ~(new.at # "idle" /\ new.write /\ Loads(new.todo[1]))
  BY <1>1, BeforeParts
<1> HIDE DEF new
<1>4. caller' \in [Callers -> CallerState] /\ caller'[c] = new
        /\ \A d \in Callers : d # c => caller'[d] = caller[d]
  BY <1>1, <1>2, <1>3
<1>5. \A d \in Callers : d # c => Now(d)' = Now(d)
  BY <1>4 DEF Now
<1>6. QED
  BY <1>3, <1>4, <1>5 DEF Stepped

(* The histories keep their types.                                         *)
LEMMA NoteTyped ==
  ASSUME GpioTypes, NEW c \in Callers, caller[c].at # "idle", Note(c)
  PROVE  /\ want' \in [Registers(kinds) -> SUBSET Bits]
         /\ raced' \in [Registers(kinds) -> SUBSET Bits]
<1>1. Now(c) \in Accesses /\ Now(c).reg \in Registers(kinds)
  BY CallerParts
<1>2. Now(c).mask \in SUBSET Bits
  BY <1>1 DEF Accesses
<1>3. PICK a \in Accesses : a = Now(c)
  BY <1>1
<1>4. PICK o : o = (CHOOSE x \in Callers : x # c)
  OBVIOUS
<1>5. /\ want' = [want EXCEPT ![a.reg] = Result(@, a)]
      /\ raced' = [raced EXCEPT ![a.reg] =
                     IF HoldsCopy(o, a.reg) THEN @ \cup a.mask
                     ELSE IF a.invert THEN @ ELSE @ \ a.mask]
  BY <1>3, <1>4 DEF Note
<1>6. want[a.reg] \in SUBSET Bits /\ raced[a.reg] \in SUBSET Bits
  BY <1>1, <1>3 DEF GpioTypes
<1>7. Result(want[a.reg], a) \in SUBSET Bits
  BY <1>6, ResultTyped
<1> DEFINE new == IF HoldsCopy(o, a.reg) THEN raced[a.reg] \cup a.mask
                  ELSE IF a.invert THEN raced[a.reg] ELSE raced[a.reg] \ a.mask
<1>8. new \in SUBSET Bits
  BY <1>2, <1>3, <1>6
<1>9. want' = [want EXCEPT ![a.reg] = Result(want[a.reg], a)]
  BY <1>5
<1>10. raced' = [raced EXCEPT ![a.reg] = new]
  BY <1>5
<1> HIDE DEF new
<1>11. QED
  BY <1>7, <1>8, <1>9, <1>10 DEF GpioTypes

LEMMA StoreStep ==
  ASSUME GpioIInv, NEW c \in Callers, MmioStore(c)
  PROVE  GpioIInv'
<1>1. GpioTypes /\ GpioTurns /\ PortOwned /\ BitsAgree
  BY DEF GpioIInv
<1>2. c = Running /\ caller[c].at = "enter" /\ UNCHANGED <<port, gpioMie, kinds>>
        /\ caller[c].write /\ Note(c) /\ HasWritten(c)
        /\ reg' = [reg EXCEPT ![Now(c).reg] = Result(caller[c].copy, Now(c))]
  BY DEF MmioStore, At
<1>3. Now(c) \in Accesses /\ Now(c).reg \in Registers(kinds) /\ caller[c].copy \in SUBSET Bits
  BY <1>1, <1>2, CallerParts
<1>4. Result(caller[c].copy, Now(c)) \in SUBSET Bits
  BY <1>3, ResultTyped
<1>5. /\ caller' \in [Callers -> CallerState]
      /\ \A d \in Callers : d # c => caller'[d] = caller[d] /\ Now(d)' = Now(d)
      /\ caller'[c].at \in {"idle", "enter"}
      /\ caller'[c].at # "idle" => caller'[c].todo # <<>>
      /\ ~(caller'[c].at # "idle" /\ caller'[c].write /\ Loads(caller'[c].todo[1]))
  BY <1>1, <1>2, SteppedOn DEF Stepped
<1>6. port.cmd = "idle"
  BY <1>1, <1>2, CommandIdle
<1>7. GpioTypes'
  <2>1. reg' \in [Registers(kinds) -> SUBSET Bits]
    BY <1>1, <1>2, <1>4 DEF GpioTypes
  <2>2. want' \in [Registers(kinds) -> SUBSET Bits] /\ raced' \in [Registers(kinds) -> SUBSET Bits]
    BY <1>1, <1>2, NoteTyped
  <2>3. Registers(kinds)' = Registers(kinds) /\ OwnAccesses' = OwnAccesses
    BY <1>2 DEF OwnAccesses
  <2>4. CallerState' = CallerState
    BY <2>3 DEF CallerState
  <2>5. \A d \in Callers : caller'[d].at # "idle" => caller'[d].todo # <<>>
    <3>1. caller'[c].at # "idle" => caller'[c].todo # <<>>
      BY <1>5
    <3>2. \A d \in Callers : d # c => caller'[d] = caller[d]
      BY <1>5
    <3>3. \A d \in Callers : caller[d].at # "idle" => caller[d].todo # <<>>
      BY <1>1 DEF GpioTypes
    <3>4. QED
      BY <3>1, <3>2, <3>3
  <2>6. QED
    BY <1>1, <1>2, <1>5, <2>1, <2>2, <2>3, <2>4, <2>5 DEF GpioTypes, CallerState
<1>8. GpioTurns'
  BY <1>1, <1>2, <1>5, TurnsKept DEF InPort
<1>9. PortOwned'
  BY <1>1, <1>2, <1>5, <1>6, PortKept
<1>10. BitsAgree'
  <2>1. ~CopyInUse(c)'
    BY <1>5 DEF CopyInUse, Now
  <2>2. ASSUME NEW r \in Registers(kinds)
        PROVE  Due(r)' = IF r = Now(c).reg THEN Result(caller[c].copy, Now(c)) ELSE Due(r)
    <3>1. Due(r)' = reg'[r] /\ Due(r) = reg[r]
      BY <1>2, <1>6 DEF Due
    <3>2. QED
      BY <1>1, <1>2, <1>3, <3>1 DEF GpioTypes
  <2>3. QED
    BY <1>1, <1>2, <1>5, <2>1, <2>2, BitsWritten
<1>11. QED
  BY <1>7, <1>8, <1>9, <1>10 DEF GpioIInv

LEMMA StartWriteStep ==
  ASSUME GpioIInv, NEW c \in Callers, AnalogStartWrite(c)
  PROVE  GpioIInv'
<1> DEFINE v == Result(caller[c].copy, Now(c))
<1>1. GpioTypes /\ GpioTurns /\ PortOwned /\ BitsAgree
  BY DEF GpioIInv
<1>2. c = Running /\ caller[c].at = "start" /\ UNCHANGED <<reg, gpioMie, kinds>>
        /\ caller[c].write /\ Note(c)
  BY DEF AnalogStartWrite, At
<1>3. Now(c) \in Accesses /\ Now(c).reg \in Registers(kinds) /\ caller[c].copy \in SUBSET Bits
  BY <1>1, <1>2, CallerParts
<1>4. v \in SUBSET Bits
  BY <1>3, ResultTyped
<1>5. port' = [[port EXCEPT !.data = v] EXCEPT !.cmd = "write"]
  BY <1>1 DEF AnalogStartWrite, GpioTypes
<1>6. Moved(c, "wait", caller[c].write, caller[c].copy)
  BY <1>1, MovedGoto DEF AnalogStartWrite, CallerPlaces
<1>7. /\ caller' \in [Callers -> CallerState] /\ caller'[c].todo = caller[c].todo
      /\ \A d \in Callers : d # c => caller'[d] = caller[d] /\ Now(d)' = Now(d)
      /\ caller'[c].at = "wait" /\ Now(c)' = Now(c) /\ caller'[c].write
  BY <1>2, <1>6 DEF Moved
<1>8. port.cmd = "idle" /\ port.addr = Now(c).reg
  BY <1>1, <1>2, CommandIdle DEF PortOwned
<1>9. /\ port' \in [addr : (Banks \X Parts) \cup {<<"none", "00">>}, data : SUBSET Bits,
                    cmd : {"idle", "read", "write"}]
      /\ port'.addr = port.addr /\ port'.data = v /\ port'.cmd = "write"
  <2> HIDE DEF v
  <2>1. QED
    BY <1>1, <1>4, <1>5 DEF GpioTypes
<1> HIDE DEF v
<1>10. GpioTypes'
  <2>1. want' \in [Registers(kinds) -> SUBSET Bits] /\ raced' \in [Registers(kinds) -> SUBSET Bits]
    BY <1>1, <1>2, NoteTyped
  <2>2. Registers(kinds)' = Registers(kinds) /\ OwnAccesses' = OwnAccesses
    BY <1>2 DEF OwnAccesses
  <2>3. CallerState' = CallerState
    BY <2>2 DEF CallerState
  <2>4. \A d \in Callers : caller'[d].at # "idle" => caller'[d].todo # <<>>
    <3>1. caller[c].todo # <<>> /\ caller'[c].todo # <<>>
      BY <1>1, <1>2, <1>7 DEF GpioTypes
    <3>2. \A d \in Callers : d # c => caller'[d] = caller[d]
      BY <1>7
    <3>3. \A d \in Callers : caller[d].at # "idle" => caller[d].todo # <<>>
      BY <1>1 DEF GpioTypes
    <3>4. QED
      BY <3>1, <3>2, <3>3
  <2>5. QED
    BY <1>1, <1>2, <1>7, <1>9, <2>1, <2>2, <2>3, <2>4 DEF GpioTypes, CallerState
<1>11. GpioTurns'
  BY <1>1, <1>2, <1>7, TurnsKept DEF GpioTurns, InPort
<1>12. PortOwned'
  BY <1>1, <1>2, <1>7, <1>8, <1>9, PortKept
<1>13. BitsAgree'
  <2>1. ~CopyInUse(c)'
    BY <1>7 DEF CopyInUse
  <2>2. ASSUME NEW r \in Registers(kinds)
        PROVE  Due(r)' = IF r = Now(c).reg THEN Result(caller[c].copy, Now(c)) ELSE Due(r)
    BY <1>2, <1>8, <1>9 DEF Due, v
  <2>3. QED
    BY <1>1, <1>2, <1>7, <2>1, <2>2, BitsWritten
<1>14. QED
  BY <1>10, <1>11, <1>12, <1>13 DEF GpioIInv

LEMMA DoneStep ==
  ASSUME GpioIInv, PortDone
  PROVE  GpioIInv'
<1>1. GpioTypes /\ GpioTurns /\ PortOwned /\ BitsAgree
  BY DEF GpioIInv
<1>2. port.cmd # "idle" /\ UNCHANGED <<gpioMie, caller, kinds, want, raced>>
  BY DEF PortDone
<1>c. PICK c \in Callers : c = Running
  BY DEF Running, Callers
<1>3. c \in Callers /\ caller[c].at = "wait"
  BY <1>1, <1>2, <1>c DEF PortOwned
<1>4. Now(c).reg \in Registers(kinds) /\ port.addr = Now(c).reg /\ (port.cmd = "write" <=> caller[c].write)
  BY <1>1, <1>2, <1>3, CallerParts DEF PortOwned
<1>5. Running' = Running /\ \A d \in Callers : Now(d)' = Now(d)
  BY <1>2 DEF Running, Now
<1>6. /\ port'.cmd = "idle" /\ port'.addr = port.addr
      /\ port.cmd = "read" => port'.data = reg[port.addr] /\ reg' = reg
      /\ port.cmd # "read" => port'.data = port.data /\ reg' = [reg EXCEPT ![port.addr] = port.data]
  BY <1>1 DEF PortDone, GpioTypes
<1>7. reg[port.addr] \in SUBSET Bits /\ port.data \in SUBSET Bits /\ port.cmd \in {"idle", "read", "write"}
  BY <1>1, <1>4 DEF GpioTypes
<1>8. port' \in [addr : (Banks \X Parts) \cup {<<"none", "00">>}, data : SUBSET Bits,
                 cmd : {"idle", "read", "write"}]
  BY <1>1, <1>7 DEF PortDone, GpioTypes
<1>9. reg' \in [Registers(kinds) -> SUBSET Bits]
  BY <1>1, <1>6, <1>7 DEF GpioTypes
<1>10. GpioTypes'
  <2>1. Registers(kinds)' = Registers(kinds) /\ OwnAccesses' = OwnAccesses
    BY <1>2 DEF OwnAccesses
  <2>2. QED
    BY <1>1, <1>2, <1>8, <1>9, <2>1 DEF GpioTypes
<1>11. GpioTurns'
  BY <1>1, <1>2 DEF GpioTurns
<1>12. PortOwned'
  <2>1. \A d \in Callers : d # c => caller[d].at \in {"idle", "enter"}
    BY <1>1, <1>3, <1>c, RunsAlone
  <2>2. \A d \in Callers : caller[d].at \in {"start", "wait", "leave"} => d = c
    BY <2>1
  <2>3. ~caller[c].write => port'.data = reg'[Now(c).reg]
    BY <1>2, <1>4, <1>6, <1>7
  <2>4. \A d \in Callers : caller'[d].at \in {"start", "wait"} => port'.addr = Now(d)'.reg
    BY <1>2, <1>4, <1>5, <1>6, <2>2
  <2>5. \A d \in Callers : caller'[d].at = "wait" /\ ~caller'[d].write /\ port'.cmd = "idle" =>
          port'.data = reg'[Now(d)'.reg]
    BY <1>2, <1>5, <2>2, <2>3
  <2>6. \A d \in Callers : caller'[d].at # "leave"
    BY <1>2, <1>3, <2>2
  <2>7. QED
    BY <1>6, <2>4, <2>5, <2>6 DEF PortOwned
<1>13. BitsAgree'
  <2>1. ASSUME NEW r \in Registers(kinds)
        PROVE  Due(r)' = Due(r)
    <3>1. CASE port.cmd = "read"
      BY <1>6, <3>1 DEF Due
    <3>2. CASE port.cmd = "write" /\ r = port.addr
      BY <1>1, <1>6, <3>2 DEF Due, GpioTypes
    <3>3. CASE port.cmd = "write" /\ r # port.addr
      <4>1. reg'[r] = reg[r]
        BY <1>1, <1>6, <3>3 DEF GpioTypes
      <4>2. QED
        BY <1>6, <3>3, <4>1 DEF Due
    <3>4. QED
      BY <1>2, <1>7, <3>1, <3>2, <3>3
  <2>2. \A d \in Callers : CopyInUse(d)' => CopyInUse(d) /\ d # c
    BY <1>2, <1>3, <1>5 DEF CopyInUse
  <2>3. CopyInUse(c)' => FALSE
    BY <1>2, <1>3 DEF CopyInUse
  <2>4. QED
    BY <1>1, <1>2, <1>3, <1>5, <2>1, <2>3, BitsKept
<1>14. QED
  BY <1>10, <1>11, <1>12, <1>13 DEF GpioIInv

LEMMA LeaveStep ==
  ASSUME GpioIInv, NEW c \in Callers, AnalogLeave(c)
  PROVE  GpioIInv'
<1>1. GpioTypes /\ GpioTurns /\ PortOwned /\ BitsAgree
  BY DEF GpioIInv
<1>2. c = Running /\ caller[c].at = "leave" /\ UNCHANGED <<reg, port, kinds, want, raced>>
  BY DEF AnalogLeave, At
<1>3. Now(c).reg \in Registers(kinds) /\ caller[c].copy \in SUBSET Bits /\ caller[c].r \in BOOLEAN
  BY <1>1, <1>2, CallerParts
<1>4. gpioMie' \in BOOLEAN
  BY <1>1 DEF AnalogLeave, GpioTypes
<1>5. port.cmd = "idle"
  BY <1>1, <1>2, CommandIdle
<1>6. Registers(kinds)' = Registers(kinds) /\ OwnAccesses' = OwnAccesses
  BY <1>2 DEF OwnAccesses
<1>7. CallerState' = CallerState
  BY <1>6 DEF CallerState
<1>8. \A r \in Registers(kinds) : Due(r)' = Due(r)
  BY <1>2 DEF Due
<1>9. CASE caller[c].write
  <2>1. /\ caller' \in [Callers -> CallerState]
        /\ \A d \in Callers : d # c => caller'[d] = caller[d] /\ Now(d)' = Now(d)
        /\ caller'[c].at \in {"idle", "enter"}
        /\ caller'[c].at # "idle" => caller'[c].todo # <<>>
        /\ ~(caller'[c].at # "idle" /\ caller'[c].write /\ Loads(caller'[c].todo[1]))
    BY <1>1, <1>2, <1>9, SteppedOn DEF Stepped, AnalogLeave
  <2>2. GpioTypes'
    <3>1. \A d \in Callers : caller'[d].at # "idle" => caller'[d].todo # <<>>
      <4>1. caller'[c].at # "idle" => caller'[c].todo # <<>>
        BY <2>1
      <4>2. \A d \in Callers : d # c => caller'[d] = caller[d]
        BY <2>1
      <4>3. \A d \in Callers : caller[d].at # "idle" => caller[d].todo # <<>>
        BY <1>1 DEF GpioTypes
      <4>4. QED
        BY <4>1, <4>2, <4>3
    <3>2. QED
      BY <1>1, <1>2, <1>4, <1>6, <1>7, <2>1, <3>1 DEF GpioTypes, CallerState
  <2>3. GpioTurns'
    BY <1>1, <1>2, <2>1, TurnsKept DEF InPort
  <2>4. PortOwned'
    BY <1>1, <1>2, <1>5, <2>1, PortKept
  <2>5. ~CopyInUse(c)'
    BY <2>1 DEF CopyInUse, Now
  <2>6. BitsAgree'
    BY <1>1, <1>2, <1>8, <2>1, <2>5, BitsKept
  <2>7. QED
    BY <2>2, <2>3, <2>4, <2>6 DEF GpioIInv
<1>10. CASE ~caller[c].write
  <2>1. Moved(c, "enter", TRUE, caller[c].copy)
    BY <1>1, <1>3, <1>10, MovedRead DEF AnalogLeave
  <2>2. /\ caller' \in [Callers -> CallerState] /\ caller'[c].todo = caller[c].todo
        /\ \A d \in Callers : d # c => caller'[d] = caller[d] /\ Now(d)' = Now(d)
        /\ caller'[c].at = "enter" /\ Now(c)' = Now(c) /\ caller'[c].copy = caller[c].copy
    BY <2>1 DEF Moved
  <2>3. caller[c].copy = Due(Now(c).reg)
    BY <1>1, <1>2, <1>5, <1>10 DEF PortOwned, Due
  <2>4. GpioTypes'
    BY <1>1, <1>2, <1>4, <2>2, TypesKept DEF GpioTypes
  <2>5. GpioTurns'
    BY <1>1, <1>2, <2>2, TurnsKept DEF InPort
  <2>6. PortOwned'
    BY <1>1, <1>2, <1>5, <2>2, PortKept
  <2>7. BitsAgree'
    BY <1>1, <1>2, <1>3, <1>8, <2>2, <2>3, BitsKept
  <2>8. QED
    BY <2>4, <2>5, <2>6, <2>7 DEF GpioIInv
<1>11. QED
  BY <1>9, <1>10

LEMMA GpioStutter == GpioIInv /\ UNCHANGED gpioVars => GpioIInv'
<1> SUFFICES ASSUME GpioIInv, UNCHANGED gpioVars PROVE GpioIInv'
  OBVIOUS
<1>1. UNCHANGED <<reg, port, gpioMie, caller, kinds, want, raced>>
  BY DEF gpioVars
<1>2. Registers(kinds)' = Registers(kinds) /\ OwnAccesses' = OwnAccesses /\ Running' = Running
        /\ (\A d \in Callers : Now(d)' = Now(d)) /\ \A r : Due(r)' = Due(r)
  BY <1>1 DEF OwnAccesses, Running, Now, Due
<1>3. GpioTypes'
  BY <1>1, <1>2 DEF GpioIInv, GpioTypes
<1>4. GpioTurns'
  BY <1>1 DEF GpioIInv, GpioTurns
<1>5. PortOwned'
  BY <1>1, <1>2 DEF GpioIInv, PortOwned
<1>6. BitsAgree'
  <2>1. \A d \in Callers : CopyInUse(d)' => CopyInUse(d)
    BY <1>1, <1>2 DEF CopyInUse
  <2>2. \A d \in Callers : caller[d].at # "idle" => Now(d).reg \in Registers(kinds)
    BY CallerParts DEF GpioIInv
  <2>3. "thread" \in Callers
    BY DEF Callers
  <2>4. CopyInUse("thread")' => Now("thread").reg \in Registers(kinds)
    BY <2>1, <2>2, <2>3 DEF CopyInUse
  <2>5. CopyInUse("thread")' => CopyInUse("thread")
    BY <2>1, <2>3
  <2>6. QED
    BY <1>1, <1>2, <2>3, <2>4, <2>5, BitsKept DEF GpioIInv
<1>7. QED
  BY <1>3, <1>4, <1>5, <1>6 DEF GpioIInv

LEMMA GpioStep == GpioIInv /\ [GpioNext]_gpioVars => GpioIInv'
BY CallsStep, DoneStep, LoadStep, StoreStep, EnterStep, AddressStep, StartReadStep, StartWriteStep,
   WaitStep, LeaveStep, GpioStutter DEF GpioNext

LEMMA GpioImplied == GpioIInv => PinsAsSet /\ GpioTypeOK
<1> SUFFICES ASSUME GpioIInv PROVE PinsAsSet /\ GpioTypeOK
  OBVIOUS
<1>1. GpioTypes /\ GpioTurns /\ PortOwned /\ BitsAgree
  BY DEF GpioIInv
<1>2. DOMAIN reg = Registers(kinds)
  BY <1>1 DEF GpioTypes
<1>3. ASSUME port.cmd = "idle", NEW r \in Registers(kinds)
      PROVE  reg[r] \ raced[r] = want[r] \ raced[r]
  <2>1. AgreesBut(reg[r], want[r], raced[r])
    BY <1>1, <1>3 DEF BitsAgree, Due
  <2>2. reg[r] \in SUBSET Bits /\ want[r] \in SUBSET Bits
    BY <1>1 DEF GpioTypes
  <2>3. QED
    BY <2>1, <2>2 DEF AgreesBut
<1>4. PinsAsSet
  BY <1>2, <1>3 DEF PinsAsSet
<1>5. port.cmd # "idle" => port.addr \in Registers(kinds)
  <2>1. SUFFICES ASSUME port.cmd # "idle" PROVE port.addr \in Registers(kinds)
    OBVIOUS
  <2>2. Running \in Callers /\ caller[Running].at = "wait"
    BY <1>1, <2>1 DEF PortOwned, Running, Callers
  <2>3. QED
    BY <1>1, <2>2, CallerParts DEF PortOwned
<1>6. GpioTypeOK
  BY <1>1, <1>2, <1>5 DEF GpioTypeOK, GpioTypes
<1>7. QED
  BY <1>4, <1>6

-----------------------------------------------------------------------------
(* The clocks.                                                             *)
LEMMA DivDiv ==
  ASSUME NEW a \in Nat, NEW b \in Nat \ {0}, NEW c \in Nat \ {0}
  PROVE  (a \div b) \div c = a \div (b * c)
<1> DEFINE q == a \div b
           r == a % b
           t == q \div c
           s == q % c
<1>1. a = b * q + r /\ r \in 0 .. b - 1 /\ q \in Int
  BY DivMod
<1>2. q = c * t + s /\ s \in 0 .. c - 1 /\ t \in Int
  BY <1>1, DivMod
<1>3. b * c \in Nat \ {0} /\ b * s \in Int /\ b * s <= b * (c - 1)
  <2> HIDE DEF s, t, q, r
  <2>1. QED
    BY <1>2
<1>4. a = (b * c) * t + (b * s + r) /\ b * s + r \in 0 .. (b * c) - 1
  <2> HIDE DEF s, t, q, r
  <2>1. b * q = (b * c) * t + b * s
    BY <1>1, <1>2, Distribute
  <2>2. b * s >= 0 /\ b * (c - 1) = b * c - b
    BY <1>2
  <2>3. a = (b * c) * t + (b * s + r)
    <3> DEFINE x == b * s  y == (b * c) * t  z == b * q
    <3>1. x \in Int /\ y \in Int /\ z \in Int
      BY <1>1, <1>2, <1>3
    <3>2. z = y + x /\ a = z + r
      BY <1>1, <2>1
    <3> HIDE DEF x, y, z
    <3>3. a = y + (x + r)
      BY <1>1, <3>1, <3>2
    <3>4. QED
      BY <3>3 DEF x, y
  <2>4. b * s + r \in 0 .. (b * c) - 1
    <3> DEFINE x == b * s  m == b * c
    <3>1. x \in Int /\ m \in Int /\ x >= 0 /\ x <= m - b
      BY <1>3, <2>2
    <3> HIDE DEF x, m
    <3>2. x + r \in 0 .. m - 1
      BY <1>1, <3>1
    <3>3. QED
      BY <3>2 DEF x, m
  <2>5. QED
    BY <2>3, <2>4
<1>5. t = a \div (b * c)
  <2> DEFINE m == b * c  u == b * s + r
  <2>1. m \in Nat \ {0} /\ u \in 0 .. m - 1 /\ t \in Int /\ a = m * t + u
    BY <1>1, <1>2, <1>3, <1>4
  <2> HIDE DEF m, u, t
  <2>2. (m * t + u) \div m = t
    BY <2>1
  <2>3. QED
    BY <2>1, <2>2 DEF m
<1>6. QED
  BY <1>5

-----------------------------------------------------------------------------
ClockPlaces ==
  {"idle", "pll_base", "pll_double", "lock", "mspi", "mspi_source", "hclk", "pclk", "cclk", "source"}

ClockRegisters ==
  [base : 16 .. 19, double : 0 .. 2, hdiv : {1, 2}, pdiv : {1, 2, 4}, src : Sources,
   cdiv : 2 .. 15, mspiPll : BOOLEAN, mspi : 2 .. 15]

ClockRecords == [pll_clk : Int, cclk : Int, hclk : Int, pclk : Int, mspi_clk : Int]

NewClocks == Target(clkBefore, clkArg)

(* Before a call and after it the registers are within the limits.         *)
ClocksRest ==
  /\ clkAt \in ClockPlaces
  /\ clkBefore \in ClockRegisters
  /\ WithinLimits(clkBefore)
  /\ clkAt = "idle" => clk = clkBefore
  /\ clkAt # "idle" => clkArg \in Args(clkBefore)

(* During a call each register is the one before it until its own step.    *)
ClocksMove ==
  clkAt # "idle" =>
    clk = [base |-> IF clkAt = "pll_base" THEN clkBefore.base ELSE NewClocks.base,
           double |-> IF clkAt \in {"pll_base", "pll_double"} THEN clkBefore.double ELSE NewClocks.double,
           hdiv |-> IF clkAt \in {"pclk", "cclk", "source"} THEN NewClocks.hdiv ELSE clkBefore.hdiv,
           pdiv |-> IF clkAt \in {"cclk", "source"} THEN NewClocks.pdiv ELSE clkBefore.pdiv,
           src |-> clkBefore.src,
           cdiv |-> IF clkAt = "source" THEN NewClocks.cdiv ELSE clkBefore.cdiv,
           mspiPll |-> IF clkAt \in {"hclk", "pclk", "cclk", "source"} THEN NewClocks.mspiPll
                       ELSE clkBefore.mspiPll,
           mspi |-> IF clkAt \in {"mspi_source", "hclk", "pclk", "cclk", "source"} THEN NewClocks.mspi
                    ELSE clkBefore.mspi]

(* Steps that only some calls have.                                        *)
ClocksBranch ==
  /\ clkAt = "mspi_source" => clkArg.mspi_clk_div # 1
  /\ clkAt = "cclk" => clkArg.src = "PAD_PLL_DIV"
  /\ clkAt = "source" => clkBefore.cdiv = NewClocks.cdiv \/ clkArg.src = "PAD_PLL_DIV"

(* The record of the PLL and of the flash's clock follow in the call.      *)
ClocksNoted ==
  /\ sys_clk \in ClockRecords
  /\ clkAt \in {"pll_base", "pll_double"} => sys_clk.pll_clk = PllMhz(clkBefore)
  /\ clkAt \notin {"idle", "pll_base", "pll_double"} => sys_clk.pll_clk = PllMhz(NewClocks)
  /\ clkAt \in {"hclk", "pclk", "cclk", "source"} /\ NewClocks.mspiPll =>
       sys_clk.mspi_clk = PllMhz(NewClocks) \div NewClocks.mspi

ClockIInv == ClocksRest /\ ClocksMove /\ ClocksBranch /\ ClocksNoted /\ ClockRecorded

(* Twice or four times the base frequency.                                 *)
LEMMA PllFrequency ==
  ASSUME NEW c, c.base \in 16 .. 19, c.double \in 0 .. 2
  PROVE  /\ PllMhz(c) \in Nat
         /\ PllMhz(c) = (48 + (6 * (c.base - 16))) *
                          (IF c.double = 0 THEN 1 ELSE IF c.double = 1 THEN 2 ELSE 4)
<1>1. 2^0 = 1 /\ 2^1 = 2 /\ 2^2 = 4
  OBVIOUS
<1>2. c.double \in {0, 1, 2}
  OBVIOUS
<1>3. 2^(c.double) = IF c.double = 0 THEN 1 ELSE IF c.double = 1 THEN 2 ELSE 4
  BY <1>1, <1>2
<1>4. QED
  BY <1>3 DEF PllMhz

(* The arguments of a call and what they make of the registers.            *)
LEMMA TargetKnown ==
  ASSUME NEW c \in ClockRegisters, NEW a \in Args(c)
  PROVE  /\ Target(c, a) \in ClockRegisters /\ WithinLimits(Target(c, a))
         /\ a.pll \in sys_pll_clk_e \ {PLL_CLK_60M}
         /\ a.src \in Sources /\ a.cclk_div \in 2 .. 15 /\ a.hclk_div \in {1, 2}
         /\ a.pclk_div \in {1, 2, 4} /\ a.mspi_clk_div \in 1 .. 15
<1>1. /\ a.pll \in Plls /\ a.src \in Sources /\ a.cclk_div \in CclkDivs
      /\ a.hclk_div \in {1, 2} /\ a.pclk_div \in {1, 2, 4} /\ a.mspi_clk_div \in MspiDivs
      /\ WithinLimits(Target(c, a))
  BY DEF Args, sys_cclk_div_to_hclk_e, sys_hclk_div_to_pclk_e
<1>2. /\ a.pll \in sys_pll_clk_e \ {PLL_CLK_60M} /\ a.cclk_div \in 2 .. 15
      /\ a.mspi_clk_div \in 1 .. 15
  BY <1>1, ClockAssumption DEF ClockAssumption, sys_pll_div_to_cclk_e, sys_pll_div_to_mspi_clk_e
<1>3. a.pll.base \in 16 .. 19 /\ a.pll.double \in 0 .. 2
  BY <1>2 DEF sys_pll_clk_e, Enumerator, PLL_CLK_48M, PLL_CLK_54M, PLL_CLK_60M, PLL_CLK_66M,
     PLL_CLK_96M, PLL_CLK_108M, PLL_CLK_120M, PLL_CLK_132M, PLL_CLK_192M, PLL_CLK_216M,
     PLL_CLK_240M, PLL_CLK_264M
<1>4. Target(c, a) \in ClockRegisters
  BY <1>1, <1>2, <1>3 DEF Target, ClockRegisters
<1>5. QED
  BY <1>1, <1>2, <1>4

(* The frequency above the two fields is the one they make.                *)
LEMMA EnumeratorTrue ==
  ASSUME NEW c \in ClockRegisters, NEW a \in Args(c)
  PROVE  PllMhz(Target(c, a)) = a.pll.mhz
<1>1. Target(c, a) \in ClockRegisters /\ a.pll \in sys_pll_clk_e \ {PLL_CLK_60M}
  BY TargetKnown
<1>2. Target(c, a).base = a.pll.base /\ Target(c, a).double = a.pll.double
  BY DEF Target
<1>3. a.pll.base \in 16 .. 19 /\ a.pll.double \in 0 .. 2
  BY <1>1, <1>2 DEF ClockRegisters
<1>4. PllMhz(Target(c, a)) = (48 + (6 * (a.pll.base - 16))) *
        (IF a.pll.double = 0 THEN 1 ELSE IF a.pll.double = 1 THEN 2 ELSE 4)
  BY <1>2, <1>3, PllFrequency
<1>5. QED
  BY <1>1, <1>4 DEF sys_pll_clk_e, Enumerator, PLL_CLK_48M, PLL_CLK_54M, PLL_CLK_60M,
     PLL_CLK_66M, PLL_CLK_96M, PLL_CLK_108M, PLL_CLK_120M, PLL_CLK_132M, PLL_CLK_192M,
     PLL_CLK_216M, PLL_CLK_240M, PLL_CLK_264M

LEMMA ClockStarts ==
  ASSUME ClockInit
  PROVE  ClockIInv
<1>1. /\ clk.base = 16 /\ clk.double = 2 /\ clk.hdiv = 1 /\ clk.pdiv = 1 /\ clk.src = "RC24M"
      /\ clk.cdiv = 2 /\ clk.mspiPll = FALSE /\ clk.mspi = 2 /\ clk \in ClockRegisters
      /\ clkAt = "idle" /\ clkBefore = clk
  BY DEF ClockInit, ClockRegisters, Sources
<1>2. PllMhz(clk) = 192
  BY <1>1, PllFrequency
<1>3. CclkIn(clk) = 24 /\ CclkDiv(clk) = 1 /\ HclkDiv(clk) = 1 /\ PclkDiv(clk) = 1
  BY <1>1 DEF CclkIn, CclkDiv, HclkDiv, PclkDiv, FromPll
<1>4. WithinLimits(clk)
  BY <1>1, <1>3 DEF WithinLimits
<1>5. /\ sys_clk \in ClockRecords /\ sys_clk.pll_clk = 192 /\ sys_clk.cclk = 24
      /\ sys_clk.hclk = 24 /\ sys_clk.pclk = 24
  BY DEF ClockInit, ClockRecords
<1>6. ClockRecorded
  BY <1>1, <1>2, <1>3, <1>5 DEF ClockRecorded
<1>7. QED
  BY <1>1, <1>4, <1>5, <1>6 DEF ClockIInv, ClocksRest, ClocksMove, ClocksBranch, ClocksNoted, ClockPlaces

(* What the steps of a call have in common.                                *)
LEMMA DuringCall ==
  ASSUME ClockIInv, clkAt # "idle"
  PROVE  /\ clkArg \in Args(clkBefore) /\ NewClocks \in ClockRegisters /\ WithinLimits(NewClocks)
         /\ clk \in ClockRegisters /\ clkBefore \in ClockRegisters
         /\ NewClocks.base = clkArg.pll.base /\ NewClocks.double = clkArg.pll.double
         /\ NewClocks.hdiv = clkArg.hclk_div /\ NewClocks.pdiv = clkArg.pclk_div /\ NewClocks.src = clkArg.src
         /\ NewClocks.cdiv = (IF clkArg.src = "PAD_PLL_DIV" THEN clkArg.cclk_div ELSE clkBefore.cdiv)
         /\ NewClocks.mspiPll = (clkArg.mspi_clk_div # 1)
         /\ NewClocks.mspi = (IF clkArg.mspi_clk_div # 1 THEN clkArg.mspi_clk_div ELSE clkBefore.mspi)
<1>1. clkArg \in Args(clkBefore) /\ clkBefore \in ClockRegisters
  BY DEF ClockIInv, ClocksRest
<1>2. NewClocks \in ClockRegisters /\ WithinLimits(NewClocks)
  BY <1>1, TargetKnown DEF NewClocks
<1>3. clk \in ClockRegisters
  BY <1>1, <1>2 DEF ClockIInv, ClocksMove, ClockRegisters
<1>4. QED
  BY <1>1, <1>2, <1>3 DEF NewClocks, Target

(* A step of a call that leaves the arguments, the registers before and    *)
(* the record of rest alone keeps all but what ClocksMove and ClocksNoted  *)
(* say of the new place.                                                   *)
LEMMA StepKeeps ==
  ASSUME ClockIInv, clkAt # "idle", clkAt' \in ClockPlaces \ {"idle"},
         UNCHANGED <<clkArg, clkBefore>>
  PROVE  /\ NewClocks' = NewClocks /\ ClocksRest' /\ ClockRecorded'
<1>1. NewClocks' = NewClocks
  BY DEF NewClocks
<1>2. QED
  BY <1>1 DEF ClockIInv, ClocksRest, ClockRecorded

LEMMA ClockCallSound ==
  ASSUME ClockIInv, ClockCall
  PROVE  ClockIInv'
<1>1. /\ clkAt = "idle" /\ clk' = clk /\ clkBefore' = clk /\ clkBefore = clk /\ sys_clk' = sys_clk
      /\ clkAt' = "pll_base" /\ clkArg' \in Args(clk) /\ clk \in ClockRegisters /\ WithinLimits(clk)
  BY DEF ClockCall, ClockIInv, ClocksRest
<1>2. ClocksRest'
  BY <1>1 DEF ClocksRest, ClockPlaces
<1>3. ClocksMove' /\ ClocksBranch'
  BY <1>1 DEF ClocksMove, ClocksBranch, ClockRegisters
<1>4. ClocksNoted' /\ ClockRecorded'
  BY <1>1 DEF ClockIInv, ClocksNoted, ClockRecorded
<1>5. QED
  BY <1>2, <1>3, <1>4 DEF ClockIInv

LEMMA PllStepsSound ==
  ASSUME ClockIInv, PllBase \/ PllDouble \/ AwaitLock
  PROVE  ClockIInv'
<1>1. clkAt \in {"pll_base", "pll_double", "lock"} /\ clkAt' \in ClockPlaces \ {"idle"}
      /\ UNCHANGED <<clkArg, clkBefore>>
  BY DEF PllBase, PllDouble, AwaitLock, Step, ClockPlaces
<1>2. NewClocks' = NewClocks /\ ClocksRest' /\ ClockRecorded'
  BY <1>1, StepKeeps
<1>3. ClocksMove'
  BY <1>1, <1>2, DuringCall DEF PllBase, PllDouble, AwaitLock, Step, ClockIInv, ClocksMove, ClockRegisters
<1>4. ClocksBranch'
  BY DEF PllBase, PllDouble, AwaitLock, Step, ClocksBranch
<1>5. ClocksNoted'
  <2>1. CASE PllBase \/ AwaitLock
    BY <1>2, <2>1 DEF PllBase, AwaitLock, Step, ClockIInv, ClocksNoted
  <2>2. CASE PllDouble
    <3>1. PllMhz(NewClocks) = clkArg.pll.mhz /\ PllMhz(NewClocks) \in Int
      BY <1>1, DuringCall, EnumeratorTrue, PllFrequency DEF NewClocks, ClockRegisters
    <3>2. QED
      BY <1>2, <2>2, <3>1 DEF PllDouble, Step, ClockIInv, ClocksNoted, ClockRecords
  <2>3. QED
    BY <2>1, <2>2
<1>6. QED
  BY <1>2, <1>3, <1>4, <1>5 DEF ClockIInv

LEMMA MspiStepsSound ==
  ASSUME ClockIInv, MspiClock \/ MspiSource
  PROVE  ClockIInv'
<1>1. clkAt \in {"mspi", "mspi_source"} /\ clkAt' \in ClockPlaces \ {"idle"}
      /\ UNCHANGED <<clkArg, clkBefore>>
  BY DEF MspiClock, MspiSource, Step, ClockPlaces
<1>2. NewClocks' = NewClocks /\ ClocksRest' /\ ClockRecorded'
  BY <1>1, StepKeeps
<1>3. ClocksMove'
  <2>1. CASE MspiClock /\ clkArg.mspi_clk_div = 1
    <3>1. clkAt = "mspi" /\ clkAt' = "hclk" /\ clk' = [clk EXCEPT !.mspiPll = FALSE]
      BY <2>1 DEF MspiClock, Step
    <3>2. NewClocks.mspiPll = FALSE /\ NewClocks.mspi = clkBefore.mspi /\ NewClocks.mspiPll \in BOOLEAN
      BY <1>1, <2>1, DuringCall DEF ClockRegisters
    <3>3. clk' = [clk EXCEPT !.mspiPll = NewClocks.mspiPll]
      BY <3>1, <3>2
    <3>4. clkAt = "mspi" /\ clkAt' = "hclk" /\ NewClocks.mspi = clkBefore.mspi
      BY <3>1, <3>2
    <3>5. clk = [base |-> NewClocks.base, double |-> NewClocks.double, hdiv |-> clkBefore.hdiv,
                 pdiv |-> clkBefore.pdiv, src |-> clkBefore.src, cdiv |-> clkBefore.cdiv,
                 mspiPll |-> clkBefore.mspiPll, mspi |-> NewClocks.mspi]
      BY <3>4 DEF ClockIInv, ClocksMove
    <3>6. QED
      BY <1>1, <1>2, <3>3, <3>4, <3>5 DEF ClocksMove
  <2>2. CASE MspiClock /\ clkArg.mspi_clk_div # 1
    <3>1. clkAt = "mspi" /\ clkAt' = "mspi_source"
          /\ clk' = [clk EXCEPT !.mspi = clkArg.mspi_clk_div]
      BY <2>2 DEF MspiClock, Step
    <3>2. NewClocks.mspi = clkArg.mspi_clk_div
      BY <1>1, <2>2, DuringCall
    <3>3. QED
      BY <1>1, <1>2, <3>1, <3>2 DEF ClockIInv, ClocksMove
  <2>4. CASE MspiSource
    <3>1. clkAt = "mspi_source" /\ clkAt' = "hclk" /\ clk' = [clk EXCEPT !.mspiPll = TRUE]
      BY <2>4 DEF MspiSource, Step
    <3>2. NewClocks.mspiPll = TRUE /\ NewClocks.mspiPll \in BOOLEAN
      BY <1>1, <3>1, DuringCall DEF ClockIInv, ClocksBranch, ClockRegisters
    <3>3. clk' = [clk EXCEPT !.mspiPll = NewClocks.mspiPll]
      BY <3>1, <3>2
    <3>4. clkAt = "mspi_source" /\ clkAt' = "hclk"
      BY <3>1
    <3>5. clk = [base |-> NewClocks.base, double |-> NewClocks.double, hdiv |-> clkBefore.hdiv,
                 pdiv |-> clkBefore.pdiv, src |-> clkBefore.src, cdiv |-> clkBefore.cdiv,
                 mspiPll |-> clkBefore.mspiPll, mspi |-> NewClocks.mspi]
      BY <3>4 DEF ClockIInv, ClocksMove
    <3>6. QED
      BY <1>1, <1>2, <3>3, <3>4, <3>5 DEF ClocksMove
  <2>5. QED
    BY <2>1, <2>2, <2>4
<1>4. ClocksBranch'
  BY DEF MspiClock, MspiSource, Step, ClocksBranch
<1>5. ClocksNoted'
  <2>1. CASE MspiClock
    BY <1>1, <1>2, <2>1, DuringCall DEF MspiClock, Step, ClockIInv, ClocksNoted
  <2>2. CASE MspiSource
    <3>1. clkArg.mspi_clk_div # 1 /\ NewClocks.mspi = clkArg.mspi_clk_div /\ NewClocks.mspi \in 2 .. 15
      BY <1>1, <2>2, DuringCall DEF MspiSource, Step, ClockIInv, ClocksBranch, ClockRegisters
    <3>2. PllMhz(NewClocks) \in Nat /\ PllMhz(NewClocks) \div NewClocks.mspi \in Int
      BY <1>1, <3>1, DuringCall, PllFrequency DEF ClockRegisters
    <3>3. sys_clk.pll_clk = PllMhz(NewClocks)
      BY <1>1, <2>2 DEF MspiSource, Step, ClockIInv, ClocksNoted
    <3>4. QED
      BY <1>2, <2>2, <3>1, <3>2, <3>3 DEF MspiSource, Step, ClockIInv, ClocksNoted, ClockRecords
  <2>3. QED
    BY <2>1, <2>2
<1>6. QED
  BY <1>2, <1>3, <1>4, <1>5 DEF ClockIInv

LEMMA DividerStepsSound ==
  ASSUME ClockIInv, HclkDivider \/ PclkDivider \/ CclkDivider
  PROVE  ClockIInv'
<1>1. clkAt \in {"hclk", "pclk", "cclk"} /\ clkAt' \in ClockPlaces \ {"idle"}
      /\ clkAt' \in {"pclk", "cclk", "source"}
      /\ UNCHANGED <<clkArg, clkBefore, sys_clk>>
  BY DEF HclkDivider, PclkDivider, CclkDivider, Step, ClockPlaces
<1>2. NewClocks' = NewClocks /\ ClocksRest' /\ ClockRecorded'
  BY <1>1, StepKeeps
<1>3. ClocksMove'
  <2>1. CASE HclkDivider
    BY <1>1, <1>2, <2>1, DuringCall DEF HclkDivider, Step, ClockIInv, ClocksMove, ClockRegisters
  <2>2. CASE PclkDivider
    BY <1>1, <1>2, <2>2, DuringCall DEF PclkDivider, Step, ClockIInv, ClocksMove, ClockRegisters
  <2>3. CASE CclkDivider
    BY <1>1, <1>2, <2>3, DuringCall DEF CclkDivider, Step, ClockIInv, ClocksMove, ClocksBranch, ClockRegisters
  <2>4. QED
    BY <2>1, <2>2, <2>3
<1>4. ClocksBranch'
  BY <1>1, <1>2, DuringCall DEF HclkDivider, PclkDivider, CclkDivider, Step, ClockIInv, ClocksBranch
<1>5. ClocksNoted'
  BY <1>1, <1>2 DEF ClockIInv, ClocksNoted
<1>6. QED
  BY <1>2, <1>3, <1>4, <1>5 DEF ClockIInv

LEMMA CclkSourceSound ==
  ASSUME ClockIInv, CclkSource
  PROVE  ClockIInv'
<1> DEFINE a == clkArg
           pll == PllMhz(NewClocks)
           cclk == CASE a.src = "PAD_PLL_DIV" -> sys_clk.pll_clk \div a.cclk_div
                   []   a.src = "PAD_PLL"     -> sys_clk.pll_clk
                   []   OTHER -> 24
<1>1. /\ clkAt = "source" /\ clkAt' = "idle" /\ clkBefore' = clk'
      /\ clk' = [clk EXCEPT !.src = a.src]
  BY DEF CclkSource
<1>2. /\ NewClocks \in ClockRegisters /\ WithinLimits(NewClocks)
      /\ NewClocks.hdiv = a.hclk_div /\ NewClocks.pdiv = a.pclk_div /\ NewClocks.src = a.src
      /\ NewClocks.mspiPll = (a.mspi_clk_div # 1)
      /\ NewClocks.cdiv = (IF a.src = "PAD_PLL_DIV" THEN a.cclk_div ELSE clkBefore.cdiv)
  BY <1>1, DuringCall
<1>3. clk' = NewClocks
  <2>1. NewClocks = [base |-> NewClocks.base, double |-> NewClocks.double, hdiv |-> NewClocks.hdiv, pdiv |-> NewClocks.pdiv,
               src |-> NewClocks.src, cdiv |-> NewClocks.cdiv, mspiPll |-> NewClocks.mspiPll, mspi |-> NewClocks.mspi]
    BY <1>2 DEF ClockRegisters
  <2>2. QED
    BY <1>1, <1>2, <2>1 DEF ClockIInv, ClocksMove
<1>4. ClocksRest' /\ ClocksMove' /\ ClocksBranch'
  BY <1>1, <1>2, <1>3 DEF ClocksRest, ClocksMove, ClocksBranch, ClockPlaces
<1>5. /\ pll \in Nat /\ sys_clk.pll_clk = pll /\ sys_clk \in ClockRecords
      /\ NewClocks.mspiPll => sys_clk.mspi_clk = pll \div NewClocks.mspi
  BY <1>1, <1>2, PllFrequency DEF ClockIInv, ClocksNoted, ClockRegisters
<1>6. CclkIn(NewClocks) \in Nat /\ CclkDiv(NewClocks) \in 1 .. 15 /\ cclk = CclkIn(NewClocks) \div CclkDiv(NewClocks)
      /\ NewClocks.hdiv \in {1, 2} /\ NewClocks.pdiv \in {1, 2, 4}
  <2>1. NewClocks.src \in Sources /\ NewClocks.cdiv \in 2 .. 15 /\ NewClocks.hdiv \in {1, 2} /\ NewClocks.pdiv \in {1, 2, 4}
    BY <1>2 DEF ClockRegisters
  <2>2. CASE NewClocks.src = "PAD_PLL_DIV"
    BY <1>2, <1>5, <2>1, <2>2 DEF CclkIn, CclkDiv, FromPll
  <2>3. CASE NewClocks.src = "PAD_PLL"
    BY <1>2, <1>5, <2>1, <2>3 DEF CclkIn, CclkDiv, FromPll
  <2>4. CASE NewClocks.src \in {"RC24M", "PAD24M"}
    BY <1>2, <1>5, <2>1, <2>4 DEF CclkIn, CclkDiv, FromPll
  <2>5. QED
    BY <2>1, <2>2, <2>3, <2>4 DEF Sources
<1> DEFINE f == CclkIn(NewClocks)
           d == CclkDiv(NewClocks)
<1>7. 0 <= cclk /\ cclk <= 96 /\ cclk \in Int /\ cclk % 256 = cclk
  <2>1. f <= 96 * d
    BY <1>2 DEF WithinLimits
  <2>2. f \in Nat /\ d \in 1 .. 15
    BY <1>6
  <2> HIDE DEF f, d
  <2>3. f = d * (f \div d) + (f % d) /\ f % d \in 0 .. d - 1 /\ f \div d \in Int
    BY <2>2, DivMod
  <2>4. f \div d >= 0 /\ f \div d <= 96
    BY <2>1, <2>2
  <2> HIDE DEF cclk
  <2>5. 0 <= cclk /\ cclk <= 96 /\ cclk \in Int
    BY <1>6, <2>3, <2>4 DEF f, d
  <2>6. QED
    BY <2>5
<1>8. /\ cclk \div a.hclk_div = f \div HclkDiv(NewClocks)
      /\ (cclk \div a.hclk_div) \div a.pclk_div = f \div PclkDiv(NewClocks)
      /\ cclk \in Int /\ cclk \div a.hclk_div \in Int
      /\ (cclk \div a.hclk_div) \div a.pclk_div \in Int
  <2>1. f \in Nat /\ d \in Nat \ {0} /\ cclk = f \div d /\ d * NewClocks.hdiv \in Nat \ {0}
        /\ NewClocks.hdiv \in Nat \ {0} /\ NewClocks.pdiv \in Nat \ {0} /\ NewClocks.hdiv = a.hclk_div
        /\ NewClocks.pdiv = a.pclk_div
    BY <1>2, <1>6
  <2>2. HclkDiv(NewClocks) = d * NewClocks.hdiv /\ PclkDiv(NewClocks) = (d * NewClocks.hdiv) * NewClocks.pdiv
    BY DEF HclkDiv, PclkDiv
  <2> HIDE DEF f, d, cclk
  <2>3. cclk \div a.hclk_div = f \div HclkDiv(NewClocks)
    BY <2>1, <2>2, DivDiv
  <2> DEFINE e == d * NewClocks.hdiv
  <2>4. (cclk \div a.hclk_div) \div a.pclk_div = f \div (e * NewClocks.pdiv)
    <3>1. e \in Nat \ {0} /\ cclk \div a.hclk_div = f \div e
      BY <2>1, <2>2, <2>3
    <3> HIDE DEF e
    <3>2. QED
      BY <2>1, <3>1, DivDiv
  <2>5. cclk \in Int /\ cclk \div a.hclk_div \in Int
    BY <2>1
  <2>6. QED
    BY <2>1, <2>2, <2>3, <2>4, <2>5
<1>9. sys_clk' = [sys_clk EXCEPT !.cclk = cclk, !.hclk = cclk \div a.hclk_div,
                    !.pclk = (cclk \div a.hclk_div) \div a.pclk_div,
                    !.mspi_clk = IF a.mspi_clk_div = 1 THEN cclk ELSE @]
  <2>1. sys_clk' = [sys_clk EXCEPT !.cclk = cclk % 256, !.hclk = (cclk % 256) \div a.hclk_div,
                      !.pclk = ((cclk % 256) \div a.hclk_div) \div a.pclk_div,
                      !.mspi_clk = IF a.mspi_clk_div = 1 THEN cclk % 256 ELSE @]
    BY Zenon DEF CclkSource
  <2>2. cclk % 256 = cclk
    BY <1>7
  <2> HIDE DEF cclk
  <2>3. QED
    BY <2>1, <2>2
<1> HIDE DEF cclk
<1>10. /\ sys_clk' \in ClockRecords /\ sys_clk'.pll_clk = pll /\ sys_clk'.cclk = cclk
       /\ sys_clk'.hclk = cclk \div a.hclk_div
       /\ sys_clk'.pclk = (cclk \div a.hclk_div) \div a.pclk_div
       /\ NewClocks.mspiPll => sys_clk'.mspi_clk = pll \div NewClocks.mspi
  <2>1. cclk \in Int /\ cclk \div a.hclk_div \in Int
        /\ (cclk \div a.hclk_div) \div a.pclk_div \in Int
    BY <1>8
  <2> DEFINE h == cclk \div a.hclk_div
             p == (cclk \div a.hclk_div) \div a.pclk_div
  <2>2. /\ sys_clk' = [sys_clk EXCEPT !.cclk = cclk, !.hclk = h, !.pclk = p,
                         !.mspi_clk = IF a.mspi_clk_div = 1 THEN cclk ELSE @]
        /\ cclk \in Int /\ h \in Int /\ p \in Int /\ sys_clk \in ClockRecords
    BY <1>5, <1>9, <2>1
  <2> HIDE DEF h, p
  <2>3. /\ sys_clk' \in ClockRecords /\ sys_clk'.pll_clk = sys_clk.pll_clk /\ sys_clk'.cclk = cclk
        /\ sys_clk'.hclk = h /\ sys_clk'.pclk = p
        /\ a.mspi_clk_div # 1 => sys_clk'.mspi_clk = sys_clk.mspi_clk
    BY <2>2 DEF ClockRecords
  <2>4. QED
    BY <1>2, <1>5, <2>3 DEF h, p
<1>11. ClocksNoted'
  BY <1>1, <1>10 DEF ClocksNoted
<1>12. ClockRecorded'
  BY <1>3, <1>6, <1>8, <1>10 DEF ClockRecorded
<1>13. QED
  BY <1>4, <1>11, <1>12 DEF ClockIInv

LEMMA ClockStep ==
  ASSUME ClockIInv, [ClockNext]_clockVars
  PROVE  ClockIInv'
<1>1. CASE UNCHANGED clockVars \/ PllLocks
  <2>1. UNCHANGED <<clk, sys_clk, clkAt, clkArg, clkBefore>>
    BY <1>1 DEF clockVars, PllLocks
  <2>2. NewClocks' = NewClocks
    BY <2>1 DEF NewClocks
  <2>3. ClocksRest' /\ ClocksMove' /\ ClocksBranch'
    BY <2>1, <2>2 DEF ClockIInv, ClocksRest, ClocksMove, ClocksBranch
  <2>4. ClocksNoted' /\ ClockRecorded'
    BY <2>1, <2>2 DEF ClockIInv, ClocksNoted, ClockRecorded
  <2>5. QED
    BY <2>3, <2>4 DEF ClockIInv
<1>2. QED
  BY <1>1, ClockCallSound, PllStepsSound, MspiStepsSound, DividerStepsSound, CclkSourceSound
     DEF ClockNext

(* A factor that both sides have in common.                                *)
LEMMA CancelFactor ==
  ASSUME NEW x \in Int, NEW y \in Int, NEW k \in Nat \ {0}, x * k <= y * k
  PROVE  x <= y
<1>1. SUFFICES ASSUME x >= y + 1
               PROVE  FALSE
  OBVIOUS
<1>2. x * k >= (y + 1) * k
  BY <1>1
<1>3. (y + 1) * k = y * k + k
  OBVIOUS
<1>4. QED
  BY <1>2, <1>3

(* While the cclk still comes from where it came from, an orderly call     *)
(* does not change what feeds it.                                          *)
LEMMA FeedKept ==
  ASSUME ClockIInv, clkAt # "idle", Orderly
  PROVE  /\ CclkIn(clk) = CclkIn(clkBefore)
         /\ FromPll(clkBefore) \/ clkBefore.mspiPll =>
              PllMhz(clk) = PllMhz(clkBefore) /\ PllMhz(NewClocks) = PllMhz(clkBefore)
<1>1. /\ NewClocks \in ClockRegisters /\ clk \in ClockRegisters /\ clkBefore \in ClockRegisters
      /\ clk.src = clkBefore.src
      /\ clk.base \in {NewClocks.base, clkBefore.base} /\ clk.double \in {NewClocks.double, clkBefore.double}
  BY DuringCall DEF ClockIInv, ClocksMove
<1>2. CASE PllMhz(NewClocks) = PllMhz(clkBefore) /\ NewClocks.base = clkBefore.base
  <2>1. NewClocks.double = clkBefore.double
    <3>1. /\ NewClocks.base \in 16 .. 19 /\ NewClocks.double \in 0 .. 2
          /\ clkBefore.base \in 16 .. 19 /\ clkBefore.double \in 0 .. 2
      BY <1>1 DEF ClockRegisters
    <3>2. QED
      BY <1>2, <3>1, PllFrequency
  <2>2. PllMhz(clk) = PllMhz(clkBefore)
    BY <1>1, <1>2, <2>1 DEF PllMhz
  <2>3. QED
    BY <1>1, <1>2, <2>2 DEF CclkIn, FromPll
<1>3. CASE ~FromPll(clkBefore) /\ ~clkBefore.mspiPll
  BY <1>1, <1>3 DEF CclkIn, FromPll
<1>4. QED
  BY <1>2, <1>3 DEF Orderly, NewClocks

(* The call that raises the cclk may divide the pclk less.                 *)
LEMMA RaisedFirst ==
  ASSUME NEW f \in Nat, NEW g \in Nat, NEW d \in Nat \ {0}, NEW e \in Nat \ {0},
         NEW k \in Nat, g * d >= f * e, g <= 24 * (e * k)
  PROVE  f <= 24 * (d * k)
<1>1. g * d <= (24 * (e * k)) * d
  OBVIOUS
<1>2. (24 * (e * k)) * d = (24 * (d * k)) * e
  OBVIOUS
<1>3. f * e <= (24 * (d * k)) * e
  <2> DEFINE x == f * e  y == g * d  z == (24 * (d * k)) * e
  <2>1. x \in Int /\ y \in Int /\ z \in Int /\ x <= y /\ y <= z
    BY <1>1, <1>2
  <2> HIDE DEF x, y, z
  <2>2. x <= z
    BY <2>1
  <2>3. QED
    BY <2>2 DEF x, z
<1>4. QED
  BY <1>3, CancelFactor

LEMMA ClockLimitsHold ==
  ASSUME ClockIInv
  PROVE  LimitsDuringCall
<1> SUFFICES ASSUME clkAt # "idle", Orderly
             PROVE  WithinLimits(clk)
  BY DEF LimitsDuringCall
<1> DEFINE b == clkBefore
           t == NewClocks
           f == CclkIn(b)
           g == CclkIn(t)
<1>1. /\ t \in ClockRegisters /\ clk \in ClockRegisters /\ b \in ClockRegisters
      /\ WithinLimits(t) /\ WithinLimits(b) /\ clk.src = b.src
  BY DuringCall DEF ClockIInv, ClocksRest, ClocksMove
<1>2. /\ CclkIn(clk) = f
      /\ FromPll(b) \/ b.mspiPll => PllMhz(clk) = PllMhz(b) /\ PllMhz(t) = PllMhz(b)
  BY FeedKept
<1>3. /\ f \in Nat /\ g \in Nat /\ CclkDiv(b) \in Nat \ {0} /\ CclkDiv(t) \in Nat \ {0}
      /\ b.hdiv \in {1, 2} /\ t.hdiv \in {1, 2} /\ b.pdiv \in {1, 2, 4} /\ t.pdiv \in {1, 2, 4}
      /\ t.hdiv >= b.hdiv
  BY <1>1, PllFrequency DEF CclkIn, CclkDiv, ClockRegisters, Orderly, NewClocks
<1>4. clk.mspiPll => PllMhz(clk) <= 64 * clk.mspi
  <2>1. b.mspiPll => PllMhz(b) <= 64 * b.mspi
    BY <1>1 DEF WithinLimits
  <2>2. t.mspiPll => PllMhz(t) <= 64 * t.mspi
    BY <1>1 DEF WithinLimits
  <2>3. CASE clkAt \in {"pll_base", "pll_double", "lock", "mspi"}
    <3>1. clk.mspiPll = b.mspiPll /\ clk.mspi = b.mspi
      BY <2>3 DEF ClockIInv, ClocksMove
    <3>2. QED
      BY <1>2, <2>1, <3>1
  <2>4. CASE clkAt = "mspi_source"
    <3>1. clk.mspiPll = b.mspiPll /\ clk.mspi = t.mspi
      BY <2>4 DEF ClockIInv, ClocksMove
    <3>2. t.mspiPll
      BY <2>4, DuringCall DEF ClockIInv, ClocksBranch
    <3>3. QED
      BY <1>2, <2>2, <3>1, <3>2
  <2>5. CASE clkAt \in {"hclk", "pclk", "cclk", "source"}
    <3>1. clk.mspiPll = t.mspiPll /\ clk.mspi = t.mspi /\ clk.base = t.base /\ clk.double = t.double
      BY <2>5 DEF ClockIInv, ClocksMove
    <3>2. PllMhz(clk) = PllMhz(t)
      BY <3>1 DEF PllMhz
    <3>3. QED
      BY <2>2, <3>1, <3>2
  <2>6. QED
    BY <2>3, <2>4, <2>5 DEF ClockIInv, ClocksRest, ClockPlaces
<1>5. /\ f <= 96 * CclkDiv(b) /\ f <= 48 * (CclkDiv(b) * b.hdiv)
      /\ f <= 24 * ((CclkDiv(b) * b.hdiv) * b.pdiv)
      /\ g <= 96 * CclkDiv(t) /\ g <= 48 * (CclkDiv(t) * t.hdiv)
      /\ g <= 24 * ((CclkDiv(t) * t.hdiv) * t.pdiv)
  BY <1>1 DEF WithinLimits, HclkDiv, PclkDiv
<1>6. SUFFICES /\ f <= 96 * CclkDiv(clk) /\ f <= 48 * (CclkDiv(clk) * clk.hdiv)
               /\ f <= 24 * ((CclkDiv(clk) * clk.hdiv) * clk.pdiv)
  BY <1>2, <1>4 DEF WithinLimits, HclkDiv, PclkDiv
(* The new divider of the cclk, when it takes effect before the source,    *)
(* feeds all clocks as they will be.                                       *)
<1>7. CASE clkAt = "source" /\ b.src = "PAD_PLL_DIV" /\ t.src = "PAD_PLL_DIV"
  <2>1. f = g /\ CclkDiv(clk) = CclkDiv(t)
    BY <1>1, <1>2, <1>7 DEF CclkIn, FromPll, CclkDiv, ClockIInv, ClocksMove
  <2>2. clk.hdiv = t.hdiv /\ clk.pdiv = t.pdiv
    BY <1>7 DEF ClockIInv, ClocksMove
  <2>3. QED
    BY <1>5, <2>1, <2>2
(* Otherwise it is the old one until the end of the call.                  *)
<1>8. CASE ~(clkAt = "source" /\ b.src = "PAD_PLL_DIV" /\ t.src = "PAD_PLL_DIV")
  <2> DEFINE d == CclkDiv(b)
             e == CclkDiv(t)
  <2>1. CclkDiv(clk) = d
    <3>1. CASE clkAt # "source"
      <4>1. clk.cdiv = b.cdiv
        BY <3>1 DEF ClockIInv, ClocksMove
      <4>2. QED
        BY <1>1, <4>1 DEF CclkDiv
    <3>2. CASE clkAt = "source" /\ b.src # "PAD_PLL_DIV"
      BY <1>1, <3>2 DEF CclkDiv
    <3>3. CASE clkAt = "source" /\ t.src # "PAD_PLL_DIV"
      <4>1. clk.cdiv = t.cdiv /\ t.cdiv = b.cdiv
        BY <3>3, DuringCall DEF ClockIInv, ClocksMove, ClocksBranch
      <4>2. QED
        BY <1>1, <4>1 DEF CclkDiv
    <3>4. QED
      BY <1>8, <3>1, <3>2, <3>3
  <2>2. /\ f \in Nat /\ g \in Nat /\ d \in Nat \ {0} /\ e \in Nat \ {0}
        /\ f <= 96 * d /\ f <= 48 * (d * b.hdiv) /\ f <= 24 * ((d * b.hdiv) * b.pdiv)
        /\ g <= 24 * ((e * t.hdiv) * t.pdiv)
    BY <1>3, <1>5
  <2>3. \/ g * d >= f * e
        \/ t.hdiv * t.pdiv >= b.hdiv * b.pdiv
    BY DEF Orderly, NewClocks
  <2> HIDE DEF d, e, f, g
  <2>4. f <= 48 * (d * t.hdiv) /\ f <= 24 * ((d * t.hdiv) * b.pdiv)
    <3>1. CASE t.hdiv = b.hdiv
      BY <2>2, <3>1
    <3>2. CASE t.hdiv = 2 /\ b.hdiv = 1
      BY <1>3, <2>2, <3>2
    <3>3. QED
      BY <1>3, <3>1, <3>2
  <2>5. f <= 24 * ((d * t.hdiv) * t.pdiv)
    <3>1. PICK k \in {1, 2, 4, 8} : k = t.hdiv * t.pdiv
      BY <1>3
    <3>2. PICK l \in {1, 2, 4, 8} : l = b.hdiv * b.pdiv
      BY <1>3
    <3>3. /\ (d * t.hdiv) * t.pdiv = d * k /\ (d * b.hdiv) * b.pdiv = d * l
          /\ (e * t.hdiv) * t.pdiv = e * k
      BY <1>3, <2>2, <3>1, <3>2
    <3>4. f <= 24 * (d * l) /\ g <= 24 * (e * k)
      BY <2>2, <3>3
    <3>5. f <= 24 * (d * k)
      <4>1. CASE g * d >= f * e
        BY <2>2, <3>4, <4>1, RaisedFirst
      <4>2. CASE k >= l
        <5>1. d * k >= d * l
          BY <2>2, <4>2
        <5>2. QED
          BY <2>2, <3>4, <5>1
      <4>3. QED
        BY <2>3, <3>1, <3>2, <4>1, <4>2
    <3>6. QED
      BY <3>3, <3>5
  <2>6. \/ clk.hdiv = b.hdiv /\ clk.pdiv = b.pdiv
        \/ clk.hdiv = t.hdiv /\ clk.pdiv = b.pdiv
        \/ clk.hdiv = t.hdiv /\ clk.pdiv = t.pdiv
    BY DEF ClockIInv, ClocksMove
  <2>7. QED
    BY <2>1, <2>2, <2>4, <2>5, <2>6
<1>9. QED
  BY <1>7, <1>8

-----------------------------------------------------------------------------
(* The oscillators.                                                        *)
(* A set of integers that has a bound has a largest member.                *)
LEMMA LargestExists ==
  ASSUME NEW S \in SUBSET Int, S # {}, \E m \in Int : \A x \in S : x <= m
  PROVE  LargestOf(S) \in S /\ \A y \in S : y <= LargestOf(S)
<1>0. PICK m \in Int : \A x \in S : x <= m
  OBVIOUS
<1> DEFINE T == {m - x : x \in S}
           R == OpToRel(<, Nat)
<1>1. T \subseteq Nat /\ T # {}
  <2>1. \A x \in S : m - x \in Nat
    BY <1>0
  <2>2. PICK x \in S : TRUE
    OBVIOUS
  <2>3. QED
    BY <2>1, <2>2
<1>2. \E t \in T : \A u \in T : ~(<<u, t>> \in R)
  <2>1. IsWellFoundedOn(R, Nat)
    BY NatLessThanWellFounded
  <2> HIDE DEF R, T
  <2>2. QED
    BY <1>1, <2>1, WFMin
<1>3. PICK t \in T : \A u \in T : ~(u < t)
  <2>1. \A u, t \in Nat : <<u, t>> \in R <=> u < t
    BY DEF OpToRel
  <2> HIDE DEF R, T
  <2>2. QED
    BY <1>1, <1>2, <2>1
<1>4. PICK x \in S : t = m - x
  BY <1>3
<1>5. \A y \in S : y <= x
  <2>1. TAKE y \in S
  <2>2. ~(m - y < t)
    BY <1>3
  <2>3. QED
    BY <1>4, <2>2
<1>6. QED
  BY <1>5 DEF LargestOf

-----------------------------------------------------------------------------
OscPlaces == {"idle", "kick", "drive", "ticks", "cal24", "cal32"}

AnaRecords ==
  [src : {CLK_32K_RC, CLK_32K_XTAL}, up : SUBSET {"rc", "xtal"}, auto : SUBSET {"24m", "32k"},
   r4f : Int, r51 : Int, r52 : Int, r01 : Int]
RamRecords ==
  [g_clk_32k_src : {CLK_32K_RC, CLK_32K_XTAL}, tl_24mrc_cal : Int, saved : {OwnValues},
   offset : Int, tc : Int, calib : {0, 1}]
DoneRecords ==
  [init : BOOLEAN, kicked : BOOLEAN, cap : Int, res : Int \X Int, locks : SUBSET Int, calib : Int]

OscTypes ==
  /\ oscUser \in {"registers", "drift"}
  /\ oscAna \in AnaRecords /\ oscRam \in RamRecords /\ oscDone \in DoneRecords
  /\ oscAt \in OscPlaces

(* What SourceKept and TrimsKept say between calls, in the middle of one.  *)
SourceHeld ==
  oscDone.init => oscRam.g_clk_32k_src = oscAna.src /\ oscAna.up = Powered(oscAna.src)

TrimsHeld ==
  /\ oscDone.cap # 0 =>
       /\ oscAna.r52 = oscDone.cap /\ oscRam.tl_24mrc_cal = oscDone.cap
       /\ oscAt # "cal24" => "24m" \notin oscAna.auto
  /\ oscDone.res # <<0, 0>> =>
       /\ <<oscAna.r51, oscAna.r4f>> = oscDone.res
       /\ oscAt # "cal32" => "32k" \notin oscAna.auto

(* The offset is within the limit of some sleep, and the calibration was   *)
(* made from a tick within those measured.                                 *)
DriftWithin(offset, tc) ==
  /\ \E cnt \in RcSleeps : -OffsetLimit(cnt) <= offset /\ offset <= OffsetLimit(cnt)
  /\ tc # 0 => \E lo, hi \in RcTicks : 16 * lo <= tc /\ tc <= 16 * hi

DriftHeld ==
  /\ DriftWithin(oscRam.offset, oscRam.tc)
  /\ oscDone.calib # 0 =>
       \E lo, hi \in RcTicks, cnt \in RcSleeps :
         /\ lo - ((OffsetLimit(cnt) * hi) \div 2^18 + 1) <= oscDone.calib
         /\ oscDone.calib <= hi + ((OffsetLimit(cnt) * hi) \div 2^18 + 1)

OscIInv ==
  OscTypes /\ SourceHeld /\ TrimsHeld /\ PinsReturned /\ SupplyTrimmed /\ DriftHeld

(* What the provers need of the assumption: bounds, but not which.         *)
LEMMA OscNumbers ==
  /\ RcTicks \subseteq Int /\ \A t \in RcTicks : 1 <= t
  /\ \E m \in Int : \A t \in RcTicks : t <= m
  /\ RcErrors \subseteq Int
  /\ RcSleeps \subseteq Nat \ {0} /\ RcSleeps # {}
  /\ \E m \in Int : \A n \in RcSleeps : n <= m
<1>1. PICK m \in Int : RcTicks \subseteq 1 .. m
  <2>1. RcTicks \subseteq 1 .. 2^16
    BY OscillatorsAssumption, Zenon DEF OscillatorsAssumption
  <2>2. 2^16 \in Int
    OBVIOUS
  <2>3. QED
    BY <2>1, <2>2, Zenon
<1>2. PICK j \in Int, k \in Int : RcErrors \subseteq j .. k
  <2>1. RcErrors \subseteq -2^17 .. 2^17
    BY OscillatorsAssumption, Zenon DEF OscillatorsAssumption
  <2>2. -2^17 \in Int /\ 2^17 \in Int
    OBVIOUS
  <2>3. QED
    BY <2>1, <2>2, Zenon
<1>3. PICK n \in Int : RcSleeps \subseteq 1 .. n
  <2>1. RcSleeps \subseteq 1 .. 2^20
    BY OscillatorsAssumption, Zenon DEF OscillatorsAssumption
  <2>2. 2^20 \in Int
    OBVIOUS
  <2>3. QED
    BY <2>1, <2>2, Zenon
<1>4. RcSleeps # {}
  BY OscillatorsAssumption, Zenon DEF OscillatorsAssumption
<1>5. RcTicks \subseteq Int /\ \A t \in RcTicks : 1 <= t /\ t <= m
  BY <1>1
<1>6. RcErrors \subseteq Int
  BY <1>2
<1>7. RcSleeps \subseteq Nat \ {0} /\ \A x \in RcSleeps : x <= n
  BY <1>3
<1>8. QED
  BY <1>4, <1>5, <1>6, <1>7

LEMMA LimitIsPositive ==
  ASSUME NEW cnt \in RcSleeps
  PROVE  OffsetLimit(cnt) \in Int /\ OffsetLimit(cnt) >= 256
<1>1. cnt \in Nat
  BY OscNumbers
<1>2. cnt \div 9600 \in Nat
  BY <1>1
<1>3. QED
  BY <1>2 DEF OffsetLimit

LEMMA NoDrift == DriftWithin(0, 0)
<1>1. PICK cnt : cnt \in RcSleeps
  BY OscNumbers
<1>2. OffsetLimit(cnt) \in Int /\ OffsetLimit(cnt) >= 256
  BY <1>1, LimitIsPositive
<1>3. -OffsetLimit(cnt) <= 0 /\ 0 <= OffsetLimit(cnt)
  BY <1>2
<1>4. QED
  BY <1>1, <1>3 DEF DriftWithin

LEMMA OscReStart ==
  ASSUME OscRestart
  PROVE  /\ oscRam' = RamAtReset /\ oscDone' = NoneDone /\ oscAt' = "idle" /\ oscPins' = OwnValues
         /\ DriftWithin(RamAtReset.offset, RamAtReset.tc)
         /\ NoneDone.init = FALSE /\ NoneDone.cap = 0 /\ NoneDone.res = <<0, 0>>
         /\ NoneDone.locks = {} /\ NoneDone.calib = 0
         /\ RamAtReset \in RamRecords /\ NoneDone \in DoneRecords
<1>1. DriftWithin(0, 0)
  BY NoDrift
<1>2. QED
  BY <1>1 DEF OscRestart, RamAtReset, NoneDone, CLK_32K_RC, RamRecords, DoneRecords

LEMMA OscStarts ==
  ASSUME OscInit
  PROVE  OscIInv
<1>1. DriftWithin(0, 0)
  BY NoDrift
<1>2. OscTypes
  BY DEF OscInit, OscTypes, OscPlaces, RamAtReset, NoneDone, CLK_32K_RC, AnaRecords, RamRecords,
     DoneRecords
<1>3. QED
  BY <1>1, <1>2 DEF OscInit, OscIInv, SourceHeld, TrimsHeld, PinsReturned, SupplyTrimmed, DriftHeld,
     RamAtReset, NoneDone

LEMMA OscResetSound ==
  ASSUME OscIInv, OscReset \/ OscDeepSleep, UNCHANGED oscUser
  PROVE  OscIInv'
<1>1. OscRestart
  BY DEF OscReset, OscDeepSleep
<1>2. OscTypes'
  <2>1. oscAna' \in AnaRecords
    <3>1. CASE OscReset
      BY <3>1 DEF OscReset, OscIInv, OscTypes, AnaRecords
    <3>2. CASE OscDeepSleep
      BY <3>2 DEF OscDeepSleep, pm_switch_ext32kpad_to_int32krc, OscIInv, OscTypes, AnaRecords
    <3>3. QED
      BY <3>1, <3>2
  <2>2. QED
    BY <1>1, <2>1, OscReStart DEF OscIInv, OscTypes, OscPlaces
<1>3. QED
  <2>1. SourceHeld' /\ TrimsHeld' /\ PinsReturned'
    BY <1>1, OscReStart DEF SourceHeld, TrimsHeld, PinsReturned
  <2>2. SupplyTrimmed'
    BY <1>1, OscReStart DEF SupplyTrimmed
  <2>3. DriftHeld'
    BY <1>1, OscReStart DEF DriftHeld
  <2>4. QED
    BY <1>2, <2>1, <2>2, <2>3 DEF OscIInv

(* The choice of the source and the kick.                                  *)
LEMMA SourceStepsSound ==
  ASSUME OscIInv, UNCHANGED oscUser,
         \/ \E src \in {CLK_32K_RC, CLK_32K_XTAL} : clock_32k_init(src)
         \/ \E times \in KickTimes : KickBegin(times)
         \/ \E a0 \in BOOLEAN : KickTry(a0)
         \/ KickStarts \/ KickRestore \/ KickMeasure
  PROVE  OscIInv'
<1>1. CASE \E src \in {CLK_32K_RC, CLK_32K_XTAL} : clock_32k_init(src)
  <2>1. PICK src \in {CLK_32K_RC, CLK_32K_XTAL} : clock_32k_init(src)
    BY <1>1
  <2>2. /\ oscAna' = [oscAna EXCEPT !.src = src, !.up = Powered(src)]
        /\ oscRam' = [oscRam EXCEPT !.g_clk_32k_src = src]
        /\ oscDone' = [oscDone EXCEPT !.init = TRUE]
        /\ oscAt = "idle" /\ oscAt' = oscAt /\ oscPins' = oscPins
        /\ Powered(src) \in SUBSET {"rc", "xtal"}
    BY <2>1 DEF clock_32k_init, OscBegin, Powered
  <2>3. oscAna \in AnaRecords /\ oscRam \in RamRecords /\ oscDone \in DoneRecords
    BY DEF OscIInv, OscTypes
  <2>4. /\ oscAna' \in AnaRecords /\ oscAna'.src = src /\ oscAna'.up = Powered(src)
        /\ oscAna'.auto = oscAna.auto /\ oscAna'.r4f = oscAna.r4f /\ oscAna'.r51 = oscAna.r51
        /\ oscAna'.r52 = oscAna.r52 /\ oscAna'.r01 = oscAna.r01
    BY <2>2, <2>3 DEF AnaRecords
  <2>5. /\ oscRam' \in RamRecords /\ oscRam'.g_clk_32k_src = src
        /\ oscRam'.tl_24mrc_cal = oscRam.tl_24mrc_cal /\ oscRam'.offset = oscRam.offset
        /\ oscRam'.tc = oscRam.tc
    BY <2>2, <2>3 DEF RamRecords
  <2>6. /\ oscDone' \in DoneRecords /\ oscDone'.cap = oscDone.cap /\ oscDone'.res = oscDone.res
        /\ oscDone'.locks = oscDone.locks /\ oscDone'.calib = oscDone.calib
    BY <2>2, <2>3 DEF DoneRecords
  <2>7. OscTypes' /\ SourceHeld' /\ PinsReturned'
    BY <2>2, <2>4, <2>5, <2>6 DEF OscIInv, OscTypes, SourceHeld, PinsReturned
  <2>8. TrimsHeld' /\ SupplyTrimmed' /\ DriftHeld'
    BY <2>2, <2>4, <2>5, <2>6 DEF OscIInv, TrimsHeld, SupplyTrimmed, DriftHeld
  <2>9. QED
    BY <2>7, <2>8 DEF OscIInv
<1>2. CASE \E a0 \in BOOLEAN : KickTry(a0)
  <2>1. PICK a0 \in BOOLEAN : KickTry(a0)
    BY <1>2
  <2>2. /\ oscAna' = oscAna /\ oscDone' = oscDone /\ oscAt = "kick" /\ oscPins = OwnValues
        /\ oscAt' \in {"drive", "ticks"} /\ oscRam \in RamRecords
        /\ oscAt' = "ticks" => oscPins' = oscPins /\ oscRam' = oscRam
        /\ oscAt' = "drive" => oscRam' = [oscRam EXCEPT !.saved = OwnValues]
    BY <2>1 DEF KickTry, OscIInv, OscTypes, PinsReturned
  <2>3. /\ oscRam' \in RamRecords /\ oscRam'.g_clk_32k_src = oscRam.g_clk_32k_src
        /\ oscRam'.tl_24mrc_cal = oscRam.tl_24mrc_cal /\ oscRam'.offset = oscRam.offset
        /\ oscRam'.tc = oscRam.tc
    BY <2>2 DEF RamRecords
  <2>4. OscTypes' /\ SourceHeld' /\ PinsReturned'
    BY <2>2, <2>3 DEF OscIInv, OscTypes, OscPlaces, SourceHeld, PinsReturned
  <2>5. TrimsHeld' /\ SupplyTrimmed' /\ DriftHeld'
    BY <2>2, <2>3 DEF OscIInv, TrimsHeld, SupplyTrimmed, DriftHeld
  <2>6. QED
    BY <2>4, <2>5 DEF OscIInv
<1>3. CASE (\E times \in KickTimes : KickBegin(times)) \/ KickStarts \/ KickRestore \/ KickMeasure
  <2>1. /\ oscAna' = oscAna /\ oscRam' = oscRam
        /\ oscAt \notin {"cal24", "cal32"} /\ oscAt' \in {"idle", "kick", "drive", "ticks"}
        /\ oscAt' # "drive" => oscPins' = OwnValues
    <3>1. oscRam.saved = OwnValues
      BY DEF OscIInv, OscTypes, RamRecords
    <3>2. QED
      BY <1>3, <3>1 DEF KickBegin, KickStarts, KickRestore, KickMeasure, OscBegin, OscIInv,
         PinsReturned
  <2>2. /\ oscDone' \in DoneRecords /\ oscDone'.init = oscDone.init /\ oscDone'.cap = oscDone.cap
        /\ oscDone'.res = oscDone.res /\ oscDone'.locks = oscDone.locks
        /\ oscDone'.calib = oscDone.calib
    BY <1>3 DEF KickBegin, KickStarts, KickRestore, KickMeasure, OscIInv, OscTypes, DoneRecords
  <2>3. OscTypes' /\ SourceHeld' /\ PinsReturned'
    BY <2>1, <2>2 DEF OscIInv, OscTypes, OscPlaces, SourceHeld, PinsReturned
  <2>4. TrimsHeld' /\ SupplyTrimmed' /\ DriftHeld'
    BY <2>1, <2>2 DEF OscIInv, TrimsHeld, SupplyTrimmed, DriftHeld
  <2>5. QED
    BY <2>3, <2>4 DEF OscIInv
<1>4. QED
  BY <1>1, <1>2, <1>3

(* What a step leaves alone keeps what the other parts say.                *)
LEMMA TrimStepsSound ==
  ASSUME OscIInv, UNCHANGED oscUser,
         Cal24Begin \/ Cal32Begin \/ \E v \in {1, 2} : Cal24End(v) \/ Cal32End(v, 3 - v)
  PROVE  OscIInv'
<1>1. oscAna \in AnaRecords /\ oscRam \in RamRecords /\ oscDone \in DoneRecords
  BY DEF OscIInv, OscTypes
<1>2. CASE Cal24Begin
  <2>1. /\ oscAna' = [oscAna EXCEPT !.auto = oscAna.auto \cup {"24m"}]
        /\ oscRam' = oscRam /\ oscDone' = oscDone /\ oscPins' = oscPins
        /\ oscAt = "idle" /\ oscAt' = "cal24"
    BY <1>2 DEF Cal24Begin, OscBegin
  <2>2. /\ oscAna' \in AnaRecords /\ oscAna'.auto = oscAna.auto \cup {"24m"}
        /\ oscAna'.src = oscAna.src /\ oscAna'.up = oscAna.up /\ oscAna'.r4f = oscAna.r4f
        /\ oscAna'.r51 = oscAna.r51 /\ oscAna'.r52 = oscAna.r52 /\ oscAna'.r01 = oscAna.r01
    BY <1>1, <2>1 DEF AnaRecords
  <2>3. OscTypes' /\ SourceHeld' /\ PinsReturned'
    BY <2>1, <2>2 DEF OscIInv, OscTypes, OscPlaces, SourceHeld, PinsReturned
  <2>4. TrimsHeld' /\ SupplyTrimmed' /\ DriftHeld'
    BY <2>1, <2>2 DEF OscIInv, TrimsHeld, SupplyTrimmed, DriftHeld
  <2>5. QED
    BY <2>3, <2>4 DEF OscIInv
<1>3. CASE Cal32Begin
  <2>1. /\ oscAna' = [oscAna EXCEPT !.auto = {"32k"}]
        /\ oscRam' = oscRam /\ oscDone' = oscDone /\ oscPins' = oscPins
        /\ oscAt = "idle" /\ oscAt' = "cal32"
    BY <1>3 DEF Cal32Begin, OscBegin
  <2>2. /\ oscAna' \in AnaRecords /\ oscAna'.auto = {"32k"}
        /\ oscAna'.src = oscAna.src /\ oscAna'.up = oscAna.up /\ oscAna'.r4f = oscAna.r4f
        /\ oscAna'.r51 = oscAna.r51 /\ oscAna'.r52 = oscAna.r52 /\ oscAna'.r01 = oscAna.r01
    BY <1>1, <2>1 DEF AnaRecords
  <2>3. OscTypes' /\ SourceHeld' /\ PinsReturned'
    BY <2>1, <2>2 DEF OscIInv, OscTypes, OscPlaces, SourceHeld, PinsReturned
  <2>4. TrimsHeld' /\ SupplyTrimmed' /\ DriftHeld'
    BY <2>1, <2>2 DEF OscIInv, TrimsHeld, SupplyTrimmed, DriftHeld
  <2>5. QED
    BY <2>3, <2>4 DEF OscIInv
<1>4. ASSUME NEW v \in {1, 2}, Cal24End(v)
      PROVE  OscIInv'
  <2>1. /\ oscAna' = [oscAna EXCEPT !.r52 = v, !.auto = oscAna.auto \ {"24m"}]
        /\ oscRam' = [oscRam EXCEPT !.tl_24mrc_cal = v]
        /\ oscDone' = [oscDone EXCEPT !.cap = v] /\ oscPins' = oscPins
        /\ oscAt = "cal24" /\ oscAt' = "idle"
    BY <1>4 DEF Cal24End
  <2> DEFINE auto == oscAna.auto \ {"24m"}
  <2>8. auto \in SUBSET {"24m", "32k"} /\ "24m" \notin auto
        /\ ("32k" \notin oscAna.auto => "32k" \notin auto)
    BY <1>1 DEF AnaRecords
  <2>9. oscAna' = [oscAna EXCEPT !.r52 = v, !.auto = auto] /\ v \in Int
    BY <2>1
  <2> HIDE DEF auto
  <2>2. /\ oscAna' \in AnaRecords /\ oscAna'.auto = auto /\ oscAna'.r52 = v
        /\ oscAna'.src = oscAna.src /\ oscAna'.up = oscAna.up /\ oscAna'.r4f = oscAna.r4f
        /\ oscAna'.r51 = oscAna.r51 /\ oscAna'.r01 = oscAna.r01
    BY <1>1, <2>8, <2>9 DEF AnaRecords
  <2>3. /\ oscRam' \in RamRecords /\ oscRam'.tl_24mrc_cal = v
        /\ oscRam'.g_clk_32k_src = oscRam.g_clk_32k_src
        /\ oscRam'.offset = oscRam.offset /\ oscRam'.tc = oscRam.tc
    BY <1>1, <2>1 DEF RamRecords
  <2>4. /\ oscDone' \in DoneRecords /\ oscDone'.cap = v /\ oscDone'.init = oscDone.init
        /\ oscDone'.res = oscDone.res /\ oscDone'.locks = oscDone.locks
        /\ oscDone'.calib = oscDone.calib
    BY <1>1, <2>1 DEF DoneRecords
  <2>5. OscTypes' /\ SourceHeld' /\ PinsReturned'
    BY <2>1, <2>2, <2>3, <2>4 DEF OscIInv, OscTypes, OscPlaces, SourceHeld, PinsReturned
  <2>6. TrimsHeld' /\ SupplyTrimmed' /\ DriftHeld'
    BY <2>1, <2>2, <2>3, <2>4, <2>8 DEF OscIInv, TrimsHeld, SupplyTrimmed, DriftHeld
  <2>7. QED
    BY <2>5, <2>6 DEF OscIInv
<1>5. ASSUME NEW v \in {1, 2}, Cal32End(v, 3 - v)
      PROVE  OscIInv'
  <2> DEFINE u == 3 - v
             none == {}
  <2>1. /\ oscAna' = [oscAna EXCEPT !.r51 = v, !.r4f = u, !.auto = none]
        /\ oscDone' = [oscDone EXCEPT !.res = <<v, u>>] /\ oscPins' = oscPins
        /\ oscRam' = oscRam /\ oscAt = "cal32" /\ oscAt' = "idle" /\ u \in Int
    BY <1>5 DEF Cal32End
  <2>7. v \in Int /\ none \in SUBSET {"24m", "32k"} /\ "32k" \notin none /\ "24m" \notin none
    OBVIOUS
  <2> HIDE DEF u, none
  <2>2. /\ oscAna' \in AnaRecords /\ oscAna'.auto = none /\ oscAna'.r52 = oscAna.r52
        /\ oscAna'.src = oscAna.src /\ oscAna'.up = oscAna.up /\ oscAna'.r4f = u
        /\ oscAna'.r51 = v /\ oscAna'.r01 = oscAna.r01
    BY <1>1, <2>1, <2>7 DEF AnaRecords
  <2>3. /\ oscDone' \in DoneRecords /\ oscDone'.cap = oscDone.cap /\ oscDone'.init = oscDone.init
        /\ oscDone'.res = <<v, u>> /\ oscDone'.locks = oscDone.locks
        /\ oscDone'.calib = oscDone.calib
    BY <1>1, <2>1 DEF DoneRecords
  <2>4. OscTypes' /\ SourceHeld' /\ PinsReturned'
    BY <2>1, <2>2, <2>3 DEF OscIInv, OscTypes, OscPlaces, SourceHeld, PinsReturned
  <2>5. TrimsHeld' /\ SupplyTrimmed' /\ DriftHeld'
    BY <2>1, <2>2, <2>3, <2>7 DEF OscIInv, TrimsHeld, SupplyTrimmed, DriftHeld
  <2>6. QED
    BY <2>4, <2>5 DEF OscIInv
<1>6. QED
  BY <1>2, <1>3, <1>4, <1>5

(* The first trim that locks is kept, and the second and third are 70, 67. *)
LEMMA SupplyStepSound ==
  ASSUME OscIInv, UNCHANGED oscUser, NEW locks \in SUBSET {67, 69, 70}, pm_wait_bbpll_done(locks)
  PROVE  OscIInv'
<1> DEFINE trims == <<oscAna.r01, 70, 67>>
           good == {j \in 1 .. 3 : trims[j] \in locks}
           last == IF good = {} THEN 3 ELSE CHOOSE j \in good : \A i \in good : j <= i
           trim == trims[last]
<1>1. oscAna \in AnaRecords /\ oscDone \in DoneRecords
  BY DEF OscIInv, OscTypes
<1>2. /\ oscAna' = [oscAna EXCEPT !.r01 = trim] /\ oscDone' = [oscDone EXCEPT !.locks = locks]
      /\ oscRam' = oscRam /\ oscPins' = oscPins /\ oscAt' = oscAt
  BY DEF pm_wait_bbpll_done
<1>3. last \in 1 .. 3 /\ (good # {} => last \in good)
  <2>1. CASE good = {}
    BY <2>1
  <2>2. CASE good # {}
    <3>1. good \subseteq {1, 2, 3}
      OBVIOUS
    <3> HIDE DEF good
    <3>2. \E j \in good : \A i \in good : j <= i
      <4>1. CASE 1 \in good
        BY <3>1, <4>1
      <4>2. CASE 1 \notin good /\ 2 \in good
        BY <3>1, <4>2
      <4>3. CASE 1 \notin good /\ 2 \notin good
        <5>1. \A j \in good : j = 3
          BY <3>1, <4>3
        <5>2. PICK j \in good : TRUE
          BY <2>2
        <5>3. QED
          BY <5>1, <5>2
      <4>4. QED
        BY <4>1, <4>2, <4>3
    <3>3. (CHOOSE j \in good : \A i \in good : j <= i) \in good
      BY <3>2
    <3>4. last = CHOOSE j \in good : \A i \in good : j <= i
      BY <2>2
    <3>5. last \in good
      BY <3>3, <3>4
    <3> HIDE DEF last
    <3>6. QED
      BY <3>1, <3>5
  <2>3. QED
    BY <2>1, <2>2
<1>4. trim \in Int
  <2>1. oscAna.r01 \in Int
    BY <1>1 DEF AnaRecords
  <2> HIDE DEF last
  <2>2. QED
    BY <1>3, <2>1
<1>5. locks \cap {67, 70} # {} => trim \in locks
  <2> SUFFICES ASSUME locks \cap {67, 70} # {}
               PROVE  trim \in locks
    OBVIOUS
  <2>1. 2 \in good \/ 3 \in good
    OBVIOUS
  <2> HIDE DEF last
  <2>2. QED
    BY <1>3, <2>1
<1> HIDE DEF trim
<1>6. /\ oscAna' \in AnaRecords /\ oscAna'.auto = oscAna.auto /\ oscAna'.r52 = oscAna.r52
      /\ oscAna'.src = oscAna.src /\ oscAna'.up = oscAna.up /\ oscAna'.r4f = oscAna.r4f
      /\ oscAna'.r51 = oscAna.r51 /\ oscAna'.r01 = trim
  BY <1>1, <1>2, <1>4 DEF AnaRecords
<1>7. /\ oscDone' \in DoneRecords /\ oscDone'.cap = oscDone.cap /\ oscDone'.init = oscDone.init
      /\ oscDone'.res = oscDone.res /\ oscDone'.locks = locks /\ oscDone'.calib = oscDone.calib
  BY <1>1, <1>2 DEF DoneRecords
<1>8. OscTypes' /\ SourceHeld' /\ PinsReturned'
  BY <1>2, <1>6, <1>7 DEF OscIInv, OscTypes, OscPlaces, SourceHeld, PinsReturned
<1>9. TrimsHeld' /\ SupplyTrimmed' /\ DriftHeld'
  BY <1>2, <1>5, <1>6, <1>7 DEF OscIInv, TrimsHeld, SupplyTrimmed, DriftHeld
<1>10. QED
  BY <1>8, <1>9 DEF OscIInv

-----------------------------------------------------------------------------
(* The drift.  A part of the way from one number to another ends between   *)
(* the two.                                                                *)
LEMMA PartOfTheWay ==
  ASSUME NEW o \in Int, NEW x \in Int, NEW k \in {8, 16}
  PROVE  LET n == o + ((x - o) \div k)
         IN  n \in Int /\ ((o <= n /\ n <= x) \/ (x <= n /\ n <= o))
<1>1. CASE k = 8
  BY <1>1
<1>2. CASE k = 16
  BY <1>2
<1>3. QED
  BY <1>1, <1>2

LEMMA OffsetBounded ==
  ASSUME NEW scaled \in Int, NEW n \in RcSleeps, NEW m \in Nat,
         NEW o \in Int, NEW c \in RcSleeps, m <= OffsetLimit(n),
         -OffsetLimit(c) <= o, o <= OffsetLimit(c)
  PROVE  LET p == o + ((Clamped(Quotient(scaled, n), m) - o) \div 16)
         IN  /\ p \in Int
             /\ \E cnt \in RcSleeps : -OffsetLimit(cnt) <= p /\ p <= OffsetLimit(cnt)
<1> DEFINE q == Quotient(scaled, n)
           x == Clamped(q, m)
           p == o + ((x - o) \div 16)
<1>1. n \in Nat \ {0}
  BY OscNumbers
<1>2. q \in Int
  BY <1>1 DEF Quotient
<1>3. x \in Int /\ -m <= x /\ x <= m
  <2> HIDE DEF q
  <2>1. QED
    BY <1>2 DEF Clamped
<1>4. p \in Int /\ ((o <= p /\ p <= x) \/ (x <= p /\ p <= o))
  <2> HIDE DEF x
  <2>1. QED
    BY <1>3, PartOfTheWay
<1>5. OffsetLimit(c) \in Int /\ OffsetLimit(n) \in Int /\ OffsetLimit(c) >= 256
      /\ OffsetLimit(n) >= 256
  BY LimitIsPositive
<1> HIDE DEF p, x
<1>6. \E cnt \in {c, n} : -OffsetLimit(cnt) <= p /\ p <= OffsetLimit(cnt)
  <2> DEFINE l == OffsetLimit(c)
             r == OffsetLimit(n)
  <2>1. l \in Int /\ r \in Int /\ m <= r /\ -l <= o /\ o <= l
    BY <1>5
  <2> HIDE DEF l, r
  <2>2. (-l <= p /\ p <= l) \/ (-r <= p /\ p <= r)
    BY <1>3, <1>4, <2>1
  <2>3. QED
    BY <2>2 DEF l, r
<1>7. QED
  BY <1>4, <1>6 DEF p, x

LEMMA OffsetStepSound ==
  ASSUME OscIInv, UNCHANGED oscUser, NEW e \in RcErrors, NEW n \in RcSleeps,
         pm_ble_cal_32k_rc_offset(e, n) \/ pm_cal_32k_rc_offset(e, n)
  PROVE  OscIInv'
<1>1. OffsetLimit(n) \in Nat /\ OffsetLimit(n) >= 256
  BY LimitIsPositive
<1>2. \E scaled \in Int, m \in Nat : m <= OffsetLimit(n) /\ RcOffset(scaled, n, m)
  <2>1. e \in Int
    BY OscNumbers
  <2>2. CASE pm_ble_cal_32k_rc_offset(e, n)
    <3>1. e * (256 * 31) \in Int
      BY <2>1
    <3>2. QED
      BY <1>1, <2>2, <3>1 DEF pm_ble_cal_32k_rc_offset
  <2>3. CASE pm_cal_32k_rc_offset(e, n)
    <3>1. e * (240 * 31) \in Int
      BY <2>1
    <3>2. QED
      BY <1>1, <2>3, <3>1 DEF pm_cal_32k_rc_offset
  <2>4. QED
    BY <2>2, <2>3
<1>3. PICK scaled \in Int, m \in Nat : m <= OffsetLimit(n) /\ RcOffset(scaled, n, m)
  BY <1>2
<1> DEFINE o == oscRam.offset
           p == o + ((Clamped(Quotient(scaled, n), m) - o) \div 16)
<1>4. /\ oscRam \in RamRecords /\ o \in Int
      /\ \E cnt \in RcSleeps : -OffsetLimit(cnt) <= o /\ o <= OffsetLimit(cnt)
  BY DEF OscIInv, OscTypes, RamRecords, DriftHeld, DriftWithin
<1>5. PICK c \in RcSleeps : -OffsetLimit(c) <= o /\ o <= OffsetLimit(c)
  BY <1>4
<1>6. p \in Int /\ \E cnt \in RcSleeps : -OffsetLimit(cnt) <= p /\ p <= OffsetLimit(cnt)
  <2> HIDE DEF o
  <2>1. QED
    BY <1>3, <1>4, <1>5, OffsetBounded
<1>7. /\ oscRam' = [oscRam EXCEPT !.calib = 1, !.offset = p]
      /\ UNCHANGED <<oscAna, oscPins, oscAt, oscDone>>
  BY <1>3 DEF RcOffset
<1> HIDE DEF p, o
<1>8. /\ oscRam' \in RamRecords /\ oscRam'.offset = p /\ oscRam'.tc = oscRam.tc
      /\ oscRam'.tl_24mrc_cal = oscRam.tl_24mrc_cal
      /\ oscRam'.g_clk_32k_src = oscRam.g_clk_32k_src
  BY <1>4, <1>6, <1>7 DEF RamRecords
<1>9. OscTypes' /\ SourceHeld' /\ PinsReturned'
  BY <1>7, <1>8 DEF OscIInv, OscTypes, SourceHeld, PinsReturned
<1>10. TrimsHeld' /\ SupplyTrimmed'
  BY <1>7, <1>8 DEF OscIInv, TrimsHeld, SupplyTrimmed
<1>11. DriftHeld'
  BY <1>6, <1>7, <1>8 DEF OscIInv, DriftHeld, DriftWithin
<1>12. QED
  BY <1>9, <1>10, <1>11 DEF OscIInv

LEMMA ReferenceStepsSound ==
  ASSUME OscIInv, UNCHANGED oscUser, RcReset \/ RcReference
  PROVE  OscIInv'
<1>1. oscRam \in RamRecords
  BY DEF OscIInv, OscTypes
<1>2. /\ UNCHANGED <<oscAna, oscPins, oscAt, oscDone>>
      /\ oscRam' \in RamRecords /\ oscRam'.tl_24mrc_cal = oscRam.tl_24mrc_cal
      /\ oscRam'.g_clk_32k_src = oscRam.g_clk_32k_src
      /\ \/ oscRam'.offset = 0 /\ oscRam'.tc = 0
         \/ oscRam'.offset = oscRam.offset /\ oscRam'.tc = oscRam.tc
  <2>1. CASE RcReset
    <3> DEFINE z == 0
    <3>1. /\ oscRam' = [oscRam EXCEPT !.offset = z, !.tc = z] /\ z \in Int
          /\ UNCHANGED <<oscAna, oscPins, oscAt, oscDone>>
      BY <2>1 DEF RcReset
    <3> HIDE DEF z
    <3>2. /\ oscRam' \in RamRecords /\ oscRam'.tl_24mrc_cal = oscRam.tl_24mrc_cal
          /\ oscRam'.g_clk_32k_src = oscRam.g_clk_32k_src
          /\ oscRam'.offset = z /\ oscRam'.tc = z
      BY <1>1, <3>1 DEF RamRecords
    <3>3. QED
      BY <3>1, <3>2 DEF z
  <2>2. CASE RcReference
    BY <1>1, <2>2 DEF RcReference, RamRecords
  <2>3. QED
    BY <2>1, <2>2
<1>3. OscTypes' /\ SourceHeld' /\ PinsReturned'
  BY <1>2 DEF OscIInv, OscTypes, SourceHeld, PinsReturned
<1>4. TrimsHeld' /\ SupplyTrimmed'
  BY <1>2 DEF OscIInv, TrimsHeld, SupplyTrimmed
<1>5. DriftHeld'
  <2>1. DriftWithin(oscRam'.offset, oscRam'.tc)
    BY <1>2, NoDrift DEF OscIInv, DriftHeld
  <2>2. QED
    BY <1>2, <2>1 DEF OscIInv, DriftHeld
<1>6. QED
  BY <1>3, <1>4, <1>5 DEF OscIInv

LEMMA DivMonotone ==
  ASSUME NEW x \in Int, NEW y \in Int, x <= y, NEW m \in Nat \ {0}
  PROVE  x \div m \in Int /\ y \div m \in Int /\ x \div m <= y \div m
<1> DEFINE p == x \div m  r == x % m  q == y \div m  s == y % m
<1>1. x = m * p + r /\ r \in 0 .. m - 1 /\ p \in Int
  OBVIOUS
<1>2. y = m * q + s /\ s \in 0 .. m - 1 /\ q \in Int
  OBVIOUS
<1> HIDE DEF p, r, q, s
<1>3. p <= q
  <2> SUFFICES ASSUME p >= q + 1
               PROVE  FALSE
    BY <1>1, <1>2
  <2>1. m * p >= m * (q + 1) /\ m * (q + 1) = m * q + m
    BY <1>1, <1>2
  <2>2. QED
    BY <1>1, <1>2, <2>1
<1>4. QED
  BY <1>1, <1>2, <1>3 DEF p, q

(* A product is within the product of the bounds, and so is its share.     *)
LEMMA ShareBounded ==
  ASSUME NEW o \in Int, NEW l \in Nat, -l <= o, o <= l,
         NEW b \in Nat, NEW h \in Nat, b <= h, NEW m \in Nat \ {0}
  PROVE  /\ (o * b) \div m \in Int /\ (l * h) \div m \in Int
         /\ -((l * h) \div m + 1) <= (o * b) \div m
         /\ (o * b) \div m <= (l * h) \div m + 1
<1> DEFINE x == o * b
           y == l * h
<1>1. x \in Int /\ y \in Int /\ -y <= x /\ x <= y
  <2>1. l * b <= l * h
    OBVIOUS
  <2>2. o * b <= l * b /\ (-l) * b <= o * b
    OBVIOUS
  <2>3. (-l) * b = -(l * b)
    OBVIOUS
  <2>4. QED
    BY <2>1, <2>2, <2>3
<1> HIDE DEF x, y
<1> DEFINE p == x \div m  r == x % m  q == y \div m  s == y % m
<1>2. x = m * p + r /\ r \in 0 .. m - 1 /\ p \in Int
  BY <1>1
<1>3. y = m * q + s /\ s \in 0 .. m - 1 /\ q \in Int
  BY <1>1
<1> HIDE DEF p, r, q, s
<1>4. p <= q
  <2> SUFFICES ASSUME p >= q + 1
               PROVE  FALSE
    BY <1>2, <1>3
  <2>1. m * p >= m * (q + 1) /\ m * (q + 1) = m * q + m
    BY <1>2, <1>3
  <2>2. QED
    BY <1>1, <1>2, <1>3, <2>1
<1>5. -(q + 1) <= p
  <2> SUFFICES ASSUME p <= -q - 2
               PROVE  FALSE
    BY <1>2, <1>3
  <2>1. m * p <= m * (-q - 2) /\ m * (-q - 2) = -(m * q) - (m + m)
    BY <1>2, <1>3
  <2>2. QED
    BY <1>1, <1>2, <1>3, <2>1
<1>6. QED
  BY <1>2, <1>3, <1>4, <1>5 DEF p, q, x, y

LEMMA CalibStepSound ==
  ASSUME OscIInv, UNCHANGED oscUser, NEW ticks \in RcTicks, pm_get_32k_rc_calib(ticks)
  PROVE  OscIInv'
<1> DEFINE old == oscRam.tc
           o == oscRam.offset
           k == 2^(4 - oscRam.calib)
           tc == IF old = 0 THEN ticks * 16 ELSE old + ((ticks * 16 - old) \div k)
           base == tc \div 16
           calib == base + ((o * base) \div 2^18)
<1>1. /\ oscRam' = [oscRam EXCEPT !.tc = tc] /\ oscDone' = [oscDone EXCEPT !.calib = calib]
      /\ UNCHANGED <<oscAna, oscPins, oscAt>>
  BY Zenon DEF pm_get_32k_rc_calib
<1>2. /\ oscRam \in RamRecords /\ oscDone \in DoneRecords /\ old \in Int /\ o \in Int
      /\ oscRam.calib \in {0, 1} /\ DriftWithin(o, old)
  BY DEF OscIInv, OscTypes, RamRecords, DriftHeld
<1>3. k \in {8, 16}
  <2>1. 2^3 = 8 /\ 2^4 = 16
    OBVIOUS
  <2>2. CASE oscRam.calib = 0
    <3>1. 4 - oscRam.calib = 4
      BY <2>2
    <3>2. QED
      BY <2>1, <3>1
  <2>3. CASE oscRam.calib = 1
    <3>1. 4 - oscRam.calib = 3
      BY <2>3
    <3>2. QED
      BY <2>1, <3>1
  <2>4. QED
    BY <1>2, <2>2, <2>3
<1>4. ticks \in Int /\ 1 <= ticks /\ \A t \in RcTicks : t \in Int /\ 1 <= t
  BY OscNumbers
<1>5. tc \in Int /\ \E lo, hi \in RcTicks : 16 * lo <= tc /\ tc <= 16 * hi
  <2>1. CASE old = 0
    <3>1. tc = 16 * ticks
      BY <1>4, <2>1
    <3> HIDE DEF tc
    <3>2. QED
      BY <1>4, <3>1
  <2>2. CASE old # 0
    <3>1. PICK lo \in RcTicks, hi \in RcTicks : 16 * lo <= old /\ old <= 16 * hi
      BY <1>2, <2>2 DEF DriftWithin
    <3> DEFINE x == ticks * 16
    <3>2. tc = old + ((x - old) \div k)
      BY <2>2
    <3>3. x \in Int
      BY <1>4
    <3> HIDE DEF x, tc, k, old
    <3>4. tc \in Int /\ ((old <= tc /\ tc <= x) \/ (x <= tc /\ tc <= old))
      BY <1>2, <1>3, <3>2, <3>3, PartOfTheWay
    <3>5. lo \in Int /\ hi \in Int
      BY <1>4
    <3>6. CASE old <= tc /\ tc <= x
      <4>1. 16 * lo <= tc /\ tc <= 16 * ticks
        BY <1>2, <1>4, <3>1, <3>4, <3>5, <3>6 DEF x
      <4>2. QED
        BY <3>4, <4>1
    <3>7. CASE x <= tc /\ tc <= old
      <4>1. 16 * ticks <= tc /\ tc <= 16 * hi
        BY <1>2, <1>4, <3>1, <3>4, <3>5, <3>7 DEF x
      <4>2. QED
        BY <3>4, <4>1
    <3>8. QED
      BY <3>4, <3>6, <3>7
  <2>3. QED
    BY <2>1, <2>2
<1> HIDE DEF tc, old, k
<1>6. PICK lo \in RcTicks, hi \in RcTicks : 16 * lo <= tc /\ tc <= 16 * hi
  BY <1>5
<1>7. PICK cnt \in RcSleeps : -OffsetLimit(cnt) <= o /\ o <= OffsetLimit(cnt)
  BY <1>2 DEF DriftWithin
<1>8. /\ base \in Nat /\ lo <= base /\ base <= hi /\ lo \in Nat /\ hi \in Nat
      /\ OffsetLimit(cnt) \in Nat
  <2>1. lo \in Int /\ hi \in Int /\ 1 <= lo
    BY <1>4
  <2>2. OffsetLimit(cnt) \in Nat
    BY LimitIsPositive
  <2>3. QED
    BY <1>5, <1>6, <2>1, <2>2
<1> HIDE DEF base, o
<1>9. /\ calib \in Int
      /\ lo - ((OffsetLimit(cnt) * hi) \div 2^18 + 1) <= calib
      /\ calib <= hi + ((OffsetLimit(cnt) * hi) \div 2^18 + 1)
  <2> DEFINE m == 2^18
             z == (o * base) \div m
             w == (OffsetLimit(cnt) * hi) \div m
  <2>1. m \in Nat \ {0}
    OBVIOUS
  <2>2. calib = base + z
    OBVIOUS
  <2>3. z \in Int /\ w \in Int /\ -(w + 1) <= z /\ z <= w + 1
    <3> HIDE DEF m
    <3>1. QED
      BY <1>2, <1>7, <1>8, <2>1, ShareBounded
  <2>4. lo - (w + 1) <= calib /\ calib <= hi + (w + 1) /\ calib \in Int
    <3> HIDE DEF z, w, calib
    <3>1. QED
      BY <1>8, <2>2, <2>3
  <2>5. QED
    BY <2>4
<1> HIDE DEF calib
<1>10. /\ oscRam' \in RamRecords /\ oscRam'.offset = o /\ oscRam'.tc = tc
       /\ oscRam'.tl_24mrc_cal = oscRam.tl_24mrc_cal
       /\ oscRam'.g_clk_32k_src = oscRam.g_clk_32k_src
  BY <1>1, <1>2, <1>5 DEF RamRecords, o
<1>11. /\ oscDone' \in DoneRecords /\ oscDone'.cap = oscDone.cap /\ oscDone'.init = oscDone.init
       /\ oscDone'.res = oscDone.res /\ oscDone'.locks = oscDone.locks /\ oscDone'.calib = calib
  BY <1>1, <1>2, <1>9 DEF DoneRecords
<1>12. OscTypes' /\ SourceHeld' /\ PinsReturned'
  BY <1>1, <1>10, <1>11 DEF OscIInv, OscTypes, SourceHeld, PinsReturned
<1>13. TrimsHeld' /\ SupplyTrimmed'
  BY <1>1, <1>10, <1>11 DEF OscIInv, TrimsHeld, SupplyTrimmed
<1>14. DriftHeld'
  <2>1. DriftWithin(o, tc)
    BY <1>6, <1>7 DEF DriftWithin
  <2>2. QED
    BY <1>9, <1>10, <1>11, <2>1 DEF DriftHeld
<1>15. QED
  BY <1>12, <1>13, <1>14 DEF OscIInv

LEMMA OscStep ==
  ASSUME OscIInv, [OscNext]_oscVars
  PROVE  OscIInv'
<1>1. CASE UNCHANGED oscVars
  <2>1. UNCHANGED <<oscUser, oscAna, oscXtal, oscPins, oscRam, oscAt, oscDone, oscCalls>>
    BY <1>1 DEF oscVars
  <2>2. OscTypes' /\ SourceHeld' /\ PinsReturned'
    BY <2>1 DEF OscIInv, OscTypes, SourceHeld, PinsReturned
  <2>3. TrimsHeld' /\ SupplyTrimmed' /\ DriftHeld'
    BY <2>1 DEF OscIInv, TrimsHeld, SupplyTrimmed, DriftHeld
  <2>4. QED
    BY <2>2, <2>3 DEF OscIInv
<1>2. CASE OscNext
  <2>1. UNCHANGED oscUser /\ (OscRegisters \/ OscDrift \/ OscReset)
    BY <1>2 DEF OscNext
  <2>2. CASE OscRegisters
    BY <2>1, <2>2, SourceStepsSound, TrimStepsSound, SupplyStepSound, OscResetSound
       DEF OscRegisters
  <2>3. CASE OscDrift
    BY <2>1, <2>3, OffsetStepSound, CalibStepSound, ReferenceStepsSound DEF OscDrift
  <2>4. CASE OscReset
    BY <2>1, <2>4, OscResetSound
  <2>5. QED
    BY <2>1, <2>2, <2>3, <2>4
<1>3. QED
  BY <1>1, <1>2

(* The bounds of CalibBounded are those of the largest and smallest.       *)
LEMMA CalibWithin ==
  ASSUME OscTypes, DriftHeld
  PROVE  CalibBounded
<1>1. \E cnt \in RcSleeps : oscRam.offset \in -OffsetLimit(cnt) .. OffsetLimit(cnt)
  <2>1. oscRam.offset \in Int
    BY DEF OscTypes, RamRecords
  <2>2. PICK cnt \in RcSleeps : -OffsetLimit(cnt) <= oscRam.offset /\ oscRam.offset <= OffsetLimit(cnt)
    BY DEF DriftHeld, DriftWithin
  <2>3. OffsetLimit(cnt) \in Int
    BY LimitIsPositive
  <2>4. QED
    BY <2>1, <2>2, <2>3
<1> DEFINE limits == {OffsetLimit(cnt) : cnt \in RcSleeps}
           most == LargestOf(limits)
           top == LargestOf(RcTicks)
           negatives == {-t : t \in RcTicks}
           bottom == -LargestOf(negatives)
           off == (most * top) \div 2^18 + 1
<1>2. ASSUME oscDone.calib # 0
      PROVE  oscDone.calib \in bottom - off .. top + off
  <2>1. PICK lo \in RcTicks, hi \in RcTicks, cnt \in RcSleeps :
          /\ lo - ((OffsetLimit(cnt) * hi) \div 2^18 + 1) <= oscDone.calib
          /\ oscDone.calib <= hi + ((OffsetLimit(cnt) * hi) \div 2^18 + 1)
    BY <1>2 DEF DriftHeld
  <2>2. /\ RcTicks \in SUBSET Int /\ \A t \in RcTicks : 1 <= t
        /\ \E m \in Int : \A t \in RcTicks : t <= m
        /\ lo \in Nat /\ hi \in Nat
    BY OscNumbers
  <2>3. top \in Nat /\ \A t \in RcTicks : t <= top
    <3>1. RcTicks # {}
      OBVIOUS
    <3>2. top \in RcTicks /\ \A t \in RcTicks : t <= top
      BY <2>2, <3>1, LargestExists
    <3> HIDE DEF top
    <3>3. QED
      BY <2>2, <3>2
  <2>4. bottom \in Int /\ bottom <= lo
    <3>1. /\ negatives \in SUBSET Int /\ negatives # {}
          /\ \E m \in Int : \A x \in negatives : x <= m
      <4>1. negatives \in SUBSET Int /\ negatives # {} /\ \A x \in negatives : x <= 0
        BY <2>2
      <4> HIDE DEF negatives
      <4>2. QED
        BY <4>1
    <3> DEFINE large == LargestOf(negatives)
    <3>2. -lo \in negatives
      OBVIOUS
    <3> HIDE DEF negatives
    <3>3. large \in Int /\ -lo <= large
      BY <3>1, <3>2, LargestExists
    <3> HIDE DEF large
    <3>4. -large <= lo
      BY <2>2, <3>3
    <3>5. QED
      BY <3>3, <3>4 DEF large
  <2>5. /\ most \in Nat /\ OffsetLimit(cnt) \in Nat /\ OffsetLimit(cnt) <= most
    <3>5. PICK m \in Int : \A n \in RcSleeps : n <= m
      BY OscNumbers
    <3>1. \A n \in RcSleeps : /\ OffsetLimit(n) \in Int /\ OffsetLimit(n) >= 256
                              /\ OffsetLimit(n) <= 256 * m
      <4>1. TAKE n \in RcSleeps
      <4>2. n \in Nat /\ n # 0 /\ n <= m
        BY <3>5, OscNumbers
      <4>3. n \div 9600 \in Nat /\ n \div 9600 <= n
        BY <4>2
      <4>4. OffsetLimit(n) <= 256 * m
        BY <4>2, <4>3 DEF OffsetLimit
      <4>5. QED
        BY <4>4, LimitIsPositive
    <3>2. limits \in SUBSET Int /\ OffsetLimit(cnt) \in limits
          /\ limits # {} /\ \E l \in Int : \A x \in limits : x <= l
      <4>1. /\ limits \in SUBSET Int /\ OffsetLimit(cnt) \in limits
            /\ \A x \in limits : x <= 256 * m
        BY <3>1
      <4> HIDE DEF limits
      <4>2. 256 * m \in Int
        OBVIOUS
      <4>3. QED
        BY <4>1, <4>2
    <3> HIDE DEF limits
    <3>3. most \in limits /\ OffsetLimit(cnt) <= most
      BY <3>2, LargestExists
    <3> HIDE DEF most
    <3>4. QED
      BY <3>1, <3>2, <3>3
  <2> HIDE DEF most, top, bottom
  <2>6. (OffsetLimit(cnt) * hi) \div 2^18 \in Int /\ (most * top) \div 2^18 \in Int
        /\ (OffsetLimit(cnt) * hi) \div 2^18 <= (most * top) \div 2^18
    <3> DEFINE m == 2^18
    <3>1. m \in Nat \ {0}
      OBVIOUS
    <3>2. OffsetLimit(cnt) * hi <= most * top
      <4>1. OffsetLimit(cnt) * hi <= most * hi /\ most * hi <= most * top
        BY <2>2, <2>3, <2>5
      <4>2. QED
        BY <2>2, <2>3, <2>5, <4>1
    <3> HIDE DEF m
    <3>3. (OffsetLimit(cnt) * hi) \div m \in Int /\ (most * top) \div m \in Int
          /\ (OffsetLimit(cnt) * hi) \div m <= (most * top) \div m
      <4>1. OffsetLimit(cnt) * hi \in Int /\ most * top \in Int
        BY <2>2, <2>3, <2>5
      <4>2. QED
        BY <3>1, <3>2, <4>1, DivMonotone
    <3>4. QED
      BY <3>3 DEF m
  <2>7. oscDone.calib \in Int
    BY DEF OscTypes, DoneRecords
  <2> DEFINE x == (OffsetLimit(cnt) * hi) \div 2^18
             y == (most * top) \div 2^18
  <2>8. /\ x \in Int /\ y \in Int /\ x <= y
        /\ lo - (x + 1) <= oscDone.calib /\ oscDone.calib <= hi + (x + 1) /\ off = y + 1
    BY <2>1, <2>6
  <2>9. hi <= top
    BY <2>3
  <2> HIDE DEF x, y, off
  <2>10. QED
    BY <2>2, <2>3, <2>4, <2>7, <2>8, <2>9
<1> HIDE DEF limits, negatives
<1>3. QED
  BY <1>1, <1>2 DEF CalibBounded, limits, negatives

(* The oscillators' invariant is all that OscillatorsSound says.           *)
LEMMA OscImplied ==
  ASSUME OscIInv
  PROVE  OscillatorsSound
<1>1. SourceKept
  BY DEF OscIInv, SourceHeld, SourceKept
<1>2. TrimsKept
  BY DEF OscIInv, TrimsHeld, TrimsKept
<1>3. CalibBounded
  BY CalibWithin DEF OscIInv
<1>4. QED
  BY <1>1, <1>2, <1>3 DEF OscIInv, OscillatorsSound

-----------------------------------------------------------------------------
(* The port.  Of a write, the bytes up to portBuff have left the caller:   *)
(* the first portDone are written, the next are in the internal register,  *)
(* then those of the data register, without a gap.  Of a read, the bytes   *)
(* up to portDone have been read: the last are in the internal register,   *)
(* those before in the data register from portIdx on, and the first        *)
(* portBuff with the caller.                                               *)
Bytes(from, n) == [i \in 1 .. n |-> from + i]
SlotsFrom(first, n, before) ==      \* n bytes after `before', from slot `first' on
  [i \in 0 .. 3 |-> IF first <= i /\ i < first + n THEN before + (i - first) + 1 ELSE 0]

PortTyped ==
  /\ portIdx \in 0 .. 3 /\ portLeft \in Nat /\ portBuff \in Nat /\ portDone \in Nat
  /\ portCall.len \in Nat

(* a bytes in the internal register, n in the data register.               *)
WriteAt(a, n) ==
  /\ portGot = <<>>
  /\ portBuff = portDone + a + n /\ portCall.len = portBuff + portLeft
  /\ portShift = Bytes(portDone, a)
  /\ portSlots = SlotsFrom(0, n, portDone + a)

WritePlace(a, n) ==
  /\ portPc = "start" =>
       portIdx = 0 /\ portLeft > 0 /\ portBusy = "write" /\ a + n > 0 /\ (a = 0 \/ n = 0)
  /\ portPc = "write" => n = portIdx /\ a > 0 /\ portBusy = "write"
  /\ portPc = "tx_irq" => portIdx = 0 /\ portBusy = "write" /\ n \in {0, 4} /\ (n = 0 => a > 0)
  /\ portPc = "analog_wait" => portLeft = 0 /\ portBusy = IF a + n > 0 THEN "write" ELSE "no"
  /\ portPc = "return" => portLeft = 0 /\ a + n = 0 /\ portBusy = "no"

WritePcs == {"start", "write", "tx_irq", "analog_wait", "return"}
PortWriting ==
  /\ portCall.op = "write" /\ portPc \in WritePcs
  /\ \E a, n \in 0 .. 4 : WriteAt(a, n) /\ WritePlace(a, n)

ReadAt(a, n) ==
  /\ portGot = Bytes(0, portBuff)
  /\ portDone = portBuff + n + a /\ portCall.len = portBuff + portLeft
  /\ portShift = Bytes(portBuff + n, a)
  /\ portSlots = SlotsFrom(portIdx, n, portBuff)

ReadPlace(a, n) ==
  /\ portPc = "rx_irq" =>
       portIdx = 0 /\ portLeft > 4 /\ portDone < portCall.len /\ portBusy = "read" /\ n \in {0, 4}
  /\ portPc = "read" =>
       n = 4 - portIdx /\ portLeft > n /\ portDone < portCall.len /\ portBusy = "read"
  /\ portPc = "analog_wait" =>
       /\ portIdx = 0 /\ portLeft \in 1 .. 4
       /\ \/ n = 0 /\ portDone < portCall.len /\ portBusy = "read"
          \/ n = portLeft /\ a = 0 /\ portBusy = "no"
  /\ portPc = "rest" => a = 0 /\ n = portLeft /\ (n > 0 => portIdx + n <= 4) /\ portBusy = "no"
  /\ portPc = "return" => a = 0 /\ n = 0 /\ portLeft = 0 /\ portBusy = "no"

ReadPcs == {"rx_irq", "read", "analog_wait", "rest", "return"}
PortReading ==
  /\ portCall.op = "read" /\ portPc \in ReadPcs
  /\ \E a \in 0 .. 3, n \in 0 .. 4 : ReadAt(a, n) /\ ReadPlace(a, n)

PortIdle ==
  /\ portPc = "idle" /\ portSlots = NoSlots /\ portShift = <<>> /\ portBusy = "no"
  /\ portGot = Bytes(0, Len(portGot))

PortIInv == PortTyped /\ (PortIdle \/ PortWriting \/ PortReading)

(* Sequences of consecutive bytes: their elements, the first, one more.    *)
LEMMA BytesAre ==
  ASSUME NEW from \in Nat, NEW n \in Nat
  PROVE  /\ Bytes(from, n) \in Seq(Nat) /\ Len(Bytes(from, n)) = n
         /\ \A i \in 1 .. n : Bytes(from, n)[i] = from + i
         /\ DOMAIN Bytes(from, n) = 1 .. n
BY DEF Bytes

LEMMA NoBytes ==
  ASSUME NEW from \in Nat, NEW n \in Nat
  PROVE  /\ Bytes(from, 0) = <<>>
         /\ Bytes(from, n) = <<>> <=> n = 0
BY DEF Bytes

LEMMA FirstByte ==
  ASSUME NEW from \in Nat, NEW n \in Nat \ {0}
  PROVE  Head(Bytes(from, n)) = from + 1 /\ Tail(Bytes(from, n)) = Bytes(from + 1, n - 1)
<1>1. Bytes(from, n) \in Seq(Nat) /\ Len(Bytes(from, n)) = n /\ Bytes(from, n) # <<>>
  BY BytesAre, NoBytes
<1>2. Head(Bytes(from, n)) = from + 1
  BY <1>1 DEF Bytes
<1>3. /\ Tail(Bytes(from, n)) \in Seq(Nat) /\ Len(Tail(Bytes(from, n))) = n - 1
      /\ \A i \in 1 .. n - 1 : Tail(Bytes(from, n))[i] = from + (i + 1)
  <2>1. /\ Tail(Bytes(from, n)) \in Seq(Nat) /\ Len(Tail(Bytes(from, n))) = n - 1
        /\ \A i \in 1 .. n - 1 : Tail(Bytes(from, n))[i] = Bytes(from, n)[i + 1]
    BY <1>1, HeadTailProperties
  <2>2. ASSUME NEW i \in 1 .. n - 1 PROVE Bytes(from, n)[i + 1] = from + (i + 1)
    <3>1. i + 1 \in 1 .. n /\ n \in Nat
      OBVIOUS
    <3> QED BY <3>1, BytesAre
  <2> QED BY <2>1, <2>2
<1>4. /\ Bytes(from + 1, n - 1) \in Seq(Nat) /\ Len(Bytes(from + 1, n - 1)) = n - 1
      /\ \A i \in 1 .. n - 1 : Bytes(from + 1, n - 1)[i] = (from + 1) + i
  <2>1. from + 1 \in Nat /\ n - 1 \in Nat
    OBVIOUS
  <2> QED BY <2>1, BytesAre
<1>5. \A i \in 1 .. n - 1 : Tail(Bytes(from, n))[i] = Bytes(from + 1, n - 1)[i]
  BY <1>3, <1>4
<1> QED
  BY <1>2, <1>3, <1>4, <1>5, SeqEqual

LEMMA OneByteMore ==
  ASSUME NEW from \in Nat, NEW n \in Nat
  PROVE  Append(Bytes(from, n), from + n + 1) = Bytes(from, n + 1)
<1> DEFINE s == Append(Bytes(from, n), from + n + 1)
           t == Bytes(from, n + 1)
<1>1. /\ s \in Seq(Nat) /\ Len(s) = n + 1
      /\ \A i \in 1 .. n : s[i] = Bytes(from, n)[i]
      /\ s[n + 1] = from + n + 1
  <2>1. Bytes(from, n) \in Seq(Nat) /\ Len(Bytes(from, n)) = n /\ from + n + 1 \in Nat
    BY BytesAre
  <2> QED BY <2>1, AppendProperties
<1>2. /\ t \in Seq(Nat) /\ Len(t) = n + 1
      /\ \A i \in 1 .. n + 1 : t[i] = from + i
  <2>1. n + 1 \in Nat
    OBVIOUS
  <2> QED BY <2>1, BytesAre
<1>3. \A i \in 1 .. n : s[i] = from + i
  BY <1>1, BytesAre
<1> HIDE DEF s, t
<1>4. ASSUME NEW i \in 1 .. n + 1 PROVE s[i] = t[i]
  <2>1. CASE i = n + 1
    BY <2>1, <1>1, <1>2
  <2>2. CASE i # n + 1
    BY <2>2, <1>2, <1>3
  <2> QED BY <2>1, <2>2
<1>5. s = t
  BY <1>1, <1>2, <1>4, SeqEqual
<1> QED
  BY <1>5 DEF s, t

(* The slots of the data register: which are filled, a byte put into the   *)
(* next one, one taken from the first, and all at once.                    *)
LEMMA SlotsAre ==
  ASSUME NEW first \in 0 .. 3, NEW n \in 0 .. 4, NEW before \in Nat, first + n <= 4 \/ n = 0
  PROVE  /\ Filled(SlotsFrom(first, n, before)) = first .. first + n - 1
         /\ (SlotsFrom(first, n, before) = NoSlots) <=> n = 0
         /\ \A i \in 0 .. 3 :
              SlotsFrom(first, n, before)[i] =
                IF first <= i /\ i < first + n THEN before + (i - first) + 1 ELSE 0
<1>1. \A i \in 0 .. 3 :
        SlotsFrom(first, n, before)[i] =
          IF first <= i /\ i < first + n THEN before + (i - first) + 1 ELSE 0
  BY DEF SlotsFrom
<1>2. Filled(SlotsFrom(first, n, before)) = first .. first + n - 1
  BY <1>1 DEF Filled
<1>3. n = 0 => SlotsFrom(first, n, before) = NoSlots
  BY DEF SlotsFrom, NoSlots
<1>4. n # 0 => SlotsFrom(first, n, before)[first] # 0 /\ NoSlots[first] = 0
  BY <1>1 DEF NoSlots
<1> QED
  BY <1>1, <1>2, <1>3, <1>4

LEMMA SlotPut ==
  ASSUME NEW n \in 0 .. 3, NEW before \in Nat
  PROVE  [SlotsFrom(0, n, before) EXCEPT ![n] = before + n + 1] = SlotsFrom(0, n + 1, before)
<1>1. ASSUME NEW i \in 0 .. 3
      PROVE  (IF i = n THEN before + n + 1
              ELSE IF 0 <= i /\ i < 0 + n THEN before + (i - 0) + 1 ELSE 0)
               = (IF 0 <= i /\ i < 0 + (n + 1) THEN before + (i - 0) + 1 ELSE 0)
  OBVIOUS
<1>2. [SlotsFrom(0, n, before) EXCEPT ![n] = before + n + 1]
        = [i \in 0 .. 3 |-> IF i = n THEN before + n + 1
             ELSE IF 0 <= i /\ i < 0 + n THEN before + (i - 0) + 1 ELSE 0]
  BY DEF SlotsFrom
<1> QED
  BY <1>1, <1>2 DEF SlotsFrom

LEMMA SlotTaken ==
  ASSUME NEW first \in 0 .. 3, NEW n \in 1 .. 4, NEW before \in Nat, first + n <= 4,
         NEW slots, slots = SlotsFrom(first, n, before), NEW left, left = [slots EXCEPT ![first] = 0]
  PROVE  left = SlotsFrom(IF first = 3 THEN 0 ELSE first + 1, n - 1, before + 1)
<1> DEFINE next == IF first = 3 THEN 0 ELSE first + 1
<1>1. ASSUME NEW i \in 0 .. 3
      PROVE  (IF i = first THEN 0
              ELSE IF first <= i /\ i < first + n THEN before + (i - first) + 1 ELSE 0)
               = (IF next <= i /\ i < next + (n - 1) THEN (before + 1) + (i - next) + 1 ELSE 0)
  <2>1. CASE first = 3
    BY <2>1
  <2>2. CASE first # 3
    BY <2>2
  <2> QED BY <2>1, <2>2
<1>2. left = [i \in 0 .. 3 |-> IF i = first THEN 0
                ELSE IF first <= i /\ i < first + n THEN before + (i - first) + 1 ELSE 0]
  BY DEF SlotsFrom
<1> HIDE DEF next
<1>3. SlotsFrom(next, n - 1, before + 1) =
        [i \in 0 .. 3 |-> IF next <= i /\ i < next + (n - 1) THEN (before + 1) + (i - next) + 1 ELSE 0]
  BY DEF SlotsFrom
<1>4. left = SlotsFrom(next, n - 1, before + 1)
  BY <1>1, <1>2, <1>3
<1> QED
  BY <1>4 DEF next

LEMMA SlotsInOrder ==
  ASSUME NEW n \in 1 .. 4, NEW before \in Nat
  PROVE  InOrder(SlotsFrom(0, n, before)) = Bytes(before, n)
<1> DEFINE slots == SlotsFrom(0, n, before)
           ones == {i \in 0 .. 3 : \A j \in 0 .. i : slots[j] # 0}
<1>1. \A i \in 0 .. 3 : slots[i] = IF i < n THEN before + i + 1 ELSE 0
  BY DEF SlotsFrom
<1>2. ones = 0 .. n - 1
  <2>1. ASSUME NEW i \in 0 .. 3 PROVE (\A j \in 0 .. i : slots[j] # 0) <=> i < n
    BY <1>1
  <2> QED BY <2>1
<1>3. (CHOOSE k \in 1 .. 4 : k - 1 \in ones /\ k \notin ones) = n
  BY <1>2
<1>4. ones # {}
  BY <1>2
<1>5. InOrder(slots) = [i \in 1 .. n |-> slots[i - 1]]
  BY <1>3, <1>4 DEF InOrder
<1>6. [i \in 1 .. n |-> slots[i - 1]] = [i \in 1 .. n |-> before + i]
  <2>1. ASSUME NEW i \in 1 .. n PROVE slots[i - 1] = before + i
    BY <1>1
  <2> HIDE DEF slots
  <2> QED BY <2>1
<1> QED
  BY <1>5, <1>6 DEF Bytes

LEMMA SlotsStored ==
  ASSUME NEW n \in 0 .. 4
  PROVE  [i \in 0 .. 3 |-> IF i < n THEN i + 1 ELSE 0] = SlotsFrom(0, n, 0)
BY DEF SlotsFrom

LEMMA SlotsLoaded ==
  ASSUME NEW n \in 0 .. 4, NEW before \in Nat
  PROVE  [i \in 0 .. 3 |-> IF i < Len(Bytes(before, n)) THEN Bytes(before, n)[i + 1] ELSE 0]
           = SlotsFrom(0, n, before)
<1>0. n \in Nat
  OBVIOUS
<1>1. Len(Bytes(before, n)) = n /\ \A i \in 1 .. n : Bytes(before, n)[i] = before + i
  BY <1>0, BytesAre
<1>2. ASSUME NEW i \in 0 .. 3
      PROVE  (IF i < n THEN Bytes(before, n)[i + 1] ELSE 0) =
               IF 0 <= i /\ i < 0 + n THEN before + (i - 0) + 1 ELSE 0
  BY <1>1
<1> QED
  BY <1>1, <1>2 DEF SlotsFrom

LEMMA SlotsEmptyOrFull ==
  ASSUME NEW n \in 0 .. 4, NEW before \in Nat
  PROVE  /\ (Filled(SlotsFrom(0, n, before)) = {}) <=> n = 0
         /\ (Filled(SlotsFrom(0, n, before)) = 0 .. 3) <=> n = 4
         /\ SlotsFrom(0, n, before)[0] = IF n = 0 THEN 0 ELSE before + 1
<1>0. 0 \in 0 .. 3 /\ 0 + n <= 4
  OBVIOUS
<1>1. Filled(SlotsFrom(0, n, before)) = 0 .. 0 + n - 1
  BY <1>0, SlotsAre
<1>2. n > 0 => 0 \in 0 .. 0 + n - 1
  OBVIOUS
<1>3. n # 4 => 3 \notin 0 .. 0 + n - 1
  OBVIOUS
<1>4. n = 0 => 0 .. 0 + n - 1 = {}
  OBVIOUS
<1>5. n = 4 => 0 .. 0 + n - 1 = 0 .. 3
  OBVIOUS
<1>6. SlotsFrom(0, n, before)[0] = IF n = 0 THEN 0 ELSE before + 1
  BY DEF SlotsFrom
<1>7. (Filled(SlotsFrom(0, n, before)) = {}) <=> n = 0
  <2>1. CASE n = 0
    BY <1>1, <1>4, <2>1
  <2>2. CASE n # 0
    <3>1. n > 0
      BY <2>2
    <3> QED BY <1>1, <1>2, <2>2, <3>1, Zenon
  <2> QED BY <2>1, <2>2
<1>8. (Filled(SlotsFrom(0, n, before)) = 0 .. 3) <=> n = 4
  BY <1>1, <1>3, <1>5
<1> QED
  BY <1>6, <1>7, <1>8

-----------------------------------------------------------------------------
(* The steps of the caller and of the hardware.                            *)
LEMMA PortStarts == PortInit => PortIInv
<1> SUFFICES ASSUME PortInit PROVE PortIInv
  OBVIOUS
<1>1. Bytes(0, Len(<<>>)) = <<>>
  BY NoBytes
<1> QED
  BY <1>1 DEF PortInit, PortIInv, PortTyped, PortIdle

(* Which of the three an operation starts from.                            *)
LEMMA PortWritingNow ==
  ASSUME PortIInv, portBusy = "write" \/ portPc \in {"start", "write", "tx_irq"}
  PROVE  PortWriting
BY DEF PortIInv, PortIdle, PortReading, ReadPlace, ReadPcs

LEMMA PortReadingNow ==
  ASSUME PortIInv, portBusy = "read" \/ portPc \in {"rx_irq", "read", "rest"}
  PROVE  PortReading
BY DEF PortIInv, PortIdle, PortWriting, WritePlace, WritePcs

(* The hardware takes bytes, and moves one.                                *)
LEMMA PortTakesStep ==
  ASSUME PortIInv, PortTakes
  PROVE  PortIInv'
<1>1. PortWriting
  BY PortWritingNow DEF PortTakes
<1> PICK a \in 0 .. 4, n \in 0 .. 4 : WriteAt(a, n) /\ WritePlace(a, n)
  BY <1>1 DEF PortWriting
<1>2. portDone \in Nat
  BY DEF PortIInv, PortTyped
<1>3. a = 0
  BY <1>2, NoBytes DEF PortTakes, WriteAt
<1>4. n # 0
  BY <1>2, <1>3, SlotsEmptyOrFull DEF PortTakes, WriteAt
<1>5. portShift' = Bytes(portDone, n)
  <2>1. portSlots = SlotsFrom(0, n, portDone)
    BY <1>2, <1>3 DEF WriteAt
  <2> QED BY <1>2, <1>4, <2>1, SlotsInOrder DEF PortTakes
<1>6. portSlots' = SlotsFrom(0, 0, portDone + n)
  BY <1>2, SlotsAre DEF PortTakes
<1>7. WriteAt(n, 0)'
  BY <1>2, <1>3, <1>5, <1>6 DEF WriteAt, PortTakes, portCpu
<1>8. WritePlace(n, 0)'
  BY <1>3, <1>4 DEF WritePlace, PortTakes, portCpu
<1>9. PortWriting'
  BY <1>1, <1>7, <1>8 DEF PortWriting, PortTakes, portCpu
<1> QED
  BY <1>9 DEF PortIInv, PortTyped, PortTakes, portCpu

LEMMA PortWritesStep ==
  ASSUME PortIInv, PortWrites
  PROVE  PortIInv'
<1>1. PortWriting
  BY PortWritingNow DEF PortWrites
<1> PICK a \in 0 .. 4, n \in 0 .. 4 : WriteAt(a, n) /\ WritePlace(a, n)
  BY <1>1 DEF PortWriting
<1>2. portDone \in Nat
  BY DEF PortIInv, PortTyped
<1>3. a # 0 /\ a \in Nat
  BY <1>2, NoBytes DEF PortWrites, WriteAt
<1>4. Head(portShift) = portDone + 1 /\ Tail(portShift) = Bytes(portDone + 1, a - 1) /\ Len(portShift) = a
  BY <1>2, <1>3, FirstByte, BytesAre DEF WriteAt
<1>5. portDone' = portDone + 1 /\ portShift' = Bytes(portDone + 1, a - 1)
  BY <1>4 DEF PortWrites
<1>6. portSlots' = SlotsFrom(0, n, portDone + 1 + (a - 1))
  <2>1. portDone + 1 + (a - 1) = portDone + a
    BY <1>2
  <2> QED BY <2>1 DEF PortWrites, WriteAt
<1>7. (Filled(portSlots) = {}) <=> n = 0
  <2>1. portDone + a \in Nat
    BY <1>2
  <2> QED BY <2>1, SlotsEmptyOrFull DEF WriteAt
<1>8. WriteAt(a - 1, n)'
  BY <1>2, <1>5, <1>6 DEF WriteAt, PortWrites, portCpu
<1>9. WritePlace(a - 1, n)'
  <2>1. portBusy' = IF a = 1 /\ n = 0 THEN "no" ELSE "write"
    BY <1>4, <1>7 DEF PortWrites
  <2>2. a = 1 => Waiting
    BY <1>4 DEF PortWrites
  <2>3. /\ portPc' = portPc /\ portIdx' = portIdx /\ portLeft' = portLeft
    BY DEF PortWrites, portCpu
  <2>4. CASE portPc \in {"start", "write"}
    <3>1. a # 1
      BY <2>2, <2>4 DEF Waiting
    <3> QED BY <1>3, <2>1, <2>3, <2>4, <3>1 DEF WritePlace
  <2>5. CASE portPc = "tx_irq"
    <3>1. a = 1 => n # 0
      BY <1>7, <2>2, <2>5 DEF Waiting, TXBUFF_IRQ
    <3> QED BY <1>3, <2>1, <2>3, <2>5, <3>1 DEF WritePlace
  <2>6. CASE portPc = "analog_wait"
    BY <1>3, <2>1, <2>3, <2>6 DEF WritePlace
  <2>7. CASE portPc = "return"
    BY <1>3, <2>7 DEF WritePlace
  <2> QED
    BY <1>1, <2>4, <2>5, <2>6, <2>7 DEF PortWriting, WritePcs
<1>10. PortWriting'
  <2>1. a - 1 \in 0 .. 4
    BY <1>3
  <2> QED BY <1>1, <1>8, <1>9, <2>1 DEF PortWriting, PortWrites, portCpu
<1> QED
  BY <1>2, <1>5, <1>10 DEF PortIInv, PortTyped, PortWrites, portCpu

LEMMA PortReadsStep ==
  ASSUME PortIInv, PortReads
  PROVE  PortIInv'
<1>1. PortReading
  BY PortReadingNow DEF PortReads
<1> PICK a \in 0 .. 3, n \in 0 .. 4 : ReadAt(a, n) /\ ReadPlace(a, n)
  BY <1>1 DEF PortReading
<1>2. portDone \in Nat /\ portBuff \in Nat /\ portLeft \in Nat /\ portCall.len \in Nat /\ portIdx \in 0 .. 3
  BY DEF PortIInv, PortTyped
<1>3. Append(portShift, portDone + 1) = Bytes(portBuff + n, a + 1)
  <2>1. portBuff + n \in Nat /\ a \in Nat /\ portBuff + n + a + 1 = portDone + 1
    BY <1>2 DEF ReadAt
  <2> QED BY <2>1, OneByteMore DEF ReadAt
<1>4. Len(Append(portShift, portDone + 1)) = a + 1
  <2>1. portBuff + n \in Nat /\ a + 1 \in Nat
    BY <1>2
  <2> QED BY <1>3, <2>1, BytesAre
<1> DEFINE last == portDone + 1 = portCall.len
<1>5. /\ last \/ a + 1 = 4 => Waiting /\ Filled(portSlots) = {}
      /\ portDone' = portDone + 1
      /\ portShift' = IF last \/ a + 1 = 4 THEN <<>> ELSE Bytes(portBuff + n, a + 1)
      /\ portSlots' = IF last \/ a + 1 = 4
           THEN [i \in 0 .. 3 |-> IF i < Len(Bytes(portBuff + n, a + 1))
                                    THEN Bytes(portBuff + n, a + 1)[i + 1] ELSE 0]
           ELSE portSlots
      /\ portBusy' = IF last THEN "no" ELSE "read"
  BY <1>3, <1>4 DEF PortReads
<1>6. /\ portPc' = portPc /\ portIdx' = portIdx /\ portLeft' = portLeft /\ portBuff' = portBuff
      /\ portCall' = portCall /\ portGot' = portGot
  BY DEF PortReads, portCpu
<1>7. portPc \in {"rx_irq", "read", "analog_wait"} /\ portDone < portCall.len /\ portBusy = "read"
  BY <1>1 DEF ReadPlace, PortReads, PortReading, ReadPcs
<1>8. CASE ~(last \/ a + 1 = 4)
  <2>1. a + 1 \in 0 .. 3
    BY <1>8
  <2>2. ReadAt(a + 1, n)'
    BY <1>2, <1>5, <1>6, <1>8 DEF ReadAt
  <2>3. portDone' < portCall'.len
    BY <1>2, <1>5, <1>6, <1>7, <1>8
  <2>4. ReadPlace(a + 1, n)'
    BY <1>2, <1>5, <1>6, <1>7, <1>8, <2>3 DEF ReadPlace
  <2>5. PortReading'
    BY <1>1, <1>6, <2>1, <2>2, <2>4 DEF PortReading
  <2> QED
    BY <1>2, <1>5, <1>6, <2>5 DEF PortIInv, PortTyped
<1>9. CASE last \/ a + 1 = 4
  <2>1. Waiting /\ Filled(portSlots) = {}
    BY <1>5, <1>9
  <2>2. portPc # "read"
    BY <2>1 DEF Waiting
  <2>3. portIdx = 0
    BY <1>7, <2>2 DEF ReadPlace
  <2>4. n = 0
    BY <1>2, <2>1, <2>3, SlotsEmptyOrFull DEF ReadAt
  <2>5. portSlots' = SlotsFrom(0, a + 1, portBuff)
    <3>1. a + 1 \in 0 .. 4 /\ portBuff + n = portBuff
      BY <1>2, <2>4
    <3> QED BY <1>2, <1>5, <1>9, <3>1, SlotsLoaded
  <2>6. portDone = portBuff + a /\ portCall.len = portBuff + portLeft
    BY <1>2, <2>4 DEF ReadAt
  <2>7. portShift' = Bytes(portBuff + (a + 1), 0)
    BY <1>2, <1>5, <1>9, NoBytes
  <2>8. ReadAt(0, a + 1)'
    BY <1>2, <1>5, <1>6, <2>3, <2>5, <2>6, <2>7 DEF ReadAt
  <2>9. ReadPlace(0, a + 1)'
    <3>1. CASE portPc = "rx_irq"
      BY <1>2, <1>5, <1>6, <1>9, <2>3, <2>6, <3>1 DEF ReadPlace
    <3>2. CASE portPc = "analog_wait"
      <4>1. portLeft \in 1 .. 4
        BY <3>2 DEF ReadPlace
      <4>2. last /\ portLeft = a + 1
        BY <1>2, <1>7, <1>9, <2>6, <4>1
      <4> QED BY <1>5, <1>6, <2>3, <3>2, <4>1, <4>2 DEF ReadPlace
    <3> QED BY <1>7, <2>2, <3>1, <3>2
  <2>10. PortReading'
    BY <1>1, <1>6, <2>8, <2>9 DEF PortReading
  <2> QED
    BY <1>2, <1>5, <1>6, <2>10 DEF PortIInv, PortTyped
<1> QED
  BY <1>8, <1>9

(* The calls begin, and go on place by place.                              *)
LEMMA PortBeginsWrite ==
  ASSUME PortIInv, NEW len \in Nat, NEW n \in 1 .. 4, n <= len, PortBegin("write", len),
         portSlots' = [i \in 0 .. 3 |-> IF i < n THEN i + 1 ELSE 0],
         portBuff' = n, portLeft' = len - n, portBusy' = "write", portShift' = portShift,
         portPc' = IF n = len THEN "analog_wait" ELSE "start"
  PROVE  PortIInv'
<1>1. PortIdle
  BY DEF PortIInv, PortWriting, PortReading, WritePcs, ReadPcs, PortBegin
<1>2. portSlots' = SlotsFrom(0, n, 0) /\ portShift' = Bytes(0, 0)
  BY <1>1, SlotsStored, NoBytes DEF PortIdle
<1>3. portCall' = [op |-> "write", len |-> len] /\ portIdx' = 0 /\ portGot' = <<>> /\ portDone' = 0
  BY DEF PortBegin
<1>4. WriteAt(0, n)'
  BY <1>2, <1>3 DEF WriteAt
<1>5. WritePlace(0, n)'
  BY <1>3 DEF WritePlace
<1>6. PortWriting'
  BY <1>3, <1>4, <1>5 DEF PortWriting, WritePcs
<1> QED
  BY <1>3, <1>6 DEF PortIInv, PortTyped

LEMMA PortBeginsRead ==
  ASSUME PortIInv, NEW len \in Nat \ {0}, PortBegin("read", len),
         portBuff' = 0, portLeft' = len, portBusy' = "read", UNCHANGED <<portSlots, portShift>>,
         portPc' = IF len > 4 THEN "rx_irq" ELSE "analog_wait"
  PROVE  PortIInv'
<1>1. PortIdle
  BY DEF PortIInv, PortWriting, PortReading, WritePcs, ReadPcs, PortBegin
<1>2. portSlots' = SlotsFrom(0, 0, 0) /\ portShift' = Bytes(0, 0)
  <2>1. 0 \in 0 .. 3 /\ 0 \in 0 .. 4 /\ 0 \in Nat
    OBVIOUS
  <2> QED BY <1>1, <2>1, SlotsAre, NoBytes DEF PortIdle
<1>3. portCall' = [op |-> "read", len |-> len] /\ portIdx' = 0 /\ portGot' = Bytes(0, 0) /\ portDone' = 0
  BY NoBytes DEF PortBegin
<1>4. ReadAt(0, 0)'
  BY <1>2, <1>3 DEF ReadAt
<1>5. ReadPlace(0, 0)'
  BY <1>3 DEF ReadPlace
<1>6. PortReading'
  BY <1>3, <1>4, <1>5 DEF PortReading, ReadPcs
<1> QED
  BY <1>3, <1>6 DEF PortIInv, PortTyped

LEMMA PortCallsStep ==
  ASSUME PortIInv,
         \/ \E n \in {1, 2, 4} : analog_write_reg(n) \/ analog_read_reg(n)
         \/ \E len \in PortLengths : analog_write_buff(len) \/ analog_read_buff(len)
  PROVE  PortIInv'
<1>1. ASSUME NEW n \in {1, 2, 4}, analog_write_reg(n) PROVE PortIInv'
  <2>1. n \in Nat /\ n \in 1 .. 4 /\ n <= n /\ n - n = 0
    OBVIOUS
  <2> QED BY <1>1, <2>1, PortBeginsWrite DEF analog_write_reg
<1>2. ASSUME NEW n \in {1, 2, 4}, analog_read_reg(n) PROVE PortIInv'
  <2>1. n \in Nat \ {0} /\ ~(n > 4)
    OBVIOUS
  <2> QED BY <1>2, <2>1, PortBeginsRead DEF analog_read_reg
<1>3. ASSUME NEW len \in PortLengths, analog_write_buff(len) PROVE PortIInv'
  <2>1. len \in Nat \ {0}
    BY PortAssumption
  <2> DEFINE n == IF len <= 4 THEN len ELSE 4
  <2>2. n \in 1 .. 4 /\ n <= len /\ ((n = len) <=> len <= 4)
    BY <2>1
  <2>3. /\ portSlots' = [i \in 0 .. 3 |-> IF i < n THEN i + 1 ELSE 0]
        /\ portBuff' = n /\ portLeft' = len - n
        /\ portPc' = IF len <= 4 THEN "analog_wait" ELSE "start"
        /\ PortBegin("write", len) /\ portBusy' = "write" /\ portShift' = portShift
    BY <1>3 DEF analog_write_buff
  <2> HIDE DEF n
  <2> QED BY <2>1, <2>2, <2>3, PortBeginsWrite
<1>4. ASSUME NEW len \in PortLengths, analog_read_buff(len) PROVE PortIInv'
  <2>1. len \in Nat \ {0}
    BY PortAssumption
  <2> QED BY <1>4, <2>1, PortBeginsRead DEF analog_read_buff
<1> QED
  BY <1>1, <1>2, <1>3, <1>4

LEMMA PortWriterSteps ==
  ASSUME PortIInv, WriteStarted \/ WriteByte \/ WriteIrq
  PROVE  PortIInv'
<1>1. PortWriting
  BY PortWritingNow DEF WriteStarted, WriteByte, WriteIrq
<1> PICK a \in 0 .. 4, n \in 0 .. 4 : WriteAt(a, n) /\ WritePlace(a, n)
  BY <1>1 DEF PortWriting
<1>2. portDone \in Nat /\ portBuff \in Nat /\ portLeft \in Nat /\ portIdx \in 0 .. 3
  BY DEF PortIInv, PortTyped
<1>3. CASE WriteStarted
  <2>1. a # 0
    BY <1>2, <1>3, NoBytes DEF WriteStarted, WriteAt
  <2>2. n = 0
    BY <1>3, <2>1 DEF WriteStarted, WritePlace
  <2>3. WriteAt(a, n)' /\ WritePlace(a, n)'
    BY <1>2, <1>3, <2>1, <2>2 DEF WriteStarted, WriteAt, WritePlace, portHw
  <2> QED
    BY <1>1, <1>3, <2>3 DEF PortIInv, PortTyped, PortWriting, WritePcs, WriteStarted, portHw
<1>4. CASE WriteIrq
  <2>1. n = 0
    <3>1. portDone + a \in Nat
      BY <1>2
    <3> QED BY <1>4, <3>1, SlotsEmptyOrFull DEF WriteIrq, TXBUFF_IRQ, WriteAt
  <2>2. WriteAt(a, n)' /\ WritePlace(a, n)'
    BY <1>2, <1>4, <2>1 DEF WriteIrq, WriteAt, WritePlace, portHw
  <2> QED
    BY <1>1, <1>4, <2>2 DEF PortIInv, PortTyped, PortWriting, WritePcs, WriteIrq, portHw
<1>5. CASE WriteByte /\ portLeft = 0
  <2>1. WriteAt(a, n)' /\ WritePlace(a, n)'
    BY <1>2, <1>5 DEF WriteByte, WriteAt, WritePlace
  <2> QED
    BY <1>1, <1>5, <2>1 DEF PortIInv, PortTyped, PortWriting, WritePcs, WriteByte
<1>6. CASE WriteByte /\ portLeft # 0
  <2>1. n = portIdx /\ a > 0 /\ portBusy = "write"
    BY <1>6 DEF WriteByte, WritePlace
  <2>2. /\ portSlots' = [portSlots EXCEPT ![portIdx] = portBuff + 1]
        /\ portBuff' = portBuff + 1 /\ portLeft' = portLeft - 1
        /\ portIdx' = (portIdx + 1) % 4
        /\ portPc' = IF portIdx = 3 THEN "tx_irq" ELSE "write"
        /\ UNCHANGED <<portCall, portGot, portShift, portDone, portBusy>>
    BY <1>6 DEF WriteByte
  <2>3. portIdx' = IF portIdx = 3 THEN 0 ELSE portIdx + 1
    BY <1>2, <2>2
  <2>4. portSlots' = SlotsFrom(0, n + 1, portDone + a)
    <3>1. n \in 0 .. 3 /\ portDone + a \in Nat /\ portBuff + 1 = portDone + a + n + 1
      BY <1>2, <2>1 DEF WriteAt
    <3> QED BY <2>1, <2>2, <3>1, SlotPut DEF WriteAt
  <2>5. WriteAt(a, n + 1)'
    BY <1>2, <2>2, <2>4 DEF WriteAt
  <2>6. WritePlace(a, n + 1)'
    BY <1>2, <2>1, <2>2, <2>3 DEF WritePlace
  <2>7. n + 1 \in 0 .. 4
    BY <1>2, <2>1
  <2>8. PortWriting'
    BY <1>1, <2>2, <2>5, <2>6, <2>7 DEF PortWriting, WritePcs
  <2> QED
    BY <1>2, <1>6, <2>2, <2>3, <2>8 DEF PortIInv, PortTyped
<1> QED
  BY <1>3, <1>4, <1>5, <1>6

(* The caller takes a byte of a read from the data register.               *)
LEMMA PortTakesByte ==
  ASSUME PortIInv, NEW a \in 0 .. 3, NEW n \in 1 .. 4, ReadAt(a, n), portIdx + n <= 4,
         TakeByte, UNCHANGED <<portCall, portShift, portDone, portBusy>>, portLeft # 0
  PROVE  ReadAt(a, n - 1)' /\ PortTyped' /\ portIdx' = IF portIdx = 3 THEN 0 ELSE portIdx + 1
<1>1. portDone \in Nat /\ portBuff \in Nat /\ portLeft \in Nat /\ portIdx \in 0 .. 3 /\ portCall.len \in Nat
  BY DEF PortIInv, PortTyped
<1>2. /\ portSlots[portIdx] = portBuff + 1
      /\ portIdx' = IF portIdx = 3 THEN 0 ELSE portIdx + 1
      /\ portSlots' = SlotsFrom(portIdx', n - 1, portBuff + 1)
  <2>1. portSlots = SlotsFrom(portIdx, n, portBuff)
    BY DEF ReadAt
  <2>2. portSlots' = [portSlots EXCEPT ![portIdx] = 0] /\ portIdx' = (portIdx + 1) % 4
    BY DEF TakeByte
  <2>3. portSlots[portIdx] = portBuff + 1
    BY <1>1, <2>1 DEF SlotsFrom
  <2>4. portIdx' = IF portIdx = 3 THEN 0 ELSE portIdx + 1
    BY <1>1, <2>2
  <2>5. portSlots' = SlotsFrom(IF portIdx = 3 THEN 0 ELSE portIdx + 1, n - 1, portBuff + 1)
    BY <1>1, <2>1, <2>2, SlotTaken
  <2> QED BY <2>3, <2>4, <2>5
<1>3. portGot' = Bytes(0, portBuff + 1)
  <2>1. 0 \in Nat /\ 0 + portBuff + 1 = portBuff + 1
    BY <1>1
  <2> QED BY <1>1, <1>2, <2>1, OneByteMore DEF TakeByte, ReadAt
<1>4. portBuff' = portBuff + 1 /\ portLeft' = portLeft - 1
  BY DEF TakeByte
<1>5. portBuff' + (n - 1) = portBuff + n
  BY <1>1, <1>4
<1>6. ReadAt(a, n - 1)'
  BY <1>1, <1>2, <1>3, <1>4, <1>5 DEF ReadAt
<1> QED
  BY <1>1, <1>2, <1>4, <1>6 DEF PortTyped

LEMMA PortReaderSteps ==
  ASSUME PortIInv, ReadIrq \/ ReadByte \/ ReadRest
  PROVE  PortIInv'
<1>1. PortReading
  BY PortReadingNow DEF ReadIrq, ReadByte, ReadRest
<1> PICK a \in 0 .. 3, n \in 0 .. 4 : ReadAt(a, n) /\ ReadPlace(a, n)
  BY <1>1 DEF PortReading
<1>2. portDone \in Nat /\ portBuff \in Nat /\ portLeft \in Nat /\ portIdx \in 0 .. 3
  BY DEF PortIInv, PortTyped
<1>3. CASE ReadIrq
  <2>1. n = 4
    <3>1. portIdx = 0 /\ portSlots = SlotsFrom(0, n, portBuff)
      BY <1>3 DEF ReadIrq, ReadPlace, ReadAt
    <3> QED BY <1>2, <1>3, <3>1, SlotsEmptyOrFull DEF ReadIrq, RXBUFF_IRQ
  <2>2. ReadAt(a, n)' /\ ReadPlace(a, n)'
    BY <1>2, <1>3, <2>1 DEF ReadIrq, ReadAt, ReadPlace, portHw
  <2> QED
    BY <1>1, <1>3, <2>2 DEF PortIInv, PortTyped, PortReading, ReadPcs, ReadIrq, portHw
<1>4. CASE ReadByte
  <2>1. n = 4 - portIdx /\ portLeft > n /\ portDone < portCall.len /\ portBusy = "read" /\ n \in 1 .. 4
    BY <1>2, <1>4 DEF ReadByte, ReadPlace
  <2>2. ReadAt(a, n - 1)' /\ PortTyped' /\ portIdx' = IF portIdx = 3 THEN 0 ELSE portIdx + 1
    BY <1>2, <1>4, <2>1, PortTakesByte DEF ReadByte
  <2>3. ReadPlace(a, n - 1)'
    <3>1. /\ portPc' = IF portIdx # 3 THEN "read" ELSE IF portLeft' <= 4 THEN "analog_wait" ELSE "rx_irq"
          /\ portLeft' = portLeft - 1 /\ portCall' = portCall /\ portDone' = portDone /\ portBusy' = portBusy
      BY <1>4 DEF ReadByte, TakeByte
    <3> QED BY <1>2, <2>1, <2>2, <3>1 DEF ReadPlace
  <2> QED
    BY <1>1, <1>4, <2>1, <2>2, <2>3 DEF PortIInv, PortReading, ReadPcs, ReadByte
<1>5. CASE ReadRest /\ portLeft = 0
  <2>1. n = 0 /\ a = 0
    BY <1>5 DEF ReadRest, ReadPlace
  <2>2. ReadAt(0, 0)' /\ ReadPlace(0, 0)'
    BY <1>2, <1>5, <2>1 DEF ReadRest, ReadAt, ReadPlace
  <2> QED
    BY <1>1, <1>5, <2>2 DEF PortIInv, PortTyped, PortReading, ReadPcs, ReadRest
<1>6. CASE ReadRest /\ portLeft # 0
  <2>1. a = 0 /\ n = portLeft /\ portIdx + n <= 4 /\ portBusy = "no" /\ n \in 1 .. 4
    BY <1>2, <1>6 DEF ReadRest, ReadPlace
  <2>2. ReadAt(a, n - 1)' /\ PortTyped' /\ portIdx' = IF portIdx = 3 THEN 0 ELSE portIdx + 1
    BY <1>2, <1>6, <2>1, PortTakesByte DEF ReadRest
  <2>3. ReadPlace(a, n - 1)'
    <3>1. portPc' = "rest" /\ portLeft' = portLeft - 1 /\ portBusy' = portBusy
      BY <1>6 DEF ReadRest, TakeByte
    <3> QED BY <1>2, <2>1, <2>2, <3>1 DEF ReadPlace
  <2> QED
    BY <1>1, <1>6, <2>1, <2>2, <2>3 DEF PortIInv, PortReading, ReadPcs, ReadRest
<1> QED
  BY <1>3, <1>4, <1>5, <1>6

LEMMA PortWaitSteps ==
  ASSUME PortIInv, analog_wait \/ PortReturn
  PROVE  PortIInv'
<1> USE DEF portHw
<1>1. ~PortIdle /\ portCall' = portCall
  BY DEF PortIdle, analog_wait, PortReturn
<1>2. portDone \in Nat /\ portBuff \in Nat /\ portLeft \in Nat /\ portIdx \in 0 .. 3
  BY DEF PortIInv, PortTyped
<1>3. PortTyped'
  BY DEF PortIInv, PortTyped, analog_wait, PortReturn
<1>4. CASE analog_wait /\ PortWriting
  <2> PICK a \in 0 .. 4, n \in 0 .. 4 : WriteAt(a, n) /\ WritePlace(a, n)
    BY <1>4 DEF PortWriting
  <2>1. portPc' = "return" /\ portLeft = 0 /\ a + n = 0
    BY <1>4 DEF analog_wait, WritePlace, PortWriting
  <2>2. WriteAt(a, n)' /\ WritePlace(a, n)'
    BY <1>2, <1>4, <2>1 DEF analog_wait, WriteAt, WritePlace
  <2> QED
    BY <1>1, <1>3, <1>4, <2>1, <2>2 DEF PortIInv, PortWriting, WritePcs
<1>5. CASE analog_wait /\ PortReading
  <2> PICK a \in 0 .. 3, n \in 0 .. 4 : ReadAt(a, n) /\ ReadPlace(a, n)
    BY <1>5 DEF PortReading
  <2>1. portPc' = "rest" /\ portIdx = 0 /\ n = portLeft /\ a = 0
    BY <1>5 DEF analog_wait, ReadPlace, PortReading
  <2>2. ReadAt(a, n)' /\ ReadPlace(a, n)'
    BY <1>2, <1>5, <2>1 DEF analog_wait, ReadAt, ReadPlace
  <2> QED
    BY <1>1, <1>3, <1>5, <2>1, <2>2 DEF PortIInv, PortReading, ReadPcs
<1>6. CASE PortReturn
  <2>1. portSlots = NoSlots /\ portShift = <<>> /\ portBusy = "no" /\ portGot = Bytes(0, Len(portGot))
    <3>1. CASE PortWriting
      <4> PICK a \in 0 .. 4, n \in 0 .. 4 : WriteAt(a, n) /\ WritePlace(a, n)
        BY <3>1 DEF PortWriting
      <4>1. a = 0 /\ n = 0 /\ portBusy = "no"
        BY <1>6 DEF PortReturn, WritePlace
      <4>2. portDone + a \in Nat /\ 0 \in 0 .. 3 /\ 0 \in 0 .. 4
        BY <1>2, <4>1
      <4> QED BY <1>2, <4>1, <4>2, SlotsAre, NoBytes DEF WriteAt
    <3>2. CASE PortReading
      <4> PICK a \in 0 .. 3, n \in 0 .. 4 : ReadAt(a, n) /\ ReadPlace(a, n)
        BY <3>2 DEF PortReading
      <4>1. a = 0 /\ n = 0 /\ portBusy = "no"
        BY <1>6 DEF PortReturn, ReadPlace
      <4>2. portBuff + n \in Nat /\ 0 \in 0 .. 4
        BY <1>2, <4>1
      <4>3. Len(portGot) = portBuff
        BY <1>2, BytesAre DEF ReadAt
      <4> QED BY <1>2, <4>1, <4>2, <4>3, SlotsAre, NoBytes DEF ReadAt
    <3> QED BY <1>1, <3>1, <3>2 DEF PortIInv
  <2> QED
    BY <1>3, <1>6, <2>1 DEF PortIInv, PortIdle, PortReturn
<1> QED
  BY <1>1, <1>4, <1>5, <1>6 DEF PortIInv

LEMMA PortStep ==
  ASSUME PortIInv, [PortNext]_portVars
  PROVE  PortIInv'
<1>1. CASE UNCHANGED portVars
  BY <1>1 DEF portVars, portCpu, portHw, PortIInv, PortTyped, PortIdle, PortWriting, PortReading,
              WriteAt, WritePlace, ReadAt, ReadPlace
<1>2. CASE PortNext
  BY <1>2, PortTakesStep, PortWritesStep, PortReadsStep, PortCallsStep, PortWriterSteps,
     PortReaderSteps, PortWaitSteps DEF PortNext
<1> QED
  BY <1>1, <1>2

(* What has left the port, in either direction, is all of it in order.     *)
LEMMA PortImplied == PortIInv => PortMovesAll
<1> SUFFICES ASSUME PortIInv PROVE PortMovesAll
  OBVIOUS
<1>1. portDone \in Nat /\ portBuff \in Nat /\ portLeft \in Nat /\ portIdx \in 0 .. 3 /\ portCall.len \in Nat
  BY DEF PortIInv, PortTyped
<1>2. ASSUME NEW n \in Nat, portGot = Bytes(0, n) PROVE \A i \in DOMAIN portGot : portGot[i] = i
  BY <1>2, BytesAre
<1>3. CASE PortIdle
  <2>1. Len(portGot) \in Nat
    BY <1>3 DEF PortIdle, Bytes
  <2> QED BY <1>1, <1>2, <1>3, <2>1 DEF PortIdle, PortMovesAll, Waiting
<1>4. CASE PortWriting
  <2> PICK a \in 0 .. 4, n \in 0 .. 4 : WriteAt(a, n) /\ WritePlace(a, n)
    BY <1>4 DEF PortWriting
  <2>1. portDone + a \in Nat /\ 0 \in 0 .. 3 /\ 0 \in 0 .. 4
    BY <1>1
  <2>2. ASSUME portPc = "return"
        PROVE  portDone = portCall.len /\ portBuff = portCall.len /\ portSlots = NoSlots /\ portShift = <<>>
    <3>1. a = 0 /\ n = 0 /\ portLeft = 0
      BY <2>2 DEF WritePlace
    <3> QED BY <1>1, <2>1, <3>1, SlotsAre, NoBytes DEF WriteAt
  <2>3. \A i \in DOMAIN portGot : portGot[i] = i
    BY DEF WriteAt
  <2>4. Waiting => portBusy # "no"
    BY <1>4 DEF Waiting, WritePlace, PortWriting, WritePcs
  <2>5. portCall.op # "read" /\ portDone # -1
    BY <1>1, <1>4 DEF PortWriting
  <2> QED BY <2>2, <2>3, <2>4, <2>5 DEF PortMovesAll
<1>5. CASE PortReading
  <2> PICK a \in 0 .. 3, n \in 0 .. 4 : ReadAt(a, n) /\ ReadPlace(a, n)
    BY <1>5 DEF PortReading
  <2>1. ASSUME portPc = "return"
        PROVE  /\ portDone = portCall.len /\ portBuff = portCall.len /\ portSlots = NoSlots /\ portShift = <<>>
               /\ portGot = [i \in 1 .. portCall.len |-> i]
    <3>1. a = 0 /\ n = 0 /\ portLeft = 0
      BY <2>1 DEF ReadPlace
    <3>2. portBuff + n \in Nat /\ 0 \in 0 .. 4
      BY <1>1, <3>1
    <3>3. Bytes(0, portBuff) = [i \in 1 .. portBuff |-> i]
      BY <1>1 DEF Bytes
    <3>4. portDone = portBuff /\ portBuff = portCall.len
      BY <1>1, <3>1 DEF ReadAt
    <3>5. portSlots = NoSlots /\ portShift = <<>>
      BY <1>1, <3>1, <3>2, SlotsAre, NoBytes DEF ReadAt
    <3> QED BY <3>3, <3>4, <3>5 DEF ReadAt
  <2>2. \A i \in DOMAIN portGot : portGot[i] = i
    BY <1>1, <1>2 DEF ReadAt
  <2>3. ASSUME Waiting PROVE portBusy # "no"
    <3>1. CASE portPc = "rx_irq"
      BY <3>1 DEF ReadPlace
    <3>2. CASE portPc # "rx_irq"
      BY <1>5, <2>3, <3>2 DEF Waiting, PortReading, ReadPcs
    <3> QED BY <3>1, <3>2
  <2> QED BY <1>1, <2>1, <2>2, <2>3 DEF PortMovesAll
<1> QED
  BY <1>3, <1>4, <1>5 DEF PortIInv

-----------------------------------------------------------------------------
(* The shared registers: no two fields of one share a bit.                 *)
Apart(fields) == \A f, g \in DOMAIN fields : f # g => fields[f] \cap fields[g] = {}

LEMMA FieldsApart == \A r \in DOMAIN SharedRegisters : Apart(SharedRegisters[r])
<1>1. Apart(reg_rst0)
  BY DEF Apart, reg_rst0
<1>2. Apart(reg_rst1)
  BY DEF Apart, reg_rst1
<1>3. Apart(reg_rst3)
  BY DEF Apart, reg_rst3
<1>4. Apart(reg_clk_en0)
  BY DEF Apart, reg_clk_en0
<1>5. Apart(reg_i2s_step)
  BY DEF Apart, reg_i2s_step
<1>6. Apart(reg_dmic_step)
  BY DEF Apart, reg_dmic_step
<1>7. Apart(reg_spi_mode0)
  BY DEF Apart, reg_spi_mode0
<1>8. Apart(reg_spi_mode2)
  BY DEF Apart, reg_spi_mode2
<1>9. Apart(reg_spi_trans2)
  BY DEF Apart, reg_spi_trans2
<1>10. Apart(reg_spi_status)
  BY DEF Apart, reg_spi_status
<1>11. Apart(reg_hspi_xip_ctrl)
  BY DEF Apart, reg_hspi_xip_ctrl
<1>12. Apart(reg_hspi_xip_trans_mode)
  BY DEF Apart, reg_hspi_xip_trans_mode
<1>13. Apart(reg_hspi_panel_ctrl)
  BY DEF Apart, reg_hspi_panel_ctrl
<1>14. Apart(reg_uart_ctrl1)
  BY DEF Apart, reg_uart_ctrl1
<1>15. Apart(reg_uart_ctrl2)
  BY DEF Apart, reg_uart_ctrl2
<1>16. Apart(reg_uart_rx_timeout1)
  BY DEF Apart, reg_uart_rx_timeout1
<1>17. Apart(reg_i2s_cfg)
  BY DEF Apart, reg_i2s_cfg
<1>18. Apart(reg_audio_ctrl)
  BY DEF Apart, reg_audio_ctrl
<1>19. Apart(reg_audio_tune)
  BY DEF Apart, reg_audio_tune
<1>20. Apart(reg_audio_sel)
  BY DEF Apart, reg_audio_sel
<1>21. Apart(reg_fifo_trig0)
  BY DEF Apart, reg_fifo_trig0
<1>22. Apart(areg_adc_res_m)
  BY DEF Apart, areg_adc_res_m
<1>23. Apart(areg_adc_pga_ctrl)
  BY DEF Apart, areg_adc_pga_ctrl
<1>24. Apart(areg_adc_clk_setting)
  BY DEF Apart, areg_adc_clk_setting
<1>25. Apart(areg_temp_sensor_ctrl)
  BY DEF Apart, areg_temp_sensor_ctrl
<1>26. Apart(reg_i2s_cfg2)
  BY DEF Apart, reg_i2s_cfg2
<1>27. Apart(areg_0b)
  BY DEF Apart, areg_0b
<1>28. Apart(areg_7d)
  BY DEF Apart, areg_7d
<1>29. Apart(reg_system_ctrl)
  BY DEF Apart, reg_system_ctrl
<1>30. Apart(reg_pwm_invert)
  BY DEF Apart, reg_pwm_invert
<1>31. Apart(reg_pwm_n_invert)
  BY DEF Apart, reg_pwm_n_invert
<1>32. Apart(reg_pwm_pol)
  BY DEF Apart, reg_pwm_pol
<1>33. Apart(reg_pwm_mode32k)
  BY DEF Apart, reg_pwm_mode32k
<1>34. Apart(reg_usb_edp_en)
  BY DEF Apart, reg_usb_edp_en
<1>35. Apart(reg_ctrl_ep_irq_mode)
  BY DEF Apart, reg_ctrl_ep_irq_mode
<1>36. Apart(reg_mspi_fm)
  BY DEF Apart, reg_mspi_fm
<1>37. Apart(reg_swire_id)
  BY DEF Apart, reg_swire_id
<1>38. Apart(reg_i2c_sct0)
  BY DEF Apart, reg_i2c_sct0
<1>39. Apart(reg_i2c_trig)
  BY DEF Apart, reg_i2c_trig
<1>40. Apart(mdec_rst)
  BY DEF Apart, mdec_rst
<1>41. Apart(mdec_ctrl)
  BY DEF Apart, mdec_ctrl
<1>42. Apart(reg_rf_ll_ctrl_1)
  BY DEF Apart, reg_rf_ll_ctrl_1
<1>43. Apart(reg_irq_feature)
  BY DEF Apart, reg_irq_feature
<1>44. Apart(reg_irq_src0)
  BY DEF Apart, reg_irq_src0
<1>45. Apart(reg_system_irq_mask)
  BY DEF Apart, reg_system_irq_mask
<1> QED
  BY <1>1, <1>2, <1>3, <1>4, <1>5, <1>6, <1>7, <1>8, <1>9, <1>10, <1>11, <1>12, <1>13,
     <1>14, <1>15, <1>16, <1>17, <1>18, <1>19, <1>20, <1>21, <1>22, <1>23, <1>24, <1>25,
     <1>26, <1>27, <1>28, <1>29, <1>30, <1>31, <1>32, <1>33, <1>34, <1>35, <1>36, <1>37,
     <1>38, <1>39, <1>40, <1>41, <1>42, <1>43, <1>44, <1>45 DEF SharedRegisters

FldIInv == fldReg \in DOMAIN SharedRegisters /\ FieldsAsAsked

(* What a call must do to each field of its register.                      *)
Keeps(r, bits, asked) ==
  \A f \in DOMAIN SharedRegisters[r] :
    LET own == SharedRegisters[r][f] IN
      \/ r \in OneOwner
      \/ /\ <<r, f>> \notin OnlyGrows
         /\ bits \cap own = IF f \in DOMAIN asked THEN asked[f] ELSE fldBits \cap own
      \/ /\ <<r, f>> \in OnlyGrows
         /\ IF f \in DOMAIN asked THEN asked[f] \subseteq bits \cap own ELSE fldBits \cap own \subseteq bits

(* A call that keeps its register keeps the invariant: for the fields      *)
(* asked it replaces what was asked before, the others have their bits.    *)
LEMMA CallKeeps ==
  ASSUME FldIInv, NEW r, NEW bits, NEW asked, FldCall(r, bits, asked), Keeps(r, bits, asked)
  PROVE  FldIInv'
<1>1. /\ fldReg = r /\ fldReg' = r /\ fldBits' = bits /\ fldStart' = fldStart
      /\ fldAsked' = [f \in DOMAIN asked \cup DOMAIN fldAsked |->
                         IF f \in DOMAIN asked THEN asked[f] ELSE fldAsked[f]]
  BY DEF FldCall
<1>2. ASSUME NEW f \in DOMAIN SharedRegisters[r]
      PROVE  LET own == SharedRegisters[r][f] IN
             /\ <<r, f>> \in OnlyGrows /\ f \in DOMAIN fldAsked' => fldAsked'[f] \subseteq bits \cap own
             /\ <<r, f>> \notin OnlyGrows /\ r \notin OneOwner =>
                  bits \cap own = IF f \in DOMAIN fldAsked' THEN fldAsked'[f] ELSE fldStart \cap own
  <2> DEFINE own == SharedRegisters[r][f]
  <2>1. CASE <<r, f>> \in OnlyGrows
    <3>1. r \notin OneOwner
      BY <2>1 DEF OnlyGrows, OneOwner
    <3>2. IF f \in DOMAIN asked THEN asked[f] \subseteq bits \cap own ELSE fldBits \cap own \subseteq bits
      BY <2>1, <3>1 DEF Keeps
    <3>3. f \in DOMAIN fldAsked => fldAsked[f] \subseteq fldBits \cap own
      BY <1>1, <2>1 DEF FldIInv, FieldsAsAsked
    <3> QED BY <1>1, <2>1, <3>2, <3>3
  <2>2. CASE <<r, f>> \notin OnlyGrows /\ r \notin OneOwner
    <3>1. bits \cap own = IF f \in DOMAIN asked THEN asked[f] ELSE fldBits \cap own
      BY <2>2 DEF Keeps
    <3>2. fldBits \cap own = IF f \in DOMAIN fldAsked THEN fldAsked[f] ELSE fldStart \cap own
      BY <1>1, <2>2 DEF FldIInv, FieldsAsAsked
    <3> QED BY <1>1, <2>2, <3>1, <3>2
  <2>3. CASE <<r, f>> \notin OnlyGrows /\ r \in OneOwner
    BY <2>3
  <2> QED BY <2>1, <2>2, <2>3
<1>3. FieldsAsAsked'
  BY <1>1, <1>2 DEF FieldsAsAsked
<1> QED
  BY <1>1, <1>3 DEF FldIInv

(* A field whose setters set it, rather than adding ones.                  *)
Settable(r, f) ==
  r \in DOMAIN SharedRegisters /\ f \in DOMAIN SharedRegisters[r] /\ <<r, f>> \notin OnlyGrows

(* The forms of a setter keep every field of their register.               *)
LEMMA ReplaceKeeps ==
  ASSUME FldIInv, NEW r, NEW f, Settable(r, f), NEW v, v \subseteq SharedRegisters[r][f], NEW bits,
         bits = (fldBits \ SharedRegisters[r][f]) \cup v, FldCall(r, bits, Only(f, v))
  PROVE  FldIInv'
<1>1. ASSUME NEW g \in DOMAIN SharedRegisters[r], g # f
      PROVE  bits \cap SharedRegisters[r][g] = fldBits \cap SharedRegisters[r][g]
  <2>1. SharedRegisters[r][f] \cap SharedRegisters[r][g] = {}
    BY <1>1, FieldsApart DEF Apart, Settable
  <2> QED BY <2>1
<1>2. bits \cap SharedRegisters[r][f] = v
  OBVIOUS
<1>3. DOMAIN Only(f, v) = {f} /\ Only(f, v)[f] = v
  BY DEF Only
<1>4. Keeps(r, bits, Only(f, v))
  BY <1>1, <1>2, <1>3 DEF Keeps, Settable
<1> QED
  BY <1>4, CallKeeps

LEMMA SwitchKeeps ==
  ASSUME FldIInv, NEW r, NEW f, Settable(r, f), NEW on \in BOOLEAN, FldSwitch(r, f, on)
  PROVE  FldIInv'
<1> DEFINE own == SharedRegisters[r][f]
           v == IF on THEN own ELSE {}
<1>1. FldCall(r, IF on THEN fldBits \cup own ELSE fldBits \ own, Only(f, v))
  BY DEF FldSwitch
<1>2. (IF on THEN fldBits \cup own ELSE fldBits \ own) = (fldBits \ own) \cup v
  OBVIOUS
<1>3. v \subseteq own
  OBVIOUS
<1> QED
  BY <1>1, <1>2, <1>3, ReplaceKeeps

LEMMA PulseKeeps ==
  ASSUME FldIInv, NEW r, NEW f, Settable(r, f), FldPulse(r, f)
  PROVE  FldIInv'
BY ReplaceKeeps DEF FldPulse

LEMMA FldValuesOwn == \A r, f : \A v \in FldValues(r, f) : v \subseteq SharedRegisters[r][f]
BY DEF FldValues

LEMMA PutKeeps ==
  ASSUME FldIInv, NEW r, NEW f, Settable(r, f), FldPut(r, f) \/ FldMasked(r, f)
  PROVE  FldIInv'
<1>1. ASSUME NEW v, v \subseteq SharedRegisters[r][f], FldReplace(r, f, v)
      PROVE  FldIInv'
  BY <1>1, ReplaceKeeps DEF FldReplace
<1>2. CASE FldPut(r, f)
  BY <1>1, <1>2, FldValuesOwn DEF FldPut
<1>3. CASE FldMasked(r, f)
  <2>1. PICK v, over : FldReplace(r, f, (v \cup over) \cap SharedRegisters[r][f])
    BY <1>3 DEF FldMasked
  <2> QED BY <1>1, <2>1
<1> QED
  BY <1>2, <1>3

(* A setter that only adds ones.                                           *)
LEMMA OrKeeps ==
  ASSUME FldIInv, NEW r \in DOMAIN SharedRegisters, NEW f \in DOMAIN SharedRegisters[r],
         <<r, f>> \in OnlyGrows, FldOr(r, f)
  PROVE  FldIInv'
<1>1. PICK v \in FldValues(r, f) : FldCall(r, fldBits \cup v, Only(f, v))
  BY DEF FldOr
<1>2. v \subseteq SharedRegisters[r][f]
  BY FldValuesOwn
<1>3. DOMAIN Only(f, v) = {f} /\ Only(f, v)[f] = v
  BY DEF Only
<1>4. ASSUME NEW g \in DOMAIN SharedRegisters[r], g # f
      PROVE  (fldBits \cup v) \cap SharedRegisters[r][g] = fldBits \cap SharedRegisters[r][g]
  <2>1. SharedRegisters[r][f] \cap SharedRegisters[r][g] = {}
    BY <1>4, FieldsApart DEF Apart
  <2> QED BY <1>2, <2>1
<1>5. Keeps(r, fldBits \cup v, Only(f, v))
  BY <1>2, <1>3, <1>4 DEF Keeps
<1> QED
  BY <1>1, <1>5, CallKeeps

(* A store gives every field of its register a value of the field's bits.  *)
LEMMA StoreKeeps ==
  ASSUME FldIInv, NEW r, NEW values, FldStore(r, values), r \in DOMAIN SharedRegisters,
         \A f \in DOMAIN SharedRegisters[r] : <<r, f>> \notin OnlyGrows,
         DOMAIN values = DOMAIN SharedRegisters[r],
         \A f \in DOMAIN values : values[f] \subseteq SharedRegisters[r][f]
  PROVE  FldIInv'
<1> DEFINE bits == UNION {values[f] : f \in DOMAIN values}
<1>1. ASSUME NEW f \in DOMAIN SharedRegisters[r]
      PROVE  bits \cap SharedRegisters[r][f] = values[f]
  <2>1. \A g \in DOMAIN values : g # f => values[g] \cap SharedRegisters[r][f] = {}
    BY FieldsApart DEF Apart
  <2> QED BY <2>1
<1>2. Keeps(r, bits, values)
  BY <1>1 DEF Keeps
<1> QED
  BY <1>2, CallKeeps DEF FldStore

(* A change of several fields: what was asked for them in place of theirs. *)
LEMMA SeveralKeep ==
  ASSUME FldIInv, NEW r, NEW asked, r \in DOMAIN SharedRegisters, \A f : <<r, f>> \notin OnlyGrows,
         DOMAIN asked \subseteq DOMAIN SharedRegisters[r],
         \A f \in DOMAIN asked : asked[f] \subseteq SharedRegisters[r][f],
         NEW bits, FldCall(r, bits, asked),
         bits = (fldBits \ UNION {SharedRegisters[r][f] : f \in DOMAIN asked})
                  \cup UNION {asked[f] : f \in DOMAIN asked}
  PROVE  FldIInv'
<1>1. ASSUME NEW f \in DOMAIN SharedRegisters[r], NEW g \in DOMAIN asked, g # f
      PROVE  SharedRegisters[r][g] \cap SharedRegisters[r][f] = {} /\ asked[g] \cap SharedRegisters[r][f] = {}
  <2>1. SharedRegisters[r][g] \cap SharedRegisters[r][f] = {}
    BY <1>1, FieldsApart DEF Apart
  <2> QED BY <2>1
<1>2. ASSUME NEW f \in DOMAIN SharedRegisters[r]
      PROVE  bits \cap SharedRegisters[r][f]
               = IF f \in DOMAIN asked THEN asked[f] ELSE fldBits \cap SharedRegisters[r][f]
  <2>1. CASE f \in DOMAIN asked
    BY <1>1, <2>1
  <2>2. CASE f \notin DOMAIN asked
    BY <1>1, <2>2
  <2> QED BY <2>1, <2>2
<1>3. Keeps(r, bits, asked)
  BY <1>2 DEF Keeps
<1> QED
  BY <1>3, CallKeeps

(* A register of one owner: each call sets what it needs of the whole.     *)
LEMMA OwnerKeeps ==
  ASSUME FldIInv, NEW r, NEW bits, NEW asked, FldCall(r, bits, asked), r \in OneOwner
  PROVE  FldIInv'
BY CallKeeps DEF Keeps

-----------------------------------------------------------------------------
(* The setters; those that change several fields at once on their own.     *)
LEMMA SettableFields ==
  /\ \A f \in {"CMD_EN", "CMD_FMT", "QUAD"} : Settable("spi_mode2", f)
  /\ \A f \in {"DUAL", "LINE3"} : Settable("spi_mode0", f)
  /\ \A f \in {"ADDR_FMT", "ADDR_EN", "MODE", "ENABLE", "STOP", "TIMEOUT_MODE"} :
       Settable("xip_ctrl", f)
  /\ \A f \in {"TX_DMA", "RX_DMA", "RX_OR", "TX_UR", "RX_INT", "TX_INT", "END", "SLV_CMD"} :
       Settable("spi_trans2", f)
  /\ \A f \in {"RD", "WR"} : Settable("xip_trans_mode", f)
  /\ \A f \in {"SLAVE_READY", "FIFO_THRES"} : Settable("spi_status", f)
  /\ \A f \in {"DCX_EN", "DCX", "LANE2"} : Settable("panel_ctrl", f)
  /\ \A f \in {"HSPI", "UART0", "UART1", "SWIRE"} : Settable("rst0", f)
  /\ \A f \in {"PSPI", "DMA"} : Settable("rst1", f)
  /\ \A f \in {"CTS_EN", "CTS_POLARITY"} : Settable("uart_ctrl1", f)
  /\ \A f \in {"RTS_EN", "MANUAL_M", "MANUAL_V", "RTS_LEV", "RX_LEV", "TX_LEV"} :
       Settable("uart_ctrl2", f)
  /\ \A f \in {"MUL", "RXDONE", "TXDONE", "ERR", "P7816_EN"} : Settable("uart_timeout1", f)
  /\ \A f \in {"UART0", "UART1", "I2C"} : Settable("clk_en0", f)
  /\ \A f \in {"CLK_EN"} : Settable("i2s_step", f)
  /\ \A f \in {"SEL"} : Settable("dmic_step", f)
  /\ \A f \in {"AOUT0", "AIN0"} : Settable("fifo_trig0", f)
  /\ \A f \in {"LRSWAP"} : Settable("i2s_cfg", f)
  /\ \A f \in {"POWER_DOWN"} : Settable("adc_pga", f)
  /\ \A f \in {"SARADC", "ZB"} : Settable("rst3", f)
  /\ \A f \in {"FIFO1_RST"} : Settable("i2s_cfg2", f)
  /\ \A f \in {"CLK_24M"} : Settable("adc_clk", f)
  /\ \A f \in {"RES_M", "EN_DIFF"} : Settable("adc_res_m", f)
  /\ \A f \in {"POWER_DOWN"} : Settable("temp", f)
  /\ \A f \in {"DP_PULLUP", "NVT"} : Settable("ana_0b", f)
  /\ \A f \in {"USB_DOWN"} : Settable("ana_7d", f)
  /\ \A f \in {"PIN"} : Settable("mdec_rst", f)
  /\ \A f \in {"VALUE"} : Settable("mdec_ctrl", f)
  /\ \A f \in {"TIMER_EN", "WR_EN"} : Settable("system_ctrl", f)
  /\ \A f \in {"SYSTIMER", "ALG"} : Settable("irq_src0", f)
  /\ \A f \in {"STIMER", "CAL_32K"} : Settable("irq_mask", f)
  /\ \A f \in {"PWM0", "PWM1", "PWM2", "PWM3", "PWM4", "PWM5"} : Settable("pwm_invert", f)
  /\ \A f \in {"PWM0", "PWM1", "PWM2", "PWM3", "PWM4", "PWM5"} : Settable("pwm_n_invert", f)
  /\ \A f \in {"PWM0", "PWM1", "PWM2", "PWM3", "PWM4", "PWM5"} : Settable("pwm_pol", f)
  /\ \A f \in {"PWM0", "PWM1", "PWM2", "PWM3", "PWM4", "PWM5"} : Settable("pwm_mode32k", f)
  /\ \A f \in {"EDP8", "EDP1", "EDP2", "EDP3", "EDP4", "EDP5", "EDP6", "EDP7"} :
       Settable("edp_en", f)
  /\ \A f \in {"ADDR", "CFG", "INTF", "STA", "SYN", "DESC", "FEAT", "STD"} :
       Settable("ep_irq_mode", f)
  /\ \A f \in {"RD_TRIG_EN", "CSN"} : Settable("mspi_fm", f)
  /\ \A f \in {"FIFO_MODE"} : Settable("swire_id", f)
  /\ \A f \in {"MASTER", "RNCK", "RX_BUF", "TX_BUF", "TX_DONE", "RX_DONE"} : Settable("i2c_sct0",
       f)
  /\ \A f \in {"RX_LEV"} : Settable("i2c_trig", f)
  /\ \A f \in {"PREEMPT"} : Settable("irq_feature", f)
<1>1. \A f \in {"CMD_EN", "CMD_FMT", "QUAD"} : Settable("spi_mode2", f)
  BY DEF Settable, SharedRegisters, reg_spi_mode2, OnlyGrows
<1>2. \A f \in {"DUAL", "LINE3"} : Settable("spi_mode0", f)
  BY DEF Settable, SharedRegisters, reg_spi_mode0, OnlyGrows
<1>3. \A f \in {"ADDR_FMT", "ADDR_EN", "MODE", "ENABLE", "STOP", "TIMEOUT_MODE"} :
         Settable("xip_ctrl", f)
  BY DEF Settable, SharedRegisters, reg_hspi_xip_ctrl, OnlyGrows
<1>4. \A f \in {"TX_DMA", "RX_DMA", "RX_OR", "TX_UR", "RX_INT", "TX_INT", "END", "SLV_CMD"} :
         Settable("spi_trans2", f)
  BY DEF Settable, SharedRegisters, reg_spi_trans2, OnlyGrows
<1>5. \A f \in {"RD", "WR"} : Settable("xip_trans_mode", f)
  BY DEF Settable, SharedRegisters, reg_hspi_xip_trans_mode, OnlyGrows
<1>6. \A f \in {"SLAVE_READY", "FIFO_THRES"} : Settable("spi_status", f)
  BY DEF Settable, SharedRegisters, reg_spi_status, OnlyGrows
<1>7. \A f \in {"DCX_EN", "DCX", "LANE2"} : Settable("panel_ctrl", f)
  BY DEF Settable, SharedRegisters, reg_hspi_panel_ctrl, OnlyGrows
<1>8. \A f \in {"HSPI", "UART0", "UART1", "SWIRE"} : Settable("rst0", f)
  BY DEF Settable, SharedRegisters, reg_rst0, OnlyGrows
<1>9. \A f \in {"PSPI", "DMA"} : Settable("rst1", f)
  BY DEF Settable, SharedRegisters, reg_rst1, OnlyGrows
<1>10. \A f \in {"CTS_EN", "CTS_POLARITY"} : Settable("uart_ctrl1", f)
  BY DEF Settable, SharedRegisters, reg_uart_ctrl1, OnlyGrows
<1>11. \A f \in {"RTS_EN", "MANUAL_M", "MANUAL_V", "RTS_LEV", "RX_LEV", "TX_LEV"} :
         Settable("uart_ctrl2", f)
  BY DEF Settable, SharedRegisters, reg_uart_ctrl2, OnlyGrows
<1>12. \A f \in {"MUL", "RXDONE", "TXDONE", "ERR", "P7816_EN"} : Settable("uart_timeout1", f)
  BY DEF Settable, SharedRegisters, reg_uart_rx_timeout1, OnlyGrows
<1>13. \A f \in {"UART0", "UART1", "I2C"} : Settable("clk_en0", f)
  BY DEF Settable, SharedRegisters, reg_clk_en0, OnlyGrows
<1>14. \A f \in {"CLK_EN"} : Settable("i2s_step", f)
  BY DEF Settable, SharedRegisters, reg_i2s_step, OnlyGrows
<1>15. \A f \in {"SEL"} : Settable("dmic_step", f)
  BY DEF Settable, SharedRegisters, reg_dmic_step, OnlyGrows
<1>16. \A f \in {"AOUT0", "AIN0"} : Settable("fifo_trig0", f)
  BY DEF Settable, SharedRegisters, reg_fifo_trig0, OnlyGrows
<1>17. \A f \in {"LRSWAP"} : Settable("i2s_cfg", f)
  BY DEF Settable, SharedRegisters, reg_i2s_cfg, OnlyGrows
<1>18. \A f \in {"POWER_DOWN"} : Settable("adc_pga", f)
  BY DEF Settable, SharedRegisters, areg_adc_pga_ctrl, OnlyGrows
<1>19. \A f \in {"SARADC", "ZB"} : Settable("rst3", f)
  BY DEF Settable, SharedRegisters, reg_rst3, OnlyGrows
<1>20. \A f \in {"FIFO1_RST"} : Settable("i2s_cfg2", f)
  BY DEF Settable, SharedRegisters, reg_i2s_cfg2, OnlyGrows
<1>21. \A f \in {"CLK_24M"} : Settable("adc_clk", f)
  BY DEF Settable, SharedRegisters, areg_adc_clk_setting, OnlyGrows
<1>22. \A f \in {"RES_M", "EN_DIFF"} : Settable("adc_res_m", f)
  BY DEF Settable, SharedRegisters, areg_adc_res_m, OnlyGrows
<1>23. \A f \in {"POWER_DOWN"} : Settable("temp", f)
  BY DEF Settable, SharedRegisters, areg_temp_sensor_ctrl, OnlyGrows
<1>24. \A f \in {"DP_PULLUP", "NVT"} : Settable("ana_0b", f)
  BY DEF Settable, SharedRegisters, areg_0b, OnlyGrows
<1>25. \A f \in {"USB_DOWN"} : Settable("ana_7d", f)
  BY DEF Settable, SharedRegisters, areg_7d, OnlyGrows
<1>26. \A f \in {"PIN"} : Settable("mdec_rst", f)
  BY DEF Settable, SharedRegisters, mdec_rst, OnlyGrows
<1>27. \A f \in {"VALUE"} : Settable("mdec_ctrl", f)
  BY DEF Settable, SharedRegisters, mdec_ctrl, OnlyGrows
<1>28. \A f \in {"TIMER_EN", "WR_EN"} : Settable("system_ctrl", f)
  BY DEF Settable, SharedRegisters, reg_system_ctrl, OnlyGrows
<1>29. \A f \in {"SYSTIMER", "ALG"} : Settable("irq_src0", f)
  BY DEF Settable, SharedRegisters, reg_irq_src0, OnlyGrows
<1>30. \A f \in {"STIMER", "CAL_32K"} : Settable("irq_mask", f)
  BY DEF Settable, SharedRegisters, reg_system_irq_mask, OnlyGrows
<1>31. \A f \in {"PWM0", "PWM1", "PWM2", "PWM3", "PWM4", "PWM5"} : Settable("pwm_invert", f)
  BY DEF Settable, SharedRegisters, reg_pwm_invert, OnlyGrows
<1>32. \A f \in {"PWM0", "PWM1", "PWM2", "PWM3", "PWM4", "PWM5"} : Settable("pwm_n_invert", f)
  BY DEF Settable, SharedRegisters, reg_pwm_n_invert, OnlyGrows
<1>33. \A f \in {"PWM0", "PWM1", "PWM2", "PWM3", "PWM4", "PWM5"} : Settable("pwm_pol", f)
  BY DEF Settable, SharedRegisters, reg_pwm_pol, OnlyGrows
<1>34. \A f \in {"PWM0", "PWM1", "PWM2", "PWM3", "PWM4", "PWM5"} : Settable("pwm_mode32k", f)
  BY DEF Settable, SharedRegisters, reg_pwm_mode32k, OnlyGrows
<1>35. \A f \in {"EDP8", "EDP1", "EDP2", "EDP3", "EDP4", "EDP5", "EDP6", "EDP7"} :
         Settable("edp_en", f)
  BY DEF Settable, SharedRegisters, reg_usb_edp_en, OnlyGrows
<1>36. \A f \in {"ADDR", "CFG", "INTF", "STA", "SYN", "DESC", "FEAT", "STD"} :
         Settable("ep_irq_mode", f)
  BY DEF Settable, SharedRegisters, reg_ctrl_ep_irq_mode, OnlyGrows
<1>37. \A f \in {"RD_TRIG_EN", "CSN"} : Settable("mspi_fm", f)
  BY DEF Settable, SharedRegisters, reg_mspi_fm, OnlyGrows
<1>38. \A f \in {"FIFO_MODE"} : Settable("swire_id", f)
  BY DEF Settable, SharedRegisters, reg_swire_id, OnlyGrows
<1>39. \A f \in {"MASTER", "RNCK", "RX_BUF", "TX_BUF", "TX_DONE", "RX_DONE"} :
         Settable("i2c_sct0", f)
  BY DEF Settable, SharedRegisters, reg_i2c_sct0, OnlyGrows
<1>40. \A f \in {"RX_LEV"} : Settable("i2c_trig", f)
  BY DEF Settable, SharedRegisters, reg_i2c_trig, OnlyGrows
<1>41. \A f \in {"PREEMPT"} : Settable("irq_feature", f)
  BY DEF Settable, SharedRegisters, reg_irq_feature, OnlyGrows
<1> QED
  BY <1>1, <1>2, <1>3, <1>4, <1>5, <1>6, <1>7, <1>8, <1>9, <1>10, <1>11, <1>12, <1>13,
     <1>14, <1>15, <1>16, <1>17, <1>18, <1>19, <1>20, <1>21, <1>22, <1>23, <1>24, <1>25,
     <1>26, <1>27, <1>28, <1>29, <1>30, <1>31, <1>32, <1>33, <1>34, <1>35, <1>36, <1>37,
     <1>38, <1>39, <1>40, <1>41

LEMMA SpiFieldsKeep ==
  ASSUME FldIInv, SpiFields
  PROVE  FldIInv'
<1>1. ASSUME NEW on \in BOOLEAN, spi_cmd_en(on) \/ hspi_cmd_fmt_en(on) \/ hspi_quad_mode_en(on)
             \/ spi_dual_mode_en(on) \/ spi_3line_mode_en(on)
      PROVE  FldIInv'
  BY <1>1, SettableFields, SwitchKeeps DEF spi_cmd_en, hspi_cmd_fmt_en, hspi_quad_mode_en,
     spi_dual_mode_en, spi_3line_mode_en
<1>2. ASSUME NEW on \in BOOLEAN, hspi_addr_fmt_en(on) \/ hspi_addr_en(on) \/
             hspi_xip_seq_mode_en(on) \/ hspi_xip_en(on) \/ hspi_xip_timeout_mode_en(on)
      PROVE  FldIInv'
  BY <1>2, SettableFields, SwitchKeeps DEF hspi_addr_fmt_en, hspi_addr_en,
     hspi_xip_seq_mode_en, hspi_xip_en, hspi_xip_timeout_mode_en
<1>3. ASSUME NEW on \in BOOLEAN, spi_tx_dma_en(on) \/ spi_rx_dma_en(on) \/ spi_slave_ready_en(on)
             \/ hspi_3line_dcx_en(on) \/ hspi_set_3line_dcx_data(on)
      PROVE  FldIInv'
  BY <1>3, SettableFields, SwitchKeeps DEF spi_tx_dma_en, spi_rx_dma_en,
     spi_slave_ready_en, hspi_3line_dcx_en, hspi_set_3line_dcx_data
<1>4. ASSUME NEW on \in BOOLEAN, NEW m \in {"RX_OR", "TX_UR", "RX_INT", "TX_INT", "END",
             "SLV_CMD"}, spi_irq_mask_set(m, on)
      PROVE  FldIInv'
  BY <1>4, SettableFields, SwitchKeeps DEF spi_irq_mask_set
<1>5. ASSUME hspi_xip_read_transmode \/ hspi_xip_write_transmode \/ spi_rx_tx_irq_trig_cnt \/
             hspi_set_panel_2data_lane_mode
      PROVE  FldIInv'
  BY <1>5, SettableFields, PutKeeps DEF hspi_xip_read_transmode, hspi_xip_write_transmode,
     spi_rx_tx_irq_trig_cnt, hspi_set_panel_2data_lane_mode
<1>6. ASSUME hspi_xip_stop \/ hspi_reset \/ pspi_reset
      PROVE  FldIInv'
  BY <1>6, SettableFields, PulseKeeps, SwitchKeeps DEF hspi_xip_stop, hspi_reset,
     pspi_reset
<1>7. ASSUME hspi_addr_len PROVE FldIInv'
  BY <1>7, OrKeeps DEF hspi_addr_len, SharedRegisters, reg_hspi_xip_ctrl, OnlyGrows
<1> QED
  BY <1>1, <1>2, <1>3, <1>4, <1>5, <1>6, <1>7 DEF SpiFields

LEMMA RtsModeKeeps ==
  ASSUME FldIInv, NEW on \in BOOLEAN, NEW inverted \in BOOLEAN, uart_rts_mode(on, inverted)
  PROVE  FldIInv'
<1> DEFINE m == IF on THEN {6} ELSE {}
           p == IF inverted THEN {4} ELSE {}
           bits == (fldBits \ {4, 6}) \cup m \cup p
           asked == [MANUAL_M |-> m, RTS_POLARITY |-> p]
<1>1. FldCall("uart_ctrl2", bits, asked)
  <2>1. (fldBits \ ({6} \cup {4})) \cup m \cup p = bits
    OBVIOUS
  <2> QED BY <2>1 DEF uart_rts_mode, reg_uart_ctrl2
<1>2. Keeps("uart_ctrl2", bits, asked)
  BY DEF Keeps, SharedRegisters, reg_uart_ctrl2, OnlyGrows
<1> QED
  BY <1>1, <1>2, CallKeeps

LEMMA InitCtrl1Keeps ==
  ASSUME FldIInv, NEW parity \in {"none", "even", "odd"}, NEW stop \in FldValues("uart_ctrl1", "STOP_SEL"),
         uart_init_ctrl1(parity, stop)
  PROVE  FldIInv'
<1> DEFINE own == SharedRegisters["uart_ctrl1"]
<1>1. /\ own = reg_uart_ctrl1 /\ "uart_ctrl1" \in DOMAIN SharedRegisters
      /\ {"PARITY_EN", "ODD", "STOP_SEL"} \subseteq DOMAIN own
  BY DEF SharedRegisters, reg_uart_ctrl1
<1>2. stop \subseteq own["STOP_SEL"]
  BY FldValuesOwn
<1>3. \A f : <<"uart_ctrl1", f>> \notin OnlyGrows
  BY DEF OnlyGrows
<1>4. CASE parity = "none"
  <2> DEFINE asked == [PARITY_EN |-> {}, STOP_SEL |-> stop]
             bits == (fldBits \ (own["PARITY_EN"] \cup own["STOP_SEL"])) \cup stop
  <2>1. FldCall("uart_ctrl1", bits, asked)
    BY <1>1, <1>4 DEF uart_init_ctrl1
  <2>2. /\ UNION {own[f] : f \in DOMAIN asked} = own["PARITY_EN"] \cup own["STOP_SEL"]
        /\ UNION {asked[f] : f \in DOMAIN asked} = stop
    OBVIOUS
  <2>3. DOMAIN asked \subseteq DOMAIN own /\ \A f \in DOMAIN asked : asked[f] \subseteq own[f]
    BY <1>1, <1>2
  <2> QED BY <1>1, <1>3, <2>1, <2>2, <2>3, SeveralKeep
<1>5. CASE parity # "none"
  <2> DEFINE odd == IF parity = "odd" THEN own["ODD"] ELSE {}
             asked == [PARITY_EN |-> own["PARITY_EN"], ODD |-> odd, STOP_SEL |-> stop]
             bits == (fldBits \ (own["PARITY_EN"] \cup own["ODD"] \cup own["STOP_SEL"]))
                       \cup (own["PARITY_EN"] \cup odd) \cup stop
  <2>1. (own["PARITY_EN"] \cup odd) \cap own["ODD"] = odd
    BY <1>1, FieldsApart DEF Apart
  <2>2. FldCall("uart_ctrl1", bits, asked)
    BY <1>1, <1>5, <2>1 DEF uart_init_ctrl1
  <2>3. /\ UNION {own[f] : f \in DOMAIN asked} = own["PARITY_EN"] \cup own["ODD"] \cup own["STOP_SEL"]
        /\ UNION {asked[f] : f \in DOMAIN asked} = (own["PARITY_EN"] \cup odd) \cup stop
    OBVIOUS
  <2>4. DOMAIN asked \subseteq DOMAIN own /\ \A f \in DOMAIN asked : asked[f] \subseteq own[f]
    BY <1>1, <1>2
  <2>5. bits = (fldBits \ UNION {own[f] : f \in DOMAIN asked}) \cup UNION {asked[f] : f \in DOMAIN asked}
    BY <2>3
  <2> QED BY <1>1, <1>3, <2>2, <2>4, <2>5, SeveralKeep
<1> QED
  BY <1>4, <1>5

LEMMA UartFieldsKeep ==
  ASSUME FldIInv, UartFields
  PROVE  FldIInv'
<1>1. ASSUME NEW on \in BOOLEAN, uart_set_cts_en(on) \/ uart_cts_polarity(on) \/
             uart_set_rts_en(on) \/ uart_rts_manual_mode(on) \/ uart_set_rts_level(on)
      PROVE  FldIInv'
  BY <1>1, SettableFields, SwitchKeeps DEF uart_set_cts_en, uart_cts_polarity,
     uart_set_rts_en, uart_rts_manual_mode, uart_set_rts_level
<1>2. ASSUME NEW on \in BOOLEAN, NEW m \in {"RXDONE", "TXDONE", "ERR"}, uart_irq_mask(m, on)
      PROVE  FldIInv'
  BY <1>2, SettableFields, SwitchKeeps DEF uart_irq_mask
<1>3. ASSUME uart_rts_trig_level_auto_mode \/ uart_rx_irq_trig_level \/ uart_tx_irq_trig_level \/
             uart_set_dma_rx_timeout
      PROVE  FldIInv'
  BY <1>3, SettableFields, PutKeeps DEF uart_rts_trig_level_auto_mode,
     uart_rx_irq_trig_level, uart_tx_irq_trig_level, uart_set_dma_rx_timeout
<1>4. ASSUME uart_rtx_en
      PROVE  FldIInv'
  BY <1>4, SettableFields, SwitchKeeps DEF uart_rtx_en
<1>5. ASSUME NEW n \in {"UART0", "UART1"}, uart_reset(n) \/ uart_clk_en(n)
      PROVE  FldIInv'
  BY <1>5, SettableFields, PulseKeeps, SwitchKeeps DEF uart_reset, uart_clk_en
<1>6. ASSUME NEW on \in BOOLEAN, NEW inverted \in BOOLEAN, uart_rts_mode(on, inverted)
      PROVE  FldIInv'
  BY <1>6, RtsModeKeeps
<1>7. ASSUME NEW parity \in {"none", "even", "odd"}, NEW stop \in FldValues("uart_ctrl1", "STOP_SEL"),
             uart_init_ctrl1(parity, stop)
      PROVE  FldIInv'
  BY <1>7, InitCtrl1Keeps
<1> QED
  BY <1>1, <1>2, <1>3, <1>4, <1>5, <1>6, <1>7 DEF UartFields

LEMMA AudioStoresKeep ==
  ASSUME FldIInv,
         \/ audio_i2s_step \/ audio_set_codec_clk \/ audio_i2s_config \/ plic_set_feature
         \/ \E i \in FldValues("audio_tune", "AIN0_COME"), o \in FldValues("audio_tune", "AOUT_COME") :
              FldStore("audio_tune", [AIN0_COME |-> i, AIN1_COME |-> {}, AOUT_COME |-> o])
  PROVE  FldIInv'
<1>1. CASE audio_i2s_step
  <2>1. PICK v \in FldValues("i2s_step", "STEP") : FldStore("i2s_step", [STEP |-> v, CLK_EN |-> {7}])
    BY <1>1 DEF audio_i2s_step
  <2>2. v \subseteq SharedRegisters["i2s_step"]["STEP"]
    BY FldValuesOwn
  <2> QED BY <2>1, <2>2, StoreKeeps DEF SharedRegisters, reg_i2s_step, OnlyGrows
<1>2. CASE audio_set_codec_clk
  <2>1. PICK v \in FldValues("dmic_step", "STEP") : FldStore("dmic_step", [STEP |-> v, SEL |-> {7}])
    BY <1>2 DEF audio_set_codec_clk
  <2>2. v \subseteq SharedRegisters["dmic_step"]["STEP"]
    BY FldValuesOwn
  <2> QED BY <2>1, <2>2, StoreKeeps DEF SharedRegisters, reg_dmic_step, OnlyGrows
<1>3. CASE audio_i2s_config
  <2>1. PICK format \in FldValues("i2s_cfg", "FORMAT"), swap \in FldValues("i2s_cfg", "LRSWAP"), m_s \in BOOLEAN :
          FldStore("i2s_cfg",
            [FORMAT |-> format, WL |-> {2}, LRP |-> {}, LRSWAP |-> swap,
             ADC_MS |-> IF m_s THEN {6} ELSE {}, DAC_MS |-> IF m_s THEN {7} ELSE {}])
    BY <1>3 DEF audio_i2s_config
  <2>2. format \subseteq SharedRegisters["i2s_cfg"]["FORMAT"] /\ swap \subseteq SharedRegisters["i2s_cfg"]["LRSWAP"]
    BY FldValuesOwn
  <2> QED BY <2>1, <2>2, StoreKeeps DEF SharedRegisters, reg_i2s_cfg, OnlyGrows
<1>4. CASE plic_set_feature
  <2>1. PICK v \in FldValues("irq_feature", "VECTOR") : FldStore("irq_feature", [VECTOR |-> v, PREEMPT |-> {}])
    BY <1>4 DEF plic_set_feature
  <2>2. v \subseteq SharedRegisters["irq_feature"]["VECTOR"]
    BY FldValuesOwn
  <2> QED BY <2>1, <2>2, StoreKeeps DEF SharedRegisters, reg_irq_feature, OnlyGrows
<1>5. ASSUME NEW i \in FldValues("audio_tune", "AIN0_COME"), NEW o \in FldValues("audio_tune", "AOUT_COME"),
             FldStore("audio_tune", [AIN0_COME |-> i, AIN1_COME |-> {}, AOUT_COME |-> o])
      PROVE  FldIInv'
  <2>1. i \subseteq SharedRegisters["audio_tune"]["AIN0_COME"] /\ o \subseteq SharedRegisters["audio_tune"]["AOUT_COME"]
    BY FldValuesOwn
  <2> QED BY <1>5, <2>1, StoreKeeps DEF SharedRegisters, reg_audio_tune, OnlyGrows
<1> QED
  BY <1>1, <1>2, <1>3, <1>4, <1>5

LEMMA AudioFieldsKeep ==
  ASSUME FldIInv, AudioFields
  PROVE  FldIInv'
<1>1. ASSUME NEW on \in BOOLEAN, audio_i2s_clk_en(on) \/ audio_codec_clk_en(on) \/
             audio_invert_data_en(on)
      PROVE  FldIInv'
  BY <1>1, SettableFields, SwitchKeeps DEF audio_i2s_clk_en, audio_codec_clk_en,
     audio_invert_data_en
<1>2. ASSUME audio_set_fifo_tx_trig_num \/ audio_set_fifo_rx_trig_num
      PROVE  FldIInv'
  BY <1>2, SettableFields, PutKeeps DEF audio_set_fifo_tx_trig_num,
     audio_set_fifo_rx_trig_num
<1>3. CASE audio_i2s_step \/ audio_set_codec_clk \/ audio_i2s_config
  BY <1>3, AudioStoresKeep
<1>4. CASE audio_data_fifo0_path_sel \/ audio_data_fifo1_path_sel
  BY <1>4, OwnerKeeps DEF audio_data_fifo0_path_sel, audio_data_fifo1_path_sel, FldStore, OneOwner
<1>5. CASE FldOr("audio_ctrl", "CMODE") \/ FldOr("audio_ctrl", "CODEC_SEL")
  BY <1>5, OrKeeps DEF SharedRegisters, reg_audio_ctrl, OnlyGrows
<1>6. CASE audio_mux_config
  BY <1>6, <1>5, AudioStoresKeep DEF audio_mux_config
<1> QED
  BY <1>1, <1>2, <1>3, <1>4, <1>5, <1>6 DEF AudioFields

LEMMA AnalogFieldsKeep ==
  ASSUME FldIInv, AnalogFields
  PROVE  FldIInv'
<1>1. ASSUME NEW on \in BOOLEAN, adc_power_off(on) \/ adc_fifo_disable(on) \/ adc_clk_en(on) \/
             adc_temp_sensor_power_off(on)
      PROVE  FldIInv'
  BY <1>1, SettableFields, SwitchKeeps DEF adc_power_off, adc_fifo_disable, adc_clk_en,
     adc_temp_sensor_power_off
<1>2. ASSUME NEW on \in BOOLEAN, usb_dp_pullup_en(on) \/ pm_native_power_down(on) \/
             usb_power_off(on)
      PROVE  FldIInv'
  BY <1>2, SettableFields, SwitchKeeps DEF usb_dp_pullup_en, pm_native_power_down,
     usb_power_off
<1>3. ASSUME adc_reset \/ adc_set_resolution \/ adc_en_diff \/ mdec_init \/
             pm_set_mdec_value_wakeup
      PROVE  FldIInv'
  BY <1>3, SettableFields, PulseKeeps, PutKeeps, SwitchKeeps DEF adc_reset,
     adc_set_resolution, adc_en_diff, mdec_init, pm_set_mdec_value_wakeup
<1>4. CASE mdec_reset
  <2> DEFINE asked == [RST |-> {}]
  <2>1. /\ "mdec_rst" \in DOMAIN SharedRegisters /\ "RST" \in DOMAIN SharedRegisters["mdec_rst"]
        /\ SharedRegisters["mdec_rst"]["RST"] = {7} /\ \A f : <<"mdec_rst", f>> \notin OnlyGrows
    BY DEF SharedRegisters, mdec_rst, OnlyGrows
  <2>2. /\ UNION {SharedRegisters["mdec_rst"][f] : f \in DOMAIN asked} = {7}
        /\ UNION {asked[f] : f \in DOMAIN asked} = {}
    BY <2>1
  <2>3. FldCall("mdec_rst", fldBits \ {7}, asked)
    BY <1>4 DEF mdec_reset
  <2>4. fldBits \ {7} = (fldBits \ {7}) \cup {}
    OBVIOUS
  <2>5. DOMAIN asked \subseteq DOMAIN SharedRegisters["mdec_rst"]
        /\ \A f \in DOMAIN asked : asked[f] \subseteq SharedRegisters["mdec_rst"][f]
    BY <2>1
  <2> QED BY <2>1, <2>2, <2>3, <2>4, <2>5, SeveralKeep
<1> QED
  BY <1>1, <1>2, <1>3, <1>4 DEF AnalogFields

LEMMA TrackKeeps ==
  ASSUME FldIInv, NEW on \in BOOLEAN, stimer_track(on)
  PROVE  FldIInv'
<1> DEFINE own == SharedRegisters["system_ctrl"]
<1>1. /\ "system_ctrl" \in DOMAIN SharedRegisters /\ {"TIMER_EN", "AUTO", "TRACK"} \subseteq DOMAIN own
      /\ own["TIMER_EN"] = {1} /\ own["AUTO"] = {2} /\ own["TRACK"] = {3}
      /\ \A f : <<"system_ctrl", f>> \notin OnlyGrows
  BY DEF SharedRegisters, reg_system_ctrl, OnlyGrows
<1> HIDE DEF own
<1>2. CASE on
  <2> DEFINE asked == [AUTO |-> {2}, TRACK |-> {3}]
  <2>1. FldCall("system_ctrl", fldBits \cup {2, 3}, asked)
    BY <1>2 DEF stimer_track
  <2>2. UNION {own[f] : f \in DOMAIN asked} = {2, 3} /\ UNION {asked[f] : f \in DOMAIN asked} = {2, 3}
    BY <1>1
  <2>3. fldBits \cup {2, 3} = (fldBits \ {2, 3}) \cup {2, 3}
    OBVIOUS
  <2>4. DOMAIN asked \subseteq DOMAIN own /\ \A f \in DOMAIN asked : asked[f] \subseteq own[f]
    BY <1>1
  <2> QED BY <1>1, <2>1, <2>2, <2>3, <2>4, SeveralKeep DEF own
<1>3. CASE ~on
  <2> DEFINE asked == [AUTO |-> {}, TRACK |-> {}, TIMER_EN |-> {}]
  <2>1. FldCall("system_ctrl", fldBits \ {1, 2, 3}, asked)
    BY <1>3 DEF stimer_track
  <2>2. UNION {own[f] : f \in DOMAIN asked} = {1, 2, 3} /\ UNION {asked[f] : f \in DOMAIN asked} = {}
    BY <1>1
  <2>3. fldBits \ {1, 2, 3} = (fldBits \ {1, 2, 3}) \cup {}
    OBVIOUS
  <2>4. DOMAIN asked \subseteq DOMAIN own /\ \A f \in DOMAIN asked : asked[f] \subseteq own[f]
    BY <1>1
  <2> QED BY <1>1, <2>1, <2>2, <2>3, <2>4, SeveralKeep DEF own
<1> QED
  BY <1>2, <1>3

LEMMA OtherFieldsKeep ==
  ASSUME FldIInv, OtherFields
  PROVE  FldIInv'
<1>1. ASSUME NEW on \in BOOLEAN, systimer_irq_enable(on) \/ systimer_set_irq_mask(on) \/
             stimer_enable(on) \/ mspi_fm_rd_en(on) \/ mspi_high(on)
      PROVE  FldIInv'
  BY <1>1, SettableFields, SwitchKeeps DEF systimer_irq_enable, systimer_set_irq_mask,
     stimer_enable, mspi_fm_rd_en, mspi_high
<1>2. ASSUME NEW on \in BOOLEAN, swire_fifo_mode_en(on) \/ i2c_master_init(on) \/
             plic_preempt_feature_en(on)
      PROVE  FldIInv'
  BY <1>2, SettableFields, SwitchKeeps DEF swire_fifo_mode_en, i2c_master_init,
     plic_preempt_feature_en
<1>3. ASSUME NEW on \in BOOLEAN, NEW id \in {"PWM0", "PWM1", "PWM2", "PWM3", "PWM4", "PWM5"},
             pwm_invert_en(id, on) \/ pwm_n_invert_en(id, on) \/ pwm_set_polarity_en(id, on) \/
             pwm_32k_chn(id, on)
      PROVE  FldIInv'
  BY <1>3, SettableFields, SwitchKeeps DEF pwm_invert_en, pwm_n_invert_en,
     pwm_set_polarity_en, pwm_32k_chn
<1>4. ASSUME NEW on \in BOOLEAN, NEW m \in {"RX_BUF", "TX_BUF", "TX_DONE", "RX_DONE"},
             i2c_irq_mask(m, on)
      PROVE  FldIInv'
  BY <1>4, SettableFields, SwitchKeeps DEF i2c_irq_mask
<1>5. ASSUME NEW on \in BOOLEAN, NEW src \in {"SYSTIMER", "ALG"}, plic_source_en(src, on)
      PROVE  FldIInv'
  BY <1>5, SettableFields, SwitchKeeps DEF plic_source_en
<1>6. ASSUME NEW on \in BOOLEAN, NEW m \in {"STIMER", "CAL_32K"}, stimer_set_irq_mask(m, on)
      PROVE  FldIInv'
  BY <1>6, SettableFields, SwitchKeeps DEF stimer_set_irq_mask
<1>7. ASSUME NEW on \in BOOLEAN, NEW m \in {"ADDR", "CFG", "INTF", "STA", "SYN", "DESC", "FEAT",
             "STD"}, usbhw_manual_interrupt(m, on)
      PROVE  FldIInv'
  BY <1>7, SettableFields, SwitchKeeps DEF usbhw_manual_interrupt
<1>8. CASE i2c_rx_irq_trig_cnt
  BY <1>8, SettableFields, PutKeeps DEF i2c_rx_irq_trig_cnt
<1>9. ASSUME swire_reset \/ dma_reset \/ rf_baseband_reset
      PROVE  FldIInv'
  BY <1>9, SettableFields, PulseKeeps DEF swire_reset, dma_reset, rf_baseband_reset
<1>10. ASSUME clock_32k_wr_en \/ i2c_set_master_clk \/ i2c_rnck_en
       PROVE  FldIInv'
  BY <1>10, SettableFields, SwitchKeeps DEF clock_32k_wr_en, i2c_set_master_clk, i2c_rnck_en
<1>11. CASE rf_set_ptx_pid
  BY <1>11, OrKeeps DEF rf_set_ptx_pid, SharedRegisters, reg_rf_ll_ctrl_1, OnlyGrows
<1>12. ASSUME NEW ep, NEW on, usbhw_set_eps_en(ep) \/ usbhw_set_eps_dis(ep) \/ usbhw_set_ep_en(ep, on)
      PROVE  FldIInv'
  BY <1>12, OwnerKeeps DEF usbhw_set_eps_en, usbhw_set_eps_dis, usbhw_set_ep_en, FldStore, FldSwitch, OneOwner
<1>13. CASE plic_set_feature
  BY <1>13, AudioStoresKeep
<1> QED
  BY <1>1, <1>2, <1>3, <1>4, <1>5, <1>6, <1>7, <1>8, <1>9, <1>10, <1>11, <1>12, <1>13, TrackKeeps
     DEF OtherFields, reg_irq_src0, reg_system_irq_mask, reg_pwm_pol, reg_usb_edp_en, reg_ctrl_ep_irq_mode

LEMMA FieldsStart == FieldsInit => FldIInv
<1> SUFFICES ASSUME FieldsInit PROVE FldIInv
  OBVIOUS
<1>1. fldReg \in DOMAIN SharedRegisters /\ fldBits = fldStart /\ DOMAIN fldAsked = {}
  BY DEF FieldsInit
<1> QED
  BY <1>1 DEF FldIInv, FieldsAsAsked

LEMMA FieldsStep ==
  ASSUME FldIInv, [FieldsNext]_fldVars
  PROVE  FldIInv'
<1>1. CASE UNCHANGED fldVars
  BY <1>1 DEF fldVars, FldIInv, FieldsAsAsked
<1>2. CASE FieldsNext
  BY <1>2, SpiFieldsKeep, UartFieldsKeep, AudioFieldsKeep, AnalogFieldsKeep, OtherFieldsKeep DEF FieldsNext
<1> QED
  BY <1>1, <1>2
=============================================================================
