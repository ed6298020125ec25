---------------------------- MODULE AnalogGpio ----------------------------
(***************************************************************************)
(* The pins (gpio.c, gpio.h, ext_gpio.c) and the low power comparator      *)
(* (lpc.c, lpc.h).  Their registers are bytes that several pins share; some*)
(* are memory mapped, the others are analog registers behind one port      *)
(* (analog.c): an address, a data and a control register.                  *)
(*                                                                         *)
(* A driver call changes its registers one after the other, each by        *)
(* reading it, computing and writing it back.  An access through the port  *)
(* keeps interrupts away; a read and the write after it are two accesses,  *)
(* and so are a load and a store.  One thread and one interrupt handler    *)
(* call the driver; handlers do not nest.                                  *)
(***************************************************************************)
EXTENDS Integers, Sequences

CONSTANTS
  ThreadPins,    \* pins <<group, number>> the thread passes to the driver
  HandlerPins    \* pins the interrupt handler passes to it

Callers == {"thread", "handler"}
Bits == 0 .. 7
Groups == <<"A", "B", "C", "D", "E">>

gpio_pin_e == ({"A", "B", "C", "D", "E"} \X Bits) \cup ({"F"} \X (0 .. 3))

ASSUME GpioAssumption == ThreadPins \cup HandlerPins \subseteq gpio_pin_e

(* What one statement does to one register: of the bits in mask, those in  *)
(* put become one and the others zero, or all of them are inverted.        *)
Access(r, m, p) == [reg |-> r, mask |-> m, put |-> p, invert |-> FALSE]
Field(r, m, p) == <<Access(r, m, p)>>
BM_SET(r, b) == Field(r, b, b)
BM_CLR(r, b) == Field(r, b, {})
Store(r, v) == Field(r, Bits, v)

Result(old, a) ==
  IF a.invert THEN (old \ a.mask) \cup (a.mask \ old)
              ELSE (old \ a.mask) \cup a.put

Loads(a) == a.mask # Bits

BitsOf(n) == {i \in 0 .. 2 : (n \div (2 ^ i)) % 2 = 1}
Shifted(n, s) == {i + s : i \in BitsOf(n)}

-----------------------------------------------------------------------------
(* The calls, as the accesses they make.                                   *)

InAnalog(r) ==
  \/ r[1] \in {"ie", "pe", "ds"} /\ r[2] \in {"C", "D"}
  \/ r[1] \in {"pull_l", "pull_h", "lpc", "wake_pol", "wake_en"}

HasInput(p) == p[1] \in {"A", "B", "C", "D", "E"}

gpio_input_en(p)  == IF HasInput(p) THEN BM_SET(<<"ie", p[1]>>, {p[2]}) ELSE <<>>
gpio_input_dis(p) == IF HasInput(p) THEN BM_CLR(<<"ie", p[1]>>, {p[2]}) ELSE <<>>
gpio_ds_en(p)     == BM_SET(<<"ds", p[1]>>, {p[2]})
gpio_ds_dis(p)    == BM_CLR(<<"ds", p[1]>>, {p[2]})

gpio_shutdown(p) ==
  IF HasInput(p)
  THEN BM_SET(<<"oen", p[1]>>, {p[2]}) \o BM_CLR(<<"out", p[1]>>, {p[2]})
         \o BM_CLR(<<"ie", p[1]>>, {p[2]})
  ELSE <<>>

(* GPIO_ALL.  PA7, the debugger's wire, stays what it is.                  *)
gpio_shutdown_all ==
  LET Each(v) == [i \in 1 .. 5 |-> Access(<<v[1], Groups[i]>>, Bits, v[2][i])]
      same(s) == [i \in 1 .. 5 |-> s]
  IN  Each(<<"func", <<Bits \ {7}, Bits, Bits, Bits, Bits>> >>)
        \o Each(<<"oen", same(Bits)>>) \o Each(<<"out", same({})>>)
        \o Each(<<"ie", <<{7}, {}, {}, {}, {}>> >>)

gpio_pull_type_e ==
  [GPIO_PIN_UP_DOWN_FLOAT |-> 0, GPIO_PIN_PULLUP_1M |-> 1, GPIO_PIN_PULLDOWN_100K |-> 2,
   GPIO_PIN_PULLUP_10K |-> 3]

(* The two bits of a pin lie in one of two registers of its group.         *)
gpio_set_up_down_res(p, res) ==
  LET shift == 2 * (p[2] % 4)
  IN  Field(<<IF p[2] > 3 THEN "pull_h" ELSE "pull_l", p[1]>>,
            {shift, shift + 1}, Shifted(res % 4, shift))

gpio_setup_up_down_resistor(p, res) == gpio_set_up_down_res(p, res)

gpio_set_pullup_res_30k(p) ==
  IF p[1] \in {"C", "D"} THEN BM_SET(<<"pe", p[1]>>, {p[2]})
  ELSE BM_SET(<<"oen", p[1]>>, {p[2]}) \o BM_SET(<<"out", p[1]>>, {p[2]})

gpio_function_en(p)  == BM_SET(<<"func", p[1]>>, {p[2]})
gpio_function_dis(p) == BM_CLR(<<"func", p[1]>>, {p[2]})
gpio_set_high_level(p) == BM_SET(<<"out", p[1]>>, {p[2]})
gpio_set_low_level(p)  == BM_CLR(<<"out", p[1]>>, {p[2]})
gpio_output_en(p)  == BM_CLR(<<"oen", p[1]>>, {p[2]})
gpio_output_dis(p) == BM_SET(<<"oen", p[1]>>, {p[2]})
gpio_set_level(p, value) == IF value THEN gpio_set_high_level(p) ELSE gpio_set_low_level(p)
gpio_set_output(p, value) == IF value THEN gpio_output_en(p) ELSE gpio_output_dis(p)
gpio_toggle(p) == <<[Access(<<"out", p[1]>>, {p[2]}, {}) EXCEPT !.invert = TRUE]>>

(* The three interrupt lines of the pins: "irq", "risc0", "risc1".         *)
Line(l) == CASE l = "irq" -> 0 [] l = "risc0" -> 1 [] l = "risc1" -> 2
gpio_irq_en(p, l)  == BM_SET(<<l, p[1]>>, {p[2]})
gpio_irq_dis(p, l) == BM_CLR(<<l, p[1]>>, {p[2]})

gpio_irq_trigger_type_e == {"RISING_EDGE", "FALLING_EDGE", "HIGH_LEVEL", "LOW_LEVEL"}
gpio_set_irq(p, t, l) ==
  LET pol == IF t \in {"FALLING_EDGE", "LOW_LEVEL"} THEN {p[2]} ELSE {}
      lvl == IF t \in {"HIGH_LEVEL", "LOW_LEVEL"} THEN {Line(l) + 4} ELSE {}
      all == <<"risc_mask", "all">>
  IN  Field(<<"pol", p[1]>>, {p[2]}, pol) \o Field(all, {Line(l) + 4}, lvl)
        \o (IF l = "irq" THEN BM_SET(<<"irq_ctrl", "all">>, {3}) ELSE <<>>)
        \o Store(<<"irq_clr", "all">>, {Line(l)})
        \o BM_SET(all, {Line(l)})

(* pm.c: a pin wakes the chip at a level.  Of the polarity, a one is low.  *)
pm_set_gpio_wakeup(p, high, en) ==
  (IF high THEN BM_CLR(<<"wake_pol", p[1]>>, {p[2]}) ELSE BM_SET(<<"wake_pol", p[1]>>, {p[2]}))
    \o (IF en THEN BM_SET(<<"wake_en", p[1]>>, {p[2]}) ELSE BM_CLR(<<"wake_en", p[1]>>, {p[2]}))

lpc_reference_e ==
  [LPC_REF_974MV |-> 1, LPC_REF_923MV |-> 2, LPC_REF_872MV |-> 3, LPC_REF_820MV |-> 4,
   LPC_REF_PB0 |-> 5, LPC_REF_PB3 |-> 6]

lpc_power_down == BM_SET(<<"lpc", "07">>, {3})
lpc_power_on   == BM_CLR(<<"lpc", "06">>, {1})
lpc_set_input_chn(n) == Field(<<"lpc", "0d">>, {0, 1, 2}, Shifted(n, 0))
lpc_set_scaling_coeff(n) == Field(<<"lpc", "0b">>, {4, 5}, Shifted(n, 4))
lpc_set_input_ref(low, n) ==
  Field(<<"lpc", "0b">>, {3}, IF low THEN {3} ELSE {})
    \o Field(<<"lpc", "0d">>, {7}, IF low THEN {7} ELSE {})
    \o Field(<<"lpc", "0d">>, {4, 5, 6}, Shifted(n, 4))

(* Calls of one kind with the pins of a caller: the calls that change the  *)
(* same registers, or share an interrupt line's.                           *)
Kinds == {"input", "strength", "pull", "pull_30k", "function", "level", "output",
          "irq", "trigger", "wakeup", "shutdown", "comparator", "comparator_power"}

WakeupCalls(pins) ==
  UNION {{pm_set_gpio_wakeup(p, TRUE, TRUE), pm_set_gpio_wakeup(p, FALSE, TRUE),
          pm_set_gpio_wakeup(p, TRUE, FALSE)} : p \in pins}

ComparatorCalls ==
  {lpc_set_input_ref(TRUE, lpc_reference_e.LPC_REF_PB0),
   lpc_set_input_ref(FALSE, lpc_reference_e.LPC_REF_923MV),
   lpc_set_input_chn(3), lpc_set_scaling_coeff(1)}

Calls(kind, pins) ==
  {s \in CASE kind = "input"    -> UNION {{gpio_input_en(p), gpio_input_dis(p)} : p \in pins}
         []   kind = "strength" -> UNION {{gpio_ds_en(p), gpio_ds_dis(p)} : p \in pins}
         []   kind = "pull"     -> {gpio_set_up_down_res(p, gpio_pull_type_e[r]) :
                                           p \in pins, r \in DOMAIN gpio_pull_type_e \ {"GPIO_PIN_PULLUP_1M"}}
         []   kind = "pull_30k" -> {gpio_set_pullup_res_30k(p) : p \in pins}
         []   kind = "function" -> UNION {{gpio_function_en(p), gpio_function_dis(p)} : p \in pins}
         []   kind = "level"    -> {gpio_set_level(p, v) : p \in pins, v \in BOOLEAN}
                                   \cup {gpio_toggle(p) : p \in pins}
         []   kind = "output"   -> {gpio_set_output(p, v) : p \in pins, v \in BOOLEAN}
         []   kind = "irq"      -> UNION {{gpio_irq_en(p, l), gpio_irq_dis(p, l)} :
                                           p \in pins, l \in {"risc0"}}
         []   kind = "trigger"  -> {gpio_set_irq(p, t, "irq") : p \in pins, t \in gpio_irq_trigger_type_e}
         []   kind = "wakeup"   -> WakeupCalls(pins)
         []   kind = "shutdown" -> {gpio_shutdown(p) : p \in pins} \cup {gpio_shutdown_all}
         []   kind = "comparator" -> ComparatorCalls
         []   kind = "comparator_power" -> {lpc_power_down, lpc_power_on}
   : s # <<>>}

-----------------------------------------------------------------------------
VARIABLES
  reg,           \* contents of the registers
  port,          \* the analog port: address, data and the command in progress
  gpioMie,       \* the interrupt enable bits of mie
  caller,        \* where each caller is
  kinds,         \* the kind of call each caller makes
  want,          \* contents if each call changed its registers at one instant
  raced          \* bits the handler changed under the thread's copy, not set since

gpioVars == <<reg, port, gpioMie, caller, kinds, want, raced>>

Registers(k) ==
  {a.reg : a \in UNION {{s[i] : i \in 1 .. Len(s)} :
      s \in Calls(k["thread"], ThreadPins) \cup Calls(k["handler"], HandlerPins)}}

(* Nothing held: the call, if any, is over.  Otherwise: before an access.  *)
Idle == [at |-> "idle", todo |-> <<>>, write |-> FALSE, copy |-> {}, r |-> FALSE]
Before(todo) ==
  IF todo = <<>> THEN Idle
  ELSE [at |-> "enter", todo |-> todo, write |-> ~Loads(todo[1]), copy |-> {}, r |-> FALSE]

GpioInit ==
  /\ kinds \in [Callers -> Kinds]
  /\ kinds["handler"] \in {"input", kinds["thread"]} \ {"comparator", "comparator_power"}
  /\ reg = [r \in Registers(kinds) |-> {1, 3, 5, 7}]    \* some bits set, some not
  /\ want = reg
  /\ raced = [r \in DOMAIN reg |-> {}]
  /\ port = [addr |-> <<"none", "00">>, data |-> {}, cmd |-> "idle"]
  /\ gpioMie = TRUE
  /\ caller = [c \in Callers |-> Idle]

Running == IF caller["handler"].at = "idle" THEN "thread" ELSE "handler"
At(c, at) == c = Running /\ caller[c].at = at
Now(c) == caller[c].todo[1]
Goto(c, at) == caller' = [caller EXCEPT ![c].at = at]

(* The access is a read: its write comes next.  It is a write: the next    *)
(* access does.                                                            *)
HasRead(c, value) ==
  caller' = [caller EXCEPT ![c].at = "enter", ![c].write = TRUE, ![c].copy = value]
HasWritten(c) == caller' = [caller EXCEPT ![c] = Before(Tail(@.todo))]

(* What the write of an access means for the two histories.  The other     *)
(* caller's copy is stale if it has read the register and not yet written. *)
HoldsCopy(o, r) ==
  /\ caller[o].at # "idle" /\ caller[o].write
  /\ Now(o).reg = r /\ Loads(Now(o))

Note(c) ==
  LET a == Now(c)
      o == CHOOSE o \in Callers : o # c
  IN  /\ want' = [want EXCEPT ![a.reg] = Result(@, a)]
      /\ raced' = [raced EXCEPT ![a.reg] =
                     IF HoldsCopy(o, a.reg) THEN @ \cup a.mask
                     ELSE IF a.invert THEN @ ELSE @ \ a.mask]

-----------------------------------------------------------------------------
(* A call of the thread, and of the handler of an interrupt that is taken  *)
(* between any two steps of the thread.                                    *)
GpioCall ==
  /\ Running = "thread" /\ caller["thread"].at = "idle"
  /\ \E s \in Calls(kinds["thread"], ThreadPins) :
       caller' = [caller EXCEPT !["thread"] = Before(s)]
  /\ UNCHANGED <<reg, port, gpioMie, kinds, want, raced>>

GpioInterrupt ==
  /\ Running = "thread" /\ gpioMie
  /\ \E s \in Calls(kinds["handler"], HandlerPins) :
       caller' = [caller EXCEPT !["handler"] = Before(s)]
  /\ UNCHANGED <<reg, port, gpioMie, kinds, want, raced>>

(* A memory mapped register is loaded and stored.                          *)
MmioLoad(c) ==
  /\ At(c, "enter") /\ ~caller[c].write /\ ~InAnalog(Now(c).reg)
  /\ HasRead(c, reg[Now(c).reg])
  /\ UNCHANGED <<reg, port, gpioMie, kinds, want, raced>>

MmioStore(c) ==
  /\ At(c, "enter") /\ caller[c].write /\ ~InAnalog(Now(c).reg)
  /\ reg' = [reg EXCEPT ![Now(c).reg] = Result(caller[c].copy, Now(c))]
  /\ Note(c)
  /\ HasWritten(c)
  /\ UNCHANGED <<port, gpioMie, kinds>>

(* analog_read_reg8 and analog_write_reg8.                                 *)
AnalogEnterFault(c) ==  \* the port is used with interrupts enabled
  /\ At(c, "enter") /\ InAnalog(Now(c).reg)
  /\ caller' = [caller EXCEPT ![c].at = "address", ![c].r = gpioMie]
  /\ UNCHANGED <<reg, port, gpioMie, kinds, want, raced>>

AnalogEnter(c) ==
  /\ At(c, "enter") /\ InAnalog(Now(c).reg)
  /\ gpioMie' = FALSE
  /\ caller' = [caller EXCEPT ![c].at = "address", ![c].r = gpioMie]
  /\ UNCHANGED <<reg, port, kinds, want, raced>>

AnalogAddress(c) ==
  /\ At(c, "address")
  /\ port' = [port EXCEPT !.addr = Now(c).reg]
  /\ Goto(c, "start")
  /\ UNCHANGED <<reg, gpioMie, kinds, want, raced>>

AnalogStartRead(c) ==
  /\ At(c, "start") /\ ~caller[c].write
  /\ port' = [port EXCEPT !.cmd = "read"]
  /\ Goto(c, "wait")
  /\ UNCHANGED <<reg, gpioMie, kinds, want, raced>>

AnalogStartWrite(c) ==
  /\ At(c, "start") /\ caller[c].write
  /\ port' = [port EXCEPT !.data = Result(caller[c].copy, Now(c)), !.cmd = "write"]
  /\ Note(c)
  /\ Goto(c, "wait")
  /\ UNCHANGED <<reg, gpioMie, kinds>>

(* The port has done what it was told (external).                          *)
PortDone ==
  /\ port.cmd # "idle"
  /\ IF port.cmd = "read"
     THEN /\ port' = [port EXCEPT !.data = reg[port.addr], !.cmd = "idle"]
          /\ UNCHANGED reg
     ELSE /\ reg' = [reg EXCEPT ![port.addr] = port.data]
          /\ port' = [port EXCEPT !.cmd = "idle"]
  /\ UNCHANGED <<gpioMie, caller, kinds, want, raced>>

AnalogWait(c) ==
  /\ At(c, "wait") /\ port.cmd = "idle"
  /\ caller' = [caller EXCEPT ![c].at = "leave", ![c].copy = IF caller[c].write THEN @ ELSE port.data]
  /\ UNCHANGED <<reg, port, gpioMie, kinds, want, raced>>

AnalogLeave(c) ==
  /\ At(c, "leave")
  /\ gpioMie' = (gpioMie \/ caller[c].r)
  /\ IF caller[c].write THEN HasWritten(c) ELSE HasRead(c, caller[c].copy)
  /\ UNCHANGED <<reg, port, kinds, want, raced>>

GpioNext ==
  \/ GpioCall
  \/ GpioInterrupt
  \/ PortDone
  \/ \E c \in Callers :
       \/ MmioLoad(c) \/ MmioStore(c)
       \/ AnalogEnter(c) \/ AnalogAddress(c)
       \/ AnalogStartRead(c) \/ AnalogStartWrite(c)
       \/ AnalogWait(c) \/ AnalogLeave(c)

-----------------------------------------------------------------------------
GpioTypeOK ==
  /\ \A r \in DOMAIN reg : reg[r] \subseteq Bits /\ want[r] \subseteq Bits
  /\ raced \in [DOMAIN reg -> SUBSET Bits]
  /\ port.data \subseteq Bits /\ (port.cmd # "idle" => port.addr \in DOMAIN reg)

(* Whatever the thread and the handler set, in whatever order, is what the *)
(* registers hold, but for one thing: bits that the handler changes in a   *)
(* register of which the thread holds a copy may be lost, as the read and  *)
(* the write of gpio.c are two calls of analog.c.  Nothing else is lost,   *)
(* no value reaches another register through the port both share.          *)
PinsAsSet ==
  port.cmd = "idle" => \A r \in DOMAIN reg : reg[r] \ raced[r] = want[r] \ raced[r]

=============================================================================
