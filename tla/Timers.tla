------------------------------- MODULE Timers -------------------------------
(***************************************************************************)
(* The two timers and the watchdog (timer.c, timer.h, watchdog.h), and the *)
(* PWM channels (pwm.h).  Several channels share each register, so that a  *)
(* call for one reads and writes bits of all; flags of interrupts are      *)
(* cleared by writing ones, where a read and a write back clears others'.  *)
(* A register is the set of its bits that are one.                         *)
(***************************************************************************)
EXTENDS Integers

CONSTANTS
  PwmIds,        \* the PWM channels in use, of 0 .. 5
  WdPeriods,     \* intervals of the watchdog, in ms
  WdClocks       \* frequencies of pclk, in MHz

ASSUME TimersAssumption == PwmIds \subseteq 0 .. 5 /\ WdPeriods \subseteq Nat /\ WdClocks \subseteq Nat \ {0}

VARIABLES
  tmrUser,       \* "timers" or "pwm": what the application uses
  tmrReg,        \* the registers
  tmrAsked,      \* what the calls asked of each channel
  tmrDue         \* flags raised, and not yet acknowledged by a call

tmrVars == <<tmrUser, tmrReg, tmrAsked, tmrDue>>

TimerIds == {0, 1}
ModeBits(mode) == {b \in {0, 1} : (mode \div 2^b) % 2 = 1}
Above(t, bits) == {b + 4 * t : b \in bits}          \* TIMER1's bits of reg_tmr_ctrl0

BitSet(r, bits) == [tmrReg EXCEPT ![r] = @ \cup bits]
BitClear(r, bits) == [tmrReg EXCEPT ![r] = @ \ bits]
Clears(on, r, bits) == IF on THEN BitSet(r, bits) ELSE BitClear(r, bits)

-----------------------------------------------------------------------------
(* The timers.  FLD_TMR0_EN is bit 2, FLD_TMR1_EN bit 6; a flag of         *)
(* reg_tmr_sta goes when a one is written to it.                           *)
Acknowledged(sta, written) == sta \ written

timer_start(t) ==
  /\ tmrReg' = BitSet("ctrl0", Above(t, {2}))
  /\ tmrAsked' = [tmrAsked EXCEPT !.on[t] = TRUE]
  /\ UNCHANGED tmrDue

timer_stop(t) ==
  /\ tmrReg' = BitClear("ctrl0", Above(t, {2}))
  /\ tmrAsked' = [tmrAsked EXCEPT !.on[t] = FALSE]
  /\ UNCHANGED tmrDue

ModeWritten(ctrl0, t, mode) == (ctrl0 \ Above(t, {0, 1})) \cup Above(t, ModeBits(mode))

timer_set_mode(t, mode) ==
  /\ tmrReg' = [tmrReg EXCEPT !.sta = Acknowledged(@, {t}),
                              !.ctrl0 = ModeWritten(@, t, mode)]
  /\ tmrAsked' = [tmrAsked EXCEPT !.mode[t] = mode]
  /\ tmrDue' = tmrDue \ {t}

(* timer_clr_irq_status, and wd_clear, whose flag is 2.                    *)
StaWritten(flag) == {flag}

timer_clr_irq_status(flag) ==
  /\ tmrReg' = [tmrReg EXCEPT !.sta = Acknowledged(@, StaWritten(flag))]
  /\ tmrDue' = tmrDue \ {flag}
  /\ UNCHANGED tmrAsked

(* wd_set_interval_ms: ticks of pclk modulo 2^32, here in units of 8; the  *)
(* register's low byte is always 0.                                        *)
wd_set_interval_ms(period, pclk) ==
  /\ tmrReg' = [tmrReg EXCEPT !.target = ((((period * pclk * 125) % 2^29) \div 32) * 32)]
  /\ tmrAsked' = [tmrAsked EXCEPT !.wd = <<period, pclk>>]
  /\ UNCHANGED tmrDue

wd_start == (tmrReg' = BitSet("ctrl2", {7})) /\ UNCHANGED <<tmrAsked, tmrDue>>
wd_stop == (tmrReg' = BitClear("ctrl2", {7})) /\ UNCHANGED <<tmrAsked, tmrDue>>

(* A timer reaches its capture value, or the watchdog its target.          *)
TimerExpires(flag) ==
  /\ IF flag = 2 THEN tmrReg.ctrl2 = {7} ELSE Above(flag, {2}) \subseteq tmrReg.ctrl0
  /\ tmrReg' = BitSet("sta", {flag})
  /\ tmrDue' = tmrDue \cup {flag}
  /\ UNCHANGED tmrAsked

TimersStep ==
  \/ \E t \in TimerIds :
       \/ timer_start(t)
       \/ timer_stop(t)
       \/ \E mode \in 0 .. 3 : timer_set_mode(t, mode)
  \/ \E flag \in 0 .. 2 : timer_clr_irq_status(flag) \/ TimerExpires(flag)
  \/ wd_start \/ wd_stop
  \/ \E period \in WdPeriods, pclk \in WdClocks : wd_set_interval_ms(period, pclk)

-----------------------------------------------------------------------------
(* PWM.  Channel 0 has an enable register of its own.                      *)
\* PWM0 is enabled with the others.
EnableRegisterFault(id) == <<"enable", {id}>>

EnableRegister(id) == IF id = 0 THEN <<"enable0", {0}>> ELSE <<"enable", {id}>>

(* pwm_start, pwm_stop.                                                    *)
pwm_start(id, on) ==
  /\ tmrReg' = Clears(on, EnableRegister(id)[1], EnableRegister(id)[2])
  /\ tmrAsked' = [tmrAsked EXCEPT !.pwm[id].on = on]
  /\ UNCHANGED tmrDue

(* pwm_invert_en and _dis, pwm_n_invert_en and _dis, pwm_set_polarity_en   *)
(* and _dis.                                                               *)
pwm_invert(id, which, on) ==
  /\ tmrReg' = Clears(on, which, {id})
  /\ tmrAsked' = [tmrAsked EXCEPT !.pwm[id][which] = on]
  /\ UNCHANGED tmrDue

(* pwm_32k_chn_en; nothing takes a channel back from the 32 kHz clock.     *)
pwm_32k_chn_en(id) ==
  /\ tmrReg' = BitSet("mode32k", {id})
  /\ tmrAsked' = [tmrAsked EXCEPT !.pwm[id].slow = TRUE]
  /\ UNCHANGED tmrDue

(* Interrupts: of the end of channel id's frame.  pwm_clr_irq_mask sets    *)
(* the bit, as pwm_set_irq_mask does.                                      *)
pwm_set_irq_mask(id) ==
  /\ tmrReg' = BitSet("mask", {id})
  /\ UNCHANGED <<tmrAsked, tmrDue>>

pwm_clr_irq_mask(id) == pwm_set_irq_mask(id)

(* Written back with the flag are those that were read, and all go.        *)
pwm_clr_irq_status(id) ==
  /\ tmrReg' = [tmrReg EXCEPT !.pwmSta = Acknowledged(@, @ \cup {id})]
  /\ UNCHANGED <<tmrAsked, tmrDue>>

PwmFrameDone(id) ==
  /\ EnableRegister(id)[2] \subseteq tmrReg[EnableRegister(id)[1]]
  /\ tmrReg' = BitSet("pwmSta", {id})
  /\ UNCHANGED <<tmrAsked, tmrDue>>

PwmStep ==
  \E id \in PwmIds :
    \/ \E on \in BOOLEAN :
         \/ pwm_start(id, on)
         \/ \E which \in {"invert", "n_invert", "pol"} : pwm_invert(id, which, on)
    \/ pwm_32k_chn_en(id)
    \/ pwm_set_irq_mask(id) \/ pwm_clr_irq_mask(id)
    \/ pwm_clr_irq_status(id) \/ PwmFrameDone(id)

-----------------------------------------------------------------------------
TimersInit ==
  /\ tmrUser \in {"timers", "pwm"}
  /\ tmrReg = [ctrl0 |-> {}, ctrl2 |-> {}, sta |-> {}, target |-> 0,
               enable |-> {}, enable0 |-> {}, invert |-> {}, n_invert |-> {}, pol |-> {},
               mode32k |-> {}, mask |-> {}, pwmSta |-> {}]
  /\ tmrAsked = [on |-> [t \in TimerIds |-> FALSE], mode |-> [t \in TimerIds |-> 0],
                 wd |-> <<0, 1>>,
                 pwm |-> [id \in PwmIds |-> [on |-> FALSE, invert |-> FALSE, n_invert |-> FALSE,
                                             pol |-> FALSE, slow |-> FALSE]]]
  /\ tmrDue = {}

TimersNext ==
  /\ \/ tmrUser = "timers" /\ TimersStep
     \/ tmrUser = "pwm" /\ PwmStep
  /\ UNCHANGED tmrUser

-----------------------------------------------------------------------------
(* Each timer and each PWM channel is as the last calls for it asked,      *)
(* whatever was called for the others with the same registers; and the     *)
(* watchdog's target is the interval asked, short by a byte at most, when  *)
(* it fits in 32 bits.                                                     *)
ChannelsAsSet ==
  /\ \A t \in TimerIds :
       tmrReg.ctrl0 \cap Above(t, {0, 1, 2}) =
         Above(t, ModeBits(tmrAsked.mode[t]) \cup (IF tmrAsked.on[t] THEN {2} ELSE {}))
  /\ \A id \in PwmIds :
       LET asked == tmrAsked.pwm[id]
       IN /\ id \in tmrReg.enable \cup tmrReg.enable0 <=> asked.on
          /\ id # 0 => id \notin tmrReg.enable0
          /\ 0 \notin tmrReg.enable
          /\ id \in tmrReg.invert <=> asked.invert
          /\ id \in tmrReg.n_invert <=> asked.n_invert
          /\ id \in tmrReg.pol <=> asked.pol
          /\ id \in tmrReg.mode32k <=> asked.slow
  /\ LET ticks == tmrAsked.wd[1] * tmrAsked.wd[2] * 125       \* in units of 8
     IN ticks < 2^29 => ticks - tmrReg.target \in 0 .. 31

(* A flag that rose, of a timer or the watchdog, stays until a call clears *)
(* that very flag or sets that timer's mode: clearing one interrupt does   *)
(* not lose another.  (PWM's flags are lost so: pwm.h:370.)                *)
IrqsKept == tmrDue = tmrReg.sta

(* Users of the shared timer and PWM registers do not disturb each other.  *)
TimersKept == ChannelsAsSet /\ IrqsKept
=============================================================================
