---------------------------- MODULE Oscillators -----------------------------
(***************************************************************************)
(* The oscillators below the clock tree: the choice of the 32 kHz source,  *)
(* the kick that makes its crystal start, the calibrations of the two RC   *)
(* oscillators, which share a register, the supply of the PLL (clock.c),   *)
(* and the software that follows the drift of the 32 kHz RC (pm.c).        *)
(*                                                                         *)
(* The analog registers survive a reset, the variables do not; a watchdog  *)
(* may cut every call that waits.                                          *)
(***************************************************************************)
EXTENDS Integers

CONSTANTS
  OscCalls,      \* bound on the calls between two resets
  KickTimes,     \* xtal_times
  RcTicks,       \* measured 16M ticks of 16 cycles of the RC
  RcErrors,      \* offset_tick: 16M ticks a sleep ended early or late
  RcSleeps       \* lengths of those sleeps, in cycles of the RC

ASSUME OscillatorsAssumption ==
  /\ OscCalls \in Nat /\ KickTimes \subseteq 0 .. 255
  /\ RcTicks \subseteq 1 .. 2^16 /\ RcErrors \subseteq -2^17 .. 2^17
  /\ RcSleeps \subseteq 1 .. 2^20 /\ RcSleeps # {}

VARIABLES
  oscUser,       \* which of the two a behaviour looks at: registers or drift
  oscAna,        \* analog registers
  oscXtal,       \* hardware: the crystal oscillates
  oscPins,       \* the registers of PD0, PWM 0 and their clock
  oscRam,        \* variables of clock.c and pm.c
  oscAt,         \* where the running call is
  oscDone,       \* calls completed since the reset, and their results
  oscCalls

oscVars == <<oscUser, oscAna, oscXtal, oscPins, oscRam, oscAt, oscDone, oscCalls>>

-----------------------------------------------------------------------------
(* The 32 kHz source: bit 7 of 0x4e, and the power-down bits of 0x05.      *)
CLK_32K_RC == 0
CLK_32K_XTAL == 1
Powered(src) == IF src = CLK_32K_XTAL THEN {"xtal"} ELSE {"rc"}

OscBegin == oscAt = "idle" /\ oscCalls < OscCalls /\ oscCalls' = oscCalls + 1

clock_32k_init(src) ==
  /\ OscBegin
  /\ oscAna' = [oscAna EXCEPT !.src = src, !.up = Powered(src)]
  /\ oscXtal' = (oscXtal /\ src = CLK_32K_XTAL)
  /\ oscRam' = [oscRam EXCEPT !.g_clk_32k_src = src]
  /\ oscDone' = [oscDone EXCEPT !.init = TRUE]
  /\ UNCHANGED <<oscPins, oscAt>>

(* Deep sleep without a timer: the record is lost with the memory.         *)
pm_switch_ext32kpad_to_int32krc ==
  /\ oscRam.g_clk_32k_src = CLK_32K_XTAL
  /\ oscAna' = [oscAna EXCEPT !.src = CLK_32K_RC, !.up = {"rc"}]
  /\ oscXtal' = FALSE

-----------------------------------------------------------------------------
(* The kick.  PWM 0 drives the pin of the crystal for a while; then the    *)
(* registers are as they were, except for the PWM's divider.               *)
KickRegs == {"hclk_div", "pd_gpio", "pd_mux", "pd_pull", "pwm_cmp", "pwm_max", "pwm_en"}
OwnValues == [r \in KickRegs |-> "own"]
KickValues == [r \in KickRegs |-> "kick"]

KickBegin(times) ==           \* clock_kick_32k_xtal
  /\ OscBegin
  /\ oscAt' = IF times = 0 THEN "idle" ELSE "kick"
  /\ UNCHANGED <<oscAna, oscXtal, oscPins, oscRam, oscDone>>

(* A chip of version A0 only waits a second.                               *)
KickTry(a0) ==
  /\ oscAt = "kick"
  /\ IF a0 THEN oscAt' = "ticks" /\ UNCHANGED <<oscPins, oscRam>>
     ELSE /\ oscRam' = [oscRam EXCEPT !.saved = oscPins]
          /\ oscPins' = KickValues
          /\ oscAt' = "drive"
  /\ UNCHANGED <<oscAna, oscXtal, oscDone, oscCalls>>

KickStarts ==                 \* hardware
  /\ oscAt \in {"drive", "ticks"} /\ "xtal" \in oscAna.up
  /\ oscXtal' = TRUE
  /\ UNCHANGED <<oscAna, oscPins, oscRam, oscAt, oscDone, oscCalls>>

KickRestore ==
  /\ oscAt = "drive"
  /\ oscPins' = oscRam.saved
  /\ oscAt' = "ticks"
  /\ UNCHANGED <<oscAna, oscXtal, oscRam, oscDone, oscCalls>>

(* clock_get_32k_tick waits for a change of the counter, so that it never  *)
(* returns while the source of it stands still; ten periods later the      *)
(* counter has moved by more than three.                                   *)
Ticking == IF oscAna.src = CLK_32K_XTAL THEN oscXtal ELSE "rc" \in oscAna.up

KickMeasure ==
  /\ oscAt = "ticks" /\ Ticking
  /\ oscAt' = "idle"
  /\ oscDone' = [oscDone EXCEPT !.kicked = TRUE]
  /\ UNCHANGED <<oscAna, oscXtal, oscPins, oscRam, oscCalls>>

-----------------------------------------------------------------------------
(* The calibrations.  Bits 7 and 6 of 0x4f take the values found by the    *)
(* hardware instead of those in 0x52, and in 0x51 and 0x4f<5:0>.           *)
Cal24Begin ==                 \* clock_cal_24m_rc
  /\ OscBegin
  /\ oscAna' = [oscAna EXCEPT !.auto = @ \cup {"24m"}]
  /\ oscAt' = "cal24"
  /\ UNCHANGED <<oscXtal, oscPins, oscRam, oscDone>>

Cal24End(cap) ==
  /\ oscAt = "cal24"
  /\ oscAna' = [oscAna EXCEPT !.r52 = cap, !.auto = @ \ {"24m"}]
  /\ oscRam' = [oscRam EXCEPT !.tl_24mrc_cal = cap]
  /\ oscDone' = [oscDone EXCEPT !.cap = cap]
  /\ oscAt' = "idle"
  /\ UNCHANGED <<oscXtal, oscPins, oscCalls>>

Cal32Begin ==                 \* clock_cal_32k_rc
  /\ OscBegin
  /\ oscAna' = [oscAna EXCEPT !.auto = {"32k"}]
  /\ oscAt' = "cal32"
  /\ UNCHANGED <<oscXtal, oscPins, oscRam, oscDone>>

Cal32End(res1, res2) ==
  /\ oscAt = "cal32"
  /\ oscAna' = [oscAna EXCEPT !.r51 = res1, !.r4f = res2, !.auto = {}]
  /\ oscDone' = [oscDone EXCEPT !.res = <<res1, res2>>]
  /\ oscAt' = "idle"
  /\ UNCHANGED <<oscXtal, oscPins, oscRam, oscCalls>>

-----------------------------------------------------------------------------
(* The PLL's supply is trimmed anew when it does not lock: at most twice,  *)
(* and from wherever the trim was left.                                    *)
pm_wait_bbpll_done(locks) ==
  LET trims == <<oscAna.r01, 70, 67>>
      good == {j \in 1 .. 3 : trims[j] \in locks}
      last == IF good = {} THEN 3 ELSE CHOOSE j \in good : \A i \in good : j <= i
  IN /\ OscBegin
     /\ oscAna' = [oscAna EXCEPT !.r01 = trims[last]]
     /\ oscDone' = [oscDone EXCEPT !.locks = locks]
     /\ UNCHANGED <<oscXtal, oscPins, oscRam, oscAt>>

-----------------------------------------------------------------------------
(* The drift of the RC.  Divisions truncate and shifts do not.             *)
Quotient(a, b) == IF a >= 0 THEN a \div b ELSE -((-a) \div b)
Clamped(x, m) == IF x > m THEN m ELSE IF x < -m THEN -m ELSE x

OffsetLimit(cnt) == 256 * (IF cnt \div 9600 = 0 THEN 1 ELSE cnt \div 9600)

RcOffset(scaled, cnt, limit) ==
  /\ OscBegin
  /\ LET offset == Clamped(Quotient(scaled, cnt), limit)
     IN oscRam' = [oscRam EXCEPT !.calib = 1, !.offset = @ + ((offset - @) \div 16)]
  /\ UNCHANGED <<oscAna, oscXtal, oscPins, oscAt, oscDone>>

pm_ble_cal_32k_rc_offset(e, cnt) == RcOffset(e * (256 * 31), cnt, OffsetLimit(cnt))
pm_cal_32k_rc_offset(e, rc32) == RcOffset(e * (240 * 31), rc32, 256)

pm_get_32k_rc_calib(ticks) ==
  /\ OscBegin
  /\ LET tc == IF oscRam.tc = 0 THEN ticks * 16
               ELSE oscRam.tc + ((ticks * 16 - oscRam.tc) \div (2^(4 - oscRam.calib)))
         base == tc \div 16
     IN /\ oscRam' = [oscRam EXCEPT !.tc = tc]
        /\ oscDone' = [oscDone EXCEPT !.calib = base + ((oscRam.offset * base) \div 2^18)]
  /\ UNCHANGED <<oscAna, oscXtal, oscPins, oscAt>>

(* pm_32k_rc_offset_init and pm_ble_32k_rc_cal_reset.                      *)
RcReset ==
  /\ OscBegin
  /\ oscRam' = [oscRam EXCEPT !.offset = 0, !.tc = 0]
  /\ UNCHANGED <<oscAna, oscXtal, oscPins, oscAt, oscDone>>

(* A sleep that takes its reference anew: pm_update_32k_rc_sleep_tick.     *)
RcReference ==
  /\ OscBegin
  /\ oscRam' = [oscRam EXCEPT !.calib = 0]
  /\ UNCHANGED <<oscAna, oscXtal, oscPins, oscAt, oscDone>>

-----------------------------------------------------------------------------
RamAtReset ==
  [g_clk_32k_src |-> CLK_32K_RC, tl_24mrc_cal |-> 0, saved |-> OwnValues,
   offset |-> 0, tc |-> 0, calib |-> 0]
NoneDone ==
  [init |-> FALSE, kicked |-> FALSE, cap |-> 0, res |-> <<0, 0>>, locks |-> {}, calib |-> 0]

OscInit ==
  /\ oscUser \in {"registers", "drift"}
  /\ oscAna = [src |-> CLK_32K_RC, up |-> {"rc"}, auto |-> {}, r4f |-> 0, r51 |-> 0,
               r52 |-> 0, r01 |-> 69]
  /\ oscXtal = FALSE /\ oscPins = OwnValues
  /\ oscRam = RamAtReset /\ oscAt = "idle" /\ oscDone = NoneDone /\ oscCalls = 0

OscRestart ==
  /\ oscRam' = RamAtReset /\ oscAt' = "idle" /\ oscDone' = NoneDone /\ oscCalls' = 0
  /\ oscPins' = OwnValues

(* The watchdog, at any time; sys_init trims the supply to 0x45 again.     *)
OscReset ==
  /\ OscRestart
  /\ oscAna' = [oscAna EXCEPT !.r01 = 69]
  /\ UNCHANGED oscXtal

OscDeepSleep ==
  /\ oscAt = "idle"
  /\ pm_switch_ext32kpad_to_int32krc
  /\ OscRestart

OscRegisters ==
  \/ \E src \in {CLK_32K_RC, CLK_32K_XTAL} : clock_32k_init(src)
  \/ \E times \in KickTimes : KickBegin(times)
  \/ \E a0 \in BOOLEAN : KickTry(a0)
  \/ KickStarts \/ KickRestore \/ KickMeasure
  \/ Cal24Begin \/ Cal32Begin
  \/ \E v \in {1, 2} : Cal24End(v) \/ Cal32End(v, 3 - v)
  \/ \E locks \in SUBSET {67, 69, 70} : pm_wait_bbpll_done(locks)
  \/ OscReset \/ OscDeepSleep

OscDrift ==
  \/ \E e \in RcErrors, n \in RcSleeps : pm_ble_cal_32k_rc_offset(e, n) \/ pm_cal_32k_rc_offset(e, n)
  \/ \E ticks \in RcTicks : pm_get_32k_rc_calib(ticks)
  \/ RcReset \/ RcReference

OscNext ==
  /\ \/ oscUser = "registers" /\ OscRegisters
     \/ oscUser = "drift" /\ (OscDrift \/ OscReset)
  /\ UNCHANGED oscUser

-----------------------------------------------------------------------------
(* Once the application has chosen a 32 kHz source, the driver's record,   *)
(* which pm_sleep_wakeup converts by, names the one that is selected, and  *)
(* it is powered; without a choice, the chip is as after power-on or as    *)
(* the application before the reset left it.                               *)
SourceKept ==
  oscAt = "idle" /\ oscDone.init =>
    oscRam.g_clk_32k_src = oscAna.src /\ oscAna.up = Powered(oscAna.src)

(* A call leaves the other calibration in 0x4f alone, even when it follows *)
(* one that the watchdog cut off.                                          *)
TrimsKept ==
  oscAt = "idle" =>
    /\ oscDone.cap # 0 => /\ "24m" \notin oscAna.auto
                          /\ oscAna.r52 = oscDone.cap /\ oscRam.tl_24mrc_cal = oscDone.cap
    /\ oscDone.res # <<0, 0>> => /\ "32k" \notin oscAna.auto
                                 /\ <<oscAna.r51, oscAna.r4f>> = oscDone.res

(* The kick borrows the pins and the PWM only while it runs.               *)
PinsReturned == oscAt # "drive" => oscPins = OwnValues

(* The supply of the PLL is left at a trim with which it locked, if any    *)
(* that was tried is one.                                                  *)
SupplyTrimmed == oscDone.locks \cap {67, 70} # {} => oscAna.r01 \in oscDone.locks

(* What is measured and what is learnt of the drift move the calibration   *)
(* by no more than the limits of both.                                     *)
LargestOf(S) == CHOOSE x \in S : \A y \in S : y <= x
CalibBounded ==
  /\ \E cnt \in RcSleeps : oscRam.offset \in -OffsetLimit(cnt) .. OffsetLimit(cnt)
  /\ oscDone.calib # 0 =>
       LET most == LargestOf({OffsetLimit(cnt) : cnt \in RcSleeps})
           top == LargestOf(RcTicks)
           bottom == -LargestOf({-t : t \in RcTicks})
           off == (most * top) \div 2^18 + 1
       IN oscDone.calib \in bottom - off .. top + off

OscillatorsSound == SourceKept /\ TrimsKept /\ PinsReturned /\ SupplyTrimmed /\ CalibBounded
=============================================================================
