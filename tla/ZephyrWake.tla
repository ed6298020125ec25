---------------------------- MODULE ZephyrWake ----------------------------
(***************************************************************************)
(* b91_bt_zephyr_wakeup (ble/vendor/controller/b91_bt_init.c): under       *)
(* Zephyr the controller does not suspend the chip itself, it sleeps as a  *)
(* thread until shortly before the tick its link layer wants to wake at.   *)
(* The tick counts on the system timer, k_sleep on the kernel's uptime in  *)
(* whole milliseconds: the code reads both, one after the other.           *)
(*                                                                         *)
(* The two clocks run at the same rate here, out of phase.  elapsed is the *)
(* true time in ticks since the link layer asked.                          *)
(***************************************************************************)
EXTENDS Integers

CONSTANTS
  TickMs,        \* SYSTEM_TIMER_TICK_1MS, ticks of a millisecond
  Word,          \* 2^32: ticks and the span are unsigned int
  Spans,         \* how far ahead the wake-up may be, in ticks
  Bases,         \* what the system timer may read at the start
  IsrTicks,      \* the longest an interrupt holds the thread up
  Preempted      \* bound: the longest another thread holds it up

ASSUME WakeAssumption ==
  /\ TickMs \in Nat \ {0} /\ Word \in Nat \ {0}
  /\ Spans \subseteq 1 .. Word - 1 /\ Spans # {}
  /\ Bases \subseteq 0 .. Word - 1
  /\ IsrTicks \in Nat /\ IsrTicks <= 2 * TickMs
  /\ Preempted \in Nat /\ Preempted > IsrTicks

VARIABLES
  wakePc,        \* where the function is
  elapsed,       \* ticks since the link layer asked
  delay,         \* ticks lost since the last step of the function
  base,          \* the system timer when it asked
  phase,         \* ticks into the current millisecond of the uptime then
  wakeup,        \* wakeup_tick
  locked,        \* k_sched_lock is held
  sysTick,       \* sys_tick
  ktime,         \* ktime_ms, counted from the moment of the call
  readAt         \* elapsed when sys_tick was read

wakeVars ==
  <<wakePc, elapsed, delay, base, phase, wakeup, locked, sysTick, ktime, readAt>>

Adjustment == 2          \* B91_BT_SLEEP_AJUSTMENT

StimerTick == (base + elapsed) % Word
Uptime == (phase + elapsed) \div TickMs

(* The span asked for; wakeup is that many ticks after base.               *)
Span == (wakeup - base) % Word

Waking(bases, spans, phases) ==
  /\ wakePc = "lock"
  /\ elapsed = 0 /\ delay = 0
  /\ base \in bases
  /\ phase \in phases
  /\ wakeup \in {(base + s) % Word : s \in spans}
  /\ locked = FALSE
  /\ sysTick = 0 /\ ktime = 0 /\ readAt = 0

WakeInit == Waking(Bases, Spans, 0 .. TickMs - 1)

-----------------------------------------------------------------------------
(* The function stands still while time goes on: for interrupts, and for   *)
(* other threads unless the scheduler is locked.                           *)
HoldUp ==
  /\ wakePc \notin {"asleep", "woken"}
  /\ delay < (IF locked THEN IsrTicks ELSE Preempted)
  /\ elapsed' = elapsed + 1
  /\ delay' = delay + 1
  /\ UNCHANGED <<wakePc, base, phase, wakeup, locked, sysTick, ktime, readAt>>

WakeStep(from, to) ==
  /\ wakePc = from
  /\ wakePc' = to
  /\ delay' = 0
  /\ UNCHANGED <<elapsed, base, phase, wakeup>>

SchedLockFault ==        \* no k_sched_lock
  /\ WakeStep("lock", "tick")
  /\ UNCHANGED <<locked, sysTick, ktime, readAt>>

SchedLock ==
  /\ WakeStep("lock", "tick")
  /\ locked' = TRUE
  /\ UNCHANGED <<sysTick, ktime, readAt>>

ReadTick ==
  /\ WakeStep("tick", "uptime")
  /\ sysTick' = StimerTick /\ readAt' = elapsed
  /\ UNCHANGED <<locked, ktime>>

ReadUptime ==
  /\ WakeStep("uptime", "unlock")
  /\ ktime' = Uptime
  /\ UNCHANGED <<locked, sysTick, readAt>>

(* k_sched_unlock, and systimer_irq_enable.                                *)
SchedUnlock ==
  /\ WakeStep("unlock", "compute")
  /\ locked' = FALSE
  /\ UNCHANGED <<sysTick, ktime, readAt>>

(* An unsigned difference, an unsigned quotient, an unsigned result.       *)
Unsigned(x) == x % Word

ComputeTarget ==
  /\ WakeStep("compute", "asleep")
  /\ ktime' = ktime + Unsigned((Unsigned(wakeup - sysTick) \div TickMs) - Adjustment)
  /\ UNCHANGED <<locked, sysTick, readAt>>

(* k_sleep returns when the uptime has reached ktime_ms, at once if it has *)
(* passed already.                                                         *)
SleepTime ==
  /\ wakePc = "asleep" /\ Uptime < ktime
  /\ elapsed' = elapsed + 1
  /\ UNCHANGED <<wakePc, delay, base, phase, wakeup, locked, sysTick, ktime, readAt>>

WakeUp ==
  /\ Uptime >= ktime
  /\ WakeStep("asleep", "woken")
  /\ UNCHANGED <<locked, sysTick, ktime, readAt>>

WakeNext ==
  \/ HoldUp
  \/ SchedLock \/ ReadTick \/ ReadUptime \/ SchedUnlock \/ ComputeTarget
  \/ SleepTime \/ WakeUp

-----------------------------------------------------------------------------
WakeTypeOK ==
  /\ wakePc \in {"lock", "tick", "uptime", "unlock", "compute", "asleep", "woken"}
  /\ elapsed \in Nat
  /\ delay \in 0 .. Preempted
  /\ base \in 0 .. Word - 1 /\ phase \in 0 .. TickMs - 1 /\ wakeup \in 0 .. Word - 1
  /\ locked \in BOOLEAN
  /\ sysTick \in 0 .. Word - 1 /\ ktime \in Nat /\ readAt \in Nat

(* The moment k_sleep is told, on the scale of elapsed.                    *)
WakeTarget == ktime * TickMs - phase

(* A wake-up at least two milliseconds ahead is never missed, and the      *)
(* thread is up less than four milliseconds early, whatever the phase of   *)
(* the two clocks, an interrupt of up to two milliseconds between the two  *)
(* readings, and the timer's overflow.                                     *)
WakesInWindow ==
  wakePc \in {"asleep", "woken"} /\ Span - readAt >= Adjustment * TickMs
    => WakeTarget \in Span - 4 * TickMs + 1 .. Span

(* b91_bt_init.c:118: "wakeup_tick - wake up stimer tick".  The thread is  *)
(* never told to sleep longer than that tick.                              *)
NeverSleepsPastTick ==
  wakePc = "asleep" /\ readAt < Span => WakeTarget <= Span
=============================================================================
