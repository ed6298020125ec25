------------------------------ MODULE PmSleep ------------------------------
(***************************************************************************)
(* pm_sleep_wakeup and pm_stimer_recover (drivers/B91/pm.c), built with    *)
(* SYS_TIMER_AUTO_MODE and the 32k crystal: a wake-up time of the 16M      *)
(* system timer is converted to the 32k counter, the system timer stops    *)
(* with the chip, and is computed back from the 32k counter afterwards.    *)
(*                                                                         *)
(* Both counters are words of the same width.  Time is counted in 16M      *)
(* ticks and never wraps: the counters are functions of it.                *)
(***************************************************************************)
EXTENDS Integers

CONSTANTS
  Word,        \* 2^32
  K,           \* 32: the conversion works in groups of 32 ticks of the 32k
  Calib,       \* g_pm_tick_32k_calib: 16M ticks of such a group
  LongLimit,   \* 0x07ff0000: above it the rounding of a long sleep is used
  PastLimit,   \* 0xE0000000: a span above it lies in the past
  MinSleep,    \* sleep_min_time_us, in ticks
  Early,       \* the early wake-up time of the mode, in ticks
  RefAge,      \* 32 * 3000: the age at which the reference is taken anew
  RefUses,     \* 20: the sleeps after which it is
  RefMod,      \* 2^28: the age is computed modulo this
  Spans,       \* requested wake-up times, relative to the call
  SourceSets,  \* wakeup_src of a call: sets of "timer" and "pad"
  IsrTime,     \* the longest interrupt between the span check and the masking
  IdleTimes,   \* times the caller stays awake
  Base,        \* the 32k counter at time 0
  Calls        \* bound: calls; time stands still after the last one

ASSUME SleepAssumption ==
  /\ {Word, K, Calib, LongLimit, PastLimit, MinSleep, Early, RefMod} \subseteq Nat \ {0}
  /\ {RefAge, RefUses, IsrTime, Base, Calls} \subseteq Nat
  /\ Spans \subseteq Int /\ IdleTimes \subseteq Nat
  /\ SourceSets \subseteq SUBSET {"timer", "pad"}
  /\ Early < MinSleep /\ MinSleep <= PastLimit
  /\ PastLimit < Word /\ Word % 2 = 0
  /\ RefAge < RefMod /\ Word % RefMod = 0

(* A tick of the 32k is some ticks of the 16M long.  The caller's time     *)
(* counts as past or to come as pm_sleep_wakeup takes it.                  *)
ASSUME TimesTold ==
  /\ K <= Calib
  /\ Spans \subseteq PastLimit - Word + 1 .. PastLimit

(* The two conversions fit in a word: what the limit of the long sleep is  *)
(* there for.                                                              *)
ASSUME ConversionFits ==
  LongLimit * K + Calib \div 2 < Word

VARIABLES
  now,       \* true time
  skew,      \* system timer minus true time
  match,     \* the 32k value that wakes the chip
  armed,     \* register 0x4b: the enabled wake-up sources
  flags,     \* register 0x64: the wake-up flags
  pc, mode, sources, tick,   \* the call: mode, wakeup_src, wakeup_tick
  due,       \* the true time the caller means by wakeup_tick
  ref,       \* pmcd: ref_tick, ref_tick_32k and ref_no
  long,      \* g_pm_long_suspend
  left,      \* calls left
  refSkew,   \* skew when the reference was taken
  refAt,     \* the true time it was taken at
  result     \* how the last call ended

pmcd == <<ref, refSkew, refAt>>
call == <<mode, sources, tick, due>>
vars == <<now, skew, match, armed, flags, pc, call, pmcd, long, left, result>>

Edges(t) == (t * K) \div Calib                \* rising edges of the 32k clock
EdgeTime(n) == (n * Calib + K - 1) \div K     \* the first tick at or after edge n
Count(t) == (Edges(t) + Base) % Word
NextEdge == EdgeTime(Edges(now) + 1)
Stimer == (now + skew) % Word
Signed(x) == ((x + Word \div 2) % Word) - Word \div 2

Init ==
  /\ now = 0 /\ skew = 0
  /\ match = 0 /\ armed = {} /\ flags = {}
  /\ pc = "idle" /\ mode = "suspend" /\ sources = {} /\ tick = 0 /\ due = 0
  /\ ref = [tick |-> 0, tick32k |-> 0, no |-> 0] /\ refSkew = 0 /\ refAt = 0
  /\ long = FALSE
  /\ left = Calls
  /\ result = "none"

(* Time passes up to t; the 32k comparator is never off.                   *)
Matches(t) ==
  "timer" \in armed /\ (match - Count(now)) % Word \in 1 .. Edges(t) - Edges(now)
Advance(t) ==
  /\ now' = t
  /\ flags' = IF Matches(t) THEN flags \cup {"timer"} ELSE flags

-----------------------------------------------------------------------------
Idle ==
  /\ pc = "idle"
  /\ result # "none" \/ left = 0
  /\ \E n \in IdleTimes : Advance(IF left > 0 THEN now + n ELSE now)
  /\ mode' = "suspend" /\ sources' = {} /\ tick' = 0 /\ due' = 0
  /\ result' = "none"
  /\ UNCHANGED <<skew, match, armed, pc, pmcd, long, left>>

Call ==
  /\ pc = "idle" /\ left > 0
  /\ left' = left - 1
  /\ mode' \in {"suspend", "retention"}
  /\ sources' \in SourceSets
  /\ \E s \in Spans : due' = now + s
  /\ tick' = (due' + skew) % Word
  /\ pc' = "span" /\ result' = "none"
  /\ UNCHANGED <<now, skew, match, armed, flags, pmcd, long>>

Span == (tick - Stimer) % Word
Timed == "timer" \in sources

(* Already past: nothing is done.                                          *)
ReturnPast ==
  /\ pc = "span"
  /\ Timed /\ Span > PastLimit
  /\ pc' = "idle" /\ result' = "past"
  /\ UNCHANGED <<now, skew, match, armed, flags, call, pmcd, long, left>>

(* Too short to sleep: poll the flags and the time.                        *)
StartPoll ==
  /\ pc = "span"
  /\ Timed /\ Span < MinSleep
  /\ flags' = {}
  /\ pc' = "poll"
  /\ UNCHANGED <<now, skew, match, armed, call, pmcd, long, left, result>>

Poll ==
  /\ pc = "poll"
  /\ \/ \E t \in now .. due :            \* the pad, or a match armed earlier
          /\ now' = t
          /\ \/ flags' = {"pad"} /\ "pad" \in armed
             \/ flags' = {"timer"} /\ Matches(t)
     \/ /\ ~Matches(due)
        /\ now' = due /\ flags' = {}
  /\ pc' = "idle" /\ result' = "polled"
  /\ UNCHANGED <<skew, match, armed, call, pmcd, long, left>>

GoToSleep ==
  /\ pc = "span"
  /\ ~ (Timed /\ (Span > PastLimit \/ Span < MinSleep))
  /\ pc' = "mask"
  /\ UNCHANGED <<now, skew, match, armed, flags, call, pmcd, long, left, result>>

-----------------------------------------------------------------------------
(* core_interrupt_disable; until then an interrupt may still run.  Then    *)
(* clock_get_32k_tick returns on a rising edge, the system timer is read   *)
(* there and stopped.                                                      *)
RefExpired(t) ==
  \/ ref.no > RefUses
  \/ ref.tick = 0
  \/ (Count(t) - ref.tick32k) % RefMod > RefAge

TakeReferenceFault(t) == \* counts the sleeps of all references together
  IF RefExpired(t)
  THEN /\ ref' = [tick |-> LET s == (t + skew) % Word IN IF s % 2 = 0 THEN s + 1 ELSE s,
                  tick32k |-> Count(t), no |-> ref.no + 1]
       /\ refSkew' = skew /\ refAt' = t
  ELSE /\ ref' = [ref EXCEPT !.no = @ + 1]
       /\ UNCHANGED <<refSkew, refAt>>

TakeReference(t) ==
  IF RefExpired(t)
  THEN /\ ref' = [tick |-> LET s == (t + skew) % Word IN IF s % 2 = 0 THEN s + 1 ELSE s,
                  tick32k |-> Count(t), no |-> 0]
       /\ refSkew' = skew /\ refAt' = t
  ELSE /\ ref' = [ref EXCEPT !.no = @ + 1]
       /\ UNCHANGED <<refSkew, refAt>>

StopTimer ==
  /\ pc = "mask"
  /\ \E isr \in 0 .. IsrTime :
       LET t == EdgeTime(Edges(now + isr) + 1)
       IN Advance(t) /\ TakeReference(t)
  /\ pc' = "arm"
  /\ UNCHANGED <<skew, match, armed, call, long, left, result>>

(* The wake-up value, counted from the reference.                          *)
WakeDistance == (tick - Early - ref.tick) % Word

WakeValue(isLong) ==
  IF isLong
  THEN (ref.tick32k + (WakeDistance \div Calib) * K) % Word
  ELSE (ref.tick32k + (((WakeDistance * K + Calib \div 2) % Word) \div Calib)) % Word

ArmFault ==              \* the sources of the call are not enabled
  /\ pc = "arm"
  /\ flags' = {}
  /\ long' = IF Timed THEN WakeDistance > LongLimit ELSE long
  /\ match' = WakeValue(long')
  /\ pc' = "check"
  /\ UNCHANGED <<now, skew, armed, call, pmcd, left, result>>

Arm ==
  /\ pc = "arm"
  /\ armed' = sources
  /\ flags' = {}
  /\ long' = IF Timed THEN WakeDistance > LongLimit ELSE long
  /\ match' = WakeValue(long')
  /\ pc' = "check"
  /\ UNCHANGED <<now, skew, call, pmcd, left, result>>

(* A flag that is set already keeps the chip awake.                        *)
SkipSleep ==
  /\ pc = "check"
  /\ flags # {}
  /\ pc' = "recover"
  /\ UNCHANGED <<now, skew, match, armed, flags, call, pmcd, long, left, result>>

FallAsleep ==
  /\ pc = "check"
  /\ flags = {}
  /\ pc' = "asleep"
  /\ UNCHANGED <<now, skew, match, armed, flags, call, pmcd, long, left, result>>

(* The chip.  The pad raises its flag at any time, also before the sleep.  *)
(* It takes the CPU up to Early to run again.                              *)
PadEdge ==
  /\ pc = "check"
  /\ "pad" \in armed
  /\ flags' = flags \cup {"pad"}
  /\ UNCHANGED <<now, skew, match, armed, pc, call, pmcd, long, left, result>>

Resume == IF mode = "suspend" THEN "recover" ELSE "boot"
MatchTime == EdgeTime(Edges(now) + 1 + ((match - Count(now) - 1) % Word))

TimerWake ==
  /\ pc = "asleep"
  /\ "timer" \in armed
  /\ \E delay \in {0, Early} : now' = MatchTime + delay
  /\ flags' = {"timer"}
  /\ pc' = Resume
  /\ UNCHANGED <<skew, match, armed, call, pmcd, long, left, result>>

PadWake ==
  /\ pc = "asleep"
  /\ "pad" \in armed
  /\ \E t \in {now + 1, now + Early, due - 2 * Early, now + Word} :
       /\ t > now
       /\ "timer" \in armed => t < MatchTime
       /\ now' = t
  /\ flags' = {"pad"}
  /\ pc' = Resume
  /\ UNCHANGED <<skew, match, armed, call, pmcd, long, left, result>>

-----------------------------------------------------------------------------
(* The system timer is computed back.  The value is for the next rising    *)
(* edge, where the hardware takes it.                                      *)
RecoveredFault(n) ==     \* the product of a long sleep overflows
  ref.tick + ((((n - ref.tick32k) % Word) * Calib) % Word) \div K

Recovered(n) ==
  IF long
  THEN ref.tick + (((n - ref.tick32k) % Word) \div K) * Calib
  ELSE ref.tick + ((((n - ref.tick32k) % Word) * Calib) % Word) \div K

RecoverTimer ==
  /\ pc \in {"recover", "boot"}
  /\ LET t == EdgeTime(Edges(now) + 2)
     IN /\ now' = t
        /\ skew' = Signed(Recovered(Count(t)) + 1 - t)
        /\ flags' = IF Matches(t) THEN flags \cup {"timer"} ELSE flags
  /\ IF pc = "recover" THEN pc' = "wait" /\ UNCHANGED result
     ELSE pc' = "idle" /\ result' = "retained"
  /\ UNCHANGED <<match, armed, call, pmcd, long, left>>

(* Within the function the rest of the time is waited for after a timer    *)
(* wake-up.                                                                *)
WaitFault ==             \* compares the other way round
  /\ pc = "wait"
  /\ IF "timer" \in flags /\ Timed /\ (tick - Stimer) % Word > Word \div 4
     THEN Advance(now + ((tick - Stimer) % Word))
     ELSE UNCHANGED <<now, flags>>
  /\ pc' = "idle"
  /\ result' = IF "timer" \in flags /\ Timed THEN "timer" ELSE "other"
  /\ UNCHANGED <<skew, match, armed, call, pmcd, long, left>>

Wait ==
  /\ pc = "wait"
  /\ IF "timer" \in flags /\ Timed /\ (Stimer - tick) % Word > Word \div 4
     THEN Advance(now + ((tick - Stimer) % Word))
     ELSE UNCHANGED <<now, flags>>
  /\ pc' = "idle"
  /\ result' = IF "timer" \in flags /\ Timed THEN "timer" ELSE "other"
  /\ UNCHANGED <<skew, match, armed, call, pmcd, long, left>>

Running ==
  \/ ReturnPast \/ StartPoll \/ Poll \/ GoToSleep
  \/ StopTimer \/ Arm \/ SkipSleep \/ FallAsleep
  \/ RecoverTimer \/ Wait

Next ==
  \/ Idle \/ Call
  \/ ReturnPast \/ StartPoll \/ Poll \/ GoToSleep
  \/ StopTimer \/ Arm \/ SkipSleep \/ FallAsleep
  \/ PadEdge \/ TimerWake \/ PadWake
  \/ RecoverTimer \/ Wait

(* The CPU runs, and so does the 32k counter.                              *)
Spec == Init /\ [][Next]_vars /\ WF_vars(Running) /\ WF_vars(TimerWake)

-----------------------------------------------------------------------------
TypeOK ==
  /\ now \in Nat /\ refAt \in Nat /\ skew \in Int /\ refSkew \in Int /\ due \in Int
  /\ match \in 0 .. Word - 1 /\ tick \in 0 .. Word - 1
  /\ armed \subseteq {"timer", "pad"} /\ flags \subseteq {"timer", "pad"}
  /\ sources \subseteq {"timer", "pad"}
  /\ pc \in {"idle", "span", "poll", "mask", "arm", "check", "asleep", "recover", "boot", "wait"}
  /\ mode \in {"suspend", "retention"}
  /\ ref \in [tick : 0 .. Word - 1, tick32k : 0 .. Word - 1, no : 0 .. RefUses + 1]
  /\ long \in BOOLEAN /\ left \in 0 .. Calls
  /\ result \in {"none", "past", "polled", "timer", "other", "retained"}

(* The chip never sleeps through the time it was to wake up at: the match  *)
(* lies ahead of the 32k counter and before the time the caller asked for. *)
MatchAhead == pc = "asleep" /\ Timed => MatchTime <= due

(* The system timer goes on as if it had not been stopped: whatever woke   *)
(* the chip, and however many sleeps share a reference, it is behind by at *)
(* most one group of the long conversion and ahead by two ticks.         *)
TickRecovered == Signed(skew - refSkew) \in -Calib .. 2

(* A call that ends with the timer ends at the time that was asked for,    *)
(* give or take a group: by that much a long sleep that the pad cut short  *)
(* may have put the timer back before.                                     *)
Tolerance == Calib + 2
WakesOnTime == result = "timer" => now \in due - Tolerance .. due + Tolerance

(* A timed sleep ends when it was to end, neither missed nor late.         *)
SleepsInTime == MatchAhead /\ WakesOnTime

(* Every call with a timer returns.                                        *)
CallReturns == (pc # "idle" /\ Timed) ~> pc = "idle"
=============================================================================
