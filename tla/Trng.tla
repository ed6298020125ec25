-------------------------------- MODULE Trng --------------------------------
(***************************************************************************)
(* The random numbers (trng.c).  trng_init takes two seeds from the noise  *)
(* source, which it powers for that time only; trng_rand then goes on with *)
(* two multiply-with-carry generators, and mixes in the system timer,      *)
(* which is left out here.  A generator's word is two digits to the base   *)
(* 2^16; base and multipliers are constants, so that small ones can be     *)
(* checked and all be proved about.                                        *)
(***************************************************************************)
EXTENDS Integers

CONSTANTS
  TrngBase,        \* 2^16
  MultiplierW,     \* 18000
  MultiplierZ      \* 36969

TrngDigits == 0 .. TrngBase - 1

(* A multiplier's only words that repeat are 0 and the largest, which is   *)
(* a matter of the factors of a - 1 and TrngBase - 1.                      *)
NoOtherRepeats(a, q, r) ==
  (a - 1) * r = (TrngBase - 1) * q => (q = 0 /\ r = 0) \/ (q = a - 1 /\ r = TrngBase - 1)

MwcMultiplier(a) ==
  /\ a \in 2 .. TrngBase - 1
  /\ \A q \in TrngDigits, r \in TrngDigits : NoOtherRepeats(a, q, r)

ASSUME TrngAssumption ==
  /\ TrngBase \in Nat
  /\ MwcMultiplier(MultiplierW) /\ MwcMultiplier(MultiplierZ)

VARIABLES
  trngHw,          \* reset released, clock on, generator on, datum ready
  trngPc,          \* where trng_init is, or "idle"
  g_rnd_m_w,
  g_rnd_m_z,
  trngGood         \* both seeds are ones the generators go on from

trngVars == <<trngHw, trngPc, g_rnd_m_w, g_rnd_m_z, trngGood>>

TrngWords == 0 .. TrngBase * TrngBase - 1

-----------------------------------------------------------------------------
\* The carry, the word's high digit, is dropped.
MwcFault(a, x) == a * (x % TrngBase)

\* The whole word is multiplied.
MwcWholeFault(a, x) == a * x + (x \div TrngBase)

Mwc(a, x) == a * (x % TrngBase) + (x \div TrngBase)

(* The seeds from which a generator comes to repeat one word for ever:     *)
(* 0, and those from which it reaches its largest word.                    *)
Largest(a) == a * TrngBase - 1
Stuck(a, x) == x = 0 \/ x = Largest(a) \/ Mwc(a, x) = Largest(a)

-----------------------------------------------------------------------------
TrngInit ==
  /\ trngHw = [rst |-> FALSE, clk |-> FALSE, gen |-> FALSE, ready |-> FALSE]
  /\ trngPc = "idle"
  /\ g_rnd_m_w = 0 /\ g_rnd_m_z = 0
  /\ trngGood = FALSE

trng_init ==
  /\ trngPc = "idle"
  /\ trngHw' = [trngHw EXCEPT !.rst = TRUE, !.clk = TRUE, !.gen = TRUE, !.ready = FALSE]
  /\ trngPc' = "w"
  /\ UNCHANGED <<g_rnd_m_w, g_rnd_m_z, trngGood>>

(* The noise source has a word, if it is clocked, out of reset and on.     *)
TrngReady ==
  /\ trngHw.rst /\ trngHw.clk /\ trngHw.gen /\ ~trngHw.ready
  /\ trngHw' = [trngHw EXCEPT !.ready = TRUE]
  /\ UNCHANGED <<trngPc, g_rnd_m_w, g_rnd_m_z, trngGood>>

(* A poll of DRDY that succeeds, and the read that takes the word.         *)
TrngSeedW(seed) ==
  /\ trngPc = "w" /\ trngHw.ready
  /\ trngHw' = [trngHw EXCEPT !.ready = FALSE]
  /\ g_rnd_m_w' = seed
  /\ trngGood' = ~Stuck(MultiplierW, seed)
  /\ trngPc' = "z"
  /\ UNCHANGED g_rnd_m_z

(* The second one, after which the source is reset, stopped and off.       *)
TrngSeedZ(seed) ==
  /\ trngPc = "z" /\ trngHw.ready
  /\ trngHw' = [rst |-> FALSE, clk |-> FALSE, gen |-> FALSE, ready |-> FALSE]
  /\ g_rnd_m_z' = seed
  /\ trngGood' = (trngGood /\ ~Stuck(MultiplierZ, seed))
  /\ trngPc' = "idle"
  /\ UNCHANGED g_rnd_m_w

trng_rand ==
  /\ trngPc = "idle"
  /\ g_rnd_m_w' = Mwc(MultiplierW, g_rnd_m_w)
  /\ g_rnd_m_z' = Mwc(MultiplierZ, g_rnd_m_z)
  /\ UNCHANGED <<trngHw, trngPc, trngGood>>

TrngNext ==
  \/ trng_init \/ TrngReady \/ trng_rand
  \/ \E seed \in TrngWords : TrngSeedW(seed) \/ TrngSeedZ(seed)

TrngSpec == TrngInit /\ [][TrngNext]_trngVars

-----------------------------------------------------------------------------
TrngTypeOK ==
  /\ g_rnd_m_w \in TrngWords /\ g_rnd_m_z \in TrngWords
  /\ trngGood \in BOOLEAN
  /\ trngPc \in {"idle", "w", "z"}

(* The words of the generators fit in 32 bits, so that the sums of         *)
(* trng_rand do not overflow; and, unless the seeds are among the few      *)
(* Stuck ones, no call finds a generator at a word that it would repeat.   *)
GeneratorsRun ==
  /\ Mwc(MultiplierW, g_rnd_m_w) \in TrngWords
  /\ Mwc(MultiplierZ, g_rnd_m_z) \in TrngWords
  /\ trngGood /\ trngPc = "idle" =>
       /\ Mwc(MultiplierW, g_rnd_m_w) # g_rnd_m_w
       /\ Mwc(MultiplierZ, g_rnd_m_z) # g_rnd_m_z
=============================================================================
