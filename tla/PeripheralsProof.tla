--------------------------- MODULE PeripheralsProof -------------------------
(***************************************************************************)
(* Proofs about the drivers of Peripherals, for every instance: that pins  *)
(* are as set while two contexts change them and that clocks stay within   *)
(* their limits and oscillators as calibrated (ChipProof), that the        *)
(* timers, the watchdog and the PWM are as their calls asked, that the     *)
(* ring of the controller keeps its order, that the engine for public keys *)
(* returns only results that are complete, that the generators of trng.c   *)
(* never come to a halt and never overflow, that no event is forgotten,    *)
(* and that the voltages and samples of the ADC are true.  Each has an     *)
(* inductive invariant of its own; a step of the composed system is a step *)
(* of the driver in use, and the rest stutter.                             *)
(***************************************************************************)
EXTENDS Peripherals, ChipProof

-----------------------------------------------------------------------------
(* The generators of random numbers.  Every base and multipliers that meet *)
(* TrngAssumption, and those of the code meet it.  The strengthening: a    *)
(* generator that has left the stuck seeds behind cannot come back to one, *)
(* for a word it reaches that way is at most                               *)
(* TrngBase * a + (TrngBase - a - 1), and the largest word has no other    *)
(* predecessor among those.                                                *)
B == TrngBase

(* A word of two digits is its digits.                                     *)
LEMMA Digits ==
  ASSUME NEW x \in TrngWords
  PROVE  /\ x % B \in 0 .. B - 1
         /\ x \div B \in 0 .. B - 1
         /\ x = B * (x \div B) + (x % B)
         /\ B \in Nat \ {0, 1}
<1>1. B \in Nat \ {0, 1}
  BY TrngAssumption DEF MwcMultiplier, NoOtherRepeats, TrngDigits, B
<1>2. x \in Nat /\ x < B * B
  BY <1>1 DEF TrngWords, B
<1> DEFINE q == x \div B  r == x % B
<1>3. x = B * q + r /\ r \in 0 .. B - 1 /\ q \in Int
  BY <1>1, <1>2, DivMod
<1>4. q >= 0
  <2> SUFFICES ASSUME q <= -1 PROVE FALSE
    BY <1>3
  <2> HIDE DEF q, r
  <2>1. B * q <= B * (-1)
    BY <1>1, <1>3
  <2>2. QED
    BY <2>1, <1>1, <1>2, <1>3
<1>5. q <= B - 1
  <2> SUFFICES ASSUME q >= B PROVE FALSE
    BY <1>1, <1>3
  <2> HIDE DEF q, r
  <2>1. B * q >= B * B
    BY <1>1, <1>3
  <2>2. QED
    BY <2>1, <1>1, <1>2, <1>3
<1>6. QED
  BY <1>1, <1>3, <1>4, <1>5

(* Words with the same digits are equal, and the digits of a word made of  *)
(* digits are those.                                                       *)
LEMMA DigitsOf ==
  ASSUME NEW q \in Int, NEW r \in 0 .. B - 1, B \in Nat \ {0}
  PROVE  /\ (B * q + r) % B = r
         /\ (B * q + r) \div B = q
<1>1. (B * q + r) % B = r
  BY ModUnique
<1> DEFINE x == B * q + r
<1>2. x \in Int
  OBVIOUS
<1>3. x = B * (x \div B) + (x % B) /\ x \div B \in Int
  <2> HIDE DEF x
  <2>1. QED
    BY <1>2, DivMod
<1> DEFINE p == x \div B
<1>4. B * p = B * q
  BY <1>1, <1>3
<1>5. p = q
  <2> HIDE DEF p
  <2>1. p \in Int
    BY <1>3 DEF p
  <2>2. B * (p - q) = 0
    BY <1>4, <2>1
  <2>3. p - q = 0
    BY <2>1, <2>2
  <2>4. QED
    BY <2>1, <2>3
<1>6. QED
  BY <1>1, <1>5

-----------------------------------------------------------------------------
(* A step of a generator stays within two digits, and below the bound of   *)
(* the strengthening.                                                      *)
LEMMA MwcBound ==
  ASSUME NEW a \in 2 .. B - 1, NEW x \in TrngWords
  PROVE  /\ Mwc(a, x) \in TrngWords
         /\ Mwc(a, x) < B * a + (B - a)
<1> DEFINE q == x \div B  r == x % B
<1>1. q \in 0 .. B - 1 /\ r \in 0 .. B - 1 /\ B \in Nat \ {0, 1}
  BY Digits
<1>2. Mwc(a, x) = a * r + q
  BY DEF Mwc, B
<1> HIDE DEF q, r
<1>3. a * r >= 0 /\ a * r <= a * (B - 1) /\ a * r \in Int
  BY <1>1
<1>4. a * (B - 1) = B * a - a
  BY <1>1
<1>5. a * r + q < B * a + (B - a)
  BY <1>1, <1>3, <1>4
<1>6. B * a <= B * (B - 1) /\ B * (B - 1) = B * B - B
  BY <1>1
<1>7. a * r + q \in 0 .. B * B - 1
  BY <1>1, <1>3, <1>5, <1>6
<1>8. QED
  BY <1>2, <1>5, <1>7 DEF TrngWords, B

(* 0 has no predecessor but itself.                                        *)
LEMMA MwcZero ==
  ASSUME NEW a \in 2 .. B - 1, NEW x \in TrngWords, Mwc(a, x) = 0
  PROVE  x = 0
<1> DEFINE q == x \div B  r == x % B
<1>1. q \in 0 .. B - 1 /\ r \in 0 .. B - 1 /\ x = B * q + r /\ B \in Nat \ {0, 1}
  BY Digits
<1>2. a * r + q = 0
  BY DEF Mwc, B
<1> HIDE DEF q, r
<1>3. r = 0
  <2> SUFFICES ASSUME r >= 1 PROVE FALSE
    BY <1>1
  <2>1. a * r >= a
    BY <1>1
  <2>2. QED
    BY <1>1, <1>2, <2>1
<1>4. q = 0
  BY <1>1, <1>2, <1>3
<1>5. QED
  BY <1>1, <1>3, <1>4

(* The largest word has one predecessor below the bound: itself.           *)
LEMMA MwcLargest ==
  ASSUME NEW a \in 2 .. B - 1, NEW x \in TrngWords,
         x < B * a + (B - a), Mwc(a, x) = Largest(a)
  PROVE  x = Largest(a)
<1> DEFINE q == x \div B  r == x % B
<1>1. q \in 0 .. B - 1 /\ r \in 0 .. B - 1 /\ x = B * q + r /\ B \in Nat \ {0, 1}
  BY Digits
<1>2. a * r + q = a * B - 1 /\ Largest(a) = a * B - 1
  BY DEF Mwc, Largest, B
<1> HIDE DEF q, r
<1>3. q <= a
  <2> SUFFICES ASSUME q >= a + 1 PROVE FALSE
    BY <1>1
  <2>1. B * q >= B * (a + 1) /\ B * (a + 1) = B * a + B /\ B * a \in Int
    BY <1>1
  <2>2. QED
    BY <2>1, <1>1
<1> DEFINE d == B - r
<1>4. d \in Int /\ d >= 1 /\ r = B - d
  BY <1>1
<1>5. a * r = a * B - a * d /\ a * d \in Int /\ a * B \in Int
  <2> HIDE DEF d
  <2>1. QED
    BY <1>1, <1>4
<1>6. a * d = q + 1
  <2> HIDE DEF d
  <2>1. QED
    BY <1>1, <1>2, <1>5
<1>7. d = 1
  <2> HIDE DEF d
  <2> SUFFICES ASSUME d >= 2 PROVE FALSE
    BY <1>4
  <2>1. a * d >= 2 * a
    BY <1>4
  <2>2. QED
    BY <2>1, <1>3, <1>6, <1>1
<1>8. q = a - 1 /\ r = B - 1
  BY <1>1, <1>4, <1>6, <1>7
<1>9. B * (a - 1) = a * B - B
  BY <1>1
<1>10. QED
  BY <1>1, <1>2, <1>8, <1>9

(* A generator that is not stuck is not stuck a step later.                *)
LEMMA MwcGoesOn ==
  ASSUME NEW a \in 2 .. B - 1, NEW x \in TrngWords, ~Stuck(a, x)
  PROVE  ~Stuck(a, Mwc(a, x))
<1>1. Mwc(a, x) \in TrngWords /\ Mwc(a, x) < B * a + (B - a)
  BY MwcBound
<1>2. Mwc(a, x) # 0
  BY MwcZero DEF Stuck
<1>3. Mwc(a, x) # Largest(a)
  BY DEF Stuck
<1>4. Mwc(a, Mwc(a, x)) # Largest(a)
  BY <1>1, <1>3, MwcLargest
<1>5. QED
  BY <1>2, <1>3, <1>4 DEF Stuck

(* A word that a step repeats is one of the stuck ones.                    *)
LEMMA MwcFixed ==
  ASSUME NEW a, MwcMultiplier(a), NEW x \in TrngWords, Mwc(a, x) = x
  PROVE  Stuck(a, x)
<1> DEFINE q == x \div B  r == x % B
<1>1. q \in 0 .. B - 1 /\ r \in 0 .. B - 1 /\ x = B * q + r /\ B \in Nat \ {0, 1}
  BY Digits
<1>2. a * r + q = B * q + r /\ a \in 2 .. B - 1
  BY <1>1 DEF Mwc, B, MwcMultiplier, TrngDigits
<1>3. \A u \in 0 .. B - 1, v \in 0 .. B - 1 :
        (a - 1) * v = (B - 1) * u => (u = 0 /\ v = 0) \/ (u = a - 1 /\ v = B - 1)
  BY DEF B, MwcMultiplier, NoOtherRepeats, TrngDigits
<1> HIDE DEF q, r
<1>4. (a - 1) * r = a * r - r /\ (B - 1) * q = B * q - q
  BY <1>1, <1>2
<1>5. (a - 1) * r = (B - 1) * q
  BY <1>1, <1>2, <1>4
<1>6. CASE q = 0 /\ r = 0
  <2>1. x = 0
    BY <1>1, <1>6
  <2>2. QED
    BY <2>1 DEF Stuck
<1>7. CASE q = a - 1 /\ r = B - 1
  <2>1. B * (a - 1) = a * B - B
    BY <1>1, <1>2
  <2>2. x = Largest(a)
    BY <1>1, <1>2, <1>7, <2>1 DEF Largest, B
  <2>3. QED
    BY <2>2 DEF Stuck
<1>8. QED
  BY <1>1, <1>3, <1>5, <1>6, <1>7

-----------------------------------------------------------------------------
(* The multipliers of trng.c meet the assumption to the base 2^16: they    *)
(* less one have no factor in common with 2^16 - 1, as the combinations    *)
(* of the two show.                                                        *)
LEMMA NoneOrAll ==
  ASSUME NEW k \in Int, 0 <= 65535 * k, 65535 * k <= 65535
  PROVE  k = 0 \/ k = 1
OBVIOUS

LEMMA FactorsOfW ==
  ASSUME NEW q \in Int, NEW r \in Int, 17999 * r = 65535 * q
  PROVE  r = 65535 * (18704 * q - 5137 * r)
OBVIOUS

LEMMA FactorsOfZ ==
  ASSUME NEW q \in Int, NEW r \in Int, 36968 * r = 65535 * q
  PROVE  r = 65535 * (61892 * q - 34913 * r)
OBVIOUS

LEMMA TrngConstants ==
  ASSUME NEW q \in Int, NEW r \in Int, 0 <= q, q <= 65535, 0 <= r, r <= 65535
  PROVE  /\ ((18000 - 1) * r = 65535 * q) => (q = 0 /\ r = 0) \/ (q = 18000 - 1 /\ r = 65535)
         /\ ((36969 - 1) * r = 65535 * q) => (q = 0 /\ r = 0) \/ (q = 36969 - 1 /\ r = 65535)
<1>1. ASSUME 17999 * r = 65535 * q
      PROVE  (q = 0 /\ r = 0) \/ (q = 17999 /\ r = 65535)
  <2>1. r = 65535 * (18704 * q - 5137 * r)
    BY <1>1, FactorsOfW
  <2>2. 18704 * q - 5137 * r = 0 \/ 18704 * q - 5137 * r = 1
    BY <2>1, NoneOrAll
  <2>3. r = 0 \/ r = 65535
    BY <2>1, <2>2
  <2>4. QED
    BY <1>1, <2>3
<1>2. ASSUME 36968 * r = 65535 * q
      PROVE  (q = 0 /\ r = 0) \/ (q = 36968 /\ r = 65535)
  <2>1. r = 65535 * (61892 * q - 34913 * r)
    BY <1>2, FactorsOfZ
  <2>2. 61892 * q - 34913 * r = 0 \/ 61892 * q - 34913 * r = 1
    BY <2>1, NoneOrAll
  <2>3. r = 0 \/ r = 65535
    BY <2>1, <2>2
  <2>4. QED
    BY <1>2, <2>3
<1>3. 18000 - 1 = 17999 /\ 36969 - 1 = 36968
  OBVIOUS
<1>4. QED
  BY <1>1, <1>2, <1>3

LEMMA DigitsBounded == \A x \in TrngDigits : x \in Int /\ 0 <= x /\ x <= TrngBase - 1
BY TrngAssumption DEF TrngDigits

(* The multipliers of trng.c, 18000 and 36969, meet with its 16-bit digits *)
(* what GeneratorsNeverStop asks of multipliers.                           *)
THEOREM TrngConstantsMeetIt ==
  ASSUME TrngBase = 65536
  PROVE  MwcMultiplier(18000) /\ MwcMultiplier(36969)
<1>1. TrngBase - 1 = 65535 /\ 18000 \in 2 .. TrngBase - 1 /\ 36969 \in 2 .. TrngBase - 1
  OBVIOUS
<1>2. \A x \in TrngDigits : x \in Int /\ 0 <= x /\ x <= 65535
  BY <1>1, DigitsBounded
<1>3. ASSUME NEW q \in TrngDigits, NEW r \in TrngDigits
      PROVE  NoOtherRepeats(18000, q, r) /\ NoOtherRepeats(36969, q, r)
  <2>1. q \in Int /\ r \in Int /\ 0 <= q /\ q <= 65535 /\ 0 <= r /\ r <= 65535
    BY <1>2
  <2>2. /\ ((18000 - 1) * r = 65535 * q) => (q = 0 /\ r = 0) \/ (q = 18000 - 1 /\ r = 65535)
        /\ ((36969 - 1) * r = 65535 * q) => (q = 0 /\ r = 0) \/ (q = 36969 - 1 /\ r = 65535)
    BY <2>1, TrngConstants
  <2>3. QED
    BY <1>1, <2>1, <2>2 DEF NoOtherRepeats
<1>4. QED
  BY <1>1, <1>3 DEF MwcMultiplier

-----------------------------------------------------------------------------
TrngIInv ==
  /\ TrngTypeOK
  /\ trngGood /\ trngPc # "w" => ~Stuck(MultiplierW, g_rnd_m_w)
  /\ trngGood /\ trngPc = "idle" => ~Stuck(MultiplierZ, g_rnd_m_z)

LEMMA Multipliers ==
  /\ MultiplierW \in 2 .. B - 1 /\ MwcMultiplier(MultiplierW)
  /\ MultiplierZ \in 2 .. B - 1 /\ MwcMultiplier(MultiplierZ)
BY TrngAssumption DEF MwcMultiplier, NoOtherRepeats, TrngDigits, B

LEMMA TrngInitial == TrngInit => TrngIInv
<1> SUFFICES ASSUME TrngInit PROVE TrngIInv
  OBVIOUS
<1>1. 0 \in TrngWords
  <2>1. TrngBase \in Nat \ {0, 1}
    BY TrngAssumption DEF MwcMultiplier, NoOtherRepeats, TrngDigits
  <2>2. TrngBase * TrngBase >= 1
    BY <2>1
  <2>3. QED
    BY <2>1, <2>2 DEF TrngWords
<1>2. QED
  BY <1>1 DEF TrngInit, TrngIInv, TrngTypeOK

LEMMA TrngStep == TrngIInv /\ [TrngNext]_trngVars => TrngIInv'
<1> SUFFICES ASSUME TrngIInv, [TrngNext]_trngVars PROVE TrngIInv'
  OBVIOUS
<1> USE DEF TrngIInv, TrngTypeOK
<1>1. CASE trng_init
  BY <1>1 DEF trng_init
<1>2. CASE TrngReady
  BY <1>2 DEF TrngReady
<1>3. ASSUME NEW seed \in TrngWords, TrngSeedW(seed) PROVE TrngIInv'
  BY <1>3 DEF TrngSeedW
<1>4. ASSUME NEW seed \in TrngWords, TrngSeedZ(seed) PROVE TrngIInv'
  BY <1>4 DEF TrngSeedZ
<1>5. CASE trng_rand
  <2>1. Mwc(MultiplierW, g_rnd_m_w) \in TrngWords /\ Mwc(MultiplierZ, g_rnd_m_z) \in TrngWords
    BY MwcBound, Multipliers
  <2>2. trngGood => /\ ~Stuck(MultiplierW, Mwc(MultiplierW, g_rnd_m_w))
                    /\ ~Stuck(MultiplierZ, Mwc(MultiplierZ, g_rnd_m_z))
    BY <1>5, MwcGoesOn, Multipliers DEF trng_rand
  <2>3. QED
    BY <1>5, <2>1, <2>2 DEF trng_rand
<1>6. CASE UNCHANGED trngVars
  BY <1>6 DEF trngVars
<1>7. QED
  BY <1>1, <1>2, <1>3, <1>4, <1>5, <1>6 DEF TrngNext

LEMMA TrngImplied == TrngIInv => GeneratorsRun
<1> SUFFICES ASSUME TrngIInv PROVE GeneratorsRun
  OBVIOUS
<1>1. Mwc(MultiplierW, g_rnd_m_w) \in TrngWords /\ Mwc(MultiplierZ, g_rnd_m_z) \in TrngWords
  BY MwcBound, Multipliers DEF TrngIInv, TrngTypeOK
<1>2. ASSUME trngGood, trngPc = "idle"
      PROVE  /\ Mwc(MultiplierW, g_rnd_m_w) # g_rnd_m_w
             /\ Mwc(MultiplierZ, g_rnd_m_z) # g_rnd_m_z
  BY <1>2, MwcFixed, Multipliers DEF TrngIInv, TrngTypeOK
<1>3. QED
  BY <1>1, <1>2 DEF GeneratorsRun

-----------------------------------------------------------------------------
(* The ring of the controller.  What is held and what is being filled are  *)
(* where the pointers say, so that no slot in the ring is written; the     *)
(* slot of a pointer is the same whether or not the pointer has wrapped.   *)
FifoValues == Entries \cup {"none"}

FifoTypes ==
  /\ fifo \in [wptr : 0 .. PtrMod - 1, rptr : 0 .. PtrMod - 1, slots : [0 .. FifoNum - 1 -> FifoValues]]
  /\ fifoNested \in BOOLEAN
  /\ fifoFill \in [slot : 0 .. FifoNum, free : {FifoNum, FifoNum - 3}]
  /\ fifoHeld \in 0 .. FifoNum
  /\ fifoQueue \in Seq(FifoValues)

FifoIInv ==
  /\ FifoTypes
  /\ Len(fifoQueue) = Held /\ Held <= FifoNum
  /\ \A i \in 1 .. Len(fifoQueue) : fifo.slots[EntryOf(fifo.rptr + i - 1)] = fifoQueue[i]
  /\ fifoHeld # NoEntry => fifoQueue # <<>> /\ fifoHeld = EntryOf(fifo.rptr)
  /\ fifoFill.slot # NoEntry => fifoFill.slot = EntryOf(fifo.wptr) /\ Held < fifoFill.free
  /\ Held <= fifoFill.free

LEMMA ModShift ==
  ASSUME NEW m \in Nat \ {0}, NEW q \in Int, NEW y \in Int
  PROVE  (m * q + y) % m = y % m
<1> DEFINE d == y \div m  r == y % m
<1>1. y = m * d + r /\ r \in 0 .. m - 1 /\ d \in Int
  BY DivMod
<1> HIDE DEF d, r
<1>2. m * q + y = m * (q + d) + r
  <2>1. m * (q + d) = m * q + m * d /\ m * q \in Int /\ m * d \in Int
    BY <1>1
  <2>2. QED
    BY <1>1, <2>1
<1>3. (m * (q + d) + r) % m = r
  BY <1>1, ModUnique
<1>4. QED
  BY <1>2, <1>3 DEF r

LEMMA RingSizes ==
  /\ FifoNum \in Nat \ {0} /\ PtrMod \in Nat \ {0} /\ PtrMod > FifoNum
  /\ \E k \in Int : PtrMod = FifoNum * k
<1>1. FifoNum \in Nat \ {0} /\ PtrMod \in Nat /\ PtrMod % FifoNum = 0 /\ PtrMod > FifoNum
  BY FifoAssumption
<1>2. PtrMod = FifoNum * (PtrMod \div FifoNum) + 0 /\ PtrMod \div FifoNum \in Int
  BY <1>1, DivMod
<1> DEFINE k == PtrMod \div FifoNum
<1>3. PtrMod = FifoNum * k /\ k \in Int
  <2> HIDE DEF k
  <2>1. PtrMod = FifoNum * k + 0 /\ k \in Int
    BY <1>2 DEF k
  <2>2. FifoNum * k \in Int
    BY <1>1, <2>1
  <2>3. QED
    BY <2>1, <2>2
<1> HIDE DEF k
<1>4. \E n \in Int : PtrMod = FifoNum * n
  BY <1>3
<1>5. PtrMod \in Nat \ {0}
  BY <1>1
<1>6. QED
  BY <1>1, <1>4, <1>5

(* A pointer that has wrapped selects the slot it would have selected.     *)
LEMMA RingSlot ==
  ASSUME NEW p \in Int, NEW i \in Int
  PROVE  EntryOf((p % PtrMod) + i) = EntryOf(p + i)
<1>1. /\ FifoNum \in Nat \ {0} /\ PtrMod \in Nat \ {0}
  BY RingSizes
<1>2. PICK k \in Int : PtrMod = FifoNum * k
  BY RingSizes
<1> DEFINE q == p \div PtrMod  r == p % PtrMod
<1>3. p = PtrMod * q + r /\ q \in Int /\ r \in Int
  BY <1>1, DivMod
<1> HIDE DEF q, r
<1>4. PtrMod * q = FifoNum * (k * q) /\ k * q \in Int
  <2>1. (FifoNum * k) * q = FifoNum * (k * q) + FifoNum * 0
    BY <1>1, <1>3, Distribute
  <2>2. FifoNum * (k * q) \in Int
    BY <1>1, <1>3
  <2>3. QED
    BY <1>1, <1>2, <1>3, <2>1, <2>2
<1>5. p + i = FifoNum * (k * q) + (r + i)
  <2>1. PtrMod * q \in Int /\ FifoNum * (k * q) \in Int
    BY <1>1, <1>3, <1>4
  <2>2. QED
    BY <1>3, <1>4, <2>1
<1>6. (FifoNum * (k * q) + (r + i)) % FifoNum = (r + i) % FifoNum
  <2>1. k * q \in Int /\ r + i \in Int
    BY <1>3, <1>4
  <2> DEFINE a == k * q  b == r + i
  <2>2. (FifoNum * a + b) % FifoNum = b % FifoNum
    <3>1. a \in Int /\ b \in Int
      BY <2>1
    <3> HIDE DEF a, b
    <3>2. QED
      BY <1>1, <3>1, ModShift
  <2>3. QED
    BY <2>2
<1>7. QED
  BY <1>5, <1>6 DEF EntryOf, r

(* What the pointers tell: the writer is Held ahead of the reader.         *)
LEMMA PointersTell ==
  ASSUME NEW w \in 0 .. PtrMod - 1, NEW r \in 0 .. PtrMod - 1
  PROVE  /\ (w - r) % PtrMod \in 0 .. PtrMod - 1
         /\ w = (r + ((w - r) % PtrMod)) % PtrMod
         /\ ((w - r) % PtrMod) + 1 < PtrMod => (Following(w) - r) % PtrMod = ((w - r) % PtrMod) + 1
         /\ (w - r) % PtrMod > 0 => (w - Following(r)) % PtrMod = ((w - r) % PtrMod) - 1
         /\ w # r => (w - r) % PtrMod > 0
<1>1. PtrMod \in Nat \ {0}
  BY RingSizes
<1> DEFINE h == IF w >= r THEN w - r ELSE w - r + PtrMod
<1>2. h \in 0 .. PtrMod - 1
  BY <1>1
<1>3. (w - r) % PtrMod = h
  BY <1>1
<1>4. Following(w) = IF w + 1 = PtrMod THEN 0 ELSE w + 1
  BY <1>1 DEF Following
<1>5. Following(r) = IF r + 1 = PtrMod THEN 0 ELSE r + 1
  BY <1>1 DEF Following
<1>6. w = (r + h) % PtrMod
  BY <1>1
<1>7. h + 1 < PtrMod => (Following(w) - r) % PtrMod = h + 1
  BY <1>1, <1>4
<1>8. h > 0 => (w - Following(r)) % PtrMod = h - 1
  BY <1>1, <1>5
<1>9. w # r => h > 0
  BY <1>1
<1> HIDE DEF h
<1>10. QED
  BY <1>2, <1>3, <1>6, <1>7, <1>8, <1>9

LEMMA SlotsApart ==
  ASSUME NEW p \in Int, NEW d \in 1 .. FifoNum - 1
  PROVE  EntryOf(p + d) # EntryOf(p)
BY RingSizes, ModDistinct DEF EntryOf

LEMMA SlotTyped ==
  ASSUME NEW p \in Int
  PROVE  EntryOf(p) \in 0 .. FifoNum - 1 /\ EntryOf(p) # NoEntry
<1>1. FifoNum \in Nat \ {0}
  BY RingSizes
<1>2. p % FifoNum \in 0 .. FifoNum - 1
  BY <1>1, DivMod
<1>3. QED
  BY <1>1, <1>2 DEF EntryOf, NoEntry

LEMMA FifoInitial == FifoInit => FifoIInv
<1> SUFFICES ASSUME FifoInit PROVE FifoIInv
  OBVIOUS
<1>1. FifoNum \in Nat \ {0} /\ PtrMod \in Nat \ {0} /\ PtrMod > FifoNum
  BY RingSizes
<1>2. fifo = [wptr |-> 0, rptr |-> 0, slots |-> [i \in 0 .. FifoNum - 1 |-> "none"]]
  BY DEF FifoInit, my_fifo_init
<1>3. fifo \in [wptr : 0 .. PtrMod - 1, rptr : 0 .. PtrMod - 1,
                slots : [0 .. FifoNum - 1 -> FifoValues]]
  <2>1. [i \in 0 .. FifoNum - 1 |-> "none"] \in [0 .. FifoNum - 1 -> FifoValues]
    BY DEF FifoValues
  <2>2. 0 \in 0 .. PtrMod - 1
    BY <1>1
  <2>3. QED
    BY <1>2, <2>1, <2>2
<1>4. Held = 0
  <2>1. fifo.wptr = 0 /\ fifo.rptr = 0
    BY <1>2
  <2>2. QED
    BY <1>1, <2>1 DEF Held
<1>5. /\ fifoFill = [slot |-> FifoNum, free |-> FifoNum] /\ fifoHeld = FifoNum
      /\ fifoQueue = <<>> /\ fifoNested \in BOOLEAN
  BY DEF FifoInit, NoEntry
<1>6. FifoTypes
  <2>1. fifoQueue \in Seq(FifoValues)
    BY <1>5
  <2>2. FifoNum \in 0 .. FifoNum
    BY <1>1
  <2>3. QED
    BY <1>3, <1>5, <2>1, <2>2 DEF FifoTypes
<1>7. Len(fifoQueue) = 0
  BY <1>5
<1>8. QED
  BY <1>1, <1>4, <1>5, <1>6, <1>7 DEF FifoIInv, NoEntry

(* The parts of the invariant that the steps use.                          *)
LEMMA FifoParts ==
  ASSUME FifoIInv
  PROVE  /\ fifo.wptr \in 0 .. PtrMod - 1 /\ fifo.rptr \in 0 .. PtrMod - 1
         /\ fifo.slots \in [0 .. FifoNum - 1 -> FifoValues]
         /\ fifoFill.slot \in 0 .. FifoNum /\ fifoFill.free \in {FifoNum, FifoNum - 3}
         /\ fifoQueue \in Seq(FifoValues) /\ Len(fifoQueue) = Held
         /\ Held \in 0 .. FifoNum /\ fifoFill.free <= FifoNum
         /\ EntryOf(fifo.wptr) = EntryOf(fifo.rptr + Held)
         /\ FifoNum \in Nat \ {0} /\ PtrMod \in Nat \ {0} /\ PtrMod > FifoNum
<1>1. /\ fifo.wptr \in 0 .. PtrMod - 1 /\ fifo.rptr \in 0 .. PtrMod - 1
      /\ fifo.slots \in [0 .. FifoNum - 1 -> FifoValues]
      /\ fifoFill.slot \in 0 .. FifoNum /\ fifoFill.free \in {FifoNum, FifoNum - 3}
      /\ fifoQueue \in Seq(FifoValues) /\ Len(fifoQueue) = Held
  BY DEF FifoIInv, FifoTypes
<1>2. FifoNum \in Nat \ {0} /\ PtrMod \in Nat \ {0} /\ PtrMod > FifoNum
  BY RingSizes
<1>3. Held \in 0 .. PtrMod - 1 /\ fifo.wptr = (fifo.rptr + Held) % PtrMod
  BY <1>1, PointersTell DEF Held
<1>4. Held \in 0 .. FifoNum /\ fifoFill.free <= FifoNum
  BY <1>1, <1>2, <1>3 DEF FifoIInv
<1>5. EntryOf(((fifo.rptr + Held) % PtrMod) + 0) = EntryOf((fifo.rptr + Held) + 0)
  <2>1. fifo.rptr + Held \in Int
    BY <1>1, <1>3
  <2>2. QED
    BY <2>1, RingSlot
<1>6. EntryOf(fifo.wptr) = EntryOf(fifo.rptr + Held)
  <2>1. fifo.wptr + 0 = fifo.wptr /\ (fifo.rptr + Held) + 0 = fifo.rptr + Held
    BY <1>1, <1>3
  <2>2. QED
    BY <1>3, <1>5, <2>1
<1>7. QED
  BY <1>1, <1>2, <1>4, <1>6

(* The slot of the writer is in none of the entries held, while there is   *)
(* room.                                                                   *)
LEMMA WriterApart ==
  ASSUME FifoIInv, Held < FifoNum, NEW i \in 1 .. Held
  PROVE  EntryOf(fifo.rptr + i - 1) # EntryOf(fifo.wptr)
<1>1. fifo.rptr \in Int /\ Held \in Int /\ FifoNum \in Nat \ {0}
  BY FifoParts
<1> DEFINE p == fifo.rptr + i - 1  d == Held - i + 1
<1>2. p \in Int /\ d \in 1 .. FifoNum - 1 /\ p + d = fifo.rptr + Held
  BY <1>1
<1> HIDE DEF p, d
<1>3. EntryOf(p + d) # EntryOf(p)
  BY <1>2, SlotsApart
<1>4. QED
  BY <1>2, <1>3, FifoParts DEF p

(* A slot counted: what it holds is the youngest entry.                    *)
LEMMA CountStep ==
  ASSUME FifoIInv, Held < fifoFill.free \/ Held < FifoNum, NEW slots \in [0 .. FifoNum - 1 -> FifoValues],
         \A i \in 1 .. Held : slots[EntryOf(fifo.rptr + i - 1)] = fifo.slots[EntryOf(fifo.rptr + i - 1)],
         fifo' = [wptr |-> Following(fifo.wptr), rptr |-> fifo.rptr, slots |-> slots],
         fifoQueue' = Append(fifoQueue, slots[EntryOf(fifo.wptr)]),
         fifoFill' \in [slot : {NoEntry}, free : {FifoNum, FifoNum - 3}],
         Held + 1 <= fifoFill'.free,
         fifoFill.slot # NoEntry \/ fifoFill'.free = FifoNum,
         UNCHANGED <<fifoNested, fifoHeld>>
  PROVE  FifoIInv'
<1>1. /\ fifo.wptr \in 0 .. PtrMod - 1 /\ fifo.rptr \in 0 .. PtrMod - 1
      /\ fifoQueue \in Seq(FifoValues) /\ Len(fifoQueue) = Held /\ Held \in 0 .. FifoNum
      /\ EntryOf(fifo.wptr) = EntryOf(fifo.rptr + Held)
      /\ FifoNum \in Nat \ {0} /\ PtrMod \in Nat \ {0} /\ PtrMod > FifoNum
      /\ Held < FifoNum
  BY FifoParts
<1>2. /\ fifo'.wptr = Following(fifo.wptr) /\ fifo'.rptr = fifo.rptr /\ fifo'.slots = slots
      /\ Following(fifo.wptr) \in 0 .. PtrMod - 1
  BY <1>1 DEF Following
<1>3. Held' = Held + 1
  <2>1. Held + 1 < PtrMod => (Following(fifo.wptr) - fifo.rptr) % PtrMod = Held + 1
    BY <1>1, PointersTell DEF Held
  <2>2. Held' = (Following(fifo.wptr) - fifo.rptr) % PtrMod
    BY <1>2 DEF Held
  <2>3. QED
    BY <1>1, <2>1, <2>2
<1> DEFINE v == slots[EntryOf(fifo.wptr)]
<1>4. EntryOf(fifo.wptr) \in 0 .. FifoNum - 1
  <2>1. fifo.wptr \in Int
    BY <1>1
  <2>2. QED
    BY <2>1, SlotTyped
<1>5. v \in FifoValues
  BY <1>4
<1> HIDE DEF v
<1>6. fifoQueue' \in Seq(FifoValues) /\ Len(fifoQueue') = Held + 1
        /\ fifoQueue' = Append(fifoQueue, v)
  BY <1>1, <1>5 DEF v
<1>7. FifoTypes'
  <2>1. fifo' \in [wptr : 0 .. PtrMod - 1, rptr : 0 .. PtrMod - 1,
                   slots : [0 .. FifoNum - 1 -> FifoValues]]
    BY <1>1, <1>2
  <2>2. fifoFill' \in [slot : 0 .. FifoNum, free : {FifoNum, FifoNum - 3}]
    BY <1>1 DEF NoEntry
  <2>3. fifoNested' \in BOOLEAN /\ fifoHeld' \in 0 .. FifoNum
    BY DEF FifoIInv, FifoTypes
  <2>4. QED
    BY <1>6, <2>1, <2>2, <2>3 DEF FifoTypes
<1>8. ASSUME NEW i \in 1 .. Held + 1
      PROVE  slots[EntryOf(fifo.rptr + i - 1)] = fifoQueue'[i]
  <2>1. CASE i = Held + 1
    <3>1. fifo.rptr + i - 1 = fifo.rptr + Held
      BY <1>1, <2>1
    <3>2. fifoQueue'[i] = v
      BY <1>1, <1>5, <1>6, <2>1
    <3>3. QED
      BY <1>1, <3>1, <3>2 DEF v
  <2>2. CASE i # Held + 1
    <3>1. i \in 1 .. Held
      BY <1>1, <2>2
    <3>2. fifoQueue'[i] = fifoQueue[i]
      BY <1>1, <1>5, <1>6, <3>1
    <3>3. fifo.slots[EntryOf(fifo.rptr + i - 1)] = fifoQueue[i]
      BY <1>1, <3>1 DEF FifoIInv
    <3>4. QED
      BY <3>1, <3>2, <3>3
  <2>3. QED
    BY <2>1, <2>2
<1>9. \A i \in 1 .. Len(fifoQueue') : fifo'.slots[EntryOf(fifo'.rptr + i - 1)] = fifoQueue'[i]
  BY <1>2, <1>6, <1>8
<1>10. fifoHeld' # NoEntry => fifoQueue' # <<>> /\ fifoHeld' = EntryOf(fifo'.rptr)
  <2>1. fifoQueue' # <<>>
    BY <1>1, <1>6
  <2>2. QED
    BY <1>2, <2>1 DEF FifoIInv
<1>11. fifoFill'.slot = NoEntry /\ Held' <= fifoFill'.free /\ Held' <= FifoNum
  BY <1>1, <1>3
<1>12. Len(fifoQueue)' = Held'
  BY <1>3, <1>6
<1>13. fifoFill'.slot # NoEntry => fifoFill'.slot = EntryOf(fifo.wptr)' /\ Held' < fifoFill'.free
  BY <1>11
<1>14. \A i \in 1 .. Len(fifoQueue)' : fifo'.slots[EntryOf(fifo'.rptr + i - 1)] = fifoQueue'[i]
  BY <1>9
<1>15. QED
  BY <1>7, <1>10, <1>11, <1>12, <1>13, <1>14 DEF FifoIInv, EntryOf, NoEntry

LEMMA FillStep ==
  ASSUME FifoIInv, NEW free \in {FifoNum, FifoNum - 3}, FillSlot(free)
  PROVE  FifoIInv'
<1>1. /\ Held < free /\ fifoFill' = [slot |-> EntryOf(fifo.wptr), free |-> free]
      /\ UNCHANGED <<fifo, fifoNested, fifoHeld, fifoQueue>>
  BY DEF FillSlot
<1>2. /\ fifo.wptr \in Int /\ Held \in 0 .. FifoNum /\ FifoNum \in Nat
  BY FifoParts
<1>3. EntryOf(fifo.wptr) \in 0 .. FifoNum - 1
  BY <1>2, SlotTyped
<1>4. fifoFill' \in [slot : 0 .. FifoNum, free : {FifoNum, FifoNum - 3}]
  BY <1>1, <1>2, <1>3
<1>5. Held' = Held /\ EntryOf(fifo.wptr)' = EntryOf(fifo.wptr)
  BY <1>1 DEF Held, EntryOf
<1>6. Held <= free
  BY <1>1, <1>2
<1>7. QED
  BY <1>1, <1>4, <1>5, <1>6 DEF FifoIInv, FifoTypes, EntryOf

LEMMA WriteStep ==
  ASSUME FifoIInv, NEW v \in Entries, fifoFill.slot # NoEntry, WriteSlot(v)
  PROVE  FifoIInv'
<1>1. /\ fifo' = [fifo EXCEPT !.slots[fifoFill.slot] = v]
      /\ UNCHANGED <<fifoNested, fifoFill, fifoHeld, fifoQueue>>
  BY DEF WriteSlot
<1>2. /\ fifo.slots \in [0 .. FifoNum - 1 -> FifoValues] /\ fifo.wptr \in Int /\ fifo.rptr \in Int
      /\ fifoFill.free <= FifoNum /\ Held \in 0 .. FifoNum /\ FifoNum \in Nat
      /\ Len(fifoQueue) = Held
  BY FifoParts
<1>3. fifoFill.slot = EntryOf(fifo.wptr) /\ Held < FifoNum
  BY <1>2, FifoParts DEF FifoIInv
<1>4. v \in FifoValues
  BY DEF FifoValues
<1>5. /\ fifo'.wptr = fifo.wptr /\ fifo'.rptr = fifo.rptr
      /\ fifo'.slots = [fifo.slots EXCEPT ![fifoFill.slot] = v]
      /\ fifo' \in [wptr : 0 .. PtrMod - 1, rptr : 0 .. PtrMod - 1,
                    slots : [0 .. FifoNum - 1 -> FifoValues]]
  BY <1>1, <1>4 DEF FifoIInv, FifoTypes
<1>6. \A i \in 1 .. Held : fifo'.slots[EntryOf(fifo.rptr + i - 1)] = fifoQueue[i]
  <2> SUFFICES ASSUME NEW i \in 1 .. Held
               PROVE  fifo'.slots[EntryOf(fifo.rptr + i - 1)] = fifoQueue[i]
    OBVIOUS
  <2>1. EntryOf(fifo.rptr + i - 1) # fifoFill.slot
    BY <1>3, WriterApart
  <2>2. EntryOf(fifo.rptr + i - 1) \in 0 .. FifoNum - 1
    <3>1. fifo.rptr + i - 1 \in Int
      BY <1>2
    <3>2. QED
      BY <3>1, SlotTyped
  <2>3. fifo.slots[EntryOf(fifo.rptr + i - 1)] = fifoQueue[i]
    BY <1>2 DEF FifoIInv
  <2>4. QED
    BY <1>2, <1>5, <2>1, <2>2, <2>3
<1>7. Held' = Held /\ EntryOf(fifo.wptr)' = EntryOf(fifo.wptr)
  BY <1>5 DEF Held, EntryOf
<1>8. FifoTypes'
  BY <1>1, <1>5 DEF FifoIInv, FifoTypes
<1>9. \A i \in 1 .. Len(fifoQueue') : fifo'.slots[EntryOf(fifo'.rptr + i - 1)] = fifoQueue'[i]
  BY <1>1, <1>2, <1>5, <1>6
<1>10. QED
  BY <1>1, <1>5, <1>7, <1>8, <1>9 DEF FifoIInv, EntryOf

LEMMA NextStep ==
  ASSUME FifoIInv, fifoFill.slot # NoEntry, my_fifo_next
  PROVE  FifoIInv'
<1>1. /\ fifo' = [fifo EXCEPT !.wptr = Following(@)]
      /\ fifoQueue' = Append(fifoQueue, fifo.slots[EntryOf(fifo.wptr)])
      /\ fifoFill' = [fifoFill EXCEPT !.slot = NoEntry]
      /\ UNCHANGED <<fifoNested, fifoHeld>>
  BY DEF my_fifo_next
<1>2. /\ fifo.slots \in [0 .. FifoNum - 1 -> FifoValues]
      /\ fifoFill.free \in {FifoNum, FifoNum - 3} /\ Held \in 0 .. FifoNum /\ FifoNum \in Nat
  BY FifoParts
<1>3. Held < fifoFill.free
  BY DEF FifoIInv
<1>4. fifo' = [wptr |-> Following(fifo.wptr), rptr |-> fifo.rptr, slots |-> fifo.slots]
  BY <1>1 DEF FifoIInv, FifoTypes
<1>5. fifoFill' \in [slot : {NoEntry}, free : {FifoNum, FifoNum - 3}] /\ fifoFill'.free = fifoFill.free
  BY <1>1 DEF FifoIInv, FifoTypes
<1>6. Held + 1 <= fifoFill'.free
  BY <1>2, <1>3, <1>5
<1>7. QED
  BY <1>1, <1>2, <1>3, <1>4, <1>5, <1>6, CountStep

LEMMA PushStep ==
  ASSUME FifoIInv, fifoFill.slot = NoEntry, NEW v \in Entries, NEW n, my_fifo_push(v, n)
  PROVE  FifoIInv' \/ UNCHANGED fifoVars
<1>1. SUFFICES ASSUME ~(Held >= FifoNum \/ n >= FifoSize) PROVE FifoIInv'
  BY DEF my_fifo_push
<1>2. /\ fifo' = [fifo EXCEPT !.slots[EntryOf(fifo.wptr)] = v, !.wptr = Following(@)]
      /\ fifoQueue' = Append(fifoQueue, v)
      /\ fifoFill' = [fifoFill EXCEPT !.free = FifoNum]
      /\ UNCHANGED <<fifoNested, fifoHeld>>
  BY <1>1 DEF my_fifo_push
<1>3. /\ fifo.slots \in [0 .. FifoNum - 1 -> FifoValues] /\ fifo.wptr \in Int /\ fifo.rptr \in Int
      /\ Held \in 0 .. FifoNum /\ FifoNum \in Nat /\ ~(Held >= FifoNum)
  BY <1>1, FifoParts
<1>4. Held < FifoNum
  BY <1>3
<1>5. EntryOf(fifo.wptr) \in 0 .. FifoNum - 1
  BY <1>3, SlotTyped
<1> DEFINE slots == [fifo.slots EXCEPT ![EntryOf(fifo.wptr)] = v]
<1>6. slots \in [0 .. FifoNum - 1 -> FifoValues] /\ slots[EntryOf(fifo.wptr)] = v
  BY <1>3, <1>5 DEF FifoValues
<1>7. fifo' = [wptr |-> Following(fifo.wptr), rptr |-> fifo.rptr, slots |-> slots]
  BY <1>2 DEF FifoIInv, FifoTypes
<1>8. \A i \in 1 .. Held : slots[EntryOf(fifo.rptr + i - 1)] = fifo.slots[EntryOf(fifo.rptr + i - 1)]
  <2> SUFFICES ASSUME NEW i \in 1 .. Held
               PROVE  slots[EntryOf(fifo.rptr + i - 1)] = fifo.slots[EntryOf(fifo.rptr + i - 1)]
    OBVIOUS
  <2>1. EntryOf(fifo.rptr + i - 1) # EntryOf(fifo.wptr)
    BY <1>4, WriterApart
  <2>2. EntryOf(fifo.rptr + i - 1) \in 0 .. FifoNum - 1
    <3>1. fifo.rptr + i - 1 \in Int
      BY <1>3
    <3>2. \A x \in Int : EntryOf(x) \in 0 .. FifoNum - 1
      BY SlotTyped
    <3>3. QED
      BY <3>1, <3>2
  <2>3. QED
    BY <1>3, <2>1, <2>2
<1> HIDE DEF slots
<1>9. fifoFill' \in [slot : {NoEntry}, free : {FifoNum, FifoNum - 3}] /\ fifoFill'.free = FifoNum
  BY <1>2 DEF FifoIInv, FifoTypes
<1>10. Held + 1 <= fifoFill'.free
  BY <1>3, <1>4, <1>9
<1>11. fifoQueue' = Append(fifoQueue, slots[EntryOf(fifo.wptr)])
  BY <1>2, <1>6
<1>12. QED
  BY <1>2, <1>4, <1>6, <1>7, <1>8, <1>9, <1>10, <1>11, CountStep

LEMMA GetStep ==
  ASSUME FifoIInv, my_fifo_get
  PROVE  FifoIInv'
<1>1. /\ fifo.rptr # fifo.wptr /\ fifoHeld' = EntryOf(fifo.rptr)
      /\ UNCHANGED <<fifo, fifoNested, fifoFill, fifoQueue>>
  BY DEF my_fifo_get
<1>2. /\ fifo.wptr \in 0 .. PtrMod - 1 /\ fifo.rptr \in 0 .. PtrMod - 1 /\ FifoNum \in Nat
      /\ Len(fifoQueue) = Held
  BY FifoParts
<1>3. Held > 0
  BY <1>1, <1>2, PointersTell DEF Held
<1>4. fifoQueue # <<>>
  BY <1>2, <1>3
<1>5. fifoHeld' \in 0 .. FifoNum
  <2>1. fifo.rptr \in Int
    BY <1>2
  <2>2. EntryOf(fifo.rptr) \in 0 .. FifoNum - 1
    BY <2>1, SlotTyped
  <2>3. QED
    BY <1>1, <1>2, <2>2
<1>6. Held' = Held
  BY <1>1 DEF Held
<1>7. QED
  BY <1>1, <1>4, <1>5, <1>6 DEF FifoIInv, FifoTypes, EntryOf

LEMMA PopStep ==
  ASSUME FifoIInv, fifoHeld # NoEntry, my_fifo_pop
  PROVE  FifoIInv'
<1>1. /\ fifo' = [fifo EXCEPT !.rptr = Following(@)] /\ fifoQueue' = Tail(fifoQueue)
      /\ fifoHeld' = NoEntry /\ UNCHANGED <<fifoNested, fifoFill>>
  BY DEF my_fifo_pop
<1>2. /\ fifo.wptr \in 0 .. PtrMod - 1 /\ fifo.rptr \in 0 .. PtrMod - 1
      /\ fifoQueue \in Seq(FifoValues) /\ Len(fifoQueue) = Held /\ Held \in 0 .. FifoNum
      /\ FifoNum \in Nat \ {0} /\ PtrMod \in Nat \ {0} /\ PtrMod > FifoNum
      /\ fifoFill.free \in Int
  BY FifoParts
<1>3. fifoQueue # <<>>
  BY DEF FifoIInv
<1>4. Held > 0
  BY <1>2, <1>3, EmptySeq
<1>5. /\ fifo'.wptr = fifo.wptr /\ fifo'.rptr = Following(fifo.rptr) /\ fifo'.slots = fifo.slots
      /\ Following(fifo.rptr) \in 0 .. PtrMod - 1
  BY <1>1, <1>2 DEF FifoIInv, FifoTypes, Following
<1>6. Held' = Held - 1
  <2>1. Held > 0 => (fifo.wptr - Following(fifo.rptr)) % PtrMod = Held - 1
    BY <1>2, PointersTell DEF Held
  <2>2. Held' = (fifo.wptr - Following(fifo.rptr)) % PtrMod
    BY <1>5 DEF Held
  <2>3. QED
    BY <1>4, <2>1, <2>2
<1>7. fifoQueue' \in Seq(FifoValues) /\ Len(fifoQueue') = Held - 1
        /\ \A i \in 1 .. Held - 1 : fifoQueue'[i] = fifoQueue[i + 1]
  BY <1>1, <1>2, <1>3
<1>8. FifoTypes'
  <2>1. fifo' \in [wptr : 0 .. PtrMod - 1, rptr : 0 .. PtrMod - 1,
                   slots : [0 .. FifoNum - 1 -> FifoValues]]
    BY <1>1, <1>5 DEF FifoIInv, FifoTypes
  <2>2. NoEntry \in 0 .. FifoNum
    BY <1>2 DEF NoEntry
  <2>3. QED
    BY <1>1, <1>7, <2>1, <2>2 DEF FifoIInv, FifoTypes
<1>9. \A i \in 1 .. Held - 1 : fifo.slots[EntryOf(Following(fifo.rptr) + i - 1)] = fifoQueue'[i]
  <2> SUFFICES ASSUME NEW i \in 1 .. Held - 1
               PROVE  fifo.slots[EntryOf(Following(fifo.rptr) + i - 1)] = fifoQueue'[i]
    OBVIOUS
  <2>1. EntryOf(((fifo.rptr + 1) % PtrMod) + (i - 1)) = EntryOf((fifo.rptr + 1) + (i - 1))
    <3>1. fifo.rptr + 1 \in Int /\ i - 1 \in Int
      BY <1>2
    <3>2. QED
      BY <3>1, RingSlot
  <2>2. Following(fifo.rptr) + i - 1 = ((fifo.rptr + 1) % PtrMod) + (i - 1)
    BY <1>2 DEF Following
  <2>3. (fifo.rptr + 1) + (i - 1) = fifo.rptr + (i + 1) - 1
    BY <1>2
  <2>4. i + 1 \in 1 .. Len(fifoQueue)
    BY <1>2
  <2>5. fifo.slots[EntryOf(fifo.rptr + (i + 1) - 1)] = fifoQueue[i + 1]
    BY <2>4 DEF FifoIInv
  <2>6. QED
    BY <1>7, <2>1, <2>2, <2>3, <2>5
<1>10. \A i \in 1 .. Len(fifoQueue') : fifo'.slots[EntryOf(fifo'.rptr + i - 1)] = fifoQueue'[i]
  BY <1>5, <1>7, <1>9
<1>11. EntryOf(fifo.wptr)' = EntryOf(fifo.wptr)
  BY <1>5 DEF EntryOf
<1>12. fifoFill'.slot # NoEntry => fifoFill'.slot = EntryOf(fifo.wptr)' /\ Held' < fifoFill'.free
  BY <1>1, <1>2, <1>6, <1>11 DEF FifoIInv
<1>13. Held' <= fifoFill'.free /\ Held' <= FifoNum
  BY <1>1, <1>2, <1>6 DEF FifoIInv
<1>14. Len(fifoQueue)' = Held'
  BY <1>6, <1>7
<1>15. fifoHeld' = NoEntry
  BY <1>1
<1>16. QED
  BY <1>8, <1>10, <1>12, <1>13, <1>14, <1>15 DEF FifoIInv, EntryOf, NoEntry

LEMMA FifoStutter == FifoIInv /\ UNCHANGED fifoVars => FifoIInv'
<1> SUFFICES ASSUME FifoIInv, UNCHANGED fifoVars PROVE FifoIInv'
  OBVIOUS
<1>1. UNCHANGED <<fifo, fifoNested, fifoFill, fifoHeld, fifoQueue>> /\ Held' = Held
  BY DEF fifoVars, Held
<1>2. QED
  BY <1>1 DEF FifoIInv, FifoTypes, EntryOf

LEMMA FifoStep == FifoIInv /\ [FifoNext]_fifoVars => FifoIInv'
<1> SUFFICES ASSUME FifoIInv, [FifoNext]_fifoVars PROVE FifoIInv'
  OBVIOUS
<1>1. CASE FifoProducer
  <2>1. CASE fifoFill.slot = NoEntry
    <3>1. CASE my_fifo_wptr \/ my_fifo_wptr_v2
      BY <3>1, FillStep DEF my_fifo_wptr, my_fifo_wptr_v2
    <3>2. ASSUME NEW v \in Entries, NEW n \in FifoLens, my_fifo_push(v, n) PROVE FifoIInv'
      BY <2>1, <3>2, PushStep, FifoStutter
    <3>3. QED
      BY <1>1, <2>1, <3>1, <3>2 DEF FifoProducer
  <2>2. CASE fifoFill.slot # NoEntry
    BY <1>1, <2>2, NextStep, WriteStep DEF FifoProducer
  <2>3. QED
    BY <2>1, <2>2
<1>2. CASE FifoConsumer
  BY <1>2, GetStep, PopStep DEF FifoConsumer
<1>3. CASE UNCHANGED fifoVars
  BY <1>3, FifoStutter
<1>4. QED
  BY <1>1, <1>2, <1>3 DEF FifoNext

LEMMA FifoImplied == FifoIInv => FifoInOrder
<1> SUFFICES ASSUME FifoIInv PROVE FifoInOrder
  OBVIOUS
<1>1. /\ fifoQueue \in Seq(FifoValues) /\ Len(fifoQueue) = Held /\ fifo.rptr \in Int
  BY FifoParts
<1>2. ASSUME fifoHeld # NoEntry
      PROVE  fifoQueue # <<>> /\ fifo.slots[fifoHeld] = Head(fifoQueue)
  <2>1. fifoQueue # <<>> /\ fifoHeld = EntryOf(fifo.rptr)
    BY <1>2 DEF FifoIInv
  <2>2. 1 \in 1 .. Len(fifoQueue) /\ Head(fifoQueue) = fifoQueue[1]
    BY <1>1, <2>1, EmptySeq
  <2>3. fifo.slots[EntryOf(fifo.rptr + 1 - 1)] = fifoQueue[1]
    BY <2>2 DEF FifoIInv
  <2>4. fifo.rptr + 1 - 1 = fifo.rptr
    BY <1>1
  <2>5. QED
    BY <2>1, <2>2, <2>3, <2>4
<1>3. QED
  BY <1>2 DEF FifoIInv, FifoInOrder

-----------------------------------------------------------------------------
(* The timers and the PWM.  Bit by bit: which bits of a shared register    *)
(* are a channel's, and that each of them is what was asked.               *)
PwmAsked ==
  [on : BOOLEAN, invert : BOOLEAN, n_invert : BOOLEAN, pol : BOOLEAN, slow : BOOLEAN]
TimerRegs ==
  [ctrl0 : SUBSET Int, ctrl2 : SUBSET Int, sta : SUBSET Int, target : Int,
   enable : SUBSET Int, enable0 : SUBSET Int, invert : SUBSET Int, n_invert : SUBSET Int,
   pol : SUBSET Int, mode32k : SUBSET Int, mask : SUBSET Int, pwmSta : SUBSET Int]

TimersTypes ==
  /\ tmrReg \in TimerRegs
  /\ tmrAsked \in [on : [TimerIds -> BOOLEAN], mode : [TimerIds -> 0 .. 3], wd : Nat \X Nat,
                   pwm : [PwmIds -> PwmAsked]]

TimersHold ==
  \A t \in TimerIds :
    /\ \A b \in {0, 1} : b + 4 * t \in tmrReg.ctrl0 <=> b \in ModeBits(tmrAsked.mode[t])
    /\ 2 + 4 * t \in tmrReg.ctrl0 <=> tmrAsked.on[t]

PwmHold ==
  /\ 0 \notin tmrReg.enable /\ tmrReg.enable0 \subseteq {0}
  /\ \A id \in PwmIds :
       /\ (id = 0 /\ 0 \in tmrReg.enable0) \/ (id # 0 /\ id \in tmrReg.enable) <=> tmrAsked.pwm[id].on
       /\ id \in tmrReg.invert <=> tmrAsked.pwm[id].invert
       /\ id \in tmrReg.n_invert <=> tmrAsked.pwm[id].n_invert
       /\ id \in tmrReg.pol <=> tmrAsked.pwm[id].pol
       /\ id \in tmrReg.mode32k <=> tmrAsked.pwm[id].slow

WatchdogHolds ==
  tmrAsked.wd[1] * tmrAsked.wd[2] * 125 < 2^29 =>
    (tmrAsked.wd[1] * tmrAsked.wd[2] * 125) - tmrReg.target \in 0 .. 31

TimersIInv == TimersTypes /\ TimersHold /\ PwmHold /\ WatchdogHolds /\ IrqsKept

LEMMA TimersInitial == TimersInit => TimersIInv
<1> SUFFICES ASSUME TimersInit PROVE TimersIInv
  OBVIOUS
<1>1. /\ tmrReg \in TimerRegs /\ tmrReg.ctrl0 = {} /\ tmrReg.sta = {} /\ tmrReg.target = 0
      /\ tmrReg.enable = {} /\ tmrReg.enable0 = {} /\ tmrReg.invert = {} /\ tmrReg.n_invert = {}
      /\ tmrReg.pol = {} /\ tmrReg.mode32k = {}
  BY DEF TimersInit, TimerRegs
<1> DEFINE none == [on |-> FALSE, invert |-> FALSE, n_invert |-> FALSE, pol |-> FALSE, slow |-> FALSE]
<1>2. tmrAsked = [on |-> [t \in TimerIds |-> FALSE], mode |-> [t \in TimerIds |-> 0],
                  wd |-> <<0, 1>>, pwm |-> [id \in PwmIds |-> none]]
  BY DEF TimersInit
<1>3. none \in PwmAsked /\ ~none.on /\ ~none.invert /\ ~none.n_invert /\ ~none.pol /\ ~none.slow
  BY DEF PwmAsked
<1> HIDE DEF none
<1>4. /\ tmrAsked.on = [t \in TimerIds |-> FALSE] /\ tmrAsked.mode = [t \in TimerIds |-> 0]
      /\ tmrAsked.wd = <<0, 1>> /\ tmrAsked.pwm = [id \in PwmIds |-> none]
  BY <1>2
<1>5. TimersTypes
  <2>1. /\ [t \in TimerIds |-> FALSE] \in [TimerIds -> BOOLEAN]
        /\ [t \in TimerIds |-> 0] \in [TimerIds -> 0 .. 3]
        /\ <<0, 1>> \in Nat \X Nat /\ [id \in PwmIds |-> none] \in [PwmIds -> PwmAsked]
    BY <1>3
  <2>2. QED
    BY <1>1, <1>2, <2>1 DEF TimersTypes
<1>6. TimersHold
  <2>1. ModeBits(0) = {}
    <3>1. 2 ^ 0 = 1 /\ 2 ^ 1 = 2 /\ 0 \div 1 = 0 /\ 0 \div 2 = 0 /\ 0 % 2 = 0
      OBVIOUS
    <3>2. ~((0 \div (2 ^ 0)) % 2 = 1) /\ ~((0 \div (2 ^ 1)) % 2 = 1)
      BY <3>1
    <3>3. QED
      BY <3>2, Zenon DEF ModeBits
  <2>2. QED
    BY <1>1, <1>4, <2>1 DEF TimersHold
<1>7. PwmHold
  BY <1>1, <1>3, <1>4 DEF PwmHold
<1>8. WatchdogHolds
  BY <1>1, <1>4 DEF WatchdogHolds
<1>9. IrqsKept
  BY <1>1 DEF TimersInit, IrqsKept
<1>10. QED
  BY <1>5, <1>6, <1>7, <1>8, <1>9 DEF TimersIInv

LEMMA TimersImplied == TimersIInv => TimersKept
<1> SUFFICES ASSUME TimersIInv PROVE TimersKept
  OBVIOUS
<1>1. TimersTypes /\ TimersHold /\ PwmHold /\ WatchdogHolds /\ IrqsKept
  BY DEF TimersIInv
<1>2. ASSUME NEW t \in TimerIds
      PROVE  tmrReg.ctrl0 \cap Above(t, {0, 1, 2}) =
               Above(t, ModeBits(tmrAsked.mode[t]) \cup (IF tmrAsked.on[t] THEN {2} ELSE {}))
  <2> DEFINE bits == ModeBits(tmrAsked.mode[t]) \cup (IF tmrAsked.on[t] THEN {2} ELSE {})
  <2>1. \A b \in {0, 1, 2} : b + 4 * t \in tmrReg.ctrl0 <=> b \in bits
    <3>1. ModeBits(tmrAsked.mode[t]) \subseteq {0, 1}
      BY DEF ModeBits
    <3>2. QED
      BY <1>1, <3>1 DEF TimersHold
  <2>2. bits \subseteq {0, 1, 2}
    BY DEF ModeBits
  <2> HIDE DEF bits
  <2>3. QED
    BY <2>1, <2>2 DEF Above, bits
<1>3. ASSUME NEW id \in PwmIds
      PROVE  LET asked == tmrAsked.pwm[id]
             IN /\ id \in tmrReg.enable \cup tmrReg.enable0 <=> asked.on
                /\ id # 0 => id \notin tmrReg.enable0
                /\ 0 \notin tmrReg.enable
                /\ id \in tmrReg.invert <=> asked.invert
                /\ id \in tmrReg.n_invert <=> asked.n_invert
                /\ id \in tmrReg.pol <=> asked.pol
                /\ id \in tmrReg.mode32k <=> asked.slow
  BY <1>1 DEF PwmHold
<1>4. ChannelsAsSet
  BY <1>1, <1>2, <1>3 DEF ChannelsAsSet, WatchdogHolds
<1>5. QED
  BY <1>1, <1>4 DEF TimersKept

(* What a step of one kind leaves alone.                                   *)
LEMMA TimerBit ==
  ASSUME NEW t \in TimerIds, NEW u \in TimerIds, NEW b \in 0 .. 2, NEW bits \in SUBSET (0 .. 2)
  PROVE  b + 4 * u \in Above(t, bits) <=> u = t /\ b \in bits
<1>1. t \in Int /\ u \in Int /\ t >= 0 /\ u >= 0
  BY DEF TimerIds
<1>2. b + 4 * u \in Above(t, bits) <=> \E c \in bits : b + 4 * u = c + 4 * t
  BY DEF Above
<1>3. \A c \in bits : b + 4 * u = c + 4 * t <=> u = t /\ b = c
  BY <1>1
<1>4. QED
  BY <1>2, <1>3

LEMMA ModeBitsIn == ASSUME NEW mode PROVE ModeBits(mode) \in SUBSET (0 .. 2)
<1>1. 0 \in 0 .. 2 /\ 1 \in 0 .. 2
  OBVIOUS
<1>2. QED
  BY <1>1, Zenon DEF ModeBits

LEMMA TimerSetStep ==
  ASSUME TimersIInv, NEW t \in TimerIds, timer_start(t) \/ timer_stop(t)
  PROVE  TimersIInv'
<1>1. TimersTypes /\ TimersHold /\ PwmHold /\ WatchdogHolds /\ IrqsKept
  BY DEF TimersIInv
<1>2. PICK on \in BOOLEAN :
        /\ tmrReg' = [tmrReg EXCEPT !["ctrl0"] = IF on THEN @ \cup Above(t, {2}) ELSE @ \ Above(t, {2})]
        /\ tmrAsked' = [tmrAsked EXCEPT !.on[t] = on]
        /\ tmrDue' = tmrDue
  BY DEF timer_start, timer_stop, BitSet, BitClear
<1>3. Above(t, {2}) \in SUBSET Int
  BY DEF Above, TimerIds
<1>4. /\ tmrReg' \in TimerRegs
      /\ tmrReg'.ctrl0 = IF on THEN tmrReg.ctrl0 \cup Above(t, {2}) ELSE tmrReg.ctrl0 \ Above(t, {2})
      /\ tmrReg'.sta = tmrReg.sta /\ tmrReg'.target = tmrReg.target
      /\ tmrReg'.enable = tmrReg.enable /\ tmrReg'.enable0 = tmrReg.enable0
      /\ tmrReg'.invert = tmrReg.invert /\ tmrReg'.n_invert = tmrReg.n_invert
      /\ tmrReg'.pol = tmrReg.pol /\ tmrReg'.mode32k = tmrReg.mode32k
  BY <1>1, <1>2, <1>3 DEF TimersTypes, TimerRegs
<1>5. /\ tmrAsked' \in [on : [TimerIds -> BOOLEAN], mode : [TimerIds -> 0 .. 3], wd : Nat \X Nat,
                        pwm : [PwmIds -> PwmAsked]]
      /\ tmrAsked'.on = [tmrAsked.on EXCEPT ![t] = on]
      /\ tmrAsked'.mode = tmrAsked.mode /\ tmrAsked'.wd = tmrAsked.wd /\ tmrAsked'.pwm = tmrAsked.pwm
  BY <1>1, <1>2 DEF TimersTypes
<1>6. TimersHold'
  <2> SUFFICES ASSUME NEW u \in TimerIds
               PROVE  /\ \A b \in {0, 1} : b + 4 * u \in tmrReg'.ctrl0 <=> b \in ModeBits(tmrAsked'.mode[u])
                      /\ 2 + 4 * u \in tmrReg'.ctrl0 <=> tmrAsked'.on[u]
    BY DEF TimersHold
  <2>1. {2} \in SUBSET (0 .. 2)
    OBVIOUS
  <2>2. \A b \in {0, 1} : b + 4 * u \notin Above(t, {2})
    <3>1. \A b \in 0 .. 2, bits \in SUBSET (0 .. 2) :
            b + 4 * u \in Above(t, bits) <=> u = t /\ b \in bits
      BY TimerBit
    <3>2. \A b \in 0 .. 2 : b + 4 * u \in Above(t, {2}) <=> u = t /\ b \in {2}
      BY <2>1, <3>1
    <3>3. QED
      BY <3>2
  <2>3. 2 + 4 * u \in Above(t, {2}) <=> u = t
    BY <2>1, TimerBit
  <2>4. /\ \A b \in {0, 1} : b + 4 * u \in tmrReg.ctrl0 <=> b \in ModeBits(tmrAsked.mode[u])
        /\ 2 + 4 * u \in tmrReg.ctrl0 <=> tmrAsked.on[u]
    BY <1>1 DEF TimersHold
  <2>5. tmrAsked'.on[u] <=> IF u = t THEN on ELSE tmrAsked.on[u]
    BY <1>1, <1>5 DEF TimersTypes
  <2>6. QED
    BY <1>4, <1>5, <2>2, <2>3, <2>4, <2>5
<1>7. PwmHold'
  BY <1>1, <1>4, <1>5 DEF PwmHold
<1>8. WatchdogHolds'
  BY <1>1, <1>4, <1>5 DEF WatchdogHolds
<1>9. QED
  BY <1>1, <1>2, <1>4, <1>5, <1>6, <1>7, <1>8 DEF TimersIInv, TimersTypes, IrqsKept

LEMMA ModeStep ==
  ASSUME TimersIInv, NEW t \in TimerIds, NEW mode \in 0 .. 3, timer_set_mode(t, mode)
  PROVE  TimersIInv'
<1>1. TimersTypes /\ TimersHold /\ PwmHold /\ WatchdogHolds /\ IrqsKept
  BY DEF TimersIInv
<1>2. /\ tmrReg' = [[tmrReg EXCEPT !.sta = Acknowledged(@, {t})]
                       EXCEPT !.ctrl0 = ModeWritten(@, t, mode)]
      /\ tmrAsked' = [tmrAsked EXCEPT !.mode[t] = mode]
      /\ tmrDue' = tmrDue \ {t}
  BY <1>1 DEF timer_set_mode, TimersTypes, TimerRegs
<1> DEFINE new == ModeWritten(tmrReg.ctrl0, t, mode)
<1>3. new \in SUBSET Int
  <2>1. Above(t, ModeBits(mode)) \in SUBSET Int
    BY ModeBitsIn DEF Above, TimerIds
  <2>2. tmrReg.ctrl0 \in SUBSET Int
    BY <1>1 DEF TimersTypes, TimerRegs
  <2>3. QED
    BY <2>1, <2>2 DEF ModeWritten
<1>4. /\ tmrReg' \in TimerRegs
      /\ tmrReg'.ctrl0 = new
      /\ tmrReg'.sta = tmrReg.sta \ {t} /\ tmrReg'.target = tmrReg.target
      /\ tmrReg'.enable = tmrReg.enable /\ tmrReg'.enable0 = tmrReg.enable0
      /\ tmrReg'.invert = tmrReg.invert /\ tmrReg'.n_invert = tmrReg.n_invert
      /\ tmrReg'.pol = tmrReg.pol /\ tmrReg'.mode32k = tmrReg.mode32k
  <2> DEFINE sta == Acknowledged(tmrReg.sta, {t})
  <2>1. sta \in SUBSET Int /\ sta = tmrReg.sta \ {t}
    BY <1>1 DEF Acknowledged, TimersTypes, TimerRegs
  <2>2. tmrReg' = [[tmrReg EXCEPT !.sta = sta] EXCEPT !.ctrl0 = new]
    BY <1>1, <1>2 DEF TimersTypes, TimerRegs
  <2> HIDE DEF sta, new
  <2>3. QED
    BY <1>1, <1>3, <2>1, <2>2 DEF TimersTypes, TimerRegs
<1>5. /\ tmrAsked' \in [on : [TimerIds -> BOOLEAN], mode : [TimerIds -> 0 .. 3], wd : Nat \X Nat,
                        pwm : [PwmIds -> PwmAsked]]
      /\ tmrAsked'.mode = [tmrAsked.mode EXCEPT ![t] = mode]
      /\ tmrAsked'.on = tmrAsked.on /\ tmrAsked'.wd = tmrAsked.wd /\ tmrAsked'.pwm = tmrAsked.pwm
  BY <1>1, <1>2 DEF TimersTypes
<1>6. TimersHold'
  <2> SUFFICES ASSUME NEW u \in TimerIds
               PROVE  /\ \A b \in {0, 1} : b + 4 * u \in tmrReg'.ctrl0 <=> b \in ModeBits(tmrAsked'.mode[u])
                      /\ 2 + 4 * u \in tmrReg'.ctrl0 <=> tmrAsked'.on[u]
    BY DEF TimersHold
  <2>1. {0, 1} \in SUBSET (0 .. 2) /\ ModeBits(mode) \in SUBSET (0 .. 2)
    BY ModeBitsIn
  <2>2. \A b \in 0 .. 2 : /\ b + 4 * u \in Above(t, {0, 1}) <=> u = t /\ b \in {0, 1}
                          /\ b + 4 * u \in Above(t, ModeBits(mode)) <=> u = t /\ b \in ModeBits(mode)
    BY <2>1, TimerBit
  <2>3. 2 \notin ModeBits(mode)
    <3>1. ModeBits(mode) \subseteq {0, 1}
      BY Zenon DEF ModeBits
    <3>2. QED
      BY <3>1
  <2>4. /\ \A b \in {0, 1} : b + 4 * u \in tmrReg.ctrl0 <=> b \in ModeBits(tmrAsked.mode[u])
        /\ 2 + 4 * u \in tmrReg.ctrl0 <=> tmrAsked.on[u]
    BY <1>1 DEF TimersHold
  <2>5. \A x : x \in new <=> (x \in tmrReg.ctrl0 /\ x \notin Above(t, {0, 1})) \/ x \in Above(t, ModeBits(mode))
    BY DEF ModeWritten
  <2>6. 2 + 4 * u \in new <=> tmrAsked.on[u]
    <3>1. 2 + 4 * u \notin Above(t, {0, 1}) /\ 2 + 4 * u \notin Above(t, ModeBits(mode))
      BY <2>2, <2>3
    <3>2. QED
      BY <2>4, <2>5, <3>1
  <2> HIDE DEF new
  <2>7. CASE u = t
    <3>1. tmrAsked'.mode[u] = mode
      BY <1>1, <1>5, <2>7 DEF TimersTypes
    <3>2. \A b \in {0, 1} : b + 4 * u \in new <=> b \in ModeBits(mode)
      BY <2>2, <2>5, <2>7
    <3>3. QED
      BY <1>4, <1>5, <2>6, <3>1, <3>2
  <2>8. CASE u # t
    <3>1. tmrAsked'.mode[u] = tmrAsked.mode[u]
      BY <1>1, <1>5, <2>8 DEF TimersTypes
    <3>2. \A b \in {0, 1} : b + 4 * u \in new <=> b + 4 * u \in tmrReg.ctrl0
      BY <2>2, <2>5, <2>8
    <3>3. QED
      BY <1>4, <1>5, <2>4, <2>6, <3>1, <3>2
  <2>9. QED
    BY <2>7, <2>8
<1> HIDE DEF new
<1>7. PwmHold'
  BY <1>1, <1>4, <1>5 DEF PwmHold
<1>8. WatchdogHolds'
  BY <1>1, <1>4, <1>5 DEF WatchdogHolds
<1>9. QED
  BY <1>1, <1>2, <1>4, <1>5, <1>6, <1>7, <1>8 DEF TimersIInv, TimersTypes, IrqsKept

(* Steps that change only flags, or registers nothing is asked of.         *)
LEMMA FlagsStep ==
  ASSUME TimersIInv, NEW flags \in {"ctrl2", "sta", "mask", "pwmSta"}, NEW v \in SUBSET Int,
         tmrReg' = [tmrReg EXCEPT ![flags] = v],
         tmrDue' = IF flags = "sta" THEN v ELSE tmrDue, UNCHANGED tmrAsked
  PROVE  TimersIInv'
<1>1. TimersTypes /\ TimersHold /\ PwmHold /\ WatchdogHolds /\ IrqsKept
  BY DEF TimersIInv
<1>2. /\ tmrReg' \in TimerRegs /\ tmrReg'.ctrl0 = tmrReg.ctrl0
      /\ tmrReg'.target = tmrReg.target
      /\ tmrReg'.enable = tmrReg.enable /\ tmrReg'.enable0 = tmrReg.enable0
      /\ tmrReg'.invert = tmrReg.invert /\ tmrReg'.n_invert = tmrReg.n_invert
      /\ tmrReg'.pol = tmrReg.pol /\ tmrReg'.mode32k = tmrReg.mode32k
      /\ tmrReg'.sta = IF flags = "sta" THEN v ELSE tmrReg.sta
  BY <1>1 DEF TimersTypes, TimerRegs
<1>3. TimersHold' /\ PwmHold' /\ WatchdogHolds'
  BY <1>1, <1>2 DEF TimersHold, PwmHold, WatchdogHolds
<1>4. QED
  BY <1>1, <1>2, <1>3 DEF TimersIInv, TimersTypes, IrqsKept

LEMMA IntervalStep ==
  ASSUME TimersIInv, NEW period \in WdPeriods, NEW pclk \in WdClocks, wd_set_interval_ms(period, pclk)
  PROVE  TimersIInv'
<1>1. TimersTypes /\ TimersHold /\ PwmHold /\ WatchdogHolds /\ IrqsKept
  BY DEF TimersIInv
<1>2. period \in Nat /\ pclk \in Nat
  BY TimersAssumption
<1> DEFINE ticks == period * pclk * 125  limit == 2^29
           target == ((ticks % limit) \div 32) * 32
<1>3. ticks \in Nat
  BY <1>2
<1>4. limit \in Nat \ {0}
  OBVIOUS
<1>5. target \in Int /\ (ticks < limit => ticks - target \in 0 .. 31)
  <2> HIDE DEF ticks, limit
  <2>1. ticks % limit \in Nat /\ (ticks < limit => ticks % limit = ticks)
    BY <1>3, <1>4
  <2> DEFINE rest == ticks % limit
  <2>2. rest \in Nat /\ (ticks < limit => rest = ticks)
    BY <2>1
  <2> HIDE DEF rest
  <2>3. (rest \div 32) * 32 \in Int /\ rest - ((rest \div 32) * 32) \in 0 .. 31
    BY <2>2
  <2>4. target = (rest \div 32) * 32
    BY DEF rest
  <2>5. QED
    BY <2>2, <2>3, <2>4
<1>6. tmrReg' = [tmrReg EXCEPT !.target = target] /\ tmrAsked' = [tmrAsked EXCEPT !.wd = <<period, pclk>>]
        /\ tmrDue' = tmrDue
  BY DEF wd_set_interval_ms
<1> HIDE DEF ticks, limit, target
<1>7. /\ tmrReg' \in TimerRegs /\ tmrReg'.ctrl0 = tmrReg.ctrl0
      /\ tmrReg'.target = target
      /\ tmrReg'.enable = tmrReg.enable /\ tmrReg'.enable0 = tmrReg.enable0
      /\ tmrReg'.invert = tmrReg.invert /\ tmrReg'.n_invert = tmrReg.n_invert
      /\ tmrReg'.pol = tmrReg.pol /\ tmrReg'.mode32k = tmrReg.mode32k
      /\ tmrReg'.sta = tmrReg.sta
  BY <1>1, <1>5, <1>6 DEF TimersTypes, TimerRegs
<1>8. /\ tmrAsked' \in [on : [TimerIds -> BOOLEAN], mode : [TimerIds -> 0 .. 3], wd : Nat \X Nat,
                        pwm : [PwmIds -> PwmAsked]]
      /\ tmrAsked'.wd = <<period, pclk>>
      /\ tmrAsked'.on = tmrAsked.on /\ tmrAsked'.mode = tmrAsked.mode /\ tmrAsked'.pwm = tmrAsked.pwm
  BY <1>1, <1>2, <1>6 DEF TimersTypes
<1>9. TimersHold' /\ PwmHold'
  BY <1>1, <1>7, <1>8 DEF TimersHold, PwmHold
<1>10. WatchdogHolds'
  BY <1>5, <1>7, <1>8 DEF WatchdogHolds, ticks, limit
<1>11. QED
  BY <1>1, <1>6, <1>7, <1>8, <1>9, <1>10 DEF TimersIInv, TimersTypes, IrqsKept

(* One channel of the PWM is told something new.                           *)
LEMMA ChannelTold ==
  ASSUME TimersIInv, NEW id \in PwmIds, NEW new \in PwmAsked,
         tmrAsked' = [tmrAsked EXCEPT !.pwm = [tmrAsked.pwm EXCEPT ![id] = new]],
         tmrDue' = tmrDue, tmrReg' \in TimerRegs,
         tmrReg'.ctrl0 = tmrReg.ctrl0, tmrReg'.sta = tmrReg.sta, tmrReg'.target = tmrReg.target,
         0 \notin tmrReg'.enable, tmrReg'.enable0 \subseteq {0},
         (id = 0 /\ 0 \in tmrReg'.enable0) \/ (id # 0 /\ id \in tmrReg'.enable) <=> new.on,
         id \in tmrReg'.invert <=> new.invert, id \in tmrReg'.n_invert <=> new.n_invert,
         id \in tmrReg'.pol <=> new.pol, id \in tmrReg'.mode32k <=> new.slow,
         \A j \in PwmIds : j # id =>
           /\ j \in tmrReg'.enable <=> j \in tmrReg.enable
           /\ j \in tmrReg'.enable0 <=> j \in tmrReg.enable0
           /\ j \in tmrReg'.invert <=> j \in tmrReg.invert
           /\ j \in tmrReg'.n_invert <=> j \in tmrReg.n_invert
           /\ j \in tmrReg'.pol <=> j \in tmrReg.pol
           /\ j \in tmrReg'.mode32k <=> j \in tmrReg.mode32k
  PROVE  TimersIInv'
<1>1. TimersTypes /\ TimersHold /\ PwmHold /\ WatchdogHolds /\ IrqsKept
  BY DEF TimersIInv
<1> DEFINE pwm == [tmrAsked.pwm EXCEPT ![id] = new]
<1>2. tmrAsked.pwm \in [PwmIds -> PwmAsked]
  BY <1>1 DEF TimersTypes
<1>3. pwm \in [PwmIds -> PwmAsked] /\ pwm[id] = new /\ \A j \in PwmIds : j # id => pwm[j] = tmrAsked.pwm[j]
  BY <1>2
<1> HIDE DEF pwm
<1>4. /\ tmrAsked' \in [on : [TimerIds -> BOOLEAN], mode : [TimerIds -> 0 .. 3], wd : Nat \X Nat,
                        pwm : [PwmIds -> PwmAsked]]
      /\ tmrAsked'.pwm = pwm
      /\ tmrAsked'.on = tmrAsked.on /\ tmrAsked'.wd = tmrAsked.wd /\ tmrAsked'.mode = tmrAsked.mode
  BY <1>1, <1>3 DEF TimersTypes, pwm
<1>5. TimersHold' /\ WatchdogHolds'
  BY <1>1, <1>4 DEF TimersHold, WatchdogHolds
<1>6. PwmHold'
  <2> SUFFICES ASSUME NEW j \in PwmIds
               PROVE  /\ (j = 0 /\ 0 \in tmrReg'.enable0) \/ (j # 0 /\ j \in tmrReg'.enable) <=> pwm[j].on
                      /\ j \in tmrReg'.invert <=> pwm[j].invert
                      /\ j \in tmrReg'.n_invert <=> pwm[j].n_invert
                      /\ j \in tmrReg'.pol <=> pwm[j].pol
                      /\ j \in tmrReg'.mode32k <=> pwm[j].slow
    BY <1>4 DEF PwmHold
  <2>1. CASE j = id
    BY <1>3, <2>1
  <2>2. CASE j # id
    <3>1. /\ (j = 0 /\ 0 \in tmrReg.enable0) \/ (j # 0 /\ j \in tmrReg.enable) <=> tmrAsked.pwm[j].on
          /\ j \in tmrReg.invert <=> tmrAsked.pwm[j].invert
          /\ j \in tmrReg.n_invert <=> tmrAsked.pwm[j].n_invert
          /\ j \in tmrReg.pol <=> tmrAsked.pwm[j].pol
          /\ j \in tmrReg.mode32k <=> tmrAsked.pwm[j].slow
      BY <1>1 DEF PwmHold
    <3>2. pwm[j] = tmrAsked.pwm[j]
      BY <1>3, <2>2
    <3>3. /\ j \in tmrReg'.enable <=> j \in tmrReg.enable
          /\ j \in tmrReg'.enable0 <=> j \in tmrReg.enable0
          /\ j \in tmrReg'.invert <=> j \in tmrReg.invert
          /\ j \in tmrReg'.n_invert <=> j \in tmrReg.n_invert
          /\ j \in tmrReg'.pol <=> j \in tmrReg.pol
          /\ j \in tmrReg'.mode32k <=> j \in tmrReg.mode32k
      BY <2>2
    <3>4. QED
      BY <3>1, <3>2, <3>3
  <2>3. QED
    BY <2>1, <2>2
<1>7. QED
  BY <1>1, <1>4, <1>5, <1>6 DEF TimersIInv, TimersTypes, IrqsKept

LEMMA PwmParts ==
  ASSUME TimersIInv, NEW id \in PwmIds
  PROVE  /\ id \in Int /\ tmrReg \in TimerRegs /\ tmrAsked.pwm[id] \in PwmAsked
         /\ tmrAsked \in [on : [TimerIds -> BOOLEAN], mode : [TimerIds -> 0 .. 3], wd : Nat \X Nat,
                          pwm : [PwmIds -> PwmAsked]]
         /\ 0 \notin tmrReg.enable /\ tmrReg.enable0 \subseteq {0}
         /\ (id = 0 /\ 0 \in tmrReg.enable0) \/ (id # 0 /\ id \in tmrReg.enable) <=> tmrAsked.pwm[id].on
         /\ id \in tmrReg.invert <=> tmrAsked.pwm[id].invert
         /\ id \in tmrReg.n_invert <=> tmrAsked.pwm[id].n_invert
         /\ id \in tmrReg.pol <=> tmrAsked.pwm[id].pol
         /\ id \in tmrReg.mode32k <=> tmrAsked.pwm[id].slow
<1>1. TimersTypes /\ PwmHold /\ id \in Int
  BY TimersAssumption DEF TimersIInv
<1>2. tmrAsked.pwm[id] \in PwmAsked /\ tmrReg \in TimerRegs
  BY <1>1 DEF TimersTypes
<1>3. QED
  BY <1>1, <1>2 DEF TimersTypes, PwmHold

LEMMA StartStep ==
  ASSUME TimersIInv, NEW id \in PwmIds, NEW on \in BOOLEAN, pwm_start(id, on)
  PROVE  TimersIInv'
<1> DEFINE new == [tmrAsked.pwm[id] EXCEPT !.on = on]
<1>1. /\ id \in Int /\ tmrReg \in TimerRegs /\ tmrAsked.pwm[id] \in PwmAsked
      /\ tmrAsked \in [on : [TimerIds -> BOOLEAN], mode : [TimerIds -> 0 .. 3], wd : Nat \X Nat,
                       pwm : [PwmIds -> PwmAsked]]
      /\ 0 \notin tmrReg.enable /\ tmrReg.enable0 \subseteq {0}
      /\ id \in tmrReg.invert <=> tmrAsked.pwm[id].invert
      /\ id \in tmrReg.n_invert <=> tmrAsked.pwm[id].n_invert
      /\ id \in tmrReg.pol <=> tmrAsked.pwm[id].pol
      /\ id \in tmrReg.mode32k <=> tmrAsked.pwm[id].slow
  BY PwmParts
<1>2. tmrAsked' = [tmrAsked EXCEPT !.pwm = [tmrAsked.pwm EXCEPT ![id] = new]]
  BY <1>1 DEF pwm_start
<1>3. /\ new \in PwmAsked /\ (new.on <=> on) /\ (new.invert <=> tmrAsked.pwm[id].invert)
      /\ (new.n_invert <=> tmrAsked.pwm[id].n_invert) /\ (new.pol <=> tmrAsked.pwm[id].pol)
      /\ (new.slow <=> tmrAsked.pwm[id].slow)
  BY <1>1 DEF PwmAsked
<1> HIDE DEF new
<1>4. CASE id = 0
  <2>1. tmrReg' = [tmrReg EXCEPT !["enable0"] = IF on THEN @ \cup {0} ELSE @ \ {0}]
    BY <1>4 DEF pwm_start, EnableRegister, Clears, BitSet, BitClear
  <2>2. tmrReg' \in TimerRegs /\ tmrReg'.enable0 = IF on THEN tmrReg.enable0 \cup {0} ELSE tmrReg.enable0 \ {0}
    BY <1>1, <2>1 DEF TimerRegs
  <2>3. /\ tmrReg'.ctrl0 = tmrReg.ctrl0 /\ tmrReg'.sta = tmrReg.sta /\ tmrReg'.target = tmrReg.target
        /\ tmrReg'.enable = tmrReg.enable
        /\ tmrReg'.invert = tmrReg.invert /\ tmrReg'.n_invert = tmrReg.n_invert
        /\ tmrReg'.pol = tmrReg.pol /\ tmrReg'.mode32k = tmrReg.mode32k
    BY <1>1, <2>1 DEF TimerRegs
  <2>4. tmrReg'.enable0 \subseteq {0} /\ (0 \in tmrReg'.enable0 <=> on)
          /\ \A j \in PwmIds : j # id => (j \in tmrReg'.enable0 <=> j \in tmrReg.enable0)
    BY <1>1, <1>4, <2>2
  <2>5. tmrDue' = tmrDue
    BY DEF pwm_start
  <2>6. QED
    BY <1>1, <1>2, <1>3, <1>4, <2>2, <2>3, <2>4, <2>5, ChannelTold
<1>5. CASE id # 0
  <2>1. tmrReg' = [tmrReg EXCEPT !["enable"] = IF on THEN @ \cup {id} ELSE @ \ {id}]
    BY <1>5 DEF pwm_start, EnableRegister, Clears, BitSet, BitClear
  <2>2. tmrReg' \in TimerRegs /\ tmrReg'.enable = IF on THEN tmrReg.enable \cup {id} ELSE tmrReg.enable \ {id}
    BY <1>1, <2>1 DEF TimerRegs
  <2>3. /\ tmrReg'.ctrl0 = tmrReg.ctrl0 /\ tmrReg'.sta = tmrReg.sta /\ tmrReg'.target = tmrReg.target
        /\ tmrReg'.enable0 = tmrReg.enable0
        /\ tmrReg'.invert = tmrReg.invert /\ tmrReg'.n_invert = tmrReg.n_invert
        /\ tmrReg'.pol = tmrReg.pol /\ tmrReg'.mode32k = tmrReg.mode32k
    BY <1>1, <2>1 DEF TimerRegs
  <2>4. 0 \notin tmrReg'.enable /\ (id \in tmrReg'.enable <=> on)
          /\ \A j \in PwmIds : j # id => (j \in tmrReg'.enable <=> j \in tmrReg.enable)
    BY <1>1, <1>5, <2>2
  <2>5. tmrDue' = tmrDue
    BY DEF pwm_start
  <2>6. QED
    BY <1>1, <1>2, <1>3, <1>5, <2>2, <2>3, <2>4, <2>5, ChannelTold
<1>6. QED
  BY <1>4, <1>5

LEMMA InvertStep ==
  ASSUME TimersIInv, NEW id \in PwmIds, NEW on \in BOOLEAN,
         NEW which \in {"invert", "n_invert", "pol"}, pwm_invert(id, which, on)
  PROVE  TimersIInv'
<1> DEFINE new == [tmrAsked.pwm[id] EXCEPT ![which] = on]
<1>1. /\ id \in Int /\ tmrReg \in TimerRegs /\ tmrAsked.pwm[id] \in PwmAsked
      /\ tmrAsked \in [on : [TimerIds -> BOOLEAN], mode : [TimerIds -> 0 .. 3], wd : Nat \X Nat,
                       pwm : [PwmIds -> PwmAsked]]
      /\ 0 \notin tmrReg.enable /\ tmrReg.enable0 \subseteq {0}
      /\ (id = 0 /\ 0 \in tmrReg.enable0) \/ (id # 0 /\ id \in tmrReg.enable) <=> tmrAsked.pwm[id].on
      /\ id \in tmrReg.invert <=> tmrAsked.pwm[id].invert
      /\ id \in tmrReg.n_invert <=> tmrAsked.pwm[id].n_invert
      /\ id \in tmrReg.pol <=> tmrAsked.pwm[id].pol
      /\ id \in tmrReg.mode32k <=> tmrAsked.pwm[id].slow
  BY PwmParts
<1>2. /\ tmrAsked' = [tmrAsked EXCEPT !.pwm = [tmrAsked.pwm EXCEPT ![id] = new]]
      /\ tmrReg' = [tmrReg EXCEPT ![which] = IF on THEN @ \cup {id} ELSE @ \ {id}]
      /\ tmrDue' = tmrDue
  BY <1>1 DEF pwm_invert, Clears, BitSet, BitClear
<1>3. CASE which = "invert"
  <2>1. /\ new \in PwmAsked /\ (new.invert <=> on) /\ (new.on <=> tmrAsked.pwm[id].on)
        /\ (new.n_invert <=> tmrAsked.pwm[id].n_invert) /\ (new.pol <=> tmrAsked.pwm[id].pol)
        /\ (new.slow <=> tmrAsked.pwm[id].slow)
    BY <1>1, <1>3 DEF PwmAsked
  <2>2. tmrReg' \in TimerRegs /\ tmrReg'.invert = IF on THEN tmrReg.invert \cup {id} ELSE tmrReg.invert \ {id}
    BY <1>1, <1>2, <1>3 DEF TimerRegs
  <2>3. /\ tmrReg'.ctrl0 = tmrReg.ctrl0 /\ tmrReg'.sta = tmrReg.sta /\ tmrReg'.target = tmrReg.target
        /\ tmrReg'.enable0 = tmrReg.enable0 /\ tmrReg'.enable = tmrReg.enable
        /\ tmrReg'.n_invert = tmrReg.n_invert
        /\ tmrReg'.pol = tmrReg.pol /\ tmrReg'.mode32k = tmrReg.mode32k
    BY <1>1, <1>2, <1>3 DEF TimerRegs
  <2>4. id \in tmrReg'.invert <=> on
    BY <2>2
  <2>5. \A j \in PwmIds : j # id =>
           /\ j \in tmrReg'.enable <=> j \in tmrReg.enable
           /\ j \in tmrReg'.enable0 <=> j \in tmrReg.enable0
           /\ j \in tmrReg'.invert <=> j \in tmrReg.invert
           /\ j \in tmrReg'.n_invert <=> j \in tmrReg.n_invert
           /\ j \in tmrReg'.pol <=> j \in tmrReg.pol
           /\ j \in tmrReg'.mode32k <=> j \in tmrReg.mode32k
    BY <2>2, <2>3
  <2> HIDE DEF new
  <2>6. /\ 0 \notin tmrReg'.enable /\ tmrReg'.enable0 \subseteq {0}
        /\ (id = 0 /\ 0 \in tmrReg'.enable0) \/ (id # 0 /\ id \in tmrReg'.enable) <=> new.on
        /\ id \in tmrReg'.invert <=> new.invert
        /\ id \in tmrReg'.n_invert <=> new.n_invert
        /\ id \in tmrReg'.pol <=> new.pol
        /\ id \in tmrReg'.mode32k <=> new.slow
    BY <1>1, <2>1, <2>3, <2>4
  <2>7. QED
    BY <1>2, <2>1, <2>2, <2>3, <2>5, <2>6, ChannelTold
<1>4. CASE which = "n_invert"
  <2>1. /\ new \in PwmAsked /\ (new.n_invert <=> on) /\ (new.on <=> tmrAsked.pwm[id].on)
        /\ (new.invert <=> tmrAsked.pwm[id].invert) /\ (new.pol <=> tmrAsked.pwm[id].pol)
        /\ (new.slow <=> tmrAsked.pwm[id].slow)
    BY <1>1, <1>4 DEF PwmAsked
  <2>2. tmrReg' \in TimerRegs
          /\ tmrReg'.n_invert = IF on THEN tmrReg.n_invert \cup {id} ELSE tmrReg.n_invert \ {id}
    BY <1>1, <1>2, <1>4 DEF TimerRegs
  <2>3. /\ tmrReg'.ctrl0 = tmrReg.ctrl0 /\ tmrReg'.sta = tmrReg.sta /\ tmrReg'.target = tmrReg.target
        /\ tmrReg'.enable0 = tmrReg.enable0 /\ tmrReg'.enable = tmrReg.enable
        /\ tmrReg'.invert = tmrReg.invert
        /\ tmrReg'.pol = tmrReg.pol /\ tmrReg'.mode32k = tmrReg.mode32k
    BY <1>1, <1>2, <1>4 DEF TimerRegs
  <2>4. id \in tmrReg'.n_invert <=> on
    BY <2>2
  <2>5. \A j \in PwmIds : j # id =>
           /\ j \in tmrReg'.enable <=> j \in tmrReg.enable
           /\ j \in tmrReg'.enable0 <=> j \in tmrReg.enable0
           /\ j \in tmrReg'.invert <=> j \in tmrReg.invert
           /\ j \in tmrReg'.n_invert <=> j \in tmrReg.n_invert
           /\ j \in tmrReg'.pol <=> j \in tmrReg.pol
           /\ j \in tmrReg'.mode32k <=> j \in tmrReg.mode32k
    BY <2>2, <2>3
  <2> HIDE DEF new
  <2>6. /\ 0 \notin tmrReg'.enable /\ tmrReg'.enable0 \subseteq {0}
        /\ (id = 0 /\ 0 \in tmrReg'.enable0) \/ (id # 0 /\ id \in tmrReg'.enable) <=> new.on
        /\ id \in tmrReg'.invert <=> new.invert
        /\ id \in tmrReg'.n_invert <=> new.n_invert
        /\ id \in tmrReg'.pol <=> new.pol
        /\ id \in tmrReg'.mode32k <=> new.slow
    BY <1>1, <2>1, <2>3, <2>4
  <2>7. QED
    BY <1>2, <2>1, <2>2, <2>3, <2>5, <2>6, ChannelTold
<1>5. CASE which = "pol"
  <2>1. /\ new \in PwmAsked /\ (new.pol <=> on) /\ (new.on <=> tmrAsked.pwm[id].on)
        /\ (new.invert <=> tmrAsked.pwm[id].invert) /\ (new.n_invert <=> tmrAsked.pwm[id].n_invert)
        /\ (new.slow <=> tmrAsked.pwm[id].slow)
    BY <1>1, <1>5 DEF PwmAsked
  <2>2. tmrReg' \in TimerRegs /\ tmrReg'.pol = IF on THEN tmrReg.pol \cup {id} ELSE tmrReg.pol \ {id}
    BY <1>1, <1>2, <1>5 DEF TimerRegs
  <2>3. /\ tmrReg'.ctrl0 = tmrReg.ctrl0 /\ tmrReg'.sta = tmrReg.sta /\ tmrReg'.target = tmrReg.target
        /\ tmrReg'.enable0 = tmrReg.enable0 /\ tmrReg'.enable = tmrReg.enable
        /\ tmrReg'.invert = tmrReg.invert
        /\ tmrReg'.n_invert = tmrReg.n_invert /\ tmrReg'.mode32k = tmrReg.mode32k
    BY <1>1, <1>2, <1>5 DEF TimerRegs
  <2>4. id \in tmrReg'.pol <=> on
    BY <2>2
  <2>5. \A j \in PwmIds : j # id =>
           /\ j \in tmrReg'.enable <=> j \in tmrReg.enable
           /\ j \in tmrReg'.enable0 <=> j \in tmrReg.enable0
           /\ j \in tmrReg'.invert <=> j \in tmrReg.invert
           /\ j \in tmrReg'.n_invert <=> j \in tmrReg.n_invert
           /\ j \in tmrReg'.pol <=> j \in tmrReg.pol
           /\ j \in tmrReg'.mode32k <=> j \in tmrReg.mode32k
    BY <2>2, <2>3
  <2> HIDE DEF new
  <2>6. /\ 0 \notin tmrReg'.enable /\ tmrReg'.enable0 \subseteq {0}
        /\ (id = 0 /\ 0 \in tmrReg'.enable0) \/ (id # 0 /\ id \in tmrReg'.enable) <=> new.on
        /\ id \in tmrReg'.invert <=> new.invert
        /\ id \in tmrReg'.n_invert <=> new.n_invert
        /\ id \in tmrReg'.pol <=> new.pol
        /\ id \in tmrReg'.mode32k <=> new.slow
    BY <1>1, <2>1, <2>3, <2>4
  <2>7. QED
    BY <1>2, <2>1, <2>2, <2>3, <2>5, <2>6, ChannelTold
<1>6. QED
  BY <1>3, <1>4, <1>5

LEMMA SlowStep ==
  ASSUME TimersIInv, NEW id \in PwmIds, pwm_32k_chn_en(id)
  PROVE  TimersIInv'
<1> DEFINE new == [tmrAsked.pwm[id] EXCEPT !.slow = TRUE]
<1>1. /\ id \in Int /\ tmrReg \in TimerRegs /\ tmrAsked.pwm[id] \in PwmAsked
      /\ tmrAsked \in [on : [TimerIds -> BOOLEAN], mode : [TimerIds -> 0 .. 3], wd : Nat \X Nat,
                       pwm : [PwmIds -> PwmAsked]]
      /\ 0 \notin tmrReg.enable /\ tmrReg.enable0 \subseteq {0}
      /\ (id = 0 /\ 0 \in tmrReg.enable0) \/ (id # 0 /\ id \in tmrReg.enable) <=> tmrAsked.pwm[id].on
      /\ id \in tmrReg.invert <=> tmrAsked.pwm[id].invert
      /\ id \in tmrReg.n_invert <=> tmrAsked.pwm[id].n_invert
      /\ id \in tmrReg.pol <=> tmrAsked.pwm[id].pol
  BY PwmParts
<1>2. /\ tmrAsked' = [tmrAsked EXCEPT !.pwm = [tmrAsked.pwm EXCEPT ![id] = new]]
      /\ tmrReg' = [tmrReg EXCEPT !["mode32k"] = @ \cup {id}]
      /\ tmrDue' = tmrDue
  BY <1>1 DEF pwm_32k_chn_en, BitSet
<1>3. /\ new \in PwmAsked /\ (new.on <=> tmrAsked.pwm[id].on)
      /\ (new.invert <=> tmrAsked.pwm[id].invert)
      /\ (new.n_invert <=> tmrAsked.pwm[id].n_invert) /\ (new.pol <=> tmrAsked.pwm[id].pol)
      /\ new.slow
  BY <1>1 DEF PwmAsked
<1> HIDE DEF new
<1>4. tmrReg' \in TimerRegs /\ tmrReg'.mode32k = tmrReg.mode32k \cup {id}
  BY <1>1, <1>2 DEF TimerRegs
<1>5. /\ tmrReg'.ctrl0 = tmrReg.ctrl0 /\ tmrReg'.sta = tmrReg.sta /\ tmrReg'.target = tmrReg.target
      /\ tmrReg'.enable0 = tmrReg.enable0 /\ tmrReg'.enable = tmrReg.enable
      /\ tmrReg'.invert = tmrReg.invert
      /\ tmrReg'.n_invert = tmrReg.n_invert /\ tmrReg'.pol = tmrReg.pol
  BY <1>1, <1>2 DEF TimerRegs
<1>6. QED
  BY <1>1, <1>2, <1>3, <1>4, <1>5, ChannelTold

(* Steps of the flags, each as one of the kind of FlagsStep.               *)
LEMMA OtherTimerSteps ==
  ASSUME TimersIInv,
         \/ \E flag \in 0 .. 2 : timer_clr_irq_status(flag) \/ TimerExpires(flag)
         \/ wd_start \/ wd_stop
         \/ \E id \in PwmIds : \/ pwm_set_irq_mask(id) \/ pwm_clr_irq_mask(id)
                               \/ pwm_clr_irq_status(id) \/ PwmFrameDone(id)
  PROVE  TimersIInv'
<1>1. /\ tmrReg \in TimerRegs /\ tmrReg.sta \in SUBSET Int /\ tmrReg.ctrl2 \in SUBSET Int
      /\ tmrReg.mask \in SUBSET Int /\ tmrReg.pwmSta \in SUBSET Int /\ tmrDue = tmrReg.sta
  BY DEF TimersIInv, TimersTypes, TimerRegs, IrqsKept
<1>2. ASSUME NEW flag \in 0 .. 2, timer_clr_irq_status(flag) PROVE TimersIInv'
  <2> DEFINE v == tmrReg.sta \ {flag}
  <2>1. tmrReg' = [tmrReg EXCEPT !["sta"] = v] /\ tmrDue' = v /\ UNCHANGED tmrAsked /\ v \in SUBSET Int
    BY <1>1, <1>2 DEF timer_clr_irq_status, Acknowledged, StaWritten, TimerRegs
  <2> HIDE DEF v
  <2>2. QED
    BY <2>1, FlagsStep
<1>3. ASSUME NEW flag \in 0 .. 2, TimerExpires(flag) PROVE TimersIInv'
  <2> DEFINE v == tmrReg.sta \cup {flag}
  <2>1. tmrReg' = [tmrReg EXCEPT !["sta"] = v] /\ tmrDue' = v /\ UNCHANGED tmrAsked /\ v \in SUBSET Int
    BY <1>1, <1>3 DEF TimerExpires, BitSet, TimerRegs
  <2> HIDE DEF v
  <2>2. QED
    BY <2>1, FlagsStep
<1>4. ASSUME wd_start \/ wd_stop PROVE TimersIInv'
  <2>1. /\ tmrReg' = [tmrReg EXCEPT !["ctrl2"] = tmrReg.ctrl2 \cup {7}]
             \/ tmrReg' = [tmrReg EXCEPT !["ctrl2"] = tmrReg.ctrl2 \ {7}]
        /\ UNCHANGED <<tmrAsked, tmrDue>>
    BY <1>1, <1>4 DEF wd_start, wd_stop, BitSet, BitClear, TimerRegs
  <2>2. PICK w \in SUBSET Int : tmrReg' = [tmrReg EXCEPT !["ctrl2"] = w]
    <3>1. tmrReg.ctrl2 \cup {7} \in SUBSET Int /\ tmrReg.ctrl2 \ {7} \in SUBSET Int
      BY <1>1
    <3>2. QED
      BY <2>1, <3>1
  <2>3. QED
    BY <2>1, <2>2, FlagsStep
<1>5. ASSUME NEW id \in PwmIds, pwm_set_irq_mask(id) \/ pwm_clr_irq_mask(id) PROVE TimersIInv'
  <2> DEFINE v == tmrReg.mask \cup {id}
  <2>1. tmrReg' = [tmrReg EXCEPT !["mask"] = v] /\ UNCHANGED <<tmrAsked, tmrDue>> /\ v \in SUBSET Int
    BY <1>1, <1>5, TimersAssumption DEF pwm_set_irq_mask, pwm_clr_irq_mask, BitSet, TimerRegs
  <2> HIDE DEF v
  <2>2. QED
    BY <2>1, FlagsStep
<1>6. ASSUME NEW id \in PwmIds, pwm_clr_irq_status(id) \/ PwmFrameDone(id) PROVE TimersIInv'
  <2>1. UNCHANGED <<tmrAsked, tmrDue>>
    BY <1>6 DEF pwm_clr_irq_status, PwmFrameDone
  <2>2. PICK w \in SUBSET Int : tmrReg' = [tmrReg EXCEPT !["pwmSta"] = w]
    <3>1. tmrReg.pwmSta \cup {id} \in SUBSET Int /\ tmrReg.pwmSta \ (tmrReg.pwmSta \cup {id}) \in SUBSET Int
      BY <1>1, TimersAssumption
    <3>2. \/ tmrReg' = [tmrReg EXCEPT !["pwmSta"] = tmrReg.pwmSta \cup {id}]
          \/ tmrReg' = [tmrReg EXCEPT !["pwmSta"] = tmrReg.pwmSta \ (tmrReg.pwmSta \cup {id})]
      BY <1>1, <1>6 DEF pwm_clr_irq_status, PwmFrameDone, Acknowledged, BitSet, TimerRegs
    <3>3. QED
      BY <3>1, <3>2
  <2>3. QED
    BY <2>1, <2>2, FlagsStep
<1>7. QED
  BY <1>2, <1>3, <1>4, <1>5, <1>6

LEMMA TimersStepKept == TimersIInv /\ [TimersNext]_tmrVars => TimersIInv'
<1> SUFFICES ASSUME TimersIInv, [TimersNext]_tmrVars PROVE TimersIInv'
  OBVIOUS
<1>1. CASE TimersStep
  BY <1>1, TimerSetStep, ModeStep, IntervalStep, OtherTimerSteps DEF TimersStep
<1>2. CASE PwmStep
  BY <1>2, StartStep, InvertStep, SlowStep, OtherTimerSteps DEF PwmStep
<1>3. CASE UNCHANGED tmrVars
  <2>1. UNCHANGED <<tmrReg, tmrAsked, tmrDue>>
    BY <1>3 DEF tmrVars
  <2>2. TimersTypes' /\ IrqsKept'
    BY <2>1 DEF TimersIInv, TimersTypes, IrqsKept
  <2>3. TimersHold'
    BY <2>1 DEF TimersIInv, TimersHold
  <2>4. PwmHold'
    BY <2>1 DEF TimersIInv, PwmHold
  <2>5. WatchdogHolds'
    BY <2>1 DEF TimersIInv, WatchdogHolds
  <2>6. QED
    BY <2>2, <2>3, <2>4, <2>5 DEF TimersIInv
<1>4. QED
  BY <1>1, <1>2, <1>3 DEF TimersNext

-----------------------------------------------------------------------------
(* The public key engine.  No call loads an operand or leaves a result in  *)
(* the modulus' slot or in those of the two numbers for Montgomery form,   *)
(* and the two of these are always for the same modulus.                   *)
FreeSlots == Slots \ {"A3", "B3", "B4"}

PkeIInv ==
  /\ DOMAIN pkeRam = Slots
  /\ \A m \in PkeModuli : pkeRam["A3"] = <<"h", m>> => pkeRam["B4"] = <<"n1", m>>
  /\ PkeResultsOwn

LEMMA CallsFree ==
  ASSUME NEW call \in EngineCalls
  PROVE  /\ DOMAIN call.args \subseteq FreeSlots /\ call.out \subseteq FreeSlots
         /\ call.curve \in BOOLEAN /\ call.multiplies \in BOOLEAN /\ call.mayFail \in BOOLEAN
         /\ call.multiplies /\ ~call.curve => call = pke_mod_mul
<1> USE DEF FreeSlots, Slots
<1>1. CASE call = pke_eccp_point_del
  BY <1>1 DEF pke_eccp_point_del, CurveCall
<1>2. CASE call = pke_eccp_point_add
  BY <1>2 DEF pke_eccp_point_add, CurveCall
<1>3. CASE call = pke_eccp_point_verify
  BY <1>3 DEF pke_eccp_point_verify, CurveCall
<1>4. CASE call = pke_eccp_point_mul
  BY <1>4 DEF pke_eccp_point_mul, CurveCall
<1>5. CASE call = pke_x25519_point_mul
  BY <1>5 DEF pke_x25519_point_mul, CurveCall
<1>6. CASE call = pke_ed25519_point_mul
  BY <1>6 DEF pke_ed25519_point_mul, CurveCall
<1>7. CASE call = pke_ed25519_point_add
  BY <1>7 DEF pke_ed25519_point_add, CurveCall
<1>8. CASE call = pke_mod_mul
  BY <1>8 DEF pke_mod_mul, ModCall, CurveCall
<1>9. CASE call = pke_mod_inv
  BY <1>9 DEF pke_mod_inv, ModCall, CurveCall
<1>10. CASE call = pke_mod_add
  BY <1>10 DEF pke_mod_add, ModCall, CurveCall
<1>11. CASE call = pke_mod_sub
  BY <1>11 DEF pke_mod_sub, ModCall, CurveCall
<1>12. QED
  BY <1>1, <1>2, <1>3, <1>4, <1>5, <1>6, <1>7, <1>8, <1>9, <1>10, <1>11 DEF EngineCalls

(* Two slots of the engine's RAM written one after the other.              *)
LEMMA RamPair ==
  ASSUME NEW R, NEW w, NEW c, NEW a, NEW b
  PROVE [[ram |-> R, words |-> w, cfg |-> c] EXCEPT !.ram["A3"] = a, !.ram["B4"] = b] =
          [ram |-> [[R EXCEPT !["A3"] = a] EXCEPT !["B4"] = b], words |-> w, cfg |-> c]
<1> DEFINE E == [ram |-> R, words |-> w, cfg |-> c]
           RA == [R EXCEPT !["A3"] = a]
           F == [ram |-> RA, words |-> w, cfg |-> c]
           RB == [RA EXCEPT !["B4"] = b]
<1>1. [E EXCEPT !.ram["A3"] = a] = F
  <2>1. [E EXCEPT !.ram["A3"] = a] = [E EXCEPT !.ram = RA]
    OBVIOUS
  <2> HIDE DEF RA
  <2>2. QED
    BY <2>1
<1>2. [F EXCEPT !.ram["B4"] = b] = [ram |-> RB, words |-> w, cfg |-> c]
  <2> HIDE DEF RA
  <2>1. [F EXCEPT !.ram["B4"] = b] = [F EXCEPT !.ram = RB]
    OBVIOUS
  <2> HIDE DEF RB
  <2>2. QED
    BY <2>1
<1>3. [E EXCEPT !.ram["A3"] = a, !.ram["B4"] = b] = [[E EXCEPT !.ram["A3"] = a] EXCEPT !.ram["B4"] = b]
  <2> HIDE DEF E
  <2>1. QED
    OBVIOUS
<1>4. QED
  BY <1>1, <1>2, <1>3

(* What a call has loaded when it starts the engine.                       *)
LEMMA LoadedRight ==
  ASSUME NEW call \in EngineCalls, NEW m \in PkeModuli, NEW stored \in BOOLEAN,
         PkeIInv, call = pke_mod_mul => Prepared(m)
  PROVE  LET e == Configured(Loaded(Engine, call, m, stored), call)
         IN  /\ DOMAIN e.ram = Slots /\ Computes(e, call, m)
             /\ \A n \in PkeModuli : e.ram["A3"] = <<"h", n>> => e.ram["B4"] = <<"n1", n>>
<1> DEFINE args == call.args
           w == GET_WORD_LEN(PkeWidth[m])
           R1 == [s \in Slots |-> IF s \in DOMAIN args THEN <<args[s], m>> ELSE pkeRam[s]]
           R2 == [R1 EXCEPT !["B3"] = <<"modulus", m>>]
           R3 == IF call.curve THEN [[R2 EXCEPT !["A3"] = <<"h", m>>] EXCEPT !["B4"] = <<"n1", m>>] ELSE R2
           loaded == Loaded(Engine, call, m, stored)
           e == Configured(loaded, call)
<1>1. /\ DOMAIN args \subseteq FreeSlots /\ call.curve \in BOOLEAN /\ call.multiplies \in BOOLEAN
      /\ call.multiplies /\ ~call.curve => call = pke_mod_mul
      /\ DOMAIN pkeRam = Slots
      /\ \A n \in PkeModuli : pkeRam["A3"] = <<"h", n>> => pkeRam["B4"] = <<"n1", n>>
  BY CallsFree DEF PkeIInv
<1>2. /\ DOMAIN R1 = Slots /\ \A s \in DOMAIN args : R1[s] = <<args[s], m>>
      /\ R1["A3"] = pkeRam["A3"] /\ R1["B4"] = pkeRam["B4"]
  BY <1>1 DEF FreeSlots, Slots
<1> DEFINE E2 == [ram |-> R2, words |-> w, cfg |-> pkeExeCfg]
<1>3. loaded = [ram |-> R3, words |-> w, cfg |-> pkeExeCfg]
  <2> HIDE DEF w
  <2> DEFINE sized == [ram |-> pkeRam, words |-> w, cfg |-> pkeExeCfg]
             operands == [ram |-> R1, words |-> w, cfg |-> pkeExeCfg]
  <2>1. pke_set_operand_width(Engine, PkeWidth[m]) = sized
    BY DEF pke_set_operand_width, Engine, w
  <2>2. [sized EXCEPT !.ram = [s \in Slots |-> IF s \in DOMAIN args THEN <<args[s], m>> ELSE @[s]]] = operands
    OBVIOUS
  <2>3. pke_load_operand(operands, "B3", "modulus", m) = E2
    <3> HIDE DEF R1
    <3>1. QED
      BY DEF pke_load_operand
  <2>4. loaded = IF ~call.curve THEN E2
                 ELSE IF stored THEN [E2 EXCEPT !.ram["A3"] = <<"h", m>>, !.ram["B4"] = <<"n1", m>>]
                 ELSE CalPreMon(E2)
    <3> HIDE DEF sized, operands, E2
    <3>1. QED
      BY <2>1, <2>2, <2>3 DEF Loaded
  <2>5. R2["B3"] = <<"modulus", m>>
    <3> HIDE DEF R1
    <3>1. QED
      BY <1>2 DEF Slots
  <2>6. CalPreMon(E2) = [E2 EXCEPT !.ram["A3"] = <<"h", m>>, !.ram["B4"] = <<"n1", m>>]
    <3> HIDE DEF R2
    <3>1. E2.ram["B3"][2] = m
      BY <2>5
    <3>2. QED
      BY <3>1 DEF CalPreMon
  <2>7. [E2 EXCEPT !.ram["A3"] = <<"h", m>>, !.ram["B4"] = <<"n1", m>>] =
          [ram |-> [[R2 EXCEPT !["A3"] = <<"h", m>>] EXCEPT !["B4"] = <<"n1", m>>], words |-> w, cfg |-> pkeExeCfg]
    <3> HIDE DEF R2
    <3> DEFINE RA == [R2 EXCEPT !["A3"] = <<"h", m>>]
               F == [ram |-> RA, words |-> w, cfg |-> pkeExeCfg]
               RB == [RA EXCEPT !["B4"] = <<"n1", m>>]
    <3>1. [E2 EXCEPT !.ram["A3"] = <<"h", m>>] = F
      <4>1. [E2 EXCEPT !.ram["A3"] = <<"h", m>>] = [E2 EXCEPT !.ram = RA]
        OBVIOUS
      <4> HIDE DEF RA
      <4>2. QED
        BY <4>1
    <3>2. [F EXCEPT !.ram["B4"] = <<"n1", m>>] = [ram |-> RB, words |-> w, cfg |-> pkeExeCfg]
      <4> HIDE DEF RA
      <4>1. [F EXCEPT !.ram["B4"] = <<"n1", m>>] = [F EXCEPT !.ram = RB]
        OBVIOUS
      <4> HIDE DEF RB
      <4>2. QED
        BY <4>1
    <3>3. [E2 EXCEPT !.ram["A3"] = <<"h", m>>, !.ram["B4"] = <<"n1", m>>] =
            [[E2 EXCEPT !.ram["A3"] = <<"h", m>>] EXCEPT !.ram["B4"] = <<"n1", m>>]
      <4> HIDE DEF E2
      <4>1. QED
        OBVIOUS
    <3>4. QED
      BY <3>1, <3>2, <3>3
  <2> HIDE DEF E2
  <2>8. QED
    BY <1>1, <2>4, <2>6, <2>7 DEF E2
<1>4. /\ DOMAIN R3 = Slots /\ R3["B3"] = <<"modulus", m>>
      /\ \A s \in DOMAIN args : R3[s] = <<args[s], m>>
      /\ call.curve => R3["A3"] = <<"h", m>> /\ R3["B4"] = <<"n1", m>>
      /\ ~call.curve => R3["A3"] = pkeRam["A3"] /\ R3["B4"] = pkeRam["B4"]
  <2> HIDE DEF R1
  <2>1. QED
    BY <1>1, <1>2 DEF FreeSlots, Slots
<1> HIDE DEF R1, R2, R3, w, E2
<1>5. e.ram = R3 /\ e.words = w /\ (call.multiplies => e.cfg = "non_mont")
  <2> HIDE DEF loaded
  <2>1. e = IF call.multiplies THEN [loaded EXCEPT !.cfg = "non_mont"] ELSE loaded
    BY DEF Configured
  <2>2. QED
    BY <1>3, <2>1
<1> HIDE DEF loaded, e
<1>6. \A n \in PkeModuli : R3["A3"] = <<"h", n>> => R3["B4"] = <<"n1", n>>
  BY <1>1, <1>4
<1>7. call.multiplies => R3["A3"] = <<"h", m>> /\ R3["B4"] = <<"n1", m>>
  BY <1>1, <1>4 DEF Prepared
<1>8. Computes(e, call, m)
  BY <1>4, <1>5, <1>7 DEF Computes, w
<1>9. QED
  BY <1>4, <1>5, <1>6, <1>8 DEF e, loaded

LEMMA UseStep ==
  ASSUME PkeIInv, NEW call \in EngineCalls, NEW m \in PkeModuli,
         call = pke_mod_mul => Prepared(m), PkeUse(call, m)
  PROVE  PkeIInv'
<1>1. PICK stored \in BOOLEAN, ok \in BOOLEAN :
        LET loaded == Configured(Loaded(Engine, call, m, stored), call)
            e == Started(loaded, call, m)
        IN IF ok THEN PkeDone(e, {e.ram[s] : s \in call.out}) ELSE PkeDone(loaded, {})
  BY DEF PkeUse
<1> DEFINE loaded == Configured(Loaded(Engine, call, m, stored), call)
           e == Started(loaded, call, m)
<1>2. /\ DOMAIN loaded.ram = Slots /\ Computes(loaded, call, m)
      /\ \A n \in PkeModuli : loaded.ram["A3"] = <<"h", n>> => loaded.ram["B4"] = <<"n1", n>>
  BY LoadedRight
<1>3. call.out \subseteq FreeSlots
  BY CallsFree
<1>4. IF ok THEN PkeDone(e, {e.ram[s] : s \in call.out}) ELSE PkeDone(loaded, {})
  BY <1>1
<1>5. "ram" \in DOMAIN loaded
  BY DEF Configured, Loaded, CalPreMon, pke_load_operand, pke_set_operand_width, Engine
<1>6. /\ DOMAIN e.ram = Slots /\ e.ram["A3"] = loaded.ram["A3"] /\ e.ram["B4"] = loaded.ram["B4"]
      /\ \A s \in call.out : e.ram[s] = <<"right", m>>
  <2> HIDE DEF loaded
  <2>1. e = [loaded EXCEPT !.ram = [s \in Slots |-> IF s \in call.out THEN <<"right", m>> ELSE loaded.ram[s]]]
    BY <1>2 DEF Started
  <2>2. e.ram = [s \in Slots |-> IF s \in call.out THEN <<"right", m>> ELSE loaded.ram[s]]
    <3> HIDE DEF e
    <3>1. QED
      BY <1>5, <2>1
  <2> HIDE DEF e
  <2>3. QED
    BY <1>3, <2>2 DEF FreeSlots, Slots
<1> HIDE DEF loaded, e
<1>7. CASE ok
  <2>1. pkeRam' = e.ram /\ pkeReturned' = {e.ram[s] : s \in call.out}
    BY <1>4, <1>7 DEF PkeDone, EngineIs
  <2>2. \A r \in pkeReturned' : r[1] = "right"
    BY <1>6, <2>1
  <2>3. QED
    BY <1>2, <1>6, <2>1, <2>2 DEF PkeIInv, PkeResultsOwn
<1>8. CASE ~ok
  <2>1. pkeRam' = loaded.ram /\ pkeReturned' = {}
    BY <1>4, <1>8 DEF PkeDone, EngineIs
  <2>2. QED
    BY <1>2, <2>1 DEF PkeIInv, PkeResultsOwn
<1>9. QED
  BY <1>7, <1>8

LEMMA PrepareStep ==
  ASSUME PkeIInv, NEW m \in PkeModuli, PkePrepare(m)
  PROVE  PkeIInv'
<1>1. DOMAIN pkeRam = Slots
  BY DEF PkeIInv
<1> DEFINE w == GET_WORD_LEN(PkeWidth[m])
           sized == [ram |-> pkeRam, words |-> w, cfg |-> pkeExeCfg]
<1>2. pke_set_operand_width(Engine, PkeWidth[m]) = sized
  BY DEF pke_set_operand_width, Engine
<1>3. CASE PkeDone(pke_load_pre_calc_mont(Engine, m), {})
  <2> DEFINE R == [[pkeRam EXCEPT !["A3"] = <<"h", m>>] EXCEPT !["B4"] = <<"n1", m>>]
  <2>1. pke_load_pre_calc_mont(Engine, m) = [ram |-> R, words |-> w, cfg |-> pkeExeCfg]
    <3> DEFINE R1 == [pkeRam EXCEPT !["A3"] = <<"h", m>>]
    <3> HIDE DEF w
    <3>1. pke_load_operand(sized, "A3", "h", m) = [ram |-> R1, words |-> w, cfg |-> pkeExeCfg]
      BY DEF pke_load_operand
    <3> HIDE DEF R1
    <3>2. pke_load_operand([ram |-> R1, words |-> w, cfg |-> pkeExeCfg], "B4", "n1", m) =
            [ram |-> [R1 EXCEPT !["B4"] = <<"n1", m>>], words |-> w, cfg |-> pkeExeCfg]
      BY DEF pke_load_operand
    <3>3. QED
      BY <1>2, <3>1, <3>2 DEF pke_load_pre_calc_mont, R1
  <2>2. DOMAIN R = Slots /\ R["A3"] = <<"h", m>> /\ R["B4"] = <<"n1", m>>
    BY <1>1 DEF Slots
  <2> HIDE DEF R
  <2>3. pkeRam' = R /\ pkeReturned' = {}
    BY <1>3, <2>1 DEF PkeDone, EngineIs
  <2>4. QED
    BY <2>2, <2>3 DEF PkeIInv, PkeResultsOwn
<1>4. CASE PkeDone(pke_calc_pre_mont(Engine, m), {})
  <2> DEFINE R1 == [pkeRam EXCEPT !["B3"] = <<"modulus", m>>]
             R == [[R1 EXCEPT !["A3"] = <<"h", m>>] EXCEPT !["B4"] = <<"n1", m>>]
  <2>1. DOMAIN R1 = Slots /\ R1["B3"] = <<"modulus", m>>
    BY <1>1 DEF Slots
  <2>2. pke_load_operand(sized, "B3", "modulus", m) = [ram |-> R1, words |-> w, cfg |-> pkeExeCfg]
    <3> HIDE DEF w
    <3>1. QED
      BY DEF pke_load_operand
  <2> HIDE DEF R1
  <2>3. CalPreMon([ram |-> R1, words |-> w, cfg |-> pkeExeCfg]) = [ram |-> R, words |-> w, cfg |-> pkeExeCfg]
    <3> HIDE DEF w
    <3> DEFINE E == [ram |-> R1, words |-> w, cfg |-> pkeExeCfg]
    <3>1. E.ram["B3"][2] = m
      BY <2>1
    <3>2. CalPreMon(E) = [E EXCEPT !.ram["A3"] = <<"h", m>>, !.ram["B4"] = <<"n1", m>>]
      <4> HIDE DEF E
      <4>1. QED
        BY <3>1 DEF CalPreMon
    <3>3. QED
      BY <3>2, RamPair
  <2>4. DOMAIN R = Slots /\ R["A3"] = <<"h", m>> /\ R["B4"] = <<"n1", m>>
    BY <2>1 DEF Slots
  <2> HIDE DEF R
  <2>5. pke_calc_pre_mont(Engine, m) = [ram |-> R, words |-> w, cfg |-> pkeExeCfg]
    BY <1>2, <2>2, <2>3 DEF pke_calc_pre_mont
  <2>6. pkeRam' = R /\ pkeReturned' = {}
    BY <1>4, <2>5 DEF PkeDone, EngineIs
  <2>7. QED
    BY <2>4, <2>6 DEF PkeIInv, PkeResultsOwn
<1>5. QED
  BY <1>3, <1>4 DEF PkePrepare

LEMMA PkeInitial == PkeEngineInit => PkeIInv
BY DEF PkeEngineInit, PkeIInv, PkeResultsOwn, NoNumber, Slots

LEMMA PkeStep == PkeIInv /\ [PkeEngineNext]_pkeVars => PkeIInv'
<1> SUFFICES ASSUME PkeIInv, [PkeEngineNext]_pkeVars PROVE PkeIInv'
  OBVIOUS
<1>1. ASSUME NEW m \in PkeModuli, PkePrepare(m) PROVE PkeIInv'
  BY <1>1, PrepareStep
<1>2. ASSUME NEW m \in PkeModuli, NEW call \in EngineCalls, call = pke_mod_mul => Prepared(m),
             PkeUse(call, m)
      PROVE PkeIInv'
  BY <1>2, UseStep
<1>3. CASE PkeReset
  BY <1>3 DEF PkeReset, PkeIInv, PkeResultsOwn, NoNumber, Slots
<1>4. CASE UNCHANGED pkeVars
  BY <1>4 DEF pkeVars, PkeIInv, PkeResultsOwn
<1>5. QED
  BY <1>1, <1>2, <1>3, <1>4 DEF PkeEngineNext

LEMMA PkeImplied == PkeIInv => PkeResultsOwn
BY DEF PkeIInv

-----------------------------------------------------------------------------
(* Interrupt masks and flags.  The strengthening: a call that does not     *)
(* read the status register has nothing in its copy, and the mask is as    *)
(* asked also while a call has only loaded it.                             *)
KeepsOthers == {"uart", "pwm", "usb", "mdec"}

CopiesEmpty ==
  irqPort \notin KeepsOthers =>
    irqThread.copy = {} /\ irqHandler.copy = {} /\ irqLost = {}

MaskKept == irqAsked \subseteq irqMask /\ (irqPort # "pwm" => irqMask = irqAsked)

IrqIInv ==
  /\ irqPort \in DOMAIN Peripheral
  /\ DOMAIN irqHandler = {"at", "left", "event", "copy"}
  /\ CopiesEmpty /\ MaskKept

LEMMA QuirksOf ==
  ASSUME NEW p \in DOMAIN Peripheral
  PROVE  /\ p \notin KeepsOthers => ~Quirk(p, "reads first") /\ ~Quirk(p, "one register")
         /\ p # "pwm" => ~Quirk(p, "never off")
<1>1. /\ DOMAIN Peripheral = {"uart", "spi", "i2c", "rf", "pwm", "stimer", "dma", "usb_ep",
                              "usb", "mdec", "aes", "pke"}
      /\ Peripheral["uart"] = UartFlags /\ Peripheral["spi"] = SpiFlags
      /\ Peripheral["i2c"] = I2cFlags /\ Peripheral["rf"] = RfFlags
      /\ Peripheral["pwm"] = PwmFlags /\ Peripheral["stimer"] = StimerFlags
      /\ Peripheral["dma"] = DmaFlags /\ Peripheral["usb_ep"] = UsbEpFlags
      /\ Peripheral["usb"] = UsbFlags /\ Peripheral["mdec"] = MdecFlags
      /\ Peripheral["aes"] = AesFlags /\ Peripheral["pke"] = PkeFlags
  BY DEF Peripheral
<1>2. /\ SpiFlags.quirks = {} /\ I2cFlags.quirks = {} /\ RfFlags.quirks = {}
      /\ StimerFlags.quirks = {} /\ DmaFlags.quirks = {} /\ UsbEpFlags.quirks = {}
      /\ AesFlags.quirks = {} /\ PkeFlags.quirks = {}
      /\ UartFlags.quirks = {"reads first"} /\ MdecFlags.quirks = {"reads first"}
      /\ UsbFlags.quirks = {"reads first", "one register"}
  BY DEF Flags, UartFlags, SpiFlags, I2cFlags, RfFlags, StimerFlags, DmaFlags, UsbEpFlags,
         UsbFlags, MdecFlags, AesFlags, PkeFlags
<1>3. p \notin KeepsOthers => Peripheral[p].quirks = {}
  BY <1>1, <1>2 DEF KeepsOthers
<1>4. p \in {"uart", "mdec", "usb"} => "never off" \notin Peripheral[p].quirks
  <2>1. /\ "never off" \notin UartFlags.quirks /\ "never off" \notin MdecFlags.quirks
        /\ "never off" \notin UsbFlags.quirks
    BY <1>2
  <2>2. QED
    BY <1>1, <2>1, Zenon
<1>5. QED
  BY <1>3, <1>4 DEF Quirk, KeepsOthers

LEMMA IrqInitial == IrqInit => IrqIInv
BY IrqAssumption DEF IrqInit, IrqIInv, CopiesEmpty, MaskKept, NoCall

LEMMA IrqStep == IrqIInv /\ [IrqNext]_irqVars => IrqIInv'
<1> SUFFICES ASSUME IrqIInv, [IrqNext]_irqVars PROVE IrqIInv'
  OBVIOUS
<1>q. /\ irqPort \notin KeepsOthers =>
           ~Quirk(irqPort, "reads first") /\ ~Quirk(irqPort, "one register")
      /\ irqPort # "pwm" => ~Quirk(irqPort, "never off")
  BY QuirksOf DEF IrqIInv
<1>1. ASSUME NEW e \in irqUsed, RaiseEvent(e) PROVE IrqIInv'
  BY <1>1 DEF RaiseEvent, IrqIInv, CopiesEmpty, MaskKept
<1>2. ASSUME NEW e \in irqUsed, GetStatus(e) PROVE IrqIInv'
  <2>1. UNCHANGED <<irqPort, irqMask, irqAsked, irqLost, irqThread>>
    BY <1>2 DEF GetStatus
  <2>2. irqPort \notin KeepsOthers /\ irqHandler.copy = {} => irqHandler'.copy = {}
    BY <1>2, <1>q DEF GetStatus, IrqIInv
  <2>3. DOMAIN irqHandler' = DOMAIN irqHandler
    BY <1>2 DEF GetStatus
  <2>4. QED
    BY <2>1, <2>2, <2>3 DEF IrqIInv, CopiesEmpty, MaskKept
<1>3. ASSUME NEW e \in irqUsed, NEW on \in BOOLEAN, MaskBegin(on, e) PROVE IrqIInv'
  BY <1>3, <1>q DEF MaskBegin, IrqIInv, CopiesEmpty, MaskKept
<1>4. CASE MaskEnd
  <2>1. MaskKept'
    BY <1>4, <1>q DEF MaskEnd, MaskAfter, IrqIInv, MaskKept
  <2>2. QED
    BY <1>4, <2>1 DEF MaskEnd, StoreStatus, NoCall, IrqIInv, CopiesEmpty
<1>5. CASE ClrStatus
  <2>1. UNCHANGED <<irqPort, irqMask, irqAsked, irqThread>>
    BY <1>5 DEF ClrStatus
  <2>2. irqPort \notin KeepsOthers => irqHandler'.copy = {} /\ irqLost' = {}
    BY <1>5 DEF ClrStatus, StoreStatus, IrqIInv, CopiesEmpty
  <2>3. DOMAIN irqHandler' = DOMAIN irqHandler
    BY <1>5 DEF ClrStatus
  <2>4. QED
    BY <2>1, <2>2, <2>3 DEF IrqIInv, CopiesEmpty, MaskKept
<1>6. ASSUME UNCHANGED <<irqPort, irqMask, irqAsked, irqLost, irqThread>>,
             irqPort \notin KeepsOthers => irqHandler'.copy = {},
             DOMAIN irqHandler' = {"at", "left", "event", "copy"}
      PROVE  IrqIInv'
  BY <1>6 DEF IrqIInv, CopiesEmpty, MaskKept
<1>7. CASE plic_interrupt_claim
  BY <1>7, <1>6 DEF plic_interrupt_claim
<1>8. CASE plic_interrupt_complete
  BY <1>8, <1>6 DEF plic_interrupt_complete, IrqIInv, CopiesEmpty
<1>9. ASSUME NEW new, PlicChange(new) PROVE IrqIInv'
  BY <1>9, <1>6 DEF PlicChange, IrqIInv, CopiesEmpty
<1>10. CASE UNCHANGED irqVars
  BY <1>10, <1>6 DEF irqVars, IrqIInv, CopiesEmpty
<1>11. QED
  BY <1>1, <1>2, <1>3, <1>4, <1>5, <1>7, <1>8, <1>9, <1>10
     DEF IrqNext, plic_interrupt_enable, plic_interrupt_disable, plic_set_pending,
         plic_set_threshold, plic_set_priority

LEMMA IrqImplied == IrqIInv => InterruptsKept
BY DEF IrqIInv, CopiesEmpty, MaskKept, InterruptsKept, EventsKept, MasksAsAsked, KeepsOthers

-----------------------------------------------------------------------------
(* The converter.  What adc_calculate_voltage undoes is what the registers *)
(* do: the strengthening is that each global tells of its registers from   *)
(* every *_sample_init on, and that the FIFO has no sample but those of    *)
(* the call that waits for it.                                             *)
AdcFields ==
  {"vref", "bias", "scale", "vbat", "p", "n", "diff", "mcLow", "mcHigh", "s", "tsample", "clk",
   "div", "down", "sensorDown", "g_adc_vref", "g_adc_pre_scale", "g_adc_vbat_divider"}

AdcRegs(c) ==
  /\ c = [f \in AdcFields |-> c[f]]
  /\ c["vref"] \in {"1P2V", "0P9V"} /\ c["scale"] \in {0, 2} /\ c["vbat"] \in {0, 2}

RefTold(c) == c.g_adc_vref = IF c.vref = "1P2V" THEN 1175 ELSE 900
ScaleTold(c) == c.g_adc_pre_scale = IF c.scale = 0 THEN 1 ELSE 4
RateTold(c, freq) ==
  \/ freq = 23 /\ c.mcLow = 255 /\ c.mcHigh = 3 /\ c.s = 15
  \/ freq = 48 /\ c.mcLow = 234 /\ c.mcHigh = 1 /\ c.s = 10
  \/ freq = 96 /\ c.mcLow = 240 /\ c.mcHigh = 0 /\ c.s = 10
InputTold(c, use) ==
  /\ use = "pin" => c.p = "pin" /\ c.g_adc_vbat_divider = 1
  /\ use = "vbat" => c.p = "vbat" /\ c.g_adc_vbat_divider = IF c.vbat = 2 THEN 3 ELSE 1

GlobalsTell ==
  /\ AdcRegs(adc) /\ adcFor \in {"none", "pin", "temp", "vbat"} /\ RefTold(adc)
  /\ adcFor # "none" => ScaleTold(adc) /\ RateTold(adc, adcRate) /\ InputTold(adc, adcFor)

WordHeld ==
  /\ adcWord \in [low : {0, 1}, high : {0, 1}, locked : BOOLEAN]
  /\ adcReader \in [pc : {"idle", "lock", "low", "high", "unlock"}, low : {0, 1}, high : {0, 1}]
  /\ adcWord.low = adcWord.high
  /\ adcReader.pc \in {"low", "high", "unlock"} => adcWord.locked
  /\ adcReader.pc \in {"high", "unlock"} => adcReader.low = adcWord.low
  /\ adcReader.pc = "unlock" => adcReader.high = adcWord.high
  /\ adcReader.pc = "idle" => adcReader.low = adcReader.high

DmaStates ==
  [pc : {"idle", "wait", "stop", "clear"}, asked : Nat, reset : BOOLEAN,
   fifo : Seq({"old", "new"}), on : BOOLEAN, left : Nat, tc : BOOLEAN, buf : Seq({"old", "new"})]

SamplesFresh ==
  /\ adcDma \in DmaStates
  /\ Len(adcDma.buf) + adcDma.left = adcDma.asked
  /\ \A i \in 1 .. Len(adcDma.buf) : adcDma.buf[i] = "new"
  /\ \A i \in 1 .. Len(adcDma.fifo) : adcDma.fifo[i] = "new"
  /\ adcDma.pc = "wait" => (adcDma.tc <=> adcDma.left = 0)
  /\ adcDma.pc # "wait" => adcDma.left = 0
  /\ adcDma.pc \in {"idle", "clear"} => adcDma.reset /\ adcDma.fifo = <<>>
  /\ adcDma.pc = "idle" => ~adcDma.tc

AdcIInv == GlobalsTell /\ WordHeld /\ SamplesFresh

LEMMA FieldPut ==
  ASSUME NEW c, AdcRegs(c), NEW f \in AdcFields, NEW v,
         f = "vref" => v \in {"1P2V", "0P9V"}, f \in {"scale", "vbat"} => v \in {0, 2}
  PROVE  LET d == [c EXCEPT ![f] = v]
         IN  AdcRegs(d) /\ d[f] = v /\ \A g \in AdcFields \ {f} : d[g] = c[g]
BY DEF AdcRegs

LEMMA TwoPut ==
  ASSUME NEW c, NEW f, NEW v, NEW g, NEW w
  PROVE  [c EXCEPT ![f] = v, ![g] = w] = [[c EXCEPT ![f] = v] EXCEPT ![g] = w]
OBVIOUS

LEMMA ThreePut ==
  ASSUME NEW c, NEW f, NEW v, NEW g, NEW w, NEW h, NEW x
  PROVE  [c EXCEPT ![f] = v, ![g] = w, ![h] = x]
           = [[[c EXCEPT ![f] = v] EXCEPT ![g] = w] EXCEPT ![h] = x]
OBVIOUS

LEMMA FourPut ==
  ASSUME NEW c, NEW f, NEW v, NEW g, NEW w, NEW h, NEW x, NEW k, NEW y
  PROVE  [c EXCEPT ![f] = v, ![g] = w, ![h] = x, ![k] = y]
           = [[[[c EXCEPT ![f] = v] EXCEPT ![g] = w] EXCEPT ![h] = x] EXCEPT ![k] = y]
OBVIOUS

(* What a function that changes only some fields leaves as it was.         *)
Changes(c, d, fields) == AdcRegs(d) /\ \A g \in AdcFields \ fields : d[g] = c[g]

LEMMA RefStays ==
  ASSUME NEW c, NEW d, NEW fields, Changes(c, d, fields),
         "vref" \notin fields, "g_adc_vref" \notin fields, RefTold(c)
  PROVE  RefTold(d)
BY DEF Changes, AdcFields, RefTold

LEMMA ScaleStays ==
  ASSUME NEW c, NEW d, NEW fields, Changes(c, d, fields),
         "scale" \notin fields, "g_adc_pre_scale" \notin fields, ScaleTold(c)
  PROVE  ScaleTold(d)
BY DEF Changes, AdcFields, ScaleTold

LEMMA RateStays ==
  ASSUME NEW c, NEW d, NEW fields, Changes(c, d, fields), NEW freq,
         "mcLow" \notin fields, "mcHigh" \notin fields, "s" \notin fields, RateTold(c, freq)
  PROVE  RateTold(d, freq)
BY DEF Changes, AdcFields, RateTold

LEMMA InputStays ==
  ASSUME NEW c, NEW d, NEW fields, Changes(c, d, fields), NEW use, "p" \notin fields,
         "vbat" \notin fields, "g_adc_vbat_divider" \notin fields, InputTold(c, use)
  PROVE  InputTold(d, use)
BY DEF Changes, AdcFields, InputTold

(* The functions that set the registers, one by one.                       *)
LEMMA RefSet ==
  ASSUME NEW c, AdcRegs(c), NEW v_ref \in {"1P2V", "0P9V"}
  PROVE  LET d == adc_set_ref_voltage(c, v_ref)
         IN  Changes(c, d, {"vref", "bias", "g_adc_vref"}) /\ RefTold(d)
<1> DEFINE b == IF v_ref = "1P2V" THEN \h3d ELSE \h15
           r == IF v_ref = "1P2V" THEN 1175 ELSE 900
           d1 == [c EXCEPT !["vref"] = v_ref]
           d2 == [d1 EXCEPT !["bias"] = b]
           d3 == [d2 EXCEPT !["g_adc_vref"] = r]
<1>1. AdcRegs(d1) /\ d1["vref"] = v_ref /\ \A g \in AdcFields \ {"vref"} : d1[g] = c[g]
  BY FieldPut DEF AdcFields
<1>2. AdcRegs(d2) /\ \A g \in AdcFields \ {"bias"} : d2[g] = d1[g]
  <2> HIDE DEF d1, b
  <2>1. QED
    BY <1>1, FieldPut DEF AdcFields
<1>3. AdcRegs(d3) /\ d3["g_adc_vref"] = r /\ \A g \in AdcFields \ {"g_adc_vref"} : d3[g] = d2[g]
  <2> HIDE DEF d2, r
  <2>1. QED
    BY <1>2, FieldPut DEF AdcFields
<1>4. adc_set_ref_voltage(c, v_ref) = d3
  BY ThreePut DEF adc_set_ref_voltage
<1> HIDE DEF d1, d2, d3
<1>5. Changes(c, d3, {"vref", "bias", "g_adc_vref"})
  BY <1>1, <1>2, <1>3 DEF Changes
<1>6. d3["vref"] = v_ref /\ d3["g_adc_vref"] = r
  BY <1>1, <1>2, <1>3 DEF AdcFields
<1>7. QED
  BY <1>4, <1>5, <1>6 DEF RefTold

LEMMA ScaleSet ==
  ASSUME NEW c, AdcRegs(c), NEW pre_scale \in {0, 2}
  PROVE  LET d == adc_set_scale_factor(c, pre_scale)
         IN  Changes(c, d, {"scale", "g_adc_pre_scale"}) /\ ScaleTold(d)
<1> DEFINE d1 == [c EXCEPT !["scale"] = pre_scale]
           d2 == [d1 EXCEPT !["g_adc_pre_scale"] = Shift1(pre_scale)]
<1>1. AdcRegs(d1) /\ d1["scale"] = pre_scale /\ \A g \in AdcFields \ {"scale"} : d1[g] = c[g]
  BY FieldPut DEF AdcFields
<1>2. /\ AdcRegs(d2) /\ d2["g_adc_pre_scale"] = Shift1(pre_scale)
      /\ \A g \in AdcFields \ {"g_adc_pre_scale"} : d2[g] = d1[g]
  <2> HIDE DEF d1
  <2>1. QED
    BY <1>1, FieldPut DEF AdcFields
<1>3. adc_set_scale_factor(c, pre_scale) = d2
  BY TwoPut DEF adc_set_scale_factor
<1> HIDE DEF d1, d2
<1>4. Changes(c, d2, {"scale", "g_adc_pre_scale"})
  BY <1>1, <1>2, Zenon DEF Changes
<1>5. Shift1(0) = 1 /\ Shift1(2) = 4
  BY DEF Shift1
<1>6. ScaleTold(d2)
  BY <1>1, <1>2, <1>5 DEF AdcFields, ScaleTold
<1>7. QED
  BY <1>3, <1>4, <1>6

Lengths(c, mc, s, t) == [adc_set_state_length(c, mc, s) EXCEPT !.tsample = t]

LEMMA LengthSet ==
  ASSUME NEW c, AdcRegs(c), NEW mc, NEW s, NEW t
  PROVE  LET d == Lengths(c, mc, s, t)
         IN  /\ Changes(c, d, {"mcLow", "mcHigh", "s", "tsample"})
             /\ d.mcLow = mc % 256 /\ d.mcHigh = (mc \div 256) % 4 /\ d.s = s % 16
<1> DEFINE l == mc % 256  h == (mc \div 256) % 4  r == s % 16
           d1 == [c EXCEPT !["mcLow"] = l]
           d2 == [d1 EXCEPT !["mcHigh"] = h]
           d3 == [d2 EXCEPT !["s"] = r]
           d4 == [d3 EXCEPT !["tsample"] = t]
<1>1. adc_set_state_length(c, mc, s) = d3
  BY ThreePut DEF adc_set_state_length
<1> HIDE DEF l, h, r
<1>2. AdcRegs(d1) /\ d1["mcLow"] = l /\ \A g \in AdcFields \ {"mcLow"} : d1[g] = c[g]
  BY FieldPut DEF AdcFields
<1> HIDE DEF d1
<1>3. AdcRegs(d2) /\ d2["mcHigh"] = h /\ \A g \in AdcFields \ {"mcHigh"} : d2[g] = d1[g]
  BY <1>2, FieldPut DEF AdcFields
<1> HIDE DEF d2
<1>4. AdcRegs(d3) /\ d3["s"] = r /\ \A g \in AdcFields \ {"s"} : d3[g] = d2[g]
  BY <1>3, FieldPut DEF AdcFields
<1> HIDE DEF d3
<1>5. AdcRegs(d4) /\ \A g \in AdcFields \ {"tsample"} : d4[g] = d3[g]
  BY <1>4, FieldPut DEF AdcFields
<1> HIDE DEF d4
<1>6. Changes(c, d4, {"mcLow", "mcHigh", "s", "tsample"})
  BY <1>2, <1>3, <1>4, <1>5 DEF Changes
<1>7. d4["mcLow"] = l /\ d4["mcHigh"] = h /\ d4["s"] = r
  BY <1>2, <1>3, <1>4, <1>5 DEF AdcFields
<1>8. QED
  BY <1>1, <1>6, <1>7 DEF Lengths, l, h, r, d4

LEMMA RateSet ==
  ASSUME NEW c, AdcRegs(c), NEW freq \in {23, 48, 96}
  PROVE  LET d == adc_set_sample_rate(c, freq)
         IN  Changes(c, d, {"mcLow", "mcHigh", "s", "tsample"}) /\ RateTold(d, freq)
<1>1. /\ 1023 % 256 = 255 /\ (1023 \div 256) % 4 = 3 /\ 15 % 16 = 15
      /\ 490 % 256 = 234 /\ (490 \div 256) % 4 = 1 /\ 10 % 16 = 10
      /\ 240 % 256 = 240 /\ (240 \div 256) % 4 = 0
  OBVIOUS
<1>2. /\ freq = 23 => adc_set_sample_rate(c, freq) = Lengths(c, 1023, 15, 24)
      /\ freq = 48 => adc_set_sample_rate(c, freq) = Lengths(c, 490, 10, 12)
      /\ freq = 96 => adc_set_sample_rate(c, freq) = Lengths(c, 240, 10, 6)
  BY DEF adc_set_sample_rate, Lengths
<1>3. CASE freq = 23
  BY <1>1, <1>2, <1>3, LengthSet DEF RateTold
<1>4. CASE freq = 48
  BY <1>1, <1>2, <1>4, LengthSet DEF RateTold
<1>5. CASE freq = 96
  BY <1>1, <1>2, <1>5, LengthSet DEF RateTold
<1>6. QED
  BY <1>3, <1>4, <1>5

LEMMA DividerSet ==
  ASSUME NEW c, AdcRegs(c), NEW vbat_div \in {0, 2}
  PROVE  LET d == adc_set_vbat_divider(c, vbat_div)
         IN  /\ Changes(c, d, {"vbat", "g_adc_vbat_divider"}) /\ d.vbat = vbat_div
             /\ d.g_adc_vbat_divider = IF vbat_div = 2 THEN 3 ELSE 1
<1> DEFINE v == IF vbat_div # 0 THEN 5 - vbat_div ELSE 1
           d1 == [c EXCEPT !["vbat"] = vbat_div]
           d2 == [d1 EXCEPT !["g_adc_vbat_divider"] = v]
<1>1. adc_set_vbat_divider(c, vbat_div) = d2
  BY TwoPut DEF adc_set_vbat_divider
<1>2. v = IF vbat_div = 2 THEN 3 ELSE 1
  OBVIOUS
<1> HIDE DEF v
<1>3. AdcRegs(d1) /\ d1["vbat"] = vbat_div /\ \A g \in AdcFields \ {"vbat"} : d1[g] = c[g]
  BY FieldPut DEF AdcFields
<1> HIDE DEF d1
<1>4. /\ AdcRegs(d2) /\ d2["g_adc_vbat_divider"] = v
      /\ \A g \in AdcFields \ {"g_adc_vbat_divider"} : d2[g] = d1[g]
  BY <1>3, FieldPut DEF AdcFields
<1> HIDE DEF d2
<1>5. Changes(c, d2, {"vbat", "g_adc_vbat_divider"})
  BY <1>3, <1>4, Zenon DEF Changes
<1>6. d2["vbat"] = vbat_div
  BY <1>3, <1>4 DEF AdcFields
<1>7. QED
  BY <1>1, <1>2, <1>4, <1>5, <1>6

LEMMA InputSet ==
  ASSUME NEW c, AdcRegs(c), NEW p, NEW n
  PROVE  LET d == adc_set_diff_input(c, p, n)
         IN  Changes(c, d, {"diff", "p", "n"}) /\ d.p = p
<1> DEFINE d1 == [c EXCEPT !["diff"] = TRUE]
           d2 == [d1 EXCEPT !["p"] = p]
           d3 == [d2 EXCEPT !["n"] = n]
<1>1. adc_set_diff_input(c, p, n) = d3
  BY ThreePut DEF adc_set_diff_input
<1>2. AdcRegs(d1) /\ \A g \in AdcFields \ {"diff"} : d1[g] = c[g]
  BY FieldPut DEF AdcFields
<1> HIDE DEF d1
<1>3. AdcRegs(d2) /\ d2["p"] = p /\ \A g \in AdcFields \ {"p"} : d2[g] = d1[g]
  BY <1>2, FieldPut DEF AdcFields
<1> HIDE DEF d2
<1>4. AdcRegs(d3) /\ \A g \in AdcFields \ {"n"} : d3[g] = d2[g]
  BY <1>3, FieldPut DEF AdcFields
<1> HIDE DEF d3
<1>5. Changes(c, d3, {"diff", "p", "n"})
  BY <1>2, <1>3, <1>4, Zenon DEF Changes
<1>6. d3["p"] = p
  BY <1>3, <1>4 DEF AdcFields
<1>7. QED
  BY <1>1, <1>5, <1>6

LEMMA InitSet ==
  ASSUME NEW c, AdcRegs(c), NEW v_ref \in {"1P2V", "0P9V"}, NEW pre_scale \in {0, 2},
         NEW freq \in {23, 48, 96}
  PROVE  LET d == adc_init(c, v_ref, pre_scale, freq)
         IN  AdcRegs(d) /\ RefTold(d) /\ ScaleTold(d) /\ RateTold(d, freq)
<1> DEFINE off == [c EXCEPT !.down = TRUE, !.clk = TRUE, !.div = 5]
           withRef == adc_set_ref_voltage(off, v_ref)
           scaled == adc_set_scale_factor(withRef, pre_scale)
           d == adc_set_sample_rate(scaled, freq)
<1>1. AdcRegs(off)
  <2> DEFINE d1 == [c EXCEPT !["down"] = TRUE]
             d2 == [d1 EXCEPT !["clk"] = TRUE]
  <2>1. off = [d2 EXCEPT !["div"] = 5]
    BY ThreePut
  <2>2. AdcRegs(d1)
    BY FieldPut DEF AdcFields
  <2> HIDE DEF d1
  <2>3. AdcRegs(d2)
    BY <2>2, FieldPut DEF AdcFields
  <2> HIDE DEF d2
  <2>4. AdcRegs([d2 EXCEPT !["div"] = 5])
    BY <2>3, FieldPut DEF AdcFields
  <2>5. QED
    BY <2>1, <2>4
<1>2. d = adc_init(c, v_ref, pre_scale, freq)
  BY DEF adc_init
<1> HIDE DEF off
<1>3. AdcRegs(withRef) /\ RefTold(withRef)
  BY <1>1, RefSet DEF Changes
<1> HIDE DEF withRef
<1>4. Changes(withRef, scaled, {"scale", "g_adc_pre_scale"}) /\ ScaleTold(scaled)
  BY <1>3, ScaleSet
<1>5. AdcRegs(scaled) /\ RefTold(scaled) /\ ScaleTold(scaled)
  <2>1. "vref" \notin {"scale", "g_adc_pre_scale"} /\ "g_adc_vref" \notin {"scale", "g_adc_pre_scale"}
    OBVIOUS
  <2>2. RefTold(scaled)
    BY <1>3, <1>4, <2>1, RefStays
  <2>3. QED
    BY <1>3, <1>4, <2>2 DEF Changes
<1> HIDE DEF scaled
<1>6. Changes(scaled, d, {"mcLow", "mcHigh", "s", "tsample"}) /\ RateTold(d, freq)
  BY <1>5, RateSet
<1> HIDE DEF d
<1>7. AdcRegs(d) /\ RefTold(d) /\ ScaleTold(d) /\ RateTold(d, freq)
  <2>1. /\ "vref" \notin {"mcLow", "mcHigh", "s", "tsample"}
        /\ "g_adc_vref" \notin {"mcLow", "mcHigh", "s", "tsample"}
        /\ "scale" \notin {"mcLow", "mcHigh", "s", "tsample"}
        /\ "g_adc_pre_scale" \notin {"mcLow", "mcHigh", "s", "tsample"}
    OBVIOUS
  <2>2. RefTold(d)
    BY <1>5, <1>6, <2>1, RefStays
  <2>3. ScaleTold(d)
    BY <1>5, <1>6, <2>1, ScaleStays
  <2>4. QED
    BY <1>5, <1>6, <2>2, <2>3 DEF Changes
<1>8. QED
  BY <1>2, <1>7

LEMMA RefKeeps ==
  ASSUME NEW c, AdcRegs(c), NEW v_ref \in {"1P2V", "0P9V"}
  PROVE  LET d == adc_set_ref_voltage(c, v_ref)
         IN  /\ AdcRegs(d) /\ RefTold(d)
             /\ ScaleTold(c) => ScaleTold(d)
             /\ \A freq : RateTold(c, freq) => RateTold(d, freq)
             /\ \A use : InputTold(c, use) => InputTold(d, use)
BY RefSet DEF Changes, AdcFields, ScaleTold, RateTold, InputTold

LEMMA ScaleKeeps ==
  ASSUME NEW c, AdcRegs(c), NEW pre_scale \in {0, 2}
  PROVE  LET d == adc_set_scale_factor(c, pre_scale)
         IN  /\ AdcRegs(d) /\ ScaleTold(d)
             /\ RefTold(c) => RefTold(d)
             /\ \A freq : RateTold(c, freq) => RateTold(d, freq)
             /\ \A use : InputTold(c, use) => InputTold(d, use)
BY ScaleSet DEF Changes, AdcFields, RefTold, RateTold, InputTold

LEMMA RateKeeps ==
  ASSUME NEW c, AdcRegs(c), NEW freq \in {23, 48, 96}
  PROVE  LET d == adc_set_sample_rate(c, freq)
         IN  /\ AdcRegs(d) /\ RateTold(d, freq)
             /\ RefTold(c) => RefTold(d)
             /\ ScaleTold(c) => ScaleTold(d)
             /\ \A use : InputTold(c, use) => InputTold(d, use)
BY RateSet DEF Changes, AdcFields, RefTold, ScaleTold, InputTold

LEMMA DividerKeeps ==
  ASSUME NEW c, AdcRegs(c), NEW vbat_div \in {0, 2}
  PROVE  LET d == adc_set_vbat_divider(c, vbat_div)
         IN  /\ AdcRegs(d) /\ d.p = c.p /\ d.vbat = vbat_div
             /\ d.g_adc_vbat_divider = IF vbat_div = 2 THEN 3 ELSE 1
             /\ RefTold(c) => RefTold(d)
             /\ ScaleTold(c) => ScaleTold(d)
             /\ \A freq : RateTold(c, freq) => RateTold(d, freq)
BY DividerSet DEF Changes, AdcFields, RefTold, ScaleTold, RateTold

LEMMA InputKeeps ==
  ASSUME NEW c, AdcRegs(c), NEW p, NEW n
  PROVE  LET d == adc_set_diff_input(c, p, n)
         IN  /\ AdcRegs(d) /\ d.p = p /\ d.vbat = c.vbat
             /\ d.g_adc_vbat_divider = c.g_adc_vbat_divider
             /\ RefTold(c) => RefTold(d)
             /\ ScaleTold(c) => ScaleTold(d)
             /\ \A freq : RateTold(c, freq) => RateTold(d, freq)
BY InputSet DEF Changes, AdcFields, RefTold, ScaleTold, RateTold

(* An output of the converter that is no reference, scale, rate or input.  *)
LEMMA PowerKeeps ==
  ASSUME NEW c, AdcRegs(c), NEW f \in {"down", "sensorDown"}, NEW v
  PROVE  LET d == [c EXCEPT ![f] = v]
         IN  /\ AdcRegs(d)
             /\ RefTold(c) => RefTold(d)
             /\ ScaleTold(c) => ScaleTold(d)
             /\ \A freq : RateTold(c, freq) => RateTold(d, freq)
             /\ \A use : InputTold(c, use) => InputTold(d, use)
<1> DEFINE d == [c EXCEPT ![f] = v]
<1>1. AdcRegs(d) /\ \A g \in AdcFields \ {f} : d[g] = c[g]
  BY FieldPut DEF AdcFields
<1> HIDE DEF d
<1>2. AdcRegs(d) /\ \A g \in AdcFields \ {"down", "sensorDown"} : d[g] = c[g]
  BY <1>1
<1>3. QED
  BY <1>2 DEF d, AdcFields, RefTold, ScaleTold, RateTold, InputTold

LEMMA SampleInits ==
  ASSUME NEW c, AdcRegs(c)
  PROVE  /\ \A v_ref \in {"1P2V", "0P9V"}, pre_scale \in {0, 2}, freq \in {23, 48, 96} :
              LET d == adc_gpio_sample_init(c, v_ref, pre_scale, freq)
              IN  /\ AdcRegs(d) /\ RefTold(d) /\ ScaleTold(d)
                  /\ RateTold(d, freq) /\ InputTold(d, "pin")
         /\ LET d == adc_temperature_sample_init(c)
            IN  AdcRegs(d) /\ RefTold(d) /\ ScaleTold(d) /\ RateTold(d, 96)
         /\ LET d == adc_battery_voltage_sample_init(c)
            IN  /\ AdcRegs(d) /\ RefTold(d) /\ ScaleTold(d) /\ RateTold(d, 96)
                /\ InputTold(d, "vbat")
<1>1. ASSUME NEW v_ref \in {"1P2V", "0P9V"}, NEW pre_scale \in {0, 2}, NEW freq \in {23, 48, 96}
      PROVE  LET d == adc_gpio_sample_init(c, v_ref, pre_scale, freq)
             IN  /\ AdcRegs(d) /\ RefTold(d) /\ ScaleTold(d)
                 /\ RateTold(d, freq) /\ InputTold(d, "pin")
  <2> DEFINE begun == adc_init(c, v_ref, pre_scale, freq)
             divided == adc_set_vbat_divider(begun, 0)
             d == adc_set_diff_input(divided, "pin", "GND")
  <2>1. AdcRegs(begun) /\ RefTold(begun) /\ ScaleTold(begun) /\ RateTold(begun, freq)
    BY InitSet
  <2>2. /\ AdcRegs(divided) /\ RefTold(divided) /\ ScaleTold(divided) /\ RateTold(divided, freq)
        /\ divided.g_adc_vbat_divider = 1
    BY <2>1, DividerKeeps
  <2>3. /\ AdcRegs(d) /\ RefTold(d) /\ ScaleTold(d) /\ RateTold(d, freq)
        /\ d.p = "pin" /\ d.g_adc_vbat_divider = 1
    BY <2>2, InputKeeps
  <2>4. QED
    BY <2>3 DEF adc_gpio_sample_init, InputTold
<1>2. LET d == adc_temperature_sample_init(c)
      IN  AdcRegs(d) /\ RefTold(d) /\ ScaleTold(d) /\ RateTold(d, 96)
  <2> DEFINE begun == adc_init(c, "1P2V", 0, 96)
             seen == adc_set_diff_input(begun, "temp", "temp")
             divided == adc_set_vbat_divider(seen, 0)
  <2>1. AdcRegs(begun) /\ RefTold(begun) /\ ScaleTold(begun) /\ RateTold(begun, 96)
    BY InitSet
  <2>2. AdcRegs(seen) /\ RefTold(seen) /\ ScaleTold(seen) /\ RateTold(seen, 96)
    BY <2>1, InputKeeps
  <2>3. /\ AdcRegs(divided) /\ RefTold(divided) /\ ScaleTold(divided) /\ RateTold(divided, 96)
    BY <2>2, DividerKeeps
  <2> HIDE DEF divided
  <2>4. LET d == [divided EXCEPT !.sensorDown = FALSE]
        IN  AdcRegs(d) /\ RefTold(d) /\ ScaleTold(d) /\ RateTold(d, 96)
    BY <2>3, PowerKeeps
  <2>5. QED
    BY <2>4 DEF adc_temperature_sample_init, divided
<1>3. LET d == adc_battery_voltage_sample_init(c)
      IN  /\ AdcRegs(d) /\ RefTold(d) /\ ScaleTold(d) /\ RateTold(d, 96)
          /\ InputTold(d, "vbat")
  <2> DEFINE begun == adc_init(c, "1P2V", 2, 96)
             divided == adc_set_vbat_divider(begun, 0)
             d == adc_set_diff_input(divided, "vbat", "GND")
  <2>1. AdcRegs(begun) /\ RefTold(begun) /\ ScaleTold(begun) /\ RateTold(begun, 96)
    BY InitSet
  <2>2. /\ AdcRegs(divided) /\ RefTold(divided) /\ ScaleTold(divided) /\ RateTold(divided, 96)
        /\ divided.g_adc_vbat_divider = 1 /\ divided.vbat = 0
    BY <2>1, DividerKeeps
  <2>3. /\ AdcRegs(d) /\ RefTold(d) /\ ScaleTold(d) /\ RateTold(d, 96)
        /\ d.p = "vbat" /\ d.g_adc_vbat_divider = 1 /\ d.vbat = 0
    BY <2>2, InputKeeps
  <2>4. QED
    BY <2>3 DEF adc_battery_voltage_sample_init, InputTold
<1>4. QED
  BY <1>1, <1>2, <1>3

LEMMA SetKept ==
  ASSUME AdcIInv, NEW c, AdcRegs(c), NEW use \in {"none", "pin", "temp", "vbat"}, NEW rate,
         RefTold(c), use # "none" => ScaleTold(c) /\ RateTold(c, rate) /\ InputTold(c, use),
         AdcSet(c, use, rate)
  PROVE  AdcIInv'
<1>1. GlobalsTell'
  BY DEF AdcSet, GlobalsTell
<1>2. WordHeld' /\ SamplesFresh'
  BY DEF AdcSet, AdcIInv, WordHeld, SamplesFresh
<1>3. QED
  BY <1>1, <1>2 DEF AdcIInv

LEMMA AdcSetUpStep == AdcIInv /\ (AdcSetUp \/ AdcTune \/ AdcSleep) => AdcIInv'
<1> SUFFICES ASSUME AdcIInv, AdcSetUp \/ AdcTune \/ AdcSleep PROVE AdcIInv'
  OBVIOUS
<1>0. /\ AdcRegs(adc) /\ adcFor \in {"none", "pin", "temp", "vbat"} /\ RefTold(adc)
      /\ adcFor # "none" => ScaleTold(adc) /\ RateTold(adc, adcRate) /\ InputTold(adc, adcFor)
  BY DEF AdcIInv, GlobalsTell
<1>1. CASE AdcSetUp
  <2>1. ASSUME NEW v_ref \in {"1P2V", "0P9V"}, NEW pre_scale \in {0, 2}, NEW freq \in {23, 48, 96},
               AdcSet(adc_gpio_sample_init(adc, v_ref, pre_scale, freq), "pin", freq)
        PROVE  AdcIInv'
    BY <1>0, <2>1, SampleInits, SetKept
  <2>2. ASSUME NEW v_ref \in {"1P2V", "0P9V"}, NEW pre_scale \in {0, 2}, NEW freq \in {23, 48, 96},
               AdcSet(adc_init(adc, v_ref, pre_scale, freq), "none", freq)
        PROVE  AdcIInv'
    BY <1>0, <2>2, InitSet, SetKept
  <2>3. ASSUME AdcSet(adc_temperature_sample_init(adc), "temp", 96) PROVE AdcIInv'
    <3>1. InputTold(adc_temperature_sample_init(adc), "temp")
      BY DEF InputTold
    <3>2. QED
      BY <1>0, <2>3, <3>1, SampleInits, SetKept
  <2>4. ASSUME AdcSet(adc_battery_voltage_sample_init(adc), "vbat", 96) PROVE AdcIInv'
    BY <1>0, <2>4, SampleInits, SetKept
  <2>5. QED
    BY <1>1, <2>1, <2>2, <2>3, <2>4 DEF AdcSetUp
<1>2. CASE AdcTune
  <2>1. adcFor # "none" /\ ScaleTold(adc) /\ RateTold(adc, adcRate) /\ InputTold(adc, adcFor)
    BY <1>0, <1>2 DEF AdcTune
  <2>2. ASSUME AdcSet([adc EXCEPT !.down = FALSE], adcFor, adcRate) PROVE AdcIInv'
    <3> DEFINE c == [adc EXCEPT !.down = FALSE]
    <3>1. /\ AdcRegs(c) /\ RefTold(c) /\ ScaleTold(c) /\ RateTold(c, adcRate)
          /\ InputTold(c, adcFor)
      BY <1>0, <2>1, PowerKeeps
    <3>2. QED
      BY <1>0, <2>2, <3>1, SetKept
  <2>3. ASSUME NEW v_ref \in {"1P2V", "0P9V"},
               AdcSet(adc_set_ref_voltage(adc, v_ref), adcFor, adcRate)
        PROVE  AdcIInv'
    BY <1>0, <2>1, <2>3, RefKeeps, SetKept
  <2>4. ASSUME NEW pre_scale \in {0, 2}, AdcSet(adc_set_scale_factor(adc, pre_scale), adcFor, adcRate)
        PROVE  AdcIInv'
    BY <1>0, <2>1, <2>4, ScaleKeeps, SetKept
  <2>5. ASSUME NEW freq \in {23, 48, 96}, AdcSet(adc_set_sample_rate(adc, freq), adcFor, freq)
        PROVE  AdcIInv'
    BY <1>0, <2>1, <2>5, RateKeeps, SetKept
  <2>6. ASSUME adcFor = "vbat", NEW vbat_div \in {0, 2},
               AdcSet(adc_set_vbat_divider(adc, vbat_div), adcFor, adcRate)
        PROVE  AdcIInv'
    <3> DEFINE c == adc_set_vbat_divider(adc, vbat_div)
    <3>1. /\ AdcRegs(c) /\ RefTold(c) /\ ScaleTold(c) /\ RateTold(c, adcRate)
          /\ c.p = adc.p /\ c.vbat = vbat_div
          /\ c.g_adc_vbat_divider = IF vbat_div = 2 THEN 3 ELSE 1
      BY <1>0, <2>1, DividerKeeps
    <3>2. InputTold(c, adcFor)
      BY <2>1, <2>6, <3>1 DEF InputTold
    <3>3. QED
      BY <1>0, <2>6, <3>1, <3>2, SetKept
  <2>7. QED
    BY <1>2, <2>2, <2>3, <2>4, <2>5, <2>6 DEF AdcTune
<1>3. CASE AdcSleep
  <2> DEFINE c == [adc EXCEPT !.g_adc_pre_scale = 0, !.g_adc_vbat_divider = 0,
                              !.down = TRUE, !.sensorDown = TRUE]
  <2> DEFINE c1 == [adc EXCEPT !["g_adc_pre_scale"] = 0]
             c2 == [c1 EXCEPT !["g_adc_vbat_divider"] = 0]
             c3 == [c2 EXCEPT !["down"] = TRUE]
             c4 == [c3 EXCEPT !["sensorDown"] = TRUE]
  <2>a. c = c4
    BY FourPut
  <2> HIDE DEF c
  <2>b. AdcRegs(c1) /\ \A g \in AdcFields \ {"g_adc_pre_scale"} : c1[g] = adc[g]
    BY <1>0, FieldPut DEF AdcFields
  <2> HIDE DEF c1
  <2>c. AdcRegs(c2) /\ \A g \in AdcFields \ {"g_adc_vbat_divider"} : c2[g] = c1[g]
    BY <2>b, FieldPut DEF AdcFields
  <2> HIDE DEF c2
  <2>d. RefTold(c2)
    BY <1>0, <2>b, <2>c DEF RefTold, AdcFields
  <2>e. AdcRegs(c3) /\ RefTold(c3)
    BY <2>c, <2>d, PowerKeeps
  <2> HIDE DEF c3
  <2>f. AdcRegs(c4) /\ RefTold(c4)
    BY <2>e, PowerKeeps
  <2>1. AdcRegs(c) /\ RefTold(c)
    BY <2>a, <2>f
  <2>2. AdcSet(c, "none", 0)
    BY <1>3 DEF AdcSleep, c
  <2>3. QED
    BY <2>1, <2>2, SetKept
<1>4. QED
  BY <1>1, <1>2, <1>3

LEMMA AdcReadStep == AdcIInv /\ adc_get_code => AdcIInv'
<1> SUFFICES ASSUME AdcIInv, adc_get_code PROVE AdcIInv'
  OBVIOUS
<1>1. GlobalsTell' /\ SamplesFresh'
  BY DEF adc_get_code, AdcIInv, GlobalsTell, SamplesFresh
<1>2. WordHeld'
  <2>1. WordHeld
    BY DEF AdcIInv
  <2>2. /\ ReadOrder["idle"] = "lock" /\ ReadOrder["lock"] = "low" /\ ReadOrder["low"] = "high"
        /\ ReadOrder["high"] = "unlock" /\ ReadOrder["unlock"] = "idle"
    BY DEF ReadOrder
  <2>3. adcReader.pc \in {"idle", "lock", "low", "high", "unlock"}
    BY <2>1 DEF WordHeld
  <2>4. /\ adcReader' = [pc |-> ReadOrder[adcReader.pc],
             low |-> IF adcReader.pc = "low" THEN adcWord.low ELSE adcReader.low,
             high |-> IF adcReader.pc = "high" THEN adcWord.high ELSE adcReader.high]
        /\ adcWord' = [adcWord EXCEPT !.locked =
             (adcWord.locked \/ adcReader.pc = "lock") /\ adcReader.pc # "unlock"]
    BY DEF adc_get_code
  <2>5. /\ adcReader'.pc = ReadOrder[adcReader.pc]
        /\ adcReader'.low = IF adcReader.pc = "low" THEN adcWord.low ELSE adcReader.low
        /\ adcReader'.high = IF adcReader.pc = "high" THEN adcWord.high ELSE adcReader.high
        /\ adcWord'.low = adcWord.low /\ adcWord'.high = adcWord.high
        /\ adcWord'.locked = ((adcWord.locked \/ adcReader.pc = "lock") /\ adcReader.pc # "unlock")
    BY <2>1, <2>4 DEF WordHeld
  <2>6. adcWord' \in [low : {0, 1}, high : {0, 1}, locked : BOOLEAN]
    BY <2>1, <2>4 DEF WordHeld
  <2>7. adcReader' \in [pc : {"idle", "lock", "low", "high", "unlock"}, low : {0, 1}, high : {0, 1}]
    BY <2>1, <2>2, <2>3, <2>4 DEF WordHeld
  <2>8. QED
    BY <2>1, <2>2, <2>3, <2>5, <2>6, <2>7 DEF WordHeld
<1>3. QED
  BY <1>1, <1>2 DEF AdcIInv

LEMMA AdcConversionStep == AdcIInv /\ AdcConversion => AdcIInv'
<1> SUFFICES ASSUME AdcIInv, AdcConversion PROVE AdcIInv'
  OBVIOUS
<1>1. GlobalsTell'
  BY DEF AdcConversion, AdcIInv, GlobalsTell
<1>2. WordHeld'
  <2>1. CASE adcWord.locked
    BY <2>1 DEF AdcConversion, AdcIInv, WordHeld
  <2>2. CASE ~adcWord.locked
    <3>1. WordHeld /\ UNCHANGED adcReader
      BY DEF AdcIInv, AdcConversion
    <3>2. adcWord' = [adcWord EXCEPT !.low = 1 - @, !.high = 1 - @]
      BY <2>2 DEF AdcConversion
    <3>3. PICK a \in {0, 1}, b \in {0, 1} : a = 1 - adcWord.low /\ b = 1 - adcWord.high
      BY <3>1 DEF WordHeld
    <3>4. adcWord' = [adcWord EXCEPT !.low = a, !.high = b]
      BY <3>2, <3>3
    <3>5. /\ adcWord'.low = a /\ adcWord'.high = b /\ adcWord'.locked = adcWord.locked
          /\ adcWord' \in [low : {0, 1}, high : {0, 1}, locked : BOOLEAN]
      BY <3>1, <3>4 DEF WordHeld
    <3>6. QED
      BY <2>2, <3>1, <3>3, <3>5 DEF WordHeld
  <2>3. QED
    BY <2>1, <2>2
<1>3. SamplesFresh'
  <2>1. SamplesFresh
    BY DEF AdcIInv
  <2>2. CASE adcDma' = adcDma
    BY <2>1, <2>2 DEF SamplesFresh
  <2>3. CASE ~adcDma.reset /\ adcDma' = [adcDma EXCEPT !.fifo = Append(@, "new")]
    <3>1. adcDma.pc \notin {"idle", "clear"}
      BY <2>1, <2>3 DEF SamplesFresh
    <3>2. /\ Append(adcDma.fifo, "new") \in Seq({"old", "new"})
          /\ \A i \in 1 .. Len(Append(adcDma.fifo, "new")) : Append(adcDma.fifo, "new")[i] = "new"
      BY <2>1 DEF SamplesFresh, DmaStates
    <3>3. /\ adcDma' \in DmaStates /\ adcDma'.fifo = Append(adcDma.fifo, "new")
          /\ adcDma'.buf = adcDma.buf /\ adcDma'.left = adcDma.left
          /\ adcDma'.asked = adcDma.asked /\ adcDma'.pc = adcDma.pc
          /\ adcDma'.tc = adcDma.tc /\ adcDma'.reset = adcDma.reset
      BY <2>1, <2>3, <3>2 DEF SamplesFresh, DmaStates
    <3>4. QED
      BY <2>1, <3>1, <3>2, <3>3 DEF SamplesFresh
  <2>4. QED
    BY <2>2, <2>3 DEF AdcConversion
<1>4. QED
  BY <1>1, <1>2, <1>3 DEF AdcIInv

LEMMA AdcDmaStep ==
  AdcIInv /\ (adc_start_sample_dma \/ AdcDmaMoves \/ adc_get_code_dma) => AdcIInv'
<1> SUFFICES ASSUME AdcIInv, adc_start_sample_dma \/ AdcDmaMoves \/ adc_get_code_dma
             PROVE  AdcIInv'
  OBVIOUS
<1>1. GlobalsTell' /\ WordHeld'
  BY DEF adc_start_sample_dma, AdcDmaMoves, adc_get_code_dma, AdcIInv, GlobalsTell, WordHeld
<1>2. SamplesFresh
  BY DEF AdcIInv
<1>3. CASE adc_start_sample_dma
  <2>1. PICK words \in AdcWords :
          adcDma' = [adcDma EXCEPT
            !.pc = "wait", !.asked = words, !.left = words, !.on = TRUE, !.reset = FALSE,
            !.buf = <<>>, !.fifo = [i \in DOMAIN @ |-> "old"]]
    BY <1>3 DEF adc_start_sample_dma
  <2>2. words \in Nat \ {0}
    BY AdcAssumption
  <2>3. adcDma.fifo = <<>> /\ ~adcDma.tc
    BY <1>2, <1>3 DEF adc_start_sample_dma, AdcQuiet, SamplesFresh
  <2>4. [i \in DOMAIN adcDma.fifo |-> "old"] = <<>>
    BY <2>3
  <2>5. /\ adcDma' \in DmaStates /\ adcDma'.fifo = <<>> /\ adcDma'.buf = <<>>
        /\ adcDma'.left = words /\ adcDma'.asked = words /\ adcDma'.pc = "wait"
        /\ ~adcDma'.tc
    BY <1>2, <2>1, <2>2, <2>3, <2>4 DEF SamplesFresh, DmaStates
  <2>6. QED
    BY <1>1, <2>2, <2>5 DEF AdcIInv, SamplesFresh
<1>4. CASE AdcDmaMoves
  <2>1. /\ adcDma.left > 0 /\ adcDma.fifo # <<>>
        /\ adcDma' = [adcDma EXCEPT !.buf = Append(@, Head(adcDma.fifo)), !.fifo = Tail(@),
                                    !.left = @ - 1, !.tc = @ \/ adcDma.left = 1]
    BY <1>4 DEF AdcDmaMoves
  <2>2. adcDma.pc = "wait" /\ ~adcDma.tc
    BY <1>2, <2>1 DEF SamplesFresh
  <2> DEFINE buf == Append(adcDma.buf, Head(adcDma.fifo))
             rest == Tail(adcDma.fifo)
  <2>3. Head(adcDma.fifo) = "new"
    BY <1>2, <2>1 DEF SamplesFresh, DmaStates
  <2>4. /\ buf \in Seq({"old", "new"}) /\ Len(buf) = Len(adcDma.buf) + 1
        /\ \A i \in 1 .. Len(buf) : buf[i] = "new"
    BY <1>2, <2>1, <2>3 DEF SamplesFresh, DmaStates
  <2>5. rest \in Seq({"old", "new"}) /\ \A i \in 1 .. Len(rest) : rest[i] = "new"
    <3>1. adcDma.fifo \in Seq({"old", "new"})
      BY <1>2 DEF SamplesFresh, DmaStates
    <3>2. /\ rest \in Seq({"old", "new"}) /\ Len(rest) = Len(adcDma.fifo) - 1
          /\ \A i \in 1 .. Len(rest) : rest[i] = adcDma.fifo[i + 1]
      BY <2>1, <3>1
    <3> HIDE DEF rest
    <3>3. QED
      BY <1>2, <3>1, <3>2 DEF SamplesFresh
  <2> HIDE DEF buf, rest
  <2>a. adcDma.left - 1 \in Nat /\ (adcDma.left = 1) \in BOOLEAN
    BY <1>2, <2>1 DEF SamplesFresh, DmaStates
  <2>6. PICK l, last : l = adcDma.left - 1 /\ last = (adcDma.left = 1)
    OBVIOUS
  <2>7. adcDma' = [adcDma EXCEPT !.buf = buf, !.fifo = rest, !.left = l, !.tc = last]
    BY <1>2, <2>1, <2>2, <2>6 DEF buf, rest, SamplesFresh, DmaStates
  <2>8. /\ adcDma' \in DmaStates /\ adcDma'.fifo = rest /\ adcDma'.buf = buf
        /\ adcDma'.left = l /\ adcDma'.asked = adcDma.asked
        /\ adcDma'.pc = "wait" /\ adcDma'.tc = last
    BY <1>2, <2>a, <2>2, <2>4, <2>5, <2>6, <2>7 DEF SamplesFresh, DmaStates
  <2>9. adcDma.left \in Nat /\ Len(buf) + l = adcDma.asked
    BY <1>2, <2>1, <2>4, <2>6 DEF SamplesFresh, DmaStates
  <2>10. SamplesFresh'
    <3>1. l \in Nat /\ (last <=> l = 0)
      <4>1. l \in Nat /\ (adcDma.left = 1 <=> l = 0)
        BY <2>a, <2>6, <2>9
      <4>2. QED
        BY <4>1, <2>6, Zenon
    <3>2. Len(adcDma'.buf) + adcDma'.left = adcDma'.asked
      BY <2>8, <2>9
    <3>3. adcDma'.tc <=> adcDma'.left = 0
      BY <2>8, <3>1
    <3>4. /\ \A i \in 1 .. Len(adcDma'.buf) : adcDma'.buf[i] = "new"
          /\ \A i \in 1 .. Len(adcDma'.fifo) : adcDma'.fifo[i] = "new"
      BY <2>4, <2>5, <2>8
    <3>5. adcDma' \in DmaStates /\ adcDma'.pc = "wait"
      BY <2>8
    <3>6. QED
      BY <3>2, <3>3, <3>4, <3>5 DEF SamplesFresh
  <2>11. QED
    BY <1>1, <2>10 DEF AdcIInv
<1>5. CASE adc_get_code_dma
  <2>1. adcDma' = FinishDma(adcDma) /\ adcDma.pc \in {"idle", "wait", "stop", "clear"}
    BY <1>2, <1>5 DEF adc_get_code_dma, SamplesFresh, DmaStates
  <2>2. CASE adcDma.pc = "wait" /\ adcDma.tc
    <3>1. adcDma' = [adcDma EXCEPT !.pc = "stop"]
      BY <2>1, <2>2 DEF FinishDma
    <3>2. QED
      <4>1. /\ adcDma' \in DmaStates /\ adcDma'.pc = "stop" /\ adcDma'.reset = adcDma.reset /\ adcDma'.fifo = adcDma.fifo
            /\ adcDma'.buf = adcDma.buf /\ adcDma'.left = adcDma.left
            /\ adcDma'.asked = adcDma.asked /\ adcDma'.tc = adcDma.tc
        BY <1>2, <3>1 DEF SamplesFresh, DmaStates
      <4>2. QED
        BY <1>1, <1>2, <2>2, <4>1 DEF AdcIInv, SamplesFresh
  <2>3. CASE adcDma.pc = "stop"
    <3>e. PICK empty : empty = <<>> /\ empty \in Seq({"old", "new"})
      BY <<>> \in Seq({"old", "new"})
    <3>1. adcDma' = [adcDma EXCEPT !.pc = "clear", !.reset = TRUE, !.fifo = empty]
      BY <2>1, <2>3, <3>e DEF FinishDma
    <3>2. QED
      <4>1. /\ adcDma' \in DmaStates /\ adcDma'.pc = "clear" /\ adcDma'.reset /\ adcDma'.fifo = empty
            /\ adcDma'.buf = adcDma.buf /\ adcDma'.left = adcDma.left
            /\ adcDma'.asked = adcDma.asked /\ adcDma'.tc = adcDma.tc
        BY <1>2, <3>e, <3>1 DEF SamplesFresh, DmaStates
      <4>2. QED
        BY <1>1, <1>2, <2>3, <3>e, <4>1 DEF AdcIInv, SamplesFresh
  <2>4. CASE adcDma.pc = "clear"
    <3>1. adcDma' = [adcDma EXCEPT !.pc = "idle", !.on = FALSE, !.tc = FALSE]
      BY <2>1, <2>4 DEF FinishDma
    <3>2. QED
      <4>1. /\ adcDma' \in DmaStates /\ adcDma'.pc = "idle" /\ adcDma'.reset = adcDma.reset /\ adcDma'.fifo = adcDma.fifo
            /\ adcDma'.buf = adcDma.buf /\ adcDma'.left = adcDma.left
            /\ adcDma'.asked = adcDma.asked /\ ~adcDma'.tc
        BY <1>2, <3>1 DEF SamplesFresh, DmaStates
      <4>2. QED
        BY <1>1, <1>2, <2>4, <4>1 DEF AdcIInv, SamplesFresh
  <2>5. CASE adcDma.pc = "idle" \/ (adcDma.pc = "wait" /\ ~adcDma.tc)
    <3>1. adcDma' = adcDma
      BY <2>1, <2>5 DEF FinishDma
    <3>2. QED
      BY <1>5, <3>1 DEF adc_get_code_dma
  <2>6. QED
    BY <2>1, <2>2, <2>3, <2>4, <2>5
<1>6. QED
  BY <1>3, <1>4, <1>5

LEMMA AdcInitial == AdcInit => AdcIInv
<1> SUFFICES ASSUME AdcInit PROVE AdcIInv
  OBVIOUS
<1>1. GlobalsTell
  BY DEF AdcInit, GlobalsTell, AdcRegs, AdcFields, RefTold
<1>2. WordHeld
  BY DEF AdcInit, WordHeld
<1>3. SamplesFresh
  BY DEF AdcInit, NoAdcDma, SamplesFresh, DmaStates
<1>4. QED
  BY <1>1, <1>2, <1>3 DEF AdcIInv

LEMMA AdcStep == AdcIInv /\ [AdcNext]_adcVars => AdcIInv'
<1>1. AdcIInv /\ UNCHANGED adcVars => AdcIInv'
  BY DEF adcVars, AdcIInv, GlobalsTell, WordHeld, SamplesFresh
<1>2. QED
  BY <1>1, AdcSetUpStep, AdcReadStep, AdcConversionStep, AdcDmaStep DEF AdcNext

(* A code times its step is the input to within a step, at each of the     *)
(* scales that references, pre-scalers and divider can make.               *)
Scales == {900, 1175, 2700, 3525, 3600, 4700, 10800, 14100}

LEMMA InSteps ==
  ASSUME NEW f \in Nat \ {0}, NEW q \in Int, NEW r \in Int, NEW mv \in Int,
         8192 * mv = f * q + r, 0 <= r, r < f
  PROVE  /\ 0 <= mv /\ mv < f => 0 <= q /\ q <= 8191
         /\ -f <= mv /\ mv < 0 => -8192 <= q /\ q <= -1
<1>1. q <= -1 => f * q <= f * (-1)
  OBVIOUS
<1>2. q >= 8192 => f * q >= f * 8192
  OBVIOUS
<1>3. q >= 0 => f * q >= f * 0
  OBVIOUS
<1>4. q <= -8193 => f * q <= f * (-8193)
  OBVIOUS
<1>5. PICK p \in Int : p = f * q
  OBVIOUS
<1>6. /\ q <= -1 => p <= -f
      /\ q >= 8192 => p >= 8192 * f
      /\ q >= 0 => p >= 0
      /\ q <= -8193 => p <= -8193 * f
  BY <1>1, <1>2, <1>3, <1>4, <1>5
<1>7. 8192 * mv = p + r
  BY <1>5
<1>8. QED
  BY <1>6, <1>7

LEMMA OneStepOff ==
  ASSUME NEW x \in Int, NEW s \in Int, NEW r \in Int, NEW f \in Int, NEW g \in Int, NEW t \in Int,
         8192 * x = s + r, 0 <= s, s < 8192, 0 <= r, r < f, f = 8192 * g + t, 0 <= t, t < 8192
  PROVE  0 <= x /\ x <= g + 1
OBVIOUS

CodeOf(f, mv) == (mv * 8192) \div f
VoltsOf(f, code) == (code * f) \div 8192
StepOf(f) == f \div 8192

RestOf(f, mv) == (mv * 8192) % f
Steps == 8192

LEMMA Division ==
  ASSUME NEW x \in Int, NEW d \in Nat \ {0}
  PROVE  /\ x \div d \in Int /\ x % d \in Int /\ 0 <= x % d /\ x % d < d
         /\ x = d * (x \div d) + (x % d)
<1>1. x = d * (x \div d) + (x % d) /\ x % d \in 0 .. d - 1 /\ x \div d \in Int
  BY DivMod
<1>2. x % d \in Int /\ 0 <= x % d /\ x % d < d
  BY <1>1
<1>3. QED
  BY <1>1, <1>2

LEMMA CodeDivides ==
  ASSUME NEW f \in Nat \ {0}, NEW mv \in Int
  PROVE  /\ CodeOf(f, mv) \in Int /\ RestOf(f, mv) \in Int
         /\ 0 <= RestOf(f, mv) /\ RestOf(f, mv) < f
         /\ Steps * mv = f * CodeOf(f, mv) + RestOf(f, mv)
<1> DEFINE x == mv * 8192
           q == x \div f
           r == x % f
<1>1. x \in Int /\ x = 8192 * mv
  OBVIOUS
<1>2. CodeOf(f, mv) = q /\ RestOf(f, mv) = r
  BY DEF CodeOf, RestOf
<1> HIDE DEF x
<1>3. q \in Int /\ r \in Int /\ 0 <= r /\ r < f /\ x = f * q + r
  BY <1>1, Division
<1> HIDE DEF q, r
<1>4. QED
  BY <1>1, <1>2, <1>3 DEF Steps

LEMMA VoltsDivide ==
  ASSUME NEW f \in Int, NEW code \in Int
  PROVE  \E s \in Int : /\ VoltsOf(f, code) \in Int /\ 0 <= s /\ s < Steps
                        /\ f * code = Steps * VoltsOf(f, code) + s
<1> DEFINE p == code * f
           v == p \div 8192
           s == p % 8192
<1>1. p \in Int /\ p = f * code
  OBVIOUS
<1>2. VoltsOf(f, code) = v
  BY DEF VoltsOf
<1> HIDE DEF p
<1>3. v \in Int /\ s \in Int /\ 0 <= s /\ s < 8192 /\ p = 8192 * v + s
  BY <1>1, Division
<1> HIDE DEF v, s
<1>4. QED
  BY <1>1, <1>2, <1>3 DEF Steps

LEMMA StepDivides ==
  ASSUME NEW f \in Int
  PROVE  \E t \in Int : StepOf(f) \in Int /\ 0 <= t /\ t < 8192 /\ f = 8192 * StepOf(f) + t
BY Division DEF StepOf

LEMMA BackWithin ==
  ASSUME NEW f \in Int, f <= 14100, NEW mv \in Int, mv < f, NEW p \in Int, 0 <= p,
         NEW r \in Int, 0 <= r, r < f, 8192 * mv = p + r,
         NEW v \in Int, NEW s \in Int, 0 <= s, s < 8192, p = 8192 * v + s,
         NEW g \in Int, NEW t \in Int, 0 <= t, t < 8192, f = 8192 * g + t
  PROVE  0 <= mv - v /\ mv - v <= g + 1 /\ 0 <= v /\ v <= 65535
OBVIOUS

LEMMA CodeOfInput ==
  ASSUME NEW f \in Scales, NEW mv \in Int, 0 <= mv, mv < f
  PROVE  /\ CodeOf(f, mv) \in Int /\ 0 <= CodeOf(f, mv) /\ CodeOf(f, mv) <= 8191
         /\ VoltsOf(f, CodeOf(f, mv)) \in Int /\ StepOf(f) \in Int
         /\ 0 <= VoltsOf(f, CodeOf(f, mv)) /\ VoltsOf(f, CodeOf(f, mv)) <= 65535
         /\ 0 <= mv - VoltsOf(f, CodeOf(f, mv))
         /\ mv - VoltsOf(f, CodeOf(f, mv)) <= StepOf(f) + 1
<1>a. f \in Nat \ {0} /\ f \in Int
  BY DEF Scales
<1>1. f \in Nat \ {0} /\ f \in Int /\ f <= 14100
  BY DEF Scales
<1> DEFINE code == CodeOf(f, mv)
           r == RestOf(f, mv)
           v == VoltsOf(f, code)
           g == StepOf(f)
<1>2. code \in Int /\ r \in Int /\ 0 <= r /\ r < f /\ Steps * mv = f * code + r
  BY <1>a, CodeDivides, Zenon
<1> HIDE DEF code, r
<1>3. 0 <= code /\ code <= 8191
  BY <1>1, <1>2, InSteps DEF Steps
<1>4. PICK s \in Int : v \in Int /\ 0 <= s /\ s < Steps /\ f * code = Steps * v + s
  BY <1>a, <1>2, VoltsDivide, Zenon
<1>5. PICK t \in Int : g \in Int /\ 0 <= t /\ t < 8192 /\ f = 8192 * g + t
  BY <1>1, StepDivides
<1> HIDE DEF v, g
<1> DEFINE p == f * code
<1>6. p \in Int /\ 0 <= p
  BY <1>1, <1>2, <1>3
<1>7. 8192 * mv = p + r /\ s < 8192 /\ p = 8192 * v + s
  BY <1>2, <1>4 DEF Steps
<1> HIDE DEF p
<1>8. 0 <= mv - v /\ mv - v <= g + 1 /\ 0 <= v /\ v <= 65535
  BY <1>1, <1>2, <1>4, <1>5, <1>6, <1>7, BackWithin
<1>9. QED
  BY <1>2, <1>3, <1>4, <1>5, <1>8 DEF code, v, g

LEMMA CodeOfNegative ==
  ASSUME NEW f \in Scales, NEW mv \in Int, -f <= mv, mv < 0
  PROVE  Clipped(16384 + CodeOf(f, mv)) = 0
<1>1. f \in Nat \ {0}
  BY DEF Scales
<1> DEFINE x == CodeOf(f, mv)
           r == RestOf(f, mv)
<1>2. x \in Int /\ r \in Int /\ 0 <= r /\ r < f /\ Steps * mv = f * x + r
  BY <1>1, CodeDivides, Zenon
<1> HIDE DEF x, r
<1>3. -8192 <= x /\ x <= -1
  BY <1>1, <1>2, InSteps DEF Steps
<1>4. ((16384 + x) \div 8192) % 2 = 1
  BY <1>2, <1>3
<1>5. Clipped(16384 + x) = 0
  BY <1>4 DEF Clipped
<1>6. QED
  BY <1>5 DEF x

LEMMA ClippedIn ==
  ASSUME NEW code \in Int, 0 <= code, code <= 8191
  PROVE  Clipped(code) = code
BY DEF Clipped

LEMMA ScaleUndone ==
  ASSUME NEW c, AdcRegs(c), RefTold(c), ScaleTold(c), NEW use \in {"pin", "vbat"}, InputTold(c, use)
  PROVE  /\ FullScale(c) \in Scales
         /\ c.g_adc_vbat_divider * c.g_adc_pre_scale * c.g_adc_vref = FullScale(c)
         /\ c.g_adc_vbat_divider \in Int /\ c.g_adc_pre_scale \in Int /\ c.g_adc_vref \in Int
<1>1. Shift1(0) = 1 /\ Shift1(2) = 4
  BY DEF Shift1
<1>2. /\ c.scale \in {0, 2} /\ c.vref \in {"1P2V", "0P9V"}
      /\ c.g_adc_vref = IF c.vref = "1P2V" THEN 1175 ELSE 900
      /\ c.g_adc_pre_scale = Shift1(c.scale)
  BY <1>1 DEF AdcRegs, RefTold, ScaleTold
<1>3. c.g_adc_vbat_divider = IF c.p = "vbat" /\ c.vbat = 2 THEN 3 ELSE 1
  BY DEF InputTold
<1>4. QED
  BY <1>1, <1>2, <1>3 DEF FullScale, Scales

LEMMA AdcImplied == AdcIInv => ReadingsTrue
<1> SUFFICES ASSUME AdcIInv PROVE ReadingsTrue
  OBVIOUS
<1>1. SamplesWhole
  BY DEF AdcIInv, WordHeld, SamplesFresh, SamplesWhole
<1>2. ASSUME adcFor \in {"pin", "vbat"}, NEW mv \in AdcVolts, InRange(adc, mv)
      PROVE  LET found == adc_calculate_voltage(adc, Clipped(Converted(adc, mv)))
             IN  IF mv < 0 THEN found = 0
                 ELSE mv - found \in 0 .. (FullScale(adc) \div 8192 + 1)
  <2> DEFINE f == FullScale(adc)
             d == adc.g_adc_vbat_divider
             p == adc.g_adc_pre_scale
             r == adc.g_adc_vref
  <2>1. f \in Scales /\ d * p * r = f /\ d \in Int /\ p \in Int /\ r \in Int
    BY <1>2, ScaleUndone DEF AdcIInv, GlobalsTell
  <2>2. mv \in Int /\ -f <= mv /\ mv < f
    BY <1>2, AdcAssumption DEF InRange
  <2> HIDE DEF f, d, p, r
  <2>3. ASSUME NEW code \in Int
        PROVE  adc_calculate_voltage(adc, code) = ((code * f) \div 8192) % 65536
    <3>1. code * d * p * r = code * f
      BY <2>1
    <3>2. adc_calculate_voltage(adc, code) = ((code * d * p * r) \div 8192) % 65536
      BY DEF adc_calculate_voltage, d, p, r
    <3>3. QED
      BY <3>1, <3>2
  <2>4. CASE mv < 0
    <3>1. Clipped(Converted(adc, mv)) = 0
      BY <2>1, <2>2, <2>4, CodeOfNegative DEF Converted, CodeOf, f
    <3>2. f \in Int
      BY <2>1 DEF Scales
    <3>3. QED
      BY <2>3, <2>4, <3>1, <3>2
  <2>5. CASE ~(mv < 0)
    <3> DEFINE code == CodeOf(f, mv)
               y == VoltsOf(f, code)
               g == StepOf(f)
    <3>1. f \in Scales /\ mv \in Int /\ 0 <= mv /\ mv < f
      BY <2>1, <2>2, <2>5 DEF Scales
    <3>2. /\ code \in Int /\ 0 <= code /\ code <= 8191
          /\ y \in Int /\ g \in Int /\ 0 <= y /\ y <= 65535
          /\ 0 <= mv - y /\ mv - y <= g + 1
      BY <3>1, CodeOfInput
    <3>3. Converted(adc, mv) = code
      BY <2>5 DEF Converted, CodeOf, f
    <3>5. ((code * f) \div 8192) % 65536 = y % 65536
      BY DEF VoltsOf
    <3>9. g = FullScale(adc) \div 8192
      BY DEF StepOf, f
    <3> HIDE DEF code, y, g
    <3>4. Clipped(code) = code
      BY <3>2, ClippedIn
    <3>6. adc_calculate_voltage(adc, code) = y % 65536
      BY <2>3, <3>2, <3>5
    <3>7. y % 65536 = y
      BY <3>2
    <3>8. adc_calculate_voltage(adc, Clipped(Converted(adc, mv))) = y
      BY <3>3, <3>4, <3>6, <3>7
    <3>10. mv - y \in 0 .. g + 1
      BY <3>2, <2>2
    <3>11. QED
      BY <2>5, <3>8, <3>9, <3>10
  <2>6. QED
    BY <2>4, <2>5
<1>3. ASSUME adcFor \in {"pin", "vbat"}
      PROVE  (SamplesPerSecond(adc) - 1000 * adcRate) * 100 \in -1000 * adcRate .. 1000 * adcRate
  <2>1. RateTold(adc, adcRate)
    BY <1>3 DEF AdcIInv, GlobalsTell
  <2>2. /\ adcRate = 23 => SamplesPerSecond(adc) = 24000000 \div 1038
        /\ adcRate = 48 => SamplesPerSecond(adc) = 24000000 \div 500
        /\ adcRate = 96 => SamplesPerSecond(adc) = 24000000 \div 250
    BY <2>1 DEF RateTold, SamplesPerSecond
  <2>3. /\ 24000000 \div 1038 = 23121 /\ 24000000 \div 500 = 48000
        /\ 24000000 \div 250 = 96000
    OBVIOUS
  <2>4. adcRate \in {23, 48, 96}
    BY <2>1 DEF RateTold
  <2>5. QED
    BY <2>2, <2>3, <2>4
<1>4. QED
  BY <1>1, <1>2, <1>3 DEF ReadingsTrue, AdcTruthful

-----------------------------------------------------------------------------
(* The composition.                                                        *)

LEMMA OnePeripheralSteps ==
  [Next]_vars =>
    /\ [GpioNext]_gpioVars /\ [TimersNext]_tmrVars /\ [FifoNext]_fifoVars
    /\ [PkeEngineNext]_pkeVars /\ [TrngNext]_trngVars
    /\ [AdcNext]_adcVars /\ [IrqNext]_irqVars
    /\ [ClockNext]_clockVars /\ [OscNext]_oscVars
    /\ [PortNext]_portVars /\ [FieldsNext]_fldVars /\ driver' = driver
<1> SUFFICES ASSUME [Next]_vars
             PROVE  /\ GpioNext \/ UNCHANGED gpioVars
                    /\ TimersNext \/ UNCHANGED tmrVars
                    /\ FifoNext \/ UNCHANGED fifoVars
                    /\ PkeEngineNext \/ UNCHANGED pkeVars
                    /\ TrngNext \/ UNCHANGED trngVars
                    /\ AdcNext \/ UNCHANGED adcVars
                    /\ IrqNext \/ UNCHANGED irqVars
                    /\ ClockNext \/ UNCHANGED clockVars
                    /\ OscNext \/ UNCHANGED oscVars
                    /\ PortNext \/ UNCHANGED portVars
                    /\ FieldsNext \/ UNCHANGED fldVars
                    /\ driver' = driver
  OBVIOUS
<1>1. CASE UNCHANGED vars
  BY <1>1, Zenon DEF vars, chipVars, engineVars
<1>2. CASE ChipNext /\ UNCHANGED <<driver, engineVars>>
  <2>1. /\ UNCHANGED fifoVars /\ UNCHANGED pkeVars /\ UNCHANGED trngVars
        /\ UNCHANGED irqVars /\ UNCHANGED fldVars /\ driver' = driver
    BY <1>2, Zenon DEF engineVars
  <2>2. /\ GpioNext \/ UNCHANGED gpioVars
        /\ TimersNext \/ UNCHANGED tmrVars
        /\ AdcNext \/ UNCHANGED adcVars
        /\ ClockNext \/ UNCHANGED clockVars
        /\ OscNext \/ UNCHANGED oscVars
        /\ PortNext \/ UNCHANGED portVars
    BY <1>2, Zenon DEF ChipNext
  <2>3. QED
    BY <2>1, <2>2
<1>3. CASE EngineNext /\ UNCHANGED <<driver, chipVars>>
  <2>1. /\ UNCHANGED gpioVars /\ UNCHANGED tmrVars /\ UNCHANGED adcVars
        /\ UNCHANGED clockVars /\ UNCHANGED oscVars /\ UNCHANGED portVars
        /\ driver' = driver
    BY <1>3, Zenon DEF chipVars
  <2>2. /\ FifoNext \/ UNCHANGED fifoVars
        /\ PkeEngineNext \/ UNCHANGED pkeVars
        /\ TrngNext \/ UNCHANGED trngVars
        /\ IrqNext \/ UNCHANGED irqVars
        /\ FieldsNext \/ UNCHANGED fldVars
    BY <1>3, Zenon DEF EngineNext
  <2>3. QED
    BY <2>1, <2>2
<1>4. QED
  BY <1>1, <1>2, <1>3 DEF Next

(* No access of one context to a pin is undone by one of the other, but    *)
(* for the bits of a register that both change at once without             *)
(* gpio_core_irq off (gpio.c, gpio.h, analog.c), for any pins of the two.  *)
THEOREM PinsStayAsSet == Spec => []PinsAsSet
<1>1. Init => GpioIInv
  BY GpioInitial DEF Init
<1>2. GpioIInv /\ [Next]_vars => GpioIInv'
  BY OnePeripheralSteps, GpioStep
<1>3. QED
  BY <1>1, <1>2, GpioImplied, PTL DEF Spec

(* The timers, their modes, the watchdog and the channels of the PWM are   *)
(* as the last call for each asked, and no call loses another's interrupt  *)
(* flag (timer.c, timer.h, watchdog.h, pwm.h), for any channels, periods   *)
(* and clocks.                                                             *)
THEOREM TimersStayKept == Spec => []TimersKept
<1>1. Init => TimersIInv
  BY TimersInitial DEF Init
<1>2. TimersIInv /\ [Next]_vars => TimersIInv'
  BY OnePeripheralSteps, TimersStepKept
<1>3. QED
  BY <1>1, <1>2, TimersImplied, PTL DEF Spec

(* What my_fifo_push and my_fifo_next put into the ring is taken from it   *)
(* in order and unchanged (utility.c), for any number of entries that      *)
(* divides the range of the pointers, also by a handler in between.        *)
THEOREM FifoAlwaysInOrder == Spec => []FifoInOrder
<1>1. Init => FifoIInv
  BY FifoInitial DEF Init
<1>2. FifoIInv /\ [Next]_vars => FifoIInv'
  BY OnePeripheralSteps, FifoStep
<1>3. QED
  BY <1>1, <1>2, FifoImplied, PTL DEF Spec

(* Every result that a call of the public key engine returns is that of an *)
(* operation with the operands, the modulus and the numbers for Montgomery *)
(* form of this call, and complete (pke.c), for any moduli and widths.     *)
THEOREM PkeAlwaysReturnsOwn == Spec => []PkeResultsOwn
<1>1. Init => PkeIInv
  BY PkeInitial DEF Init
<1>2. PkeIInv /\ [Next]_vars => PkeIInv'
  BY OnePeripheralSteps, PkeStep
<1>3. QED
  BY <1>1, <1>2, PkeImplied, PTL DEF Spec

(* The generators of trng_rand never overflow and, from any but the stuck  *)
(* seeds, never repeat a word (trng.c): for all bases and multipliers that *)
(* meet TrngAssumption, as those of the code do (TrngConstantsMeetIt).     *)
THEOREM GeneratorsNeverStop == Spec => []GeneratorsRun
<1>1. Init => TrngIInv
  BY TrngInitial DEF Init
<1>2. TrngIInv /\ [Next]_vars => TrngIInv'
  BY OnePeripheralSteps, TrngStep
<1>3. QED
  BY <1>1, <1>2, TrngImplied, PTL DEF Spec

(* After a *_sample_init, whatever was set before and tuned since, the     *)
(* voltage that adc_calculate_voltage finds is the input's to a step of    *)
(* the converter, samples come at the rate asked, and a code or a buffer   *)
(* returned is of whole conversions of the call (adc.c, adc.h), for any    *)
(* inputs and lengths of a transfer.                                       *)
THEOREM ReadingsAlwaysTrue == Spec => []ReadingsTrue
<1>1. Init => AdcIInv
  BY AdcInitial DEF Init
<1>2. AdcIInv /\ [Next]_vars => AdcIInv'
  BY OnePeripheralSteps, AdcStep
<1>3. QED
  BY <1>1, <1>2, AdcImplied, PTL DEF Spec

(* An event whose flag is set is forgotten by no call that names another,  *)
(* but where clearing writes back the register of flags (UART, PWM, USB,   *)
(* motion decoder), and after each of the thread's calls exactly what it   *)
(* switched on can interrupt, but on the PWM, where nothing switches off   *)
(* (plic.h and the *_irq_status functions), for any peripherals, events    *)
(* and moments at which the handler runs.                                  *)
THEOREM InterruptsStayKept == Spec => []InterruptsKept
<1>1. Init => IrqIInv
  BY IrqInitial DEF Init
<1>2. IrqIInv /\ [Next]_vars => IrqIInv'
  BY OnePeripheralSteps, IrqStep
<1>3. QED
  BY <1>1, <1>2, IrqImplied, PTL DEF Spec

(* No step of an orderly change of clocks leaves the limits of the chip,   *)
(* the record of the frequencies is true after every call (clock.c), the   *)
(* source of the 32 kHz and the trims are those chosen and found, the pins *)
(* lent to the kick of the crystal are returned, the PLL's supply is left  *)
(* at a trim with which it locked, and the calibration of the RC leaves    *)
(* the ticks measured by no more than the drift allowed (clock.c, pm.c),   *)
(* for any dividers and frequencies whose calls end within the limits, and *)
(* any ticks, errors and sleeps.                                           *)
THEOREM ClocksAlwaysSound == Spec => []ClocksSound
<1> DEFINE Inv == ClockIInv /\ OscIInv
<1>1. Init => Inv
  BY ClockStarts, OscStarts DEF Init
<1>2. Inv /\ [Next]_vars => Inv'
  <2> SUFFICES ASSUME Inv, [Next]_vars  PROVE Inv'
    OBVIOUS
  <2>1. ClockIInv'
    BY OnePeripheralSteps, ClockStep
  <2>2. OscIInv'
    BY OnePeripheralSteps, OscStep
  <2>3. QED
    BY <2>1, <2>2
<1>3. Inv => ClocksSound
  <2> SUFFICES ASSUME Inv  PROVE ClocksSound
    OBVIOUS
  <2>1. LimitsDuringCall /\ ClockRecorded
    BY ClockLimitsHold DEF ClockIInv
  <2>2. OscillatorsSound
    BY OscImplied
  <2>3. QED
    BY <2>1, <2>2 DEF ClocksSound
<1>4. QED
  BY <1>1, <1>2, <1>3, PTL DEF Spec

(* Each field of a shared register reads as it was asked last, whatever    *)
(* calls for its neighbours came in between (the setters of the drivers'   *)
(* headers), and a transfer through the port of the analog registers moves *)
(* each byte once and between its own places, and never waits for an idle  *)
(* port (analog.c), for any sequence of calls and any lengths a call can   *)
(* give.                                                                   *)
THEOREM RegistersAlwaysHold == Spec => []RegistersHold
<1> DEFINE Inv == PortIInv /\ FldIInv
<1>1. Init => Inv
  BY PortStarts, FieldsStart DEF Init
<1>2. Inv /\ [Next]_vars => Inv'
  <2> SUFFICES ASSUME Inv, [Next]_vars  PROVE Inv'
    OBVIOUS
  <2>1. PortIInv'
    BY OnePeripheralSteps, PortStep
  <2>2. FldIInv'
    BY OnePeripheralSteps, FieldsStep
  <2>3. QED
    BY <2>1, <2>2
<1>3. Inv => RegistersHold
  BY PortImplied DEF FldIInv, RegistersHold
<1>4. QED
  BY <1>1, <1>2, <1>3, PTL DEF Spec

(* The drivers' state has its types: a behaviour uses one driver only, the *)
(* port of the analog registers is held by one context at a time, and      *)
(* seeds and words are 32-bit words.                                       *)
THEOREM PeripheralTypesKept == Spec => []TypeOK
<1> DEFINE Inv == driver \in Drivers /\ GpioIInv /\ TrngIInv
<1>1. Init => Inv
  BY GpioInitial, TrngInitial, DriversAssumption DEF Init, DriversAssumption
<1>2. Inv /\ [Next]_vars => Inv'
  <2> SUFFICES ASSUME Inv, [Next]_vars  PROVE Inv'
    OBVIOUS
  <2>1. driver' \in Drivers
    BY OnePeripheralSteps DEF Drivers
  <2>2. GpioIInv'
    BY OnePeripheralSteps, GpioStep
  <2>3. TrngIInv'
    BY OnePeripheralSteps, TrngStep
  <2>4. QED
    BY <2>1, <2>2, <2>3 DEF Drivers
<1>3. Inv => TypeOK
  BY GpioImplied DEF TypeOK, TrngIInv
<1>4. QED
  BY <1>1, <1>2, <1>3, PTL DEF Spec
=============================================================================
