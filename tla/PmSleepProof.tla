---------------------------- MODULE PmSleepProof ----------------------------
(***************************************************************************)
(* Proofs about PmSleep, for every width of the counters and every         *)
(* calibration: a sleep is never slept through, it ends when it was to     *)
(* end, and the system timer goes on as if it had not been stopped.        *)
(*                                                                         *)
(* The argument follows the 32k edge the chip wakes at (MatchEdge).  The   *)
(* bounds are kept in units of 16M ticks times K, where an edge is exactly *)
(* Calib long, so that the two roundings stay linear.                      *)
(***************************************************************************)
EXTENDS PmSleep, ModArith

-----------------------------------------------------------------------------
(* The two clocks.                                                         *)
LEMMA Scale ==
  ASSUME NEW c \in Nat \ {0}, NEW a \in Int, NEW b \in Int
  PROVE  /\ a <= b => c * a <= c * b
         /\ c * a < c * b + c => a <= b
<1>1. c * a \in Int /\ c * b \in Int
  OBVIOUS
<1>2. a <= b => c * a <= c * b
  <2>1. PICK d \in Int : b = a + d
    <3>1. b - a \in Int /\ b = a + (b - a)
      OBVIOUS
    <3>2. QED
      BY <3>1
  <2>2. c * b = c * a + c * d
    BY <2>1
  <2>3. d >= 0 => c * d >= 0
    OBVIOUS
  <2>4. QED
    BY <2>1, <2>2, <2>3
<1>3. c * a < c * b + c => a <= b
  <2>1. PICK d \in Int : a = b + 1 + d
    <3>1. a - b - 1 \in Int /\ a = b + 1 + (a - b - 1)
      OBVIOUS
    <3>2. QED
      BY <3>1
  <2>2. c * a = c * b + c + c * d
    BY <2>1
  <2>3. d >= 0 => c * d >= 0
    OBVIOUS
  <2>4. QED
    BY <2>1, <2>2, <2>3
<1>4. QED
  BY <1>2, <1>3

LEMMA EdgesBounds ==
  ASSUME NEW t \in Nat
  PROVE  /\ Edges(t) \in Nat
         /\ Calib * Edges(t) <= K * t
         /\ K * t < Calib * Edges(t) + Calib
<1>1. K \in Nat \ {0} /\ Calib \in Nat \ {0}
  BY SleepAssumption
<1>2. t * K \in Nat /\ t * K = K * t
  BY <1>1
<1>3. PICK x \in Nat : x = t * K
  BY <1>2
<1>4. x = Calib * (x \div Calib) + (x % Calib) /\ x % Calib \in 0 .. Calib - 1 /\ x \div Calib \in Int
  BY <1>1, DivMod
<1>5. x \div Calib >= 0
  BY <1>1
<1>6. QED
  BY <1>1, <1>2, <1>3, <1>4, <1>5 DEF Edges

LEMMA EdgeTimeBounds ==
  ASSUME NEW n \in Nat
  PROVE  /\ EdgeTime(n) \in Nat
         /\ Calib * n <= K * EdgeTime(n)
         /\ K * EdgeTime(n) < Calib * n + K
<1>1. K \in Nat \ {0} /\ Calib \in Nat \ {0}
  BY SleepAssumption
<1>2. n * Calib + K - 1 \in Nat /\ n * Calib = Calib * n /\ n * Calib \in Nat
  BY <1>1
<1>3. PICK x \in Nat : x = n * Calib + K - 1
  BY <1>2
<1>4. x = K * (x \div K) + (x % K) /\ x % K \in 0 .. K - 1 /\ x \div K \in Int
  BY <1>1, DivMod
<1>5. x \div K >= 0
  BY <1>1
<1>6. EdgeTime(n) = x \div K
  BY <1>3 DEF EdgeTime
<1>7. QED
  BY <1>1, <1>2, <1>3, <1>4, <1>5, <1>6

(* A time lies before the first tick of an edge exactly when the edge has  *)
(* not been counted.                                                       *)
LEMMA BeforeEdge ==
  ASSUME NEW t \in Nat, NEW n \in Nat
  PROVE  t < EdgeTime(n) <=> Edges(t) < n
<1>1. K \in Nat \ {0} /\ Calib \in Nat \ {0}
  BY SleepAssumption
<1>2. /\ Edges(t) \in Nat /\ EdgeTime(n) \in Nat
      /\ Calib * Edges(t) <= K * t /\ K * t < Calib * Edges(t) + Calib
      /\ Calib * n <= K * EdgeTime(n) /\ K * EdgeTime(n) < Calib * n + K
  BY EdgesBounds, EdgeTimeBounds
<1>3. CASE n <= Edges(t)
  <2>1. Calib * n <= Calib * Edges(t)
    BY <1>1, <1>2, <1>3, Scale
  <2>2. K * EdgeTime(n) < K * t + K
    BY <1>1, <1>2, <2>1
  <2>3. EdgeTime(n) <= t
    BY <1>1, <1>2, <2>2, Scale
  <2>4. QED
    BY <1>2, <1>3, <2>3
<1>4. CASE Edges(t) + 1 <= n
  <2>1. Calib * (Edges(t) + 1) <= Calib * n
    <3>1. Edges(t) + 1 \in Int
      BY <1>2
    <3>2. QED
      BY <1>1, <1>4, <3>1, Scale
  <2>2. Calib * (Edges(t) + 1) = Calib * Edges(t) + Calib
    BY <1>1, <1>2
  <2>3. K * t < K * EdgeTime(n)
    BY <1>1, <1>2, <2>1, <2>2
  <2>4. ~ (EdgeTime(n) <= t)
    <3>1. EdgeTime(n) <= t => K * EdgeTime(n) <= K * t
      BY <1>1, <1>2, Scale
    <3>2. QED
      BY <1>1, <1>2, <2>3, <3>1
  <2>5. QED
    BY <1>2, <1>4, <2>4
<1>5. QED
  BY <1>2, <1>3, <1>4

LEMMA EdgesRise ==
  ASSUME NEW s \in Nat, NEW t \in Nat, s <= t
  PROVE  Edges(s) <= Edges(t)
<1>1. Edges(s) \in Nat /\ Edges(t) \in Nat
  BY EdgesBounds
<1>2. ~ (s < EdgeTime(Edges(s)))
  BY <1>1, BeforeEdge
<1>3. EdgeTime(Edges(s)) \in Nat
  BY <1>1, EdgeTimeBounds
<1>4. ~ (t < EdgeTime(Edges(s)))
  BY <1>2, <1>3
<1>5. QED
  BY <1>1, <1>4, BeforeEdge

LEMMA AtEdge ==
  ASSUME NEW n \in Nat
  PROVE  EdgeTime(n) \in Nat /\ Edges(EdgeTime(n)) = n
<1>1. K \in Nat \ {0} /\ Calib \in Nat \ {0} /\ K <= Calib
  BY SleepAssumption, TimesTold
<1> DEFINE t == EdgeTime(n)
<1>2. t \in Nat /\ Calib * n <= K * t /\ K * t < Calib * n + K
  BY EdgeTimeBounds
<1> HIDE DEF t
<1>3. Edges(t) \in Nat /\ Calib * Edges(t) <= K * t /\ K * t < Calib * Edges(t) + Calib
  BY <1>2, EdgesBounds
<1>4. Calib * Edges(t) < Calib * n + Calib
  BY <1>1, <1>2, <1>3
<1>5. Edges(t) <= n
  BY <1>1, <1>3, <1>4, Scale
<1>6. Calib * n < Calib * Edges(t) + Calib
  BY <1>1, <1>2, <1>3
<1>7. n <= Edges(t)
  BY <1>1, <1>3, <1>6, Scale
<1>8. QED
  BY <1>2, <1>3, <1>5, <1>7 DEF t

(* The next edge lies ahead, and by less than an edge and a tick.          *)
LEMMA EdgeAhead ==
  ASSUME NEW t \in Nat, NEW n \in Nat \ {0}
  PROVE  /\ EdgeTime(Edges(t) + n) \in Nat
         /\ t < EdgeTime(Edges(t) + n)
         /\ Edges(EdgeTime(Edges(t) + n)) = Edges(t) + n
         /\ K * EdgeTime(Edges(t) + n) < K * t + Calib * n + K
<1>1. K \in Nat \ {0} /\ Calib \in Nat \ {0}
  BY SleepAssumption
<1>2. /\ Edges(t) \in Nat /\ Calib * Edges(t) <= K * t
  BY EdgesBounds
<1>3. PICK m \in Nat : m = Edges(t) + n /\ Edges(t) < m
  <2>1. Edges(t) + n \in Nat /\ Edges(t) < Edges(t) + n
    BY <1>2
  <2>2. QED
    BY <2>1
<1>4. EdgeTime(m) \in Nat /\ Edges(EdgeTime(m)) = m
  BY AtEdge
<1>5. t < EdgeTime(m)
  BY <1>3, BeforeEdge
<1>6. K * EdgeTime(m) < Calib * m + K
  BY EdgeTimeBounds
<1>7. Calib * m = Calib * Edges(t) + Calib * n
  BY <1>1, <1>2, <1>3
<1>8. K * EdgeTime(m) < K * t + Calib * n + K
  BY <1>1, <1>2, <1>4, <1>6, <1>7
<1>9. QED
  BY <1>3, <1>4, <1>5, <1>8

-----------------------------------------------------------------------------
(* Words: a register holds a number up to a multiple of Word.              *)
LEMMA WordRep ==
  ASSUME NEW x \in Int
  PROVE  x % Word \in 0 .. Word - 1 /\ \E k \in Int : x % Word = x + Word * k
<1>1. Word \in Nat \ {0}
  BY SleepAssumption
<1>2. x = Word * (x \div Word) + (x % Word) /\ x % Word \in 0 .. Word - 1 /\ x \div Word \in Int
  BY <1>1, DivMod
<1>3. PICK q \in Int : q = x \div Word
  BY <1>2
<1>4. x % Word = x + Word * (-q) /\ -q \in Int
  <2>1. Word * (-q) = -(Word * q) /\ Word * q \in Int
    BY <1>1
  <2>2. QED
    BY <1>2, <1>3, <2>1
<1>5. QED
  BY <1>2, <1>4

LEMMA WordSmall ==
  ASSUME NEW x \in 0 .. Word - 1
  PROVE  x % Word = x
BY SleepAssumption

LEMMA WordSame ==
  ASSUME NEW x \in Int, NEW y \in Int, NEW k \in Int, x = y + Word * k
  PROVE  x % Word = y % Word
<1>1. Word \in Nat \ {0}
  BY SleepAssumption
<1>2. PICK j \in Int : y % Word = y + Word * j
  BY WordRep
<1>3. PICK r \in 0 .. Word - 1 : r = y % Word
  BY WordRep
<1>4. x = Word * (k - j) + r
  <2>1. Word * (k - j) = Word * k - Word * j /\ Word * k \in Int /\ Word * j \in Int
    BY <1>1
  <2>2. r = y + Word * j
    BY <1>2, <1>3
  <2>3. QED
    BY <2>1, <2>2
<1>5. k - j \in Int
  OBVIOUS
<1>6. x % Word = r
  BY <1>1, <1>4, <1>5, ModUnique
<1>7. QED
  BY <1>3, <1>6

LEMMA HalfWord == Word \div 2 \in Nat /\ Word = 2 * (Word \div 2)
<1>1. Word \in Nat \ {0} /\ Word % 2 = 0
  BY SleepAssumption
<1>2. Word = 2 * (Word \div 2) + (Word % 2) /\ Word \div 2 \in Int
  BY <1>1, DivMod
<1>3. QED
  BY <1>1, <1>2

LEMMA SignedRep ==
  ASSUME NEW x \in Int
  PROVE  /\ Signed(x) \in -(Word \div 2) .. Word \div 2 - 1
         /\ \E k \in Int : Signed(x) = x + Word * k
<1>1. Word \in Nat \ {0} /\ Word \div 2 \in Nat /\ Word = 2 * (Word \div 2)
  BY SleepAssumption, HalfWord
<1>2. PICK h \in Nat : h = Word \div 2
  BY <1>1
<1>3. x + h \in Int
  OBVIOUS
<1>4. PICK k \in Int : (x + h) % Word = x + h + Word * k
  BY <1>3, WordRep
<1>5. (x + h) % Word \in 0 .. Word - 1
  BY <1>3, WordRep
<1>6. Signed(x) = ((x + h) % Word) - h
  BY <1>2 DEF Signed
<1>7. Signed(x) = x + Word * k
  BY <1>1, <1>4, <1>6
<1>8. QED
  BY <1>1, <1>2, <1>5, <1>6, <1>7

LEMMA SignedSame ==
  ASSUME NEW x \in Int, NEW y \in Int, NEW k \in Int, x = y + Word * k
  PROVE  Signed(x) = Signed(y)
<1>1. PICK h \in Nat : h = Word \div 2
  BY HalfWord
<1>2. x + h \in Int /\ y + h \in Int /\ x + h = y + h + Word * k
  BY SleepAssumption
<1>3. (x + h) % Word = (y + h) % Word
  BY <1>2, WordSame
<1>4. QED
  BY <1>1, <1>3 DEF Signed

LEMMA SignedSmall ==
  ASSUME NEW x \in Int, x >= -(Word \div 2), x < Word \div 2
  PROVE  Signed(x) = x
<1>1. PICK h \in Nat : h = Word \div 2 /\ Word = 2 * h
  BY HalfWord
<1>2. x + h \in 0 .. Word - 1
  BY <1>1
<1>3. (x + h) % Word = x + h
  BY <1>2, WordSmall
<1>4. QED
  BY <1>1, <1>3 DEF Signed

(* The distance of two words is the distance of what they stand for.       *)
LEMMA WordSub ==
  ASSUME NEW x \in Int, NEW y \in Int, NEW z \in Int
  PROVE  /\ ((x % Word) - (y % Word)) % Word = (x - y) % Word
         /\ ((x % Word) - z) % Word = (x - z) % Word
         /\ (z - (y % Word)) % Word = (z - y) % Word
         /\ ((x % Word) + z) % Word = (x + z) % Word
<1>1. PICK i \in Int : x % Word = x + Word * i
  BY WordRep
<1>2. PICK j \in Int : y % Word = y + Word * j
  BY WordRep
<1>3. PICK a \in Int : a = x % Word
  BY WordRep
<1>4. PICK b \in Int : b = y % Word
  BY WordRep
<1>5. Word \in Nat
  BY SleepAssumption
<1>6. a - b = (x - y) + Word * (i - j) /\ i - j \in Int /\ a - b \in Int /\ x - y \in Int
  BY <1>1, <1>2, <1>3, <1>4, <1>5
<1>7. a - z = (x - z) + Word * i /\ a - z \in Int /\ x - z \in Int
  BY <1>1, <1>3, <1>5
<1>8. z - b = (z - y) + Word * (-j) /\ -j \in Int /\ z - b \in Int /\ z - y \in Int
  BY <1>2, <1>4, <1>5
<1>9. a + z = (x + z) + Word * i /\ a + z \in Int /\ x + z \in Int
  BY <1>1, <1>3, <1>5
<1>10. (a - b) % Word = (x - y) % Word
  BY <1>6, WordSame
<1>11. (a - z) % Word = (x - z) % Word
  BY <1>7, WordSame
<1>12. (z - b) % Word = (z - y) % Word
  BY <1>8, WordSame
<1>13. (a + z) % Word = (x + z) % Word
  BY <1>9, WordSame
<1>14. QED
  BY <1>3, <1>4, <1>10, <1>11, <1>12, <1>13

LEMMA CountWord ==
  ASSUME NEW t \in Nat
  PROVE  Count(t) \in 0 .. Word - 1
<1>1. Edges(t) + Base \in Int
  BY EdgesBounds, SleepAssumption
<1>2. QED
  BY <1>1, WordRep DEF Count

-----------------------------------------------------------------------------
(* Types.  The span is taken from now and then the time that was meant, so *)
(* that a poll has an end to wait for.                                     *)
SpanKept ==
  /\ pc = "span" => tick = (due + skew) % Word /\ due - now \in Spans
  /\ pc = "poll" => now <= due
  /\ pc = "mask" /\ Timed => tick = (due + skew) % Word /\ due - now \in MinSleep .. PastLimit

LEMMA SpanTold ==
  ASSUME TypeOK, tick = (due + skew) % Word, due - now \in Spans, Span <= PastLimit
  PROVE  Span = due - now /\ due - now \in 0 .. PastLimit
<1>1. /\ due \in Int /\ now \in Nat /\ skew \in Int
      /\ due + skew \in Int /\ now + skew \in Int /\ due - now \in Int
  BY DEF TypeOK
<1>2. Span = (due - now) % Word
  <2>1. Span = (((due + skew) % Word) - ((now + skew) % Word)) % Word
    BY DEF Span, Stimer
  <2>2. (due + skew) - (now + skew) = due - now
    BY <1>1
  <2>3. (((due + skew) % Word) - ((now + skew) % Word)) % Word = ((due + skew) - (now + skew)) % Word
    BY <1>1, WordSub
  <2>4. QED
    BY <2>1, <2>2, <2>3
<1>3. Word \in Nat \ {0} /\ PastLimit \in Nat /\ PastLimit < Word
  BY SleepAssumption
<1>4. due - now \in PastLimit - Word + 1 .. PastLimit
  BY TimesTold
<1>5. CASE due - now < 0
  <2>1. PICK w \in Int : w = due - now + Word
    BY <1>1, <1>3
  <2>2. w \in 0 .. Word - 1 /\ w = (due - now) + Word * 1 /\ w > PastLimit
    BY <1>1, <1>3, <1>4, <1>5, <2>1
  <2>3. w % Word = w /\ w % Word = (due - now) % Word
    BY <1>1, <2>2, WordSmall, WordSame
  <2>4. QED
    BY <1>2, <1>3, <2>2, <2>3
<1>6. CASE due - now >= 0
  <2>1. due - now \in 0 .. Word - 1
    BY <1>1, <1>3, <1>4, <1>6
  <2>2. QED
    BY <1>2, <1>4, <1>6, <2>1, WordSmall
<1>7. QED
  BY <1>1, <1>5, <1>6

(* Both halves of TypeOK that a step could leave: a time below zero and a  *)
(* register wider than a word.                                             *)
LEMMA TypesStep ==
  ASSUME TypeOK, SpanKept, [Next]_vars
  PROVE  TypeOK' /\ SpanKept'
<1> USE DEF TypeOK, SpanKept, call, pmcd
<1>1. CASE Idle
  <2>1. PICK n \in IdleTimes : Advance(IF left > 0 THEN now + n ELSE now)
    BY <1>1 DEF Idle
  <2>2. now' \in Nat /\ flags' \subseteq {"timer", "pad"}
    BY <2>1, SleepAssumption DEF Advance
  <2>3. QED
    BY <1>1, <2>2, SleepAssumption DEF Idle
<1>2. CASE Call
  <2>1. PICK s \in Spans : due' = now + s
    BY <1>2 DEF Call
  <2>2. s \in Int /\ due' \in Int /\ due' + skew \in Int /\ due' - now = s
    BY <2>1, SleepAssumption
  <2>3. tick' = (due' + skew) % Word /\ tick' \in 0 .. Word - 1
    BY <1>2, <2>2, WordRep DEF Call
  <2>4. sources' \subseteq {"timer", "pad"}
    BY <1>2, SleepAssumption DEF Call
  <2>5. left' \in 0 .. Calls
    BY <1>2, SleepAssumption DEF Call
  <2>6. TypeOK'
    BY <1>2, <2>2, <2>3, <2>4, <2>5 DEF Call
  <2>7. SpanKept'
    BY <1>2, <2>2, <2>3 DEF Call
  <2>8. QED
    BY <2>6, <2>7
<1>3. CASE ReturnPast
  BY <1>3 DEF ReturnPast
<1>4. CASE StartPoll
  <2>1. Span < MinSleep /\ pc = "span"
    BY <1>4 DEF StartPoll
  <2>2. Span \in 0 .. Word - 1
    <3>1. tick - Stimer \in Int
      BY WordRep DEF Stimer
    <3>2. QED
      BY <3>1, WordRep DEF Span
  <2>3. Span <= PastLimit
    BY <2>1, <2>2, SleepAssumption
  <2>4. due - now \in 0 .. PastLimit
    BY <2>1, <2>3, SpanTold
  <2>5. now <= due
    BY <2>4
  <2>6. QED
    BY <1>4, <2>5 DEF StartPoll
<1>5. CASE Poll
  <2>1. now \in Nat /\ due \in Nat /\ now <= due
    BY <1>5 DEF Poll
  <2>2. now' \in Nat
    BY <1>5, <2>1 DEF Poll
  <2>3. flags' \subseteq {"timer", "pad"}
    BY <1>5 DEF Poll
  <2>4. QED
    BY <1>5, <2>2, <2>3 DEF Poll
<1>6. CASE GoToSleep
  <2>1. TypeOK'
    BY <1>6 DEF GoToSleep
  <2>2. CASE Timed
    <3>1. pc = "span" /\ ~ (Span > PastLimit) /\ ~ (Span < MinSleep)
      BY <1>6, <2>2 DEF GoToSleep
    <3>2. Span \in 0 .. Word - 1
      <4>1. tick - Stimer \in Int
        BY WordRep DEF Stimer
      <4>2. QED
        BY <4>1, WordRep DEF Span
    <3>3. Span <= PastLimit /\ MinSleep <= Span
      BY <3>1, <3>2, SleepAssumption
    <3>4. Span = due - now
      BY <3>1, <3>3, SpanTold
    <3>5. due - now \in MinSleep .. PastLimit
      BY <3>2, <3>3, <3>4, SleepAssumption
    <3>6. QED
      BY <1>6, <2>1, <3>1, <3>5 DEF GoToSleep
  <2>3. CASE ~ Timed
    BY <1>6, <2>1, <2>3 DEF GoToSleep, Timed
  <2>4. QED
    BY <2>2, <2>3
<1>7. CASE StopTimer
  <2>1. PICK isr \in 0 .. IsrTime :
          LET t == EdgeTime(Edges(now + isr) + 1) IN Advance(t) /\ TakeReference(t)
    BY <1>7 DEF StopTimer
  <2>2. PICK t \in Nat : t = EdgeTime(Edges(now + isr) + 1)
    <3>1. now + isr \in Nat
      BY SleepAssumption
    <3>2. QED
      BY <3>1, EdgeAhead
  <2>3. now' = t /\ flags' \subseteq {"timer", "pad"}
    BY <2>1, <2>2 DEF Advance
  <2>4. TakeReference(t)
    BY <2>1, <2>2
  <2>5. ref'.tick \in 0 .. Word - 1 /\ ref'.tick32k \in 0 .. Word - 1
        /\ ref' \in [tick : Int, tick32k : Int, no : 0 .. RefUses + 1]
        /\ refAt' \in Nat /\ refSkew' \in Int
    <3>1. CASE RefExpired(t)
      <4>1. PICK s \in 0 .. Word - 1 : s = (t + skew) % Word
        BY WordRep
      <4>2. PICK c \in 0 .. Word - 1 : c = Count(t)
        BY CountWord
      <4>3. ref' = [tick |-> IF s % 2 = 0 THEN s + 1 ELSE s, tick32k |-> c, no |-> 0]
        BY <2>4, <3>1, <4>1, <4>2 DEF TakeReference
      <4>4. s % 2 = 0 => s + 1 \in 0 .. Word - 1
        BY HalfWord, SleepAssumption
      <4>5. refAt' = t /\ refSkew' = skew
        BY <2>4, <3>1 DEF TakeReference
      <4>6. QED
        BY <4>3, <4>4, <4>5, SleepAssumption
    <3>2. CASE ~ RefExpired(t)
      <4>1. ref' = [ref EXCEPT !.no = @ + 1] /\ refAt' = refAt /\ refSkew' = refSkew
        BY <2>4, <3>2 DEF TakeReference
      <4>2. ref.no + 1 \in 0 .. RefUses + 1
        BY <3>2, SleepAssumption DEF RefExpired
      <4>3. QED
        BY <4>1, <4>2
    <3>3. QED
      BY <3>1, <3>2
  <2>6. ref' \in [tick : 0 .. Word - 1, tick32k : 0 .. Word - 1, no : 0 .. RefUses + 1]
    BY <2>5
  <2>7. QED
    BY <1>7, <2>3, <2>5, <2>6 DEF StopTimer
<1>8. CASE Arm
  <2>1. WakeDistance \in 0 .. Word - 1
    <3>1. tick - Early - ref.tick \in Int
      BY SleepAssumption
    <3>2. QED
      BY <3>1, WordRep DEF WakeDistance
  <2>2. long' \in BOOLEAN
    <3>1. CASE ~ Timed
      BY <1>8, <3>1 DEF Arm
    <3>2. CASE Timed
      <4>1. long' = (WakeDistance > LongLimit)
        BY <1>8, <3>2 DEF Arm
      <4>2. CASE WakeDistance > LongLimit
        BY <4>1, <4>2
      <4>3. CASE ~ (WakeDistance > LongLimit)
        BY <4>1, <4>3
      <4>4. QED
        BY <4>2, <4>3
    <3>3. QED
      BY <3>1, <3>2
  <2>3. match' \in 0 .. Word - 1
    <3>1. PICK d \in Nat : d = WakeDistance
      BY <2>1
    <3>2. K \in Nat /\ Calib \in Nat \ {0} /\ Word \in Nat \ {0}
      BY SleepAssumption
    <3>3. d \div Calib \in Int
      BY <3>2, DivMod
    <3>4. ref.tick32k + (d \div Calib) * K \in Int
      BY <3>2, <3>3
    <3>5. (d * K + Calib \div 2) % Word \in Int
      <4>1. d * K + Calib \div 2 \in Int
        BY <3>2
      <4>2. QED
        BY <4>1, WordRep
    <3>6. ref.tick32k + (((d * K + Calib \div 2) % Word) \div Calib) \in Int
      BY <3>2, <3>5, DivMod
    <3>7. WakeValue(TRUE) \in 0 .. Word - 1 /\ WakeValue(FALSE) \in 0 .. Word - 1
      BY <3>1, <3>4, <3>6, WordRep DEF WakeValue
    <3>8. match' = WakeValue(long')
      BY <1>8 DEF Arm
    <3>9. match' = WakeValue(TRUE) \/ match' = WakeValue(FALSE)
      BY <2>2, <3>8 DEF WakeValue
    <3>10. QED
      BY <3>7, <3>9
  <2>4. QED
    BY <1>8, <2>2, <2>3 DEF Arm
<1>9. CASE SkipSleep
  BY <1>9 DEF SkipSleep
<1>10. CASE FallAsleep
  BY <1>10 DEF FallAsleep
<1>11. CASE PadEdge
  BY <1>11 DEF PadEdge
<1>12. CASE TimerWake
  <2>1. PICK delay \in {0, Early} : now' = MatchTime + delay
    BY <1>12 DEF TimerWake
  <2>2. MatchTime \in Nat
    <3>1. (match - Count(now) - 1) % Word \in Nat
      <4>1. match - Count(now) - 1 \in Int
        BY CountWord
      <4>2. QED
        BY <4>1, WordRep
    <3>2. Edges(now) + 1 + ((match - Count(now) - 1) % Word) \in Nat
      BY <3>1, EdgesBounds
    <3>3. QED
      BY <3>2, EdgeTimeBounds DEF MatchTime
  <2>3. now' \in Nat
    BY <2>1, <2>2, SleepAssumption
  <2>4. pc' \in {"recover", "boot"}
    BY <1>12 DEF TimerWake, Resume
  <2>5. QED
    BY <1>12, <2>3, <2>4 DEF TimerWake
<1>13. CASE PadWake
  <2>1. PICK t \in {now + 1, now + Early, due - 2 * Early, now + Word} : t > now /\ now' = t
    BY <1>13 DEF PadWake
  <2>2. now' \in Nat
    <3>1. t \in Int
      BY <2>1, SleepAssumption
    <3>2. QED
      BY <2>1, <3>1
  <2>3. pc' \in {"recover", "boot"}
    BY <1>13 DEF PadWake, Resume
  <2>4. QED
    BY <1>13, <2>2, <2>3 DEF PadWake
<1>14. CASE RecoverTimer
  <2>1. PICK t \in Nat : t = EdgeTime(Edges(now) + 2)
    BY EdgeAhead
  <2>2. now' = t /\ skew' = Signed(Recovered(Count(t)) + 1 - t)
        /\ flags' \subseteq {"timer", "pad"}
    BY <1>14, <2>1 DEF RecoverTimer
  <2>3. skew' \in Int
    <3>1. PICK c \in Int : c = (Count(t) - ref.tick32k) % Word
      <4>1. Count(t) - ref.tick32k \in Int
        BY CountWord
      <4>2. QED
        BY <4>1, WordRep
    <3>2. K \in Nat \ {0} /\ Calib \in Nat
      BY SleepAssumption
    <3>3. c \div K \in Int /\ (c \div K) * Calib \in Int
      BY <3>2, DivMod
    <3>4. c * Calib \in Int
      BY <3>2
    <3>5. PICK w \in Int : w = (c * Calib) % Word
      BY <3>4, WordRep
    <3>6. w \div K \in Int
      BY <3>2, DivMod
    <3>7. Recovered(Count(t)) \in Int
      BY <3>1, <3>3, <3>5, <3>6 DEF Recovered
    <3>8. Recovered(Count(t)) + 1 - t \in Int
      BY <3>7
    <3>9. QED
      BY <2>2, <3>8, SignedRep, HalfWord
  <2>4. pc' \in {"wait", "idle"} /\ result' \in {result, "retained"}
    BY <1>14 DEF RecoverTimer
  <2>5. QED
    BY <1>14, <2>2, <2>3, <2>4 DEF RecoverTimer
<1>15. CASE Wait
  <2>1. (tick - Stimer) % Word \in Nat
    <3>1. tick - Stimer \in Int
      BY WordRep DEF Stimer
    <3>2. QED
      BY <3>1, WordRep
  <2>2. PICK d \in Nat : d = (tick - Stimer) % Word
    BY <2>1
  <2>3. Advance(now + d) \/ UNCHANGED <<now, flags>>
    BY <1>15, <2>2 DEF Wait
  <2>4. Advance(now + d) => now' \in Nat /\ flags' \subseteq {"timer", "pad"}
    BY DEF Advance
  <2>5. now' \in Nat /\ flags' \subseteq {"timer", "pad"}
    BY <2>3, <2>4
  <2>6. result' \in {"timer", "other"}
    BY <1>15 DEF Wait
  <2>7. QED
    BY <1>15, <2>5, <2>6 DEF Wait
<1>16. CASE UNCHANGED vars
  <2>1. TypeOK'
    BY <1>16 DEF vars
  <2>2. UNCHANGED <<pc, tick, due, skew, now, sources>>
    BY <1>16 DEF vars
  <2>3. SpanKept'
    BY <2>2 DEF Timed
  <2>4. QED
    BY <2>1, <2>3
<1>17. QED
  BY <1>1, <1>2, <1>3, <1>4, <1>5, <1>6, <1>7, <1>8, <1>9, <1>10, <1>11, <1>12, <1>13, <1>14,
     <1>15, <1>16 DEF Next

LEMMA TypesInit ==
  ASSUME Init
  PROVE  TypeOK /\ SpanKept
<1>1. 0 \in 0 .. Word - 1 /\ 0 \in 0 .. RefUses + 1 /\ Calls \in 0 .. Calls
  BY SleepAssumption
<1>2. ref \in [tick : 0 .. Word - 1, tick32k : 0 .. Word - 1, no : 0 .. RefUses + 1]
  BY <1>1 DEF Init
<1>3. /\ now \in Nat /\ refAt \in Nat /\ skew \in Int /\ refSkew \in Int /\ due \in Int
      /\ match \in 0 .. Word - 1 /\ tick \in 0 .. Word - 1 /\ left \in 0 .. Calls
  BY <1>1 DEF Init
<1>4. /\ armed \subseteq {"timer", "pad"} /\ flags \subseteq {"timer", "pad"}
      /\ sources \subseteq {"timer", "pad"} /\ pc = "idle" /\ mode = "suspend"
      /\ long \in BOOLEAN /\ result = "none"
  BY DEF Init
<1>5. TypeOK
  BY <1>2, <1>3, <1>4 DEF TypeOK
<1>6. SpanKept
  BY DEF Init, SpanKept
<1>7. QED
  BY <1>5, <1>6

(* The match, the wake-up time and the reference that pm_sleep_wakeup      *)
(* computes stay words, the sleeps of a reference stay below their limit,  *)
(* and a poll has an end: its wake-up time is not in the past.             *)
THEOREM SleepTypesKept == Spec => []TypeOK
<1>1. TypeOK /\ SpanKept /\ [Next]_vars => (TypeOK /\ SpanKept)'
  BY TypesStep
<1>2. QED
  BY TypesInit, <1>1, PTL DEF Spec

-----------------------------------------------------------------------------
(* Every call is timed: a sleep for the pad alone takes its length from a  *)
(* wake-up time that means nothing.                                        *)
TimerAlways == \A s \in SourceSets : "timer" \in s

(* The proportions of the constants: MinSleep leaves two edges and a half  *)
(* over the early wake-up and the interrupts, the early wake-up is more    *)
(* than an edge, a long sleep is longer than a reference lives and than a  *)
(* group of the long conversion, and the longest sleep, counted from the   *)
(* oldest reference, fits in a word.                                       *)
Proportions ==
  /\ K < Calib
  /\ 4 * Calib + 4 * K <= K * Calib
  /\ 2 * Calib + 3 * K <= K * (MinSleep - Early - IsrTime)
  /\ Calib + 2 * K <= K * Early
  /\ K * LongLimit + K * Early + 5 * Calib < Word
  /\ K * Calib + Calib * (RefAge + 2) <= K * LongLimit
  /\ K * PastLimit + Calib * (RefAge + 2) < K * Word

(* What the two times of the reference tell apart: the edge it was taken   *)
(* at, and the tick that makes an even value odd.                          *)
RefEdge == Edges(refAt)
Odd == IF ((refAt + refSkew) % Word) % 2 = 0 THEN 1 ELSE 0

(* The system timer against the reference, now and when the call meant its *)
(* wake-up time; the span that is converted, and the edge it leads to.     *)
Drift == Signed(skew - refSkew)
Ahead == Signed(tick - due - refSkew)
Distance == due + Ahead - Early - refAt - Odd
Reach == IF long THEN (Distance \div Calib) * K ELSE (Distance * K + Calib \div 2) \div Calib
MatchEdge == RefEdge + Reach

InSleep == {"arm", "check", "asleep", "recover", "boot", "wait"}

(* What is asked of the callers and the pad: no one stays awake for as     *)
(* long as the age of the reference takes to wrap, and a long sleep that   *)
(* the pad cuts short has outlived the reference, so that the next sleep   *)
(* does not share it.                                                      *)
Undisturbed ==
  /\ pc = "mask" => Edges(now + IsrTime) + 1 - RefEdge < RefMod
  /\ pc \in {"recover", "boot"} /\ long /\ "timer" \notin flags => Edges(now) - RefEdge >= RefAge

RefKept ==
  /\ Drift \in -Calib .. 2
  /\ Drift < 0 => Edges(now) - RefEdge >= RefAge
  /\ refAt = EdgeTime(RefEdge) /\ refAt <= now /\ now - refAt + Drift >= 0
  /\ ref.tick # 0 => ref.tick = (refAt + refSkew + Odd) % Word /\ ref.tick32k = (RefEdge + Base) % Word
  /\ pc \in InSleep => ref.tick # 0

CallKept ==
  /\ pc # "idle" => Timed /\ result = "none"
  /\ pc \in InSleep => tick = (due + refSkew + Ahead) % Word
  /\ pc = "arm" =>
       /\ Ahead = Drift /\ Drift >= 0
       /\ Edges(now) - RefEdge <= RefAge
       /\ K * (due - now) >= K * (MinSleep - IsrTime) - Calib - K
       /\ due - now <= PastLimit
       /\ now = EdgeTime(Edges(now))

MatchKept ==
  pc \in InSleep \ {"arm"} =>
    /\ Ahead \in 0 .. 2
    /\ Distance \in 0 .. Word - 1 /\ (long <=> Distance > LongLimit)
    /\ match = (MatchEdge + Base) % Word
    /\ armed = sources
    /\ pc \in {"check", "asleep"} => "timer" \notin flags /\ Edges(now) < MatchEdge
    /\ pc \in {"recover", "boot"} =>
         /\ "timer" \in flags <=> Edges(now) >= MatchEdge
         /\ K * now < Calib * MatchEdge + K * Early + K
    /\ pc = "wait" =>
         /\ "timer" \in flags => Edges(now) >= MatchEdge
         /\ K * now < Calib * (MatchEdge + 2) + K * Early + 2 * K

SleepIInv == TypeOK /\ SpanKept /\ RefKept /\ CallKept /\ MatchKept /\ WakesOnTime

-----------------------------------------------------------------------------
(* The constants, with the products the proportions speak of.              *)
LEMMA Sizes ==
  /\ K \in Nat \ {0} /\ Calib \in Nat \ {0} /\ Word \in Nat \ {0} /\ Early \in Nat \ {0}
  /\ MinSleep \in Nat \ {0} /\ LongLimit \in Nat \ {0} /\ PastLimit \in Nat \ {0}
  /\ RefMod \in Nat \ {0} /\ RefAge \in Nat /\ IsrTime \in Nat /\ Base \in Nat
BY SleepAssumption

LEMMA Products ==
  ASSUME Proportions
  PROVE  /\ K * Calib \in Nat /\ K * Early \in Nat /\ K * LongLimit \in Nat
         /\ K * PastLimit \in Nat /\ K * Word \in Nat /\ Calib * RefAge \in Nat
         /\ K * (MinSleep - IsrTime) \in Int
         /\ K < Calib
         /\ 4 * Calib + 4 * K <= K * Calib
         /\ 2 * Calib + 3 * K <= K * (MinSleep - IsrTime) - K * Early
         /\ Calib + 2 * K <= K * Early
         /\ K * LongLimit + K * Early + 5 * Calib < Word
         /\ K * Calib + Calib * RefAge + 2 * Calib <= K * LongLimit
         /\ K * PastLimit + Calib * RefAge + 2 * Calib < K * Word
         /\ K * Word + Word <= Calib * Word
<1>1. /\ K * Calib \in Nat /\ K * Early \in Nat /\ K * LongLimit \in Nat
      /\ K * PastLimit \in Nat /\ K * Word \in Nat /\ Calib * RefAge \in Nat
      /\ K * (MinSleep - IsrTime) \in Int
  BY Sizes
<1>2. Calib * (RefAge + 2) = Calib * RefAge + 2 * Calib
  BY Sizes
<1>3. K * (MinSleep - Early - IsrTime) = K * (MinSleep - IsrTime) - K * Early
  BY Sizes
<1>4. K < Calib
  BY DEF Proportions
<1>5. K * Word + Word <= Calib * Word
  <2>1. K + 1 \in Int /\ K + 1 <= Calib
    BY <1>4, Sizes
  <2>2. Word * (K + 1) <= Word * Calib
    BY <2>1, Sizes, Scale
  <2>3. Word * (K + 1) = K * Word + Word /\ Word * Calib = Calib * Word
    BY Sizes
  <2>4. QED
    BY <2>2, <2>3
<1>6. 2 * Calib + 3 * K <= K * (MinSleep - IsrTime) - K * Early
  BY <1>3 DEF Proportions
<1>7. PICK a \in Nat : a = Calib * (RefAge + 2) /\ a = Calib * RefAge + 2 * Calib
  <2>1. Calib * (RefAge + 2) \in Nat
    BY Sizes
  <2>2. QED
    BY <1>2, <2>1
<1>8. K * Calib + a <= K * LongLimit /\ K * PastLimit + a < K * Word
  BY <1>7 DEF Proportions
<1>9. /\ K * Calib + Calib * RefAge + 2 * Calib <= K * LongLimit
      /\ K * PastLimit + Calib * RefAge + 2 * Calib < K * Word
  BY <1>1, <1>7, <1>8, Sizes
<1>10. /\ 4 * Calib + 4 * K <= K * Calib /\ Calib + 2 * K <= K * Early
       /\ K * LongLimit + K * Early + 5 * Calib < Word
  BY DEF Proportions
<1>11. QED
  BY <1>1, <1>4, <1>5, <1>6, <1>9, <1>10

(* How far the match lies from the span it is computed from: an edge for   *)
(* the short conversion, a group for the long one.                         *)
LEMMA ShortReach ==
  ASSUME NEW d \in Nat
  PROVE  /\ (d * K + Calib \div 2) \div Calib \in Nat
         /\ 2 * (Calib * ((d * K + Calib \div 2) \div Calib)) <= 2 * (K * d) + Calib
         /\ 2 * (K * d) < 2 * (Calib * ((d * K + Calib \div 2) \div Calib)) + Calib
<1>1. PICK h \in Nat : h = Calib \div 2 /\ 2 * h <= Calib /\ Calib <= 2 * h + 1
  <2>1. Calib \div 2 \in Nat /\ 2 * (Calib \div 2) <= Calib /\ Calib <= 2 * (Calib \div 2) + 1
    BY Sizes
  <2>2. QED
    BY <2>1
<1>2. d * K \in Nat /\ d * K = K * d
  BY Sizes
<1>3. PICK x \in Nat : x = d * K + h
  BY <1>2
<1>4. x = Calib * (x \div Calib) + (x % Calib) /\ x % Calib \in 0 .. Calib - 1 /\ x \div Calib \in Int
  BY Sizes, DivMod
<1>5. PICK q \in Int : q = x \div Calib
  BY <1>4
<1>6. q >= 0
  BY <1>5, Sizes
<1>7. Calib * q \in Int /\ Calib * q <= x /\ x <= Calib * q + Calib - 1
  BY <1>4, <1>5, Sizes
<1>8. 2 * (Calib * q) <= 2 * (K * d) + Calib /\ 2 * (K * d) < 2 * (Calib * q) + Calib
  BY <1>1, <1>2, <1>3, <1>7, Sizes
<1>9. QED
  BY <1>1, <1>3, <1>5, <1>6, <1>8

LEMMA LongReach ==
  ASSUME NEW d \in Nat
  PROVE  /\ (d \div Calib) * K \in Nat
         /\ Calib * ((d \div Calib) * K) <= K * d
         /\ K * d < Calib * ((d \div Calib) * K) + K * Calib
<1>1. d = Calib * (d \div Calib) + (d % Calib) /\ d % Calib \in 0 .. Calib - 1 /\ d \div Calib \in Int
  BY Sizes, DivMod
<1>2. PICK g \in Int : g = d \div Calib
  BY <1>1
<1>3. g >= 0
  BY <1>2, Sizes
<1>4. PICK r \in 0 .. Calib - 1 : r = d % Calib
  BY <1>1
<1>5. d = Calib * g + r
  BY <1>1, <1>2, <1>4
<1>6. K * d = K * (Calib * g) + K * r
  <2>1. Calib * g \in Int /\ r \in Int
    BY Sizes
  <2>2. PICK a \in Int : a = Calib * g
    BY <2>1
  <2>3. K * (a + r) = K * a + K * r
    BY <2>1, Sizes
  <2>4. QED
    BY <1>5, <2>2, <2>3
<1>7. K * (Calib * g) = Calib * (g * K)
  BY Sizes
<1>8. 0 <= K * r /\ K * r < K * Calib
  <2>1. r \in Int /\ r + 1 \in Int /\ 0 <= r /\ r + 1 <= Calib
    BY Sizes
  <2>2. K * 0 <= K * r /\ K * (r + 1) <= K * Calib
    BY <2>1, Sizes, Scale
  <2>3. K * (r + 1) = K * r + K
    BY <2>1, Sizes
  <2>4. QED
    BY <2>1, <2>2, <2>3, Sizes
<1>9. PICK q \in Nat : q = g * K
  <2>1. g * K \in Nat
    BY <1>3, Sizes
  <2>2. QED
    BY <2>1
<1>10. K * d = Calib * q + K * r
  BY <1>6, <1>7, <1>9
<1>11. Calib * q \in Int /\ K * r \in Int /\ K * d \in Int /\ K * Calib \in Int
  BY Sizes
<1>12. Calib * q <= K * d /\ K * d < Calib * q + K * Calib
  BY <1>8, <1>10, <1>11
<1>13. QED
  BY <1>2, <1>9, <1>12

LEMMA ReachBounds ==
  ASSUME Proportions, NEW d \in Nat, NEW isLong \in BOOLEAN, NEW r,
         r = IF isLong THEN (d \div Calib) * K ELSE (d * K + Calib \div 2) \div Calib
  PROVE  /\ r \in Nat
         /\ 2 * (Calib * r) <= 2 * (K * d) + Calib
         /\ K * d < Calib * r + K * Calib
         /\ ~ isLong => K * d < Calib * r + Calib
<1>1. CASE isLong
  <2>1. r = (d \div Calib) * K
    BY <1>1
  <2>2. r \in Nat /\ Calib * r <= K * d /\ K * d < Calib * r + K * Calib
    BY <2>1, LongReach
  <2>3. Calib * r \in Int /\ K * d \in Int
    BY <2>2, Sizes
  <2>4. QED
    BY <1>1, <2>2, <2>3, Sizes
<1>2. CASE ~ isLong
  <2>1. r = (d * K + Calib \div 2) \div Calib
    BY <1>2
  <2>2. r \in Nat /\ 2 * (Calib * r) <= 2 * (K * d) + Calib /\ 2 * (K * d) < 2 * (Calib * r) + Calib
    BY <2>1, ShortReach
  <2>3. Calib * r \in Int /\ K * d \in Int /\ K * Calib \in Int /\ Calib <= K * Calib
    BY <2>2, Products, Sizes
  <2>4. QED
    BY <2>2, <2>3, Sizes
<1>3. QED
  BY <1>1, <1>2

(* The reference lies on an edge.                                          *)
LEMMA RefBounds ==
  ASSUME TypeOK, RefKept
  PROVE  /\ RefEdge \in Nat /\ Odd \in 0 .. 1 /\ Drift \in Int /\ Ahead \in Int /\ Distance \in Int
         /\ Calib * RefEdge <= K * refAt
         /\ K * refAt < Calib * RefEdge + K
<1>1. refAt \in Nat /\ due \in Int /\ skew \in Int /\ refSkew \in Int /\ tick \in Int
  BY DEF TypeOK
<1>2. RefEdge \in Nat
  BY <1>1, EdgesBounds DEF RefEdge
<1>3. refAt = EdgeTime(RefEdge)
  BY DEF RefKept
<1>4. Calib * RefEdge <= K * refAt /\ K * refAt < Calib * RefEdge + K
  BY <1>2, <1>3, EdgeTimeBounds
<1>5. Odd \in 0 .. 1
  BY DEF Odd
<1>6. Drift \in Int
  <2>1. skew - refSkew \in Int
    BY <1>1
  <2>2. QED
    BY <2>1, SignedRep, HalfWord DEF Drift
<1>7. Ahead \in Int
  <2>1. tick - due - refSkew \in Int
    BY <1>1
  <2>2. QED
    BY <2>1, SignedRep, HalfWord DEF Ahead
<1>8. Distance \in Int
  BY <1>1, <1>5, <1>7, Sizes DEF Distance
<1>9. QED
  BY <1>2, <1>4, <1>5, <1>6, <1>7, <1>8

(* Where the match lies: between the time that was meant, less the early   *)
(* wake-up and the rounding, and that time; and within a word.             *)
LEMMA MatchBounds ==
  ASSUME Proportions, TypeOK, RefKept, Distance \in 0 .. Word - 1, Ahead \in 0 .. 2
  PROVE  /\ Reach \in 0 .. Word - 1 /\ MatchEdge \in Nat
         /\ Calib * MatchEdge = Calib * RefEdge + Calib * Reach
         /\ 2 * (Calib * Reach) <= 2 * (K * Distance) + Calib
         /\ K * Distance = K * due + K * Ahead - K * Early - K * refAt - K * Odd
         /\ 2 * (Calib * MatchEdge) + 2 * (K * Early) <= 2 * (K * due) + 2 * (K * Ahead) + Calib
         /\ K * due + K * Ahead < Calib * MatchEdge + K * Calib + K * Early + 2 * K
<1>1. /\ RefEdge \in Nat /\ Odd \in 0 .. 1 /\ Ahead \in Int /\ Distance \in Nat
      /\ Calib * RefEdge <= K * refAt /\ K * refAt < Calib * RefEdge + K
      /\ due \in Int /\ refAt \in Nat /\ long \in BOOLEAN
  BY RefBounds DEF TypeOK
<1>2. /\ Reach \in Nat
      /\ 2 * (Calib * Reach) <= 2 * (K * Distance) + Calib
      /\ K * Distance < Calib * Reach + K * Calib
  <2>1. Reach = IF long THEN (Distance \div Calib) * K ELSE (Distance * K + Calib \div 2) \div Calib
    BY DEF Reach
  <2>2. QED
    BY <1>1, <2>1, ReachBounds
<1>3. /\ K * due \in Int /\ K * Ahead \in Int /\ K * Early \in Int /\ K * refAt \in Int
      /\ K * Odd \in 0 .. K /\ Calib * Reach \in Nat /\ Calib * RefEdge \in Nat /\ K * Distance \in Nat
  <2>1. K * Odd \in 0 .. K
    <3>1. Odd = 0 \/ Odd = 1
      BY <1>1
    <3>2. QED
      BY <3>1, Sizes
  <2>2. QED
    BY <1>1, <1>2, <2>1, Sizes
<1>4. K * Distance = K * due + K * Ahead - K * Early - K * refAt - K * Odd
  BY <1>1, Sizes DEF Distance
<1>5. MatchEdge = RefEdge + Reach /\ MatchEdge \in Nat
  BY <1>1, <1>2 DEF MatchEdge
<1>6. Calib * MatchEdge = Calib * RefEdge + Calib * Reach
  BY <1>1, <1>2, <1>5, Sizes
<1>7. Reach \in 0 .. Word - 1
  <2>1. K * Distance <= K * Word - K
    <3>1. Distance + 1 <= Word /\ Distance + 1 \in Int
      BY <1>1, Sizes
    <3>2. K * (Distance + 1) <= K * Word
      BY <3>1, Sizes, Scale
    <3>3. K * (Distance + 1) = K * Distance + K
      BY <1>1, Sizes
    <3>4. QED
      BY <1>3, <3>2, <3>3, Sizes, Products
  <2>2. Calib < Word
    BY Products, Sizes
  <2>3. Calib * Reach < Calib * Word
    BY <1>2, <1>3, <2>1, <2>2, Products, Sizes
  <2>4. ~ (Word <= Reach)
    <3>1. Word <= Reach => Calib * Word <= Calib * Reach
      BY <1>2, Sizes, Scale
    <3>2. QED
      BY <1>3, <2>3, <3>1, Sizes
  <2>5. QED
    BY <1>2, <2>4, Sizes
<1>8. 2 * (Calib * MatchEdge) + 2 * (K * Early) <= 2 * (K * due) + 2 * (K * Ahead) + Calib
  BY <1>1, <1>2, <1>3, <1>4, <1>6, Sizes
<1>9. K * due + K * Ahead < Calib * MatchEdge + K * Calib + K * Early + 2 * K
  BY <1>1, <1>2, <1>3, <1>4, <1>6, Products, Sizes
<1>10. QED
  BY <1>2, <1>4, <1>5, <1>6, <1>7, <1>8, <1>9

(* What an unchanged call and reference keep.                              *)
LEMMA SameCall ==
  ASSUME UNCHANGED <<tick, due, refSkew, refAt>>
  PROVE  /\ RefEdge' = RefEdge /\ Odd' = Odd /\ Ahead' = Ahead /\ Distance' = Distance
         /\ skew' = skew => Drift' = Drift
         /\ long' = long => Reach' = Reach /\ MatchEdge' = MatchEdge
<1>1. RefEdge' = RefEdge /\ Odd' = Odd /\ Ahead' = Ahead
  BY DEF RefEdge, Odd, Ahead
<1>2. Distance' = Distance
  BY <1>1 DEF Distance
<1>3. skew' = skew => Drift' = Drift
  BY DEF Drift
<1>4. long' = long => Reach' = Reach
  BY <1>2 DEF Reach
<1>5. long' = long => MatchEdge' = MatchEdge
  BY <1>1, <1>4 DEF MatchEdge
<1>6. QED
  BY <1>1, <1>2, <1>3, <1>4, <1>5

-----------------------------------------------------------------------------
(* The steps.                                                              *)
LEMMA RefStays ==
  ASSUME TypeOK, RefKept, TypeOK', UNCHANGED <<skew, ref, refSkew, refAt>>, now <= now',
         pc' \in InSleep => pc \in InSleep
  PROVE  RefKept'
<1>1. RefEdge' = RefEdge /\ Odd' = Odd /\ Drift' = Drift
  BY DEF RefEdge, Odd, Drift
<1>2. now \in Nat /\ now' \in Nat /\ refAt \in Nat /\ Drift \in Int
  BY RefBounds DEF TypeOK
<1>3. refAt' <= now' /\ now' - refAt' + Drift >= 0
  BY <1>2 DEF RefKept
<1>4. refAt' = EdgeTime(RefEdge')
  BY <1>1 DEF RefKept
<1>5. ref'.tick # 0 =>
        ref'.tick = (refAt' + refSkew' + Odd') % Word /\ ref'.tick32k = (RefEdge' + Base) % Word
  BY <1>1 DEF RefKept
<1>6. Drift' \in -Calib .. 2
  BY <1>1 DEF RefKept
<1>7. pc' \in InSleep => ref'.tick # 0
  BY DEF RefKept
<1>8. Drift' < 0 => Edges(now') - RefEdge' >= RefAge
  <2>1. Edges(now) \in Nat /\ Edges(now') \in Nat /\ RefEdge \in Nat /\ RefAge \in Nat
    BY <1>2, EdgesBounds, RefBounds, Sizes
  <2>2. Edges(now) <= Edges(now')
    BY <1>2, EdgesRise
  <2>3. Drift < 0 => Edges(now) - RefEdge >= RefAge
    BY DEF RefKept
  <2>4. Drift < 0 => Edges(now') - RefEdge >= RefAge
    BY <2>1, <2>2, <2>3
  <2>5. QED
    BY <1>1, <2>4
<1>9. QED
  BY <1>1, <1>3, <1>4, <1>5, <1>6, <1>7, <1>8 DEF RefKept

LEMMA AwakeStep ==
  ASSUME TimerAlways, SleepIInv, TypeOK',
         Idle \/ Call \/ ReturnPast \/ StartPoll \/ Poll \/ GoToSleep
  PROVE  RefKept' /\ CallKept' /\ MatchKept' /\ WakesOnTime'
<1>1. /\ UNCHANGED <<skew, ref, refSkew, refAt>>
      /\ pc \in {"idle", "span", "poll"} /\ pc' \in {"idle", "span", "poll", "mask"}
      /\ result' \in {"none", "past", "polled", result}
  BY DEF Idle, Call, ReturnPast, StartPoll, Poll, GoToSleep, pmcd
<1>2. now <= now'
  <2>1. now \in Nat
    BY DEF SleepIInv, TypeOK
  <2>2. CASE Idle
    <3>1. PICK n \in IdleTimes : now' = IF left > 0 THEN now + n ELSE now
      BY <2>2 DEF Idle, Advance
    <3>2. QED
      BY <2>1, <3>1, SleepAssumption
  <2>3. CASE Poll
    <3>1. now <= due /\ due \in Int
      BY <2>3 DEF Poll, SleepIInv, SpanKept, TypeOK
    <3>2. now' \in now .. due \/ now' = due
      BY <2>3 DEF Poll
    <3>3. QED
      BY <2>1, <3>1, <3>2
  <2>4. CASE Call \/ ReturnPast \/ StartPoll \/ GoToSleep
    BY <2>1, <2>4 DEF Call, ReturnPast, StartPoll, GoToSleep
  <2>5. QED
    BY <2>2, <2>3, <2>4
<1>3. RefKept'
  BY <1>1, <1>2, RefStays DEF SleepIInv, InSleep
<1>4. pc' # "idle" => Timed' /\ result' = "none"
  <2>1. CASE Call
    BY <2>1 DEF Call, TimerAlways, Timed
  <2>2. CASE Idle \/ ReturnPast \/ Poll
    BY <2>2 DEF Idle, ReturnPast, Poll
  <2>3. CASE StartPoll \/ GoToSleep
    BY <2>3 DEF StartPoll, GoToSleep, call, SleepIInv, CallKept, Timed
  <2>4. QED
    BY <2>1, <2>2, <2>3
<1>5. pc' \notin InSleep /\ pc' # "arm"
  BY <1>1 DEF InSleep
<1>6. CallKept' /\ MatchKept'
  BY <1>4, <1>5 DEF CallKept, MatchKept
<1>7. WakesOnTime'
  <2>1. CASE Idle \/ Call \/ Poll \/ ReturnPast
    BY <2>1 DEF Idle, Call, Poll, ReturnPast, WakesOnTime
  <2>2. CASE StartPoll \/ GoToSleep
    BY <2>2 DEF StartPoll, GoToSleep, call, SleepIInv, WakesOnTime, Tolerance
  <2>3. QED
    BY <2>1, <2>2
<1>8. QED
  BY <1>3, <1>6, <1>7

(* The edge after the interrupts are masked: by it a reference is either   *)
(* taken anew or young enough.                                             *)
LEMMA StopStep ==
  ASSUME Proportions, SleepIInv, Undisturbed, TypeOK', StopTimer
  PROVE  RefKept' /\ CallKept' /\ MatchKept' /\ WakesOnTime'
<1> USE DEF InSleep
<1>1. /\ now \in Nat /\ due \in Int /\ skew \in Int /\ refSkew \in Int /\ refAt \in Nat /\ tick \in Int
      /\ RefEdge \in Nat /\ Odd \in 0 .. 1 /\ Drift \in Int
  BY RefBounds DEF SleepIInv, TypeOK
<1>2. /\ pc = "mask" /\ pc' = "arm" /\ result' = result
      /\ UNCHANGED <<skew, tick, due, sources, long>>
  BY DEF StopTimer, call
<1>3. /\ Timed /\ Timed' /\ tick = (due + skew) % Word /\ due - now \in MinSleep .. PastLimit
  BY <1>2 DEF SleepIInv, SpanKept, CallKept, Timed
<1>4. PICK isr \in 0 .. IsrTime :
        LET t == EdgeTime(Edges(now + isr) + 1) IN Advance(t) /\ TakeReference(t)
  BY DEF StopTimer
<1>5. PICK m \in Nat : m = Edges(now + isr)
  <2>1. now + isr \in Nat
    BY <1>1, Sizes
  <2>2. QED
    BY <2>1, EdgesBounds
<1>6. PICK t \in Nat :
        /\ t = EdgeTime(m + 1) /\ Edges(t) = m + 1 /\ now + isr < t
        /\ K * t < K * (now + isr) + Calib + K
  <2>1. now + isr \in Nat /\ 1 \in Nat \ {0} /\ Calib * 1 = Calib
    BY <1>1, Sizes
  <2>2. /\ EdgeTime(m + 1) \in Nat /\ now + isr < EdgeTime(m + 1) /\ Edges(EdgeTime(m + 1)) = m + 1
        /\ K * EdgeTime(m + 1) < K * (now + isr) + Calib * 1 + K
    BY <1>5, <2>1, EdgeAhead
  <2>3. QED
    BY <2>1, <2>2
<1>7. now' = t /\ TakeReference(t)
  BY <1>4, <1>5, <1>6 DEF Advance
<1>8. now <= t /\ isr \in Nat /\ isr <= IsrTime
  BY <1>1, <1>6, Sizes
<1>9. Count(t) = (m + 1 + Base) % Word
  BY <1>6 DEF Count
<1>10. /\ K * (due' - now') >= K * (MinSleep - IsrTime) - Calib - K
       /\ due' - now' <= PastLimit
  <2>1. K * (now + isr) = K * now + K * isr /\ K * now \in Int /\ K * isr \in Int /\ K * due \in Int /\ K * t \in Int
    BY <1>1, <1>8, Sizes
  <2>2. K * isr <= K * IsrTime
    BY <1>8, Sizes, Scale
  <2>3. K * MinSleep <= K * (due - now)
    BY <1>1, <1>3, Sizes, Scale
  <2>4. K * (due - now) = K * due - K * now /\ K * (due - t) = K * due - K * t
        /\ K * (MinSleep - IsrTime) = K * MinSleep - K * IsrTime
        /\ K * MinSleep \in Int /\ K * IsrTime \in Int
    BY <1>1, Sizes
  <2>5. K * (due - t) >= K * (MinSleep - IsrTime) - Calib - K
    BY <1>6, <2>1, <2>2, <2>3, <2>4, Sizes
  <2>6. due - t <= PastLimit
    BY <1>1, <1>3, <1>8, Sizes
  <2>7. QED
    BY <1>2, <1>7, <2>5, <2>6
<1>11. now' = EdgeTime(Edges(now'))
  BY <1>6, <1>7
<1>12. MatchKept' /\ WakesOnTime' /\ (pc' # "idle" => Timed' /\ result' = "none")
  <2>1. result' = "none"
    BY <1>2 DEF SleepIInv, CallKept
  <2>2. QED
    BY <1>2, <1>3, <2>1 DEF MatchKept, WakesOnTime
<1>13. CASE RefExpired(t)
  <2>1. PICK s \in 0 .. Word - 1 : s = (t + skew) % Word
    <3>1. t + skew \in Int
      BY <1>1
    <3>2. QED
      BY <3>1, WordRep
  <2>2. ref' = [tick |-> IF s % 2 = 0 THEN s + 1 ELSE s, tick32k |-> Count(t), no |-> 0]
        /\ refSkew' = skew /\ refAt' = t
    BY <1>7, <1>13, <2>1 DEF TakeReference
  <2>3. RefEdge' = m + 1
    BY <1>6, <2>2 DEF RefEdge
  <2>4. Odd' = IF s % 2 = 0 THEN 1 ELSE 0
    BY <2>1, <2>2 DEF Odd
  <2>5. Drift' = 0
    <3>1. Drift' = Signed(skew - skew) /\ skew - skew = 0
      BY <1>1, <1>2, <2>2 DEF Drift
    <3>2. 0 \in Int /\ 0 >= -(Word \div 2) /\ 0 < Word \div 2
      BY HalfWord, Sizes
    <3>3. Signed(0) = 0
      BY <3>2, SignedSmall
    <3>4. QED
      BY <3>1, <3>3
  <2>6. Ahead' = 0
    <3>1. PICK k \in Int : tick = due + skew + Word * k
      <4>1. due + skew \in Int
        BY <1>1
      <4>2. QED
        BY <1>3, <4>1, WordRep
    <3>2. Ahead' = Signed(tick - due - skew)
      BY <1>2, <2>2 DEF Ahead
    <3>3. tick - due - skew = 0 + Word * k /\ tick - due - skew \in Int
      BY <1>1, <3>1, Sizes
    <3>4. Signed(tick - due - skew) = Signed(0)
      BY <3>3, SignedSame
    <3>5. 0 \in Int /\ 0 >= -(Word \div 2) /\ 0 < Word \div 2
      BY HalfWord, Sizes
    <3>6. Signed(0) = 0
      BY <3>5, SignedSmall
    <3>7. QED
      BY <3>2, <3>4, <3>6
  <2>7. ref'.tick # 0 /\ ref'.tick = (refAt' + refSkew' + Odd') % Word
        /\ ref'.tick32k = (RefEdge' + Base) % Word
    <3>1. ref'.tick = IF s % 2 = 0 THEN s + 1 ELSE s
      BY <2>2
    <3>2. ref'.tick # 0
      BY <2>1, <3>1, Sizes
    <3>3. CASE s % 2 = 0
      <4>1. s + 1 \in 0 .. Word - 1
        BY <2>1, <3>3, HalfWord, Sizes
      <4>2. (s + 1) % Word = s + 1
        BY <4>1, WordSmall
      <4>3. (s + 1) % Word = (t + skew + 1) % Word
        <5>1. t + skew \in Int /\ 1 \in Int
          BY <1>1
        <5>2. (((t + skew) % Word) + 1) % Word = ((t + skew) + 1) % Word
          BY <5>1, WordSub
        <5>3. QED
          BY <2>1, <5>2
      <4>4. QED
        BY <1>9, <2>2, <2>3, <2>4, <3>1, <3>2, <3>3, <4>2, <4>3
    <3>4. CASE ~ (s % 2 = 0)
      <4>1. t + skew + 0 = t + skew
        BY <1>1
      <4>2. QED
        BY <1>9, <2>1, <2>2, <2>3, <2>4, <3>1, <3>2, <3>4, <4>1
    <3>5. QED
      BY <3>3, <3>4
  <2>8. RefKept'
    <3>1. Drift' \in -Calib .. 2 /\ ~ (Drift' < 0)
      BY <2>5, Sizes
    <3>2. refAt' = EdgeTime(RefEdge') /\ refAt' <= now' /\ now' - refAt' + Drift' >= 0
      BY <1>6, <1>7, <2>2, <2>3, <2>5
    <3>3. QED
      BY <2>7, <3>1, <3>2 DEF RefKept
  <2>9. tick' = (due' + refSkew' + Ahead') % Word
    <3>1. due + skew + 0 = due + skew
      BY <1>1
    <3>2. QED
      BY <1>2, <1>3, <2>2, <2>6, <3>1
  <2>10. Edges(now') - RefEdge' <= RefAge
    BY <1>6, <1>7, <2>3, Sizes
  <2>11. CallKept'
    BY <1>2, <1>10, <1>11, <1>12, <2>5, <2>6, <2>9, <2>10 DEF CallKept
  <2>12. QED
    BY <1>12, <2>8, <2>11
<1>14. CASE ~ RefExpired(t)
  <2>1. /\ ref.tick # 0 /\ ~ ((Count(t) - ref.tick32k) % RefMod > RefAge)
        /\ ref' = [ref EXCEPT !.no = @ + 1] /\ refSkew' = refSkew /\ refAt' = refAt
    BY <1>7, <1>14 DEF RefExpired, TakeReference
  <2>2. ref'.tick = ref.tick /\ ref'.tick32k = ref.tick32k
    BY <2>1 DEF SleepIInv, TypeOK
  <2>3. RefEdge' = RefEdge /\ Odd' = Odd /\ Drift' = Drift /\ Ahead' = Ahead
    BY <1>2, <2>1, SameCall
  <2>4. RefEdge <= m + 1 /\ m + 1 - RefEdge < RefMod
    <3>1. refAt <= t
      BY <1>1, <1>8 DEF SleepIInv, RefKept
    <3>2. RefEdge <= m + 1
      BY <1>1, <1>6, <3>1, EdgesRise DEF RefEdge
    <3>3. Edges(now + IsrTime) + 1 - RefEdge < RefMod
      BY <1>2 DEF Undisturbed
    <3>4. m <= Edges(now + IsrTime) /\ Edges(now + IsrTime) \in Nat
      <4>1. now + isr \in Nat /\ now + IsrTime \in Nat /\ now + isr <= now + IsrTime
        BY <1>1, <1>8, Sizes
      <4>2. QED
        BY <1>5, <4>1, EdgesRise, EdgesBounds
    <3>5. QED
      BY <1>1, <3>2, <3>3, <3>4, Sizes
  <2>5. m + 1 - RefEdge <= RefAge
    <3>1. PICK w \in Int : w = m + 1 - RefEdge /\ w \in 0 .. RefMod - 1
      BY <1>1, <2>4, Sizes
    <3>2. ref.tick32k = (RefEdge + Base) % Word
      BY <2>1 DEF SleepIInv, RefKept
    <3>3. PICK i \in Int : Count(t) = m + 1 + Base + Word * i
      <4>1. m + 1 + Base \in Int
        BY Sizes
      <4>2. QED
        BY <1>9, <4>1, WordRep
    <3>4. PICK j \in Int : ref.tick32k = RefEdge + Base + Word * j
      <4>1. RefEdge + Base \in Int
        BY <1>1, Sizes
      <4>2. QED
        BY <3>2, <4>1, WordRep
    <3>5. PICK e \in Int : Word = RefMod * e
      <4>1. Word = RefMod * (Word \div RefMod) + (Word % RefMod) /\ Word \div RefMod \in Int
        BY Sizes, DivMod
      <4>2. Word % RefMod = 0
        BY SleepAssumption
      <4>3. QED
        BY <4>1, <4>2, Sizes
    <3>6. Count(t) - ref.tick32k = w + Word * (i - j)
      <4>1. Word * (i - j) = Word * i - Word * j /\ Word * i \in Int /\ Word * j \in Int
        BY Sizes
      <4>2. QED
        BY <1>1, <3>1, <3>3, <3>4, <4>1, Sizes
    <3>7. Count(t) - ref.tick32k = RefMod * (e * (i - j)) + w
      <4>1. (RefMod * e) * (i - j) = RefMod * (e * (i - j))
        BY Sizes
      <4>2. Word * (i - j) = (RefMod * e) * (i - j)
        BY <3>5
      <4>3. Word * (i - j) \in Int
        BY Sizes
      <4>4. QED
        BY <3>1, <3>6, <4>1, <4>2, <4>3
    <3>8. PICK q \in Int : q = e * (i - j)
      OBVIOUS
    <3>9. (RefMod * q + w) % RefMod = w
      BY <3>1, ModUnique, Sizes
    <3>10. (Count(t) - ref.tick32k) % RefMod = w
      BY <3>7, <3>8, <3>9
    <3>11. QED
      BY <2>1, <3>1, <3>10, Sizes
  <2>6. PICK k \in Int : tick = due + skew + Word * k
    <3>1. due + skew \in Int
      BY <1>1
    <3>2. QED
      BY <1>3, <3>1, WordRep
  <2>7. Ahead = Drift
    <3>1. tick - due - refSkew = (skew - refSkew) + Word * k
      BY <1>1, <2>6, Sizes
    <3>2. tick - due - refSkew \in Int /\ skew - refSkew \in Int
      BY <1>1
    <3>3. QED
      BY <3>1, <3>2, SignedSame DEF Ahead, Drift
  <2>8. tick = (due + refSkew + Ahead) % Word
    <3>1. PICK j \in Int : Drift = skew - refSkew + Word * j
      <4>1. skew - refSkew \in Int
        BY <1>1
      <4>2. QED
        BY <4>1, SignedRep DEF Drift
    <3>2. due + refSkew + Drift = (due + skew) + Word * j
      BY <1>1, <3>1, Sizes
    <3>3. due + refSkew + Drift \in Int /\ due + skew \in Int
      BY <1>1
    <3>4. (due + refSkew + Drift) % Word = (due + skew) % Word
      BY <3>2, <3>3, WordSame
    <3>5. QED
      BY <1>3, <2>7, <3>4
  <2>9. Drift >= 0
    <3>1. Drift < 0 => Edges(now) - RefEdge >= RefAge
      BY DEF SleepIInv, RefKept
    <3>2. Edges(now) \in Nat /\ Edges(now) <= m
      <4>1. now + isr \in Nat /\ now <= now + isr
        BY <1>1, <1>8
      <4>2. QED
        BY <1>1, <1>5, <4>1, EdgesRise, EdgesBounds
    <3>3. QED
      BY <1>1, <2>5, <3>1, <3>2, Sizes
  <2>10. RefKept'
    <3>1. Drift' \in -Calib .. 2 /\ ~ (Drift' < 0)
      BY <1>1, <2>3, <2>9 DEF SleepIInv, RefKept
    <3>2. refAt' = EdgeTime(RefEdge')
      BY <2>1, <2>3 DEF SleepIInv, RefKept
    <3>3. refAt' <= now' /\ now' - refAt' + Drift' >= 0
      BY <1>1, <1>7, <1>8, <2>1, <2>3 DEF SleepIInv, RefKept
    <3>4. ref'.tick # 0 /\ ref'.tick = (refAt' + refSkew' + Odd') % Word
          /\ ref'.tick32k = (RefEdge' + Base) % Word
      BY <2>1, <2>2, <2>3 DEF SleepIInv, RefKept
    <3>5. QED
      BY <3>1, <3>2, <3>3, <3>4 DEF RefKept
  <2>11. tick' = (due' + refSkew' + Ahead') % Word /\ Ahead' = Drift' /\ Drift' >= 0
    BY <1>2, <2>1, <2>3, <2>7, <2>8, <2>9
  <2>12. Edges(now') - RefEdge' <= RefAge
    <3>1. Edges(now') = m + 1
      BY <1>6, <1>7
    <3>2. PICK a \in Int, b \in Int : a = Edges(now') /\ b = RefEdge' /\ a - b <= RefAge
      BY <1>1, <2>3, <2>5, <3>1
    <3>3. QED
      BY <3>2
  <2>13. CallKept'
    BY <1>2, <1>10, <1>11, <1>12, <2>11, <2>12 DEF CallKept
  <2>14. QED
    BY <1>12, <2>10, <2>13
<1>15. QED
  BY <1>13, <1>14

(* The wake-up value: it lies ahead of the 32k counter.                    *)
LEMMA ArmStep ==
  ASSUME Proportions, SleepIInv, TypeOK', Arm
  PROVE  RefKept' /\ CallKept' /\ MatchKept' /\ WakesOnTime'
<1> USE DEF InSleep
<1>1. /\ now \in Nat /\ due \in Int /\ skew \in Int /\ refSkew \in Int /\ refAt \in Nat /\ tick \in Int
      /\ RefEdge \in Nat /\ Odd \in 0 .. 1 /\ Drift \in Int /\ Ahead \in Int /\ Distance \in Int
      /\ Calib * RefEdge <= K * refAt /\ K * refAt < Calib * RefEdge + K
      /\ ref.tick \in Int /\ ref.tick32k \in Int
  BY RefBounds DEF SleepIInv, TypeOK
<1>2. /\ pc = "arm" /\ pc' = "check" /\ result' = result /\ armed' = sources /\ flags' = {}
      /\ UNCHANGED <<now, skew, tick, due, sources, ref, refSkew, refAt>>
  BY DEF Arm, call, pmcd
<1>3. /\ Timed /\ result = "none" /\ tick = (due + refSkew + Ahead) % Word
      /\ Ahead = Drift /\ Drift >= 0 /\ Edges(now) - RefEdge <= RefAge
      /\ K * (due - now) >= K * (MinSleep - IsrTime) - Calib - K
      /\ due - now <= PastLimit
      /\ now = EdgeTime(Edges(now))
  BY <1>2 DEF SleepIInv, CallKept
<1>4. /\ ref.tick = (refAt + refSkew + Odd) % Word /\ ref.tick32k = (RefEdge + Base) % Word
      /\ refAt <= now /\ Drift \in 0 .. 2
  <2>1. Drift >= 0 /\ Drift \in -Calib .. 2
    BY <1>3 DEF SleepIInv, RefKept
  <2>2. QED
    BY <1>1, <1>2, <2>1, Sizes DEF SleepIInv, RefKept
<1>5. RefEdge' = RefEdge /\ Odd' = Odd /\ Drift' = Drift /\ Ahead' = Ahead /\ Distance' = Distance
  BY <1>2, SameCall
<1>6. WakeDistance = Distance % Word
  <2>1. due + refSkew + Ahead \in Int /\ refAt + refSkew + Odd \in Int /\ Early \in Int
    BY <1>1, Sizes
  <2>2. PICK a \in Int : a = due + refSkew + Ahead
    BY <2>1
  <2>3. PICK b \in Int : b = refAt + refSkew + Odd
    BY <2>1
  <2>4. PICK x \in Int : x = a % Word /\ x = tick
    BY <1>1, <1>3, <2>2
  <2>5. PICK y \in Int : y = b % Word /\ y = ref.tick
    BY <1>1, <1>4, <2>3
  <2>6. PICK i \in Int : x = a + Word * i
    BY <2>4, WordRep
  <2>7. PICK j \in Int : y = b + Word * j
    BY <2>5, WordRep
  <2>8. x - Early - y = Distance + Word * (i - j)
    <3>1. Word * (i - j) = Word * i - Word * j /\ Word * i \in Int /\ Word * j \in Int
      BY Sizes
    <3>2. Distance = a - b - Early
      BY <1>1, <2>2, <2>3, Sizes DEF Distance
    <3>3. QED
      BY <2>6, <2>7, <3>1, <3>2, Sizes
  <2>9. x - Early - y \in Int /\ i - j \in Int
    BY Sizes
  <2>10. (x - Early - y) % Word = Distance % Word
    BY <1>1, <2>8, <2>9, WordSame
  <2>11. QED
    BY <2>4, <2>5, <2>10 DEF WakeDistance
<1>7. /\ K * Distance = K * due + K * Ahead - K * Early - K * refAt - K * Odd
      /\ {K * due, K * Ahead, K * Early, K * refAt, K * Odd, K * now, K * Distance,
          Calib * RefEdge} \subseteq Int
      /\ 0 <= K * Ahead /\ K * Ahead <= 2 * K /\ 0 <= K * Odd /\ K * Odd <= K
      /\ K * (due - now) = K * due - K * now
  <2>1. Odd = 0 \/ Odd = 1
    BY <1>1
  <2>2. Ahead = 0 \/ Ahead = 1 \/ Ahead = 2
    BY <1>1, <1>3, <1>4
  <2>3. 0 <= K * Ahead /\ K * Ahead <= 2 * K /\ 0 <= K * Odd /\ K * Odd <= K
    BY <2>1, <2>2, Sizes
  <2>4. K * Distance = K * due + K * Ahead - K * Early - K * refAt - K * Odd
    BY <1>1, Sizes DEF Distance
  <2>5. {K * due, K * Ahead, K * Early, K * refAt, K * Odd, K * now, K * Distance,
         Calib * RefEdge} \subseteq Int
    BY <1>1, Sizes
  <2>6. K * (due - now) = K * due - K * now
    BY <1>1, Sizes
  <2>7. QED
    BY <2>3, <2>4, <2>5, <2>6
<1>8. PICK e \in Nat :
        /\ e = Edges(now) /\ Calib * e <= K * now /\ K * now < Calib * e + K
        /\ RefEdge <= e /\ e - RefEdge <= RefAge
  <2>1. Edges(now) \in Nat /\ Calib * Edges(now) <= K * now
    BY <1>1, EdgesBounds
  <2>2. K * now < Calib * Edges(now) + K
    BY <1>3, <2>1, EdgeTimeBounds
  <2>3. RefEdge <= Edges(now)
    BY <1>1, <1>4, EdgesRise DEF RefEdge
  <2>4. QED
    BY <1>3, <2>1, <2>2, <2>3
<1>9. /\ Calib * e \in Int /\ Calib * (e - RefEdge) = Calib * e - Calib * RefEdge
      /\ Calib * (e - RefEdge) <= Calib * RefAge
  <2>1. e - RefEdge \in Int
    BY <1>1
  <2>2. Calib * (e - RefEdge) <= Calib * RefAge
    BY <1>8, <2>1, Sizes, Scale
  <2>3. QED
    BY <1>1, <2>2, Sizes
<1>10. K * (due - now) <= K * PastLimit
  BY <1>1, <1>3, Sizes, Scale
<1>11. K * Distance > Calib * e - Calib * RefEdge + Calib
  BY <1>1, <1>3, <1>7, <1>8, <1>9, Products, Sizes
<1>12. Distance \in 0 .. Word - 1
  <2>1. 0 <= Calib * (e - RefEdge)
    <3>1. e - RefEdge \in Nat
      BY <1>1, <1>8
    <3>2. QED
      BY <3>1, Sizes
  <2>2. K * Distance > 0
    BY <1>7, <1>9, <1>11, <2>1, Sizes
  <2>3. K * Distance < K * Word
    BY <1>1, <1>7, <1>8, <1>9, <1>10, Products, Sizes
  <2>4. ~ (Distance <= 0)
    <3>1. Distance <= 0 => K * Distance <= K * 0
      BY <1>1, Sizes, Scale
    <3>2. QED
      BY <1>7, <2>2, <3>1, Sizes
  <2>5. ~ (Word <= Distance)
    <3>1. Word <= Distance => K * Word <= K * Distance
      BY <1>1, Sizes, Scale
    <3>2. QED
      BY <1>7, <2>3, <3>1, Products, Sizes
  <2>6. QED
    BY <1>1, <2>4, <2>5, Sizes
<1>13. WakeDistance = Distance
  BY <1>6, <1>12, WordSmall
<1>14. long' \in BOOLEAN /\ (long' <=> Distance > LongLimit)
  <2>1. long' = (WakeDistance > LongLimit)
    BY <1>3 DEF Arm
  <2>2. long' \in BOOLEAN
    BY DEF TypeOK
  <2>3. QED
    BY <1>13, <2>1, <2>2
<1>15. Reach' = IF long' THEN (Distance \div Calib) * K ELSE (Distance * K + Calib \div 2) \div Calib
  BY <1>5 DEF Reach
<1>16. PICK r \in Nat :
         /\ r = Reach'
         /\ 2 * (Calib * r) <= 2 * (K * Distance) + Calib
         /\ K * Distance < Calib * r + K * Calib
         /\ ~ long' => K * Distance < Calib * r + Calib
  <2>1. Distance \in Nat
    BY <1>12
  <2>2. QED
    BY <1>14, <1>15, <2>1, ReachBounds
<1>17. match' = (RefEdge + r + Base) % Word
  <2>1. match' = WakeValue(long')
    BY DEF Arm
  <2>2. PICK u \in Int : u = RefEdge + Base
    BY <1>1, Sizes
  <2>3. ref.tick32k = u % Word
    BY <1>4, <2>2
  <2>4. ((u % Word) + r) % Word = (u + r) % Word
    <3>1. r \in Int
      OBVIOUS
    <3>2. QED
      BY <3>1, WordSub
  <2>5. u + r = RefEdge + r + Base
    BY <1>1, <2>2, Sizes
  <2>6. CASE long'
    <3>1. match' = (ref.tick32k + (Distance \div Calib) * K) % Word
      BY <1>13, <2>1, <2>6 DEF WakeValue
    <3>2. r = (Distance \div Calib) * K
      BY <1>15, <1>16, <2>6
    <3>3. QED
      BY <2>3, <2>4, <2>5, <3>1, <3>2
  <2>7. CASE ~ long'
    <3>1. match' = (ref.tick32k + (((Distance * K + Calib \div 2) % Word) \div Calib)) % Word
      BY <1>13, <2>1, <2>7 DEF WakeValue
    <3>2. Distance * K + Calib \div 2 \in 0 .. Word - 1
      <4>1. Distance <= LongLimit /\ Distance \in Nat
        BY <1>1, <1>12, <1>14, <2>7, Sizes
      <4>2. K * Distance <= K * LongLimit
        BY <4>1, Sizes, Scale
      <4>3. Distance * K = K * Distance /\ LongLimit * K = K * LongLimit /\ Distance * K \in Nat
        BY <4>1, Sizes
      <4>4. Calib \div 2 \in Nat
        BY Sizes
      <4>5. LongLimit * K + Calib \div 2 < Word
        BY ConversionFits
      <4>6. QED
        BY <4>2, <4>3, <4>4, <4>5, Products, Sizes
    <3>3. (Distance * K + Calib \div 2) % Word = Distance * K + Calib \div 2
      BY <3>2, WordSmall
    <3>4. r = (Distance * K + Calib \div 2) \div Calib
      BY <1>15, <1>16, <2>7
    <3>5. QED
      BY <2>3, <2>4, <2>5, <3>1, <3>3, <3>4
  <2>8. QED
    BY <2>6, <2>7
<1>18. e < RefEdge + r
  <2>1. PICK a \in Int : a = e - RefEdge
    BY <1>1
  <2>2. Calib * a = Calib * e - Calib * RefEdge /\ Calib * a \in Int /\ Calib * r \in Int
    BY <1>9, <2>1, Sizes
  <2>3. CASE ~ long'
    <3>1. Calib * a < Calib * r
      <4>1. Calib * a + Calib < K * Distance
        BY <1>7, <1>9, <1>11, <2>2, Sizes
      <4>2. K * Distance < Calib * r + Calib
        BY <1>16, <2>3
      <4>3. QED
        BY <1>7, <2>2, <4>1, <4>2, Sizes
    <3>2. ~ (r <= a)
      <4>1. r <= a => Calib * r <= Calib * a
        BY Sizes, Scale
      <4>2. QED
        BY <2>2, <3>1, <4>1
    <3>3. QED
      BY <1>1, <2>1, <3>2
  <2>4. CASE long'
    <3>1. LongLimit <= Distance
      BY <1>1, <1>14, <2>4, Sizes
    <3>2. K * LongLimit <= K * Distance
      BY <1>1, <3>1, Sizes, Scale
    <3>3. Calib * a < Calib * r
      BY <1>7, <1>9, <1>16, <2>1, <2>2, <3>2, Products, Sizes
    <3>4. ~ (r <= a)
      <4>1. r <= a => Calib * r <= Calib * a
        BY Sizes, Scale
      <4>2. QED
        BY <2>2, <3>3, <4>1
    <3>5. QED
      BY <1>1, <2>1, <3>4
  <2>5. QED
    BY <2>3, <2>4
<1>19. MatchEdge' = RefEdge + r
  BY <1>5, <1>16 DEF MatchEdge
<1>20. RefKept'
  <2>1. now <= now'
    BY <1>1, <1>2
  <2>2. UNCHANGED <<skew, ref, refSkew, refAt>>
    BY <1>2
  <2>3. pc' \in InSleep => pc \in InSleep
    BY <1>2
  <2>4. QED
    BY <2>1, <2>2, <2>3, RefStays DEF SleepIInv
<1>21. CallKept'
  <2>1. Timed'
    BY <1>2, <1>3 DEF Timed
  <2>2. QED
    BY <1>2, <1>3, <1>5, <2>1 DEF CallKept
<1>22. MatchKept'
  <2>1. Ahead' \in 0 .. 2 /\ Distance' \in 0 .. Word - 1 /\ (long' <=> Distance' > LongLimit)
    BY <1>3, <1>4, <1>5, <1>12, <1>14
  <2>2. match' = (MatchEdge' + Base) % Word
    BY <1>17, <1>19
  <2>3. Edges(now') < MatchEdge'
    BY <1>2, <1>8, <1>18, <1>19
  <2>4. QED
    BY <1>2, <2>1, <2>2, <2>3 DEF MatchKept
<1>23. QED
  BY <1>2, <1>3, <1>20, <1>21, <1>22 DEF WakesOnTime

LEMMA CheckStep ==
  ASSUME Proportions, SleepIInv, TypeOK', SkipSleep \/ FallAsleep \/ PadEdge
  PROVE  RefKept' /\ CallKept' /\ MatchKept' /\ WakesOnTime'
<1> USE DEF InSleep
<1>1. /\ pc = "check" /\ result' = result
      /\ UNCHANGED <<now, skew, match, armed, sources, tick, due, ref, refSkew, refAt, long>>
  BY DEF SkipSleep, FallAsleep, PadEdge, call, pmcd
<1>2. pc' \in {"check", "recover", "asleep"}
  BY DEF SkipSleep, FallAsleep, PadEdge
<1>3. RefEdge' = RefEdge /\ Ahead' = Ahead /\ Distance' = Distance /\ MatchEdge' = MatchEdge
  BY <1>1, SameCall
<1>4. now \in Nat
  BY DEF SleepIInv, TypeOK
<1>5. RefKept'
  <2>1. now <= now' /\ (pc' \in InSleep => pc \in InSleep)
    BY <1>1, <1>4
  <2>2. QED
    BY <1>1, <2>1, RefStays DEF SleepIInv
<1>6. Timed' /\ result' = "none" /\ tick' = (due' + refSkew' + Ahead') % Word
  BY <1>1, <1>3 DEF SleepIInv, CallKept, Timed
<1>7. CallKept'
  BY <1>2, <1>6 DEF CallKept
<1>8. /\ Ahead \in 0 .. 2
      /\ Distance \in 0 .. Word - 1 /\ (long <=> Distance > LongLimit)
      /\ match = (MatchEdge + Base) % Word
      /\ armed = sources
      /\ "timer" \notin flags /\ Edges(now) < MatchEdge
  BY <1>1 DEF SleepIInv, MatchKept
<1>9. "timer" \notin flags'
  BY <1>8 DEF SkipSleep, FallAsleep, PadEdge
<1>10. MatchEdge \in Nat /\ Edges(now) \in Nat
  BY <1>4, <1>8, MatchBounds, EdgesBounds DEF SleepIInv
<1>11. ~ (Edges(now) >= MatchEdge)
  BY <1>8, <1>10
<1>12. K * now < Calib * MatchEdge + K * Early + K
  <2>1. K * now < Calib * Edges(now) + Calib
    BY <1>4, EdgesBounds
  <2>2. Calib * (Edges(now) + 1) <= Calib * MatchEdge /\ Calib * (Edges(now) + 1) = Calib * Edges(now) + Calib
    <3>1. Edges(now) + 1 \in Int /\ Edges(now) + 1 <= MatchEdge
      BY <1>8, <1>10
    <3>2. QED
      BY <1>10, <3>1, Sizes, Scale
  <2>3. K * now \in Int /\ Calib * MatchEdge \in Int /\ Calib * Edges(now) \in Int /\ K * Early \in Nat
    BY <1>4, <1>10, Sizes
  <2>4. QED
    BY <2>1, <2>2, <2>3, Sizes
<1>13. MatchKept'
  <2>1. /\ Ahead' \in 0 .. 2
        /\ Distance' \in 0 .. Word - 1 /\ (long' <=> Distance' > LongLimit)
        /\ match' = (MatchEdge' + Base) % Word
        /\ armed' = sources'
        /\ "timer" \notin flags' /\ Edges(now') < MatchEdge'
        /\ ~ (Edges(now') >= MatchEdge')
        /\ K * now' < Calib * MatchEdge' + K * Early + K
    BY <1>1, <1>3, <1>8, <1>9, <1>11, <1>12
  <2>2. QED
    BY <1>2, <2>1 DEF MatchKept
<1>14. QED
  BY <1>5, <1>6, <1>7, <1>13 DEF WakesOnTime

(* The comparator fires at the edge that was computed, and no later than   *)
(* the caller asked for.                                                   *)
LEMMA MatchTold ==
  ASSUME Proportions, SleepIInv, pc = "asleep"
  PROVE  /\ MatchEdge \in Nat /\ MatchTime = EdgeTime(MatchEdge) /\ now < MatchTime
         /\ MatchTime <= due
<1>1. /\ now \in Nat /\ due \in Int
      /\ Ahead \in 0 .. 2 /\ Distance \in 0 .. Word - 1
      /\ match = (MatchEdge + Base) % Word
      /\ Edges(now) < MatchEdge
  BY DEF SleepIInv, MatchKept, TypeOK, InSleep
<1>2. /\ Reach \in 0 .. Word - 1 /\ MatchEdge \in Nat /\ MatchEdge = RefEdge + Reach
      /\ 2 * (Calib * MatchEdge) + 2 * (K * Early) <= 2 * (K * due) + 2 * (K * Ahead) + Calib
  BY <1>1, MatchBounds DEF SleepIInv, MatchEdge
<1>3. PICK e \in Nat : e = Edges(now)
  BY <1>1, EdgesBounds
<1>4. RefEdge \in Nat /\ RefEdge <= e
  <2>1. RefEdge \in Nat /\ refAt \in Nat /\ refAt <= now
    BY RefBounds DEF SleepIInv, RefKept, TypeOK
  <2>2. QED
    BY <1>1, <1>3, <2>1, EdgesRise DEF RefEdge
<1>5. PICK m \in Nat : m = MatchEdge
  BY <1>2
<1>6. m - e - 1 \in 0 .. Word - 1
  BY <1>1, <1>2, <1>3, <1>4, <1>5, Sizes
<1>7. (match - Count(now) - 1) % Word = m - e - 1
  <2>1. PICK i \in Int : match = m + Base + Word * i
    <3>1. m + Base \in Int
      BY Sizes
    <3>2. QED
      BY <1>1, <1>5, <3>1, WordRep
  <2>2. PICK j \in Int : Count(now) = e + Base + Word * j
    <3>1. e + Base \in Int
      BY Sizes
    <3>2. QED
      BY <1>3, <3>1, WordRep DEF Count
  <2>3. match - Count(now) - 1 = (m - e - 1) + Word * (i - j)
    <3>1. Word * (i - j) = Word * i - Word * j /\ Word * i \in Int /\ Word * j \in Int
      BY Sizes
    <3>2. QED
      BY <2>1, <2>2, <3>1, Sizes
  <2>4. match - Count(now) - 1 \in Int /\ i - j \in Int /\ m - e - 1 \in Int
    <3>1. match \in Int /\ Count(now) \in Int
      BY <1>1, CountWord DEF SleepIInv, TypeOK
    <3>2. QED
      BY <3>1
  <2>5. (match - Count(now) - 1) % Word = (m - e - 1) % Word
    BY <2>3, <2>4, WordSame
  <2>6. QED
    BY <1>6, <2>5, WordSmall
<1>8. MatchTime = EdgeTime(m)
  <2>1. e + 1 + (m - e - 1) = m
    OBVIOUS
  <2>2. QED
    BY <1>3, <1>7, <2>1 DEF MatchTime
<1>9. now < EdgeTime(m)
  BY <1>1, <1>5, BeforeEdge
<1>10. EdgeTime(m) <= due
  <2>1. EdgeTime(m) \in Nat /\ K * EdgeTime(m) < Calib * m + K
    BY EdgeTimeBounds
  <2>2. K * Ahead <= 2 * K /\ K * Ahead \in Int
    <3>1. Ahead = 0 \/ Ahead = 1 \/ Ahead = 2
      BY <1>1
    <3>2. QED
      BY <3>1, Sizes
  <2>3. {K * due, K * Early, Calib * m, K * EdgeTime(m)} \subseteq Int
    BY <1>1, <2>1, Sizes
  <2>4. K * EdgeTime(m) < K * due + K
    BY <1>2, <1>5, <2>1, <2>2, <2>3, Products, Sizes
  <2>5. QED
    BY <1>1, <2>1, <2>4, Sizes, Scale
<1>11. QED
  BY <1>5, <1>8, <1>9, <1>10

LEMMA WakeStep ==
  ASSUME Proportions, SleepIInv, TypeOK', TimerWake \/ PadWake
  PROVE  RefKept' /\ CallKept' /\ MatchKept' /\ WakesOnTime'
<1> USE DEF InSleep
<1>1. /\ pc = "asleep" /\ pc' \in {"recover", "boot"} /\ result' = result
      /\ UNCHANGED <<skew, match, armed, sources, tick, due, ref, refSkew, refAt, long>>
  BY DEF TimerWake, PadWake, Resume, call, pmcd
<1>2. /\ now \in Nat /\ now' \in Nat
      /\ MatchEdge \in Nat /\ MatchTime = EdgeTime(MatchEdge) /\ now < MatchTime
  BY <1>1, MatchTold DEF SleepIInv, TypeOK
<1>3. RefEdge' = RefEdge /\ Ahead' = Ahead /\ Distance' = Distance /\ MatchEdge' = MatchEdge
  BY <1>1, SameCall
<1>4. /\ MatchTime \in Nat /\ K * MatchTime < Calib * MatchEdge + K /\ Edges(MatchTime) = MatchEdge
  BY <1>2, EdgeTimeBounds, AtEdge
<1>5. /\ now <= now' /\ ("timer" \in flags' <=> Edges(now') >= MatchEdge)
      /\ K * now' < Calib * MatchEdge + K * Early + K
  <2>1. Edges(now') \in Nat /\ K * now' < Calib * Edges(now') + Calib
    BY <1>2, EdgesBounds
  <2>2. {K * now', Calib * MatchEdge, Calib * Edges(now'), K * MatchTime} \subseteq Int
    BY <1>2, <1>4, <2>1, Sizes
  <2>3. CASE TimerWake
    <3>1. PICK delay \in {0, Early} : now' = MatchTime + delay
      BY <2>3 DEF TimerWake
    <3>2. delay \in Nat /\ K * delay \in Int /\ K * delay <= K * Early
      BY <3>1, Sizes
    <3>3. K * now' = K * MatchTime + K * delay
      BY <1>4, <3>1, <3>2, Sizes
    <3>4. MatchTime <= now' /\ now <= now'
      BY <1>2, <1>4, <3>1, <3>2
    <3>5. MatchEdge <= Edges(now')
      BY <1>2, <1>4, <3>4, EdgesRise
    <3>6. flags' = {"timer"}
      BY <2>3 DEF TimerWake
    <3>7. K * now' < Calib * MatchEdge + K * Early + K
      BY <1>4, <2>2, <3>2, <3>3, Products, Sizes
    <3>8. QED
      BY <1>2, <2>1, <3>4, <3>5, <3>6, <3>7
  <2>4. CASE PadWake
    <3>1. PICK t \in {now + 1, now + Early, due - 2 * Early, now + Word} :
            t > now /\ ("timer" \in armed => t < MatchTime) /\ now' = t
      BY <2>4 DEF PadWake
    <3>2. "timer" \in armed
      BY <1>1 DEF SleepIInv, CallKept, MatchKept, Timed
    <3>3. now < now' /\ now' < MatchTime
      BY <1>2, <3>1, <3>2
    <3>4. Edges(now') < MatchEdge
      BY <1>2, <3>3, BeforeEdge
    <3>5. flags' = {"pad"}
      BY <2>4 DEF PadWake
    <3>6. Calib * (Edges(now') + 1) <= Calib * MatchEdge
          /\ Calib * (Edges(now') + 1) = Calib * Edges(now') + Calib
      <4>1. Edges(now') + 1 \in Int /\ Edges(now') + 1 <= MatchEdge
        BY <1>2, <2>1, <3>4
      <4>2. QED
        BY <1>2, <2>1, <4>1, Sizes, Scale
    <3>7. K * now' < Calib * MatchEdge + K * Early + K
      BY <2>1, <2>2, <3>6, Products, Sizes
    <3>8. QED
      BY <1>2, <2>1, <3>3, <3>4, <3>5, <3>7
  <2>5. QED
    BY <2>3, <2>4
<1>6. RefKept'
  <2>1. pc' \in InSleep => pc \in InSleep
    BY <1>1
  <2>2. QED
    BY <1>1, <1>5, <2>1, RefStays DEF SleepIInv
<1>7. Timed' /\ result' = "none" /\ tick' = (due' + refSkew' + Ahead') % Word
  BY <1>1, <1>3 DEF SleepIInv, CallKept, Timed
<1>8. CallKept'
  BY <1>1, <1>7 DEF CallKept
<1>9. /\ Ahead' \in 0 .. 2
      /\ Distance' \in 0 .. Word - 1 /\ (long' <=> Distance' > LongLimit)
      /\ match' = (MatchEdge' + Base) % Word
      /\ armed' = sources'
  BY <1>1, <1>3 DEF SleepIInv, MatchKept
<1>10. MatchKept'
  BY <1>1, <1>3, <1>5, <1>9 DEF MatchKept
<1>11. QED
  BY <1>6, <1>7, <1>8, <1>10 DEF WakesOnTime

(* The ticks that an interval of the 32k counter is converted back to.     *)
LEMMA TicksBack ==
  ASSUME NEW d \in Nat, NEW isLong \in BOOLEAN, NEW q,
         q = IF isLong THEN (d \div K) * Calib ELSE (d * Calib) \div K
  PROVE  /\ q \in Nat
         /\ K * q <= Calib * d
         /\ Calib * d < K * q + K * Calib
         /\ ~ isLong => Calib * d < K * q + K
<1>1. CASE isLong
  <2>1. d = K * (d \div K) + (d % K) /\ d % K \in 0 .. K - 1 /\ d \div K \in Int
    BY Sizes, DivMod
  <2>2. PICK g \in Int : g = d \div K
    BY <2>1
  <2>3. g >= 0
    BY <2>2, Sizes
  <2>4. PICK r \in 0 .. K - 1 : r = d % K
    BY <2>1
  <2>5. PICK a \in Int : a = K * g
    BY Sizes
  <2>6. d = a + r
    BY <2>1, <2>2, <2>4, <2>5
  <2>7. Calib * d = Calib * a + Calib * r
    BY <2>6, Sizes
  <2>8. Calib * a = K * (g * Calib)
    <3>1. Calib * (K * g) = K * (g * Calib)
      BY Sizes
    <3>2. QED
      BY <2>5, <3>1
  <2>9. 0 <= Calib * r /\ Calib * r < K * Calib
    <3>1. r \in Int /\ r + 1 \in Int /\ 0 <= r /\ r + 1 <= K
      BY Sizes
    <3>2. Calib * 0 <= Calib * r /\ Calib * (r + 1) <= Calib * K
      BY <3>1, Sizes, Scale
    <3>3. Calib * (r + 1) = Calib * r + Calib /\ Calib * K = K * Calib
      BY <3>1, Sizes
    <3>4. QED
      BY <3>1, <3>2, <3>3, Sizes
  <2>10. PICK p \in Nat : p = g * Calib
    <3>1. g * Calib \in Nat
      BY <2>3, Sizes
    <3>2. QED
      BY <3>1
  <2>11. q = p
    BY <1>1, <2>2, <2>10
  <2>12. Calib * a = K * p /\ K * p \in Int /\ Calib * r \in Int /\ K * Calib \in Int /\ Calib * d \in Int
    BY <2>8, <2>10, Sizes
  <2>13. K * p <= Calib * d /\ Calib * d < K * p + K * Calib
    BY <2>7, <2>9, <2>12
  <2>14. QED
    BY <1>1, <2>10, <2>11, <2>13
<1>2. CASE ~ isLong
  <2>1. PICK x \in Nat : x = d * Calib
    <3>1. d * Calib \in Nat
      BY Sizes
    <3>2. QED
      BY <3>1
  <2>2. x = K * (x \div K) + (x % K) /\ x % K \in 0 .. K - 1 /\ x \div K \in Int
    BY Sizes, DivMod
  <2>3. x \div K >= 0
    BY Sizes
  <2>4. PICK p \in Nat : p = x \div K
    BY <2>2, <2>3
  <2>5. q = p
    BY <1>2, <2>1, <2>4
  <2>6. x = Calib * d /\ K * p \in Int /\ K <= K * Calib /\ K * Calib \in Int
    BY <2>1, Sizes
  <2>7. K * p <= x /\ x < K * p + K
    BY <2>2, <2>4, Sizes
  <2>8. QED
    BY <2>4, <2>5, <2>6, <2>7, Sizes
<1>3. QED
  BY <1>1, <1>2

LEMMA RecoverStep ==
  ASSUME Proportions, SleepIInv, Undisturbed, TypeOK', RecoverTimer
  PROVE  RefKept' /\ CallKept' /\ MatchKept' /\ WakesOnTime'
<1> USE DEF InSleep
<1>1. /\ pc \in {"recover", "boot"}
      /\ UNCHANGED <<match, armed, sources, tick, due, ref, refSkew, refAt, long>>
      /\ \/ pc' = "wait" /\ result' = result
         \/ pc' = "idle" /\ result' = "retained"
  BY DEF RecoverTimer, call, pmcd
<1>2. /\ now \in Nat /\ due \in Int /\ skew \in Int /\ refSkew \in Int /\ refAt \in Nat
      /\ long \in BOOLEAN /\ ref.tick \in Int /\ ref.tick32k \in Int /\ skew' \in Int
      /\ RefEdge \in Nat /\ Odd \in 0 .. 1
      /\ Calib * RefEdge <= K * refAt /\ K * refAt < Calib * RefEdge + K
  BY RefBounds DEF SleepIInv, TypeOK
<1>3. /\ Ahead \in 0 .. 2 /\ Distance \in 0 .. Word - 1 /\ (long <=> Distance > LongLimit)
      /\ match = (MatchEdge + Base) % Word /\ armed = sources
      /\ "timer" \in flags <=> Edges(now) >= MatchEdge
      /\ K * now < Calib * MatchEdge + K * Early + K
  BY <1>1 DEF SleepIInv, MatchKept
<1>4. /\ Timed /\ result = "none" /\ tick = (due + refSkew + Ahead) % Word
      /\ ref.tick # 0 /\ ref.tick = (refAt + refSkew + Odd) % Word
      /\ ref.tick32k = (RefEdge + Base) % Word /\ refAt <= now
  BY <1>1 DEF SleepIInv, CallKept, RefKept
<1>5. /\ Reach \in 0 .. Word - 1 /\ MatchEdge \in Nat /\ MatchEdge = RefEdge + Reach
      /\ Calib * MatchEdge = Calib * RefEdge + Calib * Reach
      /\ 2 * (Calib * Reach) <= 2 * (K * Distance) + Calib
  BY <1>2, <1>3, MatchBounds DEF SleepIInv, MatchEdge
<1>6. /\ RefEdge' = RefEdge /\ Odd' = Odd /\ Ahead' = Ahead /\ Distance' = Distance
      /\ MatchEdge' = MatchEdge
  BY <1>1, SameCall
<1>7. PICK e \in Nat :
        e = Edges(now) /\ Calib * e <= K * now /\ K * now < Calib * e + Calib /\ RefEdge <= e
  <2>1. RefEdge <= Edges(now)
    BY <1>2, <1>4, EdgesRise DEF RefEdge
  <2>2. QED
    BY <1>2, <2>1, EdgesBounds
<1>8. PICK t \in Nat :
        /\ t = EdgeTime(e + 2) /\ now < t /\ Edges(t) = e + 2
        /\ K * t < K * now + 2 * Calib + K
        /\ Calib * e + 2 * Calib <= K * t /\ K * t < Calib * e + 2 * Calib + K
  <2>1. 2 \in Nat \ {0} /\ Calib * 2 = 2 * Calib /\ e + 2 \in Nat /\ Calib * (e + 2) = Calib * e + 2 * Calib
    BY Sizes
  <2>2. /\ EdgeTime(e + 2) \in Nat /\ now < EdgeTime(e + 2) /\ Edges(EdgeTime(e + 2)) = e + 2
        /\ K * EdgeTime(e + 2) < K * now + Calib * 2 + K
    BY <1>2, <1>7, <2>1, EdgeAhead
  <2>3. Calib * (e + 2) <= K * EdgeTime(e + 2) /\ K * EdgeTime(e + 2) < Calib * (e + 2) + K
    BY <2>1, EdgeTimeBounds
  <2>4. QED
    BY <2>1, <2>2, <2>3
<1>9. now' = t /\ skew' = Signed(Recovered(Count(t)) + 1 - t)
      /\ flags' = IF Matches(t) THEN flags \cup {"timer"} ELSE flags
  BY <1>7, <1>8 DEF RecoverTimer
<1>10. PICK d \in Nat : d = e + 2 - RefEdge
  <2>1. e + 2 - RefEdge \in Nat
    BY <1>2, <1>7
  <2>2. QED
    BY <2>1
<1>11. /\ {K * now, K * t, K * refAt, K * Distance, Calib * e, Calib * d, Calib * RefEdge,
           Calib * Reach, Calib * MatchEdge} \subseteq Int
       /\ Calib * d = Calib * e + 2 * Calib - Calib * RefEdge /\ 0 <= Calib * d
  BY <1>2, <1>3, <1>5, <1>10, Sizes
<1>12. 2 * (Calib * d) < 2 * (K * Distance) + 2 * (K * Early) + 2 * K + 5 * Calib
  BY <1>3, <1>5, <1>7, <1>11, Products, Sizes
<1>13. ~ long => Calib * d \in 0 .. Word - 1
  <2>1. ASSUME ~ long  PROVE Calib * d \in 0 .. Word - 1
    <3>1. Distance <= LongLimit /\ Distance \in Int
      BY <1>3, <2>1, Sizes
    <3>2. K * Distance <= K * LongLimit
      BY <3>1, Sizes, Scale
    <3>3. QED
      BY <1>11, <1>12, <3>2, Products, Sizes
  <2>2. QED
    BY <2>1
<1>14. d \in 0 .. Word - 1
  <2>1. Distance + 1 \in Int /\ Distance + 1 <= Word
    BY <1>3, Sizes
  <2>2. K * (Distance + 1) <= K * Word /\ K * (Distance + 1) = K * Distance + K
    BY <1>3, <2>1, Sizes, Scale
  <2>3. Calib * d < Calib * Word
    BY <1>11, <1>12, <2>2, Products, Sizes
  <2>4. ~ (Word <= d)
    <3>1. Word <= d => Calib * Word <= Calib * d
      BY Sizes, Scale
    <3>2. QED
      BY <1>11, <2>3, <3>1, Sizes
  <2>5. QED
    BY <2>4, Sizes
<1>15. (Count(t) - ref.tick32k) % Word = d
  <2>1. PICK i \in Int : Count(t) = e + 2 + Base + Word * i
    <3>1. e + 2 + Base \in Int
      BY Sizes
    <3>2. QED
      BY <1>8, <3>1, WordRep DEF Count
  <2>2. PICK j \in Int : ref.tick32k = RefEdge + Base + Word * j
    <3>1. RefEdge + Base \in Int
      BY <1>2, Sizes
    <3>2. QED
      BY <1>4, <3>1, WordRep
  <2>3. Count(t) - ref.tick32k = d + Word * (i - j)
    <3>1. Word * (i - j) = Word * i - Word * j /\ Word * i \in Int /\ Word * j \in Int
      BY Sizes
    <3>2. QED
      BY <1>2, <1>10, <2>1, <2>2, <3>1, Sizes
  <2>4. Count(t) - ref.tick32k \in Int /\ i - j \in Int /\ d \in Int
    BY <1>2, CountWord
  <2>5. (Count(t) - ref.tick32k) % Word = d % Word
    BY <2>3, <2>4, WordSame
  <2>6. QED
    BY <1>14, <2>5, WordSmall
<1>16. PICK q \in Nat :
         /\ q = IF long THEN (d \div K) * Calib ELSE (d * Calib) \div K
         /\ K * q <= Calib * d
         /\ Calib * d < K * q + K * Calib
         /\ ~ long => Calib * d < K * q + K
  BY <1>2, TicksBack
<1>17. Recovered(Count(t)) = ref.tick + q
  <2>1. CASE long
    BY <1>15, <1>16, <2>1 DEF Recovered
  <2>2. CASE ~ long
    <3>1. d * Calib = Calib * d
      BY Sizes
    <3>2. (d * Calib) % Word = d * Calib
      BY <1>13, <2>2, <3>1, WordSmall
    <3>3. QED
      BY <1>15, <1>16, <2>2, <3>2 DEF Recovered
  <2>3. QED
    BY <2>1, <2>2
<1>18. PICK x \in Int : x = refAt + Odd + q + 1 - t
  BY <1>2
<1>19. x \in -Calib .. 2 /\ (~ long => x >= 0)
  <2>1. K * Odd \in 0 .. K
    <3>1. Odd = 0 \/ Odd = 1
      BY <1>2
    <3>2. QED
      BY <3>1, Sizes
  <2>2. K * x = K * refAt + K * Odd + K * q + K - K * t /\ K * x \in Int /\ K * q \in Int
    BY <1>2, <1>18, Sizes
  <2>3. K * x < 2 * K + K
    BY <1>2, <1>8, <1>11, <1>16, <2>1, <2>2, Products, Sizes
  <2>4. -(K * Calib) < K * x + K
    BY <1>2, <1>8, <1>11, <1>16, <2>1, <2>2, Products, Sizes
  <2>5. x <= 2
    <3>1. K * x < K * 2 + K
      BY <2>2, <2>3, Sizes
    <3>2. QED
      BY <3>1, Sizes, Scale
  <2>6. -Calib <= x
    <3>1. K * (-Calib) < K * x + K /\ -Calib \in Int
      <4>1. K * (-Calib) = -(K * Calib) /\ -Calib \in Int
        BY Sizes
      <4>2. QED
        BY <2>4, <4>1
    <3>2. QED
      BY <3>1, Sizes, Scale
  <2>7. ASSUME ~ long  PROVE 0 <= x
    <3>1. Calib * d < K * q + K
      BY <1>16, <2>7
    <3>2. 0 < K * x + K
      BY <1>2, <1>8, <1>11, <2>1, <2>2, <3>1, Products, Sizes
    <3>3. K * 0 < K * x + K /\ 0 \in Int
      BY <3>2, Sizes
    <3>4. QED
      BY <3>3, Sizes, Scale
  <2>8. QED
    BY <2>5, <2>6, <2>7, Sizes
<1>20. Drift' = x
  <2>1. PICK i \in Int : skew' = ref.tick + q + 1 - t + Word * i
    <3>1. ref.tick + q + 1 - t \in Int
      BY <1>2
    <3>2. QED
      BY <1>9, <1>17, <3>1, SignedRep
  <2>2. PICK j \in Int : ref.tick = refAt + refSkew + Odd + Word * j
    <3>1. refAt + refSkew + Odd \in Int
      BY <1>2
    <3>2. QED
      BY <1>4, <3>1, WordRep
  <2>3. skew' - refSkew = x + Word * (i + j)
    <3>1. Word * (i + j) = Word * i + Word * j /\ Word * i \in Int /\ Word * j \in Int
      BY Sizes
    <3>2. QED
      BY <1>2, <1>18, <2>1, <2>2, <3>1
  <2>4. skew' - refSkew \in Int /\ i + j \in Int
    BY <1>2
  <2>5. Signed(skew' - refSkew) = Signed(x)
    BY <2>3, <2>4, SignedSame
  <2>6. x >= -(Word \div 2) /\ x < Word \div 2
    BY <1>19, HalfWord, Products, Sizes
  <2>7. Signed(x) = x
    BY <2>6, SignedSmall
  <2>8. QED
    BY <1>1, <2>5, <2>7 DEF Drift
<1>21. RefKept'
  <2>1. refAt' <= now' /\ now' - refAt' + Drift' >= 0
    BY <1>1, <1>2, <1>4, <1>8, <1>9, <1>18, <1>20
  <2>2. refAt' = EdgeTime(RefEdge')
    BY <1>1, <1>6 DEF SleepIInv, RefKept
  <2>3. ref'.tick # 0 /\ ref'.tick = (refAt' + refSkew' + Odd') % Word
        /\ ref'.tick32k = (RefEdge' + Base) % Word
    BY <1>1, <1>4, <1>6
  <2>4. ASSUME long  PROVE e + 2 - RefEdge >= RefAge
    <3>1. CASE "timer" \notin flags
      <4>1. e - RefEdge >= RefAge
        BY <1>1, <1>7, <2>4, <3>1 DEF Undisturbed
      <4>2. QED
        BY <1>2, <4>1, Sizes
    <3>2. CASE "timer" \in flags
      <4>1. e >= RefEdge + Reach
        BY <1>3, <1>5, <1>7, <3>2
      <4>2. Calib * RefAge <= Calib * Reach
        <5>1. LongLimit <= Distance /\ Distance \in Nat
          BY <1>3, <2>4, Sizes
        <5>2. K * LongLimit <= K * Distance
          BY <5>1, Sizes, Scale
        <5>3. Reach = (Distance \div Calib) * K
          BY <2>4 DEF Reach
        <5>4. K * Distance < Calib * Reach + K * Calib
          BY <5>1, <5>3, LongReach
        <5>5. QED
          BY <1>11, <5>2, <5>4, Products, Sizes
      <4>3. RefAge <= Reach
        <5>1. Calib * RefAge < Calib * Reach + Calib
          BY <1>11, <4>2, Products, Sizes
        <5>2. QED
          BY <1>5, <5>1, Sizes, Scale
      <4>4. QED
        BY <1>2, <1>5, <4>1, <4>3, Sizes
    <3>3. QED
      BY <3>1, <3>2
  <2>5. Drift' < 0 => Edges(now') - RefEdge' >= RefAge
    <3>1. Edges(now') = e + 2
      BY <1>8, <1>9
    <3>2. Drift' < 0 => long
      BY <1>2, <1>18, <1>19, <1>20
    <3>3. PICK a \in Int, b \in Int : a = Edges(now') /\ b = RefEdge' /\ (long => a - b >= RefAge)
      BY <1>2, <1>6, <2>4, <3>1
    <3>4. QED
      BY <3>2, <3>3
  <2>6. QED
    BY <1>19, <1>20, <2>1, <2>2, <2>3, <2>5 DEF RefKept
<1>22. CallKept'
  <2>1. tick' = (due' + refSkew' + Ahead') % Word /\ Timed'
    BY <1>1, <1>4, <1>6 DEF Timed
  <2>2. QED
    BY <1>1, <1>4, <2>1 DEF CallKept
<1>23. "timer" \in flags' => Edges(now') >= MatchEdge'
  <2>1. SUFFICES ASSUME "timer" \in flags'  PROVE e + 2 >= MatchEdge
    BY <1>6, <1>8, <1>9
  <2>2. CASE e >= MatchEdge
    BY <1>5, <2>2
  <2>3. CASE e < MatchEdge
    <3>1. "timer" \notin flags
      BY <1>3, <1>5, <1>7, <2>3
    <3>2. Matches(t)
      BY <1>9, <2>1, <3>1
    <3>3. PICK m \in Nat : m = MatchEdge
      BY <1>5
    <3>4. m - e \in 0 .. Word - 1
      BY <1>2, <1>5, <1>7, <2>3, <3>3, Sizes
    <3>5. (match - Count(now)) % Word = m - e
      <4>1. PICK i \in Int : match = m + Base + Word * i
        <5>1. m + Base \in Int
          BY Sizes
        <5>2. QED
          BY <1>3, <3>3, <5>1, WordRep
      <4>2. PICK j \in Int : Count(now) = e + Base + Word * j
        <5>1. e + Base \in Int
          BY Sizes
        <5>2. QED
          BY <1>7, <5>1, WordRep DEF Count
      <4>3. match - Count(now) = (m - e) + Word * (i - j)
        <5>1. Word * (i - j) = Word * i - Word * j /\ Word * i \in Int /\ Word * j \in Int
          BY Sizes
        <5>2. QED
          BY <4>1, <4>2, <5>1, Sizes
      <4>4. match - Count(now) \in Int /\ i - j \in Int /\ m - e \in Int
        <5>1. match \in Int /\ Count(now) \in Int
          BY <1>2, CountWord DEF SleepIInv, TypeOK
        <5>2. QED
          BY <5>1
      <4>5. (match - Count(now)) % Word = (m - e) % Word
        BY <4>3, <4>4, WordSame
      <4>6. QED
        BY <3>4, <4>5, WordSmall
    <3>6. m - e \in 1 .. (e + 2) - e
      BY <1>7, <1>8, <3>2, <3>5 DEF Matches
    <3>7. QED
      BY <3>3, <3>6
  <2>4. QED
    BY <1>5, <2>2, <2>3
<1>24. K * now' < Calib * (MatchEdge' + 2) + K * Early + 2 * K
  <2>1. Calib * (MatchEdge + 2) = Calib * MatchEdge + 2 * Calib
    BY <1>5, Sizes
  <2>2. K * t < Calib * MatchEdge + 2 * Calib + K * Early + 2 * K
    BY <1>3, <1>8, <1>11, Products, Sizes
  <2>3. QED
    BY <1>6, <1>9, <2>1, <2>2
<1>25. MatchKept'
  <2>1. /\ Ahead' \in 0 .. 2
        /\ Distance' \in 0 .. Word - 1 /\ (long' <=> Distance' > LongLimit)
        /\ match' = (MatchEdge' + Base) % Word
        /\ armed' = sources'
    BY <1>1, <1>3, <1>6
  <2>2. QED
    BY <1>1, <1>23, <1>24, <2>1 DEF MatchKept
<1>26. QED
  BY <1>1, <1>4, <1>21, <1>22, <1>25 DEF WakesOnTime

(* The wait after a timer wake-up: what is left of the early wake-up, or   *)
(* nothing when the time has passed.                                       *)
LEMMA WaitStep ==
  ASSUME Proportions, SleepIInv, TypeOK', Wait
  PROVE  RefKept' /\ CallKept' /\ MatchKept' /\ WakesOnTime'
<1> USE DEF InSleep
<1>1. /\ pc = "wait" /\ pc' = "idle"
      /\ UNCHANGED <<skew, match, armed, sources, tick, due, ref, refSkew, refAt, long>>
      /\ result' = IF "timer" \in flags /\ Timed THEN "timer" ELSE "other"
  BY DEF Wait, call, pmcd
<1>2. /\ now \in Nat /\ now' \in Nat /\ due \in Int /\ skew \in Int /\ refSkew \in Int /\ Drift \in Int
  BY RefBounds DEF SleepIInv, TypeOK
<1>3. PICK w \in 0 .. Word - 1 : w = (tick - Stimer) % Word
  <2>1. tick - Stimer \in Int
    BY WordRep DEF Stimer, SleepIInv, TypeOK
  <2>2. QED
    BY <2>1, WordRep
<1>4. \/ now' = now + w
      \/ now' = now
  BY <1>3 DEF Wait, Advance
<1>5. RefKept'
  <2>1. now <= now'
    BY <1>2, <1>4, Sizes
  <2>2. pc' \in InSleep => pc \in InSleep
    BY <1>1
  <2>3. QED
    BY <1>1, <2>1, <2>2, RefStays DEF SleepIInv
<1>6. CallKept' /\ MatchKept'
  BY <1>1 DEF CallKept, MatchKept
<1>7. ASSUME "timer" \in flags
      PROVE  now' \in due - Tolerance .. due + Tolerance
  <2>1. /\ Ahead \in 0 .. 2 /\ Distance \in 0 .. Word - 1
        /\ Edges(now) >= MatchEdge
        /\ K * now < Calib * (MatchEdge + 2) + K * Early + 2 * K
        /\ Drift \in -Calib .. 2
    BY <1>1, <1>7 DEF SleepIInv, MatchKept, RefKept
  <2>2. /\ MatchEdge \in Nat
        /\ 2 * (Calib * MatchEdge) + 2 * (K * Early) <= 2 * (K * due) + 2 * (K * Ahead) + Calib
        /\ K * due + K * Ahead < Calib * MatchEdge + K * Calib + K * Early + 2 * K
    BY <2>1, MatchBounds DEF SleepIInv
  <2>3. PICK y \in Int : y = now - due - Ahead
    BY <1>2, <2>1
  <2>4. /\ {K * now, K * due, K * Ahead, Calib * MatchEdge, K * y} \subseteq Int
        /\ K * y = K * now - K * due - K * Ahead
        /\ Calib * (MatchEdge + 2) = Calib * MatchEdge + 2 * Calib
    BY <1>2, <2>1, <2>2, <2>3, Sizes
  <2>5. y < Calib
    <3>1. K * y + K <= K * Calib
      BY <2>1, <2>2, <2>4, Products, Sizes
    <3>2. K * (y + 1) <= K * Calib /\ K * (y + 1) = K * y + K
      BY <2>4, <3>1, Sizes
    <3>3. y + 1 \in Int /\ K * (y + 1) < K * Calib + K
      BY <3>2, Products, Sizes
    <3>4. y + 1 <= Calib
      BY <3>3, Sizes, Scale
    <3>5. QED
      BY <3>4, Sizes
  <2>6. -y <= Calib + Early + 2
    <3>1. Calib * MatchEdge <= K * now
      <4>1. Edges(now) \in Nat /\ Calib * Edges(now) <= K * now
        BY <1>2, EdgesBounds
      <4>2. Calib * MatchEdge <= Calib * Edges(now)
        BY <2>1, <2>2, <4>1, Sizes, Scale
      <4>3. Calib * Edges(now) \in Int
        BY <4>1, Sizes
      <4>4. QED
        BY <2>4, <4>1, <4>2, <4>3
    <3>2. -(K * y) < K * Calib + K * Early + 2 * K
      BY <2>2, <2>4, <3>1, Products, Sizes
    <3>3. K * (-y) = -(K * y) /\ K * (Calib + Early + 2) = K * Calib + K * Early + 2 * K
      BY Sizes
    <3>4. K * (-y) < K * (Calib + Early + 2) + K
      BY <2>4, <3>2, <3>3, Products, Sizes
    <3>5. -y \in Int /\ Calib + Early + 2 \in Int
      BY Sizes
    <3>6. QED
      BY <3>4, <3>5, Sizes, Scale
  <2>7. 5 * Calib + 2 * Early + 5 < Word
    <3>1. ~ (K <= 4)
      <4>1. K <= 4 => Calib * K <= Calib * 4
        BY Sizes, Scale
      <4>2. Calib * K = K * Calib /\ Calib * 4 = 4 * Calib
        BY Sizes
      <4>3. QED
        BY <4>1, <4>2, Products, Sizes
    <3>2. 5 <= K
      BY <3>1, Sizes
    <3>3. LongLimit * 5 <= LongLimit * K /\ Early * 5 <= Early * K
      BY <3>2, Sizes, Scale
    <3>4. LongLimit * K = K * LongLimit /\ Early * K = K * Early
      BY Sizes
    <3>5. QED
      BY <3>3, <3>4, Products, Sizes
  <2>8. PICK h \in Nat : h = Word \div 4 /\ 4 * h <= Word /\ Word <= 4 * h + 3
    <3>1. Word \div 4 \in Nat /\ 4 * (Word \div 4) <= Word /\ Word <= 4 * (Word \div 4) + 3
      BY Sizes
    <3>2. QED
      BY <3>1
  <2>9. PICK z \in Int : z = y + Drift
    BY <1>2
  <2>10. (Stimer - tick) % Word = z % Word /\ (tick - Stimer) % Word = (-z) % Word
    <3>1. PICK a \in Int : a = now + skew
      BY <1>2
    <3>2. PICK b \in Int : b = due + refSkew + Ahead
      BY <1>2, <2>1
    <3>3. Stimer = a % Word /\ tick = b % Word
      BY <1>1, <3>1, <3>2 DEF Stimer, SleepIInv, CallKept
    <3>4. ((a % Word) - (b % Word)) % Word = (a - b) % Word
          /\ ((b % Word) - (a % Word)) % Word = (b - a) % Word
      BY WordSub
    <3>5. PICK j \in Int : Drift = skew - refSkew + Word * j
      <4>1. skew - refSkew \in Int
        BY <1>2
      <4>2. QED
        BY <4>1, SignedRep DEF Drift
    <3>6. a - b = z + Word * (-j) /\ b - a = -z + Word * j
      <4>1. Word * (-j) = -(Word * j) /\ Word * j \in Int
        BY Sizes
      <4>2. QED
        BY <1>2, <2>1, <2>3, <2>9, <3>1, <3>2, <3>5, <4>1
    <3>7. (a - b) % Word = z % Word
      BY <3>6, WordSame
    <3>8. (b - a) % Word = (-z) % Word
      BY <3>6, WordSame
    <3>9. QED
      BY <3>3, <3>4, <3>7, <3>8
  <2>11. CASE z >= 0
    <3>1. z \in 0 .. Word - 1 /\ ~ (z > h)
      BY <2>1, <2>5, <2>7, <2>8, <2>9, <2>11, Sizes
    <3>2. z % Word = z
      BY <3>1, WordSmall
    <3>3. ~ ((Stimer - tick) % Word > Word \div 4)
      BY <2>8, <2>10, <3>1, <3>2
    <3>4. now' = now
      BY <3>3 DEF Wait
    <3>5. now = due + Ahead + y
      BY <1>2, <2>1, <2>3
    <3>6. QED
      BY <1>2, <2>1, <2>5, <2>9, <2>11, <3>4, <3>5, Sizes DEF Tolerance
  <2>12. CASE z < 0
    <3>1. z + Word \in 0 .. Word - 1 /\ z + Word > h /\ -z \in 0 .. Word - 1
      BY <2>1, <2>6, <2>7, <2>8, <2>9, <2>12, Sizes
    <3>2. z % Word = z + Word
      <4>1. z + Word = z + Word * 1 /\ z + Word \in Int
        BY Sizes
      <4>2. (z + Word) % Word = z % Word
        BY <4>1, WordSame
      <4>3. QED
        BY <3>1, <4>2, WordSmall
    <3>3. (-z) % Word = -z
      BY <3>1, WordSmall
    <3>4. (Stimer - tick) % Word > Word \div 4
      BY <2>8, <2>10, <3>1, <3>2
    <3>5. Timed
      BY <1>1 DEF SleepIInv, CallKept
    <3>6. now' = now + ((tick - Stimer) % Word)
      BY <1>7, <3>4, <3>5 DEF Wait, Advance
    <3>7. now' = due + Ahead - Drift
      BY <1>2, <2>1, <2>3, <2>9, <2>10, <3>3, <3>6
    <3>8. QED
      BY <1>2, <2>1, <3>7, Sizes DEF Tolerance
  <2>13. QED
    BY <2>11, <2>12
<1>8. WakesOnTime'
  <2>1. result' = "timer" => "timer" \in flags
    BY <1>1
  <2>2. QED
    BY <1>1, <1>7, <2>1 DEF WakesOnTime, Tolerance
<1>9. QED
  BY <1>5, <1>6, <1>8

-----------------------------------------------------------------------------
LEMMA SleepInit ==
  ASSUME Init
  PROVE  SleepIInv
<1>1. TypeOK /\ SpanKept
  BY TypesInit
<1>2. /\ pc = "idle" /\ result = "none" /\ now = 0 /\ refAt = 0 /\ skew = 0 /\ refSkew = 0
      /\ ref.tick = 0
  BY DEF Init
<1>3. Drift = 0
  <2>1. 0 \in Int /\ 0 >= -(Word \div 2) /\ 0 < Word \div 2
    BY HalfWord, Sizes
  <2>2. Signed(0) = 0
    BY <2>1, SignedSmall
  <2>3. skew - refSkew = 0
    BY <1>2
  <2>4. QED
    BY <2>2, <2>3 DEF Drift
<1>4. EdgeTime(RefEdge) = 0
  <2>1. Edges(0) = 0
    BY Sizes DEF Edges
  <2>2. EdgeTime(0) = 0
    BY Sizes DEF EdgeTime
  <2>3. QED
    BY <1>2, <2>1, <2>2 DEF RefEdge
<1>5. RefKept
  BY <1>2, <1>3, <1>4, Sizes DEF RefKept, InSleep
<1>6. CallKept /\ MatchKept /\ WakesOnTime
  BY <1>2 DEF CallKept, MatchKept, InSleep, WakesOnTime
<1>7. QED
  BY <1>1, <1>5, <1>6 DEF SleepIInv

LEMMA SleepStep ==
  ASSUME Proportions, TimerAlways, SleepIInv, Undisturbed, [Next]_vars
  PROVE  SleepIInv'
<1>1. TypeOK' /\ SpanKept'
  BY TypesStep DEF SleepIInv
<1>2. RefKept' /\ CallKept' /\ MatchKept' /\ WakesOnTime'
  <2>1. CASE Idle \/ Call \/ ReturnPast \/ StartPoll \/ Poll \/ GoToSleep
    BY <1>1, <2>1, AwakeStep
  <2>2. CASE StopTimer
    BY <1>1, <2>2, StopStep
  <2>3. CASE Arm
    BY <1>1, <2>3, ArmStep
  <2>4. CASE SkipSleep \/ FallAsleep \/ PadEdge
    BY <1>1, <2>4, CheckStep
  <2>5. CASE TimerWake \/ PadWake
    BY <1>1, <2>5, WakeStep
  <2>6. CASE RecoverTimer
    BY <1>1, <2>6, RecoverStep
  <2>7. CASE Wait
    BY <1>1, <2>7, WaitStep
  <2>8. CASE UNCHANGED vars
    <3>1. /\ UNCHANGED <<now, skew, match, armed, flags, pc, sources, tick, due, long, result>>
          /\ UNCHANGED <<ref, refSkew, refAt>>
      BY <2>8 DEF vars, call, pmcd
    <3>2. /\ RefEdge' = RefEdge /\ Odd' = Odd /\ Drift' = Drift /\ Ahead' = Ahead
          /\ Distance' = Distance /\ Reach' = Reach /\ MatchEdge' = MatchEdge
      BY <3>1, SameCall
    <3>3. now <= now' /\ (pc' \in InSleep => pc \in InSleep)
      BY <3>1 DEF SleepIInv, TypeOK
    <3>4. RefKept'
      BY <1>1, <3>1, <3>3, RefStays DEF SleepIInv
    <3>5. CallKept'
      BY <3>1, <3>2 DEF SleepIInv, CallKept, Timed, InSleep
    <3>6. MatchKept'
      BY <3>1, <3>2 DEF SleepIInv, MatchKept, InSleep
    <3>7. WakesOnTime'
      BY <3>1 DEF SleepIInv, WakesOnTime
    <3>8. QED
      BY <3>4, <3>5, <3>6, <3>7
  <2>9. QED
    BY <2>1, <2>2, <2>3, <2>4, <2>5, <2>6, <2>7, <2>8 DEF Next
<1>3. QED
  BY <1>1, <1>2 DEF SleepIInv

(* pm_sleep_wakeup never sets a match behind the 32k counter, where the    *)
(* chip would sleep for the whole turn of the counter, nor one after the   *)
(* time asked for; and a call that the timer ends, ends at that time.      *)
THEOREM SleepsAlwaysInTime ==
  Proportions /\ TimerAlways /\ Spec /\ []Undisturbed => []SleepsInTime
<1>1. Proportions /\ TimerAlways /\ SleepIInv /\ Undisturbed /\ [Next]_vars => SleepIInv'
  BY SleepStep
<1>2. Proportions /\ TimerAlways => (Proportions /\ TimerAlways)'
  BY DEF Proportions, TimerAlways
<1>3. Proportions /\ SleepIInv => SleepsInTime
  <2>1. SUFFICES ASSUME Proportions, SleepIInv  PROVE MatchAhead /\ WakesOnTime
    BY DEF SleepsInTime
  <2>2. MatchAhead
    BY <2>1, MatchTold DEF MatchAhead
  <2>3. QED
    BY <2>1, <2>2 DEF SleepIInv
<1>4. QED
  BY SleepInit, <1>1, <1>2, <1>3, PTL DEF Spec

(* pm_stimer_recover puts the system timer back to where it would have     *)
(* been, over every chain of sleeps that share a reference: the rounding   *)
(* of one recovery is never carried into the next.                         *)
THEOREM TickAlwaysRecovered ==
  Proportions /\ TimerAlways /\ Spec /\ []Undisturbed => []TickRecovered
<1>1. Proportions /\ TimerAlways /\ SleepIInv /\ Undisturbed /\ [Next]_vars => SleepIInv'
  BY SleepStep
<1>2. Proportions /\ TimerAlways => (Proportions /\ TimerAlways)'
  BY DEF Proportions, TimerAlways
<1>3. SleepIInv => TickRecovered
  BY DEF SleepIInv, RefKept, TickRecovered, Drift
<1>4. QED
  BY SleepInit, <1>1, <1>2, <1>3, PTL DEF Spec
=============================================================================
