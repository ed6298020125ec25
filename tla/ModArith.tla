------------------------------ MODULE ModArith ------------------------------
(***************************************************************************)
(* Facts about remainders, for the proofs about rings whose pointers are   *)
(* unsigned integers that wrap and whose slot is chosen with a mask.       *)
(***************************************************************************)
EXTENDS Integers, TLAPS

(* A number is its quotient and its remainder.                             *)
LEMMA DivMod ==
  ASSUME NEW m \in Nat \ {0}, NEW x \in Int
  PROVE  /\ x = m * (x \div m) + (x % m)
         /\ x % m \in 0 .. m - 1
         /\ x \div m \in Int
OBVIOUS

(* Any way of writing x as m * q + r with r in range gives the remainder.  *)
LEMMA ModUnique ==
  ASSUME NEW m \in Nat \ {0}, NEW q \in Int, NEW r \in 0 .. m - 1
  PROVE  (m * q + r) % m = r
OBVIOUS

(* The one step of non-linear algebra below.                               *)
LEMMA Distribute ==
  ASSUME NEW m \in Int, NEW k \in Int, NEW q \in Int, NEW s \in Int
  PROVE  m * (k * q + s) = (m * k) * q + m * s
OBVIOUS

(* Reducing modulo a multiple of m first changes nothing modulo m: a       *)
(* pointer that wraps at 2^8 selects the slot that it would have selected  *)
(* without wrapping.                                                       *)
LEMMA ModOfMod ==
  ASSUME NEW m \in Nat \ {0}, NEW k \in Nat \ {0}, NEW x \in Int
  PROVE  (x % (m * k)) % m = x % m
<1> DEFINE n == m * k
<1>1. n \in Nat \ {0}
  OBVIOUS
<1>2. PICK q \in Int, r \in 0 .. n - 1 : x = n * q + r /\ x % n = r
  BY <1>1, DivMod
<1>3. PICK s \in Int, t \in 0 .. m - 1 : r = m * s + t /\ r % m = t
  <2>1. r \in Int
    BY <1>1
  <2> HIDE DEF n
  <2>2. r = m * (r \div m) + (r % m) /\ r % m \in 0 .. m - 1 /\ r \div m \in Int
    BY <2>1, DivMod
  <2>3. QED
    BY <2>2
<1>4. x = m * (k * q + s) + t
  <2>1. n * q = (m * k) * q /\ n * q \in Int /\ m * s \in Int
    OBVIOUS
  <2>2. m * (k * q + s) = n * q + m * s
    BY Distribute, <2>1
  <2> HIDE DEF n
  <2>3. QED
    BY <2>1, <2>2, <1>2, <1>3
<1>5. k * q + s \in Int
  OBVIOUS
<1>6. x % m = t
  BY <1>4, <1>5, ModUnique
<1>7. QED
  BY <1>2, <1>3, <1>6 DEF n

(* Two numbers less than m apart have different remainders.                *)
LEMMA ModDistinct ==
  ASSUME NEW m \in Nat \ {0}, NEW x \in Int, NEW d \in 1 .. m - 1
  PROVE  (x + d) % m # x % m
<1> DEFINE q1 == x \div m
           q2 == (x + d) \div m
<1>1. x = m * q1 + (x % m) /\ q1 \in Int
  BY DivMod
<1>2. x + d = m * q2 + ((x + d) % m) /\ q2 \in Int
  BY DivMod
<1>3. SUFFICES ASSUME (x + d) % m = x % m  PROVE FALSE
  OBVIOUS
<1>4. d = m * q2 - m * q1
  <2>1. x % m \in Int /\ m * q1 \in Int /\ m * q2 \in Int
    BY <1>1, <1>2, DivMod
  <2> HIDE DEF q1, q2
  <2>2. QED
    BY <1>1, <1>2, <1>3, <2>1
<1> HIDE DEF q1, q2
<1>5. d = m * (q2 - q1) /\ q2 - q1 \in Int
  BY <1>1, <1>2, <1>4
<1>6. QED
  BY <1>5
=============================================================================
