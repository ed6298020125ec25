----------------------------- MODULE PkeEngine ------------------------------
(***************************************************************************)
(* The calls of the public key engine (pke.c, pke.h).  The engine computes *)
(* on its own RAM: slots "A0" to "A5" and "B0" to "B4", of which a call    *)
(* loads some, and which keep what earlier calls and the engine left in    *)
(* the others.  The modulus is in B3; the two numbers that Montgomery      *)
(* products need for it are in A3 and B4, loaded by a call, computed by    *)
(* the engine, or left there by an earlier call.                           *)
(*                                                                         *)
(* A number is named: what it is and, where it belongs to a modulus, which.*)
(***************************************************************************)
EXTENDS Integers, SequencesExt

CONSTANTS
  PkeWidth,      \* the moduli in use: modulus -> length in bits
  PkeCalls       \* bound on the calls of a behaviour

ASSUME PkeEngineAssumption ==
  PkeWidth \in [DOMAIN PkeWidth -> Nat \ {0}] /\ PkeCalls \in Nat

PkeModuli == DOMAIN PkeWidth
GET_WORD_LEN(bits) == (bits + 31) \div 32

Slots == {"A0", "A1", "A2", "A3", "A4", "A5", "B0", "B1", "B2", "B3", "B4"}
NoNumber == <<"none", "none">>

VARIABLES
  pkeRam,        \* the slots
  pkeWords,      \* operand width set, in words
  pkeExeCfg,     \* how the engine takes and gives numbers: "unset", "non_mont"
  pkeReturned,   \* the results the last call returned
  pkeMade        \* calls made

pkeVars == <<pkeRam, pkeWords, pkeExeCfg, pkeReturned, pkeMade>>

-----------------------------------------------------------------------------
(* The calls: what each loads where, and the slots its results are read    *)
(* from.  The numbers of a curve, and the caller's, are named after the    *)
(* modulus.  Curve calls and products multiply in Montgomery form; an      *)
(* inverse may not exist, and a point may not lie on its curve.            *)
CurveCall(args, out) ==
  [args |-> args, out |-> out, curve |-> TRUE, multiplies |-> TRUE, mayFail |-> FALSE]
ModCall(args) == [CurveCall(args, {"A0"}) EXCEPT !.curve = FALSE, !.multiplies = FALSE]

pke_eccp_point_del == CurveCall([A0 |-> "Px", A1 |-> "Py", A5 |-> "a"], {"A0", "A1"})
pke_eccp_point_add ==
  CurveCall([B0 |-> "P1x", B1 |-> "P1y", A0 |-> "P2x", A1 |-> "P2y"], {"A0", "A1"})
pke_eccp_point_verify ==
  [CurveCall([B0 |-> "Px", B1 |-> "Py", A5 |-> "a", A4 |-> "b"], {}) EXCEPT !.mayFail = TRUE]
pke_eccp_point_mul == CurveCall([B0 |-> "Px", B1 |-> "Py", A5 |-> "a", A4 |-> "k"], {"A0", "A1"})
pke_x25519_point_mul == CurveCall([A0 |-> "Pu", B0 |-> "a24", A4 |-> "k"], {"A1"})
pke_ed25519_point_mul ==
  CurveCall([A1 |-> "Px", A2 |-> "Py", B0 |-> "d", A0 |-> "k"], {"A1", "A2"})
pke_ed25519_point_add ==
  CurveCall([A1 |-> "P1x", A2 |-> "P1y", B1 |-> "P2x", B2 |-> "P2y", B0 |-> "d"], {"A1", "A2"})
pke_mod_mul == [ModCall([A0 |-> "a", B0 |-> "b"]) EXCEPT !.multiplies = TRUE]
pke_mod_inv == [ModCall([B0 |-> "a"]) EXCEPT !.mayFail = TRUE]
pke_mod_add == ModCall([A0 |-> "a", B0 |-> "b"])
pke_mod_sub == ModCall([A0 |-> "a", B0 |-> "b"])

EngineCalls ==
  {pke_eccp_point_del, pke_eccp_point_add, pke_eccp_point_verify, pke_eccp_point_mul,
   pke_x25519_point_mul, pke_ed25519_point_mul, pke_ed25519_point_add,
   pke_mod_mul, pke_mod_inv, pke_mod_add, pke_mod_sub}

-----------------------------------------------------------------------------
(* One step of a call, on the engine's state [ram, words, cfg].            *)
pke_load_operand(e, slot, what, m) == [e EXCEPT !.ram[slot] = <<what, m>>]
pke_set_operand_width(e, bits) == [e EXCEPT !.words = GET_WORD_LEN(bits)]

pke_load_pre_calc_mont(e, m) ==
  pke_load_operand(pke_load_operand(pke_set_operand_width(e, PkeWidth[m]), "A3", "h", m),
                   "B4", "n1", m)

(* PKE_MICROCODE_CAL_PRE_MON: both numbers, for the modulus in B3.         *)
CalPreMon(e) == [e EXCEPT !.ram["A3"] = <<"h", e.ram["B3"][2]>>,
                          !.ram["B4"] = <<"n1", e.ram["B3"][2]>>]

pke_calc_pre_mont(e, m) ==
  CalPreMon(pke_load_operand(pke_set_operand_width(e, PkeWidth[m]), "B3", "modulus", m))

(* Width, operands, modulus, and for a curve the two numbers, which its    *)
(* record may hold.                                                        *)
LoadedFault(e, call, m, stored) ==     \* a curve's numbers computed before its p is loaded
  LET sized == pke_set_operand_width(e, PkeWidth[m])
      args == call.args
      operands == [sized EXCEPT !.ram = [s \in Slots |-> IF s \in DOMAIN args THEN <<args[s], m>> ELSE @[s]]]
      montgomery == IF ~call.curve THEN operands
                    ELSE IF stored THEN [operands EXCEPT !.ram["A3"] = <<"h", m>>, !.ram["B4"] = <<"n1", m>>]
                    ELSE CalPreMon(operands)
  IN  pke_load_operand(montgomery, "B3", "modulus", m)

Loaded(e, call, m, stored) ==
  LET sized == pke_set_operand_width(e, PkeWidth[m])
      args == call.args
      operands == [sized EXCEPT !.ram = [s \in Slots |-> IF s \in DOMAIN args THEN <<args[s], m>> ELSE @[s]]]
      modulus == pke_load_operand(operands, "B3", "modulus", m)
  IN  IF ~call.curve THEN modulus
      ELSE IF stored THEN [modulus EXCEPT !.ram["A3"] = <<"h", m>>, !.ram["B4"] = <<"n1", m>>]
      ELSE CalPreMon(modulus)

(* pke_opr_cal; a cfg of 0x00 leaves the one set before.                   *)
Configured(e, call) == IF call.multiplies THEN [e EXCEPT !.cfg = "non_mont"] ELSE e

(* The engine: right results from the right operands, the width of the     *)
(* modulus and, to multiply, the numbers of that modulus.                  *)
Computes(e, call, m) ==
  /\ \A s \in DOMAIN call.args : e.ram[s] = <<call.args[s], m>>
  /\ e.ram["B3"] = <<"modulus", m>>
  /\ e.words = GET_WORD_LEN(PkeWidth[m])
  /\ call.multiplies =>
       /\ e.ram["A3"] = <<"h", m>> /\ e.ram["B4"] = <<"n1", m>>
       /\ e.cfg = "non_mont"

Started(e, call, m) ==
  LET out == IF Computes(e, call, m) THEN <<"right", m>> ELSE <<"wrong", m>>
  IN [e EXCEPT !.ram = [s \in Slots |-> IF s \in call.out THEN out ELSE @[s]]]

-----------------------------------------------------------------------------
Engine == [ram |-> pkeRam, words |-> pkeWords, cfg |-> pkeExeCfg]
EngineIs(e) == pkeRam' = e.ram /\ pkeWords' = e.words /\ pkeExeCfg' = e.cfg

PkeEngineInit ==
  /\ pkeRam = [s \in Slots |-> NoNumber]
  /\ pkeWords = 0 /\ pkeExeCfg = "unset"
  /\ pkeReturned = {} /\ pkeMade = 0

PkeDone(e, returned) ==
  /\ pkeMade < PkeCalls
  /\ EngineIs(e) /\ pkeReturned' = returned /\ pkeMade' = pkeMade + 1

(* The two calls that prepare for a modulus.  The first does not load the  *)
(* modulus itself.                                                         *)
PkePrepare(m) ==
  \/ PkeDone(pke_load_pre_calc_mont(Engine, m), {})
  \/ PkeDone(pke_calc_pre_mont(Engine, m), {})

(* A call.  Its numbers for Montgomery form are stored with its curve or   *)
(* not, and one that may fail does or does not.                            *)
PkeUse(call, m) ==
  \E stored \in (IF call.curve THEN BOOLEAN ELSE {FALSE}) :
  \E ok \in (IF call.mayFail THEN BOOLEAN ELSE {TRUE}) :
    LET loaded == Configured(Loaded(Engine, call, m, stored), call)
        e == Started(loaded, call, m)
    IN IF ok THEN PkeDone(e, {e.ram[s] : s \in call.out}) ELSE PkeDone(loaded, {})

PkeReset ==
  /\ pkeMade = PkeCalls
  /\ pkeRam' = [s \in Slots |-> NoNumber] /\ pkeWords' = 0 /\ pkeExeCfg' = "unset"
  /\ pkeReturned' = {} /\ pkeMade' = 0

(* The caller multiplies after a call that prepared for its modulus: the   *)
(* last one that touched A3 and B4 did so for this one.                    *)
Prepared(m) == pkeRam["A3"] = <<"h", m>>

PkeEngineNext ==
  \/ \E m \in PkeModuli :
       \/ PkePrepare(m)
       \/ \E call \in EngineCalls : (call = pke_mod_mul => Prepared(m)) /\ PkeUse(call, m)
  \/ PkeReset

-----------------------------------------------------------------------------
(* Whatever was computed before, for other moduli, of other lengths, with  *)
(* or without success: a call returns the result of its own operation.     *)
PkeResultsOwn == \A r \in pkeReturned : r[1] = "right"

-----------------------------------------------------------------------------
(* pke_mod and the word arithmetic under it: the remainder of a number     *)
(* twice as long as the engine's operands.  The number is cut at the       *)
(* length of the modulus, the high part multiplied by the weight of the    *)
(* cut, and the low part added, both by the engine, whose operands must be *)
(* reduced.                                                                *)
(*                                                                         *)
(* Numbers are sequences of words, the lowest first; PkeW stands for the   *)
(* 32 bits of a word.                                                      *)
CONSTANTS
  PkeW,          \* bits in a word
  PkeModWords    \* bound on the words of a modulus

ASSUME PkeModAssumption == PkeW \in Nat \ {0} /\ PkeModWords \in Nat \ {0}

WordBase == 2 ^ PkeW
NumbersOf(n) == [1..n -> 0..(WordBase - 1)]
ValueOf(a) ==
  LET v[i \in 0..Len(a)] == IF i = 0 THEN 0 ELSE v[i - 1] + a[i] * WordBase ^ (i - 1)
  IN v[Len(a)]

-----------------------------------------------------------------------------
valid_words_get(a) ==
  LET used == {i \in 1..Len(a) : a[i] # 0} IN IF used = {} THEN 0 ELSE Max(used)

valid_bits_get(a) ==
  LET n == valid_words_get(a) IN
    IF n = 0 THEN 0
    ELSE (n - 1) * PkeW + Max({j \in 1..PkeW : (a[n] \div 2 ^ (j - 1)) % 2 = 1})

big_integer_compare(a, b) ==
  LET n == valid_words_get(a)
      m == valid_words_get(b)
      differ == {i \in 1..n : a[i] # b[i]}
  IN CASE n > m -> 1 [] n < m -> -1
       [] n = m -> IF differ = {} THEN 0 ELSE IF a[Max(differ)] > b[Max(differ)] THEN 1 ELSE -1

(* The borrow is found from the wrapped differences.                       *)
sub_u32(a, b) ==
  LET temp(i) == (a[i] - b[i]) % WordBase
      carry[i \in 0..Len(b)] ==
        IF i = 0 THEN 0
        ELSE IF temp(i) > a[i] \/ (temp(i) - carry[i - 1]) % WordBase > temp(i) THEN 1 ELSE 0
  IN [i \in 1..Len(b) |-> (temp(i) - carry[i - 1]) % WordBase]

(* Called with n less than a word.                                         *)
div2n_u32(a, n) ==
  [i \in 1..Len(a) |->
     a[i] \div 2 ^ n + (IF i = Len(a) THEN 0 ELSE (a[i + 1] * 2 ^ (PkeW - n)) % WordBase)]

(* pke_mod_mul and pke_mod_add: the engine, given reduced operands.        *)
EngineMul(b, x, y) == (ValueOf(x) * ValueOf(y)) % ValueOf(b)
EngineAdd(b, x, n) == (ValueOf(x) + n) % ValueOf(b)

Padded(a, n) == [i \in 1..n |-> IF i \in DOMAIN a THEN a[i] ELSE 0]
\* The modulus itself is taken for reduced.
ReducedOnceFault(x, b) == IF big_integer_compare(x, b) > 0 THEN sub_u32(x, b) ELSE x

ReducedOnce(x, b) == IF big_integer_compare(x, b) >= 0 THEN sub_u32(x, b) ELSE x

(* The high part of a modulus that fills its words is compared strictly:   *)
(* the engine may be given the modulus itself there, for zero.             *)
pke_mod(a, b) ==
  LET n == Len(b)
      bitLen == valid_bits_get(b) % PkeW
      above == SubSeq(a, n + 1, Len(a))
      shifted == Padded(div2n_u32(SubSeq(a, n, Len(a)), bitLen), n)
      high == IF bitLen # 0 THEN ReducedOnce(shifted, b)
              ELSE IF big_integer_compare(above, b) > 0 THEN sub_u32(Padded(above, n), b)
              ELSE Padded(above, n)
      weight == sub_u32([i \in 1..n |-> IF i = n /\ bitLen # 0 THEN 2 ^ bitLen ELSE 0], b)
      below == [Padded(a, n) EXCEPT ![n] = IF bitLen # 0 THEN @ % 2 ^ bitLen ELSE @]
      low == ReducedOnce(below, b)
  IN CASE big_integer_compare(a, b) < 0 -> [c |-> ValueOf(Padded(a, n)), operands |-> {}, top |-> 0]
       [] big_integer_compare(a, b) = 0 -> [c |-> 0, operands |-> {}, top |-> 0]
       [] big_integer_compare(a, b) > 0 ->
            [c |-> EngineAdd(b, low, EngineMul(b, weight, high)),
             operands |-> {ValueOf(weight), ValueOf(low)}, top |-> ValueOf(high)]

-----------------------------------------------------------------------------
VARIABLE pkeArgs    \* the arguments of the call made

PkeModInit == pkeArgs = <<>>

(* An odd modulus (the engine's products need one) without leading zero    *)
(* words, and a number of up to twice its words whose part above the       *)
(* modulus's length is less than twice the modulus: one subtraction        *)
(* reduces no more, and a modulus that leaves bits of its top word unused  *)
(* is soon beyond that.                                                    *)
PkeModCall ==
  /\ pkeArgs = <<>>
  /\ \E n \in 1..PkeModWords : \E b \in NumbersOf(n), m \in n..(2 * n) : \E a \in NumbersOf(m) :
       /\ b[n] # 0 /\ b[1] % 2 = 1 /\ ValueOf(b) > 1
       /\ ValueOf(a) \div 2 ^ valid_bits_get(b) < 2 * ValueOf(b)
       /\ pkeArgs' = <<a, b>>

PkeModReturn == pkeArgs # <<>> /\ pkeArgs' = <<>>

PkeModNext == PkeModCall \/ PkeModReturn

(* The remainder is right, and the engine is given reduced operands only:  *)
(* at most the modulus itself as the high part.                            *)
PkeModExact ==
  pkeArgs # <<>> =>
    LET a == pkeArgs[1]
        b == pkeArgs[2]
        r == pke_mod(a, b)
    IN /\ r.c = ValueOf(a) % ValueOf(b)
       /\ r.top <= ValueOf(b) /\ \A x \in r.operands : x < ValueOf(b)
=============================================================================
