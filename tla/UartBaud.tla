------------------------------ MODULE UartBaud ------------------------------
(***************************************************************************)
(* The bit timing of a UART port (drivers/B91/uart.c): the search of       *)
(* uart_cal_div_and_bwpc for a divider and a bit width, and uart_init,     *)
(* which programs them.  One bit lasts (div + 1) * (bwpc + 1) clocks.      *)
(***************************************************************************)
EXTENDS Integers

CONSTANTS
  UartClocks,       \* values of pclk, in Hz
  UartRates         \* requested baud rates

ASSUME UartBaudAssumption ==
  /\ UartClocks \subseteq Nat
  /\ UartRates \subseteq Nat \ {0}

VARIABLES
  baudAsked,        \* the clock and the rate of the last uart_cal_div_and_bwpc
  baudRegs          \* reg_uart_clk_div and the BPWC field of reg_uart_ctrl0

baudVars == <<baudAsked, baudRegs>>

NoRate == [pclk |-> 0, rate |-> 0]

(* The odd numbers prime to 3 are tested against 5, 7, 11, 13, ... below   *)
(* the square root, which leaves out the root of a square.                 *)
uart_is_prime(n) ==
  \/ n <= 3
  \/ /\ n % 2 # 0 /\ n % 3 # 0
     /\ \A k \in 0 .. n \div 6 :
          LET i == 5 + 6 * k IN i * i < n => n % i # 0 /\ n % (i + 2) # 0

(* The quotient, moved off a prime, which would leave no bit width.        *)
CyclesPerBit(pclk, rate) ==
  LET int == pclk \div rate
      dec == ((10 * pclk) \div rate) - 10 * int
  IN IF uart_is_prime(int) THEN int + 1
     ELSE IF dec > 5 /\ ~uart_is_prime(int + 1) THEN int + 1
     ELSE int

Bwpcs == 3 .. 15

(* The member of S with the largest score (scores differ).                 *)
Best(S, Score(_)) == CHOOSE i \in S : \A j \in S : Score(i) >= Score(j)

(* Divider and width.  For width i, tenths(i) is the first decimal of      *)
(* cycles / (i + 1): the widths with the smallest and the largest one      *)
(* compete, as the quotients closest to an integer from above and below.   *)
Cal(pclk, rate) ==
  LET cycles == CyclesPerBit(pclk, rate)
      tenths(i) == ((10 * cycles) \div (i + 1)) % 10
      whole(i) == cycles \div (i + 1)
      SmallTenths(i) == i - 16 * tenths(i)     \* the later of equal widths
      LargeTenths(i) == i + 16 * tenths(i)
      usable == {i \in Bwpcs : whole(i) # 1}
      low == IF usable = {} THEN 3 ELSE Best(usable, SmallTenths)
      high == Best(Bwpcs, LargeTenths)
      down == [div |-> whole(low) - 1, bwpc |-> low]
      up == [div |-> whole(high), bwpc |-> high]
  IN IF tenths(low) >= 5 THEN up
     ELSE IF tenths(high) < 5 \/ tenths(low) < 10 - tenths(high) THEN down
     ELSE up

BaudInit ==
  /\ baudAsked = NoRate
  /\ baudRegs = [div |-> 0, bwpc |-> 0]

UartInitFault(pclk, rate) ==    \* only the low byte of the divider is written
  /\ baudAsked' = [pclk |-> pclk, rate |-> rate]
  /\ baudRegs' = [Cal(pclk, rate) EXCEPT !.div = @ % 2^8]

(* The caller's sequence: uart_cal_div_and_bwpc, then uart_init, whose     *)
(* divider field is 15 bits wide (bit 15 enables the clock).               *)
UartInit(pclk, rate) ==
  /\ baudAsked' = [pclk |-> pclk, rate |-> rate]
  /\ baudRegs' = [Cal(pclk, rate) EXCEPT !.div = (@ % 2^16) % 2^15]

BaudNext == \E pclk \in UartClocks, rate \in UartRates : UartInit(pclk, rate)

BaudSpec == BaudInit /\ [][BaudNext]_baudVars

-----------------------------------------------------------------------------
(* A port runs within Tolerance (in 1 / Tolerance parts) of the rate that  *)
(* was asked for, as serial receivers require of both sides.               *)
BaudTolerance == 100

BaudAccurate ==
  baudAsked # NoRate =>
    LET clocks == (baudRegs.div + 1) * (baudRegs.bwpc + 1)
        tolerated == baudAsked.pclk \div BaudTolerance
    IN baudAsked.pclk - baudAsked.rate * clocks \in -tolerated .. tolerated
=============================================================================
