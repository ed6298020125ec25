------------------------------- MODULE S7816 --------------------------------
(***************************************************************************)
(* The smart card interface (s7816.c): the reset, supply and clock lines,  *)
(* and the bit rate, which the UART makes.  The card sees each line change *)
(* as it happens, so that each statement of a reset is a step; a delay     *)
(* lasts as long as it says.                                               *)
(***************************************************************************)
EXTENDS UartBaud, Sequences

CONSTANTS
  CardFactors,   \* pairs <<f, d>> passed to s7816_init
  CardTimes      \* times passed to s7816_set_time, in microseconds

ASSUME S7816Assumption == CardTimes \subseteq Nat

VARIABLES
  cardSet,       \* s7816_clock, s7816_rst_time, and the rate asked
  cardLines,     \* the pins, the clock register, the UART's timing
  cardSeen,      \* cycles of the clock since the card's RST is low
  cardTodo       \* the statements left of the call in progress

cardVars == <<cardSet, cardLines, cardSeen, cardTodo>>

CardMHz(div) == CASE div = 6 -> 4 [] div = 4 -> 6 [] div = 2 -> 12
NeededCycles == 400         \* ISO 7816-3; s7816_init allows 40000

-----------------------------------------------------------------------------
(* s7816_set_clk clears the four high bits, the enable bit with them.      *)
s7816_set_clk(lines, div) == [lines EXCEPT !.clkDiv = div, !.clkOn = FALSE]

ClockDiv(clock) == CASE clock = 4 -> 6 [] clock = 6 -> 4 [] clock = 12 -> 2

s7816_init(clock, f, d) ==
  LET baud == ((clock * 1000000) * d) \div f
  IN /\ cardSet' = [clock |-> clock, rstTime |-> 40000 \div clock, rate |-> <<f, d>>]
     /\ cardLines' = [s7816_set_clk(cardLines, ClockDiv(clock)) EXCEPT
                        !.uart = Cal(24000000, baud)]
     /\ UNCHANGED <<cardSeen, cardTodo>>

s7816_set_time(rst_time_us) ==
  /\ cardSet' = [cardSet EXCEPT !.rstTime = rst_time_us]
  /\ UNCHANGED <<cardLines, cardSeen, cardTodo>>

(* Both pins low; the port's pin is given away by the cold reset only.     *)
S7816SetPin ==
  /\ cardLines' = [cardLines EXCEPT !.rst = 0, !.vcc = 0]
  /\ cardSeen' = 0
  /\ UNCHANGED <<cardSet, cardTodo>>

-----------------------------------------------------------------------------
(* The calls, as the statements they are.                                  *)
\* The clock is enabled after the delay.
s7816_coldresetFault == <<"vcc high", "wait 20", "wait reset", "clock on", "rtx", "rst high">>

s7816_coldreset == <<"vcc high", "wait 20", "clock on", "wait reset", "rtx", "rst high">>
s7816_release_trig == <<"rst low", "clock off", "vcc low">>
s7816_warmreset == <<"rst low", "wait reset", "rst high">>

Clocked(us) == IF cardLines.clkOn /\ cardLines.rst = 0 /\ cardLines.vcc = 1
               THEN us * CardMHz(cardLines.clkDiv) ELSE 0

Statement ==
  /\ cardTodo # <<>>
  /\ cardTodo' = Tail(cardTodo)
  /\ LET s == Head(cardTodo)
     IN /\ cardLines' =
             CASE s = "vcc high" -> [cardLines EXCEPT !.vcc = 1]
               [] s = "vcc low" -> [cardLines EXCEPT !.vcc = 0]
               [] s = "clock on" -> [cardLines EXCEPT !.clkOn = TRUE]
               [] s = "clock off" -> [cardLines EXCEPT !.clkOn = FALSE]
               [] s = "rst high" -> [cardLines EXCEPT !.rst = 1]
               [] s = "rst low" -> [cardLines EXCEPT !.rst = 0]
               [] s = "rtx" -> [cardLines EXCEPT !.rtx = TRUE]
               [] OTHER -> cardLines
        /\ cardSeen' =
             CASE s = "rst low" -> 0
               [] s = "wait 20" -> cardSeen + Clocked(20)
               [] s = "wait reset" -> cardSeen + Clocked(cardSet.rstTime)
               [] OTHER -> cardSeen
  /\ UNCHANGED cardSet

CardCall(statements) ==
  /\ cardTodo' = statements
  /\ UNCHANGED <<cardSet, cardLines, cardSeen>>

(* An application sets up a card that is off, activates it with a cold     *)
(* reset, and only then resets it warm.                                    *)
CardActive == cardLines.rst = 1
CardSetUp == cardSet.clock # 0

S7816Init ==
  /\ cardSet = [clock |-> 0, rstTime |-> 0, rate |-> <<1, 1>>]
  /\ cardLines = [rst |-> 0, vcc |-> 0, clkDiv |-> 6, clkOn |-> FALSE, rtx |-> FALSE,
                  uart |-> [div |-> 0, bwpc |-> 0]]
  /\ cardSeen = 0 /\ cardTodo = <<>>

S7816Next ==
  \/ Statement
  \/ /\ cardTodo = <<>>
     /\ \/ /\ ~CardActive
           /\ \E clock \in {4, 6, 12}, rate \in CardFactors : s7816_init(clock, rate[1], rate[2])
        \/ S7816SetPin
        \/ CardSetUp /\ \E us \in CardTimes :
             us * cardSet.clock >= NeededCycles /\ s7816_set_time(us)
        \/ CardSetUp /\ ~CardActive /\ CardCall(s7816_coldreset)
        \/ CardActive /\ CardCall(s7816_warmreset)
        \/ CardActive /\ CardCall(s7816_release_trig)

-----------------------------------------------------------------------------
(* When RST rises the card has supply and clock, has been in reset for the *)
(* cycles it needs, at the clock that was asked, and the pin of its data   *)
(* is the port's when the reset is over.                                   *)
CardReset ==
  CardActive =>
    /\ cardLines.vcc = 1
    /\ cardSeen >= NeededCycles
    /\ cardTodo = <<>> => cardLines.clkOn /\ cardLines.rtx
    /\ CardMHz(cardLines.clkDiv) = cardSet.clock

(* It answers at the rate the port is set to, to a percent.                *)
CardRate ==
  CardActive =>
    LET bit == (cardLines.uart.div + 1) * (cardLines.uart.bwpc + 1)
        asked == (24 * cardSet.rate[1]) \div (cardSet.clock * cardSet.rate[2])
    IN (bit - asked) * BaudTolerance \in -asked .. asked
=============================================================================
