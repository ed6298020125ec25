----------------------------- MODULE ClockTree -----------------------------
(***************************************************************************)
(* The clocks of the B91 (clock.c).  The PLL, or one of two 24 MHz sources,*)
(* drives the cclk; the hclk is divided from it and the pclk from the hclk.*)
(* The flash's clock comes from the hclk or from the PLL.  clock_init      *)
(* programs all of them, one register after the other, while the CPU and   *)
(* the peripherals run from them, and keeps a record, sys_clk, from which  *)
(* the drivers compute their dividers.  Frequencies are in MHz.            *)
(***************************************************************************)
EXTENDS Integers

CONSTANTS
  Plls,          \* the values of sys_pll_clk_e in use
  CclkDivs,      \* the values of sys_pll_div_to_cclk_e in use
  MspiDivs       \* the values of sys_pll_div_to_mspi_clk_e in use

VARIABLES
  clk,           \* the clock registers
  locked,        \* the PLL is stable
  sys_clk,       \* the record
  clkAt,         \* where clock_init is
  clkArg,        \* its arguments; <<>> outside a call
  clkBefore      \* the registers when it was called

clockVars == <<clk, locked, sys_clk, clkAt, clkArg, clkBefore>>

(* An enumerator of sys_pll_clk_e: the two register fields and, above      *)
(* them, the frequency.                                                    *)
Enumerator(double, base, mhz) == [double |-> double, base |-> base, mhz |-> mhz]
PLL_CLK_48M  == Enumerator(0, 16, 48)
PLL_CLK_54M  == Enumerator(0, 17, 54)
PLL_CLK_60M  == Enumerator(0, 18, 54)
PLL_CLK_66M  == Enumerator(0, 19, 66)
PLL_CLK_96M  == Enumerator(1, 16, 96)
PLL_CLK_108M == Enumerator(1, 17, 108)
PLL_CLK_120M == Enumerator(1, 18, 120)
PLL_CLK_132M == Enumerator(1, 19, 132)
PLL_CLK_192M == Enumerator(2, 16, 192)
PLL_CLK_216M == Enumerator(2, 17, 216)
PLL_CLK_240M == Enumerator(2, 18, 240)
PLL_CLK_264M == Enumerator(2, 19, 264)

sys_pll_clk_e ==
  {PLL_CLK_48M, PLL_CLK_54M, PLL_CLK_60M, PLL_CLK_66M, PLL_CLK_96M, PLL_CLK_108M,
   PLL_CLK_120M, PLL_CLK_132M, PLL_CLK_192M, PLL_CLK_216M, PLL_CLK_240M, PLL_CLK_264M}
sys_pll_div_to_cclk_e == 2 .. 15
sys_pll_div_to_mspi_clk_e == 1 .. 15          \* 1 is CCLK_TO_MSPI_CLK
sys_cclk_div_to_hclk_e == {1, 2}
sys_hclk_div_to_pclk_e == {1, 2, 4}

ASSUME ClockAssumption ==
  /\ Plls \subseteq sys_pll_clk_e \ {PLL_CLK_60M}   \* which is recorded as 54 MHz
  /\ CclkDivs \subseteq sys_pll_div_to_cclk_e
  /\ MspiDivs \subseteq sys_pll_div_to_mspi_clk_e

Sources == {"RC24M", "PAD24M", "PAD_PLL_DIV", "PAD_PLL"}

(* The frequencies that the registers c make (external).                   *)
PllMhz(c) == (48 + (6 * (c.base - 16))) * (2 ^ c.double)
FromPll(c) == c.src \in {"PAD_PLL_DIV", "PAD_PLL"}
CclkIn(c)  == IF FromPll(c) THEN PllMhz(c) ELSE 24
CclkDiv(c) == IF c.src = "PAD_PLL_DIV" THEN c.cdiv ELSE 1
HclkDiv(c) == CclkDiv(c) * c.hdiv
PclkDiv(c) == HclkDiv(c) * c.pdiv

(* Of clock.c and clock.h: the cclk is at most 96, the hclk 48, the pclk   *)
(* 24 and the flash's clock 64 MHz.                                        *)
WithinLimits(c) ==
  /\ CclkIn(c) <= 96 * CclkDiv(c)
  /\ CclkIn(c) <= 48 * HclkDiv(c)
  /\ CclkIn(c) <= 24 * PclkDiv(c)
  /\ c.mspiPll => PllMhz(c) <= 64 * c.mspi

(* What the registers are after a call.                                    *)
Target(c, a) ==
  [base |-> a.pll.base, double |-> a.pll.double, hdiv |-> a.hclk_div, pdiv |-> a.pclk_div,
   src |-> a.src, cdiv |-> IF a.src = "PAD_PLL_DIV" THEN a.cclk_div ELSE c.cdiv,
   mspiPll |-> a.mspi_clk_div # 1,
   mspi |-> IF a.mspi_clk_div # 1 THEN a.mspi_clk_div ELSE c.mspi]

(* Arguments that respect the limits, and the restriction on the pclk.     *)
Args(c) ==
  {a \in [pll : Plls, src : Sources, cclk_div : CclkDivs, hclk_div : sys_cclk_div_to_hclk_e,
          pclk_div : sys_hclk_div_to_pclk_e, mspi_clk_div : MspiDivs] :
     /\ WithinLimits(Target(c, a))
     /\ ~(a.hclk_div = 2 /\ a.pclk_div = 4)
     /\ a.src # "PAD_PLL_DIV" =>          \* the divider is not looked at
          a.cclk_div = CHOOSE d \in CclkDivs : TRUE}

ClockInit ==
  /\ clk = [base |-> 16, double |-> 2, hdiv |-> 1, pdiv |-> 1, src |-> "RC24M",
            cdiv |-> 2, mspiPll |-> FALSE, mspi |-> 2]
  /\ locked = TRUE
  /\ sys_clk = [pll_clk |-> 192, cclk |-> 24, hclk |-> 24, pclk |-> 24, mspi_clk |-> 24]
  /\ clkAt = "idle"
  /\ clkArg = <<>>
  /\ clkBefore = clk

-----------------------------------------------------------------------------
ClockCall ==
  /\ clkAt = "idle"
  /\ clkArg' \in Args(clk)
  /\ clkBefore' = clk
  /\ clkAt' = "pll_base"
  /\ UNCHANGED <<clk, locked, sys_clk>>

(* One step of clock_init: registers and record change, control goes on.   *)
Step(from, to) ==
  clkAt = from /\ clkAt' = to /\ UNCHANGED <<clkArg, clkBefore>>

PllBase ==
  /\ Step("pll_base", "pll_double")
  /\ clk' = [clk EXCEPT !.base = clkArg.pll.base]
  /\ locked' = FALSE
  /\ UNCHANGED sys_clk

PllDouble ==
  /\ Step("pll_double", "lock")
  /\ clk' = [clk EXCEPT !.double = clkArg.pll.double]
  /\ sys_clk' = [sys_clk EXCEPT !.pll_clk = clkArg.pll.mhz]
  /\ UNCHANGED locked

(* The PLL becomes stable (external).                                      *)
PllLocks ==
  /\ ~locked /\ locked' = TRUE
  /\ UNCHANGED <<clk, sys_clk, clkAt, clkArg, clkBefore>>

AwaitLock ==
  /\ locked
  /\ Step("lock", "mspi")
  /\ UNCHANGED <<clk, locked, sys_clk>>

MspiClock ==
  /\ Step("mspi", IF clkArg.mspi_clk_div = 1 THEN "hclk" ELSE "mspi_source")
  /\ IF clkArg.mspi_clk_div = 1
     THEN clk' = [clk EXCEPT !.mspiPll = FALSE]
     ELSE clk' = [clk EXCEPT !.mspi = clkArg.mspi_clk_div]
  /\ UNCHANGED <<locked, sys_clk>>

MspiSource ==
  /\ Step("mspi_source", "hclk")
  /\ clk' = [clk EXCEPT !.mspiPll = TRUE]
  /\ sys_clk' = [sys_clk EXCEPT !.mspi_clk = sys_clk.pll_clk \div clkArg.mspi_clk_div]
  /\ UNCHANGED locked

HclkDivider ==
  /\ Step("hclk", "pclk")
  /\ clk' = [clk EXCEPT !.hdiv = clkArg.hclk_div]
  /\ UNCHANGED <<locked, sys_clk>>

PclkDivider ==
  /\ Step("pclk", IF clkArg.src = "PAD_PLL_DIV" THEN "cclk" ELSE "source")
  /\ clk' = [clk EXCEPT !.pdiv = clkArg.pclk_div]
  /\ UNCHANGED <<locked, sys_clk>>

CclkDivider ==
  /\ Step("cclk", "source")
  /\ clk' = [clk EXCEPT !.cdiv = clkArg.cclk_div]
  /\ UNCHANGED <<locked, sys_clk>>

CclkSourceFault ==  \* the record of the cclk survives a switch to 24 MHz
  LET cclk == (CASE clkArg.src = "PAD_PLL_DIV" -> sys_clk.pll_clk \div clkArg.cclk_div
               []   clkArg.src = "PAD_PLL"     -> sys_clk.pll_clk
               []   OTHER -> sys_clk.cclk) % 256
  IN  /\ clkAt = "source" /\ clkAt' = "idle"
      /\ clk' = [clk EXCEPT !.src = clkArg.src]
      /\ sys_clk' = [sys_clk EXCEPT !.cclk = cclk, !.hclk = cclk \div clkArg.hclk_div,
                       !.pclk = cclk \div (clkArg.hclk_div * clkArg.pclk_div)]
      /\ clkArg' = <<>> /\ clkBefore' = clk'
      /\ UNCHANGED locked

(* The source is selected and the record made; bytes hold the frequencies. *)
CclkSource ==
  LET cclk == (CASE clkArg.src = "PAD_PLL_DIV" -> sys_clk.pll_clk \div clkArg.cclk_div
               []   clkArg.src = "PAD_PLL"     -> sys_clk.pll_clk
               []   OTHER -> 24) % 256
      hclk == cclk \div clkArg.hclk_div
  IN  /\ clkAt = "source" /\ clkAt' = "idle"
      /\ clk' = [clk EXCEPT !.src = clkArg.src]
      /\ sys_clk' = [sys_clk EXCEPT !.cclk = cclk, !.hclk = hclk,
                       !.pclk = hclk \div clkArg.pclk_div,
                       !.mspi_clk = IF clkArg.mspi_clk_div = 1 THEN cclk ELSE @]
      /\ clkArg' = <<>> /\ clkBefore' = clk'
      /\ UNCHANGED locked

ClockNext ==
  \/ ClockCall \/ PllBase \/ PllDouble \/ PllLocks \/ AwaitLock
  \/ MspiClock \/ MspiSource \/ HclkDivider \/ PclkDivider
  \/ CclkDivider \/ CclkSource

-----------------------------------------------------------------------------
(* "hclk and pclk should be set ahead of cclk" (clock.c:316): at no step   *)
(* of a call does a clock exceed its limit, whatever the clocks were, if   *)
(* the call (1) leaves the PLL alone or nothing runs from it, (2) does not *)
(* divide the hclk less, (3) raises the cclk or does not divide the pclk   *)
(* less.  A call that does otherwise may exceed the limits while it runs.  *)
Orderly ==
  LET new == Target(clkBefore, clkArg)
  IN  /\ \/ PllMhz(new) = PllMhz(clkBefore) /\ new.base = clkBefore.base
         \/ ~FromPll(clkBefore) /\ ~clkBefore.mspiPll
      /\ new.hdiv >= clkBefore.hdiv
      /\ \/ CclkIn(new) * CclkDiv(clkBefore) >= CclkIn(clkBefore) * CclkDiv(new)
         \/ new.hdiv * new.pdiv >= clkBefore.hdiv * clkBefore.pdiv

LimitsDuringCall == clkAt # "idle" /\ Orderly => WithinLimits(clk)

(* The record from which the drivers compute baud rates is what the        *)
(* registers make, whatever was called before.                             *)
ClockRecorded ==
  clkAt = "idle" =>
    /\ sys_clk.pll_clk = PllMhz(clk)
    /\ sys_clk.cclk = CclkIn(clk) \div CclkDiv(clk)
    /\ sys_clk.hclk = CclkIn(clk) \div HclkDiv(clk)
    /\ sys_clk.pclk = CclkIn(clk) \div PclkDiv(clk)
    /\ clk.mspiPll => sys_clk.mspi_clk = PllMhz(clk) \div clk.mspi
=============================================================================
