----------------------------- MODULE MCPmSleep -----------------------------
(* The proportions of the real constants on a word of ten bits: a group of *)
(* five 32k ticks is twenty 16M ticks, a long sleep is a tenth of a word,  *)
(* and Base makes the 32k counter wrap early.                              *)
EXTENDS PmSleep
MCSpans == {-3, 5, 46, 300}
MCLeastSpans == {23, 300}
MCTimer == {{"timer"}, {"timer", "pad"}}
MCPad == {{"pad"}}
MCIdle == {1, 60}
=============================================================================
