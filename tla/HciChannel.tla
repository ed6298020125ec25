----------------------------- MODULE HciChannel -----------------------------
(***************************************************************************)
(* What the HCI bridge of the B91 controller promises to the host stack    *)
(* and to the link layer, whatever its rings and threads look like: two    *)
(* FIFO channels.  Packets the host sends are handled by the controller in *)
(* the order they were sent, intact and once; events the controller        *)
(* produces reach the host in the same way as soon as the host has         *)
(* registered its callback, and are dropped before that.                   *)
(***************************************************************************)
EXTENDS Naturals, Sequences

CONSTANTS
  Packets,       \* packets the host may send (HCI commands, ACL data)
  Events,        \* packets the controller may produce for the host
  None,          \* no packet yet: in neither set
  MaxCmds,       \* the most host packets that are ever outstanding, > 0
  MaxEvts        \* the most events that are ever outstanding, > 0

VARIABLES
  cmds,          \* sent by the host, not yet handled, oldest first
  evts,          \* produced by the controller, not yet delivered
  listening,     \* the host has registered host_read_packet
  lastCmd,       \* the packet the controller handled last
  lastEvt        \* the event the host received last

vars == <<cmds, evts, listening, lastCmd, lastEvt>>

Init ==
  /\ cmds = << >>
  /\ evts = << >>
  /\ listening = FALSE
  /\ lastCmd = None
  /\ lastEvt = None

Listen ==
  /\ ~listening
  /\ listening' = TRUE
  /\ UNCHANGED <<cmds, evts, lastCmd, lastEvt>>

Send(p) ==
  /\ Len(cmds) < MaxCmds
  /\ cmds' = Append(cmds, p)
  /\ UNCHANGED <<evts, listening, lastCmd, lastEvt>>

Handle ==
  /\ cmds # << >>
  /\ lastCmd' = Head(cmds)
  /\ cmds' = Tail(cmds)
  /\ UNCHANGED <<evts, listening, lastEvt>>

Produce(e) ==
  /\ Len(evts) < MaxEvts
  /\ evts' = Append(evts, e)
  /\ UNCHANGED <<cmds, listening, lastCmd, lastEvt>>

Deliver ==
  /\ listening
  /\ evts # << >>
  /\ lastEvt' = Head(evts)
  /\ evts' = Tail(evts)
  /\ UNCHANGED <<cmds, listening, lastCmd>>

Drop ==
  /\ ~listening
  /\ evts # << >>
  /\ evts' = Tail(evts)
  /\ UNCHANGED <<cmds, listening, lastCmd, lastEvt>>

Next ==
  \/ Listen
  \/ \E p \in Packets : Send(p)
  \/ Handle
  \/ \E e \in Events : Produce(e)
  \/ Deliver
  \/ Drop

Spec == Init /\ [][Next]_vars

(* What was sent is handled, and what was produced leaves the channel.     *)
FairSpec == Spec /\ WF_vars(Handle) /\ WF_vars(Deliver \/ Drop)
=============================================================================
