---------------------------- MODULE BleFirmware ----------------------------
(***************************************************************************)
(* The single-threaded parts of the firmware around the link layer: how    *)
(* the chip came up, the device addresses, the start of the controller and *)
(* its sleep.  Each runs alone, before or between the others, and shares   *)
(* no variable with them; a behaviour is about one, chosen at the start.   *)
(***************************************************************************)
EXTENDS BootStatus, MacProvision, ControllerStart, ZephyrWake

VARIABLE part       \* the part of the firmware this behaviour is about

bleVars == <<part, bootVars, macVars, startVars, wakeVars>>

Parts == {"boot", "mac", "start", "wake"}

(* The parts a behaviour is not about stay in one initial state.           *)
Init ==
  /\ part \in Parts
  /\ BootInit /\ (part # "boot" => noRetention = 1 /\ chipA0 = FALSE)
  /\ MacInit /\ (part # "mac" => configured = TRUE /\ flash = [i \in Cells |-> Erased])
  /\ Starting(IF part = "start" THEN Configurations ELSE {CHOOSE c \in Configurations : TRUE})
  /\ IF part = "wake" THEN WakeInit
     ELSE Waking({0}, {CHOOSE s \in Spans : TRUE}, {0})

Next ==
  \/ /\ part = "boot" /\ BootNext
     /\ UNCHANGED <<part, macVars, startVars, wakeVars>>
  \/ /\ part = "mac" /\ MacNext
     /\ UNCHANGED <<part, bootVars, startVars, wakeVars>>
  \/ /\ part = "start" /\ StartNext
     /\ UNCHANGED <<part, bootVars, macVars, wakeVars>>
  \/ /\ part = "wake" /\ WakeNext
     /\ UNCHANGED <<part, bootVars, macVars, startVars>>

(* The CPU runs; the timer that ends the boot's own deep sleep expires.    *)
Fairness ==
  /\ WF_bootVars(part = "boot" /\ Booting)
  /\ WF_bootVars(part = "boot" /\ bootPc = "boot_sleep" /\ Wake)
  /\ WF_startVars(part = "start" /\ StartNext)

Spec == Init /\ [][Next]_bleVars /\ Fairness

-----------------------------------------------------------------------------
TypeOK ==
  /\ part \in Parts
  /\ BootTypeOK
  /\ MacTypeOK
  /\ StartTypeOK
  /\ WakeTypeOK

(* Whatever a disturbed start left in the registers, the chip comes up to  *)
(* the application, and the start of the controller ends.                  *)
StartUpEnds == (part = "boot" => BootEnds) /\ (part = "start" => StartEnds)
=============================================================================
