----------------------------- MODULE BootStatus -----------------------------
(***************************************************************************)
(* How the chip came up.  sys_init (drivers/B91/sys.c) asks                *)
(* pm_update_status_info (drivers/B91/pm.c) why the CPU starts, from bits  *)
(* that pm_sleep_wakeup and earlier boots left in analog registers 0x38,   *)
(* 0x39 and 0x7f, and sends the chip through a deep sleep after every      *)
(* reset.  Power, reset pin, watchdog and wake-ups may come at any moment, *)
(* also between two register writes of a boot.                             *)
(***************************************************************************)
EXTENDS Naturals

CONSTANT
  Disturbances   \* bound: external resets and wake flags already pending

ASSUME BootAssumption == Disturbances \in Nat

VARIABLES
  wdClr,       \* register 0x38 bit 0: 1 again after any reset
  powerOnClr,  \* register 0x39 bits 0 and 1: 0 again after a power cycle
  noRetention, \* register 0x7f bit 0
  chipA0,      \* the chip is an A0 (a property of the hardware)
  bootPc,      \* where the software is
  status,      \* g_pm_status_info.mcu_status
  timer,       \* what this boot did with the system timer
  cause,       \* what really brought the chip up
  recorded,    \* a boot has recorded the power-on
  stored,      \* the application has kept data in these registers
  budget       \* disturbances left

registers == <<wdClr, powerOnClr, noRetention>>
bootVars == <<registers, chipA0, bootPc, status, timer, cause, recorded, stored, budget>>

Statuses == {"POWER_ON", "REBOOT_BACK", "DEEPRET_BACK", "DEEP_BACK", "REBOOT_DEEP_BACK"}
Causes == {"power", "reset", "retention", "deep", "boot_deep"}
BootSteps == {"update", "power_on_2", "reboot_deep_2", "start", "decide", "boot_call"}
Asleep == {"boot_sleep", "deep_sleep", "ret_sleep"}

BootInit ==
  /\ wdClr = 1 /\ powerOnClr = {} /\ noRetention \in {0, 1}
  /\ chipA0 \in BOOLEAN
  /\ bootPc = "update"
  /\ status = "POWER_ON" /\ timer = "stopped"
  /\ cause = "power" /\ recorded = FALSE /\ stored = FALSE
  /\ budget = Disturbances

-----------------------------------------------------------------------------
(* pm_update_status_info: the first register decides between a reset and a *)
(* wake-up; each branch writes back what the next boot must find.          *)
Classify ==
  IF wdClr = 1 THEN IF 0 \in powerOnClr THEN "REBOOT_BACK" ELSE "POWER_ON"
  ELSE IF noRetention = 0 THEN "DEEPRET_BACK"
  ELSE IF 1 \in powerOnClr THEN "REBOOT_DEEP_BACK"
  ELSE "DEEP_BACK"

ReadStatusFault ==      \* does not clear the reset mark
  /\ bootPc = "update"
  /\ status' = Classify
  /\ bootPc' = CASE status' = "POWER_ON" -> "power_on_2"
                 [] status' = "REBOOT_DEEP_BACK" -> "reboot_deep_2"
                 [] OTHER -> "start"
  /\ UNCHANGED <<registers, chipA0, timer, cause, recorded, stored, budget>>

ReadStatus ==
  /\ bootPc = "update"
  /\ status' = Classify
  /\ wdClr' = IF status' \in {"REBOOT_BACK", "POWER_ON"} THEN 0 ELSE wdClr
  /\ bootPc' = CASE status' = "POWER_ON" -> "power_on_2"
                 [] status' = "REBOOT_DEEP_BACK" -> "reboot_deep_2"
                 [] OTHER -> "start"
  /\ UNCHANGED <<powerOnClr, noRetention, chipA0, timer, cause, recorded, stored, budget>>

MarkPoweredFault ==     \* a bit that is not ours
  /\ bootPc = "power_on_2"
  /\ powerOnClr' = powerOnClr \cup {2}
  /\ recorded' = TRUE
  /\ bootPc' = "start"
  /\ UNCHANGED <<wdClr, noRetention, chipA0, status, timer, cause, stored, budget>>

MarkPowered ==
  /\ bootPc = "power_on_2"
  /\ powerOnClr' = powerOnClr \cup {0}
  /\ recorded' = TRUE
  /\ bootPc' = "start"
  /\ UNCHANGED <<wdClr, noRetention, chipA0, status, timer, cause, stored, budget>>

ForgetReboot ==
  /\ bootPc = "reboot_deep_2"
  /\ powerOnClr' = powerOnClr \ {1}
  /\ bootPc' = "start"
  /\ UNCHANGED <<wdClr, noRetention, chipA0, status, timer, cause, recorded, stored, budget>>

(* The end of pm_update_status_info, and the system timer: recovered from  *)
(* the 32k counter after a retention, restarted otherwise.                 *)
StartTimer ==
  /\ bootPc = "start"
  /\ noRetention' = 1
  /\ timer' = IF status = "DEEPRET_BACK" THEN "recovered" ELSE "restarted"
  /\ bootPc' = "decide"
  /\ UNCHANGED <<wdClr, powerOnClr, chipA0, status, cause, recorded, stored, budget>>

-----------------------------------------------------------------------------
(* The end of sys_init: after a reset, and after the power-on of an A0,    *)
(* the chip goes through 100 ms of deep sleep.                             *)
DecideFault ==          \* an A0 only
  /\ bootPc = "decide"
  /\ IF chipA0 /\ status \in {"REBOOT_BACK", "POWER_ON"}
     THEN /\ powerOnClr' = IF status = "POWER_ON" THEN powerOnClr ELSE powerOnClr \cup {1}
          /\ bootPc' = "boot_call"
     ELSE bootPc' = "app" /\ UNCHANGED powerOnClr
  /\ UNCHANGED <<wdClr, noRetention, chipA0, status, timer, cause, recorded, stored, budget>>

Decide ==
  /\ bootPc = "decide"
  /\ \/ /\ status = "REBOOT_BACK"
        /\ powerOnClr' = powerOnClr \cup {1}
        /\ bootPc' = "boot_call"
     \/ /\ status = "POWER_ON" /\ chipA0
        /\ UNCHANGED powerOnClr
        /\ bootPc' = "boot_call"
     \/ /\ status # "REBOOT_BACK" /\ ~(status = "POWER_ON" /\ chipA0)
        /\ UNCHANGED powerOnClr
        /\ bootPc' = "app"
  /\ UNCHANGED <<wdClr, noRetention, chipA0, status, timer, cause, recorded, stored, budget>>

(* What a reset of the chip does to the registers.  The watchdog does not  *)
(* restore 0x7f.  A reset before the power-on was recorded is still part   *)
(* of the power-on.                                                        *)
Reset ==
  /\ wdClr' = 1
  /\ bootPc' = "update"
  /\ timer' = "stopped"
  /\ cause' = IF recorded THEN "reset" ELSE "power"
  /\ UNCHANGED <<powerOnClr, chipA0, status, recorded, stored>>

(* pm_sleep_wakeup(DEEPSLEEP_MODE): 0x7f is written, then either the chip  *)
(* powers down or, a wake-up flag being set already, the code goes on to   *)
(* the reboot behind pm_sleep_start.                                       *)
DeepSleep(from, to) ==
  /\ bootPc = from
  /\ noRetention' = 1
  /\ bootPc' = to
  /\ UNCHANGED <<wdClr, powerOnClr, chipA0, status, timer, cause, recorded, stored, budget>>

DeepPending(from) ==
  /\ bootPc = from
  /\ budget > 0
  /\ budget' = budget - 1
  /\ noRetention' = 1
  /\ Reset

(* pm_sleep_wakeup with a retention mode: 0x7f is cleared only around the  *)
(* power-down; with a flag pending the call returns to the application.    *)
RetentionSleep ==
  /\ bootPc = "app"
  /\ noRetention' = 0
  /\ bootPc' = "ret_sleep"
  /\ UNCHANGED <<wdClr, powerOnClr, chipA0, status, timer, cause, recorded, stored, budget>>

BootCall == DeepSleep("boot_call", "boot_sleep") \/ DeepPending("boot_call")
AppDeep == DeepSleep("app", "deep_sleep") \/ DeepPending("app")

SysReboot ==
  /\ bootPc = "app"
  /\ budget > 0
  /\ budget' = budget - 1
  /\ Reset
  /\ UNCHANGED noRetention

(* ext_pm.h offers 0x39 and 0x38 for data that must survive a deep sleep.  *)
UserStores ==
  /\ bootPc = "app"
  /\ powerOnClr' \in SUBSET {0, 1}
  /\ wdClr' \in {0, 1}
  /\ stored' = TRUE
  /\ UNCHANGED <<noRetention, chipA0, bootPc, status, timer, cause, recorded, budget>>

-----------------------------------------------------------------------------
(* The chip: it wakes up and starts at sys_init again.                     *)
Wake ==
  /\ bootPc \in Asleep
  /\ cause' = CASE bootPc = "boot_sleep" -> (IF cause = "reset" THEN "boot_deep" ELSE "deep")
                [] bootPc = "deep_sleep" -> "deep"
                [] bootPc = "ret_sleep" -> "retention"
  /\ bootPc' = "update"
  /\ timer' = "stopped"
  /\ UNCHANGED <<registers, chipA0, status, recorded, stored, budget>>

(* Reset pin or watchdog, at any moment.                                   *)
ExternalReset ==
  /\ budget > 0
  /\ budget' = budget - 1
  /\ Reset
  /\ UNCHANGED noRetention

PowerCycle ==
  /\ budget > 0
  /\ budget' = budget - 1
  /\ wdClr' = 1 /\ powerOnClr' = {} /\ noRetention' \in {0, 1}
  /\ bootPc' = "update"
  /\ timer' = "stopped"
  /\ cause' = "power"
  /\ recorded' = FALSE /\ stored' = FALSE
  /\ UNCHANGED <<chipA0, status>>

Booting == ReadStatus \/ MarkPowered \/ ForgetReboot \/ StartTimer \/ Decide \/ BootCall

BootNext ==
  \/ ReadStatus \/ MarkPowered \/ ForgetReboot \/ StartTimer \/ Decide
  \/ BootCall
  \/ AppDeep \/ RetentionSleep \/ SysReboot \/ UserStores
  \/ Wake \/ ExternalReset \/ PowerCycle

(* The CPU runs, and the 100 ms timer of the boot's own sleep expires.     *)
BootFairness == WF_bootVars(Booting) /\ WF_bootVars(bootPc = "boot_sleep" /\ Wake)

BootSpec == BootInit /\ [][BootNext]_bootVars /\ BootFairness

-----------------------------------------------------------------------------
BootTypeOK ==
  /\ wdClr \in {0, 1} /\ noRetention \in {0, 1}
  /\ powerOnClr \subseteq {0, 1}
  /\ chipA0 \in BOOLEAN /\ recorded \in BOOLEAN /\ stored \in BOOLEAN
  /\ bootPc \in BootSteps \cup Asleep \cup {"app"}
  /\ status \in Statuses
  /\ timer \in {"stopped", "recovered", "restarted"}
  /\ cause \in Causes
  /\ budget \in 0 .. Disturbances

(* The application is told what really happened, and never runs straight   *)
(* after a reset: that always goes through the deep sleep of sys_init.     *)
(* Unless it has written to the registers itself.                          *)
Reported ==
  CASE cause = "power" -> {"POWER_ON"}
    [] cause = "reset" -> {}
    [] cause = "retention" -> {"DEEPRET_BACK"}
    [] cause = "deep" -> {"DEEP_BACK"}
    [] cause = "boot_deep" -> {"REBOOT_DEEP_BACK"}

StatusTruthful ==
  bootPc = "app" /\ ~stored => status \in Reported

(* The system timer goes on counting exactly when RAM was retained: the    *)
(* reference it is computed from is in that RAM.                           *)
TimerFollowsRam ==
  bootPc = "app" /\ ~stored => (timer = "recovered" <=> cause = "retention")

(* What the application reads at a start agrees with what happened: the    *)
(* status it is told and the timer it finds.                               *)
BootTruthful == StatusTruthful /\ TimerFollowsRam

(* ext_pm.h:41: "store your information in these ana_regs before           *)
(* deepsleep": data kept in DEEP_ANA_REG0 and REG7 changes no status.      *)
UserDataHarmless == bootPc = "app" => status \in Reported

(* Every boot reaches the application, whatever disturbed it before.       *)
BootEnds == bootPc \in BootSteps \cup {"boot_sleep"} ~> bootPc = "app"
=============================================================================
