----------------------------- MODULE FlashDriver -----------------------------
(***************************************************************************)
(* The flash driver of the B91 (drivers/B91/flash.c), its critical section *)
(* (plic.c, core.h) and the bus it drives by hand (mspi.h).                *)
(*                                                                         *)
(* The program executes in place from the flash that these functions       *)
(* command: from mspi_stop_xip until the device is idle again nothing may  *)
(* be fetched from it.  Interrupts are kept away either by clearing the    *)
(* enable bits of mie or, when preemption is configured, by raising the    *)
(* PLIC threshold only.  While it polls the device, flash_wait_done calls  *)
(* blc_sdk_irq_handler, which is otherwise called by the radio and timer   *)
(* interrupts.                                                             *)
(*                                                                         *)
(* One thread and its interrupts are modelled; interrupts do not nest, as  *)
(* the trap clears mstatus.MIE.  The device and the SDK are external.      *)
(***************************************************************************)
EXTENDS Integers, Sequences, FiniteSets

CONSTANTS
  Irqs,          \* interrupt sources
  Priority,      \* [Irqs -> Nat \ {0}], their PLIC priorities
  SdkIrqs,       \* those whose handler is blc_sdk_irq_handler
  RamIrqs,       \* those whose handler is not fetched from the flash
  ThreadOps,     \* driver functions the thread calls
  IsrOps,        \* driver functions that handlers call
  OpIrqs,        \* the interrupts whose handlers call them
  Preemptible,   \* the values of (g_plic_preempt_en && preempt_en) in use
  Threshold,     \* the threshold of flash_plic_preempt_config
  MaxPolls       \* bound of the loop of flash_wait_done, 10,000,000

ASSUME FlashAssumption ==
  /\ "thread" \notin Irqs
  /\ Priority \in [Irqs -> Nat \ {0}]
  /\ SdkIrqs \subseteq RamIrqs /\ RamIrqs \subseteq Irqs
  /\ OpIrqs \subseteq Irqs \ SdkIrqs
  /\ Preemptible \subseteq BOOLEAN /\ Preemptible # {}
  /\ Threshold \in Nat \ {0}
  /\ MaxPolls \in Nat \ {0}

(* With preemption in use, whatever may interrupt an operation runs from   *)
(* RAM, is not the SDK's handler and leaves the driver alone.              *)
Disturbing == {i \in Irqs : Priority[i] > Threshold}

ASSUME PreemptionAssumption ==
  TRUE \in Preemptible => Disturbing \subseteq RamIrqs \ (SdkIrqs \cup OpIrqs)

VARIABLES
  irqOn,         \* bits 3, 7 and 11 of mie
  threshold,     \* reg_irq_threshold
  preempt,       \* g_plic_preempt_en && s_flash_preempt_config.preempt_en
  wanted,        \* irqOn as the application left it
  running,       \* contexts entered, the one that runs last
  frame,         \* where each context is
  cs, cmd, sent, \* chip select; the transaction it frames and its progress
  wel, busy,     \* the device's write enable latch and busy bit
  power,         \* the device's power state
  ran,           \* what the device was made to do since the last operation began
  gaveUp         \* a wait ran out of polls and the device has been busy since

irqVars == <<irqOn, threshold, preempt, wanted>>
busVars == <<cs, cmd, sent>>
devVars == <<wel, busy, power, ran>>
flashVars == <<irqVars, running, frame, busVars, devVars, gaveUp>>

Contexts == {"thread"} \cup Irqs
Top == running[Len(running)]
Here == frame[Top]

-----------------------------------------------------------------------------
(* The driver functions.  They differ in the command, in whether a write   *)
(* enable precedes it, in whether an address or data follow it, and in     *)
(* whether flash_wait_done ends it.                                        *)

Reading(c) == [cmd |-> c, wren |-> FALSE, more |-> TRUE, wait |-> FALSE]
Modifying(c) == [cmd |-> c, wren |-> TRUE, more |-> TRUE, wait |-> TRUE]
Powering(c, w) == [cmd |-> c, wren |-> FALSE, more |-> FALSE, wait |-> w]

flash_erase_sector   == Modifying("FLASH_SECT_ERASE_CMD")
flash_erase_page     == Modifying("FLASH_PAGE_ERASE_CMD")
flash_erase_32kblock == Modifying("FLASH_32KBLK_ERASE_CMD")
flash_erase_64kblock == Modifying("FLASH_64KBLK_ERASE_CMD")
flash_erase_chip     == [Modifying("FLASH_CHIP_ERASE_CMD") EXCEPT !.more = FALSE]
flash_write_page     == Modifying("FLASH_WRITE_CMD")
flash_write_status   == Modifying("FLASH_WRITE_STATUS_CMD")
flash_lock           == Modifying("FLASH_WRITE_STATUS_CMD")
flash_unlock         == Modifying("FLASH_WRITE_STATUS_CMD")
flash_read_page      == Reading("FLASH_READ_CMD")
flash_read_mid       == Reading("FLASH_GET_JEDEC_ID")
flash_read_uid       == Reading("FLASH_GD_PUYA_READ_UID_CMD")
flash_read_status    == Reading("FLASH_READ_STATUS_1_CMD")
flash_deep_powerdown == Powering("FLASH_POWER_DOWN", FALSE)
flash_release_deep_powerdown == Powering("FLASH_POWER_DOWN_RELEASE", TRUE)
flash_set_xip_config == Powering("none", FALSE)

DriverOps ==
  {flash_erase_sector, flash_erase_page, flash_erase_32kblock, flash_erase_64kblock,
   flash_erase_chip, flash_write_page, flash_write_status, flash_lock, flash_unlock,
   flash_read_page, flash_read_mid, flash_read_uid, flash_read_status,
   flash_deep_powerdown, flash_release_deep_powerdown, flash_set_xip_config}

ASSUME CallsAssumption == ThreadOps \cup IsrOps \subseteq DriverOps

NoOp == Powering("none", FALSE)

Called(at, op) == [at |-> at, op |-> op, r |-> FALSE, polls |-> 0, ready |-> FALSE]
Idle(at) == Called(at, NoOp)

FlashInit ==
  /\ irqOn = TRUE /\ wanted = TRUE
  /\ threshold = 0
  /\ preempt \in Preemptible
  /\ running = <<"thread">>
  /\ frame = [c \in Contexts |-> Idle("code")]
  /\ cs = "high" /\ cmd = "none" /\ sent = FALSE
  /\ wel = FALSE /\ busy = FALSE /\ power = "active"
  /\ ran = "none" /\ gaveUp = FALSE

(* The running context goes on at another place.                           *)
Goto(at) == frame' = [frame EXCEPT ![Top].at = at]
At(at) == Here.at = at

-----------------------------------------------------------------------------
(* The flash device (external).                                            *)

Modifies(c) ==
  c \in {"FLASH_SECT_ERASE_CMD", "FLASH_PAGE_ERASE_CMD", "FLASH_32KBLK_ERASE_CMD",
         "FLASH_64KBLK_ERASE_CMD", "FLASH_CHIP_ERASE_CMD", "FLASH_WRITE_CMD",
         "FLASH_WRITE_STATUS_CMD"}

(* What the device does when the chip select rises at the end of a         *)
(* transaction: nothing unless it is awake, idle and the command complete. *)
ChipSelectRises ==
  LET accepted == cs = "low" /\ sent /\ ~busy
      works    == accepted /\ power = "active" /\ Modifies(cmd) /\ wel
  IN  /\ busy' = (busy \/ works)
      /\ ran' = IF works THEN cmd ELSE ran
      /\ wel' = IF works THEN FALSE
                ELSE wel \/ (accepted /\ power = "active" /\ cmd = "FLASH_WRITE_ENABLE_CMD")
      /\ power' = IF accepted /\ power = "active" /\ cmd = "FLASH_POWER_DOWN" THEN "down"
                  ELSE IF accepted /\ power = "down" /\ cmd = "FLASH_POWER_DOWN_RELEASE"
                  THEN "waking" ELSE power

DeviceDone ==
  /\ busy
  /\ busy' = FALSE /\ gaveUp' = FALSE
  /\ UNCHANGED <<irqVars, running, frame, busVars, wel, power, ran>>

(* tRES1 has elapsed.                                                      *)
DeviceAwake ==
  /\ power = "waking"
  /\ power' = "active"
  /\ UNCHANGED <<irqVars, running, frame, busVars, wel, busy, ran, gaveUp>>

(* mspi_high, and flash_send_cmd, which raises the chip select, lowers it  *)
(* and sends the command byte.                                             *)
MspiHigh ==
  /\ ChipSelectRises
  /\ cs' = "high" /\ cmd' = "none" /\ sent' = FALSE

SendCmd(c, complete) ==
  /\ ChipSelectRises
  /\ cs' = "low" /\ cmd' = c /\ sent' = complete

-----------------------------------------------------------------------------
(* plic_enter_critical_sec and plic_exit_critical_sec, with                *)
(* core_interrupt_disable and core_restore_interrupt.  Restoring only sets *)
(* bits: a caller that had disabled interrupts keeps them disabled.        *)

EnterCriticalOpenFault ==    \* forgets to disable interrupts
  IF preempt
  THEN threshold' = Threshold /\ UNCHANGED irqOn
  ELSE UNCHANGED <<irqOn, threshold>>

EnterCritical ==
  IF preempt
  THEN threshold' = Threshold /\ UNCHANGED irqOn
  ELSE irqOn' = FALSE /\ UNCHANGED threshold

SavedByEnter == IF preempt THEN FALSE ELSE irqOn

ExitCriticalFault(r) ==      \* restores nothing after a raised threshold
  IF preempt
  THEN UNCHANGED <<irqOn, threshold>>
  ELSE irqOn' = (irqOn \/ r) /\ UNCHANGED threshold

ExitCritical(r) ==
  IF preempt
  THEN threshold' = 0 /\ UNCHANGED irqOn
  ELSE irqOn' = (irqOn \/ r) /\ UNCHANGED threshold

-----------------------------------------------------------------------------
(* A driver function, step by step.                                        *)

CallOp(op) ==
  /\ At("code")
  /\ IF Top = "thread" THEN op \in ThreadOps ELSE Top \in OpIrqs /\ op \in IsrOps
  /\ frame' = [frame EXCEPT ![Top] = Called("enter", op)]
  /\ UNCHANGED <<irqVars, running, busVars, devVars, gaveUp>>

Enter ==
  /\ At("enter")
  /\ EnterCritical
  /\ frame' = [frame EXCEPT ![Top].at = "stop", ![Top].r = SavedByEnter,
                            ![Top].ready = (power = "active" /\ ~busy)]
  /\ ran' = "none"
  /\ UNCHANGED <<preempt, wanted, running, busVars, wel, busy, power, gaveUp>>

(* mspi_stop_xip.  flash_set_xip_config has nothing to send.               *)
StopXip ==
  /\ At("stop")
  /\ MspiHigh
  /\ Goto(IF Here.op.cmd = "none" THEN "exit"
          ELSE IF Here.op.wren THEN "wren" ELSE "command")
  /\ UNCHANGED <<irqVars, running, gaveUp>>

WriteEnableFault ==          \* the write enable command is left out
  /\ At("wren")
  /\ Goto("command")
  /\ UNCHANGED <<irqVars, running, busVars, devVars, gaveUp>>

WriteEnable ==
  /\ At("wren")
  /\ SendCmd("FLASH_WRITE_ENABLE_CMD", TRUE)
  /\ Goto("command")
  /\ UNCHANGED <<irqVars, running, gaveUp>>

Command ==
  /\ At("command")
  /\ SendCmd(Here.op.cmd, ~Here.op.more)
  /\ Goto(IF Here.op.more THEN "data" ELSE "high")
  /\ UNCHANGED <<irqVars, running, gaveUp>>

(* Address and data bytes.                                                 *)
Data ==
  /\ At("data")
  /\ sent' = (cs = "low")
  /\ Goto("high")
  /\ UNCHANGED <<irqVars, running, cs, cmd, devVars, gaveUp>>

EndCommandFault ==           \* returns without waiting for the device
  /\ At("high")
  /\ MspiHigh
  /\ Goto("exit")
  /\ UNCHANGED <<irqVars, running, gaveUp>>

EndCommand ==
  /\ At("high")
  /\ MspiHigh
  /\ Goto(IF Here.op.wait THEN "status" ELSE "exit")
  /\ UNCHANGED <<irqVars, running, gaveUp>>

-----------------------------------------------------------------------------
(* flash_wait_done: the busy bit is read until it is 0 or the loop has run *)
(* out; blc_sdk_irq_handler is called after every reading of 1.            *)

AskStatus ==
  /\ At("status")
  /\ SendCmd("FLASH_READ_STATUS_CMD", TRUE)
  /\ frame' = [frame EXCEPT ![Top].at = "poll", ![Top].polls = MaxPolls]
  /\ UNCHANGED <<irqVars, running, gaveUp>>

(* A device that is not awake drives no data: the bit read is anything.    *)
BusyBit == IF power = "active" /\ cs = "low" /\ cmd = "FLASH_READ_STATUS_CMD"
           THEN {busy} ELSE BOOLEAN

PollReady ==
  /\ At("poll") /\ Here.polls > 0
  /\ FALSE \in BusyBit
  /\ Goto("done")
  /\ UNCHANGED <<irqVars, running, busVars, devVars, gaveUp>>

PollBusyFault ==             \* polls without a bound
  /\ At("poll") /\ Here.polls > 0
  /\ TRUE \in BusyBit
  /\ Goto("sdk")
  /\ UNCHANGED <<irqVars, running, busVars, devVars, gaveUp>>

PollBusy ==
  /\ At("poll") /\ Here.polls > 0
  /\ TRUE \in BusyBit
  /\ frame' = [frame EXCEPT ![Top].at = "sdk", ![Top].polls = @ - 1]
  /\ UNCHANGED <<irqVars, running, busVars, devVars, gaveUp>>

SdkReturns ==
  /\ At("sdk")
  /\ Goto("poll")
  /\ UNCHANGED <<irqVars, running, busVars, devVars, gaveUp>>

PollGivesUp ==
  /\ At("poll") /\ Here.polls = 0
  /\ gaveUp' = busy
  /\ Goto("done")
  /\ UNCHANGED <<irqVars, running, busVars, devVars>>

EndStatus ==
  /\ At("done")
  /\ MspiHigh
  /\ Goto("exit")
  /\ UNCHANGED <<irqVars, running, gaveUp>>

Exit ==
  /\ At("exit")
  /\ ExitCritical(Here.r)
  /\ frame' = [frame EXCEPT ![Top] = Idle("code")]
  /\ UNCHANGED <<preempt, wanted, running, busVars, devVars, gaveUp>>

-----------------------------------------------------------------------------
(* Interrupts: taken between two steps of the thread.                      *)

TakeInterrupt(i) ==
  /\ running = <<"thread">>
  /\ irqOn
  /\ Priority[i] > threshold
  /\ running' = <<"thread", i>>
  /\ frame' = [frame EXCEPT ![i] = Idle(IF i \in SdkIrqs THEN "sdk_isr" ELSE "code")]
  /\ UNCHANGED <<irqVars, busVars, devVars, gaveUp>>

ReturnFromInterrupt ==
  /\ Len(running) > 1
  /\ Here.at \in {"code", "sdk_isr"}
  /\ running' = <<"thread">>
  /\ frame' = [frame EXCEPT ![Top] = Idle("code")]
  /\ UNCHANGED <<irqVars, busVars, devVars, gaveUp>>

(* The application disables and enables interrupts around its own code,    *)
(* and configures preemption while no operation is in progress.            *)

ToggleInterrupts ==
  /\ running = <<"thread">> /\ At("code")
  /\ irqOn' = ~irqOn
  /\ wanted' = ~irqOn
  /\ UNCHANGED <<threshold, preempt, running, frame, busVars, devVars, gaveUp>>

flash_plic_preempt_config(p) ==
  /\ At("code") /\ frame["thread"].at = "code"
  /\ preempt' = p
  /\ UNCHANGED <<irqOn, threshold, wanted, running, frame, busVars, devVars, gaveUp>>

-----------------------------------------------------------------------------
Operation ==
  \/ Enter \/ StopXip \/ WriteEnable \/ Command \/ Data \/ EndCommand
  \/ AskStatus \/ PollReady \/ PollBusy \/ SdkReturns \/ PollGivesUp \/ EndStatus \/ Exit

FlashNext ==
  \/ \E op \in ThreadOps \cup IsrOps : CallOp(op)
  \/ Operation
  \/ \E i \in Irqs : TakeInterrupt(i)
  \/ ReturnFromInterrupt
  \/ ToggleInterrupts
  \/ \E p \in Preemptible : flash_plic_preempt_config(p)
  \/ DeviceDone
  \/ DeviceAwake

FlashSpec == FlashInit /\ [][FlashNext]_flashVars

(* An operation that can go on does, although interrupts keep coming; a    *)
(* handler makes finitely many calls and returns; the device finishes what *)
(* it does.                                                                *)
FlashFairness ==
  /\ SF_flashVars(Top = "thread" /\ Operation)
  /\ SF_flashVars(Top # "thread" /\ Operation)
  /\ SF_flashVars(ReturnFromInterrupt)
  /\ WF_flashVars(DeviceDone)
  /\ WF_flashVars(DeviceAwake)

FlashFairSpec == FlashSpec /\ FlashFairness

-----------------------------------------------------------------------------
Places == {"code", "enter", "stop", "wren", "command", "data", "high", "status",
           "poll", "sdk", "done", "exit", "sdk_isr"}

FlashTypeOK ==
  /\ irqOn \in BOOLEAN /\ wanted \in BOOLEAN /\ preempt \in BOOLEAN
  /\ threshold \in {0, Threshold}
  /\ running \in {<<"thread">>} \cup {<<"thread", i>> : i \in Irqs}
  /\ frame \in [Contexts -> [at : Places, op : ThreadOps \cup IsrOps \cup {NoOp},
                             r : BOOLEAN, polls : 0 .. MaxPolls, ready : BOOLEAN]]
  /\ cs \in {"high", "low"}
  /\ sent \in BOOLEAN /\ wel \in BOOLEAN /\ busy \in BOOLEAN
  /\ power \in {"active", "down", "waking"}

InOperation(c) == frame[c].at \notin {"code", "enter", "sdk_isr"}

(* Whoever runs from the flash finds the bus free and the device idle: no  *)
(* erase or program is still under way and no transaction was left open,   *)
(* unless a wait has given up.                                             *)
XipSafe ==
  At("code") /\ Top \notin RamIrqs => cs = "high" /\ (busy => gaveUp)

(* When the application runs, interrupts are as it wanted them: each exit  *)
(* from a critical section undoes what its entry did, and no more.         *)
InterruptsRestored ==
  ~InOperation("thread") /\ running = <<"thread">> => irqOn = wanted /\ threshold = 0

(* blc_sdk_irq_handler, called by the radio and timer interrupts and by    *)
(* flash_wait_done, never runs inside itself.                              *)
SdkNotReentered ==
  Cardinality({c \in Contexts : frame[c].at \in {"sdk", "sdk_isr"}}) <= 1

(* An operation that found the device ready has made it erase, program or  *)
(* write exactly what was asked, and finish, by the time it returns.       *)
WorkDone ==
  At("exit") /\ Here.op.wren /\ Here.ready /\ ~gaveUp
    => ran = Here.op.cmd /\ ~busy

(* An operation ends, whatever state the device is in, busy for ever or    *)
(* powered down included.                                                  *)
OperationEnds ==
  \A c \in Contexts : (frame[c].at # "code") ~> (frame[c].at = "code")

(* flash.h:201: "The CS# pin must remain high during the tRES1(8us) time   *)
(* duration" that follows the release from deep power-down.                *)
CsHighDuringRelease == power = "waking" => cs = "high"
=============================================================================
