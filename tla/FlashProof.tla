----------------------------- MODULE FlashProof -----------------------------
(***************************************************************************)
(* Proofs about FlashDriver, for any number of interrupts with any         *)
(* priorities, any choice of calls and any bound on the polls: the types,  *)
(* that at most one context commands the device at a time, that interrupts *)
(* are restored, that blc_sdk_irq_handler is not reentered, that nobody    *)
(* fetches from a busy device, and that the work asked for is done.        *)
(***************************************************************************)
EXTENDS FlashDriver, FiniteSetTheorems, TLAPS

(* Who may be where.  Only the interrupt that runs is anywhere at all, and *)
(* while the thread is in an operation it is one that leaves the driver    *)
(* and the SDK alone.                                                      *)
OneAtATime ==
  /\ frame["thread"].at # "sdk_isr"
  /\ \A c \in Contexts : frame[c].at = "enter" => frame[c].op \in DriverOps
  /\ \A i \in Irqs :
       /\ frame[i].at # "code" => running = <<"thread", i>>
       /\ frame[i].at = "sdk_isr" => i \in SdkIrqs
       /\ frame[i].at \notin {"code", "sdk_isr"} => i \in OpIrqs
       /\ InOperation("thread") /\ running = <<"thread", i>> =>
            preempt /\ i \in Disturbing /\ frame[i].at = "code"

(* What the entry of an operation has left, and its exit will undo.        *)
Masked(c) ==
  IF preempt THEN threshold = Threshold /\ irqOn = wanted /\ frame[c].r = FALSE
  ELSE threshold = 0 /\ irqOn = FALSE /\ frame[c].r = wanted

IrqState ==
  /\ preempt \in Preemptible
  /\ \A c \in Contexts : InOperation(c) => Masked(c)
  /\ (\A c \in Contexts : ~InOperation(c)) => irqOn = wanted /\ threshold = 0

Quiet == busy => gaveUp

(* The bus and the device at each place of an operation; if the device was *)
(* ready when the operation began, also what it has been made to do.       *)
Fresh(f) == f.op.wren /\ f.ready => ~busy /\ power = "active" /\ ran = "none"
Worked(f) == f.op.wren /\ f.ready => power = "active" /\ ran = f.op.cmd

BusAt(f) ==
  /\ f.op \in DriverOps
  /\ f.at = "stop" => cs = "high" /\ Quiet /\ Fresh(f)
  /\ f.at = "wren" => cs = "high" /\ Quiet /\ Fresh(f) /\ f.op.wren
  /\ f.at = "command" =>
       /\ Quiet /\ Fresh(f)
       /\ IF f.op.wren THEN cs = "low" /\ cmd = "FLASH_WRITE_ENABLE_CMD" /\ sent
          ELSE cs = "high"
  /\ f.at \in {"data", "high"} =>
       /\ cs = "low" /\ cmd = f.op.cmd /\ Quiet /\ Fresh(f)
       /\ f.op.wren /\ f.ready => wel
       /\ f.at = "high" => sent
  /\ f.at = "status" => cs = "high" /\ f.op.wait /\ Worked(f)
  /\ f.at \in {"poll", "sdk"} =>
       cs = "low" /\ cmd = "FLASH_READ_STATUS_CMD" /\ f.op.wait /\ Worked(f)
  /\ f.at = "done" =>
       cs = "low" /\ cmd = "FLASH_READ_STATUS_CMD" /\ Quiet /\ Worked(f)
  /\ f.at = "exit" => cs = "high" /\ Quiet /\ Worked(f)

BusState ==
  /\ busy => power = "active"
  /\ gaveUp => busy
  /\ \A c \in Contexts : InOperation(c) => BusAt(frame[c])
  /\ (\A c \in Contexts : ~InOperation(c)) => cs = "high" /\ Quiet

FlashIInv == FlashTypeOK /\ OneAtATime /\ IrqState /\ BusState

-----------------------------------------------------------------------------
(* The constants and the functions of the driver.                          *)

Frames == [at : Places, op : ThreadOps \cup IsrOps \cup {NoOp},
           r : BOOLEAN, polls : 0 .. MaxPolls, ready : BOOLEAN]

OpPlaces == Places \ {"code", "enter", "sdk_isr"}

(* A function of the driver that modifies sends the write enable first and *)
(* waits at its end.                                                       *)
LEMMA OpFacts ==
  ASSUME NEW op \in DriverOps
  PROVE  /\ op.wren \in BOOLEAN /\ op.more \in BOOLEAN /\ op.wait \in BOOLEAN
         /\ Modifies(op.cmd) <=> op.wren
         /\ op.wren => op.wait
         /\ op.cmd = "none" => ~op.wren
         /\ op.wait /\ ~op.wren => op.cmd = "FLASH_POWER_DOWN_RELEASE"
<1>1. \/ \E m \in BOOLEAN : \E c : Modifies(c) /\
           op = [cmd |-> c, wren |-> TRUE, more |-> m, wait |-> TRUE]
      \/ \E m, w \in BOOLEAN : \E c : ~Modifies(c) /\ (w => c = "FLASH_POWER_DOWN_RELEASE") /\
           op = [cmd |-> c, wren |-> FALSE, more |-> m, wait |-> w]
  <2>1. CASE op \in {flash_erase_sector, flash_erase_page, flash_erase_32kblock,
                     flash_erase_64kblock, flash_write_page, flash_write_status,
                     flash_lock, flash_unlock}
    <3>1. \E c : Modifies(c) /\ op = [cmd |-> c, wren |-> TRUE, more |-> TRUE, wait |-> TRUE]
      BY <2>1 DEF Modifies, Modifying, flash_erase_sector, flash_erase_page,
                  flash_erase_32kblock, flash_erase_64kblock, flash_write_page,
                  flash_write_status, flash_lock, flash_unlock
    <3>2. QED
      BY <3>1
  <2>2. CASE op = flash_erase_chip
    <3>1. op = [cmd |-> "FLASH_CHIP_ERASE_CMD", wren |-> TRUE, more |-> FALSE, wait |-> TRUE]
      BY <2>2 DEF Modifying, flash_erase_chip
    <3>2. Modifies("FLASH_CHIP_ERASE_CMD")
      BY DEF Modifies
    <3>3. QED
      BY <3>1, <3>2
  <2>3. CASE op \in {flash_read_page, flash_read_mid, flash_read_uid, flash_read_status}
    <3>1. \E c : ~Modifies(c) /\ op = [cmd |-> c, wren |-> FALSE, more |-> TRUE, wait |-> FALSE]
      BY <2>3 DEF Modifies, Reading, flash_read_page, flash_read_mid, flash_read_uid,
                  flash_read_status
    <3>2. QED
      BY <3>1
  <2>4. CASE op \in {flash_deep_powerdown, flash_release_deep_powerdown, flash_set_xip_config}
    <3>1. \E w \in BOOLEAN : \E c :
            /\ ~Modifies(c) /\ (w => c = "FLASH_POWER_DOWN_RELEASE")
            /\ op = [cmd |-> c, wren |-> FALSE, more |-> FALSE, wait |-> w]
      BY <2>4 DEF Modifies, Powering, flash_deep_powerdown, flash_release_deep_powerdown,
                  flash_set_xip_config
    <3>2. QED
      BY <3>1
  <2>5. QED
    BY <2>1, <2>2, <2>3, <2>4 DEF DriverOps
<1>2. ~Modifies("none")
  BY DEF Modifies
<1>3. CASE \E m \in BOOLEAN : \E c : Modifies(c) /\
            op = [cmd |-> c, wren |-> TRUE, more |-> m, wait |-> TRUE]
  <2>1. PICK m, c :
          m \in BOOLEAN /\ Modifies(c) /\ op = [cmd |-> c, wren |-> TRUE, more |-> m, wait |-> TRUE]
    BY <1>3
  <2>2. op.cmd = c /\ op.wren = TRUE /\ op.more = m /\ op.wait = TRUE
    BY <2>1
  <2>3. QED
    BY <1>2, <2>1, <2>2
<1>4. CASE \E m, w \in BOOLEAN : \E c :
            /\ ~Modifies(c) /\ (w => c = "FLASH_POWER_DOWN_RELEASE")
            /\ op = [cmd |-> c, wren |-> FALSE, more |-> m, wait |-> w]
  <2>1. PICK m, w, c :
          /\ m \in BOOLEAN /\ w \in BOOLEAN
          /\ ~Modifies(c) /\ (w => c = "FLASH_POWER_DOWN_RELEASE")
          /\ op = [cmd |-> c, wren |-> FALSE, more |-> m, wait |-> w]
    BY <1>4
  <2>2. op.cmd = c /\ op.wren = FALSE /\ op.more = m /\ op.wait = w
    BY <2>1
  <2>3. QED
    BY <2>1, <2>2
<1>5. QED
  BY <1>1, <1>3, <1>4

(* The context that runs last.                                             *)
LEMMA TopIs ==
  ASSUME FlashTypeOK
  PROVE  /\ Top \in Contexts
         /\ running = <<"thread">> => Top = "thread" /\ Len(running) = 1
         /\ \A i \in Irqs : running = <<"thread", i>> => Top = i /\ Len(running) = 2
         /\ Top = "thread" <=> running = <<"thread">>
         /\ \A i \in Irqs : Top = i => running = <<"thread", i>>
<1>1. CASE running = <<"thread">>
  <2>1. Len(running) = 1 /\ Top = "thread"
    BY <1>1 DEF Top
  <2>2. QED
    BY <1>1, <2>1, FlashAssumption DEF Contexts
<1>2. ASSUME NEW i \in Irqs, running = <<"thread", i>>
      PROVE  Top = i /\ Len(running) = 2 /\ i # "thread" /\ running # <<"thread">>
  BY <1>2, FlashAssumption DEF Top
<1>3. QED
  BY <1>1, <1>2 DEF FlashTypeOK, Contexts

(* While the running context is called into the driver, no other one is.   *)
LEMMA OnlyTop ==
  ASSUME FlashTypeOK, OneAtATime, Here.at \notin {"code", "sdk_isr"}
  PROVE  /\ \A c \in Contexts : c # Top => ~InOperation(c)
         /\ Top \in Irqs => frame["thread"].at \in {"code", "enter"}
<1>1. CASE Top = "thread"
  BY <1>1, TopIs, FlashAssumption DEF OneAtATime, InOperation, Contexts, FlashTypeOK
<1>2. CASE Top \in Irqs
  <2>1. running = <<"thread", Top>>
    BY <1>2, TopIs
  <2>2. ~InOperation("thread")
    BY <1>2, <2>1 DEF OneAtATime, Here
  <2>3. ASSUME NEW i \in Irqs, i # Top PROVE ~InOperation(i)
    BY <1>2, <2>1, <2>3, TopIs DEF OneAtATime, InOperation
  <2>4. QED
    BY <1>2, <2>2, <2>3 DEF Contexts, InOperation, OneAtATime, FlashTypeOK, Places
<1>3. QED
  BY <1>1, <1>2, TopIs DEF Contexts

-----------------------------------------------------------------------------
(* A step inside an operation, which keeps the interrupts as they are,     *)
(* preserves everything but what BusAt says of the context that runs.      *)
LEMMA OperationStep ==
  ASSUME FlashIInv, NEW t \in Contexts, t = Top, InOperation(t),
         UNCHANGED <<irqVars, running>>,
         frame' \in [Contexts -> Frames],
         \A c \in Contexts : c # t => frame'[c] = frame[c],
         frame'[t].r = frame[t].r, frame'[t].at \in OpPlaces,
         cs' \in {"high", "low"}, sent' \in BOOLEAN, wel' \in BOOLEAN, busy' \in BOOLEAN,
         power' \in {"active", "down", "waking"},
         busy' => power' = "active", gaveUp' => busy',
         BusAt(frame[t])'
  PROVE  FlashIInv'
<1>1. Here = frame[t] /\ frame[t].at \notin {"code", "enter", "sdk_isr"}
  BY DEF Here, InOperation
<1>2. \A c \in Contexts : c # t => ~InOperation(c)
  BY <1>1, OnlyTop DEF FlashIInv
<1>3. InOperation(t)' /\ \A c \in Contexts : c # t => ~InOperation(c)'
  BY <1>2 DEF InOperation, OpPlaces
<1>4. FlashTypeOK'
  BY DEF FlashIInv, FlashTypeOK, Frames, irqVars
<1>5. OneAtATime'
  <2>1. frame'["thread"].at # "sdk_isr"
    BY DEF FlashIInv, OneAtATime, Contexts, OpPlaces
  <2>2. ASSUME NEW i \in Irqs
        PROVE  /\ frame'[i].at # "code" => running = <<"thread", i>>
               /\ frame'[i].at = "sdk_isr" => i \in SdkIrqs
               /\ frame'[i].at \notin {"code", "sdk_isr"} => i \in OpIrqs
    BY <1>1 DEF FlashIInv, OneAtATime, Contexts, OpPlaces
  <2>3. ASSUME NEW i \in Irqs, InOperation("thread")', running = <<"thread", i>>
        PROVE  preempt /\ i \in Disturbing /\ frame'[i].at = "code"
    <3>1. t = i /\ i # "thread" /\ "thread" \in Contexts
      BY <2>3, TopIs, FlashAssumption DEF FlashIInv, Contexts
    <3>2. QED
      BY <1>3, <2>3, <3>1
  <2>4. \A c \in Contexts : frame'[c].at = "enter" => frame'[c].op \in DriverOps
    BY DEF FlashIInv, OneAtATime, OpPlaces
  <2>5. QED
    BY <2>1, <2>2, <2>3, <2>4 DEF OneAtATime, irqVars, Disturbing
<1>6. IrqState'
  BY <1>2, <1>3 DEF FlashIInv, IrqState, Masked, irqVars
<1>7. BusState'
  BY <1>2, <1>3 DEF BusState
<1>8. QED
  BY <1>4, <1>5, <1>6, <1>7 DEF FlashIInv

(* What Goto leaves alone.                                                 *)
LEMMA GotoIs ==
  ASSUME frame \in [Contexts -> Frames], NEW t \in Contexts, t = Top,
         NEW at \in Places, Goto(at)
  PROVE  /\ frame' \in [Contexts -> Frames]
         /\ \A c \in Contexts : c # t => frame'[c] = frame[c]
         /\ frame'[t].at = at /\ frame'[t].op = frame[t].op /\ frame'[t].r = frame[t].r
         /\ frame'[t].ready = frame[t].ready
<1>1. frame' = [frame EXCEPT ![t] = [frame[t] EXCEPT !.at = at]]
  BY DEF Goto
<1>2. [frame[t] EXCEPT !.at = at] \in Frames
  BY DEF Frames
<1>3. QED
  BY <1>1, <1>2 DEF Frames

(* The steps that go on inside an operation.                               *)
LEMMA OperationSteps ==
  ASSUME FlashIInv,
         \/ StopXip \/ WriteEnable \/ Command \/ Data \/ EndCommand
         \/ AskStatus \/ PollReady \/ PollBusy \/ SdkReturns \/ PollGivesUp \/ EndStatus
  PROVE  FlashIInv'
<1> SUFFICES ASSUME NEW t \in Contexts, t = Top PROVE FlashIInv'
  BY TopIs DEF FlashIInv
<1> DEFINE op == frame[t].op
<1>1. Here = frame[t] /\ frame[t] \in Frames /\ frame \in [Contexts -> Frames]
  BY DEF Here, FlashIInv, FlashTypeOK, Frames
<1>2. /\ irqOn \in BOOLEAN /\ cs \in {"high", "low"} /\ sent \in BOOLEAN
      /\ wel \in BOOLEAN /\ busy \in BOOLEAN /\ power \in {"active", "down", "waking"}
      /\ busy => power = "active"
      /\ gaveUp => busy
  BY DEF FlashIInv, FlashTypeOK, BusState
<1>3. ASSUME InOperation(t)
      PROVE  /\ BusAt(frame[t]) /\ op \in DriverOps
             /\ op.wren \in BOOLEAN /\ op.more \in BOOLEAN /\ op.wait \in BOOLEAN
             /\ Modifies(op.cmd) <=> op.wren
             /\ op.wren => op.wait
             /\ op.cmd = "none" => ~op.wren
  <2>1. BusAt(frame[t]) /\ op \in DriverOps
    BY <1>3 DEF FlashIInv, BusState, BusAt
  <2>2. QED
    BY <2>1, OpFacts
<1>4. ~Modifies("FLASH_WRITE_ENABLE_CMD") /\ ~Modifies("FLASH_READ_STATUS_CMD")
  BY DEF Modifies
<1>5. CASE StopXip
  <2>1. frame[t].at = "stop" /\ InOperation(t)
    BY <1>1, <1>5 DEF StopXip, At, InOperation
  <2>2. cs = "high" /\ Quiet /\ Fresh(frame[t])
    BY <1>3, <2>1 DEF BusAt
  <2>3. /\ busy' = busy /\ ran' = ran /\ wel' = wel /\ power' = power
        /\ cs' = "high" /\ sent' = FALSE
    BY <1>2, <1>5, <2>2 DEF StopXip, MspiHigh, ChipSelectRises
  <2>4. /\ frame' \in [Contexts -> Frames]
        /\ \A c \in Contexts : c # t => frame'[c] = frame[c]
        /\ frame'[t].at = IF op.cmd = "none" THEN "exit" ELSE IF op.wren THEN "wren" ELSE "command"
        /\ frame'[t].op = op /\ frame'[t].r = frame[t].r
        /\ frame'[t].ready = frame[t].ready
    BY <1>1, <1>5, GotoIs DEF StopXip, Places
  <2>5. BusAt(frame[t])'
    BY <1>3, <2>1, <2>2, <2>3, <2>4, <1>5 DEF BusAt, Fresh, Worked, Quiet, StopXip
  <2>6. QED
    BY <1>2, <1>5, <2>1, <2>3, <2>4, <2>5, OperationStep DEF StopXip, OpPlaces, Places
<1>6. CASE WriteEnable
  <2>1. frame[t].at = "wren" /\ InOperation(t)
    BY <1>1, <1>6 DEF WriteEnable, At, InOperation
  <2>2. cs = "high" /\ Quiet /\ Fresh(frame[t]) /\ op.wren
    BY <1>3, <2>1 DEF BusAt
  <2>3. /\ busy' = busy /\ ran' = ran /\ wel' = wel /\ power' = power
        /\ cs' = "low" /\ cmd' = "FLASH_WRITE_ENABLE_CMD" /\ sent' = TRUE
    BY <1>1, <1>2, <1>3, <1>4, <1>6, <2>1, <2>2 DEF WriteEnable, SendCmd, ChipSelectRises
  <2>4. /\ frame' \in [Contexts -> Frames]
        /\ \A c \in Contexts : c # t => frame'[c] = frame[c]
        /\ frame'[t].at = "command"
        /\ frame'[t].op = op /\ frame'[t].r = frame[t].r
        /\ frame'[t].ready = frame[t].ready
    BY <1>1, <1>6, GotoIs DEF WriteEnable, Places
  <2>5. BusAt(frame[t])'
    BY <1>2, <1>3, <2>1, <2>2, <2>3, <2>4, <1>6 DEF BusAt, Fresh, Worked, Quiet, WriteEnable
  <2>6. QED
    BY <1>2, <1>3, <1>6, <2>1, <2>3, <2>4, <2>5, OperationStep DEF WriteEnable, OpPlaces, Places
<1>7. CASE Command
  <2>1. frame[t].at = "command" /\ InOperation(t)
    BY <1>1, <1>7 DEF Command, At, InOperation
  <2>2. /\ Quiet /\ Fresh(frame[t])
        /\ IF op.wren THEN cs = "low" /\ cmd = "FLASH_WRITE_ENABLE_CMD" /\ sent
           ELSE cs = "high"
    BY <1>3, <2>1 DEF BusAt
  <2>3. /\ busy' = busy /\ ran' = ran /\ power' = power
        /\ wel' \in BOOLEAN /\ (op.wren /\ frame[t].ready => wel')
        /\ cs' = "low" /\ cmd' = op.cmd /\ sent' = ~op.more
    BY <1>1, <1>2, <1>3, <1>4, <1>7, <2>1, <2>2 DEF Command, SendCmd, ChipSelectRises, Fresh
  <2>4. /\ frame' \in [Contexts -> Frames]
        /\ \A c \in Contexts : c # t => frame'[c] = frame[c]
        /\ frame'[t].at = IF op.more THEN "data" ELSE "high"
        /\ frame'[t].op = op /\ frame'[t].r = frame[t].r
        /\ frame'[t].ready = frame[t].ready
    BY <1>1, <1>7, GotoIs DEF Command, Places
  <2>5. BusAt(frame[t])'
    BY <1>2, <1>3, <2>1, <2>2, <2>3, <2>4, <1>7 DEF BusAt, Fresh, Worked, Quiet, Command
  <2>6. QED
    BY <1>2, <1>3, <1>7, <2>1, <2>3, <2>4, <2>5, OperationStep DEF Command, OpPlaces, Places
<1>8. CASE Data
  <2>1. frame[t].at = "data" /\ InOperation(t)
    BY <1>1, <1>8 DEF Data, At, InOperation
  <2>2. /\ cs = "low" /\ cmd = op.cmd /\ Quiet /\ Fresh(frame[t])
        /\ op.wren /\ frame[t].ready => wel
    BY <1>3, <2>1 DEF BusAt
  <2>3. /\ UNCHANGED <<busy, ran, power, wel, cs, cmd>>
        /\ sent' = TRUE
    BY <1>1, <1>2, <1>3, <1>4, <1>8, <2>1, <2>2 DEF Data, devVars
  <2>4. /\ frame' \in [Contexts -> Frames]
        /\ \A c \in Contexts : c # t => frame'[c] = frame[c]
        /\ frame'[t].at = "high"
        /\ frame'[t].op = op /\ frame'[t].r = frame[t].r
        /\ frame'[t].ready = frame[t].ready
    BY <1>1, <1>8, GotoIs DEF Data, Places
  <2>5. BusAt(frame[t])'
    BY <1>2, <1>3, <2>1, <2>2, <2>3, <2>4, <1>8 DEF BusAt, Fresh, Worked, Quiet, Data
  <2>6. QED
    BY <1>2, <1>3, <1>8, <2>1, <2>3, <2>4, <2>5, OperationStep DEF Data, OpPlaces, Places
<1>9. CASE EndCommand
  <2>1. frame[t].at = "high" /\ InOperation(t)
    BY <1>1, <1>9 DEF EndCommand, At, InOperation
  <2>2. /\ cs = "low" /\ cmd = op.cmd /\ sent /\ Quiet /\ Fresh(frame[t])
        /\ op.wren /\ frame[t].ready => wel
    BY <1>3, <2>1 DEF BusAt
  <2>3. /\ cs' = "high" /\ sent' = FALSE
        /\ busy' \in BOOLEAN /\ wel' \in BOOLEAN /\ power' \in {"active", "down", "waking"}
        /\ busy' => power' = "active"
        /\ busy => busy'
        /\ ~op.wren => busy' = busy
        /\ op.wren /\ frame[t].ready => power' = "active" /\ ran' = op.cmd
    BY <1>1, <1>2, <1>3, <1>4, <1>9, <2>1, <2>2 DEF EndCommand, MspiHigh, ChipSelectRises, Fresh, Modifies
  <2>4. /\ frame' \in [Contexts -> Frames]
        /\ \A c \in Contexts : c # t => frame'[c] = frame[c]
        /\ frame'[t].at = IF op.wait THEN "status" ELSE "exit"
        /\ frame'[t].op = op /\ frame'[t].r = frame[t].r
        /\ frame'[t].ready = frame[t].ready
    BY <1>1, <1>9, GotoIs DEF EndCommand, Places
  <2>5. BusAt(frame[t])'
    BY <1>2, <1>3, <2>1, <2>2, <2>3, <2>4, <1>9 DEF BusAt, Fresh, Worked, Quiet, EndCommand
  <2>6. QED
    BY <1>2, <1>3, <1>9, <2>1, <2>3, <2>4, <2>5, OperationStep DEF EndCommand, OpPlaces, Places
<1>10. CASE AskStatus
  <2>1. frame[t].at = "status" /\ InOperation(t)
    BY <1>1, <1>10 DEF AskStatus, At, InOperation
  <2>2. cs = "high" /\ op.wait /\ Worked(frame[t])
    BY <1>3, <2>1 DEF BusAt
  <2>3. /\ busy' = busy /\ ran' = ran /\ wel' = wel /\ power' = power
        /\ cs' = "low" /\ cmd' = "FLASH_READ_STATUS_CMD" /\ sent' = TRUE
    BY <1>1, <1>2, <1>3, <1>4, <1>10, <2>1, <2>2 DEF AskStatus, SendCmd, ChipSelectRises
  <2>4. /\ frame' \in [Contexts -> Frames]
        /\ \A c \in Contexts : c # t => frame'[c] = frame[c]
        /\ frame'[t].at = "poll"
        /\ frame'[t].op = op /\ frame'[t].r = frame[t].r
        /\ frame'[t].ready = frame[t].ready
    <3>1. MaxPolls \in 0 .. MaxPolls
      BY FlashAssumption
    <3>2. frame' = [frame EXCEPT ![t] = [frame[t] EXCEPT !.at = "poll", !.polls = MaxPolls]]
      BY <1>1, <1>10 DEF AskStatus
    <3>3. [frame[t] EXCEPT !.at = "poll", !.polls = MaxPolls] \in Frames
      BY <1>1, <3>1 DEF Frames, Places
    <3>4. QED
      BY <1>1, <3>2, <3>3 DEF Frames
  <2>5. BusAt(frame[t])'
    BY <1>2, <1>3, <2>1, <2>2, <2>3, <2>4, <1>10 DEF BusAt, Fresh, Worked, Quiet, AskStatus
  <2>6. QED
    BY <1>2, <1>3, <1>10, <2>1, <2>3, <2>4, <2>5, OperationStep DEF AskStatus, OpPlaces, Places
<1>11. CASE PollReady
  <2>1. frame[t].at = "poll" /\ InOperation(t)
    BY <1>1, <1>11 DEF PollReady, At, InOperation
  <2>2. cs = "low" /\ cmd = "FLASH_READ_STATUS_CMD" /\ op.wait /\ Worked(frame[t])
    BY <1>3, <2>1 DEF BusAt
  <2>3. /\ UNCHANGED <<busy, ran, wel, power, cs, cmd, sent>>
        /\ busy' = FALSE
    BY <1>1, <1>2, <1>3, <1>4, <1>11, <2>1, <2>2 DEF PollReady, BusyBit, busVars, devVars
  <2>4. /\ frame' \in [Contexts -> Frames]
        /\ \A c \in Contexts : c # t => frame'[c] = frame[c]
        /\ frame'[t].at = "done"
        /\ frame'[t].op = op /\ frame'[t].r = frame[t].r
        /\ frame'[t].ready = frame[t].ready
    BY <1>1, <1>11, GotoIs DEF PollReady, Places
  <2>5. BusAt(frame[t])'
    BY <1>2, <1>3, <2>1, <2>2, <2>3, <2>4, <1>11 DEF BusAt, Fresh, Worked, Quiet, PollReady
  <2>6. QED
    BY <1>2, <1>3, <1>11, <2>1, <2>3, <2>4, <2>5, OperationStep DEF PollReady, OpPlaces, Places
<1>12. CASE PollBusy
  <2>1. frame[t].at = "poll" /\ InOperation(t)
    BY <1>1, <1>12 DEF PollBusy, At, InOperation
  <2>2. cs = "low" /\ cmd = "FLASH_READ_STATUS_CMD" /\ op.wait /\ Worked(frame[t])
    BY <1>3, <2>1 DEF BusAt
  <2>3. UNCHANGED <<busy, ran, wel, power, cs, cmd, sent>>
    BY <1>1, <1>2, <1>3, <1>4, <1>12, <2>1, <2>2 DEF PollBusy, busVars, devVars
  <2>4. /\ frame' \in [Contexts -> Frames]
        /\ \A c \in Contexts : c # t => frame'[c] = frame[c]
        /\ frame'[t].at = "sdk"
        /\ frame'[t].op = op /\ frame'[t].r = frame[t].r
        /\ frame'[t].ready = frame[t].ready
    BY <1>1, <1>12 DEF PollBusy, Frames, Places
  <2>5. BusAt(frame[t])'
    BY <1>2, <1>3, <2>1, <2>2, <2>3, <2>4, <1>12 DEF BusAt, Fresh, Worked, Quiet, PollBusy
  <2>6. QED
    BY <1>2, <1>3, <1>12, <2>1, <2>3, <2>4, <2>5, OperationStep DEF PollBusy, OpPlaces, Places
<1>13. CASE SdkReturns
  <2>1. frame[t].at = "sdk" /\ InOperation(t)
    BY <1>1, <1>13 DEF SdkReturns, At, InOperation
  <2>2. cs = "low" /\ cmd = "FLASH_READ_STATUS_CMD" /\ op.wait /\ Worked(frame[t])
    BY <1>3, <2>1 DEF BusAt
  <2>3. UNCHANGED <<busy, ran, wel, power, cs, cmd, sent>>
    BY <1>1, <1>2, <1>3, <1>4, <1>13, <2>1, <2>2 DEF SdkReturns, busVars, devVars
  <2>4. /\ frame' \in [Contexts -> Frames]
        /\ \A c \in Contexts : c # t => frame'[c] = frame[c]
        /\ frame'[t].at = "poll"
        /\ frame'[t].op = op /\ frame'[t].r = frame[t].r
        /\ frame'[t].ready = frame[t].ready
    BY <1>1, <1>13, GotoIs DEF SdkReturns, Places
  <2>5. BusAt(frame[t])'
    BY <1>2, <1>3, <2>1, <2>2, <2>3, <2>4, <1>13 DEF BusAt, Fresh, Worked, Quiet, SdkReturns
  <2>6. QED
    BY <1>2, <1>3, <1>13, <2>1, <2>3, <2>4, <2>5, OperationStep DEF SdkReturns, OpPlaces, Places
<1>14. CASE PollGivesUp
  <2>1. frame[t].at = "poll" /\ InOperation(t)
    BY <1>1, <1>14 DEF PollGivesUp, At, InOperation
  <2>2. cs = "low" /\ cmd = "FLASH_READ_STATUS_CMD" /\ op.wait /\ Worked(frame[t])
    BY <1>3, <2>1 DEF BusAt
  <2>3. /\ UNCHANGED <<busy, ran, wel, power, cs, cmd, sent>>
        /\ gaveUp' = busy
    BY <1>1, <1>2, <1>3, <1>4, <1>14, <2>1, <2>2 DEF PollGivesUp, busVars, devVars
  <2>4. /\ frame' \in [Contexts -> Frames]
        /\ \A c \in Contexts : c # t => frame'[c] = frame[c]
        /\ frame'[t].at = "done"
        /\ frame'[t].op = op /\ frame'[t].r = frame[t].r
        /\ frame'[t].ready = frame[t].ready
    BY <1>1, <1>14, GotoIs DEF PollGivesUp, Places
  <2>5. BusAt(frame[t])'
    BY <1>2, <1>3, <2>1, <2>2, <2>3, <2>4, <1>14 DEF BusAt, Fresh, Worked, Quiet, PollGivesUp
  <2>6. QED
    BY <1>2, <1>3, <1>14, <2>1, <2>3, <2>4, <2>5, OperationStep DEF PollGivesUp, OpPlaces, Places
<1>15. CASE EndStatus
  <2>1. frame[t].at = "done" /\ InOperation(t)
    BY <1>1, <1>15 DEF EndStatus, At, InOperation
  <2>2. cs = "low" /\ cmd = "FLASH_READ_STATUS_CMD" /\ Quiet /\ Worked(frame[t])
    BY <1>3, <2>1 DEF BusAt
  <2>3. /\ cs' = "high" /\ sent' = FALSE /\ busy' = busy /\ ran' = ran /\ wel' \in BOOLEAN
        /\ power' = power
    BY <1>1, <1>2, <1>3, <1>4, <1>15, <2>1, <2>2 DEF EndStatus, MspiHigh, ChipSelectRises, Modifies
  <2>4. /\ frame' \in [Contexts -> Frames]
        /\ \A c \in Contexts : c # t => frame'[c] = frame[c]
        /\ frame'[t].at = "exit"
        /\ frame'[t].op = op /\ frame'[t].r = frame[t].r
        /\ frame'[t].ready = frame[t].ready
    BY <1>1, <1>15, GotoIs DEF EndStatus, Places
  <2>5. BusAt(frame[t])'
    BY <1>2, <1>3, <2>1, <2>2, <2>3, <2>4, <1>15 DEF BusAt, Fresh, Worked, Quiet, EndStatus
  <2>6. QED
    BY <1>2, <1>3, <1>15, <2>1, <2>3, <2>4, <2>5, OperationStep DEF EndStatus, OpPlaces, Places
<1>16. QED
  BY <1>5, <1>6, <1>7, <1>8, <1>9, <1>10, <1>11, <1>12, <1>13, <1>14, <1>15

(* The entry finds nobody else in an operation, and interrupts and bus as  *)
(* they are between operations.                                            *)
LEMMA EnterStep ==
  ASSUME FlashIInv, Enter
  PROVE  FlashIInv'
<1> SUFFICES ASSUME NEW t \in Contexts, t = Top PROVE FlashIInv'
  BY TopIs DEF FlashIInv
<1>1. /\ Here = frame[t] /\ frame[t] \in Frames /\ frame \in [Contexts -> Frames]
      /\ frame[t].at = "enter"
  BY DEF Here, FlashIInv, FlashTypeOK, Frames, Enter, At
<1>2. \A c \in Contexts : ~InOperation(c)
  BY <1>1, OnlyTop DEF FlashIInv, InOperation
<1>3. irqOn = wanted /\ threshold = 0 /\ cs = "high" /\ Quiet
  BY <1>2 DEF FlashIInv, IrqState, BusState
<1>4. /\ frame' \in [Contexts -> Frames]
      /\ \A c \in Contexts : c # t => frame'[c] = frame[c]
      /\ frame'[t].at = "stop" /\ frame'[t].op = frame[t].op
      /\ frame'[t].r = SavedByEnter
      /\ frame'[t].ready = (power = "active" /\ ~busy)
  <2>1. SavedByEnter \in BOOLEAN /\ (power = "active" /\ ~busy) \in BOOLEAN
    BY DEF SavedByEnter, FlashIInv, FlashTypeOK
  <2>2. QED
    BY <1>1, <2>1 DEF Enter, Frames, Places
<1>5. InOperation(t)' /\ \A c \in Contexts : c # t => ~InOperation(c)'
  BY <1>2, <1>4 DEF InOperation
<1>6. FlashTypeOK'
  BY <1>4 DEF FlashIInv, FlashTypeOK, Frames, Enter, EnterCritical, busVars
<1>7. OneAtATime'
  <2>1. t \in Irqs => t # "thread" /\ t \in OpIrqs
    BY <1>1, FlashAssumption DEF FlashIInv, OneAtATime
  <2>2. frame'["thread"].at # "sdk_isr"
    BY <1>4 DEF FlashIInv, OneAtATime, Contexts
  <2>3. ASSUME NEW i \in Irqs
        PROVE  /\ frame'[i].at # "code" => running = <<"thread", i>>
               /\ frame'[i].at = "sdk_isr" => i \in SdkIrqs
               /\ frame'[i].at \notin {"code", "sdk_isr"} => i \in OpIrqs
    BY <1>1, <1>4, <2>1 DEF FlashIInv, OneAtATime, Contexts
  <2>4. ASSUME NEW i \in Irqs, InOperation("thread")', running = <<"thread", i>>
        PROVE  FALSE
    <3>1. t = i /\ i # "thread" /\ "thread" \in Contexts
      BY <2>4, TopIs, FlashAssumption DEF FlashIInv, Contexts
    <3>2. QED
      BY <1>5, <2>4, <3>1
  <2>5. running' = running /\ \A c \in Contexts : frame'[c].at = "enter" => frame'[c].op \in DriverOps
    BY <1>4 DEF Enter, FlashIInv, OneAtATime
  <2>6. QED
    BY <2>2, <2>3, <2>4, <2>5 DEF OneAtATime
<1>8. IrqState'
  <2>1. preempt' = preempt /\ wanted' = wanted
    BY DEF Enter
  <2>2. Masked(t)'
    BY <1>3, <1>4, <2>1 DEF Masked, Enter, EnterCritical, SavedByEnter
  <2>3. QED
    BY <1>5, <2>1, <2>2 DEF IrqState, FlashIInv
<1>9. BusState'
  <2>1. frame[t].op \in DriverOps
    BY <1>1 DEF FlashIInv, OneAtATime
  <2>2. BusAt(frame[t])'
    BY <1>3, <1>4, <2>1 DEF BusAt, Fresh, Quiet, Enter, busVars
  <2>3. QED
    BY <1>5, <2>2 DEF BusState, FlashIInv, Enter
<1>10. QED
  BY <1>6, <1>7, <1>8, <1>9 DEF FlashIInv

(* The exit restores what the entry found.                                 *)
LEMMA ExitStep ==
  ASSUME FlashIInv, Exit
  PROVE  FlashIInv'
<1> SUFFICES ASSUME NEW t \in Contexts, t = Top PROVE FlashIInv'
  BY TopIs DEF FlashIInv
<1>1. /\ Here = frame[t] /\ frame \in [Contexts -> Frames]
      /\ frame[t].at = "exit" /\ InOperation(t)
  BY DEF Here, FlashIInv, FlashTypeOK, Frames, Exit, At, InOperation
<1>2. \A c \in Contexts : c # t => ~InOperation(c)
  BY <1>1, OnlyTop DEF FlashIInv, InOperation
<1>3. /\ frame' \in [Contexts -> Frames]
      /\ \A c \in Contexts : c # t => frame'[c] = frame[c]
      /\ frame'[t].at = "code"
  <2>1. Idle("code") \in Frames /\ Idle("code").at = "code"
    BY FlashAssumption DEF Idle, Called, Frames, Places
  <2>2. frame' = [frame EXCEPT ![t] = Idle("code")]
    BY DEF Exit
  <2>3. QED
    BY <1>1, <2>1, <2>2
<1>4. \A c \in Contexts : ~InOperation(c)'
  BY <1>2, <1>3 DEF InOperation
<1>5. irqOn' = wanted' /\ threshold' = 0 /\ preempt' = preempt /\ wanted' = wanted
  BY <1>1 DEF FlashIInv, FlashTypeOK, IrqState, Masked, Exit, ExitCritical
<1>6. FlashTypeOK'
  BY <1>3, <1>5 DEF FlashIInv, FlashTypeOK, Frames, Exit, busVars, devVars
<1>7. OneAtATime'
  <2>1. \A c \in Contexts : frame'[c].at = "enter" => frame'[c].op \in DriverOps
    BY <1>3 DEF FlashIInv, OneAtATime
  <2>2. \A i \in Irqs : frame'[i].at # "code" => frame'[i] = frame[i]
    BY <1>3 DEF Contexts
  <2>3. frame'["thread"].at # "sdk_isr"
    BY <1>3 DEF FlashIInv, OneAtATime, Contexts
  <2>4. running' = running /\ ~InOperation("thread")'
    BY <1>4 DEF Exit, Contexts
  <2>5. QED
    BY <2>1, <2>2, <2>3, <2>4 DEF FlashIInv, OneAtATime
<1>8. IrqState'
  BY <1>4, <1>5 DEF IrqState, FlashIInv
<1>9. BusState'
  <2>1. cs = "high" /\ Quiet
    BY <1>1 DEF FlashIInv, BusState, BusAt
  <2>2. QED
    BY <1>4, <2>1 DEF BusState, FlashIInv, Quiet, Exit, busVars, devVars
<1>10. QED
  BY <1>6, <1>7, <1>8, <1>9 DEF FlashIInv

(* Steps between operations.                                               *)
LEMMA CallStep ==
  ASSUME FlashIInv, NEW o \in ThreadOps \cup IsrOps, CallOp(o)
  PROVE  FlashIInv'
<1> SUFFICES ASSUME NEW t \in Contexts, t = Top PROVE FlashIInv'
  BY TopIs DEF FlashIInv
<1>1. Here = frame[t] /\ frame \in [Contexts -> Frames] /\ frame[t].at = "code"
  BY DEF Here, FlashIInv, FlashTypeOK, Frames, CallOp, At
<1>2. /\ frame' \in [Contexts -> Frames]
      /\ \A c \in Contexts : c # t => frame'[c] = frame[c]
      /\ frame'[t].at = "enter" /\ frame'[t].op = o
  <2>1. Called("enter", o) \in Frames /\ Called("enter", o).at = "enter" /\ Called("enter", o).op = o
    BY FlashAssumption DEF Called, Frames, Places
  <2>2. frame' = [frame EXCEPT ![t] = Called("enter", o)]
    BY DEF CallOp
  <2>3. QED
    BY <1>1, <2>1, <2>2
<1>3. ~InOperation(t) /\ ~InOperation(t)'
  BY <1>1, <1>2 DEF InOperation
<1>4. \A c \in Contexts : InOperation(c)' <=> InOperation(c)
  BY <1>2, <1>3 DEF InOperation
<1>5. t # "thread" => t \in OpIrqs /\ ~InOperation("thread")
  <2>1. t # "thread" => t \in OpIrqs /\ running = <<"thread", t>> /\ t \in Irqs
    BY TopIs DEF CallOp, FlashIInv, Contexts
  <2>2. QED
    BY <2>1, PreemptionAssumption DEF FlashIInv, OneAtATime, IrqState
<1>6. FlashTypeOK'
  BY <1>2 DEF FlashIInv, FlashTypeOK, Frames, CallOp, irqVars, busVars, devVars
<1>7. OneAtATime'
  <2>1. UNCHANGED <<running, preempt>>
    BY DEF CallOp, irqVars
  <2>2. \A c \in Contexts : frame'[c].at = "enter" => frame'[c].op \in DriverOps
    BY <1>2, CallsAssumption DEF FlashIInv, OneAtATime
  <2>3. frame'["thread"].at # "sdk_isr"
    BY <1>2 DEF FlashIInv, OneAtATime, Contexts
  <2>4. ASSUME NEW i \in Irqs
        PROVE  /\ frame'[i].at # "code" => running = <<"thread", i>>
               /\ frame'[i].at = "sdk_isr" => i \in SdkIrqs
               /\ frame'[i].at \notin {"code", "sdk_isr"} => i \in OpIrqs
               /\ InOperation("thread") /\ running = <<"thread", i>> =>
                    preempt /\ i \in Disturbing /\ frame'[i].at = "code"
    <3>1. CASE i = t
      BY <1>2, <1>5, <3>1, TopIs, FlashAssumption DEF FlashIInv
    <3>2. CASE i # t
      BY <1>2, <3>2 DEF FlashIInv, OneAtATime, Contexts
    <3>3. QED
      BY <3>1, <3>2
  <2>5. InOperation("thread")' <=> InOperation("thread")
    BY <1>4 DEF Contexts
  <2>6. QED
    BY <2>1, <2>2, <2>3, <2>4, <2>5 DEF OneAtATime, Disturbing
<1>8. \A c \in Contexts : InOperation(c) => frame'[c] = frame[c]
  BY <1>2, <1>3
<1>9. IrqState'
  BY <1>4, <1>8 DEF IrqState, FlashIInv, Masked, CallOp, irqVars
<1>10. BusState'
  <2>1. ASSUME NEW c \in Contexts, InOperation(c) PROVE BusAt(frame[c])'
    <3>1. frame'[c] = frame[c] /\ BusAt(frame[c])
      BY <1>8, <2>1 DEF FlashIInv, BusState
    <3>2. UNCHANGED <<cs, cmd, sent, wel, busy, power, ran, gaveUp>>
      BY DEF CallOp, busVars, devVars
    <3>3. QED
      BY <3>1, <3>2 DEF BusAt, Fresh, Worked, Quiet
  <2>2. QED
    BY <1>4, <2>1 DEF BusState, FlashIInv, Quiet, CallOp, busVars, devVars
<1>11. QED
  BY <1>6, <1>7, <1>9, <1>10 DEF FlashIInv

LEMMA InterruptStep ==
  ASSUME FlashIInv, NEW i \in Irqs, TakeInterrupt(i)
  PROVE  FlashIInv'
<1>1. /\ running = <<"thread">> /\ irqOn /\ Priority[i] > threshold
      /\ running' = <<"thread", i>>
      /\ UNCHANGED <<irqOn, threshold, preempt, wanted>>
      /\ UNCHANGED <<cs, cmd, sent, wel, busy, power, ran, gaveUp>>
  BY DEF TakeInterrupt, irqVars, busVars, devVars
<1>2. \A j \in Irqs : frame[j].at = "code" /\ ~InOperation(j)
  <2>1. \A j \in Irqs : running # <<"thread", j>>
    BY <1>1
  <2>2. QED
    BY <2>1 DEF FlashIInv, OneAtATime, InOperation
<1>3. i # "thread" /\ i \in Contexts /\ "thread" \in Contexts
  BY FlashAssumption DEF Contexts
<1>4. /\ frame' \in [Contexts -> Frames]
      /\ \A c \in Contexts : c # i => frame'[c] = frame[c]
      /\ frame'[i].at = IF i \in SdkIrqs THEN "sdk_isr" ELSE "code"
  <2>1. frame \in [Contexts -> Frames]
    BY DEF FlashIInv, FlashTypeOK, Frames
  <2>2. \A at \in Places : Idle(at) \in Frames /\ Idle(at).at = at
    BY FlashAssumption DEF Idle, Called, Frames
  <2>3. frame' = [frame EXCEPT ![i] = Idle(IF i \in SdkIrqs THEN "sdk_isr" ELSE "code")]
    BY DEF TakeInterrupt
  <2>4. QED
    BY <1>3, <2>1, <2>2, <2>3 DEF Places
<1>5. \A c \in Contexts : InOperation(c)' <=> InOperation(c)
  BY <1>2, <1>4 DEF InOperation
<1>6. \A c \in Contexts : InOperation(c) => frame'[c] = frame[c]
  BY <1>2, <1>4
<1>7. FlashTypeOK'
  BY <1>1, <1>4 DEF FlashIInv, FlashTypeOK, Frames
<1>8. InOperation("thread") => preempt /\ i \in Disturbing
  BY <1>1, <1>3 DEF FlashIInv, IrqState, Masked, Disturbing
<1>9. OneAtATime'
  <2>1. \A c \in Contexts : frame'[c].at = "enter" => frame'[c].op \in DriverOps
    BY <1>4 DEF FlashIInv, OneAtATime
  <2>2. frame'["thread"].at # "sdk_isr"
    BY <1>3, <1>4 DEF FlashIInv, OneAtATime
  <2>3. ASSUME NEW j \in Irqs
        PROVE  /\ frame'[j].at # "code" => running' = <<"thread", j>>
               /\ frame'[j].at = "sdk_isr" => j \in SdkIrqs
               /\ frame'[j].at \notin {"code", "sdk_isr"} => j \in OpIrqs
    <3>1. CASE j = i
      BY <1>1, <1>4, <3>1
    <3>2. CASE j # i
      BY <1>2, <1>4, <3>2 DEF Contexts
    <3>3. QED
      BY <3>1, <3>2
  <2>4. ASSUME NEW j \in Irqs, InOperation("thread")', running' = <<"thread", j>>
        PROVE  preempt /\ j \in Disturbing /\ frame'[j].at = "code"
    <3>1. i = j
      BY <1>1, <2>4
    <3>2. preempt /\ i \in Disturbing
      BY <1>3, <1>5, <1>8, <2>4
    <3>3. i \notin SdkIrqs
      BY <3>2, PreemptionAssumption DEF FlashIInv, IrqState
    <3>4. QED
      BY <1>4, <3>1, <3>2, <3>3
  <2>5. QED
    BY <1>1, <2>1, <2>2, <2>3, <2>4 DEF OneAtATime, Disturbing
<1>10. IrqState'
  BY <1>1, <1>5, <1>6 DEF IrqState, FlashIInv, Masked
<1>11. BusState'
  <2>1. ASSUME NEW c \in Contexts, InOperation(c) PROVE BusAt(frame[c])'
    <3>1. frame'[c] = frame[c] /\ BusAt(frame[c])
      BY <1>6, <2>1 DEF FlashIInv, BusState
    <3>2. QED
      BY <1>1, <3>1 DEF BusAt, Fresh, Worked, Quiet
  <2>2. QED
    BY <1>1, <1>5, <2>1 DEF BusState, FlashIInv, Quiet
<1>12. QED
  BY <1>7, <1>9, <1>10, <1>11 DEF FlashIInv

LEMMA ReturnStep ==
  ASSUME FlashIInv, ReturnFromInterrupt
  PROVE  FlashIInv'
<1> SUFFICES ASSUME NEW t \in Contexts, t = Top PROVE FlashIInv'
  BY TopIs DEF FlashIInv
<1>1. /\ t \in Irqs /\ t # "thread" /\ running' = <<"thread">>
      /\ running = <<"thread", t>>
      /\ UNCHANGED <<irqOn, threshold, preempt, wanted>>
      /\ UNCHANGED <<cs, cmd, sent, wel, busy, power, ran, gaveUp>>
  <2>1. Len(running) > 1
    BY DEF ReturnFromInterrupt
  <2>2. t # "thread"
    <3>1. ASSUME t = "thread" PROVE FALSE
      <4>1. FlashTypeOK /\ Top = "thread"
        BY <3>1 DEF FlashIInv
      <4>2. Len(running) = 1
        BY <4>1, TopIs
      <4>3. QED
        BY <2>1, <4>2
    <3>2. QED
      BY <3>1
  <2>3. t \in Irqs /\ running = <<"thread", t>>
    BY <2>2, TopIs DEF FlashIInv, Contexts
  <2>4. QED
    BY <2>2, <2>3 DEF ReturnFromInterrupt, irqVars, busVars, devVars
<1>2. /\ frame' \in [Contexts -> Frames]
      /\ \A c \in Contexts : c # t => frame'[c] = frame[c]
      /\ frame'[t].at = "code"
      /\ frame[t].at \in {"code", "sdk_isr"}
  <2>1. frame \in [Contexts -> Frames]
    BY DEF FlashIInv, FlashTypeOK, Frames
  <2>2. Idle("code") \in Frames /\ Idle("code").at = "code"
    BY FlashAssumption DEF Idle, Called, Frames, Places
  <2>3. frame' = [frame EXCEPT ![t] = Idle("code")]
    BY DEF ReturnFromInterrupt
  <2>4. QED
    BY <2>1, <2>2, <2>3 DEF ReturnFromInterrupt, Here
<1>3. \A c \in Contexts : InOperation(c)' <=> InOperation(c)
  BY <1>2 DEF InOperation
<1>4. \A c \in Contexts : InOperation(c) => frame'[c] = frame[c]
  BY <1>2 DEF InOperation
<1>5. FlashTypeOK'
  BY <1>1, <1>2 DEF FlashIInv, FlashTypeOK, Frames
<1>6. OneAtATime'
  <2>1. \A c \in Contexts : frame'[c].at = "enter" => frame'[c].op \in DriverOps
    BY <1>2 DEF FlashIInv, OneAtATime
  <2>2. frame'["thread"].at # "sdk_isr"
    BY <1>1, <1>2 DEF FlashIInv, OneAtATime, Contexts
  <2>3. \A j \in Irqs : frame'[j].at = "code"
    <3>1. ASSUME NEW j \in Irqs, j # t PROVE frame'[j].at = "code"
      <4>1. running # <<"thread", j>>
        BY <1>1, <3>1
      <4>2. QED
        BY <1>2, <3>1, <4>1 DEF FlashIInv, OneAtATime, Contexts
    <3>2. QED
      BY <1>2, <3>1
  <2>4. \A j \in Irqs : running' # <<"thread", j>>
    BY <1>1
  <2>5. QED
    BY <2>1, <2>2, <2>3, <2>4 DEF OneAtATime
<1>7. IrqState'
  BY <1>1, <1>3, <1>4 DEF IrqState, FlashIInv, Masked
<1>8. BusState'
  <2>1. ASSUME NEW c \in Contexts, InOperation(c) PROVE BusAt(frame[c])'
    <3>1. frame'[c] = frame[c] /\ BusAt(frame[c])
      BY <1>4, <2>1 DEF FlashIInv, BusState
    <3>2. QED
      BY <1>1, <3>1 DEF BusAt, Fresh, Worked, Quiet
  <2>2. QED
    BY <1>1, <1>3, <2>1 DEF BusState, FlashIInv, Quiet
<1>9. QED
  BY <1>5, <1>6, <1>7, <1>8 DEF FlashIInv

(* The application changes its interrupts, or the preemption, between      *)
(* operations only.                                                        *)
LEMMA ApplicationStep ==
  ASSUME FlashIInv, ToggleInterrupts \/ \E p \in Preemptible : flash_plic_preempt_config(p)
  PROVE  FlashIInv'
<1>1. UNCHANGED <<running, frame, threshold, cs, cmd, sent, wel, busy, power, ran, gaveUp>>
  BY DEF ToggleInterrupts, flash_plic_preempt_config, busVars, devVars
<1>2. \A c \in Contexts : ~InOperation(c)
  <2>1. frame["thread"].at = "code" /\ Here.at = "code"
    BY TopIs DEF ToggleInterrupts, flash_plic_preempt_config, At, Here, FlashIInv
  <2>2. ASSUME NEW i \in Irqs PROVE frame[i].at \in {"code", "sdk_isr"}
    BY <2>1, TopIs DEF FlashIInv, OneAtATime, Here
  <2>3. QED
    BY <2>1, <2>2 DEF Contexts, InOperation
<1>3. \A c \in Contexts : ~InOperation(c)'
  BY <1>1, <1>2 DEF InOperation
<1>4. /\ preempt' \in Preemptible /\ irqOn' \in BOOLEAN /\ wanted' = irqOn'
      /\ threshold = 0
  BY <1>2, FlashAssumption
     DEF FlashIInv, IrqState, FlashTypeOK, ToggleInterrupts, flash_plic_preempt_config
<1>5. FlashTypeOK'
  BY <1>1, <1>4, FlashAssumption DEF FlashIInv, FlashTypeOK
<1>6. OneAtATime'
  BY <1>1, <1>2, <1>3, FlashAssumption DEF FlashIInv, OneAtATime, Contexts
<1>7. IrqState'
  BY <1>1, <1>3, <1>4 DEF IrqState
<1>8. BusState'
  BY <1>1, <1>2, <1>3 DEF BusState, FlashIInv, Quiet
<1>9. QED
  BY <1>5, <1>6, <1>7, <1>8 DEF FlashIInv

LEMMA DeviceStep ==
  ASSUME FlashIInv, DeviceDone \/ DeviceAwake
  PROVE  FlashIInv'
<1>1. /\ UNCHANGED <<irqVars, running, frame, cs, cmd, sent, wel, ran>>
      /\ \/ busy' = FALSE /\ gaveUp' = FALSE /\ power' = power
         \/ busy' = busy /\ gaveUp' = gaveUp /\ power' = "active"
  BY DEF DeviceDone, DeviceAwake, busVars
<1>2. FlashTypeOK'
  BY <1>1 DEF FlashIInv, FlashTypeOK, irqVars
<1>3. OneAtATime' /\ IrqState'
  BY <1>1 DEF FlashIInv, OneAtATime, IrqState, Masked, InOperation, Disturbing, irqVars
<1>4. BusState'
  <2>1. ASSUME NEW c \in Contexts, InOperation(c) PROVE BusAt(frame[c])'
    <3>1. frame'[c] = frame[c] /\ BusAt(frame[c])
      BY <1>1, <2>1 DEF FlashIInv, BusState
    <3>2. QED
      BY <1>1, <3>1 DEF BusAt, Fresh, Worked, Quiet
  <2>2. QED
    BY <1>1, <2>1 DEF BusState, FlashIInv, Quiet, InOperation
<1>5. QED
  BY <1>2, <1>3, <1>4 DEF FlashIInv

-----------------------------------------------------------------------------
LEMMA FlashInitIInv == FlashInit => FlashIInv
<1> SUFFICES ASSUME FlashInit PROVE FlashIInv
  OBVIOUS
<1>1. Idle("code") \in Frames /\ Idle("code").at = "code"
  BY FlashAssumption DEF Idle, Called, Frames, Places
<1>2. frame \in [Contexts -> Frames] /\ \A c \in Contexts : frame[c].at = "code"
  BY <1>1 DEF FlashInit
<1>3. \A c \in Contexts : ~InOperation(c)
  BY <1>2 DEF InOperation
<1>4. FlashTypeOK
  BY <1>2, FlashAssumption DEF FlashInit, FlashTypeOK, Frames
<1>5. OneAtATime
  BY <1>2, <1>3 DEF OneAtATime, Contexts, InOperation
<1>6. IrqState /\ BusState
  BY <1>3 DEF FlashInit, IrqState, BusState, Quiet
<1>7. QED
  BY <1>4, <1>5, <1>6 DEF FlashIInv

LEMMA FlashNextIInv == FlashIInv /\ [FlashNext]_flashVars => FlashIInv'
<1> SUFFICES ASSUME FlashIInv, [FlashNext]_flashVars PROVE FlashIInv'
  OBVIOUS
<1>1. CASE UNCHANGED flashVars
  BY <1>1 DEF flashVars, irqVars, busVars, devVars, FlashIInv, FlashTypeOK, OneAtATime,
              IrqState, Masked, BusState, BusAt, Fresh, Worked, Quiet, InOperation, Disturbing
<1>2. CASE Operation
  BY <1>2, EnterStep, OperationSteps, ExitStep DEF Operation
<1>3. CASE \E op \in ThreadOps \cup IsrOps : CallOp(op)
  BY <1>3, CallStep
<1>4. CASE \E i \in Irqs : TakeInterrupt(i)
  BY <1>4, InterruptStep
<1>5. CASE ReturnFromInterrupt
  BY <1>5, ReturnStep
<1>6. CASE ToggleInterrupts \/ \E p \in Preemptible : flash_plic_preempt_config(p)
  BY <1>6, ApplicationStep
<1>7. CASE DeviceDone \/ DeviceAwake
  BY <1>7, DeviceStep
<1>8. QED
  BY <1>1, <1>2, <1>3, <1>4, <1>5, <1>6, <1>7 DEF FlashNext

(* What the invariant says of the application and of handlers.             *)
LEMMA FlashIInvSafe ==
  FlashIInv => FlashTypeOK /\ InterruptsRestored /\ SdkNotReentered /\ XipSafe /\ WorkDone
<1> SUFFICES ASSUME FlashIInv
             PROVE  FlashTypeOK /\ InterruptsRestored /\ SdkNotReentered /\ XipSafe /\ WorkDone
  OBVIOUS
<1>1. InterruptsRestored
  <2> SUFFICES ASSUME ~InOperation("thread"), running = <<"thread">>
               PROVE  irqOn = wanted /\ threshold = 0
    BY DEF InterruptsRestored
  <2>1. \A i \in Irqs : running # <<"thread", i>>
    OBVIOUS
  <2>2. \A c \in Contexts : ~InOperation(c)
    BY <2>1 DEF FlashIInv, OneAtATime, Contexts, InOperation
  <2>3. QED
    BY <2>2 DEF FlashIInv, IrqState
<1>2. SdkNotReentered
  <2> DEFINE inside == {c \in Contexts : frame[c].at \in {"sdk", "sdk_isr"}}
  <2>1. ASSUME NEW i \in Irqs, i \in inside
        PROVE  /\ running = <<"thread", i>>
               /\ "thread" \notin inside
    <3>1. running = <<"thread", i>> /\ frame[i].at # "code"
      BY <2>1 DEF FlashIInv, OneAtATime
    <3>2. ~InOperation("thread") /\ frame["thread"].at # "sdk_isr"
      BY <3>1 DEF FlashIInv, OneAtATime
    <3>3. QED
      BY <3>1, <3>2 DEF InOperation
  <2>2. ASSUME NEW c \in inside, NEW d \in inside PROVE c = d
    <3>1. c \in Contexts /\ d \in Contexts
      OBVIOUS
    <3>2. CASE c \in Irqs /\ d \in Irqs
      BY <2>1, <3>2
    <3>3. CASE c = "thread" \/ d = "thread"
      BY <2>1, <2>2, <3>1, <3>3 DEF Contexts
    <3>4. QED
      BY <3>1, <3>2, <3>3 DEF Contexts
  <2>3. inside = {} \/ \E c : inside = {c}
    BY <2>2
  <2>4. Cardinality(inside) <= 1
    <3> HIDE DEF inside
    <3>1. CASE inside = {}
      BY <3>1, FS_EmptySet
    <3>2. CASE \E c : inside = {c}
      <4>1. PICK c : inside = {c}
        BY <3>2
      <4>2. Cardinality({c}) = 1
        BY FS_Singleton
      <4>3. QED
        BY <4>1, <4>2
    <3>3. QED
      BY <2>3, <3>1, <3>2
  <2>5. QED
    BY <2>4 DEF SdkNotReentered
<1>3. XipSafe
  <2> SUFFICES ASSUME Here.at = "code", Top \notin RamIrqs
               PROVE  cs = "high" /\ (busy => gaveUp)
    BY DEF XipSafe, At
  <2>1. \A c \in Contexts : ~InOperation(c)
    <3>1. CASE Top = "thread"
      BY <3>1, TopIs DEF FlashIInv, OneAtATime, Contexts, InOperation, Here
    <3>2. CASE Top \in Irqs
      <4>1. running = <<"thread", Top>>
        BY <3>2, TopIs DEF FlashIInv
      <4>2. ~InOperation("thread")
        BY <3>2, <4>1, PreemptionAssumption DEF FlashIInv, OneAtATime, IrqState
      <4>3. ASSUME NEW i \in Irqs PROVE ~InOperation(i)
        BY <3>2, <4>1, TopIs DEF FlashIInv, OneAtATime, InOperation, Here
      <4>4. QED
        BY <4>2, <4>3 DEF Contexts
    <3>3. QED
      BY <3>1, <3>2, TopIs DEF FlashIInv, Contexts
  <2>2. QED
    BY <2>1 DEF FlashIInv, BusState, Quiet
<1>4. WorkDone
  <2> SUFFICES ASSUME Here.at = "exit", Here.op.wren, Here.ready, ~gaveUp
               PROVE  ran = Here.op.cmd /\ ~busy
    BY DEF WorkDone, At
  <2>1. BusAt(frame[Top])
    BY TopIs DEF FlashIInv, BusState, InOperation, Here
  <2>2. QED
    BY <2>1 DEF BusAt, Worked, Quiet, Here
<1>5. QED
  BY <1>1, <1>2, <1>3, <1>4 DEF FlashIInv

-----------------------------------------------------------------------------
(* In every reachable state at most one context commands the device, with  *)
(* the interrupts as its entry has left them.                              *)
THEOREM FlashInvariant == FlashSpec => []FlashIInv
BY FlashInitIInv, FlashNextIInv, PTL DEF FlashSpec

(* The driver's variables have their types.                                *)
THEOREM FlashTypesKept == FlashSpec => []FlashTypeOK
BY FlashInvariant, FlashIInvSafe, PTL

(* plic_exit_critical_sec undoes what plic_enter_critical_sec did, however *)
(* operations, handlers and changes of the preemption follow one another.  *)
THEOREM InterruptsAlwaysRestored == FlashSpec => []InterruptsRestored
BY FlashInvariant, FlashIInvSafe, PTL

(* blc_sdk_irq_handler, called by flash_wait_done and by its interrupts,   *)
(* is never entered twice.                                                 *)
THEOREM SdkNeverReentered == FlashSpec => []SdkNotReentered
BY FlashInvariant, FlashIInvSafe, PTL

(* Code that is fetched from the flash finds it idle and its bus free.     *)
THEOREM XipAlwaysSafe == FlashSpec => []XipSafe
BY FlashInvariant, FlashIInvSafe, PTL

(* An erase or write of a device that was ready is complete at its return. *)
THEOREM WorkAlwaysDone == FlashSpec => []WorkDone
BY FlashInvariant, FlashIInvSafe, PTL
=============================================================================
