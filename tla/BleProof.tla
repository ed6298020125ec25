------------------------------ MODULE BleProof ------------------------------
(***************************************************************************)
(* Proofs about BleFirmware, for any number of disturbances and power      *)
(* failures, any bytes, any rate and width of the timer:                   *)
(*                                                                         *)
(*  - the application is told how the chip came up.  What                  *)
(*    pm_update_status_info concludes depends on bits that earlier boots   *)
(*    left; the invariant says what they mean at each place of a boot;     *)
(*  - the device addresses are in flash before they are used and never     *)
(*    change.  The invariant says what is erased, what is written and how  *)
(*    RAM agrees with it at each place of b91_bt_blc_mac_init;             *)
(*  - the controller thread is up less than four milliseconds before its   *)
(*    tick and never after it, by what the remainders of the two clocks    *)
(*    can add up to;                                                       *)
(*  - the controller thread runs only over a link layer that was set up.   *)
(*                                                                         *)
(* Each part has an invariant of its own; as a step of one leaves the      *)
(* others' variables alone, their conjunction is one of the firmware.      *)
(***************************************************************************)
EXTENDS BleFirmware, ModArith

(* How the chip came up.                                                   *)
Rebooting == 1 \in powerOnClr       \* the mark of a deep sleep of sys_init

(* The bit of 0x39 that tells a reset from a power-on, and its companion,  *)
(* which only a boot after a recorded power-on sets.                       *)
MarksMeaning ==
  /\ recorded <=> 0 \in powerOnClr
  /\ Rebooting => recorded

(* At the start of sys_init each cause has left its marks.                 *)
AtUpdate ==
  bootPc = "update" =>
    /\ cause = "power" => wdClr = 1 /\ ~recorded
    /\ cause = "reset" => wdClr = 1 /\ recorded
    /\ cause \in {"retention", "deep", "boot_deep"} =>
         /\ wdClr = 0 /\ recorded
         /\ noRetention = (IF cause = "retention" THEN 0 ELSE 1)
         /\ Rebooting <=> cause = "boot_deep"

(* The two boots with a second register to write.                          *)
AtSecondMark ==
  /\ bootPc = "power_on_2" => wdClr = 0 /\ ~recorded /\ cause = "power" /\ status = "POWER_ON"
  /\ bootPc = "reboot_deep_2" =>
       wdClr = 0 /\ recorded /\ cause = "boot_deep" /\ status = "REBOOT_DEEP_BACK"

(* From there on the marks are as a next start needs them, but for that of *)
(* the deep sleep, and the conclusion is right; a reset may be concluded.  *)
Concluded ==
  \/ status \in Reported
  \/ cause = "reset" /\ status = "REBOOT_BACK"

AtDecision ==
  /\ bootPc \in {"start", "decide", "app", "boot_call", "boot_sleep", "deep_sleep", "ret_sleep"} =>
       wdClr = 0 /\ recorded
  /\ bootPc \in {"start", "decide"} => Concluded /\ (status # "REBOOT_BACK" => ~Rebooting)
  /\ bootPc \in {"decide", "app"} => (timer = "recovered" <=> status = "DEEPRET_BACK")

(* The deep sleep of sys_init marks itself after a reset only.             *)
AtSleep ==
  /\ bootPc \in {"boot_call", "boot_sleep"} =>
       cause \in {"power", "reset"} /\ (Rebooting <=> cause = "reset")
  /\ bootPc \in {"app", "deep_sleep", "ret_sleep"} => ~Rebooting
  /\ bootPc \in {"deep_sleep", "boot_sleep"} => noRetention = 1
  /\ bootPc = "ret_sleep" => noRetention = 0
  /\ bootPc = "app" => status \in Reported

Meaning == MarksMeaning /\ AtUpdate /\ AtSecondMark /\ AtDecision /\ AtSleep

BootIInv == BootTypeOK /\ (stored \/ Meaning)

USE DEF Rebooting

(* A reset, wherever it comes from: recorded and the marks stay, and the   *)
(* start that follows finds the reset's own mark.                          *)
LEMMA ResetSound ==
  ASSUME BootIInv, Reset, noRetention' \in {0, 1}, budget' \in 0 .. Disturbances
  PROVE  BootIInv'
<1>1. BootTypeOK'
  BY DEF BootIInv, BootTypeOK, Reset, BootSteps, Asleep, Causes
<1>2. ASSUME ~stored PROVE Meaning'
  <2>1. Meaning /\ (recorded <=> 0 \in powerOnClr) /\ (1 \in powerOnClr => recorded)
    BY <1>2 DEF BootIInv, Meaning, MarksMeaning
  <2>2. MarksMeaning'
    BY <2>1 DEF MarksMeaning, Reset
  <2>3. AtUpdate'
    BY DEF AtUpdate, Reset, BootIInv, BootTypeOK
  <2>4. AtSecondMark' /\ AtDecision' /\ AtSleep'
    BY DEF AtSecondMark, AtDecision, AtSleep, Reset
  <2>5. QED
    BY <2>2, <2>3, <2>4 DEF Meaning
<1>3. QED
  BY <1>1, <1>2 DEF BootIInv, Reset

(* A power cycle clears all that the application may have stored.          *)
LEMMA PowerSound ==
  ASSUME BootIInv, PowerCycle
  PROVE  BootIInv'
<1>1. BootTypeOK'
  <2>1. powerOnClr' \subseteq {0, 1}
    BY DEF PowerCycle
  <2>2. budget' \in 0 .. Disturbances
    BY BootAssumption DEF BootAssumption, BootIInv, BootTypeOK, PowerCycle
  <2>3. QED
    BY <2>1, <2>2 DEF BootIInv, BootTypeOK, PowerCycle, BootSteps, Causes
<1>2. Meaning'
  BY DEF Meaning, MarksMeaning, AtUpdate, AtSecondMark, AtDecision, AtSleep, PowerCycle
<1>3. QED
  BY <1>1, <1>2 DEF BootIInv

(* pm_update_status_info draws the right conclusion from the marks.        *)
LEMMA ReadSound ==
  ASSUME BootIInv, ReadStatus
  PROVE  BootIInv'
<1>1. status' \in Statuses /\ status' = Classify
  BY DEF ReadStatus, Classify, Statuses
<1>2. BootTypeOK'
  BY <1>1 DEF BootIInv, BootTypeOK, ReadStatus, BootSteps, Asleep
<1>3. ASSUME ~stored PROVE Meaning'
  <2>1. Meaning /\ bootPc = "update"
    BY <1>3 DEF BootIInv, ReadStatus
  <2>2. MarksMeaning'
    BY <2>1 DEF Meaning, MarksMeaning, ReadStatus
  <2>3. /\ cause = "power" => status' = "POWER_ON" /\ bootPc' = "power_on_2" /\ ~recorded
        /\ cause = "reset" => status' = "REBOOT_BACK" /\ bootPc' = "start"
        /\ cause = "retention" => status' = "DEEPRET_BACK" /\ bootPc' = "start"
        /\ cause = "deep" => status' = "DEEP_BACK" /\ bootPc' = "start"
        /\ cause = "boot_deep" => status' = "REBOOT_DEEP_BACK" /\ bootPc' = "reboot_deep_2"
    BY <2>1 DEF Meaning, AtUpdate, MarksMeaning, ReadStatus, Classify
  <2>4. cause \in Causes /\ wdClr \in {0, 1}
    BY DEF BootIInv, BootTypeOK
  <2>5. wdClr' = 0 /\ (cause # "power" => recorded) /\ (cause \in {"deep", "retention"} => ~Rebooting)
    BY <2>1, <2>3, <2>4 DEF Meaning, AtUpdate, ReadStatus, Causes
  <2>6. cause' = cause /\ recorded' = recorded /\ powerOnClr' = powerOnClr
    BY DEF ReadStatus
  <2>7. AtUpdate' /\ AtSecondMark' /\ AtSleep'
    BY <2>3, <2>4, <2>5, <2>6 DEF AtUpdate, AtSecondMark, AtSleep, Causes
  <2>8. AtDecision'
    BY <2>3, <2>4, <2>5, <2>6 DEF AtDecision, Concluded, Reported, Causes
  <2>9. QED
    BY <2>2, <2>7, <2>8 DEF Meaning
<1>4. QED
  BY <1>2, <1>3 DEF BootIInv, ReadStatus

(* The rest of a boot, up to the call of the application or of the sleep.  *)
LEMMA BootSound ==
  ASSUME BootIInv, MarkPowered \/ ForgetReboot \/ StartTimer \/ Decide
  PROVE  BootIInv'
<1>1. CASE MarkPowered
  <2>1. BootTypeOK'
    BY <1>1 DEF BootIInv, BootTypeOK, MarkPowered, BootSteps
  <2>2. ASSUME ~stored PROVE Meaning'
    BY <1>1, <2>2 DEF BootIInv, MarkPowered, Meaning, MarksMeaning, AtUpdate, AtSecondMark,
                      AtDecision, AtSleep, Concluded, Reported
  <2>3. QED
    BY <1>1, <2>1, <2>2 DEF BootIInv, MarkPowered
<1>2. CASE ForgetReboot
  <2>1. BootTypeOK'
    BY <1>2 DEF BootIInv, BootTypeOK, ForgetReboot, BootSteps
  <2>2. ASSUME ~stored PROVE Meaning'
    BY <1>2, <2>2 DEF BootIInv, ForgetReboot, Meaning, MarksMeaning, AtUpdate, AtSecondMark,
                      AtDecision, AtSleep, Concluded, Reported
  <2>3. QED
    BY <1>2, <2>1, <2>2 DEF BootIInv, ForgetReboot
<1>3. CASE StartTimer
  <2>1. BootTypeOK'
    BY <1>3 DEF BootIInv, BootTypeOK, StartTimer, BootSteps
  <2>2. ASSUME ~stored PROVE Meaning'
    BY <1>3, <2>2 DEF BootIInv, StartTimer, Meaning, MarksMeaning, AtUpdate, AtSecondMark,
                      AtDecision, AtSleep, Concluded, Reported
  <2>3. QED
    BY <1>3, <2>1, <2>2 DEF BootIInv, StartTimer
<1>4. CASE Decide
  <2>1. BootTypeOK'
    BY <1>4 DEF BootIInv, BootTypeOK, Decide, BootSteps
  <2>2. ASSUME ~stored PROVE Meaning'
    <3>1. Meaning /\ bootPc = "decide" /\ cause \in Causes
      BY <1>4, <2>2 DEF BootIInv, BootTypeOK, Decide
    <3>2. Concluded /\ wdClr = 0 /\ recorded /\ MarksMeaning
      BY <3>1 DEF Meaning, AtDecision
    <3>3. CASE status = "REBOOT_BACK"
      <4>1. cause = "reset"
        BY <3>1, <3>2, <3>3 DEF Concluded, Reported, Causes
      <4>2. QED
        BY <1>4, <3>1, <3>2, <3>3, <4>1 DEF Decide, Meaning, MarksMeaning, AtUpdate,
                      AtSecondMark, AtDecision, AtSleep
    <3>4. CASE status = "POWER_ON" /\ chipA0
      <4>1. cause = "power"
        BY <3>1, <3>2, <3>4 DEF Concluded, Reported, Causes
      <4>2. QED
        BY <1>4, <3>1, <3>2, <3>4, <4>1 DEF Decide, Meaning, MarksMeaning, AtUpdate,
                      AtSecondMark, AtDecision, AtSleep
    <3>5. CASE status # "REBOOT_BACK" /\ ~(status = "POWER_ON" /\ chipA0)
      <4>1. status \in Reported /\ Reported' = Reported /\ status' = status
        BY <1>4, <3>2, <3>5 DEF Concluded, Decide, Reported
      <4>2. bootPc' = "app" /\ powerOnClr' = powerOnClr /\ ~Rebooting
        BY <1>4, <3>1, <3>5 DEF Decide, Meaning, AtDecision
      <4>3. QED
        BY <1>4, <3>1, <3>2, <4>1, <4>2 DEF Decide, Meaning, MarksMeaning, AtUpdate,
                      AtSecondMark, AtDecision, AtSleep
    <3>6. QED
      BY <3>3, <3>4, <3>5
  <2>3. QED
    BY <1>4, <2>1, <2>2 DEF BootIInv, Decide
<1>5. QED
  BY <1>1, <1>2, <1>3, <1>4

(* Sleeping and waking.                                                    *)
LEMMA SleepSound ==
  ASSUME BootIInv,
         \/ DeepSleep("boot_call", "boot_sleep") \/ DeepSleep("app", "deep_sleep")
         \/ RetentionSleep \/ Wake \/ UserStores
  PROVE  BootIInv'
<1>1. CASE DeepSleep("boot_call", "boot_sleep")
  <2>1. BootTypeOK'
    BY <1>1 DEF BootIInv, BootTypeOK, DeepSleep, Asleep
  <2>2. ASSUME ~stored PROVE Meaning'
    BY <1>1, <2>2 DEF BootIInv, DeepSleep, Meaning, MarksMeaning, AtUpdate, AtSecondMark,
                      AtDecision, AtSleep
  <2>3. QED
    BY <1>1, <2>1, <2>2 DEF BootIInv, DeepSleep
<1>2. CASE DeepSleep("app", "deep_sleep")
  <2>1. BootTypeOK'
    BY <1>2 DEF BootIInv, BootTypeOK, DeepSleep, Asleep
  <2>2. ASSUME ~stored PROVE Meaning'
    BY <1>2, <2>2 DEF BootIInv, DeepSleep, Meaning, MarksMeaning, AtUpdate, AtSecondMark,
                      AtDecision, AtSleep
  <2>3. QED
    BY <1>2, <2>1, <2>2 DEF BootIInv, DeepSleep
<1>3. CASE RetentionSleep
  <2>1. BootTypeOK'
    BY <1>3 DEF BootIInv, BootTypeOK, RetentionSleep, Asleep
  <2>2. ASSUME ~stored PROVE Meaning'
    BY <1>3, <2>2 DEF BootIInv, RetentionSleep, Meaning, MarksMeaning, AtUpdate, AtSecondMark,
                      AtDecision, AtSleep
  <2>3. QED
    BY <1>3, <2>1, <2>2 DEF BootIInv, RetentionSleep
<1>4. CASE Wake
  <2>1. BootTypeOK'
    BY <1>4 DEF BootIInv, BootTypeOK, Wake, registers, BootSteps, Asleep, Causes
  <2>2. ASSUME ~stored PROVE Meaning'
    BY <1>4, <2>2 DEF BootIInv, Wake, registers, Asleep, Meaning, MarksMeaning, AtUpdate,
                      AtSecondMark, AtDecision, AtSleep
  <2>3. QED
    BY <1>4, <2>1, <2>2 DEF BootIInv, Wake
<1>5. CASE UserStores
  BY <1>5 DEF BootIInv, BootTypeOK, UserStores
<1>6. QED
  BY <1>1, <1>2, <1>3, <1>4, <1>5

LEMMA BootStep ==
  ASSUME BootIInv, [BootNext]_bootVars
  PROVE  BootIInv'
<1>1. CASE UNCHANGED bootVars
  <2>1. BootTypeOK' /\ stored' = stored
    BY <1>1 DEF bootVars, registers, BootIInv, BootTypeOK
  <2>2. Reported' = Reported /\ status' = status /\ cause' = cause
    BY <1>1 DEF bootVars, registers, Reported
  <2>3. (Meaning)' <=> Meaning
    BY <1>1, <2>2 DEF bootVars, registers, Meaning, MarksMeaning, AtUpdate, AtSecondMark,
                      AtDecision, AtSleep, Concluded
  <2>4. QED
    BY <2>1, <2>3 DEF BootIInv
<1>2. ASSUME NEW from \in {"boot_call", "app"}, DeepPending(from) PROVE BootIInv'
  <2>1. Reset /\ noRetention' \in {0, 1} /\ budget' \in 0 .. Disturbances
    BY <1>2, BootAssumption DEF BootAssumption, DeepPending, BootIInv, BootTypeOK
  <2>2. QED
    BY <2>1, ResetSound
<1>3. CASE SysReboot \/ ExternalReset
  <2>1. Reset /\ noRetention' \in {0, 1} /\ budget' \in 0 .. Disturbances
    BY <1>3, BootAssumption DEF BootAssumption, SysReboot, ExternalReset, BootIInv, BootTypeOK
  <2>2. QED
    BY <2>1, ResetSound
<1>4. CASE BootCall \/ AppDeep
  BY <1>2, <1>4, SleepSound DEF BootCall, AppDeep
<1>5. QED
  BY <1>1, <1>3, <1>4, ReadSound, BootSound, SleepSound, PowerSound DEF BootNext

-----------------------------------------------------------------------------
(* Addresses.  A public address was made in the factory or by the          *)
(* controller; those of before count as made unless one was torn.          *)
Made(a) ==
  \/ \A i \in 3 .. 5 : a[i] = Company[i - 2]
  \/ \A i \in Address : a[i] = Factory

(* What is still to be programmed is erased, what has been is there.       *)
WritesAhead ==
  /\ macPc = "write_public" =>
       /\ next \in 0 .. 5
       /\ \A i \in next .. 5 : flash[i] = Erased
       /\ \A i \in 0 .. next - 1 : flash[i] = public[i]
  /\ macPc = "write_static" =>
       /\ next \in 6 .. 7
       /\ \A i \in next .. 7 : flash[i] = Erased
       /\ \A i \in 6 .. next - 1 : flash[i] = static[i - 3]
  /\ macPc \in {"write_public", "static"} => flash[6] = macRead[6] /\ flash[7] = macRead[7]
  /\ macPc \in {"write_public", "static", "write_static"} => configured

(* What is in RAM agrees with flash.                                       *)
InFlash ==
  configured =>
    /\ macPc \in {"static", "write_static", "ready", "running"} =>
         \A i \in Address : flash[i] = public[i]
    /\ macPc \in {"ready", "running"} => flash[6] = static[3] /\ flash[7] = static[4]
    /\ macPc \in {"write_static", "ready", "running"} =>
         (\A i \in 0 .. 2 : static[i] = public[i]) /\ static[5] = RandomStatic
    /\ macPc # "off" => \E i \in Address : public[i] # Erased

GoodPublic ==
  configured /\ ~torn =>
    /\ macPc = "off" => (\A i \in Address : flash[i] = Erased) \/ Made(flash)
    /\ macPc # "off" => Made(public)
    /\ announced # None => Made(announced.public)

(* What was announced is what flash says, but for a pair that still reads  *)
(* as erased.                                                              *)
AnnouncedKept ==
  configured /\ announced # None =>
    /\ macPc # "write_public"
    /\ macPc = "write_static" => announced.static[3] = Erased /\ announced.static[4] = Erased
    /\ \A i \in Address : flash[i] = announced.public[i]
    /\ \E i \in Address : announced.public[i] # Erased
    /\ \/ flash[6] = announced.static[3] /\ flash[7] = announced.static[4]
       \/ announced.static[3] = Erased /\ announced.static[4] = Erased
    /\ \A i \in 0 .. 2 : announced.static[i] = announced.public[i]
    /\ announced.static[5] = RandomStatic

MacIInv == MacTypeOK /\ WritesAhead /\ InFlash /\ GoodPublic /\ AnnouncedKept

-----------------------------------------------------------------------------
LEMMA CompanyFacts ==
  /\ \A i \in 3 .. 5 : Company[i - 2] \in Bytes
  /\ \E i \in 3 .. 5 : Company[i - 2] # Erased
<1>1. Company \in Seq(Bytes) /\ Len(Company) = 3 /\ \E i \in 1 .. 3 : Company[i] # Erased
  BY MacAssumption DEF MacAssumption
<1>2. \A i \in 1 .. 3 : Company[i] \in Bytes
  BY <1>1
<1>3. PICK i \in 1 .. 3 : Company[i] # Erased
  BY <1>1
<1>4. i + 2 \in 3 .. 5 /\ (i + 2) - 2 = i
  BY <1>3
<1>5. QED
  BY <1>2, <1>3, <1>4

(* Programming an erased cell leaves the byte in it, whatever it is.       *)
LEMMA ProgramErased ==
  ASSUME NEW b \in Bytes
  PROVE  Erased \cap b = b
BY DEF Erased, Bytes

LEMMA MacInitSound ==
  ASSUME MacInit
  PROVE  MacIInv
<1>1. PICK n \in {0, 6, 8} : flash = [i \in Cells |-> IF i < n THEN Factory ELSE Erased]
  BY DEF MacInit, FactoryImages
<1>2. Factory \in Bytes /\ Factory # Erased /\ Erased \in Bytes
  BY MacAssumption DEF MacAssumption, Erased, Bytes
<1>3. flash \in [Cells -> Bytes]
  BY <1>1, <1>2
<1>4. MacTypeOK
  <2>1. macRead \in [Cells -> Bytes] /\ random \in [0 .. 4 -> Bytes]
    BY <1>2 DEF MacInit
  <2>2. public \in [Address -> Bytes] /\ static \in [Address -> Bytes]
    BY <1>2 DEF MacInit, Blank
  <2>3. /\ configured \in BOOLEAN /\ torn \in BOOLEAN
        /\ macPc \in {"off", "write_public", "static", "write_static", "ready", "running"}
    BY Zenon DEF MacInit
  <2>4. announced \in {None} \cup [public : [Address -> Bytes], static : [Address -> Bytes]]
    BY Zenon DEF MacInit
  <2>5. next \in 0 .. 8
    BY DEF MacInit
  <2>6. QED
    BY <1>3, <2>1, <2>2, <2>3, <2>4, <2>5 DEF MacTypeOK
<1>5. \/ \A i \in Address : flash[i] = Erased
      \/ \A i \in Address : flash[i] = Factory
  BY <1>1 DEF Address, Cells
<1>6. WritesAhead /\ InFlash /\ AnnouncedKept
  BY DEF MacInit, WritesAhead, InFlash, AnnouncedKept
<1>7. GoodPublic
  BY <1>5 DEF MacInit, GoodPublic, Made
<1>8. QED
  BY <1>4, <1>6, <1>7 DEF MacIInv

LEMMA ReadAndChooseSound ==
  ASSUME MacIInv, ReadAndChoose
  PROVE  MacIInv'
<1> USE DEF ReadAndChoose
<1>1. /\ flash' = flash /\ macRead' = flash /\ configured /\ announced' = announced /\ torn' = torn
      /\ configured' = configured /\ next' = 0 /\ static' = static /\ macPc = "off"
      /\ random' \in [0 .. 4 -> RandomBytes]
  OBVIOUS
<1>2. random' \in [0 .. 4 -> Bytes] /\ flash \in [Cells -> Bytes]
  BY <1>1, MacAssumption DEF MacAssumption, MacIInv, MacTypeOK
<1>3. CASE HasPublic(flash)
  <2>1. public' = [i \in Address |-> flash[i]] /\ macPc' = "static"
    BY <1>3
  <2>2. public' \in [Address -> Bytes] /\ \A i \in Address : public'[i] = flash[i]
    BY <1>2, <2>1 DEF Address, Cells
  <2>3. \E i \in Address : public'[i] # Erased
    BY <1>3, <2>2 DEF HasPublic
  <2>4. MacTypeOK'
    BY <1>1, <1>2, <2>1, <2>2 DEF MacIInv, MacTypeOK
  <2>5. WritesAhead' /\ InFlash'
    BY <1>1, <2>1, <2>2, <2>3 DEF WritesAhead, InFlash, Cells
  <2>6. GoodPublic'
    <3>1. SUFFICES ASSUME ~torn PROVE Made(public') /\ (announced # None => Made(announced.public))
      BY <1>1, <2>1 DEF GoodPublic, Made
    <3>2. Made(flash) /\ (announced # None => Made(announced.public))
      BY <1>1, <1>3, <3>1 DEF MacIInv, GoodPublic, HasPublic
    <3>3. QED
      BY <2>2, <3>2 DEF Made, Address
  <2>7. AnnouncedKept'
    BY <1>1, <2>1 DEF MacIInv, AnnouncedKept
  <2>8. QED
    BY <2>4, <2>5, <2>6, <2>7 DEF MacIInv
<1>4. CASE ~HasPublic(flash)
  <2>1. public' = Generated(random') /\ macPc' = "write_public"
    BY <1>4
  <2>2. \A i \in 3 .. 5 : public'[i] = Company[i - 2]
    BY <2>1 DEF Generated, Address
  <2>3. public' \in [Address -> Bytes]
    BY <1>2, <2>1, CompanyFacts DEF Generated, Address
  <2>4. \E i \in Address : public'[i] # Erased
    BY <2>2, CompanyFacts DEF Address
  <2>5. \A i \in Address : flash[i] = Erased
    BY <1>4 DEF HasPublic
  <2>6. MacTypeOK'
    BY <1>1, <1>2, <2>1, <2>3 DEF MacIInv, MacTypeOK
  <2>7. WritesAhead' /\ InFlash'
    BY <1>1, <2>1, <2>4, <2>5 DEF WritesAhead, InFlash, Address
  <2>8. GoodPublic'
    <3>1. ~torn /\ announced # None => Made(announced.public)
      BY <1>1 DEF MacIInv, GoodPublic
    <3>2. QED
      BY <1>1, <2>1, <2>2, <3>1 DEF GoodPublic, Made
  <2>9. announced = None
    <3>1. SUFFICES ASSUME announced # None PROVE FALSE
      OBVIOUS
    <3>2. QED
      BY <1>1, <2>5, <3>1 DEF MacIInv, AnnouncedKept
  <2>10. AnnouncedKept'
    BY <1>1, <2>9 DEF AnnouncedKept
  <2>11. QED
    BY <2>6, <2>7, <2>8, <2>10 DEF MacIInv
<1>5. QED
  BY <1>3, <1>4

LEMMA WritePublicSound ==
  ASSUME MacIInv, WritePublic
  PROVE  MacIInv' /\ flash[next] = Erased /\ \A i \in Cells \ {next} : flash'[i] = flash[i]
<1> USE DEF WritePublic, Program
<1>1. /\ macPc = "write_public" /\ configured /\ next \in 0 .. 5 /\ flash \in [Cells -> Bytes]
      /\ public \in [Address -> Bytes] /\ flash[next] = Erased
  BY DEF MacIInv, MacTypeOK, WritesAhead
<1>2. /\ configured' = configured /\ macRead' = macRead /\ random' = random /\ public' = public
      /\ static' = static /\ announced' = announced /\ torn' = torn /\ next' = next + 1
      /\ flash' = [flash EXCEPT ![next] = flash[next] \cap public[next]]
      /\ macPc' = IF next = 5 THEN "static" ELSE "write_public"
  BY <1>1
<1>3. next \in Cells /\ next \in Address /\ public[next] \in Bytes
  BY <1>1 DEF Cells, Address
<1>4. flash'[next] = public[next] /\ \A i \in Cells \ {next} : flash'[i] = flash[i]
  BY <1>1, <1>2, <1>3, ProgramErased
<1>5. flash' \in [Cells -> Bytes]
  BY <1>1, <1>2, <1>3, ProgramErased
<1>6. MacTypeOK'
  BY <1>1, <1>2, <1>5 DEF MacIInv, MacTypeOK
<1>7. \A i \in 0 .. next : flash'[i] = public[i]
  BY <1>1, <1>4 DEF MacIInv, WritesAhead, Cells
<1>8. \A i \in next + 1 .. 7 : flash'[i] = flash[i]
  BY <1>1, <1>4 DEF Cells
<1>9. WritesAhead'
  BY <1>1, <1>2, <1>7, <1>8 DEF MacIInv, WritesAhead
<1>10. InFlash'
  BY <1>1, <1>2, <1>7 DEF MacIInv, InFlash, Address
<1>11. GoodPublic'
  BY <1>1, <1>2 DEF MacIInv, GoodPublic, Made
<1>12. AnnouncedKept'
  BY <1>1, <1>2 DEF MacIInv, AnnouncedKept
<1>13. QED
  BY <1>1, <1>4, <1>6, <1>9, <1>10, <1>11, <1>12 DEF MacIInv

LEMMA ChooseStaticSound ==
  ASSUME MacIInv, ChooseStatic
  PROVE  MacIInv'
<1> USE DEF ChooseStatic
<1>1. /\ macPc = "static" /\ configured /\ public \in [Address -> Bytes] /\ next' = 6
      /\ configured' = configured /\ flash' = flash /\ macRead' = macRead /\ random' = random
      /\ public' = public /\ announced' = announced /\ torn' = torn
      /\ RandomStatic \in Bytes /\ macRead \in [Cells -> Bytes] /\ random \in [0 .. 4 -> Bytes]
  BY MacAssumption DEF MacAssumption, MacIInv, MacTypeOK, WritesAhead
<1>2. PICK hi \in [{0, 1} -> Bytes] :
        /\ static' = StaticAddress(hi)
        /\ \/ HasStatic(macRead) /\ macPc' = "ready" /\ hi[0] = macRead[6] /\ hi[1] = macRead[7]
           \/ ~HasStatic(macRead) /\ macPc' = "write_static"
  <2>1. CASE HasStatic(macRead)
    <3> DEFINE h == [i \in {0, 1} |-> macRead[6 + i]]
    <3>1. h \in [{0, 1} -> Bytes] /\ h[0] = macRead[6] /\ h[1] = macRead[7]
      BY <1>1 DEF Cells
    <3>2. QED
      BY <2>1, <3>1
  <2>2. CASE ~HasStatic(macRead)
    <3> DEFINE h == [i \in {0, 1} |-> random[3 + i]]
    <3>1. h \in [{0, 1} -> Bytes]
      BY <1>1
    <3>2. QED
      BY <2>2, <3>1
  <2>3. QED
    BY <2>1, <2>2
<1>3. /\ static' \in [Address -> Bytes]
      /\ \A i \in 0 .. 2 : static'[i] = public[i]
      /\ static'[5] = RandomStatic /\ static'[3] = hi[0] /\ static'[4] = hi[1]
  BY <1>1, <1>2 DEF StaticAddress, Address
<1>4. MacTypeOK'
  BY <1>1, <1>2, <1>3 DEF MacIInv, MacTypeOK
<1>5. WritesAhead'
  <2>1. macPc' = "write_static" => flash[6] = Erased /\ flash[7] = Erased
    BY <1>1, <1>2 DEF MacIInv, WritesAhead, HasStatic
  <2>2. QED
    BY <1>1, <1>2, <2>1 DEF WritesAhead
<1>6. InFlash'
  BY <1>1, <1>2, <1>3 DEF MacIInv, InFlash, WritesAhead
<1>7. GoodPublic'
  BY <1>1, <1>2 DEF MacIInv, GoodPublic, Made
<1>8. AnnouncedKept'
  BY <1>1, <1>2 DEF MacIInv, AnnouncedKept, WritesAhead, HasStatic
<1>9. QED
  BY <1>4, <1>5, <1>6, <1>7, <1>8 DEF MacIInv

LEMMA WriteStaticSound ==
  ASSUME MacIInv, WriteStatic
  PROVE  MacIInv' /\ flash[next] = Erased /\ \A i \in Cells \ {next} : flash'[i] = flash[i]
<1> USE DEF WriteStatic, Program
<1>1. /\ macPc = "write_static" /\ configured /\ next \in 6 .. 7 /\ flash \in [Cells -> Bytes]
      /\ static \in [Address -> Bytes] /\ flash[next] = Erased
  BY DEF MacIInv, MacTypeOK, WritesAhead
<1>2. /\ configured' = configured /\ macRead' = macRead /\ random' = random /\ public' = public
      /\ static' = static /\ announced' = announced /\ torn' = torn /\ next' = next + 1
      /\ flash' = [flash EXCEPT ![next] = flash[next] \cap static[next - 3]]
      /\ macPc' = IF next = 7 THEN "ready" ELSE "write_static"
  BY <1>1
<1>3. next \in Cells /\ next - 3 \in Address /\ static[next - 3] \in Bytes
  BY <1>1 DEF Cells, Address
<1>4. flash'[next] = static[next - 3] /\ \A i \in Cells \ {next} : flash'[i] = flash[i]
  BY <1>1, <1>2, <1>3, ProgramErased
<1>5. flash' \in [Cells -> Bytes]
  BY <1>1, <1>2, <1>3, ProgramErased
<1>6. MacTypeOK'
  BY <1>1, <1>2, <1>5 DEF MacIInv, MacTypeOK
<1>7. \A i \in 6 .. next : flash'[i] = static[i - 3]
  BY <1>1, <1>4 DEF MacIInv, WritesAhead, Cells
<1>8. \A i \in Address : flash'[i] = flash[i]
  BY <1>1, <1>4 DEF Cells, Address
<1>9. WritesAhead'
  BY <1>1, <1>2, <1>4, <1>7 DEF MacIInv, WritesAhead, Cells
<1>10. InFlash'
  <2>1. macPc' = "ready" => flash'[6] = static[3] /\ flash'[7] = static[4]
    <3>1. SUFFICES ASSUME next = 7 PROVE flash'[6] = static[6 - 3] /\ flash'[7] = static[7 - 3]
      BY <1>1, <1>2
    <3>2. QED
      BY <1>7, <3>1
  <2>2. macPc' \in {"ready", "write_static"}
    BY <1>2
  <2>3. QED
    BY <1>1, <1>2, <1>8, <2>1, <2>2 DEF MacIInv, InFlash
<1>11. GoodPublic'
  BY <1>1, <1>2 DEF MacIInv, GoodPublic, Made
<1>12. AnnouncedKept'
  BY <1>1, <1>2, <1>8 DEF MacIInv, AnnouncedKept
<1>13. QED
  BY <1>1, <1>4, <1>6, <1>9, <1>10, <1>11, <1>12 DEF MacIInv

LEMMA AnnounceSound ==
  ASSUME MacIInv, Announce
  PROVE  /\ MacIInv'
         /\ configured /\ announced # None =>
              /\ announced'.public = announced.public
              /\ \/ announced'.static = announced.static
                 \/ announced.static[3] = Erased /\ announced.static[4] = Erased
<1> USE DEF Announce
<1>1. /\ macPc = "ready" /\ macPc' = "running" /\ configured' = configured /\ flash' = flash
      /\ macRead' = macRead /\ random' = random /\ public' = public /\ static' = static
      /\ next' = next /\ torn' = torn /\ announced' = [public |-> public, static |-> static]
      /\ public \in [Address -> Bytes] /\ static \in [Address -> Bytes]
  BY DEF ramVars, MacIInv, MacTypeOK
<1>2. announced'.public = public /\ announced'.static = static
  BY <1>1
<1>3. MacTypeOK'
  BY <1>1 DEF MacIInv, MacTypeOK
<1>4. WritesAhead' /\ InFlash'
  BY <1>1 DEF MacIInv, WritesAhead, InFlash
<1>5. GoodPublic'
  BY <1>1, <1>2 DEF MacIInv, GoodPublic, Made
<1>6. AnnouncedKept'
  BY <1>1, <1>2 DEF MacIInv, InFlash, AnnouncedKept
<1>7. ASSUME configured, announced # None
      PROVE  /\ announced'.public = announced.public
             /\ \/ announced'.static = announced.static
                \/ announced.static[3] = Erased /\ announced.static[4] = Erased
  <2>1. announced.public \in [Address -> Bytes] /\ announced.static \in [Address -> Bytes]
    BY <1>7 DEF MacIInv, MacTypeOK
  <2>2. \A i \in Address : public[i] = announced.public[i]
    BY <1>1, <1>7 DEF MacIInv, InFlash, AnnouncedKept
  <2>3. public = announced.public
    BY <1>1, <2>1, <2>2
  <2>4. ASSUME ~(announced.static[3] = Erased /\ announced.static[4] = Erased)
        PROVE  static = announced.static
    <3>1. static[3] = announced.static[3] /\ static[4] = announced.static[4]
      BY <1>1, <1>7, <2>4 DEF MacIInv, InFlash, AnnouncedKept
    <3>2. \A i \in {0, 1, 2, 5} : static[i] = announced.static[i]
      BY <1>1, <1>7, <2>2 DEF MacIInv, InFlash, AnnouncedKept, Address
    <3>3. \A i \in Address : static[i] = announced.static[i]
      BY <3>1, <3>2 DEF Address
    <3>4. QED
      BY <1>1, <2>1, <3>3
  <2>5. QED
    BY <1>2, <2>3, <2>4
<1>8. QED
  BY <1>3, <1>4, <1>5, <1>6, <1>7 DEF MacIInv

LEMMA SkipSound ==
  ASSUME MacIInv, SkipUnconfigured
  PROVE  MacIInv'
<1>1. /\ ~configured /\ ~configured' /\ macPc' = "ready" /\ flash' = flash /\ macRead' = macRead
      /\ random' = random /\ next' = next /\ announced' = announced /\ torn' = torn
  BY DEF SkipUnconfigured
<1>2. public' \in [Address -> Bytes] /\ static' \in [Address -> Bytes]
  <2>1. Blank \in [Address -> Bytes] /\ RandomBytes \subseteq Bytes
    BY MacAssumption DEF MacAssumption, Blank, Erased, Bytes
  <2>2. QED
    BY <2>1 DEF SkipUnconfigured
<1>3. MacTypeOK'
  BY <1>1, <1>2 DEF SkipUnconfigured, MacIInv, MacTypeOK
<1>4. QED
  BY <1>1, <1>3 DEF MacIInv, WritesAhead, InFlash, GoodPublic, AnnouncedKept

(* The power fails: what a cell keeps of the bits to be cleared is not     *)
(* known, but it was erased.                                               *)
LEMMA PowerFailsSound ==
  ASSUME MacIInv, PowerFails
  PROVE  /\ MacIInv'
         /\ \A i \in Cells : flash'[i] # flash[i] => flash[i] = Erased
<1>1. /\ macPc # "off" /\ macPc' = "off" /\ configured' = configured /\ announced' = announced
      /\ torn' = (torn \/ macPc = "write_public") /\ next' = 0
      /\ flash \in [Cells -> Bytes]
  BY DEF PowerFails, RamCleared, MacIInv, MacTypeOK
<1>2. /\ macRead' \in [Cells -> Bytes] /\ random' \in [0 .. 4 -> Bytes]
      /\ public' \in [Address -> Bytes] /\ static' \in [Address -> Bytes]
  <2>1. Erased \in Bytes
    BY DEF Erased, Bytes
  <2>2. macRead' \in [Cells -> Bytes] /\ random' \in [0 .. 4 -> Bytes]
    BY <2>1 DEF PowerFails, RamCleared
  <2>3. public' \in [Address -> Bytes] /\ static' \in [Address -> Bytes]
    BY <2>1 DEF PowerFails, RamCleared, Blank
  <2>4. QED
    BY <2>2, <2>3
<1>3. /\ flash' \in [Cells -> Bytes]
      /\ Writing => /\ next \in Cells /\ flash[next] = Erased
                     /\ \A i \in Cells \ {next} : flash'[i] = flash[i]
      /\ ~Writing => flash' = flash
  <2>1. CASE Writing
    <3>1. next \in Cells /\ flash[next] = Erased
      BY <2>1 DEF Writing, MacIInv, WritesAhead, Cells
    <3>2. PICK kept \in SUBSET (flash[next] \ Target) :
            flash' = [flash EXCEPT ![next] = (flash[next] \cap Target) \cup kept]
      BY <2>1 DEF PowerFails
    <3>3. (flash[next] \cap Target) \cup kept \in Bytes
      BY <1>1, <3>1, <3>2 DEF Bytes
    <3>4. QED
      BY <1>1, <2>1, <3>1, <3>2, <3>3
  <2>2. CASE ~Writing
    BY <1>1, <2>2 DEF PowerFails
  <2>3. QED
    BY <2>1, <2>2
<1>4. MacTypeOK'
  BY <1>1, <1>2, <1>3 DEF MacIInv, MacTypeOK
<1>5. WritesAhead' /\ InFlash'
  BY <1>1 DEF WritesAhead, InFlash
<1>6. macPc # "write_public" => \A i \in Address : flash'[i] = flash[i]
  BY <1>3 DEF Writing, MacIInv, WritesAhead, Cells, Address
<1>7. GoodPublic'
  <2>1. SUFFICES ASSUME configured, ~torn, macPc # "write_public"
                 PROVE  Made(flash') /\ (announced # None => Made(announced.public))
    BY <1>1 DEF GoodPublic, Made
  <2>2. Made(public) /\ (announced # None => Made(announced.public))
    BY <1>1, <2>1 DEF MacIInv, GoodPublic
  <2>3. \A i \in Address : flash'[i] = public[i]
    BY <1>1, <1>6, <2>1 DEF MacIInv, MacTypeOK, InFlash
  <2>4. QED
    BY <2>2, <2>3 DEF Made, Address
<1>8. AnnouncedKept'
  <2>1. SUFFICES ASSUME configured, announced # None PROVE AnnouncedKept'
    BY <1>1 DEF AnnouncedKept
  <2>2. CASE macPc = "write_static"
    BY <1>1, <1>6, <2>1, <2>2 DEF MacIInv, AnnouncedKept
  <2>3. CASE ~Writing
    BY <1>1, <1>3, <2>1, <2>3 DEF MacIInv, AnnouncedKept
  <2>4. QED
    BY <2>1, <2>2, <2>3 DEF Writing, MacIInv, AnnouncedKept
<1>9. QED
  BY <1>3, <1>4, <1>5, <1>7, <1>8 DEF MacIInv

(* What a step of the start does to the cells and to the announcement.     *)
CellsKept == \A i \in Cells : flash'[i] # flash[i] => flash[i] = Erased
AddressesKept ==
  configured /\ announced # None =>
    /\ announced'.public = announced.public
    /\ \/ announced'.static = announced.static
       \/ announced.static[3] = Erased /\ announced.static[4] = Erased

LEMMA MacStep ==
  ASSUME MacIInv, [MacNext]_macVars
  PROVE  MacIInv' /\ CellsKept /\ AddressesKept
<1>1. CASE UNCHANGED macVars
  <2>1. /\ configured' = configured /\ flash' = flash /\ macPc' = macPc /\ macRead' = macRead
        /\ random' = random /\ public' = public /\ static' = static /\ next' = next
        /\ announced' = announced /\ torn' = torn
    BY <1>1 DEF macVars, ramVars
  <2>2. MacTypeOK'
    BY <2>1 DEF MacIInv, MacTypeOK
  <2>3. WritesAhead' /\ InFlash' /\ GoodPublic' /\ AnnouncedKept'
    BY <2>1 DEF MacIInv, WritesAhead, InFlash, GoodPublic, Made, AnnouncedKept
  <2>4. QED
    BY <2>1, <2>2, <2>3 DEF MacIInv, CellsKept, AddressesKept
<1>2. CASE SkipUnconfigured
  BY <1>2, SkipSound DEF SkipUnconfigured, CellsKept, AddressesKept
<1>3. CASE ReadAndChoose
  BY <1>3, ReadAndChooseSound DEF ReadAndChoose, CellsKept, AddressesKept
<1>4. CASE WritePublic
  BY <1>4, WritePublicSound DEF WritePublic, CellsKept, AddressesKept
<1>5. CASE ChooseStatic
  BY <1>5, ChooseStaticSound DEF ChooseStatic, CellsKept, AddressesKept
<1>6. CASE WriteStatic
  BY <1>6, WriteStaticSound DEF WriteStatic, CellsKept, AddressesKept
<1>7. CASE Announce
  BY <1>7, AnnounceSound DEF Announce, CellsKept, AddressesKept
<1>8. CASE PowerFails
  BY <1>8, PowerFailsSound DEF PowerFails, CellsKept, AddressesKept
<1>9. QED
  BY <1>1, <1>2, <1>3, <1>4, <1>5, <1>6, <1>7, <1>8 DEF MacNext

LEMMA MacProperty ==
  ASSUME MacIInv
  PROVE  AddressesWritten
<1>1. CompanyIdPresent
  BY DEF MacIInv, GoodPublic, Made, CompanyIdPresent
<1>2. WrittenBeforeUse
  <2>1. SUFFICES ASSUME configured, macPc \in {"ready", "running"}
                 PROVE  /\ \A i \in Address : flash[i] = public[i]
                        /\ flash[3 + 3] = static[3] /\ flash[4 + 3] = static[4]
    BY DEF WrittenBeforeUse
  <2>2. QED
    BY <2>1 DEF MacIInv, InFlash
<1>3. QED
  BY <1>1, <1>2 DEF AddressesWritten

-----------------------------------------------------------------------------
(* The thread's sleep.                                                     *)
(* Between the two readings the scheduler is locked, so that the uptime is *)
(* read no more than an interrupt's length after the timer.                *)
AtReadings ==
  /\ wakePc \in {"tick", "uptime", "unlock"} => locked
  /\ wakePc = "uptime" => elapsed = readAt + delay /\ delay <= IsrTicks
  /\ wakePc \in {"uptime", "unlock", "compute"} => sysTick = (base + readAt) % Word
  /\ wakePc \in {"unlock", "compute"} =>
       \E late \in 0 .. IsrTicks : ktime = (phase + readAt + late) \div TickMs

WakeIInv == WakeTypeOK /\ AtReadings /\ WakesInWindow

LEMMA WakeInitSound ==
  ASSUME NEW bases \in SUBSET (0 .. Word - 1), NEW spans, NEW phases \in SUBSET (0 .. TickMs - 1),
         spans \subseteq Int, Waking(bases, spans, phases)
  PROVE  WakeIInv
<1>1. /\ TickMs \in Nat \ {0} /\ Word \in Nat \ {0} /\ Preempted \in Nat
      /\ base \in 0 .. Word - 1 /\ phase \in 0 .. TickMs - 1
  BY WakeAssumption DEF WakeAssumption, Waking
<1>2. wakeup \in 0 .. Word - 1
  <2>1. PICK s \in spans : wakeup = (base + s) % Word
    BY DEF Waking
  <2> DEFINE x == base + s
  <2>2. x \in Int /\ wakeup = x % Word
    BY <1>1, <2>1
  <2> HIDE DEF x
  <2>3. QED
    BY <1>1, <2>2, DivMod
<1>3. WakeTypeOK
  <2>1. /\ wakePc = "lock" /\ elapsed = 0 /\ delay = 0 /\ sysTick = 0 /\ ktime = 0 /\ readAt = 0
        /\ locked \in BOOLEAN
    BY Zenon DEF Waking
  <2>2. QED
    BY <1>1, <1>2, <2>1 DEF WakeTypeOK
<1>4. QED
  BY <1>3 DEF Waking, WakeIInv, AtReadings, WakesInWindow

(* The unsigned difference is the distance to the wake-up from the moment  *)
(* the timer was read, if that comes before it.                            *)
LEMMA Distance ==
  ASSUME WakeTypeOK, sysTick = (base + readAt) % Word, readAt <= Span
  PROVE  Unsigned(wakeup - sysTick) = Span - readAt /\ Span - readAt \in 0 .. Word - 1
<1>1. Word \in Nat \ {0} /\ wakeup \in Int /\ base \in Int /\ readAt \in Nat
  BY WakeAssumption DEF WakeAssumption, WakeTypeOK
<1>2. PICK q \in Int : wakeup - base = Word * q + Span /\ Span \in 0 .. Word - 1
  <2> DEFINE x == wakeup - base
  <2>1. x \in Int /\ Span = x % Word
    BY <1>1 DEF Span
  <2> HIDE DEF x
  <2>2. x = Word * (x \div Word) + Span /\ Span \in 0 .. Word - 1 /\ x \div Word \in Int
    BY <1>1, <2>1, DivMod
  <2>3. QED
    BY <2>2 DEF x
<1>3. PICK p \in Int : base + readAt = Word * p + sysTick /\ sysTick \in 0 .. Word - 1
  <2> DEFINE x == base + readAt
  <2>1. x \in Int /\ sysTick = x % Word
    BY <1>1
  <2> HIDE DEF x
  <2>2. x = Word * (x \div Word) + sysTick /\ sysTick \in 0 .. Word - 1 /\ x \div Word \in Int
    BY <1>1, <2>1, DivMod
  <2>3. QED
    BY <2>2 DEF x
<1>4. Span - readAt \in 0 .. Word - 1
  BY <1>1, <1>2
<1>5. wakeup - sysTick = Word * (q + p) + (Span - readAt)
  <2>1. Word * (q + p) = Word * q + Word * p /\ Word * q \in Int /\ Word * p \in Int
    BY <1>1
  <2>2. QED
    BY <1>1, <1>2, <1>3, <2>1
<1>6. (wakeup - sysTick) % Word = Span - readAt
  <2> DEFINE y == Span - readAt
             n == q + p
  <2>1. y \in 0 .. Word - 1 /\ n \in Int /\ wakeup - sysTick = Word * n + y
    BY <1>4, <1>5
  <2> HIDE DEF y, n
  <2>2. (Word * n + y) % Word = y
    BY <1>1, <2>1, ModUnique
  <2>3. QED
    BY <2>1, <2>2 DEF y
<1>7. QED
  BY <1>4, <1>6 DEF Unsigned

(* What is left of the two quotients' remainders stays within the two      *)
(* milliseconds that the code subtracts and two more.                      *)
LEMMA TargetInWindow ==
  ASSUME WakeIInv, ComputeTarget, Span - readAt >= Adjustment * TickMs
  PROVE  ktime' * TickMs - phase \in Span - 4 * TickMs + 1 .. Span
<1>1. /\ TickMs \in Nat \ {0} /\ Word \in Nat \ {0} /\ IsrTicks \in Nat /\ IsrTicks <= 2 * TickMs
      /\ readAt \in Nat /\ phase \in Nat /\ ktime \in Nat /\ WakeTypeOK
      /\ sysTick = (base + readAt) % Word
  BY WakeAssumption DEF WakeAssumption, WakeIInv, WakeTypeOK, AtReadings, ComputeTarget, WakeStep
<1>2. Span \in Int
  BY <1>1, WakeAssumption DEF Span, WakeTypeOK, WakeAssumption
<1> DEFINE left == Span - readAt
           ms == left \div TickMs
<1>3. left >= 2 * TickMs /\ readAt <= Span
  BY <1>1, <1>2 DEF Adjustment
<1>4. Unsigned(wakeup - sysTick) = left /\ left \in 0 .. Word - 1
  BY <1>1, <1>3, Distance
<1>5. left = TickMs * ms + (left % TickMs) /\ left % TickMs \in 0 .. TickMs - 1 /\ ms \in Int
  <2>1. left \in Int
    BY <1>4
  <2> HIDE DEF left
  <2>2. QED
    BY <1>1, <2>1, DivMod
<1>6. PICK late \in 0 .. IsrTicks : ktime = (phase + readAt + late) \div TickMs
  BY DEF WakeIInv, AtReadings, ComputeTarget, WakeStep
<1> DEFINE up == phase + readAt + late
<1>7. up = TickMs * ktime + (up % TickMs) /\ up % TickMs \in 0 .. TickMs - 1
  <2>1. up \in Int /\ ktime = up \div TickMs
    BY <1>1, <1>6
  <2> HIDE DEF up
  <2>2. QED
    BY <1>1, <2>1, DivMod
<1> HIDE DEF left, ms
<1>8. ms - 2 \in 0 .. Word - 1
  <2>1. ms >= 2
    <3>1. SUFFICES ASSUME ms <= 1 PROVE FALSE
      BY <1>5
    <3>2. TickMs * ms <= TickMs
      BY <1>1, <1>5, <3>1
    <3>3. TickMs * ms \in Int /\ left \in Int
      BY <1>1, <1>4, <1>5
    <3>4. QED
      BY <1>1, <1>3, <1>5, <3>2, <3>3
  <2>2. ms <= TickMs * ms
    BY <1>1, <1>5, <2>1
  <2>3. TickMs * ms \in Int /\ left \in Int
    BY <1>1, <1>4, <1>5
  <2>4. QED
    BY <1>1, <1>4, <1>5, <2>1, <2>2, <2>3
<1>9. ktime' = ktime + (ms - 2)
  <2>1. Unsigned(ms - 2) = ms - 2
    BY <1>1, <1>8 DEF Unsigned
  <2>2. ktime' = ktime + Unsigned((left \div TickMs) - Adjustment)
    BY <1>4 DEF ComputeTarget
  <2>3. QED
    BY <2>1, <2>2 DEF ms, Adjustment
<1>10. ktime' * TickMs = TickMs * ktime + TickMs * ms - 2 * TickMs
  <2>1. (ktime + (ms - 2)) * TickMs = TickMs * ktime + TickMs * ms - 2 * TickMs
    BY <1>1, <1>5
  <2>2. QED
    BY <1>9, <2>1
<1>11. TickMs * ktime \in Int /\ TickMs * ms \in Int /\ left \in Int /\ left = Span - readAt
  BY <1>1, <1>2, <1>4, <1>5 DEF left
<1>12. QED
  BY <1>1, <1>2, <1>5, <1>7, <1>10, <1>11

LEMMA WakeStepSound ==
  ASSUME WakeIInv, [WakeNext]_wakeVars
  PROVE  WakeIInv'
<1>1. /\ TickMs \in Nat \ {0} /\ Word \in Nat \ {0} /\ IsrTicks \in Nat
      /\ Preempted \in Nat /\ Preempted > IsrTicks
  BY WakeAssumption DEF WakeAssumption
<1>2. WakeTypeOK
  BY DEF WakeIInv
<1>3. CASE UNCHANGED wakeVars
  <2>1. /\ wakePc' = wakePc /\ elapsed' = elapsed /\ delay' = delay /\ base' = base
        /\ phase' = phase /\ wakeup' = wakeup /\ locked' = locked /\ sysTick' = sysTick
        /\ ktime' = ktime /\ readAt' = readAt
    BY <1>3 DEF wakeVars
  <2>2. WakesInWindow' /\ AtReadings'
    BY <2>1 DEF WakeIInv, WakesInWindow, WakeTarget, Span, AtReadings
  <2>3. QED
    BY <1>2, <2>1, <2>2 DEF WakeIInv, WakeTypeOK
<1>4. CASE HoldUp
  <2>1. WakeTypeOK'
    BY <1>1, <1>2, <1>4 DEF WakeTypeOK, HoldUp
  <2>2. AtReadings'
    BY <1>1, <1>2, <1>4 DEF WakeIInv, WakeTypeOK, AtReadings, HoldUp
  <2>3. WakesInWindow'
    BY <1>4 DEF WakesInWindow, HoldUp
  <2>4. QED
    BY <2>1, <2>2, <2>3 DEF WakeIInv
<1>5. CASE SchedLock
  BY <1>1, <1>2, <1>5 DEF SchedLock, WakeStep, WakeIInv, WakeTypeOK, AtReadings, WakesInWindow
<1>6. CASE ReadTick
  <2>1. StimerTick \in 0 .. Word - 1 /\ sysTick' = (base + readAt') % Word
    BY <1>1, <1>2, <1>6, DivMod DEF ReadTick, StimerTick, WakeTypeOK
  <2>2. QED
    BY <1>1, <1>2, <1>6, <2>1 DEF ReadTick, WakeStep, WakeIInv, WakeTypeOK, AtReadings, WakesInWindow
<1>7. CASE ReadUptime
  <2>1. elapsed = readAt + delay /\ delay \in 0 .. IsrTicks /\ sysTick = (base + readAt) % Word
    BY <1>1, <1>2, <1>7 DEF ReadUptime, WakeStep, WakeIInv, AtReadings, WakeTypeOK
  <2>2. ktime' = (phase + readAt + delay) \div TickMs /\ ktime' \in Nat
    BY <1>1, <1>2, <1>7, <2>1 DEF ReadUptime, Uptime, WakeTypeOK
  <2>3. WakeTypeOK'
    BY <1>1, <1>2, <1>7, <2>2 DEF ReadUptime, WakeStep, WakeTypeOK
  <2>6. WakesInWindow'
    BY <1>7 DEF ReadUptime, WakeStep, WakesInWindow
  <2>4. AtReadings'
    BY <1>7, <2>1, <2>2 DEF ReadUptime, WakeStep, WakeIInv, AtReadings
  <2>5. QED
    BY <2>3, <2>4, <2>6 DEF WakeIInv
<1>8. CASE SchedUnlock
  <2>1. WakeTypeOK'
    <3>1. locked' \in BOOLEAN
      BY <1>8, Zenon DEF SchedUnlock
    <3>2. QED
      BY <1>1, <1>2, <1>8, <3>1 DEF SchedUnlock, WakeStep, WakeTypeOK
  <2>4. WakesInWindow'
    BY <1>8 DEF SchedUnlock, WakeStep, WakesInWindow
  <2>2. AtReadings'
    BY <1>8 DEF SchedUnlock, WakeStep, WakeIInv, AtReadings
  <2>3. QED
    BY <2>1, <2>2, <2>4 DEF WakeIInv
<1>9. CASE ComputeTarget
  <2>1. /\ base' = base /\ wakeup' = wakeup /\ readAt' = readAt /\ phase' = phase
        /\ elapsed' = elapsed /\ locked' = locked /\ sysTick' = sysTick /\ wakePc' = "asleep"
        /\ delay' = 0
    BY <1>9 DEF ComputeTarget, WakeStep
  <2>2. ktime' \in Nat
    <3> DEFINE x == (Unsigned(wakeup - sysTick) \div TickMs) - Adjustment
    <3>1. x \in Int
      BY <1>1, <1>2, DivMod DEF Unsigned, Adjustment, WakeTypeOK
    <3>2. ktime' = ktime + (x % Word)
      BY <1>9 DEF ComputeTarget, Unsigned
    <3> HIDE DEF x
    <3>3. x % Word \in 0 .. Word - 1
      BY <1>1, <3>1, DivMod
    <3>4. QED
      BY <1>1, <1>2, <3>2, <3>3 DEF WakeTypeOK
  <2>3. WakeTypeOK'
    BY <1>1, <1>2, <2>1, <2>2 DEF WakeTypeOK
  <2>4. AtReadings'
    BY <2>1 DEF AtReadings
  <2>5. WakesInWindow'
    <3>1. Span' = Span /\ WakeTarget' = ktime' * TickMs - phase
      BY <2>1 DEF Span, WakeTarget
    <3>2. QED
      BY <1>9, <2>1, <3>1, TargetInWindow DEF WakesInWindow, Adjustment
  <2>6. QED
    BY <2>3, <2>4, <2>5 DEF WakeIInv
<1>10. CASE SleepTime \/ WakeUp
  <2>1. /\ base' = base /\ wakeup' = wakeup /\ readAt' = readAt /\ phase' = phase
        /\ ktime' = ktime /\ wakePc = "asleep" /\ wakePc' \in {"asleep", "woken"}
    BY <1>10 DEF SleepTime, WakeUp, WakeStep
  <2>2. WakeTypeOK'
    BY <1>1, <1>2, <1>10 DEF SleepTime, WakeUp, WakeStep, WakeTypeOK
  <2>3. AtReadings'
    BY <2>1 DEF AtReadings
  <2>4. WakesInWindow'
    <3>1. Span' = Span /\ WakeTarget' = WakeTarget
      BY <2>1 DEF Span, WakeTarget
    <3>2. QED
      BY <2>1, <3>1 DEF WakeIInv, WakesInWindow, Adjustment
  <2>5. QED
    BY <2>2, <2>3, <2>4 DEF WakeIInv
<1>11. QED
  BY <1>3, <1>4, <1>5, <1>6, <1>7, <1>8, <1>9, <1>10 DEF WakeNext

-----------------------------------------------------------------------------
(* The start of the controller.                                            *)
(* The start goes on only over a link layer that has taken every FIFO and  *)
(* found them in order, and each later place adds its handlers.            *)
SetUpInOrder ==
  /\ given \subseteq Needed
  /\ startPc \in {"register", "ready", "running"} =>
       given = Needed /\ checked /\ {"data", "event"} \subseteq handlers
  /\ startPc \in {"ready", "running"} =>
       "hci" \in handlers /\ (conf.pm => {"pm", "wakeup"} \subseteq handlers)

StartOrdered == StartTypeOK /\ SetUpInOrder

LEMMA LeastOfSix ==
  ASSUME NEW L \in SUBSET (1 .. 6), L # {}
  PROVE  \E i \in L : \A j \in L : i <= j
<1>1. \A j \in L : j \in {1, 2, 3, 4, 5, 6}
  OBVIOUS
<1>2. CASE 1 \in L
  BY <1>2
<1>3. CASE 1 \notin L /\ 2 \in L
  BY <1>3
<1>4. CASE 1 \notin L /\ 2 \notin L /\ 3 \in L
  BY <1>4
<1>5. CASE 1 \notin L /\ 2 \notin L /\ 3 \notin L /\ 4 \in L
  BY <1>5
<1>6. CASE 1 \notin L /\ 2 \notin L /\ 3 \notin L /\ 4 \notin L
  <2>1. \A j \in L : j \in {5, 6}
    BY <1>1, <1>6
  <2>2. CASE 5 \in L
    BY <2>1, <2>2
  <2>3. CASE 5 \notin L
    <3>1. 6 \in L
      <4>1. PICK j \in L : TRUE
        OBVIOUS
      <4>2. QED
        BY <2>1, <2>3, <4>1
    <3>2. QED
      BY <2>1, <2>3, <3>1
  <2>4. QED
    BY <2>2, <2>3
<1>7. QED
  BY <1>2, <1>3, <1>4, <1>5, <1>6

(* The next FIFO is one that is needed and was not given yet.              *)
LEMMA NextIsNeeded ==
  ASSUME Needed \ given # {}
  PROVE  NextFifo \in Needed
<1> DEFINE left == {i \in 1 .. 6 : Order[i] \in Needed \ given}
<1>1. left # {}
  <2>1. PICK f \in Needed : f \notin given
    OBVIOUS
  <2>2. \E i \in 1 .. 6 : Order[i] = f
    BY DEF Needed, FifoNames, Order
  <2>3. QED
    BY <2>1, <2>2
<1>2. \E i \in left : \A j \in left : i <= j
  BY <1>1, LeastOfSix
<1>3. (CHOOSE i \in left : \A j \in left : i <= j) \in left
  <2> HIDE DEF left
  <2>1. QED
    BY <1>2
<1>4. QED
  BY <1>3 DEF NextFifo

LEMMA StartInitOrdered ==
  ASSUME NEW confs \in SUBSET Configurations, Starting(confs)
  PROVE  StartOrdered
<1>1. checked \in BOOLEAN
  BY Zenon DEF Starting
<1>2. QED
  BY <1>1 DEF Starting, StartOrdered, StartTypeOK, SetUpInOrder

LEMMA StartStepOrdered ==
  ASSUME StartOrdered, [StartNext]_startVars
  PROVE  StartOrdered'
<1>1. CASE UNCHANGED startVars
  <2>1. /\ conf' = conf /\ startPc' = startPc /\ given' = given /\ checked' = checked
        /\ handlers' = handlers
    BY <1>1 DEF startVars
  <2>2. StartTypeOK'
    BY <2>1 DEF StartOrdered, StartTypeOK
  <2>3. SetUpInOrder'
    BY <2>1 DEF StartOrdered, SetUpInOrder, Needed
  <2>4. QED
    BY <2>2, <2>3 DEF StartOrdered
<1>2. CASE SetUpModules
  BY <1>2 DEF SetUpModules, StartOrdered, StartTypeOK, SetUpInOrder, Needed
<1>3. CASE GiveFifo
  <2>1. given' \subseteq Needed
    <3>1. Needed \ given # {}
      BY <1>3 DEF GiveFifo, StartOrdered, SetUpInOrder
    <3>2. QED
      BY <1>3, <3>1, NextIsNeeded DEF GiveFifo, StartOrdered, SetUpInOrder
  <2>2. Needed' = Needed /\ Needed \subseteq FifoNames /\ startPc' \in {"fifos", "failed"}
    BY <1>3 DEF GiveFifo, Needed
  <2>3. conf' = conf /\ checked' = checked /\ handlers' = handlers
    BY <1>3 DEF GiveFifo
  <2>4. StartTypeOK'
    BY <2>1, <2>2, <2>3 DEF StartOrdered, StartTypeOK
  <2>5. SetUpInOrder'
    BY <2>1, <2>2 DEF SetUpInOrder
  <2>6. QED
    BY <2>4, <2>5 DEF StartOrdered
<1>4. CASE CheckBuffers
  BY <1>4 DEF CheckBuffers, StartOrdered, StartTypeOK, SetUpInOrder, Needed
<1>5. CASE RegisterHandlers
  BY <1>5 DEF RegisterHandlers, StartOrdered, StartTypeOK, SetUpInOrder, Needed
<1>6. CASE StartThread
  BY <1>6 DEF StartThread, StartOrdered, StartTypeOK, SetUpInOrder, Needed
<1>7. QED
  BY <1>1, <1>2, <1>3, <1>4, <1>5, <1>6 DEF StartNext

(* The buffers.                                                            *)
Powers == {1, 2, 4, 8, 16, 32, 64, 128, 256, 512, 1024, 2048, 4096, 8192, 16384, 32768, 65536}

LEMMA PowersOfTwo == {2^i : i \in 0 .. 16} = Powers
<1>1. /\ 2^0 = 1 /\ 2^1 = 2 /\ 2^2 = 4 /\ 2^3 = 8 /\ 2^4 = 16 /\ 2^5 = 32
      /\ 2^6 = 64 /\ 2^7 = 128 /\ 2^8 = 256 /\ 2^9 = 512 /\ 2^10 = 1024
  OBVIOUS
<1>2. /\ 2^11 = 2048 /\ 2^12 = 4096 /\ 2^13 = 8192 /\ 2^14 = 16384
      /\ 2^15 = 32768 /\ 2^16 = 65536
  OBVIOUS
<1>3. 0 .. 16 = {0, 1, 2, 3, 4, 5, 6, 7, 8, 9, 10, 11, 12, 13, 14, 15, 16}
  OBVIOUS
<1>4. QED
  BY <1>1, <1>2, <1>3 DEF Powers

(* The macro finds the least power of two that is no less than the count.  *)
LEMMA NextPowerOf2Least ==
  ASSUME NEW x \in Nat, x <= 65536
  PROVE  /\ NextPowerOf2(x) \in Powers
         /\ x <= NextPowerOf2(x)
         /\ \A r \in Powers : x <= r => NextPowerOf2(x) <= r
<1> DEFINE p == {q \in Powers : q >= x}
<1>1. \E q \in p : \A r \in p : q <= r
  BY DEF Powers
<1>2. NextPowerOf2(x) = CHOOSE q \in p : \A r \in p : q <= r
  BY PowersOfTwo DEF NextPowerOf2
<1>3. NextPowerOf2(x) \in p /\ \A r \in p : NextPowerOf2(x) <= r
  <2> HIDE DEF p
  <2>1. QED
    BY <1>1, <1>2
<1>4. QED
  BY <1>3

(* For the usual counts it is a number the link layer is made for.         *)
LEMMA UsualPower ==
  ASSUME NEW x \in 3 .. 32
  PROVE  NextPowerOf2(x) \in {4, 8, 16, 32}
<1>1. NextPowerOf2(x) \in Powers /\ x <= NextPowerOf2(x) /\ NextPowerOf2(x) <= 32
  BY NextPowerOf2Least DEF Powers
<1>2. QED
  BY <1>1 DEF Powers

(* The roundings of the lengths reach a multiple, without falling short.   *)
LEMMA RoundsUp ==
  ASSUME NEW n \in Nat
  PROVE  /\ Round16(n) >= n /\ Round16(n) % 16 = 0
         /\ Align(n, 4) >= n /\ Align(n, 4) % 4 = 0
BY DEF Round16, Align

(* The counts, lengths and sizes of a configuration.                       *)
LEMMA ConfNumbers ==
  ASSUME conf \in Configurations
  PROVE  /\ conf.cmd \in Nat /\ conf.acl \in Nat /\ conf.rx \in Nat
      /\ conf.cmd <= 65536 /\ conf.acl <= 65536 /\ conf.rx <= 65536
         /\ conf.cmdSize \in Nat /\ conf.aclLen \in Nat /\ conf.rxSize \in Nat
BY StartAssumption DEF StartAssumption, Configurations

(* So every FIFO given is large enough, aligned, and has as many entries   *)
(* as asked for: a fact about the configuration, at every place.           *)
LEMMA BuffersAlwaysFit ==
  ASSUME conf \in Configurations, NEW f \in FifoNames
  PROVE  /\ FifoSize(f) >= EntryNeeds(f)
         /\ FifoSize(f) % (IF f = "hci_acl" THEN 4 ELSE 16) = 0
         /\ FifoNum(f) >= (IF IsAclTx(f) /\ Asked(f) > 33 THEN 33 ELSE Asked(f))
<1>1. /\ conf.cmd \in Nat /\ conf.acl \in Nat /\ conf.rx \in Nat
      /\ conf.cmd <= 65536 /\ conf.acl <= 65536 /\ conf.rx <= 65536
      /\ conf.cmdSize \in Nat /\ conf.aclLen \in Nat /\ conf.rxSize \in Nat
  BY ConfNumbers
<1>2. CASE f = "acl_rx"
  <2>1. Round16(conf.rxSize + 21) >= conf.rxSize + 21 /\ Round16(conf.rxSize + 21) % 16 = 0
    BY <1>1, RoundsUp
  <2>2. NextPowerOf2(conf.rx) >= conf.rx
    BY <1>1, NextPowerOf2Least DEF Powers
  <2>3. QED
    BY <1>1, <1>2, <2>1, <2>2 DEF FifoSize, EntryNeeds, FifoNum, IsAclTx, Asked
<1>3. CASE IsAclTx(f)
  <2>1. Round16(conf.aclLen + 10) >= conf.aclLen + 10 /\ Round16(conf.aclLen + 10) % 16 = 0
    BY <1>1, RoundsUp
  <2>2. AclBufNum(conf.acl) >= IF conf.acl > 33 THEN 33 ELSE conf.acl
    BY <1>1 DEF AclBufNum
  <2>3. f # "acl_rx" /\ f # "hci_acl" /\ f # "hci_rx" /\ f # "hci_tx"
    BY <1>3 DEF IsAclTx
  <2>4. FifoSize(f) = Round16(conf.aclLen + 10) /\ EntryNeeds(f) = conf.aclLen + 4 + 2 + 4
        /\ FifoNum(f) = AclBufNum(conf.acl) /\ Asked(f) = conf.acl
    BY <1>3, <2>3 DEF FifoSize, EntryNeeds, FifoNum, Asked
  <2>5. QED
    BY <1>1, <1>3, <2>1, <2>2, <2>3, <2>4
<1>4. CASE f = "hci_rx"
  <2> DEFINE n == Larger(conf.cmdSize, AclSize)
             c == Larger(conf.cmd, conf.acl)
  <2>1. n \in Nat /\ c \in Nat /\ c <= 65536
    BY <1>1 DEF Larger, AclSize
  <2> HIDE DEF n, c
  <2>2. Round16(n + 6) >= n + 6 /\ Round16(n + 6) % 16 = 0 /\ NextPowerOf2(c) >= c
    BY <2>1, RoundsUp, NextPowerOf2Least DEF Powers
  <2>3. FifoSize(f) = Round16(n + 6) /\ EntryNeeds(f) = 1 + n /\ FifoNum(f) = NextPowerOf2(c)
        /\ Asked(f) = c /\ ~IsAclTx(f)
    BY <1>4 DEF FifoSize, EntryNeeds, FifoNum, IsAclTx, Asked, n, c
  <2>4. Round16(n + 6) \in Int
    BY <2>1 DEF Round16
  <2>5. QED
    BY <1>4, <2>1, <2>2, <2>3, <2>4
<1>5. CASE f = "hci_tx"
  <2>1. Round16(conf.rxSize + 6) >= conf.rxSize + 6 /\ Round16(conf.rxSize + 6) % 16 = 0
    BY <1>1, RoundsUp
  <2>2. NextPowerOf2(conf.rx) >= conf.rx
    BY <1>1, NextPowerOf2Least DEF Powers
  <2>3. ~IsAclTx(f)
    BY <1>5 DEF IsAclTx
  <2>4. FifoSize(f) = Round16(conf.rxSize + 6) /\ EntryNeeds(f) = 2 + 1 + conf.rxSize
        /\ FifoNum(f) = NextPowerOf2(conf.rx) /\ Asked(f) = conf.rx
    BY <1>5, <2>3 DEF FifoSize, EntryNeeds, FifoNum, Asked
  <2>5. Round16(conf.rxSize + 6) \in Int
    BY <1>1 DEF Round16
  <2>6. QED
    BY <1>1, <1>5, <2>1, <2>2, <2>3, <2>4, <2>5
<1>6. CASE f = "hci_acl"
  <2>1. Align(conf.aclLen + 4, 4) >= conf.aclLen + 4 /\ Align(conf.aclLen + 4, 4) % 4 = 0
    BY <1>1, RoundsUp
  <2>2. NextPowerOf2(conf.acl) >= conf.acl
    BY <1>1, NextPowerOf2Least DEF Powers
  <2>3. QED
    BY <1>1, <1>6, <2>1, <2>2 DEF FifoSize, EntryNeeds, FifoNum, IsAclTx, Asked, AclSize
<1>7. QED
  BY <1>2, <1>3, <1>4, <1>5, <1>6 DEF FifoNames, IsAclTx

(* With the usual counts no FIFO is refused,                               *)
LEMMA UsualNumbersLegal ==
  ASSUME {Larger(conf.cmd, conf.acl), conf.acl, conf.rx} \subseteq 3 .. 32, NEW f
  PROVE  LegalNum(f)
<1>1. CASE IsAclTx(f)
  <2>1. FifoNum(f) = AclBufNum(conf.acl)
    BY <1>1 DEF FifoNum, IsAclTx
  <2>2. QED
    BY <1>1, <2>1 DEF LegalNum, AclBufNum
<1>2. CASE ~IsAclTx(f)
  <2>1. FifoNum(f) \in {NextPowerOf2(Larger(conf.cmd, conf.acl)), NextPowerOf2(conf.acl),
                        NextPowerOf2(conf.rx)}
    BY <1>2 DEF FifoNum
  <2>2. FifoNum(f) \in {4, 8, 16, 32}
    BY <2>1, UsualPower
  <2>3. QED
    BY <1>2, <2>2 DEF LegalNum
<1>3. QED
  BY <1>1, <1>2

(* A start that fails over usual counts fails by the link layer's check.   *)
LEMMA UsualCountsStart ==
  ASSUME NEW confs, Starting(confs)
  PROVE  UsualCountsAccepted
BY DEF Starting, UsualCountsAccepted

(* and only the final check can fail.                                      *)
LEMMA UsualCountsKept ==
  ASSUME UsualCountsAccepted, [StartNext]_startVars
  PROVE  UsualCountsAccepted'
<1> DEFINE usual == {Larger(conf.cmd, conf.acl), conf.acl, conf.rx} \subseteq 3 .. 32
<1>1. conf' = conf
  BY DEF StartNext, startVars, SetUpModules, GiveFifo, CheckBuffers, RegisterHandlers, StartThread
<1>2. Needed' = Needed /\ usual' = usual
  BY <1>1 DEF Needed, Larger
<1>3. ASSUME startPc' = "failed", usual
      PROVE  ~checked' /\ given' = Needed
  <2>1. CASE UNCHANGED startVars
    BY <1>3, <2>1 DEF startVars, UsualCountsAccepted
  <2>2. CASE GiveFifo
    <3>1. LegalNum(NextFifo)
      BY <1>3, UsualNumbersLegal
    <3>2. QED
      BY <1>3, <2>2, <3>1 DEF GiveFifo
  <2>3. CASE CheckBuffers
    BY <1>3, <2>3 DEF CheckBuffers
  <2>4. CASE SetUpModules \/ RegisterHandlers \/ StartThread
    BY <1>3, <2>4 DEF SetUpModules, RegisterHandlers, StartThread
  <2>5. QED
    BY <2>1, <2>2, <2>3, <2>4 DEF StartNext
<1>4. UsualCountsAccepted' = ((startPc' = "failed" /\ usual') => ~checked' /\ given' = Needed')
  BY DEF UsualCountsAccepted
<1>5. QED
  BY <1>2, <1>3, <1>4

StartIInv == StartOrdered /\ UsualCountsAccepted

LEMMA StartInitSound ==
  ASSUME NEW confs \in SUBSET Configurations, Starting(confs)
  PROVE  StartIInv
BY StartInitOrdered, UsualCountsStart DEF StartIInv

LEMMA StartStepSound ==
  ASSUME StartIInv, [StartNext]_startVars
  PROVE  StartIInv'
BY StartStepOrdered, UsualCountsKept DEF StartIInv

-----------------------------------------------------------------------------
(* The firmware.                                                           *)
IInv == part \in Parts /\ BootIInv /\ MacIInv /\ WakeIInv /\ StartIInv

LEMMA BootStarts ==
  ASSUME BootInit
  PROVE  BootIInv
<1>1. BootTypeOK
  <2>1. powerOnClr \subseteq {0, 1}
    BY DEF BootInit
  <2>2. budget \in 0 .. Disturbances
    BY BootAssumption DEF BootAssumption, BootInit
  <2>3. QED
    BY <2>1, <2>2 DEF BootInit, BootTypeOK, BootSteps, Causes, Statuses
<1>2. Meaning
  BY DEF BootInit, Meaning, MarksMeaning, AtUpdate, AtSecondMark, AtDecision, AtSleep
<1>3. QED
  BY <1>1, <1>2 DEF BootIInv

LEMMA PartsStart ==
  ASSUME Init
  PROVE  IInv
<1>1. part \in Parts /\ BootIInv
  BY BootStarts DEF Init
<1>2. MacIInv
  BY MacInitSound DEF Init
<1>3. WakeIInv
  <2>1. /\ Spans \subseteq Int /\ Spans # {} /\ Bases \subseteq 0 .. Word - 1
        /\ 0 \in 0 .. Word - 1 /\ 0 \in 0 .. TickMs - 1
    BY WakeAssumption DEF WakeAssumption
  <2>2. CASE part = "wake"
    <3>1. Waking(Bases, Spans, 0 .. TickMs - 1)
      BY <2>2 DEF Init, WakeInit
    <3>2. QED
      BY <2>1, <3>1, WakeInitSound
  <2>3. CASE part # "wake"
    <3> DEFINE s == CHOOSE s \in Spans : TRUE
    <3>1. s \in Int
      BY <2>1
    <3>2. Waking({0}, {s}, {0})
      BY <2>3 DEF Init
    <3> HIDE DEF s
    <3>3. {0} \in SUBSET (0 .. Word - 1) /\ {0} \in SUBSET (0 .. TickMs - 1) /\ {s} \subseteq Int
      BY <2>1, <3>1
    <3>4. QED
      BY <3>2, <3>3, WakeInitSound
  <2>4. QED
    BY <2>2, <2>3
<1>4. StartIInv
  <2>1. Configurations # {}
    <3>1. \A options \in {CmdCounts, AclCounts, RxCounts, CmdSizes, AclLengths, RxSizes} :
            options # {}
      BY StartAssumption DEF StartAssumption
    <3>2. PICK a \in CmdCounts : TRUE
      BY <3>1
    <3>3. PICK b \in AclCounts : TRUE
      BY <3>1
    <3>4. PICK c \in RxCounts : TRUE
      BY <3>1
    <3>5. PICK d \in CmdSizes : TRUE
      BY <3>1
    <3>6. PICK e \in AclLengths : TRUE
      BY <3>1
    <3>7. PICK f \in RxSizes : TRUE
      BY <3>1
    <3>8. [cmd |-> a, acl |-> b, rx |-> c, cmdSize |-> d, aclLen |-> e, rxSize |-> f,
           central |-> TRUE, peripheral |-> TRUE, pm |-> TRUE] \in Configurations
      BY <3>2, <3>3, <3>4, <3>5, <3>6, <3>7 DEF Configurations
    <3>9. QED
      BY <3>8
  <2> DEFINE confs == IF part = "start" THEN Configurations
                      ELSE {CHOOSE c \in Configurations : TRUE}
  <2>2. confs \in SUBSET Configurations
    <3>1. (CHOOSE c \in Configurations : TRUE) \in Configurations
      BY <2>1
    <3>2. QED
      BY <3>1
  <2>3. Starting(confs)
    BY DEF Init
  <2> HIDE DEF confs
  <2>4. QED
    BY <2>2, <2>3, StartInitSound
<1>5. QED
  BY <1>1, <1>2, <1>3, <1>4 DEF IInv

(* A step is a step of one part and stutters for the others.               *)
LEMMA OnePartSteps ==
  ASSUME [Next]_bleVars
  PROVE  /\ part' = part
         /\ [BootNext]_bootVars /\ [MacNext]_macVars
         /\ [WakeNext]_wakeVars /\ [StartNext]_startVars
BY DEF Next, bleVars

LEMMA PartsStep ==
  ASSUME IInv, [Next]_bleVars
  PROVE  IInv'
<1>1. /\ part' = part /\ [BootNext]_bootVars /\ [MacNext]_macVars
      /\ [WakeNext]_wakeVars /\ [StartNext]_startVars
  BY OnePartSteps
<1>2. part' \in Parts
  BY <1>1 DEF IInv, Parts
<1>3. BootIInv' /\ MacIInv'
  BY <1>1, BootStep, MacStep DEF IInv
<1>4. WakeIInv' /\ StartIInv'
  BY <1>1, WakeStepSound, StartStepSound DEF IInv
<1>5. QED
  BY <1>2, <1>3, <1>4 DEF IInv

(* Every state the firmware reaches satisfies the four invariants.         *)
THEOREM FirmwareInvariant == Spec => []IInv
<1>1. Init => IInv
  BY PartsStart
<1>2. IInv /\ [Next]_bleVars => IInv'
  BY PartsStep
<1>3. QED
  BY <1>1, <1>2, PTL DEF Spec

(* Every variable of the four parts keeps its type, for every width,       *)
(* byte and buffer count.                                                  *)
THEOREM FirmwareTyped == Spec => []TypeOK
<1>1. IInv => TypeOK
  BY DEF IInv, BootIInv, MacIInv, WakeIInv, StartIInv, StartOrdered, TypeOK
<1>2. QED
  BY <1>1, FirmwareInvariant, PTL

(* pm_update_status_info and sys_init: the status that the application     *)
(* reads is what happened, and its system timer was recovered exactly when *)
(* its RAM was retained, after any number of resets, power failures,       *)
(* sleeps and wake-ups, unless it has itself stored data in the registers. *)
THEOREM StatusAlwaysTruthful == Spec => []BootTruthful
<1>1. BootIInv => BootTruthful
  <2> SUFFICES ASSUME BootIInv, bootPc = "app", ~stored PROVE
                 status \in Reported /\ (timer = "recovered" <=> cause = "retention")
    BY DEF BootTruthful, StatusTruthful, TimerFollowsRam
  <2>1. status \in Reported /\ (timer = "recovered" <=> status = "DEEPRET_BACK") /\ cause \in Causes
    BY DEF BootIInv, BootTypeOK, Meaning, AtDecision, AtSleep
  <2>2. status = "DEEPRET_BACK" <=> cause = "retention"
    BY <2>1 DEF Reported, Causes
  <2>3. QED
    BY <2>1, <2>2
<1>2. IInv => BootTruthful
  BY <1>1 DEF IInv
<1>3. QED
  BY <1>2, FirmwareInvariant, PTL

(* b91_bt_blc_mac_init: before the controller starts its addresses are in  *)
(* flash, and a public address it made carries the company id, whatever    *)
(* the bytes and however often the power failed.                           *)
THEOREM AddressesAlwaysWritten == Spec => []AddressesWritten
<1>1. IInv => AddressesWritten
  BY MacProperty DEF IInv
<1>2. QED
  BY <1>1, FirmwareInvariant, PTL

(* b91_bt_blc_mac_init programs erased cells only.                         *)
THEOREM OnlyErasedProgrammed == Spec => ProgramsErasedCells
<1>1. IInv /\ [Next]_bleVars => [CellsKept]_macVars
  BY OnePartSteps, MacStep DEF IInv
<1>2. QED
  BY <1>1, FirmwareInvariant, PTL DEF Spec, ProgramsErasedCells, CellsKept

(* The addresses that the controller starts with stay the same from one    *)
(* boot to the next, but for a random pair that reads as erased.           *)
THEOREM AddressesNeverChange == Spec => AddressesStable
<1>1. IInv /\ [Next]_bleVars => [AddressesKept]_macVars
  BY OnePartSteps, MacStep DEF IInv
<1>2. QED
  BY <1>1, FirmwareInvariant, PTL DEF Spec, AddressesStable, AddressesKept

(* b91_bt_blc_mac_init at any boot, after any power failure: it programs   *)
(* only what is erased, and comes to the addresses announced before.       *)
THEOREM AddressesAlwaysSafe == Spec => AddressesSafe
BY OnlyErasedProgrammed, AddressesNeverChange DEF AddressesSafe

(* b91_bt_zephyr_wakeup: a wake-up two milliseconds ahead is not missed,   *)
(* and the thread is up less than four early, for every width and rate of  *)
(* the timer, every phase of the two clocks and every overflow, as long as *)
(* interrupts hold it up no longer than two milliseconds.                  *)
THEOREM WakesAlwaysInWindow == Spec => []WakesInWindow
<1>1. IInv => WakesInWindow
  BY DEF IInv, WakeIInv
<1>2. QED
  BY <1>1, FirmwareInvariant, PTL

(* b91_bt_controller_init: the thread runs only over a link layer that has *)
(* every FIFO and every handler and has found its buffers in order.        *)
THEOREM AlwaysRunsConfigured == Spec => []RunsConfigured
<1>1. IInv => RunsConfigured
  BY DEF IInv, StartIInv, StartOrdered, SetUpInOrder, RunsConfigured
<1>2. QED
  BY <1>1, FirmwareInvariant, PTL

(* b91_bt_buffer.h and b91_bt_controller_init: whatever the configuration, *)
(* an entry of every FIFO holds the longest packet with what is put around *)
(* it, aligned, and there are as many as were asked for; the thread runs   *)
(* only over a link layer in order; with three to 32 buffers of each kind  *)
(* only the link layer's own check can keep it from running.               *)
THEOREM ControllerAlwaysStartsConfigured == Spec => []StartsConfigured
<1>1. StartIInv => BuffersFit
  BY BuffersAlwaysFit DEF StartIInv, StartOrdered, StartTypeOK, BuffersFit
<1>2. IInv => StartsConfigured
  BY <1>1 DEF IInv, StartIInv, StartOrdered, SetUpInOrder, RunsConfigured, StartsConfigured
<1>3. QED
  BY <1>2, FirmwareInvariant, PTL
=============================================================================
