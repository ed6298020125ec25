------------------------------- MODULE Radio -------------------------------
(***************************************************************************)
(* The radio driver (rf.c, rf.h, ext_rf.h): the tables of register values  *)
(* of its modes and PHYs, channel, power, settle times, pipes, and the     *)
(* manual and automatic ways to run it.  A table writes the registers its  *)
(* mode cares about and says nothing of the others: what a switch leaves   *)
(* of the mode before is what can go wrong.                                *)
(*                                                                         *)
(* A register of a table is named by its address (rc4d is 0x140c4d); the   *)
(* other fields have names.  -1 is a value of before the first write.      *)
(***************************************************************************)
EXTENDS Integers, Sequences, FiniteSets, TLC

CONSTANTS
  RfChannels,    \* channels passed to rf_set_ble_chn
  RfOffsets,     \* channels passed to rf_set_chn, in MHz above 2400
  RfLevels,      \* power levels passed to rf_set_power_level
  RfIndexes,     \* indexes passed to rf_set_power_level_index
  RfPipes,       \* pipe masks
  RfSettles      \* settle times, in microseconds

-----------------------------------------------------------------------------
(* The tables.  RF_RX_SHORT_MODE_EN is 1; a wide write is its bytes.       *)

rf_mode_init ==
  [red2 |-> \h9b, red3 |-> \h19, rc7b |-> \h0e, re4a |-> \h0e, re4b |-> \h09,
   re4e |-> \h09, re4f |-> \h0f, re54 |-> \h0e, re55 |-> \h09, re56 |-> \h0c,
   re57 |-> \h08, re58 |-> \h09, re59 |-> \h0f, rc76 |-> \h50, rc77 |-> \h73,
   r83a |-> \h86, r83b |-> \h65]

(* The part that is the same for both modes.                               *)
RfModeCommon ==
  [r803 |-> \h44, r805 |-> \h04, r809 |-> \h00, r80a |-> \h00, r80b |-> \h00,
   r822 |-> \h00, rc20 |-> \h84, rc2a |-> \h10, rc36 |-> \hb7, rc37 |-> \h0e,
   rc38 |-> \hc4, rc39 |-> \h71, rc3f |-> \h00, rc4c |-> \h4c, rc73 |-> \h01,
   rc9a |-> \h00, rcc5 |-> \h62, rcc6 |-> \h6e, rcc7 |-> \h79, re3f |-> \h00]

rf_set_zigbee_250K_mode ==
  [r800 |-> \h13, r801 |-> \h00, r802 |-> \h42, r804 |-> \he0, r808 |-> \ha7,
   r810 |-> \hd1, r811 |-> \h00, r812 |-> \h00, r813 |-> \h00, r818 |-> \h95,
   r819 |-> \h0c, r821 |-> \h23, rc21 |-> \h01, rc22 |-> \h01, rc23 |-> \h80,
   rc26 |-> \h02, rc2c |-> \h39, rc3d |-> \h01, rc4d |-> \h0f, rc4e |-> \h18,
   rc79 |-> \h30, rcc2 |-> \h36, rcc3 |-> \h48, rcc4 |-> \h54, re20 |-> \h06,
   re21 |-> \h2a, re22 |-> \h43, re23 |-> \h26, re3d |-> \h41] @@ RfModeCommon

rf_set_ble_1M_mode ==
  [r800 |-> \h1f, r801 |-> \h08, r802 |-> \h46, r804 |-> \hf5, r808 |-> \h00,
   r821 |-> \ha1, r830 |-> \h36, ra06 |-> \h00, ra0c |-> \h50, ra0e |-> \h00,
   ra10 |-> \h00, rc21 |-> \h00, rc22 |-> \h00, rc23 |-> \h00, rc26 |-> \h00,
   rc2c |-> \h38, rc3d |-> \h00, rc4d |-> \h01, rc4e |-> \h1e, rc79 |-> \h38,
   rcc2 |-> \h39, rcc3 |-> \h4b, rcc4 |-> \h56, re20 |-> \h16, re21 |-> \h0a,
   re22 |-> \h20, re23 |-> \h23, re3d |-> \h61] @@ RfModeCommon

(* The PHYs of the BLE mode, over that table.                              *)
RfPhyCommon == [r800 |-> \h1f, r801 |-> \h08, r803 |-> \h44, rc4d |-> \h01]
RfPhyUncoded ==
  [r802 |-> \h46, r805 |-> \h04, rc20 |-> \hc4, rc36 |-> \hb7, rc37 |-> \h0e,
   rc38 |-> \hc4, rc39 |-> \h71, rc4e |-> \h1e, rc73 |-> \h01] @@ RfPhyCommon

\* Leaves rc73 as the coded PHY set it.
rf_ble_set_1m_phyFault ==
  [r804 |-> \hf5, rc22 |-> \h00, rc79 |-> \h38, rcc2 |-> \h39, rcc3 |-> \h4b,
   rcc4 |-> \h56, rcc5 |-> \h62, rcc6 |-> \h6e, rcc7 |-> \h79, re20 |-> \h16,
   re21 |-> \h0a, re22 |-> \h20, re23 |-> \h23, re3d |-> \h61]
    @@ [r \in DOMAIN RfPhyUncoded \ {"rc73"} |-> RfPhyUncoded[r]]

rf_ble_set_1m_phy ==
  [r804 |-> \hf5, rc22 |-> \h00, rc79 |-> \h38, rcc2 |-> \h39, rcc3 |-> \h4b,
   rcc4 |-> \h56, rcc5 |-> \h62, rcc6 |-> \h6e, rcc7 |-> \h79, re20 |-> \h16,
   re21 |-> \h0a, re22 |-> \h20, re23 |-> \h23, re3d |-> \h61] @@ RfPhyUncoded

rf_ble_set_2m_phy ==
  [r804 |-> \he5, rc22 |-> \h01, rc79 |-> \h30, rcc2 |-> \h3b, rcc3 |-> \h4c,
   rcc4 |-> \h58, rcc5 |-> \h64, rcc6 |-> \h70, rcc7 |-> \h7a, re20 |-> \h06,
   re21 |-> \h2a, re22 |-> \h43, re23 |-> \h26, re3d |-> \h41] @@ RfPhyUncoded

rf_ble_set_coded_phy_common ==
  [r802 |-> \h4a, rc20 |-> \hc5, rc22 |-> \h00, rc38 |-> \hc8, rc39 |-> \h7d,
   rc4e |-> \hf0, rc73 |-> \h21, rc79 |-> \h30, rcc2 |-> \h36, rcc3 |-> \h48,
   rcc4 |-> \h54, rcc5 |-> \h62, rcc6 |-> \h6e, rcc7 |-> \h79, re20 |-> \h16,
   re21 |-> \h0a, re22 |-> \h20, re23 |-> \h23, re3d |-> \h61] @@ RfPhyCommon

rf_ble_set_coded_phy_s2 == [r804 |-> \hf5, r805 |-> \ha4, rc36 |-> \hee, rc37 |-> \h0c]
rf_ble_set_coded_phy_s8 == [r804 |-> \hf5, r805 |-> \hb4, rc36 |-> \hf6, rc37 |-> \h0c]

(* What a switch writes, and what the whole table is after it.             *)
RfWrites(m) ==
  CASE m = "zigbee" -> rf_set_zigbee_250K_mode [] m = "ble" -> rf_set_ble_1M_mode
    [] m = "1m" -> rf_ble_set_1m_phy [] m = "2m" -> rf_ble_set_2m_phy
    [] m = "s2" -> rf_ble_set_coded_phy_s2 @@ rf_ble_set_coded_phy_common
    [] m = "s8" -> rf_ble_set_coded_phy_s8 @@ rf_ble_set_coded_phy_common
RfPhys == {"1m", "2m", "s2", "s8"}

-----------------------------------------------------------------------------
(* Channels and power.                                                     *)

Int8(n) == ((n + 128) % 256) - 128

rf_set_ble_chn(chn_num) ==
  Int8(2 * (CASE chn_num < 11 -> chn_num + 2
              [] chn_num \in 11..36 -> chn_num + 3
              [] chn_num = 37 -> 1 [] chn_num = 38 -> 13 [] chn_num = 39 -> 40
              [] chn_num \in 40..50 -> chn_num
              [] chn_num \in 51..61 -> chn_num - 61
              [] chn_num > 61 -> chn_num))

(* The frequency in half MHz, split over two registers, and the trim of    *)
(* the front end; the offset of the single carrier is 0.                   *)
rf_set_chn(chn) ==
  LET freq == 2400 + chn
      above == <<2380, 2405, 2435, 2465, 2495, 2520, 2550>>
  IN [freq_en |-> 1, freq_low |-> (2 * freq) % 128, freq_high |-> ((2 * freq) \div 128) % 64,
      ctrim |-> Len(SelectSeq(above, LAMBDA f : freq < f))]

RfLevel(v) == v            \* amplifier supplied by VBAT
RfVant(v) == 128 + v       \* by VANT
rf_power_level_e ==        \* from 9.1 dBm down to -23.5 dBm
  <<RfLevel(63), RfLevel(45), RfLevel(35), RfLevel(27), RfLevel(23), RfLevel(18), RfVant(63),
    RfVant(50), RfVant(41), RfVant(36), RfVant(32), RfVant(26), RfVant(22), RfVant(20),
    RfVant(18), RfVant(16), RfVant(14), RfVant(12), RfVant(10), RfVant(8), RfVant(6),
    RfVant(4), RfVant(2), RfVant(1)>>
rf_power_Level_list == rf_power_level_e \o [i \in 1..6 |-> 0]
rf_power_level_index_e == 0 .. Len(rf_power_level_e) - 1

ASSUME RadioAssumption == RfIndexes \subseteq rf_power_level_index_e

rf_set_power_level(level) ==
  [vant_tx |-> level \div 128, txrx_0 |-> level % 2, txrx_1 |-> (level % 64) \div 2]
rf_set_power_level_index(idx) ==
  rf_set_power_level(IF idx < 30 THEN rf_power_Level_list[idx + 1] ELSE 0)

(* The settle times: twelve bits or'ed into a register of eight, whose own *)
(* bits the mask 0xf000 clears.                                            *)
rf_set_tx_settle_time(us) == [ra04 |-> (us % 4096) % 256]
rf_set_rx_settle_time(us) == [ra0c |-> (us % 4096) % 256]

rf_rx_acc_code_pipe_en(old, pipe) == [rc4d |-> 64 * (old \div 64) + pipe]
rf_tx_acc_code_pipe_en(pipe) == [tx_chn |-> pipe % 8]

-----------------------------------------------------------------------------
(* Running.  ll_ctrl0 0x45 stops the state machine and both manual enables.*)

rf_set_rxmode(cfg) ==
  [tx_en_man |-> 0, rx_en_man |-> 1, rx_enable |-> 1, rc20 |-> cfg + (IF (cfg \div 8) % 2 = 1 THEN 0 ELSE 8)]
rf_set_txmode == [tx_en_man |-> 1, rx_en_man |-> 0, rx_enable |-> 0]
rf_set_tx_rx_off == [schedule |-> 0, rx_enable |-> 0, tx_en_man |-> 0, rx_en_man |-> 0]
rf_set_tx_rx_off_auto_mode == [cmd |-> 0]

rf_start(command) == [schedule |-> 1, cmd |-> command]
rf_start_btx == rf_start(1)
rf_start_brx == rf_start(2)
rf_start_stx == rf_start(5)
rf_start_stx2rx == rf_start(7)

-----------------------------------------------------------------------------
VARIABLES
  rfReg,     \* the registers
  rfSet,     \* what was asked last
  rfKinds    \* kinds of calls the application makes

radioVars == <<rfReg, rfSet, rfKinds>>

RfTable == DOMAIN rf_set_zigbee_250K_mode \cup DOMAIN rf_set_ble_1M_mode
RfFields == {"freq_en", "freq_low", "freq_high", "ctrim", "vant_tx", "txrx_0", "txrx_1", "ra04",
             "tx_chn", "tx_en_man", "rx_en_man", "rx_enable", "schedule", "cmd"}

(* No register takes part in calls of more than two kinds, so that pairs   *)
(* of kinds, next to the switches, show what any of them does.             *)
RfKinds == {"channel", "power", "settle", "pipe", "run"}

RadioInit ==
  /\ rfReg = [r \in RfTable \cup RfFields \cup DOMAIN rf_mode_init |-> -1]
  /\ rfSet = [mode |-> "none", chn |-> <<>>, level |-> -1, settle |-> <<-1, -1>>,
              pipe |-> -1, run |-> "off", cont |-> FALSE]
  /\ rfKinds \in {{a, b} : a, b \in RfKinds}

RfPut(t) == rfReg' = t @@ rfReg /\ UNCHANGED rfKinds

(* A mode, once the radio is stopped: the table has its own receive pipes  *)
(* and, for BLE, its own receive settle time.                              *)
RfSwitch ==
  \E m \in {"zigbee", "ble"} \cup (IF rfSet.mode \in {"none", "zigbee"} THEN {} ELSE RfPhys) :
    /\ rfSet.run = "off"
    /\ RfPut(RfWrites(m) @@ (IF rfSet.mode = "none" THEN rf_mode_init ELSE <<>>))
    /\ rfSet' = [rfSet EXCEPT !.mode = m, !.pipe = -1, !.cont = FALSE,
                              !.settle[2] = IF m = "ble" THEN \h50 ELSE @]

RfChannel ==
  /\ "channel" \in rfKinds
  /\ \/ \E c \in RfChannels :
          RfPut(rf_set_chn(rf_set_ble_chn(c))) /\ rfSet' = [rfSet EXCEPT !.chn = <<"ble", c>>]
     \/ \E c \in RfOffsets :
          RfPut(rf_set_chn(c)) /\ rfSet' = [rfSet EXCEPT !.chn = <<"mhz", c>>]

RfPower ==
  /\ "power" \in rfKinds
  /\ \/ \E l \in RfLevels : RfPut(rf_set_power_level(l)) /\ rfSet' = [rfSet EXCEPT !.level = l]
     \/ \E i \in RfIndexes :
          /\ RfPut(rf_set_power_level_index(i))
          /\ rfSet' = [rfSet EXCEPT !.level = rf_power_Level_list[i + 1]]

RfSettle ==
  /\ "settle" \in rfKinds
  /\ \E us \in RfSettles :
       \/ RfPut(rf_set_tx_settle_time(us)) /\ rfSet' = [rfSet EXCEPT !.settle[1] = us]
       \/ RfPut(rf_set_rx_settle_time(us)) /\ rfSet' = [rfSet EXCEPT !.settle[2] = us]

RfPipe ==
  /\ "pipe" \in rfKinds /\ rfSet.mode # "none"
  /\ \E p \in RfPipes :
       \/ RfPut(rf_rx_acc_code_pipe_en(rfReg["rc4d"], p)) /\ rfSet' = [rfSet EXCEPT !.pipe = p]
       \/ RfPut(rf_tx_acc_code_pipe_en(p)) /\ UNCHANGED rfSet

(* Manual runs follow each other as they like; a command follows a stop.   *)
(* The modem stays in the continuous mode of a manual receive until the    *)
(* next switch, whatever runs in between.                                  *)
RfManual ==
  /\ "run" \in rfKinds /\ rfSet.mode # "none" /\ rfSet.run # "auto"
  /\ \/ /\ RfPut(rf_set_rxmode(rfReg["rc20"]))
        /\ rfSet' = [rfSet EXCEPT !.run = "rx", !.cont = TRUE]
     \/ RfPut(rf_set_txmode) /\ rfSet' = [rfSet EXCEPT !.run = "tx"]
     \/ RfPut(rf_set_tx_rx_off) /\ rfSet' = [rfSet EXCEPT !.run = "off"]

RfCommand ==
  /\ "run" \in rfKinds /\ rfSet.mode # "none" /\ rfSet.run \in {"off", "auto"}
  /\ \/ /\ \E t \in {rf_start_btx, rf_start_brx, rf_start_stx, rf_start_stx2rx} : RfPut(t)
        /\ rfSet' = [rfSet EXCEPT !.run = "auto"]
     \/ RfPut(rf_set_tx_rx_off_auto_mode) /\ rfSet' = [rfSet EXCEPT !.run = "off"]

RadioNext ==
  RfSwitch \/ RfChannel \/ RfPower \/ RfSettle \/ RfPipe \/ RfManual \/ RfCommand

-----------------------------------------------------------------------------
(* After any sequence of switches the registers are those of the last one: *)
(* none keeps the value of another mode or PHY, or of another call, except *)
(* the pipes, the settle time and the continuous mode set since.  The      *)
(* other table's access codes and BLE timings are not used.                *)
RfWhole(m) == IF m \in RfPhys THEN RfWrites(m) @@ rf_set_ble_1M_mode ELSE RfWrites(m)

RfSince ==
  [rc4d |-> rfSet.pipe, ra0c |-> rfSet.settle[2],
   rc20 |-> IF rfSet.cont THEN RfWhole(rfSet.mode).rc20 + 8 ELSE -1]

RadioFollowsMode ==
  rfSet.mode # "none" =>
    LET whole == RfWhole(rfSet.mode) IN
      /\ RfTable \ DOMAIN whole \subseteq
           {"r810", "r811", "r812", "r813", "r818", "r819", "r830", "ra06", "ra0c", "ra0e", "ra10"}
      /\ \A r \in DOMAIN whole :
           rfReg[r] = (IF r \in DOMAIN RfSince /\ RfSince[r] # -1 THEN RfSince[r] ELSE whole[r])

(* Frequency, power, settle times and run are those asked last, decoded    *)
(* from the fields they are spread over, whatever was called in between:   *)
(* a BLE channel has the standard's frequency, and the manual enables and  *)
(* the commands exclude each other.                                        *)
RfMhz(chn) ==
  IF chn[1] = "mhz" THEN 2400 + chn[2]
  ELSE CASE chn[2] = 37 -> 2402 [] chn[2] = 38 -> 2426 [] chn[2] = 39 -> 2480
         [] chn[2] \in 0..10 -> 2404 + 2 * chn[2]
         [] chn[2] \in 11..36 -> 2428 + 2 * (chn[2] - 11)

RadioAsSet ==
  /\ rfSet.chn # <<>> =>
       /\ rfReg["freq_en"] = 1
       /\ 128 * rfReg["freq_high"] + rfReg["freq_low"] = 2 * RfMhz(rfSet.chn)
       /\ rfReg["ctrim"] = Cardinality({f \in {2380, 2405, 2435, 2465, 2495, 2520, 2550} : f > RfMhz(rfSet.chn)})
  /\ rfSet.level # -1 =>
       128 * rfReg["vant_tx"] + 2 * rfReg["txrx_1"] + rfReg["txrx_0"] = rfSet.level
  /\ rfSet.settle = <<rfReg["ra04"], rfReg["ra0c"]>>
  /\ (rfSet.run = "rx") <=> (rfReg["rx_en_man"] = 1)
  /\ (rfSet.run = "tx") <=> (rfReg["tx_en_man"] = 1)
  /\ rfReg["rx_enable"] = 1 <=> rfSet.run = "rx"
  /\ rfSet.run = "auto" => rfReg["schedule"] = 1

(* The radio is in the mode chosen last, whole, and as its settings ask.   *)
RadioConfigured == RadioFollowsMode /\ RadioAsSet
=============================================================================
