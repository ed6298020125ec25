------------------------------ MODULE HciBridge ------------------------------
(***************************************************************************)
(* The HCI bridge between Zephyr's host stack and the BLE controller of    *)
(* the B91 (ble/vendor/controller/b91_bt.c).  Two rings with free-running  *)
(* unsigned pointers connect three contexts:                               *)
(*                                                                         *)
(*   - the host thread writes packets into bltHci_rxfifo, after taking a   *)
(*     credit that the callback host_send_available gives it;              *)
(*   - the controller thread runs blc_sdk_main_loop, which calls the rx    *)
(*     handler and then the tx handler, over and over;                     *)
(*   - the link layer, also from its interrupts, puts events into          *)
(*     bltHci_txfifo.                                                      *)
(*                                                                         *)
(* The host's semaphore and the link layer are not in this repository:     *)
(* they are modelled from how the bridge calls them.                       *)
(***************************************************************************)
EXTENDS Integers

CONSTANTS
  Packets,       \* packets the host may send
  Events,        \* packets the link layer may produce
  None,          \* a slot or a register that holds no packet yet
  RxSlots,       \* HCI_RX_FIFO_NUM
  TxSlots,       \* HCI_TX_FIFO_NUM
  PtrMod,        \* wptr and rptr are unsigned integers modulo PtrMod (2^8)
  CreditLimit,   \* the limit of the host's send semaphore
  TxReserve      \* slots the link layer leaves free in bltHci_txfifo

(* Both sizes are powers of two below 2^8, so that "& mask" is the         *)
(* remainder and the pointers wrap at a multiple of the size.  CreditLimit *)
(* + 2 slots for the host are what the proof of NoRxOverrun needs.         *)
ASSUME BridgeAssumption ==
  /\ None \notin Packets \cup Events
  /\ RxSlots \in Nat \ {0}
  /\ TxSlots \in Nat \ {0}
  /\ CreditLimit \in Nat \ {0}
  /\ TxReserve \in Nat
  /\ PtrMod \in Nat
  /\ PtrMod > RxSlots /\ PtrMod % RxSlots = 0
  /\ PtrMod > TxSlots /\ PtrMod % TxSlots = 0

ASSUME CreditsFit == CreditLimit + 2 <= RxSlots
ASSUME ReserveKept == TxReserve >= 1 /\ TxReserve < TxSlots

VARIABLES
  rxSlot, rxW, rxR,    \* bltHci_rxfifo: slots, wptr, rptr
  txSlot, txW, txR,    \* bltHci_txfifo: slots, wptr, rptr
  cb,                  \* the callbacks registered in b91_ctrl
  credit,              \* the host's permission to send (semaphore count)
  hostPc, hostPkt,     \* where the host is in b91_bt_host_send_packet
  ctrlPc, ctrlIdx,     \* where the controller thread is, and its slot p
  lastCmd, lastEvt     \* what was handled, and delivered, last

rxVars == <<rxSlot, rxW, rxR>>
txVars == <<txSlot, txW, txR>>
hostVars == <<credit, hostPc, hostPkt>>
ctrlVars == <<ctrlPc, ctrlIdx>>
vars == <<rxVars, txVars, cb, hostVars, ctrlVars, lastCmd, lastEvt>>

(* Unsigned pointer arithmetic.  (The definitions named ...Fault are        *)
(* mistakes the code might have had; no action uses them.  They are        *)
(* substituted, one at a time, to see that the properties notice.)         *)
IncFault(ptr) == ptr + 1

Inc(ptr) == (ptr + 1) % PtrMod
Occupied(w, r) == (w - r) % PtrMod
RxIndexFault(ptr) == ptr % (RxSlots - 1)

RxIndex(ptr) == ptr % RxSlots
TxIndex(ptr) == ptr % TxSlots

Init ==
  /\ rxSlot = [i \in 0 .. RxSlots - 1 |-> None]
  /\ txSlot = [i \in 0 .. TxSlots - 1 |-> None]
  /\ rxW = 0 /\ rxR = 0
  /\ txW = 0 /\ txR = 0
  /\ cb = {}
  /\ credit \in 0 .. CreditLimit
  /\ hostPc = "idle" /\ hostPkt = None
  /\ ctrlPc = "off" /\ ctrlIdx = 0
  /\ lastCmd = None /\ lastEvt = None

-----------------------------------------------------------------------------
(* Set-up: b91_bt_host_callback_register assigns one pointer after the     *)
(* other, before or after b91_bt_controller_init starts the thread.        *)

RegisterRead ==
  /\ cb = {}
  /\ cb' = {"host_read_packet"}
  /\ UNCHANGED <<rxVars, txVars, hostVars, ctrlVars, lastCmd, lastEvt>>

RegisterSend ==
  /\ cb = {"host_read_packet"}
  /\ cb' = {"host_read_packet", "host_send_available"}
  /\ UNCHANGED <<rxVars, txVars, hostVars, ctrlVars, lastCmd, lastEvt>>

ControllerInit ==
  /\ ctrlPc = "off"
  /\ ctrlPc' = "rx"
  /\ UNCHANGED <<rxVars, txVars, cb, hostVars, ctrlIdx, lastCmd, lastEvt>>

-----------------------------------------------------------------------------
(* The host.  It takes a credit (outside this repository), then            *)
(* b91_bt_host_send_packet copies the packet into the slot of wptr and     *)
(* increments wptr: neither looks at rptr.                                 *)

HostTakeCredit(p) ==
  /\ ctrlPc # "off"
  /\ hostPc = "idle"
  /\ credit > 0
  /\ credit' = credit - 1
  /\ hostPkt' = p
  /\ hostPc' = "copy"
  /\ UNCHANGED <<rxVars, txVars, cb, ctrlVars, lastCmd, lastEvt>>

HostCopy ==
  /\ hostPc = "copy"
  /\ rxSlot' = [rxSlot EXCEPT ![RxIndex(rxW)] = hostPkt]
  /\ hostPc' = "publish"
  /\ UNCHANGED <<rxW, rxR, txVars, cb, credit, hostPkt, ctrlVars, lastCmd, lastEvt>>

HostPublish ==
  /\ hostPc = "publish"
  /\ rxW' = Inc(rxW)
  /\ hostPc' = "idle"
  /\ hostPkt' = None
  /\ UNCHANGED <<rxSlot, rxR, txVars, cb, credit, ctrlVars, lastCmd, lastEvt>>

-----------------------------------------------------------------------------
(* b91_bt_hci_rx_handler.  The callback is called after the test for an    *)
(* empty ring, and the host may run in between.                            *)

RxEmptySilent ==
  /\ ctrlPc = "rx"
  /\ rxW = rxR
  /\ "host_send_available" \notin cb
  /\ ctrlPc' = "tx"
  /\ UNCHANGED <<rxVars, txVars, cb, hostVars, ctrlIdx, lastCmd, lastEvt>>

RxEmptyFault ==             \* asks for packets although the ring holds some
  /\ ctrlPc = "rx"
  /\ "host_send_available" \in cb
  /\ ctrlPc' = "notify"
  /\ UNCHANGED <<rxVars, txVars, cb, hostVars, ctrlIdx, lastCmd, lastEvt>>

RxEmptyQuietFault ==        \* returns before the callback is called
  /\ ctrlPc = "rx"
  /\ rxW = rxR
  /\ "host_send_available" \in cb
  /\ ctrlPc' = "tx"
  /\ UNCHANGED <<rxVars, txVars, cb, hostVars, ctrlIdx, lastCmd, lastEvt>>

RxEmpty ==
  /\ ctrlPc = "rx"
  /\ rxW = rxR
  /\ "host_send_available" \in cb
  /\ ctrlPc' = "notify"
  /\ UNCHANGED <<rxVars, txVars, cb, hostVars, ctrlIdx, lastCmd, lastEvt>>

RxNotify ==
  /\ ctrlPc = "notify"
  /\ credit' = IF credit < CreditLimit THEN credit + 1 ELSE credit
  /\ ctrlPc' = "tx"
  /\ UNCHANGED <<rxVars, txVars, cb, hostPc, hostPkt, ctrlIdx, lastCmd, lastEvt>>

RxTake ==
  /\ ctrlPc = "rx"
  /\ rxW # rxR
  /\ ctrlIdx' = RxIndex(rxR)
  /\ ctrlPc' = "handle"
  /\ UNCHANGED <<rxVars, txVars, cb, hostVars, lastCmd, lastEvt>>

RxHandle ==
  /\ ctrlPc = "handle"
  /\ lastCmd' = rxSlot[ctrlIdx]
  /\ ctrlPc' = "release"
  /\ UNCHANGED <<rxVars, txVars, cb, hostVars, ctrlIdx, lastEvt>>

RxRelease ==
  /\ ctrlPc = "release"
  /\ rxR' = Inc(rxR)
  /\ ctrlPc' = "tx"
  /\ UNCHANGED <<rxSlot, rxW, txVars, cb, hostVars, ctrlIdx, lastCmd, lastEvt>>

-----------------------------------------------------------------------------
(* b91_bt_hci_tx_handler.  rptr is incremented before the host's callback  *)
(* has read the slot; an event is consumed even if nobody listens.         *)

TxEmpty ==
  /\ ctrlPc = "tx"
  /\ txW = txR
  /\ ctrlPc' = "rx"
  /\ UNCHANGED <<rxVars, txVars, cb, hostVars, ctrlIdx, lastCmd, lastEvt>>

TxTakeFault ==              \* computes the slot after incrementing rptr
  /\ ctrlPc = "tx"
  /\ txW # txR
  /\ ctrlIdx' = TxIndex(Inc(txR))
  /\ txR' = Inc(txR)
  /\ ctrlPc' = "deliver"
  /\ UNCHANGED <<rxVars, txSlot, txW, cb, hostVars, lastCmd, lastEvt>>

TxTake ==
  /\ ctrlPc = "tx"
  /\ txW # txR
  /\ ctrlIdx' = TxIndex(txR)
  /\ txR' = Inc(txR)
  /\ ctrlPc' = "deliver"
  /\ UNCHANGED <<rxVars, txSlot, txW, cb, hostVars, lastCmd, lastEvt>>

TxDeliver ==
  /\ ctrlPc = "deliver"
  /\ "host_read_packet" \in cb
  /\ lastEvt' = txSlot[ctrlIdx]
  /\ ctrlPc' = "rx"
  /\ UNCHANGED <<rxVars, txVars, cb, hostVars, ctrlIdx, lastCmd>>

TxDrop ==
  /\ ctrlPc = "deliver"
  /\ "host_read_packet" \notin cb
  /\ ctrlPc' = "rx"
  /\ UNCHANGED <<rxVars, txVars, cb, hostVars, ctrlIdx, lastCmd, lastEvt>>

(* The link layer adds an event while more than TxReserve slots are free.  *)
TxHasRoom == Occupied(txW, txR) < TxSlots - TxReserve

LinkLayerProduce(e) ==
  /\ ctrlPc # "off"
  /\ TxHasRoom
  /\ txSlot' = [txSlot EXCEPT ![TxIndex(txW)] = e]
  /\ txW' = Inc(txW)
  /\ UNCHANGED <<rxVars, txR, cb, hostVars, ctrlVars, lastCmd, lastEvt>>

-----------------------------------------------------------------------------
Setup == RegisterRead \/ RegisterSend \/ ControllerInit
Host == (\E p \in Packets : HostTakeCredit(p)) \/ HostCopy \/ HostPublish
RxHandler == RxEmptySilent \/ RxEmpty \/ RxNotify \/ RxTake \/ RxHandle \/ RxRelease
TxHandler == TxEmpty \/ TxTake \/ TxDeliver \/ TxDrop
Controller == RxHandler \/ TxHandler
LinkLayer == \E e \in Events : LinkLayerProduce(e)

Next == Setup \/ Host \/ Controller \/ LinkLayer

Spec == Init /\ [][Next]_vars

(* The controller thread is scheduled again after every k_msleep, and a    *)
(* host thread inside b91_bt_host_send_packet runs to its end.             *)
Fairness ==
  /\ WF_vars(Setup)
  /\ WF_vars(Controller)
  /\ WF_vars(HostCopy \/ HostPublish)

FairSpec == Spec /\ Fairness

-----------------------------------------------------------------------------
Pointers == 0 .. PtrMod - 1

TypeOK ==
  /\ rxSlot \in [0 .. RxSlots - 1 -> Packets \cup {None}]
  /\ txSlot \in [0 .. TxSlots - 1 -> Events \cup {None}]
  /\ rxW \in Pointers /\ rxR \in Pointers
  /\ txW \in Pointers /\ txR \in Pointers
  /\ cb \in SUBSET {"host_read_packet", "host_send_available"}
  /\ credit \in 0 .. CreditLimit
  /\ hostPc \in {"idle", "copy", "publish"}
  /\ hostPkt \in Packets \cup {None}
  /\ ctrlPc \in {"off", "rx", "notify", "handle", "release", "tx", "deliver"}
  /\ ctrlIdx \in Nat
  /\ lastCmd \in Packets \cup {None}
  /\ lastEvt \in Events \cup {None}

(* b91_bt_host_send_packet never checks for a full ring: the slot it copies *)
(* into must be free all the same, or it overwrites a packet that the      *)
(* controller has not handled (or is handling).                            *)
NoRxOverrun ==
  hostPc \in {"copy", "publish"} => Occupied(rxW, rxR) < RxSlots

(* Why: a permission to send, a packet being copied, a packet in the ring  *)
(* and a callback about to be made are never more than CreditLimit + 2.    *)
(* The 2 are a copy that was in progress when the ring was found empty and *)
(* the permission given on the strength of that stale test.                *)
Copying == IF hostPc = "idle" THEN 0 ELSE 1
Notifying == IF ctrlPc = "notify" THEN 1 ELSE 0

CreditBudget ==
  Occupied(rxW, rxR) + Copying + credit + Notifying <= CreditLimit + 2

(* b91_bt_hci_tx_handler gives a slot back before the host has read it:    *)
(* the link layer's next write must go somewhere else.                     *)
NoTxReuse ==
  ctrlPc = "deliver" /\ TxHasRoom => TxIndex(txW) # ctrlIdx

(* A host that ran out of credits gets a new one, once its callbacks are   *)
(* registered and the controller runs: it is never stuck for good.         *)
CreditReturns == (credit = 0) ~> (credit > 0)

-----------------------------------------------------------------------------
(* The two rings as the channels of HciChannel.  A packet being handled    *)
(* has left the channel although its slot is still occupied; an event      *)
(* being delivered is still in the channel although its slot was returned. *)

Handled == IF ctrlPc = "release" THEN 1 ELSE 0

CmdsInRing ==
  [i \in 1 .. Occupied(rxW, rxR) - Handled |-> rxSlot[RxIndex(rxR + Handled + i - 1)]]

EvtsInRing ==
  [i \in 1 .. Occupied(txW, txR) |-> txSlot[TxIndex(txR + i - 1)]]

EvtsInFlight ==
  IF ctrlPc = "deliver"
  THEN [i \in 1 .. Occupied(txW, txR) + 1 |->
          IF i = 1 THEN txSlot[ctrlIdx] ELSE EvtsInRing[i - 1]]
  ELSE EvtsInRing

Channel == INSTANCE HciChannel WITH
  cmds <- CmdsInRing,
  evts <- EvtsInFlight,
  listening <- "host_read_packet" \in cb,
  MaxCmds <- CreditLimit + 2,
  MaxEvts <- TxSlots - TxReserve + 1

(* The bridge implements the two FIFO channels: nothing is lost, repeated, *)
(* reordered or overwritten on its way through the rings.                  *)
ImplementsChannel == Channel!Spec

(* And what enters a channel leaves it.                                    *)
ImplementsFairChannel == Channel!FairSpec
=============================================================================
