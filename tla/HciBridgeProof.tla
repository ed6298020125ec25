--------------------------- MODULE HciBridgeProof ---------------------------
(***************************************************************************)
(* Proofs about HciBridge, for rings of every size and every number of     *)
(* packets: the types, the credit budget that keeps the unchecked write of *)
(* b91_bt_host_send_packet inside the free part of the ring, the slot that *)
(* b91_bt_hci_tx_handler returns too early, and that the two rings         *)
(* implement the FIFO channels of HciChannel.                              *)
(***************************************************************************)
EXTENDS HciBridge, ModArith, Sequences

(* The inductive invariant.  The safety properties are not inductive by    *)
(* themselves: the budget bounds what the host can still do, the tx ring   *)
(* never holds more than the link layer may put there, and the slot being  *)
(* delivered is the one just below rptr.                                   *)
TxBound == Occupied(txW, txR) <= TxSlots - TxReserve

DeliverSlot == ctrlPc = "deliver" => ctrlIdx = TxIndex(txR + PtrMod - 1)

RxSlotTaken ==
  /\ ctrlPc \in {"handle", "release"} => rxW # rxR
  /\ ctrlPc = "handle" => ctrlIdx \in 0 .. RxSlots - 1

IInv == TypeOK /\ CreditBudget /\ TxBound /\ DeliverSlot /\ RxSlotTaken

-----------------------------------------------------------------------------
(* The sizes, as the lemmas below need them.                               *)
LEMMA Sizes ==
  /\ PtrMod \in Nat \ {0, 1}
  /\ RxSlots \in Nat \ {0} /\ RxSlots < PtrMod
  /\ TxSlots \in Nat \ {0} /\ TxSlots < PtrMod
  /\ \E k \in Nat \ {0} : PtrMod = RxSlots * k
  /\ \E k \in Nat \ {0} : PtrMod = TxSlots * k
<1>1. ASSUME NEW n \in Nat \ {0}, PtrMod \in Nat, PtrMod > n, PtrMod % n = 0
      PROVE  \E k \in Nat \ {0} : PtrMod = n * k
  <2>1. PtrMod = n * (PtrMod \div n) + (PtrMod % n) /\ PtrMod \div n \in Int
    BY <1>1, DivMod
  <2>2. PtrMod = n * (PtrMod \div n)
    BY <1>1, <2>1
  <2>3. PtrMod \div n > 0
    BY <1>1, <2>1, <2>2
  <2>4. QED
    BY <2>1, <2>2, <2>3
<1>2. /\ PtrMod \in Nat \ {0, 1}
      /\ RxSlots \in Nat \ {0} /\ RxSlots < PtrMod
      /\ TxSlots \in Nat \ {0} /\ TxSlots < PtrMod
  BY BridgeAssumption
<1>3. \E k \in Nat \ {0} : PtrMod = RxSlots * k
  BY <1>1, <1>2, BridgeAssumption
<1>4. \E k \in Nat \ {0} : PtrMod = TxSlots * k
  BY <1>1, <1>2, BridgeAssumption
<1>5. QED
  BY <1>2, <1>3, <1>4

(* Pointers stay below PtrMod, and the count between two of them as well.  *)
LEMMA PointerTypes ==
  ASSUME NEW w \in Pointers, NEW r \in Pointers
  PROVE  Inc(w) \in Pointers /\ Occupied(w, r) \in 0 .. PtrMod - 1
BY Sizes DEF Inc, Occupied, Pointers

(* Publishing one packet adds one to the count, even when wptr wraps.      *)
LEMMA OccupiedInc ==
  ASSUME NEW w \in Pointers, NEW r \in Pointers, Occupied(w, r) < PtrMod - 1
  PROVE  Occupied(Inc(w), r) = Occupied(w, r) + 1
BY Sizes DEF Inc, Occupied, Pointers

(* Releasing one packet takes one off, even when rptr wraps.               *)
LEMMA OccupiedDec ==
  ASSUME NEW w \in Pointers, NEW r \in Pointers, w # r
  PROVE  /\ Occupied(w, r) > 0
         /\ Occupied(w, Inc(r)) = Occupied(w, r) - 1
BY Sizes DEF Inc, Occupied, Pointers

(* A ring is empty exactly when its pointers are equal.                    *)
LEMMA OccupiedZero ==
  ASSUME NEW w \in Pointers, NEW r \in Pointers
  PROVE  Occupied(w, r) = 0 <=> w = r
BY Sizes DEF Occupied, Pointers

(* A slot index is in the ring.                                            *)
LEMMA IndexTypes ==
  ASSUME NEW ptr \in Int
  PROVE  RxIndex(ptr) \in 0 .. RxSlots - 1 /\ TxIndex(ptr) \in 0 .. TxSlots - 1
BY Sizes, DivMod DEF RxIndex, TxIndex

(* A whole turn of the pointer selects the same slot again.                *)
LEMMA TxIndexTurn ==
  ASSUME NEW x \in Int
  PROVE  TxIndex(x + PtrMod) = TxIndex(x)
<1>1. PICK k \in Nat \ {0} : PtrMod = TxSlots * k
  BY Sizes
<1>2. PICK q \in Int, t \in 0 .. TxSlots - 1 : x = TxSlots * q + t /\ x % TxSlots = t
  <2>1. /\ x = TxSlots * (x \div TxSlots) + (x % TxSlots)
        /\ x % TxSlots \in 0 .. TxSlots - 1 /\ x \div TxSlots \in Int
    BY Sizes, DivMod
  <2>2. QED
    BY <2>1
<1>3. x + PtrMod = TxSlots * (q + k) + t
  <2>1. TxSlots * (q + k) = TxSlots * q + TxSlots * k
    BY <1>1, <1>2, Sizes
  <2>2. QED
    BY <1>1, <1>2, <2>1, Sizes
<1>4. (x + PtrMod) % TxSlots = t
  <2>1. q + k \in Int
    OBVIOUS
  <2>2. QED
    BY <1>3, <2>1, Sizes, ModUnique
<1>5. QED
  BY <1>2, <1>4 DEF TxIndex

(* After rptr++, the slot just below rptr is the one that was taken.       *)
LEMMA PreviousIndex ==
  ASSUME NEW r \in Pointers
  PROVE  TxIndex(Inc(r) + PtrMod - 1) = TxIndex(r)
<1>1. CASE r = PtrMod - 1
  <2>1. Inc(r) + PtrMod - 1 = r
    BY <1>1, Sizes DEF Inc, Pointers
  <2>2. QED
    BY <2>1
<1>2. CASE r # PtrMod - 1
  <2>1. Inc(r) + PtrMod - 1 = r + PtrMod
    BY <1>2, Sizes DEF Inc, Pointers
  <2>2. QED
    BY <2>1, TxIndexTurn DEF Pointers
<1>3. QED
  BY <1>1, <1>2

(* While the host copies, the budget leaves the slot it copies into free.  *)
LEMMA RoomToCopy ==
  ASSUME TypeOK, CreditBudget, hostPc # "idle"
  PROVE  Occupied(rxW, rxR) < RxSlots
<1>1. Copying = 1 /\ Notifying \in Nat
  BY DEF Copying, Notifying
<1>2. credit \in Nat /\ CreditLimit \in Nat
  BY BridgeAssumption DEF TypeOK
<1>3. Occupied(rxW, rxR) \in Nat
  <2>1. rxW \in Pointers /\ rxR \in Pointers
    BY DEF TypeOK
  <2>2. QED
    BY <2>1, PointerTypes, Sizes
<1>4. Occupied(rxW, rxR) + Copying + credit + Notifying <= CreditLimit + 2
  BY DEF CreditBudget
<1>5. QED
  BY <1>1, <1>2, <1>3, <1>4, CreditsFit, Sizes

-----------------------------------------------------------------------------
(* The invariant holds initially and every step preserves it, an action at *)
(* a time.  Only the actions that move a pointer, a credit or a program    *)
(* counter between the counted states can disturb CreditBudget; only those *)
(* of the tx ring can disturb the rest.                                    *)
LEMMA InitIInv == Init => IInv
<1> SUFFICES ASSUME Init PROVE IInv
  OBVIOUS
<1>1. 0 \in Pointers /\ Occupied(0, 0) = 0
  BY Sizes DEF Pointers, Occupied
<1>2. TypeOK
  BY <1>1, BridgeAssumption DEF Init, TypeOK
<1>3. CreditBudget
  BY <1>1, BridgeAssumption DEF Init, CreditBudget, Copying, Notifying
<1>4. TxBound /\ DeliverSlot /\ RxSlotTaken
  BY <1>1, BridgeAssumption, ReserveKept DEF Init, TxBound, DeliverSlot, RxSlotTaken
<1>5. QED
  BY <1>2, <1>3, <1>4 DEF IInv

(* One step of the proof per action, one below it per conjunct it moves.   *)
LEMMA NextIInv == IInv /\ [Next]_vars => IInv'
<1> SUFFICES ASSUME IInv, [Next]_vars PROVE IInv'
  OBVIOUS
<1> USE DEF IInv
<1>a. TypeOK /\ CreditBudget /\ TxBound /\ DeliverSlot /\ RxSlotTaken
  OBVIOUS
<1>b. /\ rxW \in Pointers /\ rxR \in Pointers /\ txW \in Pointers /\ txR \in Pointers
      /\ Occupied(rxW, rxR) \in Nat /\ Occupied(txW, txR) \in Nat
      /\ Occupied(rxW, rxR) <= PtrMod - 1
  <2>1. /\ rxW \in Pointers /\ rxR \in Pointers /\ txW \in Pointers /\ txR \in Pointers
    BY <1>a DEF TypeOK
  <2>2. QED
    BY <2>1, PointerTypes, Sizes
<1>c. CreditLimit \in Nat /\ CreditLimit + 2 <= RxSlots /\ RxSlots <= PtrMod - 1
  BY BridgeAssumption, CreditsFit, Sizes
<1>1. CASE Setup
  BY <1>1, <1>a DEF Setup, RegisterRead, RegisterSend, ControllerInit, TypeOK,
     CreditBudget, Copying, Notifying, TxBound, DeliverSlot, RxSlotTaken,
     rxVars, txVars, hostVars, ctrlVars
<1>2. ASSUME NEW p \in Packets, HostTakeCredit(p) PROVE IInv'
  <2>1. TypeOK'
    BY <1>2, <1>a, <1>c DEF HostTakeCredit, TypeOK, rxVars, txVars, ctrlVars
  <2>2. CreditBudget'
    BY <1>2, <1>a, <1>b, <1>c DEF HostTakeCredit, CreditBudget, Copying, Notifying,
       TypeOK, rxVars, ctrlVars
  <2>3. (TxBound /\ DeliverSlot /\ RxSlotTaken)'
    BY <1>2, <1>a DEF HostTakeCredit, TxBound, DeliverSlot, RxSlotTaken, txVars, rxVars, ctrlVars
  <2>4. QED
    BY <2>1, <2>2, <2>3
<1>3. CASE HostCopy
  <2>1. TypeOK'
    <3>1. RxIndex(rxW) \in 0 .. RxSlots - 1
      BY <1>b, Sizes, IndexTypes DEF Pointers
    <3>2. QED
      BY <1>3, <1>a, <3>1 DEF HostCopy, TypeOK, txVars, ctrlVars
  <2>2. CreditBudget'
    BY <1>3, <1>a DEF HostCopy, CreditBudget, Copying, Notifying, ctrlVars
  <2>3. (TxBound /\ DeliverSlot /\ RxSlotTaken)'
    BY <1>3, <1>a DEF HostCopy, TxBound, DeliverSlot, RxSlotTaken, txVars, rxVars, ctrlVars
  <2>4. QED
    BY <2>1, <2>2, <2>3
<1>4. CASE HostPublish
  <2>1. TypeOK'
    BY <1>4, <1>a, <1>b, PointerTypes DEF HostPublish, TypeOK, txVars, ctrlVars
  <2>2. CreditBudget'
    <3>1. Occupied(rxW, rxR) < PtrMod - 1
      BY <1>4, <1>a, <1>b, <1>c, Sizes, RoomToCopy DEF HostPublish
    <3>2. Occupied(rxW', rxR') = Occupied(rxW, rxR) + 1
      BY <1>4, <1>b, <3>1, OccupiedInc DEF HostPublish
    <3>3. QED
      BY <1>4, <1>a, <1>b, <3>2 DEF HostPublish, CreditBudget, Copying, Notifying,
         TypeOK, ctrlVars
  <2>3. (TxBound /\ DeliverSlot /\ RxSlotTaken)'
    <3>1. rxW # rxR => Inc(rxW) # rxR
      <4>1. ASSUME rxW # rxR, Inc(rxW) = rxR PROVE FALSE
        <5>1. Occupied(rxW, rxR) < PtrMod - 1
          BY <1>4, <1>a, <1>b, <1>c, Sizes, RoomToCopy DEF HostPublish
        <5>2. Occupied(Inc(rxW), rxR) = Occupied(rxW, rxR) + 1
          BY <1>b, <5>1, OccupiedInc
        <5>3. QED
          BY <4>1, <5>2, <1>b, OccupiedZero, PointerTypes
      <4>2. QED
        BY <4>1
    <3>2. QED
      BY <1>4, <1>a, <3>1 DEF HostPublish, TxBound, DeliverSlot, RxSlotTaken, txVars, rxVars, ctrlVars
  <2>4. QED
    BY <2>1, <2>2, <2>3
<1>5. CASE RxEmptySilent
  BY <1>5, <1>a DEF RxEmptySilent, TypeOK, CreditBudget, Copying, Notifying, TxBound,
     DeliverSlot, RxSlotTaken, rxVars, txVars, hostVars
<1>6. CASE RxEmpty
  <2>1. TypeOK'
    BY <1>6, <1>a DEF RxEmpty, TypeOK, rxVars, txVars, hostVars
  <2>2. CreditBudget'
    <3>1. Occupied(rxW, rxR) = 0
      BY <1>6, <1>b, OccupiedZero DEF RxEmpty
    <3>2. credit <= CreditLimit /\ credit \in Nat
      BY <1>a, <1>c DEF TypeOK
    <3>3. QED
      BY <1>6, <3>1, <3>2, <1>c DEF RxEmpty, CreditBudget, Copying, Notifying, rxVars,
         hostVars
  <2>3. (TxBound /\ DeliverSlot /\ RxSlotTaken)'
    BY <1>6, <1>a DEF RxEmpty, TxBound, DeliverSlot, RxSlotTaken, rxVars, txVars
  <2>4. QED
    BY <2>1, <2>2, <2>3
<1>7. CASE RxNotify
  <2>1. TypeOK'
    BY <1>7, <1>a, <1>c DEF RxNotify, TypeOK, rxVars, txVars
  <2>2. CreditBudget'
    BY <1>7, <1>a, <1>b, <1>c DEF RxNotify, CreditBudget, Copying, Notifying, TypeOK,
       rxVars
  <2>3. (TxBound /\ DeliverSlot /\ RxSlotTaken)'
    BY <1>7, <1>a DEF RxNotify, TxBound, DeliverSlot, RxSlotTaken, rxVars, txVars
  <2>4. QED
    BY <2>1, <2>2, <2>3
<1>8. CASE RxTake
  <2>0. RxIndex(rxR) \in 0 .. RxSlots - 1
    BY <1>b, Sizes, IndexTypes DEF Pointers
  <2>1. TypeOK'
    BY <1>8, <1>a, <2>0 DEF RxTake, TypeOK, rxVars, txVars, hostVars
  <2>2. (CreditBudget /\ TxBound /\ DeliverSlot /\ RxSlotTaken)'
    BY <1>8, <1>a, <2>0 DEF RxTake, CreditBudget, Copying, Notifying, TxBound, DeliverSlot, RxSlotTaken,
       rxVars, txVars, hostVars
  <2>3. QED
    BY <2>1, <2>2
<1>9. CASE RxHandle
  <2>1. TypeOK'
    <3>1. CASE ctrlIdx \in 0 .. RxSlots - 1
      BY <1>9, <1>a, <3>1 DEF RxHandle, TypeOK, rxVars, txVars, hostVars
    <3>2. QED
      BY <1>9, <1>a, <3>1 DEF RxSlotTaken, RxHandle
  <2>2. (CreditBudget /\ TxBound /\ DeliverSlot /\ RxSlotTaken)'
    BY <1>9, <1>a DEF RxHandle, CreditBudget, Copying, Notifying, TxBound, DeliverSlot,
       RxSlotTaken, rxVars, txVars, hostVars
  <2>3. QED
    BY <2>1, <2>2
<1>10. CASE RxRelease
  <2>1. TypeOK'
    BY <1>10, <1>a, <1>b, PointerTypes DEF RxRelease, TypeOK, txVars, hostVars
  <2>2. CreditBudget'
    <3>1. Occupied(rxW', rxR') = Occupied(rxW, rxR) - 1
      BY <1>10, <1>a, <1>b, OccupiedDec DEF RxRelease, RxSlotTaken
    <3>2. QED
      BY <1>10, <1>a, <1>b, <1>c, <3>1 DEF RxRelease, CreditBudget, Copying, Notifying,
         TypeOK, hostVars
  <2>3. (TxBound /\ DeliverSlot /\ RxSlotTaken)'
    BY <1>10, <1>a DEF RxRelease, TxBound, DeliverSlot, RxSlotTaken, txVars
  <2>4. QED
    BY <2>1, <2>2, <2>3
<1>11. CASE TxEmpty
  BY <1>11, <1>a DEF TxEmpty, TypeOK, CreditBudget, Copying, Notifying, TxBound,
     DeliverSlot, RxSlotTaken, rxVars, txVars, hostVars
<1>12. CASE TxTake
  <2>1. TypeOK'
    <3>1. TxIndex(txR) \in Nat /\ Inc(txR) \in Pointers
      BY <1>b, Sizes, IndexTypes, PointerTypes DEF Pointers
    <3>2. QED
      BY <1>12, <1>a, <3>1 DEF TxTake, TypeOK, rxVars, hostVars
  <2>2. (CreditBudget /\ RxSlotTaken)'
    BY <1>12, <1>a DEF TxTake, CreditBudget, Copying, Notifying, RxSlotTaken, rxVars,
       hostVars
  <2>3. TxBound'
    <3>1. Occupied(txW', txR') = Occupied(txW, txR) - 1
      BY <1>12, <1>b, OccupiedDec DEF TxTake
    <3>2. QED
      BY <1>a, <1>b, <3>1, BridgeAssumption DEF TxBound
  <2>4. DeliverSlot'
    BY <1>12, <1>b, PreviousIndex DEF TxTake, DeliverSlot
  <2>5. QED
    BY <2>1, <2>2, <2>3, <2>4
<1>13. CASE TxDeliver
  <2>1. TypeOK'
    <3>1. ctrlIdx \in 0 .. TxSlots - 1
      <4>1. txR + PtrMod - 1 \in Int
        BY <1>b, Sizes DEF Pointers
      <4>2. QED
        BY <1>13, <1>a, <4>1, IndexTypes DEF TxDeliver, DeliverSlot
    <3>2. QED
      BY <1>13, <1>a, <3>1 DEF TxDeliver, TypeOK, rxVars, txVars, hostVars
  <2>2. (CreditBudget /\ TxBound /\ DeliverSlot /\ RxSlotTaken)'
    BY <1>13, <1>a DEF TxDeliver, CreditBudget, Copying, Notifying, TxBound, DeliverSlot,
       RxSlotTaken, rxVars, txVars, hostVars
  <2>3. QED
    BY <2>1, <2>2
<1>14. CASE TxDrop
  BY <1>14, <1>a DEF TxDrop, TypeOK, CreditBudget, Copying, Notifying, TxBound,
     DeliverSlot, RxSlotTaken, rxVars, txVars, hostVars
<1>15. ASSUME NEW e \in Events, LinkLayerProduce(e) PROVE IInv'
  <2>1. TypeOK'
    <3>1. TxIndex(txW) \in 0 .. TxSlots - 1 /\ Inc(txW) \in Pointers
      BY <1>b, Sizes, IndexTypes, PointerTypes DEF Pointers
    <3>2. QED
      BY <1>15, <1>a, <3>1 DEF LinkLayerProduce, TypeOK, rxVars, hostVars, ctrlVars
  <2>2. (CreditBudget /\ DeliverSlot /\ RxSlotTaken)'
    BY <1>15, <1>a DEF LinkLayerProduce, CreditBudget, Copying, Notifying, DeliverSlot,
       RxSlotTaken, rxVars, hostVars, ctrlVars
  <2>3. TxBound'
    <3>1. Occupied(txW, txR) < PtrMod - 1
      BY <1>15, <1>b, Sizes, BridgeAssumption, ReserveKept DEF LinkLayerProduce, TxHasRoom
    <3>2. Occupied(txW', txR') = Occupied(txW, txR) + 1
      BY <1>15, <1>b, <3>1, OccupiedInc DEF LinkLayerProduce
    <3>3. QED
      BY <1>15, <1>b, <3>2, BridgeAssumption DEF LinkLayerProduce, TxHasRoom, TxBound
  <2>4. QED
    BY <2>1, <2>2, <2>3
<1>16. CASE UNCHANGED vars
  BY <1>16, <1>a DEF vars, TypeOK, CreditBudget, Copying, Notifying, TxBound,
     DeliverSlot, RxSlotTaken, rxVars, txVars, hostVars, ctrlVars
<1>17. QED
  BY <1>1, <1>2, <1>3, <1>4, <1>5, <1>6, <1>7, <1>8, <1>9, <1>10, <1>11, <1>12, <1>13,
     <1>14, <1>15, <1>16 DEF Next, Host, Controller, RxHandler, TxHandler, LinkLayer

(* What the invariant says of the properties.                              *)
LEMMA IInvSafe == IInv => TypeOK /\ CreditBudget /\ NoRxOverrun /\ NoTxReuse
<1> SUFFICES ASSUME IInv PROVE NoRxOverrun /\ NoTxReuse
  BY DEF IInv
<1>0. txW \in Pointers /\ txR \in Pointers
  BY DEF IInv, TypeOK
<1>a. txW \in Pointers /\ txR \in Pointers /\ Occupied(txW, txR) \in Nat
  BY <1>0, PointerTypes, Sizes
<1>1. NoRxOverrun
  BY RoomToCopy DEF IInv, NoRxOverrun
<1>2. NoTxReuse
  <2> SUFFICES ASSUME ctrlPc = "deliver", TxHasRoom  PROVE TxIndex(txW) # ctrlIdx
    BY DEF NoTxReuse
  <2> DEFINE d == Occupied(txW, txR) + 1
             x == txR + PtrMod - 1
  <2>1. d \in 1 .. TxSlots - 1 /\ x \in Int
    BY <1>a, Sizes, BridgeAssumption, ReserveKept DEF TxHasRoom, Pointers
  <2>2. TxIndex(x + d) # TxIndex(x)
    <3> HIDE DEF d, x
    <3>1. QED
      BY <2>1, Sizes, ModDistinct DEF TxIndex
  <2>3. TxIndex(x + d) = TxIndex(txW)
    <3>1. x + d = txR + Occupied(txW, txR) + PtrMod
      BY <1>a, Sizes DEF Pointers
    <3>2. \/ txR + Occupied(txW, txR) = txW
          \/ txR + Occupied(txW, txR) = txW + PtrMod
      BY <1>a, Sizes DEF Occupied, Pointers
    <3>3. x + d = txW + PtrMod \/ x + d = txW + PtrMod + PtrMod
      BY <3>1, <3>2, <1>a, Sizes DEF Pointers
    <3> HIDE DEF x, d
    <3>4. QED
      BY <3>3, <1>a, TxIndexTurn, Sizes DEF Pointers
  <2>4. ctrlIdx = TxIndex(x)
    BY DEF IInv, DeliverSlot
  <2>5. QED
    BY <2>2, <2>3, <2>4
<1>3. QED
  BY <1>1, <1>2

-----------------------------------------------------------------------------
(* In every reachable state the bridge's variables have their types, the   *)
(* host's outstanding work stays within the credit budget, the unchecked   *)
(* copy of b91_bt_host_send_packet goes into a free slot, and the slot that *)
(* b91_bt_hci_tx_handler returned before the host has read it is not the   *)
(* one the link layer writes next: for all ring sizes, semaphore limits    *)
(* and reserves that satisfy the assumptions.                              *)
THEOREM BridgeInvariant == Spec => []IInv
<1>1. QED
  BY InitIInv, NextIInv, PTL DEF Spec

(* The pointers, counters and thread states of the two rings keep their    *)
(* types: no semaphore is given beyond its limit and no pointer leaves its *)
(* ring.                                                                   *)
THEOREM BridgeTypesKept == Spec => []TypeOK
<1>1. QED
  BY BridgeInvariant, IInvSafe, PTL

(* The write of b91_bt_host_send_packet, which never looks at rptr.        *)
THEOREM RxNeverOverruns == Spec => [](TypeOK /\ CreditBudget /\ NoRxOverrun)
<1>1. QED
  BY BridgeInvariant, IInvSafe, PTL

(* The early return of the slot in b91_bt_hci_tx_handler.                  *)
THEOREM TxSlotNeverReused == Spec => []NoTxReuse
<1>1. QED
  BY BridgeInvariant, IInvSafe, PTL

-----------------------------------------------------------------------------
(* The rings are channels.  What IInv leaves open: which packet is where   *)
(* while the host copies it and the controller handles it.                 *)
InPlace ==
  /\ hostPc # "idle" => hostPkt \in Packets
  /\ hostPc = "publish" => rxSlot[RxIndex(rxW)] = hostPkt
  /\ ctrlPc = "handle" => ctrlIdx = RxIndex(rxR)

(* What a slot may hold.                                                   *)
RxContents == Packets \cup {None}
TxContents == Events \cup {None}

(* A sequence one longer, or without its first element, element by element. *)
LEMMA Appended ==
  ASSUME NEW S, NEW n \in Nat, NEW s \in [1 .. n -> S], NEW t \in [1 .. n + 1 -> S],
         \A i \in 1 .. n : t[i] = s[i]
  PROVE  Len(s) = n /\ t = Append(s, t[n + 1])
<1>1. s \in Seq(S) /\ Len(s) = n
  OBVIOUS
<1>2. t \in Seq(S) /\ Len(t) = n + 1
  OBVIOUS
<1> DEFINE u == Append(s, t[n + 1])
<1>3. t[n + 1] \in S
  OBVIOUS
<1>4. u \in Seq(S) /\ Len(u) = n + 1 /\ u[n + 1] = t[n + 1] /\ \A i \in 1 .. n : u[i] = s[i]
  BY <1>1, <1>3
<1> HIDE DEF u
<1>5. u = t
  BY <1>2, <1>4
<1>6. QED
  BY <1>1, <1>5 DEF u

LEMMA Shortened ==
  ASSUME NEW S, NEW n \in Nat \ {0}, NEW s \in [1 .. n -> S], NEW t \in [1 .. n - 1 -> S],
         \A i \in 1 .. n - 1 : t[i] = s[i + 1]
  PROVE  s # << >> /\ Head(s) = s[1] /\ t = Tail(s)
<1>1. s \in Seq(S) /\ Len(s) = n /\ s # << >>
  OBVIOUS
<1>2. t \in Seq(S) /\ Len(t) = n - 1
  OBVIOUS
<1>3. Tail(s) \in Seq(S) /\ Len(Tail(s)) = n - 1 /\ \A i \in 1 .. n - 1 : Tail(s)[i] = s[i + 1]
  BY <1>1
<1>4. t = Tail(s)
  BY <1>2, <1>3
<1>5. QED
  BY <1>1, <1>4

(* Two sequences with the same elements are the same.                      *)
LEMMA SameElements ==
  ASSUME NEW S, NEW n \in Nat, NEW s \in [1 .. n -> S], NEW t \in [1 .. n -> S],
         \A i \in 1 .. n : s[i] = t[i]
  PROVE  s = t
OBVIOUS

(* Slots whose numbers differ by whole turns are the same, and less than a *)
(* ring apart they are different.                                          *)
LEMMA RxIndexTurn ==
  ASSUME NEW x \in Int
  PROVE  RxIndex(x + PtrMod) = RxIndex(x)
<1>1. PICK k \in Nat \ {0} : PtrMod = RxSlots * k
  BY Sizes
<1>2. PICK q \in Int, t \in 0 .. RxSlots - 1 : x = RxSlots * q + t /\ x % RxSlots = t
  <2>1. /\ x = RxSlots * (x \div RxSlots) + (x % RxSlots)
        /\ x % RxSlots \in 0 .. RxSlots - 1 /\ x \div RxSlots \in Int
    BY Sizes, DivMod
  <2>2. QED
    BY <2>1
<1>3. x + PtrMod = RxSlots * (q + k) + t
  <2>1. RxSlots * (q + k) = RxSlots * q + RxSlots * k
    BY <1>1, <1>2, Sizes
  <2>2. QED
    BY <1>1, <1>2, <2>1, Sizes
<1>4. (x + PtrMod) % RxSlots = t
  <2>1. q + k \in Int
    OBVIOUS
  <2>2. QED
    BY <1>3, <2>1, Sizes, ModUnique
<1>5. QED
  BY <1>2, <1>4 DEF RxIndex

(* Counting from a pointer that was incremented, or to the other pointer.  *)
LEMMA Counting ==
  ASSUME NEW w \in Pointers, NEW r \in Pointers
  PROVE  /\ \A i \in Int : /\ RxIndex(Inc(r) + i) = RxIndex(r + 1 + i)
                           /\ TxIndex(Inc(r) + i) = TxIndex(r + 1 + i)
         /\ RxIndex(r + Occupied(w, r)) = RxIndex(w)
         /\ TxIndex(r + Occupied(w, r)) = TxIndex(w)
<1>1. ASSUME NEW i \in Int
      PROVE  RxIndex(Inc(r) + i) = RxIndex(r + 1 + i) /\ TxIndex(Inc(r) + i) = TxIndex(r + 1 + i)
  <2> DEFINE x == Inc(r) + i
  <2>1. x \in Int /\ (r + 1 + i = x \/ r + 1 + i = x + PtrMod)
    BY Sizes DEF Inc, Pointers
  <2> HIDE DEF x
  <2>2. RxIndex(x) = RxIndex(r + 1 + i) /\ TxIndex(x) = TxIndex(r + 1 + i)
    BY <2>1, RxIndexTurn, TxIndexTurn
  <2>3. QED
    BY <2>2 DEF x
<1>2. w \in Int /\ (r + Occupied(w, r) = w \/ r + Occupied(w, r) = w + PtrMod)
  BY Sizes DEF Occupied, Pointers
<1>3. QED
  BY <1>1, <1>2, RxIndexTurn, TxIndexTurn

(* The slot of wptr is none of the occupied ones while there is room.      *)
LEMMA RxFreeSlot ==
  ASSUME NEW w \in Pointers, NEW r \in Pointers, Occupied(w, r) < RxSlots,
         NEW i \in 0 .. Occupied(w, r) - 1
  PROVE  RxIndex(r + i) # RxIndex(w)
<1> DEFINE x == r + i
           d == Occupied(w, r) - i
<1>1. Occupied(w, r) \in Nat
  BY PointerTypes, Sizes
<1>2. x \in Int /\ d \in 1 .. RxSlots - 1 /\ x + d = r + Occupied(w, r)
  BY <1>1, Sizes DEF Pointers
<1>3. RxIndex(x + d) = RxIndex(w)
  BY <1>2, Counting
<1> HIDE DEF x, d
<1>4. RxIndex(x + d) # RxIndex(x)
  BY <1>2, Sizes, ModDistinct DEF RxIndex
<1>5. QED
  BY <1>3, <1>4 DEF x

(* The same of the tx ring.                                                *)
LEMMA TxFreeSlot ==
  ASSUME NEW w \in Pointers, NEW r \in Pointers, Occupied(w, r) < TxSlots,
         NEW i \in 0 .. Occupied(w, r) - 1
  PROVE  TxIndex(r + i) # TxIndex(w)
<1> DEFINE x == r + i
           d == Occupied(w, r) - i
<1>1. Occupied(w, r) \in Nat
  BY PointerTypes, Sizes
<1>2. x \in Int /\ d \in 1 .. TxSlots - 1 /\ x + d = r + Occupied(w, r)
  BY <1>1, Sizes DEF Pointers
<1>3. TxIndex(x + d) = TxIndex(w)
  BY <1>2, Counting
<1> HIDE DEF x, d
<1>4. TxIndex(x + d) # TxIndex(x)
  BY <1>2, Sizes, ModDistinct DEF TxIndex
<1>5. QED
  BY <1>3, <1>4 DEF x

-----------------------------------------------------------------------------
(* The numbers and slots behind the two sequences.                         *)
LEMMA RingFacts ==
  ASSUME IInv
  PROVE  /\ rxW \in Pointers /\ rxR \in Pointers /\ txW \in Pointers /\ txR \in Pointers
         /\ Occupied(rxW, rxR) \in Nat /\ Occupied(txW, txR) \in Nat
         /\ Handled \in {0, 1} /\ Handled <= Occupied(rxW, rxR)
         /\ rxSlot \in [0 .. RxSlots - 1 -> RxContents] /\ txSlot \in [0 .. TxSlots - 1 -> TxContents]
<1>1. /\ rxW \in Pointers /\ rxR \in Pointers /\ txW \in Pointers /\ txR \in Pointers
      /\ rxSlot \in [0 .. RxSlots - 1 -> RxContents] /\ txSlot \in [0 .. TxSlots - 1 -> TxContents]
  BY DEF IInv, TypeOK, RxContents, TxContents
<1>2. Occupied(rxW, rxR) \in Nat /\ Occupied(txW, txR) \in Nat
  <2>1. Occupied(rxW, rxR) \in 0 .. PtrMod - 1 /\ Occupied(txW, txR) \in 0 .. PtrMod - 1
    BY <1>1, PointerTypes
  <2>2. QED
    BY <2>1, Sizes
<1>3. ctrlPc = "release" => Occupied(rxW, rxR) # 0
  BY <1>1, OccupiedZero DEF IInv, RxSlotTaken
<1>4. QED
  BY <1>1, <1>2, <1>3 DEF Handled

(* What the sequences that stand for the channels are made of.             *)
LEMMA CmdsType == IInv => CmdsInRing \in [1 .. Occupied(rxW, rxR) - Handled -> RxContents]
<1> SUFFICES ASSUME IInv PROVE CmdsInRing \in [1 .. Occupied(rxW, rxR) - Handled -> RxContents]
  OBVIOUS
<1>1. ASSUME NEW i \in 1 .. Occupied(rxW, rxR) - Handled
      PROVE  rxSlot[RxIndex(rxR + Handled + i - 1)] \in RxContents
  <2>1. rxR + Handled + i - 1 \in Int
    BY RingFacts DEF Pointers
  <2>2. RxIndex(rxR + Handled + i - 1) \in 0 .. RxSlots - 1
    BY <2>1, IndexTypes
  <2>3. QED
    BY <2>2, RingFacts
<1>2. QED
  BY <1>1 DEF CmdsInRing

(* The events in the ring.                                                 *)
LEMMA EvtsType == IInv => EvtsInRing \in [1 .. Occupied(txW, txR) -> TxContents]
<1> SUFFICES ASSUME IInv PROVE EvtsInRing \in [1 .. Occupied(txW, txR) -> TxContents]
  OBVIOUS
<1>1. ASSUME NEW i \in 1 .. Occupied(txW, txR)
      PROVE  txSlot[TxIndex(txR + i - 1)] \in TxContents
  <2>1. txR + i - 1 \in Int
    BY RingFacts DEF Pointers
  <2>2. TxIndex(txR + i - 1) \in 0 .. TxSlots - 1
    BY <2>1, IndexTypes
  <2>3. QED
    BY <2>2, RingFacts
<1>2. QED
  BY <1>1 DEF EvtsInRing

(* The events in the ring and the one being delivered.                     *)
LEMMA FlightType ==
  IInv /\ ctrlPc = "deliver" => EvtsInFlight \in [1 .. Occupied(txW, txR) + 1 -> TxContents]
<1> SUFFICES ASSUME IInv, ctrlPc = "deliver"
             PROVE  EvtsInFlight \in [1 .. Occupied(txW, txR) + 1 -> TxContents]
  OBVIOUS
<1>1. txSlot[ctrlIdx] \in TxContents
  <2>1. txR + PtrMod - 1 \in Int
    BY RingFacts, Sizes DEF Pointers
  <2>2. ctrlIdx \in 0 .. TxSlots - 1
    BY <2>1, IndexTypes DEF IInv, DeliverSlot
  <2>3. QED
    BY <2>2, RingFacts
<1>2. ASSUME NEW i \in 2 .. Occupied(txW, txR) + 1
      PROVE  EvtsInRing[i - 1] \in TxContents
  <2>1. i - 1 \in 1 .. Occupied(txW, txR)
    BY RingFacts
  <2>2. QED
    BY <2>1, EvtsType
<1>3. QED
  BY <1>1, <1>2, RingFacts DEF EvtsInFlight

(* InPlace is an invariant as well: only HostCopy and RxTake establish it. *)
LEMMA InitInPlace == Init => InPlace
BY DEF Init, InPlace

(* And every step keeps it.                                                *)
LEMMA NextInPlace == IInv /\ InPlace /\ [Next]_vars => InPlace'
<1> SUFFICES ASSUME IInv, InPlace, [Next]_vars PROVE InPlace'
  OBVIOUS
<1> USE DEF InPlace
<1>1. CASE Setup
  BY <1>1 DEF Setup, RegisterRead, RegisterSend, ControllerInit, rxVars, hostVars, ctrlVars
<1>2. CASE \E p \in Packets : HostTakeCredit(p)
  BY <1>2 DEF HostTakeCredit, rxVars, ctrlVars
<1>3. CASE HostCopy
  <2>1. rxW \in Int
    BY RingFacts DEF Pointers
  <2>2. RxIndex(rxW) \in 0 .. RxSlots - 1
    BY <2>1, IndexTypes
  <2>3. QED
    BY <1>3, <2>2, RingFacts DEF HostCopy, ctrlVars
<1>4. CASE HostPublish
  BY <1>4 DEF HostPublish, ctrlVars
<1>5. CASE RxHandler
  BY <1>5 DEF RxHandler, RxEmptySilent, RxEmpty, RxNotify, RxTake, RxHandle, RxRelease,
     rxVars, hostVars
<1>6. CASE TxHandler
  BY <1>6 DEF TxHandler, TxEmpty, TxTake, TxDeliver, TxDrop, rxVars, hostVars
<1>7. CASE LinkLayer
  BY <1>7 DEF LinkLayer, LinkLayerProduce, rxVars, hostVars, ctrlVars
<1>8. CASE UNCHANGED vars
  BY <1>8 DEF vars, rxVars, hostVars, ctrlVars
<1>9. QED
  BY <1>1, <1>2, <1>3, <1>4, <1>5, <1>6, <1>7, <1>8 DEF Next, Host, Controller

(* What leaves a ring's pointers and slots alone leaves its channel alone. *)
LEMMA CmdsKept ==
  ASSUME rxSlot' = rxSlot, rxW' = rxW, rxR' = rxR, Handled' = Handled
  PROVE  CmdsInRing' = CmdsInRing
BY DEF CmdsInRing

(* The same of the tx ring, unless a delivery begins or ends.              *)
LEMMA EvtsKept ==
  ASSUME txSlot' = txSlot, txW' = txW, txR' = txR
  PROVE  /\ EvtsInRing' = EvtsInRing
         /\ ctrlPc # "deliver" /\ ctrlPc' # "deliver" => EvtsInFlight' = EvtsInFlight
         /\ ctrlPc' = ctrlPc /\ ctrlIdx' = ctrlIdx => EvtsInFlight' = EvtsInFlight
<1>1. EvtsInRing' = EvtsInRing
  BY DEF EvtsInRing
<1>2. QED
  BY <1>1 DEF EvtsInFlight

(* The rings start as empty channels that nobody listens to.               *)
LEMMA InitChannel == Init => Channel!Init
<1> SUFFICES ASSUME Init PROVE Channel!Init
  OBVIOUS
<1>1. IInv
  BY InitIInv
<1>2. Occupied(rxW, rxR) = 0 /\ Occupied(txW, txR) = 0 /\ Handled = 0
  BY <1>1, RingFacts, OccupiedZero DEF Init, Handled
<1>3. CmdsInRing = << >> /\ EvtsInRing = << >>
  <2>1. CmdsInRing \in [1 .. 0 -> RxContents] /\ EvtsInRing \in [1 .. 0 -> TxContents]
    BY <1>1, <1>2, CmdsType, EvtsType
  <2>2. QED
    BY <2>1
<1>4. EvtsInFlight = << >>
  BY <1>3 DEF Init, EvtsInFlight
<1>5. ("host_read_packet" \in cb) = FALSE
  <2>1. "host_read_packet" \notin cb
    BY DEF Init
  <2>2. QED
    BY <2>1
<1>6. QED
  BY <1>3, <1>4, <1>5 DEF Init, Channel!Init

(* wptr++ makes the copied packet the last of the channel.                 *)
LEMMA PublishSends ==
  ASSUME IInv, InPlace, HostPublish, IInv'
  PROVE  \E p \in Packets : Channel!Send(p)
<1> DEFINE n == Occupied(rxW, rxR) - Handled
<1>1. /\ hostPkt \in Packets /\ rxSlot[RxIndex(rxW)] = hostPkt
      /\ rxSlot' = rxSlot /\ rxR' = rxR /\ rxW' = Inc(rxW) /\ Handled' = Handled
  BY DEF HostPublish, InPlace, ctrlVars, Handled
<1>2. Occupied(rxW, rxR) < CreditLimit + 2 /\ Occupied(rxW, rxR) < PtrMod - 1
  <2>1. Copying = 1 /\ Notifying \in Nat /\ credit \in Nat /\ CreditLimit \in Nat
    BY BridgeAssumption DEF HostPublish, Copying, Notifying, IInv, TypeOK
  <2>2. Occupied(rxW, rxR) < CreditLimit + 2
    BY <2>1, RingFacts DEF IInv, CreditBudget
  <2>3. QED
    BY <2>1, <2>2, RingFacts, CreditsFit, Sizes
<1>3. Occupied(rxW', rxR') = Occupied(rxW, rxR) + 1
  BY <1>1, <1>2, RingFacts, OccupiedInc
<1>4. n \in Nat /\ CmdsInRing \in [1 .. n -> RxContents]
  BY RingFacts, CmdsType
<1>5. CmdsInRing' \in [1 .. n + 1 -> RxContents]
  <2>1. (CmdsInRing \in [1 .. Occupied(rxW, rxR) - Handled -> RxContents])'
    BY CmdsType, PTL
  <2>2. RxContents' = RxContents /\ Occupied(rxW', rxR') - Handled' = n + 1
    BY <1>1, <1>3, RingFacts DEF RxContents
  <2>3. QED
    BY <2>1, <2>2
<1>6. ASSUME NEW i \in 1 .. n  PROVE CmdsInRing'[i] = CmdsInRing[i]
  <2>1. i \in 1 .. Occupied(rxW, rxR) - Handled /\ i \in 1 .. Occupied(rxW', rxR') - Handled'
    BY <1>1, <1>3, RingFacts
  <2>2. QED
    BY <2>1, <1>1 DEF CmdsInRing
<1>7. CmdsInRing'[n + 1] = hostPkt
  <2>1. n + 1 \in 1 .. Occupied(rxW', rxR') - Handled'
    BY <1>1, <1>3, RingFacts
  <2>2. rxR + Handled + (n + 1) - 1 = rxR + Occupied(rxW, rxR)
    BY RingFacts DEF Pointers
  <2>3. CmdsInRing'[n + 1] = rxSlot[RxIndex(rxR + Handled + (n + 1) - 1)]
    BY <2>1, <1>1 DEF CmdsInRing
  <2>4. QED
    BY <2>2, <2>3, <1>1, RingFacts, Counting
<1>8. Len(CmdsInRing) = n /\ CmdsInRing' = Append(CmdsInRing, hostPkt)
  <2> HIDE DEF n
  <2>1. QED
    BY <1>4, <1>5, <1>6, <1>7, Appended
<1>9. EvtsInFlight' = EvtsInFlight
  BY EvtsKept DEF HostPublish, txVars, ctrlVars
<1>10. n < CreditLimit + 2
  BY <1>2, RingFacts, BridgeAssumption
<1>11. Channel!Send(hostPkt)
  BY <1>8, <1>9, <1>10 DEF HostPublish, Channel!Send
<1>12. QED
  BY <1>1, <1>11

(* The packet the controller handles is the oldest of the channel.         *)
LEMMA HandleHandles ==
  ASSUME IInv, InPlace, RxHandle, IInv'
  PROVE  Channel!Handle
<1> DEFINE n == Occupied(rxW, rxR)
<1>1. /\ ctrlIdx = RxIndex(rxR) /\ lastCmd' = rxSlot[ctrlIdx]
      /\ rxSlot' = rxSlot /\ rxR' = rxR /\ rxW' = rxW /\ Handled = 0 /\ Handled' = 1
  BY DEF RxHandle, InPlace, rxVars, Handled
<1>2. n \in Nat \ {0} /\ CmdsInRing \in [1 .. n -> RxContents]
  <2>1. rxW # rxR
    BY DEF IInv, RxSlotTaken, RxHandle
  <2>2. n # 0
    BY <2>1, RingFacts, OccupiedZero
  <2>3. n - Handled = n
    BY <1>1, RingFacts
  <2>4. QED
    BY <2>2, <2>3, RingFacts, CmdsType
<1>3. CmdsInRing' \in [1 .. n - 1 -> RxContents]
  <2>1. (CmdsInRing \in [1 .. Occupied(rxW, rxR) - Handled -> RxContents])'
    BY CmdsType, PTL
  <2>2. RxContents' = RxContents /\ Occupied(rxW', rxR') - Handled' = n - 1
    BY <1>1 DEF RxContents
  <2>3. QED
    BY <2>1, <2>2
<1>4. ASSUME NEW i \in 1 .. n - 1  PROVE CmdsInRing'[i] = CmdsInRing[i + 1]
  <2>1. i \in 1 .. Occupied(rxW', rxR') - Handled' /\ i + 1 \in 1 .. Occupied(rxW, rxR) - Handled
    BY <1>1, RingFacts
  <2>2. rxR' + Handled' + i - 1 = rxR + Handled + (i + 1) - 1
    BY <1>1, RingFacts DEF Pointers
  <2>3. CmdsInRing'[i] = rxSlot[RxIndex(rxR' + Handled' + i - 1)]
    BY <2>1, <1>1 DEF CmdsInRing
  <2>4. QED
    BY <2>1, <2>2, <2>3 DEF CmdsInRing
<1>5. CmdsInRing[1] = rxSlot[ctrlIdx]
  <2>1. 1 \in 1 .. Occupied(rxW, rxR) - Handled /\ rxR + Handled + 1 - 1 = rxR
    BY <1>1, <1>2, RingFacts DEF Pointers
  <2>2. QED
    BY <2>1, <1>1 DEF CmdsInRing
<1>6. CmdsInRing # << >> /\ Head(CmdsInRing) = rxSlot[ctrlIdx] /\ CmdsInRing' = Tail(CmdsInRing)
  <2> HIDE DEF n
  <2>1. QED
    BY <1>2, <1>3, <1>4, <1>5, Shortened
<1>7. EvtsInFlight' = EvtsInFlight
  BY EvtsKept DEF RxHandle, txVars
<1>8. QED
  BY <1>1, <1>6, <1>7 DEF RxHandle, Channel!Handle

(* The host copies into a slot that no packet of the channel is in.        *)
LEMMA CopyHidden ==
  ASSUME IInv, HostCopy
  PROVE  CmdsInRing' = CmdsInRing
<1>1. Occupied(rxW, rxR) < RxSlots
  BY RoomToCopy DEF IInv, HostCopy
<1>2. /\ rxSlot' = [rxSlot EXCEPT ![RxIndex(rxW)] = hostPkt]
      /\ rxW' = rxW /\ rxR' = rxR /\ Handled' = Handled
  BY DEF HostCopy, ctrlVars, Handled
<1>3. ASSUME NEW i \in 1 .. Occupied(rxW, rxR) - Handled
      PROVE  rxSlot'[RxIndex(rxR + Handled + i - 1)] = rxSlot[RxIndex(rxR + Handled + i - 1)]
  <2> DEFINE k == Handled + i - 1
  <2>1. k \in 0 .. Occupied(rxW, rxR) - 1 /\ rxR + k = rxR + Handled + i - 1 /\ rxR + k \in Int
    BY RingFacts DEF Pointers
  <2> HIDE DEF k
  <2>2. RxIndex(rxR + k) # RxIndex(rxW) /\ RxIndex(rxR + k) \in 0 .. RxSlots - 1
    BY <2>1, <1>1, RingFacts, RxFreeSlot, IndexTypes
  <2>3. rxSlot'[RxIndex(rxR + k)] = rxSlot[RxIndex(rxR + k)]
    BY <2>2, <1>2, RingFacts
  <2>4. QED
    BY <2>1, <2>3
<1>4. QED
  BY <1>2, <1>3 DEF CmdsInRing

(* rptr++ gives back the slot of a packet that has left the channel.       *)
LEMMA ReleaseHidden ==
  ASSUME IInv, RxRelease
  PROVE  CmdsInRing' = CmdsInRing
<1>1. rxSlot' = rxSlot /\ rxW' = rxW /\ rxR' = Inc(rxR) /\ Handled = 1 /\ Handled' = 0
  BY DEF RxRelease, Handled
<1>2. Occupied(rxW', rxR') = Occupied(rxW, rxR) - 1
  BY <1>1, RingFacts, OccupiedDec DEF IInv, RxSlotTaken, RxRelease
<1>3. ASSUME NEW i \in 1 .. Occupied(rxW, rxR) - 1
      PROVE  RxIndex(Inc(rxR) + 0 + i - 1) = RxIndex(rxR + 1 + i - 1)
  <2> DEFINE j == i - 1
  <2>1. j \in Int /\ Inc(rxR) + 0 + i - 1 = Inc(rxR) + j /\ rxR + 1 + i - 1 = rxR + 1 + j
    BY RingFacts, Sizes DEF Inc, Pointers
  <2> HIDE DEF j
  <2>2. QED
    BY <2>1, RingFacts, Counting
<1>4. Occupied(rxW', rxR') - Handled' = Occupied(rxW, rxR) - Handled
  BY <1>1, <1>2, RingFacts
<1>5. QED
  BY <1>1, <1>3, <1>4 DEF CmdsInRing

(* The link layer's event becomes the last of the channel, also while an   *)
(* event is being delivered from a slot that was already given back.       *)
LEMMA ProduceProduces ==
  ASSUME IInv, NEW e \in Events, LinkLayerProduce(e), IInv'
  PROVE  Channel!Produce(e)
<1> DEFINE n == Occupied(txW, txR)
<1>1. /\ txSlot' = [txSlot EXCEPT ![TxIndex(txW)] = e] /\ txW' = Inc(txW) /\ txR' = txR
      /\ ctrlPc' = ctrlPc /\ ctrlIdx' = ctrlIdx /\ rxSlot' = rxSlot /\ rxW' = rxW /\ rxR' = rxR
  BY DEF LinkLayerProduce, rxVars, ctrlVars
<1>2. n \in Nat /\ n < TxSlots - TxReserve /\ n < TxSlots /\ n < PtrMod - 1
  BY RingFacts, Sizes, BridgeAssumption, ReserveKept DEF LinkLayerProduce, TxHasRoom
<1>3. Occupied(txW', txR') = n + 1
  BY <1>1, <1>2, RingFacts, OccupiedInc
<1>4. TxIndex(txW) \in 0 .. TxSlots - 1
  <2>1. txW \in Int
    BY RingFacts DEF Pointers
  <2>2. QED
    BY <2>1, IndexTypes
<1>5. ASSUME NEW i \in 1 .. n
      PROVE  EvtsInRing'[i] = EvtsInRing[i]
  <2> DEFINE k == i - 1
  <2>1. k \in 0 .. n - 1 /\ txR + k = txR + i - 1 /\ txR + k \in Int
    BY <1>2, RingFacts DEF Pointers
  <2>2. i \in 1 .. Occupied(txW', txR')
    BY <1>2, <1>3
  <2> HIDE DEF k
  <2>3. TxIndex(txR + k) # TxIndex(txW) /\ TxIndex(txR + k) \in 0 .. TxSlots - 1
    BY <2>1, <1>2, RingFacts, TxFreeSlot, IndexTypes
  <2>4. txSlot'[TxIndex(txR + k)] = txSlot[TxIndex(txR + k)]
    BY <2>3, <1>1, RingFacts
  <2>5. EvtsInRing'[i] = txSlot'[TxIndex(txR + i - 1)]
    BY <2>2, <1>1 DEF EvtsInRing
  <2>6. QED
    BY <2>1, <2>4, <2>5 DEF EvtsInRing
<1>6. EvtsInRing'[n + 1] = e
  <2>1. n + 1 \in 1 .. Occupied(txW', txR')
    BY <1>2, <1>3
  <2>2. txR + (n + 1) - 1 = txR + n
    BY <1>2, RingFacts DEF Pointers
  <2>3. EvtsInRing'[n + 1] = txSlot'[TxIndex(txR + (n + 1) - 1)]
    BY <2>1, <1>1 DEF EvtsInRing
  <2>4. TxIndex(txR + n) = TxIndex(txW)
    BY RingFacts, Counting
  <2>5. QED
    BY <2>2, <2>3, <2>4, <1>1, <1>4, RingFacts
<1>7. EvtsInRing \in [1 .. n -> TxContents] /\ EvtsInRing' \in [1 .. n + 1 -> TxContents]
  <2>1. (EvtsInRing \in [1 .. Occupied(txW, txR) -> TxContents])'
    BY EvtsType, PTL
  <2>2. QED
    BY <2>1, <1>3, EvtsType DEF TxContents
<1>8. Len(EvtsInFlight) < TxSlots - TxReserve + 1 /\ EvtsInFlight' = Append(EvtsInFlight, e)
  <2>1. CASE ctrlPc # "deliver"
    <3>1. EvtsInFlight = EvtsInRing /\ EvtsInFlight' = EvtsInRing'
      BY <2>1, <1>1 DEF EvtsInFlight
    <3>2. Len(EvtsInRing) = n /\ EvtsInRing' = Append(EvtsInRing, EvtsInRing'[n + 1])
      <4> HIDE DEF n
      <4>1. QED
        BY <1>2, <1>5, <1>7, Appended
    <3>3. QED
      BY <3>1, <3>2, <1>2, <1>6, Sizes, BridgeAssumption
  <2>2. CASE ctrlPc = "deliver"
    <3>1. /\ EvtsInFlight \in [1 .. n + 1 -> TxContents]
          /\ EvtsInFlight' \in [1 .. n + 1 + 1 -> TxContents]
      <4>1. (ctrlPc = "deliver" => EvtsInFlight \in [1 .. Occupied(txW, txR) + 1 -> TxContents])'
        BY FlightType, PTL
      <4>2. QED
        BY <4>1, <2>2, <1>1, <1>3, FlightType DEF TxContents
    <3>2. txSlot'[ctrlIdx] = txSlot[ctrlIdx]
      <4>1. ctrlIdx \in 0 .. TxSlots - 1
        <5>1. txR + PtrMod - 1 \in Int
          BY RingFacts, Sizes DEF Pointers
        <5>2. QED
          BY <2>2, <5>1, IndexTypes DEF IInv, DeliverSlot
      <4>2. TxIndex(txW) # ctrlIdx
        BY <2>2, IInvSafe DEF NoTxReuse, LinkLayerProduce
      <4>3. QED
        BY <4>1, <4>2, <1>1, RingFacts
    <3>3. ASSUME NEW i \in 1 .. n + 1
          PROVE  EvtsInFlight'[i] = EvtsInFlight[i]
      <4>1. i \in 1 .. Occupied(txW', txR') + 1 /\ i \in 1 .. Occupied(txW, txR) + 1
        BY <1>2, <1>3
      <4>2. CASE i = 1
        BY <4>1, <4>2, <3>2, <2>2, <1>1 DEF EvtsInFlight
      <4>3. CASE i # 1
        <5>1. i - 1 \in 1 .. n
          BY <4>3, <1>2
        <5>2. EvtsInFlight'[i] = EvtsInRing'[i - 1] /\ EvtsInFlight[i] = EvtsInRing[i - 1]
          BY <4>1, <4>3, <2>2, <1>1 DEF EvtsInFlight
        <5>3. QED
          BY <5>1, <5>2, <1>5
      <4>4. QED
        BY <4>2, <4>3
    <3>4. EvtsInFlight'[n + 2] = e
      <4>1. n + 2 \in 1 .. Occupied(txW', txR') + 1 /\ n + 2 # 1 /\ n + 2 - 1 = n + 1
        BY <1>2, <1>3
      <4>2. \A i \in 1 .. Occupied(txW', txR') + 1 :
               i # 1 => EvtsInFlight'[i] = EvtsInRing'[i - 1]
        BY <2>2, <1>1 DEF EvtsInFlight
      <4> DEFINE j == n + 2
      <4>3. j \in 1 .. Occupied(txW', txR') + 1 /\ j # 1 /\ j - 1 = n + 1
        BY <4>1, <1>2, <1>3
      <4> HIDE DEF j
      <4>4. EvtsInFlight'[j] = EvtsInRing'[n + 1]
        BY <4>2, <4>3
      <4>5. QED
        BY <4>4, <1>6 DEF j
    <3>5. Len(EvtsInFlight) = n + 1 /\ EvtsInFlight' = Append(EvtsInFlight, EvtsInFlight'[n + 1 + 1])
      <4> DEFINE m == n + 1
      <4>1. m \in Nat /\ n + 1 = m
        BY <1>2
      <4> HIDE DEF m
      <4>2. Len(EvtsInFlight) = m /\ EvtsInFlight' = Append(EvtsInFlight, EvtsInFlight'[m + 1])
        BY <4>1, <3>1, <3>3, Appended
      <4>3. QED
        BY <4>1, <4>2
    <3>6. n + 1 + 1 = n + 2
      BY <1>2
    <3>7. QED
      BY <3>4, <3>5, <3>6, <1>2, Sizes, BridgeAssumption
  <2>3. QED
    BY <2>1, <2>2
<1>9. CmdsInRing' = CmdsInRing
  BY <1>1, CmdsKept DEF Handled
<1>10. QED
  BY <1>8, <1>9 DEF LinkLayerProduce, Channel!Produce

(* rptr++ moves the oldest event from its slot to the slot p in the hands  *)
(* of b91_bt_hci_tx_handler: it is in the channel either way.              *)
LEMMA TakeHidden ==
  ASSUME IInv, TxTake, IInv'
  PROVE  EvtsInFlight' = EvtsInFlight
<1> DEFINE n == Occupied(txW, txR)
<1>1. /\ txSlot' = txSlot /\ txW' = txW /\ txR' = Inc(txR)
      /\ ctrlPc = "tx" /\ ctrlPc' = "deliver" /\ ctrlIdx' = TxIndex(txR) /\ txW # txR
  BY DEF TxTake
<1>2. Occupied(txW', txR') = n - 1 /\ n \in Nat \ {0}
  BY <1>1, RingFacts, OccupiedDec
<1>3. EvtsInFlight = EvtsInRing /\ EvtsInRing \in [1 .. n -> TxContents]
  BY <1>1, EvtsType DEF EvtsInFlight
<1>4. EvtsInFlight' \in [1 .. n -> TxContents]
  <2>1. (ctrlPc = "deliver" => EvtsInFlight \in [1 .. Occupied(txW, txR) + 1 -> TxContents])'
    BY FlightType, PTL
  <2>2. QED
    BY <2>1, <1>1, <1>2 DEF TxContents
<1>5. ASSUME NEW i \in 1 .. n  PROVE EvtsInFlight'[i] = EvtsInRing[i]
  <2>1. i \in 1 .. Occupied(txW', txR') + 1
    BY <1>2
  <2>2. CASE i = 1
    <3>1. txR + i - 1 = txR
      BY <2>2, RingFacts DEF Pointers
    <3>2. EvtsInFlight'[i] = txSlot[TxIndex(txR)]
      BY <2>1, <2>2, <1>1 DEF EvtsInFlight
    <3>3. QED
      BY <3>1, <3>2 DEF EvtsInRing
  <2>3. CASE i # 1
    <3> DEFINE j == i - 2
    <3>1. /\ i - 1 \in 1 .. Occupied(txW', txR') /\ j \in Int
          /\ Inc(txR) + (i - 1) - 1 = Inc(txR) + j /\ txR + i - 1 = txR + 1 + j
      BY <2>3, <1>2, RingFacts, Sizes DEF Inc, Pointers
    <3>2. EvtsInFlight'[i] = EvtsInRing'[i - 1]
      BY <2>1, <2>3, <1>1 DEF EvtsInFlight
    <3>3. EvtsInRing'[i - 1] = txSlot[TxIndex(Inc(txR) + (i - 1) - 1)]
      BY <3>1, <1>1 DEF EvtsInRing
    <3> HIDE DEF j
    <3>4. TxIndex(Inc(txR) + j) = TxIndex(txR + 1 + j)
      BY <3>1, RingFacts, Counting
    <3>5. QED
      BY <3>1, <3>2, <3>3, <3>4 DEF EvtsInRing
  <2>4. QED
    BY <2>2, <2>3
<1>6. QED
  <2>1. EvtsInFlight' = EvtsInRing
    <3> HIDE DEF n
    <3> DEFINE s == EvtsInRing
               t == EvtsInFlight'
    <3>1. /\ n \in Nat /\ s \in [1 .. n -> TxContents] /\ t \in [1 .. n -> TxContents]
          /\ \A i \in 1 .. n : s[i] = t[i]
      BY <1>2, <1>3, <1>4, <1>5
    <3> HIDE DEF s, t
    <3>2. s = t
      BY <3>1, SameElements
    <3>3. QED
      BY <3>2 DEF s, t
  <2>2. QED
    BY <2>1, <1>3

(* What the host's callback reads, or nobody does, is the oldest event.    *)
LEMMA DeliverTakesOldest ==
  ASSUME IInv, ctrlPc = "deliver", ctrlPc' = "rx", UNCHANGED txVars
  PROVE  /\ EvtsInFlight # << >> /\ Head(EvtsInFlight) = txSlot[ctrlIdx]
         /\ EvtsInFlight' = Tail(EvtsInFlight)
<1> DEFINE n == Occupied(txW, txR) + 1
<1>1. n \in Nat \ {0} /\ n - 1 = Occupied(txW, txR)
  BY RingFacts
<1>2. EvtsInFlight \in [1 .. n -> TxContents]
  BY FlightType
<1>3. EvtsInFlight' = EvtsInRing
  BY EvtsKept DEF EvtsInFlight, txVars
<1>4. EvtsInRing \in [1 .. n - 1 -> TxContents]
  BY <1>1, EvtsType
<1>5. ASSUME NEW i \in 1 .. n - 1  PROVE EvtsInRing[i] = EvtsInFlight[i + 1]
  BY <1>1 DEF EvtsInFlight
<1>6. EvtsInFlight[1] = txSlot[ctrlIdx]
  BY <1>1 DEF EvtsInFlight
<1>7. QED
  <2> HIDE DEF n
  <2>1. QED
    BY <1>1, <1>2, <1>3, <1>4, <1>5, <1>6, Shortened

(* Every step of the bridge is a step of the channels or changes neither:  *)
(* a packet enters with wptr++, leaves when its handler has run; an event  *)
(* leaves when the callback has read it.                                   *)
LEMMA StepChannel ==
  IInv /\ InPlace /\ IInv' /\ [Next]_vars => [Channel!Next]_(Channel!vars)
<1> SUFFICES ASSUME IInv, InPlace, IInv', [Next]_vars
             PROVE  Channel!Next \/ UNCHANGED Channel!vars
  OBVIOUS
<1> USE DEF Channel!vars
<1>1. CASE RegisterRead
  <2>1. CmdsInRing' = CmdsInRing /\ EvtsInFlight' = EvtsInFlight
    BY <1>1, CmdsKept, EvtsKept DEF RegisterRead, rxVars, txVars, ctrlVars, Handled
  <2>2. "host_read_packet" \notin cb /\ "host_read_packet" \in cb'
    BY <1>1 DEF RegisterRead
  <2>3. ("host_read_packet" \in cb') = TRUE
    BY <2>2
  <2>4. Channel!Listen
    BY <1>1, <2>1, <2>2, <2>3 DEF RegisterRead, Channel!Listen
  <2>5. QED
    BY <2>4 DEF Channel!Next
<1>2. CASE RegisterSend
  <2>1. CmdsInRing' = CmdsInRing /\ EvtsInFlight' = EvtsInFlight
    BY <1>2, CmdsKept, EvtsKept DEF RegisterSend, rxVars, txVars, ctrlVars, Handled
  <2>2. "host_read_packet" \in cb /\ "host_read_packet" \in cb'
    BY <1>2 DEF RegisterSend
  <2>3. ("host_read_packet" \in cb') = TRUE /\ ("host_read_packet" \in cb) = TRUE
    BY <2>2
  <2>4. QED
    BY <1>2, <2>1, <2>3 DEF RegisterSend
<1>3. CASE ControllerInit
  <2>1. CmdsInRing' = CmdsInRing /\ EvtsInFlight' = EvtsInFlight
    BY <1>3, CmdsKept, EvtsKept DEF ControllerInit, rxVars, txVars, ctrlVars, Handled
  <2>2. QED
    BY <1>3, <2>1 DEF ControllerInit
<1>4. ASSUME NEW p \in Packets, HostTakeCredit(p)
      PROVE  UNCHANGED Channel!vars
  <2>1. CmdsInRing' = CmdsInRing /\ EvtsInFlight' = EvtsInFlight
    BY <1>4, CmdsKept, EvtsKept DEF HostTakeCredit, rxVars, txVars, ctrlVars, Handled
  <2>2. QED
    BY <1>4, <2>1 DEF HostTakeCredit
<1>5. CASE HostCopy
  <2>1. CmdsInRing' = CmdsInRing /\ EvtsInFlight' = EvtsInFlight
    BY <1>5, CopyHidden, EvtsKept DEF HostCopy, txVars, ctrlVars
  <2>2. QED
    BY <1>5, <2>1 DEF HostCopy
<1>6. CASE HostPublish
  BY <1>6, PublishSends DEF Channel!Next
<1>7. CASE RxEmptySilent \/ RxEmpty \/ RxNotify \/ RxTake
  <2>1. /\ rxSlot' = rxSlot /\ rxW' = rxW /\ rxR' = rxR
        /\ txSlot' = txSlot /\ txW' = txW /\ txR' = txR
        /\ cb' = cb /\ lastCmd' = lastCmd /\ lastEvt' = lastEvt
        /\ ctrlPc \in {"rx", "notify"} /\ ctrlPc' \in {"tx", "notify", "handle"}
    BY <1>7 DEF RxEmptySilent, RxEmpty, RxNotify, RxTake, rxVars, txVars
  <2>2. CmdsInRing' = CmdsInRing /\ EvtsInFlight' = EvtsInFlight
    BY <2>1, CmdsKept, EvtsKept DEF Handled
  <2>3. QED
    BY <2>1, <2>2
<1>8. CASE RxHandle
  BY <1>8, HandleHandles DEF Channel!Next
<1>9. CASE RxRelease
  <2>1. CmdsInRing' = CmdsInRing /\ EvtsInFlight' = EvtsInFlight
    BY <1>9, ReleaseHidden, EvtsKept DEF RxRelease, txVars
  <2>2. QED
    BY <1>9, <2>1 DEF RxRelease
<1>10. CASE TxEmpty
  <2>1. CmdsInRing' = CmdsInRing /\ EvtsInFlight' = EvtsInFlight
    BY <1>10, CmdsKept, EvtsKept DEF TxEmpty, rxVars, txVars, Handled
  <2>2. QED
    BY <1>10, <2>1 DEF TxEmpty
<1>11. CASE TxTake
  <2>1. CmdsInRing' = CmdsInRing /\ EvtsInFlight' = EvtsInFlight
    BY <1>11, CmdsKept, TakeHidden DEF TxTake, rxVars, Handled
  <2>2. QED
    BY <1>11, <2>1 DEF TxTake
<1>12. CASE TxDeliver
  <2>1. CmdsInRing' = CmdsInRing
    BY <1>12, CmdsKept DEF TxDeliver, rxVars, Handled
  <2>2. /\ EvtsInFlight # << >> /\ Head(EvtsInFlight) = txSlot[ctrlIdx]
        /\ EvtsInFlight' = Tail(EvtsInFlight)
    BY <1>12, DeliverTakesOldest DEF TxDeliver
  <2>3. Channel!Deliver
    BY <1>12, <2>1, <2>2 DEF TxDeliver, Channel!Deliver
  <2>4. QED
    BY <2>3 DEF Channel!Next
<1>13. CASE TxDrop
  <2>1. CmdsInRing' = CmdsInRing
    BY <1>13, CmdsKept DEF TxDrop, rxVars, Handled
  <2>2. EvtsInFlight # << >> /\ EvtsInFlight' = Tail(EvtsInFlight)
    BY <1>13, DeliverTakesOldest DEF TxDrop
  <2>3. Channel!Drop
    BY <1>13, <2>1, <2>2 DEF TxDrop, Channel!Drop
  <2>4. QED
    BY <2>3 DEF Channel!Next
<1>14. ASSUME NEW e \in Events, LinkLayerProduce(e)
       PROVE  Channel!Next
  BY <1>14, ProduceProduces DEF Channel!Next
<1>15. CASE UNCHANGED vars
  <2>1. CmdsInRing' = CmdsInRing /\ EvtsInFlight' = EvtsInFlight
    BY <1>15, CmdsKept, EvtsKept DEF vars, rxVars, txVars, ctrlVars, Handled
  <2>2. QED
    BY <1>15, <2>1 DEF vars
<1>16. QED
  BY <1>1, <1>2, <1>3, <1>4, <1>5, <1>6, <1>7, <1>8, <1>9, <1>10, <1>11, <1>12, <1>13,
     <1>14, <1>15 DEF Next, Setup, Host, Controller, RxHandler, TxHandler, LinkLayer

-----------------------------------------------------------------------------
(* The rings of b91_bt.c are the two FIFO channels of HciChannel, for all  *)
(* sizes and whatever the host, the controller and the link layer do in    *)
(* between: what the handlers process and the host receives was sent,      *)
(* intact, in order and once.                                              *)
THEOREM RingsAreChannels == Spec => ImplementsChannel
<1>1. Spec => [](IInv /\ InPlace)
  <2>1. IInv /\ InPlace /\ [Next]_vars => (IInv /\ InPlace)'
    BY NextIInv, NextInPlace
  <2>2. QED
    BY <2>1, InitIInv, InitInPlace, PTL DEF Spec
<1>2. QED
  BY <1>1, InitChannel, StepChannel, PTL DEF Spec, ImplementsChannel, Channel!Spec
=============================================================================
