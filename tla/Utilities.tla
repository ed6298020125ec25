----------------------------- MODULE Utilities -----------------------------
(***************************************************************************)
(* The common helpers of the controller (ble/common/utility.c): a ring of  *)
(* equal slots with pointers that run freely and wrap with their width,    *)
(* and the functions that turn the order of bytes round.                   *)
(*                                                                         *)
(* The ring has one producer and one consumer.  Either both are in one     *)
(* context, or the consumer is an interrupt handler: then the producer     *)
(* fills the slot that my_fifo_wptr gives it and calls my_fifo_next, since *)
(* my_fifo_push counts its slot before it has copied anything into it.     *)
(***************************************************************************)
EXTENDS Integers, Sequences

CONSTANTS
  FifoNum,       \* num: slots of the ring
  FifoSize,      \* size: bytes of a slot
  PtrMod,        \* 2 to the width of wptr and rptr; 256 in the code
  FifoLens       \* lengths of what is pushed

(* The slot of a pointer is its lower bits.  A push writes two bytes of    *)
(* length in front of the data and refuses n >= size only, so the caller   *)
(* must keep away from n = size - 1 himself.                               *)
ASSUME FifoAssumption ==
  /\ FifoNum \in Nat \ {0} /\ PtrMod \in Nat /\ PtrMod % FifoNum = 0 /\ PtrMod > FifoNum
  /\ FifoSize \in Nat /\ FifoLens \subseteq Nat \ {FifoSize - 1}

VARIABLES
  fifo,          \* wptr, rptr and the slots
  fifoNested,    \* the consumer is an interrupt handler
  fifoFill,      \* the slot the producer is filling, and the limit it was got with
  fifoHeld,      \* the slot the consumer reads, or none
  fifoQueue      \* what was put in and not yet taken out, oldest first

fifoVars == <<fifo, fifoNested, fifoFill, fifoHeld, fifoQueue>>

Entries == {"a", "b"}
NoEntry == FifoNum
EntryOf(ptr) == ptr % FifoNum
Held == (fifo.wptr - fifo.rptr) % PtrMod
Following(ptr) == (ptr + 1) % PtrMod

my_fifo_init == [wptr |-> 0, rptr |-> 0, slots |-> [i \in 0 .. FifoNum - 1 |-> "none"]]

-----------------------------------------------------------------------------
(* The producer.  my_fifo_wptr and my_fifo_wptr_v2, which keeps three      *)
(* slots for others, return a slot while there is one, to be filled in     *)
(* place and counted by my_fifo_next.                                      *)
\* A full ring is told from one with room a slot too late.
FillSlotFault(free) ==
  /\ Held <= free
  /\ fifoFill' = [slot |-> EntryOf(fifo.wptr), free |-> free]
  /\ UNCHANGED <<fifo, fifoNested, fifoHeld, fifoQueue>>

FillSlot(free) ==
  /\ Held < free
  /\ fifoFill' = [slot |-> EntryOf(fifo.wptr), free |-> free]
  /\ UNCHANGED <<fifo, fifoNested, fifoHeld, fifoQueue>>

my_fifo_wptr == FillSlot(FifoNum)
my_fifo_wptr_v2 == FillSlot(FifoNum - 3)

my_fifo_next ==
  /\ fifo' = [fifo EXCEPT !.wptr = Following(@)]
  /\ fifoQueue' = Append(fifoQueue, fifo.slots[EntryOf(fifo.wptr)])
  /\ fifoFill' = [fifoFill EXCEPT !.slot = NoEntry]
  /\ UNCHANGED <<fifoNested, fifoHeld>>

\* Returns -1 and does nothing when the ring is full or the entry too long.
my_fifo_push(v, n) ==
  IF Held >= FifoNum \/ n >= FifoSize THEN UNCHANGED fifoVars
  ELSE /\ fifo' = [fifo EXCEPT !.slots[EntryOf(fifo.wptr)] = v, !.wptr = Following(@)]
       /\ fifoQueue' = Append(fifoQueue, v)
       /\ fifoFill' = [fifoFill EXCEPT !.free = FifoNum]
       /\ UNCHANGED <<fifoNested, fifoHeld>>

-----------------------------------------------------------------------------
(* The consumer uses the oldest entry where it lies, then gives it up.     *)
my_fifo_get ==
  /\ fifo.rptr # fifo.wptr
  /\ fifoHeld' = EntryOf(fifo.rptr)
  /\ UNCHANGED <<fifo, fifoNested, fifoFill, fifoQueue>>

my_fifo_pop ==
  /\ fifo' = [fifo EXCEPT !.rptr = Following(@)]
  /\ fifoQueue' = Tail(fifoQueue)
  /\ fifoHeld' = NoEntry
  /\ UNCHANGED <<fifoNested, fifoFill>>

-----------------------------------------------------------------------------
FifoInit ==
  /\ fifo = my_fifo_init
  /\ fifoNested \in BOOLEAN
  /\ fifoFill = [slot |-> NoEntry, free |-> FifoNum]
  /\ fifoHeld = NoEntry /\ fifoQueue = <<>>

(* The producer writes into the slot it was given.                         *)
WriteSlot(v) ==
  /\ fifo.slots[fifoFill.slot] # v
  /\ fifo' = [fifo EXCEPT !.slots[fifoFill.slot] = v]
  /\ UNCHANGED <<fifoNested, fifoFill, fifoHeld, fifoQueue>>

(* It fills one slot at a time, and pushes only where the consumer cannot  *)
(* come in between; the consumer pops what it has got.                     *)
FifoProducer ==
  IF fifoFill.slot = NoEntry
  THEN \/ my_fifo_wptr
       \/ my_fifo_wptr_v2
       \/ ~fifoNested /\ \E v \in Entries, n \in FifoLens : my_fifo_push(v, n)
  ELSE my_fifo_next \/ \E v \in Entries : WriteSlot(v)

FifoConsumer ==
  IF fifoHeld = NoEntry THEN (fifoNested \/ fifoFill.slot = NoEntry) /\ my_fifo_get
  ELSE my_fifo_pop

FifoNext == FifoProducer \/ FifoConsumer

-----------------------------------------------------------------------------
(* What comes out is what was put in, in that order, as it was when it was *)
(* counted, for as long as the consumer looks at it; the pointers tell how *)
(* much is in the ring; and three slots stay free of what was written      *)
(* through my_fifo_wptr_v2.                                                *)
FifoInOrder ==
  /\ Len(fifoQueue) = Held /\ Held <= FifoNum
  /\ \A i \in 1 .. Len(fifoQueue) : fifo.slots[EntryOf(fifo.rptr + i - 1)] = fifoQueue[i]
  /\ fifoHeld # NoEntry => fifoQueue # <<>> /\ fifo.slots[fifoHeld] = Head(fifoQueue)
  /\ fifoFill.free < FifoNum => Held <= fifoFill.free

-----------------------------------------------------------------------------
(* The order of bytes.  swapN exchanges pairs in place; swapX copies, and  *)
(* swap24 to swap128 and flip_addr are swapX with a length.                *)
swapX(src) == [i \in 1 .. Len(src) |-> src[Len(src) + 1 - i]]

swapN(p) ==
  LET n == Len(p)
      after[i \in 0 .. n \div 2] ==
        IF i = 0 THEN p
        ELSE [after[i - 1] EXCEPT ![i] = after[i - 1][n + 1 - i],
                                  ![n + 1 - i] = after[i - 1][i]]
  IN after[n \div 2]

(* Both turn round any string of bytes, and twice is not at all.           *)
ASSUME SwapsAgree ==
  \A n \in 0 .. 6 : \A s \in [1 .. n -> {0, 1, 255}] :
    swapN(s) = swapX(s) /\ swapX(swapN(s)) = s
=============================================================================
