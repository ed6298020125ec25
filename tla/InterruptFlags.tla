--------------------------- MODULE InterruptFlags --------------------------
(***************************************************************************)
(* The interrupt masks and flags of the peripherals, as the inline         *)
(* functions of their headers change them, and the interrupt controller    *)
(* (plic.h).  A thread switches interrupts on and off; a handler claims    *)
(* its source, looks at each flag, clears what it saw and completes; the   *)
(* hardware raises events at any time.                                     *)
(*                                                                         *)
(* A flag is cleared by writing a one to it.  Some functions write only    *)
(* the flags they are given; others read the register first, and write     *)
(* back as a one whatever else they read there.  One peripheral and two of *)
(* its events are enough: a call names one event and disturbs another.     *)
(***************************************************************************)
EXTENDS Integers

CONSTANT IrqCases       \* the peripherals a behaviour may look at, and events of each

VARIABLES
  irqPort, irqUsed,    \* the peripheral, and its events that occur
  irqFlags,            \* events whose flag is set
  irqMask,             \* events whose interrupt is switched on in the peripheral
  irqAsked,            \* events the thread has switched on last
  irqLost,             \* flags cleared by a call that named another
  irqThread,           \* the thread's call: what it does, and what it has read
  irqHandler,          \* the handler: what is left to look at, what it has read
  plic                 \* enable bit, priority, threshold, pending, in service

irqVars == <<irqPort, irqUsed, irqFlags, irqMask, irqAsked, irqLost, irqThread,
             irqHandler, plic>>

-----------------------------------------------------------------------------
(* The events of each peripheral, by the enumeration that names them.      *)
uart_irq_mask_e == {"RXDONE", "RXBUF", "RX_ERR", "TXDONE", "TXBUF"}
spi_irq_mask == {"RXF_OR", "TXF_UR", "RXF", "TXF", "END", "SLV_CMD"}
i2c_irq_clr_e == {"TXDONE"}                  \* the others follow the fifos
rf_irq_e ==
  {"RX", "TX", "RX_TIMEOUT", "RX_FIFO_FULL", "RX_CRC_2", "CMD_DONE", "FSM_TIMEOUT",
   "TX_RETRYCNT", "TX_DS", "RX_DR", "FIRST_TIMEOUT", "INVALID_PID", "STX_TIMEOUT"}
pwm_irq_e ==
  {"PNUM", "IR_DMA_FIFO", "FRAME0", "FRAME1", "FRAME2", "FRAME3", "FRAME4", "FRAME5", "IR_FIFO"}
stimer_irq_e == {"IRQ", "32K_IRQ"}
dma_irq_chn_e == {"TC0", "TC1", "ERR0", "ERR1", "ABT0", "ABT1"}    \* of two channels
usb_ep_irq_e == {"EDP1", "EDP2", "EDP3", "EDP4", "EDP5", "EDP6", "EDP7", "EDP8"}
usb_irq_status_e == {"RESET", "250US", "SUSPEND"}
pm_wakeup_status_e == {"COMPARATOR", "TIMER", "CORE", "PAD", "MDEC"}
aes_irq_e == {"CRYPT"}
pke_status_e == {"DONE"}

(* What the functions of each do unlike the others': they read the status  *)
(* before they clear a flag of it, they keep mask and status in one        *)
(* register, or they never switch an interrupt off.                        *)
Flags(events, quirks) == [events |-> events, quirks |-> quirks]

UartFlags == Flags(uart_irq_mask_e, {"reads first"})

\* spi_clr_irq_status with |= for =
SpiFlagsFault == Flags(spi_irq_mask, {"reads first"})

SpiFlags == Flags(spi_irq_mask, {})

I2cFlags == Flags(i2c_irq_clr_e, {})
RfFlags == Flags(rf_irq_e, {})
PwmFlags == Flags(pwm_irq_e, {"reads first", "never off"})
StimerFlags == Flags(stimer_irq_e, {})
DmaFlags == Flags(dma_irq_chn_e, {})
UsbEpFlags == Flags(usb_ep_irq_e, {})
UsbFlags == Flags(usb_irq_status_e, {"reads first", "one register"})
MdecFlags == Flags(pm_wakeup_status_e, {"reads first"})
AesFlags == Flags(aes_irq_e, {})
PkeFlags == Flags(pke_status_e, {})

Peripheral ==
  [uart |-> UartFlags, spi |-> SpiFlags, i2c |-> I2cFlags, rf |-> RfFlags, pwm |-> PwmFlags,
   stimer |-> StimerFlags, dma |-> DmaFlags, usb_ep |-> UsbEpFlags, usb |-> UsbFlags,
   mdec |-> MdecFlags, aes |-> AesFlags, pke |-> PkeFlags]

Quirk(p, q) == q \in Peripheral[p].quirks

ASSUME IrqAssumption ==
  \A c \in IrqCases : c[1] \in DOMAIN Peripheral /\ c[2] \subseteq Peripheral[c[1]].events

(* Flags of one register: the PWM has a second one.                        *)
SameStatus(p, a, b) == p = "pwm" => (a = "IR_FIFO") = (b = "IR_FIFO")

(* What a store to the status register clears.  The UART has one bit to    *)
(* clear what it received, one for what it sent.                           *)
Receives(e) == e \in {"RXDONE", "RXBUF", "RX_ERR"}
ClearedBy(p, e) ==
  IF p = "uart" THEN {f \in uart_irq_mask_e : Receives(f) = Receives(e)} ELSE {e}

(* What the register reads as, as events a store of it would clear: in the *)
(* UART's, bit 7 is the error, bit 6 the highest of the send counter.      *)
ReadsAs(p, e) ==
  IF p = "uart"
  THEN {(IF "RX_ERR" \in irqFlags THEN ClearedBy(p, "TXDONE") ELSE {}) \cup s :
          s \in {{}, ClearedBy(p, "RXDONE")}}
  ELSE {{f \in irqFlags : SameStatus(p, f, e)}}

-----------------------------------------------------------------------------
(* The hardware.                                                           *)
RaiseEvent(e) ==
  /\ e \in irqUsed \ irqFlags
  /\ irqFlags' = irqFlags \cup {e}
  /\ UNCHANGED <<irqPort, irqUsed, irqMask, irqAsked, irqLost, irqThread, irqHandler, plic>>

(* A store clears the flags it names and, unintended, those in copy.       *)
StoreStatus(named, copy) ==
  /\ irqFlags' = irqFlags \ (named \cup copy)
  /\ irqLost' = irqLost \cup ((copy \ named) \cap irqFlags)

-----------------------------------------------------------------------------
(* The thread: X_set_irq_mask and X_clr_irq_mask, a load and a store.  The *)
(* mask of the USB lies in the register with its status.                   *)
NoCall == [does |-> "nothing", event |-> "none", copy |-> {}]

MaskBegin(on, e) ==
  /\ irqThread = NoCall /\ irqHandler.at = "out" /\ e \in irqUsed
  /\ irqThread' = [does |-> IF on THEN "set" ELSE "clr", event |-> e,
                   copy |-> IF Quirk(irqPort, "one register") THEN irqFlags ELSE {}]
  /\ UNCHANGED <<irqPort, irqUsed, irqFlags, irqMask, irqAsked, irqLost, irqHandler, plic>>

MaskAfter(on, e) ==
  IF on \/ Quirk(irqPort, "never off") THEN irqMask \cup {e} ELSE irqMask \ {e}

MaskEnd ==
  /\ irqThread # NoCall /\ irqHandler.at = "out"
  /\ LET on == irqThread.does = "set"
         e == irqThread.event
     IN /\ irqMask' = MaskAfter(on, e)
        /\ irqAsked' = IF on THEN irqAsked \cup {e} ELSE irqAsked \ {e}
  /\ StoreStatus({}, irqThread.copy)
  /\ irqThread' = NoCall
  /\ UNCHANGED <<irqPort, irqUsed, irqHandler, plic>>

-----------------------------------------------------------------------------
(* The controller.  It forwards a source that is enabled, whose priority   *)
(* is above the threshold, and that no handler has claimed.                *)
Interrupting == irqFlags \cap irqMask # {}
Forwards == plic.enabled /\ plic.priority > plic.threshold /\ ~plic.inService

PlicChange(new) ==
  /\ irqThread = NoCall /\ irqHandler.at = "out"
  /\ plic' = new
  /\ UNCHANGED <<irqPort, irqUsed, irqFlags, irqMask, irqAsked, irqLost, irqThread, irqHandler>>

plic_interrupt_enable == PlicChange([plic EXCEPT !.enabled = TRUE])
plic_interrupt_disable == PlicChange([plic EXCEPT !.enabled = FALSE])
plic_set_threshold(t) == PlicChange([plic EXCEPT !.threshold = t])
plic_set_priority(p) == PlicChange([plic EXCEPT !.priority = p])
plic_set_pending == PlicChange([plic EXCEPT !.pending = TRUE])

plic_interrupt_claim ==
  /\ irqHandler.at = "out" /\ Forwards /\ (Interrupting \/ plic.pending)
  /\ plic' = [plic EXCEPT !.inService = TRUE, !.pending = FALSE]
  /\ irqHandler' = [at |-> "look", left |-> irqUsed, event |-> "none", copy |-> {}]
  /\ UNCHANGED <<irqPort, irqUsed, irqFlags, irqMask, irqAsked, irqLost, irqThread>>

plic_interrupt_complete ==
  /\ irqHandler.at = "look" /\ irqHandler.left = {}
  /\ plic' = [plic EXCEPT !.inService = FALSE]
  /\ irqHandler' = [irqHandler EXCEPT !.at = "out"]
  /\ UNCHANGED <<irqPort, irqUsed, irqFlags, irqMask, irqAsked, irqLost, irqThread>>

-----------------------------------------------------------------------------
(* The handler, event by event: X_get_irq_status, then X_clr_irq_status.   *)
GetStatus(e) ==
  /\ irqHandler.at = "look" /\ e \in irqHandler.left
  /\ IF e \in irqFlags
     THEN \E copy \in IF Quirk(irqPort, "reads first") THEN ReadsAs(irqPort, e) ELSE {{}} :
            irqHandler' = [irqHandler EXCEPT !.at = "clear", !.event = e, !.copy = copy]
     ELSE irqHandler' = [irqHandler EXCEPT !.left = @ \ {e}]
  /\ UNCHANGED <<irqPort, irqUsed, irqFlags, irqMask, irqAsked, irqLost, irqThread, plic>>

ClrStatus ==
  /\ irqHandler.at = "clear"
  /\ StoreStatus(ClearedBy(irqPort, irqHandler.event), irqHandler.copy)
  /\ irqHandler' = [irqHandler EXCEPT !.at = "look", !.left = @ \ {irqHandler.event},
                                      !.event = "none", !.copy = {}]
  /\ UNCHANGED <<irqPort, irqUsed, irqMask, irqAsked, irqThread, plic>>

-----------------------------------------------------------------------------
IrqInit ==
  /\ \E c \in IrqCases : irqPort = c[1] /\ irqUsed = c[2]
  /\ irqFlags = {} /\ irqMask = {} /\ irqAsked = {} /\ irqLost = {}
  /\ irqThread = NoCall
  /\ irqHandler = [at |-> "out", left |-> {}, event |-> "none", copy |-> {}]
  /\ plic = [enabled |-> FALSE, priority |-> 1, threshold |-> 0, pending |-> FALSE,
             inService |-> FALSE]

IrqNext ==
  \/ \E e \in irqUsed : RaiseEvent(e) \/ GetStatus(e)
  \/ \E e \in irqUsed, on \in BOOLEAN : MaskBegin(on, e)
  \/ MaskEnd \/ ClrStatus
  \/ plic_interrupt_enable \/ plic_interrupt_disable \/ plic_set_pending
  \/ \E n \in {0, 1} : plic_set_threshold(n) \/ plic_set_priority(n)
  \/ plic_interrupt_claim \/ plic_interrupt_complete

-----------------------------------------------------------------------------
(* An event is only forgotten by the call that names it, except where the  *)
(* functions read the register they clear: there a second event that the   *)
(* handler has not come to, or the thread has not noticed, is gone.        *)
EventsKept == irqLost # {} => irqPort \in {"uart", "pwm", "usb", "mdec"}

(* What the thread has switched on interrupts, what it has switched off    *)
(* does not, except that no function switches an interrupt of the PWM off. *)
MasksAsAsked ==
  irqThread = NoCall =>
    /\ irqAsked \subseteq irqMask
    /\ irqPort # "pwm" => irqMask = irqAsked

(* Switching interrupts on and off, and handling them one by one, neither  *)
(* forgets an event nor leaves another mask than the one asked for.        *)
InterruptsKept == EventsKept /\ MasksAsAsked
=============================================================================
