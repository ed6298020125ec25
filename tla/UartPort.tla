------------------------------ MODULE UartPort ------------------------------
(***************************************************************************)
(* The UART ports of the B91 (drivers/B91/uart.c, uart.h, dma.h).          *)
(*                                                                         *)
(* Without DMA, bytes pass through a data register four bytes wide.  The   *)
(* FIFOs behind it take and give their bytes lane after lane, and the      *)
(* driver keeps the number of the next lane in static variables, one per   *)
(* width, which a reset of the port does not touch.  The bytes of each     *)
(* direction are numbered from the last reset on, modulo UartNumbers.      *)
(*                                                                         *)
(* With DMA, a transmit is started by uart_send_dma and polled with        *)
(* uart_tx_is_busy; a receive is started by uart_receive_dma, ends when    *)
(* the line stays idle, and its length is computed by                      *)
(* uart_get_dma_rev_data_len from what is left of the size the channel was *)
(* given.  The two ports share uart_dma_rev_size.                          *)
(***************************************************************************)
EXTENDS Integers, Sequences

CONSTANTS
  UartDepth,        \* bytes each hardware FIFO holds (8)
  UartNumbers,      \* bytes are numbered modulo this
  HalfWordResets,   \* a sender of half-words resets the port at any time
  DmaPorts,         \* UART0, UART1: the ports the application receives on
  RevSizes          \* sizes of the receive buffers, in bytes

ASSUME UartPortAssumption ==
  /\ UartDepth = 8
  /\ UartNumbers \in Nat /\ UartNumbers > UartDepth
  /\ HalfWordResets \in BOOLEAN

(* uart_get_dma_rev_data_len divides rev_size by four; of a size that is   *)
(* not a whole number of words, dma_set_size puts the rest in bits 22, 23. *)
ASSUME RevSizesAssumption ==
  /\ RevSizes \subseteq Nat \ {0}
  /\ \A size \in RevSizes : size % 4 = 0

VARIABLES
  uartWidth,            \* bytes per call, of the sender
  uart_tx_byte_index,   \* the driver's lane, of uart_send_byte
  uart_tx_hword_index,  \* of uart_send_hword, in half-words
  uart_rx_byte_index,   \* of uart_read_byte
  uartTx,               \* the transmit FIFO
  uartTxLane,           \* hardware: the lane it takes the next byte from
  uartSent,             \* number of the next byte passed to the driver
  uartRx,               \* the receive FIFO
  uartRxLane,           \* hardware: the lane of the oldest received byte
  uartCame,             \* number of the next byte received from the line
  uartRead,             \* the byte uart_read_byte returned last
  uartOwed              \* directions whose index is to be cleared since a reset

uartTxVars == <<uart_tx_byte_index, uart_tx_hword_index, uartTx, uartTxLane, uartSent>>
uartRxVars == <<uart_rx_byte_index, uartRx, uartRxLane, uartCame, uartRead>>
uartVars == <<uartWidth, uartTxVars, uartRxVars, uartOwed>>

Stale == -1         \* what a lane holds that the hardware did not expect

Number(n) == n % UartNumbers

UartFifoInit ==
  /\ uartWidth \in {1, 2, 4}
  /\ uart_tx_byte_index = 0 /\ uart_tx_hword_index = 0 /\ uart_rx_byte_index = 0
  /\ uartTx = <<>> /\ uartTxLane = 0 /\ uartSent = 0
  /\ uartRx = <<>> /\ uartRxLane = 0 /\ uartCame = 0 /\ uartRead = Number(-1)
  /\ uartOwed = {}

-----------------------------------------------------------------------------
uart_get_txfifo_num == Len(uartTx)
uart_get_rxfifo_num == Len(uartRx)

(* A store of some bytes at a lane of the data register.                   *)
StoreAt(lane, bytes) ==
  /\ uartTx' = uartTx \o [k \in 1 .. bytes |->
                          IF lane = uartTxLane THEN Number(uartSent + k - 1) ELSE Stale]
  /\ uartTxLane' = (uartTxLane + bytes) % 4
  /\ uartSent' = Number(uartSent + bytes)
  /\ UNCHANGED <<uartWidth, uartRxVars, uartOwed>>

uart_send_byte ==
  /\ uart_get_txfifo_num <= 7
  /\ StoreAt(uart_tx_byte_index, 1)
  /\ uart_tx_byte_index' = (uart_tx_byte_index + 1) % 4
  /\ UNCHANGED uart_tx_hword_index

uart_send_hwordFault ==     \* waits for room for a byte only
  /\ uart_get_txfifo_num <= 7
  /\ StoreAt(2 * uart_tx_hword_index, 2)
  /\ uart_tx_hword_index' = (uart_tx_hword_index + 1) % 2
  /\ UNCHANGED uart_tx_byte_index

uart_send_hword ==
  /\ uart_get_txfifo_num <= 6
  /\ StoreAt(2 * uart_tx_hword_index, 2)
  /\ uart_tx_hword_index' = (uart_tx_hword_index + 1) % 2
  /\ UNCHANGED uart_tx_byte_index

uart_send_word ==
  /\ uart_get_txfifo_num <= 4
  /\ StoreAt(0, 4)
  /\ UNCHANGED <<uart_tx_byte_index, uart_tx_hword_index>>

uart_read_byteFault ==      \* the mask of the index left out
  /\ uartRead' = IF uart_rx_byte_index = uartRxLane THEN Head(uartRx) ELSE Stale
  /\ uartRx' = Tail(uartRx)
  /\ uartRxLane' = (uartRxLane + 1) % 4
  /\ uart_rx_byte_index' = uart_rx_byte_index + 1
  /\ UNCHANGED <<uartWidth, uartTxVars, uartCame, uartOwed>>

uart_read_byte ==
  /\ uartRead' = IF uart_rx_byte_index = uartRxLane THEN Head(uartRx) ELSE Stale
  /\ uartRx' = Tail(uartRx)
  /\ uartRxLane' = (uartRxLane + 1) % 4
  /\ uart_rx_byte_index' = (uart_rx_byte_index + 1) % 4
  /\ UNCHANGED <<uartWidth, uartTxVars, uartCame, uartOwed>>

(* The hardware begins anew, and the driver's indices stay.                *)
uart_reset ==
  /\ uartTx' = <<>> /\ uartTxLane' = 0 /\ uartSent' = 0
  /\ uartRx' = <<>> /\ uartRxLane' = 0 /\ uartCame' = 0 /\ uartRead' = Number(-1)
  /\ uartOwed' = {"tx", "rx"}
  /\ UNCHANGED <<uartWidth, uart_tx_byte_index, uart_tx_hword_index, uart_rx_byte_index>>

uart_clr_tx_index ==
  /\ uart_tx_byte_index' = 0
  /\ uartOwed' = uartOwed \ {"tx"}
  /\ UNCHANGED <<uartWidth, uart_tx_hword_index, uartTx, uartTxLane, uartSent, uartRxVars>>

uart_clr_rx_index ==
  /\ uart_rx_byte_index' = 0
  /\ uartOwed' = uartOwed \ {"rx"}
  /\ UNCHANGED <<uartWidth, uartTxVars, uartRx, uartRxLane, uartCame, uartRead>>

(* Hardware: the shift register takes the oldest byte.                     *)
UartShiftOut ==
  /\ uartTx # <<>>
  /\ uartTx' = Tail(uartTx)
  /\ UNCHANGED <<uartWidth, uart_tx_byte_index, uart_tx_hword_index, uartTxLane, uartSent,
                 uartRxVars, uartOwed>>

(* Hardware: a byte arrives; the peer respects the RTS line.               *)
UartShiftIn ==
  /\ Len(uartRx) < UartDepth
  /\ uartRx' = Append(uartRx, uartCame)
  /\ uartCame' = Number(uartCame + 1)
  /\ UNCHANGED <<uartWidth, uartTxVars, uart_rx_byte_index, uartRxLane, uartRead, uartOwed>>

(* The application sends in one width, reads what is there, and after a    *)
(* reset (or a sleep, which does the same to the port) clears each index   *)
(* before it uses the direction, as the comments of the two functions ask. *)
(* Nothing clears the index of half-words.                                 *)
UartCaller ==
  \/ uartWidth = 1 /\ "tx" \notin uartOwed /\ uart_send_byte
  \/ uartWidth = 2 /\ uart_send_hword
  \/ uartWidth = 4 /\ uart_send_word
  \/ uart_get_rxfifo_num > 0 /\ "rx" \notin uartOwed /\ uart_read_byte
  \/ (uartWidth = 2 => HalfWordResets \/ uart_tx_hword_index = 0) /\ uart_reset
  \/ "tx" \in uartOwed /\ uart_clr_tx_index
  \/ "rx" \in uartOwed /\ uart_clr_rx_index

UartFifoNext == UartCaller \/ UartShiftOut \/ UartShiftIn

-----------------------------------------------------------------------------
(* With DMA.                                                               *)
VARIABLES
  sendPc,           \* where the caller is in uart_send_dma
  txDone,           \* FLD_UART_TX_DONE of the sending port, 1 by default
  txOn,             \* the transmit channel moves bytes
  uart_dma_rev_size,
  rev               \* per port, the receive channel and what it was asked

dmaTxVars == <<sendPc, txDone, txOn>>
dmaRxVars == <<uart_dma_rev_size, rev>>
dmaVars == <<dmaTxVars, dmaRxVars>>

NoLength == -1

Stopped == [on |-> FALSE, size |-> 0, got |-> 0, len |-> NoLength]

UartDmaInit ==
  /\ sendPc = "idle" /\ txDone = TRUE /\ txOn = FALSE
  /\ uart_dma_rev_size = 0
  /\ rev = [port \in DmaPorts |-> Stopped]

(* uart_send_dma.  A length of 0 is refused before anything is touched.    *)
SendOrderFault ==           \* the flag is cleared after the channel starts
  [call |-> "start", start |-> "clear", clear |-> "idle"]

SendOrder == [call |-> "clear", clear |-> "start", start |-> "idle"]

uart_tx_is_busy == ~txDone

UartSendDma ==
  /\ sendPc = "idle"
  /\ sendPc' = SendOrder.call
  /\ UNCHANGED <<txDone, txOn, dmaRxVars>>

uart_clr_tx_done ==
  /\ sendPc = "clear"
  /\ txDone' = FALSE
  /\ sendPc' = SendOrder.clear
  /\ UNCHANGED <<txOn, dmaRxVars>>

UartStartChannel ==         \* dma_set_address, dma_set_size, dma_chn_en
  /\ sendPc = "start"
  /\ txOn' = TRUE
  /\ sendPc' = SendOrder.start
  /\ UNCHANGED <<txDone, dmaRxVars>>

(* Hardware: the last byte of the transfer has left the port.              *)
UartTransmitted ==
  /\ txOn
  /\ txOn' = FALSE
  /\ txDone' = TRUE
  /\ UNCHANGED <<sendPc, dmaRxVars>>

(* uart_receive_dma stops the channel before it sets it up again.  Bytes   *)
(* of a word that was not complete wait in the port for the new transfer.  *)
Waiting(port) == IF rev[port].on THEN rev[port].got % 4 ELSE 0

uart_receive_dma(port, size) ==
  /\ uart_dma_rev_size' = size
  /\ rev' = [rev EXCEPT ![port] =
               [on |-> TRUE, size |-> size, got |-> Waiting(port), len |-> NoLength]]
  /\ UNCHANGED dmaTxVars

(* Hardware: a byte arrives.  "rev_size must be larger than the data".     *)
UartReceive(port) ==
  /\ rev[port].on
  /\ rev[port].got + 1 < rev[port].size
  /\ rev' = [rev EXCEPT ![port].got = @ + 1]
  /\ UNCHANGED <<dmaTxVars, uart_dma_rev_size>>

(* dma_set_size: words, rounded up, and the bytes of the last one in bits  *)
(* 22 and 23.  The channel counts the words down.                          *)
Words(bytes) == (bytes + 3) \div 4
SizeRegister(port) ==
  Words(rev[port].size) - Words(rev[port].got) + (rev[port].size % 4) * 2^22

(* The channel has moved the last word, full or not; FLD_UART_RBCNT still  *)
(* tells the bytes of a word that is not.                                  *)
uart_get_dma_rev_data_len(port) ==
  LET buff_data_len == rev[port].got % 4
      words == (uart_dma_rev_size \div 4) - SizeRegister(port)
  IN IF buff_data_len = 0 THEN 4 * words ELSE 4 * (words - 1) + buff_data_len

(* The line stays idle for the time-out, and the RXDONE handler asks for   *)
(* the length.                                                             *)
UartRevDone(port) ==
  /\ rev[port].on
  /\ rev[port].got > 0
  /\ rev' = [rev EXCEPT ![port].on = FALSE, ![port].len = uart_get_dma_rev_data_len(port)]
  /\ UNCHANGED <<dmaTxVars, uart_dma_rev_size>>

UartSending == uart_clr_tx_done \/ UartStartChannel \/ UartTransmitted

(* The caller polls uart_tx_is_busy before it sends again.                 *)
UartDmaNext ==
  \/ ~uart_tx_is_busy /\ UartSendDma
  \/ UartSending
  \/ \E port \in DmaPorts :
       \/ \E size \in RevSizes : uart_receive_dma(port, size)
       \/ UartReceive(port)
       \/ UartRevDone(port)

-----------------------------------------------------------------------------
UartByte == 0 .. UartNumbers - 1

UartFifoTypeOK ==
  /\ uartWidth \in {1, 2, 4}
  /\ uartTx \in Seq(UartByte \cup {Stale}) /\ uartRx \in Seq(UartByte)
  /\ uartTxLane \in 0 .. 3 /\ uartRxLane \in 0 .. 3
  /\ uart_tx_byte_index \in 0 .. 3 /\ uart_tx_hword_index \in 0 .. 1
  /\ uart_rx_byte_index \in 0 .. 3
  /\ uartSent \in UartByte /\ uartCame \in UartByte
  /\ uartRead \in UartByte \cup {Stale}
  /\ uartOwed \subseteq {"tx", "rx"}

UartDmaTypeOK ==
  /\ sendPc \in {"idle", "clear", "start"}
  /\ txDone \in BOOLEAN /\ txOn \in BOOLEAN
  /\ uart_dma_rev_size \in RevSizes \cup {0}
  /\ rev \in [DmaPorts -> [on : BOOLEAN, size : RevSizes \cup {0}, got : Nat, len : Int]]
  /\ \A port \in DmaPorts : rev[port].got <= rev[port].size

(* What waits in the transmit FIFO is the end of what the application has  *)
(* sent, complete and in order, although the driver only counts lanes, and *)
(* no call has written more bytes than the FIFO had room for; and bytes    *)
(* are read in the order they came, none skipped or read twice.            *)
UartInOrder ==
  /\ Len(uartTx) <= UartDepth
  /\ \A k \in DOMAIN uartTx : uartTx[k] = Number(uartSent - Len(uartTx) + k - 1)
  /\ uartRead = Number(uartCame - Len(uartRx) - 1)

(* "This function serves to get the length of the data that dma received"  *)
(* (uart.c:577): the length reported is the number of bytes that came.     *)
RevLengthExact ==
  \A port \in DmaPorts : rev[port].len # NoLength => rev[port].len = rev[port].got

(* A transmit that uart_send_dma started is reported done in the end, and  *)
(* the caller that polls uart_tx_is_busy before the next one goes on.      *)
TxDoneReported == sendPc # "idle" ~> (sendPc = "idle" /\ txDone)
=============================================================================
