-------------------------- MODULE ControllerStart --------------------------
(***************************************************************************)
(* The start of the BLE controller: b91_bt_controller_init (b91_bt.c) and  *)
(* b91_bt_blc_init (b91_bt_init.c) hand six FIFOs to the link layer, whose *)
(* sizes and numbers b91_bt_buffer.h computes from the build's             *)
(* configuration; the controller thread runs only if all were taken.  The  *)
(* link layer itself is a binary: what it takes is what its headers say.   *)
(***************************************************************************)
EXTENDS Integers, Sequences, FiniteSets

CONSTANTS
  CmdCounts,     \* CONFIG_BT_BUF_CMD_TX_COUNT
  AclCounts,     \* CONFIG_BT_BUF_ACL_TX_COUNT
  RxCounts,      \* BT_BUF_RX_COUNT
  CmdSizes,      \* BT_BUF_CMD_SIZE(CONFIG_BT_BUF_CMD_TX_SIZE)
  AclLengths,    \* CONFIG_BT_BUF_ACL_TX_SIZE
  RxSizes        \* BT_BUF_RX_SIZE

(* Counts up to the largest power NextPowerOf2 looks at; Zephyr's are of   *)
(* one byte.                                                               *)
ASSUME StartAssumption ==
  /\ \A options \in {CmdCounts, AclCounts, RxCounts, CmdSizes, AclLengths, RxSizes} :
       options \subseteq Nat \ {0} /\ options # {}
  /\ \A n \in CmdCounts \cup AclCounts \cup RxCounts : n <= 65536

VARIABLES
  conf,          \* the configuration of this build
  startPc,       \* where the start is
  given,         \* the FIFOs the link layer has taken
  checked,       \* what the link layer's final check of the buffers said
  handlers       \* what has been registered with the link layer

startVars == <<conf, startPc, given, checked, handlers>>

Configurations ==
  [cmd : CmdCounts, acl : AclCounts, rx : RxCounts,
   cmdSize : CmdSizes, aclLen : AclLengths, rxSize : RxSizes,
   central : BOOLEAN, peripheral : BOOLEAN, pm : BOOLEAN]

-----------------------------------------------------------------------------
(* The macros.                                                             *)
Larger(a, b) == IF a > b THEN a ELSE b

NextPowerOf2Fault(x) ==      \* the largest power that is not above x
  LET p == {q \in {2^i : i \in 0 .. 16} : q <= x}
  IN  CHOOSE q \in p : \A r \in p : r <= q

NextPowerOf2(x) ==
  LET p == {q \in {2^i : i \in 0 .. 16} : q >= x}
  IN  CHOOSE q \in p : \A r \in p : q <= r

AclBufNum(x) == IF x <= 9 THEN 9 ELSE IF x <= 17 THEN 17 ELSE 33

Align(x, a) == IF x % a = 0 THEN x ELSE (x \div a) * a + a
Round16(x) == ((x + 15) \div 16) * 16

(* BT_BUF_ACL_SIZE: a packet with its four bytes of header.                *)
AclSize == conf.aclLen + 4

FifoNames == {"acl_rx", "acl_master_tx", "acl_slave_tx", "hci_rx", "hci_tx", "hci_acl"}

(* In the order in which b91_bt_blc_init hands them over.                  *)
Order ==
  <<"acl_rx", "acl_master_tx", "acl_slave_tx", "hci_rx", "hci_tx", "hci_acl">>

Needed ==
  FifoNames \ ((IF conf.central THEN {} ELSE {"acl_master_tx"})
               \cup (IF conf.peripheral THEN {} ELSE {"acl_slave_tx"}))

IsAclTx(f) == f \in {"acl_master_tx", "acl_slave_tx"}

FifoNum(f) ==
  CASE IsAclTx(f) -> AclBufNum(conf.acl)
    [] f = "hci_rx" -> NextPowerOf2(Larger(conf.cmd, conf.acl))
    [] f = "hci_acl" -> NextPowerOf2(conf.acl)
    [] OTHER -> NextPowerOf2(conf.rx)

FifoSize(f) ==
  CASE f = "acl_rx" -> Round16(conf.rxSize + 21)
    [] IsAclTx(f) -> Round16(conf.aclLen + 10)
    [] f = "hci_rx" -> Round16(Larger(conf.cmdSize, AclSize) + 6)
    [] f = "hci_tx" -> Round16(conf.rxSize + 6)
    [] f = "hci_acl" -> Align(AclSize, 4)

(* What the link layer can work with.                                      *)
LegalNum(f) == FifoNum(f) \in (IF IsAclTx(f) THEN {9, 17, 33} ELSE {4, 8, 16, 32})

-----------------------------------------------------------------------------
Starting(confs) ==
  /\ conf \in confs
  /\ startPc = "off"
  /\ given = {}
  /\ checked = FALSE
  /\ handlers = {}

StartInit == Starting(Configurations)

(* Interrupt lines, the radio, the addresses, the link layer's modules.    *)
SetUpModules ==
  /\ startPc = "off"
  /\ startPc' = "fifos"
  /\ UNCHANGED <<conf, given, checked, handlers>>

NextFifo ==
  LET left == {i \in 1 .. 6 : Order[i] \in Needed \ given}
  IN  Order[CHOOSE i \in left : \A j \in left : i <= j]

(* A number the link layer is not made for is refused, if it looks.        *)
GiveFifo ==
  /\ startPc = "fifos"
  /\ Needed # given
  /\ \/ given' = given \cup {NextFifo} /\ UNCHANGED startPc
     \/ ~LegalNum(NextFifo) /\ startPc' = "failed" /\ UNCHANGED given
  /\ UNCHANGED <<conf, checked, handlers>>

(* The data and event handlers, the event masks, the check of the buffers. *)
CheckBuffers ==
  /\ startPc = "fifos"
  /\ Needed = given
  /\ checked' \in BOOLEAN
  /\ handlers' = handlers \cup {"data", "event"}
  /\ startPc' = IF checked' THEN "register" ELSE "failed"
  /\ UNCHANGED <<conf, given>>

RegisterHandlers ==
  /\ startPc = "register"
  /\ handlers' = handlers \cup {"hci"} \cup (IF conf.pm THEN {"pm", "wakeup"} ELSE {})
  /\ startPc' = "ready"
  /\ UNCHANGED <<conf, given, checked>>

(* k_thread_start.                                                         *)
StartThread ==
  /\ startPc = "ready"
  /\ startPc' = "running"
  /\ UNCHANGED <<conf, given, checked, handlers>>

StartNext ==
  SetUpModules \/ GiveFifo \/ CheckBuffers \/ RegisterHandlers \/ StartThread

-----------------------------------------------------------------------------
StartTypeOK ==
  /\ conf \in Configurations
  /\ startPc \in {"off", "fifos", "register", "ready", "running", "failed"}
  /\ given \subseteq FifoNames
  /\ checked \in BOOLEAN
  /\ handlers \subseteq {"data", "event", "hci", "pm", "wakeup"}

(* The bytes one entry of a FIFO must hold: the packet with what the       *)
(* hardware, the link layer or b91_bt_host_send_packet puts around it.     *)
EntryNeeds(f) ==
  CASE f = "acl_rx" -> conf.rxSize + 4 + 2 + 4 + 3 + 8
    [] IsAclTx(f) -> conf.aclLen + 4 + 2 + 4
    [] f = "hci_rx" -> 1 + Larger(conf.cmdSize, AclSize)
    [] f = "hci_tx" -> 2 + 1 + conf.rxSize
    [] f = "hci_acl" -> AclSize

Asked(f) ==
  CASE IsAclTx(f) \/ f = "hci_acl" -> conf.acl
    [] f = "hci_rx" -> Larger(conf.cmd, conf.acl)
    [] OTHER -> conf.rx

(* Whatever the configuration, an entry holds the longest packet with all  *)
(* that is put around it and keeps the next one aligned, and there are as  *)
(* many entries as asked for, up to the 33 the link layer can take.        *)
BuffersFit ==
  \A f \in given :
    /\ FifoSize(f) >= EntryNeeds(f)
    /\ FifoSize(f) % (IF f = "hci_acl" THEN 4 ELSE 16) = 0
    /\ FifoNum(f) >= (IF IsAclTx(f) /\ Asked(f) > 33 THEN 33 ELSE Asked(f))

(* The controller thread runs only over a link layer that has all its      *)
(* buffers and handlers and has found them in order.                       *)
RunsConfigured ==
  startPc = "running"
    => /\ given = Needed
       /\ checked
       /\ {"data", "event", "hci"} \subseteq handlers
       /\ conf.pm => {"pm", "wakeup"} \subseteq handlers

(* With three to 32 buffers of each kind the start fails only if the link  *)
(* layer's own check does: the macros always find it a number it can take. *)
UsualCountsAccepted ==
  startPc = "failed" /\ {Larger(conf.cmd, conf.acl), conf.acl, conf.rx} \subseteq 3 .. 32
    => ~checked /\ given = Needed

(* The start ends, for every configuration, with buffers the link layer    *)
(* can use and its thread over them, or fails where it must.               *)
StartsConfigured == BuffersFit /\ RunsConfigured /\ UsualCountsAccepted

(* The start ends, one way or the other.                                   *)
StartEnds == (startPc = "off") ~> (startPc \in {"running", "failed"})
=============================================================================
