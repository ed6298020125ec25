\* Both directions share the controller thread.  Two packets and two events
\* show every change of order.  The host's ring has the CreditLimit + 2 slots
\* it needs, the other one slot more than the link layer leaves free.
CONSTANTS
  p1 = p1
  p2 = p2
  e1 = e1
  e2 = e2
  Packets = {p1, p2}
  Events = {e1, e2}
  RxSlots = 3
  TxSlots = 2
  PtrMod = 6
  CreditLimit = 1
  TxReserve = 1
  None = None
SPECIFICATION FairSpec
INVARIANTS
  TypeOK
  NoRxOverrun
  NoTxReuse
PROPERTIES
  ImplementsFairChannel
  CreditReturns
