SPECIFICATION Spec
CONSTANTS
  Sends    = 3
  Units    = 2
  SockRoom = 2
  QueueMax = 1
  RecvRoom = 1
  Incoming = 5
CHECK_DEADLOCK FALSE
INVARIANTS ConnInv ReceivedInOrder
PROPERTIES ImplementsLine EveryPacketSent
