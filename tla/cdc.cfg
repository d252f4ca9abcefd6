SPECIFICATION Spec
CONSTANTS
  EP0_BUFSIZE = 8
  FifoSize = 4
  Window = 2
  PacketSizes = {1, 8, 64}
INVARIANTS TypeOK EchoInOrder EndpointsServed
PROPERTIES EchoEnds HostConfigures
CHECK_DEADLOCK FALSE
