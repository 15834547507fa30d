SPECIFICATION FairSpec
CONSTANTS
  Conn = {c1}
  N_CONNS = 1
  Cap = 3
  SBUFLEN = 3
  Packet = {p0}
  ZeroPacket = p0
PROPERTY DestructorReturns
