SPECIFICATION FairSpec
CONSTANTS
  Conn = {c1, c2}
  N_CONNS = 1
  Cap = 4
  SBUFLEN = 3
  Packet = {p1, p2}
INVARIANTS TypeOK WholePackets NoStrandedRead NoLeakedFd
PROPERTIES DestructorReturns
