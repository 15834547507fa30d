SPECIFICATION FairSpec
CONSTANTS
  Conn = {c1, c2}
  N_CONNS = 0
  Cap = 2
  SBUFLEN = 2
  Packet = {p0, p1}
  ZeroPacket = p0
INVARIANTS TypeOK NoLeakedSocket
PROPERTIES Terminates DropsDeadClient WaitsBehindOneServed
