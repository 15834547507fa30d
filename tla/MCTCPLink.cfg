SPECIFICATION FairSpec
CONSTANTS
  Conn = {c1, c2}
  N_CONNS = 1
  Cap = 2
  SBUFLEN = 2
  MaxEdits = 2
  MaxExits = 1
PROPERTIES EachAsSpecified ImplementsSpeedometer ShowsLastEdit BlankWithoutServer
