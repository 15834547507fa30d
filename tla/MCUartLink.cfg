SPECIFICATION FairSpec
CONSTANTS
  SBUFLEN = 2
  Followed = 2
  Cap = 3
  MaxEdits = 1
  MaxExits = 1
INVARIANT TypeOK
PROPERTIES SameWhileInStep BlankWithoutPackets RealignsItself
