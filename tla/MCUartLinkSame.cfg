SPECIFICATION LogSpec
CONSTANTS
  SBUFLEN = 2
  Followed = 2
  Cap = 3
  MaxEdits = 1
  MaxExits = 0
PROPERTY SameAsTCP
