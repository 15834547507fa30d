SPECIFICATION FairSpec
CONSTANTS
  SBUFLEN = 3
  Cap = 4
  MaxEdits = 2
  MaxExits = 1
PROPERTIES ImplementsFeed DestructorReturns RealignsItself
