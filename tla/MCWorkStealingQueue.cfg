CONSTANTS
  Capacity = 2
  Thieves = {h1, h2}
  MaxPush = 4
SPECIFICATION FairSpec
INVARIANTS NoItemTakenTwice NoItemLost
PROPERTY ImplementsDeque EveryItemTaken
CHECK_DEADLOCK FALSE
