CONSTANTS
  Jobs = 1
  MaxLength = 2
  Capacity = 2
  Chunk = 2
SPECIFICATION FairSpec
INVARIANTS NothingSkipped
PROPERTIES ImplementsChannel
