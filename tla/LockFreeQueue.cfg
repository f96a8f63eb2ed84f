SPECIFICATION FairSpec
CONSTANTS
  Scenarios <- MCScenarios
  MaxPairs = 2
  Addresses = {1, 2, 3, 4}
  Null = Null
INVARIANTS FIFO EmptyWasEmpty OneByOneIsMemorySafe
PROPERTIES AllDelivered
