SPECIFICATION FairSpec
CONSTANTS
  Main = Main
  Workers = {w1, w2}
  Script <- MCScript
  MaxTime = 1
  MaxSpurious = 1
INVARIANTS TopIsAwaited
PROPERTIES HighestPriorityFirst Terminates ImplementsTaskPool
