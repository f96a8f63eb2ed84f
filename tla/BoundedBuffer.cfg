SPECIFICATION FairSpec
CONSTANTS
  Exercises <- MCExercises
  MaxSpurious = 2
INVARIANTS MissedWakeupIsRescued AllConsumedInOrder
PROPERTIES Terminates
