SPECIFICATION EachSpec
CONSTANTS
  Exercises <- MCExercises
  chunkSize = 10
  Inputs <- MCInputs
INVARIANTS SharesDisjoint ResultIsSequential NoRace SortedAtTheEnd
