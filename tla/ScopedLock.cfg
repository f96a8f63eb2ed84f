SPECIFICATION Spec
CONSTANTS
  Exercises <- MCExercises
INVARIANTS NoCircularWait BalancesExact
