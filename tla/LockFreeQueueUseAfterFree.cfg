SPECIFICATION Spec
CONSTANTS
  Scenarios <- MCTwoByTwo
  MaxPairs = 2
  Addresses = {1, 2, 3, 4}
  Null = Null
INVARIANT NoUseAfterFree
