SPECIFICATION FairSpec
CONSTANTS
  Programs <- MCPrograms
INVARIANTS NeverTerminates NoDanglingReference ResultsComplete
PROPERTIES MainReturns
