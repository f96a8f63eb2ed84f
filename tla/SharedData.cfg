SPECIFICATION SharedSpec
CONSTANTS
  TeamSize = 3
  Iterations = 3
  Programs <- AllPrograms
INVARIANTS ProtectedIsExact LostUpdatesBounded CriticalSectionsWhole
