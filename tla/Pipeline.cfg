SPECIFICATION FairSpec
CONSTANTS
  LastStage = 3
  packetCount = 4
  MaxSpurious = 2
INVARIANTS InOrder CascadingShutdown NoLostWakeup
PROPERTIES Terminates
