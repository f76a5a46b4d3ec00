SPECIFICATION Spec
CONSTANTS
  MaxAttempts = 7
  MaxReplay = 6
  MaxSnapshots = 2
INVARIANTS  TornDownIsGone
PROPERTY RestoreIsFreshAndOnce
CHECK_DEADLOCK FALSE
