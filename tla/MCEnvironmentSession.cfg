SPECIFICATION Spec
ACTION_CONSTRAINT FewCalls
CONSTANTS
  Calls <- MCCalls
  Steps = 2
INVARIANTS NoOverlap RecoveryPending ScenariosYieldReceipts
PROPERTIES OnlyRecoveryInQuarantine RestoreIsFresh PassLeavesNothing CallsSettle
CHECK_DEADLOCK FALSE
