CONSTANTS
  Processes = {1, 2, 3}
  Requests = {"r1", "r2"}
  Budget = 2
  MaxEvents = 4
  MaxCalls = 2
  MaxRecords = 2
  MaxCrashes = 1
SPECIFICATION Spec
INVARIANTS KeepsAcknowledged OnlySealedIsUsed BudgetKept RecoveryFenced
PROPERTY PinHolds
CHECK_DEADLOCK FALSE
