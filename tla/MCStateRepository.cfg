SPECIFICATION Spec
CONSTANTS
  Null = Null
  LastPhase = 2
  MaxHistory = 2
  Calls = {1, 2, 3, 4}
  Processes = {1, 2, 3}
  Home <- MCHome
  Asked <- MCAsked
  Legacy <- MCLegacy
  MaxFaults = 1
  MaxCrashes = 1
INVARIANTS NothingLost PhasesAgree
PROPERTIES GateHolds CallsSettle
CHECK_DEADLOCK FALSE
