CONSTANTS
  Servers = {1, 2, 3}
  Mortal = {1}
  MaxHandoffs = 1
  MaxCrashes = 1
  MaxFaults = 1
SPECIFICATION Spec
INVARIANTS LockOwned SignalsOnlyTheOwner ReapedIsDead NoSilentLeak
PROPERTIES ImplementsRecord StartAndStopEnd
CHECK_DEADLOCK FALSE
