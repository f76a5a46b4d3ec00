CONSTANTS
  EventIds <- MCEventIds
  Subjects <- MCSubjects
  MaxEvents = 24
  MaxEventBytes = 2
  MaxControlBytes = 1
  MaxTotalBytes = 60
  Scopes = {"root", "a", "b"}
  Root = "root"
  Parent <- NestedParent
  Operations = {"o1"}
  ScopeOf <- NestedScopeOf
  Disposers = {}
  DisposerScope <- NestedDisposers
  Run = "run"
  Wants = {"completed"}
  Cancellable = {}
  MaxCloses = 0
  MaxRegistrations = 1
  MaxFaults = 0
  MaxRestarts = 0
SPECIFICATION Safe
INVARIANT ConfirmedMeansQuiescent
CHECK_DEADLOCK FALSE
