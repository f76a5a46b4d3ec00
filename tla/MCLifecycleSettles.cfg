CONSTANTS
  EventIds <- MCEventIds
  Subjects <- MCSubjects
  MaxEvents = 24
  MaxEventBytes = 2
  MaxControlBytes = 1
  MaxTotalBytes = 60
  Scopes = {"root"}
  Root = "root"
  Parent <- FlatParent
  Operations = {"o2"}
  ScopeOf <- FlatScopeOf
  Disposers = {"d1"}
  DisposerScope <- FlatDisposers
  Run = "run"
  Wants = {"completed"}
  Cancellable = {}
  MaxCloses = 0
  MaxRegistrations = 1
  MaxFaults = 1
  MaxRestarts = 0
SPECIFICATION Spec
INVARIANT DisposersRunLast
PROPERTY FinalizationSettles
CHECK_DEADLOCK FALSE
