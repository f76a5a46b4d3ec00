CONSTANTS
  EventIds <- MCEventIds
  Subjects <- MCSubjects
  MaxEvents = 24
  MaxEventBytes = 2
  MaxControlBytes = 1
  MaxTotalBytes = 60
  Scopes = {"root"}
  Root = "root"
  Parent <- FlatParent
  Operations = {}
  ScopeOf <- FlatScopeOf
  Disposers = {}
  DisposerScope <- FlatDisposers
  Run = "run"
  Wants = {"completed"}
  Cancellable = {"root"}
  MaxCloses = 0
  MaxRegistrations = 1
  MaxFaults = 0
  MaxRestarts = 0
SPECIFICATION Spec
PROPERTY FinalizationSeals
CHECK_DEADLOCK FALSE
