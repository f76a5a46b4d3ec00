CONSTANTS
  EventIds <- MCEventIds
  Subjects <- MCSubjects
  MaxEvents = 24
  MaxEventBytes = 2
  MaxControlBytes = 1
  MaxTotalBytes = 60
  Scopes = {"root", "a"}
  Root = "root"
  Parent <- FlatParent
  Operations = {"o1"}
  ScopeOf <- FlatScopeOf
  Disposers = {"d1", "d2", "d3"}
  DisposerScope <- FlatDisposers
  Run = "run"
  Wants = {"completed"}
  Cancellable = {"root", "a"}
  MaxCloses = 1
  MaxRegistrations = 2
  MaxFaults = 1
  MaxRestarts = 1
SPECIFICATION Safe
ACTION_CONSTRAINT WorkOrDisposal
INVARIANTS TypeOK AbortIsDurable NoCompletionAfterCancel ConfirmedIsEarned AccountedFor DisposalOrder
CHECK_DEADLOCK FALSE
