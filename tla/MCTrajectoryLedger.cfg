CONSTANTS
  EventIds <- MCEventIds
  Subjects <- MCSubjects
  Calls <- MCCalls
  Writers = {w1, w2}
  MaxAppendRetries = 2
  MaxEvents = 7
  MaxEventBytes = 2
  MaxControlBytes = 1
  MaxTotalBytes = 8
SPECIFICATION Spec
INVARIANTS HeadNamesPrefix AcknowledgedIsDurable
PROPERTIES ImplementsLog EveryAppendReturns
