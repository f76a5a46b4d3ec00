CONSTANTS
  EventIds <- MCEventIds
  Subjects <- MCSubjects
  Calls <- MCCalls
  MaxEvents = 9
  MaxEventBytes = 2
  MaxControlBytes = 1
  MaxTotalBytes = 11
SPECIFICATION LogSpec
INVARIANTS LogDecodes FinalizationAdmitted
CHECK_DEADLOCK FALSE
