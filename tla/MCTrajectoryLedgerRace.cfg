CONSTANTS
  EventIds <- MCEventIds
  Subjects <- MCSubjects
  Calls <- MCCalls
  Writers = {w1, w2}
  MaxAppendRetries = 32
  MaxEvents = 6
  MaxEventBytes = 2
  MaxControlBytes = 1
  MaxTotalBytes = 8
SPECIFICATION RaceSpec
INVARIANT RaceNeverCorrupts
