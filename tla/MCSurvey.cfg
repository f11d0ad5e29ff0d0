SPECIFICATION Spec
CONSTANTS
  MaxInteractions = 4
  MaxPrototypeEvents = 2
  Definitions <- MCDefinitions
  Presented <- MCPresented
  Measures <- MCMeasures
  Words <- MCWords
  Restless <- MCRestless
  MaxHistory = 3
  Faults = {"startFails", "lost", "replyLost", "resize"}
INVARIANTS TypeOK ThankYouIsStored StoredIsAPath RefusedOnlyFor
CHECK_DEADLOCK FALSE
