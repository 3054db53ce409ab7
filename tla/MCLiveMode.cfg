CONSTANTS
  Sessions = {1}
  Agents = {a1}
  Tabs = {t1}
  MaxRevision = 2
  Faults = {"crash", "die", "drop", "reload", "disk", "script", "error"}
  MaxFaults = 1
SPECIFICATION LiveSpec
INVARIANTS LiveTypeOK 
PROPERTIES ExitMeansGone  
CHECK_DEADLOCK FALSE
