CONSTANTS
  Pages = {"home", "blog"}
  Refs = {1, 2, 3}
  PageOf <- MCPageOf
  ChunkSize = 1
  MaxAttempts = 1
  MaxSaves = 2
  MaxDecisions = 2
  Faults = {"die", "crash"}
  MaxFaults = 1
SPECIFICATION Spec
INVARIANTS TypeOK EditsKept
PROPERTIES  CommitEnds
CHECK_DEADLOCK FALSE
