CONSTANTS
  DayLength = 1
  Window = 2
  Models = {m1}
  NumKeys = 1
  Callers = {c1, c2}
  NoModel = NoModel
  DailyLimit = 1
  KeyRPM = 2
  ModelRPM = 1
  Exclusions = {{}}
  Durations = {1}
  CoolStatuses = {"", "rate_limited"}
  MaxTime = 1
SPECIFICATION WindowSpec
SYMMETRY Symmetry
INVARIANTS PoolInv  WindowKept
