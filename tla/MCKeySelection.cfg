CONSTANTS
  DayLength = 2
  Window = 1
  Models = {}
  NumKeys = 2
  Callers = {c1, c2}
  NoModel = NoModel
  DailyLimit = 1
  KeyRPM = 1
  ModelRPM = 1
  Exclusions = {{}}
  Durations = {1}
  CoolStatuses = {"rate_limited"}
  MaxTime = 0
SPECIFICATION SelectionSpec
PROPERTIES KeepsPromise SearchEnds
