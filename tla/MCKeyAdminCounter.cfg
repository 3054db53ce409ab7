CONSTANTS
  DayLength = 1
  Window = 1
  Models = {}
  NoModel = NoModel
  ModelRPM = 1
  Workers = {w1}
  Admins = {a1}
  Operations = {"enable"}
  Outcomes = {"keep"}
  DailyLimit = 2
  KeyRPM = 1
  MaxObjects = 1
  MaxTime = 1
SPECIFICATION Spec
SYMMETRY Symmetry
INVARIANT LoadPreservesCounter
