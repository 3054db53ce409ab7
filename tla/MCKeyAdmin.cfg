CONSTANTS
  DayLength = 1
  Window = 1
  Models = {}
  NoModel = NoModel
  ModelRPM = 1
  Workers = {w1}
  Admins = {a1, a2}
  Operations = {"add", "remove", "disable", "enable", "reset_cooldown"}
  Outcomes = {"refund", "limit", "invalid"}
  DailyLimit = 1
  KeyRPM = 1
  MaxObjects = 1
  MaxTime = 1
SPECIFICATION Spec
SYMMETRY Symmetry
INVARIANTS TypeOK PoolMatchesTable 
