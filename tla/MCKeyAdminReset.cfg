CONSTANTS
  DayLength = 1
  Window = 1
  Models = {}
  NoModel = NoModel
  ModelRPM = 1
  Workers = {w1}
  Admins = {a1}
  Operations = {"reset_cooldown"}
  Outcomes = {"invalid"}
  DailyLimit = 2
  KeyRPM = 1
  MaxObjects = 1
  MaxTime = 0
SPECIFICATION Spec
SYMMETRY Symmetry
PROPERTY ResetKeepsBlocks
