CONSTANTS
  DayLength = 2
  Window = 1
  Models = {}
  NoModel = NoModel
  ModelRPM = 1
  Minute = 0
  Keys = {1, 2}
  Workers = {w1}
  Providers = {"openrouter", "aihubmix", "1minai"}
  DailyLimit = 1
  KeyRPM = 1
  Limits = {1}
  Rests = {0, 1}
  TTL = 0
  Patience = 0
  Stored = {"unchecked", "disabled"}
  Elsewhere = {"day_exhausted"}
  MaxFailures = 1
  MaxTime = 1
SPECIFICATION CheckerSpec
INVARIANTS CheckerTypeOK NothingAfterStop
PROPERTIES ExhaustedHonoured EveryKeyVerified StopReturns
CHECK_DEADLOCK FALSE
