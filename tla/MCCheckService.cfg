CONSTANTS
  DayLength = 2
  Window = 1
  Models = {}
  NoModel = NoModel
  ModelRPM = 1
  Minute = 0
  Keys = {1, 2}
  DailyLimit = 1
  KeyRPM = 1
  HasModel = {TRUE, FALSE}
  Elsewhere = {"disabled"}
  MaxJobs = 2
  MaxTime = 1
SPECIFICATION ServiceSpec
INVARIANTS ServiceTypeOK OneJobAtATime ProgressAddsUp 
PROPERTY JobEnds
CHECK_DEADLOCK FALSE
