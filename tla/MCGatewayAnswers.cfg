CONSTANTS
  DayLength = 1
  Window = 1
  Models = {m}
  NoModel = NoModel
  ModelRPM = 2
  Keys = {k1}
  Callers = {r1, r2}
  MaxTime = 1
  MaxKeyRetries = 2
  DailyLimit = 2
  KeyRPM = 2
  AfterProxy = TRUE
  Pause = 1
  OpenRouterCodes = {"200", "503", "upstream429"}
  Backoff = {1}
  Remaining = {}
  AihubmixCodes = {"200", "unsendable", "providerOnce"}
  MaxBackoffs = 1
  Ladder <- MCLadder
  GoogleCodes = {"200", "unavailable"}
  ModelDaily = 1
  FiveMinutes = 1
  Providers = {"openrouter", "aihubmix", "google"}
SPECIFICATION GatewaySpec
 
INVARIANTS  ModelQuotaKept
CHECK_DEADLOCK FALSE
