CONSTANTS
  DayLength = 2
  Window = 1
  Models = {m1, m2}
  NoModel = NoModel
  ModelRPM = 2
  Keys = {k1, k2}
  Callers = {r1, r2}
  MaxTime = 0
  MaxKeyRetries = 2
  DailyLimit = 2
  KeyRPM = 2
  AfterProxy = TRUE
  Pause = 1
  OpenRouterCodes = {"network", "200", "upstream429", "429"}
  Backoff = {1}
  Remaining = {}
  AihubmixCodes = {"keyRate", "providerOnce", "keyModel"}
  MaxBackoffs = 1
  Ladder <- MCLadder
  GoogleCodes = {"200", "503"}
  ModelDaily = 1
  FiveMinutes = 1
  Providers = {"openrouter", "aihubmix", "google"}
INIT GatewayInit
NEXT GatewayNext
SYMMETRY Symmetry
INVARIANTS GatewayTypeOK CounterExact LedgersAgree
CHECK_DEADLOCK FALSE
