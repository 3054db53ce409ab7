CONSTANTS
  Files = {"page", "style"}
  Rules = {"font"}
  Budgets <- MCBudgets
  Hooks = {1, 2}
  Gates = {3}
  Writes <- MCWrites
  Sessions = {"s1", "s2"}
  AckFiles = {"style"}
  Targets <- MCTargets
  Quiets = {FALSE, TRUE}
  Threshold = 1
  MaxSessions = 1
SPECIFICATION Spec
INVARIANTS HookTypeOK IgnoresKept  CountsHonest SuppressionAnnounced
PROPERTY WriteLands
CHECK_DEADLOCK FALSE
