\* Expected violation: see README.
SPECIFICATION Spec
CONSTANTS
  NoRef = NoRef
  Processes = {"entry", "guardian"}
  Symbols = {s1}
  Profiles = {p1}
  Family <- OneFamily
  AssignProfile <- MCAssignProfile
  ExitReasons = {"exit_stop"}
  Quantities = {1}
  LastDay = 1
  TradingDays = {0, 1}
  CrashPoints <- EntryCrashes
  BreakerOutcomes = {FALSE}
  Killable = {}
  Retirable = {}
  MayReject = FALSE
  FillsMayExpire = TRUE
INVARIANTS
  BuysStayTracked
