\* Two symbols against reconciliation, breakers, kills, retirement and rejected
\* orders.  ExitReasons is empty: the guardian only evaluates breakers and kills.
SPECIFICATION Spec
CONSTANTS
  NoRef = NoRef
  Processes = {"entry", "guardian", "reconcile"}
  Symbols = {s1, s2}
  Profiles = {p1}
  Family <- OneFamily
  AssignProfile <- MCAssignProfile
  ExitReasons = {}
  Quantities = {1}
  LastDay = 0
  TradingDays = {0}
  CrashPoints <- ReconCrashes
  BreakerOutcomes = {TRUE, FALSE}
  Killable = {p1}
  Retirable = {p1}
  MayReject = TRUE
  FillsMayExpire = FALSE
INVARIANTS
  HaltLetsOneBuyThrough
