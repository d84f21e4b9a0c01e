\* Three dates, the last one without trading, two profiles of one family, one
\* of which may be retired; an entry run may die just after it sent an order.
SPECIFICATION FairSpec
CONSTANTS
  NoRef = NoRef
  Processes = {"entry", "reconcile"}
  Symbols = {s1}
  Profiles = {p1, p2}
  Family <- OneFamily
  AssignProfile <- MCAssignProfile
  ExitReasons = {}
  Quantities = {1}
  LastDay = 2
  TradingDays = {0, 1}
  CrashPoints <- SentUnmarked
  BreakerOutcomes = {FALSE}
  Killable = {}
  Retirable = {p1}
  MayReject = FALSE
  FillsMayExpire = FALSE
PROPERTIES
  LastingDivergenceHalts
  OrphansHealed
