\* One symbol over four market dates, one of them closed; an entry run may die
\* anywhere but inside a heal, a tick before it sends or heals a SELL.
SPECIFICATION Spec
CONSTANTS
  NoRef = NoRef
  Processes = {"entry", "guardian"}
  Symbols = {s1}
  Profiles = {p1}
  Family <- OneFamily
  AssignProfile <- MCAssignProfile
  ExitReasons = {"exit_stop"}
  Quantities = {1}
  LastDay = 3
  TradingDays = {0, 2, 3}
  CrashPoints <- CrashesWithTrace
  BreakerOutcomes = {FALSE}
  Killable = {}
  Retirable = {}
  MayReject = FALSE
  FillsMayExpire = TRUE
INVARIANTS
  TypeOK
  StatusNeverAhead
  OneOpenPositionPerSymbol
  BookedOnce
  NeverOversells
  OneUnresolvedBuy
  OneOpenPositionPerOrder
  BuysStayTracked
