\* Entry, guardian and owner_close on one day, each dying anywhere; the
\* guardian may kill the profile.
SPECIFICATION Spec
CONSTANTS
  NoRef = NoRef
  Processes = {"entry", "guardian", "owner"}
  Symbols = {s1}
  Profiles = {p1}
  Family <- OneFamily
  AssignProfile <- MCAssignProfile
  ExitReasons = {"exit_stop"}
  Quantities = {1}
  LastDay = 0
  TradingDays = {0}
  CrashPoints <- AllCrashes
  BreakerOutcomes = {FALSE}
  Killable = {p1}
  Retirable = {}
  MayReject = FALSE
  FillsMayExpire = FALSE
INVARIANT
  SubmittedAtMostOnce
PROPERTIES
  ImplementsProtocol
  KilledStopsBuying
