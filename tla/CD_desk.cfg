\* An hourly profile on one coin and one coin to snipe, an hour on either side
\* of midnight.
SPECIFICATION Spec
CONSTANTS
  Equity = 100
  DailyLossPct = 3
  DrawdownPct = 6
  LossStreak = 2
  Window = 2
  PfFloorPct = 90
  KillDrawdownPct = 50
  KillStreak = 2
  Profiles = {p1}
  Hourly = {p1}
  Symbols = {s1}
  Tickers = {c1}
  Snipe = owner_snipe_experiment
  ExitReasons = {"exit_stop"}
  Pnls <- MCPnls
  LastHour = 1
  Midnights = {1}
  CrashPoints <- Deaths
  MaxRestarts = 1
  Never = Never
INVARIANTS
  DeskTypeOK
  ClosedOnce
  OnePositionPerCoin
  OnlyEntriesBeforeTheTrip
  SnipedOnce
  BreakersFollowTheBook
  ResetsNeedATrade
PROPERTIES
  ImplementsBreakerPromise
