\* One hourly profile, one day, no deaths.
SPECIFICATION Spec
CONSTANTS
  Equity = 100
  DailyLossPct = 3
  DrawdownPct = 6
  LossStreak = 2
  Window = 2
  PfFloorPct = 90
  KillDrawdownPct = 50
  KillStreak = 2
  Profiles = {p1}
  Hourly = {p1}
  Symbols = {s1}
  Tickers = {}
  Snipe = owner_snipe_experiment
  ExitReasons = {"exit_stop"}
  Pnls <- MCPnls
  LastHour = 1
  Midnights = {}
  CrashPoints <- NoCrashes
  MaxRestarts = 0
  Never = Never
INVARIANT
  ExitsHaveFreshRefs
