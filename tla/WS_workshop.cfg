\* Tournament, studies, bar cache, migrations, backtests, graduation and sizing,
\* each on an instance of its own.
SPECIFICATION WorkshopSpec
CONSTANTS
  n1 = n1
  n2 = n2
  n3 = n3
  ByName <- ThreeNames
  Sharpes <- GoodAndBad
  PromotionFloor = 0
  DemotionFloor = 0
  Sustain = 2
  MaxActive = 2
  MaxEntrants = 2
  LastQuarter = 1
  MaxRuns = 5
  CrashPoints <- Deaths
  NoOne = NoOne
  Roster <- FirstTwo
  MetricTables <- Tables
  TuneMinTrades = 30
  OosMinTrades = 15
  TopSize = 2
  MaxGroups = 2
  MaxVariants = 2
  MaxCells = 2
  MaxStarts = 4
  Unreadable = Unreadable
  Symbols = {s1, s2}
  Refreshers = {r1, r2}
  HoursPerDay = 2
  LastHour = 2
  Nobody = Nobody
  Connections = {c1, c2}
  Held <- HeldRows
  Written <- Orders
  Absent = Absent
  Universe = {s1}
  Bars <- FourBars
  ExitProfiles <- FourProfiles
  Slippage <- MemecoinSlippage
  LastDate = 4
  NoRule <- Unset
  NoBar = NoBar
  ClosedTrades <- FiveTrades
  MinTrades = 3
  PfGraduationPct = 130
  MaxDdGraduationPct = 4
  MinConditions = 2
  MaxSharePct = 40
  StartingEquity = 100
  MaxTrades = 4
  MaxReviews = 1
  Tradables <- FourSymbols
  ClassOf <- FourClasses
  Markets <- ThreeMarkets
  Threshold = 80
  TopN = 3
  SingleCap = 500
  MemecoinCap = 100
  CashReserve = 100
  SharePrice <- SharePrices
  SlippagePct <- ClassSlippage
  MaxSlippage = 4
  Snipes <- NewTickers
  SnipeWeight = 30
  MaxPasses = 2
CHECK_DEADLOCK FALSE
INVARIANTS
  RosterTypeOK
  HistoryIsLegal
  CapsHold
  DemotionWasSustained
  FreedSlotsAreUsed
  ClosedRunsAreAudited
  CellsCountedOnce
  CitedRunsExist
  EvidenceIsFrozen
  EndsAsUninterrupted
  HourlyBarsAreFinal
  RefreshCatchesUp
  RecordedVersionsAreWhole
  TradesMatchTheBars
  GraduatesOnMoreThanLuck
  BookWithinCaps
  SurvivorsAreTheBest
PROPERTY PassesCountTheWholeBook
