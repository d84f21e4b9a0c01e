\* A study or a scan fills the daily cache; a scan two days later reads it.
SPECIFICATION MarketSpec
CONSTANTS
  Symbols = {s1}
  Refreshers = {r1, r2}
  HoursPerDay = 2
  LastHour = 7
  Nobody = Nobody
CHECK_DEADLOCK FALSE
INVARIANT
  ScansSeeYesterday
