----------------------------- MODULE MarketData -----------------------------
(***************************************************************************)
(* The bar cache: trader/data/api.py and db.py (daily bars, read through   *)
(* the cache) and intraday.py (hourly bars, refreshed into it), with the   *)
(* fetchers crypto_source.py and stock_source.py around it.                *)
(*                                                                         *)
(* A bar is its hour, or day, and the hour it was fetched at: the prices   *)
(* of one fetched before it was over are not those it closes with.         *)
(***************************************************************************)
EXTENDS Integers, FiniteSets, FiniteSetsExt

CONSTANTS
  Symbols, Refreshers,   \* symbols; processes that refresh or read hourly bars
  HoursPerDay,
  LastHour,              \* the clock stops there (bound)
  Nobody                 \* no scan yet

ASSUME MarketDataAssumption == HoursPerDay \in Nat \ {0} /\ LastHour \in Nat

VARIABLES
  hour,       \* the current hour
  hourly,     \* bars with timeframe '1h', by symbol
  daily,      \* bars with timeframe '1d', by symbol
  refresh,    \* locals of refresh_hourly_bars, by process
  scanned     \* what the last daily scan of a symbol was given

marketVars == <<hour, hourly, daily, refresh, scanned>>

Day(h) == h \div HoursPerDay
Times(bars) == {b.at : b \in bars}

\* write_bars_cache: INSERT OR IGNORE.
WriteBars(cache, bars) == cache \cup {b \in bars : b.at \notin Times(cache)}

-----------------------------------------------------------------------------
(* Hourly bars.                                                            *)

IdleRefresh == [pc |-> "idle", current |-> 0, todo |-> {}, symbol |-> Nobody,
                since |-> 0, fetched |-> {}, failed |-> {}]

MarketInit ==
  /\ hour = 1 /\ scanned = Nobody
  /\ hourly = [s \in Symbols |-> {}] /\ daily = [s \in Symbols |-> {}]
  /\ refresh = [p \in Refreshers |-> IdleRefresh]

Clock ==
  /\ hour < LastHour /\ hour' = hour + 1
  /\ UNCHANGED <<hourly, daily, refresh, scanned>>

\* The current hour is computed once, before the first fetch.
RefreshStart(p) ==
  /\ refresh[p].pc \in {"idle", "done"}
  /\ refresh' = [refresh EXCEPT ![p] =
       [IdleRefresh EXCEPT !.pc = "next", !.current = hour, !.todo = Symbols]]
  /\ UNCHANGED <<hour, hourly, daily, scanned>>

\* Mutant: the last cached hour is taken for the first one missing twice.
SinceSkippingOne(s) == IF hourly[s] = {} THEN 0 ELSE Max(Times(hourly[s])) + 2

\* _last_cached_ms; a symbol's history begins at hour 0.
Since(s) == IF hourly[s] = {} THEN 0 ELSE Max(Times(hourly[s])) + 1

RefreshSymbol(p, s) ==
  /\ refresh[p].pc = "next" /\ s \in refresh[p].todo
  /\ refresh' = [refresh EXCEPT ![p].pc = "fetch", ![p].symbol = s, ![p].since = Since(s)]
  /\ UNCHANGED <<hour, hourly, daily, scanned>>

\* fetch_all_hourly_ohlcv: the exchange has the hour that is still forming too.
RefreshFetch(p) ==
  /\ refresh[p].pc = "fetch"
  /\ refresh' = [refresh EXCEPT ![p].pc = "write",
       ![p].fetched = {[at |-> h, asOf |-> hour] : h \in refresh[p].since..hour}]
  /\ UNCHANGED <<hour, hourly, daily, scanned>>

\* Mutant: the current hour is asked for when the rows are filtered.
CompleteWhenWritten(p) == {b \in refresh[p].fetched : b.at < hour}

Complete1h(p) == {b \in refresh[p].fetched : b.at < refresh[p].current}

Passed(p) == [refresh[p] EXCEPT !.todo = @ \ {refresh[p].symbol}, !.fetched = {}, !.since = 0,
                                !.pc = IF refresh[p].todo = {refresh[p].symbol} THEN "done" ELSE "next",
                                !.symbol = Nobody]

RefreshWrite(p) ==
  /\ refresh[p].pc = "write"
  /\ hourly' = [hourly EXCEPT ![refresh[p].symbol] = WriteBars(@, Complete1h(p))]
  /\ refresh' = [refresh EXCEPT ![p] = Passed(p)]
  /\ UNCHANGED <<hour, daily, scanned>>

\* An exception in a fetch: the symbol gets -1 and the others go on.
RefreshFails(p) ==
  /\ refresh[p].pc = "fetch"
  /\ refresh' = [refresh EXCEPT ![p] =
       [Passed(p) EXCEPT !.failed = refresh[p].failed \cup {refresh[p].symbol}]]
  /\ UNCHANGED <<hour, hourly, daily, scanned>>

RefreshDies(p) ==
  /\ refresh[p].pc \notin {"idle", "done"}
  /\ refresh' = [refresh EXCEPT ![p] = IdleRefresh]
  /\ UNCHANGED <<hour, hourly, daily, scanned>>

-----------------------------------------------------------------------------
(* Daily bars.                                                             *)

NoDate == -1

\* _is_cache_hit: without a start any cached row is a hit.
IsCacheHit(cached, start) ==
  cached # {} /\ (start = NoDate \/ \E b \in cached : b.at <= start)

Between(bars, start, end) ==
  {b \in bars : b.at >= start /\ (end # NoDate => b.at <= end)}

\* get_daily_bars: on a miss the whole history is fetched, with today's bar so
\* far, whatever end says (the fetch of a stock with a start is not bounded by
\* it either: its one caller gives no end).
AfterGetDailyBars(s, start, end) ==
  IF IsCacheHit(Between(daily[s], start, end), start) THEN daily
  ELSE [daily EXCEPT ![s] =
          WriteBars(@, {[at |-> d, asOf |-> hour] : d \in 0..Day(hour)})]

\* scan_candidates and scan_crypto_candidates, daily families.
DailyScan(s) ==
  /\ Day(hour) > 0
  /\ daily' = AfterGetDailyBars(s, NoDate, Day(hour) - 1)
  /\ scanned' = [today |-> Day(hour), bars |-> Between(daily'[s], NoDate, Day(hour) - 1)]
  /\ UNCHANGED <<hour, hourly, refresh>>

\* Studies and the regime check of the graduation review.
DailyStudy(s) ==
  /\ daily' = AfterGetDailyBars(s, NoDate, NoDate)
  /\ UNCHANGED <<hour, hourly, refresh, scanned>>

RefreshStep(p) ==
  \/ RefreshStart(p) \/ RefreshFetch(p) \/ RefreshWrite(p)
  \/ RefreshFails(p) \/ RefreshDies(p)
  \/ \E s \in Symbols : RefreshSymbol(p, s)

\* Hourly and daily bars share the clock and nothing else.
HourlyNext == Clock \/ \E p \in Refreshers : RefreshStep(p)
DailyNext == Clock \/ \E s \in Symbols : DailyScan(s) \/ DailyStudy(s)
MarketNext == HourlyNext \/ DailyNext

MarketSpec == MarketInit /\ [][MarketNext]_marketVars

-----------------------------------------------------------------------------
(* What the cache promises its readers.                                    *)

\* "a partial bar in the cache would let a backtest or scan see a close that
\* does not exist yet" (intraday.py:117-119): every hourly bar was fetched when
\* its hour was over, although hours pass between the fetch and the write and
\* a bar that is there is never replaced.
HourlyBarsAreFinal == \A s \in Symbols : \A b \in hourly[s] : b.asOf > b.at

\* "resuming one hour after each symbol's last cached bar" (intraday.py:113):
\* a refresh that is done left every hour that was complete when it started in
\* the cache of every symbol that did not fail, and no cache has a gap, whoever
\* else refreshes, fails or dies.
RefreshCatchesUp ==
  /\ \A p \in Refreshers, s \in Symbols :
       refresh[p].pc = "done" /\ s \notin refresh[p].failed =>
         0..(refresh[p].current - 1) \subseteq Times(hourly[s])
  /\ \A s \in Symbols : \A b \in hourly[s] : 0..b.at \subseteq Times(hourly[s])

\* "daily-bar strategies decide on yesterday's close"
\* (.planning/phases/05-paper-trading-loop/05-CONTEXT.md:27): the bars a scan
\* is given end with yesterday's.
ScansSeeYesterday ==
  scanned # Nobody => scanned.today - 1 \in Times(scanned.bars)
=============================================================================
