------------------------------- MODULE Backtest -------------------------------
(***************************************************************************)
(* The backtest engine: run_backtest (trader/backtest/runner.py) with the  *)
(* exit rules of exits.py, the fills of fills.py and the iterator that     *)
(* shows a strategy no bar before its day.                                 *)
(*                                                                         *)
(* A step is one date of the calendar.  Bars are drawn when their date     *)
(* comes: the runner looks ahead only for the date of a symbol's next bar. *)
(* A date without any is one that only symbols not in Universe trade on.   *)
(* Prices are integers, and percentages of them rounded down.  Slippage is *)
(* part of every fill, so that levels are locked on a price above the open *)
(* of the entry; fees only scale what a trade earns and are left out.      *)
(***************************************************************************)
EXTENDS Integers, Sequences, FiniteSets, FiniteSetsExt

CONSTANTS
  Universe,      \* symbols
  Bars,          \* the bars a symbol may have on a date
  ExitProfiles,  \* EXIT_PROFILE instances, in percent
  Slippage,      \* SLIPPAGE_PCT of the symbol's asset class
  LastDate,      \* the calendar's length (bound)
  NoRule,        \* a rule that is not set (None)
  NoBar          \* no bar on a date

VARIABLES
  profile,         \* the run's profile
  calendar,        \* the bars so far, by date and symbol
  signals,         \* history: what strategy_fn returned on each date
  pendingEntries,  \* symbols with an entry scheduled at their next bar
  openPositions,   \* records of the open positions
  trades           \* backtest_trades

backtestVars == <<profile, calendar, signals, pendingEntries, openPositions, trades>>

Plus(price, pct) == (price * (100 + pct)) \div 100
Lower(p, q) == IF p < q THEN p ELSE q
Higher(p, q) == IF p > q THEN p ELSE q

-----------------------------------------------------------------------------
(* Fills: slippage is always against the trader.                           *)

\* Mutant: the order is filled at the open.
EntryAtOpen(s, open) == open

EntryFillPrice(s, open) == Plus(open, Slippage[s])
ExitFillPrice(s, raw) == Plus(raw, -Slippage[s])

\* A target is above the price of an entry.
ASSUME BacktestAssumption ==
  /\ NoRule \in Int /\ NoRule < 0 /\ LastDate \in Nat
  /\ Bars \subseteq [open : Nat, high : Nat, low : Nat, close : Nat]
  /\ \A b \in Bars : {b.open, b.close} \subseteq b.low..b.high
  /\ ExitProfiles \subseteq
       [stop : Nat \cup {NoRule}, takeProfit : Nat \cup {NoRule}, trailing : Nat \cup {NoRule},
        maxHold : Nat \cup {NoRule}, scaleOut : Seq([gain : Nat, fraction : 1..100]),
        eodFlat : BOOLEAN]
  /\ Slippage \in [Universe -> 0..100]
  /\ \A b \in Bars : \A s \in Universe : \A p \in ExitProfiles :
       LET price == EntryFillPrice(s, b.open) IN
       /\ p.takeProfit # NoRule => Plus(price, p.takeProfit) > price
       /\ \A k \in DOMAIN p.scaleOut : Plus(price, p.scaleOut[k].gain) > price

-----------------------------------------------------------------------------
(* Exits.                                                                  *)

\* Mutant: the watermark takes this bar's close before the check.
TrailingLevelWithClose(position, bar) ==
  Plus(Higher(position.watermark, bar.close), -profile.trailing)

\* The level comes from the watermark as of the previous bar.
TrailingLevel(position, bar) == Plus(position.watermark, -profile.trailing)

\* The rules that hold on a bar, ranked.  A stop is filled at the worse of its
\* level and the open, a target at its level; tranches fire once, in turn.
Firing(position, bar, daysHeld) ==
  LET Full(rank, reason, holds, price) ==
        {r \in {[rank |-> rank, reason |-> reason, price |-> price, fraction |-> 100]} : holds}
      Tranche(k) ==
        [rank |-> 3 + k, reason |-> "scale_out", fraction |-> profile.scaleOut[k].fraction,
         price |-> Plus(position.price, profile.scaleOut[k].gain)] IN
  Full(1, "eod_flat", profile.eodFlat, bar.close)
    \cup Full(2, "stop", profile.stop # NoRule /\ bar.low <= position.stop,
              Lower(position.stop, bar.open))
    \cup Full(3, "trailing_stop",
              profile.trailing # NoRule /\ bar.low <= TrailingLevel(position, bar),
              Lower(TrailingLevel(position, bar), bar.open))
    \cup {t \in {Tranche(k) : k \in DOMAIN profile.scaleOut \ position.scaledOut} :
            bar.high >= t.price}
    \cup Full(4 + Len(profile.scaleOut), "take_profit", profile.takeProfit # NoRule /\ bar.high >= position.takeProfit,
              position.takeProfit)
    \cup Full(5 + Len(profile.scaleOut), "time_stop", profile.maxHold # NoRule /\ daysHeld >= profile.maxHold,
              bar.close)

\* evaluate_exit: the first rule, or none.
EvaluateExit(position, bar, daysHeld) ==
  LET rules == Firing(position, bar, daysHeld)
  IN  {r \in rules : \A q \in rules : r.rank <= q.rank}

\* _open_position, PositionState.open: levels are locked at entry.
OpenPosition(s, bar, date) ==
  LET price == EntryFillPrice(s, bar.open) IN
  [symbol |-> s, entered |-> date, price |-> price,
   stop |-> Plus(price, -profile.stop), takeProfit |-> Plus(price, profile.takeProfit),
   scaledOut |-> {}, remaining |-> 100, daysHeld |-> 0, watermark |-> price]

\* _record_exit: exit_fraction is of the quantity bought, also when a tranche
\* has been sold before.
Recorded(position, exit, date) ==
  [symbol |-> position.symbol, entered |-> position.entered, price |-> position.price,
   exited |-> date, at |-> ExitFillPrice(position.symbol, exit.price), reason |-> exit.reason,
   fraction |-> exit.fraction]

Sold(exits) == IF exits = {} THEN 0 ELSE (CHOOSE e \in exits : TRUE).fraction

\* A position after its bar: the first two rules leave the watermark alone.
AfterBar(position, bar, exits) ==
  [position EXCEPT
     !.watermark = IF \E e \in exits : e.rank <= 2 THEN @ ELSE Higher(@, bar.close),
     !.remaining = @ - Sold(exits),
     !.scaledOut = @ \cup {e.rank - 3 : e \in {x \in exits : x.reason = "scale_out"}}]

-----------------------------------------------------------------------------
(* run_backtest.                                                           *)

BacktestInit ==
  /\ profile \in ExitProfiles
  /\ calendar = <<>> /\ signals = <<>> /\ pendingEntries = {} /\ openPositions = {}
  /\ trades = {}

Date == Len(calendar) + 1
Trading(today) == {s \in Universe : today[s] # NoBar}

\* Entries that are due, at today's bar, and positions of earlier dates.
Opened(today) == {OpenPosition(s, today[s], Date) : s \in pendingEntries \cap Trading(today)}
Carried(today) == {[p EXCEPT !.daysHeld = @ + 1] :
                  p \in {q \in openPositions : q.symbol \in Trading(today)}}
Facing(today) == Opened(today) \cup Carried(today)
Exits(p, today) == EvaluateExit(p, today[p.symbol], p.daysHeld)

Kept(today) ==
  {q \in openPositions : q.symbol \notin Trading(today)}
    \cup {q \in {AfterBar(p, today[p.symbol], Exits(p, today)) : p \in Facing(today)} :
            q.remaining > 0}

\* One date: entries due are filled and checked against the bar of the fill,
\* positions opened before are checked against theirs, and what the strategy
\* picks is scheduled unless it is open or pending.
RunDate ==
  \E today \in [Universe -> Bars \cup {NoBar}] : \E picked \in SUBSET Universe :
    LET pending == pendingEntries \ Trading(today)
        committed == {p.symbol : p \in Kept(today)} \cup pending IN
    /\ Len(calendar) < LastDate
    /\ calendar' = Append(calendar, today)
    /\ signals' = Append(signals, picked)
    /\ trades' = trades \cup
         UNION {{Recorded(p, e, Date) : e \in Exits(p, today)} : p \in Facing(today)}
    /\ openPositions' = Kept(today)
    /\ pendingEntries' = pending \cup (picked \ committed)
    /\ UNCHANGED profile

BacktestSpec == BacktestInit /\ [][RunDate]_backtestVars

-----------------------------------------------------------------------------
(* Trades against the bars they were made on.                              *)

BarDates(s, first, last) == {d \in first..last : calendar[d][s] # NoBar}

\* The highest close of a position before a date, or its entry price.
Peak(p, date) ==
  Max({p.price} \cup {calendar[d][p.symbol].close : d \in BarDates(p.symbol, p.entered, date - 1)})

\* Whether the bar of a date takes a protective rule.
StoppedOn(p, date) ==
  LET bar == calendar[date][p.symbol] IN
  \/ profile.stop # NoRule /\ bar.low <= Plus(p.price, -profile.stop)
  \/ profile.trailing # NoRule /\ bar.low <= Plus(Peak(p, date), -profile.trailing)

\* It was picked on the date of, or after, the symbol's last bar before entry,
\* or earlier with no bar since, while nothing of the symbol was open.
EnteredOnSignal(p) ==
  \E d \in 1..(p.entered - 1) :
    /\ p.symbol \in signals[d] /\ BarDates(p.symbol, d + 1, p.entered - 1) = {}
    /\ \A t \in trades : t.symbol = p.symbol /\ t.entered < p.entered => t.exited <= d

\* No bar of the position before a date was one that stops it.
NotStoppedBefore(p, date) ==
  \A d \in BarDates(p.symbol, p.entered, date - 1) : profile.eodFlat \/ ~StoppedOn(p, d)

\* It was bought at the open of its entry bar, slippage added.
EnteredAtOpen(p) ==
  p.price = Plus(calendar[p.entered][p.symbol].open, Slippage[p.symbol])

\* What a trade was paid, from the bar of its exit and what slippage leaves of
\* a price: a protective exit no more than the open, a target no more than the
\* high and no less than the entry, the others the close.
FilledHonestly(t) ==
  LET bar == calendar[t.exited][t.symbol]
      Net(price) == Plus(price, -Slippage[t.symbol]) IN
  CASE t.reason \in {"stop", "trailing_stop"} ->
         /\ StoppedOn(t, t.exited)
         /\ t.at <= Net(bar.open) /\ t.at <= Net(Peak(t, t.exited))
    [] t.reason \in {"scale_out", "take_profit"} ->
         ~StoppedOn(t, t.exited) /\ t.at <= Net(bar.high) /\ t.at >= Net(t.price)
    [] t.reason = "time_stop" ->
         /\ ~StoppedOn(t, t.exited) /\ t.at = Net(bar.close)
         /\ Cardinality(BarDates(t.symbol, t.entered + 1, t.exited)) >= profile.maxHold
    [] t.reason = "eod_flat" -> t.exited = t.entered /\ t.at = Net(bar.close)

\* "the stop is checked first in D-10's order and always wins" (exits.py:19-21);
\* entries lag the signal by one bar and pay its open with slippage, and levels
\* come from that price and earlier closes only: every trade is one the bars
\* allow without looking ahead, and no position is kept through a bar that
\* stops it, the bar of its own entry included.
TradesMatchTheBars ==
  /\ \A p \in trades \cup openPositions : EnteredOnSignal(p) /\ EnteredAtOpen(p)
  /\ \A t \in trades : NotStoppedBefore(t, t.exited) /\ FilledHonestly(t)
  /\ \A p \in openPositions : NotStoppedBefore(p, Len(calendar) + 1)
=============================================================================
