# trader-pxg in TLA+

A verification project for the paper-trading system of this repository: TLA+
modules translated from the Python source, TLC runs that check them on small
instances, and TLAPS proofs for every instance. Paths below are relative to
the repository.

## 1. The system

trader-pxg is a set of one-shot processes. A scheduler (Windows tasks in
`scripts/*.xml`, systemd timers in `deploy/`) starts each of them with `--once`;
a process reads the shared SQLite database `data/trader.db` (WAL, one commit per
ledger call), talks to the IBKR paper gateway, writes back and exits. Nothing
survives a run except what it committed and what the gateway has heard. A
process never overlaps itself (`MultipleInstancesPolicy IgnoreNew`, oneshot
units) but overlaps every other one, and it is killed after ten minutes.

| Component | State it keeps | Operations | Talks to |
|---|---|---|---|
| ledger (`paper/ledger.py`, migrations 0005, 0009) | orders (status `pending_submit`, `submitted`, `filled`), positions, trades, kill state | record, heal, update, open, close, retire; lookups of unresolved and pending orders | SQLite |
| order references (`paper/idempotency.py`) | none | build a reference, match unresolved orders with broker fills | ledger |
| entry pipeline (`paper/entry_pipeline.py`), nightly | locals of a run | STEP 0 heals orphans; scan; per candidate: heal, skip in flight, halt gate, persist, submit, mark, open | ledger, gateway, registry, halt state |
| guardian (`paper/guardian.py`), 5 min | locals of a run | per open position: price, exit condition, heal or submit an exit, close; breakers; kill conditions | ledger, gateway, breakers |
| reconciliation (`paper/reconcile.py`), 1 min | reconciliation log, from which the halt state is derived | compare local, pending and broker quantities; halt | ledger, gateway |
| `clear_halt`, `clear_breaker`, `owner_close`, by hand | none | end a halt; restart the drawdown breaker; sell a position | ledger, gateway |
| circuit breakers (`risk/breakers.py`) | append-only events, derived current state | evaluate, trip, reset, manual restart | guardian, entry gate |
| risk gate, sizer (`risk/`) | none | filter and weigh candidates | entry pipeline |
| tournament (`tournament/`), weekly | strategy registry, audit log, decisions | queue, promote, demote, retire under caps | kill state, config_store |
| crypto leg (`crypto_entry_pipeline.py`, `broker_crypto_sim.py`, `snipe_experiment.py`), hourly | the same ledger | entries and exits with simulated fills | ledger |
| backtest engine (`backtest/runner.py`, `exits.py`) | runs and trades tables | point-in-time replay, exit evaluation, metrics | data |
| studies (`backtest/run_*.py`, `sweep*.py`) | checkpoint, candidate, result and evidence files | tune sweep, selection, validation, verdicts, kill levels | backtest engine |
| data (`data/`) | bar cache, instruments | cached fetch, hourly refresh | external sources |
| migrations (`data/db.py`) | schema version | apply the scripts that have no version row | every process that connects |
| ground truth (`ground_truth/`), 15 min | coin snapshots, outcomes | poll, resolve | external sources |
| graduation (`graduation/`) | reviews | evaluate the frozen checklist, report, record | tournament, paper trades |
| reports, alerts, operations log, watchdog | log file, outage state file | messages | all |

### What is hard about it

* **Two stores without a transaction.** The ledger and the gateway are written
  one after the other. The order is the design: write the row
  (`pending_submit`), send the order, mark it `submitted`, write the position;
  every gap is a possible death, and healing must close each of them.
* **Interleaving.** Each process reads lists and snapshots and acts on them
  later: the guardian's position list, the entry run's fills and profile pool,
  the halt check, reconciliation's three reads.
* **A forgetful gateway.** `fills()` covers only recent executions, a rejection
  reaches no process, and the gateway does not look at the order reference.
* **Derived state.** Breakers, strikes, caps and the halt are recomputed from
  rows: what a run that died left half written is what the next one reads.
* **Files and rows.** A study's rows are committed one by one and its checkpoint
  is replaced as a whole file, but candidates, results and kill conditions are
  written in place, so that a death can leave a torn one; the gates that verify
  the frozen definitions stand in different places in different drivers.
* **Repetition.** The same run on the same date, or the same candidate on the
  next date, meets orders that are in an unknown state.

### What makes each component correct

* Submission: a row before the gateway call; a reference at most once; a status
  never ahead of the gateway; one unresolved BUY per profile and symbol; every
  BUY that was sent can be found again.
* Positions: one open position per order and per symbol; one booking per close;
  never more sold than bought; an exit blocked only by an exit of its own.
* Halt: the gate's race is at most one order wide; a difference that lasts and
  is not explained halts; healing is never blocked.
* Kill: a profile killed between runs buys nothing any more.
* Breakers: the log's latest rows say what the rules say of the book; only a
  human ends a drawdown halt.
* Crypto leg: one position per coin, one booking per close, a coin sniped once.
* Tournament: no stage skipped, caps hold, a demotion was sustained, slots that
  become free are used, every closed run is audited.
* Studies: cells counted once, cited runs exist and were run on frozen
  definitions, an interrupted study ends as an uninterrupted one.
* Graduation: a pass does not hang on one trade or one market condition, and its
  equity never fell by the limit from one day to a later one.
* Sizing: what passes have sized keeps the caps together, up to the slippage of
  the fills, and a pass leaves room for all of the book, whoever opened it.
* Backtest: every trade is one its bars allow, with slippage and without
  looking ahead, the stop first.
* Data: a cached bar is final and a refreshed cache without gaps; a recorded
  migration is whole.

## 2. Modules

| Module | What it is |
|---|---|
| `PaperTrading` | the four stock processes, the ledger, the gateway and the calendar in one state machine |
| `PaperTradingProperties` | type invariant, safety, temporal properties, the refinement mapping, the claims that are refuted |
| `OrderProtocol` | the abstract promise of order submission: record, then send once, then execute at most once |
| `MCPaperTrading` | instances: profile assignment, crash-point sets |
| `LossRules` | what breakers and kill conditions conclude from a sequence of P&L |
| `Breakers` | the breakers' event log and the state read from it |
| `BreakerPromise` | the abstract promise of the breakers: two self-resetting switches, one a human restarts |
| `CryptoDesk` | the crypto book: entries, guardian, snipe experiment and human around one ledger, on `Breakers` and `LossRules` |
| `CryptoDeskProperties` | its properties, the refinement mapping to `BreakerPromise`, a claim that is refuted |
| `Tournament`, `TournamentProperties` | registration, the state machine with its caps and the weekly run |
| `Study`, `StudyProperties` | sweep, selection, validation and kill levels: one protocol, a record per driver |
| `MarketData` | hourly refresh and daily read-through cache, with their properties |
| `Migrations` | `apply_migrations` over the scripts that may not simply be repeated |
| `Backtest` | the runner's date loop with the exit rules, against the bars |
| `Graduation` | the five checks of a review and its three steps |
| `Sizing` | correlation gate and sizer over successive passes, beside the positions nobody sized |
| `MCCryptoDesk`, `MCMarketData`, `MCMigrations` | instances of one module each |
| `MCWorkshop` | instances of the seven jobs beside the desk, and their sum |
| `Ordering` | the list of a finite set's members in a strict order |
| `CommonLemmas` | what the proofs of several parts need of numbers, folds and sums, and of lists |
| `PaperTradingProofs` | `PaperTrading`: what the helpers return, `TypeCorrect`; on top of it `PersistedFirst`, `NeverResubmitted`, `Implements` |
| `LedgerProofs` | on top of these: `OneBuyAtATime`, `StatusFollows`, `OnePositionAtATime`, `BookedExactlyOnce`, `BuysLeaveATrace`, `HaltGate`, `KilledNeverBuys`, `OnePositionPerSymbol`, `SharesAreSoldOnce` |
| `DeskProofs` | `CryptoDesk`: `DeskTypeCorrect`, `ClosedAtMostOnce`, `CoinHeldOnce`, `CoinSnipedOnce`, `EntriesAskFirst`, `TradesEndHalts`, `GateReadsTheRules`, `LogIsASwitchboard` |
| `TournamentProofs` | `Tournament` and `Graduation`: `RosterTypeCorrect`, `HistoriesAreLegal`, `CapsAlwaysHold`, `DemotionsAreSustained`, `FreedSlotsAreTaken`, `ClosedRunsAudited`, `PassesAreMoreThanLuck` |
| `StudyProofs` | `Study` and `Backtest`: `CellsAreCountedOnce`, `CitedRunsAreThere`, `CitedEvidenceIsFrozen`, `StudyEndsAsUninterrupted`, `TradesAreHonest` |
| `DataProofs` | `MarketData` and `Migrations`: `BarsAreFinal`, `RefreshesCatchUp`, `RecordedVersionsWhole` |
| `SizingProofs` | `Sizing`: `CapsOfTheBook`, `WholeBookIsCounted`, `GateKeepsTheBest` |

Two compositions. `CryptoDesk` EXTENDS `Breakers` EXTENDS `LossRules`: entries
make positions, positions trades, trades breaker events, events a halt of
entries. `MCWorkshop` puts the other seven next to one another; they share the
database file but no row, so a variable `focus` picks the one that moves and
TLC explores the sum of their state spaces, not the product.

### How `PaperTrading` corresponds to the code

*State.* `orders[r]` is the row of `paper_orders` with reference `r` (a record
of the tuple that `build_order_ref` encodes; status "none" for no row; `row`
keeps insertion order). `positions` and `trades` are `paper_positions` and
`paper_trades` in insertion order, and `positions[i].ref` is `entry_order_ref`.
`registry` holds the profiles in state probation or full, `killed` is
`strategy_kill_state`, `halt` the `reconciliation_halt_state` view, `tripped`
whether any breaker's latest event is a trip. `broker`, `held` and `fills` are
the gateway: how often it received, executed and rejected an order, its net
positions, and what `fills()` still reports. `entry`, `guardian`, `recon` and
`owner` are the local variables of a run with a program counter. `issuedFor`
(the position a sell was recorded for) and `lateBuys` (BUYs sent during the
standing halt) are history variables no action reads.

*Steps.* A step is one committed ledger call, one gateway call, or a group of
reads. Reads are grouped only where no other process writes what they read or
where a write in between has no effect the group does not already have; the
comments at `EntryStart`, `EntryScan`, `GuardianFinish` and `Retire` say which.
`Crash` loses the locals of a run at any counter in `CrashPoints`: it stands for
the scheduler's kill, a lost connection, `IntegrityError` at the UNIQUE
reference, and `latest_price` raising. `record_order` on a used reference ends
the run, as the uncaught exception does.

| Code | Action |
|---|---|
| snapshot and STEP 0 (`entry_pipeline.py` 256-350) | `EntryStart`, `EntryHeal`, `EntryHealOpen` |
| closed exchange, no live config (352-358) | `EntryNothingToScan` |
| scan, gate, sizer, budget (110-180, 360-403) | `EntryScan` |
| per position (407-529) | `EntryPick`, `EntryHeal`, `EntryBlocked`, `EntryGate`, `EntryPersist`, `EntryPlace`, `EntryMark`, `EntryOpen` |
| end of the run (531-544) | `EntryDone` |
| `run_guardian_once` (`guardian.py` 391-477) | `GuardianStart`, `GuardianSnapshot`, `GuardianHold`, `GuardianFinish` |
| `_submit_exit` (124-244) | `GuardianHealExit`, `GuardianHealClose`, `GuardianInFlight`, `GuardianExit`, `GuardianPersist`, `GuardianPlace`, `GuardianMark`, `GuardianClose` |
| `run_reconcile_once` | `ReconcileReadLocal`, `ReconcileReadPending`, `ReconcileSnapshot`, `ReconcileRecord` |
| `clear_entry_halt` | `HumanClear` |
| `close_position_by_symbol` | `OwnerStart`, `OwnerPersist`, `OwnerPlace`, `OwnerMark`, `OwnerClose` |
| tournament `retire` | `Retire` |
| gateway (external) | `BrokerFill`, `BrokerReject` |
| market date | `NextDay` |

*Abstractions.* Prices, fees and P&L are gone: which exit fires, which symbols
signal, how many shares are bought, whether breakers trip and kill conditions
hold are free choices. That over-approximates every module those values come
from. Orders execute whole. Market dates only move forward, and an entry run
keeps the date it started with. The database starts empty, which is what
migration 0005 leaves.

### `CryptoDesk`, `Breakers` and `LossRules`

*State.* `orders` maps a recorded reference to its status (`paper_orders`);
`positions` and `trades` are the ledger's tables; `events` is `breaker_events`
with, as a history, the number of trades its writer had read; `listed` is when
the poller first saw a coin; `entry`, `guardian`, `snipe` are locals of a run.
`entry.asked` is a history too: the events there were when the gate was passed.
`LastAction` is the view `breaker_state_current`. A reference carries a stamp,
an hour or a day, because hourly families and the snipe stamp the hour and
everything else the day.

| Code | Action |
|---|---|
| `run_crypto_entry_pipeline` (scan, gate, loop) | `EntryScan`, `EntryBlocked`, `EntryGate`, `EntryPersist`, `EntryFill`, `EntryOpen`, `EntryDone` |
| `run_guardian_once`, `_submit_exit` on the simulated venue | `GuardianStart`, `GuardianExit`, `GuardianPersist`, `GuardianFill`, `GuardianClose` |
| `evaluate_account_breakers`, `record_breaker_transitions` | `GuardianEvaluate` (reads), `GuardianRecord` (a commit per row) |
| `evaluate_kill_conditions` | `GuardianKill` |
| `snipe_experiment.py` | `SnipeStart`, `SnipeSell`, `SnipeBook`, `SnipeBuy`, `SnipeNoTarget`, `SnipeOpen` |
| `clear_breaker` | `HumanRestart` |
| clock and poller | `NextHour` |

`LossRules` computes: daily loss, drawdown and losing run over the curve the
guardian passes (a point per trade), and the kill conditions over the last
`Window` trades. Percentages are compared by cross-multiplication of integers.
What is free: which coins signal, which exits fire, what a trade earns. As in
`PaperTrading`, a simulated order that its process did not finish stays
pending, since nothing ever reports it.

### The jobs in `MCWorkshop`

* `Tournament`: a step is one commit of `judge.py`, `pipeline.py` or
  `register_entrant.py`; `judge` holds the locals of a run (what it read of the
  registry, who clears a floor, decisions not recorded yet), `transitions` and
  `decisions` are the audit tables. Sharpe ratios are free in each run. The
  five profiles that migration 0006 seeds as "full" have no candidate row; the
  model starts from a history with the same effect in which they have one.
* `Study`: the drivers `run_tune_sweep_all*`, `run_*_evidence`, the OOS and
  kill-level scripts are copies of one protocol; `Drivers` has a record for
  each: its grid, whether it resumes, cleans up or runs in one process, where it
  verifies the frozen files. The pre-registered run counts are checked against
  the grids by `StudyAssumption`. A cell, i.e. one backtest, is one step. A
  process that dies while it writes candidates, results or kill conditions
  leaves a file nobody can parse (`ProcessDiesWriting`, `Unreadable`).
* `MarketData`: a bar is its hour and the hour it was fetched at; whether it is
  final is a relation between the two. The refresh is stepped through (current
  hour, resume point, fetch, filter and write); the daily read is one step.
* `Migrations`: a step is one statement, for `executescript` commits each; of
  the nine scripts those with a rebuild or an `ALTER TABLE` are kept.
* `Backtest`: a step is one date of the calendar with its bars drawn at random.
  A position is opened at the slipped price of its bar's open, from which its
  levels and its watermark are taken, as in the code.
* `Graduation`: evaluate, write the report, record; trades close in between.
* `Sizing`: a step is one pass over a day's candidates beside an open book
  (`EntryPass`), or what else opens and closes positions: a healed order of a
  pass that died (`HealOrphan`), a snipe, exits. `book` is what
  `get_open_positions` weighs, quantity times entry price; a coin's weight
  is therefore its size with the slippage of the fill, a stock's that of the
  whole shares bought. `sizedIn` says which positions a pass has sized.

## 3. Runs

Runs `trading` to `crash_in_heal` check `MCPaperTrading`, the others the module
named. Deadlock checking is on for the two desks: the schedule never ends, so no
state may be without a successor. It is off where bounded jobs come to an end:
`workshop` and `stale_bars`.

| Run | Instance | Shows |
|---|---|---|
| `trading` | entry, guardian; 1 symbol, 1 profile, dates 0..3 of which 1 is closed; entry dies anywhere but inside a heal, guardian before it sends or heals a SELL; executions drop out | `TypeOK`, `StatusNeverAhead`, `OneOpenPositionPerSymbol`, `BookedOnce`, `NeverOversells`, `OneUnresolvedBuy`, `OneOpenPositionPerOrder`, `BuysStayTracked` |
| `desk` | entry, guardian, owner on one date, each dying anywhere; the profile may be killed | `SubmittedAtMostOnce`, `ImplementsProtocol`, `KilledStopsBuying` |
| `halt` | entry, guardian (breakers and kills only), reconcile; 2 symbols; rejections, retirement | `HaltLetsOneBuyThrough` |
| `live` | entry, reconcile; 2 profiles of a family, one of which may be retired; three dates, the last without trading; entry dying after it sent; fairness | `LastingDivergenceHalts`, `OrphansHealed` |
| `skipped_exit` | two dates, no crash; executions drop out | **refutes** `SkippedExitIsOwn` |
| `phantom` | one date, no crash | **refutes** `NoPhantomPosition` |
| `crash_in_heal` | two dates, entry dies anywhere | **refutes** `BuysStayTracked` |
| `desk_crypto` (`MCCryptoDesk`) | an hourly profile, one coin of the universe, one to snipe, an hour on either side of midnight; runs die at their worst places; one manual restart | `DeskTypeOK`, `ClosedOnce`, `OnePositionPerCoin`, `OnlyEntriesBeforeTheTrip`, `SnipedOnce`, `BreakersFollowTheBook`, `ResetsNeedATrade`, `ImplementsBreakerPromise` |
| `exit_collision` (`MCCryptoDesk`) | one hourly profile, one day, no deaths | **refutes** `ExitsHaveFreshRefs` |
| `workshop` (`MCWorkshop`) | seven jobs, see below | Tournament: `RosterTypeOK`, `HistoryIsLegal`, `CapsHold`, `DemotionWasSustained`, `FreedSlotsAreUsed`, `ClosedRunsAreAudited`. Study: `CellsCountedOnce`, `CitedRunsExist`, `EvidenceIsFrozen`, `EndsAsUninterrupted`. Data: `HourlyBarsAreFinal`, `RefreshCatchesUp`, `RecordedVersionsAreWhole`. `TradesMatchTheBars`, `GraduatesOnMoreThanLuck`, `BookWithinCaps`, `PassesCountTheWholeBook`, `SurvivorsAreTheBest` |
| `stale_bars` (`MCMarketData`) | days of two hours, one symbol | **refutes** `ScansSeeYesterday` |
| `half_applied` (`MCMigrations`) | the migrations of `workshop`, one connection at a time | **refutes** `OneTransactionPerFile` |

*Bounds of `PaperTrading`.* Every order reference names a profile, a symbol, a date and an
intent; processes of different profiles and symbols share only the halt state,
the kill state and quantities per symbol. One symbol and one profile therefore
exercise every interaction about one tuple; a second symbol is added where the
property is about the run as a whole (`halt`: two candidates of one run on both
sides of a halt), a second profile where a retirement may change who an orphan
belongs to (`live`).
Two dates suffice to meet an order of an earlier date, three trading dates to
have a position of the first, its exit on the second and another entry on the
third; one closed date lies between them. The last date of `live` is a closed one, on
which the behaviour stays for ever: what heals an order there is STEP 0 alone. `Quantities = {1}`: equality of
quantities is what the classification compares, and one share makes the
accidental equalities as frequent as possible. `LastDay` bounds dates,
everything else is finite because a reference is used at most once.

*Bounds of `CryptoDesk`.* One profile and one coin already make every pair of
processes meet on a ledger row; the snipe's coin is the one the others must leave
alone. The profile is hourly, so with two hours a coin is bought again after its
exit, and a day's exit reference is met twice. P&Ls are -8 and 9 of an equity of
100: a loss trips daily loss and drawdown, two in a row the streak, a gain resets
the first, and no running P&L has a peak of exactly zero (by which the code
divides). A daily profile and several coins are left to the proofs.

*Bounds of the workshop.* Tournament: three names for two places and two
entries a quarter, two quarters, three runs after the two that made the history:
enough to strike a strategy twice with a death in between and to hand its
slot on. Registrations take place between runs but for their last commit, and a
run dies inside a retirement or between two decision rows (elsewhere it leaves
nothing that these do not). Study: two groups of two variants and two cells,
four process starts: a unit is interrupted, repeated, interrupted again
and finished. Definitions are edited or restored between processes, never under
a running one. Two metric tables rank cells in different orders. Bars: two
refreshers, two symbols, the clock moves twice. Migrations: one table empty, one
written to; the property is stated for deployments in which nothing overlaps a
migration, since with an overlap it fails. Backtest: four bars and dates
without one, four dates, four profiles that among them hold each exit rule; one
symbol, as positions of a run do not interact there, with the slippage of a
memecoin. Graduation: four trades of five kinds, minimum three, a drawdown limit
of 4 % that some of the lists reach between two days and not from the start. Sizing: four symbols of the three classes and a ticker for the snipe,
three markets, two passes: a memecoin at its cap beside another one, scores that
tie, a symbol that fails a check, a book that a snipe or a healed order has filled
further. The second pass sees the first's positions; thousandths of equity make
every rounding visible.

*Conditions that hold in an instance and not in general.*
`OneOpenPositionPerSymbol` needs the symbol's profile to stay the same: when a
profile is retired, the hash over the remaining ones may move a symbol to
another profile, whose lookup does not see the orders of the first
(`OneUnresolvedBuy` is about one profile and holds in general, section 4).
`BuysStayTracked` fails when an entry run dies inside a heal: that is finding 3.
`NeverOversells` fails when a tick dies inside the heal of an exit (guardian.py
158-164: the position is open, its SELL resolved, and the next tick sends
another), and when it dies between sending a SELL and closing the position while
the BUY is still unresolved: the next tick heals the SELL and closes, the entry
run heals the BUY and opens a position for shares that are gone (finding 2), and
no unresolved SELL holds back a second one. Elsewhere a tick may die.
With `owner_close` racing a guardian tick both may sell and
book the same position, so `BookedOnce` is stated for instances without `owner`;
that combination is left to the submission properties.
`trading` leaves out the deaths inside a heal for the sake of `BuysStayTracked`;
`desk` has them, and the theorems of section 4 make no such exception but where
they say so. That a row precedes its send, `PersistBeforeSubmit`, has no run of
its own: `ImplementsProtocol` contains it, and it is a part of the invariant
`PersistedFirst` proves. In `desk` the one profile may be killed at any time, between
an order's row and a later run included.

*Fairness.* Only `live` assumes any. `FairSpec` adds weak
fairness of the entry pipeline's and of reconciliation's steps: their schedules
start a run again and again, and a run that is not killed goes on. Nothing is
assumed of the guardian, the gateway or humans. `Crash` is limited there to
the point after the gateway call: with a run that may die at every step forever,
nothing would ever be done, and the code does not claim otherwise.

### What the refuted claims show

1. **An exit skipped for another position's order** (`skipped_exit`).
   guardian.py:198-199 says "an exit for this position is already in flight
   from a prior tick". A normal exit closes the position and leaves its order
   `submitted` for good; the lookup is by strategy, symbol and side. When the
   symbol is entered again, the old order is found. As soon as the gateway no
   longer reports its execution, the new position's exits are skipped, on every
   tick. The property only counts orders that were executed, of positions closed
   before the one at hand was opened by an order of its own, so the trace shows
   this and not finding 2: a position is entered and sold on one day, the sale
   is executed and drops out of the report overnight, the symbol is entered by
   the order of the next day, and the next tick skips its exit.
2. **A phantom position** (`phantom`). 05-06-PLAN.md:22 says "Resubmitting the
   same trading day's run twice never opens a second position for the same
   symbol". A normal entry leaves its order `submitted`; if the guardian has
   closed the position by the time of a second run, STEP 0 finds the reported
   fill and no *open* position, and opens one for shares that were sold.
3. **A BUY without a trace** (`crash_in_heal`). entry_pipeline.py:490-493 says
   any crash leaves a trace a later run will find. `heal_order` commits
   `filled` before `open_position`; `latest_price` sits between them and may
   raise. Such an order is neither unresolved nor has it a position.

4. **The second exit of a day** (`exit_collision`). guardian.py:472 says breakers
   and kill conditions "run every tick regardless of whether any exit fired".
   Exit references are stamped with the day. Hourly entries are not, so that a
   coin can be entered again on the day of its exit; its second exit for
   the same reason then meets a used reference, `record_order` raises
   `IntegrityError`, and this tick and all others of that day end there.
5. **Scans on old bars** (`stale_bars`). 05-CONTEXT.md:27 says "daily-bar
   strategies decide on yesterday's close". A scan asks for bars with an end and
   no start, and without a start any cached row is a hit: once a symbol is in the
   cache, no scan fetches it again, and no scheduled process does.
6. **A migration applied by half** (`half_applied`). db.py:32-34 says "all inside one
   short transaction per file". `executescript` commits every statement: a
   process that dies between DROP and RENAME leaves no `strategy_kill_state`,
   and each later connection fails when it repeats the script at the copy.

Two more observations have no run. A memecoin sized at its cap of 100 is
booked at 104, for the pipeline buys the sized amount at the quote and books it at
the slipped fill; test_position_sizer.py:269-272 calls such a book no realistic
input. `BookWithinCaps` therefore states the caps up to the slippage. And a full
exit of a backtest sells 100 % of what was bought (runner.py:138) also when a tranche
went before, so that one and a half positions are sold after a tranche of a
half, with the entry costs that 02-08-SUMMARY.md:32 wants prorated. `Recorded` does
the same. No profile of the repository has tranches: the case waits for the
first that does.

Each property has a mutant in `PROJECT.json`: a small change of the mapped
definition (marked "Mutant" in the module) under which its run must fail.

## 4. Proofs

### The stock desk

Proved for every set of processes, symbols, profiles, dates, crash points and
exit reasons that satisfies `ConstantsAssumption` (references are finite in
number, the hash picks a live profile of the family it is given, exit reasons
are not the entry or owner intent).

* `TypeCorrect`: `Spec => []TypeOK`. One lemma per process; the interesting
  conjuncts say that a process which has a position or a reference in hand has
  a valid one. `TypeOK` is inductive because positions are only appended.
* `PersistedFirst`, `NeverResubmitted`: from the inductive invariant
  `SubmissionInv`. Neither property is inductive alone: a process at `place`
  could hold a reference another process has just sent. The strengthening says
  that a process at `place` holds a recorded, unsent reference (`ReadyToSend`),
  and that references of different processes differ by their intent
  (`OwnIntent`), so nobody else can send it in between.
* `Implements`: `Spec => ImplementsProtocol`. Initial states map to initial
  states; under `TypeOK` and `SubmissionInv` each `*Persist` step is a `Record`
  or a stutter, each `*Place` step a `Send`, `BrokerFill` an `Execute`, every
  other step a stutter.

* `OneBuyAtATime`, from `BuyInv`: a run past the gate has nothing unresolved for
  its candidate (`persist`), then only the row it wrote itself. No other process
  touches the rows of BUY orders, again by the intents of `OwnIntent`; the entry
  run's own steps only resolve rows or record the one the gate allowed.
* `StatusFollows`, from `StatusInv`: the runs decide by snapshots, so the
  invariant follows every place a belief is kept (`fills`, the two snapshots,
  the list of STEP 0): each holds executed orders only, executed orders were
  sent, and so was the order a process is about to mark.
* `HaltGate`, from `HaltInv`: `lateBuys <= 1` is not inductive. There is no late
  BUY while nothing halts, and none while the run that may send one stands
  between the gate and the gateway; so the one it sends is the first.
* `OnePositionAtATime`, from `PositionsInv`: every position is of a recorded
  order, so the order a run submits, unrecorded when it started, has none; a heal
  looks for one first. That only the entry run opens positions makes the look
  and the opening one act.
* `BookedExactlyOnce`, from `BookingInv`, assuming that nobody closes by hand
  (`"owner"` not scheduled): the guardian's list is of open positions and the one
  it is closing is still on it, so a close books a trade that was missing. With
  the owner scheduled the two can both close it (section 3).
* `BuysLeaveATrace`, from `TrackInv`, assuming that no run dies between the two
  commits of a heal: in between, the run itself is the trace of its order. The
  run `crash_in_heal` shows that the assumption is needed.
* `OnePositionPerSymbol`, assuming a settled roster (nobody is killed or retired,
  one family): a symbol then has one profile, its keeper (`KeeperInv`), so that the
  lookup per strategy sees every order of the symbol. `SymbolInv` says that an
  unresolved BUY of a symbol with a position is the BUY of that position, and
  `CandidatesInv` what the run in progress relies on: its candidates have no
  position, and past STEP 0 no unresolved BUY. With two profiles and a kill TLC finds
  the two positions.
* `SharesAreSoldOnce`, assuming in addition that nobody closes by hand and no tick
  dies with a SELL in hand that it has sent or healed (section 3 has what happens
  then). An order may have two positions, for a BUY healed after its position was
  closed opens a second. `OriginInv`: every position is of a BUY that was sent, with
  its shares, and an order with two opens no third. `SaleInv`: each SELL is for the
  shares of its position (`issuedFor`), its BUY has no other SELL, and while that BUY
  may still open a position the SELL stays unresolved, which keeps a second away.
  So SELLs map injectively to BUYs of the same shares.
* `KilledNeverBuys`: an order not sent, of a profile killed while no run was under
  way, is out of reach (`OutOfReach`), and stays so: no later pool has its
  profile, so no later run picks its reference, and references of other
  processes have other intents.

### The crypto book and the breakers

Proved for all profiles, coins, P&Ls, loss rules, clock lengths and crash points
that satisfy `DeskAssumption` and `RulesAssumption` (the snipe is no profile, its
coins are not the universe's, a trade never earns exactly nothing, the numbers
are naturals).

* `DeskTypeCorrect` and `ClosedAtMostOnce`, from `DeskInv`. `ClosedOnce` alone is
  not inductive: guardian and snipe close positions from lists they read before,
  and `close_position` asks for no status. The invariant says that such a
  position is still open (`guardian.todo`, `snipe.todo` within `OpenPositions`)
  because the two lists are about different strategies (`HomeInv`), a run that
  is past its order row acts on one of its list, and a closed position is one
  with a trade.
* `CoinHeldOnce` and `CoinSnipedOnce`, from `CoinInv` on top: nobody holds a coin
  the entry run still has a candidate or an order for, and every position and
  every sale of the snipe has its entry in the order history, which is what the
  snipe reads before it buys.
* `EntriesAskFirst`, from `GateInv`: at the gate no breaker stands, so one that
  stands later has a row after it.
* `GateReadsTheRules` and `TradesEndHalts`, from `BreakerInv`. The evaluation and
  its three commits are separate steps, with entries, sales and a human between
  them. The invariant says that a row still to be written is still due, that one
  written agrees with the evaluation, that the part of the book it was made on
  never changes, and that each trip in the log was due on the book its writer
  had read; two evaluations of one book agree, so a trip and its reset are from
  different ones.
* `LogIsASwitchboard`: `Spec => ImplementsBreakerPromise`. `GuardianRecord` is a
  `Trip` or a `Reset` (its row is due by `BreakerInv`) or a stutter, `HumanRestart`
  a `Restart`, every other step a stutter.

### The tournament

Proved for finitely many profiles, any caps, floors and numbers of quarters that
satisfy `TournamentAssumption` (the initial roster is within the caps, its history
explains it), with runs that die after any commit.

* `RosterTypeCorrect`, from `TypeInv` and `RunInv`, which ties the locals of a run to
  the tables: it is the last one and still open, nothing of it is in the decisions
  before it records them, whom it judges has evidence enough, and what it has
  decided is about profiles it is through with.
* `HistoriesAreLegal`: the rows of a profile are a path of the state machine that
  ends in its present state. A row is only ever appended with the state the
  registry holds as its origin, so the path is extended at its end; the rest of the
  log is other profiles' rows. It starts from the history the initial roster comes
  with, which is legal itself.
* `CapsAlwaysHold`, from `AdmissionsInv`: rows are of this quarter or an earlier
  one, and a row to probation is one from candidate, so an admission is counted
  by both caps in the step that makes it; nothing else raises either count.
* `DemotionsAreSustained`: the decisions on record before a retirement end in
  `Sustain - 1` strikes. All decisions are of earlier runs when a run counts the
  streak (`DecidedEarlier`), so what it counts is their end, and those it adds
  afterwards are not earlier than its own retirements.
* `FreedSlotsAreTaken`, from `QueueInv`: a candidate the run has passed over is in the
  queue for want of room, and after the first of these the run only comes to
  candidates; so room that appears later is the one they were refused for.
* `ClosedRunsAudited`, from `AuditInv`: what a run has moved is explained by a
  decision on record or in hand, or is the retirement it is in the middle of,
  nobody is decided on twice, and whoever the run is through with has a decision;
  a run closes when it is through with everyone it judges.

### Graduation

`PassesAreMoreThanLuck`, in `TournamentProofs`, for any closed trades, reviews and
deaths, under `GraduationAssumption`. The numbers it asks for are those of
frozen_checklist.py, kept as inequalities: a trade may make less than half of the
profit (`MaxSharePct` is 40), at least two conditions must be profitable, and some
drawdown is allowed. `GraduationInv` says that a row, on record or still
in the review's hands, states the verdict on the trades it counted; trades are only
appended, so it stays true of them. The rest is arithmetic on one passing
list (`PassIsMoreThanLuck`): what a fold over it computes is a sequence of partial
sums (`PnlSums`), so with n winners, none above 40% of the profit, the profit is at
most n times that share (`ManyWinners`): two are not enough. The starts of days are
the partial sums the check computes its drawdown from: each is no less than the
limit below the highest before it, hence below any before it.

### Gate and sizer

In `SizingProofs`, for any universe, classes, caps, share prices and slippage, and
any number of passes, heals, snipes and exits. `SizingAssumption` says what the code has by construction: every symbol of the
universe has a score and a raw weight that is not negative (an RSI by a
volatility), a correlation is known of any two, the reserve is at most everything.

* `CapsOfTheBook`: the caps are inductive, with the book's type. A pass divides
  the room in proportion to raw weights, rounding down, so that the parts
  together do not exceed it (`SharesFit`, from `WeightCompares`); capping only takes
  away, and the memecoins' room is divided the same way by what they have after the cap.
  `SizesFit` has these four facts about new sizes. What is booked is at most the
  size with its slippage (`Slipped`), for each and so for their sums, and
  `PassFits` adds them to the book. The positions of snipes and heals are not
  bounded by anything; they only make the room smaller.
* `WholeBookIsCounted`: the same step, for the book as a whole. A pass that opens a
  position had room for it, that is, the book before was below the reserve, and
  the room is what it left. (After a snipe or a heal the book may be
  above its caps, which `PassesCountTheWholeBook` allows: no pass then opens a
  position there.) That what is open is in the book is a condition of both:
  section 5 has the case in which it is not.
* `GateKeepsTheBest`: the walk over the pairs is a chain of shrinking sets
  (`EliminationSteps`). A pair whose members both stay was met on the way, and one of
  them went; a candidate that beats all its rivals is the loser of no pair, and a pair
  takes one of two that are left, so never the last. This holds
  for every order of the pairs, as long as the list has all of
  them (`PairsAreListed`).

### Studies

Proved for any drivers, groups, variants, cells and metric tables that satisfy
`StudyAssumption`, and for processes that start, die and meet edited files any
number of times. `StudyInv` has six parts: types; a run's number is its own and
none is above the last one given out (`NumbersInv`); what a process makes counts
only after its check of the frozen files (`FrozenInv`); the sweep's checkpoint is a
prefix of the units, in order, each with all its cells (`SweepInv`); with clean-up no
other run of a unit is left (`CleanInv`); candidates, verdicts and survivors are
functions of the checkpoint (`ArtifactsInv`).

* `CellsAreCountedOnce`: from `CleanInv`, by counting the runs of a unit through the
  injection from its cells.
* `CitedRunsAreThere`, `CitedEvidenceIsFrozen`: clean-up deletes runs of the unit in
  progress only, which nothing cites yet.
* `StudyEndsAsUninterrupted`: what is selected depends on the metrics of the cells,
  not on the numbers of their runs, so an interrupted study has the survivors of one
  that ran through.

### The backtest engine

`TradesAreHonest`, in `StudyProofs`, for any symbols, bars, slippage, profiles and
number of dates that satisfy `BacktestAssumption`: a bar's open and close lie between its low
and its high, and targets are above the price of an entry. The property looks
at the bars from a position's entry on, the model only at what the position
carries, so `BacktestInv` ties one to the other: the price is the open of the entry bar
with slippage, the watermark the highest close since entry or that price, `daysHeld` counts the bars since then, the levels are those of the
entry, and no bar so far has stopped the position (`HoldingsInv`); a symbol that is
pending was picked with no bar since, after its last trade (`EntriesInv`). A symbol
has one open position, so the trades of a date on it have the same entry as what
is left of it.

* `FirstRule`: on a bar that stops a position, the first rule that holds has rank 3 or
  less, so all of the position is sold, below the stop. What is sold at a target is
  therefore sold on a bar that stops nothing, and so is what is kept.
* The level that a bar is checked against is made of earlier closes, since the
  calendar grows at its end (`PeakKept`, `NotStoppedKept`): what a trade was paid
  stays honest when later bars are shown.

### Bar cache and migrations

* `BarsAreFinal` and `RefreshesCatchUp`, under `MarketDataAssumption`, from
  `HourlyInv`: the cache has no gap below any bar, and each run holds a current
  hour that has come, a resume point below which its symbol's history is whole,
  and after the fetch everything from there to an hour not before its own. This
  survives other runs because caches only grow.

* `RecordedVersionsWhole`, under `MigrationsAssumption` (`Absent` is no table), for any
  connections and rows. `MigrationsInv` holds as long as nothing overlaps a
  migration: a row is in its table or in the copy (`PairKept`), and a process at the
  k-th statement finds what the statements before it leave (`Reached`), whoever ran
  them and however often they were run again. That is the reason to begin a script
  anew: CREATE keeps a copy that is there, a copied row stays in it, and a DROP or
  RENAME of what is not there fails before it loses anything. A recorded version
  is a script whose end was `Reached`, and no later script touches its tables.

### What is only model-checked

* Liveness (`LastingDivergenceHalts`, `OrphansHealed`): fairness is outside the
  proof system's reach.
* What a recursive definition computes needs an induction over an operator, which
  the provers cannot be given. `CommonLemmas` has it for sets instead: a
  set of naturals closed under successor has all of them (`SetInduction`), so have the
  parts of a finite set (`SubsetInduction`), and hence a fold over a finite set
  has a solution, a sum does not depend on the order (`FoldIsDefined`,
  `SumInAnyOrder`), and a list holds each member (`MemberIsListed`). Each fold of a model
  is then taken apart by its definition.
* `LossRules` is opaque in the proofs of the crypto book: they
  hold whatever `Breached` and `KillDue` say.

Refuted claims are not theorems, of course.

## 5. Not modelled, and why

* **Ground truth poller**: it writes snapshots and outcomes that only the snipe
  reads back; `CryptoDesk` leaves a coin's first sighting free.
* **Alerts, operations log, watchdog, reports, dashboard**: output that no process
  reads for a decision. (That clear_halt.py:63 commits its row
  before the log line that must accompany it is listed as a hazard.)
* **Strategy signals, indicators, scores, regimes**: numerical; every model leaves
  the outcome free.
* **Partial executions** and **scale-out on the live desk**: orders execute and
  close whole in both desk models, as they have no quantities to tell a part from
  the whole; `Backtest` has the tranches.
* **Summary metrics, fees, equity in the backtest**: they scale what a trade earns
  and decide nothing in the loop. (Slippage decides, and is modelled.)
* **Wire formats, connection handling, rate limits** of exchanges and gateway;
  deployment files, of which only the effect is kept (no overlap with itself,
  repetition, a death at any time).

What would come next: quantities and partial fills in `PaperTrading`; two passes
of `Sizing` that size at the same moment, which together may exceed the cash
reserve.
