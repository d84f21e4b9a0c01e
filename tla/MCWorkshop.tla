------------------------------ MODULE MCWorkshop ------------------------------
(* The jobs beside the trading desk.  They share the database file but no  *)
(* row, so a behaviour of all of them is one of each: the initial state    *)
(* puts one in focus, only that one moves, and one run checks them all on  *)
(* the sum of their states instead of the product.                         *)
EXTENDS TournamentProperties, StudyProperties, MarketData, MCMigrations, Backtest,
        Graduation, Sizing, TLC

VARIABLE focus

Jobs == {"tournament", "study", "hourly bars", "daily bars", "migrations", "backtest",
         "graduation", "sizing"}

\* Out of focus a job is in one of its initial states.
WorkshopInit ==
  /\ focus \in Jobs
  /\ Init /\ StudyInit /\ MarketInit /\ MigrationsInit /\ BacktestInit
  /\ GraduationInit /\ SizingInit
  /\ focus # "study" => study = [driver |-> Run4hEvidence, metrics |-> CHOOSE m \in MetricTables : TRUE]
  /\ focus # "backtest" => profile = CHOOSE p \in ExitProfiles : TRUE

TournamentMoves ==
  /\ focus = "tournament" /\ Next
  /\ UNCHANGED <<studyVars, marketVars, migrationVars, backtestVars, graduationVars, sizingVars>>
StudyMoves ==
  /\ focus = "study" /\ StudyNext
  /\ UNCHANGED <<vars, marketVars, migrationVars, backtestVars, graduationVars, sizingVars>>
HourlyMoves ==
  /\ focus = "hourly bars" /\ HourlyNext
  /\ UNCHANGED <<vars, studyVars, migrationVars, backtestVars, graduationVars, sizingVars>>
DailyMoves ==
  /\ focus = "daily bars" /\ DailyNext
  /\ UNCHANGED <<vars, studyVars, migrationVars, backtestVars, graduationVars, sizingVars>>
MigrationsMove ==
  /\ focus = "migrations" /\ MigrationsNext
  /\ UNCHANGED <<vars, studyVars, marketVars, backtestVars, graduationVars, sizingVars>>
BacktestMoves ==
  /\ focus = "backtest" /\ RunDate
  /\ UNCHANGED <<vars, studyVars, marketVars, migrationVars, graduationVars, sizingVars>>
GraduationMoves ==
  /\ focus = "graduation" /\ GraduationNext
  /\ UNCHANGED <<vars, studyVars, marketVars, migrationVars, backtestVars, sizingVars>>
SizingMoves ==
  /\ focus = "sizing" /\ SizingNext
  /\ UNCHANGED <<vars, studyVars, marketVars, migrationVars, backtestVars, graduationVars>>

WorkshopNext ==
  /\ UNCHANGED focus
  /\ \/ TournamentMoves \/ StudyMoves \/ HourlyMoves \/ DailyMoves
     \/ MigrationsMove \/ BacktestMoves \/ GraduationMoves \/ SizingMoves

WorkshopSpec == WorkshopInit /\ [][WorkshopNext]_<<focus, vars, studyVars, marketVars,
                  migrationVars, backtestVars, graduationVars, sizingVars>>

-----------------------------------------------------------------------------
(* Tournament: two promoted strategies and a third name for two places.    *)

CONSTANTS n1, n2, n3
ThreeNames == <<n1, n2, n3>>
FirstTwo == <<n1, n2>>
GoodAndBad == {-1, 1}
\* A run dies in a retirement, or before all its decisions are recorded.
Deaths == {"kill", "record"}

-----------------------------------------------------------------------------
(* Study: two groups of two variants and two cells.  A cell is good, better*)
(* in the sweep and worse after it, or lucky in too few trades.            *)

Good   == [tune |-> [trades |-> 30, pf |-> 15], oos |-> [trades |-> 15, pf |-> 12, drawdown |-> -4]]
Better == [tune |-> [trades |-> 40, pf |-> 20], oos |-> [trades |-> 15, pf |-> 9, drawdown |-> -20]]
Lucky  == [tune |-> [trades |-> 4, pf |-> 99], oos |-> [trades |-> 15, pf |-> 12, drawdown |-> 0]]
Keys == {<<g, v, k>> : g, v, k \in 1..2}
Tables == {[x \in Keys |-> IF x[2] = 2 /\ x[3] = 1 THEN Better ELSE Good],
           [x \in Keys |-> IF x[3] = 1 THEN Lucky ELSE IF x[1] = 1 THEN Good ELSE Better]}

-----------------------------------------------------------------------------
(* Graduation: wins in two conditions and outside of any, two losses.      *)

PaperTrade(pnl, window, stock, spy, first) ==
  [pnl |-> pnl, adverse |-> 3, window |-> window, stock |-> stock, spy |-> spy,
   firstOfDay |-> first]
FiveTrades ==
  {PaperTrade(20, "choppy", TRUE, "unknown", TRUE), PaperTrade(20, "none", TRUE, "risk_on", FALSE),
   PaperTrade(60, "none", FALSE, "risk_off", TRUE), PaperTrade(-5, "none", TRUE, "risk_on", TRUE),
   PaperTrade(-12, "choppy", FALSE, "risk_on", FALSE)}

-----------------------------------------------------------------------------
(* Backtests of one symbol: a bar that touches stop and target, a rise, a  *)
(* gap down and a fall; every exit rule is in one profile.  Slippage is    *)
(* that of a memecoin.                                                     *)

Bar(open, high, low, close) == [open |-> open, high |-> high, low |-> low, close |-> close]
FourBars == {Bar(100, 130, 70, 100), Bar(100, 120, 95, 110), Bar(80, 90, 60, 70),
             Bar(100, 110, 90, 90)}
Unset == -1
ExitProfile(stop, target, trailing, hold, tranches, eod) ==
  [stop |-> stop, takeProfit |-> target, trailing |-> trailing, maxHold |-> hold,
   scaleOut |-> tranches, eodFlat |-> eod]
FourProfiles ==
  {ExitProfile(20, 20, Unset, 2, <<>>, FALSE), ExitProfile(Unset, 30, 10, Unset, <<>>, FALSE),
   ExitProfile(30, 30, Unset, 3, <<[gain |-> 10, fraction |-> 50]>>, FALSE),
   ExitProfile(20, Unset, Unset, Unset, <<>>, TRUE)}

MemecoinSlippage == [s \in Universe |-> 4]

-----------------------------------------------------------------------------
(* Sizing: a stock, a major coin, two memecoins and a sniped one on three  *)
(* days.                                                                   *)

FourSymbols == <<"AAPL", "BTC", "PEPE", "WIF">>
Symbol4(p, q, r, t) == [s \in {"AAPL", "BTC", "PEPE", "WIF"} |->
  CASE s = "AAPL" -> p [] s = "BTC" -> q [] s = "PEPE" -> r [] s = "WIF" -> t]
FourClasses == Symbol4("stock", "crypto_major", "memecoin", "memecoin") @@ ("NEW" :> "memecoin")
NewTickers == {"NEW"}
\* In percent, that of stocks and major coins rounded up.
ClassSlippage == Symbol4(1, 1, 4, 4) @@ ("NEW" :> 4)
SharePrices == "AAPL" :> 150

Correlated(bp, pw) == [pair \in {{s, t} : s, t \in {"AAPL", "BTC", "PEPE", "WIF"}} |->
  CASE pair = {"BTC", "PEPE"} -> bp [] pair = {"PEPE", "WIF"} -> pw [] OTHER -> 0]
Sound == Symbol4({}, {}, {}, {})
ThreeMarkets ==
  {[score |-> Symbol4(3, 4, 2, 2), raw |-> Symbol4(5, 3, 2, 2), failed |-> Sound,
    correlation |-> Correlated(90, 85)],
   [score |-> Symbol4(1, 2, 3, 1), raw |-> Symbol4(0, 1, 7, 4), failed |-> Sound,
    correlation |-> Correlated(95, 0)],
   [score |-> Symbol4(1, 2, 3, 4), raw |-> Symbol4(1, 1, 1, 6),
    failed |-> Symbol4({}, {"spread"}, {}, {}), correlation |-> Correlated(99, 30)]}
=============================================================================
