-------------------------------- MODULE Sizing --------------------------------
(***************************************************************************)
(* The risk gate and the position sizer (trader/risk/gate.py, sizer.py)    *)
(* over the successive passes of the entry pipelines, which size new       *)
(* positions beside those still open, and the positions that come into the *)
(* same book without a pass: hourly snipes, and orders of a pass that died *)
(* which a later one finds executed.                                       *)
(*                                                                         *)
(* A pass is one step: of two passes the second has the positions of the   *)
(* first in the book.  A market is what the bars of a day say: score, raw  *)
(* weight (score by volatility) and failed checks of a symbol, and how     *)
(* correlated two are, in percent (0 when their common history is too short*)
(* to tell).  Weights are thousandths of equity, rounded down.             *)
(***************************************************************************)
EXTENDS Integers, Sequences, SequencesExt, FiniteSets, FiniteSetsExt, Ordering

CONSTANTS
  Tradables,     \* symbols, in the order of the universe
  ClassOf,       \* asset class of each
  Markets,       \* what a day's bars may say
  Threshold,     \* CORRELATION_THRESHOLD, in percent
  TopN, SingleCap, MemecoinCap, CashReserve,    \* SIZER_*
  SharePrice,    \* of a share of each stock
  SlippagePct,   \* of a fill, by symbol
  MaxSlippage,   \* the worst of them, that of memecoins
  Snipes, SnipeWeight,       \* tickers of the snipe experiment, its notional
  MaxPasses      \* passes (bound)

All == Range(Tradables)
Stocks == {s \in All : ClassOf[s] = "stock"}

ASSUME SizingAssumption ==
  /\ Tradables \in Seq(All) /\ IsInjective(Tradables)
  /\ {Threshold, TopN, SingleCap, MemecoinCap, CashReserve, MaxPasses,
      SnipeWeight, MaxSlippage} \subseteq Nat
  /\ CashReserve <= 1000
  /\ SharePrice \in [Stocks -> Nat \ {0}]
  /\ SlippagePct \in [All \cup Snipes -> 0..MaxSlippage]
  /\ IsFiniteSet(Snipes) /\ Snipes \cap All = {} /\ \A s \in Snipes : ClassOf[s] = "memecoin"
  /\ \A m \in Markets : /\ m.score \in [All -> Int] /\ m.raw \in [All -> Nat]
                         /\ \A s, t \in All : m.correlation[{s, t}] \in Nat

VARIABLES
  book,          \* weights of the open positions, by symbol
  orphans,       \* weights of orders sent by a pass that died before it booked them
  passes,        \* passes so far
  sizedIn,       \* history: the open positions that a pass has sized and booked
  lastPass       \* history: what the gate of the last pass was given and left

sizingVars == <<book, orphans, passes, sizedIn, lastPass>>

Memecoins(S) == {s \in S : ClassOf[s] = "memecoin"}
WeightOf(weights, S) == MapThenSumSet(LAMBDA s : weights[s], S)
LesserOf(m, n) == IF m < n THEN m ELSE n
GreaterOf(m, n) == IF m > n THEN m ELSE n

-----------------------------------------------------------------------------
(* apply_risk_gate.                                                        *)

Position(s) == CHOOSE k \in DOMAIN Tradables : Tradables[k] = s

\* _first_failing_check: liquidity, listing age, spread.
Passing(m, S) == {s \in S : m.failed[s] = {}}

\* Mutant: the better one goes.
LoserByHighScore(m, pair) == IF m.score[pair[1]] > m.score[pair[2]] THEN pair[1] ELSE pair[2]

Loser(m, pair) == IF m.score[pair[1]] < m.score[pair[2]] THEN pair[1] ELSE pair[2]

\* Pairs above the threshold, most correlated first; the sort is stable.
Pairs(m, S) ==
  LET above == {p \in S \X S : /\ Position(p[1]) < Position(p[2])
                               /\ m.correlation[{p[1], p[2]}] > Threshold}
      before(p, q) ==
        LET c == m.correlation[{p[1], p[2]}]
            d == m.correlation[{q[1], q[2]}] IN
        \/ c > d
        \/ c = d /\ Position(p[1]) < Position(q[1])
        \/ c = d /\ p[1] = q[1] /\ Position(p[2]) < Position(q[2])
  IN  InOrder(above, {pq \in above \X above : before(pq[1], pq[2])})

\* _apply_correlation_check: of a pair whose members are both left, one goes.
Uncorrelated(m, S) ==
  FoldLeft(LAMBDA left, p : IF {p[1], p[2]} \subseteq left THEN left \ {Loser(m, p)} ELSE left,
           S, Pairs(m, S))

Accepted(m, S) == Uncorrelated(m, Passing(m, S))

-----------------------------------------------------------------------------
(* size_positions.                                                         *)

\* Mutant: only what the passes have sized counts.
OpenOfPasses == sizedIn

\* Every open position counts, whoever opened it.
Open == DOMAIN book

\* The best scores, as many as there are slots; the sort is stable.
Selected(m, S) ==
  LET better(s, t) == \/ m.score[s] > m.score[t]
                      \/ m.score[s] = m.score[t] /\ Position(s) < Position(t)
      ranked == InOrder(S, {pair \in S \X S : better(pair[1], pair[2])})
      slots == GreaterOf(0, TopN - Cardinality(Open))
  IN  {ranked[k] : k \in 1..LesserOf(Cardinality(S), slots)}

\* Mutant: the memecoins in the book are not counted.
MemecoinRoomWhenEmpty == MemecoinCap

MemecoinRoom == GreaterOf(0, MemecoinCap - WeightOf(book, Memecoins(Open)))

\* Select, weight, normalise to what the book and the reserve leave, cap, cap
\* the memecoins together; what the caps free stays cash.
SizePositions(m, S) ==
  LET chosen == Selected(m, S)
      available == GreaterOf(0, 1000 - CashReserve - WeightOf(book, Open))
      rawSum == WeightOf(m.raw, chosen)
      capped == [s \in chosen |-> IF rawSum = 0 THEN 0
                   ELSE LesserOf(SingleCap, (m.raw[s] * available) \div rawSum)]
      coins == Memecoins(chosen)
      fresh == WeightOf(capped, coins)
  IN  [s \in chosen |-> IF s \in coins /\ fresh > MemecoinRoom
                          THEN (capped[s] * MemecoinRoom) \div fresh ELSE capped[s]]

-----------------------------------------------------------------------------
(* Passes, and what else opens and closes positions.                       *)

SizingInit ==
  /\ book = [s \in {} |-> 0] /\ orphans = [s \in {} |-> 0] /\ passes = 0 /\ sizedIn = {}
  /\ lastPass = [market |-> CHOOSE m \in Markets : TRUE, offered |-> {}, accepted |-> {}]

\* The weight a size may be booked at.  A stock is booked in whole shares at the
\* scan's price, within what the nightly budget has left.  A coin is bought for
\* the size at the quote and booked at the slipped fill; a strategy on
\* probation trades a quarter.  0 is a position skipped: no share, an order in
\* flight, a halt.
Booking(s, size) ==
  {0} \cup IF s \in Stocks THEN {n * SharePrice[s] : n \in 1..(size \div SharePrice[s])}
           ELSE {(w * (100 + SlippagePct[s])) \div 100 : w \in {size, size \div 4}}
Bookings(sized) ==
  {b \in [DOMAIN sized -> UNION {Booking(s, sized[s]) : s \in DOMAIN sized}] :
     \A s \in DOMAIN sized : b[s] \in Booking(s, sized[s])}

\* One pipeline scans stocks, the other coins, for symbols without an open
\* position.  A pass that dies has sent an order for the lost stock and books
\* none that scored worse.
EntryPass ==
  \E m \in Markets :
  \E offered \in (SUBSET (Stocks \ DOMAIN book)) \cup (SUBSET (All \ (Stocks \cup DOMAIN book))) :
    LET sized == SizePositions(m, Accepted(m, offered)) IN
    \E booked \in Bookings(sized) : \E lost \in {{}} \cup {{s} : s \in Stocks} :
      LET bought == {s \in DOMAIN sized \ DOMAIN orphans : booked[s] > 0}
          opened == bought \ lost IN
      /\ lost \subseteq bought /\ \A s \in opened, t \in lost : m.score[s] >= m.score[t]
      /\ passes < MaxPasses /\ passes' = passes + 1
      /\ book' = [s \in DOMAIN book \cup opened |-> IF s \in opened THEN booked[s] ELSE book[s]]
      /\ sizedIn' = sizedIn \cup opened
      /\ orphans' = [s \in DOMAIN orphans \cup lost |-> IF s \in lost THEN booked[s] ELSE orphans[s]]
      /\ lastPass' = [market |-> m, offered |-> offered, accepted |-> Accepted(m, offered)]

\* STEP 0 and STEP 1 of a later pass: the gateway reports the order executed,
\* at its own price.  Nothing is sized.
HealOrphan ==
  \E s \in DOMAIN orphans \ DOMAIN book :
  \E w \in {orphans[s], (orphans[s] * (100 + SlippagePct[s])) \div 100} :
    /\ book' = [t \in DOMAIN book \cup {s} |-> IF t = s THEN w ELSE book[t]]
    /\ orphans' = [t \in DOMAIN orphans \ {s} |-> orphans[t]]
    /\ UNCHANGED <<passes, sizedIn, lastPass>>

\* run_snipe_once: a fixed amount, never sized.  A ticker stands for one that
\* was never bought before.
Snipe ==
  \E s \in Snipes \ DOMAIN book :
    /\ book' = [t \in DOMAIN book \cup {s} |->
                  IF t = s THEN (SnipeWeight * (100 + SlippagePct[s])) \div 100 ELSE book[t]]
    /\ UNCHANGED <<orphans, passes, sizedIn, lastPass>>

\* Exits.
ClosePositions ==
  \E closed \in SUBSET DOMAIN book :
    /\ closed # {}
    /\ book' = [s \in DOMAIN book \ closed |-> book[s]]
    /\ sizedIn' = sizedIn \ closed
    /\ UNCHANGED <<orphans, passes, lastPass>>

SizingNext == EntryPass \/ HealOrphan \/ Snipe \/ ClosePositions

SizingSpec == SizingInit /\ [][SizingNext]_sizingVars

-----------------------------------------------------------------------------

\* A size at its cap is booked above it, by the slippage of its fill.
Slipped(weight, cap) == 100 * weight <= (100 + MaxSlippage) * cap

\* Each pass only sizes new positions and the order of the capping steps
\* matters (sizer.py:6-34): after any passes, snipes, heals and exits the
\* positions that the passes sized leave the reserve in cash, the memecoins of
\* them are within their share together, none is above the single cap, all of
\* these up to the slippage, and no more are open than there are slots.
BookWithinCaps ==
  /\ Slipped(WeightOf(book, sizedIn), 1000 - CashReserve)
  /\ Slipped(WeightOf(book, Memecoins(sizedIn)), MemecoinCap)
  /\ Cardinality(sizedIn) <= TopN
  /\ \A s \in sizedIn : Slipped(book[s], SingleCap)

\* What was not sized takes room from what is (entry_pipeline.py:388-397,
\* crypto_entry_pipeline.py:235-244): a pass that opens a position leaves the
\* whole book, healed orders and snipes too, within the reserve and the slots,
\* and within the memecoins' share if it opens one.
PassesCountTheWholeBook ==
  [][passes' # passes =>
       LET opened == DOMAIN book' \ DOMAIN book IN
       opened # {} =>
         /\ Slipped(WeightOf(book', DOMAIN book'), 1000 - CashReserve)
         /\ Cardinality(DOMAIN book') <= TopN
         /\ Memecoins(opened) # {} => Slipped(WeightOf(book', Memecoins(DOMAIN book')), MemecoinCap)
    ]_sizingVars

\* The greedy elimination (gate.py:143-179), one pair after the other in an order
\* that has nothing to do with the scores, leaves no two correlated candidates,
\* keeps each that beats all its rivals, the sound candidates correlated with
\* it, and never empties a pass that had a sound one, ties or not.
SurvivorsAreTheBest ==
  LET m == lastPass.market
      sound == Passing(m, lastPass.offered)
      Rivals(s) == {t \in sound \ {s} : m.correlation[{s, t}] > Threshold} IN
  /\ \A s \in lastPass.accepted : s \in sound /\ Rivals(s) \cap lastPass.accepted = {}
  /\ \A s \in sound : (\A t \in Rivals(s) : m.score[t] < m.score[s]) => s \in lastPass.accepted
  /\ sound # {} => lastPass.accepted # {}
=============================================================================
