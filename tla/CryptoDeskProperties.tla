------------------------- MODULE CryptoDeskProperties -------------------------
(* What the simulated crypto book promises (CryptoDesk).                   *)
EXTENDS CryptoDesk

\* Every run acts on an order and a position that exist, and breaker states
\* that were read are states of breakers.
DeskTypeOK ==
  /\ hour \in Hours /\ listed \in [Tickers -> Hours \cup {Never}]
  /\ DOMAIN orders \subseteq Ref
  /\ \A r \in DOMAIN orders : orders[r] \in {"pending_submit", "filled"}
  /\ positions \in Seq([ref : Ref, hour : Hours, status : {"open", "closed"}])
  /\ trades \in Seq([pos : DOMAIN positions, pnl : Pnls])
  /\ events \in Seq(Event) /\ killed \subseteq Profiles
  /\ entry.ref \in Ref \cup {Never} /\ entry.cands \subseteq Profiles \X Symbols
  /\ entry.pc \in {"fill", "open"} => Recorded(entry.ref)
  /\ guardian.todo \subseteq DOMAIN positions
  /\ guardian.pc \in {"fill", "close"} => Recorded(guardian.ref) /\ guardian.pos \in guardian.todo
  /\ guardian.seen \in 0..Len(trades) /\ guardian.rows \in [BreakerTypes -> {"none", "trip", "reset"}]
  /\ snipe.todo \subseteq DOMAIN positions
  /\ snipe.pc \in {"sold"} => Recorded(snipe.ref) /\ snipe.pos \in snipe.todo

\* A position earns its P&L once, although two processes close positions from
\* lists they read before (guardian.py:424, snipe_experiment.py:59) and
\* close_position asks for no status.
ClosedOnce ==
  \A j, k \in DOMAIN trades : trades[j].pos = trades[k].pos => j = k

\* The families share the universe: two of them never hold the same coin
\* (crypto_entry_pipeline.py:121, one scan against all open positions).
OnePositionPerCoin ==
  \A i, j \in OpenPositions : positions[i].ref.symbol = positions[j].ref.symbol => i = j

\* An entry under way while a breaker stands tripped had passed the gate before
\* that trip: the gate is asked anew for every candidate, and what comes between
\* it and the order is a price fetch over the network
\* (crypto_entry_pipeline.py:263-284).
OnlyEntriesBeforeTheTrip ==
  entry.pc \in {"persist", "fill", "open"} =>
    \A t \in BreakerTypes : Tripped(t) =>
      \E k \in DOMAIN events : k > entry.asked /\ events[k].type = t

\* "never sniped before (order history is the dedupe)": a coin is bought once,
\* whether its run finished, died, or sold it long ago (snipe_experiment.py:97).
SnipedOnce ==
  \A t \in Tickers :
    Cardinality({r \in DOMAIN orders : /\ r.strategy = Snipe /\ r.symbol = t
                                       /\ r.intent = "entry"}) <= 1

\* What the gate reads is what the rules say of the trades the last complete
\* tick saw: after its three commits each self-resetting breaker is tripped
\* exactly if breached, and a breached drawdown is halted or was cleared by a
\* human after the tick had read it (guardian.py:332-360).
BreakersFollowTheBook ==
  guardian.pc = "kill" =>
    LET due == Breached(SubSeq(PnlsOf(trades), 1, guardian.seen)) IN
    /\ \A t \in AutoBreakers : Tripped(t) <=> due[t]
    /\ due["drawdown"] => LastAction("drawdown") \in {"trip", "manual_restart"}

\* A breaker that trips on its own resets only after another trade was booked
\* (breakers.py:60-81 knows trades and no clock): time alone ends no halt.
ResetsNeedATrade ==
  \A j, k \in DOMAIN events :
    /\ j < k /\ events[j].type = events[k].type
    /\ events[j].action = "trip" /\ events[k].action = "reset"
    => events[j].seen < events[k].seen

\* The event log read through its latest rows is the switchboard of
\* BreakerPromise: no breaker trips twice without being cleared, and only
\* clear_breaker ends a drawdown halt (breakers.py:163-218).
Promise == INSTANCE BreakerPromise WITH
  Auto <- AutoBreakers, Manual <- {"drawdown"},
  tripped <- [t \in BreakerTypes |-> Tripped(t)],
  restarts <- Cardinality(HumanRestarts)
ImplementsBreakerPromise == Promise!Spec

-----------------------------------------------------------------------------
(* Stated by the repository and refuted by the code.                       *)

\* Every exit the guardian decides on is submitted: an exit of the same
\* strategy, coin, reason and day was never recorded before.
ExitsHaveFreshRefs == guardian.pc = "persist" => ~Recorded(guardian.ref)
=============================================================================
