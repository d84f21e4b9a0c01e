------------------------ MODULE TournamentProperties ------------------------
(* What the tournament promises about the roster (Tournament).             *)
EXTENDS Tournament

\* Registrations and runs act on profiles they may act on, and a run that has
\* a retirement half done has its registry half done.
RosterTypeOK ==
  /\ registry \in [Profiles -> [state : States, backtest : BOOLEAN, oos : BOOLEAN,
                                paper30 : BOOLEAN]]
  /\ \A k \in DOMAIN transitions : transitions[k].profile \in Profiles
  /\ \A k \in DOMAIN decisions : decisions[k].run \in DOMAIN runs
  /\ killed \subseteq Profiles /\ enough \subseteq Profiles
  /\ judge.pc # "idle" => judge.run \in DOMAIN runs /\ runs[judge.run].state = "open"
  /\ judge.pc = "kill" => registry[Current].state = "retired"
  /\ judge.below # NoOne => judge.below \in judge.judged

RowsOf(p) == {k \in DOMAIN transitions : transitions[k].profile = p}
EarlierRows(p, k) == {j \in RowsOf(p) : j < k}
EndsIn(K, state) == \E k \in K : (\A j \in K : j <= k) /\ transitions[k].to = state

\* "state is always re-derivable from history" and no stage is skippable
\* (pipeline.py:7-12): a profile's rows are a path of the D-07 diagram from its
\* registration to the state it is in, it has the evidence of that state, and
\* a name is registered once.
HistoryIsLegal ==
  \A p \in Profiles :
    /\ IF RowsOf(p) = {} THEN registry[p].state = "none" ELSE EndsIn(RowsOf(p), registry[p].state)
    /\ \A k \in RowsOf(p) :
         LET step == <<transitions[k].from, transitions[k].to>> IN
         IF EarlierRows(p, k) = {} THEN step = <<"none", "candidate">>
         ELSE step \in ValidTransitions /\ EndsIn(EarlierRows(p, k), step[1])
    /\ registry[p].state \in Live => Complete(p)
    /\ registry[p].state = "full" => registry[p].paper30 /\ p \in enough

AdmittedIn(q) == {k \in DOMAIN transitions :
                    transitions[k].to = "probation" /\ transitions[k].quarter = q}

\* D-05, although the caps are read before the transition that uses the slot
\* up (pipeline.py:286-310), within one run after another and across deaths.
CapsHold ==
  /\ Cardinality(InState(Live)) <= MaxActive
  /\ \A q \in 0..LastQuarter : Cardinality(AdmittedIn(q)) <= MaxEntrants

EarlierDecisions(t) == {d \in DecisionsOf(t.profile) : decisions[d].run < t.run}
EndsInStrikes(D, n) ==
  \E S \in SUBSET D : /\ Cardinality(S) >= n
                      /\ \A d \in D : \A s \in S : d >= s => d \in S /\ decisions[d].strike

\* D-04: a strategy is only demoted after Sustain - 1 recorded strikes that no
\* recorded strike-free evaluation follows (judge.py:87-104), so a demotion can
\* be re-derived from the decisions whatever runs died.
DemotionWasSustained ==
  \A k \in DOMAIN transitions :
    transitions[k].to = "retired" =>
      EndsInStrikes(EarlierDecisions(transitions[k]), Sustain - 1)

\* "slots freed this run open this run" (judge.py:14): when a run has decided
\* on everyone, no candidate whose evidence it saw is left in the queue while
\* there is room under both caps.
FreedSlotsAreUsed ==
  judge.pc = "record" =>
    \A p \in judge.complete : registry[p].state = "candidate" =>
      Cardinality(InState(Live)) >= MaxActive \/ Cardinality(AdmittedIn(quarter)) >= MaxEntrants

Explains(d, t) ==
  /\ d.run = t.run /\ d.profile = t.profile
  /\ <<t.to, d.decision>> \in {<<"probation", "enter">>, <<"full", "promote">>,
                               <<"retired", "retire">>}

TransitionsExplained(r) ==
  \A k \in DOMAIN transitions : transitions[k].run = r /\ transitions[k].from # "none" =>
    \E d \in DOMAIN decisions : Explains(decisions[d], transitions[k])
DecidedOnce(r) ==
  \A c, d \in DOMAIN decisions :
    /\ decisions[c].run = r /\ decisions[d].run = r
    /\ decisions[c].profile = decisions[d].profile
    => c = d

AllDecided(r) ==
  \A p \in runs[r].inputs : \E d \in DecisionsOf(p) : decisions[d].run = r

\* D-09: a run that was closed has one decision row, and no second one, for
\* every strategy of its inputs snapshot, and every transition it made has the
\* row that explains it, although the rows are written after the last of the
\* decisions has taken effect.
ClosedRunsAreAudited ==
  \A r \in DOMAIN runs : runs[r].state = "closed" =>
    TransitionsExplained(r) /\ DecidedOnce(r) /\ AllDecided(r)
=============================================================================
