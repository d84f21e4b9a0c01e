----------------------------- MODULE Tournament -----------------------------
(***************************************************************************)
(* The life of a strategy: trader/tournament/pipeline.py (the D-07 state   *)
(* machine and its caps), judge.py (the weekly evaluation),                *)
(* run_tournament.py and register_entrant.py, with the strategies' trades  *)
(* coming in around them.                                                  *)
(*                                                                         *)
(* A step is one commit.  What a profile's Sharpe ratio is in a run is     *)
(* free: None counts as the least of Sharpes, as it is below every floor   *)
(* and ranks last.  Registered entrants are taken to be routable.          *)
(***************************************************************************)
EXTENDS Integers, Sequences, SequencesExt, FiniteSets

CONSTANTS
  ByName,        \* the profiles, in the order of their names
  Sharpes,       \* judging Sharpe ratios
  PromotionFloor, DemotionFloor, Sustain, MaxActive, MaxEntrants,  \* frozen_config
  LastQuarter,   \* quarters are 0..LastQuarter (bound)
  MaxRuns,       \* tournament runs (bound)
  Roster,        \* the profiles promoted before the model starts, in that order
  CrashPoints,   \* values of judge.pc
  NoOne          \* no profile

Profiles == {ByName[k] : k \in DOMAIN ByName}
Promoted == {Roster[k] : k \in DOMAIN Roster}

ASSUME TournamentAssumption ==
  /\ ByName \in Seq(Profiles) /\ IsInjective(ByName)
  /\ IsFiniteSet(Profiles) /\ NoOne \notin Profiles
  /\ Roster \in Seq(Profiles) /\ IsInjective(Roster)
  /\ Cardinality(Promoted) <= MaxActive /\ Len(Roster) <= MaxEntrants
  /\ Sharpes \subseteq Int /\ {PromotionFloor, DemotionFloor} \subseteq Int
  /\ {Sustain, MaxActive, MaxEntrants, LastQuarter, MaxRuns} \subseteq Nat /\ Sustain > 0

VARIABLES
  registry,      \* strategy_registry: state and evidence stamps
  transitions,   \* strategy_registry_transitions
  decisions,     \* tournament_decisions
  runs,          \* tournament_runs by run_id: closed or not, and of whom its
                 \* inputs snapshot is
  killed,        \* strategy_kill_state
  enough,        \* profiles with MIN_TRADES_FOR_JUDGING closed paper trades
  quarter,
  judge          \* locals of a tournament run

vars == <<registry, transitions, decisions, runs, killed, enough, quarter, judge>>

Live == {"probation", "full"}
States == {"none", "candidate", "retired"} \cup Live
ValidTransitions == {<<"candidate", "probation">>, <<"probation", "full">>,
                     <<"probation", "retired">>, <<"full", "retired">>}

InState(S) == {p \in Profiles : registry[p].state \in S}
Complete(p) == registry[p].backtest /\ registry[p].oos

IdleJudge == [pc |-> "idle", run |-> 0, was |-> <<>>, complete |-> {}, judged |-> {},
              clears |-> {}, below |-> NoOne, todo |-> {}, made |-> <<>>]

\* The promoted profiles were registered, admitted by a first run and promoted
\* by a second one.
Init ==
  LET Rows(from, to, run) == [k \in DOMAIN Roster |->
        [profile |-> Roster[k], from |-> from, to |-> to, quarter |-> 0, run |-> run]]
      Decisions(what, run) == [k \in DOMAIN Roster |->
        [run |-> run, profile |-> Roster[k], decision |-> what, strike |-> FALSE]] IN
  /\ registry = [p \in Profiles |->
       [state |-> IF p \in Promoted THEN "full" ELSE "none",
        backtest |-> p \in Promoted, oos |-> p \in Promoted, paper30 |-> p \in Promoted]]
  /\ transitions = Rows("none", "candidate", 0) \o Rows("candidate", "probation", 1)
                     \o Rows("probation", "full", 2)
  /\ decisions = Decisions("enter", 1) \o Decisions("promote", 2)
  /\ runs = <<[state |-> "closed", inputs |-> {}], [state |-> "closed", inputs |-> Promoted]>>
  /\ killed = {} /\ enough = Promoted /\ quarter = 0 /\ judge = IdleJudge

-----------------------------------------------------------------------------
(* register_entrant: three commits of one command.  A registration that     *)
(* died is one that takes no further step.                                 *)

Row(p, from, to) == [profile |-> p, from |-> from, to |-> to, quarter |-> quarter,
                     run |-> judge.run]
Stamp(p) ==
  /\ registry[p].state = "candidate"
  /\ UNCHANGED <<transitions, decisions, runs, killed, enough, quarter, judge>>

\* Mutant: a retired name may be registered again.
RegisterRetiredToo(p) ==
  /\ judge.pc = "idle" /\ registry[p].state \in {"none", "retired"}
  /\ registry' = [registry EXCEPT ![p].state = "candidate"]
  /\ transitions' = Append(transitions, Row(p, "none", "candidate"))
  /\ UNCHANGED <<decisions, runs, killed, enough, quarter, judge>>

\* register_candidate raises for a name already there, a retired one too.
\* Bound: of a registration only the last commit may fall into a run, which
\* reads no more of it than whether both stamps are there.
Register(p) ==
  /\ judge.pc = "idle" /\ registry[p].state = "none"
  /\ registry' = [registry EXCEPT ![p].state = "candidate"]
  /\ transitions' = Append(transitions, Row(p, "none", "candidate"))
  /\ UNCHANGED <<decisions, runs, killed, enough, quarter, judge>>

StampBacktest(p) ==
  /\ judge.pc = "idle" /\ ~registry[p].backtest /\ Stamp(p)
  /\ registry' = [registry EXCEPT ![p].backtest = TRUE]

StampOos(p) ==
  /\ registry[p].backtest /\ ~registry[p].oos /\ Stamp(p)
  /\ registry' = [registry EXCEPT ![p].oos = TRUE]

-----------------------------------------------------------------------------
(* pipeline: transitions and caps.                                         *)

\* _transition: the state and its row in one commit; it raises otherwise.
CanTransition(p, to) == <<registry[p].state, to>> \in ValidTransitions
Transition(p, to) ==
  /\ registry' = [registry EXCEPT ![p].state = to]
  /\ transitions' = Append(transitions, Row(p, registry[p].state, to))

\* Mutant: the roster as the run read it when it began.
ActiveAtStart == Cardinality({p \in DOMAIN judge.was : judge.was[p] \in Live})

ActiveCount == Cardinality(InState(Live))
Admission(k) == transitions[k].from = "candidate" /\ transitions[k].to = "probation"
EntrantsThisQuarter ==
  Cardinality({k \in DOMAIN transitions : Admission(k) /\ transitions[k].quarter >= quarter})
Room == ActiveCount < MaxActive /\ EntrantsThisQuarter < MaxEntrants

-----------------------------------------------------------------------------
(* judge: one run.                                                         *)

JudgeOnly == UNCHANGED <<enough, quarter>>
Made(p, what, strike) ==
  Append(judge.made, [run |-> judge.run, profile |-> p, decision |-> what, strike |-> strike])
Decide(p, what, strike) ==
  judge' = [judge EXCEPT !.pc = IF judge.todo = {p} THEN "record" ELSE "judge",
                         !.todo = @ \ {p}, !.made = Made(p, what, strike)]

\* The strategies that were active come before the candidates, so that slots
\* freed in this run are used in it; each loop goes by name.
Place(p) == CHOOSE k \in DOMAIN ByName : ByName[k] = p
WasLive(p) == judge.was[p] \in Live
Before(p, q) == IF WasLive(p) <=> WasLive(q) THEN Place(p) < Place(q) ELSE WasLive(p)
Current == CHOOSE p \in judge.todo : \A q \in judge.todo \ {p} : Before(p, q)
At(pc) == judge.pc = pc /\ judge.todo # {}

\* Since the last run trades were closed, so that profiles may have reached the
\* minimum, and a quarter may have begun.  The registry is read, every active
\* strategy judged (those with enough trades get a Sharpe ratio, the worst of
\* the full ones is found; profit factors break ties), and the run's row with
\* the inputs snapshot committed.  Of the ratios the run keeps who clears the promotion floor and
\* whether the worst is below the demotion floor.
RunStart ==
  LET active   == InState(Live)
      judged   == active \cap enough'
      eligible == InState({"full"}) \cap judged IN
  /\ judge.pc = "idle" /\ Len(runs) < MaxRuns
  /\ quarter' \in {quarter, quarter + 1} /\ quarter' <= LastQuarter
  /\ \E reached \in SUBSET (active \ enough) : enough' = enough \cup reached
  /\ \E sharpe \in [judged -> Sharpes], worst \in Profiles \cup {NoOne} :
       /\ IF Cardinality(eligible) > 1
            THEN worst \in eligible /\ \A p \in eligible : sharpe[worst] <= sharpe[p]
            ELSE worst = NoOne
       /\ judge' = [pc |-> IF active \cup InState({"candidate"}) = {} THEN "record" ELSE "judge",
                    run |-> Len(runs) + 1,
                    was |-> [p \in Profiles |-> registry[p].state],
                    complete |-> {p \in InState({"candidate"}) : Complete(p)},
                    judged |-> judged,
                    clears |-> {p \in InState({"probation"}) \cap judged :
                                  sharpe[p] >= PromotionFloor},
                    below |-> IF worst # NoOne /\ sharpe[worst] < DemotionFloor
                                THEN worst ELSE NoOne,
                    made |-> <<>>,
                    todo |-> active \cup InState({"candidate"})]
  /\ runs' = Append(runs, [state |-> "open", inputs |-> active])
  /\ UNCHANGED <<registry, transitions, decisions, killed>>

Judged(p) == p \in judge.judged

HoldUnjudged ==
  /\ At("judge") /\ judge.was[Current] \in Live /\ ~Judged(Current)
  /\ Decide(Current, "hold", FALSE)
  /\ UNCHANGED <<registry, transitions, decisions, runs, killed>> /\ JudgeOnly

\* confirm_paper_30, write-once.
ConfirmPaper30 ==
  /\ At("judge") /\ judge.was[Current] = "probation" /\ Judged(Current)
  /\ registry' = [registry EXCEPT ![Current].paper30 = TRUE]
  /\ judge' = [judge EXCEPT !.pc = "confirmed"]
  /\ UNCHANGED <<transitions, decisions, runs, killed>> /\ JudgeOnly

PromoteToFull ==
  /\ At("confirmed") /\ Current \in judge.clears
  /\ registry[Current].paper30 /\ CanTransition(Current, "full")
  /\ Transition(Current, "full")
  /\ Decide(Current, "promote", FALSE)
  /\ UNCHANGED <<decisions, runs, killed>> /\ JudgeOnly

HoldOnProbation ==
  /\ At("confirmed") /\ Current \notin judge.clears
  /\ Decide(Current, "hold", FALSE)
  /\ UNCHANGED <<registry, transitions, decisions, runs, killed>> /\ JudgeOnly

DecisionsOf(p) == {k \in DOMAIN decisions : decisions[k].profile = p}

\* Mutant: every strike ever recorded counts.
StrikesEver(p) == Cardinality({k \in DecisionsOf(p) : decisions[k].strike})

\* _consecutive_prior_strikes: the latest decision rows, whatever runs they
\* belong to, up to one without a strike.
Streak(p) == {k \in DecisionsOf(p) : \A j \in DecisionsOf(p) : j >= k => decisions[j].strike}
PriorStrikes(p) == Cardinality(Streak(p))

JudgeFull == At("judge") /\ judge.was[Current] = "full" /\ Judged(Current)
Struck == judge.below = Current

HoldFull ==
  /\ JudgeFull /\ ~(Struck /\ PriorStrikes(Current) + 1 >= Sustain)
  /\ Decide(Current, "hold", Struck)
  /\ UNCHANGED <<registry, transitions, decisions, runs, killed>> /\ JudgeOnly

\* Mutant: the kill state alone is to say so.
RetireWithoutTransition ==
  /\ JudgeFull /\ Struck /\ PriorStrikes(Current) + 1 >= Sustain
  /\ judge' = [judge EXCEPT !.pc = "kill"]
  /\ UNCHANGED <<registry, transitions, decisions, runs, killed>> /\ JudgeOnly

\* retire: the registry first, the kill state in a commit of its own.
Retire ==
  /\ JudgeFull /\ Struck /\ PriorStrikes(Current) + 1 >= Sustain
  /\ CanTransition(Current, "retired") /\ Transition(Current, "retired")
  /\ judge' = [judge EXCEPT !.pc = "kill"]
  /\ UNCHANGED <<decisions, runs, killed>> /\ JudgeOnly

RetireKill ==
  /\ At("kill")
  /\ killed' = killed \cup {Current}
  /\ Decide(Current, "retire", TRUE)
  /\ UNCHANGED <<registry, transitions, decisions, runs>> /\ JudgeOnly

\* Mutant: the candidate is admitted whatever promote_to_probation counts.
AdmitUncapped ==
  /\ At("judge") /\ Current \in judge.complete
  /\ CanTransition(Current, "probation") /\ Transition(Current, "probation")
  /\ Decide(Current, "enter", FALSE)
  /\ UNCHANGED <<decisions, runs, killed>> /\ JudgeOnly

\* promote_to_probation.
Admit ==
  /\ At("judge") /\ Current \in judge.complete
  /\ Complete(Current) /\ Room
  /\ CanTransition(Current, "probation") /\ Transition(Current, "probation")
  /\ Decide(Current, "enter", FALSE)
  /\ UNCHANGED <<decisions, runs, killed>> /\ JudgeOnly

\* Evidence incomplete when the run began, or CapExceeded.
KeepQueued ==
  /\ At("judge") /\ judge.was[Current] = "candidate"
  /\ Current \notin judge.complete \/ ~Room
  /\ Decide(Current, "hold", FALSE)
  /\ UNCHANGED <<registry, transitions, decisions, runs, killed>> /\ JudgeOnly

\* Mutant: a decision that leaves everything as it was gets no row.
RecordChangesOnly ==
  /\ judge.pc = "record" /\ judge.made # <<>>
  /\ decisions' = IF Head(judge.made).decision = "hold" THEN decisions
                  ELSE Append(decisions, Head(judge.made))
  /\ judge' = [judge EXCEPT !.made = Tail(@)]
  /\ UNCHANGED <<registry, transitions, runs, killed>> /\ JudgeOnly

\* _record_decision, after all of them were taken.
RecordDecision ==
  /\ judge.pc = "record" /\ judge.made # <<>>
  /\ decisions' = Append(decisions, Head(judge.made))
  /\ judge' = [judge EXCEPT !.made = Tail(@)]
  /\ UNCHANGED <<registry, transitions, runs, killed>> /\ JudgeOnly

CloseRun ==
  /\ judge.pc = "record" /\ judge.made = <<>>
  /\ runs' = [runs EXCEPT ![judge.run].state = "closed"]
  /\ judge' = IdleJudge
  /\ UNCHANGED <<registry, transitions, decisions, killed>> /\ JudgeOnly

JudgeStep ==
  \/ RunStart \/ HoldUnjudged \/ ConfirmPaper30 \/ PromoteToFull \/ HoldOnProbation
  \/ HoldFull \/ Retire \/ RetireKill \/ Admit \/ KeepQueued \/ RecordDecision \/ CloseRun

-----------------------------------------------------------------------------
(* A death, and the whole.                                                 *)

Crash ==
  /\ judge.pc \in CrashPoints /\ judge' = IdleJudge
  /\ UNCHANGED <<registry, transitions, decisions, runs, killed, enough, quarter>>

Next ==
  \/ JudgeStep \/ Crash
  \/ \E p \in Profiles : Register(p) \/ StampBacktest(p) \/ StampOos(p)

Spec == Init /\ [][Next]_vars
=============================================================================
