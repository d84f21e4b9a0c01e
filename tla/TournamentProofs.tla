-------------------------- MODULE TournamentProofs --------------------------
(***************************************************************************)
(* The roster, for every instance of Tournament: any number of profiles,   *)
(* runs, quarters and deaths, any caps, floors and Sustain.  Histories are *)
(* legal, demotions sustained, the caps hold, no freed slot stays empty,   *)
(* and a closed run can be audited.                                        *)
(*                                                                         *)
(* TypeInv types every variable; RunInv says what a run in progress may    *)
(* rely on; AdmissionsInv, QueueInv and AuditInv are what the caps, the    *)
(* freed slots and the audit add to them.                                  *)
(*                                                                         *)
(* The last part is about Graduation: a pass is more than luck.            *)
(***************************************************************************)
EXTENDS TournamentProperties, Graduation, SequenceTheorems, CommonLemmas

RegistryType == [Profiles -> [state : States, backtest : BOOLEAN, oos : BOOLEAN,
                              paper30 : BOOLEAN]]
Verdicts == {"enter", "promote", "hold", "retire"}
TransitionRow == [profile : Profiles, from : States, to : States, quarter : Nat, run : Nat]
DecisionRow == [run : Nat, profile : Profiles, decision : Verdicts, strike : BOOLEAN]
RunRow == [state : {"open", "closed"}, inputs : SUBSET Profiles]
JudgeState ==
  [pc : {"idle", "judge", "confirmed", "kill", "record"}, run : Nat,
   was : [Profiles -> States] \cup {<<>>}, complete : SUBSET Profiles,
   judged : SUBSET Profiles, clears : SUBSET Profiles, below : Profiles \cup {NoOne},
   todo : SUBSET Profiles, made : Seq(DecisionRow)]

TypeInv ==
  /\ registry \in RegistryType
  /\ transitions \in Seq(TransitionRow) /\ decisions \in Seq(DecisionRow)
  /\ runs \in Seq(RunRow)
  /\ killed \in SUBSET Profiles /\ enough \in SUBSET Profiles /\ quarter \in Nat
  /\ judge \in JudgeState

-----------------------------------------------------------------------------
(* Who is judged next.                                                      *)

LEMMA PlaceOf ==
  ASSUME NEW p \in Profiles
  PROVE  Place(p) \in Nat /\ Place(p) \in DOMAIN ByName /\ ByName[Place(p)] = p
<1>1. ByName \in Seq(Profiles) /\ DOMAIN ByName = 1..Len(ByName) /\ Len(ByName) \in Nat
  BY TournamentAssumption
<1>2. \E k \in DOMAIN ByName : ByName[k] = p
  BY DEF Profiles
<1> QED  BY <1>1, <1>2 DEF Place

\* There is a first one of those to be judged: an active strategy if there is one.
LEMMA CurrentIsFirst ==
  ASSUME judge.todo \in SUBSET Profiles, judge.todo # {}
  PROVE  /\ Current \in judge.todo /\ Current \in Profiles
         /\ \A q \in judge.todo \ {Current} : Before(Current, q)
<1> DEFINE alive == {p \in judge.todo : WasLive(p)}
           front  == IF alive # {} THEN alive ELSE judge.todo
           places == {Place(p) : p \in front}
<1>1. front # {} /\ front \subseteq Profiles /\ places # {}
  OBVIOUS
<1>2. places \subseteq Nat
  BY <1>1, PlaceOf
<1>3. PICK p \in front : \A q \in front : Place(p) <= Place(q)
  <2>1. PICK m \in places : \A k \in places : m <= k
    <3> HIDE DEF places
    <3> QED  BY <1>1, <1>2, LeastNat
  <2>2. PICK p \in front : m = Place(p)
    OBVIOUS
  <2> QED  BY <2>1, <2>2
<1>4. \A q \in judge.todo \ {p} : Before(p, q)
  <2> TAKE q \in judge.todo \ {p}
  <2>1. CASE q \in front
    <3>1. Place(p) # Place(q) /\ Place(p) \in Nat /\ Place(q) \in Nat
      BY <1>1, <2>1, PlaceOf
    <3> QED  BY <1>3, <2>1, <3>1 DEF Before
  <2>2. CASE q \notin front
    BY <1>3, <2>2 DEF Before
  <2> QED  BY <2>1, <2>2
<1> QED  BY <1>1, <1>3, <1>4 DEF Current

-----------------------------------------------------------------------------
(* Every variable has its type.                                             *)

\* What a decision does to the run's locals.
LEMMA Decided ==
  ASSUME TypeInv, judge.todo # {}, NEW what \in Verdicts, NEW strike \in BOOLEAN,
         Decide(Current, what, strike)
  PROVE  /\ judge' \in JudgeState
         /\ judge'.pc \in {"judge", "record"} /\ (judge'.pc = "record" <=> judge'.todo = {})
         /\ judge'.todo = judge.todo \ {Current}
         /\ judge'.run = judge.run /\ judge'.was = judge.was /\ judge'.complete = judge.complete
         /\ judge'.judged = judge.judged /\ judge'.clears = judge.clears
         /\ judge'.below = judge.below
         /\ judge'.made = Append(judge.made, [run |-> judge.run, profile |-> Current,
                                              decision |-> what, strike |-> strike])
<1>1. Current \in judge.todo /\ Current \in Profiles
  BY CurrentIsFirst DEF TypeInv, JudgeState
<1> DEFINE row == [run |-> judge.run, profile |-> Current, decision |-> what, strike |-> strike]
<1>2. row \in DecisionRow
  BY <1>1 DEF DecisionRow, TypeInv, JudgeState
<1>3. Append(judge.made, row) \in Seq(DecisionRow)
  <2> HIDE DEF row
  <2> QED  BY <1>2, AppendProperties DEF TypeInv, JudgeState
<1>4. judge' = [judge EXCEPT !.pc = IF judge.todo = {Current} THEN "record" ELSE "judge",
                             !.todo = judge.todo \ {Current}, !.made = Append(judge.made, row)]
  BY DEF Decide, Made
<1> HIDE DEF row
<1>5. judge' \in JudgeState
  BY <1>3, <1>4 DEF TypeInv, JudgeState
<1>6. judge'.pc = (IF judge.todo = {Current} THEN "record" ELSE "judge")
      /\ judge'.todo = judge.todo \ {Current} /\ judge'.made = Append(judge.made, row)
  BY <1>4 DEF TypeInv, JudgeState
<1>7. /\ judge'.run = judge.run /\ judge'.was = judge.was /\ judge'.complete = judge.complete
      /\ judge'.judged = judge.judged /\ judge'.clears = judge.clears
      /\ judge'.below = judge.below
  BY <1>4 DEF TypeInv, JudgeState
<1> QED  BY <1>1, <1>5, <1>6, <1>7 DEF row

LEMMA TypeInit ==
  ASSUME Init
  PROVE  TypeInv
<1> DEFINE Rows(from, to, run) == [k \in DOMAIN Roster |->
             [profile |-> Roster[k], from |-> from, to |-> to, quarter |-> 0, run |-> run]]
           Taken(what, run) == [k \in DOMAIN Roster |->
             [run |-> run, profile |-> Roster[k], decision |-> what, strike |-> FALSE]]
           n == Len(Roster)
<1>1. Roster \in Seq(Profiles) /\ n \in Nat /\ DOMAIN Roster = 1..n
  BY TournamentAssumption
<1>2. ASSUME NEW from \in States, NEW to \in States, NEW run \in Nat
      PROVE  Rows(from, to, run) \in Seq(TransitionRow)
  <2>1. Rows(from, to, run) \in [1..n -> TransitionRow]
    BY <1>1 DEF TransitionRow
  <2> HIDE DEF Rows
  <2> QED  BY <1>1, <2>1, SeqDef
<1>3. ASSUME NEW what \in Verdicts, NEW run \in Nat
      PROVE  Taken(what, run) \in Seq(DecisionRow)
  <2>1. Taken(what, run) \in [1..n -> DecisionRow]
    BY <1>1 DEF DecisionRow
  <2> HIDE DEF Taken
  <2> QED  BY <1>1, <2>1, SeqDef
<1>4. transitions \in Seq(TransitionRow)
  <2> DEFINE R0 == Rows("none", "candidate", 0)
             R1 == Rows("candidate", "probation", 1)
             R2 == Rows("probation", "full", 2)
  <2>1. transitions = (R0 \o R1) \o R2
    BY DEF Init
  <2>2. R0 \in Seq(TransitionRow) /\ R1 \in Seq(TransitionRow) /\ R2 \in Seq(TransitionRow)
    <3> HIDE DEF Rows
    <3> QED  BY <1>2 DEF States, Live
  <2> HIDE DEF R0, R1, R2
  <2> QED  BY <2>1, <2>2, ConcatProperties
<1>5. decisions \in Seq(DecisionRow)
  <2> DEFINE D1 == Taken("enter", 1)
             D2 == Taken("promote", 2)
  <2>1. decisions = D1 \o D2
    BY DEF Init
  <2>2. D1 \in Seq(DecisionRow) /\ D2 \in Seq(DecisionRow)
    <3> HIDE DEF Taken
    <3> QED  BY <1>3 DEF Verdicts
  <2> HIDE DEF D1, D2
  <2> QED  BY <2>1, <2>2, ConcatProperties
<1>6. registry \in RegistryType
  BY DEF Init, RegistryType, States, Live
<1>7. judge \in JudgeState
  BY DEF Init, IdleJudge, JudgeState
<1>8. killed \in SUBSET Profiles /\ enough \in SUBSET Profiles
  BY <1>1 DEF Init, Promoted
<1>9. runs \in Seq(RunRow) /\ quarter \in Nat
  <2>1. /\ [state |-> "closed", inputs |-> {}] \in RunRow
        /\ [state |-> "closed", inputs |-> Promoted] \in RunRow
    BY <1>8 DEF Init, RunRow
  <2> QED  BY <2>1 DEF Init
<1> QED  BY <1>4, <1>5, <1>6, <1>7, <1>8, <1>9 DEF TypeInv

LEMMA RowAppended ==
  ASSUME TypeInv, NEW p \in Profiles, NEW from \in States, NEW to \in States,
         transitions' = Append(transitions, Row(p, from, to))
  PROVE  /\ transitions' \in Seq(TransitionRow) /\ Len(transitions) \in Nat
         /\ DOMAIN transitions = 1..Len(transitions)
         /\ DOMAIN transitions' = 1..(Len(transitions) + 1)
         /\ \A k \in DOMAIN transitions : transitions'[k] = transitions[k]
         /\ transitions'[Len(transitions) + 1] =
              [profile |-> p, from |-> from, to |-> to, quarter |-> quarter, run |-> judge.run]
<1> DEFINE r == Row(p, from, to)
<1>1. r \in TransitionRow
  BY DEF TypeInv, JudgeState, Row, TransitionRow
<1>2. r = [profile |-> p, from |-> from, to |-> to, quarter |-> quarter, run |-> judge.run]
  BY DEF Row
<1> HIDE DEF r
<1>3. transitions' = Append(transitions, r) /\ transitions \in Seq(TransitionRow)
  BY DEF r, TypeInv
<1>4. /\ transitions' \in Seq(TransitionRow) /\ Len(transitions) \in Nat
      /\ DOMAIN transitions = 1..Len(transitions)
      /\ DOMAIN transitions' = 1..(Len(transitions) + 1)
      /\ \A k \in DOMAIN transitions : transitions'[k] = transitions[k]
      /\ transitions'[Len(transitions) + 1] = r
  BY <1>1, <1>3
<1> QED  BY <1>2, <1>4

\* One profile moves.
LEMMA ProfileMoves ==
  ASSUME TypeInv, NEW p \in Profiles, NEW to \in States,
         registry' = [registry EXCEPT ![p].state = to],
         transitions' = Append(transitions, Row(p, registry[p].state, to))
  PROVE  registry' \in RegistryType /\ transitions' \in Seq(TransitionRow)
<1>1. registry[p].state \in States
  BY DEF TypeInv, RegistryType
<1>2. registry' \in RegistryType
  BY DEF TypeInv, RegistryType
<1> QED  BY <1>1, <1>2, RowAppended


\* A run begins.
LEMMA RunStartType ==
  ASSUME TypeInv, RunStart
  PROVE  TypeInv'
<1>1. quarter' \in Nat /\ UNCHANGED <<registry, transitions, decisions, killed>>
  BY DEF TypeInv, RunStart
<1>2. enough' \in SUBSET Profiles
  BY DEF TypeInv, RunStart, InState
<1>3. runs' \in Seq(RunRow) /\ Len(runs) \in Nat
  <2>1. [state |-> "open", inputs |-> InState(Live)] \in RunRow
    BY DEF RunRow, InState
  <2>2. runs' = Append(runs, [state |-> "open", inputs |-> InState(Live)])
    BY DEF RunStart
  <2> QED  BY <2>1, <2>2, AppendProperties DEF TypeInv
<1>4. judge' \in JudgeState
  <2> DEFINE alive == InState(Live)
             judged == alive \cap enough'
  <2>1. PICK sharpe \in [judged -> Sharpes], worst \in Profiles \cup {NoOne} :
          judge' = [pc |-> IF alive \cup InState({"candidate"}) = {} THEN "record" ELSE "judge",
                    run |-> Len(runs) + 1,
                    was |-> [p \in Profiles |-> registry[p].state],
                    complete |-> {p \in InState({"candidate"}) : Complete(p)},
                    judged |-> judged,
                    clears |-> {p \in InState({"probation"}) \cap judged :
                                  sharpe[p] >= PromotionFloor},
                    below |-> IF worst # NoOne /\ sharpe[worst] < DemotionFloor
                                THEN worst ELSE NoOne,
                    made |-> <<>>,
                    todo |-> alive \cup InState({"candidate"})]
    BY DEF RunStart
  <2>2. [p \in Profiles |-> registry[p].state] \in [Profiles -> States]
    BY DEF TypeInv, RegistryType
  <2>3. \A S : InState(S) \in SUBSET Profiles
    BY DEF InState
  <2>4. Len(runs) + 1 \in Nat
    BY <1>3
  <2> QED  BY <2>1, <2>2, <2>3, <2>4 DEF JudgeState
<1> QED  BY <1>1, <1>2, <1>3, <1>4 DEF TypeInv

LEMMA TypeStep ==
  ASSUME TypeInv, [Next]_vars
  PROVE  TypeInv'
<1> USE DEF JudgeOnly
<1>0. judge.todo # {} => Current \in Profiles
  BY CurrentIsFirst DEF TypeInv, JudgeState
<1>1. CASE RunStart
  BY <1>1, RunStartType
<1>2. CASE HoldUnjudged \/ HoldOnProbation \/ HoldFull \/ KeepQueued
  <2>1. UNCHANGED <<registry, transitions, decisions, runs, killed, enough, quarter>>
    BY <1>2 DEF HoldUnjudged, HoldOnProbation, HoldFull, KeepQueued
  <2>2. judge.todo # {} /\ \E strike \in BOOLEAN : Decide(Current, "hold", strike)
    BY <1>2 DEF HoldUnjudged, HoldOnProbation, HoldFull, KeepQueued, At, JudgeFull, Struck
  <2>3. judge' \in JudgeState
    BY <2>2, Decided DEF Verdicts
  <2> QED  BY <2>1, <2>3 DEF TypeInv
<1>3. CASE ConfirmPaper30
  <2>1. UNCHANGED <<transitions, decisions, runs, killed, enough, quarter>>
        /\ registry' = [registry EXCEPT ![Current].paper30 = TRUE]
        /\ judge' = [judge EXCEPT !.pc = "confirmed"]
    BY <1>3 DEF ConfirmPaper30
  <2>2. registry' \in RegistryType
    BY <2>1 DEF TypeInv, RegistryType
  <2>3. judge' \in JudgeState
    BY <2>1 DEF TypeInv, JudgeState
  <2> QED  BY <2>1, <2>2, <2>3 DEF TypeInv
<1>4. CASE PromoteToFull \/ Admit
  <2>1. UNCHANGED <<decisions, runs, killed, enough, quarter>>
    BY <1>4 DEF PromoteToFull, Admit
  <2>2. judge.todo # {} /\ \E to \in States : Transition(Current, to)
    BY <1>4 DEF PromoteToFull, Admit, At, States, Live
  <2>3. registry' \in RegistryType /\ transitions' \in Seq(TransitionRow)
    BY <1>0, <2>2, ProfileMoves DEF Transition
  <2>4. \E what \in Verdicts : Decide(Current, what, FALSE)
    BY <1>4 DEF PromoteToFull, Admit, Verdicts
  <2>5. judge' \in JudgeState
    BY <2>2, <2>4, Decided
  <2> QED  BY <2>1, <2>3, <2>5 DEF TypeInv
<1>5. CASE Retire
  <2>1. UNCHANGED <<decisions, runs, killed, enough, quarter>>
        /\ judge.todo # {} /\ Transition(Current, "retired")
        /\ judge' = [judge EXCEPT !.pc = "kill"]
    BY <1>5 DEF Retire, JudgeFull, At
  <2>2. registry' \in RegistryType /\ transitions' \in Seq(TransitionRow)
    BY <1>0, <2>1, ProfileMoves DEF Transition, States
  <2>3. judge' \in JudgeState
    BY <2>1 DEF TypeInv, JudgeState
  <2> QED  BY <2>1, <2>2, <2>3 DEF TypeInv
<1>6. CASE RetireKill
  <2>1. UNCHANGED <<registry, transitions, decisions, runs, enough, quarter>>
        /\ judge.todo # {} /\ killed' = killed \cup {Current} /\ Decide(Current, "retire", TRUE)
    BY <1>6 DEF RetireKill, At
  <2>2. judge' \in JudgeState
    BY <2>1, Decided DEF Verdicts
  <2> QED  BY <1>0, <2>1, <2>2 DEF TypeInv
<1>7. CASE RecordDecision
  <2>1. UNCHANGED <<registry, transitions, runs, killed, enough, quarter>>
        /\ judge.made # <<>> /\ decisions' = Append(decisions, Head(judge.made))
        /\ judge' = [judge EXCEPT !.made = Tail(judge.made)]
    BY <1>7 DEF RecordDecision
  <2>2. judge.made \in Seq(DecisionRow)
    BY DEF TypeInv, JudgeState
  <2>3. Head(judge.made) \in DecisionRow /\ Tail(judge.made) \in Seq(DecisionRow)
    BY <2>1, <2>2, HeadTailProperties
  <2>4. decisions' \in Seq(DecisionRow)
    BY <2>1, <2>3, AppendProperties DEF TypeInv
  <2>5. judge' \in JudgeState
    BY <2>1, <2>3 DEF TypeInv, JudgeState
  <2> QED  BY <2>1, <2>4, <2>5 DEF TypeInv
<1>8. CASE CloseRun
  <2>1. UNCHANGED <<registry, transitions, decisions, killed, enough, quarter>>
        /\ runs' = [runs EXCEPT ![judge.run].state = "closed"] /\ judge' = IdleJudge
    BY <1>8 DEF CloseRun
  <2>2. runs' \in Seq(RunRow)
    <3>1. /\ runs \in [1..Len(runs) -> RunRow] /\ Len(runs) \in Nat
      BY LenProperties DEF TypeInv
    <3>2. runs' \in [1..Len(runs) -> RunRow]
      BY <2>1, <3>1 DEF RunRow
    <3> QED  BY <3>1, <3>2, SeqDef
  <2>3. judge' \in JudgeState
    BY <2>1 DEF IdleJudge, JudgeState
  <2> QED  BY <2>1, <2>2, <2>3 DEF TypeInv
<1>9. CASE Crash
  <2>1. judge' \in JudgeState
    BY <1>9 DEF Crash, IdleJudge, JudgeState
  <2> QED  BY <1>9, <2>1 DEF Crash, TypeInv
<1>10. CASE \E p \in Profiles : Register(p)
  <2>1. PICK p \in Profiles : Register(p)
    BY <1>10
  <2>2. registry[p].state = "none"
    BY <2>1 DEF Register
  <2>3. registry' \in RegistryType /\ transitions' \in Seq(TransitionRow)
    BY <2>1, <2>2, ProfileMoves DEF Register, States
  <2> QED  BY <2>1, <2>3 DEF Register, TypeInv
<1>11. CASE \E p \in Profiles : StampBacktest(p) \/ StampOos(p)
  <2>1. PICK p \in Profiles : StampBacktest(p) \/ StampOos(p)
    BY <1>11
  <2>2. registry' \in RegistryType
    BY <2>1 DEF StampBacktest, StampOos, TypeInv, RegistryType
  <2> QED  BY <2>1, <2>2 DEF StampBacktest, StampOos, Stamp, TypeInv
<1>12. CASE UNCHANGED vars
  BY <1>12 DEF vars, TypeInv
<1> QED  BY <1>1, <1>2, <1>3, <1>4, <1>5, <1>6, <1>7, <1>8, <1>9, <1>10, <1>11, <1>12
         DEF Next, JudgeStep

-----------------------------------------------------------------------------
(* The run in progress.                                                     *)

InRun == judge.pc # "idle"
RunInv ==
  /\ \A k \in DOMAIN transitions : transitions[k].run <= Len(runs)
  /\ \A d \in DOMAIN decisions : decisions[d].run \in DOMAIN runs
  /\ ~InRun => judge = IdleJudge
  /\ InRun =>
       /\ judge.run = Len(runs) /\ Len(runs) > 0 /\ runs[judge.run].state = "open"
       /\ judge.was \in [Profiles -> States]
       /\ judge.pc = "record" <=> judge.todo = {}
       /\ judge.judged \subseteq enough /\ judge.clears \subseteq judge.judged
       /\ judge.below # NoOne => judge.below \in judge.judged
       /\ \A p \in judge.complete : judge.was[p] = "candidate"
       /\ judge.pc = "confirmed" => judge.was[Current] = "probation"
       /\ judge.pc = "kill" => judge.was[Current] = "full" /\ registry[Current].state = "retired"
       /\ judge.pc # "record" => \A d \in DOMAIN decisions : decisions[d].run # judge.run
       /\ \A m \in DOMAIN judge.made :
            judge.made[m].run = judge.run /\ judge.made[m].profile \notin judge.todo

\* Who is next is a matter of the run's locals alone.
LEMMA CurrentStays ==
  ASSUME judge'.todo = judge.todo, judge'.was = judge.was
  PROVE  Current' = Current
BY DEF Current, Before, WasLive, Place, Live


\* The history before the model starts: each of the roster was registered,
\* admitted in run 1 and promoted in run 2.
OfRoster(i, from, to, run) ==
  [profile |-> Roster[i], from |-> from, to |-> to, quarter |-> 0, run |-> run]
DecidedOn(i, what, run) ==
  [run |-> run, profile |-> Roster[i], decision |-> what, strike |-> FALSE]

LEMMA InitialRows ==
  ASSUME Init, NEW n, n = Len(Roster)
  PROVE  /\ n \in Nat /\ DOMAIN Roster = 1..n
         /\ \A i \in 1..n : Roster[i] \in Profiles
         /\ \A i, j \in 1..n : Roster[i] = Roster[j] => i = j
         /\ DOMAIN transitions = 1..(3 * n) /\ DOMAIN decisions = 1..(2 * n)
         /\ \A k \in 1..n : transitions[k] = OfRoster(k, "none", "candidate", 0)
         /\ \A k \in (n + 1)..(2 * n) :
              transitions[k] = OfRoster(k - n, "candidate", "probation", 1)
         /\ \A k \in (2 * n + 1)..(3 * n) :
              transitions[k] = OfRoster(k - 2 * n, "probation", "full", 2)
         /\ \A k \in 1..n : decisions[k] = DecidedOn(k, "enter", 1)
         /\ \A k \in (n + 1)..(2 * n) : decisions[k] = DecidedOn(k - n, "promote", 2)
<1> DEFINE Rows(from, to, run) == [k \in DOMAIN Roster |-> OfRoster(k, from, to, run)]
           Taken(what, run) == [k \in DOMAIN Roster |-> DecidedOn(k, what, run)]
           R0 == Rows("none", "candidate", 0)
           R1 == Rows("candidate", "probation", 1)
           R2 == Rows("probation", "full", 2)
           D1 == Taken("enter", 1)
           D2 == Taken("promote", 2)
           S == {OfRoster(i, from, to, run) : i \in DOMAIN Roster, from \in States, to \in States,
                                              run \in 0..2}
           T == {DecidedOn(i, what, run) : i \in DOMAIN Roster, what \in Verdicts, run \in 0..2}
<1>1. /\ n \in Nat /\ DOMAIN Roster = 1..n
      /\ \A i \in 1..n : Roster[i] \in Profiles
      /\ \A i, j \in 1..n : Roster[i] = Roster[j] => i = j
  <2>1. Roster \in Seq(Profiles) /\ IsInjective(Roster)
    BY TournamentAssumption
  <2>2. n \in Nat /\ DOMAIN Roster = 1..n /\ \A i \in 1..n : Roster[i] \in Profiles
    BY <2>1
  <2> QED  BY <2>1, <2>2 DEF IsInjective
<1>2. transitions = (R0 \o R1) \o R2 /\ decisions = D1 \o D2
  BY DEF Init, OfRoster, DecidedOn
<1>3. ASSUME NEW from \in States, NEW to \in States, NEW run \in 0..2
      PROVE  Rows(from, to, run) \in Seq(S) /\ Len(Rows(from, to, run)) = n
             /\ \A k \in 1..n : Rows(from, to, run)[k] = OfRoster(k, from, to, run)
  <2>1. Rows(from, to, run) \in [1..n -> S]
    BY <1>1
  <2>2. \A k \in 1..n : Rows(from, to, run)[k] = OfRoster(k, from, to, run)
    BY <1>1
  <2> HIDE DEF Rows, S
  <2>3. Rows(from, to, run) \in Seq(S)
    BY <1>1, <2>1, SeqDef
  <2> QED  BY <1>1, <2>1, <2>2, <2>3, LenProperties
<1>4. ASSUME NEW what \in Verdicts, NEW run \in 0..2
      PROVE  Taken(what, run) \in Seq(T) /\ Len(Taken(what, run)) = n
             /\ \A k \in 1..n : Taken(what, run)[k] = DecidedOn(k, what, run)
  <2>1. Taken(what, run) \in [1..n -> T]
    BY <1>1
  <2>2. \A k \in 1..n : Taken(what, run)[k] = DecidedOn(k, what, run)
    BY <1>1
  <2> HIDE DEF Taken, T
  <2>3. Taken(what, run) \in Seq(T)
    BY <1>1, <2>1, SeqDef
  <2> QED  BY <1>1, <2>1, <2>2, <2>3, LenProperties
<1> HIDE DEF Rows, Taken, S, T
<1>5. /\ R0 \in Seq(S) /\ R1 \in Seq(S) /\ R2 \in Seq(S)
      /\ Len(R0) = n /\ Len(R1) = n /\ Len(R2) = n
      /\ \A k \in 1..n : R0[k] = OfRoster(k, "none", "candidate", 0)
      /\ \A k \in 1..n : R1[k] = OfRoster(k, "candidate", "probation", 1)
      /\ \A k \in 1..n : R2[k] = OfRoster(k, "probation", "full", 2)
  BY <1>3 DEF States, Live
<1>6. /\ D1 \in Seq(T) /\ D2 \in Seq(T) /\ Len(D1) = n /\ Len(D2) = n
      /\ \A k \in 1..n : D1[k] = DecidedOn(k, "enter", 1)
      /\ \A k \in 1..n : D2[k] = DecidedOn(k, "promote", 2)
  BY <1>4 DEF Verdicts
<1> HIDE DEF R0, R1, R2, D1, D2
<1> DEFINE Q == R0 \o R1
<1>7. /\ Q \in Seq(S) /\ Len(Q) = 2 * n
      /\ \A k \in 1..(2 * n) : Q[k] = IF k <= n THEN R0[k] ELSE R1[k - n]
  <2>1. /\ R0 \o R1 \in Seq(S) /\ Len(R0 \o R1) = Len(R0) + Len(R1)
        /\ \A k \in 1..(Len(R0) + Len(R1)) :
             (R0 \o R1)[k] = IF k <= Len(R0) THEN R0[k] ELSE R1[k - Len(R0)]
    BY <1>5, ConcatProperties
  <2>2. Len(R0) = n /\ Len(R1) = n /\ n + n = 2 * n
    BY <1>1, <1>5
  <2> QED  BY <2>1, <2>2
<1> HIDE DEF Q
<1>8. /\ Len(Q \o R2) = 3 * n /\ Q \o R2 \in Seq(S)
      /\ \A k \in 1..(3 * n) : (Q \o R2)[k] = IF k <= 2 * n THEN Q[k] ELSE R2[k - 2 * n]
  <2>1. /\ Q \o R2 \in Seq(S) /\ Len(Q \o R2) = Len(Q) + Len(R2)
        /\ \A k \in 1..(Len(Q) + Len(R2)) :
             (Q \o R2)[k] = IF k <= Len(Q) THEN Q[k] ELSE R2[k - Len(Q)]
    BY <1>5, <1>7, ConcatProperties
  <2>2. Len(Q) = 2 * n /\ Len(R2) = n /\ 2 * n + n = 3 * n
    BY <1>1, <1>5, <1>7
  <2> QED  BY <2>1, <2>2
<1>9. /\ Len(D1 \o D2) = 2 * n /\ D1 \o D2 \in Seq(T)
      /\ \A k \in 1..(2 * n) : (D1 \o D2)[k] = IF k <= n THEN D1[k] ELSE D2[k - n]
  <2>1. /\ D1 \o D2 \in Seq(T) /\ Len(D1 \o D2) = Len(D1) + Len(D2)
        /\ \A k \in 1..(Len(D1) + Len(D2)) :
             (D1 \o D2)[k] = IF k <= Len(D1) THEN D1[k] ELSE D2[k - Len(D1)]
    BY <1>6, ConcatProperties
  <2>2. Len(D1) = n /\ Len(D2) = n /\ n + n = 2 * n
    BY <1>1, <1>6
  <2> QED  BY <2>1, <2>2
<1>10. transitions = Q \o R2
  BY <1>2 DEF Q
<1>11. DOMAIN transitions = 1..(3 * n) /\ DOMAIN decisions = 1..(2 * n)
  BY <1>2, <1>8, <1>9, <1>10
<1>12. \A k \in 1..n : transitions[k] = OfRoster(k, "none", "candidate", 0)
  <2> TAKE k \in 1..n
  <2>1. k <= n /\ k <= 2 * n /\ k \in 1..(2 * n) /\ k \in 1..(3 * n)
    BY <1>1
  <2> QED  BY <1>5, <1>7, <1>8, <1>10, <2>1
<1>13. \A k \in (n + 1)..(2 * n) : transitions[k] = OfRoster(k - n, "candidate", "probation", 1)
  <2> TAKE k \in (n + 1)..(2 * n)
  <2>1. k - n \in 1..n /\ ~(k <= n) /\ k <= 2 * n /\ k \in 1..(2 * n) /\ k \in 1..(3 * n)
    BY <1>1
  <2> QED  BY <1>5, <1>7, <1>8, <1>10, <2>1
<1>14. \A k \in (2 * n + 1)..(3 * n) :
         transitions[k] = OfRoster(k - 2 * n, "probation", "full", 2)
  <2> TAKE k \in (2 * n + 1)..(3 * n)
  <2>1. k - 2 * n \in 1..n /\ ~(k <= 2 * n) /\ k \in 1..(3 * n)
    BY <1>1
  <2> QED  BY <1>5, <1>8, <1>10, <2>1
<1>15. \A k \in 1..n : decisions[k] = DecidedOn(k, "enter", 1)
  BY <1>1, <1>2, <1>6, <1>9
<1>16. \A k \in (n + 1)..(2 * n) : decisions[k] = DecidedOn(k - n, "promote", 2)
  <2> TAKE k \in (n + 1)..(2 * n)
  <2>1. k - n \in 1..n /\ ~(k <= n) /\ k \in 1..(2 * n)
    BY <1>1
  <2> QED  BY <1>2, <1>6, <1>9, <2>1
<1> QED  BY <1>1, <1>11, <1>12, <1>13, <1>14, <1>15, <1>16

\* The same, by row.
LEMMA InitialBlocks ==
  ASSUME Init, NEW n, n = Len(Roster)
  PROVE  /\ \A k \in DOMAIN transitions :
              \/ k \in 1..n /\ transitions[k] = OfRoster(k, "none", "candidate", 0)
              \/ /\ k \in (n + 1)..(2 * n)
                 /\ transitions[k] = OfRoster(k - n, "candidate", "probation", 1)
              \/ /\ k \in (2 * n + 1)..(3 * n)
                 /\ transitions[k] = OfRoster(k - 2 * n, "probation", "full", 2)
         /\ \A k \in DOMAIN decisions :
              \/ k \in 1..n /\ decisions[k] = DecidedOn(k, "enter", 1)
              \/ k \in (n + 1)..(2 * n) /\ decisions[k] = DecidedOn(k - n, "promote", 2)
<1>1. n \in Nat /\ DOMAIN transitions = 1..(3 * n) /\ DOMAIN decisions = 1..(2 * n)
  BY InitialRows
<1>2. \A k \in 1..(3 * n) : k \in 1..n \/ k \in (n + 1)..(2 * n) \/ k \in (2 * n + 1)..(3 * n)
  BY <1>1
<1>3. \A k \in 1..(2 * n) : k \in 1..n \/ k \in (n + 1)..(2 * n)
  BY <1>1
<1> QED  BY <1>1, <1>2, <1>3, InitialRows

LEMMA RunInit ==
  ASSUME Init
  PROVE  RunInv
<1>1. Len(runs) = 2 /\ DOMAIN runs = 1..2 /\ judge = IdleJudge /\ judge.pc = "idle"
  BY DEF Init, IdleJudge
<1>2. \A k \in DOMAIN transitions : transitions[k].run \in 0..2
  <2> TAKE k \in DOMAIN transitions
  <2>1. \E i : \/ transitions[k] = OfRoster(i, "none", "candidate", 0)
               \/ transitions[k] = OfRoster(i, "candidate", "probation", 1)
               \/ transitions[k] = OfRoster(i, "probation", "full", 2)
    BY InitialBlocks
  <2> QED  BY <2>1 DEF OfRoster
<1>3. \A d \in DOMAIN decisions : decisions[d].run \in 1..2
  <2> TAKE d \in DOMAIN decisions
  <2>1. \E i : decisions[d] = DecidedOn(i, "enter", 1) \/ decisions[d] = DecidedOn(i, "promote", 2)
    BY InitialBlocks
  <2> QED  BY <2>1 DEF DecidedOn
<1> QED  BY <1>1, <1>2, <1>3 DEF RunInv, InRun

LEMMA RowTypes ==
  ASSUME TypeInv
  PROVE  /\ DOMAIN transitions = 1..Len(transitions) /\ Len(transitions) \in Nat
         /\ \A k \in DOMAIN transitions :
              /\ transitions[k].profile \in Profiles
              /\ transitions[k].from \in States /\ transitions[k].to \in States
              /\ transitions[k].quarter \in Nat /\ transitions[k].run \in Nat
         /\ DOMAIN decisions = 1..Len(decisions) /\ Len(decisions) \in Nat
         /\ \A d \in DOMAIN decisions :
              decisions[d].profile \in Profiles /\ decisions[d].run \in Nat
         /\ DOMAIN runs = 1..Len(runs) /\ Len(runs) \in Nat
<1>1. \A k \in DOMAIN transitions : transitions[k] \in TransitionRow
  BY DEF TypeInv
<1>2. \A d \in DOMAIN decisions : decisions[d] \in DecisionRow
  BY DEF TypeInv
<1>3. /\ DOMAIN transitions = 1..Len(transitions) /\ Len(transitions) \in Nat
      /\ DOMAIN decisions = 1..Len(decisions) /\ Len(decisions) \in Nat
      /\ DOMAIN runs = 1..Len(runs) /\ Len(runs) \in Nat
  BY DEF TypeInv
<1> QED  BY <1>1, <1>2, <1>3 DEF TransitionRow, DecisionRow

\* The only rows a step adds are of the run in progress, or of none.
NewRowsAreOfThisRun ==
  \A k \in DOMAIN transitions' :
    \/ k \in DOMAIN transitions /\ transitions'[k] = transitions[k]
    \/ transitions'[k].run = judge.run

LEMMA RowOfThisRun ==
  ASSUME TypeInv, NEW p \in Profiles, NEW from \in States, NEW to \in States,
         transitions' = Append(transitions, Row(p, from, to))
  PROVE  NewRowsAreOfThisRun
<1>1. /\ Len(transitions) \in Nat /\ DOMAIN transitions = 1..Len(transitions)
      /\ DOMAIN transitions' = 1..(Len(transitions) + 1)
      /\ \A k \in DOMAIN transitions : transitions'[k] = transitions[k]
      /\ transitions'[Len(transitions) + 1] =
           [profile |-> p, from |-> from, to |-> to, quarter |-> quarter, run |-> judge.run]
  BY RowAppended
<1>2. ASSUME NEW k \in DOMAIN transitions'
      PROVE  k \in DOMAIN transitions \/ k = Len(transitions) + 1
  BY <1>1
<1> QED  BY <1>1, <1>2 DEF NewRowsAreOfThisRun

LEMMA RunsOfRows ==
  ASSUME TypeInv, RunInv, NewRowsAreOfThisRun
  PROVE  \A k \in DOMAIN transitions' : transitions'[k].run <= Len(runs)
<1>1. Len(runs) \in Nat
  BY DEF TypeInv
<1>2. judge.run <= Len(runs)
  BY <1>1 DEF RunInv, IdleJudge
<1>3. \A k \in DOMAIN transitions : transitions[k].run <= Len(runs)
  BY DEF RunInv
<1> QED  BY <1>2, <1>3 DEF NewRowsAreOfThisRun

\* A run decides on the strategy it is at.
LEMMA DecidedRun ==
  ASSUME TypeInv, RunInv, InRun, judge.todo # {}, UNCHANGED <<decisions, runs, enough>>,
         NEW what \in Verdicts, NEW strike \in BOOLEAN, Decide(Current, what, strike),
         NewRowsAreOfThisRun
  PROVE  RunInv'
<1> DEFINE row == [run |-> judge.run, profile |-> Current, decision |-> what, strike |-> strike]
<1>1. /\ judge'.pc \in {"judge", "record"} /\ (judge'.pc = "record" <=> judge'.todo = {})
      /\ judge'.todo = judge.todo \ {Current}
      /\ judge'.run = judge.run /\ judge'.was = judge.was /\ judge'.complete = judge.complete
      /\ judge'.judged = judge.judged /\ judge'.clears = judge.clears
      /\ judge'.below = judge.below /\ judge'.made = Append(judge.made, row)
  BY Decided
<1>2. judge.made \in Seq(DecisionRow) /\ row \in DecisionRow
  BY CurrentIsFirst DEF TypeInv, JudgeState, DecisionRow
<1>3. row.run = judge.run /\ row.profile = Current
  OBVIOUS
<1> HIDE DEF row
<1>4. \A m \in DOMAIN judge'.made :
        judge'.made[m].run = judge.run /\ judge'.made[m].profile \notin judge'.todo
  <2> TAKE m \in DOMAIN judge'.made
  <2>1. \/ m \in DOMAIN judge.made /\ judge'.made[m] = judge.made[m]
        \/ judge'.made[m] = row
    BY <1>1, <1>2
  <2> QED  BY <1>1, <1>3, <2>1 DEF RunInv
<1>5. \A k \in DOMAIN transitions' : transitions'[k].run <= Len(runs)
  BY RunsOfRows
<1>6. judge.pc # "record"
  BY DEF RunInv
<1> QED  BY <1>1, <1>4, <1>5, <1>6 DEF RunInv, InRun

LEMMA RunStartRun ==
  ASSUME TypeInv, RunInv, RunStart
  PROVE  RunInv'
<1> DEFINE alive == InState(Live)
           judged == alive \cap enough'
           eligible == InState({"full"}) \cap judged
<1>1. PICK sharpe \in [judged -> Sharpes], worst \in Profiles \cup {NoOne} :
        /\ IF Cardinality(eligible) > 1
             THEN worst \in eligible /\ \A p \in eligible : sharpe[worst] <= sharpe[p]
             ELSE worst = NoOne
        /\ judge' =
             [pc |-> IF alive \cup InState({"candidate"}) = {} THEN "record" ELSE "judge",
              run |-> Len(runs) + 1,
              was |-> [p \in Profiles |-> registry[p].state],
              complete |-> {p \in InState({"candidate"}) : Complete(p)},
              judged |-> judged,
              clears |-> {p \in InState({"probation"}) \cap judged : sharpe[p] >= PromotionFloor},
              below |-> IF worst # NoOne /\ sharpe[worst] < DemotionFloor THEN worst ELSE NoOne,
              made |-> <<>>,
              todo |-> alive \cup InState({"candidate"})]
  BY DEF RunStart
<1> HIDE DEF alive, judged, eligible
<1>2. /\ judge'.pc \in {"judge", "record"} /\ (judge'.pc = "record" <=> judge'.todo = {})
      /\ judge'.run = Len(runs) + 1
      /\ judge'.was = [p \in Profiles |-> registry[p].state]
      /\ judge'.complete \subseteq InState({"candidate"})
      /\ judge'.judged = judged /\ judge'.clears \subseteq judged
      /\ judge'.below # NoOne => judge'.below = worst
      /\ judge'.made = <<>>
  BY <1>1
<1>3. judge'.below # NoOne => judge'.below \in judged
  BY <1>1, <1>2 DEF eligible
<1>4. Len(runs) \in Nat /\ runs' \in Seq(RunRow) /\ Len(runs') = Len(runs) + 1
      /\ runs'[Len(runs) + 1].state = "open" /\ DOMAIN runs = 1..Len(runs)
      /\ DOMAIN runs' = 1..(Len(runs) + 1)
  <2>1. PICK new \in RunRow : runs' = Append(runs, new) /\ new.state = "open"
    BY DEF RunStart, RunRow, InState
  <2> QED  BY <2>1 DEF TypeInv
<1>5. judge'.was \in [Profiles -> States] /\ \A p \in judge'.complete : judge'.was[p] = "candidate"
  BY <1>2 DEF TypeInv, RegistryType, InState
<1>6. UNCHANGED <<transitions, decisions>>
  BY DEF RunStart
<1>7. \A k \in DOMAIN transitions : transitions[k].run <= Len(runs) + 1
  <2>1. \A k \in DOMAIN transitions : transitions[k].run \in Nat /\ transitions[k].run <= Len(runs)
    BY RowTypes DEF RunInv
  <2> QED  BY <1>4, <2>1
<1>8. \A d \in DOMAIN decisions : decisions[d].run \in DOMAIN runs' /\ decisions[d].run # Len(runs) + 1
  BY <1>4 DEF RunInv
<1>9. judged \subseteq enough'
  BY DEF judged
<1> QED  BY <1>2, <1>3, <1>4, <1>5, <1>6, <1>7, <1>8, <1>9 DEF RunInv, InRun

\* A step that is not the run's does not reach it.
LEMMA RunUndisturbed ==
  ASSUME TypeInv, RunInv, UNCHANGED <<decisions, runs, enough, judge>>,
         UNCHANGED transitions \/ ~InRun,
         NewRowsAreOfThisRun,
         \A p \in Profiles : registry[p].state = "retired" => registry'[p].state = "retired"
  PROVE  RunInv'
<1>1. Current' = Current
  BY CurrentStays
<1>2. judge.todo # {} => Current \in Profiles
  BY CurrentIsFirst DEF TypeInv, JudgeState
<1>3. \A k \in DOMAIN transitions' : transitions'[k].run <= Len(runs)
  BY RunsOfRows
<1>4. judge.pc = "kill" => judge.todo # {}
  BY DEF RunInv, InRun
<1> QED  BY <1>1, <1>2, <1>3, <1>4 DEF RunInv, InRun

LEMMA RunStep ==
  ASSUME TypeInv, RunInv, [Next]_vars
  PROVE  RunInv'
<1> USE DEF JudgeOnly
<1>0. judge.todo # {} => Current \in Profiles
  BY CurrentIsFirst DEF TypeInv, JudgeState
<1>1. CASE RunStart
  BY <1>1, RunStartRun
<1>2. CASE HoldUnjudged \/ HoldOnProbation \/ HoldFull \/ KeepQueued
  <2>1. UNCHANGED <<transitions, decisions, runs, enough>> /\ InRun
    BY <1>2 DEF HoldUnjudged, HoldOnProbation, HoldFull, KeepQueued, InRun, At, JudgeFull
  <2>2. judge.todo # {} /\ \E strike \in BOOLEAN : Decide(Current, "hold", strike)
    BY <1>2 DEF HoldUnjudged, HoldOnProbation, HoldFull, KeepQueued, At, JudgeFull, Struck
  <2> QED  BY <2>1, <2>2, DecidedRun DEF Verdicts, NewRowsAreOfThisRun
<1>3. CASE ConfirmPaper30
  <2>1. UNCHANGED <<transitions, decisions, runs, enough>>
        /\ judge' = [judge EXCEPT !.pc = "confirmed"]
        /\ judge.pc = "judge" /\ judge.todo # {} /\ judge.was[Current] = "probation"
    BY <1>3 DEF ConfirmPaper30, At
  <2>2. /\ judge'.pc = "confirmed"
        /\ judge'.todo = judge.todo /\ judge'.run = judge.run /\ judge'.was = judge.was
        /\ judge'.complete = judge.complete /\ judge'.judged = judge.judged
        /\ judge'.clears = judge.clears /\ judge'.below = judge.below /\ judge'.made = judge.made
    BY <2>1 DEF TypeInv, JudgeState
  <2>3. Current' = Current
    BY <2>2, CurrentStays
  <2> QED  BY <2>1, <2>2, <2>3 DEF RunInv, InRun
<1>4. CASE PromoteToFull \/ Admit
  <2>1. UNCHANGED <<decisions, runs, enough>> /\ InRun
    BY <1>4 DEF PromoteToFull, Admit, InRun, At
  <2>2. judge.todo # {} /\ \E to \in States : Transition(Current, to)
    BY <1>4 DEF PromoteToFull, Admit, At, States, Live
  <2>3. /\ Current \in Profiles /\ registry[Current].state \in States
    BY <1>0, <2>2 DEF TypeInv, RegistryType
  <2>4. NewRowsAreOfThisRun
    BY <2>2, <2>3, RowOfThisRun DEF Transition
  <2>5. \E what \in Verdicts : Decide(Current, what, FALSE)
    BY <1>4 DEF PromoteToFull, Admit, Verdicts
  <2> QED  BY <2>1, <2>2, <2>4, <2>5, DecidedRun
<1>5. CASE Retire
  <2>1. UNCHANGED <<decisions, runs, enough>> /\ InRun
        /\ judge.pc = "judge" /\ judge.todo # {} /\ Transition(Current, "retired")
        /\ judge' = [judge EXCEPT !.pc = "kill"] /\ judge.was[Current] = "full"
    BY <1>5 DEF Retire, JudgeFull, At, InRun
  <2>2. /\ Current \in Profiles /\ registry[Current].state \in States
    BY <1>0, <2>1 DEF TypeInv, RegistryType
  <2>3. /\ judge'.pc = "kill"
        /\ judge'.todo = judge.todo /\ judge'.run = judge.run /\ judge'.was = judge.was
        /\ judge'.complete = judge.complete /\ judge'.judged = judge.judged
        /\ judge'.clears = judge.clears /\ judge'.below = judge.below /\ judge'.made = judge.made
    BY <2>1 DEF TypeInv, JudgeState
  <2>4. Current' = Current
    BY <2>3, CurrentStays
  <2>5. registry'[Current].state = "retired"
    BY <2>1, <2>2 DEF Transition, TypeInv, RegistryType
  <2>6. NewRowsAreOfThisRun
    BY <2>1, <2>2, RowOfThisRun DEF Transition, States
  <2>7. \A k \in DOMAIN transitions' : transitions'[k].run <= Len(runs)
    BY <2>6, RunsOfRows
  <2> QED  BY <2>1, <2>3, <2>4, <2>5, <2>7 DEF RunInv, InRun
<1>6. CASE RetireKill
  <2>1. UNCHANGED <<transitions, decisions, runs, enough>> /\ InRun
        /\ judge.todo # {} /\ Decide(Current, "retire", TRUE)
    BY <1>6 DEF RetireKill, At, InRun
  <2> QED  BY <2>1, DecidedRun DEF Verdicts, NewRowsAreOfThisRun
<1>7. CASE RecordDecision
  <2>1. UNCHANGED <<transitions, runs, enough>> /\ judge.pc = "record"
        /\ judge.made # <<>> /\ decisions' = Append(decisions, Head(judge.made))
        /\ judge' = [judge EXCEPT !.made = Tail(judge.made)]
    BY <1>7 DEF RecordDecision
  <2>2. judge.made \in Seq(DecisionRow) /\ decisions \in Seq(DecisionRow)
    BY DEF TypeInv, JudgeState
  <2>3. /\ judge'.pc = "record"
        /\ judge'.todo = judge.todo /\ judge'.run = judge.run /\ judge'.was = judge.was
        /\ judge'.complete = judge.complete /\ judge'.judged = judge.judged
        /\ judge'.clears = judge.clears /\ judge'.below = judge.below
        /\ judge'.made = Tail(judge.made)
    BY <2>1 DEF TypeInv, JudgeState
  <2>4. \A m \in DOMAIN judge'.made :
          m + 1 \in DOMAIN judge.made /\ judge'.made[m] = judge.made[m + 1]
    BY <2>1, <2>2, <2>3
  <2>5. 1 \in DOMAIN judge.made /\ Head(judge.made) = judge.made[1]
    BY <2>1, <2>2
  <2>6. judge.run = Len(runs) /\ judge.run \in DOMAIN runs
    BY <2>1 DEF RunInv, InRun, TypeInv
  <2>7. \A d \in DOMAIN decisions' : decisions'[d].run \in DOMAIN runs
    <3> TAKE d \in DOMAIN decisions'
    <3>1. \/ d \in DOMAIN decisions /\ decisions'[d] = decisions[d]
          \/ decisions'[d] = judge.made[1]
      BY <2>1, <2>2, <2>5
    <3> QED  BY <2>1, <2>5, <2>6, <3>1 DEF RunInv, InRun
  <2> QED  BY <2>1, <2>3, <2>4, <2>7 DEF RunInv, InRun
<1>8. CASE CloseRun
  <2>1. UNCHANGED <<transitions, decisions, enough>>
        /\ runs' = [runs EXCEPT ![judge.run].state = "closed"] /\ judge' = IdleJudge
    BY <1>8 DEF CloseRun
  <2>2. DOMAIN runs' = DOMAIN runs /\ Len(runs') = Len(runs)
    BY <2>1 DEF TypeInv
  <2> QED  BY <2>1, <2>2 DEF RunInv, InRun, IdleJudge
<1>9. CASE Crash
  BY <1>9 DEF Crash, RunInv, InRun, IdleJudge
<1>10. CASE \E p \in Profiles : Register(p)
  <2>1. PICK p \in Profiles : Register(p)
    BY <1>10
  <2>2. registry[p].state = "none" /\ UNCHANGED <<decisions, runs, enough, judge>> /\ ~InRun
    BY <2>1 DEF Register, InRun
  <2>3. NewRowsAreOfThisRun
    BY <2>1, RowOfThisRun DEF Register, States
  <2>4. \A q \in Profiles : registry[q].state = "retired" => registry'[q].state = "retired"
    BY <2>1, <2>2 DEF Register, TypeInv, RegistryType
  <2> QED  BY <2>2, <2>3, <2>4, RunUndisturbed
<1>11. CASE \E p \in Profiles : StampBacktest(p) \/ StampOos(p)
  <2>1. PICK p \in Profiles : StampBacktest(p) \/ StampOos(p)
    BY <1>11
  <2>2. UNCHANGED <<transitions, decisions, runs, enough, judge>>
    BY <2>1 DEF StampBacktest, StampOos, Stamp
  <2>3. \A q \in Profiles : registry'[q].state = registry[q].state
    <3>1. \/ registry' = [registry EXCEPT ![p].backtest = TRUE]
          \/ registry' = [registry EXCEPT ![p].oos = TRUE]
      BY <2>1 DEF StampBacktest, StampOos
    <3>2. CASE registry' = [registry EXCEPT ![p].backtest = TRUE]
      BY <3>2 DEF TypeInv, RegistryType
    <3>3. CASE registry' = [registry EXCEPT ![p].oos = TRUE]
      BY <3>3 DEF TypeInv, RegistryType
    <3> QED  BY <3>1, <3>2, <3>3
  <2>4. NewRowsAreOfThisRun
    BY <2>2 DEF NewRowsAreOfThisRun
  <2> QED  BY <2>2, <2>3, <2>4, RunUndisturbed
<1>12. CASE UNCHANGED vars
  BY <1>12, RunUndisturbed DEF vars, NewRowsAreOfThisRun
<1> QED  BY <1>1, <1>2, <1>3, <1>4, <1>5, <1>6, <1>7, <1>8, <1>9, <1>10, <1>11, <1>12
         DEF Next, JudgeStep

\* Registrations and runs act on profiles they may act on, and a retirement
\* half done has its registry half done.
THEOREM RosterTypeCorrect == Spec => []RosterTypeOK
<1>1. Init => TypeInv /\ RunInv
  BY TypeInit, RunInit
<1>2. TypeInv /\ RunInv /\ [Next]_vars => (TypeInv /\ RunInv)'
  BY TypeStep, RunStep
<1>3. TypeInv /\ RunInv => RosterTypeOK
  <2> SUFFICES ASSUME TypeInv, RunInv PROVE RosterTypeOK
    OBVIOUS
  <2>1. \A k \in DOMAIN transitions : transitions[k].profile \in Profiles
    BY RowTypes
  <2>2. judge.pc # "idle" => judge.run \in DOMAIN runs /\ runs[judge.run].state = "open"
    BY DEF RunInv, InRun, TypeInv
  <2>3. judge.below # NoOne => judge.below \in judge.judged
    BY DEF RunInv, InRun, IdleJudge
  <2>4. judge.pc = "kill" => registry[Current].state = "retired"
    BY DEF RunInv, InRun
  <2> QED  BY <2>1, <2>2, <2>3, <2>4 DEF TypeInv, RunInv, RosterTypeOK, RegistryType
<1> QED  BY <1>1, <1>2, <1>3, PTL DEF Spec

-----------------------------------------------------------------------------
(* The history of a profile.                                                *)

LEMMA HistoryInit ==
  ASSUME Init
  PROVE  HistoryIsLegal
<1> DEFINE n == Len(Roster)
<1>1. /\ n \in Nat /\ DOMAIN Roster = 1..n
      /\ \A i, j \in 1..n : Roster[i] = Roster[j] => i = j
      /\ DOMAIN transitions = 1..(3 * n)
      /\ \A k \in 1..n : transitions[k] = OfRoster(k, "none", "candidate", 0)
      /\ \A k \in (n + 1)..(2 * n) :
           transitions[k] = OfRoster(k - n, "candidate", "probation", 1)
      /\ \A k \in (2 * n + 1)..(3 * n) :
           transitions[k] = OfRoster(k - 2 * n, "probation", "full", 2)
  BY InitialRows
<1>2. \A k \in DOMAIN transitions :
        \/ k \in 1..n /\ transitions[k] = OfRoster(k, "none", "candidate", 0)
        \/ /\ k \in (n + 1)..(2 * n)
           /\ transitions[k] = OfRoster(k - n, "candidate", "probation", 1)
        \/ /\ k \in (2 * n + 1)..(3 * n)
           /\ transitions[k] = OfRoster(k - 2 * n, "probation", "full", 2)
  BY InitialBlocks
<1>3. ASSUME NEW p \in Profiles, p \notin Promoted
      PROVE  RowsOf(p) = {} /\ registry[p].state = "none"
  <2>1. \A k \in DOMAIN transitions : transitions[k].profile \in Promoted
    <3> TAKE k \in DOMAIN transitions
    <3>1. CASE k \in 1..n /\ transitions[k] = OfRoster(k, "none", "candidate", 0)
      BY <1>1, <3>1 DEF OfRoster, Promoted
    <3>2. CASE /\ k \in (n + 1)..(2 * n)
               /\ transitions[k] = OfRoster(k - n, "candidate", "probation", 1)
      <4>1. k - n \in DOMAIN Roster
        BY <1>1, <3>2
      <4> QED  BY <3>2, <4>1 DEF OfRoster, Promoted
    <3>3. CASE /\ k \in (2 * n + 1)..(3 * n)
               /\ transitions[k] = OfRoster(k - 2 * n, "probation", "full", 2)
      <4>1. k - 2 * n \in DOMAIN Roster
        BY <1>1, <3>3
      <4> QED  BY <3>3, <4>1 DEF OfRoster, Promoted
    <3> QED  BY <1>2, <3>1, <3>2, <3>3
  <2> QED  BY <1>3, <2>1 DEF RowsOf, Init
<1>4. ASSUME NEW i \in 1..n
      PROVE  /\ RowsOf(Roster[i]) = {i, n + i, 2 * n + i} /\ i < n + i /\ n + i < 2 * n + i
             /\ transitions[i] = OfRoster(i, "none", "candidate", 0)
             /\ transitions[n + i] = OfRoster(i, "candidate", "probation", 1)
             /\ transitions[2 * n + i] = OfRoster(i, "probation", "full", 2)
  <2>1. /\ i \in 1..n /\ n + i \in (n + 1)..(2 * n) /\ 2 * n + i \in (2 * n + 1)..(3 * n)
        /\ (n + i) - n = i /\ (2 * n + i) - 2 * n = i /\ i < n + i /\ n + i < 2 * n + i
        /\ i \in 1..(3 * n) /\ n + i \in 1..(3 * n) /\ 2 * n + i \in 1..(3 * n)
    BY <1>1
  <2>2. /\ transitions[i] = OfRoster(i, "none", "candidate", 0)
        /\ transitions[n + i] = OfRoster(i, "candidate", "probation", 1)
        /\ transitions[2 * n + i] = OfRoster(i, "probation", "full", 2)
    BY <1>1, <2>1
  <2>3. {i, n + i, 2 * n + i} \subseteq RowsOf(Roster[i])
    BY <1>1, <2>1, <2>2 DEF RowsOf, OfRoster
  <2>4. ASSUME NEW k \in RowsOf(Roster[i])
        PROVE  k \in {i, n + i, 2 * n + i}
    <3>0. k \in DOMAIN transitions /\ transitions[k].profile = Roster[i]
      BY DEF RowsOf
    <3>1. CASE k \in 1..n /\ transitions[k] = OfRoster(k, "none", "candidate", 0)
      BY <1>1, <3>0, <3>1 DEF OfRoster
    <3>2. CASE /\ k \in (n + 1)..(2 * n)
               /\ transitions[k] = OfRoster(k - n, "candidate", "probation", 1)
      <4>1. k - n \in 1..n /\ Roster[k - n] = Roster[i]
        BY <1>1, <3>0, <3>2 DEF OfRoster
      <4>2. k - n = i
        BY <1>1, <4>1
      <4> QED  BY <1>1, <3>2, <4>2
    <3>3. CASE /\ k \in (2 * n + 1)..(3 * n)
               /\ transitions[k] = OfRoster(k - 2 * n, "probation", "full", 2)
      <4>1. k - 2 * n \in 1..n /\ Roster[k - 2 * n] = Roster[i]
        BY <1>1, <3>0, <3>3 DEF OfRoster
      <4>2. k - 2 * n = i
        BY <1>1, <4>1
      <4> QED  BY <1>1, <3>3, <4>2
    <3> QED  BY <1>2, <3>0, <3>1, <3>2, <3>3
  <2> QED  BY <2>1, <2>2, <2>3, <2>4
<1>5. ASSUME NEW p \in Promoted
      PROVE  /\ registry[p].state = "full" /\ Complete(p) /\ registry[p].paper30 /\ p \in enough
             /\ RowsOf(p) # {} /\ EndsIn(RowsOf(p), "full")
             /\ \A k \in RowsOf(p) :
                  LET step == <<transitions[k].from, transitions[k].to>> IN
                  IF EarlierRows(p, k) = {} THEN step = <<"none", "candidate">>
                  ELSE step \in ValidTransitions /\ EndsIn(EarlierRows(p, k), step[1])
  <2>1. PICK i \in 1..n : p = Roster[i]
    BY <1>1 DEF Promoted
  <2> DEFINE a == i
             b == n + i
             c == 2 * n + i
  <2>2. /\ RowsOf(p) = {a, b, c} /\ a < b /\ b < c /\ a \in Nat /\ b \in Nat /\ c \in Nat
        /\ transitions[a].from = "none" /\ transitions[a].to = "candidate"
        /\ transitions[b].from = "candidate" /\ transitions[b].to = "probation"
        /\ transitions[c].from = "probation" /\ transitions[c].to = "full"
    <3>1. /\ RowsOf(p) = {a, b, c} /\ a < b /\ b < c
          /\ transitions[a] = OfRoster(i, "none", "candidate", 0)
          /\ transitions[b] = OfRoster(i, "candidate", "probation", 1)
          /\ transitions[c] = OfRoster(i, "probation", "full", 2)
      BY <1>4, <2>1
    <3>2. a \in Nat /\ b \in Nat /\ c \in Nat
      BY <1>1
    <3> HIDE DEF a, b, c
    <3> QED  BY <3>1, <3>2 DEF OfRoster
  <2> HIDE DEF a, b, c
  <2>3. EarlierRows(p, a) = {} /\ EarlierRows(p, b) = {a} /\ EarlierRows(p, c) = {a, b}
    BY <2>2 DEF EarlierRows
  <2>4. EndsIn({a}, "candidate") /\ EndsIn({a, b}, "probation") /\ EndsIn({a, b, c}, "full")
    BY <2>2 DEF EndsIn
  <2>5. p \in Profiles
    BY <2>1, InitialRows
  <2>6. registry[p].state = "full" /\ Complete(p) /\ registry[p].paper30 /\ p \in enough
    BY <2>5 DEF Init, Complete
  <2> QED  BY <2>2, <2>3, <2>4, <2>6 DEF ValidTransitions
<1>6. \A p \in Profiles : p \notin Promoted => registry[p].state \notin Live
  BY <1>3 DEF Live
<1> QED  BY <1>3, <1>5, <1>6 DEF HistoryIsLegal, Live

\* Nobody moves, evidence is only added to.
LEMMA HistoryStays ==
  ASSUME HistoryIsLegal, UNCHANGED transitions, enough \subseteq enough',
         \A p \in Profiles :
           /\ registry'[p].state = registry[p].state
           /\ registry[p].backtest => registry'[p].backtest
           /\ registry[p].oos => registry'[p].oos
           /\ registry[p].paper30 => registry'[p].paper30
  PROVE  HistoryIsLegal'
<1>1. \A p : RowsOf(p)' = RowsOf(p)
  BY DEF RowsOf
<1>2. \A p, k : EarlierRows(p, k)' = EarlierRows(p, k)
  BY <1>1 DEF EarlierRows
<1>3. /\ \A p, state : EndsIn(RowsOf(p), state)' <=> EndsIn(RowsOf(p), state)
      /\ \A p, k, state : EndsIn(EarlierRows(p, k), state)' <=> EndsIn(EarlierRows(p, k), state)
  BY <1>1, <1>2 DEF EndsIn
<1> SUFFICES ASSUME NEW p \in Profiles
             PROVE  /\ IF RowsOf(p)' = {} THEN registry'[p].state = "none"
                       ELSE EndsIn(RowsOf(p), registry[p].state)'
                    /\ \A k \in RowsOf(p)' :
                         LET step == <<transitions'[k].from, transitions'[k].to>> IN
                         IF EarlierRows(p, k)' = {} THEN step = <<"none", "candidate">>
                         ELSE step \in ValidTransitions /\ EndsIn(EarlierRows(p, k), transitions[k].from)'
                    /\ registry'[p].state \in Live => Complete(p)'
                    /\ registry'[p].state = "full" => registry'[p].paper30 /\ p \in enough'
  BY DEF HistoryIsLegal, ValidTransitions, Live
<1> QED  BY <1>1, <1>2, <1>3 DEF HistoryIsLegal, Complete

\* One profile moves along the diagram.
LEMMA HistoryGrows ==
  ASSUME TypeInv, HistoryIsLegal, NEW p \in Profiles, NEW to \in States,
         registry' = [registry EXCEPT ![p].state = to],
         transitions' = Append(transitions, Row(p, registry[p].state, to)), UNCHANGED enough,
         IF registry[p].state = "none" THEN to = "candidate"
         ELSE <<registry[p].state, to>> \in ValidTransitions,
         to \in Live => Complete(p),
         to = "full" => registry[p].paper30 /\ p \in enough
  PROVE  HistoryIsLegal'
<1> DEFINE from == registry[p].state
<1>0. PICK new \in Nat : new = Len(transitions) + 1
  BY DEF TypeInv
<1>1. /\ Len(transitions) \in Nat /\ DOMAIN transitions = 1..Len(transitions)
      /\ DOMAIN transitions' = 1..new
      /\ \A k \in DOMAIN transitions : transitions'[k] = transitions[k]
      /\ transitions'[new] =
           [profile |-> p, from |-> from, to |-> to, quarter |-> quarter, run |-> judge.run]
  BY <1>0, RowAppended DEF TypeInv, RegistryType
<1>2. /\ transitions'[new].profile = p /\ transitions'[new].from = from
      /\ transitions'[new].to = to
  BY <1>1
<1>3. new \in Nat /\ new \in DOMAIN transitions' /\ new \notin DOMAIN transitions
      /\ DOMAIN transitions' = DOMAIN transitions \cup {new}
      /\ \A k \in DOMAIN transitions : k \in Nat /\ k < new
  BY <1>0, <1>1
<1>4. \A q : RowsOf(q)' = IF q = p THEN RowsOf(q) \cup {new} ELSE RowsOf(q)
  BY <1>1, <1>2, <1>3 DEF RowsOf
<1>5. ASSUME NEW q, NEW k \in DOMAIN transitions
      PROVE  EarlierRows(q, k)' = EarlierRows(q, k)
  <2>1. ~(new < k)
    BY <1>3
  <2> QED  BY <1>4, <2>1 DEF EarlierRows
<1>6. EarlierRows(p, new)' = RowsOf(p)
  BY <1>3, <1>4 DEF EarlierRows, RowsOf
<1>7. ASSUME NEW q, NEW state
      PROVE  /\ q # p => (EndsIn(RowsOf(q), state)' <=> EndsIn(RowsOf(q), state))
             /\ \A k \in DOMAIN transitions :
                  EndsIn(EarlierRows(q, k), state)' <=> EndsIn(EarlierRows(q, k), state)
             /\ EndsIn(EarlierRows(p, new), state)' <=> EndsIn(RowsOf(p), state)
  <2>1. RowsOf(q) \subseteq DOMAIN transitions /\ RowsOf(p) \subseteq DOMAIN transitions
        /\ \A k : EarlierRows(q, k) \subseteq DOMAIN transitions
    BY DEF RowsOf, EarlierRows
  <2>2. q # p => (EndsIn(RowsOf(q), state)' <=> EndsIn(RowsOf(q), state))
    BY <1>1, <1>4, <2>1 DEF EndsIn
  <2>3. \A k \in DOMAIN transitions :
          EndsIn(EarlierRows(q, k), state)' <=> EndsIn(EarlierRows(q, k), state)
    BY <1>1, <1>5, <2>1 DEF EndsIn
  <2>4. EndsIn(EarlierRows(p, new), state)' <=> EndsIn(RowsOf(p), state)
    BY <1>1, <1>6, <2>1 DEF EndsIn
  <2> QED  BY <2>2, <2>3, <2>4
<1>8. EndsIn(RowsOf(p), to)'
  BY <1>2, <1>3, <1>4 DEF EndsIn, RowsOf
<1>9. from = "none" <=> RowsOf(p) = {}
  <2>1. ASSUME RowsOf(p) # {}, from = "none" PROVE FALSE
    <3>1. PICK k \in RowsOf(p) : transitions[k].to = "none"
      BY <2>1 DEF HistoryIsLegal, EndsIn
    <3>2. \/ <<transitions[k].from, transitions[k].to>> = <<"none", "candidate">>
          \/ <<transitions[k].from, transitions[k].to>> \in ValidTransitions
      BY DEF HistoryIsLegal
    <3> QED  BY <3>1, <3>2 DEF ValidTransitions
  <2> QED  BY <2>1 DEF HistoryIsLegal
<1>10. /\ registry'[p].state = to
       /\ registry'[p].backtest = registry[p].backtest /\ registry'[p].oos = registry[p].oos
       /\ registry'[p].paper30 = registry[p].paper30
       /\ \A q \in Profiles : q # p => registry'[q] = registry[q]
  BY DEF TypeInv, RegistryType
<1>11. /\ Complete(p)' <=> Complete(p)
       /\ \A q \in Profiles : q # p => (Complete(q)' <=> Complete(q))
  BY <1>10 DEF Complete
<1>12. ASSUME NEW q \in Profiles, NEW k \in RowsOf(q)'
       PROVE  LET step == <<transitions'[k].from, transitions'[k].to>> IN
              IF EarlierRows(q, k)' = {} THEN step = <<"none", "candidate">>
              ELSE step \in ValidTransitions /\ EndsIn(EarlierRows(q, k), transitions[k].from)'
  <2>1. CASE k \in RowsOf(q)
    <3>1. k \in DOMAIN transitions /\ transitions'[k] = transitions[k]
      BY <1>1, <2>1 DEF RowsOf
    <3>2. IF EarlierRows(q, k) = {}
            THEN <<transitions[k].from, transitions[k].to>> = <<"none", "candidate">>
            ELSE <<transitions[k].from, transitions[k].to>> \in ValidTransitions
                 /\ EndsIn(EarlierRows(q, k), transitions[k].from)
      BY <2>1 DEF HistoryIsLegal, ValidTransitions
    <3>3. EarlierRows(q, k)' = EarlierRows(q, k)
      BY <1>5, <3>1
    <3>4. EndsIn(EarlierRows(q, k), transitions[k].from)'
          <=> EndsIn(EarlierRows(q, k), transitions[k].from)
      BY <1>1, <3>1, <3>3 DEF EndsIn, EarlierRows, RowsOf
    <3> QED  BY <3>1, <3>2, <3>3, <3>4
  <2>2. CASE q = p /\ k = new
    <3>1. EarlierRows(q, k)' = RowsOf(p)
      BY <1>6, <2>2
    <3>2. RowsOf(p) # {} => EndsIn(RowsOf(p), from)
      BY DEF HistoryIsLegal
    <3>3. RowsOf(p) # {} => EndsIn(EarlierRows(q, k), transitions[k].from)'
      BY <1>1, <1>2, <2>2, <3>1, <3>2 DEF EndsIn, RowsOf
    <3> QED  BY <1>2, <1>9, <2>2, <3>1, <3>3
  <2> QED  BY <1>4, <2>1, <2>2
<1>13. ASSUME NEW q \in Profiles
       PROVE  IF RowsOf(q)' = {} THEN registry'[q].state = "none"
              ELSE EndsIn(RowsOf(q), registry[q].state)'
  <2>1. CASE q = p
    <3>1. RowsOf(q)' # {}
      BY <1>4, <2>1
    <3>2. EndsIn(RowsOf(q), registry[q].state)'
      BY <1>8, <1>10, <2>1
    <3> QED  BY <3>1, <3>2
  <2>2. CASE q # p
    <3>1. RowsOf(q)' = RowsOf(q) /\ registry'[q] = registry[q]
      BY <1>4, <1>10, <2>2
    <3>2. IF RowsOf(q) = {} THEN registry[q].state = "none"
          ELSE EndsIn(RowsOf(q), registry[q].state)
      BY DEF HistoryIsLegal
    <3>3. EndsIn(RowsOf(q), registry[q].state) => EndsIn(RowsOf(q), registry[q].state)'
      BY <1>1, <3>1 DEF EndsIn, RowsOf
    <3> QED  BY <3>1, <3>2, <3>3
  <2> QED  BY <2>1, <2>2
<1>14. \A q \in Profiles :
         /\ registry'[q].state \in Live => Complete(q)'
         /\ registry'[q].state = "full" => registry'[q].paper30 /\ q \in enough'
  BY <1>10, <1>11 DEF HistoryIsLegal
<1> QED  BY <1>12, <1>13, <1>14 DEF HistoryIsLegal, ValidTransitions, Live

LEMMA HistoryStep ==
  ASSUME TypeInv, RunInv, HistoryIsLegal, [Next]_vars
  PROVE  HistoryIsLegal'
<1> USE DEF JudgeOnly
<1>0. judge.todo # {} => Current \in Profiles
  BY CurrentIsFirst DEF TypeInv, JudgeState
<1>1. CASE \/ HoldUnjudged \/ HoldOnProbation \/ HoldFull \/ RetireKill \/ KeepQueued
           \/ RecordDecision \/ CloseRun \/ Crash \/ UNCHANGED vars
  <2>1. UNCHANGED <<registry, transitions, enough>>
    BY <1>1 DEF HoldUnjudged, HoldOnProbation, HoldFull, RetireKill, KeepQueued,
                RecordDecision, CloseRun, Crash, vars
  <2> QED  BY <2>1, HistoryStays
<1>2. CASE RunStart
  <2>1. UNCHANGED <<registry, transitions>> /\ enough \subseteq enough'
    BY <1>2 DEF RunStart
  <2> QED  BY <2>1, HistoryStays
<1>3. CASE ConfirmPaper30
  <2>1. /\ registry' = [registry EXCEPT ![Current].paper30 = TRUE]
        /\ UNCHANGED <<transitions, enough>>
    BY <1>3 DEF ConfirmPaper30
  <2>2. \A p \in Profiles :
          /\ registry'[p].state = registry[p].state
          /\ registry[p].backtest => registry'[p].backtest
          /\ registry[p].oos => registry'[p].oos
          /\ registry[p].paper30 => registry'[p].paper30
    BY <2>1 DEF TypeInv, RegistryType
  <2> QED  BY <2>1, <2>2, HistoryStays
<1>4. CASE \E p \in Profiles : StampBacktest(p) \/ StampOos(p)
  <2>1. PICK p \in Profiles : \/ registry' = [registry EXCEPT ![p].backtest = TRUE]
                              \/ registry' = [registry EXCEPT ![p].oos = TRUE]
    BY <1>4 DEF StampBacktest, StampOos
  <2>2. UNCHANGED <<transitions, enough>>
    BY <1>4 DEF StampBacktest, StampOos, Stamp
  <2>3. \A q \in Profiles :
          /\ registry'[q].state = registry[q].state
          /\ registry[q].backtest => registry'[q].backtest
          /\ registry[q].oos => registry'[q].oos
          /\ registry[q].paper30 => registry'[q].paper30
    <3>1. CASE registry' = [registry EXCEPT ![p].backtest = TRUE]
      BY <3>1 DEF TypeInv, RegistryType
    <3>2. CASE registry' = [registry EXCEPT ![p].oos = TRUE]
      BY <3>2 DEF TypeInv, RegistryType
    <3> QED  BY <2>1, <3>1, <3>2
  <2> QED  BY <2>2, <2>3, HistoryStays
<1>5. CASE \E p \in Profiles : Register(p)
  <2>1. PICK p \in Profiles : Register(p)
    BY <1>5
  <2>2. /\ registry[p].state = "none" /\ registry' = [registry EXCEPT ![p].state = "candidate"]
        /\ transitions' = Append(transitions, Row(p, registry[p].state, "candidate"))
        /\ UNCHANGED enough
    BY <2>1 DEF Register
  <2>3. "candidate" \in States /\ "candidate" \notin Live
    BY DEF States, Live
  <2> QED  BY <2>2, <2>3, HistoryGrows
<1>6. CASE PromoteToFull
  <2>1. /\ Current \in Profiles /\ Current \in judge.clears /\ registry[Current].paper30
        /\ registry[Current].state = "probation"
        /\ Transition(Current, "full") /\ UNCHANGED enough
    BY <1>0, <1>6 DEF PromoteToFull, At, CanTransition, ValidTransitions
  <2>2. InRun
    BY <1>6 DEF PromoteToFull, At, InRun
  <2>3. Current \in enough /\ Complete(Current)
    BY <2>1, <2>2 DEF RunInv, HistoryIsLegal, Live
  <2> QED  BY <2>1, <2>3, HistoryGrows DEF Transition, States, Live, ValidTransitions
<1>7. CASE Retire
  <2>1. /\ Current \in Profiles /\ CanTransition(Current, "retired")
        /\ Transition(Current, "retired") /\ UNCHANGED enough
    BY <1>0, <1>7 DEF Retire, JudgeFull, At
  <2>2. registry[Current].state # "none"
        /\ <<registry[Current].state, "retired">> \in ValidTransitions
    BY <2>1 DEF CanTransition, ValidTransitions
  <2>3. "retired" \in States /\ "retired" \notin Live
    BY DEF States, Live
  <2> QED  BY <2>1, <2>2, <2>3, HistoryGrows DEF Transition
<1>8. CASE Admit
  <2>1. /\ Current \in Profiles /\ CanTransition(Current, "probation")
        /\ Transition(Current, "probation") /\ Complete(Current) /\ UNCHANGED enough
    BY <1>0, <1>8 DEF Admit, At
  <2>2. registry[Current].state # "none"
    BY <2>1 DEF CanTransition, ValidTransitions
  <2> QED  BY <2>1, <2>2, HistoryGrows DEF Transition, CanTransition, States, Live
<1> QED  BY <1>1, <1>2, <1>3, <1>4, <1>5, <1>6, <1>7, <1>8 DEF Next, JudgeStep

\* A profile's rows lead from its registration to the state it is in and no
\* stage is skipped, for any number of profiles, runs, deaths and registrations.
THEOREM HistoriesAreLegal == Spec => []HistoryIsLegal
<1>1. Init => TypeInv /\ RunInv /\ HistoryIsLegal
  BY TypeInit, RunInit, HistoryInit
<1>2. TypeInv /\ RunInv /\ HistoryIsLegal /\ [Next]_vars => (TypeInv /\ RunInv /\ HistoryIsLegal)'
  BY TypeStep, RunStep, HistoryStep
<1> QED  BY <1>1, <1>2, PTL DEF Spec

-----------------------------------------------------------------------------
(* Demotions.                                                               *)

\* A demotion whose earlier decisions stay what they were stays sustained.
LEMMA StillSustained ==
  ASSUME NEW t, EarlierDecisions(t)' = EarlierDecisions(t),
         \A d \in EarlierDecisions(t) : decisions'[d] = decisions[d],
         EndsInStrikes(EarlierDecisions(t), Sustain - 1)
  PROVE  EndsInStrikes(EarlierDecisions(t), Sustain - 1)'
BY DEF EndsInStrikes

LEMMA DemotionStays ==
  ASSUME DemotionWasSustained, UNCHANGED decisions,
         \A k \in DOMAIN transitions' :
           \/ k \in DOMAIN transitions /\ transitions'[k] = transitions[k]
           \/ transitions'[k].to # "retired"
  PROVE  DemotionWasSustained'
<1>1. SUFFICES ASSUME NEW k \in DOMAIN transitions', NEW t, t = transitions'[k], t.to = "retired"
               PROVE  EndsInStrikes(EarlierDecisions(t), Sustain - 1)'
  BY DEF DemotionWasSustained
<1>2. EarlierDecisions(t)' = EarlierDecisions(t)
  BY DEF EarlierDecisions, DecisionsOf
<1>3. EndsInStrikes(EarlierDecisions(t), Sustain - 1)
  BY <1>1 DEF DemotionWasSustained
<1> QED  BY <1>2, <1>3, StillSustained

\* The decisions of the runs before this one.
LEMMA DecidedEarlier ==
  ASSUME TypeInv, RunInv, judge.pc = "judge"
  PROVE  \A d \in DOMAIN decisions : decisions[d].run < judge.run
<1>1. judge.run = Len(runs) /\ \A d \in DOMAIN decisions : decisions[d].run # judge.run
  BY DEF RunInv, InRun
<1>2. \A d \in DOMAIN decisions : decisions[d].run \in 1..Len(runs)
  BY RowTypes DEF RunInv
<1>3. Len(runs) \in Nat
  BY RowTypes
<1> QED  BY <1>1, <1>2, <1>3

\* A streak is made of the latest decisions.
LEMMA StreakIsLatest ==
  ASSUME TypeInv, NEW p
  PROVE  /\ Streak(p) \in SUBSET DecisionsOf(p) /\ PriorStrikes(p) \in Nat
         /\ \A d \in DecisionsOf(p) : \A s \in Streak(p) :
              d >= s => d \in Streak(p) /\ decisions[d].strike
<1>1. Streak(p) \in SUBSET DecisionsOf(p)
  BY DEF Streak
<1>2. DecisionsOf(p) \in SUBSET (1..Len(decisions)) /\ Len(decisions) \in Nat
  BY RowTypes DEF DecisionsOf
<1>3. PriorStrikes(p) \in Nat
  <2>1. IsFiniteSet(1..Len(decisions)) /\ Streak(p) \in SUBSET (1..Len(decisions))
    BY <1>1, <1>2, FS_Interval
  <2> QED  BY <2>1, FS_Subset, FS_CardinalityType DEF PriorStrikes
<1>4. ASSUME NEW d \in DecisionsOf(p), NEW s \in Streak(p), d >= s
      PROVE  d \in Streak(p) /\ decisions[d].strike
  <2>1. \A j \in DecisionsOf(p) : j \in Nat
    BY <1>2
  <2>2. \A j \in DecisionsOf(p) : j >= s => decisions[j].strike
    BY DEF Streak
  <2>3. d \in Nat /\ s \in Nat
    BY <1>1, <2>1
  <2>4. \A j \in DecisionsOf(p) : j >= d => decisions[j].strike
    BY <1>4, <2>1, <2>2, <2>3
  <2> QED  BY <1>4, <2>2, <2>4 DEF Streak
<1> QED  BY <1>1, <1>3, <1>4

LEMMA DemotionMade ==
  ASSUME TypeInv, RunInv, DemotionWasSustained, Current \in Profiles, judge.pc = "judge",
         Transition(Current, "retired"), UNCHANGED decisions,
         PriorStrikes(Current) + 1 >= Sustain
  PROVE  DemotionWasSustained'
<1>1. registry[Current].state \in States
  BY DEF TypeInv, RegistryType
<1>2. PICK p \in Profiles, run \in Nat : p = Current /\ run = judge.run
  BY DEF TypeInv, JudgeState
<1>3. /\ Len(transitions) \in Nat /\ DOMAIN transitions = 1..Len(transitions)
      /\ DOMAIN transitions' = 1..(Len(transitions) + 1)
      /\ \A k \in DOMAIN transitions : transitions'[k] = transitions[k]
      /\ transitions'[Len(transitions) + 1] =
           [profile |-> Current, from |-> registry[Current].state, to |-> "retired",
            quarter |-> quarter, run |-> judge.run]
  BY <1>1, RowAppended DEF Transition, States
<1>4. \A d \in DOMAIN decisions : decisions[d].run < run
  BY <1>2, DecidedEarlier
<1>5. transitions'[Len(transitions) + 1].profile = p /\ transitions'[Len(transitions) + 1].run = run
  BY <1>2, <1>3
<1>6. SUFFICES ASSUME NEW k \in DOMAIN transitions', NEW t, t = transitions'[k], t.to = "retired"
               PROVE  EndsInStrikes(EarlierDecisions(t), Sustain - 1)'
  BY DEF DemotionWasSustained
<1>7. EarlierDecisions(t)' = EarlierDecisions(t)
  BY DEF EarlierDecisions, DecisionsOf
<1>8. EndsInStrikes(EarlierDecisions(t), Sustain - 1)
  <2>1. CASE k \in DOMAIN transitions
    BY <1>3, <1>6, <2>1 DEF DemotionWasSustained
  <2>2. CASE k = Len(transitions) + 1
    <3>1. EarlierDecisions(t) = DecisionsOf(p)
      BY <1>4, <1>5, <1>6, <2>2 DEF EarlierDecisions, DecisionsOf
    <3>2. Cardinality(Streak(p)) >= Sustain - 1
      BY <1>2, StreakIsLatest, TournamentAssumption DEF PriorStrikes
    <3> QED  BY <3>1, <3>2, StreakIsLatest DEF EndsInStrikes
  <2> QED  BY <1>3, <1>6, <2>1, <2>2
<1> QED  BY <1>7, <1>8, StillSustained

LEMMA DemotionStep ==
  ASSUME TypeInv, RunInv, DemotionWasSustained, [Next]_vars
  PROVE  DemotionWasSustained'
<1> USE DEF JudgeOnly
<1>0. judge.todo # {} => Current \in Profiles
  BY CurrentIsFirst DEF TypeInv, JudgeState
<1>1. CASE \/ RunStart \/ HoldUnjudged \/ HoldOnProbation \/ HoldFull \/ RetireKill \/ KeepQueued
           \/ ConfirmPaper30 \/ CloseRun \/ Crash \/ UNCHANGED vars
           \/ \E p \in Profiles : StampBacktest(p) \/ StampOos(p)
  <2>1. UNCHANGED <<transitions, decisions>>
    BY <1>1 DEF RunStart, HoldUnjudged, HoldOnProbation, HoldFull, RetireKill, KeepQueued,
                ConfirmPaper30, CloseRun, Crash, vars, StampBacktest, StampOos, Stamp
  <2> QED  BY <2>1, DemotionStays
<1>2. CASE PromoteToFull \/ Admit \/ \E p \in Profiles : Register(p)
  <2>1. PICK p \in Profiles, from \in States, to \in States \ {"retired"} :
          transitions' = Append(transitions, Row(p, from, to)) /\ UNCHANGED decisions
    <3>1. CASE PromoteToFull \/ Admit
      <4>1. Current \in Profiles /\ registry[Current].state \in States
        BY <1>0, <3>1 DEF PromoteToFull, Admit, At, TypeInv, RegistryType
      <4> QED  BY <3>1, <4>1 DEF PromoteToFull, Admit, Transition, States, Live
    <3>2. CASE \E p \in Profiles : Register(p)
      BY <3>2 DEF Register, States
    <3> QED  BY <1>2, <3>1, <3>2
  <2>2. \A k \in DOMAIN transitions' :
          \/ k \in DOMAIN transitions /\ transitions'[k] = transitions[k]
          \/ transitions'[k].to # "retired"
    <3>1. /\ Len(transitions) \in Nat /\ DOMAIN transitions = 1..Len(transitions)
          /\ DOMAIN transitions' = 1..(Len(transitions) + 1)
          /\ \A k \in DOMAIN transitions : transitions'[k] = transitions[k]
          /\ transitions'[Len(transitions) + 1] =
               [profile |-> p, from |-> from, to |-> to, quarter |-> quarter, run |-> judge.run]
      BY <2>1, RowAppended
    <3>2. transitions'[Len(transitions) + 1].to = to
      BY <3>1
    <3> QED  BY <3>1, <3>2
  <2> QED  BY <2>1, <2>2, DemotionStays
<1>3. CASE Retire
  BY <1>0, <1>3, DemotionMade DEF Retire, JudgeFull, At
<1>4. CASE RecordDecision
  <2>1. /\ UNCHANGED transitions /\ judge.pc = "record" /\ judge.made # <<>>
        /\ decisions' = Append(decisions, Head(judge.made))
    BY <1>4 DEF RecordDecision
  <2>2. judge.made \in Seq(DecisionRow) /\ decisions \in Seq(DecisionRow)
    BY DEF TypeInv, JudgeState
  <2>3. 1 \in DOMAIN judge.made /\ Head(judge.made) = judge.made[1]
        /\ judge.made[1] \in DecisionRow
    BY <2>1, <2>2
  <2>4. judge.made[1].run = Len(runs)
    BY <2>1, <2>3 DEF RunInv, InRun
  <2>5. /\ DOMAIN decisions = 1..Len(decisions) /\ Len(decisions) \in Nat
        /\ DOMAIN decisions' = 1..(Len(decisions) + 1)
        /\ \A d \in DOMAIN decisions : decisions'[d] = decisions[d]
        /\ decisions'[Len(decisions) + 1] = judge.made[1]
    BY <2>1, <2>2, <2>3
  <2>6. SUFFICES ASSUME NEW k \in DOMAIN transitions, NEW t, t = transitions[k], t.to = "retired"
                 PROVE  EndsInStrikes(EarlierDecisions(t), Sustain - 1)'
    BY <2>1 DEF DemotionWasSustained
  <2>7. ~(decisions'[Len(decisions) + 1].run < t.run)
    <3>1. t.run <= Len(runs) /\ t.run \in Nat /\ Len(runs) \in Nat
      BY <2>6, RowTypes DEF RunInv
    <3> QED  BY <2>4, <2>5, <3>1
  <2>8. EarlierDecisions(t)' = EarlierDecisions(t)
    BY <2>5, <2>7 DEF EarlierDecisions, DecisionsOf
  <2>9. \A d \in EarlierDecisions(t) : decisions'[d] = decisions[d]
    BY <2>5 DEF EarlierDecisions, DecisionsOf
  <2>10. EndsInStrikes(EarlierDecisions(t), Sustain - 1)
    BY <2>6 DEF DemotionWasSustained
  <2> QED  BY <2>8, <2>9, <2>10, StillSustained
<1> QED  BY <1>1, <1>2, <1>3, <1>4 DEF Next, JudgeStep

\* Whoever was demoted had struck out in the evaluations before, however many
\* of them and whatever runs died in between.
THEOREM DemotionsAreSustained == Spec => []DemotionWasSustained
<1>1. Init => TypeInv /\ RunInv /\ DemotionWasSustained
  <2> SUFFICES ASSUME Init PROVE DemotionWasSustained
    BY TypeInit, RunInit
  <2>1. \A k \in DOMAIN transitions : transitions[k].to # "retired"
    <3> TAKE k \in DOMAIN transitions
    <3>1. \E i : \/ transitions[k] = OfRoster(i, "none", "candidate", 0)
                 \/ transitions[k] = OfRoster(i, "candidate", "probation", 1)
                 \/ transitions[k] = OfRoster(i, "probation", "full", 2)
      BY InitialBlocks
    <3> QED  BY <3>1 DEF OfRoster
  <2> QED  BY <2>1 DEF DemotionWasSustained
<1>2. TypeInv /\ RunInv /\ DemotionWasSustained /\ [Next]_vars
        => (TypeInv /\ RunInv /\ DemotionWasSustained)'
  BY TypeStep, RunStep, DemotionStep
<1> QED  BY <1>1, <1>2, PTL DEF Spec

-----------------------------------------------------------------------------
(* The caps.                                                                *)

\* A profile is admitted from the queue and in no later quarter than this one,
\* so that an admission is counted by both caps.
AdmissionsInv ==
  \A k \in DOMAIN transitions :
    /\ transitions[k].quarter <= quarter
    /\ transitions[k].to = "probation" => transitions[k].from = "candidate"

LEMMA RosterFinite ==
  ASSUME NEW S
  PROVE  IsFiniteSet(InState(S)) /\ Cardinality(InState(S)) \in Nat
<1>1. InState(S) \in SUBSET Profiles
  BY DEF InState
<1>2. IsFiniteSet(InState(S))
  BY <1>1, TournamentAssumption, FS_Subset
<1> QED  BY <1>2, FS_CardinalityType

LEMMA AdmittedFinite ==
  ASSUME TypeInv, NEW q
  PROVE  IsFiniteSet(AdmittedIn(q)) /\ Cardinality(AdmittedIn(q)) \in Nat
<1>1. AdmittedIn(q) \in SUBSET (1..Len(transitions)) /\ Len(transitions) \in Nat
  BY RowTypes DEF AdmittedIn
<1>2. IsFiniteSet(1..Len(transitions))
  BY <1>1, FS_Interval
<1>3. IsFiniteSet(AdmittedIn(q))
  BY <1>1, <1>2, FS_Subset
<1> QED  BY <1>3, FS_CardinalityType

\* What the code counts is what the cap is about.
LEMMA EntrantsAreAdmissions ==
  ASSUME TypeInv, AdmissionsInv
  PROVE  EntrantsThisQuarter = Cardinality(AdmittedIn(quarter))
<1>1. \A k \in DOMAIN transitions : transitions[k].quarter \in Nat
  BY RowTypes
<1>2. quarter \in Nat
  BY DEF TypeInv
<1>3. AdmittedIn(quarter) = {k \in DOMAIN transitions :
                               Admission(k) /\ transitions[k].quarter >= quarter}
  BY <1>1, <1>2 DEF AdmittedIn, Admission, AdmissionsInv
<1> QED  BY <1>3 DEF EntrantsThisQuarter

LEMMA CapsInit ==
  ASSUME Init
  PROVE  AdmissionsInv /\ CapsHold
<1> DEFINE n == Len(Roster)
<1>1. n \in Nat /\ DOMAIN Roster = 1..n
  BY InitialRows
<1>2. \A k \in DOMAIN transitions :
        /\ transitions[k].quarter = 0
        /\ transitions[k].to = "probation" =>
             transitions[k].from = "candidate" /\ k \in (n + 1)..(2 * n)
  <2> TAKE k \in DOMAIN transitions
  <2>1. \E i : \/ transitions[k] = OfRoster(i, "none", "candidate", 0)
               \/ /\ k \in (n + 1)..(2 * n)
                  /\ transitions[k] = OfRoster(i, "candidate", "probation", 1)
               \/ transitions[k] = OfRoster(i, "probation", "full", 2)
    BY InitialBlocks
  <2> QED  BY <2>1 DEF OfRoster
<1>3. ASSUME NEW q
      PROVE  Cardinality(AdmittedIn(q)) <= MaxEntrants
  <2> HIDE DEF n
  <2>1. AdmittedIn(q) \in SUBSET ((n + 1)..(2 * n))
    BY <1>2 DEF AdmittedIn
  <2>2. IsFiniteSet((n + 1)..(2 * n)) /\ Cardinality((n + 1)..(2 * n)) = n
    <3>1. n + 1 \in Int /\ 2 * n \in Int /\ (n + 1 > 2 * n <=> n = 0)
          /\ 2 * n - (n + 1) + 1 = n
      BY <1>1
    <3> QED  BY <1>1, <3>1, FS_Interval
  <2>3. Cardinality(AdmittedIn(q)) <= n /\ Cardinality(AdmittedIn(q)) \in Nat
    BY <2>1, <2>2, FS_Subset, FS_CardinalityType
  <2>4. n <= MaxEntrants /\ MaxEntrants \in Nat
    BY TournamentAssumption DEF n
  <2> QED  BY <1>1, <2>3, <2>4
<1>4. Cardinality(InState(Live)) <= MaxActive
  <2>1. InState(Live) = Promoted
    <3>1. \A p \in Profiles : registry[p].state = IF p \in Promoted THEN "full" ELSE "none"
      BY DEF Init
    <3>2. Promoted \subseteq Profiles
      BY <1>1, InitialRows DEF Promoted
    <3> QED  BY <3>1, <3>2 DEF InState, Live
  <2> QED  BY <2>1, TournamentAssumption
<1>5. quarter = 0
  BY DEF Init
<1> QED  BY <1>2, <1>3, <1>4, <1>5 DEF AdmissionsInv, CapsHold

\* The quarter may begin; nobody moves.
LEMMA NobodyMoves ==
  ASSUME TypeInv, AdmissionsInv, CapsHold, UNCHANGED transitions,
         quarter' \in {quarter, quarter + 1},
         \A p \in Profiles : registry'[p].state = registry[p].state
  PROVE  AdmissionsInv' /\ CapsHold'
<1>1. quarter \in Nat /\ quarter' \in Nat /\ quarter <= quarter'
  BY DEF TypeInv
<1>2. InState(Live)' = InState(Live)
  BY DEF InState, Live
<1>3. \A q : AdmittedIn(q)' = AdmittedIn(q)
  BY DEF AdmittedIn
<1>4. CapsHold'
  BY <1>2, <1>3 DEF CapsHold
<1>5. AdmissionsInv'
  <2>1. \A k \in DOMAIN transitions : transitions[k].quarter \in Nat
    BY RowTypes
  <2> QED  BY <1>1, <2>1 DEF AdmissionsInv
<1> QED  BY <1>4, <1>5

\* One profile moves.
LEMMA AdmissionAppended ==
  ASSUME TypeInv, AdmissionsInv, NEW p \in Profiles, NEW from \in States, NEW to \in States,
         transitions' = Append(transitions, Row(p, from, to)), UNCHANGED quarter,
         to = "probation" => from = "candidate"
  PROVE  /\ AdmissionsInv'
         /\ to # "probation" => \A q : AdmittedIn(q)' = AdmittedIn(q)
         /\ \A q : q # quarter => AdmittedIn(q)' = AdmittedIn(q)
         /\ AdmittedIn(quarter)' \subseteq AdmittedIn(quarter) \cup {Len(transitions) + 1}
<1>1. /\ Len(transitions) \in Nat /\ DOMAIN transitions = 1..Len(transitions)
      /\ DOMAIN transitions' = 1..(Len(transitions) + 1)
      /\ \A k \in DOMAIN transitions : transitions'[k] = transitions[k]
      /\ transitions'[Len(transitions) + 1] =
           [profile |-> p, from |-> from, to |-> to, quarter |-> quarter, run |-> judge.run]
  BY RowAppended
<1>2. PICK new \in Nat : new = Len(transitions) + 1
  BY <1>1
<1>3. /\ DOMAIN transitions' = DOMAIN transitions \cup {new} /\ new \notin DOMAIN transitions
      /\ transitions'[new].from = from /\ transitions'[new].to = to
      /\ transitions'[new].quarter = quarter /\ quarter \in Nat
  BY <1>1, <1>2 DEF TypeInv
<1>4. AdmissionsInv'
  BY <1>1, <1>3 DEF AdmissionsInv
<1>5. to # "probation" => \A q : AdmittedIn(q)' = AdmittedIn(q)
  BY <1>1, <1>3 DEF AdmittedIn
<1>6. \A q : q # quarter => AdmittedIn(q)' = AdmittedIn(q)
  BY <1>1, <1>3 DEF AdmittedIn
<1>7. \A q : AdmittedIn(q)' \subseteq AdmittedIn(q) \cup {new}
  BY <1>1, <1>3 DEF AdmittedIn
<1>8. quarter' = quarter
  OBVIOUS
<1> QED  BY <1>2, <1>4, <1>5, <1>6, <1>7, <1>8

\* No new place is taken.
LEMMA MoveOutside ==
  ASSUME TypeInv, AdmissionsInv, CapsHold, NEW p \in Profiles,
         NEW from \in States, NEW to \in States \ {"probation"},
         transitions' = Append(transitions, Row(p, from, to)), UNCHANGED quarter,
         registry' = [registry EXCEPT ![p].state = to],
         to \in Live => registry[p].state \in Live
  PROVE  AdmissionsInv' /\ CapsHold'
<1>1. AdmissionsInv' /\ \A q : AdmittedIn(q)' = AdmittedIn(q)
  BY AdmissionAppended
<1>2. InState(Live)' \in SUBSET InState(Live)
  BY DEF TypeInv, RegistryType, InState
<1>3. Cardinality(InState(Live)') <= Cardinality(InState(Live)) /\ IsFiniteSet(InState(Live)')
  BY <1>2, RosterFinite, FS_Subset
<1>4. Cardinality(InState(Live)') \in Nat /\ Cardinality(InState(Live)) \in Nat
      /\ MaxActive \in Nat
  BY <1>3, RosterFinite, FS_CardinalityType, TournamentAssumption
<1> QED  BY <1>1, <1>3, <1>4 DEF CapsHold

\* A place is taken when there was room.
LEMMA MoveInside ==
  ASSUME TypeInv, AdmissionsInv, CapsHold, NEW p \in Profiles, Room,
         CanTransition(p, "probation"), Transition(p, "probation"), UNCHANGED quarter
  PROVE  AdmissionsInv' /\ CapsHold'
<1> DEFINE from == registry[p].state
<1>1. from = "candidate" /\ from \in States /\ "probation" \in States
  BY DEF CanTransition, ValidTransitions, States, Live
<1>2. PICK new \in Nat : new = Len(transitions) + 1
  BY RowTypes
<1>3. /\ AdmissionsInv'
      /\ \A q : q # quarter => AdmittedIn(q)' = AdmittedIn(q)
      /\ AdmittedIn(quarter)' \subseteq AdmittedIn(quarter) \cup {new}
  BY <1>1, <1>2, AdmissionAppended DEF Transition
<1>4. Cardinality(InState(Live)') <= MaxActive
  <2>1. InState(Live)' \in SUBSET (InState(Live) \cup {p})
    BY DEF TypeInv, RegistryType, InState, Transition
  <2>2. IsFiniteSet(InState(Live) \cup {p})
        /\ Cardinality(InState(Live) \cup {p}) <= Cardinality(InState(Live)) + 1
    BY RosterFinite, FS_AddElement
  <2>3. Cardinality(InState(Live)') <= Cardinality(InState(Live) \cup {p})
        /\ IsFiniteSet(InState(Live)')
    BY <2>1, <2>2, FS_Subset
  <2>4. Cardinality(InState(Live)) + 1 <= MaxActive
    BY RosterFinite, TournamentAssumption DEF Room, ActiveCount
  <2>5. /\ Cardinality(InState(Live)') \in Nat /\ Cardinality(InState(Live)) \in Nat
        /\ Cardinality(InState(Live) \cup {p}) \in Nat /\ MaxActive \in Nat
    BY <2>2, <2>3, RosterFinite, FS_CardinalityType, TournamentAssumption
  <2> QED  BY <2>2, <2>3, <2>4, <2>5
<1>5. ASSUME NEW q \in 0..LastQuarter
      PROVE  Cardinality(AdmittedIn(q)') <= MaxEntrants
  <2>1. CASE q # quarter
    <3>1. AdmittedIn(q)' = AdmittedIn(q)
      BY <1>3, <2>1
    <3> QED  BY <3>1 DEF CapsHold
  <2>2. CASE q = quarter
    <3>1. AdmittedIn(q)' \in SUBSET (AdmittedIn(q) \cup {new})
      BY <1>3, <2>2
    <3>2. Cardinality(AdmittedIn(q)) < MaxEntrants
      BY <2>2, EntrantsAreAdmissions DEF Room
    <3>3. IsFiniteSet(AdmittedIn(q)) /\ Cardinality(AdmittedIn(q)) \in Nat
      BY AdmittedFinite
    <3>4. /\ IsFiniteSet(AdmittedIn(q) \cup {new})
          /\ Cardinality(AdmittedIn(q) \cup {new}) <= Cardinality(AdmittedIn(q)) + 1
          /\ Cardinality(AdmittedIn(q) \cup {new}) \in Nat
      BY <3>3, FS_AddElement, FS_CardinalityType
    <3>5. /\ Cardinality(AdmittedIn(q)') <= Cardinality(AdmittedIn(q) \cup {new})
          /\ Cardinality(AdmittedIn(q)') \in Nat
      BY <3>1, <3>4, FS_Subset, FS_CardinalityType
    <3> QED  BY <3>2, <3>3, <3>4, <3>5, TournamentAssumption
  <2> QED  BY <2>1, <2>2
<1> QED  BY <1>3, <1>4, <1>5 DEF CapsHold

LEMMA CapsStep ==
  ASSUME TypeInv, AdmissionsInv, CapsHold, [Next]_vars
  PROVE  AdmissionsInv' /\ CapsHold'
<1> USE DEF JudgeOnly
<1>0. judge.todo # {} => Current \in Profiles /\ registry[Current].state \in States
  BY CurrentIsFirst DEF TypeInv, JudgeState, RegistryType
<1>1. CASE \/ HoldUnjudged \/ HoldOnProbation \/ HoldFull \/ RetireKill \/ KeepQueued
           \/ RecordDecision \/ CloseRun \/ Crash \/ UNCHANGED vars
  <2>1. UNCHANGED <<registry, transitions, quarter>>
    BY <1>1 DEF HoldUnjudged, HoldOnProbation, HoldFull, RetireKill, KeepQueued,
                RecordDecision, CloseRun, Crash, vars
  <2> QED  BY <2>1, NobodyMoves
<1>2. CASE RunStart
  BY <1>2, NobodyMoves DEF RunStart
<1>3. CASE ConfirmPaper30
  <2>1. registry' = [registry EXCEPT ![Current].paper30 = TRUE]
        /\ UNCHANGED <<transitions, quarter>>
    BY <1>3 DEF ConfirmPaper30
  <2>2. \A p \in Profiles : registry'[p].state = registry[p].state
    BY <2>1 DEF TypeInv, RegistryType
  <2> QED  BY <2>1, <2>2, NobodyMoves
<1>4. CASE \E p \in Profiles : StampBacktest(p) \/ StampOos(p)
  <2>1. PICK p \in Profiles : \/ registry' = [registry EXCEPT ![p].backtest = TRUE]
                              \/ registry' = [registry EXCEPT ![p].oos = TRUE]
    BY <1>4 DEF StampBacktest, StampOos
  <2>2. UNCHANGED <<transitions, quarter>>
    BY <1>4 DEF StampBacktest, StampOos, Stamp
  <2>3. \A q \in Profiles : registry'[q].state = registry[q].state
    <3>1. CASE registry' = [registry EXCEPT ![p].backtest = TRUE]
      BY <3>1 DEF TypeInv, RegistryType
    <3>2. CASE registry' = [registry EXCEPT ![p].oos = TRUE]
      BY <3>2 DEF TypeInv, RegistryType
    <3> QED  BY <2>1, <3>1, <3>2
  <2> QED  BY <2>2, <2>3, NobodyMoves
<1>5. CASE \E p \in Profiles : Register(p)
  BY <1>5, MoveOutside DEF Register, States, Live
<1>6. CASE PromoteToFull
  <2>1. registry[Current].state = "probation"
    BY <1>6 DEF PromoteToFull, CanTransition, ValidTransitions
  <2> QED  BY <1>0, <1>6, <2>1, MoveOutside DEF PromoteToFull, At, Transition, States, Live
<1>7. CASE Retire
  BY <1>0, <1>7, MoveOutside DEF Retire, JudgeFull, At, Transition, States, Live
<1>8. CASE Admit
  BY <1>0, <1>8, MoveInside DEF Admit, At
<1> QED  BY <1>1, <1>2, <1>3, <1>4, <1>5, <1>6, <1>7, <1>8 DEF Next, JudgeStep

\* The roster never outgrows its cap and no quarter admits more than its share,
\* whatever the caps, the number of strategies and the points at which runs die.
THEOREM CapsAlwaysHold == Spec => []CapsHold
<1>1. Init => TypeInv /\ AdmissionsInv /\ CapsHold
  BY TypeInit, CapsInit
<1>2. TypeInv /\ AdmissionsInv /\ CapsHold /\ [Next]_vars => (TypeInv /\ AdmissionsInv /\ CapsHold)'
  BY TypeStep, CapsStep
<1> QED  BY <1>1, <1>2, PTL DEF Spec

-----------------------------------------------------------------------------
(* Freed slots.                                                             *)

\* A candidate the run has passed over is in the queue for want of room, and
\* from there on the run only comes to candidates, who take places only where
\* there is room.
Waiting == \E p \in judge.complete \ judge.todo : registry[p].state = "candidate"
QueueInv == InRun /\ Waiting => ~Room /\ \A q \in judge.todo : ~WasLive(q)

\* What only adds evidence makes no room and puts nobody into the queue.
LEMMA QueueStays ==
  ASSUME QueueInv, UNCHANGED <<transitions, quarter>>,
         judge'.complete = judge.complete, judge'.todo = judge.todo, judge'.was = judge.was,
         InRun, \A p \in Profiles : registry'[p].state = registry[p].state,
         judge.complete \subseteq Profiles
  PROVE  QueueInv'
<1>1. Waiting' <=> Waiting
  BY DEF Waiting
<1>2. InState(Live)' = InState(Live)
  BY DEF InState, Live
<1>3. Room' <=> Room
  BY <1>2 DEF Room, ActiveCount, EntrantsThisQuarter, Admission
<1>4. \A q : WasLive(q)' <=> WasLive(q)
  BY DEF WasLive, Live
<1> QED  BY <1>1, <1>3, <1>4 DEF QueueInv

\* The run decides without moving anybody.
LEMMA QueueDecided ==
  ASSUME TypeInv, RunInv, QueueInv, InRun, judge.todo # {},
         UNCHANGED <<registry, transitions, quarter>>,
         NEW what \in Verdicts, NEW strike \in BOOLEAN, Decide(Current, what, strike),
         Current \notin judge.complete \/ ~Room
  PROVE  QueueInv'
<1>1. /\ Current \in judge.todo /\ \A q \in judge.todo \ {Current} : Before(Current, q)
  BY CurrentIsFirst DEF TypeInv, JudgeState
<1>2. /\ judge'.todo = judge.todo \ {Current} /\ judge'.complete = judge.complete
      /\ judge'.was = judge.was
  BY Decided
<1>3. Room' <=> Room
  BY DEF Room, ActiveCount, InState, EntrantsThisQuarter, Admission
<1>4. \A q : WasLive(q)' <=> WasLive(q)
  BY <1>2 DEF WasLive, Live
<1>5. ASSUME Current \in judge.complete
      PROVE  \A q \in judge.todo : ~WasLive(q)
  <2>1. ~WasLive(Current)
    BY <1>5 DEF RunInv, WasLive, Live
  <2> QED  BY <1>1, <2>1 DEF Before
<1>6. Waiting' => Waiting \/ Current \in judge.complete
  BY <1>2 DEF Waiting
<1> QED  BY <1>2, <1>3, <1>4, <1>5, <1>6 DEF QueueInv

\* The run moves the strategy it is at: nobody waits.
LEMMA QueueMoved ==
  ASSUME TypeInv, RunInv, QueueInv, InRun, judge.todo # {}, NEW to \in States \ {"candidate"},
         Transition(Current, to), judge'.complete = judge.complete,
         judge.todo \ {Current} \subseteq judge'.todo, WasLive(Current) \/ Room
  PROVE  QueueInv'
<1>1. Current \in judge.todo /\ Current \in Profiles /\ judge.complete \subseteq Profiles
  BY CurrentIsFirst DEF TypeInv, JudgeState
<1>2. ~Waiting
  BY <1>1 DEF QueueInv
<1>3. /\ registry'[Current].state = to
      /\ \A p \in Profiles : p # Current => registry'[p] = registry[p]
  BY <1>1 DEF Transition, TypeInv, RegistryType
<1>4. ~Waiting'
  BY <1>1, <1>2, <1>3 DEF Waiting
<1> QED  BY <1>4 DEF QueueInv

LEMMA QueueStep ==
  ASSUME TypeInv, RunInv, QueueInv, [Next]_vars
  PROVE  QueueInv'
<1> USE DEF JudgeOnly
<1>0. judge.complete \subseteq Profiles
  BY DEF TypeInv, JudgeState
<1>1. CASE RunStart
  <2>1. judge'.complete \subseteq judge'.todo
    <3>1. /\ judge'.complete = {p \in InState({"candidate"}) : Complete(p)}
          /\ judge'.todo = InState(Live) \cup InState({"candidate"})
      BY <1>1 DEF RunStart
    <3> QED  BY <3>1
  <2>2. ~Waiting'
    BY <2>1 DEF Waiting
  <2> QED  BY <2>2 DEF QueueInv
<1>2. CASE HoldUnjudged \/ HoldOnProbation \/ HoldFull \/ RetireKill
  <2>1. /\ UNCHANGED <<registry, transitions, quarter>> /\ judge.todo # {} /\ InRun
        /\ \E what \in Verdicts, strike \in BOOLEAN : Decide(Current, what, strike)
    BY <1>2 DEF HoldUnjudged, HoldOnProbation, HoldFull, RetireKill, At, JudgeFull, InRun,
                Verdicts, Struck
  <2>2. judge.was[Current] # "candidate"
    BY <1>2 DEF HoldUnjudged, HoldOnProbation, HoldFull, RetireKill, At, JudgeFull, InRun,
                RunInv, Live
  <2>3. Current \notin judge.complete
    BY <2>1, <2>2 DEF RunInv
  <2> QED  BY <2>1, <2>3, QueueDecided
<1>3. CASE KeepQueued
  <2>1. /\ UNCHANGED <<registry, transitions, quarter>> /\ judge.todo # {} /\ InRun
        /\ Decide(Current, "hold", FALSE) /\ (Current \notin judge.complete \/ ~Room)
    BY <1>3 DEF KeepQueued, At, InRun
  <2> QED  BY <2>1, QueueDecided DEF Verdicts
<1>4. CASE ConfirmPaper30
  <2>1. /\ registry' = [registry EXCEPT ![Current].paper30 = TRUE]
        /\ judge' = [judge EXCEPT !.pc = "confirmed"] /\ InRun
        /\ UNCHANGED <<transitions, quarter>>
    BY <1>4 DEF ConfirmPaper30, At, InRun
  <2>2. /\ \A p \in Profiles : registry'[p].state = registry[p].state
        /\ judge'.complete = judge.complete /\ judge'.todo = judge.todo /\ judge'.was = judge.was
    BY <2>1 DEF TypeInv, RegistryType, JudgeState
  <2> QED  BY <1>0, <2>1, <2>2, QueueStays
<1>5. CASE PromoteToFull
  <2>1. /\ judge.todo # {} /\ InRun /\ Transition(Current, "full")
        /\ Decide(Current, "promote", FALSE) /\ judge.pc = "confirmed"
    BY <1>5 DEF PromoteToFull, At, InRun
  <2>2. WasLive(Current)
    BY <2>1 DEF RunInv, WasLive, Live
  <2>3. judge'.complete = judge.complete /\ judge'.todo = judge.todo \ {Current}
    BY <2>1, Decided DEF Verdicts
  <2> QED  BY <2>1, <2>2, <2>3, QueueMoved DEF States, Live
<1>6. CASE Retire
  <2>1. /\ judge.todo # {} /\ InRun /\ Transition(Current, "retired")
        /\ judge' = [judge EXCEPT !.pc = "kill"] /\ judge.was[Current] = "full"
    BY <1>6 DEF Retire, JudgeFull, At, InRun
  <2>2. judge'.complete = judge.complete /\ judge'.todo = judge.todo
    BY <2>1 DEF TypeInv, JudgeState
  <2>3. WasLive(Current)
    BY <2>1 DEF WasLive, Live
  <2> QED  BY <2>1, <2>2, <2>3, QueueMoved DEF States
<1>7. CASE Admit
  <2>1. /\ judge.todo # {} /\ InRun /\ Transition(Current, "probation")
        /\ Decide(Current, "enter", FALSE) /\ Room
    BY <1>7 DEF Admit, At, InRun
  <2>2. judge'.complete = judge.complete /\ judge'.todo = judge.todo \ {Current}
    BY <2>1, Decided DEF Verdicts
  <2> QED  BY <2>1, <2>2, QueueMoved DEF States, Live
<1>8. CASE RecordDecision
  <2>1. /\ UNCHANGED <<registry, transitions, quarter>> /\ InRun
        /\ judge' = [judge EXCEPT !.made = Tail(judge.made)]
    BY <1>8 DEF RecordDecision, InRun
  <2>2. judge'.complete = judge.complete /\ judge'.todo = judge.todo /\ judge'.was = judge.was
    BY <2>1 DEF TypeInv, JudgeState
  <2> QED  BY <1>0, <2>1, <2>2, QueueStays
<1>9. CASE CloseRun \/ Crash
  BY <1>9 DEF CloseRun, Crash, IdleJudge, QueueInv, InRun
<1>10. CASE \E p \in Profiles : Register(p)
  BY <1>10 DEF Register, QueueInv, InRun
<1>11. CASE \E p \in Profiles : StampBacktest(p) \/ StampOos(p)
  <2>1. PICK p \in Profiles : \/ registry' = [registry EXCEPT ![p].backtest = TRUE]
                              \/ registry' = [registry EXCEPT ![p].oos = TRUE]
    BY <1>11 DEF StampBacktest, StampOos
  <2>2. UNCHANGED <<transitions, quarter, judge>>
    BY <1>11 DEF StampBacktest, StampOos, Stamp
  <2>3. \A q \in Profiles : registry'[q].state = registry[q].state
    <3>1. CASE registry' = [registry EXCEPT ![p].backtest = TRUE]
      BY <3>1 DEF TypeInv, RegistryType
    <3>2. CASE registry' = [registry EXCEPT ![p].oos = TRUE]
      BY <3>2 DEF TypeInv, RegistryType
    <3> QED  BY <2>1, <3>1, <3>2
  <2>4. CASE InRun
    BY <1>0, <2>2, <2>3, <2>4, QueueStays
  <2>5. CASE ~InRun
    BY <2>2, <2>5 DEF QueueInv, InRun
  <2> QED  BY <2>4, <2>5
<1>12. CASE UNCHANGED vars
  BY <1>12 DEF vars, QueueInv, InRun, Waiting, Room, ActiveCount, InState,
               EntrantsThisQuarter, Admission, WasLive
<1> QED  BY <1>1, <1>2, <1>3, <1>4, <1>5, <1>6, <1>7, <1>8, <1>9, <1>10, <1>11, <1>12
         DEF Next, JudgeStep

\* When a run has decided on everyone, a candidate whose evidence it saw is in
\* the queue for want of room alone: no slot it freed stays empty.
THEOREM FreedSlotsAreTaken == Spec => []FreedSlotsAreUsed
<1> DEFINE Inv == TypeInv /\ RunInv /\ AdmissionsInv /\ CapsHold /\ QueueInv
<1>1. Init => Inv
  BY TypeInit, RunInit, CapsInit DEF Init, IdleJudge, QueueInv, InRun
<1>2. Inv /\ [Next]_vars => Inv'
  BY TypeStep, RunStep, CapsStep, QueueStep
<1>3. Inv => FreedSlotsAreUsed
  <2> SUFFICES ASSUME Inv, judge.pc = "record", NEW p \in judge.complete,
                      registry[p].state = "candidate"
               PROVE  \/ Cardinality(InState(Live)) >= MaxActive
                      \/ Cardinality(AdmittedIn(quarter)) >= MaxEntrants
    BY DEF FreedSlotsAreUsed
  <2>1. ~Room
    BY DEF QueueInv, InRun, Waiting, RunInv
  <2>2. EntrantsThisQuarter = Cardinality(AdmittedIn(quarter))
    BY EntrantsAreAdmissions
  <2>3. Cardinality(InState(Live)) \in Nat /\ Cardinality(AdmittedIn(quarter)) \in Nat
    BY RosterFinite, AdmittedFinite
  <2> QED  BY <2>1, <2>2, <2>3, TournamentAssumption DEF Room, ActiveCount
<1> QED  BY <1>1, <1>2, <1>3, PTL DEF Spec

-----------------------------------------------------------------------------
(* The audit.                                                               *)

\* What a run has moved has its decision on record, or in hand, or is the
\* retirement it is in the middle of; nobody is decided on twice.
Accounted(k) ==
  \/ \E d \in DOMAIN decisions : Explains(decisions[d], transitions[k])
  \/ \E m \in DOMAIN judge.made : Explains(judge.made[m], transitions[k])
  \/ judge.pc = "kill" /\ transitions[k].profile = Current /\ transitions[k].to = "retired"
RowsAudited ==
  \A r \in DOMAIN runs : runs[r].state = "closed" => TransitionsExplained(r) /\ DecidedOnce(r)
AuditInv ==
  InRun =>
    /\ \A k \in DOMAIN transitions :
         transitions[k].run = judge.run /\ transitions[k].from # "none" => Accounted(k)
    /\ DecidedOnce(judge.run)
    /\ \A m, n \in DOMAIN judge.made : judge.made[m].profile = judge.made[n].profile => m = n
    /\ \A d \in DOMAIN decisions, m \in DOMAIN judge.made :
         decisions[d].run = judge.run => decisions[d].profile # judge.made[m].profile

LEMMA AuditStart ==
  ASSUME Init
  PROVE  AuditInv /\ RowsAudited
<1> DEFINE n == Len(Roster)
<1>1. /\ n \in Nat
      /\ \A i, j \in 1..n : Roster[i] = Roster[j] => i = j
      /\ DOMAIN decisions = 1..(2 * n)
      /\ \A k \in 1..n : decisions[k] = DecidedOn(k, "enter", 1)
      /\ \A k \in (n + 1)..(2 * n) : decisions[k] = DecidedOn(k - n, "promote", 2)
  BY InitialRows
<1> HIDE DEF n
<1>2. ASSUME NEW k \in DOMAIN transitions, transitions[k].from # "none"
      PROVE  \E d \in DOMAIN decisions : Explains(decisions[d], transitions[k])
  <2>1. \/ transitions[k] = OfRoster(k, "none", "candidate", 0)
        \/ /\ k \in (n + 1)..(2 * n)
           /\ transitions[k] = OfRoster(k - n, "candidate", "probation", 1)
        \/ /\ k \in (2 * n + 1)..(3 * n)
           /\ transitions[k] = OfRoster(k - 2 * n, "probation", "full", 2)
    BY InitialBlocks DEF n
  <2>2. CASE transitions[k] = OfRoster(k, "none", "candidate", 0)
    BY <1>2, <2>2 DEF OfRoster
  <2>3. CASE /\ k \in (n + 1)..(2 * n)
             /\ transitions[k] = OfRoster(k - n, "candidate", "probation", 1)
    <3>1. k - n \in 1..n /\ k - n \in DOMAIN decisions
      BY <1>1, <2>3
    <3>2. decisions[k - n] = DecidedOn(k - n, "enter", 1)
      BY <1>1, <3>1
    <3>3. Explains(decisions[k - n], transitions[k])
      BY <2>3, <3>2 DEF Explains, DecidedOn, OfRoster
    <3> QED  BY <3>1, <3>3
  <2>4. CASE /\ k \in (2 * n + 1)..(3 * n)
             /\ transitions[k] = OfRoster(k - 2 * n, "probation", "full", 2)
    <3>1. PICK d \in DOMAIN decisions : d = k - n
      BY <1>1, <2>4
    <3>2. d \in (n + 1)..(2 * n) /\ d - n = k - 2 * n
      BY <1>1, <2>4, <3>1
    <3>3. decisions[d] = DecidedOn(k - 2 * n, "promote", 2)
      BY <1>1, <3>2
    <3>4. Explains(decisions[d], transitions[k])
      BY <2>4, <3>3 DEF Explains, DecidedOn, OfRoster
    <3> QED  BY <3>4
  <2> QED  BY <2>1, <2>2, <2>3, <2>4
<1>3. ASSUME NEW c \in DOMAIN decisions, NEW d \in DOMAIN decisions,
             decisions[c].run = decisions[d].run, decisions[c].profile = decisions[d].profile
      PROVE  c = d
  <2>1. \A k \in DOMAIN decisions :
          \/ k \in 1..n /\ decisions[k].run = 1 /\ decisions[k].profile = Roster[k]
          \/ /\ k \in (n + 1)..(2 * n) /\ decisions[k].run = 2
             /\ decisions[k].profile = Roster[k - n]
    <3> TAKE k \in DOMAIN decisions
    <3>1. \/ k \in 1..n /\ decisions[k] = DecidedOn(k, "enter", 1)
          \/ k \in (n + 1)..(2 * n) /\ decisions[k] = DecidedOn(k - n, "promote", 2)
      BY InitialBlocks DEF n
    <3> QED  BY <3>1 DEF DecidedOn
  <2>2. CASE c \in 1..n /\ d \in 1..n
    BY <1>1, <1>3, <2>1, <2>2
  <2>3. CASE c \in (n + 1)..(2 * n) /\ d \in (n + 1)..(2 * n)
    <3>1. Roster[c - n] = Roster[d - n] /\ c - n \in 1..n /\ d - n \in 1..n
      BY <1>1, <1>3, <2>1, <2>3
    <3>2. c - n = d - n
      BY <1>1, <3>1
    <3> QED  BY <1>1, <2>3, <3>2
  <2> QED  BY <1>1, <1>3, <2>1, <2>2, <2>3
<1>4. ~InRun
  BY DEF Init, IdleJudge, InRun
<1> QED  BY <1>2, <1>3, <1>4 DEF AuditInv, RowsAudited, TransitionsExplained, DecidedOnce

\* What is added is of no run that was closed.
LEMMA ClosedStay ==
  ASSUME RowsAudited,
         \A r \in DOMAIN runs' : runs'[r].state = "closed" => r \in DOMAIN runs /\ runs[r].state = "closed",
         \A k \in DOMAIN transitions' :
           \/ k \in DOMAIN transitions /\ transitions'[k] = transitions[k]
           \/ transitions'[k].from = "none" \/ runs'[transitions'[k].run].state # "closed",
         \A d \in DOMAIN decisions : d \in DOMAIN decisions' /\ decisions'[d] = decisions[d],
         \A d \in DOMAIN decisions' :
           d \in DOMAIN decisions \/ runs'[decisions'[d].run].state # "closed"
  PROVE  RowsAudited'
<1> SUFFICES ASSUME NEW r \in DOMAIN runs', runs'[r].state = "closed"
             PROVE  TransitionsExplained(r)' /\ DecidedOnce(r)'
  BY DEF RowsAudited
<1>1. TransitionsExplained(r) /\ DecidedOnce(r)
  BY DEF RowsAudited
<1>2. TransitionsExplained(r)'
  BY <1>1 DEF TransitionsExplained
<1>3. DecidedOnce(r)'
  BY <1>1 DEF DecidedOnce
<1> QED  BY <1>2, <1>3

LEMMA DecidedAudit ==
  ASSUME TypeInv, RunInv, AuditInv, InRun, judge.todo # {}, UNCHANGED <<decisions, runs>>,
         NEW what \in Verdicts, NEW strike \in BOOLEAN, Decide(Current, what, strike),
         judge.pc = "kill" => what = "retire",
         \A k \in DOMAIN transitions' :
           \/ k \in DOMAIN transitions /\ transitions'[k] = transitions[k]
           \/ /\ transitions'[k].run = judge.run /\ transitions'[k].profile = Current
              /\ <<transitions'[k].to, what>> \in {<<"probation", "enter">>, <<"full", "promote">>}
  PROVE  AuditInv'
<1> DEFINE row == [run |-> judge.run, profile |-> Current, decision |-> what, strike |-> strike]
<1>1. judge'.run = judge.run /\ judge'.made = Append(judge.made, row)
  BY Decided
<1>2. judge.made \in Seq(DecisionRow) /\ row \in DecisionRow
  BY CurrentIsFirst DEF TypeInv, JudgeState, DecisionRow
<1>3. /\ row.run = judge.run /\ row.profile = Current /\ row.decision = what
  OBVIOUS
<1> HIDE DEF row
<1>4. PICK new \in Nat : new = Len(judge.made) + 1
  BY <1>2
<1>5. /\ DOMAIN judge'.made = DOMAIN judge.made \cup {new} /\ new \notin DOMAIN judge.made
      /\ \A m \in DOMAIN judge.made : judge'.made[m] = judge.made[m]
      /\ judge'.made[new] = row
  BY <1>1, <1>2, <1>4
<1>6. /\ \A m \in DOMAIN judge.made : judge.made[m].profile # Current
      /\ \A d \in DOMAIN decisions : decisions[d].run # judge.run
  BY CurrentIsFirst DEF RunInv, TypeInv, JudgeState
<1>7. ASSUME NEW k \in DOMAIN transitions', transitions'[k].run = judge.run,
             transitions'[k].from # "none"
      PROVE  \/ \E d \in DOMAIN decisions : Explains(decisions[d], transitions'[k])
             \/ \E m \in DOMAIN judge'.made : Explains(judge'.made[m], transitions'[k])
  <2>1. CASE k \in DOMAIN transitions /\ transitions'[k] = transitions[k]
    <3>1. Accounted(k)
      BY <1>7, <2>1 DEF AuditInv
    <3>2. CASE \E d \in DOMAIN decisions : Explains(decisions[d], transitions[k])
      BY <2>1, <3>2
    <3>3. CASE \E m \in DOMAIN judge.made : Explains(judge.made[m], transitions[k])
      BY <1>5, <2>1, <3>3
    <3>4. CASE judge.pc = "kill" /\ transitions[k].profile = Current /\ transitions[k].to = "retired"
      <4>1. Explains(row, transitions'[k])
        BY <1>3, <1>7, <2>1, <3>4 DEF Explains
      <4> QED  BY <1>5, <4>1
    <3> QED  BY <3>1, <3>2, <3>3, <3>4 DEF Accounted
  <2>2. CASE /\ transitions'[k].run = judge.run /\ transitions'[k].profile = Current
             /\ <<transitions'[k].to, what>> \in {<<"probation", "enter">>, <<"full", "promote">>}
    <3>1. Explains(row, transitions'[k])
      BY <1>3, <2>2 DEF Explains
    <3> QED  BY <1>5, <3>1
  <2> QED  BY <2>1, <2>2
<1>8. \A k \in DOMAIN transitions' :
        transitions'[k].run = judge'.run /\ transitions'[k].from # "none" => Accounted(k)'
  BY <1>1, <1>7 DEF Accounted
<1>9. DecidedOnce(judge.run)'
  BY <1>1, <1>6 DEF DecidedOnce
<1>10. \A m, n \in DOMAIN judge'.made : judge'.made[m].profile = judge'.made[n].profile => m = n
  BY <1>3, <1>5, <1>6 DEF AuditInv
<1> QED  BY <1>1, <1>6, <1>8, <1>9, <1>10 DEF AuditInv


\* The run's rows are of a run that is not closed.
LEMMA ClosedInRun ==
  ASSUME TypeInv, RunInv, RowsAudited, InRun, UNCHANGED <<decisions, runs>>,
         NewRowsAreOfThisRun
  PROVE  RowsAudited'
<1>1. runs'[judge.run].state # "closed"
  BY DEF RunInv
<1> QED  BY <1>1, ClosedStay DEF NewRowsAreOfThisRun

\* A strategy is moved and decided on in one step.
LEMMA AuditMoved ==
  ASSUME TypeInv, RunInv, AuditInv, RowsAudited, InRun, judge.pc # "kill",
         judge.todo # {}, UNCHANGED <<decisions, runs>>,
         NEW to \in States, NEW what \in Verdicts,
         <<to, what>> \in {<<"probation", "enter">>, <<"full", "promote">>},
         Transition(Current, to), Decide(Current, what, FALSE)
  PROVE  AuditInv' /\ RowsAudited'
<1>1. Current \in Profiles /\ registry[Current].state \in States
  BY CurrentIsFirst DEF TypeInv, JudgeState, RegistryType
<1>2. PICK from \in States : transitions' = Append(transitions, Row(Current, from, to))
  BY <1>1 DEF Transition
<1>3. \A k \in DOMAIN transitions' :
        \/ k \in DOMAIN transitions /\ transitions'[k] = transitions[k]
        \/ transitions'[k] = [profile |-> Current, from |-> from, to |-> to,
                              quarter |-> quarter, run |-> judge.run]
  BY <1>1, <1>2, RowAppended
<1>4. \A k \in DOMAIN transitions' :
        \/ k \in DOMAIN transitions /\ transitions'[k] = transitions[k]
        \/ /\ transitions'[k].run = judge.run /\ transitions'[k].profile = Current
           /\ <<transitions'[k].to, what>> \in {<<"probation", "enter">>, <<"full", "promote">>}
  BY <1>3
<1>5. AuditInv'
  BY <1>4, DecidedAudit
<1>6. NewRowsAreOfThisRun
  BY <1>3 DEF NewRowsAreOfThisRun
<1> QED  BY <1>5, <1>6, ClosedInRun

\* A strategy is decided on; nobody moves.
LEMMA AuditHeld ==
  ASSUME TypeInv, RunInv, AuditInv, RowsAudited, InRun, judge.todo # {},
         UNCHANGED <<transitions, decisions, runs>>,
         NEW what \in Verdicts, NEW strike \in BOOLEAN, Decide(Current, what, strike),
         judge.pc = "kill" => what = "retire"
  PROVE  AuditInv' /\ RowsAudited'
<1>1. AuditInv'
  BY DecidedAudit
<1>2. NewRowsAreOfThisRun
  BY DEF NewRowsAreOfThisRun
<1> QED  BY <1>1, <1>2, ClosedInRun

\* A retirement begins.
LEMMA AuditRetired ==
  ASSUME TypeInv, RunInv, AuditInv, RowsAudited, Retire
  PROVE  AuditInv' /\ RowsAudited'
<1>1. /\ judge.todo # {} /\ InRun /\ judge.pc = "judge" /\ Transition(Current, "retired")
      /\ judge' = [judge EXCEPT !.pc = "kill"] /\ UNCHANGED <<decisions, runs>>
  BY DEF Retire, JudgeFull, At, InRun
<1>2. /\ judge'.pc = "kill" /\ judge'.run = judge.run /\ judge'.made = judge.made
      /\ judge'.todo = judge.todo /\ judge'.was = judge.was
  BY <1>1 DEF TypeInv, JudgeState
<1>3. Current' = Current
  BY <1>2, CurrentStays
<1>4. Current \in Profiles /\ registry[Current].state \in States
  BY <1>1, CurrentIsFirst DEF TypeInv, JudgeState, RegistryType
<1>5. PICK from \in States : transitions' = Append(transitions, Row(Current, from, "retired"))
  BY <1>1, <1>4 DEF Transition
<1>6. \A k \in DOMAIN transitions' :
        \/ k \in DOMAIN transitions /\ transitions'[k] = transitions[k]
        \/ transitions'[k] = [profile |-> Current, from |-> from, to |-> "retired",
                              quarter |-> quarter, run |-> judge.run]
  <2>1. "retired" \in States
    BY DEF States
  <2>2. /\ Len(transitions) \in Nat
        /\ DOMAIN transitions = 1..Len(transitions)
        /\ DOMAIN transitions' = 1..(Len(transitions) + 1)
        /\ \A k \in DOMAIN transitions : transitions'[k] = transitions[k]
        /\ transitions'[Len(transitions) + 1] =
             [profile |-> Current, from |-> from, to |-> "retired",
              quarter |-> quarter, run |-> judge.run]
    BY <1>4, <1>5, <2>1, RowAppended
  <2>3. \A k \in DOMAIN transitions' : k \in DOMAIN transitions \/ k = Len(transitions) + 1
    BY <2>2
  <2> QED  BY <2>2, <2>3
<1>7. ASSUME NEW k \in DOMAIN transitions', transitions'[k].run = judge.run,
             transitions'[k].from # "none"
      PROVE  Accounted(k)'
  <2>1. CASE k \in DOMAIN transitions /\ transitions'[k] = transitions[k]
    <3>1. Accounted(k)
      BY <1>1, <1>7, <2>1 DEF AuditInv
    <3> QED  BY <1>1, <1>2, <2>1, <3>1 DEF Accounted
  <2>2. CASE transitions'[k].profile = Current /\ transitions'[k].to = "retired"
    BY <1>2, <1>3, <2>2 DEF Accounted
  <2> QED  BY <1>6, <2>1, <2>2
<1>8. AuditInv'
  BY <1>1, <1>2, <1>7 DEF AuditInv, DecidedOnce
<1>9. NewRowsAreOfThisRun
  BY <1>6 DEF NewRowsAreOfThisRun
<1> QED  BY <1>1, <1>8, <1>9, ClosedInRun

\* A decision in hand goes on record.
LEMMA AuditRecorded ==
  ASSUME TypeInv, RunInv, AuditInv, RowsAudited, RecordDecision
  PROVE  AuditInv' /\ RowsAudited'
<1> DEFINE made == judge.made
<1>1. /\ InRun /\ judge.pc = "record" /\ made # <<>> /\ made \in Seq(DecisionRow)
      /\ decisions' = Append(decisions, Head(made)) /\ UNCHANGED <<transitions, runs>>
      /\ judge' = [judge EXCEPT !.made = Tail(made)]
  BY DEF RecordDecision, InRun, TypeInv, JudgeState
<1>2. /\ judge'.pc = "record" /\ judge'.run = judge.run /\ judge'.made = Tail(made)
  BY <1>1 DEF TypeInv, JudgeState
<1>3. PICK n \in Nat \ {0} : n = Len(made) /\ DOMAIN made = 1..n
  BY <1>1
<1>4. /\ 1 \in DOMAIN made /\ Head(made) = made[1]
      /\ DOMAIN judge'.made = 1..(n - 1)
      /\ \A m \in 1..(n - 1) : judge'.made[m] = made[m + 1] /\ m + 1 \in DOMAIN made
  BY <1>1, <1>2, <1>3
<1>5. PICK new \in Nat : new = Len(decisions) + 1
  BY DEF TypeInv
<1>6. /\ DOMAIN decisions' = DOMAIN decisions \cup {new} /\ new \notin DOMAIN decisions
      /\ \A d \in DOMAIN decisions : decisions'[d] = decisions[d]
      /\ decisions'[new] = made[1]
  <2>1. decisions \in Seq(DecisionRow) /\ made[1] \in DecisionRow
    BY <1>1, <1>4 DEF TypeInv
  <2> QED  BY <1>1, <1>4, <1>5, <2>1
<1>7. /\ \A m \in DOMAIN made : made[m].run = judge.run
      /\ \A m, l \in DOMAIN made : made[m].profile = made[l].profile => m = l
      /\ \A d \in DOMAIN decisions, m \in DOMAIN made :
           decisions[d].run = judge.run => decisions[d].profile # made[m].profile
      /\ DecidedOnce(judge.run)
  BY <1>1 DEF RunInv, AuditInv
<1>8. ASSUME NEW k \in DOMAIN transitions', transitions'[k].run = judge'.run,
             transitions'[k].from # "none"
      PROVE  Accounted(k)'
  <2>1. Accounted(k)
    BY <1>1, <1>2, <1>8 DEF AuditInv
  <2>2. CASE \E d \in DOMAIN decisions : Explains(decisions[d], transitions[k])
    <3>1. \E d \in DOMAIN decisions' : Explains(decisions'[d], transitions'[k])
      BY <1>1, <1>6, <2>2
    <3> QED  BY <3>1 DEF Accounted, Explains
  <2>3. ASSUME NEW m \in DOMAIN made, Explains(made[m], transitions[k])
        PROVE  Accounted(k)'
    <3>1. CASE m = 1
      <4>1. Explains(decisions'[new], transitions'[k]) /\ new \in DOMAIN decisions'
        BY <1>1, <1>6, <2>3, <3>1
      <4> QED  BY <4>1 DEF Accounted, Explains
    <3>2. CASE m # 1
      <4>1. PICK l \in 1..(n - 1) : m = l + 1
        BY <1>3, <3>2
      <4>2. Explains(judge'.made[l], transitions'[k]) /\ l \in DOMAIN judge'.made
        BY <1>1, <1>4, <2>3, <4>1
      <4> QED  BY <4>2 DEF Accounted, Explains
    <3> QED  BY <3>1, <3>2
  <2> QED  BY <1>1, <2>1, <2>2, <2>3 DEF Accounted
<1>9. DecidedOnce(judge.run)'
  BY <1>2, <1>4, <1>6, <1>7 DEF DecidedOnce
<1>10. \A m, l \in DOMAIN judge'.made : judge'.made[m].profile = judge'.made[l].profile => m = l
  <2> TAKE m, l \in DOMAIN judge'.made
  <2>1. m \in 1..(n - 1) /\ l \in 1..(n - 1)
    BY <1>4
  <2> HAVE judge'.made[m].profile = judge'.made[l].profile
  <2>2. /\ m + 1 \in DOMAIN made /\ l + 1 \in DOMAIN made
        /\ made[m + 1].profile = made[l + 1].profile
    BY <1>4, <2>1
  <2>3. m + 1 = l + 1
    BY <1>7, <2>2
  <2> QED  BY <1>3, <2>1, <2>3
<1>11. \A d \in DOMAIN decisions', m \in DOMAIN judge'.made :
         decisions'[d].run = judge.run => decisions'[d].profile # judge'.made[m].profile
  <2> TAKE d \in DOMAIN decisions', m \in DOMAIN judge'.made
  <2>1. m \in 1..(n - 1) /\ m + 1 # 1
    BY <1>4
  <2>2. m + 1 \in DOMAIN made /\ judge'.made[m] = made[m + 1]
    BY <1>4, <2>1
  <2>3. CASE d \in DOMAIN decisions
    BY <1>6, <1>7, <2>2, <2>3
  <2>4. CASE d = new
    <3>1. made[1].profile # made[m + 1].profile
      BY <1>4, <1>7, <2>1, <2>2
    <3> QED  BY <1>6, <2>2, <2>4, <3>1
  <2> QED  BY <1>6, <2>3, <2>4
<1>12. AuditInv'
  <2> HIDE DEF made
  <2> QED  BY <1>2, <1>8, <1>9, <1>10, <1>11 DEF AuditInv
<1>13. runs'[judge.run].state # "closed"
  BY <1>1 DEF RunInv
<1>14. decisions'[new].run = judge.run
  BY <1>4, <1>6, <1>7
<1>15. RowsAudited'
  BY <1>1, <1>6, <1>13, <1>14, ClosedStay
<1> QED  BY <1>12, <1>15

\* The run is closed with nothing left in hand.
LEMMA AuditClosed ==
  ASSUME TypeInv, RunInv, AuditInv, RowsAudited, CloseRun
  PROVE  AuditInv' /\ RowsAudited'
<1>1. /\ InRun /\ judge.pc = "record" /\ judge.made = <<>>
      /\ runs' = [runs EXCEPT ![judge.run].state = "closed"] /\ judge' = IdleJudge
      /\ UNCHANGED <<transitions, decisions>>
  BY DEF CloseRun, InRun
<1>2. AuditInv'
  BY <1>1 DEF AuditInv, InRun, IdleJudge
<1>3. DOMAIN runs' = DOMAIN runs
      /\ \A r \in DOMAIN runs : r # judge.run => runs'[r] = runs[r]
  BY <1>1 DEF TypeInv
<1>4. \A k \in DOMAIN transitions :
        transitions[k].run = judge.run /\ transitions[k].from # "none" => Accounted(k)
  BY <1>1 DEF AuditInv
<1>5. TransitionsExplained(judge.run)
  BY <1>1, <1>4 DEF TransitionsExplained, Accounted
<1>6. DecidedOnce(judge.run)
  BY <1>1 DEF AuditInv
<1>7. SUFFICES ASSUME NEW r \in DOMAIN runs', runs'[r].state = "closed"
               PROVE  TransitionsExplained(r)' /\ DecidedOnce(r)'
  BY <1>2 DEF RowsAudited
<1>8. TransitionsExplained(r) /\ DecidedOnce(r)
  BY <1>3, <1>5, <1>6, <1>7 DEF RowsAudited
<1> QED  BY <1>1, <1>8 DEF TransitionsExplained, DecidedOnce

\* A step that takes no part in the run.
LEMMA AuditUndisturbed ==
  ASSUME AuditInv, RowsAudited, UNCHANGED <<transitions, decisions, runs>>,
         judge'.run = judge.run, judge'.made = judge.made, judge'.todo = judge.todo,
         judge'.was = judge.was, judge'.pc # "idle" => judge.pc # "idle",
         judge.pc = "kill" => judge'.pc = "kill"
  PROVE  AuditInv' /\ RowsAudited'
<1>1. Current' = Current
  BY CurrentStays
<1>2. \A k : Accounted(k) => Accounted(k)'
  BY <1>1 DEF Accounted
<1>3. \A r : /\ TransitionsExplained(r) => TransitionsExplained(r)'
             /\ DecidedOnce(r) => DecidedOnce(r)'
  BY DEF TransitionsExplained, DecidedOnce
<1> QED  BY <1>2, <1>3 DEF AuditInv, RowsAudited, InRun

LEMMA AuditStep ==
  ASSUME TypeInv, RunInv, AuditInv, RowsAudited, [Next]_vars
  PROVE  AuditInv' /\ RowsAudited'
<1> USE DEF JudgeOnly
<1>1. CASE RunStart
  <2>1. /\ runs' = Append(runs, [state |-> "open", inputs |-> InState(Live)]) /\ UNCHANGED <<transitions, decisions>>
        /\ judge'.run = Len(runs) + 1 /\ judge'.made = <<>>
    BY <1>1 DEF RunStart
  <2>2. \A k \in DOMAIN transitions : transitions[k].run # judge'.run
    BY <2>1, RowTypes DEF RunInv
  <2>3. \A d \in DOMAIN decisions : decisions[d].run # judge'.run
    BY <2>1, RowTypes DEF RunInv
  <2>4. AuditInv'
    BY <2>1, <2>2, <2>3 DEF AuditInv, DecidedOnce
  <2>5. \A r \in DOMAIN runs' : runs'[r].state = "closed" => r \in DOMAIN runs /\ runs[r].state = "closed"
    BY <2>1 DEF TypeInv
  <2>6. RowsAudited'
    BY <2>1, <2>5, ClosedStay
  <2> QED  BY <2>4, <2>6
<1>2. CASE HoldUnjudged \/ HoldOnProbation \/ HoldFull \/ KeepQueued \/ RetireKill
  <2>1. /\ UNCHANGED <<transitions, decisions, runs>> /\ judge.todo # {} /\ InRun
        /\ \E what \in Verdicts, strike \in BOOLEAN :
             Decide(Current, what, strike) /\ (judge.pc = "kill" => what = "retire")
    BY <1>2 DEF HoldUnjudged, HoldOnProbation, HoldFull, KeepQueued, RetireKill, At, JudgeFull,
                InRun, Verdicts, Struck
  <2> QED  BY <2>1, AuditHeld
<1>3. CASE ConfirmPaper30
  <2>1. /\ UNCHANGED <<transitions, decisions, runs>> /\ judge.pc = "judge"
        /\ judge' = [judge EXCEPT !.pc = "confirmed"]
    BY <1>3 DEF ConfirmPaper30, At
  <2>2. /\ judge'.run = judge.run /\ judge'.made = judge.made /\ judge'.todo = judge.todo
        /\ judge'.was = judge.was /\ judge'.pc = "confirmed"
    BY <2>1 DEF TypeInv, JudgeState
  <2> QED  BY <2>1, <2>2, AuditUndisturbed
<1>4. CASE PromoteToFull
  <2>1. /\ judge.todo # {} /\ InRun /\ judge.pc # "kill" /\ Transition(Current, "full")
        /\ Decide(Current, "promote", FALSE) /\ UNCHANGED <<decisions, runs>>
    BY <1>4 DEF PromoteToFull, At, InRun
  <2> QED  BY <2>1, AuditMoved DEF States, Live, Verdicts
<1>5. CASE Admit
  <2>1. /\ judge.todo # {} /\ InRun /\ judge.pc # "kill" /\ Transition(Current, "probation")
        /\ Decide(Current, "enter", FALSE) /\ UNCHANGED <<decisions, runs>>
    BY <1>5 DEF Admit, At, InRun
  <2> QED  BY <2>1, AuditMoved DEF States, Live, Verdicts
<1>6. CASE Retire
  BY <1>6, AuditRetired
<1>7. CASE RecordDecision
  BY <1>7, AuditRecorded
<1>8. CASE CloseRun
  BY <1>8, AuditClosed
<1>9. CASE Crash
  <2>1. UNCHANGED <<transitions, decisions, runs>> /\ ~InRun'
    BY <1>9 DEF Crash, InRun, IdleJudge
  <2>2. RowsAudited'
    BY <2>1, ClosedStay
  <2> QED  BY <2>1, <2>2 DEF AuditInv
<1>10. CASE \E p \in Profiles : Register(p)
  <2>1. PICK p \in Profiles : Register(p)
    BY <1>10
  <2>2. /\ transitions' = Append(transitions, Row(p, "none", "candidate"))
        /\ UNCHANGED <<decisions, runs, judge>> /\ ~InRun
    BY <2>1 DEF Register, InRun
  <2>3. \A k \in DOMAIN transitions' :
          \/ k \in DOMAIN transitions /\ transitions'[k] = transitions[k]
          \/ transitions'[k].from = "none"
    <3>1. "none" \in States /\ "candidate" \in States
      BY DEF States
    <3>2. \A k \in DOMAIN transitions' :
            \/ k \in DOMAIN transitions /\ transitions'[k] = transitions[k]
            \/ transitions'[k] = [profile |-> p, from |-> "none", to |-> "candidate",
                                  quarter |-> quarter, run |-> judge.run]
      BY <2>2, <3>1, RowAppended
    <3> QED  BY <3>2
  <2>4. RowsAudited'
    BY <2>2, <2>3, ClosedStay
  <2> QED  BY <2>2, <2>4 DEF AuditInv, InRun
<1>11. CASE \/ UNCHANGED vars
            \/ \E p \in Profiles : StampBacktest(p) \/ StampOos(p)
  <2>1. UNCHANGED <<transitions, decisions, runs, judge>>
    BY <1>11 DEF vars, StampBacktest, StampOos, Stamp
  <2> QED  BY <2>1, AuditUndisturbed
<1> QED  BY <1>1, <1>2, <1>3, <1>4, <1>5, <1>6, <1>7, <1>8, <1>9, <1>10, <1>11 DEF Next, JudgeStep

\* Everyone of a run's inputs snapshot has a row, is decided on or still to be
\* judged, and in a closed run has a row.
RollInv ==
  \A r \in DOMAIN runs : \A p \in runs[r].inputs :
    \/ \E d \in DOMAIN decisions : decisions[d].profile = p /\ decisions[d].run = r
    \/ /\ runs[r].state = "open"
       /\ InRun /\ r = judge.run =>
            p \in judge.todo \/ \E m \in DOMAIN judge.made : judge.made[m].profile = p

LEMMA RollInit ==
  ASSUME Init
  PROVE  RollInv
<1>1. PICK n : n = Len(Roster)
  OBVIOUS
<1>2. /\ n \in Nat /\ DOMAIN Roster = 1..n /\ DOMAIN decisions = 1..(2 * n)
      /\ \A k \in (n + 1)..(2 * n) : decisions[k] = DecidedOn(k - n, "promote", 2)
  BY <1>1, InitialRows
<1>3. ASSUME NEW p \in Promoted
      PROVE  \E d \in DOMAIN decisions : decisions[d].profile = p /\ decisions[d].run = 2
  <2>1. PICK i \in 1..n : p = Roster[i]
    BY <1>2 DEF Promoted
  <2>2. PICK k \in (n + 1)..(2 * n) : k - n = i
    <3>1. i + n \in (n + 1)..(2 * n) /\ (i + n) - n = i
      BY <1>2
    <3> QED  BY <3>1
  <2>3. k \in DOMAIN decisions
    BY <1>2
  <2>4. decisions[k] = DecidedOn(i, "promote", 2)
    BY <1>2, <2>2
  <2>5. decisions[k].profile = p /\ decisions[k].run = 2
    BY <2>1, <2>4 DEF DecidedOn
  <2> QED  BY <2>3, <2>5
<1>4. /\ \A r \in DOMAIN runs : r = 1 \/ r = 2
      /\ runs[1].inputs = {} /\ runs[2].inputs = Promoted
  <2> DEFINE first == [state |-> "closed", inputs |-> {}]
             second == [state |-> "closed", inputs |-> Promoted]
  <2>1. runs = <<first, second>>
    BY DEF Init
  <2>2. first.inputs = {} /\ second.inputs = Promoted
    OBVIOUS
  <2> HIDE DEF first, second
  <2>3. /\ \A r \in DOMAIN runs : r = 1 \/ r = 2
        /\ runs[1] = first /\ runs[2] = second
    BY <2>1
  <2> QED  BY <2>2, <2>3
<1> QED  BY <1>3, <1>4 DEF RollInv

\* Nobody loses a row or a place in the run.
LEMMA RollKept ==
  ASSUME RollInv, UNCHANGED runs,
         \A d \in DOMAIN decisions : d \in DOMAIN decisions' /\ decisions'[d] = decisions[d],
         InRun' =>
           /\ InRun /\ judge'.run = judge.run
           /\ \A p \in judge.todo :
                p \in judge'.todo \/ \E m \in DOMAIN judge'.made : judge'.made[m].profile = p
           /\ \A m \in DOMAIN judge.made :
                \/ \E l \in DOMAIN judge'.made : judge'.made[l].profile = judge.made[m].profile
                \/ \E d \in DOMAIN decisions' : /\ decisions'[d].profile = judge.made[m].profile
                                               /\ decisions'[d].run = judge.run
  PROVE  RollInv'
<1> SUFFICES ASSUME NEW r \in DOMAIN runs, NEW p \in runs[r].inputs,
                    ~ \E d \in DOMAIN decisions' : decisions'[d].profile = p /\ decisions'[d].run = r
             PROVE  /\ runs[r].state = "open"
                    /\ InRun' /\ r = judge'.run =>
                         \/ p \in judge'.todo
                         \/ \E m \in DOMAIN judge'.made : judge'.made[m].profile = p
  BY DEF RollInv
<1>1. ~ \E d \in DOMAIN decisions : decisions[d].profile = p /\ decisions[d].run = r
  OBVIOUS
<1>2. /\ runs[r].state = "open"
      /\ InRun /\ r = judge.run =>
           p \in judge.todo \/ \E m \in DOMAIN judge.made : judge.made[m].profile = p
  BY <1>1 DEF RollInv
<1> QED  BY <1>2

\* A decision is taken.
LEMMA RollDecided ==
  ASSUME TypeInv, RollInv, InRun, judge.todo # {}, UNCHANGED <<decisions, runs>>,
         NEW what \in Verdicts, NEW strike \in BOOLEAN, Decide(Current, what, strike)
  PROVE  RollInv'
<1> DEFINE row == [run |-> judge.run, profile |-> Current, decision |-> what, strike |-> strike]
<1>1. /\ judge'.run = judge.run /\ judge'.made = Append(judge.made, row)
      /\ judge'.todo = judge.todo \ {Current}
  BY Decided
<1>2. judge.made \in Seq(DecisionRow) /\ row \in DecisionRow /\ row.profile = Current
  BY CurrentIsFirst DEF TypeInv, JudgeState, DecisionRow
<1> HIDE DEF row
<1>3. PICK new \in Nat : new = Len(judge.made) + 1
  BY <1>2
<1>4. /\ DOMAIN judge'.made = DOMAIN judge.made \cup {new}
      /\ \A m \in DOMAIN judge.made : judge'.made[m] = judge.made[m]
      /\ judge'.made[new].profile = Current
  BY <1>1, <1>2, <1>3
<1> QED  BY <1>1, <1>4, RollKept

LEMMA RollStep ==
  ASSUME TypeInv, RunInv, RollInv, [Next]_vars
  PROVE  RollInv'
<1> USE DEF JudgeOnly
<1>1. CASE RunStart
  <2>1. /\ runs' = Append(runs, [state |-> "open", inputs |-> InState(Live)])
        /\ UNCHANGED decisions /\ ~InRun
        /\ judge'.run = Len(runs) + 1 /\ judge'.todo = InState(Live) \cup InState({"candidate"})
    BY <1>1 DEF RunStart, InRun
  <2>2. PICK new \in Nat : new = Len(runs) + 1 /\ new \notin DOMAIN runs
    BY DEF TypeInv
  <2>3. [state |-> "open", inputs |-> InState(Live)] \in RunRow
    BY DEF RunRow, InState
  <2>4. /\ DOMAIN runs' = DOMAIN runs \cup {new}
        /\ \A r \in DOMAIN runs : runs'[r] = runs[r]
        /\ runs'[new].inputs = InState(Live) /\ runs'[new].state = "open"
    BY <2>1, <2>2, <2>3 DEF TypeInv
  <2> QED  BY <2>1, <2>2, <2>4 DEF RollInv
<1>2. CASE HoldUnjudged \/ HoldOnProbation \/ HoldFull \/ KeepQueued \/ RetireKill
             \/ PromoteToFull \/ Admit
  <2>1. /\ UNCHANGED <<decisions, runs>> /\ judge.todo # {} /\ InRun
        /\ \E what \in Verdicts, strike \in BOOLEAN : Decide(Current, what, strike)
    BY <1>2 DEF HoldUnjudged, HoldOnProbation, HoldFull, KeepQueued, RetireKill, PromoteToFull,
                Admit, At, JudgeFull, InRun, Verdicts, Struck
  <2> QED  BY <2>1, RollDecided
<1>3. CASE ConfirmPaper30 \/ Retire
  <2>1. /\ UNCHANGED <<decisions, runs>> /\ InRun
        /\ judge' \in {[judge EXCEPT !.pc = "confirmed"], [judge EXCEPT !.pc = "kill"]}
    BY <1>3 DEF ConfirmPaper30, Retire, At, JudgeFull, InRun
  <2>2. judge'.run = judge.run /\ judge'.made = judge.made /\ judge'.todo = judge.todo
    BY <2>1 DEF TypeInv, JudgeState
  <2> QED  BY <2>1, <2>2, RollKept
<1>4. CASE RecordDecision
  <2> DEFINE made == judge.made
  <2>1. /\ InRun /\ made # <<>> /\ made \in Seq(DecisionRow) /\ decisions \in Seq(DecisionRow)
        /\ decisions' = Append(decisions, Head(made)) /\ UNCHANGED runs
        /\ judge' = [judge EXCEPT !.made = Tail(made)]
    BY <1>4 DEF RecordDecision, InRun, TypeInv, JudgeState
  <2>2. judge'.run = judge.run /\ judge'.made = Tail(made) /\ judge'.todo = judge.todo
    BY <2>1 DEF TypeInv, JudgeState
  <2>3. PICK n \in Nat \ {0} : n = Len(made) /\ DOMAIN made = 1..n
    <3>1. Len(made) \in Nat /\ Len(made) # 0 /\ DOMAIN made = 1..Len(made)
      BY <2>1, EmptySeq, LenProperties
    <3> QED  BY <3>1
  <2>4. /\ Head(made) = made[1] /\ made[1] \in DecisionRow /\ made[1].run = judge.run
        /\ DOMAIN judge'.made = 1..(n - 1)
        /\ \A m \in 1..(n - 1) : judge'.made[m] = made[m + 1]
    BY <2>1, <2>2, <2>3 DEF RunInv
  <2>5. PICK new \in Nat : new = Len(decisions) + 1
    BY <2>1
  <2>6. /\ DOMAIN decisions' = DOMAIN decisions \cup {new}
        /\ \A d \in DOMAIN decisions : decisions'[d] = decisions[d]
        /\ decisions'[new] = made[1]
    BY <2>1, <2>4, <2>5
  <2>7. ASSUME NEW m \in DOMAIN made
        PROVE  \/ \E l \in DOMAIN judge'.made : judge'.made[l].profile = made[m].profile
               \/ \E d \in DOMAIN decisions' : /\ decisions'[d].profile = made[m].profile
                                              /\ decisions'[d].run = judge.run
    <3>1. CASE m = 1
      BY <2>4, <2>6, <3>1
    <3>2. CASE m # 1
      <4>1. PICK l \in 1..(n - 1) : m = l + 1
        BY <2>3, <3>2
      <4> QED  BY <2>4, <4>1
    <3> QED  BY <3>1, <3>2
  <2> HIDE DEF made
  <2> QED  BY <2>1, <2>2, <2>6, <2>7, RollKept DEF made
<1>5. CASE CloseRun
  <2>1. /\ InRun /\ judge.todo = {} /\ judge.made = <<>> /\ UNCHANGED decisions
        /\ runs' = [runs EXCEPT ![judge.run].state = "closed"] /\ judge' = IdleJudge
    BY <1>5 DEF CloseRun, InRun, RunInv
  <2>2. DOMAIN runs' = DOMAIN runs /\ ~InRun' /\ \A r \in DOMAIN runs : runs[r] \in RunRow
    BY <2>1 DEF TypeInv, InRun, IdleJudge
  <2>3. \A r \in DOMAIN runs :
          runs'[r] = IF r = judge.run THEN [runs[r] EXCEPT !.state = "closed"] ELSE runs[r]
    BY <2>1 DEF TypeInv
  <2>4. /\ \A r \in DOMAIN runs : runs'[r].inputs = runs[r].inputs
        /\ \A r \in DOMAIN runs : r # judge.run => runs'[r] = runs[r]
    BY <2>2, <2>3 DEF RunRow
  <2>5. \A p \in runs[judge.run].inputs : judge.run \in DOMAIN runs =>
          \E d \in DOMAIN decisions : decisions[d].profile = p /\ decisions[d].run = judge.run
    BY <2>1 DEF RollInv
  <2>6. ASSUME NEW r \in DOMAIN runs, r # judge.run, NEW p \in runs[r].inputs
        PROVE  \/ \E d \in DOMAIN decisions : decisions[d].profile = p /\ decisions[d].run = r
               \/ runs'[r].state = "open"
    BY <2>4, <2>6 DEF RollInv
  <2> QED  BY <2>1, <2>2, <2>4, <2>5, <2>6 DEF RollInv
<1>6. CASE Crash
  BY <1>6, RollKept DEF Crash, InRun, IdleJudge
<1>7. CASE \/ UNCHANGED vars
           \/ \E p \in Profiles : Register(p) \/ StampBacktest(p) \/ StampOos(p)
  <2>1. UNCHANGED <<decisions, runs, judge>>
    BY <1>7 DEF vars, Register, StampBacktest, StampOos, Stamp
  <2> QED  BY <2>1, RollKept DEF InRun
<1> QED  BY <1>1, <1>2, <1>3, <1>4, <1>5, <1>6, <1>7 DEF Next, JudgeStep

\* A closed run has one decision for each strategy of its inputs snapshot and a
\* decision for every transition it made, however many runs died before it.
THEOREM ClosedRunsAudited == Spec => []ClosedRunsAreAudited
<1> DEFINE Inv == TypeInv /\ RunInv /\ AuditInv /\ RowsAudited /\ RollInv
<1>1. Init => Inv
  BY TypeInit, RunInit, AuditStart, RollInit
<1>2. Inv /\ [Next]_vars => Inv'
  BY TypeStep, RunStep, AuditStep, RollStep
<1>3. Inv => ClosedRunsAreAudited
  <2> SUFFICES ASSUME Inv, NEW r \in DOMAIN runs, runs[r].state = "closed"
               PROVE  TransitionsExplained(r) /\ DecidedOnce(r) /\ AllDecided(r)
    BY DEF ClosedRunsAreAudited
  <2>1. AllDecided(r)
    BY DEF RollInv, AllDecided, DecisionsOf
  <2> QED  BY <2>1 DEF RowsAudited
<1> QED  BY <1>1, <1>2, <1>3, PTL DEF Spec

-----------------------------------------------------------------------------
(* Graduation: sums of what trades earned.                                 *)

\* Partial sums of what trades earned.
PartialSums(G, w, n) ==
  /\ G \in [0..n -> Int] /\ G[0] = 0
  /\ \A k \in 1..n : G[k] = G[k - 1] + w[k].pnl

LEMMA PnlSums ==
  ASSUME NEW w, NEW n \in Nat, DOMAIN w = 1..n, \A k \in 1..n : w[k].pnl \in Int
  PROVE  \E G : PartialSums(G, w, n) /\ Pnl(w) = G[n]
<1>0. PICK D : D = 1..n
  OBVIOUS
<1>1. \A s \in SUBSET D : s # {} => Max(s) \in s
  <2> SUFFICES ASSUME NEW s \in SUBSET D, s # {} PROVE Max(s) \in s
    OBVIOUS
  <2>1. \A x \in s : x \in 1..n
    BY <1>0
  <2>2. s \subseteq Nat /\ \A x \in s : x <= n
    BY <2>1
  <2> QED  BY <2>2, MaxOf
<1>2. PICK c, v : c = [s \in SUBSET D |-> Max(s)] /\ v = [k \in 1..n |-> w[k].pnl]
  OBVIOUS
<1>3. \A s \in SUBSET D : s # {} => c[s] \in s /\ v[c[s]] \in Int /\ v[c[s]] = w[Max(s)].pnl
  BY <1>0, <1>1, <1>2
<1>4. IsFiniteSet(D)
  BY <1>0, FS_Interval
<1>5. PICK f \in [SUBSET D -> Int] : SumsUp(f, D, v, c)
  <2>1. Picks(c, D) /\ \A k \in D : v[k] \in Int
    BY <1>0, <1>2, <1>3 DEF Picks
  <2> QED  BY <2>1, <1>4, SumIsDefined
<1>6. f = [s \in SUBSET D |-> IF s = {} THEN 0 ELSE f[s \ {Max(s)}] + w[Max(s)].pnl]
  <2>1. ASSUME NEW s \in SUBSET D
        PROVE  f[s] = (IF s = {} THEN 0 ELSE f[s \ {Max(s)}] + w[Max(s)].pnl)
    <3>1. CASE s = {}
      BY <3>1, <1>5 DEF SumsUp
    <3>2. CASE s # {}
      <4>1. c[s] = Max(s) /\ v[c[s]] = w[Max(s)].pnl /\ v[c[s]] \in Int
        BY <1>2, <1>3, <3>2
      <4>2. f[s \ {Max(s)}] \in Int
        OBVIOUS
      <4>3. f[s] = v[c[s]] + f[s \ {c[s]}]
        BY <1>5, <3>2 DEF SumsUp
      <4> QED  BY <3>2, <4>1, <4>2, <4>3
    <3> QED  BY <3>1, <3>2
  <2> QED  BY <1>5, <2>1
<1>7. PICK it :
        /\ it = CHOOSE g : g = [s \in SUBSET (DOMAIN w) |->
                                  IF s = {} THEN 0 ELSE g[s \ {Max(s)}] + w[Max(s)].pnl]
        /\ Pnl(w) = it[DOMAIN w]
  BY DEF Pnl, FoldLeft, MapThenFoldSet
<1>8. it = [s \in SUBSET D |-> IF s = {} THEN 0 ELSE it[s \ {Max(s)}] + w[Max(s)].pnl]
  BY <1>0, <1>6, <1>7
<1>9. it[{}] = 0
  BY <1>8
<1>10. ASSUME NEW k \in 1..n PROVE it[1..k] = it[1..(k - 1)] + w[k].pnl
  <2>1. Max(1..k) = k
    <3>1. k \in Nat /\ k >= 1
      OBVIOUS
    <3> QED  BY <3>1, LastOfInterval
  <2>2. (1..k) \ {k} = 1..(k - 1)
    OBVIOUS
  <2>3. 1..k \in SUBSET D /\ 1..k # {}
    <3>1. k \in 1..k /\ \A x \in 1..k : x \in 1..n
      OBVIOUS
    <3> QED  BY <1>0, <3>1
  <2>4. it[1..k] = it[(1..k) \ {Max(1..k)}] + w[Max(1..k)].pnl
    BY <1>8, <2>3
  <2> QED  BY <2>1, <2>2, <2>4
<1> DEFINE G == [k \in 0..n |-> it[1..k]]
           T == {k \in Nat : k <= n => it[1..k] \in Int}
<1>11. 1..0 = {}
  OBVIOUS
<1>12. Nat \subseteq T
  <2>1. 0 \in T
    BY <1>9, <1>11
  <2>2. ASSUME NEW k \in Nat, k \in T PROVE k + 1 \in T
    <3>1. CASE k + 1 <= n
      <4>1. PICK j \in 1..n : j = k + 1 /\ j - 1 = k
        BY <3>1
      <4>2. it[1..j] = it[1..k] + w[j].pnl
        BY <4>1, <1>10
      <4>3. it[1..k] \in Int /\ w[j].pnl \in Int
        BY <2>2, <3>1
      <4> QED  BY <4>1, <4>2, <4>3
    <3> QED  BY <3>1
  <2>3. \A k \in Nat : k \in T => k + 1 \in T
    BY <2>2
  <2> HIDE DEF T
  <2> QED  BY <2>1, <2>3, SetInduction
<1>13. G \in [0..n -> Int]
  BY <1>12
<1>14. G[0] = 0 /\ G[n] = Pnl(w)
  BY <1>7, <1>9, <1>11
<1>15. \A k \in 1..n : G[k] = G[k - 1] + w[k].pnl
  BY <1>10
<1> HIDE DEF G
<1> QED  BY <1>13, <1>14, <1>15 DEF PartialSums

-----------------------------------------------------------------------------
(* What the checks leave.                                                  *)

LEMMA Prefix ==
  ASSUME NEW S, NEW w \in Seq(S), NEW k \in 0..Len(w), NEW u, u = SubSeq(w, 1, k)
  PROVE  u \in Seq(S) /\ DOMAIN u = 1..k /\ Len(u) = k /\ \A i \in 1..k : u[i] = w[i]
BY SubSeqProperties, LenProperties

\* The sum of a prefix is a partial sum.
LEMMA PrefixSum ==
  ASSUME NEW w \in Seq(ClosedTrades), NEW n, n = Len(w), NEW G, PartialSums(G, w, n),
         NEW k \in 0..n
  PROVE  Pnl(SubSeq(w, 1, k)) = G[k]
<1>0. PICK u : u = SubSeq(w, 1, k)
  OBVIOUS
<1>1. n \in Nat /\ \A i \in 1..n : w[i].pnl \in Int
  <2>1. n \in Nat /\ \A i \in 1..n : w[i] \in ClosedTrades
    BY LenProperties, ElementOfSeq
  <2> QED  BY <2>1, GraduationAssumption
<1>2. DOMAIN u = 1..k /\ \A i \in 1..k : u[i] = w[i]
  BY <1>0, Prefix
<1>3. k \in Nat /\ \A i \in 1..k : i \in 1..n /\ u[i].pnl \in Int
  BY <1>1, <1>2
<1>4. PICK H : PartialSums(H, u, k) /\ Pnl(u) = H[k]
  BY <1>2, <1>3, PnlSums
<1> DEFINE T == {i \in Nat : i <= k => H[i] = G[i]}
<1>5. 0 \in T
  BY <1>4 DEF PartialSums
<1>6. ASSUME NEW i \in Nat, i \in T PROVE i + 1 \in T
  <2>1. CASE i + 1 <= k
    <3>1. PICK j : j = i + 1
      OBVIOUS
    <3>2. j \in 1..k /\ j \in 1..n /\ j - 1 = i /\ H[i] = G[i]
      BY <1>1, <1>3, <1>6, <2>1, <3>1
    <3>3. H[j] = H[j - 1] + u[j].pnl /\ G[j] = G[j - 1] + w[j].pnl
      BY <1>4, <3>2 DEF PartialSums
    <3> QED  BY <1>2, <3>1, <3>2, <3>3
  <2> QED  BY <2>1
<1>7. k \in T
  <2>1. \A i \in Nat : i \in T => i + 1 \in T
    BY <1>6
  <2> HIDE DEF T
  <2> QED  BY <1>3, <1>5, <2>1, SetInduction
<1> QED  BY <1>0, <1>3, <1>4, <1>7

\* The sum over one index.
LEMMA SumOfOne ==
  ASSUME NEW T, NEW i, T[i].pnl \in Int
  PROVE  MapThenSumSet(LAMBDA j : T[j].pnl, {i}) = T[i].pnl
<1>1. PICK c, v : c = [s \in SUBSET {i} |-> CHOOSE x \in s : TRUE] /\ v = [j \in {i} |-> T[j].pnl]
  OBVIOUS
<1>2. \A s \in SUBSET {i} : s # {} => s = {i}
  OBVIOUS
<1>3. \A s \in SUBSET {i} : s # {} => /\ c[s] = i /\ (CHOOSE x \in s : TRUE) = i
                                      /\ v[c[s]] = T[i].pnl
  BY <1>1, <1>2
<1>4. PICK f \in [SUBSET {i} -> Int] : SumsUp(f, {i}, v, c)
  <2>1. IsFiniteSet({i})
    BY FS_Singleton
  <2>2. Picks(c, {i}) /\ \A j \in {i} : v[j] \in Int
    BY <1>1, <1>2, <1>3 DEF Picks
  <2> QED  BY <2>1, <2>2, SumIsDefined
<1>5. f = [s \in SUBSET {i} |->
             IF s = {} THEN 0 ELSE T[CHOOSE x \in s : TRUE].pnl + f[s \ {CHOOSE x \in s : TRUE}]]
  <2>1. ASSUME NEW s \in SUBSET {i}
        PROVE  f[s] = (IF s = {} THEN 0
                       ELSE T[CHOOSE x \in s : TRUE].pnl + f[s \ {CHOOSE x \in s : TRUE}])
    <3>1. CASE s = {}
      BY <1>4, <3>1 DEF SumsUp
    <3>2. CASE s # {}
      <4>1. c[s] = (CHOOSE x \in s : TRUE) /\ v[c[s]] = T[CHOOSE x \in s : TRUE].pnl
        BY <1>3, <3>2
      <4>2. f[s] = v[c[s]] + f[s \ {c[s]}]
        BY <1>4, <3>2 DEF SumsUp
      <4> QED  BY <3>2, <4>1, <4>2
    <3> QED  BY <3>1, <3>2
  <2> QED  BY <1>4, <2>1
<1>6. PICK it :
        /\ it = CHOOSE g : g = [s \in SUBSET {i} |-> IF s = {} THEN 0
                                  ELSE T[CHOOSE x \in s : TRUE].pnl + g[s \ {CHOOSE x \in s : TRUE}]]
        /\ MapThenSumSet(LAMBDA j : T[j].pnl, {i}) = it[{i}]
  BY DEF MapThenSumSet, MapThenFoldSet
<1>7. it = [s \in SUBSET {i} |-> IF s = {} THEN 0
              ELSE T[CHOOSE x \in s : TRUE].pnl + it[s \ {CHOOSE x \in s : TRUE}]]
  BY <1>5, <1>6
<1>8. it[{}] = 0
  BY <1>7
<1>9. it[{i}] = T[i].pnl + it[{}]
  <2>1. {i} \in SUBSET {i} /\ {i} # {} /\ (CHOOSE x \in {i} : TRUE) = i /\ {i} \ {i} = {}
    OBVIOUS
  <2> QED  BY <1>7, <2>1
<1> QED  BY <1>6, <1>8, <1>9

\* With no trade above a share of the profit, it takes so many winners.
LEMMA ManyWinners ==
  ASSUME NEW w, NEW n \in Nat, NEW G, PartialSums(G, w, n), \A k \in 1..n : w[k].pnl \in Int,
         NEW B \in Nat, \A k \in 1..n : 100 * w[k].pnl <= B
  PROVE  /\ Cardinality({i \in 1..n : w[i].pnl > 0}) \in Nat
         /\ 100 * G[n] <= B * Cardinality({i \in 1..n : w[i].pnl > 0})
<1> DEFINE W(k) == {i \in 1..k : w[i].pnl > 0}
           T == {k \in Nat : k <= n => 100 * G[k] <= B * Cardinality(W(k))}
<1>1. ASSUME NEW k \in Nat PROVE IsFiniteSet(W(k)) /\ Cardinality(W(k)) \in Nat
  <2>1. IsFiniteSet(1..k) /\ W(k) \subseteq 1..k
    BY FS_Interval
  <2>2. IsFiniteSet(W(k))
    BY <2>1, FS_Subset
  <2> QED  BY <2>2, FS_CardinalityType
<1>2. 0 \in T
  <2>1. W(0) = {}
    OBVIOUS
  <2>2. Cardinality(W(0)) = 0
    BY <2>1, FS_EmptySet
  <2> HIDE DEF W
  <2> QED  BY <2>2 DEF PartialSums
<1>3. ASSUME NEW k \in Nat, k \in T PROVE k + 1 \in T
  <2> SUFFICES ASSUME k + 1 <= n PROVE 100 * G[k + 1] <= B * Cardinality(W(k + 1))
    OBVIOUS
  <2>1. PICK j : j = k + 1
    OBVIOUS
  <2>2. j \in 1..n /\ j - 1 = k /\ k \in 0..n /\ j \in Nat
    BY <2>1
  <2>3. G[j] = G[k] + w[j].pnl /\ G[k] \in Int /\ w[j].pnl \in Int /\ 100 * w[j].pnl <= B
    BY <2>2 DEF PartialSums
  <2>4. PICK a : a = Cardinality(W(k))
    OBVIOUS
  <2>5. PICK b : b = Cardinality(W(j))
    OBVIOUS
  <2>6. a \in Nat /\ 100 * G[k] <= B * a
    <3>1. 100 * G[k] <= B * Cardinality(W(k))
      BY <1>3, <2>2
    <3>2. Cardinality(W(k)) \in Nat
      BY <1>1
    <3> QED  BY <3>1, <3>2, <2>4
  <2>7. CASE w[j].pnl > 0
    <3>1. W(j) = W(k) \cup {j} /\ j \notin W(k)
      BY <2>1, <2>2, <2>7
    <3>2. b = a + 1
      BY <1>1, <2>4, <2>5, <3>1, FS_AddElement
    <3>3. B * b = B * a + B
      BY <2>6, <3>2
    <3>4. PICK p, q : p = B * b /\ q = B * a
      OBVIOUS
    <3>5. p \in Int /\ q \in Int
      BY <2>6, <3>2, <3>4
    <3>6. 100 * G[j] <= p
      BY <2>3, <2>6, <3>3, <3>4, <3>5
    <3> QED  BY <2>1, <2>5, <3>4, <3>6
  <2>8. CASE ~(w[j].pnl > 0)
    <3>1. W(j) = W(k)
      BY <2>1, <2>2, <2>8
    <3>2. b = a
      BY <2>4, <2>5, <3>1
    <3>3. PICK q : q = B * a
      OBVIOUS
    <3>4. q \in Int
      BY <2>6, <3>3
    <3>5. 100 * G[j] <= q
      BY <2>3, <2>6, <2>8, <3>3, <3>4
    <3> QED  BY <2>1, <2>5, <3>2, <3>3, <3>5
  <2> QED  BY <2>7, <2>8
<1>4. n \in T
  <2>1. \A k \in Nat : k \in T => k + 1 \in T
    BY <1>3
  <2> HIDE DEF T
  <2> QED  BY <1>2, <2>1, SetInduction
<1>5. Cardinality(W(n)) \in Nat
  BY <1>1
<1>6. 100 * G[n] <= B * Cardinality(W(n))
  BY <1>4
<1> QED  BY <1>5, <1>6

-----------------------------------------------------------------------------
(* Reviews.                                                                *)

DayStarts(T) == {i \in DOMAIN T : T[i].firstOfDay}
EquityBefore(T, i) == StartingEquity + Pnl(SubSeq(T, 1, i - 1))

MoreThanLuck(T) ==
  /\ \A i \in DOMAIN T : Pnl(T) - MapThenSumSet(LAMBDA j : T[j].pnl, {i}) > 0
  /\ Cardinality({i \in DOMAIN T : T[i].pnl > 0}) >= 3
  /\ \A c \in Known : \E d \in Known \ {c} : Pnl(InCondition(T, d)) > 0
  /\ \A i \in DayStarts(T) : \A j \in DayStarts(T) \cup {Len(T) + 1} :
       i < j => 100 * (EquityBefore(T, i) - EquityBefore(T, j))
                  < MaxDdGraduationPct * EquityBefore(T, i)

LEMMA PassIsMoreThanLuck ==
  ASSUME NEW T \in Seq(ClosedTrades), EvaluateStrategy(T) = "pass"
  PROVE  MoreThanLuck(T)
<1>1. /\ DrawdownPasses(T) /\ Cardinality(ProfitableConditions(T)) >= MinConditions
      /\ SharePasses(T)
  BY DEF EvaluateStrategy
<1>2. PICK n : n = Len(T)
  OBVIOUS
<1>3. n \in Nat /\ DOMAIN T = 1..n /\ \A k \in 1..n : T[k].pnl \in Int
  <2>1. n \in Nat /\ DOMAIN T = 1..n /\ \A k \in 1..n : T[k] \in ClosedTrades
    BY <1>2, LenProperties, ElementOfSeq
  <2> QED  BY <2>1, GraduationAssumption
<1>4. PICK G : PartialSums(G, T, n) /\ Pnl(T) = G[n]
  BY <1>3, PnlSums
<1>5. PICK P : P = Pnl(T)
  OBVIOUS
<1>6. P \in Nat /\ P > 0 /\ \A k \in 1..n : 100 * T[k].pnl <= MaxSharePct * P
  <2>1. P \in Int
    BY <1>3, <1>4, <1>5 DEF PartialSums
  <2> QED  BY <2>1, <1>1, <1>3, <1>5 DEF SharePasses
<1>7. MaxSharePct \in Nat /\ 2 * MaxSharePct < 100 /\ MinConditions \in Nat /\ MinConditions >= 2
      /\ MaxDdGraduationPct \in Nat /\ MaxDdGraduationPct > 0
      /\ StartingEquity \in Nat /\ StartingEquity > 0
  BY GraduationAssumption
<1>8. PICK B : B = MaxSharePct * P
  OBVIOUS
<1>9. B \in Nat /\ 2 * B < 100 * P
  <2>1. (100 - 2 * MaxSharePct) * P > 0
    BY <1>6, <1>7
  <2>2. (100 - 2 * MaxSharePct) * P = 100 * P - 2 * (MaxSharePct * P)
    BY <1>6, <1>7
  <2>3. B \in Nat
    BY <1>6, <1>7, <1>8
  <2> QED  BY <2>1, <2>2, <2>3, <1>6, <1>8
<1>10. \A i \in DOMAIN T : Pnl(T) - MapThenSumSet(LAMBDA j : T[j].pnl, {i}) > 0
  <2> SUFFICES ASSUME NEW i \in 1..n
               PROVE  Pnl(T) - MapThenSumSet(LAMBDA j : T[j].pnl, {i}) > 0
    BY <1>3
  <2>1. MapThenSumSet(LAMBDA j : T[j].pnl, {i}) = T[i].pnl
    BY <1>3, SumOfOne
  <2>2. 100 * T[i].pnl <= B /\ T[i].pnl \in Int
    BY <1>3, <1>6, <1>8
  <2>3. P - T[i].pnl > 0
    BY <2>2, <1>6, <1>9
  <2> QED  BY <2>1, <2>3, <1>5
<1>11. Cardinality({i \in DOMAIN T : T[i].pnl > 0}) >= 3
  <2>1. PICK w : w = Cardinality({i \in 1..n : T[i].pnl > 0})
    OBVIOUS
  <2>2. w \in Nat /\ 100 * P <= B * w
    BY <2>1, <1>3, <1>4, <1>5, <1>6, <1>8, <1>9, ManyWinners
  <2>3. w >= 3
    <3> SUFFICES ASSUME w \in {0, 1, 2} PROVE FALSE
      BY <2>2
    <3>1. B * w <= 2 * B
      BY <1>9
    <3> QED  BY <3>1, <2>2, <1>6, <1>9
  <2> QED  BY <2>1, <2>3, <1>3
<1>12. ASSUME NEW c \in Known PROVE \E d \in Known \ {c} : Pnl(InCondition(T, d)) > 0
  <2>1. PICK Q : Q = ProfitableConditions(T)
    OBVIOUS
  <2>2. Q = {d \in Known : Pnl(InCondition(T, d)) > 0}
    BY <2>1 DEF ProfitableConditions
  <2>3. ~(Q \subseteq {c})
    <3> SUFFICES ASSUME Q \subseteq {c} PROVE FALSE
      OBVIOUS
    <3>1. IsFiniteSet({c}) /\ Cardinality({c}) = 1
      BY FS_Singleton
    <3>2. IsFiniteSet(Q) /\ Cardinality(Q) <= 1
      BY <3>1, FS_Subset
    <3>3. Cardinality(Q) \in Nat
      BY <3>2, FS_CardinalityType
    <3> QED  BY <3>2, <3>3, <2>1, <1>1, <1>7
  <2> QED  BY <2>2, <2>3
\* The equity before a day, and the last one, is one the drawdown is taken of.
<1>13. ASSUME NEW i \in DayStarts(T) \cup {n + 1}
       PROVE  /\ i \in 1..(n + 1)
              /\ [trades |-> i - 1, equity |-> EquityBefore(T, i)] \in DailyEquity(T)
  <2>1. i \in 1..(n + 1) /\ (i # n + 1 => i \in 1..n /\ T[i].firstOfDay)
    BY <1>3 DEF DayStarts
  <2>2. PICK j : j = i - 1
    OBVIOUS
  <2>3. j \in 0..n /\ j + 1 = i /\ (j \notin {0, n} => j \in 1..(n - 1) /\ T[j + 1].firstOfDay)
    BY <2>1, <2>2, <1>3
  <2>4. j \in {0, Len(T)} \cup {k \in 1..(Len(T) - 1) : T[k + 1].firstOfDay}
    BY <2>3, <1>2
  <2>5. [trades |-> j, equity |-> StartingEquity + Pnl(SubSeq(T, 1, j))] \in DailyEquity(T)
    BY <2>4 DEF DailyEquity
  <2> QED  BY <2>1, <2>2, <2>5 DEF EquityBefore
<1>14. ASSUME NEW i \in DayStarts(T), NEW j \in DayStarts(T) \cup {n + 1}, i < j
       PROVE  100 * (EquityBefore(T, i) - EquityBefore(T, j)) < MaxDdGraduationPct * EquityBefore(T, i)
  <2>1. PICK p, q : /\ p = [trades |-> i - 1, equity |-> EquityBefore(T, i)]
                    /\ q = [trades |-> j - 1, equity |-> EquityBefore(T, j)]
    OBVIOUS
  <2>2. /\ p \in DailyEquity(T) /\ q \in DailyEquity(T)
        /\ i \in 1..(n + 1) /\ j \in 1..(n + 1)
    BY <2>1, <1>13
  <2>3. p.trades <= q.trades
    BY <2>1, <2>2, <1>3, <1>14
  <2>4. 100 * (p.equity - q.equity) < MaxDdGraduationPct * p.equity
    BY <2>2, <2>3, <1>1 DEF DrawdownPasses
  <2> QED  BY <2>1, <2>4
<1> QED  BY <1>2, <1>3, <1>10, <1>11, <1>12, <1>14 DEF MoreThanLuck

ReviewRow == [trades : Nat, overall : {"not_enough_trades", "pass", "fail"}]

\* A row says what the trades of its review say.
RowsInv(rows) ==
  \A k \in 1..Len(rows) :
    /\ rows[k].trades \in 0..Len(paperTrades)
    /\ rows[k].overall = EvaluateStrategy(SubSeq(paperTrades, 1, rows[k].trades))

GraduationInv ==
  /\ paperTrades \in Seq(ClosedTrades) /\ reviews \in Seq(ReviewRow)
  /\ review \in [pc : {"idle", "report", "record"}, results : Seq(ReviewRow)]
  /\ RowsInv(reviews) /\ RowsInv(review.results)

LEMMA RowsStay ==
  ASSUME paperTrades \in Seq(ClosedTrades), NEW t \in ClosedTrades,
         paperTrades' = Append(paperTrades, t), NEW rows, RowsInv(rows)
  PROVE  RowsInv(rows)'
<1>1. Len(paperTrades) \in Nat /\ Len(paperTrades') = Len(paperTrades) + 1
  BY LenProperties, AppendProperties
<1>2. paperTrades' \in Seq(ClosedTrades)
        /\ \A i \in 1..Len(paperTrades) : paperTrades'[i] = paperTrades[i]
  BY AppendProperties
<1>3. ASSUME NEW m \in 0..Len(paperTrades)
      PROVE  SubSeq(paperTrades', 1, m) = SubSeq(paperTrades, 1, m)
  <2>1. PICK a, b, v, w : /\ a = SubSeq(paperTrades, 1, m) /\ b = SubSeq(paperTrades', 1, m)
                          /\ v = paperTrades /\ w = paperTrades'
    OBVIOUS
  <2>2. a \in Seq(ClosedTrades) /\ Len(a) = m /\ \A i \in 1..m : a[i] = v[i]
    BY <2>1, Prefix
  <2>3. m \in 0..Len(w) /\ w \in Seq(ClosedTrades)
    BY <2>1, <1>1, <1>2
  <2>4. b \in Seq(ClosedTrades) /\ Len(b) = m /\ \A i \in 1..m : b[i] = w[i]
    BY <2>1, <2>3, Prefix
  <2>5. \A i \in 1..m : w[i] = v[i]
    BY <1>1, <1>2, <2>1
  <2>6. a = b
    BY <2>2, <2>4, <2>5, SeqEqual
  <2> QED  BY <2>1, <2>6
<1>4. \A m \in 0..Len(paperTrades) : m \in 0..Len(paperTrades')
  BY <1>1
<1> QED  BY <1>3, <1>4 DEF RowsInv

LEMMA GraduationInductive ==
  ASSUME GraduationInv, [GraduationNext]_graduationVars
  PROVE  GraduationInv'
<1> USE DEF GraduationInv
<1>1. CASE CloseTrade
  <2>1. PICK t \in ClosedTrades : paperTrades' = Append(paperTrades, t)
    BY <1>1 DEF CloseTrade
  <2>2. PICK old, new : old = reviews /\ new = review.results
    OBVIOUS
  <2>3. RowsInv(old)' /\ RowsInv(new)'
    BY <2>1, <2>2, RowsStay
  <2>4. paperTrades' \in Seq(ClosedTrades)
    BY <2>1, AppendProperties
  <2> QED  BY <1>1, <2>2, <2>3, <2>4 DEF CloseTrade, RowsInv
<1>2. CASE Evaluate
  <2>1. PICK n : n = Len(paperTrades)
    OBVIOUS
  <2>2. n \in Nat /\ SubSeq(paperTrades, 1, n) = paperTrades
    BY <2>1, LenProperties, SubSeqFull
  <2>3. PICK row : row = [trades |-> n, overall |-> EvaluateStrategy(paperTrades)]
    OBVIOUS
  <2>4. row \in ReviewRow
    BY <2>2, <2>3 DEF ReviewRow, EvaluateStrategy
  <2>5. PICK rows : rows = IF ~active THEN <<>> ELSE <<row>>
    OBVIOUS
  <2>6. review' = [pc |-> "report", results |-> rows]
    BY <1>2, <2>1, <2>3, <2>5 DEF Evaluate
  <2>7. rows \in Seq(ReviewRow) /\ \A k \in 1..Len(rows) : rows[k] = row
    BY <2>4, <2>5
  <2>8. RowsInv(rows)
    <3>1. /\ row.trades = n /\ row.overall = EvaluateStrategy(paperTrades)
          /\ n \in 0..Len(paperTrades)
      BY <2>1, <2>2, <2>3
    <3> SUFFICES ASSUME NEW k \in 1..Len(rows)
                 PROVE  /\ rows[k].trades \in 0..Len(paperTrades)
                        /\ rows[k].overall = EvaluateStrategy(SubSeq(paperTrades, 1, rows[k].trades))
      BY DEF RowsInv
    <3>2. rows[k] = row
      BY <2>7
    <3> QED  BY <3>1, <3>2, <2>2
  <2>9. /\ paperTrades' = paperTrades /\ reviews' = reviews /\ review'.results = rows
        /\ review' \in [pc : {"idle", "report", "record"}, results : Seq(ReviewRow)]
    <3>1. paperTrades' = paperTrades /\ reviews' = reviews
      BY <1>2 DEF Evaluate
    <3>2. [pc |-> "report", results |-> rows]
            \in [pc : {"idle", "report", "record"}, results : Seq(ReviewRow)]
      BY <2>7
    <3> QED  BY <3>1, <3>2, <2>6
  <2> QED  BY <2>8, <2>9 DEF RowsInv
<1>3. CASE WriteReport
  BY <1>3 DEF WriteReport, RowsInv
<1>4. CASE RecordReviews
  <2>1. PICK old, new : old = reviews /\ new = review.results
    OBVIOUS
  <2>2. old \in Seq(ReviewRow) /\ new \in Seq(ReviewRow) /\ RowsInv(old) /\ RowsInv(new)
    BY <2>1
  <2>3. PICK both : both = old \o new
    OBVIOUS
  <2>4. /\ both \in Seq(ReviewRow) /\ Len(both) = Len(old) + Len(new)
        /\ \A k \in 1..Len(both) : both[k] = IF k <= Len(old) THEN old[k] ELSE new[k - Len(old)]
    BY <2>2, <2>3, ConcatProperties
  <2>5. RowsInv(both)
    <3> SUFFICES ASSUME NEW k \in 1..Len(both)
                 PROVE  /\ both[k].trades \in 0..Len(paperTrades)
                        /\ both[k].overall = EvaluateStrategy(SubSeq(paperTrades, 1, both[k].trades))
      BY DEF RowsInv
    <3>1. Len(old) \in Nat /\ Len(new) \in Nat
      BY <2>2, LenProperties
    <3>2. CASE k <= Len(old)
      <4>1. k \in 1..Len(old) /\ both[k] = old[k]
        BY <2>4, <3>1, <3>2
      <4> QED  BY <4>1, <2>2 DEF RowsInv
    <3>3. CASE ~(k <= Len(old))
      <4>1. PICK j : j = k - Len(old)
        OBVIOUS
      <4>2. j \in 1..Len(new) /\ both[k] = new[j]
        BY <2>4, <3>1, <3>3, <4>1
      <4> QED  BY <4>2, <2>2 DEF RowsInv
    <3> QED  BY <3>2, <3>3
  <2>6. reviews' = both /\ review' = NoReview /\ paperTrades' = paperTrades
    BY <1>4, <2>1, <2>3 DEF RecordReviews
  <2> QED  BY <2>4, <2>5, <2>6 DEF NoReview, RowsInv
<1>5. CASE ReviewDies
  BY <1>5 DEF ReviewDies, RowsInv, NoReview
<1>6. CASE Surroundings
  BY <1>6 DEF Surroundings, RowsInv
<1>7. CASE UNCHANGED graduationVars
  BY <1>7 DEF graduationVars, RowsInv
<1> QED  BY <1>1, <1>2, <1>3, <1>4, <1>5, <1>6, <1>7 DEF GraduationNext

\* A pass does not hang on one trade, one market condition or two winners.
THEOREM PassesAreMoreThanLuck == GraduationSpec => []GraduatesOnMoreThanLuck
<1>1. GraduationInit => GraduationInv
  BY EmptySeq DEF GraduationInit, GraduationInv, RowsInv, NoReview
<1>2. GraduationInv /\ [GraduationNext]_graduationVars => GraduationInv'
  BY GraduationInductive
<1>3. GraduationInv => GraduatesOnMoreThanLuck
  <2> SUFFICES ASSUME GraduationInv, NEW k \in DOMAIN reviews, reviews[k].overall = "pass",
                      NEW T, T = SubSeq(paperTrades, 1, reviews[k].trades)
               PROVE  MoreThanLuck(T)
    BY DEF GraduatesOnMoreThanLuck, MoreThanLuck, DayStarts, EquityBefore
  <2>1. k \in 1..Len(reviews)
    BY LenProperties DEF GraduationInv
  <2>2. PICK m : m = reviews[k].trades
    OBVIOUS
  <2>3. m \in 0..Len(paperTrades) /\ EvaluateStrategy(T) = "pass"
    BY <2>1, <2>2 DEF GraduationInv, RowsInv
  <2>4. T \in Seq(ClosedTrades)
    BY <2>2, <2>3, Prefix DEF GraduationInv
  <2> QED  BY <2>3, <2>4, PassIsMoreThanLuck
<1> QED  BY <1>1, <1>2, <1>3, PTL DEF GraduationSpec
=============================================================================
