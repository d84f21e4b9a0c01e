------------------------------ MODULE DataProofs ------------------------------
(***************************************************************************)
(* Refreshes of hourly bars race one another, fail and die: for every set  *)
(* of symbols and of refreshing processes, what they cache is final and    *)
(* without gaps.  Processes that open the database die inside its          *)
(* migrations: for every number of them and all rows, a recorded version   *)
(* is whole, as long as nothing overlaps a migration.                      *)
(***************************************************************************)
EXTENDS MarketData, Migrations, CommonLemmas, SequenceTheorems

-----------------------------------------------------------------------------
(* The hourly cache.                                                       *)

LEMMA TimesOfWrite ==
  ASSUME NEW cache, NEW bars
  PROVE  Times(WriteBars(cache, bars)) = Times(cache) \cup Times(bars)
BY DEF Times, WriteBars

-----------------------------------------------------------------------------
(* The strengthening under which the promises on hourly bars are inductive. *)

RefreshState ==
  [pc : {"idle", "next", "fetch", "write", "done"}, current : Nat, todo : SUBSET Symbols,
   symbol : Symbols \cup {Nobody}, since : Nat, fetched : SUBSET [at : Nat, asOf : Nat],
   failed : SUBSET Symbols]

HourlyTypeOK ==
  /\ hour \in Nat
  /\ hourly \in [Symbols -> SUBSET [at : Nat, asOf : Nat]]
  /\ refresh \in [Refreshers -> RefreshState]

\* What a run holds: an hour that has come; a symbol it is still to pass; a
\* history without a gap up to where it resumes; and, fetched at or after that
\* hour, everything from there.
RefreshHolds(p) ==
  LET r == refresh[p] IN
  /\ r.current <= hour
  /\ r.pc = "done" => r.todo = {}
  /\ r.pc \in {"fetch", "write"} =>
       r.symbol \in r.todo /\ \A h \in Nat : h < r.since => h \in Times(hourly[r.symbol])
  /\ r.pc = "write" =>
       \E t \in Nat : /\ r.current <= t /\ t <= hour
                      /\ r.fetched = {[at |-> h, asOf |-> t] : h \in r.since..t}
  /\ r.pc # "idle" =>
       \A s \in Symbols \ (r.todo \cup r.failed) :
         \A h \in Nat : h < r.current => h \in Times(hourly[s])

HourlyInv ==
  /\ HourlyTypeOK
  /\ \A s \in Symbols : \A b \in hourly[s] :
       /\ b.at < b.asOf /\ b.asOf <= hour
       /\ \A h \in Nat : h <= b.at => h \in Times(hourly[s])
  /\ \A p \in Refreshers : RefreshHolds(p)

-----------------------------------------------------------------------------
(* What a run holds stays true while others act: the clock goes forward and *)
(* no bar leaves the cache.                                                 *)

LEMMA HoldsStill ==
  ASSUME HourlyInv, NEW p \in Refreshers, refresh'[p] = refresh[p],
         hour' \in Nat, hour <= hour',
         \A s \in Symbols : Times(hourly[s]) \subseteq Times(hourly'[s])
  PROVE  RefreshHolds(p)'
<1>a. refresh[p] \in RefreshState /\ hour \in Nat /\ RefreshHolds(p)
  BY DEF HourlyInv, HourlyTypeOK
<1>1. refresh'[p].current <= hour'
  BY <1>a DEF RefreshHolds, RefreshState
<1>2. refresh'[p].pc = "done" => refresh'[p].todo = {}
  BY <1>a DEF RefreshHolds
<1>3. refresh'[p].pc \in {"fetch", "write"} =>
        /\ refresh'[p].symbol \in refresh'[p].todo
        /\ \A h \in Nat : h < refresh'[p].since => h \in Times(hourly'[refresh'[p].symbol])
  BY <1>a DEF RefreshHolds, RefreshState
<1>4. refresh'[p].pc = "write" =>
        \E t \in Nat : /\ refresh'[p].current <= t /\ t <= hour'
                       /\ refresh'[p].fetched = {[at |-> h, asOf |-> t] : h \in refresh'[p].since..t}
  <2>1. SUFFICES ASSUME refresh[p].pc = "write"
        PROVE \E t \in Nat : /\ refresh[p].current <= t /\ t <= hour'
                       /\ refresh[p].fetched = {[at |-> h, asOf |-> t] : h \in refresh[p].since..t}
    OBVIOUS
  <2>2. PICK t \in Nat : /\ refresh[p].current <= t /\ t <= hour
                       /\ refresh[p].fetched = {[at |-> h, asOf |-> t] : h \in refresh[p].since..t}
    BY <1>a, <2>1 DEF RefreshHolds
  <2>3. t <= hour'
    BY <1>a, <2>2
  <2> QED  BY <2>2, <2>3
<1>5. refresh'[p].pc # "idle" =>
        \A s \in Symbols \ (refresh'[p].todo \cup refresh'[p].failed) :
          \A h \in Nat : h < refresh'[p].current => h \in Times(hourly'[s])
  BY <1>a DEF RefreshHolds
<1> QED  BY <1>1, <1>2, <1>3, <1>4, <1>5 DEF RefreshHolds

\* A step of one run that leaves the cache and the clock alone only has to
\* re-establish what that run holds.
LEMMA OneRunMoves ==
  ASSUME HourlyInv, NEW p \in Refreshers, NEW r \in RefreshState,
         refresh' = [refresh EXCEPT ![p] = r], UNCHANGED <<hour, hourly>>, RefreshHolds(p)'
  PROVE  HourlyInv'
<1>1. HourlyTypeOK'
  BY DEF HourlyInv, HourlyTypeOK
<1>2. \A s \in Symbols : \A b \in hourly'[s] :
        /\ b.at < b.asOf /\ b.asOf <= hour'
        /\ \A h \in Nat : h <= b.at => h \in Times(hourly'[s])
  BY DEF HourlyInv
<1>3. ASSUME NEW q \in Refreshers, q # p PROVE RefreshHolds(q)'
  <2>1. refresh'[q] = refresh[q] /\ hour' \in Nat /\ hour <= hour'
    BY <1>3 DEF HourlyInv, HourlyTypeOK
  <2> QED  BY <2>1, HoldsStill
<1> QED  BY <1>1, <1>2, <1>3 DEF HourlyInv

LEMMA InitHourly == MarketInit => HourlyInv
<1> SUFFICES ASSUME MarketInit PROVE HourlyInv
  OBVIOUS
<1>1. IdleRefresh \in RefreshState
  BY DEF IdleRefresh, RefreshState
<1>2. HourlyTypeOK
  BY <1>1 DEF MarketInit, HourlyTypeOK
<1>3. \A p \in Refreshers : RefreshHolds(p)
  BY DEF MarketInit, RefreshHolds, IdleRefresh
<1> QED  BY <1>2, <1>3 DEF MarketInit, HourlyInv

LEMMA ClockHourly ==
  ASSUME HourlyInv, Clock
  PROVE  HourlyInv'
<1>1. hour \in Nat /\ hour' = hour + 1 /\ hourly' = hourly /\ refresh' = refresh
  BY DEF Clock, HourlyInv, HourlyTypeOK
<1>2. HourlyTypeOK'
  BY <1>1 DEF HourlyInv, HourlyTypeOK
<1>3. ASSUME NEW s \in Symbols, NEW b \in hourly'[s]
      PROVE  /\ b.at < b.asOf /\ b.asOf <= hour'
             /\ \A h \in Nat : h <= b.at => h \in Times(hourly'[s])
  <2>1. b \in [at : Nat, asOf : Nat]
    BY <1>1, <1>3 DEF HourlyInv, HourlyTypeOK
  <2> QED  BY <1>1, <1>3, <2>1 DEF HourlyInv
<1>4. \A p \in Refreshers : RefreshHolds(p)'
  BY <1>1, HoldsStill
<1> QED  BY <1>2, <1>3, <1>4 DEF HourlyInv

-----------------------------------------------------------------------------
(* The steps of a run.                                                      *)

LEMMA StartHourly ==
  ASSUME HourlyInv, NEW p \in Refreshers, RefreshStart(p)
  PROVE  HourlyInv'
<1> DEFINE r == [IdleRefresh EXCEPT !.pc = "next", !.current = hour, !.todo = Symbols]
<1>1. hour \in Nat /\ r \in RefreshState
  BY DEF HourlyInv, HourlyTypeOK, IdleRefresh, RefreshState
<1>2. refresh' = [refresh EXCEPT ![p] = r] /\ UNCHANGED <<hour, hourly>>
  BY DEF RefreshStart
<1>3. refresh'[p] = r
  BY <1>2 DEF HourlyInv, HourlyTypeOK
<1>4. r.pc = "next" /\ r.current = hour /\ r.todo = Symbols
  BY DEF IdleRefresh
<1> HIDE DEF r
<1>5. RefreshHolds(p)'
  BY <1>1, <1>2, <1>3, <1>4 DEF RefreshHolds
<1> QED  BY <1>1, <1>2, <1>5, OneRunMoves

LEMMA DiesHourly ==
  ASSUME HourlyInv, NEW p \in Refreshers, RefreshDies(p)
  PROVE  HourlyInv'
<1>1. hour \in Nat /\ IdleRefresh \in RefreshState
  BY DEF HourlyInv, HourlyTypeOK, IdleRefresh, RefreshState
<1>2. refresh' = [refresh EXCEPT ![p] = IdleRefresh] /\ UNCHANGED <<hour, hourly>>
  BY DEF RefreshDies
<1>3. refresh'[p] = IdleRefresh
  BY <1>2 DEF HourlyInv, HourlyTypeOK
<1>4. RefreshHolds(p)'
  BY <1>1, <1>2, <1>3 DEF RefreshHolds, IdleRefresh
<1> QED  BY <1>1, <1>2, <1>4, OneRunMoves

\* A symbol without a gap is complete up to where it is resumed.
LEMMA SinceCovers ==
  ASSUME HourlyInv, NEW s \in Symbols
  PROVE  Since(s) \in Nat /\ \A h \in Nat : h < Since(s) => h \in Times(hourly[s])
<1>1. CASE hourly[s] = {}
  BY <1>1 DEF Since
<1>2. CASE hourly[s] # {}
  <2>1. hour \in Nat /\ hourly[s] \subseteq [at : Nat, asOf : Nat]
    BY DEF HourlyInv, HourlyTypeOK
  <2>2. Times(hourly[s]) \subseteq Nat /\ Times(hourly[s]) # {}
    BY <1>2, <2>1 DEF Times
  <2>3. \A x \in Times(hourly[s]) : x <= hour
    BY <2>1 DEF Times, HourlyInv
  <2>4. Max(Times(hourly[s])) \in Times(hourly[s])
    BY <2>1, <2>2, <2>3, MaxOf
  <2>5. PICK b \in hourly[s] : b.at = Max(Times(hourly[s]))
    BY <2>4 DEF Times
  <2>6. \A h \in Nat : h <= b.at => h \in Times(hourly[s])
    BY DEF HourlyInv
  <2>7. b.at \in Nat /\ Since(s) = b.at + 1
    BY <1>2, <2>1, <2>5 DEF Since
  <2> QED  BY <2>6, <2>7
<1> QED  BY <1>1, <1>2

LEMMA SymbolHourly ==
  ASSUME HourlyInv, NEW p \in Refreshers, NEW s \in Symbols, RefreshSymbol(p, s)
  PROVE  HourlyInv'
<1> DEFINE r == [refresh[p] EXCEPT !.pc = "fetch", !.symbol = s, !.since = Since(s)]
<1>1. refresh[p] \in RefreshState /\ RefreshHolds(p) /\ refresh[p].pc = "next"
      /\ s \in refresh[p].todo
  BY DEF HourlyInv, HourlyTypeOK, RefreshSymbol
<1>2. r \in RefreshState
  BY <1>1, SinceCovers DEF RefreshState
<1>3. refresh' = [refresh EXCEPT ![p] = r] /\ UNCHANGED <<hour, hourly>>
  BY <1>1 DEF RefreshSymbol, HourlyInv, HourlyTypeOK, RefreshState
<1>4. refresh'[p] = r
  BY <1>3 DEF HourlyInv, HourlyTypeOK
<1>5. /\ r.current = refresh[p].current /\ r.todo = refresh[p].todo
      /\ r.failed = refresh[p].failed /\ r.pc = "fetch" /\ r.symbol = s /\ r.since = Since(s)
  BY <1>1 DEF RefreshState
<1> HIDE DEF r
<1>6. RefreshHolds(p)'
  BY <1>1, <1>3, <1>4, <1>5, SinceCovers DEF RefreshHolds
<1> QED  BY <1>2, <1>3, <1>6, OneRunMoves

LEMMA FetchHourly ==
  ASSUME HourlyInv, NEW p \in Refreshers, RefreshFetch(p)
  PROVE  HourlyInv'
<1> DEFINE bars == {[at |-> h, asOf |-> hour] : h \in refresh[p].since..hour}
           r == [refresh[p] EXCEPT !.pc = "write", !.fetched = bars]
<1>1. refresh[p] \in RefreshState /\ RefreshHolds(p) /\ refresh[p].pc = "fetch" /\ hour \in Nat
  BY DEF HourlyInv, HourlyTypeOK, RefreshFetch
<1>2. bars \subseteq [at : Nat, asOf : Nat]
  BY <1>1 DEF RefreshState
<1>3. refresh' = [refresh EXCEPT ![p] = r] /\ UNCHANGED <<hour, hourly>>
  BY <1>1 DEF RefreshFetch, HourlyInv, HourlyTypeOK, RefreshState
<1>4. refresh'[p] = r
  BY <1>3 DEF HourlyInv, HourlyTypeOK
<1>5. /\ r.current = refresh[p].current /\ r.todo = refresh[p].todo
      /\ r.failed = refresh[p].failed /\ r.pc = "write" /\ r.fetched = bars
      /\ r.symbol = refresh[p].symbol /\ r.since = refresh[p].since
  BY <1>1 DEF RefreshState
<1>6. r \in RefreshState
  <2> HIDE DEF bars
  <2> QED  BY <1>1, <1>2 DEF RefreshState
<1>7. \E t \in Nat : /\ r.current <= t /\ t <= hour
                     /\ r.fetched = {[at |-> h, asOf |-> t] : h \in r.since..t}
  <2>1. r.current <= hour /\ hour <= hour
    BY <1>1, <1>5 DEF RefreshHolds
  <2> QED  BY <1>1, <1>5, <2>1
<1> HIDE DEF r
<1>8. RefreshHolds(p)'
  BY <1>1, <1>3, <1>4, <1>5, <1>7 DEF RefreshHolds
<1> QED  BY <1>3, <1>6, <1>8, OneRunMoves

-----------------------------------------------------------------------------
(* A symbol is passed: its bars are written, or its fetch failed.           *)

LEMMA PassedType ==
  ASSUME HourlyInv, NEW p \in Refreshers, refresh[p].pc \in {"fetch", "write"}
  PROVE  /\ Passed(p) \in RefreshState
         /\ Passed(p).pc \in {"next", "done"}
         /\ Passed(p).pc = "done" => Passed(p).todo = {}
         /\ Passed(p).todo = refresh[p].todo \ {refresh[p].symbol}
         /\ Passed(p).current = refresh[p].current
         /\ Passed(p).failed = refresh[p].failed
         /\ refresh[p].symbol \in Symbols
<1>1. refresh[p] \in RefreshState /\ RefreshHolds(p)
  BY DEF HourlyInv, HourlyTypeOK
<1>2. refresh[p].symbol \in Symbols /\ refresh[p].symbol \in refresh[p].todo
  BY <1>1 DEF RefreshHolds, RefreshState
<1>3. Passed(p) \in RefreshState
  <2>1. (IF refresh[p].todo = {refresh[p].symbol} THEN "done" ELSE "next") \in {"next", "done"}
    OBVIOUS
  <2> QED  BY <1>1, <2>1 DEF Passed, RefreshState
<1>4. /\ Passed(p).pc = IF refresh[p].todo = {refresh[p].symbol} THEN "done" ELSE "next"
      /\ Passed(p).todo = refresh[p].todo \ {refresh[p].symbol}
      /\ Passed(p).current = refresh[p].current
      /\ Passed(p).failed = refresh[p].failed
  BY <1>1 DEF Passed, RefreshState
<1> QED  BY <1>2, <1>3, <1>4

LEMMA FailsHourly ==
  ASSUME HourlyInv, NEW p \in Refreshers, RefreshFails(p)
  PROVE  HourlyInv'
<1> DEFINE r == [Passed(p) EXCEPT !.failed = refresh[p].failed \cup {refresh[p].symbol}]
<1>1. refresh[p].pc = "fetch" /\ refresh[p] \in RefreshState /\ RefreshHolds(p)
  BY DEF HourlyInv, HourlyTypeOK, RefreshFails
<1>2. Passed(p) \in RefreshState /\ refresh[p].symbol \in Symbols
  BY <1>1, PassedType
<1>3. r \in RefreshState
  BY <1>1, <1>2 DEF RefreshState
<1>4. /\ r.pc \in {"next", "done"} /\ (r.pc = "done" => r.todo = {})
      /\ r.todo = refresh[p].todo \ {refresh[p].symbol}
      /\ r.current = refresh[p].current
      /\ r.failed = refresh[p].failed \cup {refresh[p].symbol}
  BY <1>1, <1>2, PassedType DEF RefreshState
<1>5. refresh' = [refresh EXCEPT ![p] = r] /\ UNCHANGED <<hour, hourly>>
  BY DEF RefreshFails
<1>6. refresh'[p] = r
  BY <1>5 DEF HourlyInv, HourlyTypeOK
<1> HIDE DEF r
<1>7. RefreshHolds(p)'
  BY <1>1, <1>4, <1>5, <1>6 DEF RefreshHolds
<1> QED  BY <1>3, <1>5, <1>7, OneRunMoves

\* What is written: every hour from where the run resumed up to the one it
\* began in, fetched when that was over.
LEMMA CompleteBars ==
  ASSUME HourlyInv, NEW p \in Refreshers, refresh[p].pc = "write"
  PROVE  /\ \A b \in Complete1h(p) :
              /\ b \in [at : Nat, asOf : Nat] /\ b.at < b.asOf /\ b.asOf <= hour
              /\ b.at < refresh[p].current
         /\ \A h \in Nat : refresh[p].since <= h /\ h < refresh[p].current =>
              h \in Times(Complete1h(p))
<1>1. refresh[p] \in RefreshState /\ RefreshHolds(p) /\ hour \in Nat
  BY DEF HourlyInv, HourlyTypeOK
<1>2. PICK t \in Nat : /\ refresh[p].current <= t /\ t <= hour
                      /\ refresh[p].fetched = {[at |-> h, asOf |-> t] : h \in refresh[p].since..t}
  BY <1>1 DEF RefreshHolds
<1>3. refresh[p].current \in Nat /\ refresh[p].since \in Nat
  BY <1>1 DEF RefreshState
<1>4. ASSUME NEW b \in Complete1h(p)
      PROVE  /\ b \in [at : Nat, asOf : Nat] /\ b.at < b.asOf /\ b.asOf <= hour
             /\ b.at < refresh[p].current
  <2>1. b \in refresh[p].fetched /\ b.at < refresh[p].current
    BY <1>4 DEF Complete1h
  <2>2. PICK h \in refresh[p].since..t : b = [at |-> h, asOf |-> t]
    BY <1>2, <2>1
  <2> QED  BY <1>1, <1>2, <1>3, <2>1, <2>2
<1>5. ASSUME NEW h \in Nat, refresh[p].since <= h, h < refresh[p].current
      PROVE  h \in Times(Complete1h(p))
  <2> DEFINE b == [at |-> h, asOf |-> t]
  <2>1. h \in refresh[p].since..t
    BY <1>2, <1>3, <1>5
  <2>2. b \in refresh[p].fetched
    BY <1>2, <2>1
  <2>3. b \in Complete1h(p)
    BY <1>5, <2>2 DEF Complete1h
  <2> QED  BY <2>3 DEF Times
<1> QED  BY <1>4, <1>5

LEMMA WriteHourly ==
  ASSUME HourlyInv, NEW p \in Refreshers, RefreshWrite(p)
  PROVE  HourlyInv'
<1> DEFINE s == refresh[p].symbol
           new == WriteBars(hourly[s], Complete1h(p))
<1>1. /\ refresh[p].pc = "write" /\ refresh[p] \in RefreshState /\ RefreshHolds(p) /\ hour \in Nat
      /\ refresh[p].current \in Nat /\ refresh[p].since \in Nat
  BY DEF HourlyInv, HourlyTypeOK, RefreshWrite, RefreshState
<1>2. s \in Symbols /\ Passed(p) \in RefreshState
  BY <1>1, PassedType
<1>3. hourly' = [hourly EXCEPT ![s] = new] /\ refresh' = [refresh EXCEPT ![p] = Passed(p)]
      /\ hour' = hour
  BY DEF RefreshWrite
<1>4. hourly'[s] = new /\ \A u \in Symbols \ {s} : hourly'[u] = hourly[u]
  BY <1>2, <1>3 DEF HourlyInv, HourlyTypeOK
<1>5. new \subseteq hourly[s] \cup Complete1h(p)
      /\ Times(new) = Times(hourly[s]) \cup Times(Complete1h(p))
  BY TimesOfWrite DEF WriteBars
<1>6. \A u \in Symbols : Times(hourly[u]) \subseteq Times(hourly'[u])
  BY <1>4, <1>5
<1>7. HourlyTypeOK'
  <2>1. Complete1h(p) \subseteq [at : Nat, asOf : Nat]
    BY <1>1, CompleteBars
  <2>2. new \subseteq [at : Nat, asOf : Nat]
    BY <1>2, <1>5, <2>1 DEF HourlyInv, HourlyTypeOK
  <2> HIDE DEF new
  <2> QED  BY <1>1, <1>2, <1>3, <2>2 DEF HourlyInv, HourlyTypeOK
<1>8. \A h \in Nat : h < refresh[p].current => h \in Times(new)
  <2>1. ASSUME NEW h \in Nat, h < refresh[p].current PROVE h \in Times(new)
    <3>1. CASE h < refresh[p].since
      BY <1>1, <1>5, <3>1 DEF RefreshHolds
    <3>2. CASE refresh[p].since <= h
      BY <1>1, <1>5, <2>1, <3>2, CompleteBars
    <3> QED  BY <1>1, <3>1, <3>2
  <2> QED  BY <2>1
<1>9. ASSUME NEW u \in Symbols, NEW b \in hourly'[u]
      PROVE  /\ b.at < b.asOf /\ b.asOf <= hour'
             /\ \A h \in Nat : h <= b.at => h \in Times(hourly'[u])
  <2>1. CASE b \in hourly[u]
    BY <1>3, <1>6, <2>1 DEF HourlyInv
  <2>2. CASE b \notin hourly[u]
    <3>1. u = s /\ b \in Complete1h(p)
      BY <1>4, <1>5, <1>9, <2>2
    <3>2. b.at \in Nat /\ b.at < b.asOf /\ b.asOf <= hour /\ b.at < refresh[p].current
      BY <1>1, <3>1, CompleteBars
    <3>3. \A h \in Nat : h <= b.at => h < refresh[p].current
      BY <1>1, <3>2
    <3> QED  BY <1>3, <1>4, <1>8, <3>1, <3>2, <3>3
  <2> QED  BY <2>1, <2>2
<1>10. RefreshHolds(p)'
  <2>1. refresh'[p] = Passed(p)
    BY <1>3 DEF HourlyInv, HourlyTypeOK
  <2>2. \A u \in Symbols \ (refresh'[p].todo \cup refresh'[p].failed) :
          \A h \in Nat : h < refresh'[p].current => h \in Times(hourly'[u])
    BY <1>1, <1>4, <1>6, <1>8, <2>1, PassedType DEF RefreshHolds
  <2> QED  BY <1>1, <1>3, <2>1, <2>2, PassedType DEF RefreshHolds
<1>11. ASSUME NEW q \in Refreshers, q # p PROVE RefreshHolds(q)'
  <2>1. refresh'[q] = refresh[q] /\ hour' \in Nat /\ hour <= hour'
    BY <1>1, <1>3, <1>11 DEF HourlyInv, HourlyTypeOK
  <2> QED  BY <1>6, <2>1, HoldsStill
<1> QED  BY <1>7, <1>9, <1>10, <1>11 DEF HourlyInv

-----------------------------------------------------------------------------
(* The invariant, and the two promises on hourly bars.                      *)

LEMMA NextHourly ==
  ASSUME HourlyInv, [MarketNext]_marketVars
  PROVE  HourlyInv'
<1>1. CASE UNCHANGED <<hour, hourly, refresh>>
  BY <1>1 DEF HourlyInv, HourlyTypeOK, RefreshHolds
<1>2. CASE Clock
  BY <1>2, ClockHourly
<1>3. ASSUME NEW p \in Refreshers, RefreshStep(p) PROVE HourlyInv'
  BY <1>3, StartHourly, FetchHourly, WriteHourly, FailsHourly, DiesHourly, SymbolHourly
  DEF RefreshStep
<1>4. ASSUME NEW s \in Symbols, DailyScan(s) \/ DailyStudy(s) PROVE HourlyInv'
  <2>1. UNCHANGED <<hour, hourly, refresh>>
    BY <1>4 DEF DailyScan, DailyStudy
  <2> QED  BY <1>1, <2>1
<1>5. CASE UNCHANGED marketVars
  BY <1>1, <1>5 DEF marketVars
<1> QED  BY <1>2, <1>3, <1>4, <1>5 DEF MarketNext, HourlyNext, DailyNext

LEMMA HourlyInvariant == MarketSpec => []HourlyInv
<1>1. HourlyInv /\ [MarketNext]_marketVars => HourlyInv'
  BY NextHourly
<1> QED  BY InitHourly, <1>1, PTL DEF MarketSpec

\* No bar is cached before it is over (intraday.py:116-135), for every set of
\* symbols and however many processes refresh, fail and die.
THEOREM BarsAreFinal == MarketSpec => []HourlyBarsAreFinal
<1>1. HourlyInv => HourlyBarsAreFinal
  <2> SUFFICES ASSUME HourlyInv, NEW s \in Symbols, NEW b \in hourly[s]
               PROVE  b.asOf > b.at
    BY DEF HourlyBarsAreFinal
  <2>1. b \in [at : Nat, asOf : Nat] /\ b.at < b.asOf
    BY DEF HourlyInv, HourlyTypeOK
  <2> QED  BY <2>1
<1> QED  BY HourlyInvariant, <1>1, PTL

\* A refresh that is done has every hour up to its own of every symbol that
\* did not fail, and no symbol has a gap (intraday.py:92-142).
THEOREM RefreshesCatchUp == MarketSpec => []RefreshCatchesUp
<1>1. HourlyInv => RefreshCatchesUp
  <2> SUFFICES ASSUME HourlyInv PROVE RefreshCatchesUp
    OBVIOUS
  <2>1. ASSUME NEW p \in Refreshers, NEW s \in Symbols,
               refresh[p].pc = "done", s \notin refresh[p].failed
        PROVE  0..(refresh[p].current - 1) \subseteq Times(hourly[s])
    <3>1. refresh[p] \in RefreshState /\ refresh[p].todo = {} /\ RefreshHolds(p)
      BY <2>1 DEF HourlyInv, HourlyTypeOK, RefreshHolds
    <3>2. refresh[p].current \in Nat
      BY <3>1 DEF RefreshState
    <3>3. \A h \in Nat : h < refresh[p].current => h \in Times(hourly[s])
      BY <2>1, <3>1 DEF RefreshHolds
    <3> QED  BY <3>2, <3>3
  <2>2. ASSUME NEW s \in Symbols, NEW b \in hourly[s]
        PROVE  0..b.at \subseteq Times(hourly[s])
    <3>1. b.at \in Nat /\ \A h \in Nat : h <= b.at => h \in Times(hourly[s])
      BY <2>2 DEF HourlyInv, HourlyTypeOK
    <3> QED  BY <3>1
  <2> QED  BY <2>1, <2>2 DEF RefreshCatchesUp
<1> QED  BY HourlyInvariant, <1>1, PTL

-----------------------------------------------------------------------------
(* Migrations.                                                             *)

Kill == "strategy_kill_state"
Row == {"written"} \cup UNION {Held[t] : t \in Rebuilt}
Table == [by : {5, 6, 9}, rows : SUBSET Row]
Locals == [pc : {"closed", "open", "next", "run"}, applied : SUBSET Scripts,
           version : Nat, at : Nat]

MigrationsTypeInv ==
  /\ tables \in [TableNames -> {Absent} \cup Table]
  /\ held \in [Rebuilt -> SUBSET Row]
  /\ versions \subseteq Scripts /\ overlapped \in BOOLEAN
  /\ connection \in [Connections -> Locals]
  /\ \A c \in Connections : connection[c].pc = "run" =>
       /\ connection[c].version \in Scripts
       /\ connection[c].at \in 1..(Len(Script(connection[c].version)) + 1)

\* The script that rebuilds a table, and the rows a name stands for.
Owner(t) == IF t = Kill THEN 6 ELSE 9
Rows(u) == IF tables[u] = Absent THEN {} ELSE tables[u].rows

\* Nothing is lost between a table and its copy, and both have a known maker.
PairKept(t) ==
  /\ held[t] \subseteq Rows(t) \cup Rows(Copy(t))
  /\ tables[t] # Absent => tables[t].by \in {5, Owner(t)}
  /\ tables[Copy(t)] # Absent => tables[Copy(t)].by = Owner(t)

\* What the statements of a rebuild before the k-th have left.
Rebuilding(t, k) ==
  /\ k \in 2..4 => tables[Copy(t)] # Absent
  /\ k \in 3..4 => held[t] \subseteq Rows(Copy(t))
  /\ k = 4 => tables[t] = Absent
  /\ k = 5 => tables[t] # Absent /\ tables[t].by = Owner(t)

\* What those of a script before its k-th have left.
Reached(v, k) ==
  /\ v = 6 => Rebuilding(Kill, k)
  /\ v = 8 => (k = 2 => "strategy_registry" \in columns)
  /\ v = 9 => IF k <= 4 THEN Rebuilding("paper_trades", k)
              ELSE Rebuilding("paper_trades", 5) /\ Rebuilding("paper_orders", k - 4)

Complete(v) == Reached(v, Len(Script(v)) + 1)

InOrderBefore(v) == \A w \in Scripts : w < v => w \in versions

\* A process in apply_migrations knows every version and is at a statement
\* whose predecessors have done their part.
MigrationAt(c) ==
  /\ connection[c].applied = versions
  /\ connection[c].pc = "run" =>
       /\ connection[c].version \notin versions
       /\ InOrderBefore(connection[c].version)
       /\ Reached(connection[c].version, connection[c].at)

MigrationsInv ==
  /\ \A t \in Rebuilt : PairKept(t)
  /\ \A v \in versions : Complete(v) /\ InOrderBefore(v)
  /\ \A c, d \in Migrating : c = d
  /\ \A c \in Migrating : MigrationAt(c)

-----------------------------------------------------------------------------
LEMMA Names ==
  /\ Rebuilt = {Kill, "paper_trades", "paper_orders"}
  /\ \A t \in Rebuilt : t \in TableNames /\ Copy(t) \in TableNames /\ Copy(t) \notin Rebuilt
  /\ \A t, u \in Rebuilt : Copy(t) = Copy(u) => t = u
<1>1. Rebuilt = {Kill, "paper_trades", "paper_orders"}
  BY DEF Rebuilt, Kill
<1>2. /\ Copy(Kill) = "strategy_kill_state_v6" /\ Copy("paper_trades") = "paper_trades_new"
      /\ Copy("paper_orders") = "paper_orders_new"
  BY DEF Copy, Kill
<1> QED  BY <1>1, <1>2 DEF TableNames, Kill

LEMMA RebuildSteps ==
  ASSUME NEW t
  PROVE  /\ Len(Rebuild(t)) = 4
         /\ Rebuild(t)[1] = [do |-> "create", table |-> t]
         /\ Rebuild(t)[2] = [do |-> "copy", table |-> t]
         /\ Rebuild(t)[3] = [do |-> "drop", table |-> t]
         /\ Rebuild(t)[4] = [do |-> "rename", table |-> t]
BY DEF Rebuild

LEMMA RebuildFields ==
  ASSUME NEW t
  PROVE  /\ \A j \in 1..4 : Rebuild(t)[j].table = t
         /\ Rebuild(t)[1].do = "create" /\ Rebuild(t)[2].do = "copy"
         /\ Rebuild(t)[3].do = "drop" /\ Rebuild(t)[4].do = "rename"
<1>1. /\ Rebuild(t)[1].table = t /\ Rebuild(t)[2].table = t
      /\ Rebuild(t)[3].table = t /\ Rebuild(t)[4].table = t
  BY DEF Rebuild
<1>2. /\ Rebuild(t)[1].do = "create" /\ Rebuild(t)[2].do = "copy"
      /\ Rebuild(t)[3].do = "drop" /\ Rebuild(t)[4].do = "rename"
  BY DEF Rebuild
<1> QED  BY <1>1, <1>2

\* The scripts statement by statement.
LEMMA ScriptSteps ==
  /\ Script(6) = Rebuild(Kill) /\ Len(Script(6)) = 4
  /\ Script(8) = <<[do |-> "alter", table |-> "strategy_registry"]>> /\ Len(Script(8)) = 1
  /\ Len(Script(9)) = 8
  /\ \A k \in 1..4 : Script(9)[k] = Rebuild("paper_trades")[k]
  /\ \A k \in 5..8 : Script(9)[k] = Rebuild("paper_orders")[k - 4]
  /\ \A v \in Scripts : DOMAIN Script(v) = 1..Len(Script(v))
<1>1. /\ Script(6) = Rebuild(Kill)
      /\ Script(8) = <<[do |-> "alter", table |-> "strategy_registry"]>>
      /\ Script(9) = Rebuild("paper_trades") \o Rebuild("paper_orders")
  BY DEF Script, Kill
<1> DEFINE A == Rebuild("paper_trades")
           B == Rebuild("paper_orders")
           S == [do : {"create", "copy", "drop", "rename"}, table : {"paper_trades", "paper_orders"}]
<1>2. ASSUME NEW t \in {"paper_trades", "paper_orders"} PROVE Rebuild(t) \in Seq(S)
  <2> DEFINE s1 == [do |-> "create", table |-> t]
             s2 == [do |-> "copy", table |-> t]
             s3 == [do |-> "drop", table |-> t]
             s4 == [do |-> "rename", table |-> t]
  <2>1. s1 \in S /\ s2 \in S /\ s3 \in S /\ s4 \in S
    OBVIOUS
  <2>2. Rebuild(t) = <<s1, s2, s3, s4>>
    BY DEF Rebuild
  <2> HIDE DEF S, s1, s2, s3, s4
  <2>3. <<s1, s2, s3, s4>> \in Seq(S)
    BY <2>1
  <2> QED  BY <2>2, <2>3
<1>3. A \in Seq(S) /\ B \in Seq(S) /\ Len(A) = 4 /\ Len(B) = 4
  BY <1>2, RebuildSteps
<1> HIDE DEF A, B, S
<1>4. /\ Len(A \o B) = Len(A) + Len(B)
      /\ \A k \in 1..(Len(A) + Len(B)) : (A \o B)[k] = IF k <= Len(A) THEN A[k] ELSE B[k - Len(A)]
  BY <1>3, ConcatProperties
<1>5. /\ Len(A \o B) = 8 /\ \A k \in 1..4 : (A \o B)[k] = A[k]
      /\ \A k \in 5..8 : (A \o B)[k] = B[k - 4]
  BY <1>3, <1>4
<1>6. Len(Script(6)) = 4 /\ Len(Script(8)) = 1
  BY <1>1, RebuildSteps
<1>7. \A v \in Scripts : DOMAIN Script(v) = 1..Len(Script(v))
  <2>1. DOMAIN Script(6) = 1..Len(Script(6))
    BY <1>1 DEF Rebuild
  <2>2. DOMAIN Script(8) = 1..Len(Script(8))
    BY <1>1
  <2>3. A \o B \in Seq(S)
    BY <1>3, ConcatProperties
  <2>4. DOMAIN Script(9) = 1..Len(Script(9))
    BY <1>1, <2>3 DEF A, B
  <2> QED  BY <2>1, <2>2, <2>4 DEF Scripts
<1> QED  BY <1>1, <1>5, <1>6, <1>7 DEF A, B

LEMMA MigrationsInitially == MigrationsInit => MigrationsTypeInv /\ MigrationsInv
<1> SUFFICES ASSUME MigrationsInit PROVE MigrationsTypeInv /\ MigrationsInv
  OBVIOUS
<1>1. \A t \in Rebuilt : /\ tables[t] = [by |-> 5, rows |-> Held[t]] /\ tables[Copy(t)] = Absent
                         /\ tables[t] # Absent /\ tables[t] \in Table
  <2> TAKE t \in Rebuilt
  <2>1. [by |-> 5, rows |-> Held[t]] \in [by : Nat, rows : SUBSET Row]
    BY DEF Row
  <2>2. [by |-> 5, rows |-> Held[t]] \in Table
    BY DEF Row, Table
  <2>3. [by |-> 5, rows |-> Held[t]] # Absent
    BY <2>1, MigrationsAssumption DEF Row
  <2> QED  BY <2>2, <2>3, Names DEF MigrationsInit
<1>2. MigrationsTypeInv
  <2>1. \A u \in TableNames : tables[u] \in {Absent} \cup Table
    BY <1>1, Names DEF TableNames
  <2>2. tables \in [TableNames -> {Absent} \cup Table]
    BY <2>1 DEF MigrationsInit
  <2>3. held \in [Rebuilt -> SUBSET Row]
    <3>1. Held = [t \in Rebuilt |-> Held[t]] /\ \A t \in Rebuilt : Held[t] \in SUBSET Row
      BY MigrationsAssumption DEF Row
    <3> QED  BY <3>1 DEF MigrationsInit
  <2>4. connection \in [Connections -> Locals]
    <3>1. [Closed EXCEPT !.pc = "open"] = [pc |-> "open", applied |-> {}, version |-> 0, at |-> 0]
      BY DEF Closed
    <3>2. [pc |-> "open", applied |-> {}, version |-> 0, at |-> 0] \in Locals
      BY DEF Locals
    <3> QED  BY <3>1, <3>2 DEF MigrationsInit
  <2>5. versions \subseteq Scripts /\ overlapped \in BOOLEAN
    BY DEF MigrationsInit
  <2>6. \A c \in Connections : connection[c].pc # "run"
    BY DEF MigrationsInit, Closed
  <2> QED  BY <2>2, <2>3, <2>4, <2>5, <2>6 DEF MigrationsTypeInv
<1>3. \A t \in Rebuilt : PairKept(t)
  <2> TAKE t \in Rebuilt
  <2>1. held[t] = Held[t] /\ tables[t].by = 5 /\ tables[t].rows = Held[t]
    <3>1. tables[t] = [by |-> 5, rows |-> Held[t]]
      BY <1>1
    <3>2. held = Held
      BY DEF MigrationsInit
    <3> QED  BY <3>1, <3>2
  <2>2. Rows(t) = Held[t]
    BY <1>1, <2>1 DEF Rows
  <2> QED  BY <1>1, <2>1, <2>2 DEF PairKept
<1>4. Migrating = {} /\ versions = {}
  BY DEF Migrating, MigrationsInit, Closed
<1> QED  BY <1>2, <1>3, <1>4 DEF MigrationsInv

-----------------------------------------------------------------------------
\* The rebuild a statement belongs to.
LEMMA StatementOf ==
  ASSUME NEW v \in Scripts, NEW k \in 1..Len(Script(v))
  PROVE  \/ v = 8 /\ k = 1 /\ Script(v)[k] = [do |-> "alter", table |-> "strategy_registry"]
         \/ \E t \in Rebuilt, j \in 1..4 :
              /\ Script(v)[k] = Rebuild(t)[j] /\ Owner(t) = v
              /\ \/ v = 6 /\ t = Kill /\ j = k
                 \/ v = 9 /\ t = "paper_trades" /\ j = k
                 \/ v = 9 /\ t = "paper_orders" /\ j = k - 4 /\ k > 4
<1>0. Owner(Kill) = 6 /\ Owner("paper_trades") = 9 /\ Owner("paper_orders") = 9
  BY DEF Owner, Kill
<1>1. CASE v = 6
  <2>1. k \in 1..4 /\ Script(v)[k] = Rebuild(Kill)[k]
    BY <1>1, ScriptSteps
  <2> QED  BY <1>0, <1>1, <2>1, Names
<1>2. CASE v = 8
  <2>1. k = 1
    <3>1. Len(Script(8)) = 1
      BY ScriptSteps
    <3>2. k \in 1..Len(Script(8))
      BY <1>2
    <3> QED  BY <3>1, <3>2
  <2>2. Script(8)[1] = [do |-> "alter", table |-> "strategy_registry"]
    BY ScriptSteps
  <2> QED  BY <1>2, <2>1, <2>2
<1>3. CASE v = 9 /\ k \in 1..4
  <2>1. Script(v)[k] = Rebuild("paper_trades")[k]
    BY <1>3, ScriptSteps
  <2> QED  BY <1>0, <1>3, <2>1, Names
<1>4. CASE v = 9 /\ k \in 5..8
  <2>1. Script(v)[k] = Rebuild("paper_orders")[k - 4]
    BY <1>4, ScriptSteps
  <2>2. k - 4 \in 1..4
    BY <1>4
  <2> QED  BY <1>0, <1>4, <2>1, <2>2, Names
<1>5. v = 6 \/ v = 8 \/ (v = 9 /\ k \in 1..4) \/ (v = 9 /\ k \in 5..8)
  <2>1. v = 6 \/ v = 8 \/ v = 9
    BY DEF Scripts
  <2>2. v = 9 => k \in 1..8
    BY ScriptSteps
  <2> QED  BY <2>1, <2>2
<1> QED  BY <1>1, <1>2, <1>3, <1>4, <1>5

\* What the statements of a rebuild do to the two names of their table.
LEMMA StatementEffect ==
  ASSUME MigrationsTypeInv, NEW t \in Rebuilt, NEW j \in 1..4, Succeeds(Rebuild(t)[j]),
         tables' = TablesAfter(Rebuild(t)[j], Owner(t))
  PROVE  /\ DOMAIN tables' = TableNames
         /\ \A u \in TableNames : u # t /\ u # Copy(t) => tables'[u] = tables[u]
         /\ j = 1 => /\ tables'[t] = tables[t]
                     /\ tables'[Copy(t)] = IF tables[Copy(t)] # Absent THEN tables[Copy(t)]
                                           ELSE [by |-> Owner(t), rows |-> {}]
         /\ j = 2 => /\ tables[t] # Absent /\ tables[Copy(t)] # Absent /\ tables'[t] = tables[t]
                     /\ tables'[Copy(t)] = [by |-> tables[Copy(t)].by,
                                            rows |-> tables[Copy(t)].rows \cup tables[t].rows]
         /\ j = 3 => tables'[t] = Absent /\ tables'[Copy(t)] = tables[Copy(t)]
         /\ j = 4 => /\ tables[Copy(t)] # Absent
                     /\ tables'[t] = tables[Copy(t)] /\ tables'[Copy(t)] = Absent
<1> DEFINE s == Rebuild(t)[j]
<1>0. /\ t \in TableNames /\ Copy(t) \in TableNames /\ t # Copy(t) /\ s.table = t
      /\ DOMAIN tables = TableNames
  BY Names, RebuildFields DEF MigrationsTypeInv
<1>1. CASE j = 1
  <2>1. s.do = "create"
    BY <1>1, RebuildFields
  <2>2. tables' = IF tables[Copy(t)] # Absent THEN tables
                  ELSE [tables EXCEPT ![Copy(t)] = [by |-> Owner(t), rows |-> {}]]
    BY <1>0, <2>1 DEF TablesAfter
  <2> QED  BY <1>0, <1>1, <2>2
<1>2. CASE j = 2
  <2>1. s.do = "copy"
    BY <1>2, RebuildFields
  <2>2. tables' = [tables EXCEPT ![Copy(t)].rows = @ \cup tables[t].rows]
    BY <1>0, <2>1 DEF TablesAfter
  <2>3. tables[t] # Absent /\ tables[Copy(t)] # Absent
    BY <1>0, <2>1 DEF Succeeds
  <2>4. tables[Copy(t)] \in Table
    BY <1>0, <2>3 DEF MigrationsTypeInv
  <2>5. tables'[Copy(t)] = [tables[Copy(t)] EXCEPT !.rows = @ \cup tables[t].rows]
    BY <1>0, <2>2
  <2>6. tables'[Copy(t)] = [by |-> tables[Copy(t)].by,
                            rows |-> tables[Copy(t)].rows \cup tables[t].rows]
    BY <2>4, <2>5 DEF Table
  <2> QED  BY <1>0, <1>2, <2>2, <2>3, <2>6
<1>3. CASE j = 3
  <2>1. s.do = "drop"
    BY <1>3, RebuildFields
  <2>2. tables' = [tables EXCEPT ![t] = Absent]
    BY <1>0, <2>1 DEF TablesAfter
  <2> QED  BY <1>0, <1>3, <2>2
<1>4. CASE j = 4
  <2>1. s.do = "rename"
    BY <1>4, RebuildFields
  <2>2. tables' = [tables EXCEPT ![t] = tables[Copy(t)], ![Copy(t)] = Absent]
    BY <1>0, <2>1 DEF TablesAfter
  <2>3. tables[Copy(t)] # Absent
    BY <1>0, <2>1 DEF Succeeds
  <2> QED  BY <1>0, <1>4, <2>2, <2>3
<1> QED  BY <1>1, <1>2, <1>3, <1>4

LEMMA TablesAreNotAbsent == \A x \in Table : x # Absent
BY MigrationsAssumption DEF Table, Row

LEMMA WrittenIsARow == "written" \in Row
BY DEF Row

LEMMA RebuildTypes ==
  ASSUME MigrationsTypeInv, NEW t \in Rebuilt, NEW j \in 1..4, Succeeds(Rebuild(t)[j]),
         tables' = TablesAfter(Rebuild(t)[j], Owner(t))
  PROVE  tables' \in [TableNames -> {Absent} \cup Table]
<1>0. /\ t \in TableNames /\ Copy(t) \in TableNames /\ tables \in [TableNames -> {Absent} \cup Table]
      /\ [by |-> Owner(t), rows |-> {}] \in Table
  BY Names DEF MigrationsTypeInv, Owner, Table
<1>1. ASSUME j = 2 PROVE tables'[Copy(t)] \in Table
  <2>1. tables[t] \in Table /\ tables[Copy(t)] \in Table
    BY <1>0, <1>1, StatementEffect
  <2>2. [by |-> tables[Copy(t)].by, rows |-> tables[Copy(t)].rows \cup tables[t].rows] \in Table
    BY <2>1 DEF Table
  <2> QED  BY <1>1, <2>2, StatementEffect
<1>2. /\ tables[t] \in {Absent} \cup Table /\ tables[Copy(t)] \in {Absent} \cup Table
      /\ j = 1 \/ j = 2 \/ j = 3 \/ j = 4
  BY <1>0
<1>3. tables'[t] \in {Absent} \cup Table /\ tables'[Copy(t)] \in {Absent} \cup Table
  <2>1. CASE j = 1
    <3>1. /\ tables'[t] = tables[t]
          /\ tables'[Copy(t)] = tables[Copy(t)] \/ tables'[Copy(t)] = [by |-> Owner(t), rows |-> {}]
      BY <2>1, StatementEffect
    <3> QED  BY <1>0, <1>2, <3>1
  <2>2. CASE j = 2
    BY <1>1, <1>2, <2>2, StatementEffect
  <2>3. CASE j = 3
    BY <1>2, <2>3, StatementEffect
  <2>4. CASE j = 4
    BY <1>2, <2>4, StatementEffect
  <2> QED  BY <1>2, <2>1, <2>2, <2>3, <2>4
<1>5. \A u \in TableNames : tables'[u] \in {Absent} \cup Table
  <2> TAKE u \in TableNames
  <2>1. CASE u = t \/ u = Copy(t)
    BY <1>3, <2>1
  <2>2. CASE u # t /\ u # Copy(t)
    <3>1. tables'[u] = tables[u]
      BY <2>2, StatementEffect
    <3> QED  BY <1>0, <2>2, <3>1
  <2> QED  BY <2>1, <2>2
<1>4. tables' = [u \in TableNames |-> tables'[u]]
  <2>1. CASE j = 1
    BY <1>0, <2>1, RebuildFields DEF TablesAfter
  <2>2. CASE j = 2
    BY <1>0, <2>2, RebuildFields DEF TablesAfter
  <2>3. CASE j = 3
    BY <1>0, <2>3, RebuildFields DEF TablesAfter
  <2>4. CASE j = 4
    BY <1>0, <2>4, RebuildFields DEF TablesAfter
  <2> QED  BY <2>1, <2>2, <2>3, <2>4
<1> QED  BY <1>4, <1>5

\* A statement that its predecessors have prepared loses no row and prepares
\* the next one.
LEMMA RebuildAdvances ==
  ASSUME MigrationsTypeInv, NEW t \in Rebuilt, NEW j \in 1..4, Succeeds(Rebuild(t)[j]),
         tables' = TablesAfter(Rebuild(t)[j], Owner(t)), held' = held,
         \A u \in Rebuilt : PairKept(u), Rebuilding(t, j)
  PROVE  /\ \A u \in Rebuilt : PairKept(u)'
         /\ Rebuilding(t, j + 1)'
         /\ \A u \in Rebuilt : u # t => tables'[u] = tables[u] /\ tables'[Copy(u)] = tables[Copy(u)]
<1>0. /\ t \in TableNames /\ Copy(t) \in TableNames /\ t # Copy(t)
      /\ [by |-> Owner(t), rows |-> {}] # Absent
      /\ held[t] \subseteq Rows(t) \cup Rows(Copy(t))
      /\ tables[t] # Absent => tables[t].by \in {5, Owner(t)}
      /\ tables[Copy(t)] # Absent => tables[Copy(t)].by = Owner(t)
  <2>1. [by |-> Owner(t), rows |-> {}] \in Table
    BY DEF Owner, Table
  <2> QED  BY <2>1, Names, TablesAreNotAbsent DEF PairKept
<1>1. \A u \in Rebuilt : u # t => tables'[u] = tables[u] /\ tables'[Copy(u)] = tables[Copy(u)]
  BY <1>0, Names, StatementEffect
<1>2. \A u \in Rebuilt : u # t => PairKept(u)'
  BY <1>1 DEF PairKept, Rows
<1>3. CASE j = 1
  <2>1. /\ tables'[t] = tables[t] /\ tables'[Copy(t)] # Absent /\ tables'[Copy(t)].by = Owner(t)
        /\ Rows(Copy(t)) \subseteq tables'[Copy(t)].rows
    <3>1. /\ tables'[t] = tables[t]
          /\ tables'[Copy(t)] = IF tables[Copy(t)] # Absent THEN tables[Copy(t)]
                                ELSE [by |-> Owner(t), rows |-> {}]
      BY <1>3, StatementEffect
    <3> QED  BY <1>0, <3>1 DEF Rows
  <2>2. PairKept(t)'
    BY <1>0, <2>1 DEF PairKept, Rows
  <2>3. Rebuilding(t, 2)'
    BY <2>1 DEF Rebuilding
  <2> QED  BY <1>1, <1>2, <1>3, <2>2, <2>3
<1>4. CASE j = 2
  <2>1. /\ tables[t] # Absent /\ tables[Copy(t)] # Absent /\ tables'[t] = tables[t]
        /\ tables'[Copy(t)] = [by |-> tables[Copy(t)].by,
                               rows |-> tables[Copy(t)].rows \cup tables[t].rows]
    BY <1>4, StatementEffect
  <2>2. tables'[Copy(t)] # Absent
    <3>1. tables[t] \in Table /\ tables[Copy(t)] \in Table
      BY <1>0, <2>1 DEF MigrationsTypeInv
    <3>2. tables'[Copy(t)] \in Table
      BY <2>1, <3>1 DEF Table
    <3> QED  BY <3>2, TablesAreNotAbsent
  <2>3. /\ tables'[Copy(t)].by = Owner(t)
        /\ tables'[Copy(t)].rows = Rows(Copy(t)) \cup Rows(t)
    BY <1>0, <2>1 DEF Rows
  <2>4. PairKept(t)'
    BY <1>0, <2>1, <2>2, <2>3 DEF PairKept, Rows
  <2>5. Rebuilding(t, 3)'
    BY <1>0, <2>2, <2>3 DEF Rebuilding, Rows
  <2> QED  BY <1>1, <1>2, <1>4, <2>4, <2>5
<1>5. CASE j = 3
  <2>1. /\ tables'[t] = Absent /\ tables'[Copy(t)] = tables[Copy(t)]
        /\ tables[Copy(t)] # Absent /\ held[t] \subseteq Rows(Copy(t))
    <3>1. tables'[t] = Absent /\ tables'[Copy(t)] = tables[Copy(t)]
      BY <1>5, StatementEffect
    <3> QED  BY <1>5, <3>1 DEF Rebuilding
  <2>2. PairKept(t)'
    BY <1>0, <2>1 DEF PairKept, Rows
  <2>3. Rebuilding(t, 4)'
    BY <2>1, <1>0 DEF Rebuilding, Rows
  <2> QED  BY <1>1, <1>2, <1>5, <2>2, <2>3
<1>6. CASE j = 4
  <2>1. /\ tables[Copy(t)] # Absent /\ tables'[t] = tables[Copy(t)] /\ tables'[Copy(t)] = Absent
        /\ tables[t] = Absent
    BY <1>6, StatementEffect DEF Rebuilding
  <2>2. PairKept(t)'
    BY <1>0, <2>1 DEF PairKept, Rows
  <2>3. Rebuilding(t, 5)'
    BY <1>0, <2>1 DEF Rebuilding
  <2> QED  BY <1>1, <1>2, <1>6, <2>2, <2>3
<1> QED  BY <1>3, <1>4, <1>5, <1>6

-----------------------------------------------------------------------------
(* Steps.                                                                  *)

\* What the tables of a script look like is not touched by another's rebuild.
LEMMA ReachedFrame ==
  ASSUME NEW v \in Scripts, NEW k \in Nat, Reached(v, k), columns \subseteq columns',
         \A u \in Rebuilt : Owner(u) = v =>
           /\ tables'[u] = tables[u] /\ tables'[Copy(u)] = tables[Copy(u)] /\ held'[u] = held[u]
  PROVE  Reached(v, k)'
<1>1. /\ Kill \in Rebuilt /\ "paper_trades" \in Rebuilt /\ "paper_orders" \in Rebuilt
      /\ Owner(Kill) = 6 /\ Owner("paper_trades") = 9 /\ Owner("paper_orders") = 9
  BY Names DEF Owner, Kill
<1>2. ASSUME NEW u \in Rebuilt, Owner(u) = v, NEW j \in Int, Rebuilding(u, j)
      PROVE  Rebuilding(u, j)'
  BY <1>2 DEF Rebuilding, Rows
<1>3. CASE v = 6
  BY <1>1, <1>2, <1>3 DEF Reached
<1>4. CASE v = 8
  BY <1>4 DEF Reached
<1>5. CASE v = 9
  <2>1. k - 4 \in Int /\ 5 \in Int /\ k \in Int
    OBVIOUS
  <2>2. CASE k <= 4
    BY <1>1, <1>2, <1>5, <2>1, <2>2 DEF Reached
  <2>3. CASE ~(k <= 4)
    BY <1>1, <1>2, <1>5, <2>1, <2>3 DEF Reached
  <2> QED  BY <2>2, <2>3
<1> QED  BY <1>3, <1>4, <1>5 DEF Scripts

\* A statement of a script prepares the next one, and no recorded version is
\* touched.
LEMMA ScriptAdvances ==
  ASSUME MigrationsTypeInv, NEW v \in Scripts, NEW k \in 1..Len(Script(v)),
         Succeeds(Script(v)[k]), tables' = TablesAfter(Script(v)[k], v), held' = held,
         columns' = IF Script(v)[k].do = "alter" THEN columns \cup {Script(v)[k].table} ELSE columns,
         \A u \in Rebuilt : PairKept(u), Reached(v, k)
  PROVE  /\ \A u \in Rebuilt : PairKept(u)'
         /\ Reached(v, k + 1)'
         /\ \A w \in Scripts : w # v /\ Complete(w) => Complete(w)'
<1>0. /\ Owner(Kill) = 6 /\ Owner("paper_trades") = 9 /\ Owner("paper_orders") = 9
      /\ Kill # "paper_trades" /\ Kill # "paper_orders"
      /\ Kill \in Rebuilt /\ "paper_trades" \in Rebuilt /\ "paper_orders" \in Rebuilt
  BY Names DEF Owner, Kill
<1>1. columns \subseteq columns' /\ \A w \in Scripts : Len(Script(w)) + 1 \in Nat
  <2>1. columns \subseteq columns'
    OBVIOUS
  <2>2. Len(Script(6)) + 1 \in Nat /\ Len(Script(8)) + 1 \in Nat /\ Len(Script(9)) + 1 \in Nat
    BY ScriptSteps
  <2> QED  BY <2>1, <2>2 DEF Scripts
<1>2. ASSUME NEW w \in Scripts, w # v, Complete(w),
             \A u \in Rebuilt : Owner(u) # v =>
               tables'[u] = tables[u] /\ tables'[Copy(u)] = tables[Copy(u)]
      PROVE  Complete(w)'
  <2>1. Reached(w, Len(Script(w)) + 1)
    BY <1>2 DEF Complete
  <2>2. Reached(w, Len(Script(w)) + 1)'
    BY <1>1, <1>2, <2>1, ReachedFrame
  <2> QED  BY <2>2 DEF Complete
<1>3. CASE v = 8 /\ k = 1 /\ Script(v)[k] = [do |-> "alter", table |-> "strategy_registry"]
  <2>1. tables' = tables /\ "strategy_registry" \in columns'
    BY <1>3 DEF TablesAfter
  <2>2. \A u \in Rebuilt : PairKept(u)'
    BY <2>1 DEF PairKept, Rows
  <2>3. Reached(8, 2)'
    BY <2>1 DEF Reached
  <2>4. k + 1 = 2
    BY <1>3
  <2> QED  BY <1>2, <1>3, <2>1, <2>2, <2>3, <2>4
<1>4. ASSUME NEW t \in Rebuilt, NEW j \in 1..4, Script(v)[k] = Rebuild(t)[j], Owner(t) = v,
             \/ v = 6 /\ t = Kill /\ j = k
             \/ v = 9 /\ t = "paper_trades" /\ j = k
             \/ v = 9 /\ t = "paper_orders" /\ j = k - 4 /\ k > 4
      PROVE  /\ \A u \in Rebuilt : PairKept(u)'
             /\ Reached(v, k + 1)'
             /\ \A w \in Scripts : w # v /\ Complete(w) => Complete(w)'
  <2>1. Rebuilding(t, j)
    BY <1>4 DEF Reached
  <2>2. /\ \A u \in Rebuilt : PairKept(u)'
        /\ Rebuilding(t, j + 1)'
        /\ \A u \in Rebuilt : u # t => tables'[u] = tables[u] /\ tables'[Copy(u)] = tables[Copy(u)]
    BY <1>4, <2>1, RebuildAdvances
  <2>3. Reached(v, k + 1)'
    <3>1. CASE v = 6
      BY <1>0, <1>4, <2>2, <3>1 DEF Reached
    <3>2. CASE v = 9 /\ t = "paper_trades" /\ j = k
      <4>1. CASE k < 4
        BY <2>2, <3>2, <4>1 DEF Reached
      <4>2. CASE k = 4
        <5>1. Rebuilding("paper_trades", 5)'
          BY <2>2, <3>2, <4>2
        <5>2. Rebuilding("paper_orders", 1)'
          BY DEF Rebuilding
        <5>3. k + 1 = 5
          BY <4>2
        <5> QED  BY <3>2, <5>1, <5>2, <5>3 DEF Reached
      <4> QED  BY <3>2, <4>1, <4>2
    <3>3. CASE v = 9 /\ t = "paper_orders" /\ j = k - 4 /\ k > 4
      <4>1. Rebuilding("paper_trades", 5)
        BY <3>3 DEF Reached
      <4>2. "paper_trades" # t
        BY <3>3
      <4>3. Rebuilding("paper_trades", 5)'
        BY <1>0, <2>2, <4>1, <4>2 DEF Rebuilding, Rows
      <4>4. ~(k + 1 <= 4) /\ k + 1 - 4 = j + 1
        BY <3>3
      <4> QED  BY <2>2, <3>3, <4>3, <4>4 DEF Reached
    <3> QED  BY <1>4, <3>1, <3>2, <3>3
  <2>4. \A u \in Rebuilt : Owner(u) # v =>
          tables'[u] = tables[u] /\ tables'[Copy(u)] = tables[Copy(u)]
    BY <1>4, <2>2
  <2> QED  BY <1>2, <2>2, <2>3, <2>4
<1> QED  BY <1>3, <1>4, StatementOf

\* What a script has left when it is through.
LEMMA Completed ==
  /\ Complete(6) <=> Rebuilding(Kill, 5)
  /\ Complete(8) <=> "strategy_registry" \in columns
  /\ Complete(9) <=> Rebuilding("paper_trades", 5) /\ Rebuilding("paper_orders", 5)
  /\ Complete(6)' <=> Rebuilding(Kill, 5)'
  /\ Complete(8)' <=> ("strategy_registry" \in columns)'
  /\ Complete(9)' <=> (Rebuilding("paper_trades", 5) /\ Rebuilding("paper_orders", 5))'
<1>1. Len(Script(6)) + 1 = 5 /\ Len(Script(8)) + 1 = 2 /\ Len(Script(9)) + 1 = 9
  <2>1. PICK m, n, l : m = Len(Script(6)) /\ n = Len(Script(8)) /\ l = Len(Script(9))
    OBVIOUS
  <2>2. m = 4 /\ n = 1 /\ l = 8
    BY <2>1, ScriptSteps
  <2>3. m + 1 = 5 /\ n + 1 = 2 /\ l + 1 = 9
    BY <2>2
  <2> QED  BY <2>1, <2>3
<1>2. 9 - 4 = 5
  OBVIOUS
<1>3. /\ Complete(6) <=> Rebuilding(Kill, 5)
      /\ Complete(6)' <=> Rebuilding(Kill, 5)'
  BY <1>1 DEF Complete, Reached
<1>4. /\ Complete(8) <=> "strategy_registry" \in columns
      /\ Complete(8)' <=> ("strategy_registry" \in columns)'
  BY <1>1 DEF Complete, Reached
<1>5. /\ Complete(9) <=> Rebuilding("paper_trades", 5) /\ Rebuilding("paper_orders", 5)
      /\ Complete(9)' <=> (Rebuilding("paper_trades", 5) /\ Rebuilding("paper_orders", 5))'
  BY <1>1, <1>2 DEF Complete, Reached
<1> QED  BY <1>3, <1>4, <1>5

LEMMA GetConnectionKeeps ==
  ASSUME MigrationsTypeInv, overlapped \/ MigrationsInv, NEW c \in Connections, GetConnection(c)
  PROVE  MigrationsTypeInv' /\ (overlapped \/ MigrationsInv)'
<1>1. connection' = [connection EXCEPT ![c] = [pc |-> "next", applied |-> versions, version |-> 0,
                                               at |-> 0]]
  <2>1. [Closed EXCEPT !.pc = "next", !.applied = versions] =
          [pc |-> "next", applied |-> versions, version |-> 0, at |-> 0]
    <3>1. [Closed EXCEPT !.pc = "next"] = [pc |-> "next", applied |-> {}, version |-> 0, at |-> 0]
      BY DEF Closed
    <3>2. [[pc |-> "next", applied |-> {}, version |-> 0, at |-> 0] EXCEPT !.applied = versions] =
            [pc |-> "next", applied |-> versions, version |-> 0, at |-> 0]
      OBVIOUS
    <3>3. [Closed EXCEPT !.pc = "next", !.applied = versions] =
            [[Closed EXCEPT !.pc = "next"] EXCEPT !.applied = versions]
      BY DEF Closed
    <3> QED  BY <3>1, <3>2, <3>3
  <2>2. connection' = [connection EXCEPT ![c] = [Closed EXCEPT !.pc = "next", !.applied = versions]]
    BY DEF GetConnection
  <2> QED  BY <2>1, <2>2
<1>2. MigrationsTypeInv'
  <2>1. [pc |-> "next", applied |-> versions, version |-> 0, at |-> 0] \in Locals
    BY DEF MigrationsTypeInv, Locals
  <2>2. /\ connection' \in [Connections -> Locals]
        /\ \A d \in Connections : d # c => connection'[d] = connection[d]
        /\ connection'[c].pc = "next"
    BY <1>1, <2>1 DEF MigrationsTypeInv
  <2>3. overlapped' \in BOOLEAN
    BY DEF GetConnection, MigrationsTypeInv
  <2> QED  BY <2>2, <2>3 DEF GetConnection, MigrationsTypeInv
<1>3. ASSUME ~overlapped' PROVE MigrationsInv'
  <2>1. MigrationsInv /\ Migrating = {}
    BY <1>3 DEF GetConnection
  <2>2. Migrating' \subseteq {c}
    BY <1>1, <2>1 DEF Migrating, MigrationsTypeInv
  <2>3. MigrationAt(c)'
    BY <1>1 DEF MigrationAt, GetConnection, MigrationsTypeInv
  <2>4. \A t \in Rebuilt : PairKept(t)'
    BY <2>1 DEF MigrationsInv, PairKept, Rows, GetConnection
  <2>5. \A v \in versions' : Complete(v)' /\ InOrderBefore(v)'
    BY <2>1 DEF MigrationsInv, Complete, Reached, Rebuilding, Rows, InOrderBefore, GetConnection
  <2> QED  BY <2>2, <2>3, <2>4, <2>5 DEF MigrationsInv
<1> QED  BY <1>2, <1>3

\* Steps that change locals only.
LEMMA LocalsKeep ==
  ASSUME MigrationsInv, UNCHANGED <<tables, columns, versions, held>>, NEW c \in Connections,
         Migrating' \subseteq Migrating, Migrating' # {} => Migrating' = {c} \/ connection' = connection,
         c \in Migrating' => MigrationAt(c)'
  PROVE  MigrationsInv'
<1>1. \A t \in Rebuilt : PairKept(t)'
  BY DEF MigrationsInv, PairKept, Rows
<1>2. \A v \in versions' : Complete(v)' /\ InOrderBefore(v)'
  BY DEF MigrationsInv, Complete, Reached, Rebuilding, Rows, InOrderBefore
<1>3. \A d \in Migrating' : MigrationAt(d)'
  <2> TAKE d \in Migrating'
  <2>1. CASE d = c
    BY <2>1
  <2>2. CASE d # c
    BY <2>2 DEF MigrationsInv, MigrationAt, Reached, Rebuilding, Rows, InOrderBefore
  <2> QED  BY <2>1, <2>2
<1> QED  BY <1>1, <1>2, <1>3 DEF MigrationsInv

\* A process in apply_migrations is the only one.
LEMMA OnlyMigrant ==
  ASSUME MigrationsInv, NEW c \in Connections, c \in Migrating
  PROVE  Migrating = {c}
BY DEF MigrationsInv

LEMMA NextVersionKeeps ==
  ASSUME MigrationsTypeInv, overlapped \/ MigrationsInv, NEW c \in Connections, NextVersion(c)
  PROVE  MigrationsTypeInv' /\ (overlapped \/ MigrationsInv)'
<1>0. PICK left : left = Scripts \ connection[c].applied
  OBVIOUS
<1>1. connection[c].pc = "next" /\ connection[c] \in Locals /\ c \in Migrating
  BY DEF NextVersion, MigrationsTypeInv, Migrating
<1>2. CASE left = {}
  <2>1. connection' = [connection EXCEPT ![c] = [connection[c] EXCEPT !.pc = "open"]]
    BY <1>0, <1>2 DEF NextVersion
  <2>2. [connection[c] EXCEPT !.pc = "open"] \in Locals
    BY <1>1 DEF Locals
  <2>3. /\ connection' \in [Connections -> Locals]
        /\ \A d \in Connections : d # c => connection'[d] = connection[d]
        /\ connection'[c].pc = "open"
    BY <1>1, <2>1, <2>2 DEF MigrationsTypeInv, Locals
  <2>4. MigrationsTypeInv'
    BY <2>3 DEF NextVersion, MigrationsTypeInv
  <2>5. Migrating' \subseteq Migrating /\ c \notin Migrating'
    BY <2>3 DEF Migrating
  <2>6. ASSUME MigrationsInv PROVE MigrationsInv'
    <3>1. Migrating' = {}
      BY <1>1, <2>5, <2>6, OnlyMigrant
    <3> QED  BY <2>5, <2>6, <3>1, LocalsKeep DEF NextVersion
  <2> QED  BY <2>4, <2>6 DEF NextVersion
<1>3. CASE left # {}
  <2>0. PICK v : v = CHOOSE x \in left : \A w \in left : x <= w
    OBVIOUS
  <2>1. v \in left /\ \A w \in left : v <= w
    <3>1. left \subseteq Nat
      BY <1>0 DEF Scripts
    <3>2. \E x \in left : \A w \in left : x <= w
      BY <1>3, <3>1, LeastNat
    <3> QED  BY <2>0, <3>2
  <2>2. connection' = [connection EXCEPT ![c] =
                         [connection[c] EXCEPT !.pc = "run", !.at = 1, !.version = v]]
    BY <1>0, <1>3, <2>0 DEF NextVersion
  <2>3. v \in Scripts /\ v \in Nat /\ Len(Script(v)) \in Nat
    <3>1. v \in Scripts
      BY <1>0, <2>1
    <3>2. Len(Script(6)) \in Nat /\ Len(Script(8)) \in Nat /\ Len(Script(9)) \in Nat
      BY ScriptSteps
    <3> QED  BY <3>1, <3>2 DEF Scripts
  <2>4. connection'[c] = [pc |-> "run", applied |-> connection[c].applied, version |-> v, at |-> 1]
    BY <1>1, <2>2 DEF MigrationsTypeInv, Locals
  <2>5. [pc |-> "run", applied |-> connection[c].applied, version |-> v, at |-> 1] \in Locals
    BY <1>1, <2>3 DEF Locals
  <2>10. /\ connection'[c].pc = "run" /\ connection'[c].applied = connection[c].applied
         /\ connection'[c].version = v /\ connection'[c].at = 1
    BY <2>4
  <2>6. /\ connection' \in [Connections -> Locals]
        /\ \A d \in Connections : d # c => connection'[d] = connection[d]
    BY <2>2, <2>4, <2>5 DEF MigrationsTypeInv
  <2>7. MigrationsTypeInv'
    <3>1. 1 \in 1..(Len(Script(v)) + 1)
      BY <2>3
    <3>2. UNCHANGED <<tables, columns, versions, held, overlapped>>
      BY DEF NextVersion
    <3> QED  BY <2>3, <2>6, <2>10, <3>1, <3>2 DEF MigrationsTypeInv
  <2>8. Migrating' = Migrating
    BY <1>1, <2>4, <2>6 DEF Migrating
  <2>9. ASSUME MigrationsInv PROVE MigrationsInv'
    <3>1. connection[c].applied = versions /\ Migrating = {c}
      BY <1>1, <2>9, OnlyMigrant DEF MigrationsInv, MigrationAt
    <3>2. v \notin versions /\ InOrderBefore(v)
      BY <1>0, <2>1, <2>3, <3>1 DEF InOrderBefore, Scripts
    <3>3. Reached(v, 1)'
      BY <2>3 DEF Reached, Rebuilding, Scripts
    <3>4. MigrationAt(c)'
      <4>1. connection'[c].applied = versions' /\ connection'[c].version = v /\ connection'[c].at = 1
        BY <2>10, <3>1 DEF NextVersion
      <4>2. InOrderBefore(v)' /\ v \notin versions'
        BY <3>2 DEF InOrderBefore, NextVersion
      <4> QED  BY <3>3, <4>1, <4>2 DEF MigrationAt
    <3> QED  BY <2>8, <2>9, <3>1, <3>4, LocalsKeep DEF NextVersion
  <2> QED  BY <2>7, <2>9 DEF NextVersion
<1> QED  BY <1>2, <1>3

\* A process ends.
LEMMA ClosedKeeps ==
  ASSUME MigrationsTypeInv, overlapped \/ MigrationsInv, NEW c \in Connections,
         connection' = [connection EXCEPT ![c] = Closed],
         UNCHANGED <<tables, columns, versions, held, overlapped>>
  PROVE  MigrationsTypeInv' /\ (overlapped \/ MigrationsInv)'
<1>1. /\ connection' \in [Connections -> Locals]
      /\ \A d \in Connections : d # c => connection'[d] = connection[d]
      /\ connection'[c].pc = "closed"
  <2>1. Closed \in Locals /\ Closed.pc = "closed"
    BY DEF Closed, Locals
  <2> QED  BY <2>1 DEF MigrationsTypeInv
<1>2. MigrationsTypeInv'
  BY <1>1 DEF MigrationsTypeInv
<1>3. Migrating' \subseteq Migrating /\ c \notin Migrating'
  BY <1>1 DEF Migrating
<1>4. ASSUME MigrationsInv PROVE MigrationsInv'
  <2>1. \A d \in Migrating' : MigrationAt(d)'
    <3> TAKE d \in Migrating'
    <3>1. d \in Migrating /\ connection'[d] = connection[d] /\ MigrationAt(d)
      BY <1>1, <1>3, <1>4 DEF MigrationsInv, Migrating
    <3> QED  BY <3>1 DEF MigrationAt, Reached, Rebuilding, Rows, InOrderBefore
  <2>2. \A t \in Rebuilt : PairKept(t)'
    BY <1>4 DEF MigrationsInv, PairKept, Rows
  <2>3. \A v \in versions' : Complete(v)' /\ InOrderBefore(v)'
    BY <1>4 DEF MigrationsInv, Complete, Reached, Rebuilding, Rows, InOrderBefore
  <2> QED  BY <1>3, <1>4, <2>1, <2>2, <2>3 DEF MigrationsInv
<1> QED  BY <1>2, <1>4

LEMMA RunStatementKeeps ==
  ASSUME MigrationsTypeInv, overlapped \/ MigrationsInv, NEW c \in Connections, RunStatement(c)
  PROVE  MigrationsTypeInv' /\ (overlapped \/ MigrationsInv)'
<1>0. PICK v : v = connection[c].version
  OBVIOUS
<1>1. PICK k : k = connection[c].at
  OBVIOUS
<1>2. PICK s : s = Script(v)[k]
  OBVIOUS
<1>3. /\ connection[c].pc = "run" /\ connection[c] \in Locals /\ c \in Migrating
      /\ v \in Scripts /\ k \in 1..Len(Script(v)) /\ k \in Nat
  <2>1. Len(Script(6)) \in Nat /\ Len(Script(8)) \in Nat /\ Len(Script(9)) \in Nat
    BY ScriptSteps
  <2>2. /\ connection[c].pc = "run" /\ connection[c] \in Locals /\ k <= Len(Script(v)) /\ v \in Scripts
        /\ k \in 1..(Len(Script(v)) + 1)
    BY <1>0, <1>1 DEF RunStatement, MigrationsTypeInv
  <2>3. Len(Script(v)) \in Nat
    BY <2>1, <2>2 DEF Scripts
  <2> QED  BY <2>2, <2>3 DEF Migrating
<1>4. CASE Succeeds(s)
  <2>1. /\ tables' = TablesAfter(s, v) /\ held' = held /\ versions' = versions
        /\ columns' = IF s.do = "alter" THEN columns \cup {s.table} ELSE columns
        /\ connection' = [connection EXCEPT ![c].at = k + 1] /\ overlapped' = overlapped
    BY <1>0, <1>1, <1>2, <1>4 DEF RunStatement
  <2>2. /\ connection'[c] = [pc |-> "run", applied |-> connection[c].applied, version |-> v,
                             at |-> k + 1]
        /\ \A d \in Connections : d # c => connection'[d] = connection[d]
        /\ connection' \in [Connections -> Locals]
    <3>1. [pc |-> "run", applied |-> connection[c].applied, version |-> v, at |-> k + 1] \in Locals
      BY <1>3, <1>0 DEF Locals, Scripts
    <3>2. [connection[c] EXCEPT !.at = k + 1] =
            [pc |-> "run", applied |-> connection[c].applied, version |-> v, at |-> k + 1]
      BY <1>0, <1>3 DEF Locals
    <3> QED  BY <2>1, <3>1, <3>2 DEF MigrationsTypeInv
  <2>3. tables' \in [TableNames -> {Absent} \cup Table]
    <3>1. CASE s = [do |-> "alter", table |-> "strategy_registry"]
      BY <2>1, <3>1 DEF TablesAfter, MigrationsTypeInv
    <3>2. ASSUME NEW t \in Rebuilt, NEW j \in 1..4, s = Rebuild(t)[j], Owner(t) = v
          PROVE  tables' \in [TableNames -> {Absent} \cup Table]
      BY <1>4, <2>1, <3>2, RebuildTypes
    <3> QED  BY <1>2, <1>3, <3>1, <3>2, StatementOf
  <2>4. MigrationsTypeInv'
    <3>1. k + 1 \in 1..(Len(Script(v)) + 1)
      BY <1>3
    <3> QED  BY <1>3, <2>1, <2>2, <2>3, <3>1 DEF MigrationsTypeInv
  <2>5. ASSUME MigrationsInv PROVE MigrationsInv'
    <3>1. /\ Migrating = {c} /\ connection[c].applied = versions /\ v \notin versions
          /\ InOrderBefore(v) /\ Reached(v, k) /\ \A u \in Rebuilt : PairKept(u)
      BY <1>0, <1>1, <1>3, <2>5, OnlyMigrant DEF MigrationsInv, MigrationAt
    <3>2. /\ \A u \in Rebuilt : PairKept(u)'
          /\ Reached(v, k + 1)'
          /\ \A w \in Scripts : w # v /\ Complete(w) => Complete(w)'
      BY <1>2, <1>3, <1>4, <2>1, <3>1, ScriptAdvances
    <3>3. \A w \in versions' : Complete(w)' /\ InOrderBefore(w)'
      BY <2>1, <2>5, <3>1, <3>2 DEF MigrationsInv, MigrationsTypeInv, InOrderBefore
    <3>4. Migrating' = {c}
      BY <1>3, <2>2, <3>1 DEF Migrating
    <3>5. MigrationAt(c)'
      <4>1. /\ connection'[c].applied = versions' /\ connection'[c].version = v
            /\ connection'[c].at = k + 1
        BY <2>1, <2>2, <3>1
      <4>2. InOrderBefore(v)' /\ v \notin versions'
        BY <2>1, <3>1 DEF InOrderBefore
      <4> QED  BY <3>2, <4>1, <4>2 DEF MigrationAt
    <3> QED  BY <3>2, <3>3, <3>4, <3>5 DEF MigrationsInv
  <2> QED  BY <2>1, <2>4, <2>5
<1>5. CASE ~Succeeds(s)
  <2>1. /\ connection' = [connection EXCEPT ![c] = Closed]
        /\ UNCHANGED <<tables, columns, versions, held, overlapped>>
    BY <1>0, <1>1, <1>2, <1>5 DEF RunStatement
  <2> QED  BY <2>1, ClosedKeeps
<1> QED  BY <1>4, <1>5

LEMMA RecordVersionKeeps ==
  ASSUME MigrationsTypeInv, overlapped \/ MigrationsInv, NEW c \in Connections, RecordVersion(c)
  PROVE  MigrationsTypeInv' /\ (overlapped \/ MigrationsInv)'
<1>0. PICK v : v = connection[c].version
  OBVIOUS
<1>1. /\ connection[c].pc = "run" /\ connection[c] \in Locals /\ c \in Migrating /\ v \in Scripts
      /\ connection[c].at \in 1..(Len(Script(v)) + 1) /\ connection[c].at > Len(Script(v))
  BY <1>0 DEF RecordVersion, ScriptDone, MigrationsTypeInv, Migrating
<1>2. connection[c].at = Len(Script(v)) + 1
  <2>1. Len(Script(6)) \in Nat /\ Len(Script(8)) \in Nat /\ Len(Script(9)) \in Nat
    BY ScriptSteps
  <2>2. Len(Script(v)) \in Nat
    BY <1>1, <2>1 DEF Scripts
  <2> QED  BY <1>1, <2>2
<1>3. /\ versions' = versions \cup {v} /\ UNCHANGED <<tables, columns, held, overlapped>>
      /\ connection' = [connection EXCEPT ![c] =
                           [connection[c] EXCEPT !.pc = "next",
                                                 !.applied = connection[c].applied \cup {v}]]
  BY <1>0 DEF RecordVersion
<1>4. /\ connection'[c] = [pc |-> "next", applied |-> connection[c].applied \cup {v},
                           version |-> connection[c].version, at |-> connection[c].at]
      /\ \A d \in Connections : d # c => connection'[d] = connection[d]
      /\ connection' \in [Connections -> Locals]
  <2> DEFINE new == [pc |-> "next", applied |-> connection[c].applied \cup {v},
                     version |-> connection[c].version, at |-> connection[c].at]
  <2>1. new \in Locals
    BY <1>1 DEF Locals
  <2>2. connection' = [connection EXCEPT ![c] = new]
    <3>0. PICK old : old = connection[c]
      OBVIOUS
    <3>1. [old EXCEPT !.pc = "next"] =
            [pc |-> "next", applied |-> old.applied, version |-> old.version, at |-> old.at]
      BY <1>1, <3>0 DEF Locals
    <3>2. [[pc |-> "next", applied |-> old.applied, version |-> old.version, at |-> old.at]
             EXCEPT !.applied = old.applied \cup {v}] = new
      BY <3>0
    <3>3. [old EXCEPT !.pc = "next", !.applied = old.applied \cup {v}] =
            [[old EXCEPT !.pc = "next"] EXCEPT !.applied = old.applied \cup {v}]
      BY <1>1, <3>0 DEF Locals
    <3>4. connection' = [connection EXCEPT ![c] =
                           [old EXCEPT !.pc = "next", !.applied = old.applied \cup {v}]]
      BY <1>3, <3>0
    <3> QED  BY <3>1, <3>2, <3>3, <3>4
  <2> HIDE DEF new
  <2>3. /\ connection'[c] = new /\ connection' \in [Connections -> Locals]
        /\ \A d \in Connections : d # c => connection'[d] = connection[d]
    BY <2>1, <2>2 DEF MigrationsTypeInv
  <2> QED  BY <2>3 DEF new
<1>5. MigrationsTypeInv'
  BY <1>1, <1>3, <1>4 DEF MigrationsTypeInv
<1>6. ASSUME MigrationsInv PROVE MigrationsInv'
  <2>1. /\ Migrating = {c} /\ connection[c].applied = versions
        /\ InOrderBefore(v) /\ Complete(v) /\ \A u \in Rebuilt : PairKept(u)
    BY <1>0, <1>1, <1>2, <1>6, OnlyMigrant DEF MigrationsInv, MigrationAt, Complete
  <2>2. \A u \in Rebuilt : PairKept(u)'
    BY <1>3, <2>1 DEF PairKept, Rows
  <2>3. \A w \in versions' : Complete(w) /\ InOrderBefore(w)
    BY <1>3, <1>6, <2>1 DEF MigrationsInv
  <2>4. \A w \in versions' : Complete(w)' /\ InOrderBefore(w)'
    BY <1>3, <2>3 DEF Complete, Reached, Rebuilding, Rows, InOrderBefore
  <2>5. Migrating' = {c}
    BY <1>1, <1>4, <2>1 DEF Migrating
  <2>6. MigrationAt(c)'
    BY <1>3, <1>4, <2>1 DEF MigrationAt
  <2> QED  BY <2>2, <2>4, <2>5, <2>6 DEF MigrationsInv
<1> QED  BY <1>3, <1>5, <1>6

LEMMA WriteKeeps ==
  ASSUME MigrationsTypeInv, overlapped \/ MigrationsInv, NEW c \in Connections, NEW t \in Written,
         Write(c, t)
  PROVE  MigrationsTypeInv' /\ (overlapped \/ MigrationsInv)'
<1>0. t \in Rebuilt /\ t \in TableNames /\ tables[t] \in Table
  BY MigrationsAssumption, Names DEF Write, MigrationsTypeInv
<1>1. /\ tables'[t] = [by |-> tables[t].by, rows |-> tables[t].rows \cup {"written"}]
      /\ tables'[t] \in Table /\ tables' \in [TableNames -> {Absent} \cup Table]
      /\ \A u \in TableNames : u # t => tables'[u] = tables[u]
  <2> DEFINE new == [by |-> tables[t].by, rows |-> tables[t].rows \cup {"written"}]
  <2>1. new \in Table
    <3>1. tables[t].by \in {5, 6, 9} /\ tables[t].rows \subseteq Row
      BY <1>0 DEF Table
    <3> QED  BY <3>1, WrittenIsARow DEF Table
  <2>2. tables' = [tables EXCEPT ![t] = new]
    <3>1. tables' = [tables EXCEPT ![t] = [tables[t] EXCEPT !.rows = @ \cup {"written"}]]
      BY DEF Write
    <3>2. [tables[t] EXCEPT !.rows = @ \cup {"written"}] = new
      BY <1>0 DEF Table
    <3> QED  BY <3>1, <3>2
  <2> HIDE DEF new
  <2>3. tables'[t] = new /\ \A u \in TableNames : u # t => tables'[u] = tables[u]
    BY <1>0, <2>2 DEF MigrationsTypeInv
  <2>4. tables' \in [TableNames -> {Absent} \cup Table]
    BY <2>1, <2>2 DEF MigrationsTypeInv
  <2> QED  BY <2>1, <2>3, <2>4 DEF new
<1>2. /\ held'[t] = held[t] \cup {"written"} /\ held' \in [Rebuilt -> SUBSET Row]
      /\ \A u \in Rebuilt : u # t => held'[u] = held[u]
  <2>2. held' = [held EXCEPT ![t] = held[t] \cup {"written"}]
    BY DEF Write
  <2> QED  BY <1>0, <2>2, WrittenIsARow DEF MigrationsTypeInv
<1>3. /\ UNCHANGED <<columns, versions, connection>> /\ overlapped' \in BOOLEAN
      /\ ~overlapped' => ~overlapped /\ Migrating = {} /\ Migrating' = {}
  BY DEF Write, MigrationsTypeInv, Migrating
<1>4. MigrationsTypeInv'
  BY <1>1, <1>2, <1>3 DEF MigrationsTypeInv
<1>5. ASSUME ~overlapped' PROVE MigrationsInv'
  <2>1. MigrationsInv /\ Migrating' = {}
    BY <1>3, <1>5
  <2>2. tables[t] # Absent /\ tables'[t] # Absent /\ \A u \in Rebuilt : Copy(u) # t
    BY <1>0, <1>1, Names, TablesAreNotAbsent
  <2>3. /\ Rows(t) = tables[t].rows /\ tables'[t].rows = Rows(t) \cup {"written"}
        /\ tables'[t].by = tables[t].by
    BY <1>1, <2>2 DEF Rows
  <2>4. \A u \in Rebuilt : tables'[Copy(u)] = tables[Copy(u)]
    BY <1>1, <2>2, Names
  <2>5. PairKept(t)'
    BY <1>0, <1>2, <2>1, <2>2, <2>3, <2>4 DEF MigrationsInv, PairKept, Rows
  <2>6. \A u \in Rebuilt : u # t => PairKept(u)'
    BY <1>1, <1>2, <2>1, <2>4, Names DEF MigrationsInv, PairKept, Rows
  <2>7. \A u \in Rebuilt : Rebuilding(u, 5) => Rebuilding(u, 5)'
    BY <1>1, <2>2, <2>3, Names DEF Rebuilding
  <2>8. \A v \in versions : Complete(v) => Complete(v)'
    <3> TAKE v \in versions
    <3>1. v \in Scripts /\ columns' = columns
      BY <1>3 DEF MigrationsTypeInv
    <3>2. CASE v = 6
      BY <2>7, <3>2, Completed, Names
    <3>3. CASE v = 8
      BY <3>1, <3>3, Completed
    <3>4. CASE v = 9
      BY <2>7, <3>4, Completed, Names
    <3> QED  BY <3>1, <3>2, <3>3, <3>4 DEF Scripts
  <2>9. \A v \in versions' : Complete(v)' /\ InOrderBefore(v)'
    BY <1>3, <2>1, <2>8 DEF MigrationsInv, InOrderBefore
  <2> QED  BY <2>1, <2>5, <2>6, <2>9 DEF MigrationsInv
<1> QED  BY <1>4, <1>5

LEMMA MigrationsSafe == MigrationsSpec => [](MigrationsTypeInv /\ (overlapped \/ MigrationsInv))
<1>1. MigrationsInit => MigrationsTypeInv /\ (overlapped \/ MigrationsInv)
  BY MigrationsInitially
<1>2. MigrationsTypeInv /\ (overlapped \/ MigrationsInv) /\ [MigrationsNext]_migrationVars
        => (MigrationsTypeInv /\ (overlapped \/ MigrationsInv))'
  <2> SUFFICES ASSUME MigrationsTypeInv, overlapped \/ MigrationsInv, [MigrationsNext]_migrationVars
               PROVE  MigrationsTypeInv' /\ (overlapped \/ MigrationsInv)'
    OBVIOUS
  <2>1. ASSUME NEW c \in Connections, Close(c)
        PROVE  MigrationsTypeInv' /\ (overlapped \/ MigrationsInv)'
    BY <2>1, ClosedKeeps DEF Close
  <2>2. CASE UNCHANGED migrationVars
    BY <2>2 DEF migrationVars, MigrationsTypeInv, MigrationsInv, PairKept, Rows, Complete, Reached,
                Rebuilding, InOrderBefore, Migrating, MigrationAt
  <2> QED  BY <2>1, <2>2, GetConnectionKeeps, NextVersionKeeps, RunStatementKeeps,
              RecordVersionKeeps, WriteKeeps DEF MigrationsNext
<1> QED  BY <1>1, <1>2, PTL DEF MigrationsSpec

\* Of any number of connections, rows and deaths: as long as nothing overlaps
\* a migration, no row is lost between a table and its copy, and a recorded
\* version has left its tables, its columns and all earlier versions.
THEOREM RecordedVersionsWhole == MigrationsSpec => []RecordedVersionsAreWhole
<1>1. MigrationsTypeInv /\ (overlapped \/ MigrationsInv) => RecordedVersionsAreWhole
  <2> SUFFICES ASSUME MigrationsTypeInv, ~overlapped, MigrationsInv
               PROVE  RecordedVersionsAreWhole
    BY DEF RecordedVersionsAreWhole
  <2>1. ASSUME NEW t \in Rebuilt
        PROVE  held[t] \subseteq
                 UNION {tables[u].rows : u \in {w \in {t, Copy(t)} : tables[w] # Absent}}
    <3>1. held[t] \subseteq Rows(t) \cup Rows(Copy(t))
      BY DEF MigrationsInv, PairKept
    <3> QED  BY <3>1 DEF Rows
  <2>2. ASSUME NEW t \in Rebuilt, Rebuilding(t, 5), NEW j \in 1..4
        PROVE  /\ Rebuild(t)[j].do # "alter"
               /\ tables[Rebuild(t)[j].table] # Absent /\ tables[Rebuild(t)[j].table].by = Owner(t)
    <3>1. Rebuild(t)[j].table = t /\ Rebuild(t)[j].do # "alter"
      BY RebuildFields
    <3> QED  BY <2>2, <3>1 DEF Rebuilding
  <2>3. ASSUME NEW v \in versions, NEW k \in DOMAIN Script(v)
        PROVE  IF Script(v)[k].do = "alter" THEN Script(v)[k].table \in columns
               ELSE tables[Script(v)[k].table] # Absent /\ tables[Script(v)[k].table].by = v
    <3>1. v \in Scripts /\ k \in 1..Len(Script(v)) /\ Complete(v)
      BY <2>3, ScriptSteps DEF MigrationsTypeInv, MigrationsInv
    <3>2. CASE v = 8 /\ k = 1 /\ Script(v)[k] = [do |-> "alter", table |-> "strategy_registry"]
      BY <3>1, <3>2, Completed
    <3>3. ASSUME NEW t \in Rebuilt, NEW j \in 1..4, Script(v)[k] = Rebuild(t)[j], Owner(t) = v
          PROVE  Rebuilding(t, 5)
      BY <3>1, <3>3, Completed, Names DEF Owner, Kill
    <3> QED  BY <2>2, <3>1, <3>2, <3>3, StatementOf
  <2>4. \A v \in versions : InOrderBefore(v)
    BY DEF MigrationsInv
  <2> QED  BY <2>1, <2>3, <2>4 DEF RecordedVersionsAreWhole, InOrderBefore
<1> QED  BY <1>1, MigrationsSafe, PTL
=============================================================================
