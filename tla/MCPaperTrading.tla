--------------------------- MODULE MCPaperTrading ---------------------------
(* Instances of PaperTrading small enough for TLC.                         *)
EXTENDS PaperTradingProperties, TLC

\* The hash of the code replaced by an arbitrary but fixed choice.
MCAssignProfile ==
  [sp \in Symbols \X ((SUBSET Profiles) \ {{}}) |-> CHOOSE p \in sp[2] : TRUE]

OneFamily == [p \in Profiles |-> "momentum_stock"]

NoCrashes == {}
\* Between any two steps of the processes that trade.
EntryCrashes    == {"entry"} \X (EntryPCs \ {"idle"})
GuardianCrashes == {"guardian"} \X (GuardianPCs \ {"idle"})
OwnerCrashes    == {"owner"} \X (OwnerPCs \ {"idle"})
ReconCrashes    == {"reconcile"} \X (ReconPCs \ {"idle"})
\* After a BUY has reached the gateway, before the ledger knows.
SentUnmarked == {<<"entry", "mark">>}
AllCrashes == EntryCrashes \cup GuardianCrashes \cup OwnerCrashes \cup ReconCrashes
\* An entry run dies anywhere but between the two commits of a heal, a tick
\* wherever it has no SELL in hand that it has sent or healed.
CrashesWithTrace ==
  ({"entry"} \X (EntryPCs \ {"idle", "step0_open", "step1_open"}))
    \cup ({"guardian"} \X {"snapshot", "loop", "persist", "place"})
=============================================================================
