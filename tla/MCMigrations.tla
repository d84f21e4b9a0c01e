----------------------------- MODULE MCMigrations -----------------------------
(* Migrations of a database where one table is empty and one is written to *)
(* meanwhile.                                                              *)
EXTENDS Migrations

HeldRows == [t \in {"strategy_kill_state", "paper_trades", "paper_orders"} |->
               IF t = "paper_trades" THEN {} ELSE {"row"}]
Orders == {"paper_orders"}
=============================================================================
