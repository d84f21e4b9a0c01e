------------------------------ MODULE Migrations ------------------------------
(***************************************************************************)
(* Schema migrations: get_connection and apply_migrations                  *)
(* (trader/data/db.py) over the scripts of migrations/.                    *)
(*                                                                         *)
(* executescript runs in autocommit mode: every statement is a transaction *)
(* of its own, a process may die after any of them, and the script is      *)
(* begun anew by the next connection as long as its version row is absent. *)
(* A table is the version that gave it its constraints and its rows.  Of   *)
(* the scripts, what is kept is all that is not CREATE ... IF NOT EXISTS or *)
(* a seed that may be repeated.                                            *)
(***************************************************************************)
EXTENDS Integers, Sequences, FiniteSets

CONSTANTS
  Connections,   \* processes that open the database
  Held,          \* the rows of each rebuilt table when the deployment begins
  Written,       \* the tables written to meanwhile (bound)
  Absent         \* no such table

VARIABLES
  tables,        \* the tables the scripts rebuild, by name
  columns,       \* columns added by ALTER TABLE
  versions,      \* schema_version
  held,          \* rows there when the deployment began, and since written
  overlapped,    \* history: two processes were in apply_migrations at once, or
                 \* one was while another wrote
  connection     \* locals of apply_migrations, by process

migrationVars == <<tables, columns, versions, held, overlapped, connection>>

-----------------------------------------------------------------------------
(* Scripts.                                                                *)

Rebuilt == {"strategy_kill_state", "paper_trades", "paper_orders"}
Copy(t) == CASE t = "strategy_kill_state" -> "strategy_kill_state_v6"
             [] t = "paper_trades" -> "paper_trades_new"
             [] t = "paper_orders" -> "paper_orders_new"
TableNames == Rebuilt \cup {Copy(t) : t \in Rebuilt}

ASSUME MigrationsAssumption ==
  /\ Held = [t \in Rebuilt |-> Held[t]] /\ Written \subseteq Rebuilt
  /\ Absent \notin [by : Nat, rows : SUBSET ({"written"} \cup UNION {Held[t] : t \in Rebuilt})]

\* Recreate, copy, drop, rename.  Only 0006 copies with INSERT OR IGNORE.
Rebuild(t) == <<[do |-> "create", table |-> t], [do |-> "copy", table |-> t],
                [do |-> "drop", table |-> t], [do |-> "rename", table |-> t]>>
Script(v) ==
  CASE v = 6 -> Rebuild("strategy_kill_state")
    [] v = 8 -> <<[do |-> "alter", table |-> "strategy_registry"]>>
    [] v = 9 -> Rebuild("paper_trades") \o Rebuild("paper_orders")
Scripts == {6, 8, 9}

\* Whether a statement succeeds, and what the tables are then.
Succeeds(s) ==
  CASE s.do = "create" -> TRUE
    [] s.do = "copy" ->
         /\ tables[s.table] # Absent /\ tables[Copy(s.table)] # Absent
         /\ s.table # "strategy_kill_state" =>
              tables[s.table].rows \cap tables[Copy(s.table)].rows = {}
    [] s.do = "drop" -> tables[s.table] # Absent
    [] s.do = "rename" -> tables[s.table] = Absent /\ tables[Copy(s.table)] # Absent
    [] s.do = "alter" -> s.table \notin columns

TablesAfter(s, v) ==
  CASE s.do = "create" -> IF tables[Copy(s.table)] # Absent THEN tables
                          ELSE [tables EXCEPT ![Copy(s.table)] = [by |-> v, rows |-> {}]]
    [] s.do = "copy" -> [tables EXCEPT ![Copy(s.table)].rows = @ \cup tables[s.table].rows]
    [] s.do = "drop" -> [tables EXCEPT ![s.table] = Absent]
    [] s.do = "rename" -> [tables EXCEPT ![s.table] = tables[Copy(s.table)],
                                         ![Copy(s.table)] = Absent]
    [] s.do = "alter" -> tables

-----------------------------------------------------------------------------
(* apply_migrations.                                                       *)

Closed == [pc |-> "closed", applied |-> {}, version |-> 0, at |-> 0]
Migrating == {c \in Connections : connection[c].pc \notin {"closed", "open"}}

\* A database of version 5, that the processes which serve it have open.
MigrationsInit ==
  /\ held = Held
  /\ tables = [t \in TableNames |-> IF t \in Rebuilt THEN [by |-> 5, rows |-> held[t]] ELSE Absent]
  /\ columns = {} /\ versions = {} /\ overlapped = FALSE
  /\ connection = [c \in Connections |-> [Closed EXCEPT !.pc = "open"]]

\* The recorded versions are read once.
GetConnection(c) ==
  /\ connection[c].pc = "closed"
  /\ connection' = [connection EXCEPT ![c] = [Closed EXCEPT !.pc = "next", !.applied = versions]]
  /\ overlapped' = (overlapped \/ Migrating # {})
  /\ UNCHANGED <<tables, columns, versions, held>>

\* Files are taken in the order of their names.
NextVersion(c) ==
  LET left == Scripts \ connection[c].applied IN
  /\ connection[c].pc = "next"
  /\ connection' = [connection EXCEPT ![c] =
       IF left = {} THEN [@ EXCEPT !.pc = "open"]
       ELSE [@ EXCEPT !.pc = "run", !.at = 1,
                      !.version = CHOOSE v \in left : \A w \in left : v <= w]]
  /\ UNCHANGED <<tables, columns, versions, held, overlapped>>

\* A statement that fails ends the process.
RunStatement(c) ==
  LET v == connection[c].version
      s == Script(v)[connection[c].at] IN
  /\ connection[c].pc = "run" /\ connection[c].at <= Len(Script(v))
  /\ IF Succeeds(s)
       THEN /\ tables' = TablesAfter(s, v)
            /\ columns' = IF s.do = "alter" THEN columns \cup {s.table} ELSE columns
            /\ connection' = [connection EXCEPT ![c].at = @ + 1]
       ELSE connection' = [connection EXCEPT ![c] = Closed] /\ UNCHANGED <<tables, columns>>
  /\ UNCHANGED <<versions, held, overlapped>>

\* Mutant: the version is recorded before the script's last statement is run.
ScriptBegun(c) == connection[c].at >= Len(Script(connection[c].version))

ScriptDone(c) == connection[c].at > Len(Script(connection[c].version))

RecordVersion(c) ==
  /\ connection[c].pc = "run" /\ ScriptDone(c)
  /\ versions' = versions \cup {connection[c].version}
  /\ connection' = [connection EXCEPT ![c] =
       [@ EXCEPT !.pc = "next", !.applied = connection[c].applied \cup {connection[c].version}]]
  /\ UNCHANGED <<tables, columns, held, overlapped>>

\* A process with the database open, perhaps since before the deployment,
\* writes a row.
Write(c, t) ==
  /\ connection[c].pc = "open" /\ tables[t] # Absent /\ "written" \notin held[t]
  /\ tables' = [tables EXCEPT ![t].rows = @ \cup {"written"}]
  /\ held' = [held EXCEPT ![t] = @ \cup {"written"}]
  /\ overlapped' = (overlapped \/ Migrating # {})
  /\ UNCHANGED <<columns, versions, connection>>

\* The process ends, or dies inside apply_migrations.
Close(c) ==
  /\ connection[c].pc # "closed" /\ connection' = [connection EXCEPT ![c] = Closed]
  /\ UNCHANGED <<tables, columns, versions, held, overlapped>>

MigrationsNext ==
  \E c \in Connections :
    \/ GetConnection(c) \/ NextVersion(c) \/ RunStatement(c) \/ RecordVersion(c)
    \/ Close(c) \/ \E t \in Written : Write(c, t)

MigrationsSpec == MigrationsInit /\ [][MigrationsNext]_migrationVars

-----------------------------------------------------------------------------

\* "Applying a migration runs its full script and records the version with an
\* applied_at timestamp" (db.py:32-34): however often a process died inside a
\* script that another then began anew, a recorded version has left its tables
\* and columns, and no row is in neither a table nor its copy.  Two processes
\* in apply_migrations at once, or a write beside one, break this: the DROP of
\* the second removes the table the first has renamed.
RecordedVersionsAreWhole ==
  overlapped \/
  /\ \A t \in Rebuilt :
       held[t] \subseteq UNION {tables[u].rows : u \in {w \in {t, Copy(t)} : tables[w] # Absent}}
  /\ \A v \in versions :
       /\ \A s \in {Script(v)[k] : k \in DOMAIN Script(v)} :
            IF s.do = "alter" THEN s.table \in columns
            ELSE tables[s.table] # Absent /\ tables[s.table].by = v
       /\ \A w \in Scripts : w < v => w \in versions

\* "all inside one short transaction per file" (db.py:33-34), so that a version
\* without a row has changed nothing once no process is inside apply_migrations,
\* whatever died there.  The statements are transactions of their own: a death
\* between DROP and RENAME leaves no table, and every later connection fails at
\* the copy.
OneTransactionPerFile ==
  overlapped \/ Migrating # {} \/
  \A v \in Scripts \ versions : \A s \in {Script(v)[k] : k \in DOMAIN Script(v)} :
    IF s.do = "alter" THEN s.table \notin columns
    ELSE tables[s.table] # Absent /\ tables[s.table].by < v
=============================================================================
