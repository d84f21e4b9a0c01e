\* A script that dies half way leaves a part of itself.
SPECIFICATION MigrationsSpec
CONSTANTS
  Connections = {c1}
  Held <- HeldRows
  Written <- Orders
  Absent = Absent
INVARIANTS
  OneTransactionPerFile
