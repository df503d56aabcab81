--------------------------- MODULE MCInventorySync ---------------------------
(* Small instances of InventorySync. *)
EXTENDS InventorySync, TLC

Shape(mode, items) == [mode |-> mode, items |-> items, vd |-> FALSE]

Delta2 == Shape("DELTA", <<"value", "value">>)
Full1 == Shape("FULL", <<"value">>)
Clean1 == Shape("DELTA", <<"clean">>)
Context1 == Shape("DELTA", <<"context">>)
Scan1 == [mode |-> "DELTA", items |-> <<"value">>, vd |-> TRUE]
Check0 == Shape("CHECK", <<>>)
Meta0 == Shape("META", <<>>)
Empty0 == Shape("DELTA", <<>>)

Environment(shapes, faults) == [shapes |-> shapes, faults |-> faults]

MCEnvironments ==
  {Environment({Meta0, Scan1, Context1}, {"full"}),
   Environment({Meta0, Scan1}, {"timeout"}),
   Environment({Meta0, Scan1}, {"delete"}),
   Environment({Meta0, Scan1}, {"indexer", "full", "scanner", "timeout"}),
   Environment({Delta2, Empty0}, {"timeout"}),
   Environment({Full1, Clean1}, {"timeout"}),
   Environment({Delta2}, {"invalid"}),
   Environment({Check0}, {"indexer", "timeout"})}
==============================================================================
