--------------------------- MODULE MCSyncProtocol ---------------------------
(* Small instances of SyncProtocol. *)
EXTENDS SyncProtocol

Values1 == [op |-> "DELTA", items |-> <<"value">>]
Values2 == [op |-> "DELTA", items |-> <<"value", "value">>]
Full1 == [op |-> "FULL", items |-> <<"value">>]
Clean1 == [op |-> "CLEAN", items |-> <<"clean">>]
Check0 == [op |-> "CHECK", items |-> <<>>]
Meta0 == [op |-> "META", items |-> <<>>]

MCShapes == {Values2, Full1, Check0, Meta0}

\* With one message lost, SuccessIsApplied does not hold of these.
MCClean == {Values1, Clean1}

MCStop == {Values1, Full1, Check0}
==============================================================================
