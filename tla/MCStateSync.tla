----------------------------- MODULE MCStateSync -----------------------------
(* The instance of StateSync that TLC checks. *)
EXTENDS StateSync, TLC

\* Items named by their index: "f1" is a file, "r1" a registry key.
MCIds == {"f1", "f2", "r1"}
MCIndexes == {"files", "registry"}
MCFiles == {"f1", "f2"}
MCIndexOf == [id \in Ids |-> IF id = "r1" THEN "registry" ELSE "files"]

\* No fault; those the queue is made for, in a module that monitors files in
\* real time; and all but a lost transaction in one that only scans.
MCSafety == {{}, {"ackloss", "crash", "full", "events"}, Faults \ {"rollback", "events"}}

MCLive == {{"ackloss", "crash", "full", "events"}, {"ackloss", "crash", "full", "rollback"}}

\* Enough to leave a document behind that is not in the table.
MCGhosts == {{"ackloss", "full"}}

\* Values are only compared.
MCSymmetry == Permutations(Values)

MCChanges == [e \in Environments |-> CASE e = {} -> 4
                                       [] "rollback" \in e -> 2
                                       [] OTHER -> 3]
==============================================================================
