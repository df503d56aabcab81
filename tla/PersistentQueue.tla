--------------------------- MODULE PersistentQueue ---------------------------
(***************************************************************************)
(* The agent's persistent queue of unsynchronised differences:             *)
(* shared_modules/sync_protocol/src/persistent_queue.cpp, a mutex around   *)
(* persistent_queue_storage.cpp, which keeps at most one SQLite row per    *)
(* item id and coalesces every new difference into it.                     *)
(*                                                                         *)
(* Every operation runs under m_mutex in one SQLite transaction, so each   *)
(* is one atomic step.  A row's JSON payload and version are one abstract  *)
(* value; "no row" is NoRow, whose sync status is "NONE".                  *)
(***************************************************************************)
CONSTANTS
  Ids,       \* item ids (the hash of an item's primary key)
  Values,    \* contents an item can have
  None,      \* no content: the item does not exist
  Indexes,   \* state indices of the manager
  IndexOf    \* the index an item id belongs to

ASSUME QueueAssumption ==
  /\ None \notin Values
  /\ IndexOf \in [Ids -> Indexes]

VARIABLE queue   \* the persistent_queue table: a row, or NoRow, for each id

Operations == {"CREATE", "MODIFY", "DELETE"}

SyncStatuses == {"NONE", "PENDING", "SYNCING", "SYNCING_UPDATED"}

CreateStatuses == {"EXISTING", "NEW", "NEW_DELETED"}

Content == Values \cup {None}

Row == [op        : Operations \cup {"NO_OP"},
        sync      : SyncStatuses,
        create    : CreateStatuses,
        opSyncing : Operations \cup {"NO_OP"},
        data      : Content,
        ctx       : BOOLEAN]

NoRow == [op |-> "NO_OP", sync |-> "NONE", create |-> "EXISTING",
          opSyncing |-> "NO_OP", data |-> None, ctx |-> FALSE]

HasRow(id) == queue[id].sync # "NONE"

QueueTypeOK == queue \in [Ids -> Row]

QueueInit == queue = [id \in Ids |-> NoRow]

-----------------------------------------------------------------------------
(* submitOrCoalesce *)

\* Variant: the SELECT reads the wrong column.
SyncingOpWrongColumn(old) == IF old.sync = "PENDING" THEN "NO_OP" ELSE old.sync

\* The operation the running session carries for a row that changes under it.
SyncingOp(old) ==
  IF old.sync = "PENDING" THEN "NO_OP"
  ELSE IF old.opSyncing = "NO_OP" THEN old.op ELSE old.opSyncing

CreateAfter(create, op) ==
  IF op = "DELETE" /\ create = "NEW" THEN "NEW_DELETED"
  ELSE IF op # "DELETE" /\ create = "NEW_DELETED" THEN "NEW"
  ELSE create

Inserted(op, data, ctx) ==
  [op |-> op, sync |-> "PENDING",
   create |-> IF op = "CREATE" THEN "NEW" ELSE "EXISTING",
   opSyncing |-> "NO_OP", data |-> data, ctx |-> ctx]

\* Variant: the UPDATE leaves sync_status alone.
UpdatedKeepsStatus(old, op, data, ctx) ==
  [op |-> op, sync |-> old.sync, create |-> CreateAfter(old.create, op),
   opSyncing |-> SyncingOp(old), data |-> data, ctx |-> ctx]

\* Variant: the UPDATE leaves the data column alone.
UpdatedKeepsData(old, op, data, ctx) ==
  [op |-> op, sync |-> IF old.sync = "PENDING" THEN "PENDING" ELSE "SYNCING_UPDATED",
   create |-> CreateAfter(old.create, op),
   opSyncing |-> SyncingOp(old), data |-> old.data, ctx |-> ctx]

Updated(old, op, data, ctx) ==
  [op |-> op,
   sync |-> IF old.sync = "PENDING" THEN "PENDING" ELSE "SYNCING_UPDATED",
   create |-> CreateAfter(old.create, op),
   opSyncing |-> SyncingOp(old), data |-> data, ctx |-> ctx]

\* Variant: a new item's deletion drops its row even while it is being sent.
CoalescedAnyStatus(old, op, data, ctx) ==
  IF old.sync = "NONE" THEN Inserted(op, data, ctx)
  ELSE IF op = "DELETE" /\ old.create = "NEW" THEN NoRow
  ELSE Updated(old, op, data, ctx)

Coalesced(old, op, data, ctx) ==
  IF old.sync = "NONE" THEN Inserted(op, data, ctx)
  ELSE IF op = "DELETE" /\ old.create = "NEW" /\ old.sync = "PENDING" THEN NoRow
  ELSE Updated(old, op, data, ctx)

submit(id, op, data, ctx) ==
  queue' = [queue EXCEPT ![id] = Coalesced(@, op, data, ctx)]

-----------------------------------------------------------------------------
(* Reading and marking *)

Pending == {id \in Ids : queue[id].sync = "PENDING"}

\* fetchPending(onlyDataValues = true)
PendingValues == {id \in Pending : ~ queue[id].ctx}

fetchAndMarkForSync ==
  queue' = [id \in Ids |-> IF id \in Pending
                           THEN [queue[id] EXCEPT !.sync = "SYNCING"]
                           ELSE queue[id]]

-----------------------------------------------------------------------------
(* Finishing a session *)

Syncing(row) == row.sync \in {"SYNCING", "SYNCING_UPDATED"}

\* The rows the DELETE statement of removeAllSynced selects.
Synced(row) ==
  \/ row.sync = "SYNCING"
  \/ row.create = "NEW_DELETED" /\ row.opSyncing \in {"NO_OP", "DELETE"}

\* Variant: the rows updated during the session are deleted with the others.
AfterSuccessDropsUpdated(row) == IF Syncing(row) THEN NoRow ELSE row

AfterSuccess(row) ==
  IF Synced(row) THEN NoRow
  ELSE IF Syncing(row)
  THEN [row EXCEPT !.sync = "PENDING", !.create = "EXISTING", !.opSyncing = "NO_OP"]
  ELSE row

AfterFailure(row) ==
  IF row.op = "DELETE" /\ row.create = "NEW_DELETED" THEN NoRow
  ELSE IF Syncing(row) THEN [row EXCEPT !.sync = "PENDING", !.opSyncing = "NO_OP"]
  ELSE row

\* removeAllSynced
clearSyncedItems == queue' = [id \in Ids |-> AfterSuccess(queue[id])]

\* resetAllSyncing; the constructor runs it too, which is the crash recovery
resetSyncingItems == queue' = [id \in Ids |-> AfterFailure(queue[id])]

-----------------------------------------------------------------------------
(* Removing rows *)

clearItemsByIndex(idx) ==
  queue' = [id \in Ids |-> IF IndexOf[id] = idx THEN NoRow ELSE queue[id]]

WithoutContext ==
  [id \in Ids |-> IF queue[id].ctx THEN NoRow ELSE queue[id]]

clearAllDataContext == queue' = WithoutContext

==============================================================================
