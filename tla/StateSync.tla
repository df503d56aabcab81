------------------------------ MODULE StateSync ------------------------------
(***************************************************************************)
(* One agent module keeping its state documents on the manager up to date. *)
(*                                                                         *)
(* A scanner changes the module's own table and submits each difference to *)
(* the persistent queue; the synchronisation thread takes the pending rows *)
(* (DELTA), or the whole table of an index after a failed integrity check  *)
(* (FULL), or an index to be emptied (CLEAN), through one session with the *)
(* manager, and finalises the queue from the session's outcome             *)
(* (AgentSyncProtocol::synchronizeModule and notifyDataClean).             *)
(*                                                                         *)
(* The session is abstract here: the manager applies a batch as a whole or *)
(* not at all, and reports success only for a batch it has applied.        *)
(*                                                                         *)
(* faults is the environment, the same for a whole behaviour:              *)
(*   "ackloss" a session the manager applied, or is still going to apply,  *)
(*             can end in a failure on the agent (lost EndAck, timeout)    *)
(*   "crash"   the agent process can stop at any point and restart         *)
(*   "rollback" it can stop without closing the table's database, whose    *)
(*             open transaction is then lost                               *)
(*   "full"    integrity checks and FULL recovery run                      *)
(*   "context" the vulnerability-detection scan adds DataContext rows      *)
(*   "storage" the SQLite transaction that finalises a session can fail    *)
(*   "events"  file-system events change the table while a recovery runs   *)
(***************************************************************************)
EXTENDS PersistentQueue, Naturals

CONSTANTS
  Environments,  \* the environments considered, sets of faults
  MaxChanges     \* bound on the number of changes the scanner makes in each

Faults == {"ackloss", "crash", "rollback", "full", "context", "storage", "events"}

ASSUME StateSyncAssumption ==
  /\ Environments \subseteq SUBSET Faults
  /\ MaxChanges \in [Environments -> Nat]

VARIABLES
  faults,      \* what can go wrong, see above
  real,        \* the module's own table: the content of each item
  committed,   \* the table as its database has it on disk
  disabled,    \* indices no longer configured, whose items are to be cleaned
  server,      \* the documents of this module that the manager has indexed
  session,     \* the running session: its mode, state, index and batch
  zombie,      \* the batch of an abandoned session the manager still holds
  sync_result, \* the last DELTA synchronisation succeeded; recovery is next
  tables,      \* tables still to be validated; the scan mutexes are held
  context,     \* ids processVDDataContext has still to submit as DataContext
  changes      \* number of changes so far

moduleVars == <<queue, real, committed, disabled, server, session, zombie, sync_result,
                tables, context, changes>>

vars == <<faults, moduleVars>>

-----------------------------------------------------------------------------
(* Batches *)

Item == [op : {"NONE", "UPSERT", "DELETE", "CONTEXT"}, data : Content]

NoItem == [op |-> "NONE", data |-> None]

NoBatch == [id \in Ids |-> NoItem]

\* What sendDataMessages or sendDataContextMessages sends for a row.
ItemOf(row) ==
  [op |-> IF row.ctx THEN "CONTEXT" ELSE IF row.op = "DELETE" THEN "DELETE" ELSE "UPSERT",
   data |-> row.data]

PendingBatch == [id \in Ids |-> IF id \in Pending THEN ItemOf(queue[id]) ELSE NoItem]

\* A FULL session of an index upserts the table's items and, on the manager,
\* deletes every other document of the index.
TableBatch(idx) ==
  [id \in Ids |-> IF IndexOf[id] # idx THEN NoItem
                  ELSE IF real[id] = None THEN [op |-> "DELETE", data |-> None]
                  ELSE [op |-> "UPSERT", data |-> real[id]]]

\* Variant: the DataClean messages name no index.
CleanBatchEmpty(idx) == NoBatch

CleanBatch(idx) ==
  [id \in Ids |-> IF IndexOf[id] = idx THEN [op |-> "DELETE", data |-> None] ELSE NoItem]

\* The manager's documents after indexing a batch; DataContext is not indexed.
Indexed(docs, batch) ==
  [id \in Ids |-> IF batch[id].op \in {"UPSERT", "DELETE"} THEN batch[id].data ELSE docs[id]]

NoSession == [mode |-> "NONE", state |-> "IDLE", index |-> None, batch |-> NoBatch]

Session == [mode  : {"NONE", "DELTA", "FULL", "CLEAN"},
            state : {"IDLE", "SENT", "APPLIED", "CLEARED"},
            index : Indexes \cup {None},
            batch : [Ids -> Item]]

Opened(mode, idx, batch) ==
  [mode |-> mode, state |-> "SENT", index |-> idx, batch |-> batch]

-----------------------------------------------------------------------------
TypeOK ==
  /\ QueueTypeOK
  /\ faults \in Environments
  /\ real \in [Ids -> Content]
  /\ committed \in [Ids -> Content]
  /\ disabled \in SUBSET Indexes
  /\ server \in [Ids -> Content]
  /\ session \in Session
  /\ zombie \in [Ids -> Item]
  /\ sync_result \in BOOLEAN
  /\ tables \in SUBSET Indexes
  /\ context \in SUBSET Ids
  /\ changes \in 0..MaxChanges[faults]

\* The module starts after earlier synchronisations, or with nothing yet.
Init ==
  /\ QueueInit
  /\ faults \in Environments
  /\ real \in [Ids -> Content]
  /\ committed = real
  /\ disabled = {}
  /\ server = real
  /\ session = NoSession
  /\ zombie = NoBatch
  /\ sync_result = FALSE
  /\ tables = {}
  /\ context = {}
  /\ changes = 0

-----------------------------------------------------------------------------
(* The scanner *)

\* Recovery holds the scan mutexes; a clean-up precedes the first scan.
ScanAllowed == tables = {} /\ session.mode # "CLEAN"

\* FIM applies real-time and who-data events without the scan mutexes.
ChangeAllowed == session.mode # "CLEAN" /\ (tables = {} \/ "events" \in faults)

\* The table is written in a transaction that stays open.
Write(new) ==
  /\ real' = new
  /\ committed' = IF "rollback" \in faults THEN committed ELSE new

\* returnRowsMarkedForDelete, for any table of the module, after the callbacks
\* of the rows synchronised so far have submitted their differences; the rows
\* it finds to be deleted are for the next one to commit.
Commit ==
  /\ committed # real
  /\ ScanAllowed
  /\ context = {}
  /\ committed' = real
  /\ UNCHANGED <<queue, real, disabled, server, session, zombie, sync_result, tables,
                 context, changes>>

\* The operation the database layer reports for a difference.
OperationFor(old, new) ==
  IF new = None THEN "DELETE" ELSE IF old = None THEN "CREATE" ELSE "MODIFY"

\* A scan, or a file-system event, finds an item changed.
Change(id, new) ==
  /\ changes < MaxChanges[faults]
  /\ ChangeAllowed
  /\ context = {}
  /\ IndexOf[id] \notin disabled
  /\ new # real[id]
  /\ Write([real EXCEPT ![id] = new])
  /\ submit(id, OperationFor(real[id], new), new, FALSE)
  /\ changes' = changes + 1
  /\ UNCHANGED <<disabled, server, session, zombie, sync_result, tables, context>>

HasData(idx) == \E id \in Ids : IndexOf[id] = idx /\ real[id] # None

\* The module is restarted with an index taken out of its configuration.
Disable(idx) ==
  /\ changes < MaxChanges[faults]
  /\ session.mode = "NONE"
  /\ context = {}
  /\ tables = {}
  /\ HasData(idx)
  /\ disabled' = disabled \cup {idx}
  /\ resetSyncingItems
  /\ committed' = real
  /\ sync_result' = FALSE
  /\ changes' = changes + 1
  /\ UNCHANGED <<real, server, session, zombie, tables, context>>

\* processVDDataContext: drop the old context rows, collect the ids pending
\* as DataValue, then submit every other item of the tables they call for.
VDContextBegin ==
  /\ "context" \in faults
  /\ ScanAllowed
  /\ changes < MaxChanges[faults]
  /\ context = {}
  /\ clearAllDataContext
  /\ \E wanted \in SUBSET Indexes :
       context' = IF PendingValues = {} THEN {}
                  ELSE {id \in Ids \ PendingValues : IndexOf[id] \in wanted /\ real[id] # None}
  /\ changes' = changes + 1
  /\ UNCHANGED <<real, committed, disabled, server, session, zombie, sync_result, tables>>

VDContextSubmit(id) ==
  /\ id \in context
  /\ submit(id, "MODIFY", real[id], TRUE)
  /\ context' = context \ {id}
  /\ UNCHANGED <<real, committed, disabled, server, session, zombie, sync_result, tables, changes>>

-----------------------------------------------------------------------------
(* The synchronisation thread *)

StartDelta ==
  /\ session.mode = "NONE"
  /\ tables = {}
  /\ Pending # {}
  /\ session' = Opened("DELTA", None, PendingBatch)
  /\ fetchAndMarkForSync
  /\ sync_result' = FALSE
  /\ UNCHANGED <<real, committed, disabled, server, zombie, tables, context, changes>>

\* "No items to synchronize" is a success.
DeltaWithNothing ==
  /\ session.mode = "NONE"
  /\ tables = {}
  /\ Pending = {}
  /\ sync_result' = TRUE
  /\ UNCHANGED <<queue, real, committed, disabled, server, session, zombie, tables, context, changes>>

\* After a successful synchronisation the thread takes the scan mutexes and
\* validates the tables one by one.
BeginRecovery ==
  /\ "full" \in faults
  /\ sync_result
  /\ context = {}
  /\ session.mode = "NONE"
  /\ sync_result' = FALSE
  /\ tables' = Indexes
  /\ UNCHANGED <<queue, real, committed, disabled, server, session, zombie, context, changes>>

\* The integrity interval has not elapsed, the checksums match, or the check
\* itself fails.
SkipTable(idx) ==
  /\ session.mode = "NONE"
  /\ idx \in tables
  /\ tables' = tables \ {idx}
  /\ UNCHANGED <<queue, real, committed, disabled, server, session, zombie, sync_result, context, changes>>

\* Variant: a checksum error is taken for an offline manager.
ChecksumErrorIgnored(idx) == FALSE

\* requiresFullSync: the manager's documents of the index differ.
ChecksumMismatch(idx) == \E id \in Ids : IndexOf[id] = idx /\ server[id] # real[id]

\* With no item in the table nothing is sent and the recovery is a success.
StartFull(idx) ==
  /\ session.mode = "NONE"
  /\ idx \in tables \ disabled
  /\ ChecksumMismatch(idx)
  /\ IF HasData(idx) THEN /\ session' = Opened("FULL", idx, TableBatch(idx))
                          /\ UNCHANGED tables
                     ELSE /\ tables' = tables \ {idx}
                          /\ UNCHANGED session
  /\ UNCHANGED <<queue, real, committed, disabled, server, zombie, sync_result, context, changes>>

StartClean(idx) ==
  /\ session.mode = "NONE"
  /\ idx \in disabled
  /\ tables = {}
  /\ context = {}
  /\ session' = Opened("CLEAN", idx, CleanBatch(idx))
  /\ UNCHANGED <<queue, real, committed, disabled, server, zombie, sync_result, tables, context, changes>>

\* The manager indexes the whole batch.  A new session of the module has
\* removed what was left of an abandoned one.
ManagerApplies ==
  /\ session.state = "SENT"
  /\ session' = [session EXCEPT !.state = "APPLIED"]
  /\ server' = Indexed(server, session.batch)
  /\ zombie' = NoBatch
  /\ UNCHANGED <<queue, real, committed, disabled, sync_result, tables, context, changes>>

ZombieApplies ==
  /\ zombie # NoBatch
  /\ server' = Indexed(server, zombie)
  /\ zombie' = NoBatch
  /\ UNCHANGED <<queue, real, committed, disabled, session, sync_result, tables, context, changes>>

FinishDelta ==
  /\ session.mode = "DELTA"
  /\ session.state = "APPLIED"
  /\ clearSyncedItems
  /\ session' = NoSession
  /\ sync_result' = TRUE
  /\ UNCHANGED <<real, committed, disabled, server, zombie, tables, context, changes>>

FinishFull ==
  /\ session.mode = "FULL"
  /\ session.state = "APPLIED"
  /\ session' = NoSession
  /\ tables' = tables \ {session.index}
  /\ UNCHANGED <<queue, real, committed, disabled, server, zombie, sync_result, context, changes>>

\* notifyDataClean removes the rows of the index and returns true ...
ClearRows ==
  /\ session.mode = "CLEAN"
  /\ session.state = "APPLIED"
  /\ clearItemsByIndex(session.index)
  /\ session' = [session EXCEPT !.state = "CLEARED"]
  /\ UNCHANGED <<real, committed, disabled, server, zombie, sync_result, tables, context, changes>>

\* ... and its caller then removes the items.
FinishClean ==
  /\ session.mode = "CLEAN"
  /\ session.state = "CLEARED"
  /\ Write([id \in Ids |-> IF IndexOf[id] = session.index THEN None ELSE real[id]])
  /\ disabled' = disabled \ {session.index}
  /\ session' = NoSession
  /\ UNCHANGED <<queue, server, zombie, sync_result, tables, context, changes>>

\* What the manager may still hold and apply of sessions the agent gave up on.
Abandoned ==
  IF session.state = "SENT" /\ faults \cap {"ackloss", "crash"} # {}
  THEN {session.batch, zombie} ELSE {zombie}

FinishFail ==
  /\ \/ session.state = "SENT"
     \/ session.state = "APPLIED" /\ "ackloss" \in faults
  /\ IF session.mode = "DELTA" THEN resetSyncingItems ELSE UNCHANGED queue
  /\ tables' = IF session.mode = "FULL" THEN tables \ {session.index} ELSE tables
  /\ session' = NoSession
  /\ zombie' \in Abandoned
  /\ UNCHANGED <<real, committed, disabled, server, sync_result, context, changes>>

\* clearSyncedItems or resetSyncingItems throws; synchronizeModule logs
\* "Failed to finalize sync state" and returns the session's own outcome.
FinishStorageError ==
  /\ "storage" \in faults
  /\ session.mode = "DELTA"
  /\ session' = NoSession
  /\ sync_result' = (session.state = "APPLIED")
  /\ zombie' \in Abandoned
  /\ UNCHANGED <<queue, real, committed, disabled, server, tables, context, changes>>

\* The process stops; the constructor of the next one's queue resets.
CrashRestart ==
  /\ "crash" \in faults
  /\ resetSyncingItems
  /\ real' \in IF "rollback" \in faults THEN {real, committed} ELSE {real}
  /\ committed' = real'
  /\ session' = NoSession
  /\ zombie' \in Abandoned
  /\ sync_result' = FALSE
  /\ tables' = {}
  /\ context' = {}
  /\ UNCHANGED <<disabled, server, changes>>

-----------------------------------------------------------------------------
SyncStep ==
  \/ StartDelta \/ DeltaWithNothing \/ BeginRecovery
  \/ \E idx \in Indexes : SkipTable(idx) \/ StartFull(idx) \/ StartClean(idx)
  \/ FinishDelta \/ FinishFull \/ ClearRows \/ FinishClean \/ FinishFail \/ FinishStorageError

ScanStep ==
  \/ \E id \in Ids, new \in Content : Change(id, new)
  \/ Commit
  \/ \E idx \in Indexes : Disable(idx)
  \/ VDContextBegin
  \/ \E id \in Ids : VDContextSubmit(id)

Next ==
  /\ ScanStep \/ SyncStep \/ ManagerApplies \/ ZombieApplies \/ CrashRestart
  /\ UNCHANGED faults

Spec == Init /\ [][Next]_vars

\* The synchronisation thread keeps running its loop, the integrity interval
\* of a table elapses again and again, and of the sessions retried for ever
\* some get through to the manager and back.
Fairness ==
  /\ SF_moduleVars(StartDelta)
  /\ WF_moduleVars(DeltaWithNothing)
  /\ SF_moduleVars(BeginRecovery)
  /\ \A idx \in Indexes :
       WF_moduleVars(SkipTable(idx)) /\ SF_moduleVars(StartFull(idx)) /\ SF_moduleVars(StartClean(idx))
  /\ \A id \in Ids : WF_moduleVars(VDContextSubmit(id))
  /\ SF_moduleVars(ManagerApplies)
  /\ SF_moduleVars(FinishDelta)
  /\ SF_moduleVars(FinishFull)
  /\ SF_moduleVars(ClearRows)
  /\ SF_moduleVars(FinishClean)

LiveSpec == Spec /\ Fairness

-----------------------------------------------------------------------------
(* Safety *)

\* The row carries the item's present content to the manager's index.
Carries(id) ==
  /\ HasRow(id)
  /\ ~ queue[id].ctx
  /\ queue[id].data = real[id]
  /\ (queue[id].op = "DELETE") = (real[id] = None)

Enabled == {id \in Ids : IndexOf[id] \notin disabled}

\* Every session's outcome is reported faithfully and no process stops.
Reliable == faults = {}

\* Answers are lost and processes stop, but every transaction is committed
\* and no DataContext row is added.
Calm == faults \cap {"context", "storage", "rollback"} = {}

\* Covered: in a reliable environment a document of the manager that differs
\* from the module's item has a DataValue row in the queue that carries the
\* item's present content, so a later DELTA session repairs it.  This is what
\* submitOrCoalesce, with its create status, and
\* removeAllSynced/resetAllSyncing promise together.
Covered == Reliable => \A id \in Enabled : server[id] # real[id] => Carries(id)

\* NoLostUpsert: where transactions are committed and there are no DataContext
\* rows, the same holds for the items that exist.  A lost acknowledgement,
\* a crash or a FULL recovery can leave a stale document behind, but never an
\* existing item whose content the manager does not have and will not get.
NoLostUpsert ==
  Calm => \A id \in Enabled : real[id] # None /\ server[id] # real[id] => Carries(id)

\* RowIsCurrent: however changes, sessions, resets, context rows and failing
\* transactions interleave, a row of the queue is about the item as it is now,
\* so a session never sends content older than the scan it starts after.
RowIsCurrent ==
  "rollback" \notin faults => \A id \in Ids : HasRow(id) =>
    /\ queue[id].data = real[id]
    /\ (queue[id].op = "DELETE") = (real[id] = None)

\* RowIsInBatch: a row marked SYNCING, which clearSyncedItems deletes, was
\* sent with that very content by the running DELTA session.
RowIsInBatch ==
  Calm => \A id \in Ids : queue[id].sync = "SYNCING" =>
    /\ session.mode = "DELTA"
    /\ session.batch[id] = ItemOf(queue[id])

-----------------------------------------------------------------------------
(* Liveness *)

\* EventuallyConsistent: once the scanner stops finding changes, lost
\* acknowledgements, crashes and failed sessions notwithstanding, DELTA
\* sessions and FULL recovery bring the documents of every table that still
\* has items to the items' contents, and they stay there.
EventuallyConsistent ==
  <>[](\A id \in Ids : HasData(IndexOf[id]) => server[id] = real[id])

\* DisabledCleaned: the documents of an index taken out of the configuration
\* are eventually removed and its table emptied (notifyDataClean's retries).
DisabledCleaned ==
  \A idx \in Indexes :
    idx \in disabled ~> /\ idx \notin disabled
                        /\ \A id \in Ids : IndexOf[id] = idx => server[id] = None

\* NoGhosts: documents whose items no longer exist disappear, in tables that
\* have become empty too.
NoGhosts ==
  <>[](\A id \in Ids : real[id] = None => server[id] = None)

==============================================================================
