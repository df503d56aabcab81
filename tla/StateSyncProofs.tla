--------------------------- MODULE StateSyncProofs ---------------------------
(***************************************************************************)
(* Proofs about StateSync for every set of items, contents and indices and *)
(* every number of changes.                                                *)
(***************************************************************************)
EXTENDS StateSync, TLAPS
-----------------------------------------------------------------------------
(* The inductive invariant *)

\* Without DataContext rows every row is the item's present content.
RowOK(id) ==
  /\ HasRow(id) => Carries(id)
  /\ queue[id].create = "NEW_DELETED" => queue[id].op = "DELETE"

\* Indexing the item leaves a document that equals the item equal to it.
Harmless(id, item) == item.op \in {"UPSERT", "DELETE"} => item.data = real[id]

\* An existing item without a row is on the manager, and stays there.
Settled(id) ==
  ~ HasRow(id) /\ real[id] # None =>
    /\ server[id] = real[id]
    /\ Harmless(id, zombie[id])

\* What a session in progress sends, by its mode.  Events that change the
\* table during a FULL session leave rows behind for what it sends.
SessionOK ==
  /\ (session.mode = "NONE") = (session.state = "IDLE")
  /\ session.mode = "DELTA" =>
       \A id \in Ids : session.batch[id] # NoItem => Syncing(queue[id])
  /\ session.mode = "FULL" =>
       /\ session.index \in tables
       /\ \A id \in Enabled : ~ HasRow(id) /\ real[id] # None => Harmless(id, session.batch[id])
  /\ session.mode = "CLEAN" =>
       session.index \in disabled /\ session.batch = CleanBatch(session.index)
  /\ session.state = "CLEARED" =>
       /\ session.mode = "CLEAN"
       /\ \A id \in Ids : IndexOf[id] = session.index => queue[id] = NoRow

\* Once the manager has applied the batch, the rows still SYNCING are there.
AppliedOK ==
  session.state = "APPLIED" =>
    /\ zombie = NoBatch
    /\ session.mode = "DELTA" =>
         \A id \in Ids : queue[id].sync = "SYNCING" => server[id] = queue[id].data

SyncingOK ==
  /\ \A id \in Ids : queue[id].sync = "SYNCING" =>
       session.mode = "DELTA" /\ session.batch[id] = ItemOf(queue[id])
  /\ \A id \in Ids : Syncing(queue[id]) => session.mode = "DELTA"

IInv ==
  /\ TypeOK
  /\ context = {}
  /\ \A id \in Ids : RowOK(id)
  /\ SyncingOK
  /\ SessionOK
  /\ AppliedOK
  /\ \A id \in Enabled : Settled(id)

-----------------------------------------------------------------------------
(* What the queue does to one row *)

\* submitOrCoalesce keeps a row for everything but a deletion, with the new
\* content, and never leaves a row that is being sent in status SYNCING.
LEMMA CoalescedRow ==
  ASSUME NEW old \in Row, NEW op \in Operations, NEW data \in Content, NEW ctx \in BOOLEAN,
         NEW r, r = Coalesced(old, op, data, ctx)
  PROVE  /\ r \in Row
         /\ r.sync # "NONE" => r.op = op /\ r.data = data /\ r.ctx = ctx
         /\ r.sync = "NONE" => op = "DELETE"
         /\ r.create = "NEW_DELETED" => r.op = "DELETE"
         /\ IF Syncing(old) THEN r.sync = "SYNCING_UPDATED" ELSE r.sync \in {"NONE", "PENDING"}
BY DEF Coalesced, Inserted, Updated, CreateAfter, SyncingOp, Syncing, NoRow, Row,
       Operations, SyncStatuses, CreateStatuses, Content

\* removeAllSynced drops the rows sent as they are and those of items created
\* and deleted again, and makes the rows updated meanwhile pending.
LEMMA AfterSuccessRow ==
  ASSUME NEW row \in Row, NEW r, r = AfterSuccess(row)
  PROVE  /\ r \in Row
         /\ r.sync \in {"NONE", "PENDING"}
         /\ r.sync # "NONE" => /\ row.sync # "NONE" /\ r.op = row.op
                               /\ r.data = row.data /\ r.ctx = row.ctx
         /\ r.create = "NEW_DELETED" => row.create = "NEW_DELETED" /\ r.op = row.op
         /\ r.sync = "NONE" => \/ row.sync \in {"NONE", "SYNCING"}
                               \/ row.create = "NEW_DELETED"
BY ZenonT(30) DEF AfterSuccess, Synced, Syncing, NoRow, Row,
       Operations, SyncStatuses, CreateStatuses, Content

\* resetAllSyncing makes the rows pending again, but drops a created and
\* deleted item.
LEMMA AfterFailureRow ==
  ASSUME NEW row \in Row, NEW r, r = AfterFailure(row)
  PROVE  /\ r \in Row
         /\ r.sync \in {"NONE", "PENDING"}
         /\ r.sync # "NONE" => /\ row.sync # "NONE" /\ r.op = row.op
                               /\ r.data = row.data /\ r.ctx = row.ctx
         /\ r.create = "NEW_DELETED" => row.create = "NEW_DELETED" /\ r.op = row.op
         /\ r.sync = "NONE" => row.sync = "NONE" \/ row.op = "DELETE"
BY ZenonT(30) DEF AfterFailure, Syncing, NoRow, Row,
       Operations, SyncStatuses, CreateStatuses, Content

-----------------------------------------------------------------------------
(* Types *)

\* Every batch a session can carry maps ids to items, and indexing one gives
\* documents again.
LEMMA BatchTypes ==
  ASSUME TypeOK
  PROVE  /\ NoBatch \in [Ids -> Item]
         /\ PendingBatch \in [Ids -> Item]
         /\ \A idx \in Indexes : TableBatch(idx) \in [Ids -> Item]
         /\ \A idx \in Indexes : CleanBatch(idx) \in [Ids -> Item]
         /\ \A batch \in [Ids -> Item] : Indexed(server, batch) \in [Ids -> Content]
<1>1. NoItem \in Item
  BY Zenon DEF NoItem, Item, Content
<1>2. NoBatch \in [Ids -> Item]
  BY <1>1, Zenon DEF NoBatch
<1>3. ASSUME NEW id \in Ids PROVE ItemOf(queue[id]) \in Item
  BY Zenon DEF TypeOK, QueueTypeOK, Row, ItemOf, Item
<1>4. PendingBatch \in [Ids -> Item]
  BY <1>1, <1>3, Zenon DEF PendingBatch
<1>5. \A idx \in Indexes : TableBatch(idx) \in [Ids -> Item]
  BY <1>1, Zenon DEF TableBatch, TypeOK, Item, Content
<1>6. \A idx \in Indexes : CleanBatch(idx) \in [Ids -> Item]
  BY <1>1, Zenon DEF CleanBatch, Item, Content
<1>7. \A batch \in [Ids -> Item] : Indexed(server, batch) \in [Ids -> Content]
  BY Zenon DEF Indexed, TypeOK, Item
<1>8. QED
  BY <1>2, <1>4, <1>5, <1>6, <1>7, Zenon

\* A session is opened, applied and closed within its type.
LEMMA SessionTypes ==
  /\ NoBatch \in [Ids -> Item] => NoSession \in Session
  /\ \A mode \in {"DELTA", "FULL", "CLEAN"}, idx \in Indexes \cup {None}, batch \in [Ids -> Item] :
       Opened(mode, idx, batch) \in Session
  /\ \A s \in Session : \A state \in {"APPLIED", "CLEARED"} : [s EXCEPT !.state = state] \in Session
BY Zenon DEF NoSession, Opened, Session

\* Each operation of the queue yields a queue.
LEMMA QueueTypes ==
  ASSUME QueueTypeOK
  PROVE  /\ \A id \in Ids, op \in Operations, data \in Content, ctx \in BOOLEAN :
              submit(id, op, data, ctx) => QueueTypeOK'
         /\ fetchAndMarkForSync => QueueTypeOK'
         /\ clearSyncedItems => QueueTypeOK'
         /\ resetSyncingItems => QueueTypeOK'
         /\ clearAllDataContext => QueueTypeOK'
         /\ \A idx \in Indexes \cup {None} : clearItemsByIndex(idx) => QueueTypeOK'
<1>1. NoRow \in Row
  BY Zenon DEF NoRow, Row, Operations, SyncStatuses, CreateStatuses, Content
<1>2. \A id \in Ids, op \in Operations, data \in Content, ctx \in BOOLEAN :
        submit(id, op, data, ctx) => QueueTypeOK'
  BY CoalescedRow DEF submit, QueueTypeOK
<1>3. \A row \in Row : [row EXCEPT !.sync = "SYNCING"] \in Row
  BY Zenon DEF Row, SyncStatuses
<1>4. fetchAndMarkForSync => QueueTypeOK'
  BY <1>3, Zenon DEF fetchAndMarkForSync, QueueTypeOK
<1>5. clearSyncedItems => QueueTypeOK'
  BY AfterSuccessRow, Zenon DEF clearSyncedItems, QueueTypeOK
<1>6. resetSyncingItems => QueueTypeOK'
  BY AfterFailureRow, Zenon DEF resetSyncingItems, QueueTypeOK
<1>7. clearAllDataContext => QueueTypeOK'
  BY <1>1, Zenon DEF clearAllDataContext, WithoutContext, QueueTypeOK
<1>8. \A idx \in Indexes \cup {None} : clearItemsByIndex(idx) => QueueTypeOK'
  BY <1>1, Zenon DEF clearItemsByIndex, QueueTypeOK
<1>9. QED
  BY <1>2, <1>4, <1>5, <1>6, <1>7, <1>8, Zenon

\* What an abandoned session leaves with the manager is a batch.
LEMMA AbandonedType ==
  ASSUME TypeOK
  PROVE  Abandoned \subseteq [Ids -> Item]
BY Zenon DEF Abandoned, TypeOK, Session

\* Every step keeps the variables in their types, in every environment.
LEMMA TypeStep ==
  ASSUME TypeOK, [Next]_vars
  PROVE  TypeOK'
<1> USE QueueAssumption, StateSyncAssumption, BatchTypes, SessionTypes, QueueTypes, AbandonedType
<1>0. faults' = faults /\ faults \in Environments /\ MaxChanges[faults] \in Nat
  BY Zenon DEF Next, vars, TypeOK
<1>1. ASSUME NEW id \in Ids, NEW new \in Content, Change(id, new) PROVE TypeOK'
  <2>1. OperationFor(real[id], new) \in Operations
    BY Zenon DEF OperationFor, Operations
  <2>2. QueueTypeOK'
    BY <1>1, <2>1, Zenon DEF Change, TypeOK
  <2>3. changes' \in 0..MaxChanges[faults]'
    BY <1>0, <1>1 DEF Change, TypeOK
  <2>4. QED
    BY <1>0, <1>1, <2>2, <2>3, Zenon DEF Change, Write, TypeOK
<1>2. ASSUME NEW idx \in Indexes, Disable(idx) PROVE TypeOK'
  <2>1. changes' \in 0..MaxChanges[faults]'
    BY <1>0, <1>2 DEF Disable, TypeOK
  <2>2. QED
    BY <1>0, <1>2, <2>1, Zenon DEF Disable, TypeOK
<1>3. CASE VDContextBegin
  <2>1. changes' \in 0..MaxChanges[faults]'
    BY <1>0, <1>3 DEF VDContextBegin, TypeOK
  <2>2. context' \in SUBSET Ids
    BY <1>0, <1>3, Zenon DEF VDContextBegin
  <2>3. QED
    BY <1>0, <1>3, <2>1, <2>2, Zenon DEF VDContextBegin, TypeOK
<1>4. ASSUME NEW id \in Ids, VDContextSubmit(id) PROVE TypeOK'
  <2>1. "MODIFY" \in Operations /\ real[id] \in Content
    BY Zenon DEF Operations, TypeOK
  <2>2. QueueTypeOK'
    BY <1>0, <1>4, <2>1, Zenon DEF VDContextSubmit, TypeOK
  <2>3. QED
    BY <1>0, <1>4, <2>2, Zenon DEF VDContextSubmit, TypeOK
<1>5. CASE StartDelta
  BY <1>0, <1>5, Zenon DEF StartDelta, TypeOK
<1>6. CASE DeltaWithNothing
  BY <1>0, <1>6, Zenon DEF DeltaWithNothing, TypeOK, QueueTypeOK
<1>7. CASE BeginRecovery
  BY <1>0, <1>7, Zenon DEF BeginRecovery, TypeOK, QueueTypeOK
<1>8. ASSUME NEW idx \in Indexes, SkipTable(idx) PROVE TypeOK'
  BY <1>0, <1>8, Zenon DEF SkipTable, TypeOK, QueueTypeOK
<1>9. ASSUME NEW idx \in Indexes, StartFull(idx) PROVE TypeOK'
  BY <1>0, <1>9 DEF StartFull, TypeOK, QueueTypeOK
<1>10. ASSUME NEW idx \in Indexes, StartClean(idx) PROVE TypeOK'
  BY <1>0, <1>10, Zenon DEF StartClean, TypeOK, QueueTypeOK
<1>11. CASE FinishDelta
  BY <1>0, <1>11, Zenon DEF FinishDelta, TypeOK
<1>12. CASE FinishFull
  BY <1>0, <1>12, Zenon DEF FinishFull, TypeOK, QueueTypeOK
<1>13. CASE ClearRows
  <2>1. session.index \in Indexes \cup {None}
    BY Zenon DEF TypeOK, Session
  <2>2. QueueTypeOK'
    BY <1>0, <1>13, <2>1, Zenon DEF ClearRows, TypeOK
  <2>3. QED
    BY <1>0, <1>13, <2>2, Zenon DEF ClearRows, TypeOK
<1>22. CASE FinishClean
  <2>1. real' \in [Ids -> Content] /\ committed' \in [Ids -> Content]
    BY <1>22, Zenon DEF FinishClean, Write, TypeOK, Content
  <2>2. QED
    BY <1>0, <1>22, <2>1, Zenon DEF FinishClean, TypeOK, QueueTypeOK
<1>14. CASE FinishFail
  <2>1. QueueTypeOK'
    BY <1>0, <1>14, Zenon DEF FinishFail, TypeOK, QueueTypeOK
  <2>2. QED
    BY <1>0, <1>14, <2>1, Zenon DEF FinishFail, TypeOK
<1>15. CASE FinishStorageError
  BY <1>0, <1>15, Zenon DEF FinishStorageError, TypeOK, QueueTypeOK
<1>16. CASE ManagerApplies
  <2>1. session.batch \in [Ids -> Item]
    BY Zenon DEF TypeOK, Session
  <2>2. QED
    BY <1>0, <1>16, <2>1, Zenon DEF ManagerApplies, TypeOK, QueueTypeOK
<1>17. CASE ZombieApplies
  BY <1>0, <1>17, Zenon DEF ZombieApplies, TypeOK, QueueTypeOK
<1>18. CASE CrashRestart
  BY <1>0, <1>18, Zenon DEF CrashRestart, TypeOK
<1>19. CASE Commit
  BY <1>0, <1>19, Zenon DEF Commit, TypeOK, QueueTypeOK
<1>20. CASE UNCHANGED vars
  BY <1>20, Zenon DEF vars, moduleVars, TypeOK, QueueTypeOK
<1>21. QED
  BY <1>1, <1>2, <1>3, <1>4, <1>5, <1>6, <1>7, <1>8, <1>9, <1>10, <1>11, <1>12, <1>13,
     <1>14, <1>15, <1>16, <1>17, <1>18, <1>19, <1>20, <1>22, Zenon DEF Next, ScanStep, SyncStep

-----------------------------------------------------------------------------
(* The invariant is inductive where no DataContext row is added and every    *)
(* transaction is committed                                                  *)

\* What a session in progress, once indexed, does to an enabled item that
\* exists and has no row: nothing, or it writes the present content.
LEMMA BatchHarmless ==
  ASSUME IInv, session.state # "IDLE", NEW id \in Enabled, ~ HasRow(id), real[id] # None
  PROVE  Harmless(id, session.batch[id])
<1> USE DEF IInv
<1>1. session.mode \in {"DELTA", "FULL", "CLEAN"}
  BY Zenon DEF SessionOK, TypeOK, Session
<1>2. CASE session.mode = "DELTA"
  <2>1. session.batch[id] = NoItem
    BY <1>2, Zenon DEF SessionOK, Enabled, HasRow, Syncing
  <2>2. QED
    BY <2>1 DEF Harmless, NoItem
<1>3. CASE session.mode = "FULL"
  BY <1>3, Zenon DEF SessionOK
<1>4. CASE session.mode = "CLEAN"
  BY <1>4 DEF SessionOK, CleanBatch, Enabled, Harmless, NoItem
<1>5. QED
  BY <1>1, <1>2, <1>3, <1>4, Zenon

\* A change of an item.
LEMMA ChangeStep ==
  ASSUME IInv, TypeOK', NEW i \in Ids, NEW new \in Content, Change(i, new)
  PROVE  IInv'
<1> USE DEF IInv
<1> DEFINE op == OperationFor(real[i], new)
<1>1. op \in Operations /\ (op = "DELETE") = (new = None)
  BY Zenon DEF OperationFor, Operations
<1>2. /\ queue' = [queue EXCEPT ![i] = Coalesced(queue[i], op, new, FALSE)]
      /\ queue \in [Ids -> Row] /\ real \in [Ids -> Content]
      /\ real' = [real EXCEPT ![i] = new]
      /\ UNCHANGED <<disabled, server, session, zombie, tables, context>>
  BY Zenon DEF Change, Write, submit, TypeOK, QueueTypeOK
<1>3. /\ queue'[i].sync # "NONE" => /\ queue'[i].op = op /\ queue'[i].data = new
                                    /\ queue'[i].ctx = FALSE
      /\ queue'[i].sync = "NONE" => op = "DELETE"
      /\ queue'[i].create = "NEW_DELETED" => queue'[i].op = "DELETE"
      /\ IF Syncing(queue[i]) THEN queue'[i].sync = "SYNCING_UPDATED"
                              ELSE queue'[i].sync \in {"NONE", "PENDING"}
  <2> DEFINE ctx == FALSE
  <2>1. queue'[i] = Coalesced(queue[i], op, new, ctx) /\ queue[i] \in Row /\ ctx \in BOOLEAN
    BY <1>2, Zenon
  <2> HIDE DEF op, ctx, IInv
  <2>2. queue'[i].sync # "NONE" => queue'[i].ctx = ctx
    BY <1>1, <2>1, CoalescedRow
  <2>3. queue'[i].sync # "NONE" => queue'[i].ctx = FALSE
    BY <2>2, Zenon DEF ctx
  <2>4. QED
    BY <1>1, <2>1, <2>3, CoalescedRow
<1>4. \A id \in Ids \ {i} : queue'[id] = queue[id] /\ real'[id] = real[id]
  BY <1>2, Zenon
<1>5. real'[i] = new
  BY <1>2, Zenon
<1>6. \A id \in Ids : RowOK(id)'
  BY <1>1, <1>3, <1>4, <1>5 DEF RowOK, Carries, HasRow
<1>7. \A id \in Ids : Syncing(queue'[id]) = Syncing(queue[id])
  BY <1>3, <1>4 DEF Syncing
<1>8. \A id \in Ids : queue'[id].sync = "SYNCING" => queue'[id] = queue[id]
  BY <1>3, <1>4, Zenon
<1>9. SyncingOK'
  BY <1>2, <1>7, <1>8, ZenonT(30) DEF SyncingOK
<1>10. SessionOK'
  <2>1. session.mode # "CLEAN"
    BY Zenon DEF Change, ChangeAllowed
  <2>2. ASSUME NEW id \in Enabled', ~ HasRow(id)', real'[id] # None, session.mode = "FULL"
        PROVE  Harmless(id, session.batch[id])'
    <3>1. id \in Ids /\ id # i
      BY <1>1, <1>3, <1>5, <2>2, Zenon DEF Enabled, HasRow
    <3>2. id \in Enabled /\ ~ HasRow(id) /\ real[id] # None
      BY <1>2, <1>4, <2>2, <3>1, Zenon DEF Enabled, HasRow
    <3>3. Harmless(id, session.batch[id])
      BY <2>2, <3>2, Zenon DEF SessionOK
    <3>4. QED
      BY <1>2, <1>4, <3>1, <3>3, Zenon DEF Harmless
  <2>3. QED
    BY <1>2, <1>7, <2>1, <2>2, ZenonT(30) DEF SessionOK
<1>11. AppliedOK'
  BY <1>2, <1>8, ZenonT(30) DEF AppliedOK
<1>12. \A id \in Enabled' : Settled(id)'
  BY <1>1, <1>2, <1>3, <1>4, <1>5, ZenonT(30) DEF Enabled, Settled, Harmless, HasRow
<1>13. QED
  BY <1>2, <1>6, <1>9, <1>10, <1>11, <1>12, Zenon

\* resetAllSyncing, whoever calls it: no row is being sent any more, the rows
\* left carry what they did, and an item that loses its row does not exist.
LEMMA ResetRows ==
  ASSUME IInv, resetSyncingItems, UNCHANGED real
  PROVE  /\ \A id \in Ids : RowOK(id)' /\ ~ Syncing(queue[id])'
         /\ \A id \in Ids : ~ HasRow(id)' /\ real[id] # None => ~ HasRow(id)
<1> USE DEF IInv
<1>1. \A id \in Ids : queue[id] \in Row /\ queue'[id] = AfterFailure(queue[id])
  BY Zenon DEF resetSyncingItems, TypeOK, QueueTypeOK
<1> HIDE DEF IInv
<1>2. ASSUME NEW id \in Ids
      PROVE  /\ queue'[id].sync \in {"NONE", "PENDING"}
             /\ queue'[id].sync # "NONE" =>
                  /\ queue[id].sync # "NONE" /\ queue'[id].op = queue[id].op
                  /\ queue'[id].data = queue[id].data /\ queue'[id].ctx = queue[id].ctx
             /\ queue'[id].create = "NEW_DELETED" =>
                  queue[id].create = "NEW_DELETED" /\ queue'[id].op = queue[id].op
             /\ queue'[id].sync = "NONE" => queue[id].sync = "NONE" \/ queue[id].op = "DELETE"
  BY <1>1, AfterFailureRow, Zenon
<1>3. ASSUME NEW id \in Ids PROVE RowOK(id)'
  BY <1>2, ZenonT(30) DEF IInv, RowOK, Carries, HasRow
<1>4. ASSUME NEW id \in Ids, ~ HasRow(id)', real[id] # None PROVE ~ HasRow(id)
  BY <1>2, <1>4, Zenon DEF IInv, RowOK, Carries, HasRow
<1>5. QED
  BY <1>2, <1>3, <1>4, Zenon DEF Syncing

\* A session that ends without success, by whatever path: what it leaves with
\* the manager is harmless to the items that have no row.
LEMMA AbandonStep ==
  ASSUME IInv, TypeOK', session' = NoSession, zombie' \in Abandoned, context' = {},
         UNCHANGED <<real, disabled, server>>,
         \A id \in Ids : RowOK(id)' /\ ~ Syncing(queue[id])',
         \A id \in Ids : ~ HasRow(id)' /\ real[id] # None => ~ HasRow(id)
  PROVE  IInv'
<1>1. SyncingOK'
  BY Zenon DEF SyncingOK, Syncing
<1>2. SessionOK' /\ AppliedOK'
  BY Zenon DEF SessionOK, AppliedOK, NoSession
<1>3. ASSUME NEW id \in Enabled', ~ HasRow(id)', real'[id] # None
      PROVE  server'[id] = real'[id] /\ Harmless(id, zombie[id])'
  <2>1. id \in Enabled /\ ~ HasRow(id) /\ real[id] # None
    BY <1>3, Zenon DEF Enabled
  <2>2. server[id] = real[id] /\ Harmless(id, zombie[id])
    BY <2>1, Zenon DEF IInv, Settled
  <2>3. zombie' = zombie \/ (session.state = "SENT" /\ zombie' = session.batch)
    BY Zenon DEF Abandoned
  <2>4. session.state = "SENT" => Harmless(id, session.batch[id])
    BY <2>1, BatchHarmless, Zenon
  <2>5. QED
    BY <2>2, <2>3, <2>4, Zenon DEF Harmless
<1>4. \A id \in Enabled' : Settled(id)'
  BY <1>3, Zenon DEF Settled
<1>5. QED
  BY <1>1, <1>2, <1>4, Zenon DEF IInv

\* The manager indexes the batch of the session in progress.
LEMMA ManagerAppliesStep ==
  ASSUME IInv, TypeOK', ManagerApplies
  PROVE  IInv'
<1>1. /\ session.state = "SENT" /\ session \in Session
      /\ session' = [session EXCEPT !.state = "APPLIED"]
      /\ server' = Indexed(server, session.batch)
      /\ zombie' = NoBatch
      /\ UNCHANGED <<queue, real, disabled, tables, context>>
  BY Zenon DEF ManagerApplies, IInv, TypeOK
<1>2. /\ session'.mode = session.mode /\ session'.state = "APPLIED"
      /\ session'.index = session.index /\ session'.batch = session.batch
  BY <1>1, Zenon DEF Session
<1>3. (\A id \in Ids : RowOK(id)') /\ SyncingOK'
  BY <1>1, <1>2, ZenonT(30) DEF IInv, RowOK, Carries, HasRow, SyncingOK
<1>4. SessionOK'
  <2>1. SessionOK
    BY Zenon DEF IInv
  <2>2. \A id \in Enabled' : ~ HasRow(id)' /\ real'[id] # None /\ session'.mode = "FULL" =>
          Harmless(id, session.batch[id])'
    BY <1>1, <1>2, <2>1, ZenonT(30) DEF SessionOK, Enabled, HasRow, Harmless
  <2>3. session'.mode = "CLEAN" =>
          session'.index \in disabled' /\ session'.batch = CleanBatch(session.index)'
    BY <1>1, <1>2, <2>1 DEF SessionOK, CleanBatch
  <2>4. session'.mode = "DELTA" =>
          \A id \in Ids : session'.batch[id] # NoItem => Syncing(queue'[id])
    BY <1>1, <1>2, <2>1, Zenon DEF SessionOK
  <2>5. (session'.mode = "NONE") = (session'.state = "IDLE")
    BY <1>1, <1>2, <2>1 DEF SessionOK
  <2>6. session'.mode = "FULL" => session'.index \in tables'
    BY <1>1, <1>2, <2>1 DEF SessionOK
  <2>7. session'.state # "CLEARED"
    BY <1>2, Zenon
  <2>8. QED
    BY <2>2, <2>3, <2>4, <2>5, <2>6, <2>7, Zenon DEF SessionOK
<1>5. AppliedOK'
  <2>1. ASSUME NEW id \in Ids, queue[id].sync = "SYNCING"
        PROVE  server'[id] = queue[id].data
    <3>1. session.batch[id] = ItemOf(queue[id]) /\ ~ queue[id].ctx
      BY <2>1, Zenon DEF IInv, SyncingOK, RowOK, Carries, HasRow
    <3>2. session.batch[id].op \in {"UPSERT", "DELETE"} /\ session.batch[id].data = queue[id].data
      BY <3>1 DEF ItemOf
    <3>3. QED
      BY <1>1, <3>2, Zenon DEF Indexed
  <2>2. QED
    BY <1>1, <1>2, <2>1, Zenon DEF AppliedOK
<1>6. ASSUME NEW id \in Enabled', ~ HasRow(id)', real'[id] # None
      PROVE  server'[id] = real'[id] /\ Harmless(id, zombie[id])'
  <2>1. id \in Enabled /\ id \in Ids /\ ~ HasRow(id) /\ real[id] # None
    BY <1>1, <1>6, Zenon DEF Enabled, HasRow
  <2>2. server[id] = real[id] /\ Harmless(id, session.batch[id])
    BY <1>1, <2>1, BatchHarmless, Zenon DEF IInv, Settled
  <2>3. server'[id] = real'[id]
    BY <1>1, <2>1, <2>2, Zenon DEF Indexed, Harmless
  <2>4. Harmless(id, zombie[id])'
    BY <1>1, <2>1, Zenon DEF NoBatch, NoItem, Harmless
  <2>5. QED
    BY <2>3, <2>4, Zenon
<1>7. \A id \in Enabled' : Settled(id)'
  BY <1>6, Zenon DEF Settled
<1>8. QED
  BY <1>1, <1>3, <1>4, <1>5, <1>7, Zenon DEF IInv

\* A clear of the rows a DELTA session has delivered.
LEMMA FinishDeltaStep ==
  ASSUME IInv, TypeOK', FinishDelta
  PROVE  IInv'
<1>1. /\ session.mode = "DELTA" /\ session.state = "APPLIED" /\ session' = NoSession
      /\ clearSyncedItems
      /\ UNCHANGED <<real, disabled, server, zombie, tables, context>>
  BY Zenon DEF FinishDelta
<1>2. \A id \in Ids : queue[id] \in Row /\ queue'[id] = AfterSuccess(queue[id])
  BY <1>1, Zenon DEF clearSyncedItems, IInv, TypeOK, QueueTypeOK
<1>3. ASSUME NEW id \in Ids
      PROVE  /\ queue'[id].sync \in {"NONE", "PENDING"}
             /\ queue'[id].sync # "NONE" =>
                  /\ queue[id].sync # "NONE" /\ queue'[id].op = queue[id].op
                  /\ queue'[id].data = queue[id].data /\ queue'[id].ctx = queue[id].ctx
             /\ queue'[id].create = "NEW_DELETED" =>
                  queue[id].create = "NEW_DELETED" /\ queue'[id].op = queue[id].op
             /\ queue'[id].sync = "NONE" => \/ queue[id].sync \in {"NONE", "SYNCING"}
                                            \/ queue[id].create = "NEW_DELETED"
  BY <1>2, AfterSuccessRow, Zenon
<1>4. \A id \in Ids : RowOK(id)' /\ ~ Syncing(queue[id])'
  BY <1>1, <1>3, ZenonT(30) DEF IInv, RowOK, Carries, HasRow, Syncing
<1>5. SyncingOK' /\ SessionOK' /\ AppliedOK'
  BY <1>1, <1>4, Zenon DEF SyncingOK, Syncing, SessionOK, AppliedOK, NoSession
<1>6. ASSUME NEW id \in Enabled', ~ HasRow(id)', real'[id] # None
      PROVE  server'[id] = real'[id] /\ Harmless(id, zombie[id])'
  <2>1. id \in Ids /\ id \in Enabled /\ real[id] # None
    BY <1>1, <1>6, Zenon DEF Enabled
  <2>2. queue[id].sync \in {"NONE", "SYNCING"} \/ queue[id].create = "NEW_DELETED"
    BY <1>3, <1>6, <2>1, Zenon DEF HasRow
  <2>3. queue[id].create = "NEW_DELETED" => queue[id].sync = "NONE"
    BY <2>1, Zenon DEF IInv, RowOK, Carries, HasRow
  <2>4. queue[id].sync = "NONE" => server[id] = real[id]
    BY <2>1, Zenon DEF IInv, Settled, HasRow
  <2>5. queue[id].sync = "SYNCING" => server[id] = real[id]
    BY <1>1, <2>1, Zenon DEF IInv, AppliedOK, RowOK, Carries, HasRow
  <2>6. Harmless(id, zombie[id])'
    BY <1>1, <2>1 DEF IInv, AppliedOK, NoBatch, NoItem, Harmless
  <2>7. QED
    BY <1>1, <2>2, <2>3, <2>4, <2>5, <2>6, Zenon
<1>7. \A id \in Enabled' : Settled(id)'
  BY <1>6, Zenon DEF Settled
<1>8. QED
  BY <1>1, <1>4, <1>5, <1>7, Zenon DEF IInv

\* A DELTA session starts with exactly the rows it marks.
LEMMA StartDeltaStep ==
  ASSUME IInv, TypeOK', StartDelta
  PROVE  IInv'
<1>1. /\ session.mode = "NONE"
      /\ session' = Opened("DELTA", None, PendingBatch)
      /\ queue \in [Ids -> Row]
      /\ queue' = [id \in Ids |-> IF id \in Pending THEN [queue[id] EXCEPT !.sync = "SYNCING"]
                                  ELSE queue[id]]
      /\ UNCHANGED <<real, disabled, server, zombie, tables, context>>
  BY Zenon DEF StartDelta, fetchAndMarkForSync, IInv, TypeOK, QueueTypeOK
<1>2. /\ session'.mode = "DELTA" /\ session'.state = "SENT" /\ session'.batch = PendingBatch
  BY <1>1, Zenon DEF Opened
<1>3. \A id \in Ids : ~ Syncing(queue[id])
  BY <1>1, Zenon DEF IInv, SyncingOK
<1>4. ASSUME NEW id \in Ids
      PROVE  /\ queue'[id].op = queue[id].op /\ queue'[id].data = queue[id].data
             /\ queue'[id].ctx = queue[id].ctx /\ queue'[id].create = queue[id].create
             /\ id \in Pending => queue'[id].sync = "SYNCING"
             /\ id \notin Pending => queue'[id] = queue[id]
  BY <1>1, Zenon DEF Row
<1>5. \A id \in Ids : RowOK(id)' /\ (HasRow(id)' = HasRow(id))
  BY <1>1, <1>4 DEF IInv, RowOK, Carries, HasRow, Pending
<1>6. \A id \in Ids : Syncing(queue'[id]) => id \in Pending
  BY <1>3, <1>4, Zenon
<1>7. \A id \in Ids : id \in Pending => Syncing(queue'[id])
  BY <1>4, Zenon DEF Syncing
<1>8. \A id \in Pending : session'.batch[id] = ItemOf(queue'[id])
  BY <1>2, <1>4 DEF PendingBatch, ItemOf, Pending
<1>9. \A id \in Ids \ Pending : session'.batch[id] = NoItem
  BY <1>2, Zenon DEF PendingBatch
<1>10. SyncingOK'
  BY <1>2, <1>6, <1>8, Zenon DEF SyncingOK, Syncing
<1>11. SessionOK' /\ AppliedOK'
  BY <1>2, <1>7, <1>9, Zenon DEF SessionOK, AppliedOK
<1>12. \A id \in Enabled' : Settled(id)'
  BY <1>1, <1>5, Zenon DEF IInv, Enabled, Settled, Harmless
<1>13. QED
  BY <1>1, <1>5, <1>10, <1>11, <1>12, Zenon DEF IInv

\* A FULL or CLEAN session starts, and the queue is left alone.
LEMMA StartOtherStep ==
  ASSUME IInv, TypeOK', session.mode = "NONE", NEW idx \in Indexes,
         \/ session' = Opened("FULL", idx, TableBatch(idx)) /\ idx \in tables
         \/ session' = Opened("CLEAN", idx, CleanBatch(idx)) /\ idx \in disabled,
         UNCHANGED <<queue, real, disabled, server, zombie, tables, context>>
  PROVE  IInv'
<1>1. (\A id \in Ids : RowOK(id)') /\ (\A id \in Enabled' : Settled(id)')
  BY Zenon DEF IInv, RowOK, Carries, HasRow, Enabled, Settled, Harmless
<1>2. \A id \in Ids : ~ Syncing(queue[id])
  BY Zenon DEF IInv, SyncingOK
<1>3. SyncingOK'
  BY <1>2, Zenon DEF SyncingOK, Syncing
<1>4. SessionOK'
  <2>1. CASE session' = Opened("FULL", idx, TableBatch(idx)) /\ idx \in tables
    <3>1. \A id \in Ids : Harmless(id, TableBatch(idx)[id])
      BY DEF Harmless, TableBatch, NoItem
    <3>2. \A id \in Enabled' : Harmless(id, session.batch[id])'
      BY <2>1, <3>1, Zenon DEF Harmless, Opened, Enabled
    <3>3. QED
      BY <2>1, <3>2, Zenon DEF SessionOK, Opened
  <2>2. CASE session' = Opened("CLEAN", idx, CleanBatch(idx)) /\ idx \in disabled
    BY <2>2 DEF SessionOK, Opened, CleanBatch
  <2>3. QED
    BY <2>1, <2>2, Zenon
<1>5. AppliedOK'
  BY DEF AppliedOK, Opened
<1>6. QED
  BY <1>1, <1>3, <1>4, <1>5, Zenon DEF IInv

\* Steps that change neither rows, items, documents nor the session, and take
\* no table of a FULL session away.
LEMMA QuietStep ==
  ASSUME IInv, TypeOK', session.mode = "FULL" => session.index \in tables',
         UNCHANGED <<queue, real, disabled, server, session, zombie, context>>
  PROVE  IInv'
<1>1. (\A id \in Ids : RowOK(id)') /\ (\A id \in Enabled' : Settled(id)')
  BY Zenon DEF IInv, RowOK, Carries, HasRow, Enabled, Settled, Harmless
<1>2. SyncingOK' /\ SessionOK' /\ AppliedOK'
  BY ZenonT(30) DEF IInv, SyncingOK, SessionOK, CleanBatch, AppliedOK, Enabled, HasRow, Harmless
<1>3. QED
  BY <1>1, <1>2, Zenon DEF IInv

\* The manager indexes what an abandoned session left.
LEMMA ZombieAppliesStep ==
  ASSUME IInv, TypeOK', ZombieApplies
  PROVE  IInv'
<1>1. /\ zombie # NoBatch /\ zombie' = NoBatch /\ server' = Indexed(server, zombie)
      /\ UNCHANGED <<queue, real, disabled, session, tables, context>>
  BY Zenon DEF ZombieApplies
<1>2. session.state # "APPLIED"
  BY <1>1, Zenon DEF IInv, AppliedOK
<1>3. (\A id \in Ids : RowOK(id)') /\ SyncingOK' /\ SessionOK' /\ AppliedOK'
  BY <1>1, <1>2, ZenonT(30) DEF IInv, RowOK, Carries, HasRow, SyncingOK, SessionOK, CleanBatch,
     AppliedOK, Enabled, Harmless
<1>4. ASSUME NEW id \in Enabled' PROVE Settled(id)'
  <2>1. id \in Enabled /\ id \in Ids
    BY <1>1, Zenon DEF Enabled
  <2>2. Settled(id)
    BY <2>1, Zenon DEF IInv
  <2>3. zombie'[id].op = "NONE"
    BY <1>1, <2>1, Zenon DEF NoBatch, NoItem
  <2>4. ~ HasRow(id)' /\ real'[id] # None => server'[id] = real'[id]
    BY <1>1, <2>1, <2>2, Zenon DEF Settled, Harmless, HasRow, Indexed
  <2>5. QED
    BY <2>3, <2>4, Zenon DEF Settled, Harmless
<1>5. QED
  BY <1>1, <1>3, <1>4, Zenon DEF IInv

\* The rows of an index the manager has emptied go.
LEMMA ClearRowsStep ==
  ASSUME IInv, TypeOK', ClearRows
  PROVE  IInv'
<1>1. /\ session.mode = "CLEAN" /\ session.state = "APPLIED" /\ session \in Session
      /\ session' = [session EXCEPT !.state = "CLEARED"]
      /\ queue' = [id \in Ids |-> IF IndexOf[id] = session.index THEN NoRow ELSE queue[id]]
      /\ UNCHANGED <<real, disabled, server, zombie, tables, context>>
  BY Zenon DEF ClearRows, clearItemsByIndex, IInv, TypeOK
<1>2. /\ session'.mode = "CLEAN" /\ session'.state = "CLEARED"
      /\ session'.index = session.index /\ session'.batch = session.batch
  BY <1>1, Zenon DEF Session
<1>3. \A id \in Ids : ~ Syncing(queue[id]) /\ ~ Syncing(queue'[id])
  BY <1>1, Zenon DEF IInv, SyncingOK, Syncing, NoRow
<1>4. \A id \in Ids : RowOK(id)'
  BY <1>1, Zenon DEF IInv, RowOK, Carries, HasRow, NoRow
<1>5. SyncingOK' /\ AppliedOK'
  BY <1>2, <1>3, Zenon DEF SyncingOK, Syncing, AppliedOK
<1>6. SessionOK'
  <2>1. session'.index \in disabled' /\ session'.batch = CleanBatch(session.index)'
    BY <1>1, <1>2 DEF IInv, SessionOK, CleanBatch
  <2>2. \A id \in Ids : IndexOf[id] = session'.index => queue'[id] = NoRow
    BY <1>1, <1>2, Zenon
  <2>3. QED
    BY <1>2, <2>1, <2>2, Zenon DEF SessionOK
<1>7. ASSUME NEW id \in Enabled' PROVE Settled(id)'
  <2>1. id \in Ids /\ id \in Enabled /\ IndexOf[id] # session.index
    BY <1>1, Zenon DEF Enabled, IInv, SessionOK
  <2>2. Settled(id) /\ queue'[id] = queue[id]
    BY <1>1, <2>1, Zenon DEF IInv
  <2>3. QED
    BY <1>1, <2>2, Zenon DEF Settled, Harmless, HasRow
<1>8. QED
  BY <1>1, <1>4, <1>5, <1>6, <1>7, Zenon DEF IInv

\* The items of an index without rows go.
LEMMA FinishCleanStep ==
  ASSUME IInv, TypeOK', FinishClean
  PROVE  IInv'
<1>1. /\ session.mode = "CLEAN" /\ session.state = "CLEARED" /\ session' = NoSession
      /\ real' = [id \in Ids |-> IF IndexOf[id] = session.index THEN None ELSE real[id]]
      /\ disabled' = disabled \ {session.index}
      /\ UNCHANGED <<queue, server, zombie, tables, context>>
      /\ \A id \in Ids : IndexOf[id] = session.index => queue[id] = NoRow
  BY Zenon DEF FinishClean, Write, IInv, SessionOK
<1>2. \A id \in Ids : ~ Syncing(queue[id]) /\ ~ Syncing(queue'[id])
  BY <1>1, Zenon DEF IInv, SyncingOK, Syncing, NoRow
<1>3. ASSUME NEW id \in Ids PROVE RowOK(id)'
  <2>1. RowOK(id)
    BY Zenon DEF IInv
  <2>2. CASE IndexOf[id] = session.index
    BY <1>1, <2>2 DEF RowOK, HasRow, NoRow
  <2>3. CASE IndexOf[id] # session.index
    BY <1>1, <2>1, <2>3, Zenon DEF RowOK, Carries, HasRow
  <2>4. QED
    BY <2>2, <2>3, Zenon
<1>4. SyncingOK' /\ SessionOK' /\ AppliedOK'
  BY <1>1, <1>2, Zenon DEF SyncingOK, Syncing, SessionOK, AppliedOK, NoSession
<1>5. ASSUME NEW id \in Enabled', real'[id] # None PROVE Settled(id)'
  <2>1. id \in Ids /\ IndexOf[id] # session.index /\ id \in Enabled
    BY <1>1, <1>5, Zenon DEF Enabled
  <2>2. Settled(id) /\ queue'[id] = queue[id] /\ real'[id] = real[id]
    BY <1>1, <2>1, Zenon DEF IInv
  <2>3. QED
    BY <1>1, <2>2, Zenon DEF Settled, Harmless, HasRow
<1>6. \A id \in Enabled' : Settled(id)'
  BY <1>5, Zenon DEF Settled
<1>7. QED
  BY <1>1, <1>3, <1>4, <1>6, Zenon DEF IInv

\* An index is taken out of the configuration between two sessions.
LEMMA DisableStep ==
  ASSUME IInv, TypeOK', NEW idx \in Indexes, Disable(idx)
  PROVE  IInv'
<1>1. /\ session.mode = "NONE" /\ resetSyncingItems
      /\ disabled' = disabled \cup {idx}
      /\ UNCHANGED <<real, server, session, zombie, tables, context>>
  BY Zenon DEF Disable
<1>2. /\ \A id \in Ids : RowOK(id)' /\ ~ Syncing(queue[id])'
      /\ \A id \in Ids : ~ HasRow(id)' /\ real[id] # None => ~ HasRow(id)
  BY <1>1, ResetRows, Zenon
<1>3. SyncingOK' /\ SessionOK' /\ AppliedOK'
  BY <1>1, <1>2, Zenon DEF IInv, SyncingOK, Syncing, SessionOK, AppliedOK
<1>4. \A id \in Enabled' : Settled(id)'
  BY <1>1, <1>2, Zenon DEF IInv, Enabled, Settled, Harmless
<1>5. QED
  BY <1>1, <1>2, <1>3, <1>4, Zenon DEF IInv

\* A FULL session ends with success: nothing but the session changes.
LEMMA FinishFullStep ==
  ASSUME IInv, TypeOK', FinishFull
  PROVE  IInv'
<1>1. /\ session.mode = "FULL" /\ session' = NoSession
      /\ UNCHANGED <<queue, real, disabled, server, zombie, context>>
  BY Zenon DEF FinishFull
<1>2. (\A id \in Ids : RowOK(id)') /\ (\A id \in Enabled' : Settled(id)')
  BY <1>1, Zenon DEF IInv, RowOK, Carries, HasRow, Enabled, Settled, Harmless
<1>3. \A id \in Ids : ~ Syncing(queue[id])
  BY <1>1, Zenon DEF IInv, SyncingOK
<1>4. SyncingOK' /\ SessionOK' /\ AppliedOK'
  BY <1>1, <1>3, Zenon DEF SyncingOK, Syncing, SessionOK, AppliedOK, NoSession
<1>5. QED
  BY <1>1, <1>2, <1>4, Zenon DEF IInv

\* A session fails: the rows of a DELTA session are reset, the others' queue
\* is left alone and has no row being sent.
LEMMA FinishFailStep ==
  ASSUME IInv, TypeOK', FinishFail
  PROVE  IInv'
<1>1. /\ session' = NoSession /\ zombie' \in Abandoned /\ context' = {}
      /\ UNCHANGED <<real, disabled, server>>
  BY Zenon DEF FinishFail, IInv
<1>2. CASE session.mode = "DELTA"
  BY <1>1, <1>2, ResetRows, AbandonStep, Zenon DEF FinishFail
<1>3. CASE session.mode # "DELTA"
  <2>1. UNCHANGED queue
    BY <1>3, Zenon DEF FinishFail
  <2>2. \A id \in Ids : RowOK(id)' /\ ~ Syncing(queue[id])'
    BY <1>1, <1>3, <2>1, Zenon DEF IInv, RowOK, Carries, HasRow, SyncingOK
  <2>3. \A id \in Ids : ~ HasRow(id)' /\ real[id] # None => ~ HasRow(id)
    BY <2>1, Zenon DEF HasRow
  <2>4. QED
    BY <1>1, <2>2, <2>3, AbandonStep, Zenon
<1>4. QED
  BY <1>2, <1>3, Zenon

\* The agent restarts, with or without a session in progress.
LEMMA CrashStep ==
  ASSUME Calm, IInv, TypeOK', CrashRestart
  PROVE  IInv'
<1>1. UNCHANGED real
  BY Zenon DEF CrashRestart, Calm
<1>2. QED
  BY <1>1, ResetRows, AbandonStep, Zenon DEF CrashRestart

\* The module starts in step with the manager and without rows.
LEMMA IInvInit ==
  ASSUME Init
  PROVE  IInv
<1>1. TypeOK
  <2>1. NoRow \in Row /\ NoItem \in Item
    BY Zenon DEF NoRow, Row, Operations, SyncStatuses, CreateStatuses, Content, NoItem, Item
  <2>2. queue \in [Ids -> Row] /\ zombie \in [Ids -> Item]
    BY <2>1, Zenon DEF Init, QueueInit, NoBatch
  <2>3. session \in Session
    BY <2>1, Zenon DEF Init, NoSession, Session, NoBatch
  <2>4. faults \in Environments /\ changes \in 0..MaxChanges[faults]
    BY StateSyncAssumption DEF Init
  <2>5. disabled \subseteq Indexes /\ tables \subseteq Indexes /\ context \subseteq Ids
    BY Zenon DEF Init
  <2>6. sync_result \in BOOLEAN
    BY ZenonT(30) DEF Init
  <2>7. {real, committed, server} \subseteq [Ids -> Content]
    BY Zenon DEF Init
  <2>8. QED
    BY <2>2, <2>3, <2>4, <2>5, <2>6, <2>7, Zenon DEF TypeOK, QueueTypeOK
<1>2. \A id \in Ids : queue[id] = NoRow /\ zombie[id] = NoItem
  BY Zenon DEF Init, QueueInit, NoBatch
<1>3. \A id \in Ids : RowOK(id)
  <2>1. NoRow.sync = "NONE" /\ NoRow.create = "EXISTING"
    BY Zenon DEF NoRow
  <2>2. QED
    BY <1>2, <2>1, Zenon DEF RowOK, HasRow
<1>4. SyncingOK /\ SessionOK /\ AppliedOK
  BY <1>2 DEF Init, SyncingOK, Syncing, NoRow, SessionOK, AppliedOK, NoSession
<1>5. \A id \in Enabled : Settled(id)
  BY <1>2 DEF Init, Enabled, Settled, Harmless, NoItem
<1>6. QED
  BY <1>1, <1>3, <1>4, <1>5, Zenon DEF Init, IInv

\* Every step preserves the inductive invariant, one lemma per action.
LEMMA IInvStep ==
  ASSUME Calm, IInv, [Next]_vars
  PROVE  IInv'
<1>1. TypeOK'
  BY TypeStep, Zenon DEF IInv
<1>2. ASSUME NEW id \in Ids, NEW new \in Content, Change(id, new) PROVE IInv'
  BY <1>1, <1>2, ChangeStep, Zenon
<1>3. ASSUME NEW idx \in Indexes, Disable(idx) PROVE IInv'
  BY <1>1, <1>3, DisableStep, Zenon
<1>4. ~ VDContextBegin /\ ~ FinishStorageError
  BY Zenon DEF Calm, VDContextBegin, FinishStorageError
<1>5. \A id \in Ids : ~ VDContextSubmit(id)
  BY Zenon DEF IInv, VDContextSubmit
<1>6. CASE StartDelta
  BY <1>1, <1>6, StartDeltaStep, Zenon
<1>7. CASE DeltaWithNothing \/ BeginRecovery \/ Commit \/ UNCHANGED vars
  <2>1. UNCHANGED <<queue, real, disabled, server, session, zombie, context>>
    BY <1>7, Zenon DEF DeltaWithNothing, BeginRecovery, Commit, vars, moduleVars
  <2>2. session.mode = "FULL" => session.index \in tables'
    BY <1>7, Zenon DEF DeltaWithNothing, BeginRecovery, Commit, vars, moduleVars, IInv, SessionOK
  <2>3. QED
    BY <1>1, <2>1, <2>2, QuietStep, Zenon
<1>8. ASSUME NEW idx \in Indexes, SkipTable(idx) PROVE IInv'
  BY <1>1, <1>8, QuietStep, Zenon DEF SkipTable
<1>9. ASSUME NEW idx \in Indexes, StartFull(idx) PROVE IInv'
  <2>1. CASE HasData(idx)
    BY <1>1, <1>9, <2>1, StartOtherStep, Zenon DEF StartFull
  <2>2. CASE ~ HasData(idx)
    BY <1>1, <1>9, <2>2, QuietStep, Zenon DEF StartFull
  <2>3. QED
    BY <2>1, <2>2, Zenon
<1>10. ASSUME NEW idx \in Indexes, StartClean(idx) PROVE IInv'
  BY <1>1, <1>10, StartOtherStep, Zenon DEF StartClean
<1>11. CASE FinishDelta
  BY <1>1, <1>11, FinishDeltaStep, Zenon
<1>12. CASE FinishFull
  BY <1>1, <1>12, FinishFullStep, Zenon
<1>13. CASE FinishClean \/ ClearRows
  BY <1>1, <1>13, FinishCleanStep, ClearRowsStep, Zenon
<1>14. CASE FinishFail
  BY <1>1, <1>14, FinishFailStep, Zenon
<1>15. CASE ManagerApplies
  BY <1>1, <1>15, ManagerAppliesStep, Zenon
<1>16. CASE ZombieApplies
  BY <1>1, <1>16, ZombieAppliesStep, Zenon
<1>17. CASE CrashRestart
  BY <1>1, <1>17, CrashStep, Zenon
<1>18. QED
  BY <1>2, <1>3, <1>4, <1>5, <1>6, <1>7, <1>8, <1>9, <1>10, <1>11, <1>12, <1>13,
     <1>14, <1>15, <1>16, <1>17, Zenon DEF Next, ScanStep, SyncStep

-----------------------------------------------------------------------------
(* Theorems *)

\* In every environment the variables keep their types.
THEOREM TypeCorrect == Spec => []TypeOK
<1>1. Init => TypeOK
  BY IInvInit, Zenon DEF IInv
<1>2. TypeOK /\ [Next]_vars => TypeOK'
  BY TypeStep, Zenon
<1>3. QED
  BY <1>1, <1>2, PTL DEF Spec

\* The environment does not change.
LEMMA CalmStep ==
  ASSUME [Next]_vars
  PROVE  (Calm' = Calm) /\ (Reliable' = Reliable)
BY Zenon DEF Next, vars, Calm, Reliable

\* Lost acknowledgements, late applications by the manager, crashes and FULL
\* recoveries never lose an existing item: what the manager does not have is
\* in the queue, as long as no DataContext row is added and every transaction
\* is committed.
THEOREM NoUpsertIsLost == Spec => []NoLostUpsert
<1>1. Init => (Calm => IInv)
  BY IInvInit, Zenon
<1>2. (Calm => IInv) /\ [Next]_vars => (Calm => IInv)'
  BY IInvStep, CalmStep, Zenon
<1>3. (Calm => IInv) => NoLostUpsert
  BY Zenon DEF IInv, Settled, RowOK, NoLostUpsert, Enabled
<1>4. QED
  BY <1>1, <1>2, <1>3, PTL DEF Spec

\* In the same environments a row marked SYNCING is in the running session's
\* batch with its present content, so deleting it on success is right.
THEOREM SyncingRowsAreSent == Spec => []RowIsInBatch
<1>1. Init => (Calm => IInv)
  BY IInvInit, Zenon
<1>2. (Calm => IInv) /\ [Next]_vars => (Calm => IInv)'
  BY IInvStep, CalmStep, Zenon
<1>3. (Calm => IInv) => RowIsInBatch
  BY Zenon DEF IInv, SyncingOK, RowIsInBatch
<1>4. QED
  BY <1>1, <1>2, <1>3, PTL DEF Spec

-----------------------------------------------------------------------------
(* Rows are current, with DataContext rows and failing transactions too *)

CurrentRow(id) ==
  HasRow(id) => /\ queue[id].data = real[id]
                /\ (queue[id].op = "DELETE") = (real[id] = None)

\* The items the context pass has still to submit exist, and none of them is
\* cleaned meanwhile; the items about to be removed have no rows.
RInv ==
  /\ TypeOK
  /\ \A id \in Ids : CurrentRow(id)
  /\ \A id \in context : real[id] # None
  /\ session.mode = "CLEAN" => context = {}
  /\ session.state = "CLEARED" =>
       /\ session.mode = "CLEAN"
       /\ \A id \in Ids : IndexOf[id] = session.index => ~ HasRow(id)

\* Whoever clears or resets the queue leaves rows as they were, or none.
LEMMA RowsKept ==
  ASSUME RInv,
         \/ fetchAndMarkForSync \/ clearSyncedItems \/ resetSyncingItems
         \/ clearAllDataContext \/ UNCHANGED queue
  PROVE  \A id \in Ids : /\ HasRow(id)' => HasRow(id)
                         /\ HasRow(id)' => /\ queue'[id].data = queue[id].data
                                           /\ queue'[id].op = queue[id].op
<1>1. queue \in [Ids -> Row]
  BY Zenon DEF RInv, TypeOK, QueueTypeOK
<1>2. CASE fetchAndMarkForSync
  BY <1>1, <1>2, ZenonT(30) DEF fetchAndMarkForSync, Pending, HasRow, Row
<1>3. CASE clearSyncedItems
  BY <1>1, <1>3, AfterSuccessRow, ZenonT(30) DEF clearSyncedItems, HasRow
<1>4. CASE resetSyncingItems
  BY <1>1, <1>4, AfterFailureRow DEF resetSyncingItems, HasRow
<1>5. CASE clearAllDataContext
  BY <1>1, <1>5, Zenon DEF clearAllDataContext, WithoutContext, HasRow, NoRow
<1>6. CASE UNCHANGED queue
  BY <1>6, Zenon DEF HasRow
<1>7. QED
  BY <1>2, <1>3, <1>4, <1>5, <1>6, Zenon

\* A submission makes its row current and leaves the others alone.
LEMMA RowSubmitted ==
  ASSUME RInv, NEW i \in Ids, NEW op \in Operations, NEW data \in Content, NEW ctx \in BOOLEAN,
         submit(i, op, data, ctx)
  PROVE  /\ HasRow(i)' => queue'[i].data = data /\ queue'[i].op = op
         /\ \A id \in Ids \ {i} : queue'[id] = queue[id]
<1>1. queue \in [Ids -> Row] /\ queue' = [queue EXCEPT ![i] = Coalesced(queue[i], op, data, ctx)]
  BY Zenon DEF RInv, TypeOK, QueueTypeOK, submit
<1>2. queue[i] \in Row /\ queue'[i] = Coalesced(queue[i], op, data, ctx)
  BY <1>1, Zenon
<1>3. queue'[i].sync # "NONE" => queue'[i].op = op /\ queue'[i].data = data
  BY <1>2, CoalescedRow
<1>4. QED
  BY <1>1, <1>3, Zenon DEF HasRow

\* A step that leaves the table alone and submits nothing.
LEMMA TableKept ==
  ASSUME RInv, TypeOK', UNCHANGED real, context' \subseteq context,
         session'.mode = "CLEAN" => context' = {},
         UNCHANGED session \/ session'.state # "CLEARED",
         \/ fetchAndMarkForSync \/ clearSyncedItems \/ resetSyncingItems \/ UNCHANGED queue
  PROVE  RInv'
<1>1. \A id \in Ids : CurrentRow(id)'
  BY RowsKept, ZenonT(30) DEF RInv, CurrentRow
<1>2. \A id \in Ids : HasRow(id)' => HasRow(id)
  BY RowsKept, Zenon
<1>3. session'.state = "CLEARED" =>
        /\ session'.mode = "CLEAN"
        /\ \A id \in Ids : IndexOf[id] = session'.index => ~ HasRow(id)'
  BY <1>2, Zenon DEF RInv
<1>4. QED
  BY <1>1, <1>3, Zenon DEF RInv

\* Where no transaction is lost, every step keeps the rows current.
LEMMA RowsStep ==
  ASSUME RInv, "rollback" \notin faults, [Next]_vars
  PROVE  RInv'
<1>1. TypeOK'
  BY TypeStep, Zenon DEF RInv
<1>2. ASSUME NEW i \in Ids, NEW new \in Content, Change(i, new) PROVE RInv'
  <2>1. /\ submit(i, OperationFor(real[i], new), new, FALSE)
        /\ real' = [real EXCEPT ![i] = new] /\ real \in [Ids -> Content]
        /\ context = {} /\ context' = {} /\ UNCHANGED session /\ session.mode # "CLEAN"
    BY <1>2, Zenon DEF Change, ChangeAllowed, Write, RInv, TypeOK
  <2>2. /\ OperationFor(real[i], new) \in Operations
        /\ (OperationFor(real[i], new) = "DELETE") = (new = None)
    BY Zenon DEF OperationFor, Operations
  <2>3. /\ HasRow(i)' => queue'[i].data = new /\ queue'[i].op = OperationFor(real[i], new)
        /\ \A id \in Ids \ {i} : queue'[id] = queue[id]
    BY <2>1, <2>2, RowSubmitted, Zenon
  <2>4. real'[i] = new /\ \A id \in Ids \ {i} : real'[id] = real[id]
    BY <2>1, Zenon
  <2>5. \A id \in Ids : CurrentRow(id)'
    BY <2>2, <2>3, <2>4 DEF CurrentRow, HasRow, RInv
  <2>6. QED
    BY <1>1, <2>1, <2>5, Zenon DEF RInv
<1>3. ASSUME NEW i \in Ids, VDContextSubmit(i) PROVE RInv'
  <2>1. /\ submit(i, "MODIFY", real[i], TRUE) /\ i \in context
        /\ context' = context \ {i} /\ UNCHANGED <<real, session>> /\ session.mode # "CLEAN"
    BY <1>3, Zenon DEF VDContextSubmit, RInv
  <2>2. "MODIFY" \in Operations /\ real[i] \in Content /\ real[i] # None
    BY <2>1, Zenon DEF Operations, RInv, TypeOK
  <2>3. /\ HasRow(i)' => queue'[i].data = real[i] /\ queue'[i].op = "MODIFY"
        /\ \A id \in Ids \ {i} : queue'[id] = queue[id]
    BY <2>1, <2>2, RowSubmitted, Zenon
  <2>4. \A id \in Ids : CurrentRow(id)'
    BY <2>1, <2>2, <2>3 DEF CurrentRow, HasRow, RInv
  <2>5. QED
    BY <1>1, <2>1, <2>4, Zenon DEF RInv
<1>4. CASE VDContextBegin
  <2>1. /\ clearAllDataContext /\ UNCHANGED <<real, session>> /\ session.mode # "CLEAN"
        /\ \A id \in context' : real[id] # None
    BY <1>4, Zenon DEF VDContextBegin, ScanAllowed
  <2>2. \A id \in Ids : CurrentRow(id)'
    BY <2>1, RowsKept, ZenonT(30) DEF RInv, CurrentRow
  <2>3. QED
    BY <1>1, <2>1, <2>2, Zenon DEF RInv
<1>5. CASE FinishClean
  <2>1. /\ session.mode = "CLEAN" /\ session' = NoSession /\ UNCHANGED <<queue, context>>
        /\ real' = [id \in Ids |-> IF IndexOf[id] = session.index THEN None ELSE real[id]]
        /\ \A id \in Ids : IndexOf[id] = session.index => ~ HasRow(id)
    BY <1>5, Zenon DEF FinishClean, Write, RInv
  <2>2. \A id \in Ids : CurrentRow(id)'
    BY <2>1, Zenon DEF CurrentRow, HasRow, RInv
  <2>3. session'.state # "CLEARED"
    BY <2>1, Zenon DEF NoSession
  <2>4. QED
    BY <1>1, <2>1, <2>2, <2>3, Zenon DEF RInv
<1>13. CASE ClearRows
  <2>1. /\ session.mode = "CLEAN" /\ session'.mode = "CLEAN" /\ session'.index = session.index
        /\ queue' = [id \in Ids |-> IF IndexOf[id] = session.index THEN NoRow ELSE queue[id]]
        /\ UNCHANGED <<real, context>>
    BY <1>13, Zenon DEF ClearRows, clearItemsByIndex, RInv, TypeOK, Session
  <2>2. \A id \in Ids : CurrentRow(id)' /\ (IndexOf[id] = session.index => ~ HasRow(id)')
    BY <2>1, Zenon DEF CurrentRow, HasRow, NoRow, RInv
  <2>3. QED
    BY <1>1, <2>1, <2>2, Zenon DEF RInv
<1>6. CASE StartDelta \/ FinishDelta \/ FinishStorageError \/ FinishFail \/ FinishFull
  BY <1>1, <1>6, TableKept DEF StartDelta, FinishDelta, FinishStorageError, FinishFail,
     FinishFull, Opened, NoSession, RInv
<1>7. CASE DeltaWithNothing \/ BeginRecovery \/ Commit \/ ZombieApplies \/ UNCHANGED vars
  BY <1>1, <1>7, TableKept, Zenon DEF DeltaWithNothing, BeginRecovery, Commit, ZombieApplies,
     vars, moduleVars, RInv
<1>8. CASE ManagerApplies
  <2>1. /\ session'.mode = session.mode /\ session'.state # "CLEARED"
        /\ UNCHANGED <<queue, real, context>>
    BY <1>8, Zenon DEF ManagerApplies, RInv, TypeOK, Session
  <2>2. QED
    BY <1>1, <2>1, TableKept, Zenon DEF RInv
<1>9. CASE CrashRestart
  BY <1>1, <1>9, TableKept, Zenon DEF CrashRestart, NoSession
<1>10. ASSUME NEW idx \in Indexes, Disable(idx) PROVE RInv'
  BY <1>1, <1>10, TableKept, Zenon DEF Disable, RInv
<1>11. ASSUME NEW idx \in Indexes, SkipTable(idx) \/ StartFull(idx) \/ StartClean(idx) PROVE RInv'
  BY <1>1, <1>11, TableKept DEF SkipTable, StartFull, StartClean, Opened, RInv
<1>12. QED
  BY <1>2, <1>3, <1>4, <1>5, <1>6, <1>7, <1>8, <1>9, <1>10, <1>11, <1>13, Zenon DEF Next,
     ScanStep, SyncStep

\* In every environment in which the table's transactions survive, with
\* DataContext rows and failing finalisations: the row of an item holds its
\* latest operation and content.
THEOREM RowsAreCurrent == Spec => []RowIsCurrent
<1> DEFINE Safe == "rollback" \notin faults => RInv
<1>1. Init => Safe
  <2>1. Init => session.mode = "NONE" /\ session.state = "IDLE" /\ context = {}
    BY DEF Init, NoSession
  <2>2. QED
    BY <2>1, IInvInit, Zenon DEF IInv, RInv, RowOK, Carries, CurrentRow
<1>2. Safe /\ [Next]_vars => Safe'
  <2>1. [Next]_vars => faults' = faults
    BY Zenon DEF Next, vars
  <2>2. QED
    BY <2>1, RowsStep, Zenon
<1>3. Safe => RowIsCurrent
  BY Zenon DEF RInv, CurrentRow, RowIsCurrent
<1>4. QED
  BY <1>1, <1>2, <1>3, PTL DEF Spec

-----------------------------------------------------------------------------
(***************************************************************************)
(* With an environment in which every session's outcome is reported        *)
(* faithfully (Reliable), deletions are not lost either: Covered.       *)
(* The point is the create status: dropping a NEW row on a deletion, or a  *)
(* NEW_DELETED row after a failure, is right because the manager has never *)
(* been given the item.                                                    *)
(***************************************************************************)

\* The combinations of operation and status columns that occur.
ColumnsOK(row) ==
  /\ row.sync # "NONE" => row.op \in Operations
  /\ row.create = "NEW" => row.sync # "NONE" /\ row.op # "DELETE"
  /\ row.create = "NEW_DELETED" => row.sync = "SYNCING_UPDATED" /\ row.op = "DELETE"
  /\ row.sync \in {"PENDING", "SYNCING"} => row.opSyncing = "NO_OP"
  /\ row.sync = "SYNCING_UPDATED" /\ row.create \in {"NEW", "NEW_DELETED"} =>
       row.opSyncing \in {"CREATE", "MODIFY"}

\* An item that is NEW to the queue is new to the manager too, until a session
\* that carries it has been applied; an item without a row is in step.
CreateOK(id) ==
  /\ ~ HasRow(id) => server[id] = real[id]
  /\ queue[id].sync = "PENDING" /\ queue[id].create = "NEW" => server[id] = None
  /\ Syncing(queue[id]) /\ queue[id].create # "EXISTING" /\ session.state = "SENT" =>
       server[id] = None

CInv ==
  /\ IInv
  /\ zombie = NoBatch
  /\ tables = {}
  /\ \A id \in Ids : ColumnsOK(queue[id])
  /\ \A id \in Enabled : CreateOK(id)
  /\ session.mode = "CLEAN" /\ session.state \in {"APPLIED", "CLEARED"} =>
       \A id \in Ids : IndexOf[id] = session.index => server[id] = None

-----------------------------------------------------------------------------
(* One row *)

\* Coalescing keeps the columns consistent, makes a row NEW only by inserting
\* it for a CREATE or by keeping a row that was NEW or NEW_DELETED, and drops
\* only a NEW row that is pending.
LEMMA CoalescedColumns ==
  ASSUME NEW old \in Row, ColumnsOK(old), NEW op \in Operations, NEW data \in Content,
         NEW ctx \in BOOLEAN, NEW r, r = Coalesced(old, op, data, ctx)
  PROVE  /\ ColumnsOK(r)
         /\ r.sync = "NONE" => old.create = "NEW" /\ old.sync = "PENDING"
         /\ r.sync = "PENDING" /\ r.create = "NEW" =>
              \/ old.sync = "NONE" /\ op = "CREATE"
              \/ old.sync = "PENDING" /\ old.create = "NEW"
         /\ Syncing(r) /\ r.create # "EXISTING" => Syncing(old) /\ old.create # "EXISTING"
BY ZenonT(30) DEF Coalesced, Inserted, Updated, CreateAfter, SyncingOp, Syncing, NoRow, ColumnsOK,
   Row, Operations, SyncStatuses, CreateStatuses, Content

\* Success leaves the columns consistent, drops only rows that were SYNCING,
\* and leaves a NEW row only where it was pending.
LEMMA AfterSuccessColumns ==
  ASSUME NEW row \in Row, ColumnsOK(row), NEW r, r = AfterSuccess(row)
  PROVE  /\ ColumnsOK(r)
         /\ r.sync = "NONE" => row.sync \in {"NONE", "SYNCING"}
         /\ r.create = "NEW" => row.sync = "PENDING" /\ row.create = "NEW"
BY ZenonT(30) DEF AfterSuccess, Synced, Syncing, NoRow, ColumnsOK, Row, Operations, SyncStatuses,
   CreateStatuses, Content

\* Failure leaves the columns consistent, drops only NEW_DELETED rows, and
\* leaves a NEW row only where it was NEW.
LEMMA AfterFailureColumns ==
  ASSUME NEW row \in Row, ColumnsOK(row), NEW r, r = AfterFailure(row)
  PROVE  /\ ColumnsOK(r)
         /\ r.sync = "NONE" => \/ row.sync = "NONE"
                               \/ Syncing(row) /\ row.create = "NEW_DELETED"
         /\ r.create = "NEW" => row.create = "NEW" /\ row.sync # "NONE"
         /\ ~ Syncing(row) => r = row
BY Zenon DEF AfterFailure, Syncing, NoRow, ColumnsOK, Row, Operations, SyncStatuses,
   CreateStatuses, Content

-----------------------------------------------------------------------------
(* The steps *)

\* A change leaves a row that carries it, unless the manager has no document
\* and needs none.
LEMMA CoveredChange ==
  ASSUME CInv, IInv', NEW i \in Ids, NEW new \in Content, Change(i, new)
  PROVE  CInv'
<1> DEFINE op == OperationFor(real[i], new)
<1> DEFINE ctx == FALSE
<1>1. op \in Operations /\ ctx \in BOOLEAN /\ (op = "CREATE" => real[i] = None)
      /\ (op = "DELETE") = (new = None)
  BY Zenon DEF OperationFor, Operations
<1>2. /\ queue' = [queue EXCEPT ![i] = Coalesced(queue[i], op, new, ctx)]
      /\ queue \in [Ids -> Row] /\ real \in [Ids -> Content]
      /\ real' = [real EXCEPT ![i] = new]
      /\ UNCHANGED <<disabled, server, session, zombie, tables>>
  BY Zenon DEF Change, Write, submit, CInv, IInv, TypeOK, QueueTypeOK
<1>3. /\ queue'[i] = Coalesced(queue[i], op, new, ctx) /\ queue[i] \in Row
      /\ real'[i] = new
      /\ \A id \in Ids \ {i} : queue'[id] = queue[id] /\ real'[id] = real[id]
  BY <1>2, Zenon
<1>4. ColumnsOK(queue[i])
  BY Zenon DEF CInv
<1> HIDE DEF op, ctx
<1>5. /\ ColumnsOK(queue'[i])
      /\ queue'[i].sync = "NONE" => queue[i].create = "NEW" /\ queue[i].sync = "PENDING"
      /\ queue'[i].sync = "PENDING" /\ queue'[i].create = "NEW" =>
           \/ queue[i].sync = "NONE" /\ op = "CREATE"
           \/ queue[i].sync = "PENDING" /\ queue[i].create = "NEW"
      /\ Syncing(queue'[i]) /\ queue'[i].create # "EXISTING" =>
           Syncing(queue[i]) /\ queue[i].create # "EXISTING"
  BY <1>1, <1>3, <1>4, CoalescedColumns
<1>6. queue'[i].sync = "NONE" => op = "DELETE"
  BY <1>1, <1>3, CoalescedRow
<1>7. \A id \in Ids : ColumnsOK(queue[id])'
  BY <1>3, <1>5, Zenon DEF CInv
<1>8. ASSUME NEW id \in Enabled' PROVE CreateOK(id)'
  <2>1. id \in Ids /\ id \in Enabled /\ CreateOK(id)
    BY <1>2, Zenon DEF Enabled, CInv
  <2>2. CASE id # i
    BY <1>2, <1>3, <2>1, <2>2, Zenon DEF CreateOK, HasRow
  <2>3. CASE id = i
    <3>1. ~ HasRow(i)' => server'[i] = real'[i]
      BY <1>1, <1>2, <1>3, <1>5, <1>6, <2>1, <2>3, Zenon DEF CreateOK, HasRow
    <3>2. queue'[i].sync = "PENDING" /\ queue'[i].create = "NEW" => server'[i] = None
      BY <1>1, <1>2, <1>5, <2>1, <2>3, Zenon DEF CreateOK, HasRow
    <3>3. Syncing(queue'[i]) /\ queue'[i].create # "EXISTING" /\ session'.state = "SENT" =>
            server'[i] = None
      BY <1>2, <1>5, <2>1, <2>3, Zenon DEF CreateOK
    <3>4. QED
      BY <2>3, <3>1, <3>2, <3>3, Zenon DEF CreateOK
  <2>4. QED
    BY <2>2, <2>3, Zenon
<1>9. QED
  BY <1>2, <1>7, <1>8, Zenon DEF CInv

\* A session that fails before it is applied gives its rows back.
LEMMA CoveredReset ==
  ASSUME CInv, resetSyncingItems, UNCHANGED <<real, server, disabled>>,
         \A id \in Ids : Syncing(queue[id]) => session.state = "SENT"
  PROVE  /\ \A id \in Ids : ColumnsOK(queue[id])'
         /\ \A id \in Enabled : /\ ~ HasRow(id)' => server[id] = real[id]
                                /\ queue'[id].create = "NEW" => server[id] = None
                                /\ ~ Syncing(queue'[id])
<1>1. \A id \in Ids : /\ queue[id] \in Row /\ ColumnsOK(queue[id])
                      /\ queue'[id] = AfterFailure(queue[id])
  BY Zenon DEF resetSyncingItems, CInv, IInv, TypeOK, QueueTypeOK
<1>2. ASSUME NEW id \in Ids
      PROVE  /\ ColumnsOK(queue'[id])
             /\ queue'[id].sync = "NONE" =>
                  \/ queue[id].sync = "NONE"
                  \/ Syncing(queue[id]) /\ queue[id].create = "NEW_DELETED"
             /\ queue'[id].create = "NEW" => queue[id].create = "NEW" /\ queue[id].sync # "NONE"
  BY <1>1, AfterFailureColumns, Zenon
<1>3. \A id \in Ids : queue'[id].sync \in {"NONE", "PENDING"}
  BY <1>1, AfterFailureRow, Zenon
<1>4. ASSUME NEW id \in Enabled, ~ HasRow(id)' PROVE server[id] = real[id]
  <2>1. id \in Ids /\ CreateOK(id)
    BY Zenon DEF Enabled, CInv
  <2>2. CASE queue[id].sync = "NONE"
    BY <2>1, <2>2, Zenon DEF CreateOK, HasRow
  <2>3. CASE Syncing(queue[id]) /\ queue[id].create = "NEW_DELETED"
    <3>1. server[id] = None
      BY <2>1, <2>3, Zenon DEF CreateOK
    <3>2. real[id] = None
      BY <2>1, <2>3, Zenon DEF CInv, IInv, RowOK, Carries, HasRow, Syncing
    <3>3. QED
      BY <3>1, <3>2, Zenon
  <2>4. QED
    BY <1>2, <1>4, <2>1, <2>2, <2>3, Zenon DEF HasRow
<1>5. ASSUME NEW id \in Enabled, queue'[id].create = "NEW" PROVE server[id] = None
  <2>1. id \in Ids /\ CreateOK(id)
    BY Zenon DEF Enabled, CInv
  <2>2. queue[id].create = "NEW" /\ queue[id].sync \in {"PENDING", "SYNCING", "SYNCING_UPDATED"}
    BY <1>1, <1>2, <1>5, <2>1, Zenon DEF Row, SyncStatuses
  <2>3. QED
    BY <2>1, <2>2, Zenon DEF CreateOK, Syncing
<1>6. QED
  BY <1>2, <1>3, <1>4, <1>5, Zenon DEF Enabled, Syncing

\* The failure of a session that was not applied keeps every difference covered.
LEMMA CoveredFail ==
  ASSUME Reliable, CInv, IInv', FinishFail
  PROVE  CInv'
<1>1. /\ session.state = "SENT" /\ session' = NoSession /\ zombie' = zombie
      /\ tables' = {}
      /\ UNCHANGED <<real, disabled, server>>
  BY Zenon DEF FinishFail, Reliable, Abandoned, CInv
<1>2. /\ \A id \in Ids : ColumnsOK(queue[id])'
      /\ \A id \in Enabled : /\ ~ HasRow(id)' => server[id] = real[id]
                             /\ queue'[id].create = "NEW" => server[id] = None
                             /\ ~ Syncing(queue'[id])
  <2>1. CASE session.mode = "DELTA"
    BY <1>1, <2>1, CoveredReset, Zenon DEF FinishFail
  <2>2. CASE session.mode # "DELTA"
    <3>1. UNCHANGED queue
      BY <2>2, Zenon DEF FinishFail
    <3>2. \A id \in Ids : ~ Syncing(queue[id])
      BY <2>2, Zenon DEF CInv, IInv, SyncingOK
    <3>3. \A id \in Ids : queue[id].create = "NEW" => queue[id].sync = "PENDING"
      BY <3>2, Zenon DEF CInv, ColumnsOK, Syncing, IInv, TypeOK, QueueTypeOK, Row, SyncStatuses
    <3>4. QED
      BY <3>1, <3>2, <3>3, Zenon DEF CInv, Enabled, CreateOK, HasRow
  <2>3. QED
    BY <2>1, <2>2, Zenon
<1>3. \A id \in Enabled' : CreateOK(id)'
  BY <1>1, <1>2, Zenon DEF Enabled, CreateOK
<1>4. session'.mode = "NONE"
  BY <1>1, Zenon DEF NoSession
<1>5. QED
  BY <1>1, <1>2, <1>3, <1>4, Zenon DEF CInv

\* clearSyncedItems drops only rows whose content the manager has.
LEMMA CoveredSuccess ==
  ASSUME CInv, IInv', FinishDelta
  PROVE  CInv'
<1>1. /\ session.mode = "DELTA" /\ session.state = "APPLIED" /\ session' = NoSession
      /\ clearSyncedItems
      /\ UNCHANGED <<real, disabled, server, zombie, tables>>
  BY Zenon DEF FinishDelta
<1>2. \A id \in Ids : /\ queue[id] \in Row /\ ColumnsOK(queue[id])
                      /\ queue'[id] = AfterSuccess(queue[id])
  BY <1>1, Zenon DEF clearSyncedItems, CInv, IInv, TypeOK, QueueTypeOK
<1>3. ASSUME NEW id \in Ids
      PROVE  /\ ColumnsOK(queue'[id])
             /\ queue'[id].sync = "NONE" => queue[id].sync \in {"NONE", "SYNCING"}
             /\ queue'[id].create = "NEW" => queue[id].sync = "PENDING" /\ queue[id].create = "NEW"
  BY <1>2, AfterSuccessColumns, Zenon
<1>4. \A id \in Ids : queue'[id].sync \in {"NONE", "PENDING"}
  BY <1>2, AfterSuccessRow, Zenon
<1>5. ASSUME NEW id \in Enabled' PROVE CreateOK(id)'
  <2>1. id \in Ids /\ CreateOK(id)
    BY <1>1, Zenon DEF Enabled, CInv
  <2>2. queue[id].sync = "SYNCING" => server[id] = real[id]
    BY <1>1, <2>1, ZenonT(30) DEF CInv, IInv, AppliedOK, RowOK, Carries, HasRow
  <2>3. ~ HasRow(id)' => server'[id] = real'[id]
    BY <1>1, <1>3, <2>1, <2>2, Zenon DEF CreateOK, HasRow
  <2>4. queue'[id].sync = "PENDING" /\ queue'[id].create = "NEW" => server'[id] = None
    BY <1>1, <1>3, <2>1, Zenon DEF CreateOK
  <2>5. ~ Syncing(queue'[id])
    BY <1>4, <2>1, Zenon DEF Syncing
  <2>6. QED
    BY <2>3, <2>4, <2>5, Zenon DEF CreateOK
<1>6. session'.mode = "NONE"
  BY <1>1, Zenon DEF NoSession
<1>7. QED
  BY <1>1, <1>3, <1>5, <1>6, Zenon DEF CInv

\* Indexing the batch of a session removes differences and adds none that the
\* rows updated meanwhile do not cover.
LEMMA CoveredApply ==
  ASSUME CInv, IInv', ManagerApplies
  PROVE  CInv'
<1>1. /\ session.state = "SENT" /\ session \in Session
      /\ session' = [session EXCEPT !.state = "APPLIED"]
      /\ server' = Indexed(server, session.batch)
      /\ zombie' = NoBatch
      /\ UNCHANGED <<queue, real, disabled, tables>>
  BY Zenon DEF ManagerApplies, CInv, IInv, TypeOK
<1>2. /\ session'.mode = session.mode /\ session'.state = "APPLIED"
      /\ session'.index = session.index /\ session'.batch = session.batch
  BY <1>1, Zenon DEF Session
<1>3. ASSUME NEW id \in Enabled' PROVE CreateOK(id)'
  <2>1. id \in Ids /\ id \in Enabled /\ CreateOK(id)
    BY <1>1, Zenon DEF Enabled, CInv
  <2>2. session.mode \in {"DELTA", "CLEAN"}
    BY <1>1, Zenon DEF CInv, IInv, SessionOK, Session
  <2>3. ~ Syncing(queue[id]) => session.batch[id] = NoItem
    BY <2>1, <2>2, Zenon DEF CInv, IInv, SessionOK, CleanBatch, Enabled
  <2>4. ~ Syncing(queue[id]) => server'[id] = server[id]
    BY <1>1, <2>1, <2>3 DEF Indexed, NoItem
  <2>5. QED
    BY <1>1, <1>2, <2>1, <2>4, Zenon DEF CreateOK, HasRow, Syncing
<1>4. session.mode = "CLEAN" => \A id \in Ids : IndexOf[id] = session.index => server'[id] = None
  BY <1>1 DEF CInv, IInv, SessionOK, CleanBatch, Indexed
<1>5. QED
  BY <1>1, <1>2, <1>3, <1>4, Zenon DEF CInv

\* fetchAndMarkForSync keeps every row, and all it marks is in the batch.
LEMMA CoveredStart ==
  ASSUME CInv, IInv', StartDelta
  PROVE  CInv'
<1>1. /\ session.mode = "NONE" /\ queue \in [Ids -> Row]
      /\ session' = Opened("DELTA", None, PendingBatch)
      /\ queue' = [id \in Ids |-> IF id \in Pending THEN [queue[id] EXCEPT !.sync = "SYNCING"]
                                  ELSE queue[id]]
      /\ UNCHANGED <<real, disabled, server, zombie, tables>>
  BY Zenon DEF StartDelta, fetchAndMarkForSync, CInv, IInv, TypeOK, QueueTypeOK
<1>2. session'.mode = "DELTA"
  BY <1>1, Zenon DEF Opened
<1>3. ASSUME NEW row \in Row, ColumnsOK(row), row.sync = "PENDING", row.opSyncing = "NO_OP"
      PROVE  ColumnsOK([row EXCEPT !.sync = "SYNCING"])
  BY <1>3, Zenon DEF ColumnsOK, Row
<1>4. \A id \in Ids : ~ Syncing(queue[id])
  BY <1>1, Zenon DEF CInv, IInv, SyncingOK
<1>5. ASSUME NEW id \in Ids PROVE ColumnsOK(queue[id])'
  <2>1. ColumnsOK(queue[id]) /\ queue[id] \in Row
    BY <1>1, Zenon DEF CInv
  <2>2. CASE id \in Pending
    BY <1>1, <1>3, <2>1, <2>2, Zenon DEF Pending, ColumnsOK
  <2>3. CASE id \notin Pending
    BY <1>1, <2>1, <2>3, Zenon
  <2>4. QED
    BY <2>2, <2>3, Zenon
<1>6. ASSUME NEW id \in Enabled' PROVE CreateOK(id)'
  <2>1. id \in Ids /\ CreateOK(id) /\ queue[id] \in Row /\ ColumnsOK(queue[id])
    BY <1>1, Zenon DEF Enabled, CInv
  <2>2. CASE id \in Pending
    <3>1. queue'[id].sync = "SYNCING" /\ queue'[id].create = queue[id].create
          /\ queue[id].sync = "PENDING"
      BY <1>1, <2>1, <2>2, Zenon DEF Pending, Row
    <3>2. queue[id].create # "EXISTING" => queue[id].create = "NEW"
      BY <2>1, <3>1, Zenon DEF ColumnsOK, Row, CreateStatuses
    <3>3. QED
      BY <1>1, <2>1, <3>1, <3>2, Zenon DEF CreateOK, HasRow, Syncing
  <2>3. CASE id \notin Pending
    BY <1>1, <1>4, <2>1, <2>3, Zenon DEF CreateOK, HasRow
  <2>4. QED
    BY <2>2, <2>3, Zenon
<1>7. QED
  BY <1>1, <1>2, <1>5, <1>6, Zenon DEF CInv

\* Taking an index out of the configuration concerns no enabled item.
LEMMA CoveredDisable ==
  ASSUME CInv, IInv', NEW idx \in Indexes, Disable(idx)
  PROVE  CInv'
<1>1. /\ session.mode = "NONE" /\ resetSyncingItems
      /\ disabled' = disabled \cup {idx}
      /\ UNCHANGED <<real, server, session, zombie, tables>>
  BY Zenon DEF Disable
<1>2. \A id \in Ids : /\ ~ Syncing(queue[id]) /\ queue[id] \in Row /\ ColumnsOK(queue[id])
                      /\ queue'[id] = AfterFailure(queue[id])
  BY <1>1, Zenon DEF CInv, IInv, SyncingOK, TypeOK, QueueTypeOK, resetSyncingItems
<1>3. \A id \in Ids : queue'[id] = queue[id]
  BY <1>2, AfterFailureColumns
<1>4. \A id \in Enabled' : CreateOK(id)'
  BY <1>1, <1>3, Zenon DEF CInv, Enabled, CreateOK, HasRow
<1>5. QED
  BY <1>1, <1>2, <1>3, <1>4, Zenon DEF CInv

\* Clearing the rows of a disabled index concerns no enabled item.
LEMMA CoveredClear ==
  ASSUME CInv, IInv', ClearRows
  PROVE  CInv'
<1>1. /\ session.mode = "CLEAN" /\ session.state = "APPLIED" /\ session \in Session
      /\ session' = [session EXCEPT !.state = "CLEARED"] /\ session.index \in disabled
      /\ queue' = [id \in Ids |-> IF IndexOf[id] = session.index THEN NoRow ELSE queue[id]]
      /\ UNCHANGED <<real, disabled, server, zombie, tables>>
  BY Zenon DEF ClearRows, clearItemsByIndex, CInv, IInv, TypeOK, SessionOK
<1>2. session'.state = "CLEARED" /\ session'.index = session.index
  BY <1>1, Zenon DEF Session
<1>3. ColumnsOK(NoRow)
  BY Zenon DEF NoRow, ColumnsOK
<1>4. \A id \in Ids : ColumnsOK(queue[id])'
  BY <1>1, <1>3, Zenon DEF CInv
<1>5. ASSUME NEW id \in Enabled' PROVE CreateOK(id)'
  <2>1. id \in Enabled /\ queue'[id] = queue[id]
    BY <1>1, Zenon DEF Enabled
  <2>2. QED
    BY <1>1, <1>2, <2>1, ZenonT(30) DEF CInv, CreateOK, HasRow
<1>6. QED
  BY <1>1, <1>2, <1>4, <1>5, Zenon DEF CInv

\* Emptying a disabled index, on the manager and here, concerns no enabled item.
LEMMA CoveredClean ==
  ASSUME CInv, IInv', FinishClean
  PROVE  CInv'
<1>1. /\ session.mode = "CLEAN" /\ session.state = "CLEARED" /\ session' = NoSession
      /\ real' = [id \in Ids |-> IF IndexOf[id] = session.index THEN None ELSE real[id]]
      /\ disabled' = disabled \ {session.index}
      /\ UNCHANGED <<queue, server, zombie, tables>>
      /\ \A id \in Ids : IndexOf[id] = session.index => queue[id] = NoRow
  BY Zenon DEF FinishClean, Write, CInv, IInv, SessionOK
<1>3. \A id \in Ids : ColumnsOK(queue[id])'
  BY <1>1, Zenon DEF CInv
<1>4. session'.mode = "NONE" /\ session'.state = "IDLE"
  BY <1>1, Zenon DEF NoSession
<1>5. ASSUME NEW id \in Enabled' PROVE CreateOK(id)'
  <2>1. id \in Ids
    BY Zenon DEF Enabled
  <2>2. CASE IndexOf[id] = session.index
    <3>1. queue'[id] = NoRow /\ real'[id] = None /\ server'[id] = None
      BY <1>1, <2>1, <2>2, Zenon DEF CInv
    <3>2. QED
      BY <3>1, Zenon DEF CreateOK, NoRow, Syncing
  <2>3. CASE IndexOf[id] # session.index
    <3>1. id \in Enabled /\ queue'[id] = queue[id] /\ real'[id] = real[id]
      BY <1>1, <2>1, <2>3, Zenon DEF Enabled
    <3>2. QED
      BY <1>1, <1>4, <3>1, ZenonT(30) DEF CInv, CreateOK, HasRow
  <2>4. QED
    BY <2>2, <2>3, Zenon
<1>6. QED
  BY <1>1, <1>3, <1>4, <1>5, Zenon DEF CInv

\* Opening a CLEAN session, or a step that only moves the loop on.
LEMMA CoveredQuiet ==
  ASSUME CInv, IInv', UNCHANGED <<queue, real, disabled, server, zombie, tables>>,
         \/ UNCHANGED session
         \/ session.mode = "NONE" /\ \E idx \in Indexes :
              session' = Opened("CLEAN", idx, CleanBatch(idx))
  PROVE  CInv'
<1>1. CASE UNCHANGED session
  BY <1>1, Zenon DEF CInv, Enabled, CreateOK, HasRow
<1>2. CASE session.mode = "NONE" /\ session'.state = "SENT"
  <2>1. \A id \in Ids : ~ Syncing(queue[id])
    BY <1>2, Zenon DEF CInv, IInv, SyncingOK
  <2>2. \A id \in Enabled' : CreateOK(id)'
    BY <2>1, Zenon DEF CInv, Enabled, CreateOK, HasRow
  <2>3. QED
    BY <1>2, <2>2, Zenon DEF CInv
<1>3. QED
  BY <1>1, <1>2 DEF Opened

\* Every step of a reliable environment preserves the inductive invariant.
LEMMA CoveredStep ==
  ASSUME Reliable, CInv, [Next]_vars
  PROVE  CInv'
<1>1. IInv'
  BY IInvStep, Zenon DEF Reliable, Calm, CInv
<1>2. ASSUME NEW id \in Ids, NEW new \in Content, Change(id, new) PROVE CInv'
  BY <1>1, <1>2, CoveredChange, Zenon
<1>3. ASSUME NEW idx \in Indexes, Disable(idx) PROVE CInv'
  BY <1>1, <1>3, CoveredDisable, Zenon
<1>4. ~ VDContextBegin /\ ~ FinishStorageError /\ ~ CrashRestart /\ ~ BeginRecovery
  BY Zenon DEF Reliable, VDContextBegin, FinishStorageError, CrashRestart, BeginRecovery
<1>5. \A id \in Ids : ~ VDContextSubmit(id)
  BY Zenon DEF CInv, IInv, VDContextSubmit
<1>6. \A idx \in Indexes : ~ SkipTable(idx) /\ ~ StartFull(idx)
  BY Zenon DEF CInv, SkipTable, StartFull
<1>7. ~ FinishFull /\ ~ ZombieApplies
  BY Zenon DEF CInv, IInv, SessionOK, FinishFull, ZombieApplies
<1>8. CASE StartDelta
  BY <1>1, <1>8, CoveredStart, Zenon
<1>9. CASE DeltaWithNothing \/ Commit \/ UNCHANGED vars
  BY <1>1, <1>9, CoveredQuiet, Zenon DEF DeltaWithNothing, Commit, vars, moduleVars
<1>10. ASSUME NEW idx \in Indexes, StartClean(idx) PROVE CInv'
  BY <1>1, <1>10, CoveredQuiet, Zenon DEF StartClean
<1>11. CASE FinishDelta
  BY <1>1, <1>11, CoveredSuccess, Zenon
<1>12. CASE FinishClean \/ ClearRows
  BY <1>1, <1>12, CoveredClean, CoveredClear, Zenon
<1>13. CASE FinishFail
  BY <1>1, <1>13, CoveredFail, Zenon
<1>14. CASE ManagerApplies
  BY <1>1, <1>14, CoveredApply, Zenon
<1>15. QED
  BY <1>2, <1>3, <1>4, <1>5, <1>6, <1>7, <1>8, <1>9, <1>10, <1>11, <1>12, <1>13,
     <1>14, Zenon DEF Next, ScanStep, SyncStep

\* When the agent learns the true outcome of every session, every document
\* that differs from its item, a deleted item's included, has a row that will
\* correct it.
THEOREM EveryDifferenceIsCovered == Spec => []Covered
<1>1. Init => (Reliable => CInv)
  <2> SUFFICES ASSUME Init PROVE CInv
    BY Zenon
  <2>1. IInv
    BY IInvInit, Zenon
  <2>2. NoRow.sync = "NONE" /\ NoRow.create = "EXISTING" /\ ColumnsOK(NoRow)
    BY Zenon DEF NoRow, ColumnsOK
  <2>3. \A id \in Ids : queue[id] = NoRow
    BY Zenon DEF Init, QueueInit
  <2>4. \A id \in Ids : CreateOK(id) /\ ColumnsOK(queue[id])
    BY <2>2, <2>3, Zenon DEF Init, CreateOK, Syncing
  <2>5. session.mode = "NONE"
    BY Zenon DEF Init, NoSession
  <2>6. QED
    BY <2>1, <2>4, <2>5, Zenon DEF Init, CInv, Enabled
<1>2. (Reliable => CInv) /\ [Next]_vars => (Reliable => CInv)'
  BY CoveredStep, CalmStep, Zenon
<1>3. (Reliable => CInv) => Covered
  BY Zenon DEF CInv, IInv, CreateOK, RowOK, Covered, Enabled
<1>4. QED
  BY <1>1, <1>2, <1>3, PTL DEF Spec
=============================================================================
