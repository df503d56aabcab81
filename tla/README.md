# State synchronisation of GuardSarm in TLA+

GuardSarm agents keep inventories (files, registry keys, packages, processes,
policy checks ...) in local tables, and the manager keeps a document per item in
the indexer. These modules model how the two are kept in step: the agent's
persistent queue, the session protocol, the manager's session handling and its
use of the indexer, and how one of the agent's modules, agent_info, pauses and
flushes the others around a change of the agent's metadata. They are written from the
code; `PROJECT.json` maps every definition to the lines it stands for.

## 1. The system

### Inventory

| Part | Code | Here |
|---|---|---|
| Persistent queue | `shared_modules/sync_protocol/src/persistent_queue*.cpp` | `PersistentQueue` |
| Agent synchronisation protocol | `shared_modules/sync_protocol/src/agent_sync_protocol.cpp` | `AgentSyncProtocol`, `SyncProtocol` |
| Session gap tracking | `guardsarm_modules/inventory_sync/src/gapSet.hpp` | `GapSet` |
| Manager sessions | `inventory_sync/src/agentSession.hpp`, `responseDispatcher.hpp` | `SyncProtocol`, `InventorySync` |
| Manager facade (threads, locks, quota) | `inventory_sync/src/inventorySyncFacade.hpp` | `InventorySync` |
| Indexer connector | `shared_modules/indexer_connector/src/indexerConnectorSyncImpl.hpp` | `BulkProcessing`, `IndexerConnectorSync` (partly) |
| agent_info: coordination of the modules | `guardsarm_modules/agent_info/src/agent_info_impl.cpp` | `ModuleCoordination` (partly) |
| Flush controller | `asyncFlushController.hpp` | `ModuleCoordination` |
| syscollector, syscheckd, SCA | `syscollectorImp.cpp`, `run_check.c`, `run_realtime.c`, `file.c`, `fim_scan.c`, `recovery.c`, `syscom.c`, `sca_impl.cpp`, `wm_sca.c` | their use of the queue in `StateSync`; scan, synchronisation, pause and flush in `ModuleCoordination` (partly) |
| dbsync | `shared_modules/dbsync` | when its transaction is committed, in `StateSync` (partly) |
| Vulnerability scanner | `guardsarm_modules/vulnerability_scanner` | only whether a scan returns or throws |
| Schema validator, metadata provider, router, keystore, content manager | `shared_modules/*` | not modelled: libraries below or beside the protocol |
| remoted, client-agent, authd, guardsarm_db, monitord, logcollector, rootcheck, execd, engine | `src/<daemon>` | not modelled: daemons with other tasks; the connection is a lossy channel here |
| agent_upgrade, task_manager, command, control, integrations, modulesd, data_provider | `guardsarm_modules/src`, `data_provider` | not modelled |
| Cluster, API, RBAC (Python) | `framework`, `api` | not modelled |

`PROJECT.json` lists the parts one by one, with the reason for each one left out,
and the hazards of the modelled code at the line where each bites.

### How the parts interact

A scan writes a difference to the module's table and submits it to the queue,
where it coalesces with an earlier difference of the same item; the transaction
of the table is committed later. The
synchronisation thread marks the pending rows, opens a session (Start/StartAck),
sends the items, then End. The manager stores the items by session, tracks the
sequence numbers received in a `GapSet`, asks for missing ones (ReqRet), and,
when all are there, queues the session to its one indexer thread. That thread
appends the documents to a buffer shared by all sessions and registers a callback,
which answers EndAck Ok once the buffer has been sent, by this thread or by the
connector's bulk thread. On Ok the agent deletes the rows it sent; on failure it
makes them pending again. From time to time the agent compares a checksum of a
table (a CHECK session) and, when the manager reports a difference, sends the
whole table (FULL). An index that is no longer configured is emptied (CLEAN: a
DELTA session with DataClean messages). Metadata sessions lock the agent on the
manager while its documents are updated.

When the agent's metadata or groups change, agent_info pauses FIM (syscheckd), SCA
and Syscollector, raises the versions of their tables to a common value, asks each
to flush its queue, resumes them, waits for the flushes, and then tells the manager
in a metadata session. FIM is another process and is asked over a socket; the
others are called directly.

## 2. Modules

**`PersistentQueue`**: the SQLite table, a row per item with operation, sync
status, create status, operation being synchronised and the DataContext flag.
One operator per method: `submit` (coalescing), `fetchAndMarkForSync`,
`clearSyncedItems`, `resetSyncingItems`, `clearItemsByIndex`,
`clearAllDataContext`. Each is one SQLite transaction, hence atomic.

**`StateSync`**: one agent module using the queue. `real` is its table, `server`
the manager's documents, `committed` the table as it is on disk: dbsync keeps a
transaction open across a scan. Actions: `Change` (a scan, or a file-system event,
finds a difference), `Commit`, `Disable`
(an index leaves the configuration), `VDContextBegin/Submit` (the pass that adds
context rows for vulnerability detection), `StartDelta`/`Full`/`Clean`, the
recovery loop under the scan mutexes (`BeginRecovery`, `SkipTable`), the ends of
a session (`Finish...`), `CrashRestart`. The end of a clean-up is two steps, because
the queue and the table are two databases: `ClearRows`, then `FinishClean`. The session itself is abstract: the
manager applies a batch as a whole (`ManagerApplies`) or not at all, and success
is reported only for an applied one. `faults` is chosen in the initial state from
`Environments` and never changes, so that one run covers several environments and a
property can name those it is about. With `"ackloss"` an applied session may fail
on the agent, and one given up may still be applied later (`ZombieApplies`); with
`"rollback"` a crash may lose the open transaction; with `"storage"` the transaction
that finalises a session may fail; with `"events"` the table changes while a recovery
runs, as FIM's real-time and who-data events do not take the scan mutexes.

**`SyncSession`**: the promise about one call that `StateSync` builds on. A call
ends `ok` only if its batch was applied, `mismatch` only if the manager found a
difference, and an outcome never changes. It is the abstract specification that
`SyncProtocol` implements (`ImplementsSession`).

**`AgentSyncProtocol`**, **`SyncProtocol`**: both ends of a session with the
messages between them. The agent side is the four calls, `m_syncState`, the waits
and retries, `stop()`, and `parseResponseBuffer` with its phase and session tests.
`SyncProtocol` adds the network, which reorders and may lose messages, and
the manager's handlers for one agent and module, including a repeated Start that
removes the session it replaces. A session may also be removed because it has been
silent for too long; with `"silent"`, even while the indexer thread works on it
(`Expire`). `effects` records what the indexer
was made to do, item by item with its kind, so that a clean that
arrives as a value is not taken for a clean.

**`GapSet`** and **`SeqTracker`**: the interval set, with `lower_bound`, the two
possible merges and the completeness test; and the specification it
implements, which remembers the set of numbers.

**`IndexerConnectorSync`**, **`InventorySync`**: the manager for several agents
and modules. Worker threads handle messages (`StartCheck` and `StartAdmit` are
separate, because the lock is tested before the sessions mutex is taken), the
indexer thread walks through its handler step by step (`pc`), the bulk thread
sends the buffer, callbacks run in two steps (answer and delete keys, then erase
the session), the time-out thread removes silent sessions, and agents are deleted.
A document the connector refuses is skipped, and one that makes it throw ends in the
handler's `catch` (`Catch`), which unlocks and answers in one step and erases the
session in the next. A check session may fail in its search.

`env` holds the sessions offered and the faults that happen, fixed like `faults`.

**`BulkProcessing`**: one call of the connector after the other, each of its HTTP
requests a step: the deletes by query, the bulk request, its repetition on 429, the
split on 413 with the nested splits of its halves, and the errors, which differ in
what they leave in the buffer. `executed` is what the indexer has executed and `order`
which of two operations it has executed last. The callers (a full buffer, `flush`, the bulk thread,
shutdown) are the actions that begin a call. An operation is a number with a size,
offsets are sums of sizes, and the indexer refuses what is longer than
`maxContent`. `CallIsAtomic` relates it to `IndexerConnectorSync`, in which a
call is one step.

**`ModuleCoordination`**: agent_info's loop and `coordinateModules` query by query
(`step`, `todo`), and for each module its scan thread, its synchronisation loop
and its flush worker, with the flags they share (`mod[m]`). A module's differences
are numbered: `rows` is the last one persisted, `sent` the last one delivered. FIM
pauses by giving its scan mutexes to the coordinator, SCA and Syscollector with flags
and a condition variable. The mutexes are held for the walks of a scan; what FIM
writes without them is `FimScanOutside` (a scan deletes rows before and after the
walks) and, with `"events"`, `FimEvent` (real-time and who-data events at any time). The version of a table
is the highest of its rows, so a difference may leave, raise or lower it.
Syscollector's wait is taken apart into test and
sleep because its notifiers do not hold the mutex. `owed` and `joined` are history
variables: what a module had pending when it was asked to flush, and whether the
answer rested on somebody else's session. Restarting the agent's module process
leaves FIM, which is another one, as it is.

**`MC...`** modules only give values to constants. **`...Proofs`** hold theorems.

`Variant` operators are plausible wrong versions of the definition that follows
them, used to confirm that a property notices the difference.

How the models fit together: `StateSync`'s abstract session is `SyncSession`.
`SyncProtocol` implements `SyncSession`, in the environment of run `SyncProtocol`,
provided that Ok means indexed. That is `InventorySync`'s `AckedIsIndexed`.
`InventorySync` uses `IndexerConnectorSync`, whose atomic call `BulkProcessing`
implements (`CallIsAtomic`). `ModuleCoordination` uses sessions that deliver what was
pending when they began or fail, which is what `StateSync` provides.
Section 5 lists the environments in which a link of this chain does not hold.

## 3. What is checked

Passing runs (state counts are distinct states):

| Run | Shows | Environments and bounds | States |
|---|---|---|---|
| `StateSync` | `TypeOK`; `Covered`: whatever differs between table and manager is in a row that will correct it; `RowIsInBatch`: a row marked SYNCING is in the running batch with its content; `NoLostUpsert`: an existing item the manager does not have has a row that carries it; `RowIsCurrent`: a row holds the latest operation and content | no fault (`Covered`); lost answers, late applications, crashes, recovery with file-system events during it (`RowIsInBatch`, `NoLostUpsert` too); without the events, context rows and storage errors as well (`TypeOK`, `RowIsCurrent`); 3 items, 2 indices, 2 values, 3 or 4 changes | 2,058,498 |
| `StateSyncLive` | `EventuallyConsistent`, `DisabledCleaned` | lost answers, late applications, crashes, recovery, and either events during the recovery or crashes that lose the table's transaction; 2 items, 2 values, 2 or 3 changes | 58,478 |
| `GapSet` | `Separated`, `RangesAreTheGaps`, `ImplementsTracker` | every order of observations, sizes 0 to 8 | 511 |
| `InventorySync` | `TypeOK`; `QuotaConserved`: quota plus what live sessions reserved is constant; `LockHasHolder`: a locked agent has someone who will unlock it; `AckedIsIndexed`: Ok only for what the indexer executed; `OneAnswer`; `LockReleased`: a locked agent is unlocked; `EndIsAnswered`: a complete session ends without another message | eight environments: metadata sessions beside data and context sessions with a buffer that fills, time-outs, deletion of the agent, or failing requests and scans; data, empty, full and clean sessions with time-outs; refused documents; checks with failing requests | 607,543 |
| `BulkProcessing` | `ChunksAreWhole`: the recorded boundaries fit the buffer, through splits, failures and retries; `ReturnIsComplete`: a call that returns has executed every operation, of two on one document the later one last; `CallIsAtomic`: to the sessions a call is one step that succeeds or throws; `CallEnds`; `TypeOK` | operations of different sizes, three limits of the indexer, 429, rejected items, failing or skipped deletes, shutdown | 115,924 |
| `SyncProtocol` | `ImplementsSession`; `NoSpuriousFailure`: until something is lost, refused or removed no batch is reported failed; `CallReturns` | one caller, 2 calls, messages in any order, 2 mishaps, sessions removed from under the indexer thread | 154,997 |
| `SyncProtocolStop` | `SuccessIsApplied` although answers of an earlier session arrive in a later call; `StopReturns`: after `stop()` every call returns without any answer | waits for EndAck end early, missing metadata, failing sends; 2 calls | 706,046 |
| `Coordination` | `FlushCovers`: the manager is told of the new version only after each module has delivered what it had pending, or relies on a session that was open; `FimVersionGrows`: the coordinator never sets FIM's version back; `TypeOK` | no module, FIM without real-time monitoring, SCA or Syscollector; failing sessions, queries and version requests, recoveries, pauses given up, restarts; 2 differences, 1 change, 1 mishap | 1,462,245 |
| `CoordinationLive` | `PauseEnds`: no module stays paused; `MetadataArrives`: the manager learns of every change; `RowsDelivered`: pauses and flushes do not keep a module from delivering | no module, FIM with real-time events, or SCA; failing sessions and queries, pauses given up, restarts; 1 difference | 139,914 |

Three more runs, `StateSyncGhosts`, `SyscollectorPause` and `FimVersion`, end with a
counterexample: section 5.

### Bounds

* `StateSync`: two items suffice for coalescing, which is per item, and for batches
  that hold one and not the other; the third lies in a second index, for recovery and
  clean-up of one index beside the other. Three or four changes let an item be
  created, changed and deleted around one session and touched again in the next.
* `SyncProtocol`: two calls let a late message of one reach the next. `m_retries = 1`
  has both a repetition and its exhaustion. Lost messages, refusals and removed
  sessions are counted together (`MaxMishaps`); two exhaust a retry and hit the
  next attempt as well.
* `InventorySync`: two sessions, of one agent, let one be stale, timed out or waited
  for by the other; a third would repeat one of these roles. Each environment has the
  shapes of sessions that meet its faults, because all shapes and faults at once are
  too many states; the theorems of section 4 hold for any environment. Only with the
  fault `"full"` do documents overfill the buffer of `MaxBulkSize`.
* `BulkProcessing`: five operations are split three deep with limit 1; a large
  operation between small ones makes one half fit and the other not; one
  operation is larger than the buffer. One delete request stands for both kinds.
* `ModuleCoordination`: the modules share nothing but the coordinator, which asks
  them in turn, so `Coordination` enables one at a time; the theorems of section 4
  hold for any set of modules. One change coordinates both tables over time, since
  `Populate` picks the table. One mishap reaches every error path of
  `coordinateModules`. Versions grow at most once per difference, recovery and change.

Runs of bounded calls, starts or changes end in a state without successors, so
deadlock is not checked in `SyncProtocol`, `InventorySync`, `BulkProcessing`, `GapSet`
and `Coordination`; the liveness runs check that whatever was begun ends. The runs of
`StateSync` and `CoordinationLive` check deadlock.

In `SyncProtocol`, without `"lateStart"` and `"lateEnd"` a wait ends only
when nothing is under way that could end it, as the waits are much longer
than the round trip. Runs that are about early ends name these faults.

### Fairness

* `StateSync`: the synchronisation thread is a loop on a timer, so its steps are
  fair. Starting sessions and their success are strongly fair: each is retried for
  ever, and a manager that never answers cannot be brought up to date. Nothing is
  assumed of scans, crashes or failures except that changes are bounded.
* `SyncProtocol`: weak fairness of the calling thread, whose waits are timed, and
  for `CallReturns` of the receiving thread and of the manager's handlers. For
  `StopReturns` only the calling thread is assumed to run.
* `InventorySync`: weak fairness of the indexer thread, the bulk thread (a timed
  loop) and the callbacks. Nothing is assumed of agents' messages, the time-out thread
  or the deletion of agents.
* `BulkProcessing`: a request is answered, and not with 429 for ever: the code
  repeats a 429 without limit.
* `ModuleCoordination`: agent_info's thread and the threads of the modules run, and a
  scan ends; faults are bounded by `MaxMishaps`. Strong fairness is used where a
  thread polls or sleeps between rounds and so meets its chance again and again: the
  poll for FIM's mutexes (30 attempts, after which the coordination is repeated),
  SCA's wait for a quiet moment, FIM's recovery, and a loop that finds itself
  paused. That FIM's loop does not always lose its race with a pause rests on the
  pause being short against its interval. These conditions are written as one for all
  modules, which is as much as one for each since the run enables one at a time.
  Nothing is assumed of restarts, events or the beginning of scans.

## 4. What is proved

TLAPS proves, for every value of the constants:

| Theorem | Statement |
|---|---|
| `StateSyncProofs!TypeCorrect` | `Spec => []TypeOK` |
| `StateSyncProofs!NoUpsertIsLost` | `Spec => []NoLostUpsert` |
| `StateSyncProofs!SyncingRowsAreSent` | `Spec => []RowIsInBatch` |
| `StateSyncProofs!RowsAreCurrent` | `Spec => []RowIsCurrent` |
| `StateSyncProofs!EveryDifferenceIsCovered` | `Spec => []Covered` |
| `GapSetProofs!IntervalsAreSeparated` | `Spec => []Separated` |
| `GapSetProofs!GapSetImplementsTracker` | `Spec => ImplementsTracker` |
| `GapSetProofs!GapsAreAskedFor` | `Spec => []RangesAreTheGaps` |
| `InventorySyncStepProofs!InventoryTypeCorrect` | `Spec => []TypeOK` |
| `InventorySyncStepProofs!InventoryQuotaConserved` | `Spec => []QuotaConserved` |
| `InventorySyncStepProofs!InventoryLockHasHolder` | `Spec => []LockHasHolder` |
| `InventorySyncStepProofs!InventoryOneAnswer` | `Spec => []OneAnswer` |
| `InventorySyncStepProofs!InventoryAckedIsIndexed` | `Spec => []AckedIsIndexed` |
| `SyncProtocolStepProofs!SuccessMeansApplied` | `ASSUME Orderly PROVE Spec => []SuccessIsApplied` |
| `SyncProtocolStepProofs!SyncProtocolImplementsSession` | `ASSUME Orderly PROVE Spec => ImplementsSession` |
| `SyncProtocolStepProofs!NoBatchFailsForNothing` | `ASSUME Orderly, Calm PROVE Spec => []NoSpuriousFailure` |
| `BulkProcessingProofs!BulkTypes` | `Spec => []TypeOK` |
| `BulkProcessingProofs!ChunksWhole` | `Spec => []ChunksAreWhole` |
| `BulkProcessingProofs!ReturnsComplete` | `Spec => []ReturnIsComplete` |
| `BulkProcessingProofs!CallsAreAtomic` | `Spec => CallIsAtomic` |
| `ModuleCoordinationProofs!CoordinationTypeOK` | `Spec => []TypeOK` |
| `ModuleCoordinationProofs!CoordinationFlushCovers` | `Spec => []FlushCovers` |
| `ModuleCoordinationProofs!CoordinationFimVersionGrows` | `ASSUME "events" \notin Faults PROVE Spec => FimVersionGrows` |

The properties of `StateSync` name the environments they are about. `NoLostUpsert`
and `RowIsInBatch` are stated for `Calm` ones, without context rows, storage errors
and lost transactions but with lost answers, late applications, crashes, recovery
and file-system events during it. `Covered` is stated for `Reliable` ones, without faults, in which sessions
may still fail before they are applied. `RowIsCurrent` excludes lost transactions
only. `OneAnswer` and `AckedIsIndexed` of `InventorySync` name theirs in the same way
(no throwing scan; no failing request, no buffer that fills up and no refused
document); its other safety properties hold in all. In `BulkProcessing`, `ChunksAreWhole`
excludes failing deletes, and `CallIsAtomic` deletes that are answered 409 or 429 and
the connector's end. The assumptions on constants are the named `ASSUME`s of
`PersistentQueue`, `StateSync`, `GapSet`, `InventorySync`, `AgentSyncProtocol`,
`SyncProtocol`, `BulkProcessing` and `ModuleCoordination`, and `Orderly` and `Calm` below,
and for `FimVersionGrows` that FIM applies no events.

*No upsert is lost.* `NoLostUpsert` is not inductive: an item without a row might be
overwritten by a batch under way. The inductive invariant `IInv` adds that an
item without a row is equal to its document and that nothing an abandoned session
left behind can change that (`Settled`), what a batch of each mode contains
(`SessionOK`), that rows still SYNCING after the manager applied the batch are on
the manager (`AppliedOK`), and that rows being sent belong to a DELTA session
(`SyncingOK`). With events a FULL batch may be older than the table, but what has
changed since has a row, so for every existing item without a row the batch holds its
present value or nothing. Between the two steps of a clean-up the index has no rows.
There is one lemma per action.

*Every difference is covered.* Deletions are the difficult case, because coalescing
drops rows: a NEW pending row when its item is deleted, and a NEW_DELETED row
after a failure. `CInv` adds which combinations of columns occur and that an item
that is NEW to the queue is new to the manager until a session that carries it has
been applied (`CreateOK`). A lost answer breaks this, see section 5.

*Rows are current.* `RInv` adds that the items the context pass has still to submit
exist, and that no clean-up runs meanwhile: otherwise a context row would be added
for an item that is gone. The second step of a clean-up empties the table, and no row
contradicts it because the first has removed the rows of the index and nothing changes
the table in between.

*GapSet.* Because the intervals are separated, the new number can lie in or touch
only the interval before `lower_bound` and the one at it. The invariant also says
that the count is the cardinality of what is covered. `RangesAreTheGaps` is about
what `ranges()` returns: intervals that are pairwise separated and hold exactly the
missing numbers. That a missing number is in one of them needs the first and the last
number of its gap, which exist by the well-foundedness of `<` on the naturals
(`LeastNumber`): induction in the form of a least counterexample.

*The manager's service.* The theorems hold for any number of agents, modules, sessions
and environments. A complete session passes through a pipeline: the indexer's queue, the
indexer thread, the list of registered callbacks, and the callbacks a thread has taken
off it. None of the properties is inductive, because each speaks of a state a session
reaches only at the end. The invariant says what is true at each place:

| Part | Says |
|---|---|
| `Types` | the types of all variables, those inside the records included |
| `Reserved` | quota and declared sizes of the sessions in the map add up; the map is finite and within its limit |
| `Pipeline` | a session is in one place at most, once, and only when its End was enqueued |
| `Locks` | the lock of an agent belongs to a metadata session that is at a place from which it is released; a metadata callback is registered only to be taken at once; an answered callback has no lock |
| `Answers` | no answer before the session is complete, and none while it is still to be answered |
| `Documents` | where requests succeed: messages of a session are in the store until the indexer thread has read them, its documents and deletes are with the connector while it is registered, and executed when its callback is taken |

In an environment without failing requests and refused documents the handler's `catch`
is never reached (`NoneCaught`). `Pipeline` is what the others rest on: without it a session might be answered by two
threads, erased while queued, or release the lock of its successor.
`QuotaConserved` counts the sequence numbers of the sessions (`Declared` is the
cardinality of `Numbers`), so that adding and removing a session is a statement on
disjoint finite sets (`DeclaredSplit`). A step that leaves a part alone is dealt with by
a frame lemma (`PipelineFrame`, `AnswersFrame`, `LocksKept`, `DocumentsSame` ...) whose
hypotheses say what such a step may change.

*The protocol.* The theorems about `SyncProtocol` hold for any number of calls, items,
retries and mishaps, with `stop()`, local failures and waits for EndAck that end early,
in an `Orderly` environment: one caller; no wait for StartAck cut short while
the answer is under way (`"lateStart"`); no session removed by the time-out while the
indexer thread works on it (`"silent"`); and batches that are not empty and hold values
only. Section 5 has counterexamples without these conditions. Run `SyncProtocolStop`
satisfies them; run `SyncProtocol` goes beyond them with `"silent"`, where
`ImplementsSession` is model-checked only (it fails when the store is emptied as well).

`SuccessIsApplied` is not inductive: it has to be shown that the EndAck taken for the
answer is one of this call's session, that the manager gave it after applying, and that
what it applied is what the call has queued. So the invariant says what each message
under way and each session is about (`MessageOK`, `AnswerOK`, `SessionOK`). Until
`stop()`, there is one Start or one StartAck under way at most and only while the call
waits for it (`OneStart`); hence the session the agent enters is its own (`InSession`), and
not removed before the indexer is done with it (`InHand`). After `stop()` a call may be given the session of an
earlier one, and even send it its checksum, but it then sends no End: sessions whose End
was asked for stay trustworthy (`Asked`, `Trusted`). `FlagsOK` gives the flags of
`m_syncState` by the position of the call. The refinement follows from the invariant:
`Finish` is a `Return` of the abstract session, `Begin` its `Call`, what the indexer thread
does for a session its `Decide`, and every other step a stutter. `SyncProtocolProofs` has the
invariant and the steps of a running call, `SyncProtocolStepProofs` the other steps and the
theorems.

`NoSpuriousFailure` is proved where in addition no wait is cut short, nothing fails on
the agent and nobody stops it (`Calm`; run `SyncProtocol` is such an environment but for `"silent"`). A call
gives up when a wait ends unanswered, and without early ends a wait ends so only when
nothing is under way that could answer it. So the invariant has to say where each message
is that a call still needs. Until the first mishap (`Undisturbed`): while the call waits
for StartAck, the Start or its answer is under way; from the last item on, each item has
been seen by the session or is under way (`Coming`); once End is sent, so is End
(`EndComing`); and when the session is done, its final answer is under way or has been
taken (`FinalComing`). No answer refuses a batch (`GoodAnswer`), what is asked for again
is a part of the batch and not empty, and a session that is complete is queued
(`GoodSession`). A step of the manager that takes a message leaves its effect in the
session (`Steady`), and a request for retransmission puts back under way what it names.

*The connector.* The theorems hold for any number and sizes of operations, limits of the
indexer, and sequences of answers, with nested splits of any depth. The difficulty is that
the halves of a nested split are not cut within the chunk that was refused: a half starts
at the start of the buffer, or ends at its end (section 5, `SingleIsSingle`), so that the
chunks ahead overlap. What makes a call complete nevertheless is `Cover`: each chunk
starts no later than the one before it ends, the last one ends where the buffer
ends, and everything before the next one has been executed, in order (`Done`). A chunk
that is sent again repeats operations, but as a run of consecutive ones up to
its end, after which the later ones are again the last executed. `Numbered` says that
operations stand in the buffer in the order in which they were added, hence at most once;
`Local` what the variables of a call hold at each step; and `SoFar` what a call has
executed compared with its entry, from which `CallIsAtomic` follows: a step within a call
is a stutter to the sessions, its return is the successful call, an exception the failing
one. Offsets are partial sums. That the recursive function `Sums` exists and has the
values its definition says, and that a longer buffer keeps the offsets of a shorter one,
is shown by the least number at which it fails (`UpTo`, `SumsExist`, `OffsetsAppend`).

*Coordination.* The theorems hold for every set of modules enabled together, all
faults, and any number of differences, changes and mishaps. `FlushCovers` speaks of the
moment the metadata session opens, long after the flush was requested, so
the inductive invariant follows the obligation on its way: `Owed` says that the
session that will answer a flush carries what was owed, and that a flush which
succeeded has delivered it. That needs `Sessions` (the open session belongs to the
thread that is in it, and its batch lies between what is sent and what is persisted)
and `Flushes` (a flush is running exactly while a worker, or FIM's loop, will
answer for it). For `FimVersionGrows`, `Mutexes` says whom FIM's scan mutexes belong
to and `Held` that the coordinator has them from the granted pause to the resume and
that the version it has read is not exceeded: what a scan writes outside the mutexes
raises no version. Events do, so the theorem assumes there are none; the other two
theorems need no such assumption. `Phases` is what each step of
`coordinateModules` knows of `todo`, `paused` and `outcome`.

Only model-checked: the liveness properties, because the prover handles neither
fairness nor ENABLED. These are `EventuallyConsistent` and `DisabledCleaned`
(`StateSync`), `LockReleased` and `EndIsAnswered` (`InventorySync`), `CallReturns` and
`StopReturns` (`SyncProtocol`), `CallEnds` (`BulkProcessing`), and `PauseEnds`,
`MetadataArrives` and `RowsDelivered` (`ModuleCoordination`). Every safety property of a
passing run is a theorem.

Most leaves of the longer proofs name the prover (`Zenon`), which needs less time to
prepare an obligation than SMT does; leaves with arithmetic are left to SMT.

## 5. Where code and documentation disagree

Three runs check one property each that a document or comment states, and end with a
counterexample. `PROJECT.json` (findings) quotes both sides.

| Run | What happens |
|---|---|
| `StateSyncGhosts` | FULL of a table that has become empty sends nothing and counts as success: the documents stay for ever. |
| `SyscollectorPause` | A scan ends between the test and the wait of `pause()` and notifies nobody: Syscollector stays paused and agent_info waits for it for ever. |
| `FimVersion` | A real-time or who-data event is applied, without the scan mutexes, between FIM's `get_version` and `set_version`: the row's version is raised above the common one and then set back. |

Properties name the environments in which they hold, and runs leave out others.
Changing a run as given here, with the property's condition on the environment
removed where it has one, shows a counterexample:

| Property | Run and change | What happens |
|---|---|---|
| `Covered` | `StateSync`, environment `{"ackloss"}` | An item is created, sent and deleted during the session, which fails on the agent but is applied: the row is dropped and the document stays until an integrity check. |
| `NoLostUpsert` | `StateSync`, `{"context"}` | An item whose row is SYNCING is submitted as DataContext; after the session fails only a context row is left, which is never indexed. |
| `RowIsInBatch`, `NoLostUpsert` | `StateSync`, `{"storage"}` | The transaction that finalises a session fails and its rows stay SYNCING; the next session's end treats them as its own. |
| `RowIsCurrent` | `StateSync`, `{"crash", "rollback"}` | The queue keeps the difference of a change the table has lost; the next scan finds it again. |
| `AckedIsIndexed` | `InventorySync`, faults `{"indexer"}` | A failed send on the bulk thread leaves its callbacks, which the next send answers Ok. `inventory-sync/architecture.md:107`: "The session store is deleted and `EndAck` is returned when processing completes." |
| `AckedIsIndexed` | `InventorySync`, `{"full"}` | The buffer fills in the middle of a session; a callback answers Ok with the last documents unsent. |
| `AckedIsIndexed` | `InventorySync`, `{"invalid"}` | A document that cannot be indexed is skipped and the session is answered Ok. |
| `EndIsAnswered` | `InventorySync`, `{"indexer"}` | A send on the bulk thread fails with a session's callback registered. The buffer is empty afterwards, so there is no further send, and the session is answered only when another one brings documents. |
| `OneAnswer` | `InventorySync`, `{"scanner"}` | A scan that throws is answered Error and then Ok. |
| `MetadataExclusive` | `InventorySync` | A Start that passed the lock test is admitted during the metadata update. |
| `StoreIsDeleted` | `InventorySync` | A repeated data message between deletion of the keys and of the session leaves a key. |
| `SuccessIsApplied` | `SyncProtocolStop`, `Shapes <- MCClean`, 1 call, 1 mishap, `Faults = {}` | A lost DataClean is resent as DataValue; Ok without a clean. `sync-protocol/api-reference.md:172`: "Upon receiving Ok, it clears the local database and returns true." |
| `SuccessIsApplied` | `SyncProtocolStop`, `Faults = {"lateStart"}` | The StartAck of an earlier call is taken for that of the current one. |
| `SuccessIsApplied` | `SyncProtocolStop`, two callers, `Faults = {}` | An integrity check and a synchronisation on two threads share `m_syncState`. |
| `SuccessIsApplied` | `SyncProtocolStop`, `Faults = {"lateStart", "emptied"}` | A repeated Start removes the session while the indexer thread works on it; Ok for nothing. |
| `SuccessIsApplied` | `SyncProtocolStop`, 1 mishap, `Faults = {"silent", "emptied"}` | The time-out removes a session, and its keys, before the indexer thread has read them; Ok for nothing. |
| `FlushDelivers` | `Coordination` | A flush is answered true because another session of the module is open, which began before the flush and may fail. `agent_info_impl.cpp:1665`: "We must ensure the indexer has received all pending module events before the manager sees newVersion". |
| `FimVersionGrows`, of SCA and Syscollector | `Coordination` | Their pause does not stop a scan that has tested the flag already, nor a recovery, so a version may be given out between `get_version` and `set_version` and taken back. |
| deadlock | `CoordinationLive`, `Faults` with `"resume"` | The query that resumes FIM fails and is only logged: FIM's recovery waits for its own mutexes, its flush is never answered, and agent_info polls without limit. |
| `SingleIsSingle` | `BulkProcessing` | The halves of a nested split are cut from the start, or up to the end, of the whole buffer; operations are sent again, and one that would fit can be given up as a single operation that is too large. |
| `ChunksAreWhole` | `BulkProcessing`, `{"delete"}` | A failing delete by query clears the buffer and not its boundaries. |

Also visible in `BulkProcessing`: a failed split keeps the buffer, which is then
sent again, while any other error drops it; after 429, 413 and a successful
split the loop repeats with an empty body, which throws; a delete answered 409
or 429 counts as executed; and the last round of the bulk thread at shutdown
returns without sending and may run callbacks.

And in `ModuleCoordination`: SCA's own synchronisation cycle ends with a resume that
also ends agent_info's pause; integrity checks and FULL sessions do not take
`m_syncInProgress`; and a crash between the commit of a metadata table and
`setSyncFlag` loses the flag, so that the change arrives with the next integrity check
only (which `MetadataArrives` includes).

## 6. Not modelled

* Schema validation and document limits, which keep items out of the queue.
* Document versions in `StateSync`: the indexer keeps the newest, which here is the
  order in which batches are applied. After a lost transaction of the table the
  versions may start again lower; that is not modelled.
* In `InventorySync`, shutdown.
* `m_inMemoryData` of FULL sessions is filled and used under the scan mutexes, and
  events do not touch it; it appears as the batch. The test of a table's checksum and
  the reading of the table for FULL are one step (`StartFull`).
* FIM empties its table after a clean-up even when the DataClean session has failed
  (`file.c`, lines 1240 to 1248). `FinishClean` is what Syscollector does, which keeps
  the table until the manager has answered; `DisabledCleaned` says nothing of FIM's
  way.
* Session ids are fresh (the code draws 64 random bits).
* A ChecksumModule overtaken by End makes a CHECK session fail with Error. The agent
  treats this as no result, so `NoSpuriousFailure` leaves CHECK calls out.
* In `BulkProcessing`, the choice of the host and the asynchronous connector; the two
  kinds of delete request are one, and bytes outside the buffer are an
  undefined outcome.
* In `ModuleCoordination`, Syscollector's second queue (vulnerability data), SCA's
  snapshot at the first synchronisation, the shutdown of agent_info during a
  coordination (which gives up without resuming what it has paused), how metadata is
  collected, and the vulnerability scanner's lock over all agents on the manager.
* The other parts of the inventory. Most of the repository (the engine, remoted, the
  Python framework, data collection) neither takes part in the synchronisation nor
  shares state with it, so the modules cover a small share of its lines.

## 7. Plan

Done: sections 2 to 5.

Next, modules:

1. `ScanStore`: document limits and deferred deletions; the path in `file.c` that
   empties its table after a failed clean.
2. The vulnerability scanner's lock over all agents in `InventorySync`.
3. `ModuleCoordination` with Syscollector's two queues and agent_info's shutdown.

## 8. Running

```
tlc -workers 2 -config StateSync.cfg MCStateSync
tlapm StateSyncProofs.tla
```

The module of each configuration is given in `PROJECT.json`. Each run takes at most
about three minutes; the proofs take about an hour together.
