---------------------------- MODULE InventorySync ----------------------------
(***************************************************************************)
(* The manager's inventory synchronisation service                         *)
(* (inventorySyncFacade.hpp, agentSession.hpp): worker threads handle the  *)
(* agents' messages, one indexer thread completes the sessions, the        *)
(* connector's bulk thread sends what was buffered and runs completion     *)
(* callbacks, and a timeout thread removes sessions that stay silent.      *)
(*                                                                         *)
(* A step is what a thread does under one acquisition of a mutex.          *)
(*                                                                         *)
(* An environment is what sessions may be about (shapes) and what can      *)
(* happen (faults):                                                        *)
(*   "indexer" requests to the indexer can fail                            *)
(*   "full"    the documents buffered reach MaxBulkSize                    *)
(*   "invalid" documents can fail the checks of the manager                *)
(*   "scanner" the vulnerability scanner can throw                         *)
(*   "timeout" sessions can stay silent for 20 minutes                     *)
(*   "delete"  agents are removed from the manager                         *)
(***************************************************************************)
EXTENDS IndexerConnectorSync

CONSTANTS
  Agents, Modules,
  Sids,            \* session ids: random, taken not to collide
  NoSid,
  Environments,    \* sets of shapes (mode and messages) with sets of faults
  m_maxSessions,
  Quota,           \* DataValue quota
  Workers          \* Start messages handled at the same time

Modes == {"DELTA", "FULL", "CHECK", "META"}

Kinds == {"value", "context", "clean"}

Faults == {"indexer", "full", "invalid", "scanner", "timeout", "delete"}

ASSUME InventorySyncAssumption ==
  /\ NoSid \notin Sids
  /\ \A e \in Environments :
       /\ e.faults \subseteq Faults
       /\ \A sh \in e.shapes : sh.mode \in Modes /\ sh.items \in Seq(Kinds) /\ sh.vd \in BOOLEAN
  /\ {m_maxSessions, Quota, Workers, MaxBulkSize} \subseteq Nat

VARIABLES
  env,             \* the environment, fixed for a behaviour
  starts,          \* Start messages past the lock check, not yet admitted
  m_agentSessions, \* per id: the session, or what is left of its context
  m_dataStore,     \* RocksDB: the <<session, seq>> keys present
  m_dataValueQuotaRemaining,
  m_blockedAgents,
  m_indexerQueue,
  m_mutex,         \* the connector's mutex is held across steps
  indexer,         \* the indexer thread: where it is and its session
  callbacks,       \* per thread: callbacks taken and not yet finished
  acks             \* per id: the final EndAck statuses sent

sessionVars == <<starts, m_agentSessions, m_dataStore, m_dataValueQuotaRemaining, m_blockedAgents>>

serviceVars == <<sessionVars, m_indexerQueue, m_mutex, indexer, callbacks, acks, connectorVars>>

vars == <<env, serviceVars>>

-----------------------------------------------------------------------------
(* Sessions *)

Threads == {"indexer", "bulk"}

\* "cleaned": removed as stale, timed out or zombie, not completed.
SessionStates == {"free", "live", "cleaned", "gone"}

Free == [state |-> "free"]

NewSession(st) ==
  [state |-> "live", agent |-> st.agent, module |-> st.module, mode |-> st.shape.mode,
   items |-> st.shape.items, vd |-> st.shape.vd, seen |-> {}, clean |-> FALSE,
   checksum |-> FALSE, endReceived |-> FALSE, endEnqueued |-> FALSE, ownsAgentLock |-> FALSE]

Live == {sid \in Sids : m_agentSessions[sid].state = "live"}

Size(sid) == Len(m_agentSessions[sid].items)

\* The sequence numbers that the sessions in S have declared, and how many.
Numbers(S) == UNION {{sid} \X (1..Size(sid)) : sid \in S}

Declared(S) == Cardinality(Numbers(S))

KeysOf(S) == {key \in m_dataStore : key[1] \in S}

Marked(S, state) ==
  [sid \in Sids |-> IF sid \in S \cap Live THEN [m_agentSessions[sid] EXCEPT !.state = state]
                    ELSE m_agentSessions[sid]]

OwnersIn(S) == {m_agentSessions[sid].agent : sid \in {s \in S : m_agentSessions[s].ownsAgentLock}}

Acked(sid, status) == [acks EXCEPT ![sid] = Append(@, status)]

Init ==
  /\ env \in Environments
  /\ starts = {}
  /\ m_agentSessions = [sid \in Sids |-> Free]
  /\ m_dataStore = {}
  /\ m_dataValueQuotaRemaining = Quota
  /\ m_blockedAgents = {}
  /\ m_indexerQueue = <<>>
  /\ m_mutex = FALSE
  /\ indexer = [pc |-> "idle", sid |-> NoSid, todo |-> {}, sends |-> FALSE]
  /\ callbacks = [t \in Threads |-> [list |-> <<>>, erase |-> FALSE]]
  /\ acks = [sid \in Sids |-> <<>>]
  /\ ConnectorInit

TypeOK ==
  /\ starts \subseteq [agent : Agents, module : Modules, shape : env.shapes]
  /\ \A sid \in Sids :
       /\ m_agentSessions[sid].state \in SessionStates
       /\ m_agentSessions[sid].state # "free" => m_agentSessions[sid].seen \subseteq 1..Size(sid)
       /\ acks[sid] \in Seq({"Ok", "Error", "ChecksumMismatch"})
  /\ m_dataStore \subseteq Sids \X Nat
  /\ m_dataValueQuotaRemaining \in 0..Quota
  /\ m_blockedAgents \subseteq Agents
  /\ m_indexerQueue \in Seq(Sids)
  /\ m_mutex \in BOOLEAN
  /\ indexer.pc \in {"idle", "found", "flush", "wait", "update", "bulk", "caught", "invoke"}
  /\ indexer.sid \in Sids \cup {NoSid}
  /\ \A t \in Threads : callbacks[t].list \in Seq(Sids) /\ callbacks[t].erase \in BOOLEAN
  /\ m_notify \in Seq(Sids)
  /\ m_shouldNotifyAfterBulk \in BOOLEAN

-----------------------------------------------------------------------------
(* Removing sessions: always under m_agentSessionsMutex, with their quota *)

\* Variant: a session removed twice gives its quota back twice.
EraseCountsTwice(S, state) ==
  /\ m_agentSessions' = Marked(S, state)
  /\ m_dataValueQuotaRemaining' = m_dataValueQuotaRemaining + Declared(S)

\* Variant: the quota of a removed session is not given back.
EraseKeepsQuota(S, state) ==
  /\ m_agentSessions' = Marked(S, state)
  /\ UNCHANGED m_dataValueQuotaRemaining

Erase(S, state) ==
  /\ m_agentSessions' = Marked(S, state)
  /\ m_dataValueQuotaRemaining' = m_dataValueQuotaRemaining + Declared(S \cap Live)

DeleteKeys(S) == m_dataStore' = m_dataStore \ KeysOf(S)

\* The timeout thread finds a session silent for twice DEFAULT_TIME.
Timeout(sid) ==
  /\ "timeout" \in env.faults
  /\ sid \in Live
  /\ m_blockedAgents' = m_blockedAgents \ OwnersIn({sid})
  /\ DeleteKeys({sid})
  /\ Erase({sid}, "cleaned")
  /\ UNCHANGED <<starts, m_indexerQueue, m_mutex, indexer, callbacks, acks, connectorVars>>

-----------------------------------------------------------------------------
(* The workers *)

\* A Start message finds its agent not locked and the indexer available;
\* otherwise it is answered Error or Offline and forgotten.
StartCheck(st) ==
  /\ st.agent \notin m_blockedAgents
  /\ Cardinality(starts) < Workers
  /\ starts' = starts \cup {st}
  /\ UNCHANGED <<m_agentSessions, m_dataStore, m_dataValueQuotaRemaining, m_blockedAgents,
                 m_indexerQueue, m_mutex, indexer, callbacks, acks, connectorVars>>

\* cleanupStaleSessionForAgentModule
Stale(st) ==
  {sid \in Live : m_agentSessions[sid].agent = st.agent /\ m_agentSessions[sid].module = st.module}

\* The session limit and the quota, once the stale session is removed.
Room(st) ==
  /\ Cardinality(Live \ Stale(st)) < m_maxSessions
  /\ m_dataValueQuotaRemaining + Declared(Stale(st)) >= Len(st.shape.items)

\* The constructor of AgentSession refuses a data session of size 0.
ValidSize(st) == st.shape.mode \in {"DELTA", "FULL"} => st.shape.items # <<>>

StartAdmit(st) ==
  /\ st \in starts
  /\ starts' = starts \ {st}
  /\ m_blockedAgents' = m_blockedAgents \ OwnersIn(Stale(st))
  /\ DeleteKeys(Stale(st))
  /\ IF Room(st) /\ ValidSize(st)
     THEN \E sid \in Sids :
            /\ m_agentSessions[sid].state = "free"
            /\ m_agentSessions' = [Marked(Stale(st), "cleaned") EXCEPT ![sid] = NewSession(st)]
            /\ m_dataValueQuotaRemaining' =
                 m_dataValueQuotaRemaining + Declared(Stale(st)) - Len(st.shape.items)
     ELSE Erase(Stale(st), "cleaned")
  /\ UNCHANGED <<m_indexerQueue, m_mutex, indexer, callbacks, acks, connectorVars>>

\* The session is handed to the indexer thread once, when the End message
\* and every declared sequence number have arrived.
Enqueue(sid, s) ==
  LET complete == s.endReceived /\ ~ s.endEnqueued /\ s.seen = 1..Size(sid)
  IN  /\ m_agentSessions' = [m_agentSessions EXCEPT ![sid] =
                               [s EXCEPT !.endEnqueued = @ \/ complete]]
      /\ m_indexerQueue' = IF complete THEN Append(m_indexerQueue, sid) ELSE m_indexerQueue

\* handleData, handleDataContext and handleDataClean; a message may come late
\* and more than once.
HandleData(sid, seq) ==
  /\ sid \in Live
  /\ seq \in 1..Size(sid)
  /\ LET s == m_agentSessions[sid]
     IN  /\ m_dataStore' = IF s.items[seq] = "clean" THEN m_dataStore
                           ELSE m_dataStore \cup {<<sid, seq>>}
         /\ Enqueue(sid, [s EXCEPT !.seen = @ \cup {seq},
                                   !.clean = @ \/ s.items[seq] = "clean"])
  /\ UNCHANGED <<starts, m_dataValueQuotaRemaining, m_blockedAgents, m_mutex, indexer,
                 callbacks, acks, connectorVars>>

HandleChecksumModule(sid) ==
  /\ sid \in Live
  /\ m_agentSessions[sid].mode = "CHECK"
  /\ ~ m_agentSessions[sid].endEnqueued
  /\ m_agentSessions' = [m_agentSessions EXCEPT ![sid].checksum = TRUE]
  /\ UNCHANGED <<starts, m_dataStore, m_dataValueQuotaRemaining, m_blockedAgents, m_indexerQueue,
                 m_mutex, indexer, callbacks, acks, connectorVars>>

HandleEnd(sid) ==
  /\ sid \in Live
  /\ Enqueue(sid, [m_agentSessions[sid] EXCEPT !.endReceived = TRUE])
  /\ UNCHANGED <<starts, m_dataStore, m_dataValueQuotaRemaining, m_blockedAgents, m_mutex, indexer,
                 callbacks, acks, connectorVars>>

DeleteAgent(agent) ==
  /\ "delete" \in env.faults
  /\ ~ m_mutex
  /\ m_deleteByQuery' = m_deleteByQuery \cup {agent}
  /\ UNCHANGED <<sessionVars, m_indexerQueue, m_mutex, indexer, callbacks, acks,
                 m_bulkData, m_notify, m_shouldNotifyAfterBulk, indexed>>

-----------------------------------------------------------------------------
(* The indexer thread *)

\* The thread is there, having finished the callbacks it had taken.
At(pc) == indexer.pc = pc /\ callbacks["indexer"].list = <<>>

Goto(pc) == indexer' = [indexer EXCEPT !.pc = pc]

Current == m_agentSessions[indexer.sid]

IsMeta == Current.mode = "META"

Take(t, notify) == callbacks' = [callbacks EXCEPT ![t].list = TakenIf(notify)]

\* Variant: the handlers leave the agent locked.
CatchKeepsLock ==
  /\ DeleteKeys({indexer.sid})
  /\ acks' = Acked(indexer.sid, "Error")
  /\ m_mutex' = FALSE
  /\ Goto("caught")
  /\ UNCHANGED <<starts, m_agentSessions, m_dataValueQuotaRemaining, m_blockedAgents,
                 m_indexerQueue, callbacks>>

\* The exception handlers: release the lock if the session has it, answer
\* Error and delete the session's keys.
Catch ==
  /\ m_blockedAgents' = m_blockedAgents \ OwnersIn({indexer.sid})
  /\ m_agentSessions' = [m_agentSessions EXCEPT ![indexer.sid].ownsAgentLock = FALSE]
  /\ DeleteKeys({indexer.sid})
  /\ acks' = Acked(indexer.sid, "Error")
  /\ m_mutex' = FALSE
  /\ Goto("caught")
  /\ UNCHANGED <<starts, m_dataValueQuotaRemaining, m_indexerQueue, callbacks>>

\* Then, with the sessions' mutex, they erase the session, and go on to
\* invokePendingCallbacks.
CatchErases ==
  /\ At("caught")
  /\ Erase({indexer.sid}, "gone")
  /\ Goto("invoke")
  /\ UNCHANGED <<starts, m_dataStore, m_blockedAgents, m_indexerQueue, m_mutex, callbacks, acks,
                 connectorVars>>

\* A response whose session has been removed is dropped.
TakeResponse ==
  /\ At("idle")
  /\ m_indexerQueue # <<>>
  /\ m_indexerQueue' = Tail(m_indexerQueue)
  /\ indexer' = IF Head(m_indexerQueue) \in Live
                THEN [pc |-> "found", sid |-> Head(m_indexerQueue), todo |-> {}, sends |-> FALSE]
                ELSE indexer
  /\ UNCHANGED <<sessionVars, m_mutex, callbacks, acks, connectorVars>>

\* Metadata and group modes lock the agent first.
LockAgent ==
  /\ At("found") /\ IsMeta
  /\ m_blockedAgents' = m_blockedAgents \cup {Current.agent}
  /\ m_agentSessions' = [m_agentSessions EXCEPT ![indexer.sid].ownsAgentLock = TRUE]
  /\ Goto("flush")
  /\ UNCHANGED <<starts, m_dataStore, m_dataValueQuotaRemaining, m_indexerQueue, m_mutex,
                 callbacks, acks, connectorVars>>

\* flush() and the callbacks it takes along.
Flush ==
  /\ At("flush") /\ ~ m_mutex
  /\ m_shouldNotifyAfterBulk' = FALSE
  /\ IF HasWork THEN ProcessBulk({}) ELSE UNCHANGED <<m_bulkData, m_deleteByQuery, indexed>>
  /\ Take("indexer", HasWork)
  /\ m_notify' = LeftIf(HasWork)
  /\ Goto("wait")
  /\ UNCHANGED <<sessionVars, m_indexerQueue, m_mutex, acks>>

FlushThrows ==
  /\ "indexer" \in env.faults
  /\ At("flush") /\ ~ m_mutex
  /\ HasWork
  /\ ProcessBulkThrows(FALSE)
  /\ Catch
  /\ UNCHANGED m_notify

Others == {sid \in Live \ {indexer.sid} : m_agentSessions[sid].agent = Current.agent}

\* Variant: the wait has no time limit.
WaitForEver ==
  /\ At("wait")
  /\ Others = {}
  /\ Goto("update")
  /\ UNCHANGED <<sessionVars, m_indexerQueue, m_mutex, callbacks, acks, connectorVars>>

\* waitForAgentSessions returns because the others are done, or after 60
\* seconds; then cleanupZombieSessions removes them.
WaitForAgentSessions ==
  /\ At("wait")
  /\ DeleteKeys(Others)
  /\ Erase(Others, "cleaned")
  /\ Goto("update")
  /\ UNCHANGED <<starts, m_blockedAgents, m_indexerQueue, m_mutex, callbacks, acks, connectorVars>>

\* registerNotify, then executeUpdateByQuery, which calls for the callbacks.
UpdateByQuery ==
  /\ At("update") /\ ~ m_mutex
  /\ indexed' = indexed \cup {indexer.sid}
  /\ m_notify' = Append(m_notify, indexer.sid)
  /\ m_shouldNotifyAfterBulk' = TRUE
  /\ Goto("invoke")
  /\ UNCHANGED <<sessionVars, m_indexerQueue, m_mutex, callbacks, acks, m_bulkData, m_deleteByQuery>>

\* A failed request forgets every callback.
UpdateByQueryThrows ==
  /\ "indexer" \in env.faults
  /\ At("update") /\ ~ m_mutex
  /\ m_notify' = <<>>
  /\ Catch
  /\ UNCHANGED <<m_bulkData, m_deleteByQuery, m_shouldNotifyAfterBulk, indexed>>

\* Without a checksum, or when the search for the manager's fails: Error.
CheckStatuses ==
  {status \in {"Ok", "ChecksumMismatch", "Error"} :
     IF status = "Error" THEN ~ Current.checksum \/ "indexer" \in env.faults ELSE Current.checksum}

\* ModuleCheck: compare the checksums, answer and remove the session.
ModuleCheck ==
  /\ At("found") /\ ~ m_mutex
  /\ Current.mode = "CHECK"
  /\ \E status \in CheckStatuses : acks' = Acked(indexer.sid, status)
  /\ Erase({indexer.sid}, "gone")
  /\ Goto("invoke")
  /\ UNCHANGED <<starts, m_dataStore, m_blockedAgents, m_indexerQueue, m_mutex, callbacks, connectorVars>>

\* Data modes: DataClean first, then the documents of the store one by one,
\* all with the connector's mutex.
BeginData ==
  /\ At("found") /\ ~ m_mutex
  /\ Current.mode \in {"DELTA", "FULL"}
  /\ m_mutex' = TRUE
  /\ m_deleteByQuery' = IF Current.clean THEN m_deleteByQuery \cup {indexer.sid} ELSE m_deleteByQuery
  /\ indexer' = [indexer EXCEPT
                   !.pc = "bulk",
                   !.todo = {key \in KeysOf({indexer.sid}) : Current.items[key[2]] = "value"},
                   !.sends = Current.clean]
  /\ UNCHANGED <<sessionVars, m_indexerQueue, callbacks, acks, m_bulkData, m_notify,
                 m_shouldNotifyAfterBulk, indexed>>

Appended(key) == indexer' = [indexer EXCEPT !.todo = @ \ {key}, !.sends = TRUE]

FirstOf(keys) == CHOOSE key \in keys : \A other \in keys : key[2] <= other[2]

BufferFull == "full" \in env.faults /\ Full

\* bulkIndex and bulkDelete send the buffer when it is full.
AppendDocument ==
  /\ At("bulk")
  /\ indexer.todo # {}
  /\ LET key == FirstOf(indexer.todo)
     IN  /\ Appended(key)
         /\ IF BufferFull
            THEN /\ ProcessBulk({key})
                 /\ m_shouldNotifyAfterBulk' = TRUE
            ELSE /\ m_bulkData' = m_bulkData \cup {key}
                 /\ UNCHANGED <<m_deleteByQuery, m_shouldNotifyAfterBulk, indexed>>
  /\ UNCHANGED <<sessionVars, m_indexerQueue, m_mutex, callbacks, acks, m_notify>>

AppendThrows ==
  /\ "indexer" \in env.faults
  /\ At("bulk")
  /\ indexer.todo # {}
  /\ BufferFull
  /\ ProcessBulkThrows(m_shouldNotifyAfterBulk)
  /\ Catch
  /\ UNCHANGED m_notify

\* A document that is not of an inventory index, has no id or is no JSON
\* object is skipped; one that is no DataValue or has no known operation throws.
SkipDocument ==
  /\ "invalid" \in env.faults
  /\ At("bulk")
  /\ indexer.todo # {}
  /\ indexer' = [indexer EXCEPT !.todo = @ \ {FirstOf(indexer.todo)}]
  /\ UNCHANGED <<sessionVars, m_indexerQueue, m_mutex, callbacks, acks, connectorVars>>

DocumentThrows ==
  /\ "invalid" \in env.faults
  /\ At("bulk")
  /\ indexer.todo # {}
  /\ Catch
  /\ UNCHANGED connectorVars

\* A full session sweeps what it did not send.
Sweeps == IF Current.mode = "FULL" THEN {indexer.sid} ELSE {}

\* Variant: a callback is registered although no send will ever run it.
RegistersAlways == TRUE

\* Something went to the connector, whose next send runs the callback.
Registers == indexer.sends \/ Sweeps # {}

\* The end of a data session, after the vulnerability scan if it asks for
\* one.  A scanner that throws is answered Error and the session removed; the
\* handler then goes on: the callback is registered, or, when nothing went to
\* the connector, the session is answered Ok at once.
FinishData(scanThrows) ==
  /\ At("bulk")
  /\ indexer.todo = {}
  /\ scanThrows => Current.vd /\ "scanner" \in env.faults
  /\ m_deleteByQuery' = m_deleteByQuery \cup Sweeps
  /\ LET answers == (IF scanThrows THEN <<"Error">> ELSE <<>>)
                      \o (IF Registers THEN <<>> ELSE <<"Ok">>)
     IN  /\ m_notify' = IF Registers THEN Append(m_notify, indexer.sid) ELSE m_notify
         /\ acks' = [acks EXCEPT ![indexer.sid] = @ \o answers]
         /\ IF answers = <<>>
            THEN UNCHANGED <<m_dataStore, m_agentSessions, m_dataValueQuotaRemaining>>
            ELSE DeleteKeys({indexer.sid}) /\ Erase({indexer.sid}, "gone")
  /\ m_mutex' = FALSE
  /\ Goto("invoke")
  /\ UNCHANGED <<starts, m_blockedAgents, m_indexerQueue, callbacks, m_bulkData,
                 m_shouldNotifyAfterBulk, indexed>>

InvokePendingCallbacks ==
  /\ At("invoke") /\ ~ m_mutex
  /\ Take("indexer", m_shouldNotifyAfterBulk)
  /\ m_notify' = LeftIf(m_shouldNotifyAfterBulk)
  /\ m_shouldNotifyAfterBulk' = FALSE
  /\ Goto("idle")
  /\ UNCHANGED <<sessionVars, m_indexerQueue, m_mutex, acks, m_bulkData, m_deleteByQuery, indexed>>

-----------------------------------------------------------------------------
(* The bulk thread and the callbacks *)

BulkThread ==
  /\ ~ m_mutex
  /\ callbacks["bulk"].list = <<>>
  /\ HasWork
  /\ ProcessBulk({})
  /\ Take("bulk", TRUE)
  /\ m_notify' = LeftIf(TRUE)
  /\ m_shouldNotifyAfterBulk' = FALSE
  /\ UNCHANGED <<sessionVars, m_indexerQueue, m_mutex, indexer, acks>>

BulkThreadFails ==
  /\ "indexer" \in env.faults
  /\ ~ m_mutex
  /\ callbacks["bulk"].list = <<>>
  /\ HasWork
  /\ ProcessBulkThrows(m_shouldNotifyAfterBulk)
  /\ UNCHANGED <<sessionVars, m_indexerQueue, m_mutex, indexer, callbacks, acks, m_notify>>

\* A callback first releases the agent's lock, if it is of a metadata or
\* group session, answers Ok and deletes the session's keys.
CallbackAnswers(t) ==
  /\ callbacks[t].list # <<>>
  /\ ~ callbacks[t].erase
  /\ LET sid == Head(callbacks[t].list)
         meta == m_agentSessions[sid].mode = "META"
     IN  /\ m_blockedAgents' = IF meta THEN m_blockedAgents \ {m_agentSessions[sid].agent}
                               ELSE m_blockedAgents
         /\ m_agentSessions' = [m_agentSessions EXCEPT ![sid].ownsAgentLock = @ /\ ~ meta]
         /\ IF meta THEN UNCHANGED m_dataStore ELSE DeleteKeys({sid})
         /\ acks' = Acked(sid, "Ok")
  /\ callbacks' = [callbacks EXCEPT ![t].erase = TRUE]
  /\ UNCHANGED <<starts, m_dataValueQuotaRemaining, m_indexerQueue, m_mutex, indexer, connectorVars>>

\* Then, with the sessions' mutex, it erases the session.
CallbackErases(t) ==
  /\ callbacks[t].erase
  /\ Erase({Head(callbacks[t].list)}, "gone")
  /\ callbacks' = [callbacks EXCEPT ![t] = [list |-> Tail(@.list), erase |-> FALSE]]
  /\ UNCHANGED <<starts, m_dataStore, m_blockedAgents, m_indexerQueue, m_mutex, indexer, acks,
                 connectorVars>>

-----------------------------------------------------------------------------
Worker ==
  \/ \E st \in [agent : Agents, module : Modules, shape : env.shapes] : StartCheck(st) \/ StartAdmit(st)
  \/ \E sid \in Sids :
       \/ sid \in Live /\ \E seq \in 1..Size(sid) : HandleData(sid, seq)
       \/ HandleChecksumModule(sid)
       \/ HandleEnd(sid)
  \/ \E agent \in Agents : DeleteAgent(agent)

IndexerStep ==
  \/ TakeResponse \/ LockAgent \/ Flush \/ WaitForAgentSessions \/ UpdateByQuery
  \/ ModuleCheck \/ BeginData \/ AppendDocument \/ FinishData(FALSE)
  \/ CatchErases \/ InvokePendingCallbacks

IndexerFails ==
  \/ FlushThrows \/ UpdateByQueryThrows \/ AppendThrows
  \/ SkipDocument \/ DocumentThrows \/ FinishData(TRUE)

Next ==
  /\ \/ Worker
     \/ IndexerStep \/ IndexerFails
     \/ BulkThread \/ BulkThreadFails
     \/ \E t \in Threads : CallbackAnswers(t) \/ CallbackErases(t)
     \/ \E sid \in Sids : Timeout(sid)
  /\ UNCHANGED env

Spec == Init /\ [][Next]_vars

\* The threads run, and a request to the indexer that is repeated for ever
\* succeeds in the end; no message of an agent is assumed to arrive.
Fairness ==
  /\ WF_serviceVars(IndexerStep)
  /\ WF_serviceVars(BulkThread)
  /\ \A t \in Threads : WF_serviceVars(CallbackAnswers(t) \/ CallbackErases(t))

LiveSpec == Spec /\ Fairness

-----------------------------------------------------------------------------
(* Safety *)

\* QuotaConserved: whichever of the six ways a session ends (callback,
\* immediate answer, exception, stale, zombie or timed-out clean-up) and in
\* whatever order two of them meet on one session, the quota it reserved is
\* given back exactly once; and the session limit holds.
QuotaConserved ==
  /\ m_dataValueQuotaRemaining + Declared(Live) = Quota
  /\ Cardinality(Live) <= m_maxSessions

\* What a session asked the indexer to do.
Work(sid) ==
  LET s == m_agentSessions[sid]
  IN  {<<sid, seq>> : seq \in {q \in 1..Size(sid) : s.items[q] = "value"}}
        \cup (IF s.mode = "FULL" \/ \E q \in 1..Size(sid) : s.items[q] = "clean" THEN {sid} ELSE {})

\* AckedIsIndexed: the agent of a session that was not cleaned up is told Ok
\* only when all its documents and delete requests have been executed by the
\* indexer; on Ok the agent deletes its own record of them.  (With neither
\* failing requests, nor a buffer that fills up, nor documents that are
\* skipped: each breaks it.)
AckedIsIndexed ==
  env.faults \cap {"indexer", "full", "invalid"} = {} =>
    \A sid \in Sids :
      /\ m_agentSessions[sid].state \in {"live", "gone"}
      /\ \E i \in 1..Len(acks[sid]) : acks[sid][i] = "Ok"
      /\ m_agentSessions[sid].mode \in {"DELTA", "FULL"}
      => Work(sid) \subseteq indexed

\* OneAnswer: a session is given one final EndAck at most.  (A scan that throws
\* is answered Error, and Ok when the documents are sent.)
OneAnswer == "scanner" \notin env.faults => \A sid \in Sids : Len(acks[sid]) <= 1

Holder(agent) ==
  \E sid \in Sids :
    /\ m_agentSessions[sid].state # "free"
    /\ m_agentSessions[sid].agent = agent
    /\ m_agentSessions[sid].ownsAgentLock
    /\ \/ indexer.sid = sid /\ indexer.pc \in {"flush", "wait", "update"}
       \/ \E i \in 1..Len(m_notify) : m_notify[i] = sid
       \/ \E t \in Threads : \E i \in 1..Len(callbacks[t].list) : callbacks[t].list[i] = sid

\* LockHasHolder: a locked agent is locked by a metadata or group session that
\* the indexer thread or a registered callback is still going to unlock, so
\* no path through failures and clean-ups leaves an agent locked for ever.
LockHasHolder == \A agent \in m_blockedAgents : Holder(agent)

\* MetadataExclusive: while the documents of an agent are updated by query, no
\* other session of the agent is open.
MetadataExclusive ==
  At("update") => Others = {}

\* StoreIsDeleted: the store holds keys of open sessions only.
StoreIsDeleted == \A key \in m_dataStore : key[1] \in Live

-----------------------------------------------------------------------------
(* Liveness *)

\* LockReleased: a locked agent is unlocked again, whatever requests and scans
\* fail and whichever sessions are removed meanwhile.
LockReleased ==
  \A agent \in Agents : agent \in m_blockedAgents ~> agent \notin m_blockedAgents

\* EndIsAnswered: a session whose End and data have all arrived is answered,
\* or removed as stale or zombie, although the agent sends nothing more.
\* (Unless requests fail: a failed send on the bulk thread leaves the callbacks
\* until the next send, a failed update-by-query forgets them.)
EndIsAnswered ==
  \A sid \in Sids :
    "indexer" \notin env.faults /\ sid \in Live /\ m_agentSessions[sid].endEnqueued
      ~> sid \notin Live
==============================================================================
