----------------------- MODULE InventorySyncStepProofs -----------------------
(***************************************************************************)
(* The steps of the indexer thread and of the callbacks preserve the       *)
(* invariant of InventorySyncProofs, and the safety of the service         *)
(* follows.                                                                *)
(***************************************************************************)
EXTENDS InventorySyncProofs

\* The indexer thread's session is registered for its callback.
LEMMA RegisterFacts ==
  ASSUME Types, Pipeline, indexer.pc \in Handling, m_notify' = Append(m_notify, indexer.sid),
         Enqueued \subseteq Enqueued', indexer'.pc = "invoke",
         UNCHANGED <<m_indexerQueue, callbacks>>
  PROVE  /\ m_notify' \in Seq(Sids) /\ Pipeline'
         /\ Registered' = Registered \cup {indexer.sid}
         /\ indexer.sid \in Sids /\ IsSession(indexer.sid) /\ indexer.sid \in Enqueued
         /\ \A t \in Threads : Taken(t)' = Taken(t)
         /\ Answered' = Answered
         /\ Queued' = Queued /\ Working' = {} /\ Open' = Open
<1>1. indexer.sid \in Sids /\ IsSession(indexer.sid) /\ indexer.sid \in Enqueued
  BY Places, ZenonT(30)
<1>2. Working = {indexer.sid} /\ Working' = {}
  BY Zenon DEF Working, Handling
<1>3. /\ m_notify' \in Seq(Sids) /\ Registered' = Registered \cup {indexer.sid}
      /\ Distinct(m_notify')
  <2>1. m_notify \in Seq(Sids) /\ Distinct(m_notify) /\ indexer.sid \notin Registered
    BY <1>2, Zenon DEF Types, Pipeline
  <2> QED
    BY <1>1, <2>1, ElemsAppend, SMTT(30) DEF Registered
<1>4. /\ \A t \in Threads : Taken(t)' = Taken(t) /\ callbacks'[t] = callbacks[t]
      /\ Answered' = Answered /\ Queued' = Queued
      /\ \A t \in Threads : Unanswered(t)' = Unanswered(t)
  BY Zenon DEF Taken, Answered, Queued, Unanswered
<1>5. Pipeline'
  BY <1>1, <1>2, <1>3, <1>4, SMTT(30) DEF Pipeline, Threads
<1>6. Open' = Open
  BY <1>2, <1>3, <1>4, ZenonT(30) DEF Open, Threads
<1> QED
  BY <1>1, <1>2, <1>3, <1>4, <1>5, <1>6, ZenonT(30)

\* registerNotify and executeUpdateByQuery
LEMMA UpdateByQueryStep ==
  ASSUME IInv, UpdateByQuery, UNCHANGED env
  PROVE  IInv'
<1> DEFINE sid == indexer.sid
<1>1. /\ indexer.pc = "update" /\ m_notify' = Append(m_notify, sid) /\ Goto("invoke")
      /\ m_shouldNotifyAfterBulk' = TRUE /\ indexed \subseteq indexed'
      /\ UNCHANGED <<starts, m_agentSessions, m_dataStore, m_dataValueQuotaRemaining,
                     m_blockedAgents, m_indexerQueue, m_mutex, callbacks, acks,
                     m_bulkData, m_deleteByQuery>>
  BY ZenonT(30) DEF UpdateByQuery, At, sessionVars
<1>2. SessionTypes' /\ Kept /\ KeptOwners /\ Reserved' /\ Enqueued' = Enqueued
  BY <1>1, SameFacts, ZenonT(30)
<1>3. indexer' \in IndexerStates /\ indexer'.pc = "invoke" /\ indexer'.sid = sid
  BY <1>1, GotoFacts, ZenonT(30) DEF IInv, Pcs
<1>4. /\ m_notify' \in Seq(Sids) /\ Pipeline'
      /\ Registered' = Registered \cup {sid} /\ sid \in Enqueued
      /\ \A t \in Threads : Taken(t)' = Taken(t)
      /\ Answered' = Answered
      /\ Queued' = Queued /\ Working' = {} /\ Open' = Open
  BY <1>1, <1>2, <1>3, RegisterFacts, ZenonT(30) DEF IInv, Handling
<1>5. Types'
  BY <1>1, <1>2, <1>3, <1>4, ZenonT(30) DEF IInv, Types
<1>6. Locks'
  <2>1. Releasing' = Releasing
    BY <1>1, <1>3, <1>4, ZenonT(30) DEF Releasing, Threads
  <2>2. \A x \in Registered' : x \in Enqueued
    BY <1>4, ZenonT(30) DEF IInv, Pipeline
  <2> QED
    BY <1>1, <1>2, <1>3, <1>4, <2>1, <2>2, LocksKept, ZenonT(30) DEF IInv
<1>7. Answers'
  BY <1>1, <1>2, <1>4, AnswersFrame, ZenonT(30) DEF IInv
<1>8. ASSUME Reliable PROVE Documents'
  <2>1. Sending'
    BY <1>3, ZenonT(30) DEF Sending
  <2>2. Enqueued \subseteq Sids /\ Registered \subseteq Enqueued
        /\ \A t \in Threads : Taken(t) \subseteq Enqueued
    BY ZenonT(30) DEF Enqueued, IInv, Pipeline
  <2>3. /\ \A x \in Registered : IsData(x) => Work(x) \subseteq indexed'
        /\ \A t \in Threads : \A x \in Taken(t) : IsData(x) => Work(x) \subseteq indexed'
    BY <1>1, <1>8, ZenonT(30) DEF IInv, Documents, IsDone
  <2>4. ~ IsData(sid)
    BY <1>1, ZenonT(30) DEF IInv, Locks, Current, IsData
  <2>5. Queued' \cup Working' \subseteq Queued \cup Working
    BY <1>4, ZenonT(30)
  <2> QED
    BY <1>1, <1>3, <1>4, <1>8, <2>1, <2>2, <2>3, <2>4, <2>5, DocumentsSame, ZenonT(30)
<1> QED
  BY <1>2, <1>4, <1>5, <1>6, <1>7, <1>8, ZenonT(30) DEF IInv, Documents, Reliable

\* Nothing registered, taken or answered: the indexer thread only goes on.
LEMMA WorkingFrame ==
  ASSUME IInv, SessionTypes', Kept, KeptOwners, Enqueued \subseteq Enqueued',
         indexer.pc \in Handling, indexer' \in IndexerStates,
         indexer'.sid = indexer.sid, indexer'.pc \in Handling,
         indexer.pc \in {"flush", "wait", "update"} => indexer'.pc \in {"flush", "wait", "update"},
         indexer'.pc \in {"flush", "wait", "update"} => Current.mode = "META",
         indexer'.pc = "bulk" => Current.mode \in {"DELTA", "FULL"},
         UNCHANGED <<env, m_blockedAgents, m_indexerQueue, callbacks, acks, m_notify>>
  PROVE  /\ Pipeline' /\ Locks' /\ Answers'
         /\ Queued' = Queued /\ Working' = Working /\ Registered' = Registered
         /\ \A t \in Threads : Taken(t)' = Taken(t)
<1>1. /\ Working' = Working /\ Queued' = Queued /\ Registered' = Registered /\ Open' = Open
      /\ Answered' = Answered
      /\ \A t \in Threads : Taken(t)' = Taken(t)
  BY ZenonT(30) DEF Queued, Working, Registered, Open, Taken, Unanswered, Answered
<1>2. Pipeline' /\ Answers'
  BY <1>1, PipelineFrame, AnswersFrame, ZenonT(30) DEF IInv
<1>3. \A sid \in Releasing : sid \in Releasing'
  BY <1>1, ZenonT(30) DEF Releasing, Threads
<1>4. \A sid \in Registered' : sid \in Enqueued /\ m_agentSessions[sid].mode # "META"
  BY <1>1, ZenonT(30) DEF IInv, Locks, Pipeline, Handling
<1>5. Locks'
  BY <1>1, <1>3, <1>4, LocksKept, ZenonT(30) DEF IInv
<1> QED
  BY <1>1, <1>2, <1>5, ZenonT(30)

\* The documents of a data session begin: DataClean first.
LEMMA BeginDataStep ==
  ASSUME IInv, BeginData, UNCHANGED env
  PROVE  IInv'
<1> DEFINE sid == indexer.sid
           todo == {key \in KeysOf({sid}) : Current.items[key[2]] = "value"}
<1>1. /\ indexer.pc = "found" /\ Current.mode \in {"DELTA", "FULL"}
      /\ m_mutex' = TRUE
      /\ m_deleteByQuery' = IF Current.clean THEN m_deleteByQuery \cup {sid} ELSE m_deleteByQuery
      /\ indexer' = [indexer EXCEPT !.pc = "bulk", !.todo = todo, !.sends = Current.clean]
      /\ UNCHANGED <<starts, m_agentSessions, m_dataStore, m_dataValueQuotaRemaining,
                     m_blockedAgents, m_indexerQueue, callbacks, acks, m_bulkData, m_notify,
                     m_shouldNotifyAfterBulk, indexed>>
  BY ZenonT(30) DEF BeginData, At, sessionVars
<1>2. /\ SessionTypes' /\ Kept /\ KeptOwners /\ Reserved' /\ Enqueued' = Enqueued
      /\ \A x \in Sids : /\ IsData(x)' <=> IsData(x)
                         /\ Values(x)' = Values(x)
                         /\ HasClean(x)' <=> HasClean(x)
  BY <1>1, SameFacts, ZenonT(30)
<1>3. sid \in Sids /\ IsSession(sid) /\ sid \in Enqueued /\ sid \in Working
  BY <1>1, Places, ZenonT(30) DEF IInv, Handling, Working
<1>4. /\ indexer' \in IndexerStates /\ indexer'.pc = "bulk" /\ indexer'.sid = sid
      /\ indexer'.todo = todo /\ indexer'.sends = Current.clean
  <2>1. todo \subseteq Sids \X Nat /\ Current.clean \in BOOLEAN
    BY <1>3, ZenonT(30) DEF KeysOf, IInv, Types, IsSession, Session, Current
  <2> HIDE DEF todo
  <2> QED
    BY <1>1, <2>1, ZenonT(30) DEF IInv, Types, IndexerStates, Pcs
<1>5. /\ Pipeline' /\ Locks' /\ Answers'
      /\ Queued' = Queued /\ Working' = Working /\ Registered' = Registered
      /\ \A t \in Threads : Taken(t)' = Taken(t)
  BY <1>1, <1>2, <1>4, WorkingFrame, ZenonT(30) DEF Handling
<1>6. Types'
  BY <1>1, <1>2, <1>4, ZenonT(30) DEF IInv, Types
<1>7. ASSUME Reliable PROVE Documents'
  <2>1. Enqueued \subseteq Sids /\ Registered \subseteq Enqueued
        /\ \A t \in Threads : Taken(t) \subseteq Enqueued
    BY Zenon DEF Enqueued, IInv, Pipeline
  <2>2. /\ \A x \in Registered : IsData(x) => Handed(x)
        /\ \A t \in Threads : \A x \in Taken(t) : IsData(x) => Work(x) \subseteq indexed
        /\ ~ m_shouldNotifyAfterBulk
    BY <1>1, <1>7, ZenonT(30) DEF IInv, Documents, IsDone
  <2>3. Received(sid)
    BY <1>3, <1>7, ZenonT(30) DEF IInv, Documents, AllReceived
  <2>4. m_agentSessions[sid].endEnqueued /\ m_agentSessions[sid].seen = 1..Size(sid)
    BY <1>3, <2>3, ZenonT(30) DEF Enqueued, Received
  <2>5. ASSUME IsData(sid) PROVE Values(sid) \subseteq todo
    <3>1. m_agentSessions[sid].state = "live"
      BY <1>3, <2>3, <2>5, SessionFacts, ZenonT(30) DEF IsData, Received, IInv, Types
    <3>2. \A q \in 1..Size(sid) : m_agentSessions[sid].items[q] = "value" => <<sid, q>> \in m_dataStore
      BY <2>3, <2>4, <3>1, ZenonT(30) DEF Received
    <3> QED
      BY <3>2, SMTT(30) DEF Values, KeysOf, Current
  <2>6. Current.clean <=> HasClean(sid)
    BY <2>3, <2>4, ZenonT(30) DEF Received, HasClean, Current
  <2>7. Sending'
    <3> SUFFICES ASSUME IsData(sid)
                 PROVE  /\ Values(sid) \subseteq todo
                        /\ HasClean(sid) => sid \in m_deleteByQuery'
                        /\ ~ Current.clean => ~ HasClean(sid)
      BY <1>1, <1>2, <1>3, <1>4, ZenonT(30) DEF Sending
    <3> QED
      BY <1>1, <2>5, <2>6, Zenon
  <2>8. m_deleteByQuery \subseteq m_deleteByQuery'
    BY <1>1, Zenon
  <2>9. Queued' \cup Working' \subseteq Queued \cup Working
    BY <1>5, ZenonT(30)
  <2> QED
    BY <1>1, <1>4, <1>5, <1>7, <2>1, <2>2, <2>7, <2>8, <2>9, DocumentsSame, ZenonT(30) DEF Handed
<1> QED
  BY <1>2, <1>5, <1>6, <1>7, ZenonT(30) DEF IInv, Documents, Reliable

\* bulkIndex
LEMMA AppendDocumentStep ==
  ASSUME IInv, AppendDocument, UNCHANGED env
  PROVE  IInv'
<1> DEFINE sid == indexer.sid
           key == FirstOf(indexer.todo)
<1>1. /\ indexer.pc = "bulk" /\ indexer' = [indexer EXCEPT !.todo = @ \ {key}, !.sends = TRUE]
      /\ \/ BufferFull /\ m_shouldNotifyAfterBulk' = TRUE
         \/ m_bulkData' = m_bulkData \cup {key}
            /\ UNCHANGED <<m_deleteByQuery, m_shouldNotifyAfterBulk, indexed>>
      /\ UNCHANGED <<starts, m_agentSessions, m_dataStore, m_dataValueQuotaRemaining,
                     m_blockedAgents, m_indexerQueue, m_mutex, callbacks, acks, m_notify>>
  BY ZenonT(30) DEF AppendDocument, Appended, At, sessionVars
<1> HIDE DEF key
<1>2. /\ SessionTypes' /\ Kept /\ KeptOwners /\ Reserved' /\ Enqueued' = Enqueued
      /\ \A x \in Sids : /\ IsData(x)' <=> IsData(x)
                         /\ Values(x)' = Values(x)
                         /\ HasClean(x)' <=> HasClean(x)
  BY <1>1, SameFacts, ZenonT(30)
<1>3. sid \in Sids /\ Current.mode \in {"DELTA", "FULL"}
  BY <1>1, Places, ZenonT(30) DEF IInv, Handling, Locks
<1>4. /\ indexer' \in IndexerStates /\ indexer'.pc = "bulk" /\ indexer'.sid = sid
      /\ indexer'.todo = indexer.todo \ {key} /\ indexer'.sends = TRUE
  BY <1>1, Zenon DEF IInv, Types, IndexerStates, Pcs
<1>5. /\ Pipeline' /\ Locks' /\ Answers'
      /\ Queued' = Queued /\ Working' = Working /\ Registered' = Registered
      /\ \A t \in Threads : Taken(t)' = Taken(t)
  BY <1>1, <1>2, <1>3, <1>4, WorkingFrame, ZenonT(30) DEF Handling
<1>6. Types'
  <2>1. m_shouldNotifyAfterBulk' \in BOOLEAN
    BY <1>1, ZenonT(30) DEF IInv, Types
  <2> QED
    BY <1>1, <1>2, <1>4, <2>1, ZenonT(30) DEF IInv, Types
<1>7. ASSUME Reliable PROVE Documents'
  <2>1. Enqueued \subseteq Sids /\ Registered \subseteq Enqueued
        /\ \A t \in Threads : Taken(t) \subseteq Enqueued
    BY Zenon DEF Enqueued, IInv, Pipeline
  <2>2. /\ \A x \in Registered : IsData(x) => Handed(x)
        /\ \A t \in Threads : \A x \in Taken(t) : IsData(x) => Work(x) \subseteq indexed
        /\ ~ m_shouldNotifyAfterBulk /\ Sending
    BY <1>1, <1>7, ZenonT(30) DEF IInv, Documents, IsDone
  <2>3. m_bulkData' = m_bulkData \cup {key}
        /\ UNCHANGED <<m_deleteByQuery, m_shouldNotifyAfterBulk, indexed>>
    BY <1>1, <1>7, ZenonT(30) DEF BufferFull, Reliable
  <2>4. Sending'
    BY <1>1, <1>2, <1>3, <1>4, <2>2, <2>3, SMTT(30) DEF Sending
  <2>5. Queued' \cup Working' \subseteq Queued \cup Working
    BY <1>5, Zenon
  <2> QED
    BY <1>1, <1>4, <1>5, <1>7, <2>1, <2>2, <2>3, <2>4, <2>5, DocumentsSame, ZenonT(30) DEF Handed
<1> QED
  BY <1>2, <1>5, <1>6, <1>7, Zenon DEF IInv, Documents, Reliable

\* A document that is refused is not handed to the connector.
LEMMA SkipDocumentStep ==
  ASSUME IInv, SkipDocument, UNCHANGED env
  PROVE  IInv'
<1> DEFINE key == FirstOf(indexer.todo)
<1>1. /\ indexer.pc = "bulk" /\ indexer' = [indexer EXCEPT !.todo = @ \ {key}]
      /\ UNCHANGED <<starts, m_agentSessions, m_dataStore, m_dataValueQuotaRemaining,
                     m_blockedAgents, m_indexerQueue, m_mutex, callbacks, acks, m_notify,
                     m_shouldNotifyAfterBulk>>
      /\ ~ Reliable
  BY ZenonT(30) DEF SkipDocument, At, sessionVars, connectorVars, Reliable
<1> HIDE DEF key
<1>2. SessionTypes' /\ Kept /\ KeptOwners /\ Reserved' /\ Enqueued' = Enqueued
  BY <1>1, SameFacts, ZenonT(30)
<1>3. Current.mode \in {"DELTA", "FULL"}
  BY <1>1, ZenonT(30) DEF IInv, Locks
<1>4. /\ indexer' \in IndexerStates /\ indexer'.pc = "bulk" /\ indexer'.sid = indexer.sid
  BY <1>1, Zenon DEF IInv, Types, IndexerStates, Pcs
<1>5. Pipeline' /\ Locks' /\ Answers'
  BY <1>1, <1>2, <1>3, <1>4, WorkingFrame, ZenonT(30) DEF Handling
<1>6. Types'
  BY <1>1, <1>2, <1>4, ZenonT(30) DEF IInv, Types
<1> QED
  BY <1>1, <1>2, <1>5, <1>6, Zenon DEF IInv, Documents, Reliable

-----------------------------------------------------------------------------
(* Steps that lock, remove or answer a session *)

\* waitForAgentSessions and cleanupZombieSessions
LEMMA WaitStep ==
  ASSUME IInv, WaitForAgentSessions, UNCHANGED env
  PROVE  IInv'
<1>1. /\ indexer.pc = "wait" /\ DeleteKeys(Others) /\ Erase(Others, "cleaned") /\ Goto("update")
      /\ UNCHANGED <<starts, m_blockedAgents, m_indexerQueue, m_mutex, callbacks, acks,
                     connectorVars>>
  BY ZenonT(30) DEF WaitForAgentSessions, At
<1>2. SessionTypes' /\ Kept /\ KeptOwners /\ Live' = Live \ Others /\ Enqueued \subseteq Enqueued'
  BY <1>1, ErasedSessions, KeptFacts, ZenonT(30) DEF IInv, Types
<1>3. Reserved'
  BY <1>1, <1>2, ReservedRemoved, ZenonT(30) DEF IInv, Types, Erase
<1>4. indexer' \in IndexerStates /\ indexer'.pc = "update" /\ indexer'.sid = indexer.sid
  BY <1>1, GotoFacts, ZenonT(30) DEF IInv, Pcs
<1>5. Types'
  BY <1>1, <1>2, <1>4, ZenonT(30) DEF IInv, Types, DeleteKeys, connectorVars
<1>6. /\ Pipeline' /\ Locks' /\ Answers'
      /\ Queued' = Queued /\ Working' = Working /\ Registered' = Registered
      /\ \A t \in Threads : Taken(t)' = Taken(t)
  BY <1>1, <1>2, <1>4, WorkingFrame, ZenonT(30) DEF Handling, IInv, Locks, connectorVars
<1>7. ASSUME Reliable PROVE Documents'
  <2>1. Others \subseteq Live
    BY ZenonT(30) DEF Others
  <2>2. AllReceived'
    BY <1>1, <1>6, <1>7, <2>1, CleanedReceived, ZenonT(30) DEF IInv, Documents
  <2>3. Sending'
    BY <1>4, ZenonT(30) DEF Sending
  <2>4. /\ \A sid \in Registered : sid \in Sids /\ IsSession(sid)
        /\ \A t \in Threads : \A sid \in Taken(t) : sid \in Sids /\ IsSession(sid)
    BY ZenonT(30) DEF Enqueued, IInv, Pipeline
  <2>5. /\ \A sid \in Registered : IsDone(sid)
        /\ \A t \in Threads : \A sid \in Taken(t) : IsDone(sid)
        /\ ~ m_shouldNotifyAfterBulk
    BY <1>1, <1>7, ZenonT(30) DEF IInv, Documents
  <2>6. indexed' = indexed /\ m_shouldNotifyAfterBulk' = m_shouldNotifyAfterBulk /\ acks' = acks
    BY <1>1, ZenonT(30) DEF connectorVars
  <2>7. /\ \A sid \in Registered' : IsDone(sid)'
        /\ \A t \in Threads : \A sid \in Taken(t)' : IsDone(sid)'
        /\ \A sid \in Sids : (\E i \in 1..Len(acks[sid]) : acks[sid][i] = "Ok") => IsDone(sid)'
    BY <1>2, <1>6, <1>7, <2>4, <2>5, <2>6, DoneKept, ZenonT(30) DEF IInv, Documents
  <2>8. \A sid \in Registered' : IsData(sid)' => Handed(sid)'
    BY <2>7, ZenonT(30) DEF IsDone, Handed
  <2> QED
    BY <1>4, <2>2, <2>3, <2>5, <2>6, <2>7, <2>8, ZenonT(30) DEF Documents
<1> QED
  BY <1>3, <1>5, <1>6, <1>7, ZenonT(30) DEF IInv, Documents, Reliable

\* Callbacks that have answered, or not yet, are among those taken.
LEMMA TakenFacts ==
  ASSUME Types, Pipeline
  PROVE  /\ Answered \subseteq Taken("indexer") \cup Taken("bulk")
         /\ \A t \in Threads : Unanswered(t) \subseteq Taken(t)
<1>1. ASSUME NEW t \in Threads, callbacks[t].erase
      PROVE  /\ Head(callbacks[t].list) \in Taken(t)
             /\ Elems(Tail(callbacks[t].list)) \subseteq Taken(t)
  <2>1. callbacks[t].list \in Seq(Sids) /\ callbacks[t].list # <<>>
    BY <1>1, ZenonT(30) DEF Types, Pipeline
  <2> QED
    BY <2>1, ElemsTail, ZenonT(30) DEF Taken
<1> QED
  BY <1>1, ZenonT(30) DEF Answered, Unanswered, Threads

\* A step that answers, removes or registers a session.
LEMMA DocumentsMoved ==
  ASSUME IInv, Reliable, Kept, UNCHANGED <<env, m_bulkData, m_shouldNotifyAfterBulk, indexed>>,
         m_deleteByQuery \subseteq m_deleteByQuery', AllReceived', Sending',
         \A sid \in Registered' : sid \in Registered \/ (IsData(sid)' => Handed(sid)'),
         \A t \in Threads : Taken(t)' \subseteq Taken(t),
         m_shouldNotifyAfterBulk => indexer'.pc = "invoke",
         m_shouldNotifyAfterBulk \/ indexer'.pc \in {"wait", "update"} =>
           Registered' \subseteq Registered /\ (indexer'.pc \in {"wait", "update"} => indexer'.pc = indexer.pc),
         \A sid \in Sids : (\E i \in 1..Len(acks'[sid]) : acks'[sid][i] = "Ok") =>
           (\E i \in 1..Len(acks[sid]) : acks[sid][i] = "Ok") \/ IsDone(sid)'
  PROVE  Documents'
<1>1. /\ \A sid \in Registered : sid \in Sids /\ IsSession(sid)
      /\ \A t \in Threads : \A sid \in Taken(t) : sid \in Sids /\ IsSession(sid)
  BY ZenonT(30) DEF Enqueued, IInv, Pipeline
<1>2. \A sid \in Sids : IsSession(sid) => Work(sid)' = Work(sid) /\ (IsData(sid)' => IsData(sid))
  BY KeptFacts, ZenonT(30) DEF IInv, Types
<1>3. \A sid \in Registered' : IsData(sid)' => Handed(sid)'
  BY <1>1, <1>2, ZenonT(30) DEF IInv, Documents, Handed
<1>4. /\ \A sid \in Sids : IsSession(sid) /\ IsDone(sid) => IsDone(sid)'
      /\ \A sid \in Sids : (\E i \in 1..Len(acks[sid]) : acks[sid][i] = "Ok") => IsDone(sid)'
  BY DoneKept, ZenonT(30) DEF IInv, Documents
<1>5. \A t \in Threads : \A sid \in Taken(t)' : IsDone(sid)'
  BY <1>1, <1>4, ZenonT(30) DEF IInv, Documents
<1>6. m_shouldNotifyAfterBulk' \/ indexer'.pc \in {"wait", "update"} =>
        \A sid \in Registered' : IsDone(sid)'
  BY <1>1, <1>4, ZenonT(30) DEF IInv, Documents
<1>7. \A sid \in Sids : (\E i \in 1..Len(acks'[sid]) : acks'[sid][i] = "Ok") => IsDone(sid)'
  BY <1>4, ZenonT(30)
<1> QED
  BY <1>3, <1>5, <1>6, <1>7, ZenonT(30) DEF Documents

\* lockAgent
LEMMA LockAgentStep ==
  ASSUME IInv, LockAgent, UNCHANGED env
  PROVE  IInv'
<1> DEFINE sid == indexer.sid
<1>1. /\ indexer.pc = "found" /\ Current.mode = "META"
      /\ m_blockedAgents' = m_blockedAgents \cup {Current.agent} /\ Goto("flush")
      /\ UNCHANGED <<starts, m_dataStore, m_dataValueQuotaRemaining, m_indexerQueue, m_mutex,
                     callbacks, acks, connectorVars>>
  BY ZenonT(30) DEF LockAgent, At, IsMeta
<1>2. /\ SessionTypes' /\ Kept /\ KeptMessages /\ Live' = Live
      /\ m_agentSessions'[sid].ownsAgentLock
      /\ \A other \in Sids \ {sid} : m_agentSessions'[other] = m_agentSessions[other]
      /\ sid \in Sids /\ IsSession(sid)
  BY LockAgentSession, ZenonT(30) DEF IInv
<1>3. Reserved' /\ Enqueued \subseteq Enqueued'
  BY <1>1, <1>2, ReservedFrame, KeptFacts, ZenonT(30) DEF IInv, Types
<1>4. indexer' \in IndexerStates /\ indexer'.pc = "flush" /\ indexer'.sid = sid
  BY <1>1, GotoFacts, ZenonT(30) DEF IInv, Pcs
<1>5. UNCHANGED <<m_bulkData, m_deleteByQuery, m_notify, m_shouldNotifyAfterBulk, indexed>>
  BY <1>1, ZenonT(30) DEF connectorVars
<1>6. Types'
  <2>1. Current.agent \in Agents
    BY <1>2, SessionFacts, ZenonT(30) DEF IInv, Types, Current
  <2> QED
    BY <1>1, <1>2, <1>4, <1>5, <2>1, ZenonT(30) DEF IInv, Types
<1>7. /\ Queued' = Queued /\ Working' = Working /\ Registered' = Registered /\ Open' = Open
      /\ Answered' = Answered
      /\ \A t \in Threads : Taken(t)' = Taken(t)
  BY <1>1, <1>4, <1>5, ZenonT(30) DEF Queued, Working, Registered, Open, Taken, Unanswered,
     Answered, Handling
<1>8. Pipeline' /\ Answers'
  BY <1>1, <1>3, <1>5, <1>7, PipelineFrame, AnswersFrame, ZenonT(30) DEF IInv
<1>9. Locks'
  <2> PICK me \in Sids : me = sid
    BY <1>2, ZenonT(30)
  <2>1. \A x \in Sids : (Owns(x) => Owns(x)') /\ (x # sid /\ Owns(x)' => Owns(x))
    BY <1>2, ZenonT(30) DEF Owns, IsSession, Kept
  <2>2. /\ \A x \in Sids : IsSession(x) =>
             /\ m_agentSessions'[x].mode = m_agentSessions[x].mode
             /\ m_agentSessions'[x].agent = m_agentSessions[x].agent
        /\ Owns(me)'
    BY <1>2, ZenonT(30) DEF Kept, Owns, IsSession
  <2>3. /\ Releasing \subseteq Releasing' /\ me \in Releasing'
        /\ \A x \in Releasing : x \in Sids /\ IsSession(x)
    BY <1>1, <1>4, <1>7, ZenonT(30) DEF Releasing, Threads, IInv, Pipeline, Enqueued
  <2>4. ASSUME NEW agent \in m_blockedAgents'
        PROVE  \E x \in Releasing' : Owns(x)' /\ m_agentSessions'[x].agent = agent
    <3>1. CASE agent = Current.agent
      <4>1. m_agentSessions'[me].agent = agent
        BY <1>2, <2>2, <3>1, ZenonT(30) DEF Current
      <4> QED
        BY <2>2, <2>3, <4>1, ZenonT(30)
    <3>2. CASE agent \in m_blockedAgents
      BY <2>1, <2>2, <2>3, <3>2, SMTT(30) DEF IInv, Locks
    <3> QED
      BY <1>1, <2>4, <3>1, <3>2, ZenonT(30)
  <2>5. \A x \in Sids : Owns(x)' => m_agentSessions'[x].mode = "META"
    BY <1>1, <1>2, <2>1, <2>2, SMTT(30) DEF IInv, Locks, Owns, Current
  <2>6. \A x \in Registered' : m_agentSessions'[x].mode # "META"
    <3>1. \A x \in Registered : m_agentSessions[x].mode # "META" /\ x \in Sids /\ IsSession(x)
      BY <1>1, ZenonT(30) DEF IInv, Locks, Pipeline, Enqueued
    <3> QED
      BY <1>7, <2>2, <3>1, ZenonT(30)
  <2>7. \A x \in Answered' : ~ Owns(x)'
    <3>1. sid \in Working /\ sid \notin Answered
      BY <1>1, TakenFacts, ZenonT(30) DEF Working, Handling, IInv, Pipeline, Threads
    <3> QED
      BY <1>7, <2>1, <3>1, ZenonT(30) DEF IInv, Locks, Answered
  <2>8. Current'.mode = "META"
    BY <1>1, <1>2, <1>4, <2>2, ZenonT(30) DEF Current
  <2> QED
    BY <1>4, <2>4, <2>5, <2>6, <2>7, <2>8, ZenonT(30) DEF Locks
<1>10. ASSUME Reliable PROVE Documents'
  <2>1. AllReceived'
    <3>1. \A x \in Sids : IsSession(x) => m_agentSessions'[x].state = m_agentSessions[x].state
      <4>1. m_agentSessions'[sid].state = m_agentSessions[sid].state
        BY <1>2, ZenonT(30) DEF LockAgent, IInv, Types, SessionTypes, IsSession, Session
      <4> QED
        BY <1>2, <4>1, ZenonT(30)
    <3> QED
      BY <1>1, <1>2, <1>7, <1>10, <3>1, ReceivedKept, ZenonT(30) DEF IInv, Documents
  <2>2. Sending'
    BY <1>4, Zenon DEF Sending
  <2>3. ~ m_shouldNotifyAfterBulk
    BY <1>1, <1>10, ZenonT(30) DEF IInv, Documents
  <2> QED
    BY <1>1, <1>2, <1>4, <1>5, <1>7, <1>10, <2>1, <2>2, <2>3, DocumentsMoved, ZenonT(30)
<1> QED
  BY <1>3, <1>6, <1>8, <1>9, <1>10, ZenonT(30) DEF IInv, Documents, Reliable

\* The indexer thread is done with its session, without a callback for it.
LEMMA LeaveFacts ==
  ASSUME Types, Pipeline, indexer.pc \in Handling, indexer'.pc \in {"caught", "invoke"},
         Enqueued \subseteq Enqueued', m_notify' \in {m_notify, <<>>},
         UNCHANGED <<m_indexerQueue, callbacks>>
  PROVE  /\ m_notify' \in Seq(Sids) /\ Pipeline'
         /\ Registered' \subseteq Registered /\ Answered' = Answered
         /\ Queued' = Queued /\ Working = {indexer.sid} /\ Working' = {}
         /\ indexer.sid \in Open /\ indexer.sid \notin Open' /\ Open' \subseteq Open
         /\ \A t \in Threads : Taken(t)' = Taken(t)
<1>1. Working = {indexer.sid} /\ Working' = {}
  BY Zenon DEF Working, Handling
<1>2. m_notify' \in Seq(Sids) /\ Distinct(m_notify') /\ Registered' \subseteq Registered
  <2>1. CASE m_notify' = m_notify
    BY <2>1, ZenonT(30) DEF Types, Pipeline, Registered
  <2>2. CASE m_notify' = <<>>
    <3>1. m_notify' \in Seq(Sids) /\ Distinct(m_notify')
      BY <2>2 DEF Distinct
    <3>2. Registered' = {}
      BY <2>2, ElemsEmpty, Zenon DEF Registered
    <3> QED
      BY <3>1, <3>2, ZenonT(30)
  <2> QED
    BY <2>1, <2>2, ZenonT(30)
<1>3. /\ \A t \in Threads : callbacks'[t] = callbacks[t]
      /\ \A t \in Threads : Taken(t)' = Taken(t) /\ Unanswered(t)' = Unanswered(t)
      /\ Answered' = Answered /\ Queued' = Queued
  BY Zenon DEF Taken, Answered, Queued, Unanswered
<1>4. Pipeline'
  BY <1>1, <1>2, <1>3, SMTT(30) DEF Pipeline, Threads
<1>5. Open = Queued \cup Working \cup Registered \cup Unanswered("indexer") \cup Unanswered("bulk")
  BY Zenon DEF Open
<1>6. Open' = Queued \cup Registered' \cup Unanswered("indexer") \cup Unanswered("bulk")
  BY <1>1, <1>3, Zenon DEF Open, Threads
<1>7. indexer.sid \notin Queued \cup Registered \cup Taken("indexer") \cup Taken("bulk")
  BY <1>1, ZenonT(30) DEF Pipeline, Threads
<1>8. Unanswered("indexer") \subseteq Taken("indexer") /\ Unanswered("bulk") \subseteq Taken("bulk")
  BY TakenFacts, ZenonT(30) DEF Threads
<1>9. indexer.sid \in Open /\ indexer.sid \notin Open' /\ Open' \subseteq Open
  BY <1>1, <1>2, <1>5, <1>6, <1>7, <1>8, ZenonT(30)
<1> QED
  BY <1>1, <1>2, <1>3, <1>4, <1>9, ZenonT(30)

\* The exception handlers of the indexer thread.
LEMMA CatchStep ==
  ASSUME IInv, Catch, indexer.pc \in Handling, ~ Reliable, UNCHANGED env,
         m_notify' \in {m_notify, <<>>}, m_shouldNotifyAfterBulk' \in BOOLEAN
  PROVE  IInv'
<1> DEFINE sid == indexer.sid
<1>1. sid \in Sids /\ IsSession(sid) /\ sid \in Enqueued
  BY Places, ZenonT(30) DEF IInv
<1>2. /\ m_blockedAgents' = m_blockedAgents \ OwnersIn({sid}) /\ DeleteKeys({sid})
      /\ m_agentSessions' = [m_agentSessions EXCEPT ![sid].ownsAgentLock = FALSE]
      /\ acks' = Acked(sid, "Error") /\ m_mutex' = FALSE /\ Goto("caught")
      /\ UNCHANGED <<starts, m_dataValueQuotaRemaining, m_indexerQueue, callbacks>>
  BY ZenonT(30) DEF Catch
<1>3. /\ SessionTypes' /\ Kept /\ Live' = Live
      /\ ~ m_agentSessions'[sid].ownsAgentLock
      /\ \A other \in Sids \ {sid} : m_agentSessions'[other] = m_agentSessions[other]
  BY <1>1, <1>2, LockedSession, ZenonT(30) DEF IInv, Types
<1>4. Reserved' /\ Enqueued \subseteq Enqueued'
  BY <1>2, <1>3, ReservedFrame, KeptFacts, ZenonT(30) DEF IInv, Types
<1>5. indexer' \in IndexerStates /\ indexer'.pc = "caught" /\ indexer'.sid = sid
  BY <1>2, GotoFacts, ZenonT(30) DEF IInv, Pcs
<1>6. /\ m_notify' \in Seq(Sids) /\ Pipeline'
      /\ Registered' \subseteq Registered /\ Answered' = Answered
      /\ sid \in Open /\ sid \notin Open' /\ Open' \subseteq Open
      /\ \A t \in Threads : Taken(t)' = Taken(t)
  BY <1>2, <1>4, <1>5, LeaveFacts, ZenonT(30) DEF IInv
<1>7. Types'
  <2>1. acks' \in [Sids -> Seq(Statuses)]
    BY <1>1, <1>2 DEF IInv, Types, Acked, Statuses
  <2>2. m_dataStore' \subseteq Sids \X Nat /\ m_blockedAgents' \subseteq Agents
    BY <1>2, Zenon DEF DeleteKeys, IInv, Types
  <2> QED
    BY <1>2, <1>3, <1>5, <1>6, <2>1, <2>2, ZenonT(30) DEF IInv, Types
<1>8. Locks'
  <2> PICK me \in Sids : me = sid
    BY <1>1, ZenonT(30)
  <2>1. \A x \in Sids : (Owns(x)' => Owns(x) /\ x # me) /\ (x # me /\ Owns(x) => Owns(x)')
    BY <1>1, <1>3, ZenonT(30) DEF Owns, IsSession
  <2>2. \A x \in Sids : IsSession(x) =>
          /\ m_agentSessions'[x].mode = m_agentSessions[x].mode
          /\ m_agentSessions'[x].agent = m_agentSessions[x].agent
    BY <1>3, ZenonT(30) DEF Kept
  <2>3. \A x \in Registered : m_agentSessions[x].mode # "META" /\ x \in Sids /\ IsSession(x)
    BY ZenonT(30) DEF IInv, Locks, Pipeline, Enqueued, Handling
  <2>4. ASSUME NEW agent \in m_blockedAgents'
        PROVE  \E x \in Releasing' : Owns(x)' /\ m_agentSessions'[x].agent = agent
    <3>1. PICK x \in Releasing : Owns(x) /\ m_agentSessions[x].agent = agent
      BY <1>2, <2>4, ZenonT(30) DEF IInv, Locks
    <3>2. x # me
      BY <1>2, <2>4, <3>1, ZenonT(30) DEF OwnersIn, Owns
    <3>3. x \in Taken("indexer") \cup Taken("bulk")
      BY <2>3, <3>1, <3>2, ZenonT(30) DEF Releasing, IInv, Locks, Owns
    <3>4. x \in Releasing' /\ x \in Sids /\ IsSession(x)
      BY <1>6, <3>3, ZenonT(30) DEF Releasing, Threads, IInv, Pipeline, Enqueued
    <3> QED
      BY <2>1, <2>2, <3>1, <3>2, <3>4, ZenonT(30)
  <2>5. \A x \in Sids : Owns(x)' => m_agentSessions'[x].mode = "META"
    BY <2>1, <2>2, SMTT(30) DEF IInv, Locks, Owns
  <2>6. \A x \in Registered' : m_agentSessions'[x].mode # "META"
    BY <1>6, <2>2, <2>3, Zenon
  <2>7. \A x \in Answered' : ~ Owns(x)'
    BY <1>6, <2>1, ZenonT(30) DEF IInv, Locks, Answered
  <2> QED
    BY <1>5, <2>4, <2>5, <2>6, <2>7, Zenon DEF Locks
<1>9. Answers'
  BY <1>1, <1>2, <1>4, <1>6, AnswersGiven, ZenonT(30) DEF IInv, Statuses
<1>10. Documents'
  BY ZenonT(30) DEF Documents, Reliable
<1> QED
  BY <1>4, <1>6, <1>7, <1>8, <1>9, <1>10, ZenonT(30) DEF IInv

\* A request fails while the indexer thread handles a session.
LEMMA ThrowsStep ==
  ASSUME IInv, FlushThrows \/ UpdateByQueryThrows \/ AppendThrows \/ DocumentThrows, UNCHANGED env
  PROVE  IInv'
<1>1. "indexer" \in env.faults \/ "invalid" \in env.faults => ~ Reliable
  BY ZenonT(30) DEF Reliable
<1>2. CASE FlushThrows
  <2>1. m_shouldNotifyAfterBulk' \in BOOLEAN
    BY <1>2, ZenonT(30) DEF FlushThrows, ProcessBulkThrows
  <2> QED
    BY <1>1, <1>2, <2>1, CatchStep, ZenonT(30) DEF FlushThrows, At, Handling
<1>3. CASE UpdateByQueryThrows
  <2>1. m_shouldNotifyAfterBulk' \in BOOLEAN
    BY <1>3, ZenonT(30) DEF UpdateByQueryThrows, IInv, Types
  <2> QED
    BY <1>1, <1>3, <2>1, CatchStep, ZenonT(30) DEF UpdateByQueryThrows, At, Handling
<1>4. CASE AppendThrows
  <2>1. m_shouldNotifyAfterBulk \in BOOLEAN
    BY ZenonT(30) DEF IInv, Types
  <2>2. m_shouldNotifyAfterBulk' = m_shouldNotifyAfterBulk \/ m_shouldNotifyAfterBulk' = TRUE
    BY <1>4, ZenonT(30) DEF AppendThrows, ProcessBulkThrows
  <2>3. m_shouldNotifyAfterBulk' \in BOOLEAN
    BY <2>1, <2>2, ZenonT(30)
  <2> QED
    BY <1>1, <1>4, <2>3, CatchStep, ZenonT(30) DEF AppendThrows, At, Handling
<1>5. CASE DocumentThrows
  <2>1. m_shouldNotifyAfterBulk' \in BOOLEAN
    BY <1>5, ZenonT(30) DEF DocumentThrows, connectorVars, IInv, Types
  <2> QED
    BY <1>1, <1>5, <2>1, CatchStep, ZenonT(30) DEF DocumentThrows, connectorVars, At, Handling
<1> QED
  BY <1>2, <1>3, <1>4, <1>5, ZenonT(30)

\* The exception handlers erase the session.
LEMMA CatchErasesStep ==
  ASSUME IInv, CatchErases, ~ Reliable, UNCHANGED env
  PROVE  IInv'
<1>1. /\ indexer.pc = "caught" /\ Erase({indexer.sid}, "gone") /\ Goto("invoke")
      /\ UNCHANGED <<starts, m_dataStore, m_blockedAgents, m_indexerQueue, m_mutex, callbacks,
                     acks, m_notify, m_shouldNotifyAfterBulk>>
  BY ZenonT(30) DEF CatchErases, At, connectorVars
<1>2. SessionTypes' /\ Kept /\ KeptOwners /\ Live' = Live \ {indexer.sid} /\ Enqueued \subseteq Enqueued'
  BY <1>1, ErasedSessions, KeptFacts, ZenonT(30) DEF IInv, Types
<1>3. Reserved'
  BY <1>1, <1>2, ReservedRemoved, ZenonT(30) DEF IInv, Types, Erase
<1>4. indexer' \in IndexerStates /\ indexer'.pc = "invoke"
  BY <1>1, GotoFacts, ZenonT(30) DEF IInv, Pcs
<1>5. Types'
  BY <1>1, <1>2, <1>4, ZenonT(30) DEF IInv, Types
<1>6. Working = {} /\ Working' = {}
  BY <1>1, <1>4, Zenon DEF Working, Handling
<1>7. /\ Queued' = Queued /\ Registered' = Registered /\ Open' = Open /\ Answered' = Answered
      /\ \A t \in Threads : Taken(t)' = Taken(t)
  BY <1>1, <1>6, ZenonT(30) DEF Queued, Registered, Open, Taken, Unanswered, Answered
<1>8. Pipeline' /\ Answers'
  BY <1>1, <1>2, <1>6, <1>7, PipelineFrame, AnswersFrame, ZenonT(30) DEF IInv
<1>9. Locks'
  <2>1. Releasing' = Releasing
    BY <1>1, <1>4, <1>7, ZenonT(30) DEF Releasing, Threads
  <2>2. \A x \in Registered' : x \in Enqueued /\ m_agentSessions[x].mode # "META"
    BY <1>1, <1>7, ZenonT(30) DEF IInv, Pipeline, Locks
  <2> QED
    BY <1>1, <1>2, <1>4, <1>7, <2>1, <2>2, LocksKept, ZenonT(30) DEF IInv
<1> QED
  BY <1>3, <1>5, <1>8, <1>9, ZenonT(30) DEF IInv, Documents, Reliable

\* The indexer thread removes its session: the messages of the sessions that
\* are still to be handled stay.
LEMMA RemovedReceived ==
  ASSUME IInv, AllReceived, indexer.pc \in Handling, Erase({indexer.sid}, "gone"),
         DeleteKeys({indexer.sid}) \/ UNCHANGED m_dataStore,
         Queued' = Queued, Working' = {}
  PROVE  AllReceived'
<1>1. Kept /\ KeptMessages
      /\ \A x \in Sids \ {indexer.sid} : m_agentSessions'[x].state = m_agentSessions[x].state
  BY ErasedSessions, ZenonT(30) DEF IInv, Types
<1>2. indexer.sid \in Enqueued /\ indexer.sid \notin Queued
  BY Places, ZenonT(30) DEF IInv, Pipeline, Working
<1>3. \A x \in Sids \ {indexer.sid} : \A q \in Nat :
        <<x, q>> \in m_dataStore => <<x, q>> \in m_dataStore'
  BY ZenonT(30) DEF DeleteKeys, KeysOf
<1> QED
  BY <1>1, <1>2, <1>3, ReceivedKept, ZenonT(30) DEF IInv

\* A checksum session is answered and removed.
LEMMA ModuleCheckStep ==
  ASSUME IInv, ModuleCheck, UNCHANGED env
  PROVE  IInv'
<1> DEFINE sid == indexer.sid
<1>1. /\ indexer.pc = "found" /\ Current.mode = "CHECK"
      /\ Erase({sid}, "gone") /\ Goto("invoke")
      /\ UNCHANGED <<starts, m_dataStore, m_blockedAgents, m_indexerQueue, m_mutex, callbacks,
                     connectorVars>>
  BY ZenonT(30) DEF ModuleCheck, At
<1>2. PICK status \in Statuses : acks' = Acked(sid, status)
  BY ZenonT(30) DEF ModuleCheck, CheckStatuses, Statuses
<1>3. sid \in Sids /\ IsSession(sid) /\ sid \in Enqueued
  BY <1>1, Places, ZenonT(30) DEF IInv, Handling
<1>4. SessionTypes' /\ Kept /\ KeptOwners /\ Live' = Live \ {sid} /\ Enqueued \subseteq Enqueued'
  BY <1>1, ErasedSessions, KeptFacts, ZenonT(30) DEF IInv, Types
<1>5. Reserved'
  BY <1>1, <1>4, ReservedRemoved, ZenonT(30) DEF IInv, Types, Erase
<1>6. indexer' \in IndexerStates /\ indexer'.pc = "invoke" /\ indexer'.sid = sid
  BY <1>1, GotoFacts, ZenonT(30) DEF IInv, Pcs
<1>7. UNCHANGED <<m_bulkData, m_deleteByQuery, m_notify, m_shouldNotifyAfterBulk, indexed>>
  BY <1>1, ZenonT(30) DEF connectorVars
<1>8. /\ Pipeline' /\ Registered' = Registered /\ Answered' = Answered
      /\ Queued' = Queued /\ Working' = {}
      /\ sid \in Open /\ sid \notin Open' /\ Open' \subseteq Open
      /\ \A t \in Threads : Taken(t)' = Taken(t)
  BY <1>1, <1>4, <1>6, <1>7, LeaveFacts, ZenonT(30) DEF IInv, Handling, Registered
<1>9. acks' = [acks EXCEPT ![sid] = Append(@, status)] /\ acks' \in [Sids -> Seq(Statuses)]
  BY <1>2, <1>3, SMTT(30) DEF Acked, IInv, Types
<1>10. Types'
  BY <1>1, <1>4, <1>6, <1>7, <1>9, Zenon DEF IInv, Types
<1>11. Locks'
  <2>1. Releasing' = Releasing
    BY <1>1, <1>6, <1>8, ZenonT(30) DEF Releasing, Threads
  <2>2. \A x \in Registered' : x \in Enqueued /\ m_agentSessions[x].mode # "META"
    BY <1>1, <1>8, ZenonT(30) DEF IInv, Pipeline, Locks
  <2> QED
    BY <1>1, <1>4, <1>6, <1>8, <2>1, <2>2, LocksKept, ZenonT(30) DEF IInv
<1>12. Answers'
  BY <1>2, <1>3, <1>4, <1>8, AnswersGiven, ZenonT(30) DEF IInv
<1>13. ASSUME Reliable PROVE Documents'
  <2>1. AllReceived'
    BY <1>1, <1>8, <1>13, RemovedReceived, ZenonT(30) DEF IInv, Documents, Handling
  <2>2. Sending'
    BY <1>6, ZenonT(30) DEF Sending
  <2>3. ~ m_shouldNotifyAfterBulk
    BY <1>1, <1>13, ZenonT(30) DEF IInv, Documents
  <2>4. m_agentSessions'[sid].mode = "CHECK"
    BY <1>1, <1>3, <1>4, ZenonT(30) DEF Kept, Current
  <2>5. \A x \in Sids : x # sid => acks'[x] = acks[x]
    BY <1>9, ZenonT(30) DEF IInv, Types
  <2>6. \A x \in Sids : x = sid => IsDone(x)'
    BY <2>4, ZenonT(30) DEF IsDone, IsData
  <2> QED
    BY <1>4, <1>6, <1>7, <1>8, <1>13, <2>1, <2>2, <2>3, <2>5, <2>6, DocumentsMoved, ZenonT(30)
<1> QED
  BY <1>5, <1>8, <1>10, <1>11, <1>12, <1>13, ZenonT(30) DEF IInv, Documents, Reliable

\* The end of a data session has nothing left to hand to the connector.
LEMMA FinishedWork ==
  ASSUME IInv, Reliable, Kept, indexer.pc = "bulk", indexer.todo = {},
         m_deleteByQuery' = m_deleteByQuery \cup Sweeps, UNCHANGED <<m_bulkData, indexed>>
  PROVE  \A x \in Sids : x = indexer.sid =>
           /\ IsData(x)' => Handed(x)'
           /\ ~ Registers => IsDone(x)'
<1> SUFFICES ASSUME NEW x \in Sids, x = indexer.sid, IsData(x)'
             PROVE  Handed(x)' /\ (~ Registers => Work(x)' \subseteq indexed')
  BY Zenon DEF IsDone
<1>1. IsSession(x)
  BY Places, ZenonT(30) DEF IInv, Handling
<1>2. IsData(x) /\ Work(x)' = Work(x)
  BY <1>1, KeptFacts, ZenonT(30) DEF IInv, Types
<1>3. /\ Values(x) \subseteq m_bulkData \cup indexed
      /\ HasClean(x) => x \in m_deleteByQuery \cup indexed
      /\ ~ indexer.sends => Values(x) = {} /\ ~ HasClean(x)
  BY <1>2, ZenonT(30) DEF IInv, Documents, Sending
<1>4. Work(x) = Values(x) \cup (IF m_agentSessions[x].mode = "FULL" \/ HasClean(x) THEN {x} ELSE {})
  BY Zenon DEF Work, Values, HasClean
<1>5. m_agentSessions[x].mode = "FULL" => x \in m_deleteByQuery' /\ Registers
  BY Zenon DEF Sweeps, Registers, Current
<1>6. Work(x) \subseteq indexed' \cup m_bulkData' \cup m_deleteByQuery'
  BY <1>3, <1>4, <1>5, ZenonT(30)
<1>7. ~ Registers => Work(x) = {}
  BY <1>3, <1>4, <1>5, ZenonT(30) DEF Registers
<1> QED
  BY <1>2, <1>6, <1>7, ZenonT(30) DEF Handed

\* What the end of a data session does to the session and to its answers.
LEMMA FinishFacts ==
  ASSUME IInv, NEW throws \in BOOLEAN, FinishData(throws), UNCHANGED env
  PROVE  LET sid == indexer.sid
         IN  /\ sid \in Sids /\ IsSession(sid) /\ sid \in Enqueued
             /\ SessionTypes' /\ Kept /\ KeptOwners /\ Reserved'
             /\ m_dataStore' \subseteq m_dataStore
             /\ AllReceived /\ Queued' = Queued /\ Working' = {} => AllReceived'
             /\ acks' \in [Sids -> Seq(Statuses)]
             /\ \A x \in Sids : x # sid => acks'[x] = acks[x]
             /\ Registers /\ ~ throws => acks' = acks
             /\ ~ Registers /\ ~ throws => acks'[sid] = acks[sid] \o <<"Ok">>
             /\ Registers => \A i \in 1..Len(acks'[sid]) : acks'[sid][i] = "Ok" =>
                                \E j \in 1..Len(acks[sid]) : acks[sid][j] = "Ok"
<1> DEFINE sid == indexer.sid
           answers == (IF throws THEN <<"Error">> ELSE <<>>)
                        \o (IF Registers THEN <<>> ELSE <<"Ok">>)
<1>1. indexer.pc \in Handling /\ sid \in Sids /\ IsSession(sid) /\ sid \in Enqueued
  BY Places, ZenonT(30) DEF IInv, Handling, FinishData, At
<1>2. /\ acks' = [acks EXCEPT ![sid] = @ \o answers]
      /\ IF answers = <<>>
         THEN UNCHANGED <<m_dataStore, m_agentSessions, m_dataValueQuotaRemaining>>
         ELSE DeleteKeys({sid}) /\ Erase({sid}, "gone")
  BY Zenon DEF FinishData
<1>3. /\ throws /\ Registers => answers = <<"Error">>
      /\ ~ throws /\ Registers => answers = <<>>
      /\ ~ throws /\ ~ Registers => answers = <<"Ok">>
      /\ throws /\ ~ Registers => answers = <<"Error">> \o <<"Ok">>
  <2>1. \A a \in Statuses : <<a>> \o <<>> = <<a>> /\ <<>> \o <<a>> = <<a>>
    OBVIOUS
  <2>2. <<>> \o <<>> = <<>>
    OBVIOUS
  <2> QED
    BY <2>1, <2>2, Zenon DEF Statuses
<1> HIDE DEF answers
<1>4. answers \in Seq(Statuses)
  <2>1. \A a, b \in Statuses : <<a>> \in Seq(Statuses) /\ <<a>> \o <<b>> \in Seq(Statuses)
    OBVIOUS
  <2>2. <<>> \in Seq(Statuses) /\ {"Ok", "Error"} \subseteq Statuses
    BY DEF Statuses
  <2> QED
    BY <1>3, <2>1, <2>2, ZenonT(30)
<1>5. /\ acks' \in [Sids -> Seq(Statuses)] /\ acks'[sid] = acks[sid] \o answers
      /\ \A x \in Sids : x # sid => acks'[x] = acks[x]
  BY <1>1, <1>2, <1>4, SMTT(30) DEF IInv, Types
<1>6. acks \in [Sids -> Seq(Statuses)] /\ acks[sid] \in Seq(Statuses)
  BY <1>1, Zenon DEF IInv, Types
<1>7. Registers /\ ~ throws => acks' = acks
  <2>1. answers = <<>> => acks'[sid] = acks[sid]
    BY <1>5, <1>6, SMTT(30)
  <2>2. Registers /\ ~ throws => \A x \in Sids : acks'[x] = acks[x]
    BY <1>3, <1>5, <2>1, Zenon
  <2>3. (\A x \in Sids : acks'[x] = acks[x]) => acks' = acks
    BY <1>5, <1>6, SMTT(30)
  <2> QED
    BY <2>2, <2>3, Zenon
<1>8. Registers => \A i \in 1..Len(acks'[sid]) : acks'[sid][i] = "Ok" =>
                     \E j \in 1..Len(acks[sid]) : acks[sid][j] = "Ok"
  <2>1. CASE answers = <<"Error">>
    BY <1>5, <1>6, <2>1, SMTT(30)
  <2>2. CASE answers = <<>>
    BY <1>5, <1>6, <2>2, SMTT(30)
  <2> QED
    BY <1>3, <2>1, <2>2, ZenonT(30)
<1>9. /\ SessionTypes' /\ Kept /\ KeptOwners /\ Reserved'
      /\ m_dataStore' \subseteq m_dataStore
      /\ AllReceived /\ Queued' = Queued /\ Working' = {} => AllReceived'
  <2>1. CASE answers = <<>>
    BY <1>2, <2>1, SameFacts, SameReceived, ZenonT(30)
  <2>2. CASE answers # <<>>
    <3>1. SessionTypes' /\ Kept /\ KeptOwners /\ Live' = Live \ {sid} /\ Erase({sid}, "gone")
      BY <1>2, <2>2, ErasedSessions, ZenonT(30) DEF IInv, Types
    <3>2. Reserved'
      BY <3>1, ReservedRemoved, ZenonT(30) DEF IInv, Types, Erase
    <3>3. AllReceived /\ Queued' = Queued /\ Working' = {} => AllReceived'
      BY <1>1, <1>2, <2>2, RemovedReceived, ZenonT(30)
    <3> QED
      BY <1>2, <2>2, <3>1, <3>2, <3>3, ZenonT(30) DEF DeleteKeys
  <2> QED
    BY <2>1, <2>2, ZenonT(30)
<1> QED
  BY <1>1, <1>3, <1>5, <1>7, <1>8, <1>9, ZenonT(30)

\* The end of a data session
LEMMA FinishDataStep ==
  ASSUME IInv, NEW throws \in BOOLEAN, FinishData(throws), UNCHANGED env
  PROVE  IInv'
<1> DEFINE sid == indexer.sid
<1>1. /\ indexer.pc = "bulk" /\ indexer.todo = {} /\ m_mutex' = FALSE /\ Goto("invoke")
      /\ m_deleteByQuery' = m_deleteByQuery \cup Sweeps
      /\ m_notify' = IF Registers THEN Append(m_notify, sid) ELSE m_notify
      /\ throws => "scanner" \in env.faults
      /\ UNCHANGED <<starts, m_blockedAgents, m_indexerQueue, callbacks, m_bulkData,
                     m_shouldNotifyAfterBulk, indexed>>
  BY ZenonT(30) DEF FinishData, At
<1>2. /\ sid \in Sids /\ IsSession(sid) /\ sid \in Enqueued
      /\ SessionTypes' /\ Kept /\ KeptOwners /\ Reserved'
      /\ m_dataStore' \subseteq m_dataStore
      /\ AllReceived /\ Queued' = Queued /\ Working' = {} => AllReceived'
      /\ acks' \in [Sids -> Seq(Statuses)]
      /\ \A x \in Sids : x # sid => acks'[x] = acks[x]
      /\ Registers /\ ~ throws => acks' = acks
      /\ ~ Registers /\ ~ throws => acks'[sid] = acks[sid] \o <<"Ok">>
      /\ Registers => \A i \in 1..Len(acks'[sid]) : acks'[sid][i] = "Ok" =>
                         \E j \in 1..Len(acks[sid]) : acks[sid][j] = "Ok"
  BY FinishFacts, ZenonT(30)
<1>3. Enqueued \subseteq Enqueued'
  BY <1>2, KeptFacts, ZenonT(30) DEF IInv, Types
<1>4. indexer' \in IndexerStates /\ indexer'.pc = "invoke" /\ indexer'.sid = sid
  BY <1>1, GotoFacts, ZenonT(30) DEF IInv, Pcs
<1>5. /\ m_notify' \in Seq(Sids) /\ Pipeline' /\ Answered' = Answered
      /\ Queued' = Queued /\ Working' = {}
      /\ Registered \subseteq Registered' /\ Registered' \subseteq Registered \cup {sid}
      /\ sid \in Open /\ Open' \subseteq Open
      /\ ~ Registers => sid \notin Open' /\ Registered' = Registered
      /\ \A t \in Threads : Taken(t)' = Taken(t)
  <2>1. CASE Registers
    <3>1. sid \in Open
      BY <1>1, ZenonT(30) DEF Open, Working, Handling
    <3> QED
      BY <1>1, <1>3, <1>4, <2>1, <3>1, RegisterFacts, ZenonT(30) DEF IInv, Handling
  <2>2. CASE ~ Registers
    BY <1>1, <1>3, <1>4, <2>2, LeaveFacts, ZenonT(30) DEF IInv, Handling, Registered
  <2> QED
    BY <2>1, <2>2, ZenonT(30)
<1>6. Types'
  BY <1>1, <1>2, <1>4, <1>5, ZenonT(30) DEF IInv, Types
<1>7. Locks'
  <2>1. Releasing \subseteq Releasing'
    BY <1>1, <1>4, <1>5, ZenonT(30) DEF Releasing, Threads
  <2>2. \A x \in Registered' : x \in Enqueued /\ m_agentSessions[x].mode # "META"
    BY <1>1, <1>2, <1>5, ZenonT(30) DEF IInv, Pipeline, Locks, Current
  <2> QED
    BY <1>1, <1>2, <1>4, <1>5, <2>1, <2>2, LocksKept, ZenonT(30) DEF IInv
<1>8. Answers'
  <2>1. \A x \in Sids : x \notin Enqueued' => acks'[x] = <<>>
    BY <1>2, <1>3, ZenonT(30) DEF IInv, Answers
  <2>2. ASSUME "scanner" \notin env.faults, NEW x \in Sids
        PROVE  Len(acks'[x]) <= 1 /\ (x \in Open' => acks'[x] = <<>>)
    <3>1. Len(acks[x]) <= 1 /\ (x \in Open => acks[x] = <<>>) /\ ~ throws
      BY <1>1, <2>2, Zenon DEF IInv, Answers
    <3>2. CASE Registers \/ x # sid
      BY <1>2, <1>5, <3>1, <3>2, ZenonT(30)
    <3>3. CASE ~ Registers /\ x = sid
      <4>1. acks'[x] = <<>> \o <<"Ok">> /\ x \notin Open'
        BY <1>2, <1>5, <3>1, <3>3, ZenonT(30)
      <4> QED
        BY <4>1, SMTT(30)
    <3> QED
      BY <3>2, <3>3, ZenonT(30)
  <2> QED
    BY <2>1, <2>2, ZenonT(30) DEF Answers
<1>9. ASSUME Reliable PROVE Documents'
  <2>1. AllReceived' /\ ~ m_shouldNotifyAfterBulk
    BY <1>1, <1>2, <1>5, <1>9, ZenonT(30) DEF IInv, Documents
  <2>2. Sending'
    BY <1>4, Zenon DEF Sending
  <2>3. \A x \in Sids : x = sid => (IsData(x)' => Handed(x)') /\ (~ Registers => IsDone(x)')
    BY <1>1, <1>2, <1>9, FinishedWork, ZenonT(30)
  <2>4. \A x \in Registered' : x \in Registered \/ (IsData(x)' => Handed(x)')
    BY <1>2, <1>5, <2>3, ZenonT(30)
  <2>5. \A x \in Sids : (\E i \in 1..Len(acks'[x]) : acks'[x][i] = "Ok") =>
          (\E i \in 1..Len(acks[x]) : acks[x][i] = "Ok") \/ IsDone(x)'
    BY <1>2, <2>3, ZenonT(30)
  <2>6. m_deleteByQuery \subseteq m_deleteByQuery'
    BY <1>1, Zenon
  <2> QED
    BY <1>1, <1>2, <1>4, <1>5, <1>9, <2>1, <2>2, <2>4, <2>5, <2>6, DocumentsMoved, ZenonT(30)
<1> QED
  BY <1>2, <1>5, <1>6, <1>7, <1>8, <1>9, ZenonT(30) DEF IInv, Documents, Reliable

\* What a step of a callback does to the lists of callbacks.
LEMMA CallbackFacts ==
  ASSUME Types, Pipeline, NEW t \in Threads, callbacks[t].list # <<>>
  PROVE  LET sid == Head(callbacks[t].list)
         IN  /\ sid \in Enqueued /\ sid \in Sids /\ IsSession(sid) /\ sid \in Taken(t)
             /\ Taken(t) = {sid} \cup Elems(Tail(callbacks[t].list))
             /\ sid \notin Elems(Tail(callbacks[t].list))
             /\ Distinct(Tail(callbacks[t].list)) /\ Tail(callbacks[t].list) \in Seq(Sids)
             /\ sid \notin Queued \cup Working \cup Registered
             /\ \A u \in Threads : u # t => sid \notin Taken(u)
<1> DEFINE list == callbacks[t].list
           sid == Head(list)
<1>1. list \in Seq(Sids) /\ list # <<>> /\ Distinct(list)
  BY Zenon DEF Types, Pipeline
<1>2. /\ Taken(t) = {sid} \cup Elems(Tail(list)) /\ sid \notin Elems(Tail(list))
      /\ Distinct(Tail(list)) /\ Tail(list) \in Seq(Sids)
  BY <1>1, ElemsTail, Zenon DEF Taken
<1>3. sid \in Enqueued /\ sid \in Sids /\ IsSession(sid) /\ sid \in Taken(t)
  BY Places, Zenon
<1>4. /\ sid \notin Queued \cup Working \cup Registered
      /\ \A u \in Threads : u # t => sid \notin Taken(u)
  BY <1>3, Zenon DEF Pipeline, Threads
<1> QED
  BY <1>2, <1>3, <1>4, ZenonT(30)

\* A callback answers Ok and releases the lock.
LEMMA CallbackAnswersStep ==
  ASSUME IInv, NEW t \in Threads, CallbackAnswers(t), UNCHANGED env
  PROVE  IInv'
<1>1. PICK sid \in Sids : sid = Head(callbacks[t].list)
  BY CallbackSession, Zenon DEF IInv
<1>2. /\ callbacks[t].list # <<>> /\ ~ callbacks[t].erase
      /\ m_blockedAgents' = IF m_agentSessions[sid].mode = "META"
                            THEN m_blockedAgents \ {m_agentSessions[sid].agent} ELSE m_blockedAgents
      /\ UNCHANGED m_dataStore \/ DeleteKeys({sid})
      /\ acks' = Acked(sid, "Ok")
      /\ callbacks' = [callbacks EXCEPT ![t].erase = TRUE]
      /\ UNCHANGED <<starts, m_dataValueQuotaRemaining, m_indexerQueue, m_mutex, indexer,
                     connectorVars>>
  BY <1>1, Zenon DEF CallbackAnswers
<1>3. /\ SessionTypes' /\ Kept /\ KeptMessages /\ Live' = Live
      /\ m_agentSessions'[sid].ownsAgentLock <=>
           m_agentSessions[sid].ownsAgentLock /\ m_agentSessions[sid].mode # "META"
      /\ \A other \in Sids \ {sid} : m_agentSessions'[other] = m_agentSessions[other]
  BY <1>1, CallbackSession, Zenon DEF IInv
<1>4. /\ sid \in Enqueued /\ IsSession(sid) /\ sid \in Taken(t)
      /\ Taken(t) = {sid} \cup Elems(Tail(callbacks[t].list))
      /\ sid \notin Elems(Tail(callbacks[t].list))
      /\ sid \notin Queued \cup Working \cup Registered
      /\ \A u \in Threads : u # t => sid \notin Taken(u)
  BY <1>1, <1>2, CallbackFacts, ZenonT(30) DEF IInv
<1>5. Reserved' /\ Enqueued \subseteq Enqueued'
  BY <1>2, <1>3, ReservedFrame, KeptFacts, ZenonT(30) DEF IInv, Types
<1>6. UNCHANGED <<m_bulkData, m_deleteByQuery, m_notify, m_shouldNotifyAfterBulk, indexed>>
  BY <1>2, Zenon DEF connectorVars
<1>7. /\ callbacks' \in [Threads -> [list : Seq(Sids), erase : BOOLEAN]]
      /\ \A u \in Threads : callbacks'[u].list = callbacks[u].list
      /\ callbacks'[t].erase = TRUE
      /\ \A u \in Threads : u # t => callbacks'[u] = callbacks[u]
  BY <1>2, ZenonT(30) DEF IInv, Types
<1>8. Types'
  <2>1. acks' \in [Sids -> Seq(Statuses)]
    BY <1>2, SMTT(30) DEF IInv, Types, Acked, Statuses
  <2>2. m_dataStore' \subseteq Sids \X Nat /\ m_blockedAgents' \subseteq Agents
    BY <1>2, Zenon DEF DeleteKeys, IInv, Types
  <2> QED
    BY <1>2, <1>3, <1>6, <1>7, <2>1, <2>2, ZenonT(30) DEF IInv, Types
<1>9. /\ Queued' = Queued /\ Working' = Working /\ Registered' = Registered
      /\ \A u \in Threads : Taken(u)' = Taken(u)
      /\ Releasing' = Releasing /\ Answered' \subseteq Answered \cup {sid}
  <2>1. \A u \in Threads : Taken(u)' = Taken(u)
    BY <1>7, Zenon DEF Taken
  <2>2. Queued' = Queued /\ Working' = Working /\ Registered' = Registered
    BY <1>2, <1>6, Zenon DEF Queued, Working, Registered
  <2>3. Releasing' = Releasing
    BY <1>2, <2>1, <2>2, ZenonT(30) DEF Releasing, Threads
  <2>4. Answered' \subseteq Answered \cup {sid}
    BY <1>1, <1>7, ZenonT(30) DEF Answered
  <2> QED
    BY <2>1, <2>2, <2>3, <2>4, Zenon
<1>10. Pipeline'
  <2>1. \A u \in Threads : callbacks'[u].erase => callbacks'[u].list # <<>>
    BY <1>2, <1>7, Zenon DEF IInv, Pipeline
  <2> QED
    BY <1>2, <1>5, <1>6, <1>7, <1>9, <2>1, ZenonT(30) DEF IInv, Pipeline, Threads
<1>11. sid \in Open /\ sid \notin Open' /\ Open' \subseteq Open
  <2>1. /\ Unanswered(t) = Taken(t) /\ Unanswered(t)' = Elems(Tail(callbacks[t].list))
        /\ \A u \in Threads : u # t => Unanswered(u)' = Unanswered(u)
    BY <1>2, <1>7, Zenon DEF Unanswered, Taken
  <2>2. \A u \in Threads : u # t => sid \notin Unanswered(u)
    BY <1>4, TakenFacts, Zenon DEF IInv
  <2> QED
    BY <1>4, <1>9, <2>1, <2>2, SMTT(30) DEF Open, Threads
<1>12. Answers'
  BY <1>2, <1>4, <1>5, <1>11, AnswersGiven, Zenon DEF IInv, Statuses
<1>13. Locks'
  <2>1. \A x \in Sids : (Owns(x)' => Owns(x) /\ x # sid) /\ (x # sid /\ Owns(x) => Owns(x)')
    BY <1>3, <1>4, ZenonT(30) DEF Owns, IsSession, IInv, Locks
  <2>2. \A x \in Sids : IsSession(x) =>
          /\ m_agentSessions'[x].mode = m_agentSessions[x].mode
          /\ m_agentSessions'[x].agent = m_agentSessions[x].agent
    BY <1>3, Zenon DEF Kept
  <2>3. ASSUME NEW agent \in m_blockedAgents'
        PROVE  \E x \in Releasing' : Owns(x)' /\ m_agentSessions'[x].agent = agent
    <3>1. PICK x \in Releasing : Owns(x) /\ m_agentSessions[x].agent = agent
      BY <1>2, <2>3, ZenonT(30) DEF IInv, Locks
    <3>2. x \in Sids /\ IsSession(x)
      BY <3>1, Places, ZenonT(30) DEF Releasing, Threads, IInv, Pipeline, Enqueued, Handling
    <3>3. x # sid
      BY <1>2, <2>3, <3>1, <3>2, ZenonT(30) DEF IInv, Locks
    <3> QED
      BY <1>9, <2>1, <2>2, <3>1, <3>2, <3>3, ZenonT(30)
  <2>4. \A x \in Sids : Owns(x)' => m_agentSessions'[x].mode = "META"
    BY <2>1, <2>2, SMTT(30) DEF IInv, Locks, Owns
  <2>5. \A x \in Registered' : m_agentSessions'[x].mode = "META" =>
          indexer'.pc = "invoke" /\ m_shouldNotifyAfterBulk'
    BY <1>2, <1>6, <1>9, <2>2, Zenon DEF IInv, Locks, Pipeline, Enqueued
  <2>6. \A x \in Answered' : ~ Owns(x)'
    BY <1>9, <2>1, ZenonT(30) DEF IInv, Locks, Answered
  <2>7. indexer.pc \in Handling => Current'.mode = Current.mode
    BY <1>2, <2>2, Places, ZenonT(30) DEF IInv, Current
  <2> QED
    BY <1>2, <2>3, <2>4, <2>5, <2>6, <2>7, ZenonT(30) DEF IInv, Locks, Handling
<1>14. ASSUME Reliable PROVE Documents'
  <2>1. AllReceived'
    <3>1. \A x \in Sids \ {sid} : \A q \in Nat : <<x, q>> \in m_dataStore => <<x, q>> \in m_dataStore'
      BY <1>2, ZenonT(30) DEF DeleteKeys, KeysOf
    <3> QED
      BY <1>3, <1>4, <1>9, <1>14, <3>1, ReceivedKept, ZenonT(30) DEF IInv, Documents
  <2>2. Sending'
    <3>1. \A x \in Sids : IsSession(x) =>
            /\ Values(x)' = Values(x) /\ (HasClean(x)' <=> HasClean(x))
            /\ IsData(x)' => IsData(x)
      BY <1>3, KeptFacts, ZenonT(30) DEF IInv, Types
    <3>2. indexer.pc = "bulk" => indexer.sid \in Sids /\ IsSession(indexer.sid)
      BY Places, ZenonT(30) DEF Handling, IInv
    <3> QED
      BY <1>2, <1>6, <1>14, <3>1, <3>2, ZenonT(30) DEF IInv, Documents, Sending
  <2>3. IsDone(sid)'
    BY <1>3, <1>4, <1>6, <1>14, DoneKept, ZenonT(30) DEF IInv, Documents
  <2>4. \A x \in Sids : x # sid => acks'[x] = acks[x]
    BY <1>2, ZenonT(30) DEF Acked, IInv, Types
  <2>5. m_shouldNotifyAfterBulk => indexer'.pc = "invoke"
    BY <1>2, <1>14, ZenonT(30) DEF IInv, Documents
  <2> QED
    BY <1>2, <1>3, <1>6, <1>9, <1>14, <2>1, <2>2, <2>3, <2>4, <2>5, DocumentsMoved, ZenonT(30)
<1> QED
  BY <1>5, <1>8, <1>10, <1>12, <1>13, <1>14, ZenonT(30) DEF IInv, Documents, Reliable

\* A callback erases its session.
LEMMA CallbackErasesStep ==
  ASSUME IInv, NEW t \in Threads, CallbackErases(t), UNCHANGED env
  PROVE  IInv'
<1> DEFINE rest == Tail(callbacks[t].list)
<1>1. callbacks[t].erase /\ callbacks[t].list # <<>>
  BY Zenon DEF CallbackErases, IInv, Pipeline
<1>2. PICK sid \in Sids : sid = Head(callbacks[t].list)
  BY <1>1, CallbackFacts, ZenonT(30) DEF IInv
<1>3. /\ Erase({sid}, "gone")
      /\ callbacks' = [callbacks EXCEPT ![t] = [list |-> rest, erase |-> FALSE]]
      /\ UNCHANGED <<starts, m_dataStore, m_blockedAgents, m_indexerQueue, m_mutex, indexer, acks,
                     connectorVars>>
  BY <1>2, ZenonT(30) DEF CallbackErases
<1>4. /\ sid \in Enqueued /\ IsSession(sid) /\ Taken(t) = {sid} \cup Elems(rest)
      /\ Distinct(rest) /\ rest \in Seq(Sids)
      /\ sid \notin Queued \cup Working \cup Registered
      /\ \A u \in Threads : u # t => sid \notin Taken(u)
  BY <1>1, <1>2, CallbackFacts, ZenonT(30) DEF IInv
<1>5. /\ SessionTypes' /\ Kept /\ KeptOwners /\ KeptMessages /\ Live' = Live \ {sid}
      /\ Enqueued \subseteq Enqueued'
      /\ \A x \in Sids \ {sid} : m_agentSessions'[x].state = m_agentSessions[x].state
  BY <1>3, ErasedSessions, KeptFacts, ZenonT(30) DEF IInv, Types
<1>6. Reserved'
  BY <1>3, <1>5, ReservedRemoved, ZenonT(30) DEF IInv, Types, Erase
<1>7. UNCHANGED <<m_bulkData, m_deleteByQuery, m_notify, m_shouldNotifyAfterBulk, indexed>>
  BY <1>3, ZenonT(30) DEF connectorVars
<1>8. /\ callbacks' \in [Threads -> [list : Seq(Sids), erase : BOOLEAN]]
      /\ callbacks'[t].list = rest /\ ~ callbacks'[t].erase
      /\ \A u \in Threads : u # t => callbacks'[u] = callbacks[u]
  BY <1>3, <1>4, ZenonT(30) DEF IInv, Types
<1> HIDE DEF rest
<1>9. Types'
  BY <1>3, <1>5, <1>7, <1>8, ZenonT(30) DEF IInv, Types
<1>10. /\ Queued' = Queued /\ Working' = Working /\ Registered' = Registered
       /\ Taken(t)' = Elems(rest) /\ \A u \in Threads : u # t => Taken(u)' = Taken(u)
       /\ Answered' \subseteq Answered
  BY <1>3, <1>7, <1>8, ZenonT(30) DEF Queued, Working, Registered, Taken, Answered
<1>11. Pipeline'
  <2>1. \A u \in Threads : Distinct(callbacks'[u].list) /\ (callbacks'[u].erase => callbacks'[u].list # <<>>)
    BY <1>4, <1>8, ZenonT(30) DEF IInv, Pipeline
  <2>2. \A u \in Threads : Taken(u)' \subseteq Taken(u)
    BY <1>4, <1>10, ZenonT(30)
  <2> QED
    BY <1>3, <1>5, <1>7, <1>10, <2>1, <2>2, ZenonT(30) DEF IInv, Pipeline, Threads
<1>12. Locks'
  <2>1. ~ Owns(sid)
    BY <1>1, <1>2, ZenonT(30) DEF IInv, Locks, Answered
  <2>2. \A x \in Releasing : Owns(x) => x \in Releasing'
    <3>1. \A x \in Releasing : x # sid => x \in Releasing'
      BY <1>3, <1>4, <1>10, SMTT(30) DEF Releasing, Threads
    <3> QED
      BY <2>1, <3>1, ZenonT(30)
  <2>3. \A x \in Registered' : x \in Enqueued /\
          (m_agentSessions[x].mode = "META" => indexer'.pc = "invoke" /\ m_shouldNotifyAfterBulk')
    BY <1>3, <1>7, <1>10, Zenon DEF IInv, Locks, Pipeline
  <2> QED
    BY <1>3, <1>5, <1>10, <2>2, <2>3, LocksKept, ZenonT(30) DEF IInv, Locks, Handling
<1>13. Answers'
  <2>1. \A u \in Threads : Unanswered(u)' = Unanswered(u)
    BY <1>1, <1>8, <1>10, ZenonT(30) DEF Unanswered, Taken, rest
  <2>2. Open' = Open
    BY <1>10, <2>1, ZenonT(30) DEF Open, Threads
  <2> QED
    BY <1>3, <1>5, <2>2, AnswersFrame, Zenon DEF IInv
<1>14. ASSUME Reliable PROVE Documents'
  <2>1. AllReceived'
    BY <1>3, <1>4, <1>5, <1>10, <1>14, ReceivedKept, ZenonT(30) DEF IInv, Documents
  <2>2. Sending'
    <3>1. \A x \in Sids : IsSession(x) =>
            /\ Values(x)' = Values(x) /\ (HasClean(x)' <=> HasClean(x))
            /\ IsData(x)' => IsData(x)
      BY <1>5, KeptFacts, ZenonT(30) DEF IInv, Types
    <3>2. indexer.pc = "bulk" => indexer.sid \in Sids /\ IsSession(indexer.sid)
      BY Places, Zenon DEF Handling, IInv
    <3> QED
      BY <1>3, <1>7, <1>14, <3>1, <3>2, ZenonT(30) DEF IInv, Documents, Sending
  <2>3. m_shouldNotifyAfterBulk => indexer'.pc = "invoke"
    BY <1>3, <1>14, ZenonT(30) DEF IInv, Documents
  <2>4. \A u \in Threads : Taken(u)' \subseteq Taken(u)
    BY <1>4, <1>10, Zenon
  <2> QED
    BY <1>3, <1>5, <1>7, <1>10, <1>14, <2>1, <2>2, <2>3, <2>4, DocumentsMoved, ZenonT(30)
<1> QED
  BY <1>6, <1>9, <1>11, <1>12, <1>13, <1>14, ZenonT(30) DEF IInv, Documents, Reliable

-----------------------------------------------------------------------------
(* The invariant *)

\* The service starts with no session, nothing queued and all of the quota.
LEMMA InitInvariant == Init => IInv
<1> SUFFICES ASSUME Init PROVE IInv
  BY Zenon
<1>1. \A sid \in Sids : m_agentSessions[sid] = Free /\ ~ IsSession(sid)
  BY Zenon DEF Init, Free, IsSession, Session
<1>2. Types
  <2>1. SessionTypes
    BY <1>1, Zenon DEF Init, SessionTypes
  <2>2. indexer \in IndexerStates
    BY Zenon DEF Init, IndexerStates, Pcs
  <2>3. callbacks \in [Threads -> [list : Seq(Sids), erase : BOOLEAN]]
    BY SMTT(30) DEF Init
  <2>4. acks \in [Sids -> Seq(Statuses)]
    BY SMTT(30) DEF Init
  <2>5. m_indexerQueue \in Seq(Sids) /\ m_notify \in Seq(Sids)
    BY DEF Init, ConnectorInit
  <2>6. m_mutex \in BOOLEAN /\ m_shouldNotifyAfterBulk \in BOOLEAN
    BY Zenon DEF Init, ConnectorInit
  <2> QED
    BY <2>1, <2>2, <2>3, <2>4, <2>5, <2>6, ZenonT(30) DEF Init, Types
<1>3. Reserved
  <2>1. Live = {}
    BY <1>1 DEF Live, Free
  <2>2. Numbers({}) = {}
    BY Zenon DEF Numbers
  <2>3. Declared(Live) = 0 /\ Cardinality(Live) = 0 /\ IsFiniteSet(Live)
    BY <2>1, <2>2, FS_EmptySet, ZenonT(30) DEF Declared
  <2> QED
    BY <2>3, InventorySyncAssumption DEF Reserved, Init
<1>4. /\ Queued = {} /\ Working = {} /\ Registered = {}
      /\ \A t \in Threads : Taken(t) = {} /\ callbacks[t].list = <<>> /\ ~ callbacks[t].erase
  BY ElemsEmpty, ZenonT(30) DEF Init, ConnectorInit, Queued, Working, Registered, Taken, Handling
<1>5. Pipeline
  BY <1>4, ElemsEmpty, ZenonT(30) DEF Pipeline, Init, ConnectorInit, Threads
<1>6. Locks
  BY <1>1, <1>4, ZenonT(30) DEF Locks, Init, Owns, Answered
<1>7. Answers
  <2>1. \A sid \in Sids : acks[sid] = <<>> /\ Len(acks[sid]) <= 1
    BY SMTT(30) DEF Init
  <2> QED
    BY <2>1, ZenonT(30) DEF Answers
<1>8. Documents
  <2>1. AllReceived
    BY <1>1, ZenonT(30) DEF AllReceived
  <2>2. Sending
    BY Zenon DEF Init, Sending
  <2>3. \A sid \in Sids : acks[sid] = <<>>
    BY Zenon DEF Init
  <2> QED
    BY <1>4, <2>1, <2>2, <2>3, SMTT(30) DEF Documents, Init, ConnectorInit
<1> QED
  BY <1>2, <1>3, <1>5, <1>6, <1>7, <1>8, ZenonT(30) DEF IInv

\* Only what "indexer" and "invalid" allow is thrown.
LEMMA NoneCaughtStep ==
  ASSUME Types, NoneCaught, Next
  PROVE  NoneCaught'
<1>. SUFFICES ASSUME Reliable, indexer'.pc = "caught" PROVE FALSE
  BY Zenon DEF NoneCaught, Reliable, Next
<1>1. indexer.pc # "caught" /\ "indexer" \notin env.faults /\ "invalid" \notin env.faults
  BY Zenon DEF NoneCaught, Reliable
<1>2. \A pc \in Pcs : Goto(pc) => indexer'.pc = pc
  BY GotoFacts, ZenonT(30)
<1>3. indexer' # indexer
  BY <1>1, Zenon
<1>4. \A pc \in Pcs : pc # "caught" => ~ Goto(pc)
  BY <1>2, Zenon
<1>5. IndexerStep \/ IndexerFails
  BY <1>3, ZenonT(30)
     DEF Next, Worker, StartCheck, StartAdmit, HandleData, HandleChecksumModule, HandleEnd,
         DeleteAgent, BulkThread, BulkThreadFails, CallbackAnswers, CallbackErases, Timeout
<1>6. CASE TakeResponse \/ BeginData \/ AppendDocument \/ SkipDocument
  <2>0. PICK found : found = [pc |-> "found", sid |-> Head(m_indexerQueue), todo |-> {}, sends |-> FALSE]
    BY Zenon
  <2>1. \/ indexer' = found
        \/ \E t, b : indexer' = [indexer EXCEPT !.pc = "bulk", !.todo = t, !.sends = b]
        \/ \E t, b : indexer' = [indexer EXCEPT !.todo = t, !.sends = b]
        \/ \E t : indexer' = [indexer EXCEPT !.todo = t]
    BY <1>3, <1>6, <2>0, ZenonT(30) DEF TakeResponse, BeginData, AppendDocument, Appended, SkipDocument
  <2>2. indexer \in IndexerStates
    BY Zenon DEF Types
  <2>3. ASSUME NEW t, NEW b, indexer' = [indexer EXCEPT !.pc = "bulk", !.todo = t, !.sends = b]
        PROVE  indexer'.pc = "bulk"
    BY <2>2, <2>3 DEF IndexerStates
  <2>4. ASSUME NEW t, NEW b, \/ indexer' = [indexer EXCEPT !.todo = t, !.sends = b]
                             \/ indexer' = [indexer EXCEPT !.todo = t]
        PROVE  indexer'.pc = indexer.pc
    BY <2>2, <2>4 DEF IndexerStates
  <2>5. indexer'.pc \in {"found", "bulk", indexer.pc}
    <3>1. found.pc = "found"
      BY <2>0
    <3>. QED  BY <2>1, <2>3, <2>4, <3>1, Zenon
  <2>. QED  BY <1>1, <2>5, Zenon
<1>7. CASE \/ LockAgent \/ Flush \/ WaitForAgentSessions \/ UpdateByQuery \/ ModuleCheck
           \/ CatchErases \/ InvokePendingCallbacks
  BY <1>4, <1>7, ZenonT(30)
     DEF LockAgent, Flush, WaitForAgentSessions, UpdateByQuery, ModuleCheck, CatchErases,
         InvokePendingCallbacks, Pcs
<1>8. CASE \E b \in BOOLEAN : FinishData(b)
  BY <1>4, <1>8, ZenonT(30) DEF FinishData, Pcs
<1>9. CASE FlushThrows \/ UpdateByQueryThrows \/ AppendThrows \/ DocumentThrows
  BY <1>1, <1>9, Zenon DEF FlushThrows, UpdateByQueryThrows, AppendThrows, DocumentThrows
<1>. QED  BY <1>5, <1>6, <1>7, <1>8, <1>9, ZenonT(30) DEF IndexerStep, IndexerFails

\* Every thread preserves the invariant.
LEMMA StepInvariant ==
  ASSUME IInv, NoneCaught, Next
  PROVE  IInv'
<1>1. UNCHANGED env
  BY Zenon DEF Next
<1>2. CASE Worker
  <2>1. ASSUME NEW st \in [agent : Agents, module : Modules, shape : env.shapes],
               StartCheck(st) \/ StartAdmit(st)
        PROVE  IInv'
    BY <1>1, <2>1, StartCheckStep, StartAdmitStep, ZenonT(30)
  <2>2. ASSUME NEW sid \in Sids, sid \in Live, NEW seq \in 1..Size(sid), HandleData(sid, seq)
        PROVE  IInv'
    BY <1>1, <2>2, HandleDataStep, ZenonT(30)
  <2>3. ASSUME NEW sid \in Sids, HandleChecksumModule(sid) \/ HandleEnd(sid)
        PROVE  IInv'
    BY <1>1, <2>3, ChecksumStep, HandleEndStep, ZenonT(30)
  <2>4. ASSUME NEW agent \in Agents, DeleteAgent(agent)
        PROVE  IInv'
    BY <1>1, <2>4, DeleteAgentStep, ZenonT(30)
  <2> QED
    BY <1>2, <2>1, <2>2, <2>3, <2>4, ZenonT(30) DEF Worker
<1>3. CASE IndexerStep
  <2>1. CASE CatchErases
    BY <1>1, <2>1, CatchErasesStep, Zenon DEF CatchErases, At, NoneCaught
  <2>. QED
    BY <1>1, <1>3, <2>1, TakeResponseStep, LockAgentStep, FlushStep, WaitStep, UpdateByQueryStep,
       ModuleCheckStep, BeginDataStep, AppendDocumentStep, FinishDataStep, InvokeStep, ZenonT(30)
       DEF IndexerStep
<1>4. CASE IndexerFails
  BY <1>1, <1>4, ThrowsStep, SkipDocumentStep, FinishDataStep, Zenon DEF IndexerFails
<1>5. CASE BulkThread \/ BulkThreadFails
  BY <1>1, <1>5, BulkThreadStep, BulkThreadFailsStep, ZenonT(30)
<1>6. ASSUME NEW t \in Threads, CallbackAnswers(t) \/ CallbackErases(t)
      PROVE  IInv'
  BY <1>1, <1>6, CallbackAnswersStep, CallbackErasesStep, ZenonT(30)
<1>7. ASSUME NEW sid \in Sids, Timeout(sid)
      PROVE  IInv'
  BY <1>1, <1>7, TimeoutStep, Zenon
<1> QED
  BY <1>2, <1>3, <1>4, <1>5, <1>6, <1>7, ZenonT(30) DEF Next

\* A step that changes nothing.
LEMMA StutterInvariant ==
  ASSUME IInv, UNCHANGED vars
  PROVE  IInv'
<1>1. UNCHANGED <<env, starts, m_agentSessions, m_dataStore, m_dataValueQuotaRemaining,
                  m_blockedAgents, m_indexerQueue, m_mutex, indexer, callbacks, acks,
                  connectorVars>>
  BY Zenon DEF vars, serviceVars, sessionVars
<1>2. SessionTypes' /\ Kept /\ KeptOwners /\ Reserved' /\ Enqueued' = Enqueued
  BY <1>1, SameFacts, ZenonT(30)
<1>3. UNCHANGED <<m_bulkData, m_deleteByQuery, m_notify, m_shouldNotifyAfterBulk, indexed>>
  BY <1>1, ZenonT(30) DEF connectorVars
<1>4. Types'
  BY <1>1, <1>2, <1>3, ZenonT(30) DEF IInv, Types
<1>5. Queued' = Queued /\ Working' = Working
  BY <1>1, Zenon DEF Queued, Working
<1> QED
  BY <1>1, <1>2, <1>4, <1>5, SameReceived, QuietStep, ZenonT(30)

\* What the invariant is made of holds in every state of every behaviour: each
\* session has one place in the service, each lock a session that releases
\* it, and what is promised to the agents has been handed to the indexer.
THEOREM InventoryInvariant == Spec => []IInv
<1>1. Init => IInv /\ NoneCaught
  <2>1. Init => indexer = [pc |-> "idle", sid |-> NoSid, todo |-> {}, sends |-> FALSE]
    BY Zenon DEF Init
  <2>2. Init => indexer.pc # "caught"
    BY <2>1
  <2>. QED  BY <2>2, InitInvariant, Zenon DEF NoneCaught
<1>2. IInv /\ NoneCaught /\ [Next]_vars => (IInv /\ NoneCaught)'
  <2>1. IInv /\ NoneCaught /\ Next => (IInv /\ NoneCaught)'
    BY StepInvariant, NoneCaughtStep, Zenon DEF IInv
  <2>2. NoneCaught /\ UNCHANGED vars => NoneCaught'
    BY Zenon DEF NoneCaught, Reliable, vars, serviceVars
  <2>. QED  BY <2>1, <2>2, StutterInvariant, Zenon
<1> QED
  BY <1>1, <1>2, PTL DEF Spec

-----------------------------------------------------------------------------
(* What it says of the service *)

\* TypeOK: every variable keeps its type, and the quota stays between 0 and
\* what was configured, whatever is reserved and given back.
THEOREM InventoryTypeCorrect == Spec => []TypeOK
<1>1. IInv => TypeOK
  <2> SUFFICES ASSUME IInv PROVE TypeOK
    BY Zenon
  <2>1. ASSUME NEW sid \in Sids
        PROVE  /\ m_agentSessions[sid].state \in SessionStates
               /\ m_agentSessions[sid].state # "free" => m_agentSessions[sid].seen \subseteq 1..Size(sid)
               /\ acks[sid] \in Seq({"Ok", "Error", "ChecksumMismatch"})
    <3>1. m_agentSessions[sid].state \in SessionStates
      BY SessionFacts, ZenonT(30) DEF IInv, Types, SessionStates, Free
    <3>2. m_agentSessions[sid].state # "free" => m_agentSessions[sid].seen \subseteq 1..Size(sid)
      BY SessionFacts, ZenonT(30) DEF IInv, Types, SessionTypes
    <3> QED
      BY <3>1, <3>2, ZenonT(30) DEF IInv, Types, Statuses
  <2>2. m_dataValueQuotaRemaining \in 0..Quota
    <3>1. \A sid \in Live : Size(sid) \in Nat
      BY SessionFacts, ZenonT(30) DEF IInv, Types, Live
    <3>2. Declared(Live) \in Nat
      BY <3>1, NumbersFinite, ZenonT(30) DEF IInv, Reserved
    <3> QED
      BY <3>2, InventorySyncAssumption, SMTT(30) DEF IInv, Reserved
  <2>3. indexer.pc \in Pcs /\ indexer.sid \in Sids \cup {NoSid}
    BY Zenon DEF IInv, Types, IndexerStates
  <2>4. \A t \in Threads : callbacks[t].list \in Seq(Sids) /\ callbacks[t].erase \in BOOLEAN
    BY Zenon DEF IInv, Types
  <2> QED
    BY <2>1, <2>2, <2>3, <2>4, ZenonT(30) DEF TypeOK, IInv, Types, Pcs
<1> QED
  BY <1>1, InventoryInvariant, PTL

\* QuotaConserved: the quota left and the numbers the open sessions declared
\* always add up to the quota configured, so each of the ways a session ends
\* gives its share back exactly once; no more sessions are open than allowed.
THEOREM InventoryQuotaConserved == Spec => []QuotaConserved
<1>1. IInv => QuotaConserved
  BY ZenonT(30) DEF IInv, Reserved, QuotaConserved
<1> QED
  BY <1>1, InventoryInvariant, PTL

\* LockHasHolder: an agent is locked only while a metadata or group session
\* that holds the lock is with the indexer thread, registered or in a thread's
\* list of callbacks.
THEOREM InventoryLockHasHolder == Spec => []LockHasHolder
<1>1. IInv => LockHasHolder
  <2> SUFFICES ASSUME IInv, NEW agent \in m_blockedAgents PROVE Holder(agent)
    BY Zenon DEF LockHasHolder
  <2>1. PICK sid \in Releasing : Owns(sid) /\ m_agentSessions[sid].agent = agent
    BY ZenonT(30) DEF IInv, Locks
  <2>2. sid \in Sids
    BY <2>1, Places, ZenonT(30) DEF Releasing, Threads, IInv, Pipeline, Enqueued, Handling
  <2>3. m_agentSessions[sid].state # "free" /\ m_agentSessions[sid].ownsAgentLock
    BY <2>1, <2>2, SessionFacts, ZenonT(30) DEF Owns, IInv, Types
  <2>4. \/ indexer.sid = sid /\ indexer.pc \in {"flush", "wait", "update"}
        \/ \E i \in 1..Len(m_notify) : m_notify[i] = sid
        \/ \E t \in Threads : \E i \in 1..Len(callbacks[t].list) : callbacks[t].list[i] = sid
    BY <2>1, ZenonT(30) DEF Releasing, Registered, Taken, Elems, Threads
  <2> QED
    BY <2>1, <2>2, <2>3, <2>4, ZenonT(30) DEF Holder
<1> QED
  BY <1>1, InventoryInvariant, PTL

\* OneAnswer: where no scan throws, a session is given one final EndAck at most,
\* although callbacks, immediate answers and exception handlers all give one.
THEOREM InventoryOneAnswer == Spec => []OneAnswer
<1>1. IInv => OneAnswer
  BY ZenonT(30) DEF IInv, Answers, OneAnswer
<1> QED
  BY <1>1, InventoryInvariant, PTL

\* AckedIsIndexed: where requests do not fail and the buffer does not fill, Ok
\* is sent for a session only when the indexer has executed all its documents
\* and delete requests.
THEOREM InventoryAckedIsIndexed == Spec => []AckedIsIndexed
<1>1. IInv => AckedIsIndexed
  <2> SUFFICES ASSUME IInv, Reliable, NEW sid \in Sids,
                      m_agentSessions[sid].state \in {"live", "gone"},
                      \E i \in 1..Len(acks[sid]) : acks[sid][i] = "Ok",
                      m_agentSessions[sid].mode \in {"DELTA", "FULL"}
               PROVE  Work(sid) \subseteq indexed
    BY Zenon DEF AckedIsIndexed, Reliable
  <2>1. IsSession(sid)
    BY SessionFacts, ZenonT(30) DEF IInv, Types
  <2>2. IsData(sid)
    BY <2>1, ZenonT(30) DEF IsData
  <2>3. IsDone(sid)
    BY Zenon DEF IInv, Documents
  <2> QED
    BY <2>2, <2>3, ZenonT(30) DEF IsDone
<1> QED
  BY <1>1, InventoryInvariant, PTL
=============================================================================
