-------------------------- MODULE AgentSyncProtocol --------------------------
(***************************************************************************)
(* The agent's side of a synchronisation session                           *)
(* (shared_modules/sync_protocol/src/agent_sync_protocol.cpp): threads of  *)
(* a module call synchronizeModule (DELTA, FULL), requiresFullSync         *)
(* (CHECK), notifyDataClean (CLEAN) or synchronizeMetadataOrGroups (META)  *)
(* on one instance, and the receiving thread feeds parseResponseBuffer.    *)
(* All of them share m_syncState; a step is what a thread does under one   *)
(* acquisition of its mutex, with the sends that follow.                   *)
(*                                                                         *)
(* Each call has a number n, which stands for the content it sends; items  *)
(* have sequence numbers 1, 2, ... (0, 1, ... in the code).  Calls that    *)
(* find nothing to send, or no connection, return at once and are no step. *)
(***************************************************************************)
EXTENDS Naturals, Sequences

CONSTANTS
  Callers,     \* threads of the module
  Shapes,      \* what may be called: the operation and the kinds of its items
  m_retries,
  MaxCalls,    \* bound on the number of calls
  Faults       \* see SyncProtocol

Operations == {"DELTA", "FULL", "CHECK", "CLEAN", "META"}

Kinds == {"value", "context", "clean"}

ASSUME AgentAssumption ==
  /\ \A sh \in Shapes : sh.op \in Operations /\ sh.items \in Seq(Kinds)
  /\ {m_retries, MaxCalls} \subseteq Nat

VARIABLES
  m_syncState,
  m_syncInProgress,
  m_stopRequested,
  caller,      \* per thread: where it is in its call
  calls,       \* the shapes of the calls made so far
  outcome,     \* per call: what it has returned
  toManager, toAgent   \* messages under way, in no order

agentVars == <<m_syncState, m_syncInProgress, m_stopRequested, caller, calls, outcome>>

-----------------------------------------------------------------------------
\* SyncState::reset
Reset ==
  [phase |-> "Idle", session |-> 0, startAckReceived |-> FALSE, endAckReceived |-> FALSE,
   reqRetReceived |-> FALSE, syncFailed |-> FALSE, processingAckReceived |-> FALSE,
   reqRetRanges |-> {}, lastSyncResult |-> "SUCCESS"]

Idle == [pc |-> "idle", n |-> 0, attempt |-> 0, sentEnd |-> FALSE, session |-> 0]

AgentInit ==
  /\ m_syncState = Reset
  /\ m_syncInProgress = FALSE
  /\ m_stopRequested = FALSE
  /\ caller = [c \in Callers |-> Idle]
  /\ calls = <<>>
  /\ outcome = <<>>
  /\ toManager = {}
  /\ toAgent = {}

Shape(c) == calls[caller[c].n]

Seqs(c) == 1..Len(Shape(c).items)

Goto(c, pc) == caller' = [caller EXCEPT ![c].pc = pc]

\* CLEAN sessions are DELTA sessions to the manager.
Mode(op) == IF op = "CLEAN" THEN "DELTA" ELSE op

StartMessage(c) ==
  [type |-> "Start", mode |-> Mode(Shape(c).op), size |-> Len(Shape(c).items), n |-> caller[c].n]

DataMessage(c, sid, seq, kind) ==
  [type |-> "Data", sid |-> sid, seq |-> seq, kind |-> kind, n |-> caller[c].n]

EndMessage(sid) == [type |-> "End", sid |-> sid]

-----------------------------------------------------------------------------
(* The calls *)

\* Only synchronizeModule is guarded by m_syncInProgress; a second caller of
\* it returns at once, which is no step here.
Guarded(op) == op \in {"DELTA", "FULL"}

Begin(c, shape) ==
  /\ caller[c].pc = "idle"
  /\ Len(calls) < MaxCalls
  /\ Guarded(shape.op) => ~ m_syncInProgress
  /\ m_syncInProgress' = (m_syncInProgress \/ Guarded(shape.op))
  /\ m_syncState' = Reset
  /\ calls' = Append(calls, shape)
  /\ outcome' = Append(outcome, "open")
  /\ caller' = [caller EXCEPT ![c] = [Idle EXCEPT !.pc = "start", !.n = Len(calls) + 1]]
  /\ UNCHANGED <<m_stopRequested, toManager, toAgent>>

\* sendStartAndWaitAck
SendStart(c) ==
  /\ caller[c].pc = "start"
  /\ m_syncState' = [m_syncState EXCEPT !.phase = "WaitingStartAck"]
  /\ toManager' = toManager \cup {StartMessage(c)}
  /\ Goto(c, "waitStart")
  /\ UNCHANGED <<m_syncInProgress, m_stopRequested, calls, outcome, toAgent>>

\* The metadata is missing or has no groups, or a data message cannot be sent.
LocalFailure(c) ==
  /\ "local" \in Faults
  /\ caller[c].pc \in {"start", "data"}
  /\ Goto(c, "failed")
  /\ UNCHANGED <<m_syncState, m_syncInProgress, m_stopRequested, calls, outcome, toManager, toAgent>>

StartAnswered == m_syncState.startAckReceived \/ m_syncState.syncFailed \/ m_stopRequested

ReceiveStartAck(c) ==
  /\ caller[c].pc = "waitStart"
  /\ StartAnswered
  /\ Goto(c, IF m_syncState.syncFailed THEN "failed" ELSE "data")
  /\ UNCHANGED <<m_syncState, m_syncInProgress, m_stopRequested, calls, outcome, toManager, toAgent>>

\* A Start that cannot be sent counts like one that is lost.
StartTimesOut(c) ==
  /\ caller[c].pc = "waitStart"
  /\ ~ StartAnswered
  /\ IF caller[c].attempt < m_retries
     THEN /\ caller' = [caller EXCEPT ![c].attempt = @ + 1]
          /\ toManager' = toManager \cup {StartMessage(c)}
     ELSE Goto(c, "failed") /\ UNCHANGED toManager
  /\ UNCHANGED <<m_syncState, m_syncInProgress, m_stopRequested, calls, outcome, toAgent>>

\* sendDataMessages and sendDataContextMessages look at the stop flag,
\* sendDataCleanMessages and sendChecksumMessage do not.
SendData(c) ==
  /\ caller[c].pc = "data"
  /\ LET sid == m_syncState.session
         data == {DataMessage(c, sid, seq, Shape(c).items[seq]) : seq \in Seqs(c)}
         checksum == IF Shape(c).op = "CHECK"
                     THEN {[type |-> "Checksum", sid |-> sid, n |-> caller[c].n]} ELSE {}
     IN  IF m_stopRequested /\ \E m \in data : m.kind # "clean"
         THEN Goto(c, "failed") /\ UNCHANGED toManager
         ELSE Goto(c, "end") /\ toManager' = toManager \cup data \cup checksum
  /\ UNCHANGED <<m_syncState, m_syncInProgress, m_stopRequested, calls, outcome, toAgent>>

\* sendEndAndWaitAck reads m_syncState.session anew and keeps it.
EnterEnd(c) ==
  /\ caller[c].pc = "end"
  /\ m_syncState' = [m_syncState EXCEPT !.phase = "WaitingEndAck"]
  /\ caller' = [caller EXCEPT ![c].pc = "delay", ![c].session = m_syncState.session,
                              ![c].attempt = 0]
  /\ UNCHANGED <<m_syncInProgress, m_stopRequested, calls, outcome, toManager, toAgent>>

SendEnd(c) ==
  /\ caller[c].pc = "delay"
  /\ IF m_stopRequested
     THEN Goto(c, "endFailed") /\ UNCHANGED toManager
     ELSE /\ caller' = [caller EXCEPT ![c].pc = "waitEnd", ![c].sentEnd = TRUE]
          /\ toManager' = toManager \cup {EndMessage(caller[c].session)}
  /\ UNCHANGED <<m_syncState, m_syncInProgress, m_stopRequested, calls, outcome, toAgent>>

EndAnswered ==
  \/ m_syncState.endAckReceived \/ m_syncState.syncFailed
  \/ m_syncState.reqRetReceived \/ m_syncState.processingAckReceived

\* Variant: a wake-up by stop() is not counted as an attempt.
AttemptsUnlessStopped(c) ==
  IF caller[c].sentEnd /\ ~ m_stopRequested THEN caller[c].attempt + 1 ELSE caller[c].attempt

\* Only a wait that began with sending End consumes a retry.
Attempts(c) == IF caller[c].sentEnd THEN caller[c].attempt + 1 ELSE caller[c].attempt

EndTimesOut(c) ==
  /\ caller[c].pc = "waitEnd"
  /\ m_stopRequested \/ ~ EndAnswered
  /\ IF Attempts(c) <= m_retries
     THEN /\ caller' = [caller EXCEPT ![c].attempt = Attempts(c), ![c].sentEnd = TRUE]
          /\ toManager' = toManager \cup {EndMessage(caller[c].session)}
     ELSE Goto(c, "endFailed") /\ UNCHANGED toManager
  /\ UNCHANGED <<m_syncState, m_syncInProgress, m_stopRequested, calls, outcome, toAgent>>

\* Both waiting threads see the same flags.
Waiting(c) == caller[c].pc = "waitEnd" /\ ~ m_stopRequested

ReceiveEndAck(c) ==
  /\ Waiting(c)
  /\ m_syncState.syncFailed \/ m_syncState.endAckReceived
  /\ Goto(c, IF m_syncState.syncFailed THEN "endFailed" ELSE "ok")
  /\ UNCHANGED <<m_syncState, m_syncInProgress, m_stopRequested, calls, outcome, toManager, toAgent>>

\* Variant: the end of a range is taken to be excluded.
RequestedHalfOpen(c) ==
  {seq \in Seqs(c) : seq \in m_syncState.reqRetRanges /\ seq + 1 \in m_syncState.reqRetRanges}

\* filterDataByRanges
Requested(c) == {seq \in Seqs(c) : seq \in m_syncState.reqRetRanges}

\* Whatever the kind of the items, sendDataMessages sends DataValues.
ReceiveReqRet(c) ==
  /\ Waiting(c)
  /\ ~ m_syncState.syncFailed /\ ~ m_syncState.endAckReceived
  /\ m_syncState.reqRetReceived
  /\ m_syncState' = [m_syncState EXCEPT !.reqRetReceived = FALSE, !.reqRetRanges = {}]
  /\ \/ /\ Requested(c) = {} \/ "local" \in Faults
        /\ Goto(c, "endFailed")
        /\ UNCHANGED toManager
     \/ /\ Requested(c) # {}
        /\ caller' = [caller EXCEPT ![c].sentEnd = FALSE]
        /\ toManager' = toManager \cup
             {DataMessage(c, caller[c].session, seq, "value") : seq \in Requested(c)}
  /\ UNCHANGED <<m_syncInProgress, m_stopRequested, calls, outcome, toAgent>>

ReceiveProcessing(c) ==
  /\ Waiting(c)
  /\ ~ m_syncState.syncFailed /\ ~ m_syncState.endAckReceived /\ ~ m_syncState.reqRetReceived
  /\ m_syncState.processingAckReceived
  /\ m_syncState' = [m_syncState EXCEPT !.processingAckReceived = FALSE]
  /\ caller' = [caller EXCEPT ![c].sentEnd = FALSE]
  /\ UNCHANGED <<m_syncInProgress, m_stopRequested, calls, outcome, toManager, toAgent>>

\* requiresFullSync is true only after a checksum error reported by the manager.
Result(c) ==
  IF caller[c].pc = "ok" THEN "ok"
  ELSE IF /\ caller[c].pc = "endFailed" /\ Shape(c).op = "CHECK"
          /\ m_syncState.lastSyncResult = "CHECKSUM_ERROR" THEN "mismatch"
  ELSE "failed"

\* The call finalises the queue (see StateSync), clears the state, returns.
Finish(c) ==
  /\ caller[c].pc \in {"ok", "failed", "endFailed"}
  /\ outcome' = [outcome EXCEPT ![caller[c].n] = Result(c)]
  /\ m_syncState' = Reset
  /\ m_syncInProgress' = (m_syncInProgress /\ ~ Guarded(Shape(c).op))
  /\ caller' = [caller EXCEPT ![c] = Idle]
  /\ UNCHANGED <<m_stopRequested, calls, toManager, toAgent>>

Stop ==
  /\ "stop" \in Faults
  /\ ~ m_stopRequested
  /\ m_stopRequested' = TRUE
  /\ UNCHANGED <<m_syncState, m_syncInProgress, caller, calls, outcome, toManager, toAgent>>

-----------------------------------------------------------------------------
(* parseResponseBuffer *)

ParseStartAck(m) ==
  IF m_syncState.phase # "WaitingStartAck" THEN m_syncState
  ELSE IF m.status \in {"Error", "Offline"} THEN [m_syncState EXCEPT !.syncFailed = TRUE]
  ELSE [m_syncState EXCEPT !.session = m.sid, !.startAckReceived = TRUE]

\* Variant: the session of the answer is not looked at.
ValidatePhaseOnly(m) == m_syncState.phase = "WaitingEndAck"

ValidatePhaseAndSession(m) == m_syncState.phase = "WaitingEndAck" /\ m_syncState.session = m.sid

SyncResult(status) ==
  IF status = "ChecksumMismatch" THEN "CHECKSUM_ERROR"
  ELSE IF status = "Offline" THEN "COMMUNICATION_ERROR" ELSE "GENERIC_ERROR"

ParseEndAck(m) ==
  IF ~ ValidatePhaseAndSession(m) THEN m_syncState
  ELSE IF m.status \in {"Error", "Offline", "ChecksumMismatch"}
       THEN [m_syncState EXCEPT !.syncFailed = TRUE, !.lastSyncResult = SyncResult(m.status)]
  ELSE IF m.status = "Processing" THEN [m_syncState EXCEPT !.processingAckReceived = TRUE]
  ELSE [m_syncState EXCEPT !.endAckReceived = TRUE, !.lastSyncResult = "SUCCESS"]

ParseReqRet(m) ==
  IF ~ ValidatePhaseAndSession(m) THEN m_syncState
  ELSE [m_syncState EXCEPT !.reqRetReceived = TRUE, !.reqRetRanges = m.seqs]

ParseResponseBuffer(m) ==
  /\ m \in toAgent
  /\ toAgent' = toAgent \ {m}
  /\ m_syncState' = IF m.type = "StartAck" THEN ParseStartAck(m)
                    ELSE IF m.type = "EndAck" THEN ParseEndAck(m) ELSE ParseReqRet(m)
  /\ UNCHANGED <<m_syncInProgress, m_stopRequested, caller, calls, outcome, toManager>>

-----------------------------------------------------------------------------
\* The steps of a call other than a time-out.
CallStep(c) ==
  \/ SendStart(c) \/ LocalFailure(c) \/ ReceiveStartAck(c)
  \/ SendData(c) \/ EnterEnd(c) \/ SendEnd(c)
  \/ ReceiveEndAck(c) \/ ReceiveReqRet(c) \/ ReceiveProcessing(c) \/ Finish(c)
==============================================================================
