---------------------------- MODULE SyncProtocol ----------------------------
(***************************************************************************)
(* One module of one agent synchronising with the manager: the calls of    *)
(* AgentSyncProtocol, the messages under way, and the manager's sessions   *)
(* reduced to what the agent can tell apart (InventorySync has the rest).  *)
(*                                                                         *)
(* Messages arrive in any order.  MaxMishaps times at most, a message is   *)
(* dropped (connections, full queues), the manager answers Error or        *)
(* Offline, or it removes a session (silent, or the agent is locked).      *)
(* Faults selects what else can happen:                                    *)
(*   "lateStart" a wait for StartAck ends although the answer is under way *)
(*   "lateEnd"   a wait for EndAck ends although the answer is under way   *)
(*   "emptied"   a session is removed between being taken from the queue   *)
(*               and being read                                            *)
(*   "silent"    the manager's 20 minutes are over while the indexer       *)
(*               thread works on a session                                 *)
(*   "local"     metadata, groups or the agent's queue are not available   *)
(*   "stop"      the agent's module is stopped                             *)
(***************************************************************************)
EXTENDS AgentSyncProtocol

CONSTANTS
  MaxMishaps   \* bound on dropped messages, refusals and removed sessions

ASSUME SyncProtocolAssumption ==
  /\ MaxMishaps \in Nat
  /\ Faults \subseteq {"lateStart", "lateEnd", "emptied", "silent", "local", "stop"}

VARIABLES
  sessions,   \* the manager's sessions; their ids are 1, 2, ...
  effects,    \* what sessions the manager has completed have done
  mishaps     \* number of dropped messages, refusals and removed sessions

vars == <<agentVars, toManager, toAgent, sessions, effects, mishaps>>

-----------------------------------------------------------------------------
Init ==
  /\ AgentInit
  /\ sessions = <<>>
  /\ effects = {}
  /\ mishaps = 0

Sids == DOMAIN sessions

Live == {sid \in Sids : sessions[sid].live}

\* A session of the module that is still open is stale and removed.
Removed == [sid \in Sids |-> [sessions[sid] EXCEPT !.live = FALSE]]

NewSession(m) ==
  [live |-> TRUE, mode |-> m.mode, size |-> m.size, n |-> m.n, store |-> {}, seen |-> {},
   checksum |-> 0, endReceived |-> FALSE, endEnqueued |-> FALSE, done |-> FALSE]

Mishap ==
  /\ mishaps < MaxMishaps
  /\ mishaps' = mishaps + 1

Consume(m) == m \in toManager /\ toManager' = toManager \ {m}

StartAck(status, sid) == [type |-> "StartAck", status |-> status, sid |-> sid]

EndAck(status, sid) == [type |-> "EndAck", status |-> status, sid |-> sid]

HandleStart(m) ==
  /\ Consume(m)
  /\ m.type = "Start"
  /\ sessions' = Append(Removed, NewSession(m))
  /\ toAgent' = toAgent \cup {StartAck("Ok", Len(sessions) + 1)}
  /\ UNCHANGED <<agentVars, effects, mishaps>>

\* The agent is locked or the indexer not available; or, after the stale
\* session is removed, the session limit or the quota is reached.
RefuseStart(m) ==
  /\ Mishap
  /\ Consume(m)
  /\ m.type = "Start"
  /\ \/ /\ UNCHANGED sessions
        /\ \E status \in {"Error", "Offline"} : toAgent' = toAgent \cup {StartAck(status, 0)}
     \/ /\ sessions' = Removed
        /\ toAgent' = toAgent \cup {StartAck("Offline", 0)}
  /\ UNCHANGED <<agentVars, effects>>

\* Variant: End completes a session with gaps.
CompleteOnEnd(s) == s.endReceived

Complete(s) == s.endReceived /\ s.seen = 1..s.size

\* RocksDB keys are session_seq and session_seq_context; the indices to clean
\* are a set.
Put(store, item) ==
  {old \in store : \/ item.kind = "clean"
                   \/ <<old.seq, old.kind>> # <<item.seq, item.kind>>} \cup {item}

\* Variant: a second End finds the session incomplete for ever.
ObservedNever(s, seq) == s.seen

\* GapSet::observe
Observed(s, seq) == s.seen \cup {seq}

\* An item beyond the declared size is rejected.
HandleData(m) ==
  /\ Consume(m)
  /\ m.type = "Data"
  /\ IF m.sid \in Live /\ m.seq <= sessions[m.sid].size
     THEN LET s == [sessions[m.sid] EXCEPT
                      !.store = Put(@, [n |-> m.n, seq |-> m.seq, kind |-> m.kind]),
                      !.seen = Observed(sessions[m.sid], m.seq)]
          IN  sessions' = [sessions EXCEPT ![m.sid] =
                             [s EXCEPT !.endEnqueued = @ \/ Complete(s)]]
     ELSE UNCHANGED sessions
  /\ UNCHANGED <<agentVars, toAgent, effects, mishaps>>

HandleChecksumModule(m) ==
  /\ Consume(m)
  /\ m.type = "Checksum"
  /\ sessions' = IF m.sid \in Live /\ ~ sessions[m.sid].endEnqueued
                 THEN [sessions EXCEPT ![m.sid].checksum = m.n] ELSE sessions
  /\ UNCHANGED <<agentVars, toAgent, effects, mishaps>>

\* An End for a session that is not there is not answered.
HandleEnd(m) ==
  /\ Consume(m)
  /\ m.type = "End"
  /\ IF m.sid \notin Live THEN UNCHANGED <<sessions, toAgent>>
     ELSE LET s == [sessions[m.sid] EXCEPT !.endReceived = TRUE]
              answer == IF Complete(s) THEN EndAck("Processing", m.sid)
                        ELSE [type |-> "ReqRet", sid |-> m.sid, seqs |-> (1..s.size) \ s.seen]
          IN  /\ sessions' = [sessions EXCEPT ![m.sid] =
                                [s EXCEPT !.endEnqueued = @ \/ Complete(s)]]
              /\ toAgent' = toAgent \cup {answer}
  /\ UNCHANGED <<agentVars, effects, mishaps>>

\* The indexer thread is done with the session.  One that was removed after it
\* was queued is completed too when the thread had taken it already.
Indexed(sid) ==
  /\ sessions[sid].endEnqueued
  /\ ~ sessions[sid].done
  /\ sessions' = [sessions EXCEPT ![sid].done = TRUE, ![sid].live = FALSE]

\* The response of a removed session is dropped.
Drop(sid) ==
  /\ sid \notin Live
  /\ Indexed(sid)
  /\ UNCHANGED <<agentVars, toManager, toAgent, effects, mishaps>>

\* Removing a session deletes its keys, before or after the thread reads them.
Read(s) == IF s.live \/ "emptied" \notin Faults THEN {s.store} ELSE {s.store, {}}

Effect(s, items, differs) ==
  [mode |-> s.mode, n |-> s.n, items |-> items, checksum |-> s.checksum, differs |-> differs]

\* A CHECK session without its checksum is an error.
Answer(sid) ==
  /\ Indexed(sid)
  /\ IF sessions[sid].mode = "CHECK" /\ sessions[sid].checksum = 0
     THEN toAgent' = toAgent \cup {EndAck("Error", sid)} /\ UNCHANGED effects
     ELSE \E differs \in BOOLEAN, items \in Read(sessions[sid]) :
            /\ differs => sessions[sid].mode = "CHECK"
            /\ effects' = effects \cup {Effect(sessions[sid], items, differs)}
            /\ toAgent' = toAgent \cup
                 {EndAck(IF differs THEN "ChecksumMismatch" ELSE "Ok", sid)}
  /\ UNCHANGED <<agentVars, toManager, mishaps>>

AnswerError(sid) ==
  /\ Mishap
  /\ Indexed(sid)
  /\ toAgent' = toAgent \cup {EndAck("Error", sid)}
  /\ UNCHANGED <<agentVars, toManager, effects>>

\* The session is silent for too long, or a metadata session of the agent
\* removes it.  It is done with if the indexer thread has not taken it: it never
\* will, and the metadata session is on that thread.  Otherwise it is answered.
Expire(sid) ==
  /\ Mishap
  /\ sid \in Live
  /\ \E done \in BOOLEAN :
       /\ done \/ ("silent" \in Faults /\ sessions[sid].endEnqueued)
       /\ sessions' = [sessions EXCEPT ![sid].live = FALSE, ![sid].done = done]
  /\ UNCHANGED <<agentVars, toManager, toAgent, effects>>

Lose ==
  /\ Mishap
  /\ \/ \E m \in toManager : toManager' = toManager \ {m} /\ UNCHANGED toAgent
     \/ \E m \in toAgent : toAgent' = toAgent \ {m} /\ UNCHANGED toManager
  /\ UNCHANGED <<agentVars, sessions, effects>>

-----------------------------------------------------------------------------
\* Without "lateStart" and "lateEnd" a wait ends only after a message is lost.
NoneUnderWay(types) == \A m \in toManager \cup toAgent : m.type \notin types

StartWaitOver == "lateStart" \in Faults \/ NoneUnderWay({"Start", "StartAck"})

EndWaitOver ==
  \/ "lateEnd" \in Faults
  \/ m_stopRequested
  \/ /\ NoneUnderWay({"Data", "End", "EndAck", "ReqRet"})
     /\ \A sid \in Sids : sessions[sid].endEnqueued => sessions[sid].done

Proceeds(c) ==
  /\ \/ CallStep(c)
     \/ StartTimesOut(c) /\ StartWaitOver
     \/ EndTimesOut(c) /\ EndWaitOver
  /\ UNCHANGED <<sessions, effects, mishaps>>

AgentStep ==
  /\ \/ \E c \in Callers, shape \in Shapes : Begin(c, shape)
     \/ Stop
     \/ \E m \in toAgent : ParseResponseBuffer(m)
  /\ UNCHANGED <<sessions, effects, mishaps>>

Handle(m) ==
  \/ HandleStart(m) \/ RefuseStart(m) \/ HandleData(m) \/ HandleChecksumModule(m) \/ HandleEnd(m)

ManagerStep ==
  \/ \E m \in toManager : Handle(m)
  \/ \E sid \in Sids : Answer(sid) \/ AnswerError(sid) \/ Drop(sid) \/ Expire(sid)

Next == AgentStep \/ (\E c \in Callers : Proceeds(c)) \/ ManagerStep \/ Lose

Spec == Init /\ [][Next]_vars

\* The calling threads run, and their waits end.
CallersRun == \A c \in Callers : WF_vars(Proceeds(c))

\* The receiving thread and the manager's threads run.
OthersRun ==
  /\ WF_vars((\E m \in toAgent : ParseResponseBuffer(m)) /\ UNCHANGED <<sessions, effects, mishaps>>)
  /\ WF_vars(\E m \in toManager : HandleStart(m) \/ RefuseStart(m))
  /\ WF_vars(\E m \in toManager : HandleData(m))
  /\ WF_vars(\E m \in toManager : HandleChecksumModule(m))
  /\ WF_vars(\E m \in toManager : HandleEnd(m))
  /\ WF_vars(\E sid \in Sids : Answer(sid) \/ Drop(sid))

LiveSpec == Spec /\ CallersRun /\ OthersRun

StopSpec == Spec /\ CallersRun

-----------------------------------------------------------------------------
(* Safety *)

\* The items call n sends, as they should reach the manager.
Batch(n) == {[n |-> n, seq |-> seq, kind |-> calls[n].items[seq]] : seq \in 1..Len(calls[n].items)}

\* The session has done what call n asked for, and nothing else.
DoneBy(n, e) ==
  /\ e.mode = Mode(calls[n].op)
  /\ e.items = Batch(n)
  /\ calls[n].op = "CHECK" => e.checksum = n /\ ~ e.differs
  /\ calls[n].op = "META" => e.n = n

Applied == {n \in DOMAIN calls : \E e \in effects : DoneBy(n, e)}

Differing == {n \in DOMAIN calls : \E e \in effects : e.checksum = n /\ e.differs}

\* SuccessIsApplied: a call that reports success has had its whole batch
\* applied, item by item in its own kind and mode; after it, the agent deletes
\* its own record of the batch (clearSyncedItems, clearItemsByIndex).
SuccessIsApplied == \A n \in DOMAIN outcome : outcome[n] = "ok" => n \in Applied

\* ImplementsSession: the protocol implements the promise of SyncSession,
\* through lost messages, retransmissions, refusals and removed sessions.
Promise == INSTANCE SyncSession WITH applied <- Applied, differing <- Differing

ImplementsSession == Promise!Spec

\* NoSpuriousFailure: until a message is lost, a request refused or a session
\* removed, and with no wait cut short (Faults), a batch is not reported
\* failed, in whatever order its messages and the answers arrive (an End
\* before its data, a request for data that has come in the meantime); a
\* failed batch is sent again as a whole.
NoSpuriousFailure ==
  mishaps = 0 =>
    \A n \in DOMAIN outcome : calls[n].op # "CHECK" => outcome[n] # "failed"

-----------------------------------------------------------------------------
(* Liveness *)

\* CallReturns: a call returns although answers, time-outs, requests for
\* retransmission and Processing answers keep the End loop going.
CallReturns == \A c \in Callers : caller[c].pc # "idle" ~> caller[c].pc = "idle"

\* StopReturns: a stopped module's calls return, even if the manager never
\* answers again and nothing arrives.
StopReturns == \A c \in Callers : m_stopRequested ~> caller[c].pc = "idle"
==============================================================================
