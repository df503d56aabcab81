------------------------- MODULE SyncProtocolProofs -------------------------
(***************************************************************************)
(* The invariant by which a call of the agent that reports success has     *)
(* been applied, for any number of calls, items, retries and mishaps, if   *)
(* the environment is Orderly, and the proof that the steps of a running   *)
(* call preserve it.                                                       *)
(***************************************************************************)
EXTENDS SyncProtocol, Integers, TLAPS

\* The calls of the module do not overlap, a wait for StartAck is not cut
\* short while its answer is under way, the manager's time-out leaves alone
\* what its indexer thread works on, and batches hold plain values (a
\* retransmission sends every item as a DataValue) and are not empty
\* (synchronizeModule returns at once when there is nothing to send).
Orderly ==
  /\ Callers # {} /\ \A c, d \in Callers : c = d
  /\ {"lateStart", "silent"} \cap Faults = {}
  /\ \A sh \in Shapes :
       /\ \A i \in 1..Len(sh.items) : sh.items[i] = "value"
       /\ sh.op \notin {"CHECK", "META"} => Len(sh.items) # 0

-----------------------------------------------------------------------------
(* Types *)

Pcs == {"idle", "start", "waitStart", "data", "end", "delay", "waitEnd", "ok", "failed", "endFailed"}

SyncStates ==
  [phase : {"Idle", "WaitingStartAck", "WaitingEndAck"}, session : Nat,
   startAckReceived : BOOLEAN, endAckReceived : BOOLEAN, reqRetReceived : BOOLEAN,
   syncFailed : BOOLEAN, processingAckReceived : BOOLEAN, reqRetRanges : SUBSET Nat,
   lastSyncResult : {"SUCCESS", "COMMUNICATION_ERROR", "GENERIC_ERROR", "CHECKSUM_ERROR"}]

CallerStates == [pc : Pcs, n : Nat, attempt : Nat, sentEnd : BOOLEAN, session : Nat]

Items == [n : Nat, seq : Nat, kind : Kinds]

Session ==
  [live : BOOLEAN, mode : Operations, size : Nat, n : Nat, store : SUBSET Items,
   seen : SUBSET Nat, checksum : Nat, endReceived : BOOLEAN, endEnqueued : BOOLEAN,
   done : BOOLEAN]

Effects == [mode : Operations, n : Nat, items : SUBSET Items, checksum : Nat, differs : BOOLEAN]

ToManager ==
  [type : {"Start"}, mode : Operations, size : Nat, n : Nat]
    \cup [type : {"Data"}, sid : Nat, seq : Nat, kind : Kinds, n : Nat]
    \cup [type : {"Checksum"}, sid : Nat, n : Nat]
    \cup [type : {"End"}, sid : Nat]

ToAgent ==
  [type : {"StartAck"}, status : {"Ok", "Error", "Offline"}, sid : Nat]
    \cup [type : {"EndAck"}, status : {"Ok", "Error", "ChecksumMismatch", "Processing"}, sid : Nat]
    \cup [type : {"ReqRet"}, sid : Nat, seqs : SUBSET Nat]

Types ==
  /\ m_syncState \in SyncStates
  /\ m_stopRequested \in BOOLEAN
  /\ caller \in [Callers -> CallerStates]
  /\ calls \in Seq(Shapes)
  /\ outcome \in Seq({"open", "ok", "failed", "mismatch"})
  /\ Len(outcome) = Len(calls)
  /\ toManager \subseteq ToManager
  /\ toAgent \subseteq ToAgent
  /\ sessions \in Seq(Session)
  /\ effects \subseteq Effects

-----------------------------------------------------------------------------
(* The invariant *)

\* What a session holds of call n once the items in seen have come.
Content(n, seen) == {[n |-> n, seq |-> seq, kind |-> "value"] : seq \in seen}

\* The End of the session has been sent by a call that is waiting for its
\* answer, is under way, or has come.
Asked(sid) ==
  \/ sessions[sid].endReceived
  \/ EndMessage(sid) \in toManager
  \/ \E c \in Callers : caller[c].pc = "waitEnd" /\ m_syncState.session = sid

\* After stop() a call can be given the session of an earlier one, to which it
\* may send its checksum, but then it sends no End.
Trusted(sid) == ~ m_stopRequested \/ Asked(sid)

\* Not removed before the indexer is done with it.
InHand(sid) == sessions[sid].live \/ sessions[sid].done

CurrentCall(c) ==
  caller[c].pc # "idle" =>
    /\ caller[c].n = Len(calls) /\ caller[c].n \in DOMAIN calls
    /\ outcome[caller[c].n] = "open"

\* A session holds what has come of the batch of one call, and no other data.
SessionOK(sid) ==
  /\ sessions[sid].n \in DOMAIN calls
  /\ sessions[sid].mode = Mode(calls[sessions[sid].n].op)
  /\ sessions[sid].size = Len(calls[sessions[sid].n].items)
  /\ sessions[sid].seen \subseteq 1..sessions[sid].size
  /\ sessions[sid].store = Content(sessions[sid].n, sessions[sid].seen)
  /\ sessions[sid].endEnqueued =>
       sessions[sid].endReceived /\ sessions[sid].seen = 1..sessions[sid].size
  /\ sessions[sid].checksum \in 0..Len(calls)
  /\ Trusted(sid) => sessions[sid].checksum \in {0, sessions[sid].n}

\* Effects are those of calls that have been made.
EffectOK(e) ==
  /\ e.n \in DOMAIN calls
  /\ e.checksum \in 0..Len(calls)
  /\ \A item \in e.items : item.n \in DOMAIN calls

\* Data belongs to the call of its session; so does a checksum that counts.
MessageOK(m) ==
  /\ m.type = "Start" =>
       /\ m.n \in DOMAIN calls
       /\ m.mode = Mode(calls[m.n].op) /\ m.size = Len(calls[m.n].items)
       /\ ~ m_stopRequested => m.n = Len(calls)
  /\ m.type = "Data" =>
       /\ m.sid \in Sids /\ m.n = sessions[m.sid].n
       /\ m.kind = "value" /\ m.seq \in 1..sessions[m.sid].size
  /\ m.type = "Checksum" =>
       /\ m.n \in DOMAIN calls
       /\ m.sid \in Sids \cup {0}
       /\ m.sid # 0 /\ Trusted(m.sid) => m.n = sessions[m.sid].n
  /\ m.type = "End" => m.sid \in Sids

Opening == {m \in toManager \cup toAgent : m.type \in {"Start", "StartAck"}}

\* Until stop(), one Start or one answer to it is under way, and only while
\* the call waits for it.
OneStart ==
  ~ m_stopRequested =>
    /\ \A m1, m2 \in Opening : m1 = m2
    /\ \A c \in Callers : ~ (caller[c].pc = "waitStart" /\ ~ StartAnswered) => Opening = {}

\* A StartAck names a session nobody has used; a final answer speaks of what
\* the session's call asked for.
AnswerOK(m) ==
  /\ m.type = "StartAck" /\ m.status = "Ok" =>
       /\ m.sid \in Sids /\ ~ Asked(m.sid) /\ m.sid # m_syncState.session
       /\ ~ m_stopRequested => sessions[m.sid].n = Len(calls) /\ InHand(m.sid)
  /\ m.type \in {"EndAck", "ReqRet"} => m.sid \in Sids /\ sessions[m.sid].endReceived
  /\ m.type = "EndAck" /\ m.status = "Ok" /\ ~ m_stopRequested /\ m.sid = m_syncState.session =>
       sessions[m.sid].n \in Applied
  /\ m.type = "EndAck" /\ m.status = "ChecksumMismatch" => sessions[m.sid].n \in Differing

\* The session the agent is in, once it counts, is one of the current call.
InSession(c) ==
  \A sid \in Nat : sid = m_syncState.session /\ sid # 0 =>
    /\ sid \in Sids
    /\ Trusted(sid) => sessions[sid].n = caller[c].n
    /\ ~ m_stopRequested => InHand(sid)

\* The flags of m_syncState, by the position of the call.
FlagsOK(c) ==
  /\ caller[c].pc \in {"idle", "start"} => m_syncState = Reset
  /\ caller[c].pc \in {"waitStart", "data", "end"} => m_syncState.phase = "WaitingStartAck"
  /\ caller[c].pc \in {"delay", "waitEnd", "ok", "endFailed"} =>
       m_syncState.phase = "WaitingEndAck" /\ caller[c].session = m_syncState.session
  /\ ~ m_stopRequested =>
       /\ m_syncState.session # 0 <=> m_syncState.startAckReceived
       /\ caller[c].pc \in {"data", "end", "delay", "waitEnd"} => m_syncState.startAckReceived
       /\ m_syncState.endAckReceived => caller[c].n \in Applied
  /\ caller[c].pc = "waitEnd" => m_syncState.session # 0
  /\ caller[c].pc = "ok" => caller[c].n \in Applied
  /\ m_syncState.lastSyncResult = "CHECKSUM_ERROR" => caller[c].n \in Differing

IInv ==
  /\ Types
  /\ \A c \in Callers : CurrentCall(c)
  /\ \A sid \in Sids : SessionOK(sid)
  /\ \A e \in effects : EffectOK(e)
  /\ \A m \in toManager : MessageOK(m)
  /\ OneStart
  /\ \A m \in toAgent : AnswerOK(m)
  /\ \A c \in Callers : InSession(c)
  /\ \A c \in Callers : FlagsOK(c)
  /\ SuccessIsApplied

-----------------------------------------------------------------------------
(* What the calls send and what the manager makes of it *)

\* The current call has a shape, and its items are plain values.
LEMMA ShapeFacts ==
  ASSUME Types, Orderly, NEW n \in DOMAIN calls
  PROVE  /\ calls[n] \in Shapes
         /\ calls[n].op \in Operations
         /\ Mode(calls[n].op) \in Operations
         /\ Len(calls[n].items) \in Nat
         /\ \A i \in 1..Len(calls[n].items) : calls[n].items[i] = "value"
         /\ calls[n].op \notin {"CHECK", "META"} => Len(calls[n].items) # 0
<1>1. calls[n] \in Shapes
  BY DEF Types
<1>2. calls[n].op \in Operations /\ calls[n].items \in Seq(Kinds)
  BY <1>1, AgentAssumption, Zenon
<1>3. Mode(calls[n].op) \in Operations
  BY <1>2, Zenon DEF Mode, Operations
<1>. QED  BY <1>1, <1>2, <1>3 DEF Orderly

\* A complete session holds the batch of its call.
LEMMA BatchIsContent ==
  ASSUME Types, Orderly, NEW n \in DOMAIN calls
  PROVE  Batch(n) = Content(n, 1..Len(calls[n].items))
<1>1. \A i \in 1..Len(calls[n].items) : calls[n].items[i] = "value"
  BY ShapeFacts, Zenon
<1>. QED  BY <1>1, Zenon DEF Batch, Content

\* Storing an item again changes nothing.
LEMMA PutContent ==
  ASSUME NEW n, NEW seen, NEW seq
  PROVE  Put(Content(n, seen), [n |-> n, seq |-> seq, kind |-> "value"]) = Content(n, seen \cup {seq})
<1>. DEFINE item(q) == [n |-> n, seq |-> q, kind |-> "value"]
<1>1. Put(Content(n, seen), item(seq)) =
        {old \in Content(n, seen) : <<old.seq, old.kind>> # <<seq, "value">>} \cup {item(seq)}
  BY Zenon DEF Put
<1>2. \A q : item(q).seq = q /\ item(q).kind = "value"
  BY Zenon
<1>3. ASSUME NEW x \in Content(n, seen \cup {seq})
      PROVE  x \in Put(Content(n, seen), item(seq))
  <2>1. PICK q \in seen \cup {seq} : x = item(q)
    BY <1>3, Zenon DEF Content
  <2>2. CASE q = seq
    BY <1>1, <2>1, <2>2, Zenon
  <2>3. CASE q # seq
    BY <1>1, <1>2, <2>1, <2>3, Zenon DEF Content
  <2>. QED  BY <2>2, <2>3, Zenon
<1>4. ASSUME NEW x \in Put(Content(n, seen), item(seq))
      PROVE  x \in Content(n, seen \cup {seq})
  BY <1>1, Zenon DEF Content
<1>. QED  BY <1>3, <1>4, Zenon

\* What is applied stays applied, what has been found to differ, too.
LEMMA EffectsGrow ==
  ASSUME calls' = calls, effects \subseteq effects'
  PROVE  Applied \subseteq Applied' /\ Differing \subseteq Differing'
BY DEF Applied, Differing, DoneBy, Batch

\* And only effects change it.
LEMMA EffectsSame ==
  ASSUME calls' = calls, effects' = effects
  PROVE  Applied' = Applied /\ Differing' = Differing
BY DEF Applied, Differing, DoneBy, Batch

-----------------------------------------------------------------------------
(* Steps of the call *)

\* The step leaves the manager, the answers and the list of calls alone; only
\* a call that has not been stopped asks for the end of its session.
Proceeding(c) ==
  /\ UNCHANGED <<sessions, effects, calls, toAgent, m_stopRequested>>
  /\ (m_syncState'.session = m_syncState.session /\ caller'[c].n = caller[c].n)
       \/ m_syncState'.session = 0
  /\ \A sid \in Sids :
       Asked(sid)' => Asked(sid) \/ (sid = m_syncState.session /\ ~ m_stopRequested)

\* Such a step leaves sessions, effects, answers and the messages that are
\* under way as they should be.
LEMMA ProceedingFrame ==
  ASSUME IInv, Orderly, NEW c \in Callers, Proceeding(c)
  PROVE  /\ \A sid \in Sids' : SessionOK(sid)'
         /\ \A e \in effects' : EffectOK(e)'
         /\ \A m \in toManager : MessageOK(m)'
         /\ \A m \in toAgent' : AnswerOK(m)'
         /\ InSession(c)'
         /\ Applied' = Applied /\ Differing' = Differing
<1>1. /\ sessions' = sessions /\ effects' = effects /\ calls' = calls /\ toAgent' = toAgent
      /\ m_stopRequested' = m_stopRequested /\ Sids' = Sids
  BY Zenon DEF Proceeding, Sids
<1>2. Applied' = Applied /\ Differing' = Differing
  BY <1>1, EffectsSame, Zenon
<1>3. \A sid \in Sids : Trusted(sid)' => Trusted(sid)
  BY <1>1 DEF Proceeding, Trusted
<1>4. \A sid \in Sids : InHand(sid)' = InHand(sid)
  BY <1>1, Zenon DEF InHand
<1>5. \A sid \in Sids' : SessionOK(sid)'
  BY <1>1, <1>3, Zenon DEF IInv, SessionOK
<1>6. \A e \in effects' : EffectOK(e)'
  BY <1>1, Zenon DEF IInv, EffectOK
<1>7. \A m \in toManager : MessageOK(m)'
  BY <1>1, <1>3, ZenonT(30) DEF IInv, MessageOK
<1>8. ASSUME NEW m \in toAgent
      PROVE  AnswerOK(m)'
  <2>1. AnswerOK(m)
    BY Zenon DEF IInv
  <2>2. \A sid \in Sids : sid # 0
    BY DEF IInv, Types, Sids
  <2>3. m_syncState'.session \in {m_syncState.session, 0}
    BY Zenon DEF Proceeding
  <2>4. m.sid \in Sids /\ m.sid # m_syncState.session /\ ~ Asked(m.sid) => ~ Asked(m.sid)'
    BY Zenon DEF Proceeding
  <2>. QED  BY <1>1, <1>2, <1>4, <2>1, <2>2, <2>3, <2>4, Zenon DEF AnswerOK
<1>9. InSession(c)'
  BY <1>1, <1>3, <1>4 DEF IInv, InSession, Proceeding
<1>. QED  BY <1>1, <1>2, <1>5, <1>6, <1>7, <1>8, <1>9, Zenon

\* A step inside the call: it is still the same call, and still open.
Moving(c) ==
  /\ Proceeding(c)
  /\ outcome' = outcome
  /\ caller[c].pc # "idle" /\ caller'[c].n = caller[c].n
  /\ caller' \in [Callers -> CallerStates]
  /\ m_syncState' \in SyncStates
  /\ toManager' \subseteq ToManager

\* What is left to show of such a step.
LEMMA MovingStep ==
  ASSUME IInv, Orderly, NEW c \in Callers, Moving(c),
         \A m \in toManager' \ toManager : MessageOK(m)', OneStart', FlagsOK(c)'
  PROVE  IInv'
<1>1. Proceeding(c)
  BY Zenon DEF Moving
<1>2. /\ \A sid \in Sids' : SessionOK(sid)'
      /\ \A e \in effects' : EffectOK(e)'
      /\ \A m \in toManager : MessageOK(m)'
      /\ \A m \in toAgent' : AnswerOK(m)'
      /\ InSession(c)'
      /\ Applied' = Applied
  BY <1>1, ProceedingFrame, Zenon
<1>3. Types'
  BY <1>1, Zenon DEF IInv, Types, Moving, Proceeding
<1>4. CurrentCall(c)'
  BY <1>1, Zenon DEF IInv, CurrentCall, Moving, Proceeding
<1>5. SuccessIsApplied'
  BY <1>2, Zenon DEF IInv, SuccessIsApplied, Moving
<1>6. \A d \in Callers : d = c
  BY Zenon DEF Orderly
<1>7. (\A d \in Callers : CurrentCall(d))' /\ (\A d \in Callers : InSession(d))'
        /\ (\A d \in Callers : FlagsOK(d))'
  BY <1>2, <1>4, <1>6, Zenon
<1>8. \A m \in toManager' : MessageOK(m)'
  BY <1>2, Zenon
<1>. QED  BY <1>2, <1>3, <1>5, <1>7, <1>8, Zenon DEF IInv

\* No Start is sent and none has been under way.
LEMMA StaysClosed ==
  ASSUME IInv, NEW c \in Callers, UNCHANGED <<m_stopRequested, toAgent>>,
         caller[c].pc # "waitStart" \/ StartAnswered,
         \A m \in toManager' \ toManager : m.type \notin {"Start", "StartAck"}
  PROVE  OneStart'
<1>1. CASE m_stopRequested
  BY <1>1, Zenon DEF OneStart
<1>2. CASE ~ m_stopRequested
  <2>1. Opening = {}
    BY <1>2, Zenon DEF IInv, OneStart
  <2>2. toAgent' = toAgent
    BY Zenon
  <2>3. ASSUME NEW m \in Opening'
        PROVE  FALSE
    <3>1. m \in toManager' \cup toAgent' /\ m.type \in {"Start", "StartAck"}
      BY <2>3, Zenon DEF Opening
    <3>2. m \in toManager => m \in Opening
      BY <3>1, Zenon DEF Opening
    <3>3. m \in toAgent => m \in Opening
      BY <3>1, Zenon DEF Opening
    <3>. QED  BY <2>1, <2>2, <3>1, <3>2, <3>3, Zenon
  <2>. QED  BY <2>3, Zenon DEF OneStart
<1>. QED  BY <1>1, <1>2, Zenon DEF IInv, Types

\* Fields of the record of a calling thread.
LEMMA GotoFacts ==
  ASSUME Types, NEW c \in Callers, NEW pc \in Pcs, Goto(c, pc)
  PROVE  /\ caller' \in [Callers -> CallerStates]
         /\ caller'[c].pc = pc /\ caller'[c].n = caller[c].n
         /\ caller'[c].attempt = caller[c].attempt /\ caller'[c].sentEnd = caller[c].sentEnd
         /\ caller'[c].session = caller[c].session
<1>1. caller[c] \in CallerStates
  BY Zenon DEF Types
<1>2. [caller[c] EXCEPT !.pc = pc] \in CallerStates
  BY <1>1, Zenon DEF CallerStates
<1>3. caller'[c] = [caller[c] EXCEPT !.pc = pc] /\ caller' \in [Callers -> CallerStates]
  BY <1>2, Zenon DEF Goto, Types
<1>. QED  BY <1>1, <1>3, Zenon DEF CallerStates

\* A call that does not come to wait for EndAck, nor sends End, asks nothing.
LEMMA AsksNothing ==
  ASSUME Orderly, NEW c \in Callers, sessions' = sessions,
         m_syncState'.session = m_syncState.session,
         caller'[c].pc = "waitEnd" => caller[c].pc = "waitEnd",
         \A m \in toManager' \ toManager : m.type # "End"
  PROVE  \A sid \in Sids : Asked(sid)' => Asked(sid)
<1>1. \A d \in Callers : d = c
  BY Zenon DEF Orderly
<1>2. ASSUME NEW sid \in Sids, Asked(sid)'
      PROVE  Asked(sid)
  <2>1. EndMessage(sid) \in toManager' => EndMessage(sid) \in toManager
    BY DEF EndMessage
  <2>2. EndMessage(sid)' = EndMessage(sid)
    BY Zenon DEF EndMessage
  <2>. QED  BY <1>1, <1>2, <2>1, <2>2, Zenon DEF Asked
<1>. QED  BY <1>2, Zenon

\* A step that only goes on in the call.
LEMMA GoingOn ==
  ASSUME IInv, Orderly, NEW c \in Callers, NEW pc \in Pcs \ {"idle", "waitEnd"}, Goto(c, pc),
         caller[c].pc # "idle",
         caller[c].pc # "waitStart" \/ StartAnswered,
         UNCHANGED <<m_syncState, m_stopRequested, calls, outcome, toManager, toAgent,
                     sessions, effects>>,
         FlagsOK(c)'
  PROVE  IInv'
<1>1. Types
  BY Zenon DEF IInv
<1>2. /\ caller' \in [Callers -> CallerStates]
      /\ caller'[c].pc = pc /\ caller'[c].n = caller[c].n
  BY <1>1, GotoFacts, Zenon
<1>3. \A sid \in Sids : Asked(sid)' => Asked(sid)
  BY <1>2, AsksNothing, Zenon
<1>4. Moving(c)
  BY <1>1, <1>2, <1>3, Zenon DEF Moving, Proceeding, Types
<1>5. OneStart'
  BY StaysClosed, Zenon
<1>. QED  BY <1>4, <1>5, MovingStep, Zenon

\* Something is not available on the agent: the call fails.
LEMMA LocalFailureStep ==
  ASSUME IInv, Orderly, NEW c \in Callers, LocalFailure(c), UNCHANGED <<sessions, effects>>
  PROVE  IInv'
<1>1. Types /\ FlagsOK(c)
  BY Zenon DEF IInv
<1>2. caller'[c].pc = "failed" /\ caller'[c].n = caller[c].n
  BY <1>1, GotoFacts, Zenon DEF LocalFailure, Pcs
<1>3. Applied' = Applied /\ Differing' = Differing
  BY EffectsSame, Zenon DEF LocalFailure
<1>4. FlagsOK(c)'
  BY <1>1, <1>2, <1>3, Zenon DEF LocalFailure, FlagsOK
<1>. QED  BY <1>4, GoingOn, Zenon DEF LocalFailure, Pcs

\* The wait for StartAck ends with an answer.
LEMMA ReceiveStartAckStep ==
  ASSUME IInv, Orderly, NEW c \in Callers, ReceiveStartAck(c), UNCHANGED <<sessions, effects>>
  PROVE  IInv'
<1>. DEFINE pc == IF m_syncState.syncFailed THEN "failed" ELSE "data"
<1>1. Types /\ FlagsOK(c)
  BY Zenon DEF IInv
<1>2. pc \in Pcs \ {"idle", "waitEnd"} /\ Goto(c, pc)
  BY Zenon DEF ReceiveStartAck, Pcs
<1>3. caller'[c].pc = pc /\ caller'[c].n = caller[c].n
  BY <1>1, <1>2, GotoFacts, Zenon
<1>4. Applied' = Applied /\ Differing' = Differing
  BY EffectsSame, Zenon DEF ReceiveStartAck
<1>5. pc = "data" /\ ~ m_stopRequested => m_syncState.startAckReceived
  BY Zenon DEF ReceiveStartAck, StartAnswered
<1>6. pc \in {"failed", "data"}
  BY Zenon
<1>. HIDE DEF pc
<1>7. FlagsOK(c)'
  BY <1>1, <1>3, <1>4, <1>5, <1>6, Zenon DEF ReceiveStartAck, FlagsOK
<1>. QED  BY <1>2, <1>7, GoingOn, Zenon DEF ReceiveStartAck

\* Only an answer that belongs to the session, and comes before stop(), makes
\* the call a success.
LEMMA ReceiveEndAckStep ==
  ASSUME IInv, Orderly, NEW c \in Callers, ReceiveEndAck(c), UNCHANGED <<sessions, effects>>
  PROVE  IInv'
<1>. DEFINE pc == IF m_syncState.syncFailed THEN "endFailed" ELSE "ok"
<1>1. Types /\ FlagsOK(c)
  BY Zenon DEF IInv
<1>2. pc \in Pcs \ {"idle", "waitEnd"} /\ Goto(c, pc)
  BY Zenon DEF ReceiveEndAck, Pcs
<1>3. caller'[c].pc = pc /\ caller'[c].n = caller[c].n /\ caller'[c].session = caller[c].session
  BY <1>1, <1>2, GotoFacts, Zenon
<1>4. Applied' = Applied /\ Differing' = Differing
  BY EffectsSame, Zenon DEF ReceiveEndAck
<1>5. pc = "ok" => caller[c].n \in Applied
  BY <1>1, Zenon DEF ReceiveEndAck, Waiting, FlagsOK
<1>6. pc \in {"endFailed", "ok"}
  BY Zenon
<1>. HIDE DEF pc
<1>7. FlagsOK(c)'
  BY <1>1, <1>3, <1>4, <1>5, <1>6, Zenon DEF ReceiveEndAck, Waiting, FlagsOK
<1>. QED  BY <1>2, <1>7, GoingOn, Zenon DEF ReceiveEndAck, Waiting

\* Entering a phase keeps everything else.
LEMMA PhaseFacts ==
  ASSUME Types, NEW p \in {"WaitingStartAck", "WaitingEndAck"},
         m_syncState' = [m_syncState EXCEPT !.phase = p]
  PROVE  /\ m_syncState' \in SyncStates
         /\ m_syncState'.phase = p /\ m_syncState'.session = m_syncState.session
         /\ m_syncState'.startAckReceived = m_syncState.startAckReceived
         /\ m_syncState'.endAckReceived = m_syncState.endAckReceived
         /\ m_syncState'.reqRetReceived = m_syncState.reqRetReceived
         /\ m_syncState'.syncFailed = m_syncState.syncFailed
         /\ m_syncState'.lastSyncResult = m_syncState.lastSyncResult
BY Zenon DEF Types, SyncStates

\* The Start message of the current call.
LEMMA StartFacts ==
  ASSUME IInv, Orderly, NEW c \in Callers, caller[c].pc # "idle",
         UNCHANGED <<calls, m_stopRequested, sessions, effects>>
  PROVE  \A m : m = StartMessage(c) => m \in ToManager /\ m.type = "Start" /\ MessageOK(m)'
<1>1. caller[c].n \in DOMAIN calls /\ caller[c].n = Len(calls) /\ caller[c].n \in Nat
  BY Zenon DEF IInv, CurrentCall, Types, CallerStates
<1>2. Mode(calls[caller[c].n].op) \in Operations /\ Len(calls[caller[c].n].items) \in Nat
  BY <1>1, ShapeFacts, Zenon DEF IInv
<1>3. ASSUME NEW m, m = StartMessage(c)
      PROVE  m \in ToManager /\ m.type = "Start" /\ MessageOK(m)'
  <2>1. m \in ToManager
    BY <1>1, <1>2, <1>3, Zenon DEF StartMessage, Shape, ToManager
  <2>2. m.type = "Start" /\ m.n = caller[c].n /\ m.mode = Mode(calls[caller[c].n].op)
          /\ m.size = Len(calls[caller[c].n].items)
    BY <1>3, Zenon DEF StartMessage, Shape
  <2>3. MessageOK(m)'
    BY <1>1, <2>2, Zenon DEF MessageOK
  <2>. QED  BY <2>1, <2>2, <2>3, Zenon
<1>. QED  BY <1>3, Zenon

\* The first Start of a call, or one sent again when none and no answer to one
\* is under way any more.
LEMMA StartSent ==
  ASSUME IInv, Orderly, NEW c \in Callers,
         m_stopRequested \/ Opening = {},
         UNCHANGED <<calls, outcome, m_stopRequested, sessions, effects, toAgent>>,
         toManager' = toManager \cup {StartMessage(c)},
         caller[c].pc \in {"start", "waitStart"}, caller'[c].pc = "waitStart",
         caller' \in [Callers -> CallerStates], caller'[c].n = caller[c].n,
         m_syncState' \in SyncStates, m_syncState'.session = m_syncState.session,
         ~ m_stopRequested => ~ StartAnswered',
         FlagsOK(c)'
  PROVE  IInv'
<1>1. PICK s : s = StartMessage(c)
  BY Zenon
<1>2. s \in ToManager /\ s.type = "Start" /\ MessageOK(s)'
  BY <1>1, StartFacts, Zenon
<1>3. toManager' = toManager \cup {s}
  BY <1>1, Zenon
<1>4. \A sid \in Sids : Asked(sid)' => Asked(sid)
  <2>1. \A m \in toManager' \ toManager : m.type # "End"
    BY <1>2, <1>3, Zenon
  <2>. QED  BY <2>1, AsksNothing, Zenon
<1>5. Moving(c)
  BY <1>2, <1>3, <1>4, Zenon DEF Moving, Proceeding, IInv, Types
<1>6. \A m \in toManager' \ toManager : MessageOK(m)'
  BY <1>2, <1>3, Zenon
<1>7. OneStart'
  <2>1. SUFFICES ASSUME ~ m_stopRequested PROVE OneStart'
    BY Zenon DEF OneStart
  <2>2. Opening = {}
    BY <2>1, Zenon
  <2>3. \A m \in Opening' : m = s
    BY <1>2, <1>3, <2>2, Zenon DEF Opening
  <2>4. \A d \in Callers : d = c
    BY Zenon DEF Orderly
  <2>. QED  BY <2>1, <2>3, <2>4, Zenon DEF OneStart
<1>. QED  BY <1>5, <1>6, <1>7, MovingStep, Zenon

\* Start is sent for the first time.
LEMMA SendStartStep ==
  ASSUME IInv, Orderly, NEW c \in Callers, SendStart(c), UNCHANGED <<sessions, effects>>
  PROVE  IInv'
<1>1. Types /\ FlagsOK(c) /\ OneStart
  BY Zenon DEF IInv
<1>2. caller[c].pc = "start" /\ m_syncState = Reset
  BY <1>1, Zenon DEF SendStart, FlagsOK
<1>3. /\ caller' \in [Callers -> CallerStates]
      /\ caller'[c].pc = "waitStart" /\ caller'[c].n = caller[c].n
  BY <1>1, GotoFacts, Zenon DEF SendStart, Pcs
<1>4. /\ m_syncState' \in SyncStates /\ m_syncState'.phase = "WaitingStartAck"
      /\ m_syncState'.session = 0 /\ ~ m_syncState'.startAckReceived /\ ~ m_syncState'.syncFailed
      /\ ~ m_syncState'.endAckReceived /\ m_syncState'.lastSyncResult = "SUCCESS"
  BY <1>1, <1>2, PhaseFacts, Zenon DEF SendStart, Reset
<1>5. FlagsOK(c)'
  BY <1>3, <1>4, Zenon DEF FlagsOK
<1>6. m_stopRequested \/ Opening = {}
  BY <1>1, <1>2, Zenon DEF OneStart
<1>7. ~ m_stopRequested => ~ StartAnswered'
  BY <1>4, Zenon DEF StartAnswered, SendStart
<1>8. m_syncState'.session = m_syncState.session
  BY <1>2, <1>4, Zenon DEF Reset
<1>. QED  BY <1>2, <1>3, <1>4, <1>5, <1>6, <1>7, <1>8, StartSent, Zenon DEF SendStart

\* Without late answers, a wait for StartAck ends when there is nothing to wait
\* for; a session the manager opens later is not one of an earlier attempt.
LEMMA StartTimesOutStep ==
  ASSUME IInv, Orderly, NEW c \in Callers, StartTimesOut(c), StartWaitOver,
         UNCHANGED <<sessions, effects>>
  PROVE  IInv'
<1>1. Types /\ FlagsOK(c) /\ OneStart /\ caller[c] \in CallerStates
  BY Zenon DEF IInv, Types
<1>2. caller[c].pc = "waitStart" /\ ~ StartAnswered
  BY Zenon DEF StartTimesOut
<1>3. Opening = {}
  BY Zenon DEF StartWaitOver, NoneUnderWay, Orderly, Opening
<1>4. Applied' = Applied /\ Differing' = Differing
  BY EffectsSame, Zenon DEF StartTimesOut
<1>5. CASE caller[c].attempt < m_retries
  <2>1. caller' = [caller EXCEPT ![c].attempt = caller[c].attempt + 1]
    BY <1>5, Zenon DEF StartTimesOut
  <2>2. [caller[c] EXCEPT !.attempt = caller[c].attempt + 1] \in CallerStates
    BY <1>1 DEF CallerStates
  <2>3. caller' \in [Callers -> CallerStates]
          /\ caller'[c] = [caller[c] EXCEPT !.attempt = caller[c].attempt + 1]
    BY <1>1, <2>1, <2>2, Zenon DEF Types
  <2>4. caller'[c].pc = "waitStart" /\ caller'[c].n = caller[c].n
    BY <1>1, <1>2, <2>3, Zenon DEF CallerStates
  <2>5. FlagsOK(c)'
    BY <1>1, <1>2, <1>4, <2>4, Zenon DEF FlagsOK, StartTimesOut
  <2>6. ~ m_stopRequested => ~ StartAnswered'
    BY <1>2, Zenon DEF StartAnswered, StartTimesOut
  <2>7. toManager' = toManager \cup {StartMessage(c)}
    BY <1>5, Zenon DEF StartTimesOut
  <2>8. m_syncState' \in SyncStates /\ m_syncState'.session = m_syncState.session
    BY <1>1, Zenon DEF Types, StartTimesOut
  <2>. QED  BY <1>2, <1>3, <2>3, <2>4, <2>5, <2>6, <2>7, <2>8, StartSent, Zenon DEF StartTimesOut
<1>6. CASE ~ (caller[c].attempt < m_retries)
  <2>1. Goto(c, "failed") /\ toManager' = toManager
    BY <1>6, Zenon DEF StartTimesOut
  <2>2. /\ caller' \in [Callers -> CallerStates]
        /\ caller'[c].pc = "failed" /\ caller'[c].n = caller[c].n
    BY <1>1, <2>1, GotoFacts, Zenon DEF Pcs
  <2>3. \A sid \in Sids : Asked(sid)' => Asked(sid)
    BY <2>1, <2>2, AsksNothing, Zenon DEF StartTimesOut
  <2>4. Moving(c)
    BY <1>1, <1>2, <2>1, <2>2, <2>3, Zenon DEF Moving, Proceeding, Types, StartTimesOut
  <2>5. OneStart'
    BY <1>3, <2>1, Zenon DEF OneStart, Opening, StartTimesOut
  <2>6. FlagsOK(c)'
    BY <1>1, <1>4, <2>2, Zenon DEF FlagsOK, StartTimesOut
  <2>. QED  BY <2>1, <2>4, <2>5, <2>6, MovingStep, Zenon
<1>. QED  BY <1>5, <1>6, Zenon

\* Data the call sends to its own session.
LEMMA DataFacts ==
  ASSUME IInv, Orderly, NEW c \in Callers, caller[c].pc # "idle", NEW sid \in Sids,
         sessions[sid].n = caller[c].n, NEW seq \in Seqs(c), UNCHANGED <<calls, sessions>>
  PROVE  \A m : m = DataMessage(c, sid, seq, "value") =>
           m \in ToManager /\ m.type = "Data" /\ MessageOK(m)'
<1>1. caller[c].n \in DOMAIN calls /\ caller[c].n \in Nat
  BY Zenon DEF IInv, CurrentCall, Types, CallerStates
<1>2. seq \in 1..Len(calls[caller[c].n].items) /\ Len(calls[caller[c].n].items) \in Nat
  BY <1>1, ShapeFacts, Zenon DEF IInv, Seqs, Shape
<1>3. seq \in Nat /\ sid \in Nat /\ "value" \in Kinds
  BY <1>2 DEF IInv, Types, Sids, Kinds
<1>4. sessions[sid].size = Len(calls[caller[c].n].items)
  BY Zenon DEF IInv, SessionOK
<1>5. ASSUME NEW m, m = DataMessage(c, sid, seq, "value")
      PROVE  m \in ToManager /\ m.type = "Data" /\ MessageOK(m)'
  <2>1. m \in ToManager
    BY <1>1, <1>3, <1>5, Zenon DEF DataMessage, ToManager
  <2>2. m.type = "Data" /\ m.sid = sid /\ m.n = caller[c].n /\ m.kind = "value" /\ m.seq = seq
    BY <1>5, Zenon DEF DataMessage
  <2>3. MessageOK(m)'
    BY <1>2, <1>4, <2>2, Zenon DEF MessageOK, Sids
  <2>. QED  BY <2>1, <2>2, <2>3, Zenon
<1>. QED  BY <1>5, Zenon

\* Before stop(), the session of a call that has one is its own.
LEMMA OwnSession ==
  ASSUME IInv, NEW c \in Callers, ~ m_stopRequested,
         caller[c].pc \in {"data", "end", "delay", "waitEnd"}
  PROVE  /\ m_syncState.session \in Sids /\ m_syncState.session # 0
         /\ sessions[m_syncState.session].n = caller[c].n
<1>1. m_syncState.session # 0 /\ m_syncState.session \in Nat
  BY Zenon DEF IInv, FlagsOK, Types, SyncStates
<1>. QED  BY <1>1, Zenon DEF IInv, InSession, Trusted

\* A call that has been stopped sends no data; its checksum may go to a session
\* of another call, which is never asked for.
LEMMA SendDataStep ==
  ASSUME IInv, Orderly, NEW c \in Callers, SendData(c), UNCHANGED <<sessions, effects>>
  PROVE  IInv'
<1>. DEFINE data == {DataMessage(c, m_syncState.session, seq, Shape(c).items[seq]) : seq \in Seqs(c)}
            checksum == IF Shape(c).op = "CHECK"
                        THEN {[type |-> "Checksum", sid |-> m_syncState.session, n |-> caller[c].n]}
                        ELSE {}
            stopped == m_stopRequested /\ \E m \in data : m.kind # "clean"
<1>1. Types /\ FlagsOK(c) /\ InSession(c) /\ caller[c].pc = "data" /\ m_syncState \in SyncStates
  BY Zenon DEF IInv, SendData, Types
<1>2. caller[c].n \in DOMAIN calls /\ caller[c].n \in Nat /\ m_syncState.session \in Nat
  BY <1>1, Zenon DEF IInv, CurrentCall, Types, CallerStates, SyncStates
<1>3. Applied' = Applied /\ Differing' = Differing
  BY EffectsSame, Zenon DEF SendData
<1>4. CASE stopped
  <2>1. Goto(c, "failed") /\ toManager' = toManager
    BY <1>4, Zenon DEF SendData
  <2>2. caller'[c].pc = "failed" /\ caller'[c].n = caller[c].n
    BY <1>1, <2>1, GotoFacts, Zenon DEF Pcs
  <2>3. FlagsOK(c)'
    BY <1>1, <1>3, <2>2, Zenon DEF FlagsOK, SendData
  <2>. QED  BY <1>1, <2>1, <2>3, GoingOn, Zenon DEF SendData, Pcs
<1>5. CASE ~ stopped
  <2>1. Goto(c, "end") /\ toManager' = toManager \cup data \cup checksum
    BY <1>5, Zenon DEF SendData
  <2>2. /\ caller' \in [Callers -> CallerStates]
        /\ caller'[c].pc = "end" /\ caller'[c].n = caller[c].n
    BY <1>1, <2>1, GotoFacts, Zenon DEF Pcs
  <2>3. \A seq \in Seqs(c) : Shape(c).items[seq] = "value"
    BY <1>1, <1>2, ShapeFacts, Zenon DEF Seqs, Shape
  <2>4. ASSUME NEW m \in data
        PROVE  m \in ToManager /\ m.type = "Data" /\ MessageOK(m)'
    <3>1. PICK seq \in Seqs(c) : m = DataMessage(c, m_syncState.session, seq, "value")
      BY <2>3, Zenon
    <3>2. m.kind = "value"
      BY <3>1, Zenon DEF DataMessage
    <3>3. ~ m_stopRequested
      BY <1>5, <3>2, Zenon
    <3>4. m_syncState.session \in Sids /\ sessions[m_syncState.session].n = caller[c].n
      BY <1>1, <3>3, OwnSession, Zenon
    <3>. QED  BY <1>1, <3>1, <3>4, DataFacts, Zenon DEF SendData
  <2>. HIDE DEF data
  <2>5. \A m \in checksum : m = [type |-> "Checksum", sid |-> m_syncState.session, n |-> caller[c].n]
    BY Zenon
  <2>6. \A m \in checksum : m.type = "Checksum" /\ m.sid = m_syncState.session /\ m.n = caller[c].n
    BY <2>5
  <2>7. \A m \in checksum : m \in ToManager
    BY <1>2, <2>5 DEF ToManager
  <2>. HIDE DEF checksum
  <2>8. \A sid \in Sids : Asked(sid)' => Asked(sid)
    <3>1. \A m \in toManager' \ toManager : m.type # "End"
      BY <2>1, <2>4, <2>6, Zenon
    <3>. QED  BY <2>2, <3>1, AsksNothing, Zenon DEF SendData
  <2>9. \A m \in checksum : MessageOK(m)'
    <3>1. \A sid \in Sids : Trusted(sid)' => Trusted(sid)
      BY <2>8, Zenon DEF Trusted, SendData
    <3>2. m_syncState.session # 0 =>
            /\ m_syncState.session \in Sids
            /\ Trusted(m_syncState.session) => sessions[m_syncState.session].n = caller[c].n
      BY <1>1, <1>2, Zenon DEF InSession
    <3>3. \A sid \in Sids : sid # 0 /\ Trusted(sid) /\ sid = m_syncState.session =>
            sessions[sid].n = caller[c].n
      BY <3>2, Zenon
    <3>4. Sids' = Sids /\ sessions' = sessions /\ calls' = calls
      BY Zenon DEF Sids, SendData
    <3>. QED  BY <1>2, <2>6, <3>1, <3>2, <3>3, <3>4, Zenon DEF MessageOK
  <2>10. Moving(c)
    BY <1>1, <2>1, <2>2, <2>4, <2>7, <2>8, Zenon DEF Moving, Proceeding, Types, SendData
  <2>11. OneStart'
    <3>1. \A m \in toManager' \ toManager : m.type \notin {"Start", "StartAck"}
      BY <2>1, <2>4, <2>6, Zenon
    <3>. QED  BY <1>1, <3>1, StaysClosed, Zenon DEF SendData
  <2>12. FlagsOK(c)'
    BY <1>1, <1>3, <2>2, Zenon DEF FlagsOK, SendData
  <2>. QED  BY <2>1, <2>4, <2>9, <2>10, <2>11, <2>12, MovingStep, Zenon
<1>. QED  BY <1>4, <1>5, Zenon

\* The call turns to the end of its session.
LEMMA EnterEndStep ==
  ASSUME IInv, Orderly, NEW c \in Callers, EnterEnd(c), UNCHANGED <<sessions, effects>>
  PROVE  IInv'
<1>1. Types /\ FlagsOK(c) /\ caller[c].pc = "end" /\ caller[c] \in CallerStates
        /\ m_syncState.session \in Nat
  BY Zenon DEF IInv, EnterEnd, Types, SyncStates
<1>2. Applied' = Applied /\ Differing' = Differing
  BY EffectsSame, Zenon DEF EnterEnd
<1>. DEFINE r == [caller[c] EXCEPT !.pc = "delay", !.session = m_syncState.session, !.attempt = 0]
<1>3. r \in CallerStates /\ r.pc = "delay" /\ r.n = caller[c].n /\ r.session = m_syncState.session
  BY <1>1, Zenon DEF CallerStates, Pcs
<1>4. caller'[c] = r /\ caller' \in [Callers -> CallerStates]
  BY <1>1, <1>3, Zenon DEF EnterEnd, Types
<1>5. caller'[c].pc = "delay" /\ caller'[c].n = caller[c].n
        /\ caller'[c].session = m_syncState.session
  BY <1>3, <1>4, Zenon
<1>6. /\ m_syncState' \in SyncStates
      /\ m_syncState'.phase = "WaitingEndAck" /\ m_syncState'.session = m_syncState.session
      /\ m_syncState'.startAckReceived = m_syncState.startAckReceived
      /\ m_syncState'.endAckReceived = m_syncState.endAckReceived
      /\ m_syncState'.lastSyncResult = m_syncState.lastSyncResult
  BY <1>1, PhaseFacts, Zenon DEF EnterEnd
<1>7. \A sid \in Sids : Asked(sid)' => Asked(sid)
  BY <1>5, <1>6, AsksNothing, Zenon DEF EnterEnd
<1>8. Moving(c)
  BY <1>1, <1>4, <1>5, <1>6, <1>7, Zenon DEF Moving, Proceeding, Types, EnterEnd
<1>9. OneStart'
  BY <1>1, StaysClosed, Zenon DEF EnterEnd
<1>10. FlagsOK(c)'
  BY <1>1, <1>2, <1>5, <1>6 DEF FlagsOK, EnterEnd
<1>. QED  BY <1>8, <1>9, <1>10, MovingStep, Zenon DEF EnterEnd

\* An End of the session the call is in.
LEMMA EndSent ==
  ASSUME IInv, Orderly, NEW c \in Callers,
         UNCHANGED <<m_syncState, calls, outcome, m_stopRequested, sessions, effects, toAgent>>,
         toManager' = toManager \cup {EndMessage(caller[c].session)},
         \/ caller[c].pc = "delay" /\ ~ m_stopRequested
         \/ caller[c].pc = "waitEnd",
         caller' \in [Callers -> CallerStates], caller'[c].pc = "waitEnd",
         caller'[c].n = caller[c].n, caller'[c].session = caller[c].session
  PROVE  IInv'
<1>1. Types /\ FlagsOK(c) /\ InSession(c) /\ m_syncState.session \in Nat
  BY Zenon DEF IInv, Types, SyncStates
<1>2. Applied' = Applied /\ Differing' = Differing
  BY EffectsSame, Zenon
<1>3. caller[c].session = m_syncState.session /\ m_syncState.session # 0
  BY <1>1, Zenon DEF FlagsOK
<1>4. PICK e : e = EndMessage(caller[c].session)
  BY Zenon
<1>5. toManager' = toManager \cup {e} /\ e.type = "End" /\ e.sid = m_syncState.session
        /\ e \in ToManager
  BY <1>1, <1>3, <1>4, Zenon DEF EndMessage, ToManager
<1>6. \A d \in Callers : d = c
  BY Zenon DEF Orderly
<1>7. ASSUME NEW sid \in Sids, Asked(sid)'
      PROVE  Asked(sid) \/ (sid = m_syncState.session /\ ~ m_stopRequested)
  <2>1. CASE sid = m_syncState.session
    BY <2>1, Zenon DEF Asked
  <2>2. CASE sid # m_syncState.session
    <3>1. EndMessage(sid) \in toManager' => EndMessage(sid) \in toManager
      BY <1>5, <2>2 DEF EndMessage
    <3>2. EndMessage(sid)' = EndMessage(sid)
      BY Zenon DEF EndMessage
    <3>. QED  BY <1>7, <2>2, <3>1, <3>2, Zenon DEF Asked
  <2>. QED  BY <2>1, <2>2, Zenon
<1>8. Moving(c)
  BY <1>1, <1>5, <1>7, Zenon DEF Moving, Proceeding, Types
<1>9. \A m \in toManager' \ toManager : MessageOK(m)'
  <2>1. m_syncState.session \in Sids
    BY <1>1, <1>3, Zenon DEF InSession
  <2>. QED  BY <1>5, <2>1, Zenon DEF MessageOK, Sids
<1>10. OneStart'
  BY <1>5, StaysClosed, Zenon
<1>11. FlagsOK(c)'
  BY <1>1, <1>2, <1>3, Zenon DEF FlagsOK
<1>. QED  BY <1>8, <1>9, <1>10, <1>11, MovingStep, Zenon

\* End is sent for the first time.
LEMMA SendEndStep ==
  ASSUME IInv, Orderly, NEW c \in Callers, SendEnd(c), UNCHANGED <<sessions, effects>>
  PROVE  IInv'
<1>1. Types /\ FlagsOK(c) /\ caller[c].pc = "delay" /\ caller[c] \in CallerStates
  BY Zenon DEF IInv, SendEnd, Types
<1>2. CASE m_stopRequested
  <2>1. Goto(c, "endFailed") /\ toManager' = toManager
    BY <1>2, Zenon DEF SendEnd
  <2>2. caller'[c].pc = "endFailed" /\ caller'[c].n = caller[c].n
          /\ caller'[c].session = caller[c].session
    BY <1>1, <2>1, GotoFacts, Zenon DEF Pcs
  <2>3. Applied' = Applied /\ Differing' = Differing
    BY EffectsSame, Zenon DEF SendEnd
  <2>4. FlagsOK(c)'
    BY <1>1, <2>2, <2>3, Zenon DEF FlagsOK, SendEnd
  <2>. QED  BY <1>1, <2>1, <2>4, GoingOn, Zenon DEF SendEnd, Pcs
<1>3. CASE ~ m_stopRequested
  <2>. DEFINE r == [caller[c] EXCEPT !.pc = "waitEnd", !.sentEnd = TRUE]
  <2>1. r \in CallerStates /\ r.pc = "waitEnd" /\ r.n = caller[c].n /\ r.session = caller[c].session
    BY <1>1, Zenon DEF CallerStates, Pcs
  <2>2. caller'[c] = r /\ caller' \in [Callers -> CallerStates]
    BY <1>1, <1>3, <2>1, Zenon DEF SendEnd, Types
  <2>. QED  BY <1>1, <1>3, <2>1, <2>2, EndSent, Zenon DEF SendEnd
<1>. QED  BY <1>2, <1>3, Zenon DEF IInv, Types

\* A wait for EndAck ends without an answer.
LEMMA EndTimesOutStep ==
  ASSUME IInv, Orderly, NEW c \in Callers, EndTimesOut(c), UNCHANGED <<sessions, effects>>
  PROVE  IInv'
<1>1. Types /\ FlagsOK(c) /\ caller[c].pc = "waitEnd" /\ caller[c] \in CallerStates
  BY Zenon DEF IInv, EndTimesOut, Types
<1>2. CASE ~ (Attempts(c) <= m_retries)
  <2>1. Goto(c, "endFailed") /\ toManager' = toManager
    BY <1>2, Zenon DEF EndTimesOut
  <2>2. caller'[c].pc = "endFailed" /\ caller'[c].n = caller[c].n
          /\ caller'[c].session = caller[c].session
    BY <1>1, <2>1, GotoFacts, Zenon DEF Pcs
  <2>3. Applied' = Applied /\ Differing' = Differing
    BY EffectsSame, Zenon DEF EndTimesOut
  <2>4. FlagsOK(c)'
    BY <1>1, <2>2, <2>3, Zenon DEF FlagsOK, EndTimesOut
  <2>. QED  BY <1>1, <2>1, <2>4, GoingOn, Zenon DEF EndTimesOut, Pcs
<1>3. CASE Attempts(c) <= m_retries
  <2>1. PICK a : a = Attempts(c)
    BY Zenon
  <2>2. a \in Nat
    BY <1>1, <2>1 DEF Attempts, CallerStates
  <2>. DEFINE r == [caller[c] EXCEPT !.attempt = a, !.sentEnd = TRUE]
  <2>3. r \in CallerStates /\ r.pc = "waitEnd" /\ r.n = caller[c].n /\ r.session = caller[c].session
    BY <1>1, <2>2, Zenon DEF CallerStates, Pcs
  <2>4. caller'[c] = r /\ caller' \in [Callers -> CallerStates]
    BY <1>1, <1>3, <2>1, <2>3, Zenon DEF EndTimesOut, Types
  <2>. QED  BY <1>1, <1>3, <2>3, <2>4, EndSent, Zenon DEF EndTimesOut
<1>. QED  BY <1>2, <1>3, Zenon

\* A retransmission goes to the session of the call.
LEMMA ReceiveReqRetStep ==
  ASSUME IInv, Orderly, NEW c \in Callers, ReceiveReqRet(c), UNCHANGED <<sessions, effects>>
  PROVE  IInv'
<1>1. Types /\ FlagsOK(c) /\ caller[c].pc = "waitEnd" /\ caller[c] \in CallerStates
        /\ ~ m_stopRequested /\ m_syncState \in SyncStates
  BY Zenon DEF IInv, ReceiveReqRet, Waiting, Types
<1>2. Applied' = Applied /\ Differing' = Differing
  BY EffectsSame, Zenon DEF ReceiveReqRet
<1>3. /\ m_syncState' \in SyncStates
      /\ m_syncState'.phase = m_syncState.phase /\ m_syncState'.session = m_syncState.session
      /\ m_syncState'.startAckReceived = m_syncState.startAckReceived
      /\ m_syncState'.endAckReceived = m_syncState.endAckReceived
      /\ m_syncState'.lastSyncResult = m_syncState.lastSyncResult
  <2>1. m_syncState' = [m_syncState EXCEPT !.reqRetReceived = FALSE, !.reqRetRanges = {}]
    BY Zenon DEF ReceiveReqRet
  <2>. QED  BY <1>1, <2>1, Zenon DEF SyncStates
<1>4. CASE Goto(c, "endFailed") /\ toManager' = toManager
  <2>1. /\ caller' \in [Callers -> CallerStates]
        /\ caller'[c].pc = "endFailed" /\ caller'[c].n = caller[c].n
        /\ caller'[c].session = caller[c].session
    BY <1>1, <1>4, GotoFacts, Zenon DEF Pcs
  <2>2. \A sid \in Sids : Asked(sid)' => Asked(sid)
    BY <1>3, <1>4, <2>1, AsksNothing, Zenon DEF ReceiveReqRet
  <2>3. Moving(c)
    BY <1>1, <1>3, <1>4, <2>1, <2>2, Zenon DEF Moving, Proceeding, Types, ReceiveReqRet
  <2>4. OneStart'
    BY <1>1, <1>4, StaysClosed, Zenon DEF ReceiveReqRet
  <2>5. FlagsOK(c)'
    BY <1>1, <1>2, <1>3, <2>1, ZenonT(30) DEF FlagsOK, ReceiveReqRet
  <2>. QED  BY <1>4, <2>3, <2>4, <2>5, MovingStep, Zenon
<1>. DEFINE data == {DataMessage(c, caller[c].session, seq, "value") : seq \in Requested(c)}
<1>5. CASE caller' = [caller EXCEPT ![c].sentEnd = FALSE] /\ toManager' = toManager \cup data
  <2>. DEFINE r == [caller[c] EXCEPT !.sentEnd = FALSE]
  <2>1. r \in CallerStates /\ r.pc = "waitEnd" /\ r.n = caller[c].n /\ r.session = caller[c].session
    BY <1>1, ZenonT(30) DEF CallerStates
  <2>2. caller'[c] = r /\ caller' \in [Callers -> CallerStates]
    BY <1>1, <1>5, <2>1, Zenon DEF Types
  <2>3. caller'[c].pc = "waitEnd" /\ caller'[c].n = caller[c].n
          /\ caller'[c].session = caller[c].session
    BY <2>1, <2>2, Zenon
  <2>4. caller[c].session = m_syncState.session
    BY <1>1, Zenon DEF FlagsOK
  <2>5. ASSUME NEW m \in data
        PROVE  m \in ToManager /\ m.type = "Data" /\ MessageOK(m)'
    <3>1. PICK seq \in Seqs(c) : m = DataMessage(c, m_syncState.session, seq, "value")
      BY <2>4, Zenon DEF Requested
    <3>2. m_syncState.session \in Sids /\ sessions[m_syncState.session].n = caller[c].n
      BY <1>1, OwnSession, Zenon
    <3>. QED  BY <1>1, <3>1, <3>2, DataFacts, ZenonT(30) DEF ReceiveReqRet
  <2>. HIDE DEF data
  <2>6. \A m \in toManager' \ toManager : m.type = "Data" /\ MessageOK(m)'
    BY <1>5, <2>5, Zenon
  <2>7. \A sid \in Sids : Asked(sid)' => Asked(sid)
    BY <1>1, <1>3, <2>6, AsksNothing, Zenon
  <2>8. Moving(c)
    BY <1>1, <1>3, <1>5, <2>2, <2>3, <2>5, <2>7, ZenonT(30) DEF Moving, Proceeding, Types,
       ReceiveReqRet
  <2>9. OneStart'
    BY <1>1, <2>6, StaysClosed, Zenon DEF ReceiveReqRet
  <2>10. FlagsOK(c)'
    BY <1>1, <1>2, <1>3, <2>3, ZenonT(30) DEF FlagsOK, ReceiveReqRet
  <2>. QED  BY <2>6, <2>8, <2>9, <2>10, MovingStep, Zenon
<1>. QED  BY <1>4, <1>5, Zenon DEF ReceiveReqRet

\* A Processing answer lets the call wait on.
LEMMA ReceiveProcessingStep ==
  ASSUME IInv, Orderly, NEW c \in Callers, ReceiveProcessing(c), UNCHANGED <<sessions, effects>>
  PROVE  IInv'
<1>1. Types /\ FlagsOK(c) /\ caller[c].pc = "waitEnd" /\ caller[c] \in CallerStates
        /\ m_syncState \in SyncStates
  BY Zenon DEF IInv, ReceiveProcessing, Waiting, Types
<1>2. Applied' = Applied /\ Differing' = Differing
  BY EffectsSame, Zenon DEF ReceiveProcessing
<1>3. /\ m_syncState' \in SyncStates
      /\ m_syncState'.phase = m_syncState.phase /\ m_syncState'.session = m_syncState.session
      /\ m_syncState'.startAckReceived = m_syncState.startAckReceived
      /\ m_syncState'.endAckReceived = m_syncState.endAckReceived
      /\ m_syncState'.lastSyncResult = m_syncState.lastSyncResult
  <2>1. m_syncState' = [m_syncState EXCEPT !.processingAckReceived = FALSE]
    BY Zenon DEF ReceiveProcessing
  <2>. QED  BY <1>1, <2>1, Zenon DEF SyncStates
<1>. DEFINE r == [caller[c] EXCEPT !.sentEnd = FALSE]
<1>4. r \in CallerStates /\ r.pc = "waitEnd" /\ r.n = caller[c].n /\ r.session = caller[c].session
  BY <1>1, ZenonT(30) DEF CallerStates
<1>5. caller'[c] = r /\ caller' \in [Callers -> CallerStates]
  BY <1>1, <1>4, Zenon DEF Types, ReceiveProcessing
<1>6. caller'[c].pc = "waitEnd" /\ caller'[c].n = caller[c].n
        /\ caller'[c].session = caller[c].session
  BY <1>4, <1>5, Zenon
<1>7. \A sid \in Sids : Asked(sid)' => Asked(sid)
  BY <1>1, <1>3, AsksNothing, Zenon DEF ReceiveProcessing
<1>8. Moving(c)
  BY <1>1, <1>3, <1>5, <1>6, <1>7, Zenon DEF Moving, Proceeding, Types, ReceiveProcessing
<1>9. OneStart'
  BY <1>1, StaysClosed, Zenon DEF ReceiveProcessing
<1>10. FlagsOK(c)'
  BY <1>1, <1>2, <1>3, <1>6, SMTT(30) DEF FlagsOK, ReceiveProcessing
<1>. QED  BY <1>8, <1>9, <1>10, MovingStep, Zenon DEF ReceiveProcessing

\* The call returns; success is reported from "ok" only.
LEMMA FinishStep ==
  ASSUME IInv, Orderly, NEW c \in Callers, Finish(c), UNCHANGED <<sessions, effects>>
  PROVE  IInv'
<1>1. Types /\ FlagsOK(c) /\ caller[c].pc \in {"ok", "failed", "endFailed"}
        /\ SuccessIsApplied /\ CurrentCall(c)
  BY Zenon DEF IInv, Finish
<1>2. caller[c].n \in DOMAIN calls /\ outcome[caller[c].n] = "open" /\ DOMAIN outcome = DOMAIN calls
  BY <1>1 DEF CurrentCall, Types
<1>3. Reset \in SyncStates /\ Idle \in CallerStates /\ Idle.pc = "idle" /\ Reset.session = 0
  BY Zenon DEF Reset, SyncStates, Idle, CallerStates, Pcs
<1>4. caller'[c] = Idle /\ caller' \in [Callers -> CallerStates] /\ m_syncState' = Reset
  BY <1>1, <1>3, Zenon DEF Finish, Types
<1>5. Result(c) \in {"ok", "failed", "mismatch"} /\ (Result(c) = "ok" => caller[c].pc = "ok")
  BY Zenon DEF Result
<1>6. /\ outcome' \in Seq({"open", "ok", "failed", "mismatch"}) /\ Len(outcome') = Len(outcome)
      /\ outcome' = [outcome EXCEPT ![caller[c].n] = Result(c)]
  BY <1>1, <1>2, <1>5 DEF Finish, Types
<1>7. Proceeding(c)
  <2>1. \A d \in Callers : d = c
    BY Zenon DEF Orderly
  <2>2. ASSUME NEW sid \in Sids, Asked(sid)'
        PROVE  Asked(sid)
    <3>1. caller'[c].pc # "waitEnd"
      BY <1>3, <1>4, Zenon
    <3>. QED  BY <2>1, <2>2, <3>1, Zenon DEF Asked, Finish, EndMessage
  <2>. QED  BY <1>3, <1>4, <2>2, Zenon DEF Proceeding, Finish
<1>8. /\ \A sid \in Sids' : SessionOK(sid)'
      /\ \A e \in effects' : EffectOK(e)'
      /\ \A m \in toManager' : MessageOK(m)'
      /\ \A m \in toAgent' : AnswerOK(m)'
      /\ InSession(c)'
      /\ Applied' = Applied
  BY <1>7, ProceedingFrame, Zenon DEF Finish
<1>9. Types'
  BY <1>1, <1>3, <1>4, <1>6, ZenonT(30) DEF Types, Finish
<1>10. CurrentCall(c)' /\ FlagsOK(c)'
  <2>1. m_syncState'.session = 0 /\ ~ m_syncState'.startAckReceived /\ ~ m_syncState'.endAckReceived
          /\ m_syncState'.lastSyncResult = "SUCCESS" /\ caller'[c].pc = "idle"
    BY <1>3, <1>4, Zenon DEF Reset
  <2>. QED  BY <1>4, <2>1, Zenon DEF CurrentCall, FlagsOK
<1>11. OneStart'
  BY <1>1, StaysClosed, Zenon DEF Finish
<1>12. SuccessIsApplied'
  <2>1. ASSUME NEW n \in DOMAIN outcome', outcome'[n] = "ok"
        PROVE  n \in Applied
    <3>1. CASE n = caller[c].n
      BY <1>1, <1>2, <1>5, <1>6, <2>1, <3>1, ZenonT(30) DEF FlagsOK
    <3>2. CASE n # caller[c].n
      BY <1>1, <1>2, <1>6, <2>1, <3>2, ZenonT(30) DEF SuccessIsApplied
    <3>. QED  BY <3>1, <3>2, Zenon
  <2>. QED  BY <1>8, <2>1, Zenon DEF SuccessIsApplied
<1>13. \A d \in Callers : d = c
  BY Zenon DEF Orderly
<1>. QED  BY <1>8, <1>9, <1>10, <1>11, <1>12, <1>13, Zenon DEF IInv
=============================================================================
