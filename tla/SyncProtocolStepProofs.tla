----------------------- MODULE SyncProtocolStepProofs -----------------------
(***************************************************************************)
(* The other steps preserve the invariant of SyncProtocolProofs: a new     *)
(* call, the stop, the loss of messages, the thread that parses the        *)
(* manager's answers and the manager.  The theorems follow: a call that    *)
(* reports success has been applied, SyncProtocol implements SyncSession,  *)
(* and no batch fails before something has gone wrong.                     *)
(***************************************************************************)
EXTENDS SyncProtocolProofs

-----------------------------------------------------------------------------
(* A new call, stop(), and messages that are lost *)

\* Nothing has been done for a call before it is made.
LEMMA NewCallNotApplied ==
  ASSUME IInv, Orderly, NEW c \in Callers, NEW shape \in Shapes, Begin(c, shape), effects' = effects
  PROVE  /\ Applied' = Applied /\ Differing' = Differing
         /\ calls' \in Seq(Shapes) /\ Len(calls') = Len(calls) + 1
         /\ DOMAIN calls' = DOMAIN calls \cup {Len(calls) + 1} /\ Len(calls) + 1 \notin DOMAIN calls
         /\ \A n \in DOMAIN calls : calls'[n] = calls[n]
<1>1. /\ calls' \in Seq(Shapes) /\ Len(calls') = Len(calls) + 1
      /\ DOMAIN calls' = DOMAIN calls \cup {Len(calls) + 1} /\ Len(calls) + 1 \notin DOMAIN calls
      /\ \A n \in DOMAIN calls : calls'[n] = calls[n]
      /\ calls'[Len(calls) + 1] = shape
  BY DEF IInv, Types, Begin
<1>2. ASSUME NEW n \in DOMAIN calls, NEW e
      PROVE  DoneBy(n, e)' <=> DoneBy(n, e)
  <2>1. calls'[n] = calls[n]
    BY <1>1, Zenon
  <2>2. Batch(n)' = Batch(n)
    BY <2>1, Zenon DEF Batch
  <2>. QED  BY <2>1, <2>2, Zenon DEF DoneBy
<1>3. PICK k : k = Len(calls) + 1
  BY Zenon
<1>4. ASSUME NEW e \in effects, DoneBy(k, e)'
      PROVE  FALSE
  <2>1. EffectOK(e)
    BY Zenon DEF IInv
  <2>2. calls'[k] = shape
    BY <1>1, <1>3, Zenon
  <2>3. CASE shape.op \in {"CHECK", "META"}
    BY <1>1, <1>3, <1>4, <2>1, <2>2, <2>3 DEF DoneBy, EffectOK, IInv, Types
  <2>4. CASE shape.op \notin {"CHECK", "META"}
    <3>1. Len(shape.items) # 0 /\ shape.items \in Seq(Kinds)
      BY <2>4, AgentAssumption, Zenon DEF Orderly
    <3>2. 1 \in 1..Len(shape.items)
      BY <3>1
    <3>3. [n |-> k, seq |-> 1, kind |-> shape.items[1]] \in Batch(k)'
      BY <2>2, <3>2, Zenon DEF Batch
    <3>4. e.items = Batch(k)'
      BY <1>4, Zenon DEF DoneBy
    <3>5. PICK item \in e.items : item.n = k
      BY <3>3, <3>4
    <3>. QED  BY <1>1, <1>3, <2>1, <3>5, Zenon DEF EffectOK
  <2>. QED  BY <2>3, <2>4, Zenon
<1>5. Applied' = Applied
  <2>1. ASSUME NEW n \in Applied
        PROVE  n \in Applied'
    BY <1>1, <1>2, Zenon DEF Applied
  <2>2. ASSUME NEW n \in Applied'
        PROVE  n \in Applied
    <3>1. n \in DOMAIN calls' /\ \E e \in effects : DoneBy(n, e)'
      BY <2>2, Zenon DEF Applied
    <3>2. n \in DOMAIN calls
      BY <1>1, <1>3, <1>4, <3>1, Zenon
    <3>. QED  BY <1>2, <3>1, <3>2, Zenon DEF Applied
  <2>. QED  BY <2>1, <2>2, Zenon
<1>6. Differing' = Differing
  <2>1. \A e \in effects : e.checksum # k
    BY <1>3 DEF IInv, EffectOK, Types
  <2>. QED  BY <1>1, <1>3, <2>1, Zenon DEF Differing
<1>. QED  BY <1>1, <1>5, <1>6, Zenon

\* A call begins.
LEMMA BeginStep ==
  ASSUME IInv, Orderly, NEW c \in Callers, NEW shape \in Shapes, Begin(c, shape),
         UNCHANGED <<sessions, effects>>
  PROVE  IInv'
<1>1. Types /\ FlagsOK(c) /\ caller[c].pc = "idle" /\ m_syncState = Reset
  BY Zenon DEF IInv, Begin, FlagsOK
<1>2. /\ Applied' = Applied /\ Differing' = Differing
      /\ calls' \in Seq(Shapes) /\ Len(calls') = Len(calls) + 1
      /\ DOMAIN calls' = DOMAIN calls \cup {Len(calls) + 1} /\ Len(calls) + 1 \notin DOMAIN calls
      /\ \A n \in DOMAIN calls : calls'[n] = calls[n]
  BY NewCallNotApplied, Zenon
<1>3. Len(calls) \in Nat /\ DOMAIN outcome = DOMAIN calls
  BY <1>1 DEF Types
<1>4. /\ outcome' \in Seq({"open", "ok", "failed", "mismatch"})
      /\ Len(outcome') = Len(calls') /\ outcome'[Len(calls) + 1] = "open"
      /\ DOMAIN outcome' = DOMAIN calls'
      /\ \A n \in DOMAIN calls : outcome'[n] = outcome[n]
  BY <1>1, <1>2, <1>3 DEF Begin, Types
<1>. DEFINE r == [Idle EXCEPT !.pc = "start", !.n = Len(calls) + 1]
<1>5. r \in CallerStates /\ r.pc = "start" /\ r.n = Len(calls) + 1
  <2>1. Idle \in CallerStates
    BY Zenon DEF Idle, CallerStates, Pcs
  <2>2. Len(calls) + 1 \in Nat
    BY <1>3
  <2>. QED  BY <2>1, <2>2, Zenon DEF CallerStates, Pcs
<1>6. caller'[c] = r /\ caller' \in [Callers -> CallerStates]
  BY <1>1, <1>5, ZenonT(30) DEF Begin, Types
<1>7. caller'[c].pc = "start" /\ caller'[c].n = Len(calls) + 1
  BY <1>5, <1>6, Zenon
<1>8. Types'
  BY <1>1, <1>2, <1>4, <1>6, ZenonT(30) DEF Types, Begin
<1>9. \A d \in Callers : d = c
  BY Zenon DEF Orderly
<1>10. \A sid \in Sids : Asked(sid)' => Asked(sid)
  <2>1. ASSUME NEW sid \in Sids, Asked(sid)'
        PROVE  Asked(sid)
    BY <1>7, <1>9, <2>1, ZenonT(30) DEF Asked, Begin, EndMessage
  <2>. QED  BY <2>1, Zenon
<1>11. Sids' = Sids /\ sessions' = sessions /\ effects' = effects
         /\ m_stopRequested' = m_stopRequested /\ toManager' = toManager /\ toAgent' = toAgent
         /\ m_syncState' = m_syncState
  BY <1>1, Zenon DEF Sids, Begin
<1>12. \A sid \in Sids : (Trusted(sid)' => Trusted(sid)) /\ InHand(sid)' = InHand(sid)
  BY <1>10, <1>11, ZenonT(30) DEF Trusted, InHand
<1>13. \A sid \in Sids' : SessionOK(sid)'
  BY <1>2, <1>3, <1>11, <1>12 DEF IInv, SessionOK
<1>14. \A e \in effects' : EffectOK(e)'
  BY <1>2, <1>3, <1>11 DEF IInv, EffectOK
<1>15. ~ m_stopRequested => Opening = {}
  BY <1>1, Zenon DEF IInv, OneStart
<1>16. \A m \in toManager' : MessageOK(m)'
  <2>1. ASSUME NEW m \in toManager
        PROVE  MessageOK(m)'
    <3>1. m.type = "Start" => m_stopRequested
      BY <1>15, ZenonT(30) DEF Opening, IInv, Types
    <3>2. MessageOK(m)
      BY Zenon DEF IInv
    <3>. QED  BY <1>2, <1>11, <1>12, <3>1, <3>2, ZenonT(30) DEF MessageOK
  <2>. QED  BY <1>11, <2>1, ZenonT(30)
<1>17. \A m \in toAgent' : AnswerOK(m)'
  <2>1. ASSUME NEW m \in toAgent
        PROVE  AnswerOK(m)'
    <3>1. m.type = "StartAck" => m_stopRequested
      BY <1>15, Zenon DEF Opening, IInv, Types
    <3>2. AnswerOK(m)
      BY Zenon DEF IInv
    <3>. QED  BY <1>2, <1>10, <1>11, <3>1, <3>2, ZenonT(30) DEF AnswerOK
  <2>. QED  BY <1>11, <2>1, ZenonT(30)
<1>18. OneStart'
  BY <1>1, <1>11, StaysClosed, ZenonT(30)
<1>19. InSession(c)' /\ FlagsOK(c)' /\ CurrentCall(c)'
  <2>1. m_syncState.session = 0 /\ ~ m_syncState.startAckReceived /\ ~ m_syncState.endAckReceived
          /\ m_syncState.lastSyncResult = "SUCCESS"
    BY <1>1, Zenon DEF Reset
  <2>2. InSession(c)' /\ FlagsOK(c)'
    BY <1>1, <1>7, <1>11, <2>1, ZenonT(30) DEF InSession, FlagsOK
  <2>3. CurrentCall(c)'
    BY <1>2, <1>4, <1>7, ZenonT(30) DEF CurrentCall
  <2>. QED  BY <2>2, <2>3, ZenonT(30)
<1>20. SuccessIsApplied'
  BY <1>2, <1>3, <1>4, ZenonT(30) DEF IInv, SuccessIsApplied
<1>. QED  BY <1>8, <1>9, <1>13, <1>14, <1>16, <1>17, <1>18, <1>19, <1>20, ZenonT(30) DEF IInv

\* stop() sets the flag, and less is asked of the sessions.
LEMMA StopStep ==
  ASSUME IInv, Orderly, Stop, UNCHANGED <<sessions, effects>>
  PROVE  IInv'
<1>1. /\ m_stopRequested' = TRUE /\ ~ m_stopRequested /\ Sids' = Sids /\ sessions' = sessions
      /\ effects' = effects /\ caller' = caller /\ calls' = calls /\ outcome' = outcome
      /\ m_syncState' = m_syncState /\ toManager' = toManager /\ toAgent' = toAgent
  BY Zenon DEF Stop, Sids
<1>2. Applied' = Applied /\ Differing' = Differing
  BY <1>1, EffectsSame, Zenon
<1>3. \A sid \in Sids : Asked(sid)' = Asked(sid) /\ Trusted(sid) /\ InHand(sid)' = InHand(sid)
  BY <1>1, Zenon DEF Asked, Trusted, EndMessage, InHand
<1>4. Types'
  BY <1>1, ZenonT(30) DEF IInv, Types
<1>5. \A sid \in Sids' : SessionOK(sid)'
  BY <1>1, <1>3 DEF IInv, SessionOK
<1>6. (\A e \in effects' : EffectOK(e)') /\ (\A m \in toManager' : MessageOK(m)')
  BY <1>1, <1>3, ZenonT(30) DEF IInv, EffectOK, MessageOK
<1>7. \A m \in toAgent' : AnswerOK(m)'
  BY <1>1, <1>2, <1>3, ZenonT(30) DEF IInv, AnswerOK
<1>8. OneStart'
  BY <1>1, ZenonT(30) DEF OneStart
<1>9. \A c \in Callers : InSession(c)' /\ FlagsOK(c)' /\ CurrentCall(c)'
  BY <1>1, <1>2, <1>3 DEF IInv, InSession, FlagsOK, CurrentCall
<1>10. SuccessIsApplied'
  BY <1>1, <1>2, Zenon DEF IInv, SuccessIsApplied
<1>. QED  BY <1>4, <1>5, <1>6, <1>7, <1>8, <1>9, <1>10, ZenonT(30) DEF IInv

\* With fewer messages under way and nothing else changed, all stays well.
LEMMA LessUnderWay ==
  ASSUME IInv, UNCHANGED <<agentVars, sessions, effects>>,
         toManager' \subseteq toManager, toAgent' \subseteq toAgent
  PROVE  IInv'
<1>1. /\ m_stopRequested' = m_stopRequested /\ Sids' = Sids /\ sessions' = sessions
      /\ effects' = effects /\ caller' = caller /\ calls' = calls /\ outcome' = outcome
      /\ m_syncState' = m_syncState
  BY Zenon DEF agentVars, Sids
<1>2. Applied' = Applied /\ Differing' = Differing
  BY <1>1, EffectsSame, Zenon
<1>3. \A sid \in Sids : Asked(sid)' => Asked(sid)
  BY <1>1, Zenon DEF Asked, EndMessage
<1>4. \A sid \in Sids : (Trusted(sid)' => Trusted(sid)) /\ InHand(sid)' = InHand(sid)
  BY <1>1, <1>3, Zenon DEF Trusted, InHand
<1>5. Types'
  BY <1>1, Zenon DEF IInv, Types
<1>6. \A sid \in Sids' : SessionOK(sid)'
  BY <1>1, <1>4, ZenonT(30) DEF IInv, SessionOK
<1>7. (\A e \in effects' : EffectOK(e)') /\ (\A m \in toManager' : MessageOK(m)')
  BY <1>1, <1>4, ZenonT(30) DEF IInv, EffectOK, MessageOK
<1>8. \A m \in toAgent' : AnswerOK(m)'
  BY <1>1, <1>2, <1>3, <1>4, ZenonT(30) DEF IInv, AnswerOK
<1>9. OneStart'
  <2>1. Opening' \subseteq Opening
    BY Zenon DEF Opening
  <2>. QED  BY <1>1, <2>1, Zenon DEF IInv, OneStart, StartAnswered
<1>10. \A c \in Callers : InSession(c)' /\ FlagsOK(c)' /\ CurrentCall(c)'
  BY <1>1, <1>2, <1>4 DEF IInv, InSession, FlagsOK, CurrentCall
<1>11. SuccessIsApplied'
  BY <1>1, <1>2, Zenon DEF IInv, SuccessIsApplied
<1>. QED  BY <1>5, <1>6, <1>7, <1>8, <1>9, <1>10, <1>11, Zenon DEF IInv

\* A message is lost.
LEMMA LoseStep ==
  ASSUME IInv, Lose
  PROVE  IInv'
BY LessUnderWay, Zenon DEF Lose

-----------------------------------------------------------------------------
(* Answers that arrive *)

\* A step of parseResponseBuffer that stays in the session.
LEMMA ParsedInSession ==
  ASSUME IInv, Orderly,
         UNCHANGED <<m_stopRequested, caller, calls, outcome, toManager, sessions, effects>>,
         toAgent' \subseteq toAgent,
         m_syncState' \in SyncStates, m_syncState'.session = m_syncState.session,
         OneStart', \A c \in Callers : FlagsOK(c)'
  PROVE  IInv'
<1>1. Sids' = Sids /\ Applied' = Applied /\ Differing' = Differing
  BY EffectsSame, Zenon DEF Sids
<1>2. \A sid \in Sids : Asked(sid)' = Asked(sid)
  BY Zenon DEF Asked, EndMessage
<1>3. \A sid \in Sids : Trusted(sid)' = Trusted(sid) /\ InHand(sid)' = InHand(sid)
  BY <1>2, Zenon DEF Trusted, InHand
<1>4. Types'
  BY Zenon DEF IInv, Types
<1>5. \A sid \in Sids' : SessionOK(sid)'
  BY <1>1, <1>3, ZenonT(30) DEF IInv, SessionOK
<1>6. (\A e \in effects' : EffectOK(e)') /\ (\A m \in toManager' : MessageOK(m)')
  BY <1>1, <1>3, ZenonT(30) DEF IInv, EffectOK, MessageOK
<1>7. \A m \in toAgent' : AnswerOK(m)'
  BY <1>1, <1>2, <1>3, ZenonT(30) DEF IInv, AnswerOK
<1>8. \A c \in Callers : InSession(c)' /\ CurrentCall(c)'
  BY <1>1, <1>3, ZenonT(30) DEF IInv, InSession, CurrentCall
<1>9. SuccessIsApplied'
  BY <1>1, Zenon DEF IInv, SuccessIsApplied
<1>. QED  BY <1>4, <1>5, <1>6, <1>7, <1>8, <1>9, Zenon DEF IInv

\* Once the only Start is answered, none is under way.
LEMMA StartIsAnswered ==
  ASSUME IInv, Orderly, UNCHANGED <<m_stopRequested, toManager>>,
         NEW m \in toAgent, toAgent' = toAgent \ {m}, m.type = "StartAck"
  PROVE  OneStart'
<1>1. CASE m_stopRequested
  BY <1>1, Zenon DEF OneStart
<1>2. CASE ~ m_stopRequested
  <2>1. m \in Opening /\ \A x \in Opening : x = m
    BY <1>2, Zenon DEF IInv, OneStart, Opening
  <2>2. m \notin toManager
    BY Zenon DEF IInv, Types, ToManager
  <2>3. ASSUME NEW x \in Opening'
        PROVE  FALSE
    BY <2>1, <2>2, Zenon DEF Opening
  <2>. QED  BY <2>3, Zenon DEF OneStart
<1>. QED  BY <1>1, <1>2, ZenonT(30) DEF IInv, Types

\* The phase tells where the call is.
LEMMA PhaseTells ==
  ASSUME IInv, NEW c \in Callers
  PROVE  /\ m_syncState.phase = "WaitingStartAck" => caller[c].pc \in {"waitStart", "data", "end", "failed"}
         /\ m_syncState.phase = "WaitingEndAck" =>
              caller[c].pc \in {"delay", "waitEnd", "ok", "endFailed", "failed"}
<1>1. caller[c].pc \in Pcs /\ FlagsOK(c)
  BY Zenon DEF IInv, Types, CallerStates
<1>2. Reset.phase = "Idle"
  BY Zenon DEF Reset
<1>. QED  BY <1>1, <1>2, ZenonT(30) DEF FlagsOK, Pcs

\* It stays in the session and keeps the phase; the flags it sets are true.
LEMMA ParsedFlags ==
  ASSUME IInv, Orderly, NEW m \in toAgent, ParseResponseBuffer(m), UNCHANGED <<sessions, effects>>,
         m_syncState.phase # "Idle",
         m_syncState' \in SyncStates, m_syncState'.phase = m_syncState.phase,
         m_syncState'.session = m_syncState.session,
         m_syncState'.startAckReceived = m_syncState.startAckReceived,
         \A c \in Callers :
           /\ m_syncState'.endAckReceived /\ ~ m_stopRequested =>
                m_syncState.endAckReceived \/ caller[c].n \in Applied
           /\ m_syncState'.lastSyncResult = "CHECKSUM_ERROR" =>
                m_syncState.lastSyncResult = "CHECKSUM_ERROR" \/ caller[c].n \in Differing,
         OneStart'
  PROVE  IInv'
<1>1. Applied' = Applied /\ Differing' = Differing
  BY EffectsSame, Zenon DEF ParseResponseBuffer
<1>2. ASSUME NEW c \in Callers
      PROVE  FlagsOK(c)'
  <2>1. FlagsOK(c) /\ Reset.phase = "Idle"
    BY Zenon DEF IInv, Reset
  <2>. QED  BY <1>1, <2>1, ZenonT(30) DEF FlagsOK, ParseResponseBuffer
<1>3. /\ UNCHANGED <<m_stopRequested, caller, calls, outcome, toManager>>
      /\ toAgent' \subseteq toAgent
  BY Zenon DEF ParseResponseBuffer
<1>. QED  BY <1>2, <1>3, ParsedInSession, ZenonT(30)

\* A call that waits for EndAck has no Start under way.
LEMMA ParsedAtEnd ==
  ASSUME IInv, Orderly, NEW m \in toAgent, ParseResponseBuffer(m),
         m_syncState.phase = "WaitingEndAck"
  PROVE  OneStart'
<1>1. PICK c \in Callers : TRUE
  BY Zenon DEF Orderly
<1>2. caller[c].pc # "waitStart"
  BY PhaseTells, Zenon
<1>3. ~ m_stopRequested => Opening = {}
  BY <1>2, Zenon DEF IInv, OneStart
<1>4. ~ m_stopRequested => Opening' = {}
  BY <1>3, Zenon DEF Opening, ParseResponseBuffer
<1>. QED  BY <1>4, Zenon DEF OneStart, ParseResponseBuffer

\* A refused Start.
LEMMA ParseRefusal ==
  ASSUME IInv, Orderly, NEW m \in toAgent, ParseResponseBuffer(m), UNCHANGED <<sessions, effects>>,
         m.type = "StartAck", m_syncState.phase = "WaitingStartAck",
         m_syncState' = [m_syncState EXCEPT !.syncFailed = TRUE]
  PROVE  IInv'
<1>1. m_syncState \in SyncStates
  BY Zenon DEF IInv, Types
<1>2. m_syncState' \in SyncStates
  BY <1>1, Zenon DEF SyncStates
<1>3. /\ m_syncState'.phase = m_syncState.phase /\ m_syncState'.session = m_syncState.session
      /\ m_syncState'.startAckReceived = m_syncState.startAckReceived
      /\ m_syncState'.endAckReceived = m_syncState.endAckReceived
      /\ m_syncState'.lastSyncResult = m_syncState.lastSyncResult
  BY <1>1, Zenon DEF SyncStates
<1>4. OneStart'
  BY StartIsAnswered, Zenon DEF ParseResponseBuffer
<1>. QED  BY <1>2, <1>3, <1>4, ParsedFlags, Zenon

\* A final answer is believed only in its session, and that is a session of the
\* current call, since its End has been sent.
LEMMA ParseEndAckStep ==
  ASSUME IInv, Orderly, NEW m \in toAgent, ParseResponseBuffer(m), UNCHANGED <<sessions, effects>>,
         m.type = "EndAck", ValidatePhaseAndSession(m)
  PROVE  IInv'
<1>1. m_syncState \in SyncStates /\ m_syncState.phase = "WaitingEndAck" /\ m_syncState.session = m.sid
  BY ZenonT(30) DEF IInv, Types, ValidatePhaseAndSession
<1>2. AnswerOK(m) /\ m.sid \in Sids /\ sessions[m.sid].endReceived /\ m.sid \in Nat /\ m.sid # 0
  BY SMTT(30) DEF IInv, AnswerOK, Types, Sids
<1>3. \A c \in Callers : caller[c].n = sessions[m.sid].n
  BY <1>1, <1>2, ZenonT(30) DEF IInv, InSession, Trusted, Asked
<1>4. OneStart'
  BY <1>1, ParsedAtEnd, ZenonT(30)
<1>5. m_syncState' = ParseEndAck(m)
  BY Zenon DEF ParseResponseBuffer
<1>6. m.status \in {"Ok", "Error", "ChecksumMismatch", "Processing"}
  BY Zenon DEF IInv, Types, ToAgent
<1>7. CASE m.status \in {"Error", "ChecksumMismatch"}
  <2>1. PICK r \in {"GENERIC_ERROR", "CHECKSUM_ERROR"} :
          r = SyncResult(m.status) /\ (r = "CHECKSUM_ERROR" => m.status = "ChecksumMismatch")
    BY <1>7, Zenon DEF SyncResult
  <2>2. m_syncState' = [m_syncState EXCEPT !.syncFailed = TRUE, !.lastSyncResult = r]
    BY <1>5, <1>7, <2>1, ZenonT(30) DEF ParseEndAck
  <2>3. m_syncState' \in SyncStates
    BY <1>1, <2>2, ZenonT(30) DEF SyncStates
  <2>4. /\ m_syncState'.phase = m_syncState.phase /\ m_syncState'.session = m_syncState.session
        /\ m_syncState'.startAckReceived = m_syncState.startAckReceived
        /\ m_syncState'.endAckReceived = m_syncState.endAckReceived
        /\ m_syncState'.lastSyncResult = r
    BY <1>1, <2>2, ZenonT(30) DEF SyncStates
  <2>5. r = "CHECKSUM_ERROR" => \A c \in Callers : caller[c].n \in Differing
    BY <1>2, <1>3, <2>1, ZenonT(30) DEF AnswerOK
  <2>. QED  BY <1>1, <1>4, <2>3, <2>4, <2>5, ParsedFlags, ZenonT(30)
<1>8. CASE m.status = "Processing"
  <2>1. m_syncState' = [m_syncState EXCEPT !.processingAckReceived = TRUE]
    BY <1>5, <1>8, ZenonT(30) DEF ParseEndAck
  <2>2. m_syncState' \in SyncStates
    BY <1>1, <2>1, Zenon DEF SyncStates
  <2>3. /\ m_syncState'.phase = m_syncState.phase /\ m_syncState'.session = m_syncState.session
        /\ m_syncState'.startAckReceived = m_syncState.startAckReceived
        /\ m_syncState'.endAckReceived = m_syncState.endAckReceived
        /\ m_syncState'.lastSyncResult = m_syncState.lastSyncResult
    BY <1>1, <2>1, ZenonT(30) DEF SyncStates
  <2>. QED  BY <1>1, <1>4, <2>2, <2>3, ParsedFlags, ZenonT(30)
<1>9. CASE m.status = "Ok"
  <2>1. m_syncState' = [m_syncState EXCEPT !.endAckReceived = TRUE, !.lastSyncResult = "SUCCESS"]
    BY <1>5, <1>9, Zenon DEF ParseEndAck
  <2>2. m_syncState' \in SyncStates
    BY <1>1, <2>1, Zenon DEF SyncStates
  <2>3. /\ m_syncState'.phase = m_syncState.phase /\ m_syncState'.session = m_syncState.session
        /\ m_syncState'.startAckReceived = m_syncState.startAckReceived
        /\ m_syncState'.lastSyncResult = "SUCCESS"
    BY <1>1, <2>1, ZenonT(30) DEF SyncStates
  <2>4. ~ m_stopRequested => \A c \in Callers : caller[c].n \in Applied
    BY <1>1, <1>2, <1>3, <1>9, ZenonT(30) DEF AnswerOK
  <2>. QED  BY <1>1, <1>4, <2>2, <2>3, <2>4, ParsedFlags, ZenonT(30)
<1>. QED  BY <1>6, <1>7, <1>8, <1>9, ZenonT(30)

\* A request for retransmission in the current session.
LEMMA ParseReqRetStep ==
  ASSUME IInv, Orderly, NEW m \in toAgent, ParseResponseBuffer(m), UNCHANGED <<sessions, effects>>,
         m.type = "ReqRet", ValidatePhaseAndSession(m)
  PROVE  IInv'
<1>1. m_syncState \in SyncStates /\ m_syncState.phase = "WaitingEndAck" /\ m.seqs \in SUBSET Nat
  BY Zenon DEF IInv, Types, ValidatePhaseAndSession, ToAgent
<1>2. OneStart'
  BY <1>1, ParsedAtEnd, Zenon
<1>3. m_syncState' = [m_syncState EXCEPT !.reqRetReceived = TRUE, !.reqRetRanges = m.seqs]
  BY Zenon DEF ParseResponseBuffer, ParseReqRet
<1>4. m_syncState' \in SyncStates
  BY <1>1, <1>3, Zenon DEF SyncStates
<1>5. /\ m_syncState'.phase = m_syncState.phase /\ m_syncState'.session = m_syncState.session
      /\ m_syncState'.startAckReceived = m_syncState.startAckReceived
      /\ m_syncState'.endAckReceived = m_syncState.endAckReceived
      /\ m_syncState'.lastSyncResult = m_syncState.lastSyncResult
  BY <1>1, <1>3, Zenon DEF SyncStates
<1>. QED  BY <1>1, <1>2, <1>4, <1>5, ParsedFlags, ZenonT(30)

\* The agent enters the session a StartAck names.  Before stop() it is one of
\* the current call; after it the session may be of an earlier call, but then
\* nobody has asked, nor will ask, for its end.
LEMMA ParseStartAckStep ==
  ASSUME IInv, Orderly, NEW m \in toAgent, ParseResponseBuffer(m), UNCHANGED <<sessions, effects>>,
         m.type = "StartAck", m.status = "Ok", m_syncState.phase = "WaitingStartAck"
  PROVE  IInv'
<1>1. m_syncState \in SyncStates /\ AnswerOK(m) /\ m.sid \in Sids /\ ~ Asked(m.sid)
        /\ m.sid \in Nat /\ m.sid # 0
  BY DEF IInv, Types, AnswerOK, Sids
<1>2. m_syncState' = [m_syncState EXCEPT !.session = m.sid, !.startAckReceived = TRUE]
  BY Zenon DEF ParseResponseBuffer, ParseStartAck
<1>3. m_syncState' \in SyncStates
  BY <1>1, <1>2, Zenon DEF SyncStates
<1>4. /\ m_syncState'.phase = "WaitingStartAck" /\ m_syncState'.session = m.sid
      /\ m_syncState'.startAckReceived /\ m_syncState'.endAckReceived = m_syncState.endAckReceived
      /\ m_syncState'.lastSyncResult = m_syncState.lastSyncResult
  BY <1>1, <1>2, Zenon DEF SyncStates
<1>5. /\ m_stopRequested' = m_stopRequested /\ Sids' = Sids /\ sessions' = sessions
      /\ effects' = effects /\ caller' = caller /\ calls' = calls /\ outcome' = outcome
      /\ toManager' = toManager /\ toAgent' = toAgent \ {m}
      /\ Applied' = Applied /\ Differing' = Differing
  BY EffectsSame, Zenon DEF ParseResponseBuffer, Sids
<1>6. \A c \in Callers : caller[c].pc \in {"waitStart", "data", "end", "failed"}
  BY PhaseTells, Zenon
<1>7. \A sid \in Sids : Asked(sid)' = Asked(sid)
  BY <1>5, <1>6, Zenon DEF Asked, EndMessage
<1>8. \A sid \in Sids : Trusted(sid)' = Trusted(sid) /\ InHand(sid)' = InHand(sid)
  BY <1>5, <1>7, Zenon DEF Trusted, InHand
<1>9. OneStart'
  BY <1>5, StartIsAnswered, Zenon
<1>10. Types'
  BY <1>3, <1>5, Zenon DEF IInv, Types
<1>11. \A sid \in Sids' : SessionOK(sid)'
  BY <1>5, <1>8, ZenonT(30) DEF IInv, SessionOK
<1>12. (\A e \in effects' : EffectOK(e)') /\ (\A x \in toManager' : MessageOK(x)')
  BY <1>5, <1>8, ZenonT(30) DEF IInv, EffectOK, MessageOK
<1>13. \A x \in toAgent' : AnswerOK(x)'
  <2>1. ASSUME NEW x \in toAgent \ {m}
        PROVE  AnswerOK(x)'
    <3>1. AnswerOK(x)
      BY Zenon DEF IInv
    <3>2. x.type = "EndAck" => x.sid # m.sid
      BY <1>1, <3>1, Zenon DEF AnswerOK, Asked
    <3>3. x.type = "StartAck" /\ x.status = "Ok" => x.sid # m.sid
      <4>1. x \in ToAgent /\ m \in ToAgent
        BY Zenon DEF IInv, Types
      <4>2. x.type = "StartAck" /\ x.status = "Ok" /\ x.sid = m.sid => x = m
        BY <4>1 DEF ToAgent
      <4>. QED  BY <4>2, Zenon
    <3>. QED  BY <1>4, <1>5, <1>7, <1>8, <3>1, <3>2, <3>3, ZenonT(30) DEF AnswerOK
  <2>. QED  BY <1>5, <2>1, Zenon
<1>14. ASSUME NEW c \in Callers
       PROVE  InSession(c)' /\ FlagsOK(c)' /\ CurrentCall(c)'
  <2>1. caller[c].n = Len(calls) /\ CurrentCall(c) /\ FlagsOK(c)
    BY <1>6, Zenon DEF IInv, CurrentCall
  <2>2. InSession(c)'
    BY <1>1, <1>4, <1>5, <1>7, <1>8, <2>1, Zenon DEF InSession, AnswerOK, Trusted
  <2>3. FlagsOK(c)'
    BY <1>1, <1>4, <1>5, <1>6, <2>1, ZenonT(30) DEF FlagsOK
  <2>. QED  BY <1>5, <2>1, <2>2, <2>3, Zenon DEF CurrentCall
<1>15. SuccessIsApplied'
  BY <1>5, Zenon DEF IInv, SuccessIsApplied
<1>. QED  BY <1>9, <1>10, <1>11, <1>12, <1>13, <1>14, <1>15, ZenonT(30) DEF IInv

\* Any answer.
LEMMA ParseStep ==
  ASSUME IInv, Orderly, NEW m \in toAgent, ParseResponseBuffer(m),
         UNCHANGED <<sessions, effects>>
  PROVE  IInv'
<1>1. m \in ToAgent
  BY Zenon DEF IInv, Types
<1>2. CASE m_syncState' = m_syncState
  BY <1>2, LessUnderWay, Zenon DEF ParseResponseBuffer, agentVars
<1>3. CASE m.type = "StartAck" /\ m_syncState.phase = "WaitingStartAck"
  <2>1. m.status \in {"Ok", "Error", "Offline"}
    BY <1>1, <1>3, Zenon DEF ToAgent
  <2>2. CASE m.status = "Ok"
    BY <1>3, <2>2, ParseStartAckStep, Zenon
  <2>3. CASE m.status \in {"Error", "Offline"}
    <3>1. m_syncState' = [m_syncState EXCEPT !.syncFailed = TRUE]
      BY <1>3, <2>3, Zenon DEF ParseResponseBuffer, ParseStartAck
    <3>. QED  BY <1>3, <3>1, ParseRefusal, Zenon
  <2>. QED  BY <2>1, <2>2, <2>3, Zenon
<1>4. CASE m.type = "EndAck" /\ ValidatePhaseAndSession(m)
  BY <1>4, ParseEndAckStep, Zenon
<1>5. CASE m.type = "ReqRet" /\ ValidatePhaseAndSession(m)
  BY <1>5, ParseReqRetStep, Zenon
<1>6. \/ m_syncState' = m_syncState
      \/ m.type = "StartAck" /\ m_syncState.phase = "WaitingStartAck"
      \/ m.type = "EndAck" /\ ValidatePhaseAndSession(m)
      \/ m.type = "ReqRet" /\ ValidatePhaseAndSession(m)
  <2>1. m.type \in {"StartAck", "EndAck", "ReqRet"}
    BY <1>1, Zenon DEF ToAgent
  <2>. QED  BY <2>1, Zenon DEF ParseResponseBuffer, ParseStartAck, ParseEndAck, ParseReqRet
<1>. QED  BY <1>2, <1>3, <1>4, <1>5, <1>6, ZenonT(30)

-----------------------------------------------------------------------------
(* The manager *)

\* A step of the manager keeps what a session is of, and does not undo an End.
ManagerKeeps ==
  /\ UNCHANGED agentVars
  /\ toManager' \subseteq toManager
  /\ effects \subseteq effects'
  /\ Sids \subseteq Sids'
  /\ \A sid \in Sids :
       /\ sessions'[sid].n = sessions[sid].n /\ sessions'[sid].size = sessions[sid].size
       /\ sessions[sid].endReceived => sessions'[sid].endReceived
       /\ sessions'[sid].endReceived => Asked(sid)
       /\ ~ m_stopRequested /\ InHand(sid)
            /\ (sid = m_syncState.session \/ StartAck("Ok", sid) \in toAgent) => InHand(sid)'

\* What the agent knows, and what is under way, stays right.
LEMMA ManagerFrame ==
  ASSUME IInv, ManagerKeeps
  PROVE  /\ \A sid \in Sids : (Asked(sid)' => Asked(sid)) /\ (Trusted(sid)' => Trusted(sid))
         /\ Applied \subseteq Applied' /\ Differing \subseteq Differing'
         /\ \A m \in toManager' : MessageOK(m)'
         /\ \A m \in toAgent : AnswerOK(m)'
         /\ \A c \in Callers : CurrentCall(c)' /\ InSession(c)' /\ FlagsOK(c)'
         /\ SuccessIsApplied'
<1>1. /\ m_stopRequested' = m_stopRequested /\ caller' = caller /\ calls' = calls
      /\ outcome' = outcome /\ m_syncState' = m_syncState /\ Sids \subseteq Sids'
      /\ toManager' \subseteq toManager
  BY Zenon DEF ManagerKeeps, agentVars
<1>2. Applied \subseteq Applied' /\ Differing \subseteq Differing'
  BY <1>1, EffectsGrow, Zenon DEF ManagerKeeps
<1>3. \A sid \in Sids : Asked(sid)' => Asked(sid)
  BY <1>1, Zenon DEF Asked, EndMessage, ManagerKeeps
<1>4. \A sid \in Sids : Trusted(sid)' => Trusted(sid)
  BY <1>1, <1>3, Zenon DEF Trusted
<1>5. \A sid \in Sids : sessions'[sid].n = sessions[sid].n /\ sessions'[sid].size = sessions[sid].size
                          /\ (sessions[sid].endReceived => sessions'[sid].endReceived)
  BY Zenon DEF ManagerKeeps
<1>6. \A m \in toManager' : MessageOK(m)'
  BY <1>1, <1>4, <1>5, ZenonT(30) DEF IInv, MessageOK
<1>7. ASSUME NEW m \in toAgent
      PROVE  AnswerOK(m)'
  <2>1. AnswerOK(m)
    BY Zenon DEF IInv
  <2>2. m.type = "StartAck" /\ m.status = "Ok" => m = StartAck("Ok", m.sid)
    BY Zenon DEF IInv, Types, ToAgent, StartAck
  <2>3. m.type = "StartAck" /\ m.status = "Ok" /\ ~ m_stopRequested /\ InHand(m.sid) => InHand(m.sid)'
    BY <2>1, <2>2, Zenon DEF ManagerKeeps, AnswerOK
  <2>. QED  BY <1>1, <1>2, <1>3, <1>5, <2>1, <2>3, Zenon DEF AnswerOK
<1>8. ASSUME NEW c \in Callers
      PROVE  CurrentCall(c)' /\ InSession(c)' /\ FlagsOK(c)'
  <2>1. CurrentCall(c)'
    BY <1>1, Zenon DEF IInv, CurrentCall
  <2>2. InSession(c)'
    BY <1>1, <1>4, <1>5, ZenonT(30) DEF IInv, InSession, ManagerKeeps
  <2>3. FlagsOK(c)'
    BY <1>1, <1>2, Zenon DEF IInv, FlagsOK
  <2>. QED  BY <2>1, <2>2, <2>3, ZenonT(30)
<1>9. SuccessIsApplied'
  BY <1>1, <1>2, Zenon DEF IInv, SuccessIsApplied
<1>. QED  BY <1>2, <1>3, <1>4, <1>6, <1>7, <1>8, <1>9, Zenon

\* A step on one session that answers, if at all, with an EndAck or a ReqRet.
LEMMA SessionStep ==
  ASSUME IInv, UNCHANGED agentVars, toManager' \subseteq toManager,
         NEW sid \in Sids, NEW s \in Session, sessions' = [sessions EXCEPT ![sid] = s],
         s.n = sessions[sid].n, s.size = sessions[sid].size,
         sessions[sid].endReceived => s.endReceived, s.endReceived => Asked(sid),
         InHand(sid) => s.live \/ s.done,
         SessionOK(sid)',
         effects \subseteq effects', \A e \in effects' \ effects : e \in Effects /\ EffectOK(e)',
         \A m \in toAgent' \ toAgent :
           m \in ToAgent /\ m.type \in {"EndAck", "ReqRet"} /\ AnswerOK(m)'
  PROVE  IInv'
<1>1. Types /\ sessions \in Seq(Session)
  BY Zenon DEF IInv, Types
<1>2. /\ sessions' \in Seq(Session) /\ Sids' = Sids /\ sessions'[sid] = s
      /\ \A x \in Sids : x # sid => sessions'[x] = sessions[x]
  BY <1>1 DEF Sids
<1>3. ManagerKeeps
  <2>1. \A x \in Sids : InHand(x) => InHand(x)'
    BY <1>2, ZenonT(30) DEF InHand
  <2>2. \A x \in Sids : sessions[x].endReceived => Asked(x)
    BY Zenon DEF Asked
  <2>. QED  BY <1>2, <2>1, <2>2, ZenonT(30) DEF ManagerKeeps
<1>4. /\ \A x \in Sids : Trusted(x)' => Trusted(x)
      /\ \A m \in toManager' : MessageOK(m)'
      /\ \A m \in toAgent : AnswerOK(m)'
      /\ \A c \in Callers : CurrentCall(c)' /\ InSession(c)' /\ FlagsOK(c)'
      /\ SuccessIsApplied'
  BY <1>3, ManagerFrame, Zenon
<1>5. Types'
  BY <1>1, <1>2, Zenon DEF Types, agentVars
<1>6. \A x \in Sids' : SessionOK(x)'
  <2>1. ASSUME NEW x \in Sids, x # sid
        PROVE  SessionOK(x)'
    <3>1. SessionOK(x) /\ sessions'[x] = sessions[x] /\ calls' = calls
      BY <1>2, <2>1, Zenon DEF IInv, agentVars
    <3>. QED  BY <1>4, <3>1, ZenonT(30) DEF SessionOK
  <2>. QED  BY <1>2, <2>1, Zenon
<1>7. \A e \in effects' : EffectOK(e)'
  <2>1. ASSUME NEW e \in effects
        PROVE  EffectOK(e)'
    <3>1. EffectOK(e) /\ calls' = calls
      BY Zenon DEF IInv, agentVars
    <3>. QED  BY <3>1, Zenon DEF EffectOK
  <2>. QED  BY <2>1, Zenon
<1>8. OneStart'
  <2>1. Opening' \subseteq Opening
    BY Zenon DEF Opening
  <2>2. m_stopRequested' = m_stopRequested /\ caller' = caller /\ StartAnswered' = StartAnswered
    BY Zenon DEF agentVars, StartAnswered
  <2>. QED  BY <2>1, <2>2, Zenon DEF IInv, OneStart
<1>. QED  BY <1>4, <1>5, <1>6, <1>7, <1>8, ZenonT(30) DEF IInv

\* An item comes.
LEMMA HandleDataStep ==
  ASSUME IInv, Orderly, NEW m \in toManager, HandleData(m)
  PROVE  IInv'
<1>1. MessageOK(m) /\ m.type = "Data" /\ toManager' \subseteq toManager /\ toAgent' = toAgent
        /\ effects' = effects /\ UNCHANGED agentVars
  BY Zenon DEF IInv, HandleData, Consume
<1>2. m.sid \in Sids /\ m.n = sessions[m.sid].n /\ m.kind = "value"
        /\ m.seq \in 1..sessions[m.sid].size
  BY <1>1, Zenon DEF MessageOK
<1>3. PICK sid \in Sids : sid = m.sid
  BY <1>2, Zenon
<1>4. CASE sessions' = sessions
  BY <1>1, <1>4, LessUnderWay, Zenon
<1>5. CASE sid \in Live /\ m.seq <= sessions[sid].size
  <2>1. PICK old \in Session : old = sessions[sid]
    BY DEF IInv, Types, Sids
  <2>. DEFINE item == [n |-> m.n, seq |-> m.seq, kind |-> m.kind]
              store == Put(old.store, item)
              seen == Observed(old, m.seq)
              s == [old EXCEPT !.store = store, !.seen = seen]
              t == [s EXCEPT !.endEnqueued = @ \/ Complete(s)]
  <2>2. sessions' = [sessions EXCEPT ![sid] = t]
    BY <1>3, <1>5, <2>1, Zenon DEF HandleData
  <2>3. SessionOK(sid)
    BY Zenon DEF IInv
  <2>4. seen = old.seen \cup {m.seq} /\ seen \subseteq 1..old.size /\ old.size \in Nat
    BY <1>2, <1>3, <2>1, <2>3, Zenon DEF Observed, SessionOK, Session
  <2>5. store = Content(old.n, seen)
    BY <1>2, <1>3, <2>1, <2>3, <2>4, PutContent, SMTT(30) DEF SessionOK
  <2>6. store \in SUBSET Items /\ seen \in SUBSET Nat
    BY <2>1, <2>4, <2>5 DEF Content, Items, Session, Kinds
  <2>. HIDE DEF store, seen
  <2>7. /\ s \in Session /\ s.live = old.live /\ s.mode = old.mode /\ s.size = old.size
        /\ s.n = old.n /\ s.store = store /\ s.seen = seen /\ s.checksum = old.checksum
        /\ s.endReceived = old.endReceived /\ s.endEnqueued = old.endEnqueued /\ s.done = old.done
    BY <2>6, Zenon DEF Session
  <2>. HIDE DEF s
  <2>8. PICK b \in BOOLEAN : b = (old.endEnqueued \/ Complete(s))
    BY Zenon DEF Session
  <2>9. t = [s EXCEPT !.endEnqueued = b]
    BY <2>7, <2>8, ZenonT(30)
  <2>10. /\ t \in Session /\ t.live = old.live /\ t.mode = old.mode /\ t.size = old.size
         /\ t.n = old.n /\ t.store = store /\ t.seen = seen /\ t.checksum = old.checksum
         /\ t.endReceived = old.endReceived /\ t.endEnqueued = b /\ t.done = old.done
    BY <2>7, <2>9, ZenonT(30) DEF Session
  <2>11. b => old.endReceived /\ seen = 1..old.size
    <3>1. CASE old.endEnqueued
      BY <2>1, <2>3, <2>4, <3>1, Zenon DEF SessionOK
    <3>2. CASE Complete(s)
      BY <2>7, <3>2, Zenon DEF Complete
    <3>. QED  BY <2>8, <3>1, <3>2, Zenon
  <2>. HIDE DEF t
  <2>12. calls' = calls /\ sessions'[sid] = t
    BY <1>1, <2>2, ZenonT(30) DEF agentVars, Sids
  <2>13. Trusted(sid)' => Trusted(sid)
    BY <1>1, <2>1, <2>10, <2>12, ZenonT(30) DEF Trusted, Asked, EndMessage, agentVars
  <2>14. SessionOK(sid)'
    BY <2>1, <2>3, <2>4, <2>5, <2>10, <2>11, <2>12, <2>13, ZenonT(30) DEF SessionOK
  <2>15. old.endReceived => Asked(sid)
    BY <2>1, Zenon DEF Asked
  <2>. QED  BY <1>1, <2>1, <2>2, <2>10, <2>14, <2>15, SessionStep, ZenonT(30) DEF InHand
<1>. QED  BY <1>3, <1>4, <1>5, ZenonT(30) DEF HandleData

\* A checksum comes.
LEMMA HandleChecksumModuleStep ==
  ASSUME IInv, Orderly, NEW m \in toManager, HandleChecksumModule(m)
  PROVE  IInv'
<1>1. MessageOK(m) /\ m.type = "Checksum" /\ toManager' \subseteq toManager /\ toAgent' = toAgent
        /\ effects' = effects /\ UNCHANGED agentVars
  BY Zenon DEF IInv, HandleChecksumModule, Consume
<1>2. m.n \in DOMAIN calls /\ m.n \in Nat /\ m.n \in 0..Len(calls)
  BY <1>1 DEF MessageOK, IInv, Types
<1>3. CASE sessions' = sessions
  BY <1>1, <1>3, LessUnderWay, Zenon
<1>4. CASE m.sid \in Live /\ ~ sessions[m.sid].endEnqueued
  <2>1. PICK sid \in Sids : sid = m.sid
    BY <1>4, ZenonT(30) DEF Live
  <2>2. sid # 0
    BY DEF IInv, Types, Sids
  <2>3. PICK old \in Session : old = sessions[sid]
    BY DEF IInv, Types, Sids
  <2>. DEFINE t == [old EXCEPT !.checksum = m.n]
  <2>4. sessions' = [sessions EXCEPT ![sid] = t]
    BY <1>4, <2>1, <2>3, ZenonT(30) DEF HandleChecksumModule
  <2>5. /\ t \in Session /\ t.live = old.live /\ t.mode = old.mode /\ t.size = old.size
        /\ t.n = old.n /\ t.store = old.store /\ t.seen = old.seen /\ t.checksum = m.n
        /\ t.endReceived = old.endReceived /\ t.endEnqueued = old.endEnqueued /\ t.done = old.done
    BY <1>2, Zenon DEF Session
  <2>. HIDE DEF t
  <2>6. calls' = calls /\ sessions'[sid] = t
    BY <1>1, <2>4, ZenonT(30) DEF agentVars, Sids
  <2>7. Trusted(sid)' => Trusted(sid)
    BY <1>1, <2>3, <2>5, <2>6, ZenonT(30) DEF Trusted, Asked, EndMessage, agentVars
  <2>8. Trusted(sid) => m.n = old.n
    BY <1>1, <2>1, <2>2, <2>3, ZenonT(30) DEF MessageOK
  <2>9. SessionOK(sid)
    BY Zenon DEF IInv
  <2>10. SessionOK(sid)'
    BY <1>2, <2>3, <2>5, <2>6, <2>7, <2>8, <2>9, ZenonT(30) DEF SessionOK
  <2>11. old.endReceived => Asked(sid)
    BY <2>3, Zenon DEF Asked
  <2>. QED  BY <1>1, <2>3, <2>4, <2>5, <2>10, <2>11, SessionStep, ZenonT(30) DEF InHand
<1>. QED  BY <1>3, <1>4, Zenon DEF HandleChecksumModule

\* An End comes.
LEMMA HandleEndStep ==
  ASSUME IInv, Orderly, NEW m \in toManager, HandleEnd(m)
  PROVE  IInv'
<1>1. m.type = "End" /\ toManager' \subseteq toManager /\ effects' = effects /\ UNCHANGED agentVars
        /\ m \in ToManager
  BY Zenon DEF IInv, Types, HandleEnd, Consume
<1>2. CASE sessions' = sessions /\ toAgent' = toAgent
  BY <1>1, <1>2, LessUnderWay, ZenonT(30)
<1>3. CASE m.sid \in Live
  <2>1. PICK sid \in Sids : sid = m.sid
    BY <1>3, ZenonT(30) DEF Live
  <2>2. PICK old \in Session : old = sessions[sid]
    BY DEF IInv, Types, Sids
  <2>3. SessionOK(sid) /\ sid \in Nat
    BY DEF IInv, Types, Sids
  <2>. DEFINE s == [old EXCEPT !.endReceived = TRUE]
              t == [s EXCEPT !.endEnqueued = @ \/ Complete(s)]
              answer == IF Complete(s) THEN EndAck("Processing", sid)
                        ELSE [type |-> "ReqRet", sid |-> sid, seqs |-> (1..s.size) \ s.seen]
  <2>4. sessions' = [sessions EXCEPT ![sid] = t] /\ toAgent' = toAgent \cup {answer}
    BY <1>3, <2>1, <2>2, Zenon DEF HandleEnd
  <2>5. /\ s \in Session /\ s.live = old.live /\ s.mode = old.mode /\ s.size = old.size
        /\ s.n = old.n /\ s.store = old.store /\ s.seen = old.seen /\ s.checksum = old.checksum
        /\ s.endReceived /\ s.endEnqueued = old.endEnqueued /\ s.done = old.done
    BY ZenonT(30) DEF Session
  <2>6. (1..s.size) \ s.seen \in SUBSET Nat
    BY <2>5 DEF Session
  <2>7. answer \in ToAgent /\ answer.sid = sid /\ answer.type \in {"EndAck", "ReqRet"}
          /\ (answer.type = "EndAck" => answer.status = "Processing")
    <3>1. CASE Complete(s)
      BY <2>3, <3>1, Zenon DEF EndAck, ToAgent
    <3>2. CASE ~ Complete(s)
      BY <2>3, <2>6, <3>2, Zenon DEF ToAgent
    <3>. QED  BY <3>1, <3>2, Zenon
  <2>. HIDE DEF s, answer
  <2>8. PICK b \in BOOLEAN : b = (old.endEnqueued \/ Complete(s))
    BY Zenon DEF Session
  <2>9. t = [s EXCEPT !.endEnqueued = b]
    BY <2>5, <2>8, ZenonT(30)
  <2>10. /\ t \in Session /\ t.live = old.live /\ t.mode = old.mode /\ t.size = old.size
         /\ t.n = old.n /\ t.store = old.store /\ t.seen = old.seen /\ t.checksum = old.checksum
         /\ t.endReceived /\ t.endEnqueued = b /\ t.done = old.done
    BY <2>5, <2>9, ZenonT(30) DEF Session
  <2>11. b => old.seen = 1..old.size
    <3>1. CASE old.endEnqueued
      BY <2>2, <2>3, <3>1, ZenonT(30) DEF SessionOK
    <3>2. CASE Complete(s)
      BY <2>5, <3>2, ZenonT(30) DEF Complete
    <3>. QED  BY <2>8, <3>1, <3>2, ZenonT(30)
  <2>. HIDE DEF t
  <2>12. calls' = calls /\ sessions'[sid] = t /\ Sids' = Sids
    BY <1>1, <2>4, ZenonT(30) DEF agentVars, Sids, IInv, Types
  <2>13. Asked(sid)
    <3>1. m = EndMessage(sid)
      BY <1>1, <2>1, ZenonT(30) DEF EndMessage, ToManager
    <3>. QED  BY <3>1, ZenonT(30) DEF Asked
  <2>14. SessionOK(sid)'
    <3>1. Trusted(sid)
      BY <2>13, Zenon DEF Trusted
    <3>. QED  BY <2>2, <2>3, <2>10, <2>11, <2>12, <3>1, ZenonT(30) DEF SessionOK
  <2>15. AnswerOK(answer)'
    <3>1. PICK a : a = answer
      BY Zenon
    <3>2. AnswerOK(a)'
      BY <2>7, <2>10, <2>12, <3>1, ZenonT(30) DEF AnswerOK
    <3>. QED  BY <3>1, <3>2, Zenon
  <2>. QED  BY <1>1, <2>2, <2>4, <2>7, <2>10, <2>13, <2>14, <2>15, SessionStep, ZenonT(30) DEF
               InHand
<1>. QED  BY <1>2, <1>3, ZenonT(30) DEF HandleEnd

\* The indexer thread is done with a session, or the session expires.
LEMMA DoneFacts ==
  ASSUME IInv, NEW sid \in Sids, UNCHANGED agentVars, toManager' = toManager,
         sessions' = [sessions EXCEPT ![sid].done = TRUE, ![sid].live = FALSE]
  PROVE  \E s \in Session :
           /\ sessions' = [sessions EXCEPT ![sid] = s] /\ sessions'[sid] = s /\ Sids' = Sids
           /\ s.n = sessions[sid].n /\ s.size = sessions[sid].size
           /\ s.endReceived = sessions[sid].endReceived /\ s.done
           /\ SessionOK(sid)'
<1>1. PICK old \in Session : old = sessions[sid]
  BY DEF IInv, Types, Sids
<1>. DEFINE s == [old EXCEPT !.done = TRUE, !.live = FALSE]
<1>2. /\ s \in Session /\ s.mode = old.mode /\ s.size = old.size
      /\ s.n = old.n /\ s.store = old.store /\ s.seen = old.seen /\ s.checksum = old.checksum
      /\ s.endReceived = old.endReceived /\ s.endEnqueued = old.endEnqueued /\ s.done
  BY Zenon DEF Session
<1>3. sessions' = [sessions EXCEPT ![sid] = s] /\ sessions'[sid] = s /\ Sids' = Sids
  BY <1>1, Zenon DEF Sids, IInv, Types
<1>. HIDE DEF s
<1>4. calls' = calls /\ (Trusted(sid)' => Trusted(sid))
  BY <1>1, <1>2, <1>3, Zenon DEF Trusted, Asked, EndMessage, agentVars
<1>5. SessionOK(sid)
  BY Zenon DEF IInv
<1>6. SessionOK(sid)'
  BY <1>1, <1>2, <1>3, <1>4, <1>5, Zenon DEF SessionOK
<1>. QED  BY <1>1, <1>2, <1>3, <1>6, Zenon

\* What the answer to a session is about: its call, if it is trusted.
LEMMA DoneStep ==
  ASSUME IInv, NEW sid \in Sids, UNCHANGED agentVars, toManager' = toManager,
         sessions' = [sessions EXCEPT ![sid].done = TRUE, ![sid].live = FALSE],
         effects \subseteq effects', \A e \in effects' \ effects : e \in Effects /\ EffectOK(e)',
         \A m \in toAgent' \ toAgent :
           m \in ToAgent /\ m.type \in {"EndAck", "ReqRet"} /\ AnswerOK(m)'
  PROVE  IInv'
<1>1. PICK s \in Session :
         /\ sessions' = [sessions EXCEPT ![sid] = s] /\ sessions'[sid] = s /\ Sids' = Sids
         /\ s.n = sessions[sid].n /\ s.size = sessions[sid].size
         /\ s.endReceived = sessions[sid].endReceived /\ s.done
         /\ SessionOK(sid)'
  BY DoneFacts, Zenon
<1>2. sessions[sid].endReceived => Asked(sid)
  BY Zenon DEF Asked
<1>. QED  BY <1>1, <1>2, SessionStep, Zenon

\* The response of a removed session is dropped.
LEMMA DropStep ==
  ASSUME IInv, NEW sid \in Sids, Drop(sid)
  PROVE  IInv'
BY DoneStep, Zenon DEF Drop, Indexed

\* A session expires.
LEMMA ExpireStep ==
  ASSUME IInv, Orderly, NEW sid \in Sids, Expire(sid)
  PROVE  IInv'
<1>1. sessions' = [sessions EXCEPT ![sid].live = FALSE, ![sid].done = TRUE]
  BY Zenon DEF Expire, Orderly
<1>2. sessions[sid] \in Session
  BY DEF IInv, Types, Sids
<1>3. [sessions[sid] EXCEPT !.live = FALSE, !.done = TRUE] =
        [sessions[sid] EXCEPT !.done = TRUE, !.live = FALSE]
  BY <1>2, Zenon DEF Session
<1>4. sessions' = [sessions EXCEPT ![sid].done = TRUE, ![sid].live = FALSE]
  BY <1>1, <1>3, Zenon
<1>. QED  BY <1>4, DoneStep, Zenon DEF Expire

\* The indexer thread answers with an error.
LEMMA AnswerErrorStep ==
  ASSUME IInv, NEW sid \in Sids, AnswerError(sid)
  PROVE  IInv'
<1>1. sessions[sid].endReceived /\ sid \in Nat
  BY DEF IInv, AnswerError, Indexed, SessionOK, Types, Sids
<1>2. sessions' = [sessions EXCEPT ![sid].done = TRUE, ![sid].live = FALSE] /\ UNCHANGED agentVars
        /\ toManager' = toManager /\ effects' = effects
        /\ toAgent' = toAgent \cup {EndAck("Error", sid)}
  BY Zenon DEF AnswerError, Indexed
<1>3. sid \in Sids' /\ sessions'[sid].endReceived
  BY <1>1, <1>2, DoneFacts, ZenonT(30)
<1>4. PICK a : a = EndAck("Error", sid)
  BY Zenon
<1>5. a \in ToAgent /\ a.type = "EndAck" /\ a.sid = sid /\ a.status = "Error"
  BY <1>1, <1>4, ZenonT(30) DEF EndAck, ToAgent
<1>6. AnswerOK(a)'
  BY <1>3, <1>5, ZenonT(30) DEF AnswerOK
<1>. QED  BY <1>2, <1>4, <1>5, <1>6, DoneStep, Zenon

\* A session that is answered with success while the call may still use the
\* answer has not been removed, so its whole batch has been read.
LEMMA AnswerStep ==
  ASSUME IInv, Orderly, NEW sid \in Sids, Answer(sid)
  PROVE  IInv'
<1>1. PICK s \in Session : s = sessions[sid]
  BY SMTT(30) DEF IInv, Types, Sids
<1>2. SessionOK(sid) /\ s.endEnqueued /\ ~ s.done /\ s.endReceived /\ sid \in Nat /\ sid # 0
  BY <1>1, SMTT(30) DEF IInv, Answer, Indexed, SessionOK, Types, Sids
<1>3. s.n \in DOMAIN calls /\ s.mode = Mode(calls[s.n].op) /\ s.checksum \in {0, s.n}
        /\ s.checksum \in 0..Len(calls)
  BY <1>1, <1>2, ZenonT(30) DEF SessionOK, Trusted, Asked
<1>4. s.store = Batch(s.n) /\ s.store = Content(s.n, s.seen)
  BY <1>1, <1>2, BatchIsContent, SMTT(30) DEF SessionOK, IInv
<1>5. sessions' = [sessions EXCEPT ![sid].done = TRUE, ![sid].live = FALSE] /\ UNCHANGED agentVars
        /\ toManager' = toManager /\ calls' = calls /\ m_syncState' = m_syncState
        /\ m_stopRequested' = m_stopRequested
  BY Zenon DEF Answer, Indexed, agentVars
<1>6. sid \in Sids' /\ sessions'[sid].endReceived /\ sessions'[sid].n = s.n
  BY <1>1, <1>2, <1>5, DoneFacts, Zenon
<1>7. CASE s.mode = "CHECK" /\ s.checksum = 0
  <2>1. toAgent' = toAgent \cup {EndAck("Error", sid)} /\ effects' = effects
    BY <1>1, <1>7, ZenonT(30) DEF Answer
  <2>2. PICK a : a = EndAck("Error", sid)
    BY Zenon
  <2>3. a \in ToAgent /\ a.type = "EndAck" /\ a.sid = sid /\ a.status = "Error"
    BY <1>2, <2>2, ZenonT(30) DEF EndAck, ToAgent
  <2>4. AnswerOK(a)'
    BY <1>6, <2>3, ZenonT(30) DEF AnswerOK
  <2>. QED  BY <1>5, <2>1, <2>2, <2>3, <2>4, DoneStep, ZenonT(30)
<1>8. CASE ~ (s.mode = "CHECK" /\ s.checksum = 0)
  <2>1. PICK differs \in BOOLEAN, items \in Read(s) :
          /\ differs => s.mode = "CHECK"
          /\ effects' = effects \cup {Effect(s, items, differs)}
          /\ toAgent' = toAgent \cup {EndAck(IF differs THEN "ChecksumMismatch" ELSE "Ok", sid)}
    BY <1>1, <1>8, ZenonT(30) DEF Answer
  <2>2. items \in {s.store, {}} /\ (s.live => items = s.store)
    BY <2>1, ZenonT(30) DEF Read
  <2>3. PICK e : e = Effect(s, items, differs)
    BY Zenon
  <2>4. e.mode = s.mode /\ e.n = s.n /\ e.items = items /\ e.checksum = s.checksum
          /\ e.differs = differs
    BY <2>3, ZenonT(30) DEF Effect
  <2>5. e \in Effects
    <3>1. items \in SUBSET Items
      BY <2>2, ZenonT(30) DEF Session
    <3>. QED  BY <2>3, <3>1, ZenonT(30) DEF Effect, Effects, Session
  <2>6. \A item \in items : item.n = s.n
    BY <1>4, <2>2, SMTT(30) DEF Content
  <2>7. EffectOK(e)'
    BY <1>3, <1>5, <2>4, <2>6, Zenon DEF EffectOK
  <2>8. effects' = effects \cup {e}
    BY <2>1, <2>3, Zenon
  <2>9. PICK status \in {"ChecksumMismatch", "Ok"} :
          status = (IF differs THEN "ChecksumMismatch" ELSE "Ok")
    BY Zenon
  <2>10. PICK a : a = EndAck(status, sid)
    BY Zenon
  <2>11. a \in ToAgent /\ a.type = "EndAck" /\ a.sid = sid /\ a.status = status
    BY <1>2, <2>10, ZenonT(30) DEF EndAck, ToAgent
  <2>12. toAgent' = toAgent \cup {a}
    BY <2>1, <2>9, <2>10, ZenonT(30)
  <2>13. status = "ChecksumMismatch" => s.n \in Differing'
    <3>1. status = "ChecksumMismatch" => differs /\ s.checksum = s.n
      BY <1>3, <1>8, <2>1, <2>9, ZenonT(30)
    <3>. QED  BY <1>3, <1>5, <2>4, <2>8, <3>1, ZenonT(30) DEF Differing
  <2>14. status = "Ok" /\ ~ m_stopRequested /\ sid = m_syncState.session => s.n \in Applied'
    <3>1. SUFFICES ASSUME status = "Ok", ~ m_stopRequested, sid = m_syncState.session
                   PROVE  s.n \in Applied'
      BY Zenon
    <3>2. PICK c \in Callers : TRUE
      BY ZenonT(30) DEF Orderly
    <3>3. s.live
      BY <1>1, <1>2, <3>1, <3>2, ZenonT(30) DEF IInv, InSession, InHand
    <3>4. items = Batch(s.n) /\ Batch(s.n) = Content(s.n, s.seen)
      BY <1>4, <2>2, <3>3, ZenonT(30)
    <3>5. calls[s.n].op = "CHECK" => s.mode = "CHECK"
      BY <1>3, ZenonT(30) DEF Mode
    <3>6. ~ differs
      BY <2>9, <3>1, ZenonT(30)
    <3>7. Batch(s.n)' = Batch(s.n)
      BY <1>5, ZenonT(30) DEF Batch
    <3>8. DoneBy(s.n, e)'
      BY <1>3, <1>5, <1>8, <2>4, <3>4, <3>5, <3>6, <3>7, ZenonT(30) DEF DoneBy
    <3>. QED  BY <1>3, <1>5, <2>8, <3>8, ZenonT(30) DEF Applied
  <2>15. AnswerOK(a)'
    BY <1>5, <1>6, <2>11, <2>13, <2>14, ZenonT(30) DEF AnswerOK
  <2>. QED  BY <1>5, <2>5, <2>7, <2>8, <2>11, <2>12, <2>15, DoneStep, ZenonT(30)
<1>. QED  BY <1>7, <1>8, ZenonT(30)

\* Removing the open sessions keeps what they hold.
LEMMA RemovedFacts ==
  ASSUME sessions \in Seq(Session)
  PROVE  /\ Removed \in Seq(Session) /\ Len(Removed) = Len(sessions) /\ DOMAIN Removed = Sids
         /\ \A sid \in Sids :
              /\ Removed[sid].mode = sessions[sid].mode /\ Removed[sid].size = sessions[sid].size
              /\ Removed[sid].n = sessions[sid].n /\ Removed[sid].store = sessions[sid].store
              /\ Removed[sid].seen = sessions[sid].seen
              /\ Removed[sid].checksum = sessions[sid].checksum
              /\ Removed[sid].endReceived = sessions[sid].endReceived
              /\ Removed[sid].endEnqueued = sessions[sid].endEnqueued
              /\ Removed[sid].done = sessions[sid].done
<1>1. Sids = 1..Len(sessions) /\ Len(sessions) \in Nat
  BY DEF Sids
<1>2. \A sid \in Sids : sessions[sid] \in Session /\ Removed[sid] = [sessions[sid] EXCEPT !.live = FALSE]
  BY <1>1 DEF Removed
<1>3. \A s \in Session : [s EXCEPT !.live = FALSE] \in Session
  BY ZenonT(30) DEF Session
<1>4. Removed \in Seq(Session) /\ Len(Removed) = Len(sessions) /\ DOMAIN Removed = Sids
  BY <1>1, <1>2, <1>3 DEF Removed
<1>5. ASSUME NEW s \in Session, NEW r, r = [s EXCEPT !.live = FALSE]
      PROVE  /\ r.mode = s.mode /\ r.size = s.size /\ r.n = s.n /\ r.store = s.store
             /\ r.seen = s.seen /\ r.checksum = s.checksum /\ r.endReceived = s.endReceived
             /\ r.endEnqueued = s.endEnqueued /\ r.done = s.done
  BY <1>5, Zenon DEF Session
<1>. QED  BY <1>2, <1>4, <1>5, SMTT(30)

\* Before stop(), a Start finds neither a session of the call nor another
\* answer under way.
LEMMA StartAlone ==
  ASSUME IInv, Orderly, NEW m \in toManager, m.type = "Start", ~ m_stopRequested
  PROVE  /\ m_syncState.session = 0 /\ Opening = {m}
         /\ \A c \in Callers : caller[c].pc = "waitStart" /\ ~ StartAnswered
<1>1. m \in Opening
  BY ZenonT(30) DEF Opening
<1>2. \A c \in Callers : caller[c].pc = "waitStart" /\ ~ StartAnswered
  BY <1>1, ZenonT(30) DEF IInv, OneStart
<1>3. PICK c \in Callers : TRUE
  BY ZenonT(30) DEF Orderly
<1>4. m_syncState.session = 0
  BY <1>2, <1>3, ZenonT(30) DEF IInv, FlagsOK, StartAnswered
<1>. QED  BY <1>1, <1>2, <1>4, ZenonT(30) DEF IInv, OneStart

\* A Start is consumed and answered.
LEMMA StartHandled ==
  ASSUME IInv, Orderly, NEW m \in toManager, m.type = "Start", UNCHANGED agentVars,
         toManager' = toManager \ {m}, NEW ack \in ToAgent, ack.type = "StartAck",
         toAgent' = toAgent \cup {ack}, AnswerOK(ack)', effects' = effects,
         sessions' \in Seq(Session), Sids \subseteq Sids',
         \A sid \in Sids :
           /\ sessions'[sid].mode = sessions[sid].mode /\ sessions'[sid].size = sessions[sid].size
           /\ sessions'[sid].n = sessions[sid].n /\ sessions'[sid].store = sessions[sid].store
           /\ sessions'[sid].seen = sessions[sid].seen
           /\ sessions'[sid].checksum = sessions[sid].checksum
           /\ sessions'[sid].endReceived = sessions[sid].endReceived
           /\ sessions'[sid].endEnqueued = sessions[sid].endEnqueued,
         \A sid \in Sids' \ Sids : SessionOK(sid)'
  PROVE  IInv'
<1>1. /\ m_stopRequested' = m_stopRequested /\ caller' = caller /\ calls' = calls
      /\ outcome' = outcome /\ m_syncState' = m_syncState /\ StartAnswered' = StartAnswered
  BY ZenonT(30) DEF agentVars, StartAnswered
<1>2. ManagerKeeps
  <2>1. ASSUME NEW sid \in Sids, ~ m_stopRequested,
               sid = m_syncState.session \/ StartAck("Ok", sid) \in toAgent
        PROVE  FALSE
    <3>1. m_syncState.session = 0 /\ Opening = {m}
      BY <2>1, StartAlone, ZenonT(30)
    <3>2. sid # 0
      BY SMTT(30) DEF IInv, Types, Sids
    <3>3. StartAck("Ok", sid) \in toAgent => StartAck("Ok", sid) \in Opening
      BY Zenon DEF Opening, StartAck
    <3>4. StartAck("Ok", sid) # m
      BY SMTT(30) DEF StartAck
    <3>. QED  BY <2>1, <3>1, <3>2, <3>3, <3>4, ZenonT(30)
  <2>2. \A sid \in Sids : sessions[sid].endReceived => Asked(sid)
    BY Zenon DEF Asked
  <2>. QED  BY <2>1, <2>2, ZenonT(30) DEF ManagerKeeps
<1>3. /\ \A sid \in Sids : Trusted(sid)' => Trusted(sid)
      /\ \A x \in toManager' : MessageOK(x)'
      /\ \A x \in toAgent : AnswerOK(x)'
      /\ \A c \in Callers : CurrentCall(c)' /\ InSession(c)' /\ FlagsOK(c)'
      /\ SuccessIsApplied'
  BY <1>2, ManagerFrame, Zenon
<1>4. Types'
  BY <1>1, ZenonT(30) DEF IInv, Types
<1>5. \A sid \in Sids' : SessionOK(sid)'
  <2>1. ASSUME NEW sid \in Sids
        PROVE  SessionOK(sid)'
    <3>1. SessionOK(sid)
      BY ZenonT(30) DEF IInv
    <3>. QED  BY <1>1, <1>3, <3>1, ZenonT(30) DEF SessionOK
  <2>. QED  BY <2>1, ZenonT(30)
<1>6. \A e \in effects' : EffectOK(e)'
  BY <1>1, ZenonT(30) DEF IInv, EffectOK
<1>7. OneStart'
  <2>1. SUFFICES ASSUME ~ m_stopRequested
                 PROVE  OneStart'
    BY <1>1, ZenonT(30) DEF OneStart
  <2>2. Opening = {m} /\ \A c \in Callers : caller[c].pc = "waitStart" /\ ~ StartAnswered
    BY <2>1, StartAlone, ZenonT(30)
  <2>3. \A x \in Opening' : x = ack
    <3>1. ASSUME NEW x \in Opening', x # ack
          PROVE  FALSE
      <4>1. x \in (toManager \ {m}) \cup toAgent /\ x.type \in {"Start", "StartAck"}
        BY <3>1, ZenonT(30) DEF Opening
      <4>2. x \in Opening
        BY <4>1, ZenonT(30) DEF Opening
      <4>3. m \notin toAgent
        BY ZenonT(30) DEF IInv, Types, ToAgent
      <4>. QED  BY <2>2, <4>1, <4>2, <4>3, ZenonT(30)
    <3>. QED  BY <3>1, ZenonT(30)
  <2>. QED  BY <1>1, <2>2, <2>3, ZenonT(30) DEF OneStart
<1>. QED  BY <1>3, <1>4, <1>5, <1>6, <1>7, ZenonT(30) DEF IInv

\* A session is opened.
LEMMA HandleStartStep ==
  ASSUME IInv, Orderly, NEW m \in toManager, HandleStart(m)
  PROVE  IInv'
<1>1. sessions \in Seq(Session) /\ MessageOK(m) /\ m.type = "Start" /\ m \in ToManager
  BY ZenonT(30) DEF IInv, Types, HandleStart
<1>2. m.n \in DOMAIN calls /\ m.mode = Mode(calls[m.n].op) /\ m.size = Len(calls[m.n].items)
        /\ (~ m_stopRequested => m.n = Len(calls))
  BY <1>1, ZenonT(30) DEF MessageOK
<1>3. PICK s : s = NewSession(m)
  BY ZenonT(30)
<1>4. /\ s.live /\ s.mode = m.mode /\ s.size = m.size /\ s.n = m.n /\ s.store = {} /\ s.seen = {}
      /\ s.checksum = 0 /\ ~ s.endReceived /\ ~ s.endEnqueued /\ ~ s.done
  BY <1>3, ZenonT(30) DEF NewSession
<1>5. s \in Session
  <2>1. m.mode \in Operations /\ m.size \in Nat /\ m.n \in Nat
    BY <1>1, ZenonT(30) DEF ToManager
  <2>. QED  BY <1>3, <2>1, ZenonT(30) DEF NewSession, Session
<1>6. /\ Removed \in Seq(Session) /\ Len(Removed) = Len(sessions) /\ DOMAIN Removed = Sids
  BY <1>1, RemovedFacts, ZenonT(30)
<1>7. PICK k : k = Len(sessions) + 1
  BY ZenonT(30)
<1>8. Sids = 1..Len(sessions) /\ Len(sessions) \in Nat /\ k \in Nat /\ k \notin Sids /\ k # 0
  BY <1>1, <1>7, SMTT(30) DEF Sids
<1>9. sessions' = Append(Removed, s) /\ UNCHANGED agentVars /\ effects' = effects
        /\ toManager' = toManager \ {m} /\ toAgent' = toAgent \cup {StartAck("Ok", k)}
        /\ calls' = calls /\ m_stopRequested' = m_stopRequested /\ m_syncState' = m_syncState
        /\ caller' = caller
  BY <1>3, <1>7, ZenonT(30) DEF HandleStart, Consume, agentVars
<1>10. /\ sessions' \in Seq(Session) /\ Sids' = Sids \cup {k} /\ sessions'[k] = s
       /\ \A sid \in Sids : sessions'[sid] = Removed[sid]
  BY <1>5, <1>6, <1>7, <1>8, <1>9, SMTT(30) DEF Sids
<1>11. SessionOK(k)'
  <2>1. s.store = Content(s.n, s.seen)
    BY <1>4, ZenonT(30) DEF Content
  <2>2. Len(calls) \in Nat
    BY SMTT(30) DEF IInv, Types
  <2>3. s.seen \subseteq 1..s.size /\ s.checksum \in 0..Len(calls) /\ s.checksum \in {0, s.n}
    BY <1>4, <2>2, SMTT(30)
  <2>4. s.n \in DOMAIN calls /\ s.mode = Mode(calls[s.n].op) /\ s.size = Len(calls[s.n].items)
    BY <1>2, <1>4, ZenonT(30)
  <2>5. sessions'[k] = s /\ calls' = calls
    BY <1>9, <1>10, ZenonT(30)
  <2>. QED  BY <1>4, <2>1, <2>3, <2>4, <2>5, ZenonT(30) DEF SessionOK
<1>12. ~ Asked(k)'
  <2>1. EndMessage(k) \notin toManager
    <3>1. EndMessage(k).type = "End" /\ EndMessage(k).sid = k
      BY ZenonT(30) DEF EndMessage
    <3>. QED  BY <1>8, <3>1, ZenonT(30) DEF IInv, MessageOK
  <2>2. \A c \in Callers : m_syncState.session # k
    BY <1>8, ZenonT(30) DEF IInv, InSession, Types, SyncStates
  <2>. QED  BY <1>4, <1>9, <1>10, <2>1, <2>2, ZenonT(30) DEF Asked, EndMessage
<1>13. PICK ack : ack = StartAck("Ok", k)
  BY ZenonT(30)
<1>14. ack \in ToAgent /\ ack.type = "StartAck" /\ ack.status = "Ok" /\ ack.sid = k
  BY <1>8, <1>13, ZenonT(30) DEF StartAck, ToAgent
<1>15. AnswerOK(ack)'
  <2>1. m_syncState.session # k
    <3>1. PICK c \in Callers : TRUE
      BY ZenonT(30) DEF Orderly
    <3>. QED  BY <1>8, <3>1, ZenonT(30) DEF IInv, InSession, Types, SyncStates
  <2>2. InHand(k)'
    BY <1>4, <1>10, ZenonT(30) DEF InHand
  <2>. QED  BY <1>2, <1>4, <1>9, <1>10, <1>12, <1>14, <2>1, <2>2, ZenonT(30) DEF AnswerOK
<1>16. \A sid \in Sids :
         /\ sessions'[sid].mode = sessions[sid].mode /\ sessions'[sid].size = sessions[sid].size
         /\ sessions'[sid].n = sessions[sid].n /\ sessions'[sid].store = sessions[sid].store
         /\ sessions'[sid].seen = sessions[sid].seen
         /\ sessions'[sid].checksum = sessions[sid].checksum
         /\ sessions'[sid].endReceived = sessions[sid].endReceived
         /\ sessions'[sid].endEnqueued = sessions[sid].endEnqueued
  BY <1>1, <1>10, RemovedFacts
<1>17. \A sid \in Sids' \ Sids : SessionOK(sid)'
  BY <1>10, <1>11, Zenon
<1>18. Sids \subseteq Sids'
  BY <1>10, ZenonT(30)
<1>. QED  BY <1>1, <1>9, <1>10, <1>13, <1>14, <1>15, <1>16, <1>17, <1>18, StartHandled, Zenon

\* A session is refused.
LEMMA RefuseStartStep ==
  ASSUME IInv, Orderly, NEW m \in toManager, RefuseStart(m)
  PROVE  IInv'
<1>1. sessions \in Seq(Session) /\ m.type = "Start" /\ UNCHANGED agentVars /\ effects' = effects
        /\ toManager' = toManager \ {m}
  BY ZenonT(30) DEF IInv, Types, RefuseStart, Consume
<1>2. PICK status \in {"Error", "Offline"} : toAgent' = toAgent \cup {StartAck(status, 0)}
  BY ZenonT(30) DEF RefuseStart
<1>3. PICK ack : ack = StartAck(status, 0)
  BY ZenonT(30)
<1>4. ack \in ToAgent /\ ack.type = "StartAck" /\ ack.status # "Ok"
  BY <1>2, <1>3, ZenonT(30) DEF StartAck, ToAgent
<1>5. AnswerOK(ack)'
  BY <1>4, ZenonT(30) DEF AnswerOK
<1>6. sessions' \in {sessions, Removed}
  BY ZenonT(30) DEF RefuseStart
<1>7. sessions' \in Seq(Session) /\ Sids' = Sids
  BY <1>1, <1>6, RemovedFacts, ZenonT(30) DEF Sids
<1>8. \A sid \in Sids :
        /\ sessions'[sid].mode = sessions[sid].mode /\ sessions'[sid].size = sessions[sid].size
        /\ sessions'[sid].n = sessions[sid].n /\ sessions'[sid].store = sessions[sid].store
        /\ sessions'[sid].seen = sessions[sid].seen
        /\ sessions'[sid].checksum = sessions[sid].checksum
        /\ sessions'[sid].endReceived = sessions[sid].endReceived
        /\ sessions'[sid].endEnqueued = sessions[sid].endEnqueued
  BY <1>1, <1>6, RemovedFacts
<1>. QED  BY <1>1, <1>2, <1>3, <1>4, <1>5, <1>7, <1>8, StartHandled, ZenonT(30)

-----------------------------------------------------------------------------
(* The theorems *)

\* The invariant holds initially.
LEMMA InitInvariant ==
  ASSUME Init
  PROVE  IInv
<1>1. /\ m_syncState = Reset /\ m_stopRequested = FALSE /\ caller = [c \in Callers |-> Idle]
      /\ calls = <<>> /\ outcome = <<>> /\ toManager = {} /\ toAgent = {} /\ sessions = <<>>
      /\ effects = {} /\ Sids = {}
  BY DEF Init, AgentInit, Sids
<1>2. Reset \in SyncStates /\ Idle \in CallerStates /\ Idle.pc = "idle" /\ Reset.session = 0
        /\ ~ Reset.startAckReceived /\ ~ Reset.endAckReceived /\ Reset.lastSyncResult = "SUCCESS"
  BY Zenon DEF Reset, SyncStates, Idle, CallerStates, Pcs
<1>3. Types
  <2>1. \A S : <<>> \in Seq(S)
    OBVIOUS
  <2>2. caller \in [Callers -> CallerStates]
    BY <1>1, <1>2, Zenon
  <2>. QED  BY <1>1, <1>2, <2>1, <2>2, Zenon DEF Types
<1>4. \A c \in Callers : CurrentCall(c) /\ InSession(c) /\ FlagsOK(c)
  BY <1>1, <1>2, Zenon DEF CurrentCall, InSession, FlagsOK
<1>5. OneStart /\ SuccessIsApplied
  BY <1>1 DEF OneStart, Opening, SuccessIsApplied
<1>. QED  BY <1>1, <1>3, <1>4, <1>5, ZenonT(30) DEF IInv

\* Every step preserves the invariant.
LEMMA StepInvariant ==
  ASSUME IInv, Orderly, [Next]_vars
  PROVE  IInv'
<1>1. CASE UNCHANGED vars
  BY <1>1, LessUnderWay, Zenon DEF vars
<1>2. CASE AgentStep
  <2>1. ASSUME NEW c \in Callers, NEW shape \in Shapes, Begin(c, shape)
        PROVE  IInv'
    BY <1>2, <2>1, BeginStep, ZenonT(30) DEF AgentStep
  <2>2. CASE Stop
    BY <1>2, <2>2, StopStep, Zenon DEF AgentStep
  <2>3. ASSUME NEW m \in toAgent, ParseResponseBuffer(m)
        PROVE  IInv'
    BY <1>2, <2>3, ParseStep, Zenon DEF AgentStep
  <2>. QED  BY <1>2, <2>1, <2>2, <2>3, ZenonT(30) DEF AgentStep
<1>3. ASSUME NEW c \in Callers, Proceeds(c)
      PROVE  IInv'
  <2>1. UNCHANGED <<sessions, effects>>
    BY <1>3, Zenon DEF Proceeds
  <2>2. CASE SendStart(c)
    BY <2>1, <2>2, SendStartStep, ZenonT(30)
  <2>3. CASE LocalFailure(c)
    BY <2>1, <2>3, LocalFailureStep, ZenonT(30)
  <2>4. CASE ReceiveStartAck(c)
    BY <2>1, <2>4, ReceiveStartAckStep, Zenon
  <2>5. CASE SendData(c)
    BY <2>1, <2>5, SendDataStep, Zenon
  <2>6. CASE EnterEnd(c)
    BY <2>1, <2>6, EnterEndStep, Zenon
  <2>7. CASE SendEnd(c)
    BY <2>1, <2>7, SendEndStep, Zenon
  <2>8. CASE ReceiveEndAck(c)
    BY <2>1, <2>8, ReceiveEndAckStep, Zenon
  <2>9. CASE ReceiveReqRet(c)
    BY <2>1, <2>9, ReceiveReqRetStep, Zenon
  <2>10. CASE ReceiveProcessing(c)
    BY <2>1, <2>10, ReceiveProcessingStep, Zenon
  <2>11. CASE Finish(c)
    BY <2>1, <2>11, FinishStep, Zenon
  <2>12. CASE StartTimesOut(c) /\ StartWaitOver
    BY <2>1, <2>12, StartTimesOutStep, Zenon
  <2>13. CASE EndTimesOut(c)
    BY <2>1, <2>13, EndTimesOutStep, Zenon
  <2>. QED  BY <1>3, <2>2, <2>3, <2>4, <2>5, <2>6, <2>7, <2>8, <2>9, <2>10, <2>11, <2>12, <2>13,
               ZenonT(30) DEF Proceeds, CallStep
<1>4. CASE ManagerStep
  <2>1. ASSUME NEW m \in toManager, Handle(m)
        PROVE  IInv'
    BY <2>1, HandleStartStep, RefuseStartStep, HandleDataStep, HandleChecksumModuleStep,
       HandleEndStep, Zenon DEF Handle
  <2>2. ASSUME NEW sid \in Sids, Answer(sid) \/ AnswerError(sid) \/ Drop(sid) \/ Expire(sid)
        PROVE  IInv'
    BY <2>2, AnswerStep, AnswerErrorStep, DropStep, ExpireStep, Zenon
  <2>. QED  BY <1>4, <2>1, <2>2, Zenon DEF ManagerStep
<1>5. CASE Lose
  BY <1>5, LoseStep, Zenon
<1>. QED  BY <1>1, <1>2, <1>3, <1>4, <1>5, ZenonT(30) DEF Next

\* The invariant holds for any number of calls, items, retries and mishaps.
THEOREM SyncProtocolInvariant ==
  ASSUME Orderly
  PROVE  Spec => []IInv
<1>1. Init => IInv
  BY InitInvariant, Zenon
<1>2. IInv /\ [Next]_vars => IInv'
  BY StepInvariant, Zenon
<1>. QED  BY <1>1, <1>2, PTL DEF Spec

\* SuccessIsApplied: whatever is lost, late, refused or removed, a call that
\* reports success has had its whole batch applied by the manager, in its own
\* mode (sendEndAndWaitAck returns true only on a final answer of its session).
THEOREM SuccessMeansApplied ==
  ASSUME Orderly
  PROVE  Spec => []SuccessIsApplied
<1>1. IInv => SuccessIsApplied
  BY Zenon DEF IInv
<1>. QED  BY <1>1, SyncProtocolInvariant, PTL

\* A step that neither makes nor answers a call decides at most.
LEMMA QuietDecides ==
  ASSUME IInv, outcome' = outcome, calls' = calls, effects \subseteq effects'
  PROVE  Promise!Decide
<1>1. Applied \subseteq Applied' /\ Differing \subseteq Differing'
  BY EffectsGrow, Zenon
<1>2. Applied' \subseteq DOMAIN outcome /\ Differing' \subseteq DOMAIN outcome
  <2>1. DOMAIN outcome = DOMAIN calls
    BY DEF IInv, Types
  <2>. QED  BY <2>1, Zenon DEF Applied, Differing
<1>. QED  BY <1>1, <1>2, Zenon DEF Promise!Decide

\* A call returns once, and reports success only when it has been applied and
\* a mismatch only when the manager has found one.
LEMMA FinishReturns ==
  ASSUME IInv, NEW c \in Callers, Finish(c), effects' = effects
  PROVE  \E n \in DOMAIN outcome : Promise!Return(n)
<1>1. PICK n \in DOMAIN outcome : n = caller[c].n
  BY DEF IInv, CurrentCall, Finish, Types
<1>2. outcome[n] = "open"
  BY <1>1, Zenon DEF IInv, CurrentCall, Finish
<1>3. Applied' = Applied /\ Differing' = Differing
  BY EffectsSame, Zenon DEF Finish
<1>4. PICK result \in {"ok", "failed", "mismatch"} : result = Result(c)
  BY Zenon DEF Result
<1>5. outcome' = [outcome EXCEPT ![n] = result]
  BY <1>1, <1>4, Zenon DEF Finish
<1>6. (result = "ok" => n \in Applied) /\ (result = "mismatch" => n \in Differing)
  BY <1>1, <1>4, ZenonT(30) DEF Result, IInv, FlagsOK
<1>. QED  BY <1>2, <1>3, <1>5, <1>6, ZenonT(30) DEF Promise!Return

\* Steps of the call other than its last one neither make nor answer a call.
LEMMA ProceedsKeepsOutcome ==
  ASSUME NEW c \in Callers, Proceeds(c), ~ Finish(c)
  PROVE  outcome' = outcome /\ calls' = calls /\ effects' = effects
BY Zenon DEF Proceeds, CallStep, SendStart, LocalFailure, ReceiveStartAck, SendData, EnterEnd,
   SendEnd, ReceiveEndAck, ReceiveReqRet, ReceiveProcessing, StartTimesOut, EndTimesOut

\* Nor do steps of the manager.
LEMMA ManagerKeepsOutcome ==
  ASSUME ManagerStep \/ Lose
  PROVE  outcome' = outcome /\ calls' = calls /\ effects \subseteq effects'
<1>1. UNCHANGED agentVars
  BY ZenonT(30) DEF ManagerStep, Lose, Handle, HandleStart, RefuseStart, HandleData,
     HandleChecksumModule,
         HandleEnd, Answer, AnswerError, Drop, Expire
<1>2. effects \subseteq effects'
  <2>1. ASSUME NEW sid \in Sids, Answer(sid)
        PROVE  effects \subseteq effects'
    BY <2>1, Zenon DEF Answer
  <2>. QED  BY <2>1, Zenon DEF ManagerStep, Lose, Handle, HandleStart, RefuseStart, HandleData,
                        HandleChecksumModule, HandleEnd, AnswerError, Drop, Expire
<1>. QED  BY <1>1, <1>2, Zenon DEF agentVars

\* ImplementsSession: SyncProtocol keeps the promise of SyncSession, on which
\* StateSync is built, for any number of calls, items, retries and mishaps: a
\* call returns once, with success only for a batch the manager has applied as
\* a whole, with a mismatch only if the manager has found one.
THEOREM SyncProtocolImplementsSession ==
  ASSUME Orderly
  PROVE  Spec => ImplementsSession
<1>1. Init => Promise!Init
  BY Zenon DEF Init, AgentInit, Promise!Init, Applied, Differing
<1>2. IInv /\ [Next]_vars => [Promise!Next]_(Promise!sessionVars)
  <2>. SUFFICES ASSUME IInv, [Next]_vars
                PROVE  [Promise!Next]_(Promise!sessionVars)
    BY Zenon
  <2>1. CASE UNCHANGED vars
    <3>1. Applied' = Applied /\ Differing' = Differing /\ outcome' = outcome
      BY <2>1, EffectsSame, Zenon DEF vars, agentVars
    <3>. QED  BY <3>1, Zenon DEF Promise!sessionVars
  <2>2. ASSUME NEW c \in Callers, NEW shape \in Shapes, Begin(c, shape), effects' = effects
        PROVE  Promise!Call
    <3>1. Applied' = Applied /\ Differing' = Differing
      BY <2>2, NewCallNotApplied, Zenon
    <3>. QED  BY <2>2, <3>1, Zenon DEF Begin, Promise!Call
  <2>3. CASE AgentStep
    <3>1. CASE Stop \/ \E m \in toAgent : ParseResponseBuffer(m)
      <4>1. outcome' = outcome /\ calls' = calls /\ effects' = effects
        BY <2>3, <3>1, Zenon DEF AgentStep, Stop, ParseResponseBuffer
      <4>. QED  BY <4>1, QuietDecides, Zenon DEF Promise!Next
    <3>. QED  BY <2>2, <2>3, <3>1, ZenonT(30) DEF AgentStep, Promise!Next
  <2>4. ASSUME NEW c \in Callers, Proceeds(c)
        PROVE  Promise!Next
    <3>1. CASE Finish(c)
      BY <2>4, <3>1, FinishReturns, Zenon DEF Proceeds, Promise!Next
    <3>2. CASE ~ Finish(c)
      BY <2>4, <3>2, ProceedsKeepsOutcome, QuietDecides, ZenonT(30) DEF Promise!Next
    <3>. QED  BY <3>1, <3>2, Zenon
  <2>5. CASE ManagerStep \/ Lose
    BY <2>5, ManagerKeepsOutcome, QuietDecides, ZenonT(30) DEF Promise!Next
  <2>. QED  BY <2>1, <2>3, <2>4, <2>5, Zenon DEF Next
<1>. QED  BY <1>1, <1>2, SyncProtocolInvariant, PTL DEF Spec, ImplementsSession, Promise!Spec
-----------------------------------------------------------------------------
(***************************************************************************)
(* NoSpuriousFailure: until something goes wrong, all that a call waits    *)
(* for is under way.                                                       *)
(***************************************************************************)
\* No wait is cut short, nothing fails on the agent, and nobody stops it.
Calm == Faults \subseteq {"emptied"}

\* Only a CHECK session is answered with an error; what is requested again is
\* missing.
GoodAnswer(m) ==
  /\ m.type = "StartAck" => m.status = "Ok"
  /\ m.type = "EndAck" /\ m.status \notin {"Ok", "Processing"} => sessions[m.sid].mode = "CHECK"
  /\ m.type = "ReqRet" => m.seqs # {} /\ m.seqs \subseteq 1..sessions[m.sid].size

\* A complete session is queued, and only queued sessions are done.
GoodSession(sid) ==
  /\ sessions[sid].endReceived /\ sessions[sid].seen = 1..sessions[sid].size =>
       sessions[sid].endEnqueued
  /\ sessions[sid].done => sessions[sid].endEnqueued

\* The End of the session has not been sent.
Unasked(sid) == ~ sessions[sid].endReceived /\ EndMessage(sid) \notin toManager

\* The items, the End and the final answer of the session have come or are
\* under way.
Coming(sid) ==
  \A q \in 1..sessions[sid].size :
    q \in sessions[sid].seen \/ \E m \in toManager : m.type = "Data" /\ m.sid = sid /\ m.seq = q

EndComing(sid) == sessions[sid].endReceived \/ EndMessage(sid) \in toManager

FinalComing(sid) ==
  \/ m_syncState.endAckReceived \/ m_syncState.syncFailed
  \/ \E m \in toAgent : m.type = "EndAck" /\ m.sid = sid /\ m.status # "Processing"

GoodCall(c) ==
  /\ caller[c].pc # "failed"
  /\ caller[c].pc = "endFailed" => Shape(c).op = "CHECK"
  /\ m_syncState.syncFailed => m_syncState.phase = "WaitingEndAck" /\ Shape(c).op = "CHECK"
  /\ m_syncState.reqRetReceived =>
       /\ m_syncState.phase = "WaitingEndAck"
       /\ m_syncState.reqRetRanges # {} /\ m_syncState.reqRetRanges \subseteq Seqs(c)
  /\ caller[c].pc = "waitStart" /\ ~ StartAnswered => Opening # {}

AllComing(c) ==
  \A sid \in Sids : sid = m_syncState.session =>
    /\ caller[c].pc \in {"waitStart", "data", "end", "delay"} => Unasked(sid)
    /\ caller[c].pc \in {"end", "delay", "waitEnd"} => Coming(sid)
    /\ caller[c].pc = "waitEnd" => EndComing(sid)
    /\ caller[c].pc = "waitEnd" /\ sessions[sid].done => FinalComing(sid)

NoneFailed == \A n \in DOMAIN outcome : calls[n].op # "CHECK" => outcome[n] # "failed"

Undisturbed ==
  /\ ~ m_stopRequested
  /\ NoneFailed
  /\ \A m \in toAgent : GoodAnswer(m)
  /\ \A sid \in Sids : GoodSession(sid)
  /\ \A c \in Callers : GoodCall(c) /\ AllComing(c)

\* What is left to show of a step of the agent.
LEMMA CalmAgent ==
  ASSUME IInv, Orderly, Undisturbed, NEW c \in Callers,
         UNCHANGED <<sessions, m_stopRequested>>, toAgent' \subseteq toAgent,
         NoneFailed', GoodCall(c)', AllComing(c)'
  PROVE  Undisturbed'
<1>1. Sids' = Sids /\ \A d \in Callers : d = c
  BY Zenon DEF Sids, Orderly
<1>2. (\A m \in toAgent' : GoodAnswer(m)') /\ (\A sid \in Sids' : GoodSession(sid)')
  BY <1>1, Zenon DEF Undisturbed, GoodAnswer, GoodSession
<1>. QED  BY <1>1, <1>2, Zenon DEF Undisturbed

\* A step of the call that keeps m_syncState's session, and sends something.
LEMMA MoreSent ==
  ASSUME UNCHANGED <<sessions, toAgent>>, toManager \subseteq toManager'
  PROVE  \A sid : /\ Coming(sid) => Coming(sid)'
                  /\ EndComing(sid) => EndComing(sid)'
                  /\ (\A m \in toManager' \ toManager : m.type # "End") /\ Unasked(sid) => Unasked(sid)'
<1>1. \A sid : EndMessage(sid)' = EndMessage(sid) /\ EndMessage(sid).type = "End"
  BY Zenon DEF EndMessage
<1>2. ASSUME NEW sid, Coming(sid)
      PROVE  Coming(sid)'
  BY <1>2, Zenon DEF Coming
<1>. QED  BY <1>1, <1>2, Zenon DEF EndComing, Unasked

\* The call moves on, and sends nothing.
LEMMA JustMoves ==
  ASSUME IInv, Orderly, Undisturbed, NEW c \in Callers, NEW pc \in Pcs, Goto(c, pc),
         UNCHANGED <<sessions, toAgent, toManager, m_stopRequested, m_syncState, calls, outcome>>,
         pc \notin {"failed", "waitStart", "end", "delay", "waitEnd"},
         pc = "endFailed" => Shape(c).op = "CHECK",
         pc = "data" => caller[c].pc = "waitStart"
  PROVE  Undisturbed'
<1>1. caller'[c].pc = pc /\ caller'[c].n = caller[c].n /\ Sids' = Sids
  BY GotoFacts, Zenon DEF IInv, Sids
<1>2. GoodCall(c) /\ AllComing(c) /\ NoneFailed
  BY Zenon DEF Undisturbed
<1>3. Shape(c)' = Shape(c) /\ Seqs(c)' = Seqs(c)
  BY <1>1, Zenon DEF Shape, Seqs
<1>4. GoodCall(c)'
  BY <1>1, <1>2, <1>3, Zenon DEF GoodCall
<1>5. AllComing(c)'
  BY <1>1, <1>2, Zenon DEF AllComing, Unasked, EndMessage
<1>6. NoneFailed'
  BY <1>2, Zenon DEF NoneFailed
<1>. QED  BY <1>4, <1>5, <1>6, CalmAgent, Zenon

\* Start is under way while the call waits for its answer.
LEMMA CalmSendStart ==
  ASSUME IInv, IInv', Orderly, Undisturbed, NEW c \in Callers, SendStart(c), UNCHANGED sessions
  PROVE  Undisturbed'
<1>1. /\ caller[c].pc = "start" /\ Goto(c, "waitStart")
      /\ m_syncState' = [m_syncState EXCEPT !.phase = "WaitingStartAck"]
      /\ toManager' = toManager \cup {StartMessage(c)}
      /\ UNCHANGED <<m_stopRequested, calls, outcome, toAgent>>
  BY Zenon DEF SendStart
<1>2. m_syncState = Reset /\ m_syncState \in SyncStates
  BY <1>1, Zenon DEF IInv, FlagsOK, Types
<1>3. ~ Reset.syncFailed /\ ~ Reset.reqRetReceived /\ Reset.session = 0
  BY Zenon DEF Reset
<1>4. ~ m_syncState'.syncFailed /\ ~ m_syncState'.reqRetReceived /\ m_syncState'.session = 0
  BY <1>1, <1>2, <1>3, PhaseFacts, Zenon DEF IInv
<1>5. caller'[c].pc = "waitStart"
  BY <1>1, GotoFacts, Zenon DEF IInv, Pcs
<1>6. StartMessage(c).type = "Start"
  BY Zenon DEF StartMessage
<1>7. Opening' # {}
  BY <1>1, <1>6, Zenon DEF Opening
<1>8. GoodCall(c)'
  BY <1>4, <1>5, <1>7, Zenon DEF GoodCall
<1>9. 0 \notin Sids'
  BY DEF IInv, Types, Sids
<1>10. AllComing(c)'
  BY <1>4, <1>9, Zenon DEF AllComing
<1>11. NoneFailed'
  BY <1>1, Zenon DEF Undisturbed, NoneFailed
<1>. QED  BY <1>1, <1>8, <1>10, <1>11, CalmAgent, Zenon

\* The answer is not a refusal.
LEMMA CalmReceiveStartAck ==
  ASSUME IInv, Orderly, Undisturbed, NEW c \in Callers, ReceiveStartAck(c), UNCHANGED sessions
  PROVE  Undisturbed'
<1>1. caller[c].pc = "waitStart" /\ GoodCall(c) /\ FlagsOK(c)
  BY Zenon DEF ReceiveStartAck, Undisturbed, IInv
<1>2. ~ m_syncState.syncFailed
  BY <1>1, Zenon DEF GoodCall, FlagsOK
<1>3. Goto(c, "data")
  BY <1>2, Zenon DEF ReceiveStartAck
<1>. QED  BY <1>1, <1>3, JustMoves, Zenon DEF ReceiveStartAck, Pcs

\* The answer is an error only for a CHECK.
LEMMA CalmReceiveEndAck ==
  ASSUME IInv, Orderly, Undisturbed, NEW c \in Callers, ReceiveEndAck(c), UNCHANGED sessions
  PROVE  Undisturbed'
<1>1. GoodCall(c)
  BY Zenon DEF Undisturbed
<1>2. CASE m_syncState.syncFailed
  <2>1. Goto(c, "endFailed") /\ Shape(c).op = "CHECK"
    BY <1>1, <1>2, Zenon DEF ReceiveEndAck, GoodCall
  <2>. QED  BY <2>1, JustMoves, Zenon DEF ReceiveEndAck, Pcs
<1>3. CASE ~ m_syncState.syncFailed
  <2>1. Goto(c, "ok")
    BY <1>3, Zenon DEF ReceiveEndAck
  <2>. QED  BY <2>1, JustMoves, Zenon DEF ReceiveEndAck, Pcs
<1>. QED  BY <1>2, <1>3, Zenon

\* The call moves on in its session, and sends what is not an End.
LEMMA SendsItems ==
  ASSUME IInv, Orderly, Undisturbed, NEW c \in Callers,
         UNCHANGED <<sessions, toAgent, m_stopRequested, calls, outcome>>,
         toManager \subseteq toManager', \A m \in toManager' \ toManager : m.type # "End",
         caller'[c].n = caller[c].n,
         m_syncState'.session = m_syncState.session,
         m_syncState'.endAckReceived = m_syncState.endAckReceived,
         m_syncState'.syncFailed = m_syncState.syncFailed,
         m_syncState'.phase = m_syncState.phase \/ m_syncState'.phase = "WaitingEndAck",
         \/ ~ m_syncState'.reqRetReceived
         \/ /\ m_syncState'.reqRetReceived = m_syncState.reqRetReceived
            /\ m_syncState'.reqRetRanges = m_syncState.reqRetRanges,
         caller'[c].pc \in {"end", "delay", "waitEnd"},
         caller'[c].pc \in {"end", "delay"} => caller[c].pc \in {"data", "end"},
         caller'[c].pc = "waitEnd" => caller[c].pc = "waitEnd",
         \A sid \in Sids : sid = m_syncState.session => Coming(sid)'
  PROVE  Undisturbed'
<1>1. GoodCall(c) /\ AllComing(c) /\ NoneFailed /\ Sids' = Sids
  BY Zenon DEF Undisturbed, Sids
<1>2. Shape(c)' = Shape(c) /\ Seqs(c)' = Seqs(c)
  BY Zenon DEF Shape, Seqs
<1>3. GoodCall(c)'
  BY <1>1, <1>2, Zenon DEF GoodCall
<1>4. ASSUME NEW sid \in Sids, sid = m_syncState.session
      PROVE  /\ caller'[c].pc \in {"end", "delay"} => Unasked(sid)'
             /\ caller'[c].pc = "waitEnd" => EndComing(sid)'
             /\ caller'[c].pc = "waitEnd" /\ sessions'[sid].done => FinalComing(sid)'
  <2>1. /\ caller[c].pc \in {"data", "end"} => Unasked(sid)
        /\ caller[c].pc = "waitEnd" => EndComing(sid)
        /\ caller[c].pc = "waitEnd" /\ sessions[sid].done => FinalComing(sid)
    BY <1>1, <1>4, Zenon DEF AllComing
  <2>2. (Unasked(sid) => Unasked(sid)') /\ (EndComing(sid) => EndComing(sid)')
    BY MoreSent, Zenon
  <2>3. FinalComing(sid) => FinalComing(sid)'
    BY Zenon DEF FinalComing
  <2>. QED  BY <2>1, <2>2, <2>3, Zenon
<1>5. AllComing(c)'
  BY <1>1, <1>4, Zenon DEF AllComing
<1>6. NoneFailed'
  BY <1>1, Zenon DEF NoneFailed
<1>. QED  BY <1>3, <1>5, <1>6, CalmAgent, Zenon

\* All the items of the call.
LEMMA CalmSendData ==
  ASSUME IInv, Orderly, Undisturbed, NEW c \in Callers, SendData(c), UNCHANGED sessions
  PROVE  Undisturbed'
<1>. DEFINE data == {DataMessage(c, m_syncState.session, seq, Shape(c).items[seq]) : seq \in Seqs(c)}
            checksum == IF Shape(c).op = "CHECK"
                        THEN {[type |-> "Checksum", sid |-> m_syncState.session, n |-> caller[c].n]}
                        ELSE {}
<1>1. ~ m_stopRequested /\ caller[c].pc = "data"
  BY Zenon DEF Undisturbed, SendData
<1>2. /\ Goto(c, "end") /\ toManager' = toManager \cup data \cup checksum
      /\ UNCHANGED <<m_syncState, m_stopRequested, calls, outcome, toAgent>>
  BY <1>1, Zenon DEF SendData
<1>3. caller'[c].pc = "end" /\ caller'[c].n = caller[c].n
  BY <1>2, GotoFacts, Zenon DEF IInv, Pcs
<1>4. /\ m_syncState.session \in Sids
      /\ sessions[m_syncState.session].n = caller[c].n
  BY <1>1, OwnSession, Zenon
<1>5. ASSUME NEW m \in data PROVE m.type = "Data"
  <2>1. PICK seq \in Seqs(c) : m = DataMessage(c, m_syncState.session, seq, Shape(c).items[seq])
    BY Zenon
  <2>. QED  BY <2>1, Zenon DEF DataMessage
<1>6. \A m \in checksum : m.type = "Checksum"
  <2>1. \A m \in checksum : m = [type |-> "Checksum", sid |-> m_syncState.session, n |-> caller[c].n]
    BY Zenon
  <2>. QED  BY <2>1
<1>7. ASSUME NEW q \in Seqs(c)
      PROVE  \E m \in data : m.type = "Data" /\ m.sid = m_syncState.session /\ m.seq = q
  <2>1. PICK m \in data : m = DataMessage(c, m_syncState.session, q, Shape(c).items[q])
    BY Zenon
  <2>2. m.type = "Data" /\ m.sid = m_syncState.session /\ m.seq = q
    BY <2>1, Zenon DEF DataMessage
  <2>. QED  BY <2>2, Zenon
<1>. HIDE DEF data, checksum
<1>8. \A m \in toManager' \ toManager : m.type # "End"
  BY <1>2, <1>5, <1>6, Zenon
<1>9. ASSUME NEW sid \in Sids, sid = m_syncState.session
      PROVE  Coming(sid)'
  <2>1. 1..sessions[sid].size = Seqs(c)
    BY <1>4, <1>9, Zenon DEF IInv, SessionOK, Seqs, Shape
  <2>. QED  BY <1>2, <1>7, <1>9, <2>1, Zenon DEF Coming
<1>. QED  BY <1>1, <1>2, <1>3, <1>8, <1>9, SendsItems, Zenon

\* All items are under way when the call turns to the end.
LEMMA CalmEnterEnd ==
  ASSUME IInv, Orderly, Undisturbed, NEW c \in Callers, EnterEnd(c), UNCHANGED sessions
  PROVE  Undisturbed'
<1>1. /\ caller[c].pc = "end" /\ m_syncState' = [m_syncState EXCEPT !.phase = "WaitingEndAck"]
      /\ caller' = [caller EXCEPT ![c].pc = "delay", ![c].session = m_syncState.session,
                                  ![c].attempt = 0]
      /\ UNCHANGED <<m_stopRequested, calls, outcome, toManager, toAgent>>
  BY Zenon DEF EnterEnd
<1>2. caller[c] \in CallerStates /\ caller \in [Callers -> CallerStates] /\ m_syncState \in SyncStates
  BY Zenon DEF IInv, Types
<1>3. caller'[c].pc = "delay" /\ caller'[c].n = caller[c].n
  BY <1>1, <1>2, Zenon DEF CallerStates
<1>4. /\ m_syncState'.phase = "WaitingEndAck" /\ m_syncState'.session = m_syncState.session
      /\ m_syncState'.endAckReceived = m_syncState.endAckReceived
      /\ m_syncState'.reqRetReceived = m_syncState.reqRetReceived
      /\ m_syncState'.reqRetRanges = m_syncState.reqRetRanges
      /\ m_syncState'.syncFailed = m_syncState.syncFailed
  BY <1>1, <1>2, Zenon DEF SyncStates
<1>5. \A sid \in Sids : sid = m_syncState.session => Coming(sid)'
  <2>1. \A sid \in Sids : sid = m_syncState.session => Coming(sid)
    BY <1>1, Zenon DEF Undisturbed, AllComing
  <2>. QED  BY <1>1, <2>1, MoreSent, Zenon
<1>. QED  BY <1>1, <1>3, <1>4, <1>5, SendsItems, Zenon

\* After a Processing answer the final one is still to come.
LEMMA CalmReceiveProcessing ==
  ASSUME IInv, Orderly, Undisturbed, NEW c \in Callers, ReceiveProcessing(c), UNCHANGED sessions
  PROVE  Undisturbed'
<1>1. /\ caller[c].pc = "waitEnd" /\ m_syncState' = [m_syncState EXCEPT !.processingAckReceived = FALSE]
      /\ caller' = [caller EXCEPT ![c].sentEnd = FALSE]
      /\ UNCHANGED <<m_stopRequested, calls, outcome, toManager, toAgent>>
  BY Zenon DEF ReceiveProcessing, Waiting
<1>2. caller[c] \in CallerStates /\ caller \in [Callers -> CallerStates] /\ m_syncState \in SyncStates
  BY Zenon DEF IInv, Types
<1>3. caller'[c].pc = "waitEnd" /\ caller'[c].n = caller[c].n
  BY <1>1, <1>2, Zenon DEF CallerStates
<1>4. /\ m_syncState'.phase = m_syncState.phase /\ m_syncState'.session = m_syncState.session
      /\ m_syncState'.endAckReceived = m_syncState.endAckReceived
      /\ m_syncState'.reqRetReceived = m_syncState.reqRetReceived
      /\ m_syncState'.reqRetRanges = m_syncState.reqRetRanges
      /\ m_syncState'.syncFailed = m_syncState.syncFailed
  BY <1>1, <1>2, Zenon DEF SyncStates
<1>5. \A sid \in Sids : sid = m_syncState.session => Coming(sid)'
  <2>1. \A sid \in Sids : sid = m_syncState.session => Coming(sid)
    BY <1>1, Zenon DEF Undisturbed, AllComing
  <2>. QED  BY <1>1, <2>1, MoreSent, Zenon
<1>. QED  BY <1>1, <1>3, <1>4, <1>5, SendsItems, Zenon

\* Nothing fails on the agent, and a wait for StartAck does not end before it.
LEMMA NoStartFailure ==
  ASSUME Calm, Undisturbed, NEW c \in Callers
  PROVE  ~ LocalFailure(c) /\ ~ (StartTimesOut(c) /\ StartWaitOver) /\ ~ Stop
<1>1. "local" \notin Faults /\ "stop" \notin Faults /\ "lateStart" \notin Faults
  BY Zenon DEF Calm
<1>2. ~ LocalFailure(c) /\ ~ Stop
  BY <1>1, Zenon DEF LocalFailure, Stop
<1>3. ASSUME StartTimesOut(c), StartWaitOver
      PROVE  FALSE
  <2>1. Opening # {}
    BY <1>3, Zenon DEF StartTimesOut, Undisturbed, GoodCall
  <2>. QED  BY <1>1, <1>3, <2>1, Zenon DEF StartWaitOver, NoneUnderWay, Opening
<1>. QED  BY <1>2, <1>3, Zenon

\* Nor does one for EndAck: what it waits for is under way, or being done.
LEMMA NoEndFailure ==
  ASSUME IInv, Calm, Undisturbed, NEW c \in Callers
  PROVE  ~ (EndTimesOut(c) /\ EndWaitOver)
<1>. SUFFICES ASSUME EndTimesOut(c), EndWaitOver
              PROVE  FALSE
  BY Zenon
<1>1. ~ m_stopRequested /\ "lateEnd" \notin Faults /\ caller[c].pc = "waitEnd" /\ ~ EndAnswered
  BY Zenon DEF Undisturbed, Calm, EndTimesOut
<1>2. /\ NoneUnderWay({"Data", "End", "EndAck", "ReqRet"})
      /\ \A sid \in Sids : sessions[sid].endEnqueued => sessions[sid].done
  BY <1>1, Zenon DEF EndWaitOver
<1>3. PICK sid \in Sids : sid = m_syncState.session
  BY <1>1, OwnSession, Zenon
<1>4. Coming(sid) /\ EndComing(sid) /\ (sessions[sid].done => FinalComing(sid))
  BY <1>1, <1>3, Zenon DEF Undisturbed, AllComing
<1>5. sessions[sid].endReceived
  <2>1. EndMessage(sid).type = "End"
    BY Zenon DEF EndMessage
  <2>. QED  BY <1>2, <1>4, <2>1, Zenon DEF EndComing, NoneUnderWay
<1>6. sessions[sid].seen = 1..sessions[sid].size
  <2>1. sessions[sid].seen \subseteq 1..sessions[sid].size
    BY Zenon DEF IInv, SessionOK
  <2>2. \A m \in toManager : m.type # "Data"
    BY <1>2, Zenon DEF NoneUnderWay
  <2>3. 1..sessions[sid].size \subseteq sessions[sid].seen
    BY <1>4, <2>2, Zenon DEF Coming
  <2>. QED  BY <2>1, <2>3, Zenon
<1>7. FinalComing(sid)
  BY <1>2, <1>4, <1>5, <1>6, Zenon DEF Undisturbed, GoodSession
<1>8. \A m \in toAgent : m.type # "EndAck"
  BY <1>2, Zenon DEF NoneUnderWay
<1>. QED  BY <1>1, <1>7, <1>8, Zenon DEF FinalComing, EndAnswered

\* End is under way, and the session is not done yet.
LEMMA CalmSendEnd ==
  ASSUME IInv, Orderly, Undisturbed, NEW c \in Callers, SendEnd(c), UNCHANGED sessions
  PROVE  Undisturbed'
<1>1. /\ caller[c].pc = "delay" /\ ~ m_stopRequested
      /\ caller' = [caller EXCEPT ![c].pc = "waitEnd", ![c].sentEnd = TRUE]
      /\ toManager' = toManager \cup {EndMessage(caller[c].session)}
      /\ UNCHANGED <<m_syncState, m_stopRequested, calls, outcome, toAgent>>
  BY Zenon DEF SendEnd, Undisturbed
<1>2. caller[c] \in CallerStates /\ caller \in [Callers -> CallerStates]
  BY Zenon DEF IInv, Types
<1>3. caller'[c].pc = "waitEnd" /\ caller'[c].n = caller[c].n /\ caller[c].session = m_syncState.session
  BY <1>1, <1>2, Zenon DEF CallerStates, IInv, FlagsOK
<1>4. GoodCall(c) /\ AllComing(c) /\ NoneFailed /\ Sids' = Sids
  BY Zenon DEF Undisturbed, Sids
<1>5. Shape(c)' = Shape(c) /\ Seqs(c)' = Seqs(c)
  BY <1>1, <1>3, Zenon DEF Shape, Seqs
<1>6. GoodCall(c)'
  BY <1>1, <1>3, <1>4, <1>5, Zenon DEF GoodCall
<1>7. ASSUME NEW sid \in Sids, sid = m_syncState.session
      PROVE  Coming(sid)' /\ EndComing(sid)' /\ ~ sessions'[sid].done
  <2>1. Coming(sid) /\ Unasked(sid)
    BY <1>1, <1>4, <1>7, Zenon DEF AllComing
  <2>2. Coming(sid)'
    BY <1>1, <2>1, MoreSent, Zenon
  <2>3. EndComing(sid)'
    BY <1>1, <1>3, <1>7, Zenon DEF EndComing, EndMessage
  <2>4. ~ sessions[sid].endEnqueued
    BY <2>1, Zenon DEF Unasked, IInv, SessionOK
  <2>5. ~ sessions[sid].done
    BY <2>4, Zenon DEF Undisturbed, GoodSession
  <2>. QED  BY <2>2, <2>3, <2>5, Zenon
<1>8. AllComing(c)'
  BY <1>1, <1>3, <1>4, <1>7, Zenon DEF AllComing
<1>9. NoneFailed'
  BY <1>1, <1>4, Zenon DEF NoneFailed
<1>. QED  BY <1>1, <1>6, <1>8, <1>9, CalmAgent, Zenon

\* What the manager asks for, the call has.
LEMMA CalmReceiveReqRet ==
  ASSUME IInv, Orderly, Calm, Undisturbed, NEW c \in Callers, ReceiveReqRet(c), UNCHANGED sessions
  PROVE  Undisturbed'
<1>. DEFINE data == {DataMessage(c, caller[c].session, seq, "value") : seq \in Requested(c)}
<1>1. /\ caller[c].pc = "waitEnd" /\ m_syncState.reqRetReceived
      /\ m_syncState' = [m_syncState EXCEPT !.reqRetReceived = FALSE, !.reqRetRanges = {}]
      /\ UNCHANGED <<m_stopRequested, calls, outcome, toAgent>>
  BY Zenon DEF ReceiveReqRet, Waiting
<1>2. m_syncState.reqRetRanges # {} /\ m_syncState.reqRetRanges \subseteq Seqs(c)
  BY <1>1, Zenon DEF Undisturbed, GoodCall
<1>3. Requested(c) # {} /\ "local" \notin Faults
  BY <1>2, Zenon DEF Requested, Calm
<1>4. caller' = [caller EXCEPT ![c].sentEnd = FALSE] /\ toManager' = toManager \cup data
  BY <1>3, Zenon DEF ReceiveReqRet
<1>5. caller[c] \in CallerStates /\ caller \in [Callers -> CallerStates] /\ m_syncState \in SyncStates
  BY Zenon DEF IInv, Types
<1>6. caller'[c].pc = "waitEnd" /\ caller'[c].n = caller[c].n
  BY <1>1, <1>4, <1>5, Zenon DEF CallerStates
<1>7. /\ m_syncState'.phase = m_syncState.phase /\ m_syncState'.session = m_syncState.session
      /\ m_syncState'.endAckReceived = m_syncState.endAckReceived
      /\ ~ m_syncState'.reqRetReceived
      /\ m_syncState'.syncFailed = m_syncState.syncFailed
  BY <1>1, <1>5, Zenon DEF SyncStates
<1>8. ASSUME NEW m \in data PROVE m.type = "Data"
  <2>1. PICK seq \in Requested(c) : m = DataMessage(c, caller[c].session, seq, "value")
    BY Zenon
  <2>. QED  BY <2>1, Zenon DEF DataMessage
<1>. HIDE DEF data
<1>9. \A m \in toManager' \ toManager : m.type # "End"
  BY <1>4, <1>8, Zenon
<1>10. \A sid \in Sids : sid = m_syncState.session => Coming(sid)'
  <2>1. \A sid \in Sids : sid = m_syncState.session => Coming(sid)
    BY <1>1, Zenon DEF Undisturbed, AllComing
  <2>. QED  BY <1>1, <1>4, <2>1, MoreSent, Zenon
<1>. QED  BY <1>1, <1>4, <1>6, <1>7, <1>9, <1>10, SendsItems, Zenon

\* A call that begins or ends: m_syncState is reset.
LEMMA CalmReset ==
  ASSUME IInv, IInv', Orderly, Undisturbed, NEW c \in Callers,
         UNCHANGED <<sessions, toAgent, toManager, m_stopRequested>>, m_syncState' = Reset,
         caller'[c].pc \in {"idle", "start"}, NoneFailed'
  PROVE  Undisturbed'
<1>1. ~ Reset.syncFailed /\ ~ Reset.reqRetReceived /\ Reset.session = 0
  BY Zenon DEF Reset
<1>2. GoodCall(c)'
  BY <1>1, Zenon DEF GoodCall
<1>3. 0 \notin Sids'
  BY DEF IInv, Types, Sids
<1>4. AllComing(c)'
  BY <1>1, <1>3, Zenon DEF AllComing
<1>. QED  BY <1>2, <1>4, CalmAgent, Zenon

\* Only a CHECK can have failed.
LEMMA CalmFinish ==
  ASSUME IInv, IInv', Orderly, Undisturbed, NEW c \in Callers, Finish(c), UNCHANGED sessions
  PROVE  Undisturbed'
<1>1. /\ caller[c].pc \in {"ok", "failed", "endFailed"} /\ m_syncState' = Reset
      /\ outcome' = [outcome EXCEPT ![caller[c].n] = Result(c)]
      /\ caller' = [caller EXCEPT ![c] = Idle]
      /\ UNCHANGED <<m_stopRequested, calls, toManager, toAgent>>
  BY Zenon DEF Finish
<1>2. caller'[c].pc = "idle"
  BY <1>1, Zenon DEF IInv, Types, Idle
<1>3. GoodCall(c) /\ NoneFailed
  BY Zenon DEF Undisturbed
<1>4. calls[caller[c].n].op # "CHECK" => Result(c) # "failed"
  <2>1. caller[c].pc \in {"ok", "endFailed"} /\ (caller[c].pc = "endFailed" => Shape(c).op = "CHECK")
    BY <1>1, <1>3, Zenon DEF GoodCall
  <2>2. CASE caller[c].pc = "ok"
    BY <2>2, Zenon DEF Result
  <2>3. CASE caller[c].pc = "endFailed"
    BY <2>1, <2>3, Zenon DEF Shape
  <2>. QED  BY <2>1, <2>2, <2>3, Zenon
<1>5. NoneFailed'
  <2>1. DOMAIN outcome' = DOMAIN outcome /\ calls' = calls
    BY <1>1, Zenon
  <2>2. ASSUME NEW n \in DOMAIN outcome, calls[n].op # "CHECK"
        PROVE  outcome'[n] # "failed"
    <3>1. CASE n = caller[c].n
      BY <1>1, <1>4, <2>2, <3>1, Zenon
    <3>2. CASE n # caller[c].n
      BY <1>1, <1>3, <2>2, <3>2, Zenon DEF NoneFailed
    <3>. QED  BY <3>1, <3>2, Zenon
  <2>. QED  BY <2>1, <2>2, Zenon DEF NoneFailed
<1>. QED  BY <1>1, <1>2, <1>5, CalmReset, Zenon

\* A new call is open.
LEMMA CalmBegin ==
  ASSUME IInv, IInv', Orderly, Undisturbed, NEW c \in Callers, NEW shape \in Shapes,
         Begin(c, shape), UNCHANGED <<sessions, effects>>
  PROVE  Undisturbed'
<1>1. /\ m_syncState' = Reset /\ outcome' = Append(outcome, "open")
      /\ caller' = [caller EXCEPT ![c] = [Idle EXCEPT !.pc = "start", !.n = Len(calls) + 1]]
      /\ UNCHANGED <<m_stopRequested, toManager, toAgent>>
  BY Zenon DEF Begin
<1>2. caller'[c].pc = "start"
  BY <1>1, Zenon DEF IInv, Types, Idle
<1>3. /\ DOMAIN calls' = DOMAIN calls \cup {Len(calls) + 1} /\ Len(calls) + 1 \notin DOMAIN calls
      /\ \A n \in DOMAIN calls : calls'[n] = calls[n]
  BY NewCallNotApplied, Zenon
<1>4. DOMAIN outcome = DOMAIN calls /\ DOMAIN outcome' = DOMAIN calls'
  BY DEF IInv, Types
<1>5. (\A n \in DOMAIN calls : outcome'[n] = outcome[n]) /\ outcome'[Len(calls) + 1] = "open"
  <2>1. Types /\ Len(calls) \in Nat
    BY DEF IInv, Types
  <2>. QED  BY <1>1, <2>1 DEF Types
<1>6. NoneFailed'
  BY <1>3, <1>4, <1>5, Zenon DEF Undisturbed, NoneFailed
<1>. QED  BY <1>1, <1>2, <1>6, CalmReset, Zenon

\* An answer comes that does not change the session.
LEMMA CalmParsed ==
  ASSUME IInv, Orderly, Undisturbed, NEW c \in Callers, NEW m \in toAgent, ParseResponseBuffer(m),
         UNCHANGED sessions, m_syncState'.session = m_syncState.session, GoodCall(c)',
         \A sid \in Sids : sid = m_syncState.session /\ FinalComing(sid) /\ caller[c].pc = "waitEnd" =>
           FinalComing(sid)'
  PROVE  Undisturbed'
<1>1. /\ toAgent' \subseteq toAgent /\ Sids' = Sids
      /\ UNCHANGED <<m_stopRequested, caller, calls, outcome, toManager>>
  BY Zenon DEF ParseResponseBuffer, Sids
<1>2. AllComing(c) /\ NoneFailed
  BY Zenon DEF Undisturbed
<1>3. \A sid : /\ Unasked(sid)' = Unasked(sid) /\ Coming(sid)' = Coming(sid)
               /\ EndComing(sid)' = EndComing(sid)
  BY <1>1, Zenon DEF Unasked, Coming, EndComing, EndMessage
<1>4. AllComing(c)'
  BY <1>1, <1>2, <1>3, Zenon DEF AllComing
<1>5. NoneFailed'
  BY <1>1, <1>2, Zenon DEF NoneFailed
<1>. QED  BY <1>1, <1>4, <1>5, CalmAgent, Zenon

\* An answer that is not for the current session, or comes too late.
LEMMA CalmIgnored ==
  ASSUME IInv, Orderly, Undisturbed, NEW c \in Callers, NEW m \in toAgent, ParseResponseBuffer(m),
         UNCHANGED sessions, m_syncState' = m_syncState,
         m.type = "StartAck" => m_syncState.phase # "WaitingStartAck",
         m.type = "EndAck" => ~ ValidatePhaseAndSession(m)
  PROVE  Undisturbed'
<1>1. /\ toAgent' = toAgent \ {m}
      /\ UNCHANGED <<m_stopRequested, caller, calls, outcome, toManager>>
  BY Zenon DEF ParseResponseBuffer
<1>2. GoodCall(c) /\ FlagsOK(c)
  BY Zenon DEF Undisturbed, IInv
<1>3. Shape(c)' = Shape(c) /\ Seqs(c)' = Seqs(c) /\ StartAnswered' = StartAnswered
  BY <1>1, Zenon DEF Shape, Seqs, StartAnswered
<1>4. caller[c].pc = "waitStart" => Opening' = Opening
  <2>1. caller[c].pc = "waitStart" => m.type # "StartAck"
    BY <1>2, Zenon DEF FlagsOK
  <2>2. m.type # "Start"
    BY Zenon DEF IInv, Types, ToAgent
  <2>. QED  BY <1>1, <2>1, <2>2, Zenon DEF Opening
<1>5. GoodCall(c)'
  BY <1>1, <1>2, <1>3, <1>4, Zenon DEF GoodCall
<1>6. ASSUME NEW sid \in Sids, sid = m_syncState.session, FinalComing(sid), caller[c].pc = "waitEnd"
      PROVE  FinalComing(sid)'
  <2>1. m_syncState.phase = "WaitingEndAck"
    BY <1>2, <1>6, Zenon DEF FlagsOK
  <2>2. ~ (m.type = "EndAck" /\ m.sid = sid)
    BY <1>6, <2>1, Zenon DEF ValidatePhaseAndSession
  <2>. QED  BY <1>1, <1>6, <2>2, Zenon DEF FinalComing
<1>. QED  BY <1>5, <1>6, CalmParsed, Zenon

\* An answer for the current session is one to the current call.
LEMMA AnswersCall ==
  ASSUME IInv, Orderly, NEW c \in Callers, NEW m \in toAgent, m.type \in {"EndAck", "ReqRet"},
         ValidatePhaseAndSession(m)
  PROVE  /\ m.sid \in Sids /\ sessions[m.sid].size = Len(Shape(c).items)
         /\ sessions[m.sid].mode = "CHECK" => Shape(c).op = "CHECK"
         /\ m_syncState.phase = "WaitingEndAck" /\ m_syncState.session = m.sid
         /\ caller[c].pc # "waitStart"
<1>1. m_syncState.phase = "WaitingEndAck" /\ m_syncState.session = m.sid
  BY Zenon DEF ValidatePhaseAndSession
<1>2. m.sid \in Sids /\ sessions[m.sid].endReceived
  BY Zenon DEF IInv, AnswerOK
<1>3. m.sid \in Nat /\ m.sid # 0
  BY <1>2 DEF IInv, Types, Sids
<1>4. caller[c].n = sessions[m.sid].n
  BY <1>1, <1>2, <1>3, ZenonT(30) DEF IInv, InSession, Trusted, Asked
<1>5. SessionOK(m.sid)
  BY <1>2, Zenon DEF IInv
<1>6. sessions[m.sid].mode = Mode(Shape(c).op) /\ sessions[m.sid].size = Len(Shape(c).items)
  BY <1>4, <1>5, Zenon DEF SessionOK, Shape
<1>7. Mode(Shape(c).op) = "CHECK" => Shape(c).op = "CHECK"
  BY Zenon DEF Mode
<1>. QED  BY <1>1, <1>2, <1>6, <1>7, PhaseTells, Zenon

\* A final answer has come, or is still to come.
LEMMA CalmParseEndAck ==
  ASSUME IInv, Orderly, Undisturbed, NEW c \in Callers, NEW m \in toAgent, ParseResponseBuffer(m),
         UNCHANGED sessions, m.type = "EndAck", ValidatePhaseAndSession(m)
  PROVE  Undisturbed'
<1>1. /\ toAgent' = toAgent \ {m} /\ m_syncState' = ParseEndAck(m)
      /\ UNCHANGED <<m_stopRequested, caller, calls, outcome, toManager>>
  BY Zenon DEF ParseResponseBuffer
<1>2. /\ m.sid \in Sids
      /\ sessions[m.sid].mode = "CHECK" => Shape(c).op = "CHECK"
      /\ m_syncState.phase = "WaitingEndAck" /\ m_syncState.session = m.sid
      /\ caller[c].pc # "waitStart"
  BY AnswersCall, Zenon
<1>3. m_syncState \in SyncStates /\ m.status \in {"Ok", "Error", "ChecksumMismatch", "Processing"}
  BY Zenon DEF IInv, Types, ToAgent
<1>4. GoodCall(c) /\ GoodAnswer(m)
  BY Zenon DEF Undisturbed
<1>5. /\ m_syncState'.phase = m_syncState.phase /\ m_syncState'.session = m_syncState.session
      /\ m_syncState'.reqRetReceived = m_syncState.reqRetReceived
      /\ m_syncState'.reqRetRanges = m_syncState.reqRetRanges
      /\ m_syncState'.syncFailed => m_syncState.syncFailed \/ m.status \notin {"Ok", "Processing"}
      /\ m.status = "Processing" => m_syncState'.syncFailed = m_syncState.syncFailed
                                    /\ m_syncState'.endAckReceived = m_syncState.endAckReceived
      /\ m.status # "Processing" => m_syncState'.syncFailed \/ m_syncState'.endAckReceived
  <2>1. CASE m.status \in {"Error", "ChecksumMismatch"}
    <3>1. m_syncState' = [m_syncState EXCEPT !.syncFailed = TRUE,
                                             !.lastSyncResult = SyncResult(m.status)]
      BY <1>1, <2>1, Zenon DEF ParseEndAck
    <3>2. /\ m_syncState'.phase = m_syncState.phase /\ m_syncState'.session = m_syncState.session
          /\ m_syncState'.reqRetReceived = m_syncState.reqRetReceived
          /\ m_syncState'.reqRetRanges = m_syncState.reqRetRanges
          /\ m_syncState'.syncFailed
      BY <1>3, <3>1, Zenon DEF SyncStates
    <3>. QED  BY <2>1, <3>2, Zenon
  <2>2. CASE m.status = "Processing"
    <3>1. m_syncState' = [m_syncState EXCEPT !.processingAckReceived = TRUE]
      BY <1>1, <2>2, Zenon DEF ParseEndAck
    <3>2. /\ m_syncState'.phase = m_syncState.phase /\ m_syncState'.session = m_syncState.session
          /\ m_syncState'.reqRetReceived = m_syncState.reqRetReceived
          /\ m_syncState'.reqRetRanges = m_syncState.reqRetRanges
          /\ m_syncState'.syncFailed = m_syncState.syncFailed
          /\ m_syncState'.endAckReceived = m_syncState.endAckReceived
      BY <1>3, <3>1, Zenon DEF SyncStates
    <3>. QED  BY <2>2, <3>2, Zenon
  <2>3. CASE m.status = "Ok"
    <3>1. m_syncState' = [m_syncState EXCEPT !.endAckReceived = TRUE, !.lastSyncResult = "SUCCESS"]
      BY <1>1, <2>3, Zenon DEF ParseEndAck
    <3>2. /\ m_syncState'.phase = m_syncState.phase /\ m_syncState'.session = m_syncState.session
          /\ m_syncState'.reqRetReceived = m_syncState.reqRetReceived
          /\ m_syncState'.reqRetRanges = m_syncState.reqRetRanges
          /\ m_syncState'.syncFailed = m_syncState.syncFailed
          /\ m_syncState'.endAckReceived
      BY <1>3, <3>1, Zenon DEF SyncStates
    <3>. QED  BY <2>3, <3>2, Zenon
  <2>. QED  BY <1>3, <2>1, <2>2, <2>3, Zenon
<1>6. Shape(c)' = Shape(c) /\ Seqs(c)' = Seqs(c)
  BY <1>1, Zenon DEF Shape, Seqs
<1>7. m_syncState'.syncFailed => Shape(c).op = "CHECK"
  BY <1>2, <1>4, <1>5, Zenon DEF GoodCall, GoodAnswer
<1>8. GoodCall(c)'
  BY <1>1, <1>2, <1>4, <1>5, <1>6, <1>7, Zenon DEF GoodCall
<1>9. ASSUME NEW sid \in Sids, sid = m_syncState.session, FinalComing(sid)
      PROVE  FinalComing(sid)'
  <2>1. CASE m.status = "Processing"
    BY <1>1, <1>5, <1>9, <2>1, Zenon DEF FinalComing
  <2>2. CASE m.status # "Processing"
    BY <1>5, <2>2, Zenon DEF FinalComing
  <2>. QED  BY <2>1, <2>2, Zenon
<1>. QED  BY <1>5, <1>8, <1>9, CalmParsed, Zenon

\* What is requested are items of the call.
LEMMA CalmParseReqRet ==
  ASSUME IInv, Orderly, Undisturbed, NEW c \in Callers, NEW m \in toAgent, ParseResponseBuffer(m),
         UNCHANGED sessions, m.type = "ReqRet", ValidatePhaseAndSession(m)
  PROVE  Undisturbed'
<1>1. /\ toAgent' = toAgent \ {m}
      /\ m_syncState' = [m_syncState EXCEPT !.reqRetReceived = TRUE, !.reqRetRanges = m.seqs]
      /\ UNCHANGED <<m_stopRequested, caller, calls, outcome, toManager>>
  BY Zenon DEF ParseResponseBuffer, ParseReqRet
<1>2. /\ m.sid \in Sids /\ sessions[m.sid].size = Len(Shape(c).items)
      /\ m_syncState.phase = "WaitingEndAck" /\ caller[c].pc # "waitStart"
  BY AnswersCall, Zenon
<1>3. m_syncState \in SyncStates
  BY Zenon DEF IInv, Types
<1>4. GoodCall(c) /\ GoodAnswer(m)
  BY Zenon DEF Undisturbed
<1>5. /\ m_syncState'.phase = m_syncState.phase /\ m_syncState'.session = m_syncState.session
      /\ m_syncState'.syncFailed = m_syncState.syncFailed
      /\ m_syncState'.endAckReceived = m_syncState.endAckReceived
      /\ m_syncState'.reqRetRanges = m.seqs
  BY <1>1, <1>3, Zenon DEF SyncStates
<1>6. Shape(c)' = Shape(c) /\ Seqs(c)' = Seqs(c)
  BY <1>1, Zenon DEF Shape, Seqs
<1>7. m.seqs # {} /\ m.seqs \subseteq Seqs(c)
  BY <1>2, <1>4, Zenon DEF GoodAnswer, Seqs
<1>8. GoodCall(c)'
  BY <1>1, <1>2, <1>4, <1>5, <1>6, <1>7, Zenon DEF GoodCall
<1>9. ASSUME NEW sid \in Sids, FinalComing(sid)
      PROVE  FinalComing(sid)'
  BY <1>1, <1>5, <1>9, Zenon DEF FinalComing
<1>. QED  BY <1>5, <1>8, <1>9, CalmParsed, Zenon

\* The session that is opened has not been asked to end.
LEMMA CalmParseStartAck ==
  ASSUME IInv, Orderly, Undisturbed, NEW c \in Callers, NEW m \in toAgent, ParseResponseBuffer(m),
         UNCHANGED sessions, m.type = "StartAck", m_syncState.phase = "WaitingStartAck"
  PROVE  Undisturbed'
<1>1. m.status = "Ok" /\ GoodCall(c) /\ NoneFailed
  BY Zenon DEF Undisturbed, GoodAnswer
<1>2. /\ toAgent' = toAgent \ {m}
      /\ m_syncState' = [m_syncState EXCEPT !.session = m.sid, !.startAckReceived = TRUE]
      /\ UNCHANGED <<m_stopRequested, caller, calls, outcome, toManager>>
  BY <1>1, Zenon DEF ParseResponseBuffer, ParseStartAck
<1>3. m_syncState \in SyncStates /\ ~ Asked(m.sid)
  BY <1>1, Zenon DEF IInv, Types, AnswerOK
<1>4. /\ m_syncState'.session = m.sid /\ m_syncState'.startAckReceived
      /\ m_syncState'.syncFailed = m_syncState.syncFailed /\ m_syncState'.phase = m_syncState.phase
      /\ m_syncState'.reqRetReceived = m_syncState.reqRetReceived
  BY <1>2, <1>3, Zenon DEF SyncStates
<1>5. caller[c].pc = "waitStart"
  <2>1. m \in Opening
    BY Zenon DEF Opening
  <2>. QED  BY <2>1, Zenon DEF Undisturbed, IInv, OneStart
<1>6. ~ m_syncState.syncFailed /\ ~ m_syncState.reqRetReceived
  BY <1>1, Zenon DEF GoodCall
<1>7. GoodCall(c)'
  BY <1>2, <1>4, <1>5, <1>6, Zenon DEF GoodCall, StartAnswered
<1>8. Unasked(m.sid)'
  BY <1>2, <1>3, Zenon DEF Asked, Unasked, EndMessage
<1>9. AllComing(c)'
  BY <1>2, <1>4, <1>5, <1>8, Zenon DEF AllComing
<1>10. NoneFailed'
  BY <1>1, <1>2, Zenon DEF NoneFailed
<1>. QED  BY <1>2, <1>7, <1>9, <1>10, CalmAgent, Zenon

\* Any answer.
LEMMA CalmParse ==
  ASSUME IInv, Orderly, Undisturbed, NEW m \in toAgent, ParseResponseBuffer(m), UNCHANGED sessions
  PROVE  Undisturbed'
<1>1. PICK c \in Callers : TRUE
  BY Zenon DEF Orderly
<1>2. m.type \in {"StartAck", "EndAck", "ReqRet"}
  BY Zenon DEF IInv, Types, ToAgent
<1>3. CASE m.type = "StartAck" /\ m_syncState.phase = "WaitingStartAck"
  BY <1>3, CalmParseStartAck, Zenon
<1>4. CASE m.type = "EndAck" /\ ValidatePhaseAndSession(m)
  BY <1>4, CalmParseEndAck, Zenon
<1>5. CASE m.type = "ReqRet" /\ ValidatePhaseAndSession(m)
  BY <1>5, CalmParseReqRet, Zenon
<1>6. CASE m.type = "StartAck" /\ m_syncState.phase # "WaitingStartAck"
  <2>1. m_syncState' = m_syncState
    BY <1>6, Zenon DEF ParseResponseBuffer, ParseStartAck
  <2>. QED  BY <1>6, <2>1, CalmIgnored, Zenon
<1>7. CASE m.type = "EndAck" /\ ~ ValidatePhaseAndSession(m)
  <2>1. m_syncState' = m_syncState
    BY <1>7, Zenon DEF ParseResponseBuffer, ParseEndAck
  <2>. QED  BY <1>7, <2>1, CalmIgnored, Zenon
<1>8. CASE m.type = "ReqRet" /\ ~ ValidatePhaseAndSession(m)
  <2>1. m_syncState' = m_syncState
    BY <1>8, Zenon DEF ParseResponseBuffer, ParseReqRet
  <2>. QED  BY <1>8, <2>1, CalmIgnored, Zenon
<1>. QED  BY <1>2, <1>3, <1>4, <1>5, <1>6, <1>7, <1>8, Zenon

\* A step of the manager keeps what is coming of the session.
Steady(sid) ==
  /\ Unasked(sid) => Unasked(sid)'
  /\ Coming(sid) => Coming(sid)'
  /\ EndComing(sid) => EndComing(sid)'
  /\ sessions'[sid].done => sessions[sid].done \/ FinalComing(sid)'
  /\ FinalComing(sid) => FinalComing(sid)'

\* What is left to show of a step of the manager.
LEMMA CalmManager ==
  ASSUME IInv, IInv', Orderly, Undisturbed, UNCHANGED agentVars, Sids \subseteq Sids',
         \A sid \in Sids : sessions'[sid].mode = sessions[sid].mode
                           /\ sessions'[sid].size = sessions[sid].size,
         \A m \in toAgent' \ toAgent : GoodAnswer(m)',
         \A sid \in Sids' : GoodSession(sid)',
         Opening # {} => Opening' # {},
         \A sid \in Sids : sid = m_syncState.session => Steady(sid)
  PROVE  Undisturbed'
<1>1. UNCHANGED <<m_syncState, m_stopRequested, caller, calls, outcome>>
  BY Zenon DEF agentVars
<1>2. PICK c \in Callers : \A d \in Callers : d = c
  BY Zenon DEF Orderly
<1>3. GoodCall(c) /\ AllComing(c) /\ NoneFailed
  BY Zenon DEF Undisturbed
<1>4. \A m \in toAgent' : GoodAnswer(m)'
  <2>1. ASSUME NEW m \in toAgent
        PROVE  GoodAnswer(m)'
    <3>1. GoodAnswer(m) /\ (m.type \in {"EndAck", "ReqRet"} => m.sid \in Sids)
      BY Zenon DEF Undisturbed, IInv, AnswerOK
    <3>. QED  BY <3>1, Zenon DEF GoodAnswer
  <2>. QED  BY <2>1, Zenon
<1>5. Shape(c)' = Shape(c) /\ Seqs(c)' = Seqs(c) /\ StartAnswered' = StartAnswered
  BY <1>1, Zenon DEF Shape, Seqs, StartAnswered
<1>6. GoodCall(c)'
  BY <1>1, <1>3, <1>5, Zenon DEF GoodCall
<1>7. ASSUME NEW sid \in Sids', sid = m_syncState.session
      PROVE  sid \in Sids
  <2>1. sid \in Nat /\ sid # 0
    BY DEF IInv, Types, Sids
  <2>. QED  BY <1>7, <2>1, Zenon DEF IInv, InSession
<1>8. AllComing(c)'
  BY <1>1, <1>3, <1>7, ZenonT(30) DEF AllComing, Steady
<1>9. NoneFailed' /\ ~ m_stopRequested'
  BY <1>1, <1>3, Zenon DEF NoneFailed, Undisturbed
<1>. QED  BY <1>2, <1>4, <1>6, <1>8, <1>9, Zenon DEF Undisturbed

\* It takes no message of the session, and does not change it.
LEMMA StaysSteady ==
  ASSUME UNCHANGED m_syncState, toManager' \subseteq toManager, toAgent \subseteq toAgent', NEW sid,
         \A m \in toManager \ toManager' : m.type \in {"Data", "End"} => m.sid # sid,
         /\ sessions'[sid].size = sessions[sid].size /\ sessions'[sid].seen = sessions[sid].seen
         /\ sessions'[sid].endReceived = sessions[sid].endReceived
         /\ sessions'[sid].done => sessions[sid].done \/ FinalComing(sid)'
  PROVE  Steady(sid)
<1>1. EndMessage(sid).type = "End" /\ EndMessage(sid).sid = sid /\ EndMessage(sid)' = EndMessage(sid)
  BY Zenon DEF EndMessage
<1>2. Unasked(sid) => Unasked(sid)'
  BY <1>1, Zenon DEF Unasked
<1>3. Coming(sid) => Coming(sid)'
  BY Zenon DEF Coming
<1>4. EndComing(sid) => EndComing(sid)'
  BY <1>1, Zenon DEF EndComing
<1>5. FinalComing(sid) => FinalComing(sid)'
  BY Zenon DEF FinalComing
<1>. QED  BY <1>2, <1>3, <1>4, <1>5, Zenon DEF Steady

\* A step of the manager in one session.
LEMMA CalmSession ==
  ASSUME IInv, IInv', Orderly, Undisturbed, UNCHANGED agentVars, NEW sid \in Sids, NEW t,
         sessions' = [sessions EXCEPT ![sid] = t],
         t.mode = sessions[sid].mode, t.size = sessions[sid].size,
         toManager' \subseteq toManager, toAgent \subseteq toAgent',
         \A m \in toManager \ toManager' : m.type # "Start",
         \A m \in toManager \ toManager' : m.type \in {"Data", "End"} => m.sid = sid,
         \A m \in toAgent' \ toAgent : GoodAnswer(m)',
         GoodSession(sid)',
         sid = m_syncState.session => Steady(sid)
  PROVE  Undisturbed'
<1>1. Sids' = Sids /\ sessions'[sid] = t /\ \A k \in Sids : k # sid => sessions'[k] = sessions[k]
  BY Zenon DEF Sids, IInv, Types
<1>2. \A k \in Sids : sessions'[k].mode = sessions[k].mode /\ sessions'[k].size = sessions[k].size
  BY <1>1, Zenon
<1>3. \A k \in Sids' : GoodSession(k)'
  BY <1>1, Zenon DEF Undisturbed, GoodSession
<1>4. Opening # {} => Opening' # {}
  <2>1. ASSUME NEW m \in Opening
        PROVE  m \in Opening'
    <3>1. \A x \in toManager : x.type # "StartAck"
      BY Zenon DEF IInv, Types, ToManager
    <3>. QED  BY <3>1, Zenon DEF Opening
  <2>. QED  BY <2>1, Zenon
<1>5. \A k \in Sids : k = m_syncState.session => Steady(k)
  <2>1. ASSUME NEW k \in Sids, k # sid
        PROVE  Steady(k)
    <3>1. m_syncState' = m_syncState /\ sessions'[k] = sessions[k]
      BY <1>1, <2>1, Zenon DEF agentVars
    <3>2. \A m \in toManager \ toManager' : m.type \in {"Data", "End"} => m.sid # k
      BY <2>1, Zenon
    <3>. QED  BY <3>1, <3>2, StaysSteady, Zenon
  <2>. QED  BY <2>1, Zenon
<1>. QED  BY <1>1, <1>2, <1>3, <1>4, <1>5, CalmManager, Zenon

\* A checksum comes.
LEMMA CalmHandleChecksum ==
  ASSUME IInv, IInv', Orderly, Undisturbed, NEW m \in toManager, HandleChecksumModule(m)
  PROVE  Undisturbed'
<1>1. /\ m.type = "Checksum" /\ toManager' = toManager \ {m} /\ toAgent' = toAgent
      /\ UNCHANGED agentVars /\ m_syncState' = m_syncState
  BY Zenon DEF HandleChecksumModule, Consume, agentVars
<1>2. \A x \in toManager \ toManager' : x.type = "Checksum"
  BY <1>1, Zenon
<1>3. CASE sessions' = sessions
  <2>1. Sids' = Sids /\ \A k \in Sids : Steady(k)
    BY <1>1, <1>2, <1>3, StaysSteady, Zenon DEF Sids
  <2>2. \A k \in Sids' : GoodSession(k)'
    BY <1>3, <2>1, Zenon DEF Undisturbed, GoodSession
  <2>3. Opening' = Opening
    BY <1>1, Zenon DEF Opening
  <2>. QED  BY <1>1, <1>3, <2>1, <2>2, <2>3, CalmManager, Zenon
<1>4. CASE m.sid \in Live /\ ~ sessions[m.sid].endEnqueued
  <2>1. PICK sid \in Sids : sid = m.sid
    BY <1>4, Zenon DEF Live
  <2>2. PICK old \in Session : old = sessions[sid]
    BY DEF IInv, Types, Sids
  <2>3. PICK t : t = [old EXCEPT !.checksum = m.n]
    BY Zenon
  <2>4. sessions' = [sessions EXCEPT ![sid] = t]
    BY <1>4, <2>1, <2>2, <2>3, Zenon DEF HandleChecksumModule
  <2>5. /\ t.mode = old.mode /\ t.size = old.size /\ t.seen = old.seen
        /\ t.endReceived = old.endReceived /\ t.endEnqueued = old.endEnqueued /\ t.done = old.done
    BY <2>3, Zenon DEF Session
  <2>6. sessions'[sid] = t
    BY <2>4, Zenon DEF Sids
  <2>7. GoodSession(sid)'
    BY <2>2, <2>5, <2>6, Zenon DEF Undisturbed, GoodSession
  <2>8. Steady(sid)
    BY <1>1, <1>2, <2>2, <2>5, <2>6, StaysSteady, Zenon
  <2>. QED  BY <1>1, <1>2, <2>2, <2>4, <2>5, <2>7, <2>8, CalmSession, Zenon
<1>. QED  BY <1>3, <1>4, Zenon DEF HandleChecksumModule

\* The indexer thread is done with a session.
LEMMA CalmIndexed ==
  ASSUME IInv, IInv', Orderly, Undisturbed, NEW sid \in Sids, Indexed(sid),
         UNCHANGED <<agentVars, toManager>>, toAgent \subseteq toAgent',
         \A m \in toAgent' \ toAgent : m.type = "EndAck" /\ m.sid = sid
           /\ (m.status \notin {"Ok", "Processing"} => sessions[sid].mode = "CHECK"),
         sid = m_syncState.session => FinalComing(sid)'
  PROVE  Undisturbed'
<1>1. PICK old \in Session : old = sessions[sid]
  BY DEF IInv, Types, Sids
<1>2. PICK t : t = [old EXCEPT !.done = TRUE, !.live = FALSE]
  BY Zenon
<1>3. sessions' = [sessions EXCEPT ![sid] = t] /\ old.endEnqueued
  BY <1>1, <1>2, Zenon DEF Indexed
<1>4. /\ t.mode = old.mode /\ t.size = old.size /\ t.seen = old.seen
      /\ t.endReceived = old.endReceived /\ t.endEnqueued = old.endEnqueued
  BY <1>2, Zenon DEF Session
<1>5. sessions'[sid] = t /\ m_syncState' = m_syncState
  BY <1>3, Zenon DEF Sids, agentVars
<1>6. GoodSession(sid)'
  BY <1>3, <1>4, <1>5, Zenon DEF GoodSession
<1>7. sid = m_syncState.session => Steady(sid)
  BY <1>1, <1>4, <1>5, StaysSteady, Zenon
<1>8. \A m \in toAgent' \ toAgent : GoodAnswer(m)'
  BY <1>1, <1>4, <1>5, Zenon DEF GoodAnswer
<1>. QED  BY <1>1, <1>3, <1>4, <1>6, <1>7, <1>8, CalmSession, Zenon

\* The current session is not removed before it is done; then it is complete.
LEMMA CurrentInHand ==
  ASSUME IInv, Orderly, Undisturbed, NEW sid \in Sids, sid = m_syncState.session, ~ sessions[sid].live
  PROVE  /\ sessions[sid].done /\ sessions[sid].endReceived
         /\ sessions[sid].seen = 1..sessions[sid].size
<1>1. PICK c \in Callers : TRUE
  BY Zenon DEF Orderly
<1>2. sid \in Nat /\ sid # 0
  BY DEF IInv, Types, Sids
<1>3. sessions[sid].done
  BY <1>1, <1>2, Zenon DEF IInv, InSession, InHand, Undisturbed
<1>. QED  BY <1>3, Zenon DEF Undisturbed, GoodSession, IInv, SessionOK

\* A removed session is not the current one.
LEMMA CalmDrop ==
  ASSUME IInv, IInv', Orderly, Undisturbed, NEW sid \in Sids, Drop(sid)
  PROVE  Undisturbed'
<1>1. ~ sessions[sid].live /\ ~ sessions[sid].done /\ Indexed(sid)
        /\ UNCHANGED <<agentVars, toManager, toAgent>>
  BY Zenon DEF Drop, Live, Indexed
<1>2. sid # m_syncState.session
  BY <1>1, CurrentInHand, Zenon
<1>. QED  BY <1>1, <1>2, CalmIndexed, Zenon

\* The session is answered, with an error only for a CHECK.
LEMMA CalmAnswer ==
  ASSUME IInv, IInv', Orderly, Undisturbed, NEW sid \in Sids, Answer(sid)
  PROVE  Undisturbed'
<1>1. Indexed(sid) /\ UNCHANGED <<agentVars, toManager>>
  BY Zenon DEF Answer
<1>2. PICK status \in {"Ok", "Error", "ChecksumMismatch"} :
         /\ toAgent' = toAgent \cup {EndAck(status, sid)}
         /\ status # "Ok" => sessions[sid].mode = "CHECK"
  <2>1. CASE sessions[sid].mode = "CHECK" /\ sessions[sid].checksum = 0
    BY <2>1, Zenon DEF Answer
  <2>2. CASE ~ (sessions[sid].mode = "CHECK" /\ sessions[sid].checksum = 0)
    <3>1. PICK differs \in BOOLEAN :
             /\ differs => sessions[sid].mode = "CHECK"
             /\ toAgent' = toAgent \cup {EndAck(IF differs THEN "ChecksumMismatch" ELSE "Ok", sid)}
      BY <2>2, Zenon DEF Answer
    <3>2. CASE differs
      BY <3>1, <3>2, Zenon
    <3>3. CASE ~ differs
      BY <3>1, <3>3, Zenon
    <3>. QED  BY <3>2, <3>3, Zenon
  <2>. QED  BY <2>1, <2>2, Zenon
<1>3. PICK m : m = EndAck(status, sid)
  BY Zenon
<1>4. m.type = "EndAck" /\ m.sid = sid /\ m.status = status /\ status # "Processing"
  BY <1>3, Zenon DEF EndAck
<1>5. FinalComing(sid)'
  BY <1>2, <1>3, <1>4, Zenon DEF FinalComing
<1>. QED  BY <1>1, <1>2, <1>3, <1>4, <1>5, CalmIndexed, Zenon

\* An item comes; one that is left out has come before.
LEMMA CalmHandleData ==
  ASSUME IInv, IInv', Orderly, Undisturbed, NEW m \in toManager, HandleData(m)
  PROVE  Undisturbed'
<1>1. /\ m.type = "Data" /\ toManager' = toManager \ {m} /\ toAgent' = toAgent
      /\ UNCHANGED agentVars /\ m_syncState' = m_syncState
  BY Zenon DEF HandleData, Consume, agentVars
<1>2. m.sid \in Sids /\ m.seq \in 1..sessions[m.sid].size
  BY <1>1, Zenon DEF IInv, MessageOK
<1>3. PICK sid \in Sids : sid = m.sid
  BY <1>2, Zenon
<1>4. PICK old \in Session : old = sessions[sid]
  BY DEF IInv, Types, Sids
<1>5. old.size \in Nat /\ m.seq <= old.size
  BY <1>2, <1>3, <1>4 DEF Session
<1>6. PICK t : /\ sessions' = [sessions EXCEPT ![sid] = t]
               /\ t.mode = old.mode /\ t.size = old.size /\ t.done = old.done
               /\ t.endReceived = old.endReceived
               /\ old.endEnqueued => t.endEnqueued
               /\ t.endReceived /\ t.seen = 1..t.size => t.endEnqueued
               /\ old.seen \subseteq t.seen
               /\ sid = m_syncState.session => m.seq \in t.seen
  <2>1. CASE sid \in Live
    <3>. DEFINE s == [old EXCEPT !.store = Put(old.store, [n |-> m.n, seq |-> m.seq, kind |-> m.kind]),
                                 !.seen = Observed(old, m.seq)]
    <3>1. /\ s.mode = old.mode /\ s.size = old.size /\ s.done = old.done
          /\ s.endReceived = old.endReceived /\ s.endEnqueued = old.endEnqueued
          /\ s.seen = old.seen \cup {m.seq} /\ DOMAIN s = DOMAIN old
      BY Zenon DEF Session, Observed
    <3>2. sessions' = [sessions EXCEPT ![sid] = [s EXCEPT !.endEnqueued = @ \/ Complete(s)]]
      BY <1>3, <1>4, <1>5, <2>1, Zenon DEF HandleData
    <3>. HIDE DEF s
    <3>3. PICK t : t = [s EXCEPT !.endEnqueued = @ \/ Complete(s)]
      BY Zenon
    <3>4. DOMAIN old = {"live", "mode", "size", "n", "store", "seen", "checksum", "endReceived",
                        "endEnqueued", "done"}
      BY Zenon DEF Session
    <3>5. /\ t.mode = s.mode /\ t.size = s.size /\ t.done = s.done
          /\ t.endReceived = s.endReceived /\ t.seen = s.seen
          /\ t.endEnqueued = (s.endEnqueued \/ Complete(s))
      BY <3>1, <3>3, <3>4, Zenon
    <3>6. t.endReceived /\ t.seen = 1..t.size => Complete(s)
      BY <3>5, Zenon DEF Complete
    <3>. QED  BY <3>1, <3>2, <3>3, <3>5, <3>6, Zenon
  <2>2. CASE sid \notin Live
    <3>1. sessions' = sessions
      BY <1>3, <2>2, Zenon DEF HandleData
    <3>2. sessions' = [sessions EXCEPT ![sid] = old]
      BY <1>4, <3>1 DEF IInv, Types, Sids
    <3>3. sid = m_syncState.session => m.seq \in old.seen
      BY <1>2, <1>3, <1>4, <2>2, CurrentInHand, Zenon DEF Live
    <3>4. old.endReceived /\ old.seen = 1..old.size => old.endEnqueued
      BY <1>4, Zenon DEF Undisturbed, GoodSession
    <3>. QED  BY <3>2, <3>3, <3>4, Zenon
  <2>. QED  BY <2>1, <2>2, Zenon
<1>7. sessions'[sid] = t
  BY <1>6, Zenon DEF Sids
<1>8. GoodSession(sid)'
  BY <1>4, <1>6, <1>7, Zenon DEF Undisturbed, GoodSession
<1>9. ASSUME sid = m_syncState.session
      PROVE  Steady(sid)
  <2>1. EndMessage(sid).type = "End" /\ EndMessage(sid)' = EndMessage(sid)
    BY Zenon DEF EndMessage
  <2>2. (Unasked(sid) => Unasked(sid)') /\ (EndComing(sid) => EndComing(sid)')
    BY <1>1, <1>4, <1>6, <1>7, <2>1, Zenon DEF Unasked, EndComing
  <2>3. Coming(sid) => Coming(sid)'
    BY <1>1, <1>3, <1>4, <1>6, <1>7, <1>9, Zenon DEF Coming
  <2>4. FinalComing(sid)' = FinalComing(sid)
    BY <1>1, Zenon DEF FinalComing
  <2>. QED  BY <1>4, <1>6, <1>7, <2>2, <2>3, <2>4, Zenon DEF Steady
<1>. QED  BY <1>1, <1>3, <1>4, <1>6, <1>8, <1>9, CalmSession, ZenonT(30)

\* An End comes; one that is not answered has come before.
LEMMA CalmHandleEnd ==
  ASSUME IInv, IInv', Orderly, Undisturbed, NEW m \in toManager, HandleEnd(m)
  PROVE  Undisturbed'
<1>1. /\ m.type = "End" /\ toManager' = toManager \ {m}
      /\ UNCHANGED agentVars /\ m_syncState' = m_syncState
  BY Zenon DEF HandleEnd, Consume, agentVars
<1>2. m.sid \in Sids /\ m \in ToManager
  BY <1>1, Zenon DEF IInv, Types, MessageOK
<1>3. PICK sid \in Sids : sid = m.sid
  BY <1>2, Zenon
<1>4. PICK old \in Session : old = sessions[sid]
  BY DEF IInv, Types, Sids
<1>5. PICK t : /\ sessions' = [sessions EXCEPT ![sid] = t]
               /\ t.mode = old.mode /\ t.size = old.size /\ t.done = old.done /\ t.seen = old.seen
               /\ old.endEnqueued => t.endEnqueued
               /\ t.endReceived /\ t.seen = 1..t.size => t.endEnqueued
               /\ sid = m_syncState.session => t.endReceived
               /\ toAgent \subseteq toAgent'
               /\ \A x \in toAgent' \ toAgent :
                    /\ \/ x.type = "EndAck" /\ x.status = "Processing"
                       \/ x.type = "ReqRet" /\ x.seqs # {} /\ x.seqs \subseteq 1..t.size
                    /\ x.sid = sid
  <2>1. CASE sid \in Live
    <3>. DEFINE s == [old EXCEPT !.endReceived = TRUE]
                answer == IF Complete(s) THEN EndAck("Processing", sid)
                          ELSE [type |-> "ReqRet", sid |-> sid, seqs |-> (1..s.size) \ s.seen]
    <3>1. /\ s.mode = old.mode /\ s.size = old.size /\ s.done = old.done
          /\ s.endReceived /\ s.endEnqueued = old.endEnqueued
          /\ s.seen = old.seen /\ DOMAIN s = DOMAIN old
      BY Zenon DEF Session
    <3>2. /\ sessions' = [sessions EXCEPT ![sid] = [s EXCEPT !.endEnqueued = @ \/ Complete(s)]]
          /\ toAgent' = toAgent \cup {answer}
      BY <1>3, <1>4, <2>1, Zenon DEF HandleEnd
    <3>3. PICK t : t = [s EXCEPT !.endEnqueued = @ \/ Complete(s)]
      BY Zenon
    <3>4. DOMAIN old = {"live", "mode", "size", "n", "store", "seen", "checksum", "endReceived",
                        "endEnqueued", "done"}
      BY Zenon DEF Session
    <3>. HIDE DEF s
    <3>5. /\ t.mode = s.mode /\ t.size = s.size /\ t.done = s.done
          /\ t.endReceived = s.endReceived /\ t.seen = s.seen
          /\ t.endEnqueued = (s.endEnqueued \/ Complete(s))
      BY <3>1, <3>3, <3>4, Zenon
    <3>6. t.endReceived /\ t.seen = 1..t.size => Complete(s)
      BY <3>5, Zenon DEF Complete
    <3>7. PICK x : x = answer
      BY Zenon
    <3>8. /\ \/ x.type = "EndAck" /\ x.status = "Processing"
             \/ x.type = "ReqRet" /\ x.seqs # {} /\ x.seqs \subseteq 1..t.size
          /\ x.sid = sid
      <4>1. CASE Complete(s)
        BY <3>7, <4>1, Zenon DEF EndAck
      <4>2. CASE ~ Complete(s)
        <5>1. x.type = "ReqRet" /\ x.seqs = (1..s.size) \ s.seen /\ x.sid = sid
          BY <3>7, <4>2, Zenon
        <5>2. s.seen # 1..s.size
          BY <3>1, <4>2, Zenon DEF Complete
        <5>3. s.seen \subseteq 1..s.size
          BY <1>4, <3>1, Zenon DEF IInv, SessionOK
        <5>4. x.seqs # {} /\ x.seqs \subseteq 1..s.size
          BY <5>1, <5>2, <5>3, Zenon
        <5>. QED  BY <3>5, <5>1, <5>4, Zenon
      <4>. QED  BY <4>1, <4>2, Zenon
    <3>. HIDE DEF answer
    <3>. QED  BY <3>1, <3>2, <3>3, <3>5, <3>6, <3>7, <3>8, Zenon
  <2>2. CASE sid \notin Live
    <3>1. sessions' = sessions /\ toAgent' = toAgent
      BY <1>3, <2>2, Zenon DEF HandleEnd
    <3>2. sessions' = [sessions EXCEPT ![sid] = old]
      BY <1>4, <3>1 DEF IInv, Types, Sids
    <3>3. sid = m_syncState.session => old.endReceived
      BY <1>4, <2>2, CurrentInHand, Zenon DEF Live
    <3>4. old.endReceived /\ old.seen = 1..old.size => old.endEnqueued
      BY <1>4, Zenon DEF Undisturbed, GoodSession
    <3>. QED  BY <3>1, <3>2, <3>3, <3>4, Zenon
  <2>. QED  BY <2>1, <2>2, Zenon
<1>6. sessions'[sid] = t
  BY <1>5, Zenon DEF Sids
<1>7. GoodSession(sid)'
  BY <1>4, <1>5, <1>6, Zenon DEF Undisturbed, GoodSession
<1>8. \A x \in toAgent' \ toAgent : GoodAnswer(x)'
  BY <1>5, <1>6, Zenon DEF GoodAnswer
<1>9. ASSUME sid = m_syncState.session
      PROVE  Steady(sid)
  <2>1. m = EndMessage(sid)
    BY <1>1, <1>2, <1>3, Zenon DEF EndMessage, ToManager
  <2>2. ~ Unasked(sid) /\ EndComing(sid)'
    BY <1>5, <1>6, <1>9, <2>1, Zenon DEF Unasked, EndComing
  <2>3. Coming(sid) => Coming(sid)'
    BY <1>1, <1>4, <1>5, <1>6, Zenon DEF Coming
  <2>4. FinalComing(sid) => FinalComing(sid)'
    BY <1>1, <1>5, Zenon DEF FinalComing
  <2>. QED  BY <1>4, <1>5, <1>6, <2>2, <2>3, <2>4, Zenon DEF Steady
<1>. QED  BY <1>1, <1>3, <1>4, <1>5, <1>7, <1>8, <1>9, CalmSession, ZenonT(30)

\* A session is opened while the agent is in none.
LEMMA CalmHandleStart ==
  ASSUME IInv, IInv', Orderly, Undisturbed, NEW m \in toManager, HandleStart(m)
  PROVE  Undisturbed'
<1>1. /\ m.type = "Start" /\ UNCHANGED agentVars /\ ~ m_stopRequested
      /\ sessions' = Append(Removed, NewSession(m))
      /\ toAgent' = toAgent \cup {StartAck("Ok", Len(sessions) + 1)}
  BY Zenon DEF HandleStart, Undisturbed
<1>2. m_syncState.session = 0 /\ 0 \notin Sids
  <2>1. m_syncState.session = 0
    BY <1>1, StartAlone, Zenon
  <2>. QED  BY <2>1 DEF IInv, Types, Sids
<1>3. sessions \in Seq(Session)
  BY Zenon DEF IInv, Types
<1>4. PICK s : s = NewSession(m)
  BY Zenon
<1>5. ~ s.endReceived /\ ~ s.done
  BY <1>4, Zenon DEF NewSession
<1>6. PICK k : k = Len(sessions) + 1
  BY Zenon
<1>7. Removed \in Seq(Session) /\ Len(Removed) = Len(sessions) /\ DOMAIN Removed = Sids
  BY <1>3, RemovedFacts, Zenon
<1>8. /\ Sids' = Sids \cup {k} /\ sessions'[k] = s
      /\ \A sid \in Sids : sessions'[sid] = Removed[sid]
  BY <1>1, <1>3, <1>4, <1>6, <1>7 DEF Sids
<1>9. \A sid \in Sids :
        /\ sessions'[sid].mode = sessions[sid].mode /\ sessions'[sid].size = sessions[sid].size
        /\ sessions'[sid].seen = sessions[sid].seen /\ sessions'[sid].done = sessions[sid].done
        /\ sessions'[sid].endReceived = sessions[sid].endReceived
        /\ sessions'[sid].endEnqueued = sessions[sid].endEnqueued
  BY <1>3, <1>8, RemovedFacts, ZenonT(30)
<1>10. ASSUME NEW sid \in Sids'
       PROVE  GoodSession(sid)'
  <2>1. CASE sid = k
    BY <1>5, <1>8, <2>1, Zenon DEF GoodSession
  <2>2. CASE sid \in Sids
    BY <1>9, <2>2, Zenon DEF Undisturbed, GoodSession
  <2>. QED  BY <1>8, <2>1, <2>2, Zenon
<1>11. PICK ack : ack = StartAck("Ok", k)
  BY Zenon
<1>12. ack.type = "StartAck" /\ ack.status = "Ok"
  BY <1>11, Zenon DEF StartAck
<1>13. toAgent' = toAgent \cup {ack}
  BY <1>1, <1>6, <1>11, Zenon
<1>14. (\A x \in toAgent' \ toAgent : GoodAnswer(x)') /\ Opening' # {}
  BY <1>12, <1>13, Zenon DEF GoodAnswer, Opening
<1>. QED  BY <1>1, <1>2, <1>8, <1>9, <1>10, <1>14, CalmManager, ZenonT(30)

\* Nothing changes.
LEMMA CalmStutter ==
  ASSUME IInv, IInv', Orderly, Undisturbed, UNCHANGED vars
  PROVE  Undisturbed'
<1>1. UNCHANGED <<agentVars, toManager, toAgent, sessions>> /\ m_syncState' = m_syncState
  BY Zenon DEF vars, agentVars
<1>2. Sids' = Sids /\ Opening' = Opening
  BY <1>1, Zenon DEF Sids, Opening
<1>3. \A sid \in Sids : Steady(sid)
  BY <1>1, StaysSteady, Zenon
<1>4. \A sid \in Sids' : GoodSession(sid)'
  BY <1>1, <1>2, Zenon DEF Undisturbed, GoodSession
<1>. QED  BY <1>1, <1>2, <1>3, <1>4, CalmManager, Zenon

\* A step is a mishap, or leaves everything undisturbed.
LEMMA CalmStep ==
  ASSUME IInv, Orderly, Calm, Undisturbed, mishaps \in Nat, [Next]_vars, mishaps' = 0
  PROVE  Undisturbed'
<1>1. IInv'
  BY StepInvariant, Zenon
<1>2. ~ Mishap
  BY DEF Mishap
<1>3. CASE UNCHANGED vars
  BY <1>1, <1>3, CalmStutter, Zenon
<1>4. CASE AgentStep
  <2>1. UNCHANGED <<sessions, effects>>
    BY <1>4, Zenon DEF AgentStep
  <2>2. ~ Stop
    BY NoStartFailure, Zenon DEF Orderly
  <2>3. ASSUME NEW c \in Callers, NEW shape \in Shapes, Begin(c, shape)
        PROVE  Undisturbed'
    BY <1>1, <2>1, <2>3, CalmBegin, Zenon
  <2>4. ASSUME NEW m \in toAgent, ParseResponseBuffer(m)
        PROVE  Undisturbed'
    BY <2>1, <2>4, CalmParse, Zenon
  <2>. QED  BY <1>4, <2>2, <2>3, <2>4, Zenon DEF AgentStep
<1>5. ASSUME NEW c \in Callers, Proceeds(c)
      PROVE  Undisturbed'
  <2>1. UNCHANGED <<sessions, effects>>
    BY <1>5, Zenon DEF Proceeds
  <2>2. CASE SendStart(c)
    BY <1>1, <2>1, <2>2, CalmSendStart, Zenon
  <2>3. CASE ReceiveStartAck(c)
    BY <2>1, <2>3, CalmReceiveStartAck, Zenon
  <2>4. CASE SendData(c)
    BY <1>1, <2>1, <2>4, CalmSendData, Zenon
  <2>5. CASE EnterEnd(c)
    BY <2>1, <2>5, CalmEnterEnd, Zenon
  <2>6. CASE SendEnd(c)
    BY <2>1, <2>6, CalmSendEnd, Zenon
  <2>7. CASE ReceiveEndAck(c)
    BY <2>1, <2>7, CalmReceiveEndAck, Zenon
  <2>8. CASE ReceiveReqRet(c)
    BY <2>1, <2>8, CalmReceiveReqRet, Zenon
  <2>9. CASE ReceiveProcessing(c)
    BY <2>1, <2>9, CalmReceiveProcessing, Zenon
  <2>10. CASE Finish(c)
    BY <1>1, <2>1, <2>10, CalmFinish, Zenon
  <2>11. ~ LocalFailure(c) /\ ~ (StartTimesOut(c) /\ StartWaitOver)
    BY NoStartFailure, Zenon
  <2>12. ~ (EndTimesOut(c) /\ EndWaitOver)
    BY NoEndFailure, Zenon
  <2>. QED  BY <1>5, <2>2, <2>3, <2>4, <2>5, <2>6, <2>7, <2>8, <2>9, <2>10, <2>11, <2>12,
               ZenonT(30) DEF Proceeds, CallStep
<1>6. CASE ManagerStep
  <2>1. ASSUME NEW m \in toManager, Handle(m)
        PROVE  Undisturbed'
    BY <1>1, <1>2, <2>1, CalmHandleStart, CalmHandleData, CalmHandleChecksum, CalmHandleEnd,
       Zenon DEF Handle, RefuseStart
  <2>2. ASSUME NEW sid \in Sids, Answer(sid) \/ AnswerError(sid) \/ Drop(sid) \/ Expire(sid)
        PROVE  Undisturbed'
    BY <1>1, <1>2, <2>2, CalmAnswer, CalmDrop, Zenon DEF AnswerError, Expire
  <2>. QED  BY <1>6, <2>1, <2>2, Zenon DEF ManagerStep
<1>7. CASE Lose
  BY <1>2, <1>7, Zenon DEF Lose
<1>. QED  BY <1>3, <1>4, <1>5, <1>6, <1>7, ZenonT(30) DEF Next

\* The number of mishaps only grows.
LEMMA MishapsGrow ==
  ASSUME [Next]_vars, mishaps \in Nat
  PROVE  mishaps' \in Nat /\ (mishaps' = 0 => mishaps = 0)
<1>1. mishaps' = mishaps \/ mishaps' = mishaps + 1
  <2>1. CASE UNCHANGED vars
    BY <2>1, Zenon DEF vars
  <2>2. CASE AgentStep
    BY <2>2, Zenon DEF AgentStep
  <2>3. ASSUME NEW c \in Callers, Proceeds(c)
        PROVE  mishaps' = mishaps
    BY <2>3, Zenon DEF Proceeds
  <2>4. ASSUME NEW m \in toManager, Handle(m)
        PROVE  mishaps' = mishaps \/ mishaps' = mishaps + 1
    BY <2>4, Zenon DEF Handle, HandleStart, RefuseStart, HandleData, HandleChecksumModule, HandleEnd,
       Mishap
  <2>5. ASSUME NEW sid \in Sids, Answer(sid) \/ AnswerError(sid) \/ Drop(sid) \/ Expire(sid)
        PROVE  mishaps' = mishaps \/ mishaps' = mishaps + 1
    BY <2>5, Zenon DEF Answer, AnswerError, Drop, Expire, Mishap
  <2>6. CASE Lose
    BY <2>6, Zenon DEF Lose, Mishap
  <2>. QED  BY <2>1, <2>2, <2>3, <2>4, <2>5, <2>6, ZenonT(30) DEF Next, ManagerStep
<1>. QED  BY <1>1

\* NoSpuriousFailure: with no wait cut short and no failure on the agent, and
\* until a message is lost, a request refused or a session removed, no batch
\* is reported failed, in whatever order messages and answers arrive
\* (sendEndAndWaitAck gives up only after a wait in which nothing came).
THEOREM NoBatchFailsForNothing ==
  ASSUME Orderly, Calm
  PROVE  Spec => []NoSpuriousFailure
<1>. DEFINE Inv == mishaps \in Nat /\ (mishaps = 0 => Undisturbed)
<1>1. Init => Inv
  <2>. SUFFICES ASSUME Init PROVE Inv
    BY Zenon
  <2>1. /\ m_syncState = Reset /\ m_stopRequested = FALSE /\ caller = [c \in Callers |-> Idle]
        /\ outcome = <<>> /\ toAgent = {} /\ sessions = <<>> /\ mishaps = 0
    BY Zenon DEF Init, AgentInit
  <2>2. DOMAIN outcome = {} /\ Sids = {} /\ mishaps \in Nat
    BY <2>1 DEF Sids
  <2>3. ASSUME NEW c \in Callers
        PROVE  GoodCall(c) /\ AllComing(c)
    <3>1. caller[c].pc = "idle" /\ ~ m_syncState.syncFailed /\ ~ m_syncState.reqRetReceived
      BY <2>1, Zenon DEF Idle, Reset
    <3>. QED  BY <2>2, <3>1, Zenon DEF GoodCall, AllComing
  <2>. QED  BY <2>1, <2>2, <2>3, Zenon DEF Undisturbed, NoneFailed
<1>2. IInv /\ Inv /\ [Next]_vars => Inv'
  BY CalmStep, MishapsGrow, Zenon
<1>3. Inv => NoSpuriousFailure
  BY Zenon DEF Undisturbed, NoneFailed, NoSpuriousFailure
<1>. HIDE DEF Inv
<1>. QED  BY <1>1, <1>2, <1>3, SyncProtocolInvariant, PTL DEF Spec

=============================================================================
