------------------------- MODULE InventorySyncProofs -------------------------
(***************************************************************************)
(* The safety of the manager's inventory synchronisation service, for any  *)
(* number of agents, modules and sessions and in every environment.        *)
(*                                                                         *)
(* A session that is complete passes through a pipeline: the indexer's     *)
(* queue, the indexer thread, the list of registered callbacks, and the    *)
(* callbacks a thread has taken.  It is in one of these places at most     *)
(* (Pipeline); the lock it may hold, its answer and what it has asked the  *)
(* indexer to do are stated place by place (Locks, Answers, Documents).    *)
(***************************************************************************)
EXTENDS InventorySync, FiniteSetTheorems, TLAPS

Session ==
  [state : {"live", "cleaned", "gone"}, agent : Agents, module : Modules, mode : Modes,
   items : Seq(Kinds), vd : BOOLEAN, seen : SUBSET Nat, clean : BOOLEAN, checksum : BOOLEAN,
   endReceived : BOOLEAN, endEnqueued : BOOLEAN, ownsAgentLock : BOOLEAN]

IsSession(sid) == m_agentSessions[sid] \in Session

Pcs == {"idle", "found", "flush", "wait", "update", "bulk", "caught", "invoke"}

IndexerStates ==
  [pc : Pcs, sid : Sids \cup {NoSid}, todo : SUBSET (Sids \X Nat), sends : BOOLEAN]

Statuses == {"Ok", "Error", "ChecksumMismatch"}

SessionTypes ==
  /\ m_agentSessions \in [Sids -> Session \cup {Free}]
  /\ \A sid \in Sids : IsSession(sid) => m_agentSessions[sid].seen \subseteq 1..Size(sid)

\* The variables have their types, those of the records included.
Types ==
  /\ env \in Environments
  /\ starts \subseteq [agent : Agents, module : Modules, shape : env.shapes]
  /\ SessionTypes
  /\ m_dataStore \subseteq Sids \X Nat
  /\ m_blockedAgents \subseteq Agents
  /\ m_indexerQueue \in Seq(Sids)
  /\ m_mutex \in BOOLEAN
  /\ indexer \in IndexerStates
  /\ callbacks \in [Threads -> [list : Seq(Sids), erase : BOOLEAN]]
  /\ acks \in [Sids -> Seq(Statuses)]
  /\ m_notify \in Seq(Sids)
  /\ m_shouldNotifyAfterBulk \in BOOLEAN

\* The quota, and the sessions it is reserved for.
Reserved ==
  /\ IsFiniteSet(Live)
  /\ m_dataValueQuotaRemaining \in Nat
  /\ m_dataValueQuotaRemaining + Declared(Live) = Quota
  /\ Cardinality(Live) <= m_maxSessions

-----------------------------------------------------------------------------
(* The pipeline *)

Elems(s) == {s[i] : i \in 1..Len(s)}

Distinct(s) == \A i, j \in 1..Len(s) : s[i] = s[j] => i = j

Handling == {"found", "flush", "wait", "update", "bulk"}

Working == IF indexer.pc \in Handling THEN {indexer.sid} ELSE {}

Queued == Elems(m_indexerQueue)

Registered == Elems(m_notify)

Taken(t) == Elems(callbacks[t].list)

Enqueued == {sid \in Sids : IsSession(sid) /\ m_agentSessions[sid].endEnqueued}

\* A complete session is in one place at most, once.
Pipeline ==
  /\ Distinct(m_indexerQueue) /\ Distinct(m_notify)
  /\ \A t \in Threads : Distinct(callbacks[t].list) /\ Taken(t) \subseteq Enqueued
  /\ Queued \cup Working \cup Registered \subseteq Enqueued
  /\ Queued \cap Working = {} /\ Queued \cap Registered = {} /\ Working \cap Registered = {}
  /\ \A t \in Threads : Taken(t) \cap (Queued \cup Working \cup Registered) = {}
  /\ Taken("indexer") \cap Taken("bulk") = {}
  /\ \A t \in Threads : callbacks[t].erase => callbacks[t].list # <<>>

-----------------------------------------------------------------------------
(* The locks *)

Owns(sid) == IsSession(sid) /\ m_agentSessions[sid].ownsAgentLock

\* Where a session is that will still release its lock.
Releasing ==
  (IF indexer.pc \in {"flush", "wait", "update"} THEN {indexer.sid} ELSE {})
    \cup Registered \cup Taken("indexer") \cup Taken("bulk")

\* The sessions whose callback has answered and is about to erase them.
Answered ==
  {sid \in Sids : \E t \in Threads : callbacks[t].erase /\ sid = Head(callbacks[t].list)}

\* A metadata session is registered only to be taken at once, before a later
\* session's failure could forget it; one whose callback has answered holds
\* no lock.
Locks ==
  /\ \A agent \in m_blockedAgents :
       \E sid \in Releasing : Owns(sid) /\ m_agentSessions[sid].agent = agent
  /\ \A sid \in Sids : Owns(sid) => m_agentSessions[sid].mode = "META"
  /\ \A sid \in Registered : m_agentSessions[sid].mode = "META" =>
       indexer.pc = "invoke" /\ m_shouldNotifyAfterBulk
  /\ \A sid \in Answered : ~ Owns(sid)
  /\ indexer.pc \in {"flush", "wait", "update"} => Current.mode = "META"
  /\ indexer.pc = "bulk" => Current.mode \in {"DELTA", "FULL"}

-----------------------------------------------------------------------------
(* The answers *)

\* Callbacks taken that have not answered yet.
Unanswered(t) == IF callbacks[t].erase THEN Elems(Tail(callbacks[t].list)) ELSE Taken(t)

Open == Queued \cup Working \cup Registered \cup Unanswered("indexer") \cup Unanswered("bulk")

\* A session that is not complete has no answer; where no scan throws, nor has
\* one that is still to be answered.
Answers ==
  /\ \A sid \in Sids : sid \notin Enqueued => acks[sid] = <<>>
  /\ "scanner" \notin env.faults =>
       \A sid \in Sids : Len(acks[sid]) <= 1 /\ (sid \in Open => acks[sid] = <<>>)

-----------------------------------------------------------------------------
(* What the sessions ask of the indexer *)

Values(sid) == {<<sid, seq>> : seq \in {q \in 1..Size(sid) : m_agentSessions[sid].items[q] = "value"}}

HasClean(sid) == \E q \in 1..Size(sid) : m_agentSessions[sid].items[q] = "clean"

IsData(sid) ==
  /\ IsSession(sid)
  /\ m_agentSessions[sid].state # "cleaned"
  /\ m_agentSessions[sid].mode \in {"DELTA", "FULL"}

\* The connector has everything the session asked for.
Handed(sid) == Work(sid) \subseteq indexed \cup m_bulkData \cup m_deleteByQuery

Received(sid) ==
  LET s == m_agentSessions[sid]
  IN  /\ s.state # "gone"
      /\ \A q \in s.seen : s.items[q] # "clean" /\ s.state = "live" => <<sid, q>> \in m_dataStore
      /\ s.clean <=> \E q \in s.seen : s.items[q] = "clean"
      /\ s.endEnqueued => s.seen = 1..Size(sid)

Reliable == env.faults \cap {"indexer", "full", "invalid"} = {}

AllReceived ==
  \A sid \in Sids :
    IsSession(sid) /\ (sid \in Queued \cup Working \/ sid \notin Enqueued) => Received(sid)

\* Half way through the documents of a session, the others are at the
\* connector; without any, there is nothing but documents to send.
Sending ==
  indexer.pc = "bulk" /\ IsData(indexer.sid) =>
    /\ Values(indexer.sid) \subseteq indexer.todo \cup m_bulkData \cup indexed
    /\ HasClean(indexer.sid) => indexer.sid \in m_deleteByQuery \cup indexed
    /\ ~ indexer.sends => Values(indexer.sid) \subseteq indexer.todo /\ ~ HasClean(indexer.sid)

IsDone(sid) == IsData(sid) => Work(sid) \subseteq indexed

\* Where requests do not fail, the buffer does not fill and no document is
\* refused: the messages of a session are kept until the indexer thread has handed them all to the
\* connector; a callback is taken when they have been executed.
Documents ==
  Reliable =>
    /\ AllReceived
    /\ Sending
    /\ \A sid \in Registered : IsData(sid) => Handed(sid)
    /\ \A t \in Threads : \A sid \in Taken(t) : IsDone(sid)
    /\ m_shouldNotifyAfterBulk => indexer.pc = "invoke"
    /\ m_shouldNotifyAfterBulk \/ indexer.pc \in {"wait", "update"} =>
         \A sid \in Registered : IsDone(sid)
    /\ \A sid \in Sids : (\E i \in 1..Len(acks[sid]) : acks[sid][i] = "Ok") => IsDone(sid)

IInv == Types /\ Reserved /\ Pipeline /\ Locks /\ Answers /\ Documents

\* Nothing is thrown there.
NoneCaught == Reliable => indexer.pc # "caught"

-----------------------------------------------------------------------------
(* Sequences *)

\* The empty sequence has no elements and no repetition.
LEMMA ElemsEmpty == Elems(<<>>) = {} /\ Distinct(<<>>)
  BY DEF Elems, Distinct

\* Append adds one element; it repeats none when the element is new.
LEMMA ElemsAppend ==
  ASSUME NEW S, NEW s \in Seq(S), NEW x \in S
  PROVE  /\ Append(s, x) \in Seq(S)
         /\ Elems(Append(s, x)) = Elems(s) \cup {x}
         /\ Distinct(s) /\ x \notin Elems(s) => Distinct(Append(s, x))
<1> DEFINE r == Append(s, x)
<1>1. r \in Seq(S) /\ Len(r) = Len(s) + 1 /\ Len(s) \in Nat
  OBVIOUS
<1>2. \A i \in 1..Len(r) : r[i] = IF i = Len(s) + 1 THEN x ELSE s[i]
  OBVIOUS
<1> HIDE DEF r
<1>3. Elems(r) = Elems(s) \cup {x}
  BY <1>1, <1>2 DEF Elems
<1>4. Distinct(s) /\ x \notin Elems(s) => Distinct(r)
  BY <1>1, <1>2 DEF Elems, Distinct
<1> QED
  BY <1>1, <1>3, <1>4, Zenon DEF r

\* The first element, and the others, of a sequence that has one.
LEMMA ElemsTail ==
  ASSUME NEW S, NEW s \in Seq(S), s # <<>>
  PROVE  /\ Head(s) \in S /\ Tail(s) \in Seq(S)
         /\ Head(s) \in Elems(s)
         /\ Elems(s) = {Head(s)} \cup Elems(Tail(s))
         /\ Distinct(s) => Distinct(Tail(s)) /\ Head(s) \notin Elems(Tail(s))
<1> DEFINE r == Tail(s)
<1>1. Len(s) \in Nat /\ Len(s) > 0 /\ Head(s) = s[1] /\ s[1] \in S
  OBVIOUS
<1>2. r \in Seq(S) /\ Len(r) = Len(s) - 1 /\ \A i \in 1..Len(r) : r[i] = s[i + 1]
  OBVIOUS
<1> HIDE DEF r
<1>3. Elems(s) = {s[1]} \cup Elems(r)
  <2>1. ASSUME NEW x \in Elems(s) PROVE x \in {s[1]} \cup Elems(r)
    <3>1. PICK i \in 1..Len(s) : x = s[i]
      BY <2>1, Zenon DEF Elems
    <3>2. CASE i = 1
      BY <3>1, <3>2, Zenon
    <3>3. CASE i # 1
      <4>1. i - 1 \in 1..Len(r) /\ r[i - 1] = s[i]
        BY <1>1, <1>2, <3>3
      <4> QED
        BY <3>1, <4>1, ZenonT(30) DEF Elems
    <3> QED
      BY <3>2, <3>3, Zenon
  <2>2. {s[1]} \cup Elems(r) \subseteq Elems(s)
    BY <1>1, <1>2 DEF Elems
  <2> QED
    BY <2>1, <2>2, Zenon
<1>4. Distinct(s) => Distinct(r) /\ s[1] \notin Elems(r)
  BY <1>1, <1>2 DEF Elems, Distinct
<1> QED
  BY <1>1, <1>2, <1>3, <1>4, Zenon DEF r

-----------------------------------------------------------------------------
(* What the steps do to the sessions *)

Fresh(s) ==
  /\ s \in Session
  /\ s.state = "live" /\ s.seen = {}
  /\ ~ s.clean /\ ~ s.endEnqueued /\ ~ s.ownsAgentLock

\* An id that is free may be given a new session; a session keeps what its
\* Start message said, is enqueued for good, and does not come back to life.
Kept ==
  \A sid \in Sids :
    LET s == m_agentSessions[sid]
        r == m_agentSessions'[sid]
    IN  /\ ~ IsSession(sid) => r = s \/ Fresh(r)
        /\ IsSession(sid) =>
             /\ r \in Session
             /\ r.agent = s.agent /\ r.mode = s.mode /\ r.items = s.items
             /\ s.endEnqueued => r.endEnqueued
             /\ s.state # "live" => r.state = s.state

KeptOwners ==
  \A sid \in Sids : IsSession(sid) =>
    m_agentSessions'[sid].ownsAgentLock = m_agentSessions[sid].ownsAgentLock

KeptMessages ==
  \A sid \in Sids : IsSession(sid) =>
    LET s == m_agentSessions[sid]
        r == m_agentSessions'[sid]
    IN  r.seen = s.seen /\ r.clean = s.clean /\ r.endEnqueued = s.endEnqueued

\* An id is free or has a session; the open ones have one.
LEMMA SessionFacts ==
  ASSUME SessionTypes, NEW sid \in Sids
  PROVE  /\ IsSession(sid) <=> m_agentSessions[sid].state # "free"
         /\ ~ IsSession(sid) <=> m_agentSessions[sid] = Free
         /\ sid \in Live => IsSession(sid)
         /\ IsSession(sid) => m_agentSessions[sid].state \in {"live", "cleaned", "gone"}
         /\ IsSession(sid) => m_agentSessions[sid].items \in Seq(Kinds) /\ Size(sid) \in Nat
         /\ IsSession(sid) => m_agentSessions[sid].agent \in Agents
<1>1. Free.state = "free"
  BY Zenon DEF Free
<1>2. \A s \in Session : s.state \in {"live", "cleaned", "gone"} /\ s.items \in Seq(Kinds)
                          /\ s.agent \in Agents
  BY ZenonT(30) DEF Session
<1>3. m_agentSessions[sid] \in Session \cup {Free}
  BY ZenonT(30) DEF SessionTypes
<1> QED
  BY <1>1, <1>2, <1>3 DEF IsSession, Live, Size

\* A step that changes no session.
LEMMA SameSessions ==
  ASSUME SessionTypes, UNCHANGED m_agentSessions
  PROVE  SessionTypes' /\ Kept /\ KeptOwners /\ KeptMessages /\ Live' = Live
  BY Zenon DEF SessionTypes, Kept, KeptOwners, KeptMessages, IsSession, Size, Live

\* Sessions are removed: their state is changed, and nothing else.
LEMMA MarkedSessions ==
  ASSUME SessionTypes, NEW S, NEW st \in {"cleaned", "gone"}, m_agentSessions' = Marked(S, st)
  PROVE  /\ SessionTypes' /\ Kept /\ KeptOwners /\ KeptMessages
         /\ Live' = Live \ S
         /\ \A sid \in Sids : m_agentSessions'[sid].state =
              IF sid \in S \cap Live THEN st ELSE m_agentSessions[sid].state
<1>1. ASSUME NEW sid \in Sids
      PROVE  LET s == m_agentSessions[sid]
                 r == m_agentSessions'[sid]
             IN  /\ ~ IsSession(sid) => r = s
                 /\ IsSession(sid) =>
                      /\ r \in Session
                      /\ r.agent = s.agent /\ r.mode = s.mode /\ r.items = s.items
                      /\ r.endEnqueued = s.endEnqueued /\ r.ownsAgentLock = s.ownsAgentLock
                      /\ r.seen = s.seen /\ r.clean = s.clean
                 /\ r.state = IF sid \in S \cap Live THEN st ELSE s.state
  <2>1. CASE sid \in S \cap Live
    <3>1. IsSession(sid) /\ m_agentSessions'[sid] = [m_agentSessions[sid] EXCEPT !.state = st]
      BY <2>1, SessionFacts, Zenon DEF Marked
    <3> QED
      BY <2>1, <3>1, ZenonT(30) DEF IsSession, Session
  <2>2. CASE sid \notin S \cap Live
    <3>1. m_agentSessions'[sid] = m_agentSessions[sid]
      BY <2>2, ZenonT(30) DEF Marked
    <3> QED
      BY <2>2, <3>1, ZenonT(30) DEF IsSession
  <2> QED
    BY <2>1, <2>2, ZenonT(30)
<1>2. Kept /\ KeptOwners /\ KeptMessages
  BY <1>1, SessionFacts, ZenonT(30) DEF Kept, KeptOwners, KeptMessages, Live
<1>3. SessionTypes'
  <2>1. m_agentSessions' = [sid \in Sids |-> m_agentSessions'[sid]]
    BY Zenon DEF Marked
  <2>2. \A sid \in Sids : m_agentSessions'[sid] \in Session \cup {Free}
    BY <1>1, SessionFacts, ZenonT(30)
  <2>3. \A sid \in Sids : IsSession(sid)' => IsSession(sid)
    BY <1>1, Zenon DEF IsSession
  <2> QED
    BY <1>1, <2>1, <2>2, <2>3, ZenonT(30) DEF SessionTypes, Size
<1>4. Live' = Live \ S
  BY <1>1 DEF Live
<1> QED
  BY <1>1, <1>2, <1>3, <1>4, ZenonT(30)

\* One session is changed, in its flags or its messages.
LEMMA UpdatedSession ==
  ASSUME SessionTypes, NEW sid \in Sids, IsSession(sid), NEW r \in Session,
         m_agentSessions' = [m_agentSessions EXCEPT ![sid] = r],
         r.seen \subseteq 1..Size(sid), r.state = m_agentSessions[sid].state,
         r.agent = m_agentSessions[sid].agent, r.mode = m_agentSessions[sid].mode,
         r.items = m_agentSessions[sid].items,
         m_agentSessions[sid].endEnqueued => r.endEnqueued
  PROVE  /\ SessionTypes' /\ Kept /\ Live' = Live
         /\ m_agentSessions'[sid] = r
         /\ \A other \in Sids \ {sid} : m_agentSessions'[other] = m_agentSessions[other]
<1>1. /\ m_agentSessions' \in [Sids -> Session \cup {Free}]
      /\ m_agentSessions'[sid] = r
      /\ \A other \in Sids \ {sid} : m_agentSessions'[other] = m_agentSessions[other]
  BY Zenon DEF SessionTypes
<1>2. Kept
  BY <1>1, ZenonT(30) DEF Kept, IsSession
<1>3. SessionTypes'
  BY <1>1, ZenonT(30) DEF SessionTypes, IsSession, Size
<1>4. Live' = Live
  BY <1>1 DEF Live
<1> QED
  BY <1>1, <1>2, <1>3, <1>4, Zenon

\* Enqueue(sid, s) hands a complete session over once.
LEMMA EnqueuedSession ==
  ASSUME SessionTypes, NEW sid \in Sids, IsSession(sid), NEW s \in Session,
         Enqueue(sid, s),
         s.seen \subseteq 1..Size(sid), s.state = m_agentSessions[sid].state,
         s.agent = m_agentSessions[sid].agent, s.mode = m_agentSessions[sid].mode,
         s.items = m_agentSessions[sid].items,
         s.endEnqueued = m_agentSessions[sid].endEnqueued,
         s.ownsAgentLock = m_agentSessions[sid].ownsAgentLock
  PROVE  /\ SessionTypes' /\ Kept /\ KeptOwners /\ Live' = Live
         /\ m_agentSessions'[sid].seen = s.seen
         /\ m_agentSessions'[sid].clean = s.clean
         /\ \/ /\ m_indexerQueue' = m_indexerQueue
               /\ m_agentSessions'[sid].endEnqueued = s.endEnqueued
            \/ /\ m_indexerQueue' = Append(m_indexerQueue, sid)
               /\ ~ s.endEnqueued /\ m_agentSessions'[sid].endEnqueued
               /\ s.seen = 1..Size(sid)
         /\ \A other \in Sids \ {sid} : m_agentSessions'[other] = m_agentSessions[other]
<1> DEFINE complete == s.endReceived /\ ~ s.endEnqueued /\ s.seen = 1..Size(sid)
           r == [s EXCEPT !.endEnqueued = @ \/ complete]
<1>1. /\ m_agentSessions' = [m_agentSessions EXCEPT ![sid] = r]
      /\ m_indexerQueue' = IF complete THEN Append(m_indexerQueue, sid) ELSE m_indexerQueue
  BY Zenon DEF Enqueue
<1> HIDE DEF complete
<1>2. /\ r \in Session
      /\ r.seen = s.seen /\ r.state = s.state /\ r.agent = s.agent /\ r.mode = s.mode
      /\ r.items = s.items /\ r.clean = s.clean /\ r.ownsAgentLock = s.ownsAgentLock
      /\ r.endEnqueued <=> s.endEnqueued \/ complete
      /\ r.endEnqueued \in BOOLEAN /\ s.endEnqueued \in BOOLEAN
  BY ZenonT(30) DEF Session, complete
<1> HIDE DEF r
<1>3. /\ m_agentSessions[sid].endEnqueued => r.endEnqueued
      /\ r.seen \subseteq 1..Size(sid) /\ r.state = m_agentSessions[sid].state
      /\ r.agent = m_agentSessions[sid].agent /\ r.mode = m_agentSessions[sid].mode
      /\ r.items = m_agentSessions[sid].items
  BY <1>2, Zenon
<1>4. /\ SessionTypes' /\ Kept /\ Live' = Live /\ m_agentSessions'[sid] = r
      /\ \A other \in Sids \ {sid} : m_agentSessions'[other] = m_agentSessions[other]
  BY <1>1, <1>2, <1>3, UpdatedSession, ZenonT(30)
<1>5. KeptOwners
  BY <1>2, <1>4, ZenonT(30) DEF KeptOwners
<1>6. \/ /\ m_indexerQueue' = m_indexerQueue
         /\ m_agentSessions'[sid].endEnqueued = s.endEnqueued
      \/ /\ m_indexerQueue' = Append(m_indexerQueue, sid)
         /\ ~ s.endEnqueued /\ m_agentSessions'[sid].endEnqueued
         /\ s.seen = 1..Size(sid)
  <2>1. CASE complete
    BY <1>1, <1>2, <1>4, <2>1, ZenonT(30) DEF complete
  <2>2. CASE ~ complete
    BY <1>1, <1>2, <1>4, <2>2, ZenonT(30)
  <2> QED
    BY <2>1, <2>2, ZenonT(30)
<1> QED
  BY <1>2, <1>4, <1>5, <1>6, ZenonT(30)

\* handleData stores the message, marks its number and may complete the session.
LEMMA HandleDataSession ==
  ASSUME SessionTypes, NEW sid \in Sids, NEW seq \in 1..Size(sid), HandleData(sid, seq)
  PROVE  /\ IsSession(sid)
         /\ SessionTypes' /\ Kept /\ KeptOwners /\ Live' = Live
         /\ m_agentSessions'[sid].seen = m_agentSessions[sid].seen \cup {seq}
         /\ m_agentSessions'[sid].clean <=>
              m_agentSessions[sid].clean \/ m_agentSessions[sid].items[seq] = "clean"
         /\ \/ /\ m_indexerQueue' = m_indexerQueue
               /\ m_agentSessions'[sid].endEnqueued = m_agentSessions[sid].endEnqueued
            \/ /\ m_indexerQueue' = Append(m_indexerQueue, sid)
               /\ ~ m_agentSessions[sid].endEnqueued /\ m_agentSessions'[sid].endEnqueued
               /\ m_agentSessions'[sid].seen = 1..Size(sid)
         /\ \A other \in Sids \ {sid} : m_agentSessions'[other] = m_agentSessions[other]
<1> DEFINE old == m_agentSessions[sid]
           s == [old EXCEPT !.seen = @ \cup {seq}, !.clean = @ \/ old.items[seq] = "clean"]
<1>1. IsSession(sid) /\ Enqueue(sid, s)
  BY SessionFacts, Zenon DEF HandleData
<1>2. /\ s \in Session
      /\ s.seen = old.seen \cup {seq} /\ s.state = old.state /\ s.agent = old.agent
      /\ s.mode = old.mode /\ s.items = old.items /\ s.ownsAgentLock = old.ownsAgentLock
      /\ s.endEnqueued = old.endEnqueued
  <2>1. old \in Session /\ seq \in Nat
    BY <1>1 DEF IsSession
  <2>2. old.seen \cup {seq} \in SUBSET Nat /\ (old.clean \/ old.items[seq] = "clean") \in BOOLEAN
    BY <2>1, ZenonT(30) DEF Session
  <2> QED
    BY <2>1, <2>2, ZenonT(30) DEF Session
<1>3. s.clean <=> old.clean \/ old.items[seq] = "clean"
  BY <1>1, ZenonT(30) DEF IsSession, Session
<1>4. s.seen \subseteq 1..Size(sid)
  BY <1>1, <1>2, ZenonT(30) DEF SessionTypes
<1> HIDE DEF s
<1> QED
  BY <1>1, <1>2, <1>3, <1>4, EnqueuedSession

\* handleEnd marks the end and may complete the session.
LEMMA HandleEndSession ==
  ASSUME SessionTypes, NEW sid \in Sids, HandleEnd(sid)
  PROVE  /\ IsSession(sid)
         /\ SessionTypes' /\ Kept /\ KeptOwners /\ Live' = Live
         /\ m_agentSessions'[sid].seen = m_agentSessions[sid].seen
         /\ m_agentSessions'[sid].clean = m_agentSessions[sid].clean
         /\ \/ /\ m_indexerQueue' = m_indexerQueue
               /\ m_agentSessions'[sid].endEnqueued = m_agentSessions[sid].endEnqueued
            \/ /\ m_indexerQueue' = Append(m_indexerQueue, sid)
               /\ ~ m_agentSessions[sid].endEnqueued /\ m_agentSessions'[sid].endEnqueued
               /\ m_agentSessions'[sid].seen = 1..Size(sid)
         /\ \A other \in Sids \ {sid} : m_agentSessions'[other] = m_agentSessions[other]
<1> DEFINE old == m_agentSessions[sid]
           s == [old EXCEPT !.endReceived = TRUE]
<1>1. IsSession(sid) /\ Enqueue(sid, s)
  BY SessionFacts, Zenon DEF HandleEnd
<1>2. /\ s \in Session
      /\ s.seen = old.seen /\ s.state = old.state /\ s.agent = old.agent
      /\ s.mode = old.mode /\ s.items = old.items /\ s.ownsAgentLock = old.ownsAgentLock
      /\ s.endEnqueued = old.endEnqueued /\ s.clean = old.clean
  BY <1>1, Zenon DEF IsSession, Session
<1>3. s.seen \subseteq 1..Size(sid)
  BY <1>1, <1>2, ZenonT(30) DEF SessionTypes
<1> HIDE DEF s
<1> QED
  BY <1>1, <1>2, <1>3, EnqueuedSession

\* handleChecksumModule keeps the checksum.
LEMMA ChecksumSession ==
  ASSUME SessionTypes, NEW sid \in Sids, HandleChecksumModule(sid)
  PROVE  SessionTypes' /\ Kept /\ KeptOwners /\ KeptMessages /\ Live' = Live
<1> DEFINE old == m_agentSessions[sid]
           r == [old EXCEPT !.checksum = TRUE]
<1>1. IsSession(sid) /\ m_agentSessions' = [m_agentSessions EXCEPT ![sid] = r]
  BY SessionFacts, ZenonT(30) DEF HandleChecksumModule
<1>2. /\ r \in Session
      /\ r.seen = old.seen /\ r.state = old.state /\ r.agent = old.agent
      /\ r.mode = old.mode /\ r.items = old.items /\ r.ownsAgentLock = old.ownsAgentLock
      /\ r.endEnqueued = old.endEnqueued /\ r.clean = old.clean
  BY <1>1, Zenon DEF IsSession, Session
<1>3. r.seen \subseteq 1..Size(sid) /\ (old.endEnqueued => r.endEnqueued)
  BY <1>1, <1>2, ZenonT(30) DEF SessionTypes
<1> HIDE DEF r
<1>4. /\ SessionTypes' /\ Kept /\ Live' = Live /\ m_agentSessions'[sid] = r
      /\ \A other \in Sids \ {sid} : m_agentSessions'[other] = m_agentSessions[other]
  BY <1>1, <1>2, <1>3, UpdatedSession, ZenonT(30)
<1> QED
  BY <1>2, <1>4, ZenonT(30) DEF KeptOwners, KeptMessages

\* A session is given its agent's lock, or gives it back.
LEMMA LockedSession ==
  ASSUME SessionTypes, NEW sid \in Sids, IsSession(sid), NEW owns \in BOOLEAN,
         m_agentSessions' = [m_agentSessions EXCEPT ![sid].ownsAgentLock = owns]
  PROVE  /\ SessionTypes' /\ Kept /\ KeptMessages /\ Live' = Live
         /\ m_agentSessions'[sid].ownsAgentLock = owns
         /\ \A other \in Sids \ {sid} : m_agentSessions'[other] = m_agentSessions[other]
<1> DEFINE old == m_agentSessions[sid]
           r == [old EXCEPT !.ownsAgentLock = owns]
<1>1. m_agentSessions' = [m_agentSessions EXCEPT ![sid] = r]
  BY ZenonT(30)
<1>2. /\ r \in Session
      /\ r.seen = old.seen /\ r.state = old.state /\ r.agent = old.agent
      /\ r.mode = old.mode /\ r.items = old.items /\ r.ownsAgentLock = owns
      /\ r.endEnqueued = old.endEnqueued /\ r.clean = old.clean
  BY <1>1, ZenonT(30) DEF IsSession, Session
<1>3. r.seen \subseteq 1..Size(sid) /\ (old.endEnqueued => r.endEnqueued)
  BY <1>1, <1>2, ZenonT(30) DEF SessionTypes
<1> HIDE DEF r
<1>4. /\ SessionTypes' /\ Kept /\ Live' = Live /\ m_agentSessions'[sid] = r
      /\ \A other \in Sids \ {sid} : m_agentSessions'[other] = m_agentSessions[other]
  BY <1>1, <1>2, <1>3, UpdatedSession, ZenonT(30)
<1> QED
  BY <1>2, <1>4, ZenonT(30) DEF KeptMessages

\* A Start message is admitted: the stale session is removed and a free id
\* gets a new one.
LEMMA StartedSession ==
  ASSUME SessionTypes, NEW st, st.agent \in Agents, st.module \in Modules,
         st.shape.mode \in Modes, st.shape.items \in Seq(Kinds), st.shape.vd \in BOOLEAN,
         NEW S, NEW sid \in Sids, m_agentSessions[sid].state = "free",
         m_agentSessions' = [Marked(S, "cleaned") EXCEPT ![sid] = NewSession(st)]
  PROVE  /\ SessionTypes' /\ Kept /\ KeptOwners /\ KeptMessages
         /\ m_agentSessions'[sid] = NewSession(st)
         /\ \A other \in Sids \ {sid} : m_agentSessions'[other] = Marked(S, "cleaned")[other]
         /\ Live' = (Live \ S) \cup {sid} /\ sid \notin Live
         /\ \A other \in Sids : IsSession(other) => m_agentSessions'[other].state =
              IF other \in S \cap Live THEN "cleaned" ELSE m_agentSessions[other].state
<1>1. /\ m_agentSessions' = [other \in Sids |-> m_agentSessions'[other]]
      /\ m_agentSessions'[sid] = NewSession(st)
      /\ \A other \in Sids \ {sid} : m_agentSessions'[other] = Marked(S, "cleaned")[other]
  BY ZenonT(30) DEF Marked
<1>2. Fresh(NewSession(st))
  BY Zenon DEF NewSession, Session, Fresh
<1>3. \A other \in Sids :
        LET s == m_agentSessions[other]
            r == Marked(S, "cleaned")[other]
        IN  /\ s \notin Session => r = s
            /\ s \in Session =>
                 /\ r \in Session
                 /\ r.agent = s.agent /\ r.mode = s.mode /\ r.items = s.items
                 /\ r.endEnqueued = s.endEnqueued /\ r.ownsAgentLock = s.ownsAgentLock
                 /\ r.seen = s.seen /\ r.clean = s.clean
            /\ r.state = IF other \in S \cap Live THEN "cleaned" ELSE s.state
  <2> TAKE other \in Sids
  <2>1. CASE other \in S \cap Live
    <3>1. IsSession(other) /\ Marked(S, "cleaned")[other] = [m_agentSessions[other] EXCEPT !.state = "cleaned"]
      BY <2>1, SessionFacts, ZenonT(30) DEF Marked
    <3> QED
      BY <2>1, <3>1, ZenonT(30) DEF IsSession, Session
  <2>2. CASE other \notin S \cap Live
    BY <2>2, ZenonT(30) DEF Marked
  <2> QED
    BY <2>1, <2>2, ZenonT(30)
<1>4. ~ IsSession(sid) /\ sid \notin Live
  BY SessionFacts, ZenonT(30) DEF Live
<1>5. SessionTypes'
  <2>1. \A other \in Sids : m_agentSessions'[other] \in Session \cup {Free}
    BY <1>1, <1>2, <1>3, ZenonT(30) DEF SessionTypes, Fresh
  <2>2. ASSUME NEW other \in Sids, IsSession(other)'
        PROVE  m_agentSessions'[other].seen \subseteq 1..Len(m_agentSessions'[other].items)
    <3>1. CASE other = sid
      BY <1>1, <1>2, <3>1, ZenonT(30) DEF Fresh
    <3>2. CASE other # sid
      BY <1>1, <1>3, <2>2, <3>2, ZenonT(30) DEF SessionTypes, IsSession, Size
    <3> QED
      BY <3>1, <3>2, Zenon
  <2> QED
    BY <1>1, <2>1, <2>2, ZenonT(30) DEF SessionTypes, Size
<1>6. Live' = (Live \ S) \cup {sid}
  BY <1>1, <1>2, <1>3, <1>4, SMTT(30) DEF Live, Fresh
<1>7. \A other \in Sids : IsSession(other) =>
        m_agentSessions'[other] = Marked(S, "cleaned")[other] /\ m_agentSessions[other] \in Session
  BY <1>1, <1>4, Zenon DEF IsSession
<1>8. Kept
  <2>1. \A other \in Sids : ~ IsSession(other) =>
          m_agentSessions'[other] = m_agentSessions[other] \/ Fresh(m_agentSessions'[other])
    BY <1>1, <1>2, <1>3, ZenonT(30) DEF IsSession
  <2>2. \A other \in Sids \ Live : other \notin S \cap Live
    BY Zenon
  <2> QED
    BY <1>3, <1>7, <2>1, <2>2, SMTT(30) DEF Kept, Live
<1>9. KeptOwners /\ KeptMessages
  BY <1>3, <1>7, SMTT(30) DEF KeptOwners, KeptMessages
<1> QED
  BY <1>1, <1>3, <1>4, <1>5, <1>6, <1>7, <1>8, <1>9, ZenonT(30)

\* The sessions the indexer thread and the callbacks are at.
LEMMA Places ==
  ASSUME Types, Pipeline
  PROVE  /\ indexer.pc \in Handling =>
              indexer.sid \in Sids /\ IsSession(indexer.sid) /\ indexer.sid \in Enqueued
         /\ \A t \in Threads : callbacks[t].list # <<>> =>
              LET sid == Head(callbacks[t].list)
              IN  sid \in Taken(t) /\ sid \in Sids /\ IsSession(sid) /\ sid \in Enqueued
<1>1. indexer.pc \in Handling => indexer.sid \in Enqueued
  BY Zenon DEF Pipeline, Working
<1>2. ASSUME NEW t \in Threads, callbacks[t].list # <<>>
      PROVE  Head(callbacks[t].list) \in Taken(t) /\ Head(callbacks[t].list) \in Enqueued
  <2>1. callbacks[t].list \in Seq(Sids)
    BY Zenon DEF Types
  <2>2. Head(callbacks[t].list) \in Taken(t)
    BY <1>2, <2>1, ElemsTail, ZenonT(30) DEF Taken
  <2> QED
    BY <2>2, Zenon DEF Pipeline
<1> QED
  BY <1>1, <1>2, Zenon DEF Enqueued

\* The agent is locked for the session the indexer thread is at.
LEMMA LockAgentSession ==
  ASSUME Types, Pipeline, LockAgent
  PROVE  /\ SessionTypes' /\ Kept /\ KeptMessages /\ Live' = Live
         /\ m_agentSessions'[indexer.sid].ownsAgentLock
         /\ \A other \in Sids \ {indexer.sid} : m_agentSessions'[other] = m_agentSessions[other]
         /\ indexer.sid \in Sids /\ IsSession(indexer.sid)
<1>1. /\ indexer.sid \in Sids /\ IsSession(indexer.sid)
      /\ m_agentSessions' = [m_agentSessions EXCEPT ![indexer.sid].ownsAgentLock = TRUE]
  BY Places, ZenonT(30) DEF LockAgent, At, Handling
<1> QED
  BY <1>1, LockedSession, Zenon DEF Types

\* A callback gives back the lock of a metadata or group session.
LEMMA CallbackSession ==
  ASSUME Types, Pipeline, NEW t \in Threads, CallbackAnswers(t)
  PROVE  LET sid == Head(callbacks[t].list)
         IN  /\ SessionTypes' /\ Kept /\ KeptMessages /\ Live' = Live
             /\ sid \in Sids /\ IsSession(sid) /\ sid \in Taken(t) /\ sid \in Enqueued
             /\ m_agentSessions'[sid].ownsAgentLock <=>
                  m_agentSessions[sid].ownsAgentLock /\ m_agentSessions[sid].mode # "META"
             /\ \A other \in Sids \ {sid} : m_agentSessions'[other] = m_agentSessions[other]
<1> DEFINE sid == Head(callbacks[t].list)
           owns == m_agentSessions[sid].ownsAgentLock /\ ~ (m_agentSessions[sid].mode = "META")
<1>1. sid \in Sids /\ IsSession(sid) /\ sid \in Taken(t) /\ sid \in Enqueued
  BY Places, Zenon DEF CallbackAnswers
<1>2. m_agentSessions' = [m_agentSessions EXCEPT ![sid].ownsAgentLock = owns]
  BY Zenon DEF CallbackAnswers
<1>3. owns \in BOOLEAN
  BY ZenonT(30)
<1> HIDE DEF sid, owns
<1>4. /\ SessionTypes' /\ Kept /\ KeptMessages /\ Live' = Live
      /\ m_agentSessions'[sid].ownsAgentLock = owns
      /\ \A other \in Sids \ {sid} : m_agentSessions'[other] = m_agentSessions[other]
  BY <1>1, <1>2, <1>3, LockedSession, ZenonT(30) DEF Types
<1> QED
  BY <1>1, <1>4, ZenonT(30) DEF sid, owns

\* Sessions erased by Erase.
LEMMA ErasedSessions ==
  ASSUME SessionTypes, NEW S, NEW st \in {"cleaned", "gone"}, Erase(S, st)
  PROVE  /\ SessionTypes' /\ Kept /\ KeptOwners /\ KeptMessages
         /\ Live' = Live \ S
         /\ \A sid \in Sids : m_agentSessions'[sid].state =
              IF sid \in S \cap Live THEN st ELSE m_agentSessions[sid].state
  BY MarkedSessions, ZenonT(30) DEF Erase

\* What is said of a session depends on what steps keep.
LEMMA KeptFacts ==
  ASSUME SessionTypes, Kept
  PROVE  /\ \A sid \in Sids : IsSession(sid) => IsSession(sid)'
         /\ \A sid \in Sids : IsSession(sid)' => IsSession(sid) \/ Fresh(m_agentSessions'[sid])
         /\ Enqueued \subseteq Enqueued'
         /\ \A sid \in Sids : IsSession(sid) =>
              /\ Size(sid)' = Size(sid)
              /\ Values(sid)' = Values(sid)
              /\ HasClean(sid)' <=> HasClean(sid)
              /\ Work(sid)' = Work(sid)
              /\ IsData(sid)' => IsData(sid)
<1>1. /\ \A sid \in Sids : IsSession(sid) => IsSession(sid)'
      /\ \A sid \in Sids : IsSession(sid)' => IsSession(sid) \/ Fresh(m_agentSessions'[sid])
  BY ZenonT(30) DEF Kept, IsSession
<1>2. Enqueued \subseteq Enqueued'
  BY <1>1, ZenonT(30) DEF Enqueued, Kept
<1>3. ASSUME NEW sid \in Sids, IsSession(sid)
      PROVE  /\ Size(sid)' = Size(sid) /\ Values(sid)' = Values(sid)
             /\ (HasClean(sid)' <=> HasClean(sid)) /\ Work(sid)' = Work(sid)
             /\ IsData(sid)' => IsData(sid)
  <2>1. /\ m_agentSessions'[sid].items = m_agentSessions[sid].items
        /\ m_agentSessions'[sid].mode = m_agentSessions[sid].mode
    BY <1>3, ZenonT(30) DEF Kept
  <2>2. Size(sid)' = Size(sid)
    BY <2>1, ZenonT(30) DEF Size
  <2>3. IsData(sid)' => IsData(sid)
    BY <1>3, ZenonT(30) DEF IsData, Kept
  <2> QED
    BY <2>1, <2>2, <2>3, ZenonT(30) DEF Values, HasClean, Work
<1> QED
  BY <1>1, <1>2, <1>3, ZenonT(30)

\* The pipeline stays as it is when no session changes its place.
LEMMA PipelineFrame ==
  ASSUME Pipeline, Enqueued \subseteq Enqueued', Working' \subseteq Working,
         UNCHANGED <<m_indexerQueue, m_notify, callbacks>>
  PROVE  Pipeline'
<1>1. Queued' = Queued /\ Registered' = Registered /\ \A t \in Threads : Taken(t)' = Taken(t)
  BY Zenon DEF Queued, Registered, Taken
<1>2. \A t \in Threads : callbacks'[t] = callbacks[t]
  BY Zenon
<1> QED
  BY <1>1, <1>2, ZenonT(30) DEF Pipeline, Threads

\* Answers stay right when none is given and only incomplete sessions are
\* added to those to be answered.
LEMMA AnswersFrame ==
  ASSUME Answers, Enqueued \subseteq Enqueued', UNCHANGED <<env, acks>>,
         Open' \cap Enqueued \subseteq Open
  PROVE  Answers'
  BY Zenon DEF Answers

-----------------------------------------------------------------------------
(* The quota *)

\* The numbers that finitely many sessions declare can be counted.
LEMMA NumbersFinite ==
  ASSUME NEW S, IsFiniteSet(S), \A sid \in S : Size(sid) \in Nat
  PROVE  IsFiniteSet(Numbers(S)) /\ Declared(S) \in Nat
<1> DEFINE f == [sid \in S |-> {sid} \X (1..Size(sid))]
           T == {{sid} \X (1..Size(sid)) : sid \in S}
<1>1. f \in Surjection(S, T)
  BY ZenonT(30) DEF Surjection
<1>2. IsFiniteSet(T)
  BY <1>1, FS_Surjection, ZenonT(30)
<1>3. ASSUME NEW X \in T PROVE IsFiniteSet(X)
  <2>1. PICK sid \in S : X = {sid} \X (1..Size(sid))
    BY <1>3, ZenonT(30)
  <2>2. 1 \in Int /\ Size(sid) \in Int
    OBVIOUS
  <2>3. IsFiniteSet({sid}) /\ IsFiniteSet(1..Size(sid))
    BY <2>2, FS_Singleton, FS_Interval, ZenonT(20)
  <2>4. IsFiniteSet({sid} \X (1..Size(sid)))
    BY <2>3, FS_Product, Zenon
  <2> QED
    BY <2>1, <2>4, ZenonT(30)
<1>4. IsFiniteSet(UNION T)
  BY <1>2, <1>3, FS_UNION, Zenon
<1> QED
  BY <1>4, FS_CardinalityType, ZenonT(30) DEF Numbers, Declared

\* What disjoint sets of sessions declare adds up.
LEMMA DeclaredSplit ==
  ASSUME NEW L, IsFiniteSet(L), \A sid \in L : Size(sid) \in Nat, NEW S
  PROVE  /\ Declared(S \cap L) \in Nat /\ Declared(L \ S) \in Nat
         /\ Declared(L) = Declared(S \cap L) + Declared(L \ S)
<1>1. IsFiniteSet(S \cap L) /\ IsFiniteSet(L \ S)
  BY FS_Subset, Zenon
<1>2. /\ IsFiniteSet(Numbers(S \cap L)) /\ Declared(S \cap L) \in Nat
      /\ IsFiniteSet(Numbers(L \ S)) /\ Declared(L \ S) \in Nat
  BY <1>1, NumbersFinite, Zenon
<1>3. Numbers(L) = Numbers(S \cap L) \cup Numbers(L \ S)
  BY ZenonT(30) DEF Numbers
<1>4. Numbers(S \cap L) \cap Numbers(L \ S) = {}
  BY DEF Numbers
<1>5. Cardinality(Numbers(L)) = Cardinality(Numbers(S \cap L)) + Cardinality(Numbers(L \ S))
                                  - Cardinality({})
  BY <1>2, <1>3, <1>4, FS_Union, ZenonT(30)
<1> QED
  BY <1>2, <1>5, FS_EmptySet DEF Declared

\* Removing sessions gives their quota back once.
LEMMA ReservedRemoved ==
  ASSUME SessionTypes, Reserved, Kept, NEW S, Live' = Live \ S,
         m_dataValueQuotaRemaining' = m_dataValueQuotaRemaining + Declared(S \cap Live)
  PROVE  Reserved'
<1>1. \A sid \in Live : Size(sid) \in Nat /\ Size(sid)' = Size(sid)
  BY SessionFacts, KeptFacts, ZenonT(30) DEF Live
<1>2. /\ Declared(S \cap Live) \in Nat /\ Declared(Live \ S) \in Nat
      /\ Declared(Live) = Declared(S \cap Live) + Declared(Live \ S)
  BY <1>1, DeclaredSplit, ZenonT(30) DEF Reserved
<1>3. Declared(Live)' = Declared(Live \ S)
  BY <1>1, ZenonT(30) DEF Declared, Numbers
<1>4. IsFiniteSet(Live') /\ Cardinality(Live') <= Cardinality(Live)
      /\ Cardinality(Live') \in Nat /\ Cardinality(Live) \in Nat
  BY FS_Subset, FS_CardinalityType, ZenonT(30) DEF Reserved
<1>5. Cardinality(Live') <= m_maxSessions
  BY <1>4, InventorySyncAssumption DEF Reserved
<1> QED
  BY <1>2, <1>3, <1>4, <1>5, InventorySyncAssumption DEF Reserved

\* A step that removes no session.
LEMMA ReservedFrame ==
  ASSUME SessionTypes, Reserved, Kept, Live' = Live, UNCHANGED m_dataValueQuotaRemaining
  PROVE  Reserved'
<1>1. \A sid \in Live : Size(sid)' = Size(sid)
  BY SessionFacts, KeptFacts, ZenonT(30) DEF Live
<1>2. Declared(Live)' = Declared(Live)
  BY <1>1, ZenonT(30) DEF Declared, Numbers
<1> QED
  BY <1>2, ZenonT(30) DEF Reserved

\* A session is admitted only when its quota and its place are there.
LEMMA ReservedStarted ==
  ASSUME SessionTypes, Reserved, NEW st, st.agent \in Agents, st.module \in Modules,
         st.shape.mode \in Modes, st.shape.items \in Seq(Kinds), st.shape.vd \in BOOLEAN,
         Room(st), NEW sid \in Sids, m_agentSessions[sid].state = "free",
         m_agentSessions' = [Marked(Stale(st), "cleaned") EXCEPT ![sid] = NewSession(st)],
         m_dataValueQuotaRemaining' =
           m_dataValueQuotaRemaining + Declared(Stale(st)) - Len(st.shape.items)
  PROVE  Reserved'
<1> DEFINE S == Stale(st)
           n == Len(st.shape.items)
           new == {sid} \X (1..n)
<1>1. /\ m_agentSessions'[sid] = NewSession(st)
      /\ \A other \in Sids \ {sid} : m_agentSessions'[other] = Marked(S, "cleaned")[other]
      /\ Live' = (Live \ S) \cup {sid} /\ sid \notin Live
  BY StartedSession
<1>2. S \subseteq Live /\ S \cap Live = S /\ Live \subseteq Sids /\ n \in Nat
  BY DEF Stale, Live
<1>3. \A other \in Live : Size(other) \in Nat
  BY <1>2, SessionFacts, Zenon
<1>4. /\ Declared(S) \in Nat /\ Declared(Live \ S) \in Nat
      /\ Declared(Live) = Declared(S) + Declared(Live \ S)
  BY <1>2, <1>3, DeclaredSplit, Zenon DEF Reserved
<1>5. IsFiniteSet(Live \ S) /\ IsFiniteSet(Numbers(Live \ S))
  <2>1. IsFiniteSet(Live \ S)
    BY FS_Subset, ZenonT(30) DEF Reserved
  <2> QED
    BY <2>1, <1>3, NumbersFinite, ZenonT(30)
<1>6. Size(sid)' = n
  BY <1>1 DEF Size, NewSession
<1>7. \A other \in Live \ S : Size(other)' = Size(other)
  BY <1>1, <1>2, Zenon DEF Size, Marked
<1>8. Numbers(Live)' = Numbers(Live \ S) \cup new
  <2>1. Numbers(Live)' = UNION {{x} \X (1..Size(x)') : x \in Live'}
    BY Zenon DEF Numbers
  <2> QED
    BY <1>1, <1>6, <1>7, <2>1, SMTT(30) DEF Numbers
<1>9. Numbers(Live \ S) \cap new = {}
  BY <1>1 DEF Numbers
<1>10. IsFiniteSet(new) /\ Cardinality(new) = n
  <2>1. 1 \in Int /\ n \in Int
    BY <1>2
  <2>2. IsFiniteSet({sid}) /\ Cardinality({sid}) = 1
    BY FS_Singleton, Zenon
  <2>3. IsFiniteSet(1..n) /\ Cardinality(1..n) = IF 1 > n THEN 0 ELSE n - 1 + 1
    BY <2>1, FS_Interval, ZenonT(20)
  <2>4. Cardinality(1..n) = n
    BY <1>2, <2>3
  <2>5. IsFiniteSet(new) /\ Cardinality(new) = Cardinality({sid}) * Cardinality(1..n)
    BY <2>2, <2>3, FS_Product, ZenonT(30)
  <2> HIDE DEF n, new
  <2> QED
    BY <1>2, <2>2, <2>4, <2>5
<1>11. Declared(Live)' = Declared(Live \ S) + n
  <2> DEFINE old == Numbers(Live \ S)
  <2>1. Declared(Live)' = Cardinality(old \cup new)
    BY <1>8, ZenonT(30) DEF Declared
  <2>2. Declared(Live \ S) = Cardinality(old)
    BY ZenonT(30) DEF Declared
  <2> HIDE DEF new, old
  <2>3. old \cap new = {} /\ IsFiniteSet(old)
    BY <1>5, <1>9, Zenon DEF old
  <2>4. Cardinality(old \cup new) = Cardinality(old) + Cardinality(new) - Cardinality(old \cap new)
    BY <1>10, <2>3, FS_Union, ZenonT(30)
  <2>5. Cardinality(old \cap new) = 0
    BY <2>3, FS_EmptySet, ZenonT(30)
  <2> HIDE DEF n, S
  <2> QED
    BY <1>2, <1>4, <1>10, <2>1, <2>2, <2>4, <2>5, SMTT(30)
<1>12. IsFiniteSet(Live') /\ Cardinality(Live') <= m_maxSessions
  <2>1. Cardinality(Live \ S) \in Nat /\ Cardinality(Live \ S) < m_maxSessions
    BY <1>5, FS_CardinalityType, ZenonT(30) DEF Room
  <2>2. IsFiniteSet(Live') /\ Cardinality(Live') = Cardinality(Live \ S) + 1
    BY <1>1, <1>5, FS_AddElement, Zenon
  <2> QED
    BY <2>1, <2>2, InventorySyncAssumption
<1>13. m_dataValueQuotaRemaining + Declared(S) >= n
  BY ZenonT(30) DEF Room
<1>14. m_dataValueQuotaRemaining' = m_dataValueQuotaRemaining + Declared(S) - n
  BY ZenonT(30)
<1> HIDE DEF S, n
<1>15. /\ m_dataValueQuotaRemaining' \in Nat
       /\ m_dataValueQuotaRemaining' + Declared(Live)' = Quota
  BY <1>2, <1>4, <1>11, <1>13, <1>14, SMTT(30) DEF Reserved
<1> QED
  BY <1>12, <1>15, ZenonT(30) DEF Reserved

-----------------------------------------------------------------------------
(* Messages of the agents, the threads of the indexer connector *)

\* The locks stay held while no session that has one is forgotten.
LEMMA LocksKept ==
  ASSUME Types, Pipeline, Locks, Kept, KeptOwners, m_blockedAgents' \subseteq m_blockedAgents,
         \A sid \in Releasing : Owns(sid) => sid \in Releasing',
         \A sid \in Registered' : sid \in Enqueued /\
           (m_agentSessions[sid].mode = "META" => indexer'.pc = "invoke" /\ m_shouldNotifyAfterBulk'),
         Answered' \subseteq Answered,
         indexer'.pc \in {"flush", "wait", "update"} =>
           indexer'.sid = indexer.sid /\ indexer.pc \in Handling /\ Current.mode = "META",
         indexer'.pc = "bulk" =>
           indexer'.sid = indexer.sid /\ indexer.pc \in Handling /\ Current.mode \in {"DELTA", "FULL"}
  PROVE  Locks'
<1>1. \A sid \in Sids : Owns(sid)' <=> Owns(sid)
  BY KeptFacts, ZenonT(30) DEF Owns, KeptOwners, Types, Fresh
<1>2. \A sid \in Sids : IsSession(sid) =>
        /\ m_agentSessions'[sid].mode = m_agentSessions[sid].mode
        /\ m_agentSessions'[sid].agent = m_agentSessions[sid].agent
  BY ZenonT(30) DEF Kept
<1>3. Releasing \subseteq Enqueued /\ Enqueued \subseteq Sids
  BY Places, ZenonT(30) DEF Pipeline, Releasing, Threads, Handling, Enqueued
<1>4. \A sid \in Enqueued : IsSession(sid)
  BY ZenonT(30) DEF Enqueued
<1>5. ASSUME NEW agent \in m_blockedAgents'
      PROVE  \E sid \in Releasing' : Owns(sid)' /\ m_agentSessions'[sid].agent = agent
  <2>1. PICK sid \in Releasing : Owns(sid) /\ m_agentSessions[sid].agent = agent
    BY <1>5, ZenonT(30) DEF Locks
  <2> QED
    BY <1>1, <1>2, <1>3, <1>4, <2>1, ZenonT(30)
<1>6. \A sid \in Sids : Owns(sid)' => m_agentSessions'[sid].mode = "META"
  BY <1>1, <1>2, SMTT(30) DEF Locks, Owns
<1>7. \A sid \in Registered' : m_agentSessions'[sid].mode = "META" =>
        indexer'.pc = "invoke" /\ m_shouldNotifyAfterBulk'
  BY <1>2, <1>3, <1>4, Zenon
<1>8. \A sid \in Answered' : ~ Owns(sid)'
  BY <1>1, ZenonT(30) DEF Locks, Answered
<1>9. indexer.pc \in Handling /\ indexer'.sid = indexer.sid => Current'.mode = Current.mode
  BY <1>2, Places, SMTT(30) DEF Current
<1> QED
  BY <1>5, <1>6, <1>7, <1>8, <1>9, ZenonT(30) DEF Locks

\* The same when nothing in the pipeline changes.
LEMMA LocksFrame ==
  ASSUME Types, Pipeline, Locks, Kept, KeptOwners, m_blockedAgents' \subseteq m_blockedAgents,
         UNCHANGED <<m_notify, callbacks, indexer, m_shouldNotifyAfterBulk>>
  PROVE  Locks'
<1>1. Registered' = Registered /\ Releasing' = Releasing /\ Answered' = Answered
  BY ZenonT(30) DEF Registered, Taken, Releasing, Answered
<1>2. \A sid \in Registered' : sid \in Enqueued /\
        (m_agentSessions[sid].mode = "META" => indexer'.pc = "invoke" /\ m_shouldNotifyAfterBulk')
  BY <1>1, ZenonT(30) DEF Locks, Pipeline
<1> QED
  BY <1>1, <1>2, LocksKept, Zenon DEF Locks, Handling

\* Every answer is given to a session that had none yet.
LEMMA AnswersGiven ==
  ASSUME Types, Answers, Enqueued \subseteq Enqueued', UNCHANGED env,
         NEW sid \in Enqueued, sid \in Open, sid \notin Open', Open' \subseteq Open,
         NEW status \in Statuses, acks' = Acked(sid, status)
  PROVE  Answers'
<1>1. acks' = [acks EXCEPT ![sid] = Append(acks[sid], status)] /\ sid \in Sids
  BY ZenonT(30) DEF Acked, Enqueued
<1>2. \A other \in Sids : acks'[other] = IF other = sid THEN Append(acks[sid], status) ELSE acks[other]
  BY <1>1, ZenonT(30) DEF Types
<1>3. acks[sid] = <<>> => Len(Append(acks[sid], status)) <= 1
  OBVIOUS
<1> QED
  BY <1>2, <1>3, ZenonT(30) DEF Answers

\* The messages of the sessions still to be handled stay, when only removed
\* sessions lose theirs.
LEMMA ReceivedKept ==
  ASSUME Types, AllReceived, Kept, KeptMessages,
         Queued' \cup Working' \subseteq Queued \cup Working,
         \A sid \in Sids :
           IsSession(sid) /\ (sid \in Queued' \cup Working' \/ sid \notin Enqueued) =>
             /\ m_agentSessions'[sid].state \in {m_agentSessions[sid].state, "cleaned"}
             /\ m_agentSessions'[sid].state = "live" =>
                  \A q \in Nat : <<sid, q>> \in m_dataStore => <<sid, q>> \in m_dataStore'
  PROVE  AllReceived'
<1> SUFFICES ASSUME NEW sid \in Sids, IsSession(sid)',
                    (sid \in Queued' \cup Working' \/ sid \notin Enqueued')
             PROVE  Received(sid)'
  BY ZenonT(30) DEF AllReceived
<1> DEFINE s == m_agentSessions[sid]
           r == m_agentSessions'[sid]
<1>1. Enqueued \subseteq Enqueued'
  BY KeptFacts, ZenonT(30) DEF Types
<1>2. CASE ~ IsSession(sid)
  <2>1. Fresh(r)
    BY <1>2, KeptFacts, ZenonT(30) DEF Types
  <2> QED
    BY <2>1, ZenonT(30) DEF Received, Fresh
<1>3. CASE IsSession(sid)
  <2>1. Received(sid)
    BY <1>1, <1>3, ZenonT(30) DEF AllReceived
  <2>2. r.seen = s.seen /\ r.clean = s.clean /\ r.endEnqueued = s.endEnqueued /\ r.items = s.items
    BY <1>3, ZenonT(30) DEF Kept, KeptMessages
  <2>3. /\ r.state \in {s.state, "cleaned"}
        /\ r.state = "live" => \A q \in Nat : <<sid, q>> \in m_dataStore => <<sid, q>> \in m_dataStore'
    BY <1>1, <1>3, ZenonT(30)
  <2>4. s.seen \subseteq Nat
    BY <1>3, ZenonT(30) DEF IsSession, Session
  <2>5. Size(sid)' = Size(sid)
    BY <2>2, ZenonT(30) DEF Size
  <2> QED
    BY <2>1, <2>2, <2>3, <2>4, <2>5, ZenonT(30) DEF Received
<1> QED
  BY <1>2, <1>3, ZenonT(30)

\* What is true of a session's documents stays true while the session is
\* the same and the indexer forgets nothing.
LEMMA DoneKept ==
  ASSUME Types, Answers, Kept, indexed \subseteq indexed'
  PROVE  /\ \A sid \in Sids : IsSession(sid) /\ IsDone(sid) => IsDone(sid)'
         /\ (\A sid \in Sids : (\E i \in 1..Len(acks[sid]) : acks[sid][i] = "Ok") => IsDone(sid))
              => \A sid \in Sids : (\E i \in 1..Len(acks[sid]) : acks[sid][i] = "Ok") => IsDone(sid)'
<1>1. \A sid \in Sids : IsSession(sid) /\ IsDone(sid) => IsDone(sid)'
  BY KeptFacts, ZenonT(30) DEF IsDone, Types
<1>2. \A sid \in Sids : (\E i \in 1..Len(acks[sid]) : acks[sid][i] = "Ok") => IsSession(sid)
  <2>1. \A sid \in Sids : ~ IsSession(sid) => acks[sid] = <<>>
    BY ZenonT(30) DEF Answers, Enqueued
  <2> QED
    BY <2>1, SMTT(30)
<1> QED
  BY <1>1, <1>2, ZenonT(30)

\* A step that leaves the connector and the pipeline alone.
LEMMA DocumentsFrame ==
  ASSUME Types, Pipeline, Answers, Documents, Kept,
         UNCHANGED <<env, connectorVars, indexer, callbacks, acks>>,
         Reliable /\ AllReceived => AllReceived'
  PROVE  Documents'
<1> SUFFICES ASSUME Reliable PROVE Documents'
  BY ZenonT(30) DEF Documents, Reliable
<1>1. UNCHANGED <<m_bulkData, m_deleteByQuery, m_notify, m_shouldNotifyAfterBulk, indexed>>
  BY ZenonT(30) DEF connectorVars
<1>2. /\ \A sid \in Sids : IsSession(sid) =>
           /\ Values(sid)' = Values(sid) /\ (HasClean(sid)' <=> HasClean(sid))
           /\ Work(sid)' = Work(sid)
           /\ IsData(sid)' => IsData(sid)
  BY KeptFacts, ZenonT(30) DEF Types
<1>3. \A sid \in Sids : IsSession(sid) =>
        (IsDone(sid) => IsDone(sid)') /\ (Handed(sid) /\ IsData(sid)' => Handed(sid)')
  BY <1>1, <1>2, ZenonT(30) DEF IsDone, Handed
<1>4. /\ Registered' = Registered /\ \A sid \in Registered : sid \in Sids /\ IsSession(sid)
      /\ \A t \in Threads : Taken(t)' = Taken(t)
      /\ \A t \in Threads : \A sid \in Taken(t) : sid \in Sids /\ IsSession(sid)
  BY <1>1, ZenonT(30) DEF Registered, Taken, Pipeline, Enqueued
<1>5. indexer.pc = "bulk" => indexer.sid \in Sids /\ IsSession(indexer.sid)
  BY Places, ZenonT(30) DEF Handling
<1>6. Sending'
  BY <1>1, <1>2, <1>5, ZenonT(30) DEF Documents, Sending
<1>7. \A sid \in Sids : (\E i \in 1..Len(acks[sid]) : acks[sid][i] = "Ok") => IsDone(sid)'
  BY <1>1, DoneKept, ZenonT(30) DEF Documents
<1> QED
  BY <1>1, <1>2, <1>3, <1>4, <1>6, <1>7, ZenonT(30) DEF Documents

\* A step of the workers or the timeout thread that moves no session.
LEMMA QuietStep ==
  ASSUME IInv, Types', Reserved', Kept, KeptOwners, m_blockedAgents' \subseteq m_blockedAgents,
         UNCHANGED <<env, m_indexerQueue, indexer, callbacks, acks, connectorVars>>,
         Reliable /\ AllReceived => AllReceived'
  PROVE  IInv'
<1>1. UNCHANGED <<m_notify, m_shouldNotifyAfterBulk>>
  BY ZenonT(30) DEF connectorVars
<1>2. Working' = Working /\ Open' = Open
  BY <1>1, ZenonT(30) DEF Working, Open, Queued, Registered, Unanswered, Taken
<1>3. Enqueued \subseteq Enqueued'
  BY KeptFacts, ZenonT(30) DEF IInv, Types
<1>4. Pipeline'
  BY <1>1, <1>2, <1>3, PipelineFrame, ZenonT(30) DEF IInv
<1>5. Locks'
  BY <1>1, LocksFrame, ZenonT(30) DEF IInv
<1>6. Answers'
  BY <1>2, <1>3, AnswersFrame, ZenonT(30) DEF IInv
<1>7. Documents'
  BY DocumentsFrame, ZenonT(30) DEF IInv
<1> QED
  BY <1>4, <1>5, <1>6, <1>7, ZenonT(30) DEF IInv

\* Sessions and their keys are removed together, as stale, silent or zombies.
LEMMA CleanedReceived ==
  ASSUME Types, AllReceived, NEW S, Erase(S, "cleaned"), DeleteKeys(S), S \subseteq Live,
         Queued' \cup Working' \subseteq Queued \cup Working
  PROVE  AllReceived'
<1>1. /\ Kept /\ KeptMessages
      /\ \A sid \in Sids : m_agentSessions'[sid].state =
           IF sid \in S \cap Live THEN "cleaned" ELSE m_agentSessions[sid].state
  BY ErasedSessions, ZenonT(30) DEF Types
<1>2. \A sid \in Sids \ S : \A q \in Nat : <<sid, q>> \in m_dataStore => <<sid, q>> \in m_dataStore'
  BY ZenonT(30) DEF DeleteKeys, KeysOf
<1>3. \A sid \in Sids :
        /\ m_agentSessions'[sid].state \in {m_agentSessions[sid].state, "cleaned"}
        /\ m_agentSessions'[sid].state = "live" =>
             \A q \in Nat : <<sid, q>> \in m_dataStore => <<sid, q>> \in m_dataStore'
  BY <1>1, <1>2, ZenonT(30)
<1> QED
  BY <1>1, <1>3, ReceivedKept, ZenonT(30)

\* cleanupExpiredSessions
LEMMA TimeoutStep ==
  ASSUME IInv, NEW sid \in Sids, Timeout(sid), UNCHANGED env
  PROVE  IInv'
<1>1. /\ sid \in Live /\ DeleteKeys({sid}) /\ Erase({sid}, "cleaned")
      /\ m_blockedAgents' \subseteq m_blockedAgents
      /\ UNCHANGED <<starts, m_indexerQueue, m_mutex, indexer, callbacks, acks, connectorVars>>
  BY ZenonT(30) DEF Timeout
<1>2. SessionTypes' /\ Kept /\ KeptOwners /\ Live' = Live \ {sid}
  BY <1>1, ErasedSessions, ZenonT(30) DEF IInv, Types
<1>3. Reserved'
  BY <1>1, <1>2, ReservedRemoved, Zenon DEF IInv, Types, Erase
<1>4. Types'
  BY <1>1, <1>2, ZenonT(30) DEF IInv, Types, DeleteKeys, connectorVars
<1>5. Queued' \cup Working' \subseteq Queued \cup Working
  BY <1>1, ZenonT(30) DEF Queued, Working
<1>6. AllReceived => AllReceived'
  BY <1>1, <1>5, CleanedReceived, ZenonT(30) DEF IInv
<1> QED
  BY <1>1, <1>2, <1>3, <1>4, <1>6, QuietStep, ZenonT(30)

\* handleStart, first half
LEMMA StartCheckStep ==
  ASSUME IInv, NEW st \in [agent : Agents, module : Modules, shape : env.shapes],
         StartCheck(st), UNCHANGED env
  PROVE  IInv'
<1>1. /\ starts' = starts \cup {st}
      /\ UNCHANGED <<m_agentSessions, m_dataStore, m_dataValueQuotaRemaining, m_blockedAgents,
                     m_indexerQueue, m_mutex, indexer, callbacks, acks, connectorVars>>
  BY Zenon DEF StartCheck
<1>2. SessionTypes' /\ Kept /\ KeptOwners /\ KeptMessages /\ Live' = Live
  BY <1>1, SameSessions, ZenonT(30) DEF IInv, Types
<1>3. Reserved'
  BY <1>1, <1>2, ReservedFrame, ZenonT(30) DEF IInv, Types
<1>4. Types'
  BY <1>1, <1>2, ZenonT(30) DEF IInv, Types, connectorVars
<1>5. AllReceived => AllReceived'
  <2>1. Queued' = Queued /\ Working' = Working
    BY <1>1, ZenonT(30) DEF Queued, Working
  <2> QED
    BY <1>1, <1>2, <2>1, ReceivedKept, ZenonT(30) DEF IInv
<1> QED
  BY <1>1, <1>2, <1>3, <1>4, <1>5, QuietStep, ZenonT(30)

\* handleChecksumModule
LEMMA ChecksumStep ==
  ASSUME IInv, NEW sid \in Sids, HandleChecksumModule(sid), UNCHANGED env
  PROVE  IInv'
<1>1. UNCHANGED <<starts, m_dataStore, m_dataValueQuotaRemaining, m_blockedAgents,
                  m_indexerQueue, m_mutex, indexer, callbacks, acks, connectorVars>>
  BY Zenon DEF HandleChecksumModule
<1>2. SessionTypes' /\ Kept /\ KeptOwners /\ KeptMessages /\ Live' = Live
  BY <1>1, ChecksumSession, ZenonT(30) DEF IInv, Types
<1>3. Reserved'
  BY <1>1, <1>2, ReservedFrame, ZenonT(30) DEF IInv, Types
<1>4. Types'
  BY <1>1, <1>2, Zenon DEF IInv, Types, connectorVars
<1>5. AllReceived => AllReceived'
  <2>1. Queued' = Queued /\ Working' = Working
    BY <1>1, Zenon DEF Queued, Working
  <2>2. \A other \in Sids : IsSession(other) => m_agentSessions'[other].state = m_agentSessions[other].state
    BY SessionFacts, Zenon DEF HandleChecksumModule, IInv, Types, SessionTypes, IsSession, Session
  <2> QED
    BY <1>1, <1>2, <2>1, <2>2, ReceivedKept, ZenonT(30) DEF IInv
<1> QED
  BY <1>1, <1>2, <1>3, <1>4, <1>5, QuietStep, ZenonT(30)

\* handleStart, second half
LEMMA StartAdmitStep ==
  ASSUME IInv, NEW st \in [agent : Agents, module : Modules, shape : env.shapes],
         StartAdmit(st), UNCHANGED env
  PROVE  IInv'
<1> DEFINE S == Stale(st)
<1>1. /\ starts' = starts \ {st} /\ m_blockedAgents' \subseteq m_blockedAgents /\ DeleteKeys(S)
      /\ UNCHANGED <<m_indexerQueue, m_mutex, indexer, callbacks, acks, connectorVars>>
  BY Zenon DEF StartAdmit
<1>2. S \subseteq Live
  BY Zenon DEF Stale
<1>3. Queued' = Queued /\ Working' = Working
  BY <1>1, Zenon DEF Queued, Working
<1>4. /\ st.agent \in Agents /\ st.module \in Modules
      /\ st.shape.mode \in Modes /\ st.shape.items \in Seq(Kinds) /\ st.shape.vd \in BOOLEAN
  <2>1. st.agent \in Agents /\ st.module \in Modules /\ st.shape \in env.shapes
    BY Zenon
  <2> QED
    BY <2>1, InventorySyncAssumption, Zenon DEF IInv, Types
<1>5. ASSUME SessionTypes', Kept PROVE Types'
  BY <1>1, <1>5, Zenon DEF IInv, Types, DeleteKeys, connectorVars
<1>6. CASE Erase(S, "cleaned")
  <2>1. SessionTypes' /\ Kept /\ KeptOwners /\ Live' = Live \ S
    BY <1>6, ErasedSessions, ZenonT(30) DEF IInv, Types
  <2>2. Reserved'
    BY <1>6, <2>1, ReservedRemoved, ZenonT(30) DEF IInv, Types, Erase
  <2>3. AllReceived => AllReceived'
    BY <1>1, <1>2, <1>3, <1>6, CleanedReceived, ZenonT(30) DEF IInv
  <2> QED
    BY <1>1, <1>5, <2>1, <2>2, <2>3, QuietStep, ZenonT(30)
<1>7. ASSUME Room(st), NEW sid \in Sids, m_agentSessions[sid].state = "free",
             m_agentSessions' = [Marked(S, "cleaned") EXCEPT ![sid] = NewSession(st)],
             m_dataValueQuotaRemaining' =
               m_dataValueQuotaRemaining + Declared(S) - Len(st.shape.items)
      PROVE  IInv'
  <2>1. /\ SessionTypes' /\ Kept /\ KeptOwners /\ KeptMessages
        /\ \A other \in Sids : IsSession(other) => m_agentSessions'[other].state =
             IF other \in S \cap Live THEN "cleaned" ELSE m_agentSessions[other].state
    <3>1. SessionTypes
      BY Zenon DEF IInv, Types
    <3> HIDE DEF S
    <3>2. SessionTypes' /\ Kept /\ KeptOwners /\ KeptMessages
      BY <1>4, <1>7, <3>1, StartedSession, ZenonT(30)
    <3>3. \A other \in Sids : IsSession(other) => m_agentSessions'[other].state =
            IF other \in S \cap Live THEN "cleaned" ELSE m_agentSessions[other].state
      BY <1>4, <1>7, <3>1, StartedSession, SMTT(30)
    <3> QED
      BY <3>2, <3>3, ZenonT(30)
  <2>2. Reserved'
    BY <1>4, <1>7, ReservedStarted, Zenon DEF IInv, Types
  <2>3. AllReceived => AllReceived'
    <3>1. \A other \in Sids \ S : \A q \in Nat :
            <<other, q>> \in m_dataStore => <<other, q>> \in m_dataStore'
      BY <1>1, ZenonT(30) DEF DeleteKeys, KeysOf
    <3>2. \A other \in Sids : IsSession(other) =>
            /\ m_agentSessions'[other].state \in {m_agentSessions[other].state, "cleaned"}
            /\ m_agentSessions'[other].state = "live" =>
                 \A q \in Nat : <<other, q>> \in m_dataStore => <<other, q>> \in m_dataStore'
      BY <1>2, <2>1, <3>1, ZenonT(30)
    <3> QED
      BY <1>3, <2>1, <3>2, ReceivedKept, Zenon DEF IInv
  <2> QED
    BY <1>1, <1>5, <2>1, <2>2, <2>3, QuietStep, ZenonT(30)
<1> QED
  BY <1>6, <1>7, Zenon DEF StartAdmit

\* A session that is completed enters the pipeline at its beginning.
LEMMA EnqueueStep ==
  ASSUME IInv, Types', Reserved', Kept, KeptOwners, NEW sid \in Sids, IsSession(sid),
         \/ m_indexerQueue' = m_indexerQueue
         \/ /\ m_indexerQueue' = Append(m_indexerQueue, sid)
            /\ ~ m_agentSessions[sid].endEnqueued /\ m_agentSessions'[sid].endEnqueued,
         UNCHANGED <<env, m_blockedAgents, indexer, callbacks, acks, connectorVars>>,
         Reliable /\ AllReceived => AllReceived'
  PROVE  IInv'
<1>1. CASE m_indexerQueue' = m_indexerQueue
  BY <1>1, QuietStep, ZenonT(30)
<1>2. CASE m_indexerQueue' # m_indexerQueue
  <2>1. /\ m_indexerQueue' = Append(m_indexerQueue, sid)
        /\ sid \notin Enqueued /\ sid \in Enqueued' /\ Enqueued \subseteq Enqueued'
    BY <1>2, KeptFacts, ZenonT(30) DEF Enqueued, IInv, Types
  <2>2. UNCHANGED <<m_notify, m_shouldNotifyAfterBulk>>
    BY ZenonT(30) DEF connectorVars
  <2>3. Queued \subseteq Enqueued
    BY ZenonT(30) DEF IInv, Pipeline
  <2>4. Queued' = Queued \cup {sid} /\ Distinct(m_indexerQueue')
    BY <2>1, <2>3, ElemsAppend, SMTT(30) DEF Queued, IInv, Types, Pipeline
  <2>5. /\ Working' = Working /\ Registered' = Registered
        /\ \A t \in Threads : callbacks'[t] = callbacks[t] /\ Taken(t)' = Taken(t)
        /\ Unanswered("indexer")' = Unanswered("indexer") /\ Unanswered("bulk")' = Unanswered("bulk")
    BY <2>2, Zenon DEF Working, Registered, Taken, Unanswered
  <2>6. Pipeline'
    BY <2>1, <2>2, <2>4, <2>5, SMTT(30) DEF IInv, Pipeline, Threads
  <2>7. Locks'
    BY <2>2, LocksFrame, Zenon DEF IInv
  <2>8. Answers'
    <3>1. Open' = Open \cup {sid}
      BY <2>4, <2>5, ZenonT(30) DEF Open
    <3> QED
      BY <2>1, <3>1, AnswersFrame, ZenonT(30) DEF IInv
  <2>9. Documents'
    BY DocumentsFrame, Zenon DEF IInv
  <2> QED
    BY <2>6, <2>7, <2>8, <2>9, ZenonT(30) DEF IInv
<1> QED
  BY <1>1, <1>2, ZenonT(30)

\* The queue of the indexer thread, when a session may be added.
LEMMA QueueFacts ==
  ASSUME Types, NEW sid \in Sids,
         m_indexerQueue' = m_indexerQueue \/ m_indexerQueue' = Append(m_indexerQueue, sid)
  PROVE  m_indexerQueue' \in Seq(Sids) /\ Queued' \subseteq Queued \cup {sid}
<1>1. CASE m_indexerQueue' = m_indexerQueue
  BY <1>1, Zenon DEF Queued, Types
<1>2. CASE m_indexerQueue' = Append(m_indexerQueue, sid)
  <2>1. m_indexerQueue \in Seq(Sids)
    BY Zenon DEF Types
  <2> QED
    BY <1>2, <2>1, ElemsAppend, ZenonT(30) DEF Queued
<1> QED
  BY <1>1, <1>2, ZenonT(30)

\* The messages received for one session change; for the others they stay.
LEMMA EnqueueReceived ==
  ASSUME IInv, Kept, NEW sid \in Sids, IsSession(sid), UNCHANGED indexer,
         \/ m_indexerQueue' = m_indexerQueue
         \/ /\ m_indexerQueue' = Append(m_indexerQueue, sid)
            /\ ~ m_agentSessions[sid].endEnqueued,
         \A other \in Sids \ {sid} : m_agentSessions'[other] = m_agentSessions[other],
         m_dataStore \subseteq m_dataStore',
         AllReceived, Received(sid) => Received(sid)'
  PROVE  AllReceived'
<1> SUFFICES ASSUME NEW other \in Sids, IsSession(other)',
                    other \in Queued' \cup Working' \/ other \notin Enqueued'
             PROVE  Received(other)'
  BY Zenon DEF AllReceived
<1>1. Working' = Working /\ Queued' \subseteq Queued \cup {sid} /\ Enqueued \subseteq Enqueued'
  BY QueueFacts, KeptFacts, ZenonT(30) DEF Working, IInv, Types
<1>2. CASE other # sid
  <2>1. IsSession(other) /\ m_agentSessions'[other] = m_agentSessions[other]
    BY <1>2, ZenonT(30) DEF IsSession
  <2>2. Received(other)
    BY <1>1, <1>2, <2>1, ZenonT(30) DEF AllReceived
  <2> QED
    BY <2>1, <2>2, ZenonT(30) DEF Received, Size
<1>3. CASE other = sid
  <2>1. sid \in Queued \cup Working \/ sid \notin Enqueued
    <3>1. CASE m_indexerQueue' = m_indexerQueue
      BY <1>1, <1>3, <3>1, ZenonT(30) DEF Queued
    <3>2. CASE ~ m_agentSessions[sid].endEnqueued
      BY <3>2, ZenonT(30) DEF Enqueued
    <3> QED
      BY <3>1, <3>2, ZenonT(30)
  <2> QED
    BY <1>3, <2>1, ZenonT(30) DEF AllReceived
<1> QED
  BY <1>2, <1>3, ZenonT(30)

\* handleData
LEMMA HandleDataStep ==
  ASSUME IInv, NEW sid \in Sids, NEW seq \in 1..Size(sid), HandleData(sid, seq), UNCHANGED env
  PROVE  IInv'
<1> DEFINE s == m_agentSessions[sid]
           r == m_agentSessions'[sid]
<1>1. /\ m_dataStore' = IF s.items[seq] = "clean" THEN m_dataStore ELSE m_dataStore \cup {<<sid, seq>>}
      /\ sid \in Live
      /\ UNCHANGED <<starts, m_dataValueQuotaRemaining, m_blockedAgents, m_mutex, indexer,
                     callbacks, acks, connectorVars>>
  BY ZenonT(30) DEF HandleData
<1>2. /\ IsSession(sid) /\ SessionTypes' /\ Kept /\ KeptOwners /\ Live' = Live
      /\ r.seen = s.seen \cup {seq}
      /\ r.clean <=> s.clean \/ s.items[seq] = "clean"
      /\ \/ m_indexerQueue' = m_indexerQueue /\ r.endEnqueued = s.endEnqueued
         \/ /\ m_indexerQueue' = Append(m_indexerQueue, sid)
            /\ ~ s.endEnqueued /\ r.endEnqueued /\ r.seen = 1..Size(sid)
      /\ \A other \in Sids \ {sid} : m_agentSessions'[other] = m_agentSessions[other]
  BY HandleDataSession, ZenonT(30) DEF IInv, Types
<1>3. Reserved'
  BY <1>1, <1>2, ReservedFrame, ZenonT(30) DEF IInv, Types
<1>4. seq \in Nat /\ m_indexerQueue' \in Seq(Sids)
  BY <1>2, QueueFacts, SessionFacts, SMTT(30) DEF IInv, Types
<1>5. Types'
  <2>1. m_dataStore' \subseteq Sids \X Nat
    BY <1>1, <1>4, SMTT(30) DEF IInv, Types
  <2> QED
    BY <1>1, <1>2, <1>4, <2>1, Zenon DEF IInv, Types, connectorVars
<1>6. Received(sid) => Received(sid)'
  <2> HAVE Received(sid)
  <2>1. r.state = s.state /\ r.items = s.items /\ Size(sid)' = Size(sid)
    <3>1. s.state = "live" /\ r.state = "live"
      BY <1>1, <1>2, ZenonT(30) DEF Live
    <3> QED
      BY <1>2, <3>1, KeptFacts, ZenonT(30) DEF Kept, IInv, Types
  <2>2. \A q \in r.seen : r.items[q] # "clean" /\ r.state = "live" => <<sid, q>> \in m_dataStore'
    BY <1>1, <1>2, <2>1, ZenonT(30) DEF Received
  <2>3. r.clean <=> \E q \in r.seen : r.items[q] = "clean"
    BY <1>2, <2>1, ZenonT(30) DEF Received
  <2>4. r.endEnqueued => r.seen = 1..Size(sid)
    BY <1>2, ZenonT(30) DEF Received
  <2>5. r.state # "gone"
    BY <2>1, ZenonT(30) DEF Received
  <2> QED
    BY <2>1, <2>2, <2>3, <2>4, <2>5, Zenon DEF Received
<1>7. AllReceived => AllReceived'
  BY <1>1, <1>2, <1>6, EnqueueReceived, ZenonT(30)
<1> QED
  BY <1>1, <1>2, <1>3, <1>5, <1>7, EnqueueStep, ZenonT(30)

\* handleEnd
LEMMA HandleEndStep ==
  ASSUME IInv, NEW sid \in Sids, HandleEnd(sid), UNCHANGED env
  PROVE  IInv'
<1> DEFINE s == m_agentSessions[sid]
           r == m_agentSessions'[sid]
<1>1. /\ sid \in Live
      /\ UNCHANGED <<starts, m_dataStore, m_dataValueQuotaRemaining, m_blockedAgents, m_mutex,
                     indexer, callbacks, acks, connectorVars>>
  BY ZenonT(30) DEF HandleEnd
<1>2. /\ IsSession(sid) /\ SessionTypes' /\ Kept /\ KeptOwners /\ Live' = Live
      /\ r.seen = s.seen /\ r.clean = s.clean
      /\ \/ m_indexerQueue' = m_indexerQueue /\ r.endEnqueued = s.endEnqueued
         \/ /\ m_indexerQueue' = Append(m_indexerQueue, sid)
            /\ ~ s.endEnqueued /\ r.endEnqueued /\ r.seen = 1..Size(sid)
      /\ \A other \in Sids \ {sid} : m_agentSessions'[other] = m_agentSessions[other]
  BY HandleEndSession, ZenonT(30) DEF IInv, Types
<1>3. Reserved'
  BY <1>1, <1>2, ReservedFrame, ZenonT(30) DEF IInv, Types
<1>4. m_indexerQueue' \in Seq(Sids)
  BY <1>2, QueueFacts, ZenonT(30) DEF IInv
<1>5. Types'
  BY <1>1, <1>2, <1>4, ZenonT(30) DEF IInv, Types, connectorVars
<1>6. Received(sid) => Received(sid)'
  <2> HAVE Received(sid)
  <2>1. r.state = s.state /\ r.items = s.items /\ Size(sid)' = Size(sid)
    <3>1. s.state = "live" /\ r.state = "live"
      BY <1>1, <1>2, ZenonT(30) DEF Live
    <3> QED
      BY <1>2, <3>1, KeptFacts, ZenonT(30) DEF Kept, IInv, Types
  <2>2. r.endEnqueued => r.seen = 1..Size(sid)
    BY <1>2, ZenonT(30) DEF Received
  <2> QED
    BY <1>1, <1>2, <2>1, <2>2, ZenonT(30) DEF Received
<1>7. AllReceived => AllReceived'
  BY <1>1, <1>2, <1>6, EnqueueReceived, ZenonT(30)
<1> QED
  BY <1>1, <1>2, <1>3, <1>5, <1>7, EnqueueStep, ZenonT(30)

-----------------------------------------------------------------------------
(* Steps that change no session *)

\* What such a step keeps.
LEMMA SameFacts ==
  ASSUME IInv, UNCHANGED <<m_agentSessions, m_dataValueQuotaRemaining>>
  PROVE  /\ SessionTypes' /\ Kept /\ KeptOwners /\ KeptMessages /\ Reserved'
         /\ Enqueued' = Enqueued
         /\ \A sid \in Sids :
              /\ IsSession(sid)' <=> IsSession(sid)
              /\ IsData(sid)' <=> IsData(sid)
              /\ Values(sid)' = Values(sid)
              /\ HasClean(sid)' <=> HasClean(sid)
              /\ Work(sid)' = Work(sid)
<1>1. SessionTypes' /\ Kept /\ KeptOwners /\ KeptMessages /\ Live' = Live
  BY SameSessions, ZenonT(30) DEF IInv, Types
<1>2. Reserved'
  BY <1>1, ReservedFrame, ZenonT(30) DEF IInv, Types
<1>3. Enqueued' = Enqueued
  BY Zenon DEF Enqueued, IsSession
<1>4. \A sid \in Sids : /\ IsSession(sid)' <=> IsSession(sid)
                        /\ IsData(sid)' <=> IsData(sid)
                        /\ Values(sid)' = Values(sid)
                        /\ HasClean(sid)' <=> HasClean(sid)
                        /\ Work(sid)' = Work(sid)
  BY ZenonT(30) DEF IsSession, IsData, Values, HasClean, Work, Size
<1> QED
  BY <1>1, <1>2, <1>3, <1>4, ZenonT(30)

\* The messages stay.
LEMMA SameReceived ==
  ASSUME IInv, UNCHANGED <<m_agentSessions, m_dataStore, m_dataValueQuotaRemaining>>, AllReceived,
         Queued' \cup Working' \subseteq Queued \cup Working
  PROVE  AllReceived'
  BY SameFacts, ReceivedKept, ZenonT(30) DEF IInv

\* A step after which the connector has at least what it had.
LEMMA DocumentsSame ==
  ASSUME IInv, Reliable,
         UNCHANGED <<env, m_agentSessions, m_dataStore, m_dataValueQuotaRemaining, acks>>,
         Queued' \cup Working' \subseteq Queued \cup Working,
         indexed \subseteq indexed',
         Sending',
         \A sid \in Registered' : IsData(sid) =>
           Work(sid) \subseteq indexed' \cup m_bulkData' \cup m_deleteByQuery',
         \A t \in Threads : \A sid \in Taken(t)' :
           sid \in Sids /\ (IsData(sid) => Work(sid) \subseteq indexed'),
         m_shouldNotifyAfterBulk' => indexer'.pc = "invoke",
         m_shouldNotifyAfterBulk' \/ indexer'.pc \in {"wait", "update"} =>
           \A sid \in Registered' : IsData(sid) => Work(sid) \subseteq indexed',
         Registered' \subseteq Sids
  PROVE  Documents'
<1>1. AllReceived'
  BY SameReceived, ZenonT(30) DEF IInv, Documents
<1>2. \A sid \in Sids : /\ IsData(sid)' <=> IsData(sid)
                        /\ Work(sid)' = Work(sid)
  BY SameFacts, ZenonT(30)
<1>3. \A sid \in Registered' : IsData(sid)' => Handed(sid)'
  BY <1>2, ZenonT(30) DEF Handed
<1>4. \A t \in Threads : \A sid \in Taken(t)' : IsDone(sid)'
  BY <1>2, ZenonT(30) DEF IsDone
<1>5. m_shouldNotifyAfterBulk' \/ indexer'.pc \in {"wait", "update"} =>
        \A sid \in Registered' : IsDone(sid)'
  BY <1>2, ZenonT(30) DEF IsDone
<1>6. \A sid \in Sids : (\E i \in 1..Len(acks'[sid]) : acks'[sid][i] = "Ok") => IsDone(sid)'
  BY SameFacts, DoneKept, ZenonT(30) DEF IInv, Documents
<1> QED
  BY <1>1, <1>3, <1>4, <1>5, <1>6, ZenonT(30) DEF Documents

\* deleteAgent
LEMMA DeleteAgentStep ==
  ASSUME IInv, NEW agent \in Agents, DeleteAgent(agent), UNCHANGED env
  PROVE  IInv'
<1>1. /\ UNCHANGED <<starts, m_agentSessions, m_dataStore, m_dataValueQuotaRemaining,
                     m_blockedAgents, m_indexerQueue, m_mutex, indexer, callbacks, acks,
                     m_bulkData, m_notify, m_shouldNotifyAfterBulk, indexed>>
      /\ m_deleteByQuery \subseteq m_deleteByQuery'
  BY ZenonT(30) DEF DeleteAgent, sessionVars
<1>2. /\ SessionTypes' /\ Kept /\ KeptOwners /\ Reserved' /\ Enqueued' = Enqueued
      /\ \A sid \in Sids : /\ IsData(sid)' <=> IsData(sid)
                           /\ Values(sid)' = Values(sid)
                           /\ HasClean(sid)' <=> HasClean(sid)
  BY <1>1, SameFacts, ZenonT(30)
<1>3. Types'
  BY <1>1, <1>2, ZenonT(30) DEF IInv, Types
<1>4. /\ Queued' = Queued /\ Working' = Working /\ Registered' = Registered /\ Open' = Open
      /\ \A t \in Threads : Taken(t)' = Taken(t)
  BY <1>1, ZenonT(30) DEF Queued, Working, Registered, Open, Taken, Unanswered
<1>5. Pipeline' /\ Locks' /\ Answers'
  BY <1>1, <1>2, <1>4, PipelineFrame, LocksFrame, AnswersFrame, ZenonT(30) DEF IInv
<1>6. ASSUME Reliable PROVE Documents'
  <2>1. indexer.pc = "bulk" => indexer.sid \in Sids
    BY Places, ZenonT(30) DEF Handling, IInv
  <2>2. Sending'
    BY <1>1, <1>2, <1>6, <2>1, ZenonT(30) DEF Sending, IInv, Documents
  <2>3. Enqueued \subseteq Sids
    BY Zenon DEF Enqueued
  <2> QED
    BY <1>1, <1>4, <1>6, <2>2, <2>3, DocumentsSame, ZenonT(30) DEF IInv, Documents, Handed,
       IsDone, Pipeline
<1> QED
  BY <1>2, <1>3, <1>5, <1>6, ZenonT(30) DEF IInv, Documents, Reliable

\* The indexer thread goes on to another place.
LEMMA GotoFacts ==
  ASSUME Types, NEW pc \in Pcs, Goto(pc)
  PROVE  /\ indexer' \in IndexerStates /\ indexer'.pc = pc /\ indexer'.sid = indexer.sid
         /\ indexer'.todo = indexer.todo /\ indexer'.sends = indexer.sends
  BY ZenonT(30) DEF Types, Goto, IndexerStates

\* The indexer thread takes the next response.
LEMMA TakeResponseStep ==
  ASSUME IInv, TakeResponse, UNCHANGED env
  PROVE  IInv'
<1> DEFINE h == Head(m_indexerQueue)
<1>1. /\ indexer.pc = "idle" /\ m_indexerQueue # <<>> /\ m_indexerQueue' = Tail(m_indexerQueue)
      /\ \/ h \in Live /\ indexer' = [pc |-> "found", sid |-> h, todo |-> {}, sends |-> FALSE]
         \/ indexer' = indexer
      /\ UNCHANGED <<starts, m_agentSessions, m_dataStore, m_dataValueQuotaRemaining,
                     m_blockedAgents, m_mutex, callbacks, acks, m_bulkData, m_deleteByQuery,
                     m_notify, m_shouldNotifyAfterBulk, indexed>>
  BY ZenonT(30) DEF TakeResponse, At, sessionVars, connectorVars
<1>2. SessionTypes' /\ Kept /\ KeptOwners /\ Reserved' /\ Enqueued' = Enqueued
  BY <1>1, SameFacts, ZenonT(30)
<1>3. /\ h \in Sids /\ m_indexerQueue' \in Seq(Sids)
      /\ Queued = {h} \cup Queued' /\ h \notin Queued' /\ Distinct(m_indexerQueue')
  BY <1>1, ElemsTail, ZenonT(30) DEF Queued, IInv, Types, Pipeline
<1>4. /\ Working = {} /\ (Working' = {h} \/ Working' = {})
      /\ indexer'.pc \in {"idle", "found"}
  BY <1>1, SMTT(30) DEF Working, Handling
<1>5. Types'
  <2>1. [pc |-> "found", sid |-> h, todo |-> {}, sends |-> FALSE] \in IndexerStates
    BY <1>3, ZenonT(30) DEF IndexerStates, Pcs
  <2> QED
    BY <1>1, <1>2, <1>3, <2>1, ZenonT(30) DEF IInv, Types
<1>6. /\ Registered' = Registered
      /\ \A t \in Threads : Taken(t)' = Taken(t) /\ Unanswered(t)' = Unanswered(t)
                            /\ callbacks'[t] = callbacks[t]
      /\ Answered' = Answered
  BY <1>1, ZenonT(30) DEF Registered, Taken, Unanswered, Answered
<1>7. Pipeline'
  BY <1>1, <1>2, <1>3, <1>4, <1>6, SMTT(30) DEF IInv, Pipeline, Threads
<1>8. Locks'
  <2>1. Releasing' = Releasing
    BY <1>1, <1>4, <1>6, Zenon DEF Releasing, Threads
  <2>2. \A sid \in Registered : sid \in Enqueued /\ m_agentSessions[sid].mode # "META"
    BY <1>1, Zenon DEF IInv, Locks, Pipeline
  <2> QED
    BY <1>1, <1>2, <1>4, <1>6, <2>1, <2>2, LocksKept, ZenonT(30) DEF IInv
<1>9. Answers'
  <2>1. Open' \subseteq Open
    BY <1>3, <1>4, <1>6, ZenonT(30) DEF Open, Threads
  <2> QED
    BY <1>1, <1>2, <2>1, AnswersFrame, ZenonT(30) DEF IInv
<1>10. ASSUME Reliable PROVE Documents'
  <2>1. Sending'
    BY <1>4, Zenon DEF Sending
  <2>2. ~ m_shouldNotifyAfterBulk
    BY <1>1, <1>10, ZenonT(30) DEF IInv, Documents
  <2>3. Queued' \cup Working' \subseteq Queued \cup Working
    BY <1>3, <1>4, ZenonT(30)
  <2>4. Enqueued \subseteq Sids
    BY Zenon DEF Enqueued
  <2> QED
    BY <1>1, <1>4, <1>6, <1>10, <2>1, <2>2, <2>3, <2>4, DocumentsSame, ZenonT(30) DEF IInv,
       Documents, Handed, IsDone, Pipeline
<1> QED
  BY <1>2, <1>5, <1>7, <1>8, <1>9, <1>10, ZenonT(30) DEF IInv, Documents, Reliable

\* A thread takes the registered callbacks, or finds that none are due.
LEMMA TakeFacts ==
  ASSUME Types, Pipeline, NEW t \in Threads, NEW notify \in BOOLEAN,
         callbacks[t].list = <<>>, Take(t, notify), m_notify' = LeftIf(notify),
         Enqueued' = Enqueued, Queued' = Queued, m_indexerQueue' = m_indexerQueue,
         Working' \subseteq Working
  PROVE  /\ callbacks' \in [Threads -> [list : Seq(Sids), erase : BOOLEAN]]
         /\ m_notify' \in Seq(Sids)
         /\ Pipeline'
         /\ Taken(t)' = IF notify THEN Registered ELSE {}
         /\ Taken(t) = {}
         /\ Registered' = IF notify THEN {} ELSE Registered
         /\ \A u \in Threads \ {t} : Taken(u)' = Taken(u)
         /\ Answered' = Answered
         /\ Open' \subseteq Open
<1>1. ~ callbacks[t].erase
  BY Zenon DEF Pipeline
<1>2. /\ \A u \in Threads \ {t} : callbacks'[u] = callbacks[u]
      /\ callbacks'[t].list = TakenIf(notify) /\ callbacks'[t].erase = callbacks[t].erase
      /\ callbacks' \in [Threads -> [list : Seq(Sids), erase : BOOLEAN]]
  <2>1. TakenIf(notify) \in Seq(Sids)
    BY ZenonT(30) DEF TakenIf, Types
  <2> QED
    BY <2>1, Zenon DEF Take, Types
<1>3. Taken(t) = {} /\ Taken(t)' = IF notify THEN Registered ELSE {}
  BY <1>2, ElemsEmpty, Zenon DEF Taken, TakenIf, Registered
<1>4. Registered' = IF notify THEN {} ELSE Registered
  BY ElemsEmpty, Zenon DEF Registered, LeftIf
<1>5. \A u \in Threads \ {t} : Taken(u)' = Taken(u) /\ Unanswered(u)' = Unanswered(u)
  BY <1>2, Zenon DEF Taken, Unanswered
<1>6. Unanswered(t)' = Taken(t)' /\ Unanswered(t) = Taken(t)
  BY <1>1, <1>2, Zenon DEF Unanswered, Taken
<1>7. Distinct(m_notify') /\ Distinct(callbacks'[t].list) /\ m_notify' \in Seq(Sids)
  BY <1>2, ElemsEmpty DEF Pipeline, LeftIf, TakenIf, Types
<1>8. Pipeline'
  BY <1>1, <1>2, <1>3, <1>4, <1>5, <1>7, SMTT(30) DEF Pipeline, Threads
<1>9. Answered' = Answered
  BY <1>1, <1>2, ZenonT(30) DEF Answered
<1>10. Open' \subseteq Open
  BY <1>3, <1>4, <1>5, <1>6, ZenonT(30) DEF Open, Threads
<1> QED
  BY <1>2, <1>3, <1>4, <1>5, <1>7, <1>8, <1>9, <1>10, ZenonT(30)

\* A session's work that the connector has, is done once that is sent.
LEMMA SentIsDone ==
  ASSUME ProcessBulk({})
  PROVE  /\ indexed \subseteq indexed' /\ indexed' = indexed \cup m_bulkData \cup m_deleteByQuery
         /\ \A sid \in Sids : Handed(sid) => Work(sid) \subseteq indexed'
  BY ZenonT(30) DEF ProcessBulk, Sent, Handed

\* flush()
LEMMA FlushStep ==
  ASSUME IInv, Flush, UNCHANGED env
  PROVE  IInv'
<1>1. /\ indexer.pc = "flush" /\ callbacks["indexer"].list = <<>>
      /\ m_shouldNotifyAfterBulk' = FALSE
      /\ Take("indexer", HasWork) /\ m_notify' = LeftIf(HasWork) /\ Goto("wait")
      /\ IF HasWork THEN ProcessBulk({}) ELSE UNCHANGED <<m_bulkData, m_deleteByQuery, indexed>>
      /\ UNCHANGED <<starts, m_agentSessions, m_dataStore, m_dataValueQuotaRemaining,
                     m_blockedAgents, m_indexerQueue, m_mutex, acks>>
  BY ZenonT(30) DEF Flush, At, sessionVars
<1>2. SessionTypes' /\ Kept /\ KeptOwners /\ Reserved' /\ Enqueued' = Enqueued
  BY <1>1, SameFacts, ZenonT(30)
<1>3. indexer' \in IndexerStates /\ indexer'.pc = "wait" /\ indexer'.sid = indexer.sid
  BY <1>1, GotoFacts, ZenonT(30) DEF IInv, Pcs
<1>4. Queued' = Queued /\ Working' = Working
  BY <1>1, <1>3, ZenonT(30) DEF Queued, Working, Handling
<1>5. HasWork \in BOOLEAN /\ "indexer" \in Threads /\ Threads \ {"indexer"} = {"bulk"}
  BY ZenonT(30) DEF HasWork, Threads
<1>6. /\ callbacks' \in [Threads -> [list : Seq(Sids), erase : BOOLEAN]]
      /\ m_notify' \in Seq(Sids) /\ Pipeline'
      /\ Taken("indexer")' = IF HasWork THEN Registered ELSE {}
      /\ Taken("indexer") = {}
      /\ Registered' = IF HasWork THEN {} ELSE Registered
      /\ Taken("bulk")' = Taken("bulk")
      /\ Answered' = Answered /\ Open' \subseteq Open
  BY <1>1, <1>2, <1>4, <1>5, TakeFacts, ZenonT(30) DEF IInv
<1>7. Types'
  BY <1>1, <1>2, <1>3, <1>6, ZenonT(30) DEF IInv, Types
<1>8. Locks'
  <2>1. Releasing' = Releasing
    BY <1>1, <1>3, <1>6, ZenonT(30) DEF Releasing
  <2>2. \A sid \in Registered : sid \in Enqueued /\ m_agentSessions[sid].mode # "META"
    BY <1>1, ZenonT(30) DEF IInv, Locks, Pipeline
  <2>3. Current.mode = "META" /\ indexer.pc \in Handling
    BY <1>1, ZenonT(30) DEF IInv, Locks, Handling
  <2>4. \A sid \in Registered' : sid \in Enqueued /\ m_agentSessions[sid].mode # "META"
    BY <1>6, <2>2, ZenonT(30)
  <2> QED
    BY <1>1, <1>2, <1>3, <1>6, <2>1, <2>3, <2>4, LocksKept, ZenonT(30) DEF IInv
<1>9. Answers'
  BY <1>1, <1>2, <1>6, AnswersFrame, ZenonT(30) DEF IInv
<1>10. ASSUME Reliable PROVE Documents'
  <2>1. Sending'
    BY <1>3, ZenonT(30) DEF Sending
  <2>2. Enqueued \subseteq Sids /\ Registered \subseteq Enqueued /\ Taken("bulk") \subseteq Enqueued
    BY ZenonT(30) DEF Enqueued, IInv, Pipeline, Threads
  <2>3. /\ \A sid \in Registered : IsData(sid) => Handed(sid)
        /\ \A sid \in Taken("bulk") : IsData(sid) => Work(sid) \subseteq indexed
    BY <1>10, ZenonT(30) DEF IInv, Documents, IsDone, Threads
  <2>4. indexed \subseteq indexed' /\ \A sid \in Registered : IsData(sid) => Work(sid) \subseteq indexed'
    <3>1. CASE HasWork
      BY <1>1, <2>2, <2>3, <3>1, SentIsDone, ZenonT(30)
    <3>2. CASE ~ HasWork
      BY <1>1, <2>3, <3>2, ZenonT(30) DEF HasWork, Handed
    <3> QED
      BY <3>1, <3>2, ZenonT(30)
  <2>5. /\ \A t \in Threads : \A sid \in Taken(t)' :
             sid \in Sids /\ (IsData(sid) => Work(sid) \subseteq indexed')
        /\ \A sid \in Registered' : sid \in Sids /\ (IsData(sid) => Work(sid) \subseteq indexed')
    BY <1>6, <2>2, <2>3, <2>4, ZenonT(30) DEF Threads
  <2>6. Queued' \cup Working' \subseteq Queued \cup Working /\ Registered' \subseteq Sids
    BY <1>4, <2>5, ZenonT(30)
  <2> QED
    BY <1>1, <1>10, <2>1, <2>4, <2>5, <2>6, DocumentsSame, ZenonT(30)
<1> QED
  BY <1>2, <1>6, <1>7, <1>8, <1>9, <1>10, ZenonT(30) DEF IInv, Documents, Reliable

\* invokePendingCallbacks
LEMMA InvokeStep ==
  ASSUME IInv, InvokePendingCallbacks, UNCHANGED env
  PROVE  IInv'
<1> DEFINE flag == m_shouldNotifyAfterBulk
<1>1. /\ indexer.pc = "invoke" /\ callbacks["indexer"].list = <<>>
      /\ m_shouldNotifyAfterBulk' = FALSE
      /\ Take("indexer", flag) /\ m_notify' = LeftIf(flag) /\ Goto("idle")
      /\ UNCHANGED <<starts, m_agentSessions, m_dataStore, m_dataValueQuotaRemaining,
                     m_blockedAgents, m_indexerQueue, m_mutex, acks,
                     m_bulkData, m_deleteByQuery, indexed>>
  BY Zenon DEF InvokePendingCallbacks, At, sessionVars
<1>2. SessionTypes' /\ Kept /\ KeptOwners /\ Reserved' /\ Enqueued' = Enqueued
  BY <1>1, SameFacts, ZenonT(30)
<1>3. indexer' \in IndexerStates /\ indexer'.pc = "idle"
  BY <1>1, GotoFacts, Zenon DEF IInv, Pcs
<1>4. Queued' = Queued /\ Working' = Working
  BY <1>1, <1>3, Zenon DEF Queued, Working, Handling
<1>5. flag \in BOOLEAN /\ "indexer" \in Threads /\ Threads \ {"indexer"} = {"bulk"}
  BY Zenon DEF Threads, IInv, Types
<1>6. /\ callbacks' \in [Threads -> [list : Seq(Sids), erase : BOOLEAN]]
      /\ m_notify' \in Seq(Sids) /\ Pipeline'
      /\ Taken("indexer")' = IF flag THEN Registered ELSE {}
      /\ Taken("indexer") = {}
      /\ Registered' = IF flag THEN {} ELSE Registered
      /\ Taken("bulk")' = Taken("bulk")
      /\ Answered' = Answered /\ Open' \subseteq Open
  BY <1>1, <1>2, <1>4, <1>5, TakeFacts, ZenonT(30) DEF IInv
<1>7. Types'
  BY <1>1, <1>2, <1>3, <1>6, ZenonT(30) DEF IInv, Types
<1>8. Locks'
  <2>1. Releasing' = Releasing
    BY <1>1, <1>3, <1>6, ZenonT(30) DEF Releasing
  <2>2. \A sid \in Registered' : sid \in Enqueued /\ m_agentSessions[sid].mode # "META"
    BY <1>1, <1>6, ZenonT(30) DEF IInv, Locks, Pipeline
  <2> QED
    BY <1>1, <1>2, <1>3, <1>6, <2>1, <2>2, LocksKept, ZenonT(30) DEF IInv
<1>9. Answers'
  BY <1>1, <1>2, <1>6, AnswersFrame, ZenonT(30) DEF IInv
<1>10. ASSUME Reliable PROVE Documents'
  <2>1. Sending'
    BY <1>3, Zenon DEF Sending
  <2>2. Enqueued \subseteq Sids /\ Registered \subseteq Enqueued /\ Taken("bulk") \subseteq Enqueued
    BY Zenon DEF Enqueued, IInv, Pipeline, Threads
  <2>3. /\ \A sid \in Registered : IsData(sid) =>
             Work(sid) \subseteq indexed' \cup m_bulkData' \cup m_deleteByQuery'
        /\ flag => \A sid \in Registered : IsData(sid) => Work(sid) \subseteq indexed'
        /\ \A sid \in Taken("bulk") : IsData(sid) => Work(sid) \subseteq indexed'
    BY <1>1, <1>10, Zenon DEF IInv, Documents, IsDone, Threads, Handed
  <2>4. \A t \in Threads : \A sid \in Taken(t)' :
          sid \in Sids /\ (IsData(sid) => Work(sid) \subseteq indexed')
    BY <1>6, <2>2, <2>3, Zenon DEF Threads
  <2>5. Queued' \cup Working' \subseteq Queued \cup Working /\ Registered' \subseteq Registered
    BY <1>4, <1>6, Zenon
  <2> QED
    BY <1>1, <1>3, <1>10, <2>1, <2>2, <2>3, <2>4, <2>5, DocumentsSame, ZenonT(30)
<1> QED
  BY <1>2, <1>6, <1>7, <1>8, <1>9, <1>10, ZenonT(30) DEF IInv, Documents, Reliable

\* The bulk thread sends the buffer and takes the callbacks.
LEMMA BulkThreadStep ==
  ASSUME IInv, BulkThread, UNCHANGED env
  PROVE  IInv'
<1>1. /\ callbacks["bulk"].list = <<>> /\ m_shouldNotifyAfterBulk' = FALSE
      /\ Take("bulk", TRUE) /\ m_notify' = LeftIf(TRUE) /\ ProcessBulk({})
      /\ UNCHANGED <<starts, m_agentSessions, m_dataStore, m_dataValueQuotaRemaining,
                     m_blockedAgents, m_indexerQueue, m_mutex, indexer, acks>>
  BY ZenonT(30) DEF BulkThread, sessionVars
<1>2. /\ SessionTypes' /\ Kept /\ KeptOwners /\ Reserved' /\ Enqueued' = Enqueued
      /\ \A sid \in Sids : /\ IsData(sid)' <=> IsData(sid)
                           /\ Values(sid)' = Values(sid)
                           /\ HasClean(sid)' <=> HasClean(sid)
  BY <1>1, SameFacts, Zenon
<1>3. Queued' = Queued /\ Working' = Working
  BY <1>1, Zenon DEF Queued, Working
<1>4. TRUE \in BOOLEAN /\ "bulk" \in Threads /\ Threads \ {"bulk"} = {"indexer"}
  BY Zenon DEF Threads
<1>5. /\ callbacks' \in [Threads -> [list : Seq(Sids), erase : BOOLEAN]]
      /\ m_notify' \in Seq(Sids) /\ Pipeline'
      /\ Taken("bulk")' = Registered /\ Taken("bulk") = {}
      /\ Registered' = {} /\ Taken("indexer")' = Taken("indexer")
      /\ Answered' = Answered /\ Open' \subseteq Open
  BY <1>1, <1>2, <1>3, <1>4, TakeFacts, ZenonT(30) DEF IInv
<1>6. Types'
  BY <1>1, <1>2, <1>5, Zenon DEF IInv, Types
<1>7. Locks'
  <2>1. Releasing' = Releasing
    BY <1>1, <1>5, ZenonT(30) DEF Releasing
  <2> QED
    BY <1>1, <1>2, <1>5, <2>1, LocksKept, ZenonT(30) DEF IInv, Locks, Handling
<1>8. Answers'
  BY <1>1, <1>2, <1>5, AnswersFrame, ZenonT(30) DEF IInv
<1>9. ASSUME Reliable PROVE Documents'
  <2>1. indexed \subseteq indexed' /\ indexed' = indexed \cup m_bulkData \cup m_deleteByQuery
        /\ \A sid \in Sids : Handed(sid) => Work(sid) \subseteq indexed'
    BY <1>1, SentIsDone, Zenon
  <2>2. indexer.pc = "bulk" => indexer.sid \in Sids
    BY Places, Zenon DEF Handling, IInv
  <2>3. Sending
    BY <1>9, Zenon DEF IInv, Documents
  <2>4. Sending'
    BY <1>1, <1>2, <2>1, <2>2, <2>3, ZenonT(30) DEF Sending
  <2>5. Enqueued \subseteq Sids /\ Registered \subseteq Enqueued /\ Taken("indexer") \subseteq Enqueued
    BY Zenon DEF Enqueued, IInv, Pipeline, Threads
  <2>6. /\ \A sid \in Registered : IsData(sid) => Handed(sid)
        /\ \A sid \in Taken("indexer") : IsData(sid) => Work(sid) \subseteq indexed
    BY <1>9, Zenon DEF IInv, Documents, IsDone, Threads
  <2>7. \A t \in Threads : \A sid \in Taken(t)' :
          sid \in Sids /\ (IsData(sid) => Work(sid) \subseteq indexed')
    BY <1>5, <2>1, <2>5, <2>6, ZenonT(30) DEF Threads
  <2>8. Queued' \cup Working' \subseteq Queued \cup Working /\ Registered' = {}
    BY <1>3, <1>5, Zenon
  <2> QED
    BY <1>1, <1>9, <2>1, <2>4, <2>7, <2>8, DocumentsSame, ZenonT(30)
<1> QED
  BY <1>2, <1>5, <1>6, <1>7, <1>8, <1>9, ZenonT(30) DEF IInv, Documents, Reliable

\* The bulk thread's request fails.
LEMMA BulkThreadFailsStep ==
  ASSUME IInv, BulkThreadFails, UNCHANGED env
  PROVE  IInv'
<1>1. /\ ~ Reliable /\ ProcessBulkThrows(m_shouldNotifyAfterBulk)
      /\ UNCHANGED <<starts, m_agentSessions, m_dataStore, m_dataValueQuotaRemaining,
                     m_blockedAgents, m_indexerQueue, m_mutex, indexer, callbacks, acks, m_notify>>
  BY Zenon DEF BulkThreadFails, sessionVars, Reliable
<1>2. SessionTypes' /\ Kept /\ KeptOwners /\ Reserved' /\ Enqueued' = Enqueued
  BY <1>1, SameFacts, Zenon
<1>3. m_shouldNotifyAfterBulk' \in BOOLEAN /\ (m_shouldNotifyAfterBulk => m_shouldNotifyAfterBulk')
  <2>1. m_shouldNotifyAfterBulk' = m_shouldNotifyAfterBulk \/ m_shouldNotifyAfterBulk' = TRUE
    BY <1>1, Zenon DEF ProcessBulkThrows
  <2>2. m_shouldNotifyAfterBulk \in BOOLEAN
    BY Zenon DEF IInv, Types
  <2>3. CASE m_shouldNotifyAfterBulk' = m_shouldNotifyAfterBulk
    BY <2>2, <2>3, Zenon
  <2>4. CASE m_shouldNotifyAfterBulk' = TRUE
    BY <2>4, Zenon
  <2> QED
    BY <2>1, <2>3, <2>4, Zenon
<1>4. Types'
  BY <1>1, <1>2, <1>3, ZenonT(30) DEF IInv, Types
<1>5. /\ Working' = Working /\ Open' = Open /\ Registered' = Registered
      /\ Releasing' = Releasing /\ Answered' = Answered
  BY <1>1, Zenon DEF Queued, Working, Registered, Open, Taken, Unanswered, Releasing, Answered
<1>6. Pipeline' /\ Answers'
  BY <1>1, <1>2, <1>5, PipelineFrame, AnswersFrame, ZenonT(30) DEF IInv
<1>7. Locks'
  <2>1. \A sid \in Registered' : sid \in Enqueued /\
          (m_agentSessions[sid].mode = "META" => indexer'.pc = "invoke" /\ m_shouldNotifyAfterBulk')
    BY <1>1, <1>3, <1>5, ZenonT(30) DEF IInv, Locks, Pipeline
  <2> QED
    BY <1>1, <1>2, <1>5, <2>1, LocksKept, ZenonT(30) DEF IInv, Locks, Handling
<1>8. Documents'
  BY <1>1, Zenon DEF Documents, Reliable
<1> QED
  BY <1>2, <1>4, <1>6, <1>7, <1>8, ZenonT(30) DEF IInv
=============================================================================
