--------------------------- MODULE BulkProcessing ---------------------------
(***************************************************************************)
(* How the indexer connector sends its buffer: processBulk,                *)
(* splitAndProcessBulk and processBulkChunk, and the callers that start    *)
(* them (bulkIndex and bulkDelete on a full buffer, flush, the bulk        *)
(* thread).  A call holds m_mutex from its first request to its last, so   *)
(* one call runs at a time; each of its HTTP requests is a step.           *)
(*                                                                         *)
(* An operation is a number; m_bulkData is the sequence of the operations  *)
(* in it and the byte offsets are sums of their sizes.  The indexer is     *)
(* external: it refuses a body longer than maxContent with 413, and what   *)
(* else it may answer is in faults:                                        *)
(*   "busy"      429 to a bulk request                                     *)
(*   "rejected"  another error, or a 200 with failed items                 *)
(*   "skipped"   409 or 429 to a delete-by-query                           *)
(*   "delete"    another error to a delete-by-query                        *)
(***************************************************************************)
EXTENDS Integers, Sequences, Functions

CONSTANTS
  Layouts,       \* possible sequences of the sizes of the operations added
  MaxBulkSize,   \* size the buffer is sent at
  Limits,        \* possible values of the indexer's http.max_content_length
  Environments   \* sets of faults

\* An operation takes up space.
ASSUME BulkAssumption ==
  /\ Layouts \subseteq Seq(Nat \ {0})
  /\ MaxBulkSize \in Nat
  /\ Limits \subseteq Nat

VARIABLES
  size, maxContent, faults,   \* fixed for a behaviour
  added,                      \* operations given to bulkIndex so far
  m_bulkData,
  m_boundaries,               \* end offset of each operation in m_bulkData
  m_deleteByQuery,            \* delete requests waiting (both kinds)
  m_shouldNotifyAfterBulk,
  m_stopping,
  executed,                   \* what the indexer has executed
  order,                      \* <<a, b>>: it last executed a before it last executed b
  pc,                         \* "idle", or where the call under way is
  caller,                     \* who made it: "index", "flush" or "thread"
  deletes,                    \* delete requests it has not sent yet
  needToRetry,                \* of processBulk's loop
  chunks,                     \* the processBulkChunk calls ahead, next one first
  batch, before               \* m_bulkData and the rest when the call began

fixed == <<size, maxContent, faults>>
buffer == <<m_bulkData, m_boundaries>>
indexer == <<executed, order>>
entry == <<caller, batch, before>>
locals == <<entry, deletes, needToRetry, chunks>>
vars == <<fixed, added, buffer, m_deleteByQuery, m_shouldNotifyAfterBulk, m_stopping, indexer,
          pc, locals>>

Ops == DOMAIN size

\* The one delete request, numbered like an operation.
Delete == 0

\* The sums of the first k numbers of s.
Sums(s) == LET sum[k \in 0..Len(s)] == IF k = 0 THEN 0 ELSE sum[k - 1] + s[k]
           IN  sum

\* The offset at which the k-th operation of m_bulkData ends.
Sizes == [i \in 1..Len(m_bulkData) |-> size[m_bulkData[i]]]
End(k) == Sums(Sizes)[k]

Length == End(Len(m_bulkData))

HasWork == m_bulkData # <<>> \/ m_deleteByQuery # {}

NoEntry == [executed |-> {}, notify |-> FALSE]

Init ==
  /\ size \in Layouts
  /\ maxContent \in Limits
  /\ faults \in Environments
  /\ added = 0
  /\ m_bulkData = <<>> /\ m_boundaries = <<>> /\ m_deleteByQuery = {}
  /\ m_shouldNotifyAfterBulk = FALSE
  /\ m_stopping = FALSE
  /\ executed = {} /\ order = {}
  /\ pc = "idle" /\ caller = "none"
  /\ deletes = {} /\ needToRetry = FALSE /\ chunks = <<>>
  /\ batch = <<>> /\ before = NoEntry

(***************************************************************************)
(* The callers.                                                            *)
(***************************************************************************)
\* The call of processBulk: it has something to send.
Begin(who, notify) ==
  /\ HasWork
  /\ pc' = "deletes"
  /\ caller' = who
  /\ deletes' = m_deleteByQuery
  /\ batch' = m_bulkData
  /\ before' = [executed |-> executed, notify |-> notify]
  /\ UNCHANGED <<needToRetry, chunks>>

\* The end of a call: the bulk thread leaves its loop once m_stopping is set.
Leave ==
  /\ pc' = IF m_stopping THEN "stopped" ELSE "idle"
  /\ caller' = "none" /\ deletes' = {} /\ needToRetry' = FALSE /\ chunks' = <<>>
  /\ batch' = <<>> /\ before' = NoEntry

Push(op) ==
  /\ m_bulkData' = Append(m_bulkData, op)
  /\ m_boundaries' = Append(m_boundaries, Length + size[op])

Fits(op) == Length + size[op] <= MaxBulkSize

\* bulkIndex and bulkDelete.  The third case is an operation larger than the
\* whole buffer: processBulk throws for want of data and it is not added.
BulkIndex ==
  /\ pc = "idle" /\ ~m_stopping /\ added + 1 \in Ops
  /\ added' = added + 1
  /\ \/ /\ Fits(added + 1)
        /\ Push(added + 1)
        /\ UNCHANGED <<pc, locals>>
     \/ /\ ~Fits(added + 1)
        /\ Begin("index", m_shouldNotifyAfterBulk)
        /\ UNCHANGED buffer
     \/ /\ ~Fits(added + 1) /\ ~HasWork
        /\ UNCHANGED <<buffer, pc, locals>>
  /\ UNCHANGED <<fixed, m_deleteByQuery, m_shouldNotifyAfterBulk, m_stopping, indexer>>

\* deleteByQuery and deleteByQueryExceptIds.
DeleteByQuery ==
  /\ pc = "idle" /\ ~m_stopping
  /\ Delete \notin m_deleteByQuery \cup executed
  /\ m_deleteByQuery' = m_deleteByQuery \cup {Delete}
  /\ UNCHANGED <<fixed, added, buffer, m_shouldNotifyAfterBulk, m_stopping, indexer, pc, locals>>

Flush ==
  /\ pc = "idle" /\ ~m_stopping
  /\ m_shouldNotifyAfterBulk' = FALSE
  /\ Begin("flush", FALSE)
  /\ UNCHANGED <<fixed, added, buffer, m_deleteByQuery, m_stopping, indexer>>

\* A round of the bulk thread.
BulkThread ==
  /\ pc = "idle"
  /\ Begin("thread", m_shouldNotifyAfterBulk)
  /\ UNCHANGED <<fixed, added, buffer, m_deleteByQuery, m_shouldNotifyAfterBulk, m_stopping, indexer>>

\* The destructor: it takes m_mutex to set m_stopping, so never during a call
\* of processBulk, and the bulk thread makes one more round.
Stop ==
  /\ pc = "idle" /\ ~m_stopping
  /\ m_stopping' = TRUE
  /\ UNCHANGED <<fixed, added, buffer, m_deleteByQuery, m_shouldNotifyAfterBulk, indexer, pc, locals>>

\* processBulk has returned: bulkIndex adds its operation, flush and the bulk
\* thread run the callbacks when the flag is set.
Return ==
  /\ pc = "returned"
  /\ IF caller = "index"
     THEN Push(added) /\ UNCHANGED m_shouldNotifyAfterBulk
     ELSE m_shouldNotifyAfterBulk' = FALSE /\ UNCHANGED buffer
  /\ Leave
  /\ UNCHANGED <<fixed, added, m_deleteByQuery, m_stopping, indexer>>

(***************************************************************************)
(* processBulk.                                                            *)
(***************************************************************************)
\* a stands before b.
Precedes(ops, a, b) == \E i, j \in 1..Len(ops) : i < j /\ ops[i] = a /\ ops[j] = b

\* The operations of some, which are in ops, were executed, in the order of ops.
Executed(ops, some) ==
  /\ executed' = executed \cup some
  /\ order' = {p \in (executed \cup some) \X (executed \cup some) :
                 IF p[2] \in some
                 THEN p[1] \in some => Precedes(ops, p[1], p[2])
                 ELSE p \in order /\ p[1] \notin some}

Execute(ops) == Executed(ops, Range(ops))

ExecuteSome(ops) == \E some \in SUBSET Range(ops) : Executed(ops, some)

\* Variant: the boundaries of what was sent stay.
ClearData == m_bulkData' = <<>> /\ UNCHANGED m_boundaries

Clear == m_bulkData' = <<>> /\ m_boundaries' = <<>>

\* An exception leaves processBulk; what becomes of the buffer differs.
Throw == Leave /\ UNCHANGED <<m_deleteByQuery, m_shouldNotifyAfterBulk>>

\* The end of processBulk without an error.
Finish ==
  /\ Clear
  /\ m_deleteByQuery' = {}
  /\ m_shouldNotifyAfterBulk' = TRUE
  /\ pc' = "returned"
  /\ UNCHANGED <<entry, deletes, chunks>>

\* The call goes on in the loop it is in.
Continue == UNCHANGED <<m_deleteByQuery, m_shouldNotifyAfterBulk, pc, entry>>

\* One delete-by-query request.
SendDelete ==
  /\ pc = "deletes"
  /\ \E d \in deletes :
       \/ /\ \/ Execute(<<d>>)
             \/ "skipped" \in faults /\ UNCHANGED indexer
          /\ deletes' = deletes \ {d}
          /\ Continue
          /\ UNCHANGED <<m_bulkData, needToRetry, chunks>>
       \/ /\ "delete" \in faults
          /\ m_bulkData' = <<>>
          /\ Throw
          /\ UNCHANGED indexer
  /\ UNCHANGED <<fixed, added, m_stopping, m_boundaries>>

\* The deletes are sent, and there is nothing else.
OnlyDeletes ==
  /\ pc = "deletes" /\ deletes = {} /\ m_bulkData = <<>>
  /\ Finish
  /\ UNCHANGED <<fixed, added, m_stopping, needToRetry, indexer>>

\* The deletes are sent: on to the bulk request, unless the connector stops.
ToBulk ==
  /\ pc = "deletes" /\ deletes = {} /\ m_bulkData # <<>>
  /\ pc' = IF m_stopping THEN "returned" ELSE "bulk"
  /\ UNCHANGED <<fixed, added, buffer, m_deleteByQuery, m_shouldNotifyAfterBulk, m_stopping,
                 indexer, locals>>

BulkSent ==
  /\ pc = "bulk" /\ m_bulkData # <<>> /\ Length <= maxContent
  /\ Execute(m_bulkData)
  /\ needToRetry' = FALSE
  /\ Finish
  /\ UNCHANGED <<fixed, added, m_stopping>>

BulkBusy ==
  /\ pc = "bulk" /\ "busy" \in faults
  /\ needToRetry' = TRUE
  /\ Continue
  /\ UNCHANGED <<fixed, added, buffer, m_stopping, indexer, deletes, chunks>>

\* Failed items or another status; an empty body is always refused.
BulkRejected ==
  /\ pc = "bulk"
  /\ \/ m_bulkData = <<>> /\ UNCHANGED indexer
     \/ "rejected" \in faults /\ Length <= maxContent /\ ExecuteSome(m_bulkData)
  /\ Clear
  /\ Throw
  /\ UNCHANGED <<fixed, added, m_stopping>>

\* A processBulkChunk call: the bytes it sends, the boundaries it was given,
\* and its needToRetry.
Chunk(from, to, lo, hi) == [from |-> from, to |-> to, lo |-> lo, hi |-> hi, retry |-> FALSE]

\* Variant: the middle is one boundary too far.
HalvesPastMiddle(lo, hi) ==
  LET last == lo + (hi - lo + 1) \div 2
  IN  <<Chunk(0, m_boundaries[last], lo, last),
        Chunk(m_boundaries[last], Length, last + 1, hi)>>

\* Variant: the second half is sent first.
HalvesSwapped(lo, hi) ==
  LET last == lo + (hi - lo + 1) \div 2 - 1
  IN  <<Chunk(m_boundaries[last], Length, last + 1, hi),
        Chunk(0, m_boundaries[last], lo, last)>>

\* The two calls that boundaries lo..hi are split into.  The first half is
\* taken from the start of m_bulkData and the second up to its end, also when
\* the boundaries are those of a part of it.
Halves(lo, hi) ==
  LET last == lo + (hi - lo + 1) \div 2 - 1
  IN  <<Chunk(0, m_boundaries[last], lo, last),
        Chunk(m_boundaries[last], Length, last + 1, hi)>>

NonEmpty(c) == IF c.from = c.to THEN <<>> ELSE <<c>>

\* Too large: splitAndProcessBulk, unless it is one operation.
BulkRefused413 ==
  /\ pc = "bulk" /\ Length > maxContent
  /\ IF Len(m_boundaries) <= 1
     THEN Clear /\ Throw
     ELSE /\ pc' = "chunk"
          /\ LET halves == Halves(1, Len(m_boundaries))
             IN  chunks' = NonEmpty(halves[1]) \o NonEmpty(halves[2])
          /\ UNCHANGED <<buffer, m_deleteByQuery, m_shouldNotifyAfterBulk, entry, deletes, needToRetry>>
  /\ UNCHANGED <<fixed, added, m_stopping, indexer>>

\* The end of splitAndProcessBulk, and of the iteration it was called in.
SplitDone ==
  /\ pc = "chunk" /\ chunks = <<>>
  /\ IF needToRetry
     THEN /\ Clear
          /\ m_shouldNotifyAfterBulk' = TRUE
          /\ pc' = "bulk"
          /\ UNCHANGED <<m_deleteByQuery, entry, deletes, chunks>>
     ELSE Finish
  /\ UNCHANGED <<fixed, added, m_stopping, indexer, needToRetry>>

(***************************************************************************)
(* processBulkChunk.  Its test of m_stopping cannot succeed: see Stop.     *)
(***************************************************************************)
Offsets == {End(k) : k \in 0..Len(m_bulkData)}

\* The bytes lie in m_bulkData, and are whole operations.
Inside(c) == c.from <= c.to /\ c.to <= Length
Whole(c) == c.from < c.to /\ {c.from, c.to} \subseteq Offsets

Posted(c) ==
  LET At(offset) == CHOOSE k \in 0..Len(m_bulkData) : End(k) = offset
  IN  SubSeq(m_bulkData, At(c.from) + 1, At(c.to))

TooLarge(c) == c.to - c.from > maxContent

InChunk == pc = "chunk" /\ chunks # <<>>

\* Variant: needToRetry is not reset before the request.
ChunkSentRetries ==
  /\ InChunk
  /\ LET c == Head(chunks)
     IN  /\ Inside(c) /\ Whole(c) /\ ~TooLarge(c) /\ Execute(Posted(c))
         /\ chunks' = IF c.retry THEN chunks ELSE Tail(chunks)
  /\ Continue
  /\ UNCHANGED <<fixed, added, buffer, m_stopping, deletes, needToRetry>>

ChunkSent ==
  /\ InChunk
  /\ LET c == Head(chunks)
     IN  Inside(c) /\ Whole(c) /\ ~TooLarge(c) /\ Execute(Posted(c))
  /\ chunks' = Tail(chunks)
  /\ Continue
  /\ UNCHANGED <<fixed, added, buffer, m_stopping, deletes, needToRetry>>

ChunkBusy ==
  /\ InChunk /\ "busy" \in faults /\ Inside(Head(chunks))
  /\ chunks' = [chunks EXCEPT ![1].retry = TRUE]
  /\ Continue
  /\ UNCHANGED <<fixed, added, buffer, m_stopping, indexer, deletes, needToRetry>>

ChunkRefused413 ==
  /\ InChunk
  /\ LET c == Head(chunks)
     IN  /\ Inside(c) /\ TooLarge(c)
         /\ IF c.lo < c.hi
            THEN /\ chunks' = Halves(c.lo, c.hi) \o Tail(chunks)
                 /\ Continue
                 /\ UNCHANGED <<deletes, needToRetry>>
            ELSE Throw
  /\ UNCHANGED <<fixed, added, buffer, m_stopping, indexer>>

\* Variant: the error is logged and the next chunk sent.
ChunkRejectedSkips ==
  /\ InChunk
  /\ LET c == Head(chunks)
     IN  /\ Inside(c) /\ ~TooLarge(c)
         /\ \/ ~Whole(c) /\ UNCHANGED indexer
            \/ Whole(c) /\ "rejected" \in faults /\ ExecuteSome(Posted(c))
  /\ chunks' = Tail(chunks)
  /\ Continue
  /\ UNCHANGED <<fixed, added, buffer, m_stopping, deletes, needToRetry>>

\* Failed items or another status; a body of other than whole operations is
\* always refused.  m_bulkData stays.
ChunkRejected ==
  /\ InChunk
  /\ LET c == Head(chunks)
     IN  /\ Inside(c) /\ ~TooLarge(c)
         /\ \/ ~Whole(c) /\ UNCHANGED indexer
            \/ Whole(c) /\ "rejected" \in faults /\ ExecuteSome(Posted(c))
  /\ Throw
  /\ UNCHANGED <<fixed, added, buffer, m_stopping>>

\* Bytes outside m_bulkData: undefined, the request fails or the process ends.
ChunkUndefined ==
  /\ InChunk /\ ~Inside(Head(chunks))
  /\ \/ Throw
     \/ /\ pc' = "stopped"
        /\ UNCHANGED <<m_deleteByQuery, m_shouldNotifyAfterBulk, locals>>
  /\ UNCHANGED <<fixed, added, buffer, m_stopping, indexer>>

Answered ==
  \/ SendDelete \/ OnlyDeletes \/ ToBulk \/ SplitDone \/ Return
  \/ BulkSent \/ BulkRefused413 \/ BulkRejected
  \/ ChunkSent \/ ChunkRefused413 \/ ChunkRejected \/ ChunkUndefined

Next == BulkIndex \/ DeleteByQuery \/ Flush \/ BulkThread \/ Stop \/ Answered \/ BulkBusy \/ ChunkBusy

Spec == Init /\ [][Next]_vars

\* A call goes on, and the indexer does not answer 429 for ever.
LiveSpec == Spec /\ WF_vars(Answered)

-----------------------------------------------------------------------------
Callers == {"none", "index", "flush", "thread"}

Chunks == [from : Nat, to : Nat, lo : Nat, hi : Nat, retry : BOOLEAN]

\* The variables have their types.
TypeOK ==
  /\ size \in Seq(Nat \ {0}) /\ maxContent \in Nat
  /\ added \in 0..Len(size)
  /\ m_bulkData \in Seq(Ops)
  /\ m_boundaries \in Seq(Nat)
  /\ m_deleteByQuery \subseteq {Delete} /\ deletes \subseteq m_deleteByQuery
  /\ m_shouldNotifyAfterBulk \in BOOLEAN /\ m_stopping \in BOOLEAN /\ needToRetry \in BOOLEAN
  /\ pc \in {"idle", "deletes", "bulk", "chunk", "returned", "stopped"}
  /\ caller \in Callers
  /\ chunks \in Seq(Chunks)
  /\ \A i \in 1..Len(chunks) : 1 <= chunks[i].lo /\ chunks[i].lo <= chunks[i].hi
                                 /\ chunks[i].hi <= Len(m_boundaries)
  /\ executed \subseteq Ops \cup {Delete} /\ order \subseteq executed \X executed
  /\ batch \in Seq(Ops)
  /\ before \in [executed : SUBSET (Ops \cup {Delete}), notify : BOOLEAN]

\* m_boundaries describes m_bulkData, through appends, splits, failed halves
\* and retries, so that every chunk is a run of whole operations.  (A failing
\* delete-by-query clears m_bulkData and not m_boundaries.)
ChunksAreWhole ==
  "delete" \notin faults =>
    /\ m_boundaries = [k \in 1..Len(m_bulkData) |-> End(k)]
    /\ \A i \in 1..Len(chunks) : Inside(chunks[i]) /\ Whole(chunks[i])

\* When processBulk returns, every operation that was in the buffer has been
\* executed, and for any two of them on one document the later one was
\* executed last, however the buffer was cut up and repeated.
ReturnIsComplete ==
  pc = "returned" /\ ~m_stopping =>
    /\ Range(batch) \subseteq executed
    /\ \A i, j \in 1..Len(batch) : i < j => <<batch[i], batch[j]>> \in order

\* The connector as the manager's sessions see it: a call of processBulk is
\* one step, taken when it ends.
InCall == pc \notin {"idle", "returned", "stopped"}
SeenData == Range(IF InCall THEN batch ELSE m_bulkData)
SeenNotify == IF InCall THEN before.notify ELSE m_shouldNotifyAfterBulk
SeenIndexed == IF InCall THEN before.executed ELSE executed
seen == <<SeenData, SeenNotify, SeenIndexed, m_deleteByQuery>>

Connector == INSTANCE IndexerConnectorSync WITH
  m_bulkData <- SeenData,
  m_notify <- <<>>,
  m_shouldNotifyAfterBulk <- SeenNotify,
  indexed <- SeenIndexed

\* What one step may do to the connector as the sessions see it.
CallStep ==
  \/ Connector!ProcessBulk({}) /\ SeenNotify'
  \/ Connector!ProcessBulkThrows(SeenNotify)
  \/ /\ \E op \in Ops : SeenData' = SeenData \cup {op}
     /\ UNCHANGED <<SeenNotify, SeenIndexed, m_deleteByQuery>>
  \/ /\ m_deleteByQuery' = m_deleteByQuery \cup {Delete}
     /\ UNCHANGED <<SeenData, SeenNotify, SeenIndexed>>
  \/ ~SeenNotify' /\ UNCHANGED <<SeenData, SeenIndexed, m_deleteByQuery>>

\* A call of many requests, splits and retries is to the sessions either the
\* ProcessBulk or the ProcessBulkThrows of IndexerConnectorSync, and nothing
\* enters or leaves the buffer otherwise but what its callers add.  (Without
\* 409 or 429 to a delete, which processBulk takes for its execution, and up
\* to the connector's end.)
CallIsAtomic == [][CallStep \/ "skipped" \in faults \/ m_stopping]_seen

\* processBulk returns or throws.
CallEnds == InCall ~> ~InCall

\* A chunk given up as a single operation the indexer does not take holds a
\* single operation.  (It does not: see Halves.)
SingleIsSingle ==
  InChunk => LET c == Head(chunks)
             IN  Inside(c) /\ Whole(c) /\ TooLarge(c) /\ c.lo = c.hi => Len(Posted(c)) = 1
============================================================================
