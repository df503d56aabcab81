------------------------- MODULE IndexerConnectorSync -------------------------
(***************************************************************************)
(* The manager's buffered connection to the indexer.  Documents and        *)
(* delete-by-query requests of all sessions share one buffer, which is     *)
(* sent when it is full (inside bulkIndex), on flush(), or by the bulk     *)
(* thread; the completion callbacks of all sessions share one list, which  *)
(* is run after a successful send.  Everything here happens under the      *)
(* connector's mutex, which scopeLock hands to the caller.                 *)
(***************************************************************************)
EXTENDS Naturals, Sequences, FiniteSets

CONSTANTS
  MaxBulkSize   \* documents the buffer holds

VARIABLES
  m_bulkData,              \* documents waiting to be sent
  m_deleteByQuery,         \* delete requests waiting (both kinds)
  m_notify,                \* sessions whose completion callback is registered
  m_shouldNotifyAfterBulk,
  indexed                  \* what the indexer has executed (external)

connectorVars == <<m_bulkData, m_deleteByQuery, m_notify, m_shouldNotifyAfterBulk, indexed>>

ConnectorInit ==
  /\ m_bulkData = {}
  /\ m_deleteByQuery = {}
  /\ m_notify = <<>>
  /\ m_shouldNotifyAfterBulk = FALSE
  /\ indexed = {}

HasWork == m_bulkData # {} \/ m_deleteByQuery # {}

Full == Cardinality(m_bulkData) >= MaxBulkSize

\* Variant: the documents after a delete request are not sent.
SentSkipsBulk == IF m_deleteByQuery # {} THEN m_deleteByQuery ELSE m_bulkData

\* What a successful processBulk has the indexer execute.
Sent == m_deleteByQuery \cup m_bulkData

\* processBulk without an error; next are the documents buffered after it.
ProcessBulk(next) ==
  /\ indexed' = indexed \cup Sent
  /\ m_bulkData' = next
  /\ m_deleteByQuery' = {}

\* processBulk throws; some of the requests may have been executed.  The
\* documents are dropped, except when they were being sent in halves: then all
\* stay, like the delete requests, for the next attempt.  An error after the
\* halves were sent leaves the flag set.
ProcessBulkThrows(notify) ==
  /\ \E some \in SUBSET Sent : indexed' = indexed \cup some
  /\ m_bulkData' \in {{}, m_bulkData}
  /\ \/ m_shouldNotifyAfterBulk' = notify
     \/ m_bulkData' = {} /\ Sent \subseteq indexed' /\ m_shouldNotifyAfterBulk' = TRUE
  /\ UNCHANGED m_deleteByQuery

\* Run the callbacks when the send called for it: what the calling thread
\* takes out of m_notify.
TakenIf(notify) == IF notify THEN m_notify ELSE <<>>

\* Variant: the list is copied, not moved.
LeftIfCopied(notify) == m_notify

LeftIf(notify) == IF notify THEN <<>> ELSE m_notify
==============================================================================
