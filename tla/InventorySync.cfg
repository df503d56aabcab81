CONSTANTS
  Agents = {a1}
  Modules = {m1, m2}
  Sids = {s1, s2}
  NoSid = NoSid
  Environments <- MCEnvironments
  m_maxSessions = 2
  Quota = 3
  MaxBulkSize = 1
  Workers = 1
SPECIFICATION LiveSpec
INVARIANTS TypeOK QuotaConserved LockHasHolder AckedIsIndexed OneAnswer
PROPERTIES LockReleased EndIsAnswered
CHECK_DEADLOCK FALSE
