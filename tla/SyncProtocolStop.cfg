CONSTANTS
  Callers = {t1}
  Shapes <- MCStop
  m_retries = 1
  MaxCalls = 2
  MaxMishaps = 0
  Faults = {"lateEnd", "emptied", "local", "stop"}
SPECIFICATION StopSpec
INVARIANT SuccessIsApplied
PROPERTY StopReturns
CHECK_DEADLOCK FALSE
