CONSTANTS
  Callers = {t1}
  Shapes <- MCShapes
  m_retries = 1
  MaxCalls = 2
  MaxMishaps = 2
  Faults = {"silent"}
SPECIFICATION LiveSpec
INVARIANT NoSpuriousFailure
PROPERTIES ImplementsSession CallReturns
CHECK_DEADLOCK FALSE
