SPECIFICATION CSpec
CONSTANTS
  Handle = handle
  Engine = {handle, other}
  MaxInode = 3
  t1 = t1
  t2 = t2
  Thread <- MCThreads
  NoThread = NoThread
  Tx = {x1, x2}
  StatementError = {"Execution"}
  MaxCalls = 6
INVARIANTS Exclusion OneEngineUnlessRaced
SYMMETRY Symmetric
CHECK_DEADLOCK FALSE
