SPECIFICATION FairSpec
CONSTANTS
  NoThread = NoThread
  Thread = {t1, t2, t3}
  Tx = {x1, x2}
  MaxCalls = 5
INVARIANT Inv IntruderBound
PROPERTY CallsReturn
CHECK_DEADLOCK FALSE
