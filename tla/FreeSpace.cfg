SPECIFICATION Spec
CONSTANTS
  MaxPage = 9
  MaxKills = 2
INVARIANT OwnedIsReadable LeakBound Inv
PROPERTY NoDoubleAllocation
