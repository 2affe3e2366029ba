SPECIFICATION Spec
CONSTANTS
  p1 = p1
  p2 = p2
  d0 = d0
  d1 = d1
  Absent = Absent
  Torn = Torn
  Page <- MCPage
  Data <- MCData
  InitialData = d0
  MaxFrames = 3
  MaxQueue = 2
  FullSync = TRUE
SYMMETRY MCSymmetry
INVARIANT Inv
PROPERTY Implements AckedIsRecoverable ResetKeepsImages
