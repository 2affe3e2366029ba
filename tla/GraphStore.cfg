SPECIFICATION Spec
CONSTANTS
  x = x
  y = y
  u = u
  v = v
  Name = {x, y}
  Value = {u, v}
  EdgeValue = {w}
  Gone = Gone
  IndexName = {i1}
  MaxNode = 2
  MaxEdge = 2
  MaxEntries = 2
  MaxRepeating = 1
  MaxSource = 1
SYMMETRY MCSymmetry
INVARIANT Inv IndexIsScan EdgeIndexIsScan EndpointsLive RestartFinds LabelsKeepNames
CONSTRAINTS Unharmed RepeatsBriefly
