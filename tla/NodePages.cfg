SPECIFICATION Spec
CONSTANTS
  small = small
  large = large
  huge = huge
  Gone = Gone
  NoFrame = NoFrame
  Units <- MCUnits
  PageUnits = 2
  Value = {small, large, huge}
  MaxPage = 4
  MaxId = 3
  Kills = TRUE
INVARIANT Inv RestartMatches MemoryMatches
PROPERTY OneNodeAtATime
CONSTRAINT Unharmed
