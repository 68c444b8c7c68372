SPECIFICATION Spec
CONSTANTS
  Runs = {r1, r2}
  NoRun = NoRun
  MaxTasks = 2
  MaxTurns = 1
  MaxParts = 1
  MaxWire = 2
  SlowFlush = FALSE
  MaxMoves = 2
SYMMETRY RunSymmetry
INVARIANTS
  OneRunShown
  EventsConserved
  
CHECK_DEADLOCK FALSE
