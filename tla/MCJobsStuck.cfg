SPECIFICATION Spec
CONSTANTS
  Job = {j1}
  Pod = {p1}
  Null = Null
  Blank = Blank
  MaxFaults = 0
INVARIANT
  StuckJobNeverRan
