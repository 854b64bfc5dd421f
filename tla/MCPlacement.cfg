SPECIFICATION Spec
CONSTANTS
  n1 = n1 n2 = n2 n3 = n3
  q1 = q1 q2 = q2 q3 = q3
  s1 = s1 s2 = s2
  AnyProvider = AnyProvider NoOne = NoOne
  Node = {n1, n2, n3}
  Pod = {q1, q2, q3}
  Scheduler = {s1, s2}
  Selector <- AllSelectors
  Labels <- Fleet
  Asked <- AskedFor
  Old <- OldPods
  MaxLosses = 1
  MaxFlaps = 1
SYMMETRY Symmetry
INVARIANTS
  PodsHaveNodes
PROPERTIES
  CreationLeavesRoom
CHECK_DEADLOCK FALSE
