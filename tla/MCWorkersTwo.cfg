SPECIFICATION Spec
CONSTANTS
  Worker = {w1, w2}
  Scheduler = {s1, s2}
  NoOne = NoOne
  Slots = 1
  MaxWorkers = 1
  MaxDemand = 2
  Faults = {"crash", "create", "kill", "list"}
  MaxFaults = 1
SYMMETRY Symmetry
INVARIANTS
  TypeOK
  LiveWorkerNotCompleted
  CapRespected
  CapacityRespected
PROPERTIES
  RowsForwardOnly
