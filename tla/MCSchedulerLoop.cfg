SPECIFICATION FairLoop
CONSTANTS
  e1 = e1 e2 = e2 p1 = p1
  NoJob = NoJob NoCap = NoCap
  Job = {j1, j2}
  Worker = {w1, w2}
  Entity <- Entities
  Pool <- OnePool
  Class <- OneBoard
  Slots <- OneSlot
  MaxWorkers <- CapOne
  Limited <- LimitedOne
  MaxFailures = 1
INVARIANTS
  NoLostWakeUp
PROPERTIES
  JobServed
