SPECIFICATION Spec
CONSTANTS
  e1 = e1 e2 = e2 p1 = p1 p2 = p2
  NoJob = NoJob NoCap = NoCap
  Job = {j1, j2, j3}
  Worker = {w1, w2, w3}
  Entity <- Entities
  Pool <- Pools
  Class <- OrgClasses
  Slots <- TwoSlots
  MaxWorkers <- CapOne
  Limited <- LimitedOne
  MaxFailures = NoCap
VIEW Seen
SYMMETRY Symmetry
INVARIANTS
  TypeOK
  PoolCapacity
  EntityCap
  FairShare
  FifoWithinEntity
  MetDemandHasRunner
