SPECIFICATION FairSpec
CONSTANTS
  Worker = {w1}
  Scheduler = {s1}
  NoOne = NoOne
  Slots = 1
  MaxWorkers = 1
  MaxDemand = 1
  Faults = {"crash", "sql", "conn", "pods", "auth", "delete", "limit", "jit", "node"}
  MaxFaults = 2
PROPERTIES
  FailedWorkerFreesSlot
  OverPodSettlesRow
  IdleWorkerGivenUp
  BusyRunnerNotKilled
