SPECIFICATION Spec
CONSTANTS
  Worker = {w1}
  Scheduler = {s1}
  NoOne = NoOne
  Slots = 1
  MaxWorkers = 1
  MaxDemand = 1
  Faults = {"list"}
  MaxFaults = 1
PROPERTY
  BusyRunnerNotKilled
