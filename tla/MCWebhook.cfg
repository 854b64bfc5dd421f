SPECIFICATION Spec
CONSTANTS
  j1 = j1 p1 = p1
  Job = {j1}
  Pod = {p1}
  Null = Null Blank = Blank
  Delivery = {d1, d2}
  MaxAttempts = 2
  MaxRedeliveries = 1
  Messages <- AllHooks
  Kinds <- AllKinds
  BannedEntities = {"banned"}
  BannedSenders = {"abuser"}
  StagingEntities = {"riseproject-staging"}
  Faults = {"db", "net", "crash"}
  MaxFaults = 1
SYMMETRY Symmetry
INVARIANTS
  AcknowledgedJobStored
  StoredWhereItBelongs
  BannedReachesNeither
  AcceptedHasRow
  LogAgreesWithTable
PROPERTIES
  TablesForward
CHECK_DEADLOCK FALSE
