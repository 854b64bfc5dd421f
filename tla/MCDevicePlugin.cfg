SPECIFICATION FairSpec
CONSTANTS
  Hardware <- Nodes
  Threshold = 2
  MinInterval = 3
  HourLimit = 3
  Hour = 10
  MaxEvents = 2
  MaxFaults = 3
INVARIANTS
  MislabelledByEntryOnly
PROPERTIES
  SlotComesBack
  RestartsSpaced
