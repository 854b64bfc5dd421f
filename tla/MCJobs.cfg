SPECIFICATION FairSpec
CONSTANTS
  Job = {j1, j2}
  Pod = {p1}
  Null = Null
  Blank = Blank
  MaxFaults = 1
INVARIANTS
  TypeOK
  RowBehindGitHub
  OneJobPerRunner
  FailedOnGitHubsWord
PROPERTIES
  ForwardOnly
  OverJobLeavesDemand
  StartedJobLeavesPending
