SPECIFICATION FairSpec
CONSTANTS
  Ingests = {i1, i2}
  Timeout = 1
  Writing = 0
  AbandonedAfter = 3
  Interval = 2
  Superseded = Superseded
  Empty = Empty
  Idle = Idle
  Renewed = {"titles"}
  MaxDay = 1
  MaxLeftovers = 1
  MaxCrashes = 1
INVARIANTS
  TypeOK
  WholeDownload
  StagingSafe
  LeftoversSwept
PROPERTIES
  NeverBack
  RefreshGoesOn
