SPECIFICATION Spec
CONSTANTS
  Key = Key
  NoSecret = NoSecret
  Secrets = {Key}
  SegmentBytes = 4
  SourceSize = 2
  RestoredSize = 3
  Lead = 1
  MaxEvents = 3
  MaxRestored = 0
  MaxRuns = 2
  MaxServes = 1
CHECK_DEADLOCK FALSE
INVARIANTS
  TypeOK
  CopyIsPrefix
  StateFollowsLog
  ErasureCarries
