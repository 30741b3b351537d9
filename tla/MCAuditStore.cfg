\* Three segments: two rotations, and two crashes, the second in the recovery.
SPECIFICATION FairSpec
CONSTANTS
  SegmentLen = 2
  FsyncInterval = 1
  MaxHash = 6
  MaxDate = 1
  MaxCrashes = 2
INVARIANTS ChainContinues ReplayFindsLog
PROPERTIES ImplementsJournal ComesBack
CHECK_DEADLOCK FALSE
