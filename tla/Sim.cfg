SPECIFICATION Spec
CONSTANTS
  Benches <- MCBenches
  Screens <- MCScreens
  BgBlocks = 20
  StBlocks = 4
  Chunks = 2
  MaxStarts = 2
  MaxBreaks = 1
  MaxBase = 2
  MaxSpoken = 3
  MaxAsked = 2
  MaxSends = 2
  MaxLost = 1
INVARIANTS
  TypeOK
  SnapshotTrue
  WatchTrue
  SentWhole
  SendRetries
CHECK_DEADLOCK FALSE
