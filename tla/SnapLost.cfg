SPECIFICATION Spec
CONSTANTS
  Benches <- DeskBench
  Screens <- MCScreens
  BgBlocks = 20
  StBlocks = 4
  Chunks = 2
  MaxStarts = 3
  MaxBreaks = 1
  MaxBase = 1
  MaxSpoken = 0
  MaxAsked = 0
  MaxSends = 0
  MaxLost = 0
INVARIANT SavedIsThere
CHECK_DEADLOCK FALSE
