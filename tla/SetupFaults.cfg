SPECIFICATION Spec
CONSTANTS
  Patches <- MCPatches
  MaxText = 2
  Bad <- MCBad
  Lists <- MCAllLists
  NoSeries = NoSeries
  Pins = {"v1", "v2"}
  Tip = "tip"
  NoTree = NoTree
  NoDigest = NoDigest
  Commands = {"setup", "fetch", "apply", "check"}
  Forcible = {FALSE, TRUE}
  Changes = {"edit", "list", "pin", "refetch", "work", "clean"}
  MaxBreaks = 1
  MaxChanges = 2
INVARIANTS
  TypeOK
  SkipSound
  SetupDelivers
  RollsBack
  DriverStays
