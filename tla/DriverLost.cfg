SPECIFICATION Spec
CONSTANTS
  Patches <- MCPatches
  MaxText = 1
  Bad <- MCBad
  Lists <- MCLists
  NoSeries = NoSeries
  Pins = {"v1"}
  Tip = "tip"
  NoTree = NoTree
  NoDigest = NoDigest
  Commands = {"setup"}
  Forcible = {FALSE}
  Changes = {}
  MaxBreaks = 1
  MaxChanges = 0
INVARIANTS
  DriverThere
