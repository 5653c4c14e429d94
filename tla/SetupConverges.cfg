SPECIFICATION FairSpec
CONSTANTS
  Patches <- MCPatches
  MaxText = 2
  Bad <- MCBad
  Lists <- MCLists
  NoSeries = NoSeries
  Pins = {"v1"}
  Tip = "tip"
  NoTree = NoTree
  NoDigest = NoDigest
  Commands = {"setup"}
  Forcible = {FALSE}
  Changes = {"edit", "list", "work"}
  MaxBreaks = 2
  MaxChanges = 1
PROPERTIES
  Converges
