SPECIFICATION Spec
CONSTANTS
  Patches <- MCPatches
  MaxText = 1
  Bad <- MCBadOnV2
  Lists <- MCLists
  NoSeries = NoSeries
  Pins = {"v1", "v2"}
  Tip = "tip"
  NoTree = NoTree
  NoDigest = NoDigest
  Commands = {"setup"}
  Forcible = {FALSE}
  Changes = {"pin"}
  MaxBreaks = 0
  MaxChanges = 2
INVARIANTS
  SetupAppliesSeries
