SPECIFICATION Spec
CONSTANTS
  Variants = {"nand"}
  Manifests <- MCManifests
  Sizes <- MCSizes
  Slots <- MCSlots
  U32 = 16000
INVARIANTS
  NoEmptyPartition
CHECK_DEADLOCK FALSE
