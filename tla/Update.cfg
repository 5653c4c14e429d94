SPECIFICATION Spec
CONSTANTS
  Variants = {"emmc", "nand", "rescue", "sd"}
  Manifests <- MCManifests
  Sizes <- MCSizes
  Slots <- MCSlots
  U32 = 16000
INVARIANTS
  TypeOK
  NoOverlap
  Delivers
  StaysInPartition
CHECK_DEADLOCK FALSE
