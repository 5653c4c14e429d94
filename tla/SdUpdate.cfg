SPECIFICATION Spec
CONSTANTS
  Variants = {"sd"}
  Manifests <- MCManifests
  Sizes <- MCSizes
  Slots <- MCSlots
  U32 = 16000
INVARIANTS
  SdUpdateMade
CHECK_DEADLOCK FALSE
