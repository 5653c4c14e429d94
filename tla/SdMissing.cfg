SPECIFICATION Spec
CONSTANTS
  LeafSteps = {}
  LeafProfiles = {"buildroot"}
  Board = "aes"
  Profile = "buildroot"
  Steps <- MCSteps
  Names <- MCNames
  Sources <- MCSources
  Outputs <- MCOutputs
  Name <- MCName
  Listed <- MCListed
  Opaque <- MCOpaque
  Needs <- MCNeeds
  Writes <- MCWrites
  Shipped = {"initramfs.cpio.gz"}
  OutDir <- MCOutDir
  Built <- MCBuilt
  Commands <- SdCard
  Leaves <- MCLeaves
  Editable = {}
  Cuts = {}
  Forcible = {FALSE}
  MaxEdits = 0
  MaxQuiet = 0
  MaxRuns = 1
  MaxBreaks = 0
INVARIANTS
  NothingMissing
CHECK_DEADLOCK FALSE
