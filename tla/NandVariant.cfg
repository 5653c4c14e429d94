SPECIFICATION Spec
CONSTANTS
  LeafSteps = {}
  LeafProfiles = {"buildroot"}
  Board = "aes"
  Profile = "buildroot"
  Steps <- MCSteps
  Names <- MCNames
  Sources <- MCSources
  Outputs <- MCOutputs
  Name <- MCName
  Listed <- MCListed
  Opaque <- MCOpaque
  Needs <- MCNeeds
  Writes <- MCWrites
  Shipped = {"initramfs.cpio.gz"}
  OutDir <- MCOutDir
  Built <- MCBuilt
  Commands <- EveryVariant
  Leaves <- MCLeaves
  Editable = {}
  Cuts = {}
  Forcible = {FALSE}
  MaxEdits = 0
  MaxQuiet = 0
  MaxRuns = 2
  MaxBreaks = 0
INVARIANTS
  NandUpdateMade
CHECK_DEADLOCK FALSE
