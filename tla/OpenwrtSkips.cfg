SPECIFICATION Spec
CONSTANTS
  LeafSteps = {}
  LeafProfiles = {"buildroot"}
  Board = "aes"
  Profile = "openwrt"
  Steps <- MCSteps
  Names <- MCNames
  Sources <- MCSources
  Outputs <- MCOutputs
  Name <- MCName
  Listed <- MCListed
  Opaque <- MCOpaque
  Needs <- MCNeeds
  Writes <- MCWrites
  Shipped = {"initramfs.cpio.gz"}
  OutDir <- MCOutDir
  Built <- MCBuilt
  Commands <- PackOnly
  Leaves <- MCLeaves
  Editable = {{"TARGET_DIR"}}
  Cuts = {}
  Forcible = {FALSE}
  MaxEdits = 1
  MaxQuiet = 0
  MaxRuns = 2
  MaxBreaks = 0
INVARIANTS
  ChangesReachImages
CHECK_DEADLOCK FALSE
