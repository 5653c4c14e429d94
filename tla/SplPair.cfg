SPECIFICATION Spec
CONSTANTS
  LeafSteps = {}
  LeafProfiles = {"buildroot"}
  Board = "rk3588"
  Profile = "ubuntu"
  Steps <- MCSteps
  Names <- MCNames
  Sources <- MCSources
  Outputs <- MCOutputs
  Name <- MCName
  Listed <- MCListed
  Opaque <- MCOpaque
  Needs <- MCNeeds
  Writes <- MCWrites
  Shipped = {}
  OutDir <- MCOutDir
  Built <- MCBuilt
  Commands <- PackOrAll
  Leaves <- MCLeaves
  Editable = {{"u-boot.itb", "idbloader.img", "u-boot-spl.bin"}}
  Cuts = {}
  Forcible = {FALSE}
  MaxEdits = 1
  MaxQuiet = 0
  MaxRuns = 2
  MaxBreaks = 0
INVARIANTS
  OneUbootBuild
CHECK_DEADLOCK FALSE
