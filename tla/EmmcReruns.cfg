SPECIFICATION Spec
CONSTANTS
  LeafSteps = {"stage"}
  LeafProfiles = {"buildroot", "ubuntu"}
  Board = "rk3588"
  Profile = "ubuntu"
  Steps <- MCSteps
  Names <- MCNames
  Sources <- MCSources
  Outputs <- MCOutputs
  Name <- MCName
  Listed <- MCListed
  Opaque <- MCOpaque
  Needs <- MCNeeds
  Writes <- MCWrites
  Shipped = {}
  OutDir <- MCOutDir
  Built <- MCBuilt
  Commands <- PackThenAssemble
  Leaves <- MCLeaves
  Editable = {{"ubuntu-rootfs.tar", ".ubuntu-rootfs-built"}}
  Cuts = {{"rootfs"}, {"rootfs.ext4"}}
  Forcible = {TRUE, FALSE}
  MaxEdits = 1
  MaxQuiet = 1
  MaxRuns = 3
  MaxBreaks = 1
INVARIANTS
  TypeOK
  SkipIsRerun
  RerunSkips
  ForceDelivers
  PackDelivers
CHECK_DEADLOCK FALSE
