SPECIFICATION Spec
CONSTANTS
  LeafSteps = {"fit"}
  LeafProfiles = {"buildroot"}
  Board = "aes"
  Profile = "buildroot"
  Steps <- MCSteps
  Names <- MCNames
  Sources <- MCSources
  Outputs <- MCOutputs
  Name <- MCName
  Listed <- MCListed
  Opaque <- MCOpaque
  Needs <- MCNeeds
  Writes <- MCWrites
  Shipped = {"initramfs.cpio.gz"}
  OutDir <- MCOutDir
  Built <- MCBuilt
  Commands <- EveryVariant
  Leaves <- MCLeaves
  Editable = {{"rootfs.tar"}}
  Cuts = {}
  Forcible = {TRUE, FALSE}
  MaxEdits = 1
  MaxQuiet = 1
  MaxRuns = 2
  MaxBreaks = 1
INVARIANTS
  SkipIsRerun
CHECK_DEADLOCK FALSE
