SPECIFICATION Spec
CONSTANTS
  Kinds = {"emmc"}
  At <- MCAt
  Lengths = {1, 2}
  SdMib = 1
  SizeMibs = {0, 5, 7}
  Mibs = {1, 2}
  Disks = {"sys", "card"}
  NoDisk = NoDisk
  Nodes = {"sdb", "mmcblk0"}
  Digits = {"mmcblk0"}
  System = "sys"
  Layered = TRUE
  Capacity <- MCCapacity
  MaxEdits = 1
INVARIANTS
  ShrinkFits
