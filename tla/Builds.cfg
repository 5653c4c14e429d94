SPECIFICATION Spec
CONSTANTS
  Boards = {"aes", "atk"}
  Archs = {"arm", "arm64"}
  Arch <- MCArch
  Wifi = {"aes", "atk"}
  Hooks = {"aes"}
  Nand = {"aes"}
  Atf = {"atk"}
  None = None
  MaxSource = 2
  MaxBreaks = 2
  Menus = {{"all", "rootfs", "linux"}, {"uboot"}, {"openwrt", "owall"}}
INVARIANTS
  TypeOK
  ArchPure
  WifiShips
  UBootCurrent
  OpenwrtSound
