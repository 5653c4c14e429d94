SPECIFICATION Spec
CONSTANTS
  Boards = {"aes", "atk"}
  Archs = {"arm", "arm64"}
  Arch <- MCArch
  Wifi = {"aes", "atk"}
  Hooks = {"aes"}
  Nand = {"aes"}
  Atf = {"atk"}
  None = None
  MaxSource = 2
  MaxBreaks = 2
  Menus = {{"all", "rootfs", "linux"}, {"uboot"}, {"openwrt", "owall"}}
\* The claims of Builds; each is refuted by itself, so keep one at a time.
INVARIANT UBootGate
\* INVARIANT BinmanGate
\* INVARIANT WifiBaked
\* INVARIANT OpenwrtFound
\* INVARIANT FeedsThere
