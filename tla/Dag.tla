-------------------------------- MODULE Dag --------------------------------
(***************************************************************************)
(* The step graphs Orchestrator builds for each storage kind and rootfs    *)
(* profile (forge/core/dag.py), as tables of steps.  A step has the stage  *)
(* name it is recorded under, the inputs dag.py lists for it, and what its *)
(* action writes; NeedsOf gives, per artefact, the files the packer reads  *)
(* to make it, which is not always what dag.py lists.                      *)
(*                                                                         *)
(* A file is named by its last path component.  Tools and modules that no  *)
(* list mentions (mkimage, mke2fs, log.py, ...) are left out.              *)
(***************************************************************************)
EXTENDS Naturals, Sequences, TLC

\* The three boards: rk3588-topeet, rk3568-atk and aes.
Emmc(board) == board \in {"rk3588", "rk3568"}

PackLoader ==
  [name |-> "pack-loader",
   listed |-> {"RKBOOT.ini", "rkbin", "loader.py", "rkbin.py", "board.yaml"},
   writes |-> {"MiniLoaderAll.bin", "idblock.img"}]

\* What each profile stages from; user/*.yaml is appended for every profile.
StageInputs(profile) ==
  CASE profile = "openwrt" -> {".openwrt-built"}
    [] profile = "ubuntu" -> {"ubuntu-rootfs.tar", ".ubuntu-rootfs-built"}
    [] profile = "buildroot" -> {"rootfs.tar"}

StageRootfs(profile) ==
  [name |-> "stage-rootfs",
   listed |-> StageInputs(profile) \cup {"stage.py", "user.yaml"},
   writes |-> {"rootfs"}]

\* The staged tree, and for pack-emmc the record of the step that staged it.
PackEmmc ==
  [name |-> "pack-emmc",
   listed |-> {"rootfs", "stage-rootfs", "boot-emmc.cmd", "emmc.py", "board.yaml"},
   writes |-> {"rootfs.ext4"}]

PackFitEmmc ==
  [name |-> "pack-fit",
   listed |-> {"kernel.its", "Image", "dtb", "u-boot.itb",
               "fit.py", "fit_pack.py", "board.yaml"},
   writes |-> {"out/u-boot.itb", "out/idbloader.img", "boot.img"}]

PackUbifs ==
  [name |-> "pack-ubifs",
   listed |-> {"rootfs", "rootfs.tar", "ubifs.py", "board.yaml"},
   writes |-> {"rootfs.ubi.img"}]

BuildInitramfs ==
  [name |-> "build-initramfs",
   listed |-> {"init", "ubiprog.c", "forge.yaml", "rootfs.ubi.img", "initramfs.py"},
   writes |-> {"initramfs.cpio.gz"}]

PackFitNand ==
  [name |-> "pack-fit",
   listed |-> {"mainline.its", "kernel.its", "kernel-nand.its", "Image", "dtb",
               "u-boot-nodtb.bin", "u-boot.dtb", "initramfs.cpio.gz",
               "fit.py", "fit_pack.py", "board.yaml"},
   writes |-> {"uboot.img", "boot.img", "boot-nand.img", "boot-sd.img"}]

BuildUbootSd ==
  [name |-> "build-uboot-sd",
   listed |-> {"sd_defconfig", "uboot.py"},
   writes |-> {"bringup/u-boot-sd-nodtb.bin", "bringup/u-boot-sd.dtb"}]

PackFitSd ==
  [name |-> "pack-fit-sd",
   listed |-> {"out/u-boot-sd-nodtb.bin", "out/u-boot-sd.dtb", "mainline.its",
               "fit.py", "fit_pack.py", "board.yaml"},
   writes |-> {"uboot.img", "uboot-sd.img"}]

PackSd ==
  [name |-> "pack-sd",
   listed |-> {"idblock.img", "uboot.img", "boot.img", "rootfs", "sd.py", "board.yaml"},
   writes |-> {"rootfs.ext4", "sd.img"}]

\* `forge build uboot --variant sd`, which no stage records.
LeafUbootSd ==
  [name |-> "build uboot sd", listed |-> {},
   writes |-> {"out/u-boot-sd-nodtb.bin", "out/u-boot-sd.dtb"}]

Tools == {"assemble.py", "rkfw_pack.py", "board.yaml"}

AssembleEmmc ==
  [name |-> "assemble-emmc",
   listed |-> {"boot.img", "rootfs.ext4", "out/u-boot.itb", "MiniLoaderAll.bin",
               "parameter.emmc"} \cup Tools,
   writes |-> {"update.img"}]

AssembleSd ==
  [name |-> "assemble-sd",
   listed |-> {"boot-sd.img", "rootfs.ext4", "uboot-sd.img", "MiniLoaderAll.bin",
               "parameter.sd", "package.sd"} \cup Tools,
   writes |-> {"update-sd.img"}]

\* The provision, nand and rescue variants are one stage to Stage.run.
UpdateOf == [provision |-> "update.img", nand |-> "update-nand.img",
             rescue |-> "update-rescue.img"]

Assemble(variant) ==
  [name |-> "assemble",
   listed |-> {"boot.img", "rootfs.ubi.img", "uboot.img", "MiniLoaderAll.bin",
               "parameter.nand"} \cup Tools,
   writes |-> {UpdateOf[variant]}]

\* The whole graph of a board under a rootfs profile.
Graph(board, profile) ==
  IF Emmc(board)
  THEN [loader |-> PackLoader, stage |-> StageRootfs(profile), emmc |-> PackEmmc,
        fit |-> PackFitEmmc, assemble |-> AssembleEmmc]
  ELSE [loader |-> PackLoader, stage |-> StageRootfs(profile), ubifs |-> PackUbifs,
        initramfs |-> BuildInitramfs, fit |-> PackFitNand,
        ubootsd |-> BuildUbootSd, fitsd |-> PackFitSd, sd |-> PackSd,
        assemblesd |-> AssembleSd, provision |-> Assemble("provision"),
        nand |-> Assemble("nand"), rescue |-> Assemble("rescue"),
        leafubootsd |-> LeafUbootSd]

-----------------------------------------------------------------------------
(* What the packers read.                                                  *)

\* SPL_SOURCE=mainline takes the SPL `forge build uboot` left in the tree.
LoaderNeeds(board) ==
  {"RKBOOT.ini", "rkbin", "loader.py", "rkbin.py", "board.yaml"}
    \cup (IF board = "rk3588" THEN {"u-boot-spl.bin"} ELSE {})

\* Only the ubuntu profile bakes the user's configuration into the tree.
TreeNeeds(profile) ==
  CASE profile = "openwrt" -> {"TARGET_DIR", "stage.py"}
    [] profile = "ubuntu" -> {"ubuntu-rootfs.tar", "stage.py", "user.yaml",
                              "pubkey", "forge.yaml"}
    [] profile = "buildroot" -> {"rootfs.tar", "stage.py"}

FitCode == {"fit.py", "fit_pack.py", "board.yaml"}

BootPieces == {"Image", "dtb"} \cup FitCode

EmmcNeeds ==
  [w \in {"rootfs.ext4", "out/u-boot.itb", "out/idbloader.img", "boot.img",
          "update.img"} |->
    CASE w = "rootfs.ext4" -> {"rootfs", "boot-emmc.cmd", "emmc.py", "board.yaml"}
      [] w = "out/u-boot.itb" -> {"u-boot.itb", "fit.py", "board.yaml"}
      [] w = "out/idbloader.img" -> {"idbloader.img", "fit.py", "board.yaml"}
      [] w = "boot.img" -> {"kernel.its"} \cup BootPieces
      [] w = "update.img" -> {"boot.img", "rootfs.ext4", "out/u-boot.itb",
                              "MiniLoaderAll.bin", "parameter.emmc", "package.emmc"}
                             \cup Tools]

UbootPieces == {"mainline.its", "u-boot-nodtb.bin", "u-boot.dtb", "rkbin"} \cup FitCode

NandUpdate == {"uboot.img", "MiniLoaderAll.bin", "parameter.nand"} \cup Tools

NandNeeds ==
  [w \in {"rootfs.ubi.img", "initramfs.cpio.gz", "uboot.img", "boot.img",
          "boot-nand.img", "boot-sd.img", "update.img", "update-nand.img",
          "update-rescue.img"} |->
    CASE w = "rootfs.ubi.img" -> {"rootfs", "ubifs.py", "board.yaml"}
      [] w = "initramfs.cpio.gz" -> {"init", "ubiprog.c", "forge.yaml",
                                     "rootfs.ubi.img", "initramfs.py"}
      [] w = "uboot.img" -> UbootPieces
      [] w = "boot.img" -> {"kernel.its", "initramfs.cpio.gz"} \cup BootPieces
      [] w = "boot-nand.img" -> {"kernel-nand.its"} \cup BootPieces
      [] w = "boot-sd.img" -> {"kernel-sd.its"} \cup BootPieces
      [] w = "update.img" -> {"boot.img", "rootfs.ubi.img", "package.nand"} \cup NandUpdate
      [] w = "update-nand.img" -> {"boot-nand.img", "rootfs.ubi.img", "package.nand"}
                                  \cup NandUpdate
      [] w = "update-rescue.img" -> {"boot.img", "package.rescue"} \cup NandUpdate]

SdUboot == {"bringup/u-boot-sd-nodtb.bin", "bringup/u-boot-sd.dtb",
            "out/u-boot-sd-nodtb.bin", "out/u-boot-sd.dtb"}

\* mainline.its includes a tee.bin that the sd branch of FitPacker.pack does
\* not stage: "sd tee.bin" stands for that piece, which nothing writes.
SdNeeds ==
  [w \in SdUboot \cup {"uboot-sd.img", "rootfs.ext4", "sd.img", "update-sd.img"} |->
    CASE w \in SdUboot -> {"sd_defconfig", "uboot.py", "u-boot tree"}
      [] w = "uboot-sd.img" -> {"mainline.its", "out/u-boot-sd-nodtb.bin",
                                "out/u-boot-sd.dtb", "sd tee.bin"} \cup FitCode
      [] w = "rootfs.ext4" -> {"rootfs", "sd.py"}
      [] w = "sd.img" -> {"idblock.img", "uboot.img", "boot.img", "rootfs", "sd.py"}
      [] w = "update-sd.img" -> {"boot-sd.img", "rootfs.ext4", "uboot-sd.img",
                                 "MiniLoaderAll.bin", "parameter.sd", "package.sd"}
                                \cup Tools]

NeedsOf(board, profile) ==
  [w \in {"MiniLoaderAll.bin", "idblock.img"} |-> LoaderNeeds(board)]
    @@ [w \in {"rootfs"} |-> TreeNeeds(profile)]
    @@ IF Emmc(board) THEN EmmcNeeds
       ELSE NandNeeds @@ SdNeeds @@ [w \in {"sd tee.bin"} |-> {}]

-----------------------------------------------------------------------------
(* The constants of the module Stage for a board and a profile.            *)

NameOf(g) == [s \in DOMAIN g |-> g[s].name]
ListedOf(g) == [s \in DOMAIN g |-> g[s].listed]
WritesOf(g) == [s \in DOMAIN g |-> g[s].writes]

NamesOf(g) == {g[s].name : s \in DOMAIN g}

\* `tables`: what the commands may read, the orchestrator's own table included.
SourcesOf(g, needs, tables) ==
  (UNION ({g[s].listed : s \in DOMAIN g}
            \cup UNION {{t[w] : w \in DOMAIN t} : t \in tables}))
    \ (DOMAIN needs \cup NamesOf(g))

\* The rkbin blobs are *.bin and *.elf files, and the staged tree is binaries
\* and data: the find filter of Stage.fingerprint keeps nothing of either.
OpaqueDirs == {"rkbin", "rootfs"}

\* Files outside out/<board>/: `forge clean` leaves them.
InTree == {"bringup/u-boot-sd-nodtb.bin", "bringup/u-boot-sd.dtb",
           "initramfs.cpio.gz", "sd tee.bin"}

OutDirOf(needs) ==
  (DOMAIN needs \ InTree)
    \cup {".openwrt-built", "ubuntu-rootfs.tar", ".ubuntu-rootfs-built"}

\* What mrproper and buildroot's clean remove; OpenWrt's tree is left alone.
BuiltBy(profile) ==
  {"u-boot.itb", "idbloader.img", "u-boot-spl.bin", "u-boot-nodtb.bin",
   "u-boot.dtb", "rootfs.tar"}
    \cup (IF profile = "openwrt" THEN {} ELSE {"Image", "dtb"})

\* Orchestrator.pack, pack_sd and assemble; `forge all` packs and assembles in
\* one process.
Pack(board) == IF Emmc(board) THEN <<"loader", "stage", "emmc", "fit">>
               ELSE <<"loader", "stage", "ubifs", "initramfs", "fit">>

PackSdSteps(board) == Pack(board) \o <<"ubootsd", "fitsd", "sd">>

AssembleSteps(board, variant) ==
  CASE Emmc(board) -> <<"assemble">>
    [] variant = "sd" -> PackSdSteps(board) \o <<"assemblesd">>
    [] OTHER -> <<variant>>

AllSteps(board, variant) == Pack(board) \o AssembleSteps(board, variant)

-----------------------------------------------------------------------------
(* The leaf commands, which run one action without Stage.run.              *)

\* `forge stage --profile`, whatever the profile of the pack; the default is
\* buildroot.
StageProfiles == {"buildroot", "openwrt", "ubuntu"}

StagedFrom(needs, profile) == [needs EXCEPT !["rootfs"] = TreeNeeds(profile)]

\* `forge pack fit --kernel-dir`: the same packer over another kernel.
FromKernelDir(needs) ==
  LET Moved(f) == CASE f = "Image" -> "kernel-dir/Image"
                    [] f = "dtb" -> "kernel-dir/dtb"
                    [] OTHER -> f
  IN  [w \in DOMAIN needs |-> {Moved(f) : f \in needs[w]}]

LeafCommands(board) ==
  IF Emmc(board) THEN {"loader", "stage", "emmc", "fit"}
  ELSE {"loader", "stage", "ubifs", "initramfs", "fit", "fitsd", "sd", "leafubootsd"}

\* What the leaf commands of step s may read, one table per choice of flags.
\* `forge pack fit --variant sd` is the leaf of step fitsd.
LeafTables(board, profile, s) ==
  LET needs == NeedsOf(board, profile)
  IN  CASE s \notin LeafCommands(board) -> {}
        [] s = "stage" -> {StagedFrom(needs, p) : p \in StageProfiles}
        [] s = "fit" -> {needs, FromKernelDir(needs)}
        [] OTHER -> {needs}
=============================================================================
