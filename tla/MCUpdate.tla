------------------------------ MODULE MCUpdate ------------------------------
(* Instances of Update: the package files of the boards (boards/*/package- *)
(* file*.txt), also with a row lost; partitions of a few sectors; lengths  *)
(* around a page and around the partitions.                                *)
EXTENDS Update

Head3 == <<[name |-> "package-file", base |-> "package-file"],
           [name |-> "bootloader", base |-> "MiniLoaderAll.bin"],
           [name |-> "parameter", base |-> "parameter.txt"]>>
Emmc == Head3 \o <<[name |-> "uboot", base |-> "u-boot.itb"], [name |-> "boot", base |-> "boot.img"],
                   [name |-> "rootfs", base |-> "rootfs.img"]>>
Nand == Head3 \o <<[name |-> "uboot", base |-> "uboot.img"], [name |-> "boot", base |-> "boot.img"],
                   [name |-> "rootfs", base |-> "rootfs.img"]>>
Rescue == SubSeq(Nand, 1, 5)

MCManifests ==
  [v \in Variants |->
     CASE v = "emmc" -> {Emmc, SubSeq(Emmc, 1, 5)}
       [] v = "rescue" -> {Rescue}
       [] v = "sd" -> {Nand}
       [] OTHER -> {Nand, <<Nand[4], Nand[5], Nand[6], Nand[1], Nand[2], Nand[3]>>}]
Part(kind, n, o) == [kind |-> kind, sectors |-> n, off |-> o]
MCSlots ==
  [p \in Partitions |->
     CASE p = "uboot" -> {Part("fixed", 4, 8), Part("absent", 0, 0)}
       [] p = "boot" -> {Part("fixed", 4, 12), Part("tagged", 4, 12)}
       [] OTHER -> {Part("fixed", 8, 16), Part("grow", 0, 16)}]
MCSizes == {Absent, 0, 2040, 2049, 4096}
=============================================================================
