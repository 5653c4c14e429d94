------------------------------- MODULE Update -------------------------------
(***************************************************************************)
(* `forge assemble`: pack/assemble.py checks and pads the partition images *)
(* of one variant, tools/rkfw_pack.py lays them out in an update.img (the  *)
(* RKAF body: a table of records, then each image on its own pages), and   *)
(* assemble.py unpacks its own output and compares sizes.                  *)
(*                                                                         *)
(* Positions and sizes are bytes.  The content of a file is its name and   *)
(* its length; an image file that is read at the wrong place is Garbage.   *)
(* The body is built the way the code builds it: padded up to where an     *)
(* image should go, then *appended* to, so that an image whose place is    *)
(* taken already ends up somewhere else.                                   *)
(***************************************************************************)
EXTENDS Integers, Sequences

CONSTANTS
  Variants,    \* the variants of this instance
  Manifests,   \* Manifests[v]: the package files variant v may be given
  Sizes,       \* lengths of the files pack has written, Absent for no file
  Slots,       \* Slots[p]: what the parameter file may say of partition p
  U32          \* what struct.pack('<I') refuses: 2^32

Files == {"loader", "uboot", "boot", "rootfs", "parameter", "package"}
Partitions == {"uboot", "boot", "rootfs"}
Bases == {"package-file", "MiniLoaderAll.bin", "parameter.txt", "uboot.img",
          "uboot-sd.img", "u-boot.itb", "boot.img", "rootfs.img"}
Row == [name: STRING, base: Bases]
Kinds == {"fixed", "tagged", "grow", "absent"}   \* 0x1@0x2(p), 0x1@0x2(p:grow), -@0x2(p:grow)
Slot == [kind: Kinds, sectors: Nat, off: Nat]
Absent == -1
NoAddr == -1                                      \* 0xFFFFFFFF

ASSUME UpdateConstants ==
  /\ Variants \subseteq {"provision", "nand", "rescue", "sd", "emmc"}
  /\ Manifests \in [Variants -> SUBSET Seq(Row)]
  /\ Sizes \subseteq Nat \union {Absent}
  /\ Slots \in [Partitions -> SUBSET Slot]
  /\ U32 \in Nat

\* The package files of the boards (boards/*/package-file*.txt) name these rows alike.
ASSUME ManifestRows ==
  \A v \in Variants : \A m \in Manifests[v] : \A k \in DOMAIN m :
    /\ m[k].name = "boot" => m[k].base = "boot.img"
    /\ m[k].name = "rootfs" => m[k].base = "rootfs.img"

PAGE == 2048
RKFW_HDR == 102
RKAF_HDR == 140
ENTRY_SZ == 112

VARIABLES
  variant, verify,              \* the command: its variant, and no --no-verify
  rows, size, param,            \* the files it is given
  phase,                        \* where assemble is
  done,                         \* rows packed, appended or unpacked in this phase
  cursor, recs, images,         \* the loop over the package file
  segs, bodyLen,                \* the body that is being appended to
  update,                       \* the update.img on disk
  got                           \* the files the round trip has unpacked

input == <<variant, verify, rows, size, param>>
vars == <<variant, verify, rows, size, param, phase, done, cursor, recs, images, segs,
          bodyLen, update, got>>

Data(f, n) == IF n = 0 THEN [src |-> "", bytes |-> 0] ELSE [src |-> f, bytes |-> n]
NoData == [src |-> "missing", bytes |-> 0]
Garbage == [src |-> "garbage", bytes |-> 0]
NoImage == [state |-> "none"]
Torn == [state |-> "torn"]
RoundUp(x) == ((x + PAGE - 1) \div PAGE) * PAGE

-----------------------------------------------------------------------------
(* What the variant is made of, and what the parameter file says.          *)

UbootName(v) ==
  CASE v = "emmc" -> "u-boot.itb" [] v = "sd" -> "uboot-sd.img" [] OTHER -> "uboot.img"
Required(v) == IF v = "rescue" THEN Files \ {"rootfs"} ELSE Files

\* assemble.py wants exactly 0x..@0x..(label); rkfw_pack also takes a tagged label
PartBytes(p) == param[p].sectors * 512
HasPart(p) == param[p].kind = "fixed"
FlashOf(name) ==
  IF name = "parameter" THEN [size |-> 8192, addr |-> 0]
  ELSE IF name \in Partitions /\ param[name].kind \in {"fixed", "tagged"}
       THEN [size |-> param[name].sectors, addr |-> param[name].off]
       ELSE [size |-> 0, addr |-> NoAddr]

RootfsFits == HasPart("rootfs") /\ size["rootfs"] <= PartBytes("rootfs")
\* Mutant: boot is padded without asking whether the kernel fits.
BootAlwaysFits == HasPart("boot")
BootFits == HasPart("boot") /\ size["boot"] <= PartBytes("boot")

\* the Image directory: boot-nand.img is staged as boot.img, boot.img is padded
Staged(base) ==
  CASE base = "MiniLoaderAll.bin" -> Data("loader", size["loader"])
    [] base = "parameter.txt" -> Data("parameter", size["parameter"])
    [] base = UbootName(variant) -> Data("uboot", size["uboot"])
    [] base = "boot.img" -> Data("boot", PartBytes("boot"))
    [] base = "rootfs.img" /\ "rootfs" \in Required(variant) -> Data("rootfs", size["rootfs"])
    [] OTHER -> NoData
LoadImage(row) ==
  IF row.name = "package-file" THEN Data("package", size["package"]) ELSE Staged(row.base)
Wrapped(row) == LoadImage(row).bytes + (IF row.name = "parameter" THEN 12 ELSE 0)

-----------------------------------------------------------------------------
Init ==
  /\ variant \in Variants
  /\ verify \in BOOLEAN
  /\ rows \in Manifests[variant]
  /\ size \in [Files -> Sizes]
  /\ \E u \in Slots["uboot"], b \in Slots["boot"], r \in Slots["rootfs"] :
       param = [p \in Partitions |->
                  CASE p = "uboot" -> u [] p = "boot" -> b [] OTHER -> r]
  /\ phase = "check" /\ done = 0 /\ cursor = 0 /\ bodyLen = 0
  /\ recs = <<>> /\ images = <<>> /\ segs = <<>>
  /\ update = NoImage
  /\ got = [b \in Bases |-> NoData]

\* Mutant: the file list is not checked before packing.
CheckPresent ==
  /\ phase = "check"
  /\ phase' = IF BootFits THEN "pack" ELSE "failed"
  /\ cursor' = RoundUp(RKAF_HDR + Len(rows) * ENTRY_SZ)
  /\ UNCHANGED <<input, done, recs, images, segs, bodyLen, update, got>>

\* assemble: the files are there, the rootfs of a card or eMMC and the boot image fit
Check ==
  /\ phase = "check"
  /\ LET ok == /\ \A f \in Required(variant) : size[f] # Absent
               /\ variant \in {"sd", "emmc"} => RootfsFits
               /\ BootFits
     IN phase' = IF ok THEN "pack" ELSE "failed"
  /\ cursor' = RoundUp(RKAF_HDR + Len(rows) * ENTRY_SZ)
  /\ UNCHANGED <<input, done, recs, images, segs, bodyLen, update, got>>

\* Mutant: the PARM wrap of the parameter is forgotten when the cursor moves on.
PackRowUnwrapped ==
  /\ phase = "pack" /\ done < Len(rows)
  /\ LET row == rows[done + 1]
         n == Wrapped(row)
     IN /\ LoadImage(row) # NoData /\ cursor < U32 /\ n < U32
        /\ recs' = Append(recs, [name |-> row.name, base |-> row.base, pos |-> cursor,
                 size |-> n, nand |-> FlashOf(row.name).size, addr |-> FlashOf(row.name).addr])
        /\ images' = Append(images, [pos |-> cursor, row |-> row, len |-> n])
        /\ cursor' = RoundUp(cursor + LoadImage(row).bytes)
  /\ done' = done + 1
  /\ UNCHANGED <<input, phase, segs, bodyLen, update, got>>

\* cmd_pack, one row of the package file: its record, its place, its data
PackRow ==
  /\ phase = "pack" /\ done < Len(rows)
  /\ LET row == rows[done + 1]
         flash == FlashOf(row.name)
         n == Wrapped(row)
     IN /\ LoadImage(row) # NoData
        /\ cursor < U32 /\ n < U32
        /\ recs' = Append(recs, [name |-> row.name, base |-> row.base, pos |-> cursor,
                                 size |-> n, nand |-> flash.size, addr |-> flash.addr])
        /\ images' = Append(images, [pos |-> cursor, row |-> row, len |-> n])
        /\ cursor' = RoundUp(cursor + n)
  /\ done' = done + 1
  /\ UNCHANGED <<input, phase, segs, bodyLen, update, got>>

\* the file a row names was not staged, or a field of its record does not fit
RowFails ==
  /\ phase = "pack" /\ done < Len(rows)
  /\ LET row == rows[done + 1]
     IN LoadImage(row) = NoData \/ cursor >= U32 \/ Wrapped(row) >= U32
  /\ phase' = "failed"
  /\ UNCHANGED <<input, done, cursor, recs, images, segs, bodyLen, update, got>>

RowsDone ==
  /\ phase = "pack" /\ done = Len(rows)
  /\ phase' = "body" /\ done' = 0
  /\ bodyLen' = RKAF_HDR + Len(rows) * ENTRY_SZ
  /\ UNCHANGED <<input, cursor, recs, images, segs, update, got>>

\* the body is padded up to the image's place if it is shorter, then appended to
AppendImage ==
  /\ phase = "body" /\ done < Len(images)
  /\ LET im == images[done + 1]
         at == IF bodyLen < im.pos THEN im.pos ELSE bodyLen
     IN /\ segs' = Append(segs, [at |-> at, row |-> im.row, len |-> im.len])
        /\ bodyLen' = at + im.len
  /\ done' = done + 1
  /\ UNCHANGED <<input, phase, cursor, recs, images, update, got>>

\* header and trailing CRC, RKFW header, loader, MD5; then the file is written,
\* and with --no-verify that is all
Seal ==
  /\ phase = "body" /\ done = Len(images)
  /\ LET span == bodyLen + 4
         fits == span < U32 /\ RKFW_HDR + size["loader"] < U32
     IN IF fits
        THEN /\ phase' = IF verify THEN "unpack" ELSE "done"
             /\ update' = [state |-> "whole", recs |-> recs, segs |-> segs, span |-> span,
                           at |-> RKFW_HDR + size["loader"]]
        ELSE phase' = "failed" /\ UNCHANGED update
  /\ done' = 0
  /\ UNCHANGED <<input, cursor, recs, images, segs, bodyLen, got>>

\* the bytes of the body at pos: an image if one starts there and is that long
Cut(ss, pos, n) ==
  IF n = 0 THEN Data("", 0)
  ELSE IF \E k \in DOMAIN ss : ss[k].at = pos /\ ss[k].len = n
       THEN LoadImage(ss[CHOOSE k \in DOMAIN ss : ss[k].at = pos /\ ss[k].len = n].row)
       ELSE Garbage

\* cmd_unpack, one record: written under its base name, a later one over an earlier
Unpack ==
  /\ phase = "unpack" /\ done < Len(update.recs)
  /\ LET r == update.recs[done + 1]
     IN got' = [got EXCEPT ![r.base] = Cut(update.segs, r.pos, r.size)]
  /\ done' = done + 1
  /\ UNCHANGED <<input, phase, cursor, recs, images, segs, bodyLen, update>>

\* the round trip compares the sizes of U-Boot, boot and, if there is one, rootfs
Promised ==
  {[base |-> UbootName(variant), data |-> Data("uboot", size["uboot"])],
   [base |-> "boot.img", data |-> Data("boot", PartBytes("boot"))]}
  \union (IF "rootfs" \in Required(variant)
          THEN {[base |-> "rootfs.img", data |-> Data("rootfs", size["rootfs"])]} ELSE {})
\* Mutant: an image that was not unpacked is not compared.
ComparePresent ==
  /\ phase = "unpack" /\ done = Len(update.recs)
  /\ LET same == \A p \in Promised :
                   got[p.base] # NoData => got[p.base].bytes = p.data.bytes
     IN phase' = IF same THEN "done" ELSE "failed"
  /\ UNCHANGED <<input, done, cursor, recs, images, segs, bodyLen, update, got>>
Compare ==
  /\ phase = "unpack" /\ done = Len(update.recs)
  /\ LET same == \A p \in Promised :
                   got[p.base] # NoData /\ got[p.base].bytes = p.data.bytes
     IN phase' = IF same THEN "done" ELSE "failed"
  /\ UNCHANGED <<input, done, cursor, recs, images, segs, bodyLen, update, got>>

\* a kill; the output is written in one call and may be cut
Kill ==
  /\ phase \in {"check", "pack", "body", "unpack"}
  /\ phase' = "killed"
  /\ update' \in IF phase = "body" /\ done = Len(images) THEN {NoImage, Torn} ELSE {update}
  /\ UNCHANGED <<input, done, cursor, recs, images, segs, bodyLen, got>>

Next == Check \/ PackRow \/ RowFails \/ RowsDone \/ AppendImage \/ Seal \/ Unpack \/ Compare \/ Kill
Spec == Init /\ [][Next]_vars

-----------------------------------------------------------------------------
Blob == [src : Files \union {"", "missing", "garbage"}, bytes : Nat]
Record == [name : STRING, base : Bases, pos : Nat, size : Nat, nand : Nat,
           addr : Nat \union {NoAddr}]

\* The state of assemble is well-formed: one record and one image per row that
\* is packed, sizes and positions are natural numbers (no absent file is read).
TypeOK ==
  /\ variant \in Variants /\ verify \in BOOLEAN /\ rows \in Manifests[variant]
  /\ size \in [Files -> Sizes] /\ param \in [Partitions -> Slot]
  /\ phase \in {"check", "pack", "body", "unpack", "done", "failed", "killed"}
  /\ done \in Nat /\ cursor \in Nat /\ bodyLen \in Nat
  /\ recs \in Seq(Record)
  /\ images \in Seq([pos : Nat, row : Row, len : Nat])
  /\ segs \in Seq([at : Nat, row : Row, len : Nat])
  /\ update.state \in {"none", "torn", "whole"}
  /\ got \in [Bases -> Blob]

\* No image of the update overlaps another, the record table or the trailing
\* CRC: records start on pages, follow one another, and the bytes of an image
\* were appended exactly where its record says (rkfw_pack.py:137-177).
NoOverlap ==
  /\ \A k \in DOMAIN recs :
       /\ recs[k].pos % PAGE = 0
       /\ RKAF_HDR + Len(rows) * ENTRY_SZ <= recs[k].pos
       /\ \A j \in 1 .. k - 1 : recs[j].pos + recs[j].size <= recs[k].pos
  /\ \A k \in DOMAIN segs : segs[k].at = recs[k].pos /\ segs[k].len = recs[k].size
  /\ update.state = "whole" =>
       \A k \in DOMAIN update.recs :
         update.recs[k].pos + update.recs[k].size + 4 <= update.span

\* An update that assemble reports as made, verified or not, holds for every row
\* of the package file the very file that was staged for it, not just one of the
\* same size: a reader of the records finds it whole.  One that passed the round
\* trip has given each of them back, and has a row for every image its variant
\* promises: nothing else sees a package file that lost one (assemble.py:71-79,
\* 135-147).
Alone(k) == \A j \in DOMAIN rows : rows[j].base = rows[k].base => j = k
Holds(k) ==
  LET r == update.recs[k] IN r.base = rows[k].base /\ Cut(update.segs, r.pos, r.size) = LoadImage(rows[k])
Delivers ==
  phase = "done" =>
    /\ update.state = "whole"
    /\ \A k \in DOMAIN rows : Holds(k)
    /\ verify =>
         /\ \A p \in Promised : \E k \in DOMAIN rows : rows[k].base = p.base
         /\ \A k \in DOMAIN rows : Alone(k) => got[rows[k].base] = LoadImage(rows[k])

\* What the loader writes stays in its partition: two parsers of the parameter
\* file agree on it, boot fills its partition to the last sector with nothing
\* of the kernel cut off, the rootfs of a card or eMMC is not longer than its
\* own (assemble.py:107-130, rkfw_pack.py:102-106, 147-152).
StaysInPartition ==
  phase = "done" =>
    \A k \in DOMAIN recs :
      LET r == recs[k]
          len == r.nand * 512
      IN /\ r.name = "boot" => r.addr # NoAddr /\ r.size = len /\ size["boot"] <= r.size
         /\ r.name = "rootfs" /\ variant \in {"sd", "emmc"} => r.addr # NoAddr /\ r.size <= len

-----------------------------------------------------------------------------
(* Sentences of the repository about assemble.                             *)

\* QUICK_START.md:48 lists `forge assemble --variant sd` as the command that
\* makes the card's update: with every input there and fitting, it does.
Ready ==
  /\ \A f \in Required(variant) : size[f] # Absent
  /\ RootfsFits /\ BootFits
SdUpdateMade == variant = "sd" /\ Ready => phase # "failed"

\* rkfw_pack.py:157-158 "Fail loudly at pack time instead of letting an empty
\* partition ship": no update that was made has an image without an address.
NoEmptyPartition ==
  phase = "done" => \A k \in DOMAIN recs : recs[k].name \in Partitions => recs[k].addr # NoAddr
=============================================================================
