------------------------------- MODULE Media -------------------------------
(***************************************************************************)
(* Boot media: the packers that lay out out/rootfs.ext4 and out/sd.img     *)
(* (pack/sd.py, pack/emmc.py) and the flasher that copies sd.img over a    *)
(* whole card (flash.py), two processes that share sd.img.                 *)
(*                                                                         *)
(* An image is a sequence of cells.  A cell says which blob it belongs to, *)
(* how long that blob was when it was copied, and which part of it the     *)
(* cell is, so an image shows exactly what was overwritten by what.  The   *)
(* host moves on its own: card readers are replugged, cards get mounted.   *)
(***************************************************************************)
EXTENDS Integers, Sequences

CONSTANTS
    Kinds,      \* storage kinds of the boards: "nand" packs an SD card, "emmc" an ext4
    At,         \* where each blob goes, in cells: _IDBLOCK_SECTOR ... _ROOTFS_SECTOR
    Lengths,    \* how long a raw blob can be
    SdMib,      \* rootfs_mib of pack-sd
    SizeMibs,   \* values of size_mib, 0 for "derive it"
    Mibs,       \* values of storage.rootfs_mib in board.yaml
    Disks, NoDisk,
    Nodes,      \* device nodes a user may name
    Digits,     \* the nodes whose name ends in a digit or a p: partitions, and mmcblk0
    System,     \* the disk that holds /
    Layered,    \* / sits on a volume group: lsblk's PKNAME is a partition
    Capacity,   \* the size of each disk
    MaxEdits    \* bound: changes of the files the packers read

Raw == {"idblock", "uboot", "boot"}
Blobs == Raw \cup {"rootfs"}

ASSUME MediaConstants ==
    /\ Kinds \subseteq {"nand", "emmc"}
    /\ At \in [Blobs -> Nat \ {0}]
    /\ At["idblock"] < At["uboot"] /\ At["uboot"] < At["boot"] /\ At["boot"] < At["rootfs"]
    /\ Lengths \subseteq Nat \ {0} /\ SdMib \in Nat \ {0} /\ Mibs \subseteq Nat \ {0}
    /\ SizeMibs \subseteq Nat
    /\ NoDisk \notin Disks /\ System \in Disks
    /\ Digits \subseteq Nodes
    /\ Layered \in BOOLEAN
    /\ Capacity \in [Disks -> Nat]
    /\ MaxEdits \in Nat

\* A raw blob may run into its neighbours, even into the root filesystem, but is
\* not so long that it reaches past the partition of that.
ASSUME BlobsInside ==
    \A b \in Raw, len \in Lengths : At[b] + len <= At["rootfs"] + SdMib + 1

VARIABLES
    kind,       \* the board's storage kind
    mib,        \* storage.rootfs_mib in board.yaml
    blob,       \* length of out/<blob>.img, 0 when it is absent
    ext4,       \* out/rootfs.ext4: the file's size and that of the filesystem in it
    img,        \* out/sd.img, <<>> when it is absent
    pk,         \* the packer
    fl,         \* the flasher, the disk dd opened and what it has copied there
    held,       \* the unlinked sd.img an open dd still reads, <<>> for none
    dev,        \* the disk behind each node
    edits,      \* changes made so far
    mounted     \* disks lsblk shows a mount point for

packVars == <<kind, mib, blob, ext4, img, pk>>
hostVars == <<dev, mounted, edits>>
vars == <<kind, mib, blob, ext4, img, pk, fl, held, dev, mounted, edits>>

(***************************************************************************)
(* Cells, and what mke2fs, sgdisk and dd leave behind.                     *)
(***************************************************************************)
Larger(m, n) == IF m > n THEN m ELSE n
Cell(b, len, i) == [of |-> b, len |-> len, part |-> i]
Blank == Cell("zero", 0, 0)
Gpt(rootfs, size) == Cell("gpt", size, rootfs)
Cells == [of : Blobs \cup {"zero", "gpt", "slack"}, len : Nat, part : Nat]
Blob(b, len) == [i \in 1..len |-> Cell(b, len, i)]

\* mke2fs never shortens a file it finds: the cells behind the new filesystem
\* are left over from the old one.
Ext4File == [i \in 1..ext4.size |->
                IF i <= ext4.fs THEN Cell("rootfs", ext4.fs, i) ELSE Cell("slack", 0, 0)]

\* dd conv=notrunc: the image keeps its other cells and grows if it must.
Written(im, at, new) ==
    [i \in 1..Larger(Len(im), at + Len(new)) |->
        IF i \in at + 1 .. at + Len(new) THEN new[i - at]
        ELSE IF i <= Len(im) THEN im[i] ELSE Blank]

Truncated(size) == [i \in 1..size |-> Blank]
Partitioned(im, rootfs) == [im EXCEPT ![1] = Gpt(rootfs, Len(im)), ![Len(im)] = Gpt(rootfs, Len(im))]
ReadsBack(im, b, len) == /\ At[b] + len <= Len(im)
                         /\ \A i \in 1..len : im[At[b] + i] = Cell(b, len, i)

\* An image a board boots from: both partition tables, every raw blob
\* and the whole root filesystem where the boot chain looks for them.
Whole(im) ==
    /\ im # <<>>
    /\ im[1] = Gpt(im[1].part, Len(im)) /\ im[Len(im)] = im[1]
    /\ \A b \in Raw : \E len \in Lengths : ReadsBack(im, b, len)
    /\ im[1].part > 0 /\ ReadsBack(im, "rootfs", im[1].part)

(***************************************************************************)
(* The packers.                                                            *)
(***************************************************************************)
Idle == [at |-> "idle", mib |-> 0, size |-> 0]
Stopped == {"idle", "done"}
Packed == [pk EXCEPT !.at = "done", !.size = 0]
PackNext(step) == [pk EXCEPT !.at = step]
\* Mutant: the root filesystem is written before boot.img.
AfterRootfsFirst(b) == CASE b = "idblock" -> "uboot" [] b = "uboot" -> "rootfs"
                         [] b = "rootfs" -> "boot" [] b = "boot" -> "verify"
After(b) == CASE b = "idblock" -> "uboot" [] b = "uboot" -> "boot"
              [] b = "boot" -> "rootfs" [] b = "rootfs" -> "verify"

Flashing == fl.at \notin Stopped

NoFlash == [at |-> "idle", node |-> CHOOSE n \in Nodes : TRUE, disk |-> NoDisk,
            moved |-> FALSE, good |-> FALSE, copy |-> <<>>]

\* A disk sits behind one node.
OneNode(at) == \A m, n \in Nodes : at[m] = at[n] /\ at[m] # NoDisk => m = n

Aside == UNCHANGED <<kind, fl, held, dev, mounted>>
Frame == Aside /\ UNCHANGED edits

Init ==
    /\ kind \in Kinds /\ mib \in Mibs
    /\ blob \in [Raw -> IF kind = "nand" THEN Lengths ELSE {0}]
    /\ ext4 = [size |-> 0, fs |-> 0] /\ img = <<>> /\ pk = Idle
    /\ fl = NoFlash
    /\ held = <<>>
    /\ dev \in [Nodes -> Disks \cup {NoDisk}] /\ OneNode(dev)
    /\ \E n \in Nodes : dev[n] = System
    /\ mounted = {System}
    /\ edits = 0

\* SdPacker.pack: refuse what is missing, then make the filesystem.
StartSd(size) ==
    /\ kind = "nand" /\ pk.at \in Stopped
    /\ \A b \in Raw : blob[b] > 0
    /\ pk' = [at |-> "ext4", mib |-> SdMib,
              size |-> IF size > 0 THEN size ELSE At["rootfs"] + SdMib + 1]
    /\ UNCHANGED <<mib, blob, ext4, img>> /\ Frame

\* EmPacker.pack: the filesystem is all there is to make.
StartEmmc ==
    /\ kind = "emmc" /\ pk.at \in Stopped
    /\ pk' = [at |-> "ext4", mib |-> mib, size |-> 0]
    /\ UNCHANGED <<mib, blob, ext4, img>> /\ Frame

\* Mutant: a longer filesystem does not grow the file.
Mke2fsKeepsSize ==
    /\ pk.at = "ext4"
    /\ ext4' = [size |-> IF ext4.size > 0 THEN ext4.size ELSE pk.mib, fs |-> pk.mib]
    /\ pk' = IF kind = "nand" THEN PackNext("guard") ELSE Packed
    /\ UNCHANGED <<mib, blob, img>> /\ Frame

Mke2fs ==
    /\ pk.at = "ext4"
    /\ ext4' = [size |-> Larger(ext4.size, pk.mib), fs |-> pk.mib]
    /\ pk' = IF kind = "nand" THEN PackNext("guard") ELSE Packed
    /\ UNCHANGED <<mib, blob, img>> /\ Frame

\* The tree is larger than the filesystem, or mke2fs is killed half way.
Mke2fsFails ==
    /\ pk.at = "ext4"
    /\ ext4' = [size |-> Larger(ext4.size, pk.mib), fs |-> 0]
    /\ pk' = Idle
    /\ UNCHANGED <<mib, blob, img>> /\ Frame

\* Mutant: the old image is truncated instead of unlinked.
UnlinkInPlace ==
    /\ pk.at = "guard"
    /\ fl' = [fl EXCEPT !.moved = Flashing]
    /\ pk' = PackNext("truncate")
    /\ UNCHANGED <<kind, mib, blob, ext4, img, held, dev, mounted, edits>>

\* assert_regular_file, then unlink: an open dd keeps the old file.
Unlink ==
    /\ pk.at = "guard"
    /\ held' = IF fl.at = "writing" /\ held = <<>> THEN img ELSE held
    /\ fl' = [fl EXCEPT !.moved = Flashing]
    /\ img' = <<>>
    /\ pk' = PackNext("truncate")
    /\ UNCHANGED <<kind, mib, blob, ext4, dev, mounted, edits>>

Truncate ==
    /\ pk.at = "truncate"
    /\ img' = Truncated(pk.size)
    /\ pk' = PackNext("gpt")
    /\ UNCHANGED <<mib, blob, ext4>> /\ Frame

\* sgdisk refuses a partition that leaves no room for the second table.
RootfsFits == At["rootfs"] + pk.mib + 1 <= pk.size

Sgdisk ==
    /\ pk.at = "gpt" /\ RootfsFits
    /\ img' = Partitioned(img, pk.mib)
    /\ pk' = PackNext("idblock")
    /\ UNCHANGED <<mib, blob, ext4>> /\ Frame

SgdiskFails ==
    /\ pk.at = "gpt" /\ ~RootfsFits
    /\ pk' = Idle
    /\ UNCHANGED <<mib, blob, ext4, img>> /\ Frame

Dd(b) ==
    /\ pk.at = b /\ (b \in Raw => blob[b] > 0)
    /\ img' = Written(img, At[b], IF b = "rootfs" THEN Ext4File ELSE Blob(b, blob[b]))
    /\ pk' = PackNext(After(b))
    /\ UNCHANGED <<mib, blob, ext4>> /\ Frame

\* _verify_offset compares with the files as they are now.
Verified == \A b \in Raw : blob[b] > 0 /\ ReadsBack(img, b, blob[b])

Verify ==
    /\ pk.at = "verify" /\ Verified
    /\ pk' = Packed
    /\ UNCHANGED <<mib, blob, ext4, img>> /\ Frame

\* Every other way out: a mismatch, a source that went away, a signal.
PackDies ==
    /\ pk.at \notin Stopped
    /\ pk' = Idle
    /\ UNCHANGED <<mib, blob, ext4, img>> /\ Frame

(***************************************************************************)
(* The flasher.  Each guard reads the host when its turn comes.            *)
(***************************************************************************)
Target == dev[fl.node]
FlashNext(step) == fl' = [fl EXCEPT !.at = step]

StartFlash(n) ==
    /\ ~Flashing
    /\ img # <<>> /\ dev[n] # NoDisk /\ n \notin Digits
    /\ fl' = [NoFlash EXCEPT !.at = "mounted", !.node = n]
    /\ UNCHANGED <<packVars, hostVars, held>>

\* Mutant: lsblk -d lists the disk without its partitions.
GuardMountedTop ==
    /\ fl.at = "mounted"
    /\ FlashNext("system")
    /\ UNCHANGED <<packVars, hostVars, held>>

GuardMounted ==
    /\ fl.at = "mounted" /\ Target \notin mounted
    /\ FlashNext("system")
    /\ UNCHANGED <<packVars, hostVars, held>>

IsSystem(d) == d = System /\ ~Layered

GuardSystem ==
    /\ fl.at = "system" /\ ~IsSystem(Target)
    /\ FlashNext("size")
    /\ UNCHANGED <<packVars, hostVars, held>>

\* A size that cannot be read counts as 0 and is not compared.
TooLarge(d) == IF d = NoDisk THEN FALSE ELSE Capacity[d] > 0 /\ Len(img) > Capacity[d]

CheckSize ==
    /\ fl.at = "size" /\ img # <<>> /\ ~TooLarge(Target)
    /\ FlashNext("confirm")
    /\ UNCHANGED <<packVars, hostVars, held>>

\* The name is typed, or --yes was given; dd opens both ends and the disk's old
\* content is gone.  With no disk behind the node dd creates a plain file.
Confirm ==
    /\ fl.at = "confirm" /\ img # <<>>
    /\ fl' = [fl EXCEPT !.at = "writing", !.disk = Target, !.good = Whole(img)]
    /\ UNCHANGED <<packVars, hostVars, held>>

Source == IF held # <<>> THEN held ELSE img
Copies(d) == d # NoDisk => Len(Source) <= Capacity[d]

DdDone ==
    /\ fl.at = "writing" /\ Copies(fl.disk)
    /\ fl' = [NoFlash EXCEPT !.at = "done", !.good = fl.good, !.copy = Source]
    /\ held' = <<>>
    /\ UNCHANGED <<packVars, hostVars>>

\* A guard refuses, the reply does not match, dd fails, or the user interrupts.
FlashDies ==
    /\ Flashing
    /\ fl' = NoFlash
    /\ held' = <<>>
    /\ UNCHANGED <<packVars, hostVars>>

(***************************************************************************)
(* The user and the host.                                                  *)
(***************************************************************************)
EditBlob(b, len) ==
    /\ kind = "nand" /\ len # blob[b] /\ edits < MaxEdits
    /\ blob' = [blob EXCEPT ![b] = len] /\ edits' = edits + 1
    /\ UNCHANGED <<mib, ext4, img, pk>> /\ Aside

EditMib(m) ==
    /\ kind = "emmc" /\ m # mib /\ edits < MaxEdits
    /\ mib' = m /\ edits' = edits + 1
    /\ UNCHANGED <<blob, ext4, img, pk>> /\ Aside

\* What the guards have looked at is no longer so.
HostMoves == /\ fl' = [fl EXCEPT !.moved = Flashing]
             /\ UNCHANGED <<packVars, held, edits>>

\* A card that leaves while dd writes to it is FlashDies first.
Replug(n, d) ==
    /\ dev[n] # d /\ System \notin {d, dev[n]} /\ dev[n] \notin mounted
    /\ fl.at = "writing" => dev[n] # fl.disk
    /\ dev' = [dev EXCEPT ![n] = d] /\ OneNode(dev')
    /\ HostMoves /\ UNCHANGED mounted

Mount(d) == d \notin mounted /\ mounted' = mounted \cup {d} /\ HostMoves /\ UNCHANGED dev
Umount(d) == d \in mounted \ {System} /\ mounted' = mounted \ {d} /\ HostMoves /\ UNCHANGED dev

Next ==
    \/ \E size \in SizeMibs : StartSd(size)
    \/ StartEmmc \/ Mke2fs \/ Mke2fsFails
    \/ Unlink \/ Truncate \/ Sgdisk \/ SgdiskFails
    \/ \E b \in Blobs : Dd(b)
    \/ Verify \/ PackDies
    \/ \E n \in Nodes : StartFlash(n)
    \/ GuardMounted \/ GuardSystem \/ CheckSize \/ Confirm \/ DdDone \/ FlashDies
    \/ \E b \in Raw, len \in Lengths \cup {0} : EditBlob(b, len)
    \/ \E m \in Mibs : EditMib(m)
    \/ \E n \in Nodes, d \in Disks \cup {NoDisk} : Replug(n, d)
    \/ \E d \in Disks : Mount(d) \/ Umount(d)

Spec == Init /\ [][Next]_vars

-----------------------------------------------------------------------------
(***************************************************************************)
(* What the packers and the flasher promise.                               *)
(***************************************************************************)
PackSteps == {"idle", "ext4", "guard", "truncate", "gpt", "verify", "done"} \cup Blobs
FlashSteps == {"idle", "mounted", "system", "size", "confirm", "writing", "done"}

\* Every variable holds a value of its kind; a filesystem is no longer than its
\* file, and sd.img exists while it is being laid out.
TypeOK ==
    /\ kind \in Kinds /\ mib \in Mibs
    /\ blob \in [Raw -> Lengths \cup {0}]
    /\ ext4 \in [size : Nat, fs : Nat] /\ ext4.fs <= ext4.size
    /\ img \in Seq(Cells) /\ held \in Seq(Cells)
    /\ pk \in [at : PackSteps, mib : Nat, size : Nat]
    /\ pk.at \in {"gpt", "verify"} \cup Blobs => img # <<>>
    /\ fl \in [at : FlashSteps, node : Nodes, disk : Disks \cup {NoDisk},
               moved : BOOLEAN, good : BOOLEAN, copy : Seq(Cells)]
    /\ dev \in [Nodes -> Disks \cup {NoDisk}] /\ mounted \subseteq Disks /\ edits \in 0..MaxEdits

\* A pack-sd that ends well leaves an image a board boots from: no blob has run
\* into its neighbour, the root filesystem or the second partition table, although
\* only the raw blobs are read back (SdPacker.pack, _verify_offset).
PackedWhole == kind = "nand" /\ pk.at = "done" => Whole(img)

\* While nothing moves under the guards, the disk dd starts to overwrite is not
\* the system disk, has nothing mounted and has room for the image, whether or not
\* the system disk can be told from lsblk's parent name (Flasher's guard chain).
Spared(d) == d = System \/ d \in mounted \/ TooLarge(d)
WritesAllowed ==
    [][fl.at # "writing" /\ fl'.at = "writing" /\ ~fl.moved => ~Spared(fl'.disk)]_vars

\* A flash that reports success has put on the disk everything the image held when
\* dd opened it, even if pack-sd starts over sd.img before dd is through: the
\* packer unlinks the old image and never truncates it in place.
CardWhole == fl.at = "done" /\ fl.good => Whole(fl.copy)

-----------------------------------------------------------------------------
(***************************************************************************)
(* What a message of the code says of the program, and the code does not.  *)
(***************************************************************************)
\* "rootfs.ext4 > rootfs partition: shrink --rootfs-mib" (assemble.py): packing
\* again with a smaller storage.rootfs_mib makes a smaller rootfs.ext4.
ShrinkFits == kind = "emmc" /\ pk.at = "done" => ext4.size = pk.mib
=============================================================================
