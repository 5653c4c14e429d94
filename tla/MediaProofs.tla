---------------------------- MODULE MediaProofs ----------------------------
(***************************************************************************)
(* Proofs about Media for every place and length of the blobs, every disk  *)
(* and node, and any number of packs, flashes and moves of the host.       *)
(*                                                                         *)
(* LayoutInv is the heart of PackedWhole: a raw blob that reaches the end  *)
(* of the image also covers the first cell of the root filesystem, which   *)
(* is written after it, so that the blob does not read back.               *)
(***************************************************************************)
EXTENDS Media, TLAPS

Laid == {"idblock", "uboot", "boot", "rootfs", "verify"}
Before(step) ==
    CASE step = "uboot" -> {"idblock"} [] step = "boot" -> {"idblock", "uboot"}
      [] step \in {"rootfs", "verify"} -> Raw [] OTHER -> {}

\* What a pack-sd under way was started with and has made so far.
PackInv ==
    /\ pk.at \in {"guard", "truncate", "gpt"} \cup Laid =>
          kind = "nand" /\ ext4 = [size |-> SdMib, fs |-> SdMib]
    /\ kind = "nand" => ext4.size <= SdMib
    /\ kind = "nand" /\ pk.at \notin Stopped => pk.mib = SdMib /\ pk.size > 0
    /\ pk.at = "truncate" => img = <<>>

\* The last cell is still the partition table's, or a blob written before covers
\* the first cell of the root filesystem.
Edge == Len(img) = pk.size /\ img[pk.size] = Gpt(SdMib, pk.size)
Past(b) == At[b] + img[At[b] + 1].len > At["rootfs"]
LayoutInv ==
    /\ pk.at = "gpt" => Len(img) = pk.size
    /\ pk.at \in Laid =>
          /\ At["rootfs"] + SdMib + 1 <= pk.size /\ pk.size <= Len(img)
          /\ img[1] = Gpt(SdMib, pk.size)
          /\ Edge \/ \E b \in Before(pk.at) : Past(b)
    /\ pk.at \in {"gpt", "idblock", "uboot", "boot", "rootfs"} =>
          \A i \in DOMAIN img : img[i].of # "rootfs"
    /\ pk.at = "verify" => ReadsBack(img, "rootfs", SdMib)
    /\ PackedWhole

\* What an open dd reads.
CopyInv ==
    /\ fl.at # "writing" => held = <<>>
    /\ fl.at = "writing" /\ fl.good => Whole(Source)
    /\ CardWhole

\* What the guards have seen still holds while nothing moves.
GuardInv ==
    /\ System \in mounted
    /\ pk.at \in Laid => Len(img) = pk.size
    /\ pk.at = "truncate" /\ Flashing => fl.moved
    /\ ~fl.moved /\ fl.at \in {"system", "size", "confirm"} => Target \notin mounted
    /\ ~fl.moved /\ fl.at = "confirm" => ~TooLarge(Target)

MediaInv == TypeOK /\ PackInv /\ LayoutInv /\ CopyInv /\ GuardInv

-----------------------------------------------------------------------------
(* Cells and images.                                                       *)

LEMMA Places ==
    /\ At["idblock"] \in Nat \ {0} /\ At["uboot"] \in Nat \ {0}
    /\ At["boot"] \in Nat \ {0} /\ At["rootfs"] \in Nat \ {0}
    /\ At["idblock"] < At["uboot"] /\ At["uboot"] < At["boot"] /\ At["boot"] < At["rootfs"]
    /\ SdMib \in Nat \ {0} /\ \A b \in Blobs : At[b] \in Nat \ {0}
    /\ Raw = {"idblock", "uboot", "boot"} /\ Blobs = {"idblock", "uboot", "boot", "rootfs"}
  BY MediaConstants DEF Blobs, Raw

LEMMA CellTypes ==
    /\ Blank \in Cells
    /\ \A n, m \in Nat : Gpt(n, m) \in Cells
    /\ \A b \in Blobs, n, i \in Nat : Cell(b, n, i) \in Cells
    /\ Cell("slack", 0, 0) \in Cells
  BY DEF Blank, Gpt, Cell, Cells

LEMMA BlobType ==
    ASSUME NEW b \in Blobs, NEW n \in Nat
    PROVE  /\ Blob(b, n) \in Seq(Cells) /\ Len(Blob(b, n)) = n
           /\ \A i \in 1..n : Blob(b, n)[i] = Cell(b, n, i)
  BY CellTypes DEF Blob

LEMMA ExtType ==
    ASSUME ext4 \in [size : Nat, fs : Nat]
    PROVE  /\ Ext4File \in Seq(Cells) /\ Len(Ext4File) = ext4.size
           /\ \A i \in 1..ext4.size : i <= ext4.fs => Ext4File[i] = Cell("rootfs", ext4.fs, i)
  BY CellTypes DEF Ext4File, Blobs

LEMMA WrittenType ==
    ASSUME NEW im \in Seq(Cells), NEW at \in Nat, NEW new \in Seq(Cells)
    PROVE  /\ Written(im, at, new) \in Seq(Cells)
           /\ Len(Written(im, at, new)) = Larger(Len(im), at + Len(new))
           /\ \A i \in 1..Len(new) : Written(im, at, new)[at + i] = new[i]
           /\ \A i \in 1..Len(im) : (i <= at \/ i > at + Len(new)) => Written(im, at, new)[i] = im[i]
<1> DEFINE n == Larger(Len(im), at + Len(new))
           W == Written(im, at, new)
<1>1. Len(im) \in Nat /\ Len(new) \in Nat /\ n \in Nat /\ Len(im) <= n /\ at + Len(new) <= n
  BY DEF Larger
<1>2. W = [i \in 1..n |-> IF i \in at + 1 .. at + Len(new) THEN new[i - at]
                          ELSE IF i <= Len(im) THEN im[i] ELSE Blank]
  BY DEF Written
<1>3. ASSUME NEW i \in 1..n
      PROVE  /\ i \in at + 1 .. at + Len(new) => i - at \in 1..Len(new) /\ W[i] = new[i - at]
             /\ i \notin at + 1 .. at + Len(new) /\ i <= Len(im) => i \in 1..Len(im) /\ W[i] = im[i]
             /\ i \notin at + 1 .. at + Len(new) /\ ~(i <= Len(im)) => W[i] = Blank
  BY <1>1, <1>2
<1>4. \A i \in 1..n : W[i] \in Cells
  BY <1>1, <1>3, CellTypes
<1>5. W \in [1..n -> Cells]
  BY <1>2, <1>4
<1>6. W \in Seq(Cells) /\ Len(W) = n
  BY <1>1, <1>5
<1>7. \A i \in 1..Len(new) : W[at + i] = new[i]
  <2> TAKE i \in 1..Len(new)
  <2>1. at + i \in 1..n /\ at + i \in at + 1 .. at + Len(new) /\ (at + i) - at = i
    BY <1>1
  <2> QED
    BY <2>1, <1>3
<1>8. \A i \in 1..Len(im) : (i <= at \/ i > at + Len(new)) => W[i] = im[i]
  BY <1>1, <1>3
<1> QED
  BY <1>6, <1>7, <1>8

LEMMA TruncatedType ==
    ASSUME NEW n \in Nat
    PROVE  Truncated(n) \in Seq(Cells) /\ Len(Truncated(n)) = n /\ \A i \in 1..n : Truncated(n)[i] = Blank
  BY CellTypes DEF Truncated

LEMMA PartitionedType ==
    ASSUME NEW im \in Seq(Cells), NEW n \in Nat, Len(im) > 1
    PROVE  /\ Partitioned(im, n) \in Seq(Cells) /\ Len(Partitioned(im, n)) = Len(im)
           /\ Partitioned(im, n)[1] = Gpt(n, Len(im))
           /\ Partitioned(im, n)[Len(im)] = Gpt(n, Len(im))
           /\ \A i \in 1..Len(im) : Partitioned(im, n)[i] = im[i] \/ Partitioned(im, n)[i] = Gpt(n, Len(im))
  BY CellTypes DEF Partitioned

LEMMA WholeShape ==
    ASSUME NEW im \in Seq(Cells), Whole(im)
    PROVE  im # <<>> /\ \E i \in DOMAIN im : im[i].of = "rootfs"
<1>1. im # <<>> /\ im[1].part > 0 /\ ReadsBack(im, "rootfs", im[1].part)
  BY DEF Whole
<1>2. Len(im) > 0 /\ 1 \in DOMAIN im
  BY <1>1
<1>3. im[1].part \in Nat
  <2>1. im[1] \in Cells
    BY <1>2
  <2> QED
    BY <2>1 DEF Cells
<1>4. At["rootfs"] + 1 \in DOMAIN im /\ im[At["rootfs"] + 1] = Cell("rootfs", im[1].part, 1)
  BY <1>1, <1>3, Places DEF ReadsBack
<1> QED
  BY <1>1, <1>4 DEF Cell

-----------------------------------------------------------------------------
(* The initial states.                                                     *)

LEMMA NoFlashType ==
    /\ NoFlash.at = "idle" /\ ~NoFlash.moved /\ ~NoFlash.good /\ NoFlash.copy = <<>>
    /\ Nodes # {} =>
          NoFlash \in [at : FlashSteps, node : Nodes, disk : Disks \cup {NoDisk},
                       moved : BOOLEAN, good : BOOLEAN, copy : Seq(Cells)]
  BY DEF NoFlash, FlashSteps

LEMMA InitInv == Init => MediaInv
<1> SUFFICES ASSUME Init PROVE MediaInv
  OBVIOUS
<1>1. TypeOK
  <2>1. blob \in [Raw -> Lengths \cup {0}]
    <3>1. (IF kind = "nand" THEN Lengths ELSE {0}) \subseteq Lengths \cup {0}
      OBVIOUS
    <3> QED
      BY <3>1 DEF Init
  <2>2. ext4 \in [size : Nat, fs : Nat] /\ ext4.fs <= ext4.size
    BY DEF Init
  <2>3. img \in Seq(Cells) /\ held \in Seq(Cells)
    BY DEF Init
  <2>4. /\ pk \in [at : PackSteps, mib : Nat, size : Nat]
        /\ pk.at \notin {"gpt", "verify"} \cup Blobs
    BY Places DEF Init, Idle, PackSteps
  <2>5. fl \in [at : FlashSteps, node : Nodes, disk : Disks \cup {NoDisk},
                moved : BOOLEAN, good : BOOLEAN, copy : Seq(Cells)]
    BY NoFlashType DEF Init
  <2>6. /\ kind \in Kinds /\ mib \in Mibs
        /\ dev \in [Nodes -> Disks \cup {NoDisk}] /\ mounted \subseteq Disks /\ edits \in 0..MaxEdits
    BY MediaConstants DEF Init
  <2> QED
    BY <2>1, <2>2, <2>3, <2>4, <2>5, <2>6 DEF TypeOK
<1>2. PackInv
  BY Places DEF Init, PackInv, Idle, Laid, Stopped
<1>3. LayoutInv
  BY DEF Init, LayoutInv, PackedWhole, Idle, Laid
<1>4. CopyInv
  BY NoFlashType DEF Init, CopyInv, CardWhole
<1>5. GuardInv
  BY NoFlashType DEF Init, GuardInv, Idle, Laid, Flashing, Stopped
<1> QED
  BY <1>1, <1>2, <1>3, <1>4, <1>5 DEF MediaInv

-----------------------------------------------------------------------------
(* What one dd of pack-sd does to the image.                               *)

DdLen(b) == IF b = "rootfs" THEN SdMib ELSE blob[b]

LEMMA DdImage ==
    ASSUME MediaInv, NEW b \in Blobs, Dd(b)
    PROVE  /\ DdLen(b) \in Nat \ {0} /\ At[b] + DdLen(b) <= pk.size /\ pk.size \in Nat
           /\ b = "rootfs" => At[b] + DdLen(b) < pk.size
           /\ img \in Seq(Cells) /\ Len(img) = pk.size
           /\ img' \in Seq(Cells) /\ Len(img') = pk.size
           /\ \A i \in 1..DdLen(b) : img'[At[b] + i] = Cell(b, DdLen(b), i)
           /\ \A i \in 1..pk.size : (i <= At[b] \/ i > At[b] + DdLen(b)) => img'[i] = img[i]
<1> DEFINE new == IF b = "rootfs" THEN Ext4File ELSE Blob(b, blob[b])
           n == DdLen(b)
<1>1. /\ pk.at = b /\ pk.at \in Laid
      /\ b \in Raw => blob[b] > 0
      /\ img' = Written(img, At[b], new)
  BY Places DEF Dd, Laid
<1>2. /\ img \in Seq(Cells) /\ Len(img) = pk.size /\ pk.size \in Nat
      /\ At["rootfs"] + SdMib + 1 <= pk.size
      /\ ext4 = [size |-> SdMib, fs |-> SdMib]
  <2>1. img \in Seq(Cells) /\ pk.size \in Nat
    BY DEF MediaInv, TypeOK
  <2>2. ext4 = [size |-> SdMib, fs |-> SdMib]
    BY <1>1 DEF MediaInv, PackInv
  <2>3. At["rootfs"] + SdMib + 1 <= pk.size
    BY <1>1 DEF MediaInv, LayoutInv
  <2>4. Len(img) = pk.size
    BY <1>1 DEF MediaInv, GuardInv
  <2> QED
    BY <2>1, <2>2, <2>3, <2>4
<1>3. b # "rootfs" => b \in Raw /\ blob[b] \in Lengths /\ blob[b] \in Nat \ {0}
  <2> SUFFICES ASSUME b # "rootfs" PROVE b \in Raw /\ blob[b] \in Lengths /\ blob[b] \in Nat \ {0}
    OBVIOUS
  <2>1. b \in Raw
    BY Places
  <2>2. blob[b] \in Lengths \cup {0}
    BY <2>1 DEF MediaInv, TypeOK
  <2>3. Lengths \subseteq Nat \ {0} /\ blob[b] > 0
    BY <1>1, <2>1, MediaConstants
  <2>4. CASE blob[b] = 0
    BY <2>3, <2>4
  <2>5. CASE blob[b] \in Lengths
    BY <2>1, <2>3, <2>5
  <2> QED
    BY <2>2, <2>4, <2>5
<1>4. /\ n \in Nat \ {0} /\ At[b] \in Nat
      /\ At[b] + n <= pk.size /\ (b = "rootfs" => At[b] + n < pk.size)
  <2>1. CASE b = "rootfs"
    BY <1>2, <2>1, Places DEF DdLen
  <2>2. CASE b # "rootfs"
    <3>1. n = blob[b] /\ blob[b] \in Nat \ {0} /\ At[b] \in Nat /\ At["rootfs"] \in Nat /\ SdMib \in Nat
      BY <1>3, <2>2, Places DEF DdLen
    <3>2. At[b] + blob[b] <= At["rootfs"] + SdMib + 1
      BY <1>3, <2>2, BlobsInside
    <3> QED
      BY <1>2, <2>2, <3>1, <3>2
  <2> QED
    BY <2>1, <2>2
<1>5. new \in Seq(Cells) /\ Len(new) = n /\ \A i \in 1..n : new[i] = Cell(b, n, i)
  <2>1. CASE b = "rootfs"
    <3>1. ext4 \in [size : Nat, fs : Nat] /\ ext4.size = SdMib /\ ext4.fs = SdMib /\ SdMib \in Nat
      BY <1>2, Places
    <3> QED
      BY <2>1, <3>1, ExtType DEF DdLen
  <2>2. CASE b # "rootfs"
    BY <1>3, <2>2, BlobType DEF DdLen
  <2> QED
    BY <2>1, <2>2
<1> HIDE DEF new, n
<1>6. /\ img' \in Seq(Cells) /\ Len(img') = Larger(Len(img), At[b] + n)
      /\ \A i \in 1..n : img'[At[b] + i] = new[i]
      /\ \A i \in 1..Len(img) : (i <= At[b] \/ i > At[b] + n) => img'[i] = img[i]
  <2>1. img' = Written(img, At[b], new)
    BY <1>1 DEF new
  <2>2. img \in Seq(Cells) /\ At[b] \in Nat /\ new \in Seq(Cells) /\ Len(new) = n
    BY <1>2, <1>4, <1>5
  <2>3. /\ Written(img, At[b], new) \in Seq(Cells)
        /\ Len(Written(img, At[b], new)) = Larger(Len(img), At[b] + Len(new))
        /\ \A i \in 1..Len(new) : Written(img, At[b], new)[At[b] + i] = new[i]
        /\ \A i \in 1..Len(img) : (i <= At[b] \/ i > At[b] + Len(new)) =>
              Written(img, At[b], new)[i] = img[i]
    BY <2>2, WrittenType
  <2> QED
    BY <2>1, <2>2, <2>3
<1>7. Len(img') = pk.size
  BY <1>2, <1>4, <1>6 DEF Larger
<1> QED
  BY <1>2, <1>4, <1>5, <1>6, <1>7 DEF n

LEMMA AfterSteps ==
    /\ After("idblock") = "uboot" /\ After("uboot") = "boot"
    /\ After("boot") = "rootfs" /\ After("rootfs") = "verify"
    /\ \A b \in Raw : Before(After(b)) = Before(b) \cup {b}
    /\ Before("rootfs") = Raw /\ Before("verify") = Raw /\ Before("idblock") = {}
    /\ \A b \in Blobs : Before(b) \subseteq Raw /\ \A c \in Before(b) : At[c] < At[b]
  BY Places DEF After, Before

LEMMA DdLayout ==
    ASSUME MediaInv, NEW b \in Blobs, Dd(b)
    PROVE  LayoutInv'
<1>0. /\ At[b] \in Nat \ {0} /\ DdLen(b) \in Nat \ {0} /\ pk.size \in Nat
      /\ At[b] + DdLen(b) <= pk.size
  <2>1. At[b] \in Nat \ {0}
    BY Places
  <2> QED
    BY <2>1, DdImage
<1>1. /\ pk.at = b /\ pk' = [pk EXCEPT !.at = After(b)] /\ b \in Laid
      /\ pk \in [at : PackSteps, mib : Nat, size : Nat]
  BY Places DEF Dd, PackNext, Laid, MediaInv, TypeOK
<1>2. pk'.at = After(b) /\ pk'.size = pk.size
  BY <1>1
<1>3. /\ At["rootfs"] + SdMib + 1 <= pk.size /\ img[1] = Gpt(SdMib, pk.size)
      /\ Edge \/ \E c \in Before(b) : Past(c)
      /\ \A i \in 1..pk.size : img[i].of # "rootfs"
  <2>1. DOMAIN img = 1..pk.size
    BY DdImage
  <2> QED
    BY <1>1, <2>1, Places DEF MediaInv, LayoutInv
<1>4. img'[1] = Gpt(SdMib, pk.size)
  <2>1. 1 \in 1..pk.size /\ 1 <= At[b]
    BY <1>0
  <2> QED
    BY <1>3, <2>1, DdImage
<1>5. Edge' \/ \E c \in Before(After(b)) : Past(c)'
  <2>1. ASSUME NEW c \in Before(b), Past(c)
        PROVE  c \in Before(After(b)) /\ Past(c)'
    <3>1. c \in Raw /\ At[c] < At[b] /\ c \in Before(After(b))
      BY AfterSteps, Places
    <3>2. At[c] + 1 \in 1..pk.size /\ At[c] + 1 <= At[b]
      <4>1. At[b] \in Nat /\ At[c] \in Nat /\ c \in Blobs
        BY <3>1, Places
      <4> QED
        BY <3>1, <4>1, DdImage
    <3>3. img'[At[c] + 1] = img[At[c] + 1]
      BY <3>2, DdImage
    <3> QED
      BY <2>1, <3>1, <3>3 DEF Past
  <2>2. CASE Edge /\ At[b] + DdLen(b) < pk.size
    <3>1. pk.size \in 1..pk.size /\ pk.size > At[b] + DdLen(b)
      BY <2>2, DdImage, Places
    <3>2. img'[pk.size] = img[pk.size]
      BY <3>1, DdImage
    <3> QED
      BY <1>2, <2>2, <3>2, DdImage DEF Edge
  <2>3. CASE ~(At[b] + DdLen(b) < pk.size)
    <3>1. b \in Raw /\ b \in Before(After(b)) /\ At[b] + DdLen(b) = pk.size
      <4>1. b # "rootfs"
        BY <2>3, DdImage
      <4>2. b \in Raw
        BY <4>1, Places
      <4>3. b \in Before(After(b))
        BY <4>2, AfterSteps
      <4>4. At[b] + DdLen(b) = pk.size
        BY <1>0, <2>3
      <4> QED
        BY <4>2, <4>3, <4>4
    <3>2. img'[At[b] + 1] = Cell(b, DdLen(b), 1)
      BY DdImage
    <3>3. At[b] + img'[At[b] + 1].len > At["rootfs"]
      BY <1>3, <3>1, <3>2, DdImage, Places DEF Cell
    <3> QED
      BY <3>1, <3>3 DEF Past
  <2> QED
    BY <1>3, <2>1, <2>2, <2>3
<1>6. b \in Raw => \A i \in DOMAIN img' : img'[i].of # "rootfs"
  <2> SUFFICES ASSUME b \in Raw, NEW i \in 1..pk.size PROVE img'[i].of # "rootfs"
    BY DdImage
  <2>1. CASE i <= At[b] \/ i > At[b] + DdLen(b)
    BY <1>3, <2>1, DdImage
  <2>2. CASE ~(i <= At[b] \/ i > At[b] + DdLen(b))
    <3>1. i - At[b] \in 1..DdLen(b) /\ At[b] + (i - At[b]) = i
      BY <2>2, DdImage, Places
    <3>2. img'[i] = Cell(b, DdLen(b), i - At[b])
      BY <3>1, DdImage
    <3> QED
      BY <3>2, Places DEF Cell
  <2> QED
    BY <2>1, <2>2
<1>7. b = "rootfs" => ReadsBack(img', "rootfs", SdMib)
  BY <1>3, DdImage, Places DEF ReadsBack, DdLen
<1>8. /\ pk'.at \in {"uboot", "boot", "rootfs", "verify"}
      /\ b = "rootfs" <=> pk'.at = "verify"
  BY <1>2, AfterSteps, Places
<1>9. PackedWhole'
  BY <1>8 DEF PackedWhole
<1> QED
  BY <1>2, <1>3, <1>4, <1>5, <1>6, <1>7, <1>8, <1>9, DdImage, Places DEF LayoutInv

-----------------------------------------------------------------------------
(* Steps of the packer that leave the image alone, and those that remake it. *)

LEMMA QuietStep ==
    ASSUME MediaInv, UNCHANGED <<img, fl, held, dev, mounted>>,
           pk'.at \in {"ext4", "guard", "done", "idle"}, PackedWhole'
    PROVE  LayoutInv' /\ CopyInv' /\ GuardInv'
<1>1. pk'.at \notin Laid \cup {"truncate", "gpt"}
  BY DEF Laid
<1>2. LayoutInv'
  BY <1>1 DEF LayoutInv, Laid
<1>3. CopyInv'
  BY DEF MediaInv, CopyInv, CardWhole, Source
<1>4. GuardInv'
  BY <1>1 DEF MediaInv, GuardInv, TooLarge, Target, Flashing
<1> QED
  BY <1>2, <1>3, <1>4

\* The packer's part of the type invariant.
PackType == /\ ext4 \in [size : Nat, fs : Nat] /\ ext4.fs <= ext4.size
            /\ img \in Seq(Cells)
            /\ pk \in [at : PackSteps, mib : Nat, size : Nat]
            /\ pk.at \in {"gpt", "verify"} \cup Blobs => img # <<>>

LEMMA PackerTypes ==
    ASSUME TypeOK, PackType', Aside, UNCHANGED <<mib, blob, edits>>
    PROVE  TypeOK'
  BY DEF TypeOK, PackType, Aside

LEMMA StartSdStep ==
    ASSUME MediaInv, NEW size \in SizeMibs, StartSd(size)
    PROVE  MediaInv'
<1>1. /\ kind = "nand" /\ UNCHANGED <<kind, ext4, img, fl, held, dev, mounted, mib, blob, edits>>
      /\ pk'.at = "ext4" /\ pk'.mib = SdMib
      /\ pk' = [at |-> "ext4", mib |-> SdMib, size |-> pk'.size]
  BY DEF StartSd, Frame, Aside
<1>2. pk'.size \in Nat /\ pk'.size > 0
  <2>1. size \in Nat
    BY MediaConstants
  <2>2. pk'.size = IF size > 0 THEN size ELSE At["rootfs"] + SdMib + 1
    BY DEF StartSd
  <2> QED
    BY <2>1, <2>2, Places
<1>3. PackType'
  <2>1. pk' \in [at : PackSteps, mib : Nat, size : Nat]
    BY <1>1, <1>2, Places DEF PackSteps
  <2>2. pk'.at \notin {"gpt", "verify"} \cup Blobs
    BY <1>1, Places
  <2> QED
    BY <1>1, <2>1, <2>2 DEF MediaInv, TypeOK, PackType
<1>4. TypeOK'
  BY <1>3, PackerTypes DEF MediaInv, StartSd, Frame
<1>5. PackInv'
  BY <1>1, <1>2 DEF MediaInv, PackInv, Laid
<1>6. LayoutInv' /\ CopyInv' /\ GuardInv'
  BY <1>1, QuietStep DEF PackedWhole
<1> QED
  BY <1>4, <1>5, <1>6 DEF MediaInv

LEMMA StartEmmcStep ==
    ASSUME MediaInv, StartEmmc
    PROVE  MediaInv'
<1>1. /\ kind = "emmc" /\ UNCHANGED <<kind, ext4, img, fl, held, dev, mounted, mib, blob, edits>>
      /\ pk' = [at |-> "ext4", mib |-> mib, size |-> 0]
  BY DEF StartEmmc, Frame, Aside
<1>2. mib \in Nat
  <2>1. mib \in Mibs
    BY DEF MediaInv, TypeOK
  <2> QED
    BY <2>1, MediaConstants
<1>3. PackType'
  <2>1. pk' \in [at : PackSteps, mib : Nat, size : Nat]
    BY <1>1, <1>2 DEF PackSteps
  <2>2. pk'.at \notin {"gpt", "verify"} \cup Blobs
    BY <1>1, Places
  <2> QED
    BY <1>1, <2>1, <2>2 DEF MediaInv, TypeOK, PackType
<1>4. TypeOK'
  BY <1>3, PackerTypes DEF MediaInv, StartEmmc, Frame
<1>5. PackInv'
  BY <1>1 DEF MediaInv, PackInv, Laid
<1>6. LayoutInv' /\ CopyInv' /\ GuardInv'
  BY <1>1, QuietStep DEF PackedWhole
<1> QED
  BY <1>4, <1>5, <1>6 DEF MediaInv

LEMMA Mke2fsStep ==
    ASSUME MediaInv, Mke2fs \/ Mke2fsFails
    PROVE  MediaInv'
<1>1. /\ pk.at = "ext4" /\ UNCHANGED <<kind, img, fl, held, dev, mounted, mib, blob, edits>> /\ Aside
      /\ ext4' = [size |-> Larger(ext4.size, pk.mib), fs |-> ext4'.fs]
      /\ ext4'.fs \in {0, pk.mib}
  BY DEF Mke2fs, Mke2fsFails, Frame, Aside
<1>2. /\ pk \in [at : PackSteps, mib : Nat, size : Nat] /\ kind \in {"nand", "emmc"}
      /\ ext4 \in [size : Nat, fs : Nat]
  BY MediaConstants DEF MediaInv, TypeOK
<1>3. ext4' \in [size : Nat, fs : Nat] /\ ext4'.fs <= ext4'.size
  BY <1>1, <1>2 DEF Larger
<1>4. /\ pk' \in [at : PackSteps, mib : Nat, size : Nat]
      /\ pk'.at \in {"guard", "done", "idle"}
      /\ pk'.at = "guard" => kind = "nand" /\ pk'.mib = pk.mib /\ pk'.size = pk.size /\ ext4'.fs = pk.mib
      /\ pk'.at = "done" => kind # "nand"
  <2>1. CASE Mke2fs /\ kind = "nand"
    BY <1>2, <2>1 DEF Mke2fs, PackNext, PackSteps
  <2>2. CASE Mke2fs /\ kind # "nand"
    BY <1>2, <2>2 DEF Mke2fs, Packed, PackSteps
  <2>3. CASE Mke2fsFails
    BY <2>3 DEF Mke2fsFails, Idle, PackSteps
  <2> QED
    BY <2>1, <2>2, <2>3
<1>5. TypeOK'
  <2>1. pk'.at \notin {"gpt", "verify"} \cup Blobs
    BY <1>4, Places
  <2>2. PackType'
    BY <1>1, <1>3, <1>4, <2>1 DEF MediaInv, TypeOK, PackType
  <2> QED
    BY <1>1, <2>2, PackerTypes DEF MediaInv
<1>6. PackInv'
  <2>1. kind = "nand" => ext4'.size = SdMib /\ pk.mib = SdMib /\ pk.size > 0
    <3>1. kind = "nand" => ext4.size <= SdMib /\ pk.mib = SdMib /\ pk.size > 0
      BY <1>1 DEF MediaInv, PackInv, Stopped
    <3> QED
      BY <1>1, <1>2, <3>1, Places DEF Larger
  <2>2. pk'.at = "guard" => ext4' = [size |-> SdMib, fs |-> SdMib]
    BY <1>1, <1>4, <2>1
  <2> QED
    BY <1>1, <1>4, <2>1, <2>2, Places DEF PackInv, Laid, Stopped
<1>7. LayoutInv' /\ CopyInv' /\ GuardInv'
  BY <1>1, <1>4, QuietStep DEF PackedWhole
<1> QED
  BY <1>5, <1>6, <1>7 DEF MediaInv

LEMMA UnlinkStep ==
    ASSUME MediaInv, Unlink
    PROVE  MediaInv'
<1>1. /\ pk.at = "guard" /\ pk' = [pk EXCEPT !.at = "truncate"] /\ img' = <<>>
      /\ fl' = [fl EXCEPT !.moved = Flashing]
      /\ held' = IF fl.at = "writing" /\ held = <<>> THEN img ELSE held
      /\ UNCHANGED <<kind, mib, blob, ext4, dev, mounted, edits>>
  BY DEF Unlink, PackNext
<1>2. /\ pk \in [at : PackSteps, mib : Nat, size : Nat] /\ img \in Seq(Cells) /\ held \in Seq(Cells)
      /\ fl \in [at : FlashSteps, node : Nodes, disk : Disks \cup {NoDisk},
                 moved : BOOLEAN, good : BOOLEAN, copy : Seq(Cells)]
  BY DEF MediaInv, TypeOK
<1>3. /\ pk' \in [at : PackSteps, mib : Nat, size : Nat] /\ pk'.at = "truncate"
      /\ pk'.mib = pk.mib /\ pk'.size = pk.size
  BY <1>1, <1>2 DEF PackSteps
<1>4. /\ fl' \in [at : FlashSteps, node : Nodes, disk : Disks \cup {NoDisk},
                   moved : BOOLEAN, good : BOOLEAN, copy : Seq(Cells)]
      /\ fl'.at = fl.at /\ fl'.good = fl.good /\ fl'.copy = fl.copy /\ fl'.moved = Flashing
  BY <1>1, <1>2 DEF Flashing
<1>5. TypeOK'
  <2>1. img' \in Seq(Cells) /\ held' \in Seq(Cells)
    BY <1>1, <1>2
  <2>2. pk'.at \notin {"gpt", "verify"} \cup Blobs
    BY <1>3, Places
  <2> QED
    BY <1>1, <1>3, <1>4, <2>1, <2>2 DEF MediaInv, TypeOK
<1>6. PackInv'
  <2>1. kind = "nand" /\ ext4 = [size |-> SdMib, fs |-> SdMib] /\ pk.mib = SdMib /\ pk.size > 0
    BY <1>1 DEF MediaInv, PackInv, Stopped
  <2> QED
    BY <1>1, <1>3, <2>1, Places DEF PackInv
<1>7. LayoutInv'
  BY <1>3 DEF LayoutInv, Laid, PackedWhole
<1>8. CopyInv'
  <2>1. fl'.at # "writing" => held' = <<>>
    BY <1>1, <1>4 DEF MediaInv, CopyInv
  <2>2. fl'.at = "writing" /\ fl'.good => Whole(Source')
    <3> SUFFICES ASSUME fl.at = "writing", fl.good PROVE Whole(Source')
      BY <1>4
    <3>1. Whole(Source) /\ Source # <<>>
      BY DEF MediaInv, CopyInv, Whole
    <3>2. Source' = Source
      BY <1>1, <3>1 DEF Source
    <3> QED
      BY <3>1, <3>2
  <2>3. CardWhole'
    BY <1>4 DEF MediaInv, CopyInv, CardWhole
  <2> QED
    BY <2>1, <2>2, <2>3 DEF CopyInv
<1>9. GuardInv'
  BY <1>1, <1>3, <1>4 DEF MediaInv, GuardInv, Laid, Flashing, Stopped
<1> QED
  BY <1>5, <1>6, <1>7, <1>8, <1>9 DEF MediaInv

LEMMA TruncateStep ==
    ASSUME MediaInv, Truncate
    PROVE  MediaInv'
<1>1. /\ pk.at = "truncate" /\ pk' = [pk EXCEPT !.at = "gpt"] /\ img' = Truncated(pk.size)
      /\ UNCHANGED <<kind, mib, blob, ext4, fl, held, dev, mounted, edits>> /\ Aside
  BY DEF Truncate, PackNext, Frame, Aside
<1>2. pk \in [at : PackSteps, mib : Nat, size : Nat] /\ pk.size \in Nat /\ img = <<>>
  BY <1>1 DEF MediaInv, TypeOK, PackInv
<1>3. /\ pk' \in [at : PackSteps, mib : Nat, size : Nat] /\ pk'.at = "gpt"
      /\ pk'.mib = pk.mib /\ pk'.size = pk.size
  BY <1>1, <1>2 DEF PackSteps
<1>4. kind = "nand" /\ ext4 = [size |-> SdMib, fs |-> SdMib] /\ pk.mib = SdMib /\ pk.size > 0
  BY <1>1 DEF MediaInv, PackInv, Stopped
<1>5. /\ img' \in Seq(Cells) /\ Len(img') = pk.size /\ img' # <<>>
      /\ \A i \in DOMAIN img' : img'[i] = Blank
  BY <1>1, <1>2, <1>4, TruncatedType
<1>6. TypeOK'
  <2>1. PackType'
    BY <1>1, <1>3, <1>5 DEF MediaInv, TypeOK, PackType
  <2> QED
    BY <1>1, <2>1, PackerTypes DEF MediaInv
<1>7. PackInv'
  BY <1>1, <1>3, <1>4, Places DEF PackInv
<1>8. LayoutInv'
  <2>1. \A i \in DOMAIN img' : img'[i].of # "rootfs"
    BY <1>5 DEF Blank, Cell
  <2> QED
    BY <1>3, <1>5, <2>1 DEF LayoutInv, Laid, PackedWhole
<1>9. CopyInv'
  <2>1. fl.at = "writing" /\ fl.good => Source # img
    BY <1>2 DEF MediaInv, CopyInv, Whole
  <2> QED
    BY <1>1, <2>1 DEF MediaInv, CopyInv, CardWhole, Source
<1>10. GuardInv'
  <2>1. Flashing => fl.moved
    BY <1>1 DEF MediaInv, GuardInv
  <2>2. fl.at \in {"system", "size", "confirm"} => Flashing
    BY DEF Flashing, Stopped
  <2> QED
    BY <1>1, <1>3, <2>1, <2>2 DEF MediaInv, GuardInv, Laid, Flashing
<1> QED
  BY <1>6, <1>7, <1>8, <1>9, <1>10 DEF MediaInv

\* No dd of the flasher can have opened a good image that is still being laid out.
LEMMA RemakeCopy ==
    ASSUME MediaInv, pk.at \in {"gpt", "idblock", "uboot", "boot", "rootfs"}, UNCHANGED <<fl, held>>
    PROVE  CopyInv'
<1>1. ~Whole(img)
  <2>1. \A i \in DOMAIN img : img[i].of # "rootfs"
    BY DEF MediaInv, LayoutInv
  <2> QED
    BY <2>1, WholeShape DEF MediaInv, TypeOK
<1>2. fl.at = "writing" /\ fl.good => held # <<>>
  BY <1>1 DEF MediaInv, CopyInv, Source
<1> QED
  BY <1>2 DEF MediaInv, CopyInv, CardWhole, Source

\* The guards see the same image size, disk and mounts.
LEMMA SameSize ==
    ASSUME MediaInv, Len(img') = Len(img), Len(img') = pk'.size, pk'.at # "truncate",
           UNCHANGED <<fl, dev, mounted>>
    PROVE  GuardInv'
  BY DEF MediaInv, GuardInv, TooLarge, Target, Flashing

LEMMA SgdiskStep ==
    ASSUME MediaInv, Sgdisk
    PROVE  MediaInv'
<1>1. /\ pk.at = "gpt" /\ RootfsFits /\ pk' = [pk EXCEPT !.at = "idblock"]
      /\ img' = Partitioned(img, pk.mib)
      /\ UNCHANGED <<kind, mib, blob, ext4, fl, held, dev, mounted, edits>> /\ Aside
  BY DEF Sgdisk, PackNext, Frame, Aside
<1>2. /\ pk \in [at : PackSteps, mib : Nat, size : Nat] /\ pk.size \in Nat
      /\ img \in Seq(Cells) /\ Len(img) = pk.size
      /\ \A i \in DOMAIN img : img[i].of # "rootfs"
  BY <1>1 DEF MediaInv, TypeOK, LayoutInv
<1>3. /\ pk' \in [at : PackSteps, mib : Nat, size : Nat] /\ pk'.at = "idblock"
      /\ pk'.mib = pk.mib /\ pk'.size = pk.size
  BY <1>1, <1>2, Places DEF PackSteps
<1>4. kind = "nand" /\ ext4 = [size |-> SdMib, fs |-> SdMib] /\ pk.mib = SdMib /\ pk.size > 0
  BY <1>1 DEF MediaInv, PackInv, Stopped
<1>5. At["rootfs"] + SdMib + 1 <= pk.size /\ Len(img) > 1
  BY <1>1, <1>2, <1>4, Places DEF RootfsFits
<1>6. /\ img' \in Seq(Cells) /\ Len(img') = pk.size /\ img' # <<>>
      /\ img'[1] = Gpt(SdMib, pk.size) /\ img'[pk.size] = Gpt(SdMib, pk.size)
      /\ \A i \in 1..pk.size : img'[i] = img[i] \/ img'[i] = Gpt(SdMib, pk.size)
  <2>1. pk.mib \in Nat
    BY <1>2
  <2>2. /\ img' \in Seq(Cells) /\ Len(img') = pk.size
        /\ img'[1] = Gpt(SdMib, pk.size) /\ img'[pk.size] = Gpt(SdMib, pk.size)
        /\ \A i \in 1..pk.size : img'[i] = img[i] \/ img'[i] = Gpt(SdMib, pk.size)
    BY <1>1, <1>2, <1>4, <1>5, <2>1, PartitionedType
  <2> QED
    BY <1>2, <1>5, <2>2
<1>7. TypeOK'
  <2>1. PackType'
    BY <1>1, <1>3, <1>6 DEF MediaInv, TypeOK, PackType
  <2> QED
    BY <1>1, <2>1, PackerTypes DEF MediaInv
<1>8. PackInv'
  BY <1>1, <1>3, <1>4, Places DEF PackInv
<1>9. LayoutInv'
  <2>1. \A i \in DOMAIN img' : img'[i].of # "rootfs"
    <3> SUFFICES ASSUME NEW i \in 1..pk.size PROVE img'[i].of # "rootfs"
      BY <1>6
    <3>1. img[i].of # "rootfs"
      BY <1>2
    <3> QED
      BY <1>6, <3>1 DEF Gpt, Cell
  <2>2. Edge'
    BY <1>3, <1>6 DEF Edge
  <2>3. pk.size <= Len(img')
    BY <1>2, <1>6
  <2> QED
    BY <1>3, <1>5, <1>6, <2>1, <2>2, <2>3 DEF LayoutInv, PackedWhole
<1>10. CopyInv' /\ GuardInv'
  BY <1>1, <1>2, <1>3, <1>6, RemakeCopy, SameSize
<1> QED
  BY <1>7, <1>8, <1>9, <1>10 DEF MediaInv

LEMMA DdStep ==
    ASSUME MediaInv, NEW b \in Blobs, Dd(b)
    PROVE  MediaInv'
<1>1. /\ pk.at = b /\ pk' = [pk EXCEPT !.at = After(b)] /\ pk.at \in Laid
      /\ UNCHANGED <<kind, mib, blob, ext4, fl, held, dev, mounted, edits>> /\ Aside
  BY Places DEF Dd, PackNext, Frame, Aside, Laid
<1>2. /\ pk' \in [at : PackSteps, mib : Nat, size : Nat] /\ pk'.at \in Laid
      /\ pk'.mib = pk.mib /\ pk'.size = pk.size
  <2>1. pk \in [at : PackSteps, mib : Nat, size : Nat]
    BY DEF MediaInv, TypeOK
  <2>2. After(b) \in Laid
    BY Places, AfterSteps DEF Laid
  <2>3. Laid \subseteq PackSteps
    BY Places DEF Laid, PackSteps
  <2> QED
    BY <1>1, <2>1, <2>2, <2>3
<1>3. img' \in Seq(Cells) /\ Len(img') = pk.size /\ img' # <<>>
  BY DdImage, Places
<1>4. TypeOK'
  <2>1. PackType'
    BY <1>1, <1>2, <1>3 DEF MediaInv, TypeOK, PackType
  <2> QED
    BY <1>1, <2>1, PackerTypes DEF MediaInv
<1>5. PackInv'
  <2>1. kind = "nand" /\ ext4 = [size |-> SdMib, fs |-> SdMib] /\ pk.mib = SdMib /\ pk.size > 0
    BY <1>1 DEF MediaInv, PackInv, Laid, Stopped
  <2> QED
    BY <1>1, <1>2, <2>1, Places DEF PackInv, Laid
<1>6. CopyInv' /\ GuardInv'
  <2>1. pk.at \in {"idblock", "uboot", "boot", "rootfs"} /\ pk'.at # "truncate"
    BY <1>1, <1>2, Places DEF Laid
  <2> QED
    BY <1>1, <1>2, <1>3, <2>1, DdImage, RemakeCopy, SameSize
<1> QED
  BY <1>4, <1>5, <1>6, DdLayout DEF MediaInv

\* A blob that reads back has not run into the root filesystem.
LEMMA VerifyWhole ==
    ASSUME MediaInv, Verify
    PROVE  Whole(img)
<1>1. /\ pk.at = "verify" /\ \A b \in Raw : blob[b] > 0 /\ ReadsBack(img, b, blob[b])
  BY DEF Verify, Verified
<1>2. /\ At["rootfs"] + SdMib + 1 <= pk.size /\ img[1] = Gpt(SdMib, pk.size)
      /\ Edge \/ \E c \in Raw : Past(c)
      /\ ReadsBack(img, "rootfs", SdMib)
  BY <1>1, AfterSteps DEF MediaInv, LayoutInv, Laid
<1>3. \A b \in Raw : blob[b] \in Lengths /\ blob[b] \in Nat \ {0}
  <2> SUFFICES ASSUME NEW b \in Raw PROVE blob[b] \in Lengths /\ blob[b] \in Nat \ {0}
    OBVIOUS
  <2>1. blob[b] \in Lengths \cup {0} /\ Lengths \subseteq Nat \ {0} /\ blob[b] > 0
    BY <1>1, MediaConstants DEF MediaInv, TypeOK
  <2>2. CASE blob[b] = 0
    BY <2>1, <2>2
  <2> QED
    BY <2>1, <2>2
<1>4. ASSUME NEW c \in Raw, Past(c) PROVE FALSE
  <2>1. /\ At[c] \in Nat /\ At[c] < At["rootfs"] /\ At["rootfs"] \in Nat /\ blob[c] \in Nat \ {0}
        /\ c # "rootfs"
    BY <1>3, Places
  <2>2. \A i \in 1..blob[c] : img[At[c] + i] = Cell(c, blob[c], i)
    BY <1>1 DEF ReadsBack
  <2>3. img[At[c] + 1] = Cell(c, blob[c], 1)
    BY <2>1, <2>2
  <2>4. At[c] + blob[c] > At["rootfs"]
    BY <1>4, <2>3 DEF Past, Cell
  <2>5. /\ (At["rootfs"] - At[c]) + 1 \in 1..blob[c]
        /\ At[c] + ((At["rootfs"] - At[c]) + 1) = At["rootfs"] + 1
    BY <2>1, <2>4
  <2>6. img[At["rootfs"] + 1] = Cell(c, blob[c], (At["rootfs"] - At[c]) + 1)
    BY <2>2, <2>5
  <2>7. img[At["rootfs"] + 1] = Cell("rootfs", SdMib, 1)
    BY <1>2, Places DEF ReadsBack
  <2> QED
    BY <2>1, <2>6, <2>7 DEF Cell
<1>5. Len(img) = pk.size /\ img[pk.size] = Gpt(SdMib, pk.size)
  BY <1>2, <1>4 DEF Edge
<1>6. img # <<>>
  BY <1>1 DEF MediaInv, TypeOK
<1>7. img[1].part = SdMib /\ img[1] = Gpt(img[1].part, Len(img)) /\ img[Len(img)] = img[1]
  BY <1>2, <1>5 DEF Gpt, Cell
<1>8. \A b \in Raw : \E len \in Lengths : ReadsBack(img, b, len)
  BY <1>1, <1>3
<1> QED
  BY <1>2, <1>6, <1>7, <1>8, Places DEF Whole

LEMMA PackEndStep ==
    ASSUME MediaInv, Verify \/ SgdiskFails \/ PackDies
    PROVE  MediaInv'
<1>1. UNCHANGED <<kind, mib, blob, ext4, img, fl, held, dev, mounted, edits>> /\ Aside
  BY DEF Verify, SgdiskFails, PackDies, Frame, Aside
<1>2. /\ pk' \in [at : PackSteps, mib : Nat, size : Nat] /\ pk'.at \in {"done", "idle"}
      /\ pk'.at = "done" => Whole(img)
  <2>1. pk \in [at : PackSteps, mib : Nat, size : Nat]
    BY DEF MediaInv, TypeOK
  <2>2. CASE Verify
    <3>1. pk' = [pk EXCEPT !.at = "done", !.size = 0] /\ Whole(img)
      BY <2>2, VerifyWhole DEF Verify, Packed
    <3> QED
      BY <2>1, <3>1 DEF PackSteps
  <2>3. CASE SgdiskFails \/ PackDies
    <3>1. pk' = [at |-> "idle", mib |-> 0, size |-> 0]
      BY <2>3 DEF SgdiskFails, PackDies, Idle
    <3> QED
      BY <3>1 DEF PackSteps
  <2> QED
    BY <2>2, <2>3
<1>3. TypeOK'
  <2>1. pk'.at \notin {"gpt", "verify"} \cup Blobs
    BY <1>2, Places
  <2>2. PackType'
    BY <1>1, <1>2, <2>1 DEF MediaInv, TypeOK, PackType
  <2> QED
    BY <1>1, <2>2, PackerTypes DEF MediaInv
<1>4. PackInv'
  BY <1>1, <1>2 DEF MediaInv, PackInv, Laid, Stopped
<1>5. LayoutInv' /\ CopyInv' /\ GuardInv'
  BY <1>1, <1>2, QuietStep DEF PackedWhole
<1> QED
  BY <1>3, <1>4, <1>5 DEF MediaInv

-----------------------------------------------------------------------------
(* Steps of the flasher, the user and the host.                            *)

FlashType == fl \in [at : FlashSteps, node : Nodes, disk : Disks \cup {NoDisk},
                     moved : BOOLEAN, good : BOOLEAN, copy : Seq(Cells)]

\* Every step that leaves what a pack has made keeps what is known of it.
LEMMA PackKept ==
    ASSUME MediaInv, UNCHANGED <<kind, ext4, img, pk>>
    PROVE  PackInv' /\ LayoutInv'
  BY DEF MediaInv, PackInv, LayoutInv, PackedWhole, Edge, Past

LEMMA FlashTypes ==
    ASSUME MediaInv, FlashType', held' \in Seq(Cells), UNCHANGED <<packVars, hostVars>>
    PROVE  TypeOK' /\ PackInv' /\ LayoutInv'
<1>1. TypeOK'
  BY DEF MediaInv, TypeOK, FlashType, packVars, hostVars
<1> QED
  BY <1>1, PackKept DEF packVars

LEMMA StartFlashStep ==
    ASSUME MediaInv, NEW n \in Nodes, StartFlash(n)
    PROVE  MediaInv'
<1>1. /\ ~Flashing /\ img # <<>> /\ UNCHANGED <<packVars, hostVars, held>>
      /\ fl' = [NoFlash EXCEPT !.at = "mounted", !.node = n]
  BY DEF StartFlash
<1>2. FlashType' /\ fl'.at = "mounted" /\ fl'.moved = FALSE
  BY <1>1, NoFlashType DEF FlashType, FlashSteps
<1>3. TypeOK' /\ PackInv' /\ LayoutInv'
  BY <1>1, <1>2, FlashTypes DEF MediaInv, TypeOK
<1>4. CopyInv'
  <2>1. fl.at # "writing"
    BY <1>1 DEF Flashing, Stopped
  <2> QED
    BY <1>1, <1>2, <2>1 DEF MediaInv, CopyInv, CardWhole
<1>5. GuardInv'
  <2>1. pk.at # "truncate"
    BY <1>1 DEF MediaInv, PackInv
  <2> QED
    BY <1>1, <1>2, <2>1 DEF MediaInv, GuardInv, packVars, hostVars
<1> QED
  BY <1>3, <1>4, <1>5 DEF MediaInv

LEMMA GuardStep ==
    ASSUME MediaInv, GuardMounted \/ GuardSystem \/ CheckSize
    PROVE  MediaInv'
<1>1. /\ UNCHANGED <<packVars, hostVars, held>>
      /\ \/ /\ fl.at = "mounted" /\ Target \notin mounted /\ fl' = [fl EXCEPT !.at = "system"]
         \/ /\ fl.at = "system" /\ fl' = [fl EXCEPT !.at = "size"]
         \/ /\ fl.at = "size" /\ ~TooLarge(Target) /\ fl' = [fl EXCEPT !.at = "confirm"]
  BY DEF GuardMounted, GuardSystem, CheckSize, FlashNext
<1>2. /\ FlashType' /\ fl'.moved = fl.moved /\ fl'.node = fl.node
      /\ \/ fl.at = "mounted" /\ Target \notin mounted /\ fl'.at = "system"
         \/ fl.at = "system" /\ fl'.at = "size"
         \/ fl.at = "size" /\ ~TooLarge(Target) /\ fl'.at = "confirm"
  <2>1. FlashType
    BY DEF MediaInv, TypeOK, FlashType
  <2> QED
    BY <1>1, <2>1 DEF FlashType, FlashSteps
<1>3. TypeOK' /\ PackInv' /\ LayoutInv'
  BY <1>1, <1>2, FlashTypes DEF MediaInv, TypeOK
<1>4. CopyInv'
  BY <1>1, <1>2 DEF MediaInv, CopyInv, CardWhole
<1>5. GuardInv'
  <2>1. /\ Target' = Target /\ mounted' = mounted /\ img' = img /\ pk' = pk /\ Flashing
        /\ TooLarge(Target)' = TooLarge(Target)
    BY <1>1, <1>2 DEF Target, TooLarge, packVars, hostVars, Flashing, Stopped
  <2> QED
    BY <1>2, <2>1 DEF MediaInv, GuardInv
<1> QED
  BY <1>3, <1>4, <1>5 DEF MediaInv

LEMMA ConfirmStep ==
    ASSUME MediaInv, Confirm
    PROVE  MediaInv'
<1>1. /\ fl.at = "confirm" /\ UNCHANGED <<packVars, hostVars, held>>
      /\ fl' = [fl EXCEPT !.at = "writing", !.disk = Target, !.good = Whole(img)]
  BY DEF Confirm
<1>2. /\ FlashType' /\ fl'.at = "writing" /\ fl'.good = Whole(img) /\ fl'.moved = fl.moved
      /\ fl'.disk = Target
  <2>1. FlashType /\ Target \in Disks \cup {NoDisk}
    BY DEF MediaInv, TypeOK, FlashType, Target
  <2>2. Whole(img) \in BOOLEAN
    BY DEF Whole
  <2> QED
    BY <1>1, <2>1, <2>2 DEF FlashType, FlashSteps
<1>3. TypeOK' /\ PackInv' /\ LayoutInv'
  BY <1>1, <1>2, FlashTypes DEF MediaInv, TypeOK
<1>4. CopyInv'
  <2>1. Source' = img
    BY <1>1 DEF MediaInv, CopyInv, Source, packVars
  <2> QED
    BY <1>2, <2>1 DEF CopyInv, CardWhole
<1>5. GuardInv'
  BY <1>1, <1>2 DEF MediaInv, GuardInv, packVars, hostVars, Flashing, Stopped
<1> QED
  BY <1>3, <1>4, <1>5 DEF MediaInv

LEMMA FlashEndStep ==
    ASSUME MediaInv, DdDone \/ FlashDies
    PROVE  MediaInv'
<1>1. /\ UNCHANGED <<packVars, hostVars>> /\ held' = <<>>
      /\ \/ fl' = NoFlash
         \/ /\ fl.at = "writing"
            /\ fl' = [NoFlash EXCEPT !.at = "done", !.good = fl.good, !.copy = Source]
  BY DEF DdDone, FlashDies
<1>2. /\ FlashType' /\ fl'.moved = FALSE
      /\ \/ fl'.at = "idle"
         \/ fl.at = "writing" /\ fl'.at = "done" /\ fl'.good = fl.good /\ fl'.copy = Source
  <2>1. FlashType /\ Source \in Seq(Cells) /\ Nodes # {}
    BY DEF MediaInv, TypeOK, FlashType, Source
  <2>2. NoFlash \in [at : FlashSteps, node : Nodes, disk : Disks \cup {NoDisk},
                     moved : BOOLEAN, good : BOOLEAN, copy : Seq(Cells)]
        /\ NoFlash.at = "idle" /\ NoFlash.moved = FALSE
    BY <2>1, NoFlashType
  <2> QED
    BY <1>1, <2>1, <2>2 DEF FlashType, FlashSteps
<1>3. TypeOK' /\ PackInv' /\ LayoutInv'
  BY <1>1, <1>2, FlashTypes
<1>4. CopyInv'
  BY <1>1, <1>2 DEF MediaInv, CopyInv, CardWhole
<1>5. GuardInv'
  BY <1>1, <1>2 DEF MediaInv, GuardInv, packVars, hostVars, Flashing, Stopped
<1> QED
  BY <1>3, <1>4, <1>5 DEF MediaInv

LEMMA EditStep ==
    ASSUME MediaInv, \/ \E b \in Raw, len \in Lengths \cup {0} : EditBlob(b, len)
                     \/ \E m \in Mibs : EditMib(m)
    PROVE  MediaInv'
<1>1. /\ UNCHANGED <<kind, ext4, img, pk, fl, held, dev, mounted>>
      /\ edits < MaxEdits /\ edits' = edits + 1
      /\ mib' \in Mibs /\ blob' \in [Raw -> Lengths \cup {0}]
  BY DEF EditBlob, EditMib, Aside, MediaInv, TypeOK
<1>2. edits' \in 0..MaxEdits
  BY <1>1, MediaConstants DEF MediaInv, TypeOK
<1>3. TypeOK'
  BY <1>1, <1>2 DEF MediaInv, TypeOK
<1>4. PackInv' /\ LayoutInv'
  BY <1>1, PackKept
<1>5. CopyInv' /\ GuardInv'
  BY <1>1 DEF MediaInv, CopyInv, CardWhole, Source, GuardInv, TooLarge, Target, Flashing
<1> QED
  BY <1>3, <1>4, <1>5 DEF MediaInv

LEMMA HostStep ==
    ASSUME MediaInv, \/ \E n \in Nodes, d \in Disks \cup {NoDisk} : Replug(n, d)
                     \/ \E d \in Disks : Mount(d) \/ Umount(d)
    PROVE  MediaInv'
<1>1. /\ UNCHANGED <<packVars, held, edits>> /\ fl' = [fl EXCEPT !.moved = Flashing]
      /\ dev' \in [Nodes -> Disks \cup {NoDisk}]
      /\ mounted' \subseteq Disks /\ System \in mounted'
  BY DEF Replug, Mount, Umount, HostMoves, MediaInv, TypeOK, GuardInv
<1>2. /\ FlashType' /\ fl'.at = fl.at /\ fl'.good = fl.good /\ fl'.copy = fl.copy
      /\ fl'.moved = Flashing
  <2>1. FlashType /\ Flashing \in BOOLEAN
    BY DEF MediaInv, TypeOK, FlashType, Flashing
  <2> QED
    BY <1>1, <2>1 DEF FlashType
<1>3. TypeOK'
  BY <1>1, <1>2 DEF MediaInv, TypeOK, FlashType, packVars
<1>4. PackInv' /\ LayoutInv'
  BY <1>1, PackKept DEF packVars
<1>5. CopyInv'
  BY <1>1, <1>2 DEF MediaInv, CopyInv, CardWhole, Source, packVars
<1>6. GuardInv'
  BY <1>1, <1>2 DEF MediaInv, GuardInv, packVars, Flashing, Stopped
<1> QED
  BY <1>3, <1>4, <1>5, <1>6 DEF MediaInv

-----------------------------------------------------------------------------
(* What the packers and the flasher promise.                               *)

LEMMA StepInv == MediaInv /\ [Next]_vars => MediaInv'
<1> SUFFICES ASSUME MediaInv, [Next]_vars PROVE MediaInv'
  OBVIOUS
<1>1. CASE \E size \in SizeMibs : StartSd(size)
  BY <1>1, StartSdStep
<1>2. CASE StartEmmc
  BY <1>2, StartEmmcStep
<1>3. CASE Mke2fs \/ Mke2fsFails
  BY <1>3, Mke2fsStep
<1>4. CASE Unlink
  BY <1>4, UnlinkStep
<1>5. CASE Truncate
  BY <1>5, TruncateStep
<1>6. CASE Sgdisk
  BY <1>6, SgdiskStep
<1>7. CASE \E b \in Blobs : Dd(b)
  BY <1>7, DdStep
<1>8. CASE Verify \/ SgdiskFails \/ PackDies
  BY <1>8, PackEndStep
<1>9. CASE \E n \in Nodes : StartFlash(n)
  BY <1>9, StartFlashStep
<1>10. CASE GuardMounted \/ GuardSystem \/ CheckSize
  BY <1>10, GuardStep
<1>11. CASE Confirm
  BY <1>11, ConfirmStep
<1>12. CASE DdDone \/ FlashDies
  BY <1>12, FlashEndStep
<1>13. CASE \/ \E b \in Raw, len \in Lengths \cup {0} : EditBlob(b, len)
            \/ \E m \in Mibs : EditMib(m)
  BY <1>13, EditStep
<1>14. CASE \/ \E n \in Nodes, d \in Disks \cup {NoDisk} : Replug(n, d)
            \/ \E d \in Disks : Mount(d) \/ Umount(d)
  BY <1>14, HostStep
<1>15. CASE UNCHANGED vars
  <2>1. UNCHANGED <<kind, mib, blob, ext4, img, pk, fl, held, dev, mounted, edits>>
    BY <1>15 DEF vars
  <2> QED
    BY <2>1 DEF MediaInv, TypeOK, PackInv, LayoutInv, PackedWhole, Edge, Past, CopyInv,
                CardWhole, Source, GuardInv, TooLarge, Target, Flashing
<1> QED
  BY <1>1, <1>2, <1>3, <1>4, <1>5, <1>6, <1>7, <1>8, <1>9, <1>10, <1>11, <1>12, <1>13, <1>14,
     <1>15 DEF Next

\* The packers and the flasher keep MediaInv (sd.py, emmc.py, flash.py).
THEOREM MediaInvariant == Spec => []MediaInv
  BY InitInv, StepInv, PTL DEF Spec

\* Every variable holds a value of its kind (sd.py, emmc.py, flash.py).
THEOREM MediaTypes == Spec => []TypeOK
  <1>1. MediaInv => TypeOK
    BY DEF MediaInv
  <1> QED
    BY <1>1, MediaInvariant, PTL

\* A pack-sd that ends well leaves an image a board boots from, whatever the blobs
\* are and however they change while it runs (SdPacker.pack, _verify_offset).
THEOREM SdImageWhole == Spec => []PackedWhole
  <1>1. MediaInv => PackedWhole
    BY DEF MediaInv, LayoutInv
  <1> QED
    BY <1>1, MediaInvariant, PTL

\* A flash that reports success has copied the image whole, however often pack-sd
\* replaces it meanwhile (Flasher.flash, SdPacker.pack).
THEOREM CardIsWhole == Spec => []CardWhole
  <1>1. MediaInv => CardWhole
    BY DEF MediaInv, CopyInv
  <1> QED
    BY <1>1, MediaInvariant, PTL

\* dd starts only where the user confirms.
LEMMA OnlyConfirmWrites ==
    ASSUME MediaInv, Next, fl.at # "writing", ~Confirm
    PROVE  fl'.at # "writing"
<1>1. fl \in [at : FlashSteps, node : Nodes, disk : Disks \cup {NoDisk},
             moved : BOOLEAN, good : BOOLEAN, copy : Seq(Cells)] /\ NoFlash.at = "idle"
  BY NoFlashType DEF MediaInv, TypeOK
<1>2. NoFlash \in [at : FlashSteps, node : Nodes, disk : Disks \cup {NoDisk},
                  moved : BOOLEAN, good : BOOLEAN, copy : Seq(Cells)]
  BY <1>1, NoFlashType
<1>3. CASE fl' = fl
  BY <1>3
<1>4. CASE fl' = [fl EXCEPT !.moved = Flashing]
  BY <1>1, <1>4
<1>5. CASE \E n \in Nodes : StartFlash(n)
  BY <1>2, <1>5 DEF StartFlash
<1>6. CASE GuardMounted \/ GuardSystem \/ CheckSize
  BY <1>1, <1>6 DEF GuardMounted, GuardSystem, CheckSize, FlashNext
<1>7. CASE DdDone \/ FlashDies
  BY <1>1, <1>2, <1>7 DEF DdDone, FlashDies
<1>8. CASE \/ \E size \in SizeMibs : StartSd(size)
           \/ StartEmmc \/ Mke2fs \/ Mke2fsFails \/ Truncate \/ Sgdisk \/ SgdiskFails
           \/ \E b \in Blobs : Dd(b)
           \/ Verify \/ PackDies
           \/ \E b \in Raw, len \in Lengths \cup {0} : EditBlob(b, len)
           \/ \E m \in Mibs : EditMib(m)
  <2>1. fl' = fl
    BY <1>8 DEF StartSd, StartEmmc, Mke2fs, Mke2fsFails, Truncate, Sgdisk, SgdiskFails, Dd, Verify,
                PackDies, EditBlob, EditMib, Frame, Aside
  <2> QED
    BY <1>3, <2>1
<1>9. CASE \/ Unlink
           \/ \E n \in Nodes, d \in Disks \cup {NoDisk} : Replug(n, d)
           \/ \E d \in Disks : Mount(d) \/ Umount(d)
  <2>1. fl' = [fl EXCEPT !.moved = Flashing]
    BY <1>9 DEF Unlink, Replug, Mount, Umount, HostMoves
  <2> QED
    BY <1>4, <2>1
<1> QED
  BY <1>5, <1>6, <1>7, <1>8, <1>9 DEF Next

\* While nothing moves under the guards, dd overwrites no system disk, no mounted
\* disk and none too small, with or without lsblk's parent name (Flasher.flash).
THEOREM FlashSparesDisks == Spec => WritesAllowed
<1>1. MediaInv /\ [Next]_vars =>
         [fl.at # "writing" /\ fl'.at = "writing" /\ ~fl.moved => ~Spared(fl'.disk)]_vars
  <2> SUFFICES ASSUME MediaInv, Next, fl.at # "writing", fl'.at = "writing", ~fl.moved
               PROVE  ~Spared(fl'.disk)
    OBVIOUS
  <2>1. Confirm
    BY OnlyConfirmWrites
  <2>2. fl.at = "confirm" /\ fl'.disk = Target
    <3>1. fl \in [at : FlashSteps, node : Nodes, disk : Disks \cup {NoDisk},
                 moved : BOOLEAN, good : BOOLEAN, copy : Seq(Cells)]
      BY DEF MediaInv, TypeOK
    <3> QED
      BY <2>1, <3>1 DEF Confirm
  <2>3. System \in mounted /\ Target \notin mounted /\ ~TooLarge(Target)
    BY <2>2 DEF MediaInv, GuardInv
  <2> QED
    BY <2>2, <2>3 DEF Spared
<1> QED
  BY <1>1, MediaInvariant, PTL DEF Spec, WritesAllowed
=============================================================================
