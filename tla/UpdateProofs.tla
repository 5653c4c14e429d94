---------------------------- MODULE UpdateProofs ----------------------------
(***************************************************************************)
(* Proofs about Update for every package file, parameter file and length.  *)
(* UpdateInv says what is known of the records while the package file is   *)
(* walked (PlaceInv), of the body while it is appended to (BodyInv) and of *)
(* what the round trip has read back (ReadInv).                            *)
(***************************************************************************)
EXTENDS Update, TLAPS

Table == RKAF_HDR + Len(rows) * ENTRY_SZ
Running == phase \in {"pack", "body", "unpack", "done"}

PresentInv == Running => \A f \in Required(variant) : size[f] \in Nat
RowInv ==
  /\ Len(images) = Len(recs) /\ Len(recs) <= Len(rows) /\ done <= Len(rows)
  /\ \A k \in DOMAIN recs :
       /\ recs[k].base = rows[k].base
       /\ LoadImage(rows[k]) # NoData /\ recs[k].size = Wrapped(rows[k])
       /\ images[k] = [pos |-> recs[k].pos, row |-> rows[k], len |-> recs[k].size]
PlaceInv ==
  \A k \in DOMAIN recs :
    /\ recs[k].pos % PAGE = 0
    /\ Table <= recs[k].pos
    /\ recs[k].pos + recs[k].size <= cursor
    /\ \A j \in 1 .. k - 1 : recs[j].pos + recs[j].size <= recs[k].pos
PhaseInv ==
  /\ phase = "check" => recs = <<>> /\ images = <<>> /\ done = 0
  /\ phase \in {"check", "pack"} => segs = <<>> /\ update.state # "whole"
  /\ phase = "pack" => done = Len(recs) /\ cursor % PAGE = 0 /\ Table <= cursor
  /\ phase = "body" => done = Len(segs) /\ Len(recs) = Len(rows) /\ update.state # "whole"
  /\ phase \in {"unpack", "done"} => update.state = "whole"
  /\ phase = "done" /\ verify => done = Len(rows)
BodyInv ==
  /\ Len(segs) <= Len(recs)
  /\ \A k \in DOMAIN segs : segs[k] = [at |-> recs[k].pos, row |-> rows[k], len |-> recs[k].size]
  /\ phase \in {"body", "unpack", "done"} =>
       /\ \A k \in DOMAIN segs : recs[k].pos + recs[k].size <= bodyLen
       /\ \A k \in DOMAIN recs : Len(segs) < k => bodyLen <= recs[k].pos
SealInv ==
  update.state = "whole" =>
    /\ update.recs = recs /\ update.segs = segs /\ Len(segs) = Len(rows) /\ Len(recs) = Len(rows)
    /\ update.span = bodyLen + 4
    /\ \A k \in DOMAIN recs : recs[k].pos + recs[k].size <= bodyLen
ReadInv ==
  /\ \A b \in Bases : got[b] # NoData => \E k \in DOMAIN rows : rows[k].base = b
  /\ phase \in {"unpack", "done"} =>
       \A k \in 1 .. done : Alone(k) => got[rows[k].base] = LoadImage(rows[k])
  /\ phase = "done" /\ verify => \A p \in Promised : got[p.base] # NoData
UpdateInv ==
  TypeOK /\ PresentInv /\ RowInv /\ PlaceInv /\ PhaseInv /\ BodyInv /\ SealInv /\ ReadInv

-----------------------------------------------------------------------------
(* Rounding up to a page.                                                  *)

LEMMA RoundUpPage ==
  ASSUME NEW x \in Nat
  PROVE  RoundUp(x) \in Nat /\ x <= RoundUp(x) /\ RoundUp(x) % PAGE = 0
  BY DEF RoundUp, PAGE

(* The package file's rows.                                                *)

LEMMA RowsOK == ASSUME TypeOK PROVE rows \in Seq(Row) /\ Len(rows) \in Nat
  BY UpdateConstants DEF TypeOK

\* What a row loads is a file of this run, or nothing; if it is empty it is *the* empty file.
Fine(d) == d \in Blob /\ (d # NoData /\ d.bytes = 0 => d = Data("", 0))

LEMMA DataFine == ASSUME NEW f \in Files, NEW n \in Nat PROVE Fine(Data(f, n))
  BY DEF Fine, Data, Blob

LEMMA LoadFine ==
  ASSUME TypeOK, NEW row \in Row, \A f \in Required(variant) : size[f] \in Nat
  PROVE  Fine(LoadImage(row))
<1>1. "loader" \in Required(variant) /\ "uboot" \in Required(variant)
      /\ "parameter" \in Required(variant) /\ "package" \in Required(variant)
  BY DEF Required, Files
<1>2. PartBytes("boot") \in Nat
  BY DEF PartBytes, TypeOK, Slot, Partitions
<1>3. Fine(NoData)
  BY DEF Fine, NoData, Blob
<1>4. Fine(Data("loader", size["loader"])) /\ Fine(Data("uboot", size["uboot"]))
      /\ Fine(Data("parameter", size["parameter"])) /\ Fine(Data("package", size["package"]))
  BY <1>1, DataFine DEF Files
<1>5. Fine(Data("boot", PartBytes("boot")))
  BY <1>2, DataFine DEF Files
<1>6. "rootfs" \in Required(variant) => Fine(Data("rootfs", size["rootfs"]))
  BY DataFine DEF Files
<1>7. \/ Staged(row.base) \in {NoData, Data("loader", size["loader"]), Data("uboot", size["uboot"]),
                               Data("parameter", size["parameter"]), Data("boot", PartBytes("boot"))}
      \/ "rootfs" \in Required(variant) /\ Staged(row.base) = Data("rootfs", size["rootfs"])
  BY DEF Staged
<1>8. Fine(Staged(row.base))
  BY <1>3, <1>4, <1>5, <1>6, <1>7
<1>9. CASE row.name = "package-file"
  BY <1>4, <1>9 DEF LoadImage
<1>10. CASE row.name # "package-file"
  BY <1>8, <1>10 DEF LoadImage
<1> QED
  BY <1>9, <1>10

LEMMA LoadOK ==
  ASSUME TypeOK, NEW row \in Row, \A f \in Required(variant) : size[f] \in Nat
  PROVE  /\ LoadImage(row) \in Blob
         /\ Wrapped(row) \in Nat
         /\ LoadImage(row) # NoData /\ Wrapped(row) = 0 => LoadImage(row) = Data("", 0)
<1> DEFINE d == LoadImage(row)
<1>1. Fine(d)
  BY LoadFine
<1>2. Wrapped(row) = d.bytes + (IF row.name = "parameter" THEN 12 ELSE 0)
  BY DEF Wrapped
<1> HIDE DEF d
<1>3. d.bytes \in Nat
  BY <1>1 DEF Fine, Blob
<1> DEFINE w == Wrapped(row)
            b == d.bytes
<1>4. w \in Nat /\ (w = 0 => b = 0)
  <2>1. b \in Nat /\ w = b + (IF row.name = "parameter" THEN 12 ELSE 0)
    BY <1>2, <1>3
  <2> HIDE DEF w, b
  <2> QED
    BY <2>1
<1>5. d \in Blob /\ (d # NoData /\ Wrapped(row) = 0 => d = Data("", 0))
  BY <1>1, <1>4 DEF Fine
<1> QED
  BY <1>4, <1>5 DEF d


-----------------------------------------------------------------------------
(* No action changes the inputs, nor what is defined from them.            *)

LEMMA InputStays ==
  ASSUME UNCHANGED input
  PROVE  /\ Required(variant)' = Required(variant) /\ Table' = Table /\ Promised' = Promised
         /\ \A row : LoadImage(row)' = LoadImage(row) /\ Wrapped(row)' = Wrapped(row)
         /\ \A k : Alone(k)' = Alone(k)
  BY DEF input, Required, Table, Promised, PartBytes, LoadImage, Wrapped, Staged, UbootName, Alone

\* A record reads back the image that was appended for it.
LEMMA CutOK ==
  ASSUME UpdateInv, Running, update.state = "whole", NEW k \in DOMAIN rows
  PROVE  Cut(update.segs, recs[k].pos, recs[k].size) = LoadImage(rows[k])
<1>1. /\ rows \in Seq(Row) /\ Len(rows) \in Nat /\ recs \in Seq(Record)
      /\ segs \in Seq([at : Nat, row : Row, len : Nat])
  BY RowsOK DEF UpdateInv, TypeOK
<1>2. update.segs = segs /\ Len(segs) = Len(rows) /\ Len(recs) = Len(rows)
  BY DEF UpdateInv, SealInv
<1>3. k \in DOMAIN recs /\ k \in DOMAIN segs /\ k \in 1 .. Len(rows) /\ rows[k] \in Row
  <2>1. DOMAIN recs = DOMAIN rows /\ DOMAIN segs = DOMAIN rows /\ DOMAIN rows = 1 .. Len(rows)
    BY <1>1, <1>2
  <2> QED
    BY <1>1, <2>1
<1>4. \A c \in DOMAIN segs : segs[c] = [at |-> recs[c].pos, row |-> rows[c], len |-> recs[c].size]
  BY DEF UpdateInv, BodyInv
<1>5. \A c \in DOMAIN recs : recs[c].pos \in Nat /\ recs[c].size \in Nat
  <2>1. \A c \in DOMAIN recs : recs[c] \in Record
    BY <1>1
  <2>2. \A r \in Record : r.pos \in Nat /\ r.size \in Nat
    BY DEF Record
  <2> QED
    BY <2>1, <2>2
<1>6. \A f \in Required(variant) : size[f] \in Nat
  BY DEF UpdateInv, PresentInv
<1>7. LoadImage(rows[k]) # NoData /\ recs[k].size = Wrapped(rows[k])
  BY <1>3 DEF UpdateInv, RowInv
<1>8. CASE recs[k].size = 0
  <2>1. LoadImage(rows[k]) = Data("", 0)
    BY <1>3, <1>6, <1>7, <1>8, LoadOK DEF UpdateInv
  <2> QED
    BY <1>8, <2>1 DEF Cut
<1>9. CASE recs[k].size # 0
  <2> DEFINE P(c) == segs[c].at = recs[k].pos /\ segs[c].len = recs[k].size
             c == CHOOSE c \in DOMAIN segs : P(c)
  <2>1. \E x \in DOMAIN segs : P(x)
    BY <1>3, <1>4
  <2>2. c \in DOMAIN segs /\ P(c)
    BY <2>1
  <2>3. Cut(segs, recs[k].pos, recs[k].size) = LoadImage(segs[c].row)
    BY <1>9, <2>1 DEF Cut
  <2> HIDE DEF c
  <2>4. c \in DOMAIN recs /\ recs[c].pos = recs[k].pos /\ recs[c].size = recs[k].size
    BY <1>1, <1>2, <1>4, <2>2
  <2>5. \A i, j \in DOMAIN recs : i < j => recs[i].pos + recs[i].size <= recs[j].pos
    <3>1. DOMAIN recs = 1 .. Len(recs) /\ Len(recs) \in Nat
      BY <1>1
    <3>2. \A j \in DOMAIN recs : \A i \in 1 .. j - 1 : recs[i].pos + recs[i].size <= recs[j].pos
      BY DEF UpdateInv, PlaceInv
    <3> QED
      BY <3>1, <3>2
  <2>6. c \in Nat /\ k \in Nat
    BY <1>1, <1>3, <2>4
  <2>7. recs[k].pos \in Nat /\ recs[k].size \in Nat /\ recs[k].size # 0
    BY <1>3, <1>5, <1>9
  <2> DEFINE pk == recs[k].pos
             sk == recs[k].size
  <2>8. (c < k => pk + sk <= pk) /\ (k < c => pk + sk <= pk)
    BY <1>3, <2>4, <2>5
  <2>9. c = k
    <3>1. pk \in Nat /\ sk \in Nat /\ sk # 0
      BY <2>7
    <3> HIDE DEF pk, sk
    <3> QED
      BY <2>6, <2>8, <3>1
  <2> QED
    BY <1>2, <1>4, <2>2, <2>3, <2>9
<1> QED
  BY <1>8, <1>9


-----------------------------------------------------------------------------
(* Every action preserves UpdateInv.                                       *)

LEMMA InitInv == Init => UpdateInv
<1> SUFFICES ASSUME Init PROVE UpdateInv
  OBVIOUS
<1>1. param \in [Partitions -> Slot]
  <2>1. PICK u \in Slots["uboot"], b \in Slots["boot"], r \in Slots["rootfs"] :
          param = [p \in Partitions |-> CASE p = "uboot" -> u [] p = "boot" -> b [] OTHER -> r]
    BY DEF Init
  <2>2. u \in Slot /\ b \in Slot /\ r \in Slot
    BY UpdateConstants DEF Partitions
  <2> QED
    BY <2>1, <2>2
<1>2. got \in [Bases -> Blob] /\ (\A b \in Bases : got[b] = NoData)
  BY DEF Init, Blob, NoData
<1>3. update.state = "none"
  BY DEF Init, NoImage
<1>4. TypeOK
  BY <1>1, <1>2, <1>3 DEF Init, TypeOK
<1>5. Len(rows) \in Nat
  BY <1>4, RowsOK
<1> QED
  BY <1>2, <1>3, <1>4, <1>5 DEF Init, UpdateInv, PresentInv, RowInv, PlaceInv, PhaseInv, BodyInv,
     SealInv, ReadInv, Running

LEMMA CheckInv == ASSUME UpdateInv, Check PROVE UpdateInv'
<1> USE DEF Check, input
<1>1. Len(rows) \in Nat /\ RoundUp(Table) \in Nat /\ Table <= RoundUp(Table) /\ RoundUp(Table) % PAGE = 0
  <2>1. Len(rows) \in Nat
    BY RowsOK DEF UpdateInv
  <2>2. Table \in Nat
    BY <2>1 DEF Table, RKAF_HDR, ENTRY_SZ
  <2> QED
    BY <2>1, <2>2, RoundUpPage
<1>2. cursor' = RoundUp(Table)
  BY DEF Table
<1>3. recs = <<>> /\ images = <<>> /\ segs = <<>> /\ done = 0 /\ update.state # "whole"
  BY DEF UpdateInv, PhaseInv
<1>4. TypeOK'
  BY <1>1, <1>2 DEF UpdateInv, TypeOK
<1>5. PresentInv'
  <2>1. phase' = "pack" => \A f \in Required(variant) : size[f] \in Nat
    BY UpdateConstants DEF UpdateInv, TypeOK, Required, Files, Absent
  <2>2. phase' \in {"pack", "failed"}
    OBVIOUS
  <2> QED
    BY <2>1, <2>2, InputStays DEF PresentInv, Running
<1>6. RowInv' /\ PlaceInv' /\ BodyInv' /\ SealInv'
  BY <1>1, <1>3 DEF RowInv, PlaceInv, BodyInv, SealInv
<1>7. PhaseInv'
  BY <1>1, <1>2, <1>3, InputStays DEF PhaseInv
<1>8. ReadInv'
  BY DEF UpdateInv, ReadInv
<1> QED
  BY <1>4, <1>5, <1>6, <1>7, <1>8 DEF UpdateInv

LEMMA PackRowInv == ASSUME UpdateInv, PackRow PROVE UpdateInv'
<1> DEFINE row == rows[done + 1]
           n == Wrapped(row)
           r == [name |-> row.name, base |-> row.base, pos |-> cursor, size |-> n,
                 nand |-> FlashOf(row.name).size, addr |-> FlashOf(row.name).addr]
           im == [pos |-> cursor, row |-> row, len |-> n]
<1>1. /\ rows \in Seq(Row) /\ Len(rows) \in Nat /\ recs \in Seq(Record) /\ cursor \in Nat /\ done \in Nat
      /\ images \in Seq([pos : Nat, row : Row, len : Nat])
  BY RowsOK DEF UpdateInv, TypeOK
<1>2. /\ done = Len(recs) /\ Len(images) = Len(recs) /\ cursor % PAGE = 0 /\ Table <= cursor
      /\ segs = <<>> /\ update.state # "whole" /\ phase = "pack" /\ done < Len(rows)
  BY DEF UpdateInv, PhaseInv, RowInv, PackRow
<1>3. row \in Row /\ \A f \in Required(variant) : size[f] \in Nat
  BY <1>1, <1>2 DEF UpdateInv, PresentInv, Running
<1>4. n \in Nat /\ LoadImage(row) # NoData
  BY <1>3, LoadOK DEF UpdateInv, PackRow
<1>5. FlashOf(row.name).size \in Nat /\ FlashOf(row.name).addr \in Nat \union {NoAddr}
  BY DEF FlashOf, UpdateInv, TypeOK, Slot
<1>6. r \in Record /\ im \in [pos : Nat, row : Row, len : Nat]
  <2>1. row.name \in STRING /\ row.base \in Bases
    BY <1>3 DEF Row
  <2> HIDE DEF n, row
  <2> QED
    BY <1>1, <1>3, <1>4, <1>5, <2>1 DEF Record
<1>7. /\ recs' = Append(recs, r) /\ images' = Append(images, im) /\ cursor' = RoundUp(cursor + n)
      /\ done' = done + 1 /\ UNCHANGED <<input, phase, segs, bodyLen, update, got>>
  BY DEF PackRow
<1> DEFINE L == Len(recs)
<1> HIDE DEF r, im, n, row
<1>8. /\ recs' \in Seq(Record) /\ Len(recs') = L + 1 /\ recs'[L + 1] = r
      /\ \A k \in 1 .. L : recs'[k] = recs[k]
      /\ images' \in Seq([pos : Nat, row : Row, len : Nat]) /\ Len(images') = L + 1
      /\ images'[L + 1] = im /\ \A k \in 1 .. L : images'[k] = images[k]
      /\ L \in Nat /\ DOMAIN recs = 1 .. L /\ DOMAIN recs' = 1 .. (L + 1)
  BY <1>1, <1>2, <1>6, <1>7
<1>9. cursor' \in Nat /\ cursor + n <= cursor' /\ cursor' % PAGE = 0
  <2>1. cursor + n \in Nat
    BY <1>1, <1>4
  <2> QED
    BY <1>7, <2>1, RoundUpPage
<1>10. TypeOK'
  BY <1>1, <1>7, <1>8, <1>9 DEF UpdateInv, TypeOK, input
<1>11. PresentInv'
  BY <1>2, <1>3, <1>7, InputStays DEF PresentInv, input
<1>12. RowInv'
  <2>1. r.base = row.base /\ r.size = n /\ im = [pos |-> r.pos, row |-> row, len |-> r.size]
    BY DEF r, im
  <2>2. row = rows[L + 1] /\ n = Wrapped(rows[L + 1])
    BY <1>2 DEF row, n
  <2>3. \A k \in 1 .. (L + 1) :
           /\ recs'[k].base = rows[k].base
           /\ LoadImage(rows[k]) # NoData /\ recs'[k].size = Wrapped(rows[k])
           /\ images'[k] = [pos |-> recs'[k].pos, row |-> rows[k], len |-> recs'[k].size]
    <3> TAKE k \in 1 .. (L + 1)
    <3>1. CASE k = L + 1
      BY <1>4, <1>8, <2>1, <2>2, <3>1
    <3>2. CASE k \in 1 .. L
      BY <1>8, <3>2 DEF UpdateInv, RowInv
    <3> QED
      BY <1>8, <3>1, <3>2
  <2> QED
    BY <1>1, <1>2, <1>7, <1>8, <2>3, InputStays DEF RowInv, input
<1>13. PlaceInv'
  <2>1. r.pos = cursor /\ r.size = n
    BY DEF r
  <2>2. \A k \in 1 .. L : recs[k].pos \in Nat /\ recs[k].size \in Nat
    <3>1. \A k \in 1 .. L : recs[k] \in Record
      BY <1>1, <1>8
    <3>2. \A x \in Record : x.pos \in Nat /\ x.size \in Nat
      BY DEF Record
    <3> QED
      BY <3>1, <3>2
  <2>3. \A k \in 1 .. L : recs[k].pos + recs[k].size <= cursor
    BY <1>8 DEF UpdateInv, PlaceInv
  <2>4. ASSUME NEW k \in 1 .. (L + 1)
        PROVE  /\ recs'[k].pos % PAGE = 0 /\ Table <= recs'[k].pos
               /\ recs'[k].pos + recs'[k].size <= cursor'
               /\ \A j \in 1 .. k - 1 : recs'[j].pos + recs'[j].size <= recs'[k].pos
    <3>1. CASE k = L + 1
      BY <1>2, <1>8, <1>9, <2>1, <2>3, <3>1
    <3>2. CASE k \in 1 .. L
      <4>1. /\ recs[k].pos % PAGE = 0 /\ Table <= recs[k].pos
            /\ \A j \in 1 .. k - 1 : recs[j].pos + recs[j].size <= recs[k].pos
        BY <1>8, <3>2 DEF UpdateInv, PlaceInv
      <4>2. recs[k].pos + recs[k].size <= cursor'
        BY <1>1, <1>4, <1>9, <2>2, <2>3, <3>2
      <4> QED
        BY <1>8, <3>2, <4>1, <4>2, SMTT(30)
    <3>3. k = L + 1 \/ k \in 1 .. L
      BY <1>8
    <3> QED
      BY <3>1, <3>2, <3>3
  <2> QED
    BY <1>7, <1>8, <2>4, InputStays DEF PlaceInv
<1>14. PhaseInv' /\ BodyInv' /\ SealInv'
  <2>1. Table' = Table /\ Table \in Nat
    BY <1>1, <1>7, InputStays DEF Table, RKAF_HDR, ENTRY_SZ
  <2>2. Table <= cursor'
    BY <1>1, <1>2, <1>4, <1>9, <2>1
  <2> QED
    BY <1>2, <1>7, <1>8, <1>9, <2>1, <2>2 DEF PhaseInv, BodyInv, SealInv
<1>15. ReadInv'
  BY <1>2, <1>7, InputStays DEF UpdateInv, ReadInv, input
<1> QED
  BY <1>10, <1>11, <1>12, <1>13, <1>14, <1>15 DEF UpdateInv

LEMMA StopInv ==
  ASSUME UpdateInv, phase \in {"check", "pack", "body", "unpack"}, phase' \in {"failed", "killed"},
         UNCHANGED <<input, recs, images, segs, bodyLen, got>>, done' \in {0, done},
         \/ UNCHANGED <<cursor, update>>
         \/ UNCHANGED cursor /\ update' \in {NoImage, Torn}
         \/ UNCHANGED update /\ phase = "check" /\ cursor' \in Nat
  PROVE  UpdateInv'
<1> USE DEF input
<1>1. TypeOK' /\ PresentInv'
  BY DEF UpdateInv, TypeOK, PresentInv, Running, NoImage, Torn
<1>2. RowInv' /\ PlaceInv' /\ BodyInv'
  BY InputStays DEF UpdateInv, PhaseInv, RowInv, PlaceInv, BodyInv
<1>3. PhaseInv'
  BY DEF PhaseInv
<1>4. SealInv'
  BY DEF UpdateInv, SealInv, NoImage, Torn
<1>5. ReadInv'
  BY DEF UpdateInv, ReadInv
<1> QED
  BY <1>1, <1>2, <1>3, <1>4, <1>5 DEF UpdateInv

LEMMA RowsDoneInv == ASSUME UpdateInv, RowsDone PROVE UpdateInv'
<1> USE DEF RowsDone, input
<1>1. Len(rows) \in Nat /\ Table \in Nat /\ bodyLen' = Table
  BY RowsOK DEF UpdateInv, Table, RKAF_HDR, ENTRY_SZ
<1>2. done = Len(recs) /\ segs = <<>> /\ update.state # "whole"
  BY DEF UpdateInv, PhaseInv
<1>3. TypeOK' /\ PresentInv'
  BY <1>1, InputStays DEF UpdateInv, TypeOK, PresentInv, Running
<1>4. RowInv' /\ PlaceInv' /\ PhaseInv' /\ SealInv'
  BY <1>1, <1>2, InputStays DEF UpdateInv, RowInv, PlaceInv, PhaseInv, SealInv
<1>5. BodyInv'
  BY <1>1, <1>2, InputStays DEF UpdateInv, BodyInv, PlaceInv
<1>6. ReadInv'
  BY InputStays DEF UpdateInv, ReadInv
<1> QED
  BY <1>3, <1>4, <1>5, <1>6 DEF UpdateInv

LEMMA AppendImageInv == ASSUME UpdateInv, AppendImage PROVE UpdateInv'
<1> USE DEF input
<1> DEFINE k == done + 1
           at == IF bodyLen < images[k].pos THEN images[k].pos ELSE bodyLen
           s == [at |-> at, row |-> images[k].row, len |-> images[k].len]
<1>1. /\ rows \in Seq(Row) /\ Len(rows) \in Nat /\ recs \in Seq(Record) /\ done \in Nat /\ bodyLen \in Nat
      /\ images \in Seq([pos : Nat, row : Row, len : Nat]) /\ segs \in Seq([at : Nat, row : Row, len : Nat])
  BY RowsOK DEF UpdateInv, TypeOK
<1>2. /\ phase = "body" /\ done = Len(segs) /\ Len(recs) = Len(rows) /\ Len(images) = Len(recs)
      /\ done < Len(images) /\ update.state # "whole"
  BY DEF UpdateInv, PhaseInv, RowInv, AppendImage
<1>3. /\ segs' = Append(segs, s) /\ bodyLen' = at + images[k].len /\ done' = k
      /\ UNCHANGED <<input, phase, cursor, recs, images, update, got>>
  BY DEF AppendImage
<1>4. k \in 1 .. Len(recs) /\ k \in DOMAIN recs /\ k \in DOMAIN images
  BY <1>1, <1>2
<1>5. images[k] = [pos |-> recs[k].pos, row |-> rows[k], len |-> recs[k].size]
  BY <1>4 DEF UpdateInv, RowInv
<1>6. \A c \in DOMAIN recs : recs[c].pos \in Nat /\ recs[c].size \in Nat
  <2>1. \A c \in DOMAIN recs : recs[c] \in Record
    BY <1>1
  <2>2. \A r \in Record : r.pos \in Nat /\ r.size \in Nat
    BY DEF Record
  <2> QED
    BY <2>1, <2>2
<1>7. bodyLen <= recs[k].pos
  BY <1>2, <1>4, <1>1 DEF UpdateInv, BodyInv
<1>8. at = recs[k].pos
  BY <1>1, <1>4, <1>5, <1>6, <1>7
<1>9. rows[k] \in Row
  BY <1>1, <1>2, <1>4
<1>10. s = [at |-> recs[k].pos, row |-> rows[k], len |-> recs[k].size] /\ bodyLen' = recs[k].pos + recs[k].size
  BY <1>3, <1>5, <1>8
<1>11. s \in [at : Nat, row : Row, len : Nat]
  BY <1>4, <1>6, <1>9, <1>10
<1> DEFINE L == Len(segs)
<1> HIDE DEF s, at
<1>12. /\ segs' \in Seq([at : Nat, row : Row, len : Nat]) /\ Len(segs') = L + 1 /\ segs'[L + 1] = s
       /\ \A c \in 1 .. L : segs'[c] = segs[c]
       /\ L \in Nat /\ DOMAIN segs = 1 .. L /\ DOMAIN segs' = 1 .. (L + 1) /\ k = L + 1
  BY <1>1, <1>2, <1>3, <1>11
<1>13. bodyLen' \in Nat
  BY <1>4, <1>6, <1>10
<1>14. TypeOK' /\ PresentInv'
  BY <1>1, <1>3, <1>12, <1>13, InputStays DEF UpdateInv, TypeOK, PresentInv, Running
<1>15. RowInv' /\ PlaceInv' /\ PhaseInv' /\ SealInv'
  <2>1. k <= Len(rows)
    BY <1>1, <1>2
  <2> QED
    BY <1>2, <1>3, <1>12, <2>1, InputStays DEF UpdateInv, RowInv, PlaceInv, PhaseInv, SealInv
<1>16. BodyInv'
  <2>1. \A c \in 1 .. (L + 1) : segs'[c] = [at |-> recs[c].pos, row |-> rows[c], len |-> recs[c].size]
    <3> TAKE c \in 1 .. (L + 1)
    <3>1. CASE c = L + 1
      BY <1>10, <1>12, <3>1
    <3>2. CASE c # L + 1
      <4>1. c \in 1 .. L
        BY <1>12, <3>2
      <4> QED
        BY <1>12, <4>1 DEF UpdateInv, BodyInv
    <3> QED
      BY <3>1, <3>2
  <2>2. \A i, j \in DOMAIN recs : i < j => recs[i].pos + recs[i].size <= recs[j].pos
    <3>1. DOMAIN recs = 1 .. Len(recs) /\ Len(recs) \in Nat
      BY <1>1
    <3>2. \A j \in DOMAIN recs : \A i \in 1 .. j - 1 : recs[i].pos + recs[i].size <= recs[j].pos
      BY DEF UpdateInv, PlaceInv
    <3> QED
      BY <3>1, <3>2
  <2>3. DOMAIN recs = 1 .. Len(recs) /\ Len(recs) \in Nat /\ L + 1 <= Len(recs)
    BY <1>1, <1>2, <1>12
  <2>4. \A c \in DOMAIN recs : L + 1 < c => bodyLen' <= recs[c].pos
    <3> TAKE c \in DOMAIN recs
    <3> HAVE L + 1 < c
    <3>1. recs[k].pos + recs[k].size <= recs[c].pos
      BY <1>4, <1>12, <2>2
    <3> QED
      BY <1>10, <3>1
  <2>5. ASSUME NEW c \in 1 .. (L + 1) PROVE recs[c].pos + recs[c].size <= bodyLen'
    <3>1. CASE c = L + 1
      BY <1>4, <1>6, <1>10, <1>12, <3>1
    <3>2. CASE c < L + 1
      <4>1. c \in DOMAIN recs /\ c < k
        BY <1>12, <2>3, <3>2
      <4>2. recs[c].pos + recs[c].size <= recs[k].pos
        BY <1>4, <2>2, <4>1
      <4> DEFINE pc == recs[c].pos
                 sc == recs[c].size
                 pk == recs[k].pos
                 sk == recs[k].size
      <4>3. pc \in Nat /\ sc \in Nat /\ pk \in Nat /\ sk \in Nat /\ pc + sc <= pk /\ bodyLen' = pk + sk
        BY <1>4, <1>6, <1>10, <4>1, <4>2
      <4> HIDE DEF pc, sc, pk, sk
      <4>4. pc + sc <= pk + sk
        BY <4>3
      <4> QED
        BY <4>3, <4>4 DEF pc, sc, pk, sk
    <3> QED
      BY <1>12, <3>1, <3>2
  <2> QED
    BY <1>3, <1>12, <2>1, <2>3, <2>4, <2>5 DEF BodyInv
<1>17. ReadInv'
  BY <1>2, <1>3, InputStays DEF UpdateInv, ReadInv
<1> QED
  BY <1>14, <1>15, <1>16, <1>17 DEF UpdateInv

LEMMA SeqDomain == ASSUME NEW S, NEW s \in Seq(S) PROVE DOMAIN s = 1 .. Len(s)
  OBVIOUS

LEMMA SealStep == ASSUME UpdateInv, Seal, phase' # "failed" PROVE UpdateInv'
<1> USE DEF Seal, input
<1>1. /\ rows \in Seq(Row) /\ Len(rows) \in Nat /\ recs \in Seq(Record) /\ done \in Nat /\ bodyLen \in Nat
      /\ segs \in Seq([at : Nat, row : Row, len : Nat])
  BY RowsOK DEF UpdateInv, TypeOK
<1>2. /\ phase = "body" /\ done = Len(segs) /\ Len(recs) = Len(rows) /\ Len(images) = Len(recs)
      /\ done = Len(images)
  BY DEF UpdateInv, PhaseInv, RowInv
<1>3. /\ update'.state = "whole" /\ update'.recs = recs /\ update'.segs = segs /\ update'.span = bodyLen + 4
      /\ phase' = (IF verify THEN "unpack" ELSE "done") /\ verify' = verify
  OBVIOUS
<1>4. TypeOK' /\ PresentInv'
  BY <1>2, <1>3, InputStays DEF UpdateInv, TypeOK, PresentInv, Running
<1>5. RowInv' /\ PlaceInv' /\ PhaseInv'
  BY <1>1, <1>2, <1>3, InputStays DEF UpdateInv, RowInv, PlaceInv, PhaseInv
<1>6. BodyInv'
  BY <1>2, InputStays DEF UpdateInv, BodyInv
<1>7. SealInv'
  <2>1. DOMAIN recs = DOMAIN segs
    <3>1. DOMAIN recs = 1 .. Len(recs)
      BY <1>1, SeqDomain
    <3>2. DOMAIN segs = 1 .. Len(segs)
      BY <1>1, SeqDomain
    <3> QED
      BY <1>2, <3>1, <3>2, Zenon
  <2>2. \A k \in DOMAIN recs : recs[k].pos + recs[k].size <= bodyLen
    BY <1>2, <2>1 DEF UpdateInv, BodyInv
  <2> QED
    BY <1>1, <1>2, <1>3, <2>2 DEF SealInv
<1>8. ReadInv'
  <2>1. \A k \in 1 .. done' : FALSE
    OBVIOUS
  <2> QED
    BY <1>3, <2>1, InputStays DEF UpdateInv, ReadInv
<1> QED
  BY <1>4, <1>5, <1>6, <1>7, <1>8 DEF UpdateInv

LEMMA BaseOK == ASSUME NEW row \in Row PROVE row.base \in Bases
  BY DEF Row

LEMMA UnpackInv == ASSUME UpdateInv, Unpack PROVE UpdateInv'
<1> USE DEF input
<1> DEFINE k == done + 1
           r == update.recs[k]
           d == Cut(update.segs, r.pos, r.size)
<1>1. /\ rows \in Seq(Row) /\ Len(rows) \in Nat /\ done \in Nat /\ recs \in Seq(Record)
      /\ got \in [Bases -> Blob]
  BY RowsOK DEF UpdateInv, TypeOK
<1>2. /\ phase = "unpack" /\ update.state = "whole" /\ update.recs = recs /\ Len(recs) = Len(rows)
      /\ done < Len(rows)
  BY DEF UpdateInv, PhaseInv, SealInv, Unpack
<1>3. got' = [got EXCEPT ![r.base] = d] /\ done' = k
      /\ UNCHANGED <<input, phase, cursor, recs, images, segs, bodyLen, update>>
  BY DEF Unpack
<1>4. k \in DOMAIN rows /\ k \in DOMAIN recs /\ k \in 1 .. Len(rows)
  BY <1>1, <1>2
<1>5. r.base = rows[k].base /\ rows[k] \in Row /\ rows[k].base \in Bases
  <2>1. r.base = rows[k].base
    BY <1>2, <1>4 DEF UpdateInv, RowInv
  <2>2. rows[k] \in Row
    BY <1>1, <1>4
  <2> QED
    BY <2>1, <2>2, BaseOK
<1>6. d = LoadImage(rows[k])
  BY <1>2, <1>4, CutOK DEF Running
<1>7. d \in Blob
  <2>1. \A f \in Required(variant) : size[f] \in Nat
    BY <1>2 DEF UpdateInv, PresentInv, Running
  <2> QED
    BY <1>5, <1>6, <2>1, LoadOK DEF UpdateInv
<1> HIDE DEF d, r
<1>8. TypeOK' /\ PresentInv'
  <2>1. got' \in [Bases -> Blob]
    BY <1>1, <1>3, <1>5, <1>7
  <2> QED
    BY <1>1, <1>3, <2>1, InputStays DEF UpdateInv, TypeOK, PresentInv, Running
<1>9. RowInv' /\ PlaceInv' /\ PhaseInv' /\ BodyInv' /\ SealInv'
  BY <1>1, <1>2, <1>3, InputStays DEF UpdateInv, RowInv, PlaceInv, PhaseInv, BodyInv, SealInv
<1>10. ReadInv'
  <2>1. \A b \in Bases : got'[b] # NoData => \E j \in DOMAIN rows : rows[j].base = b
    <3> TAKE b \in Bases
    <3>1. CASE b = rows[k].base
      BY <1>4, <3>1
    <3>2. CASE b # rows[k].base
      BY <1>1, <1>3, <1>5, <3>2 DEF UpdateInv, ReadInv
    <3> QED
      BY <3>1, <3>2
  <2>2. ASSUME NEW j \in 1 .. k, Alone(j) PROVE got'[rows[j].base] = LoadImage(rows[j])
    <3>1. CASE j = k
      BY <1>1, <1>3, <1>5, <1>6, <3>1
    <3>2. CASE j # k
      <4>1. j \in 1 .. done /\ j \in DOMAIN rows
        BY <1>1, <1>4, <3>2
      <4>2. rows[k].base # rows[j].base /\ rows[j].base \in Bases
        <5>1. rows[j] \in Row
          BY <1>1, <4>1
        <5>2. rows[k].base # rows[j].base
          BY <1>4, <2>2, <3>2 DEF Alone
        <5> QED
          BY <5>1, <5>2, BaseOK
      <4>3. got[rows[j].base] = LoadImage(rows[j])
        BY <1>2, <2>2, <4>1 DEF UpdateInv, ReadInv
      <4> QED
        BY <1>1, <1>3, <1>5, <4>2, <4>3
    <3> QED
      BY <3>1, <3>2
  <2> QED
    BY <1>2, <1>3, <2>1, <2>2, InputStays DEF ReadInv
<1> QED
  BY <1>8, <1>9, <1>10 DEF UpdateInv

LEMMA CompareStep == ASSUME UpdateInv, Compare, phase' = "done" PROVE UpdateInv'
<1> USE DEF Compare, input
<1>1. done = Len(rows) /\ update.state = "whole"
  BY DEF UpdateInv, PhaseInv, SealInv
<1>2. \A p \in Promised : got[p.base] # NoData
  OBVIOUS
<1>3. TypeOK' /\ PresentInv'
  BY InputStays DEF UpdateInv, TypeOK, PresentInv, Running
<1>4. RowInv' /\ PlaceInv' /\ PhaseInv' /\ BodyInv' /\ SealInv'
  BY <1>1, InputStays DEF UpdateInv, RowInv, PlaceInv, PhaseInv, BodyInv, SealInv
<1>5. ReadInv'
  BY <1>2, InputStays DEF UpdateInv, ReadInv
<1> QED
  BY <1>3, <1>4, <1>5 DEF UpdateInv

LEMMA NextInv == ASSUME UpdateInv, [Next]_vars PROVE UpdateInv'
<1>1. CASE Check
  BY <1>1, CheckInv
<1>2. CASE PackRow
  BY <1>2, PackRowInv
<1>3. CASE RowFails
  BY <1>3, StopInv DEF RowFails, input
<1>4. CASE RowsDone
  BY <1>4, RowsDoneInv
<1>5. CASE AppendImage
  BY <1>5, AppendImageInv
<1>6. CASE Seal
  <2>1. CASE phase' # "failed"
    BY <1>6, <2>1, SealStep
  <2>2. CASE phase' = "failed"
    <3>1. phase = "body" /\ phase' = "failed" /\ done' = 0
          /\ UNCHANGED <<input, cursor, recs, images, segs, bodyLen, got, update>>
      BY <1>6, <2>2 DEF Seal
    <3> QED
      BY <3>1, StopInv DEF input
  <2> QED
    BY <2>1, <2>2
<1>7. CASE Unpack
  BY <1>7, UnpackInv
<1>8. CASE Compare
  <2>1. CASE phase' = "done"
    BY <1>8, <2>1, CompareStep
  <2>2. CASE phase' # "done"
    BY <1>8, <2>2, StopInv DEF Compare, input
  <2> QED
    BY <2>1, <2>2
<1>9. CASE Kill
  <2>1. UNCHANGED update \/ update' \in {NoImage, Torn}
    BY <1>9 DEF Kill
  <2> QED
    BY <1>9, <2>1, StopInv DEF Kill, input
<1>10. CASE UNCHANGED vars
  <2>1. UNCHANGED input /\ verify' = verify
    BY <1>10 DEF vars, input
  <2>2. ReadInv'
    BY <1>10, <2>1, InputStays DEF vars, UpdateInv, ReadInv
  <2> QED
    BY <1>10, <2>1, <2>2, InputStays DEF vars, UpdateInv, TypeOK, PresentInv, RowInv, PlaceInv, PhaseInv,
       BodyInv, SealInv, ReadInv, Running
<1> QED
  BY <1>1, <1>2, <1>3, <1>4, <1>5, <1>6, <1>7, <1>8, <1>9, <1>10 DEF Next

-----------------------------------------------------------------------------
(* The theorems.                                                           *)

\* UpdateInv holds of every state of an assemble, for every package file,
\* parameter file and length (assemble.py:40-149, rkfw_pack.py:128-240).
THEOREM UpdateInvariant == Spec => []UpdateInv
  BY InitInv, NextInv, PTL DEF Spec

\* Every state of assemble is well-formed.
THEOREM UpdateTypes == Spec => []TypeOK
<1>1. UpdateInv => TypeOK
  BY DEF UpdateInv
<1> QED
  BY <1>1, UpdateInvariant, PTL

\* No image overlaps another, the record table or the CRC, and each is where
\* its record says (rkfw_pack.py:137-177).
THEOREM ImagesDisjoint == Spec => []NoOverlap
<1>1. ASSUME UpdateInv PROVE NoOverlap
  <2>1. /\ segs \in Seq([at : Nat, row : Row, len : Nat]) /\ recs \in Seq(Record)
        /\ Len(segs) <= Len(recs)
    BY <1>1 DEF UpdateInv, TypeOK, BodyInv
  <2>2. \A k \in DOMAIN segs : segs[k].at = recs[k].pos /\ segs[k].len = recs[k].size
    BY <1>1 DEF UpdateInv, BodyInv
  <2>3. ASSUME NEW k \in DOMAIN recs
        PROVE  /\ recs[k].pos % PAGE = 0 /\ RKAF_HDR + Len(rows) * ENTRY_SZ <= recs[k].pos
               /\ \A j \in 1 .. k - 1 : recs[j].pos + recs[j].size <= recs[k].pos
    BY <1>1 DEF UpdateInv, PlaceInv, Table
  <2>4. ASSUME update.state = "whole", NEW k \in DOMAIN update.recs
        PROVE  update.recs[k].pos + update.recs[k].size + 4 <= update.span
    <3>1. update.recs = recs /\ update.span = bodyLen + 4 /\ recs[k].pos + recs[k].size <= bodyLen
      BY <1>1, <2>4 DEF UpdateInv, SealInv
    <3>2. recs[k] \in Record /\ bodyLen \in Nat
      BY <1>1, <2>1, <2>4, <3>1 DEF UpdateInv, TypeOK
    <3> DEFINE pk == recs[k].pos
               sk == recs[k].size
    <3>3. pk \in Nat /\ sk \in Nat /\ pk + sk <= bodyLen
      BY <3>1, <3>2 DEF Record
    <3> HIDE DEF pk, sk
    <3>4. pk + sk + 4 <= bodyLen + 4
      BY <3>2, <3>3
    <3> QED
      BY <3>1, <3>4 DEF pk, sk
  <2> QED
    BY <2>2, <2>3, <2>4 DEF NoOverlap
<1> QED
  BY <1>1, UpdateInvariant, PTL

\* An update reported as made holds every file it was made of, with the round
\* trip or without; one that passed it has a row for all its variant promises
\* (assemble.py:71-79, 135-147).
THEOREM UpdateDelivers == Spec => []Delivers
<1>1. ASSUME UpdateInv, phase = "done", NEW k \in DOMAIN rows PROVE Holds(k)
  <2>1. rows \in Seq(Row) /\ recs \in Seq(Record) /\ Len(recs) = Len(rows) /\ update.state = "whole"
        /\ update.recs = recs
    BY <1>1, RowsOK DEF UpdateInv, TypeOK, PhaseInv, SealInv
  <2>2. k \in DOMAIN recs
    BY <2>1
  <2>3. recs[k].base = rows[k].base
    BY <1>1, <2>2 DEF UpdateInv, RowInv
  <2>4. Cut(update.segs, recs[k].pos, recs[k].size) = LoadImage(rows[k])
    BY <1>1, <2>1, CutOK DEF Running
  <2> QED
    BY <2>1, <2>3, <2>4 DEF Holds
<1>2. ASSUME UpdateInv, phase = "done", verify
      PROVE  /\ \A p \in Promised : \E k \in DOMAIN rows : rows[k].base = p.base
             /\ \A k \in DOMAIN rows : Alone(k) => got[rows[k].base] = LoadImage(rows[k])
  <2>1. \A p \in Promised : p.base \in Bases
    BY DEF Promised, UbootName, Bases
  <2>2. \A p \in Promised : \E k \in DOMAIN rows : rows[k].base = p.base
    BY <1>2, <2>1 DEF UpdateInv, ReadInv
  <2>3. DOMAIN rows = 1 .. done
    <3>1. rows \in Seq(Row) /\ done = Len(rows)
      BY <1>2, RowsOK DEF UpdateInv, PhaseInv
    <3> QED
      BY <3>1
  <2> QED
    BY <1>2, <2>2, <2>3 DEF UpdateInv, ReadInv
<1>3. UpdateInv /\ phase = "done" => update.state = "whole"
  BY DEF UpdateInv, PhaseInv
<1>4. UpdateInv => Delivers
  BY <1>1, <1>2, <1>3 DEF Delivers
<1> QED
  BY <1>4, UpdateInvariant, PTL

-----------------------------------------------------------------------------
(* The partitions.                                                         *)

\* What a record says of a partition that the parameter file gives a fixed place.
Placed(name, r) ==
  name \in Partitions /\ param[name].kind = "fixed" =>
    r.nand = param[name].sectors /\ r.addr = param[name].off
FlashInv ==
  /\ phase = "check" => recs = <<>>
  /\ Running => BootFits /\ (variant \in {"sd", "emmc"} => RootfsFits)
  /\ \A k \in DOMAIN recs : recs[k].name = rows[k].name /\ Placed(recs[k].name, recs[k])

LEMMA FitStays ==
  ASSUME UNCHANGED input
  PROVE  /\ BootFits' = BootFits /\ RootfsFits' = RootfsFits
         /\ \A name, r : Placed(name, r)' = Placed(name, r)
  BY DEF input, BootFits, RootfsFits, HasPart, PartBytes, Placed

LEMMA FlashOfPlaced ==
  ASSUME NEW name, NEW r, r.nand = FlashOf(name).size, r.addr = FlashOf(name).addr
  PROVE  Placed(name, r)
<1> SUFFICES ASSUME name \in Partitions, param[name].kind = "fixed"
             PROVE  r.nand = param[name].sectors /\ r.addr = param[name].off
  BY DEF Placed
<1>1. FlashOf(name) = [size |-> param[name].sectors, addr |-> param[name].off]
  BY DEF FlashOf, Partitions
<1> QED
  BY <1>1

LEMMA WrappedData ==
  ASSUME NEW row, NEW f, NEW n \in Nat, row.name # "parameter", LoadImage(row) = Data(f, n)
  PROVE  Wrapped(row) = n
<1>1. Wrapped(row) = LoadImage(row).bytes + 0
  BY DEF Wrapped
<1>2. Data(f, n).bytes = n
  BY DEF Data
<1>3. LoadImage(row).bytes = n
  BY <1>2, Zenon
<1> QED
  BY <1>1, <1>3

LEMMA FlashStep == ASSUME UpdateInv, FlashInv, [Next]_vars PROVE FlashInv'
<1>1. CASE Check
  <2>1. UNCHANGED input /\ recs' = recs /\ recs = <<>> /\ phase' \in {"pack", "failed"}
    BY <1>1 DEF Check, UpdateInv, PhaseInv
  <2>2. phase' = "pack" => BootFits /\ (variant \in {"sd", "emmc"} => RootfsFits)
    BY <1>1 DEF Check
  <2>3. variant' = variant
    BY <2>1 DEF input
  <2> QED
    BY <2>1, <2>2, <2>3, FitStays DEF FlashInv, Running
<1>2. CASE PackRow
  <2> DEFINE row == rows[done + 1]
             new == [name |-> row.name, base |-> row.base, pos |-> cursor, size |-> Wrapped(row),
                     nand |-> FlashOf(row.name).size, addr |-> FlashOf(row.name).addr]
  <2>1. recs' = Append(recs, new) /\ UNCHANGED <<input, phase>> /\ phase = "pack"
    BY <1>2 DEF PackRow
  <2>2. done = Len(recs) /\ recs \in Seq(Record) /\ Len(recs) \in Nat
    BY <2>1 DEF UpdateInv, PhaseInv, TypeOK
  <2>3. Placed(row.name, new)
    BY FlashOfPlaced
  <2>4. new.name = row.name
    OBVIOUS
  <2> HIDE DEF new
  <2>5. \A k \in DOMAIN recs' : (recs'[k] = new /\ k = done + 1) \/ (k \in DOMAIN recs /\ recs'[k] = recs[k])
    BY <2>1, <2>2
  <2>6. \A k \in DOMAIN recs' : recs'[k].name = rows[k].name /\ Placed(recs'[k].name, recs'[k])
    BY <2>3, <2>4, <2>5 DEF FlashInv
  <2>7. rows' = rows /\ variant' = variant /\ phase' = "pack"
    BY <2>1 DEF input
  <2> QED
    <3>1. (\A k \in DOMAIN recs : recs[k].name = rows[k].name /\ Placed(recs[k].name, recs[k]))'
      <4>1. param' = param
        BY <2>1 DEF input
      <4> QED
        BY <2>6, <2>7, <4>1 DEF Placed
    <3>2. Running /\ BootFits' = BootFits /\ RootfsFits' = RootfsFits
      BY <2>1, FitStays DEF Running
    <3> QED
      BY <2>7, <3>1, <3>2 DEF FlashInv, Running
<1>3. CASE RowFails \/ RowsDone \/ AppendImage \/ Unpack \/ Compare \/ Kill \/ UNCHANGED vars
  <2>1. UNCHANGED <<input, recs>> /\ (Running' => Running) /\ (phase' = "check" => phase = "check")
    BY <1>3 DEF RowFails, RowsDone, AppendImage, Unpack, Compare, Kill, Running, vars, input
  <2>2. rows' = rows /\ variant' = variant
    BY <2>1 DEF input
  <2> QED
    BY <2>1, <2>2, FitStays DEF FlashInv
<1>4. CASE Seal
  <2>1. UNCHANGED <<input, recs>> /\ Running /\ phase' # "check"
    BY <1>4 DEF Seal, Running
  <2>2. rows' = rows /\ variant' = variant
    BY <2>1 DEF input
  <2> QED
    BY <2>1, <2>2, FitStays DEF FlashInv
<1> QED
  BY <1>1, <1>2, <1>3, <1>4 DEF Next

THEOREM FlashInvariant == Spec => []FlashInv
<1>1. Init => FlashInv
  BY DEF Init, FlashInv, Running
<1>2. UpdateInv /\ FlashInv /\ [Next]_vars => FlashInv'
  BY FlashStep
<1> QED
  BY <1>1, <1>2, UpdateInvariant, PTL DEF Spec

\* What the loader writes stays in its partition (assemble.py:107-130): boot
\* fills its partition and is not cut, the rootfs of a card or eMMC fits.
THEOREM UpdateStaysInPartition == Spec => []StaysInPartition
<1>1. ASSUME UpdateInv, FlashInv, phase = "done", NEW k \in DOMAIN recs
      PROVE  /\ recs[k].name = "boot" =>
                  recs[k].addr # NoAddr /\ recs[k].size = recs[k].nand * 512 /\ size["boot"] <= recs[k].size
             /\ recs[k].name = "rootfs" /\ variant \in {"sd", "emmc"} =>
                  recs[k].addr # NoAddr /\ recs[k].size <= recs[k].nand * 512
  <2>1. recs \in Seq(Record) /\ rows \in Seq(Row) /\ param \in [Partitions -> Slot] /\ Len(recs) <= Len(rows)
    BY <1>1, RowsOK DEF UpdateInv, TypeOK, RowInv
  <2>2. k \in DOMAIN rows /\ rows[k] \in Row /\ rows \in Manifests[variant]
    BY <1>1, <2>1 DEF UpdateInv, TypeOK
  <2>3. recs[k].name = rows[k].name /\ recs[k].size = Wrapped(rows[k]) /\ Placed(recs[k].name, recs[k])
    BY <1>1 DEF UpdateInv, RowInv, FlashInv
  <2>4. /\ rows[k].name = "boot" => rows[k].base = "boot.img"
        /\ rows[k].name = "rootfs" => rows[k].base = "rootfs.img"
    BY <1>1, <2>2, ManifestRows DEF UpdateInv, TypeOK
  <2>5. CASE recs[k].name = "boot"
    <3>1. param["boot"].kind = "fixed" /\ param["boot"] \in Slot /\ size["boot"] <= PartBytes("boot")
      BY <1>1, <2>1 DEF FlashInv, BootFits, HasPart, Running, Partitions
    <3>2. recs[k].nand = param["boot"].sectors /\ recs[k].addr = param["boot"].off
      BY <2>3, <2>5, <3>1 DEF Placed, Partitions
    <3>3. LoadImage(rows[k]) = Data("boot", PartBytes("boot"))
      BY <2>3, <2>4, <2>5 DEF LoadImage, Staged, UbootName
    <3>4. PartBytes("boot") \in Nat
      BY <3>1 DEF PartBytes, Slot
    <3>5. Wrapped(rows[k]) = PartBytes("boot")
      BY <2>3, <2>5, <3>3, <3>4, WrappedData
    <3> QED
      BY <2>3, <2>5, <3>1, <3>2, <3>5 DEF PartBytes, Slot, NoAddr
  <2>6. CASE recs[k].name = "rootfs" /\ variant \in {"sd", "emmc"}
    <3>1. param["rootfs"].kind = "fixed" /\ param["rootfs"] \in Slot /\ size["rootfs"] <= PartBytes("rootfs")
      BY <1>1, <2>1, <2>6 DEF FlashInv, RootfsFits, HasPart, Running, Partitions
    <3>2. recs[k].nand = param["rootfs"].sectors /\ recs[k].addr = param["rootfs"].off
      BY <2>3, <2>6, <3>1 DEF Placed, Partitions
    <3>3. LoadImage(rows[k]) = Data("rootfs", size["rootfs"])
      BY <2>3, <2>4, <2>6 DEF LoadImage, Staged, UbootName, Required, Files
    <3>4. size["rootfs"] \in Nat
      BY <1>1, <2>6 DEF UpdateInv, PresentInv, Running, Required, Files
    <3>5. Wrapped(rows[k]) = size["rootfs"]
      BY <2>3, <2>6, <3>3, <3>4, WrappedData
    <3> QED
      BY <2>3, <2>6, <3>1, <3>2, <3>5 DEF PartBytes, Slot, NoAddr
  <2> QED
    BY <2>5, <2>6
<1>2. UpdateInv /\ FlashInv => StaysInPartition
  BY <1>1 DEF StaysInPartition
<1> QED
  BY <1>2, UpdateInvariant, FlashInvariant, PTL
=============================================================================
