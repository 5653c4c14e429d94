------------------------------ MODULE FitProofs ------------------------------
(***************************************************************************)
(* Proofs about Fit for every image source, every blob and every offset:   *)
(* types (TypeOK), the layout of the blobs while they are laid out         *)
(* (LayInv) and once the file is written (BlobsApart), what has been read  *)
(* of it (ReadInv), and then what is written and read back: the reader     *)
(* meets the tokens where they were written (ReadsBack), the boot stage    *)
(* finds its bytes in what was read (Loadable), and an image unpacked and  *)
(* packed again is the same (RepackSame).                                  *)
(***************************************************************************)
EXTENDS Fit, TLAPS

Read == [path : Seq(PropNames \union NodeNames), name : PropNames \union {"garbage"}, len : Nat, num : Nat, src : Contents, at : Nat]
Seg == [at : Nat, blob : Blob]
Image == [state : {"whole"}, fdt : Nat, start : Nat, size : Nat, toks : Seq(Token),
          strs : Seq(String), segs : Seq(Seg)]

InputInv ==
  /\ files \in [DOMAIN its.images -> Blob] /\ Len(rel) <= Len(its.images)
  /\ phase \in {"names", "strings", "nodes", "tokens"} => Len(rel) = Len(its.images)
LayInv ==
  /\ phase = "lay" => Len(rel) = k
  /\ \A i \in DOMAIN rel :
       /\ rel[i] + files[i].len <= bufPtr
       /\ \A j \in 1 .. i - 1 : rel[j] + files[j].len <= rel[i]
ReadInv ==
  /\ image = NoImage \/ image \in Image
  /\ phase \in {"read", "loaded"} => image \in Image
  /\ read \in Seq(Read) /\ path \in Seq(PropNames \union NodeNames)
FitInv == TypeOK /\ InputInv /\ LayInv /\ ReadInv /\ BlobsApart

-----------------------------------------------------------------------------
(* Alignment and the pieces of the tree.                                   *)

LEMMA AlignFit == ASSUME NEW x \in Nat PROVE AlignUp(x, FIT_ALIGN) \in Nat /\ x <= AlignUp(x, FIT_ALIGN)
  BY DEF AlignUp, FIT_ALIGN

LEMMA AlignFour == ASSUME NEW x \in Nat PROVE AlignUp(x, 4) \in Nat /\ x <= AlignUp(x, 4)
  BY DEF AlignUp

LEMMA OwnNames ==
  /\ "version" \in PropNames /\ "totalsize" \in PropNames /\ "timestamp" \in PropNames
  /\ "description" \in PropNames /\ "#address-cells" \in PropNames /\ "data" \in PropNames
  /\ "data-size" \in PropNames /\ "data-offset" \in PropNames /\ "data-position" \in PropNames
  /\ "value" \in PropNames /\ "algo" \in PropNames /\ "default" \in PropNames
<1>1. OwnProps \subseteq PropNames
  BY FitConstants
<1>2. \A p \in OwnProps : p \in PropNames
  BY <1>1
<1> QED
  BY <1>2, Zenon DEF OwnProps

LEMMA OwnContents == "" \in Contents /\ "garbage" \in Contents /\ PropNames \subseteq Contents
  BY FitConstants

LEMMA Few ==
  ASSUME NEW S, NEW a \in S, NEW b \in S, NEW c \in S, NEW d \in S
  PROVE  /\ <<>> \in Seq(S) /\ <<a>> \in Seq(S) /\ <<a, b>> \in Seq(S)
         /\ <<a, b, c>> \in Seq(S) /\ <<a, b, c, d>> \in Seq(S)
  OBVIOUS

\* Where a token can be: a node is the names on the way to it.
LEMMA OwnPlaces ==
  /\ <<>> \in Seq(NodeNames) /\ Root \in Seq(NodeNames) /\ Images \in Seq(NodeNames)
  /\ Confs \in Seq(NodeNames) /\ Conf \in Seq(NodeNames)
<1>1. "" \in NodeNames /\ "images" \in NodeNames /\ "configurations" \in NodeNames /\ "conf" \in NodeNames
  BY FitConstants DEF OwnNodes
<1> QED
  BY <1>1, Few DEF Root, Images, Confs, Conf

LEMMA NumItem ==
  ASSUME NEW v \in Seq(NodeNames), NEW p \in PropNames, NEW n \in Nat PROVE U32(v, p, n) \in Item
  BY OwnContents DEF U32, Tok, Item

LEMMA MarkItems ==
  ASSUME NEW v \in Seq(NodeNames)
  PROVE  EndNode(v) \in Item /\ End \in Item /\ \A n \in NodeNames : Begin(v, n) \in Item
<1>1. "" \in NodeNames
  BY FitConstants DEF OwnNodes
<1> QED
  BY <1>1, OwnContents, OwnPlaces DEF EndNode, End, Begin, Tok, Item

LEMMA OwnBegins ==
  /\ Begin(<<>>, "") \in Item /\ Begin(Root, "images") \in Item /\ Begin(Root, "configurations") \in Item
  /\ Begin(Confs, "conf") \in Item
<1>1. "" \in NodeNames /\ "images" \in NodeNames /\ "configurations" \in NodeNames /\ "conf" \in NodeNames
  BY FitConstants DEF OwnNodes
<1> QED
  BY <1>1, MarkItems, OwnPlaces

LEMMA HashItem ==
  ASSUME NEW v \in Seq(NodeNames), NEW src \in Contents PROVE Hash(v, src) \in Item
  BY OwnNames DEF Hash, Tok, Item

LEMMA CopiedItem ==
  ASSUME NEW v \in Seq(NodeNames), NEW p \in PropNames PROVE Copied(v, p) \in Item
  BY OwnContents, FitConstants DEF Copied, Tok, Item

LEMMA Cat == ASSUME NEW S, NEW s \in Seq(S), NEW t \in Seq(S) PROVE s \o t \in Seq(S)
  OBVIOUS

LEMMA FunSeq == ASSUME NEW S, NEW n \in Nat, NEW f \in [1 .. n -> S] PROVE f \in Seq(S)
  OBVIOUS

LEMMA CopiesItems ==
  ASSUME NEW v \in Seq(NodeNames), NEW ps \in Seq(PropNames) PROVE Copies(v, ps) \in Seq(Item)
<1>1. \A i \in DOMAIN ps : Copied(v, ps[i]) \in Item
  BY CopiedItem
<1> QED
  BY <1>1 DEF Copies

LEMMA HeadItems == TreeHead \in Seq(Item)
<1> DEFINE v == Root
<1>1. Begin(<<>>, "") \in Item /\ Begin(v, "images") \in Item
  BY OwnBegins
<1>2. U32(v, "timestamp", 0) \in Item /\ U32(v, "version", 0) \in Item /\ U32(v, "totalsize", 0) \in Item
  BY OwnNames, OwnPlaces, NumItem
<1>3. Copied(v, "description") \in Item /\ Copied(v, "#address-cells") \in Item
  BY OwnNames, OwnPlaces, CopiedItem
<1> DEFINE auto == IF ext # 0 THEN <<U32(v, "timestamp", 0)>>
                   ELSE <<U32(v, "version", 0), U32(v, "totalsize", 0), U32(v, "timestamp", 0)>>
           own == <<Copied(v, "description"), Copied(v, "#address-cells"), Begin(v, "images")>>
<1>5. TreeHead = <<Begin(<<>>, "")>> \o auto \o own
  BY DEF TreeHead
<1> HIDE DEF v
<1>4. auto \in Seq(Item) /\ own \in Seq(Item) /\ <<Begin(<<>>, "")>> \in Seq(Item)
  <2>1. <<U32(v, "timestamp", 0)>> \in Seq(Item)
    BY <1>2
  <2>2. <<U32(v, "version", 0), U32(v, "totalsize", 0), U32(v, "timestamp", 0)>> \in Seq(Item)
    BY <1>2
  <2>3. own \in Seq(Item)
    BY <1>1, <1>3, Few
  <2>4. <<Begin(<<>>, "")>> \in Seq(Item)
    BY <1>1, Few
  <2> QED
    BY <2>1, <2>2, <2>3, <2>4
<1> HIDE DEF auto, own
<1> QED
  BY <1>4, <1>5, Cat

LEMMA TailItems == TreeTail \in Seq(Item)
<1> DEFINE a == EndNode(Images)
           b == Begin(Root, "configurations")
           c == Copied(Confs, "default")
           conf == IF its.conf THEN <<Begin(Confs, "conf"), Copied(Conf, "description"), EndNode(Conf)>> ELSE <<>>
           x == EndNode(Confs)
           y == EndNode(Root)
<1>1. a \in Item /\ b \in Item /\ x \in Item /\ y \in Item /\ End \in Item
      /\ Begin(Confs, "conf") \in Item /\ EndNode(Conf) \in Item
  BY OwnBegins, OwnPlaces, MarkItems
<1>2. Copied(Conf, "description") \in Item /\ c \in Item
  BY OwnNames, OwnPlaces, CopiedItem
<1>3. conf \in Seq(Item)
  BY <1>1, <1>2, Few
<1>4. TreeTail = <<a, b, c>> \o conf \o <<x, y, End>>
  BY DEF TreeTail
<1> HIDE DEF a, b, c, conf, x, y
<1> QED
  BY <1>1, <1>2, <1>3, <1>4, Few

LEMMA SourceOK ==
  ASSUME FitInv
  PROVE  its \in Tree /\ its.images \in Seq(ImageSrc) /\ Len(its.images) \in Nat
<1>1. its \in Tree
  BY FitConstants DEF FitInv, TypeOK
<1> QED
  BY <1>1 DEF Tree

LEMMA NodeItems ==
  ASSUME FitInv, NEW i \in DOMAIN its.images, i \in DOMAIN rel
  PROVE  ImageNode(i, rel[i]) \in Seq(Item)
<1> DEFINE src == its.images[i]
<1>1. src \in ImageSrc
  BY SourceOK
<1> HIDE DEF src
<1>2. src.name \in NodeNames /\ src.before \in Seq(PropNames) /\ src.after \in Seq(PropNames)
  BY <1>1 DEF ImageSrc
<1>3. files[i] \in Blob /\ ext + rel[i] \in Nat
  BY DEF FitInv, InputInv, TypeOK
<1> DEFINE v == Node(i)
           h == HashNode(i)
<1>4. v \in Seq(NodeNames) /\ h \in Seq(NodeNames)
  <2>1. "" \in NodeNames /\ "images" \in NodeNames /\ "hash" \in NodeNames
    BY FitConstants DEF OwnNodes
  <2> DEFINE name == src.name
  <2>2. v = <<"", "images", name>> /\ h = <<"", "images", name, "hash">> /\ name \in NodeNames
    BY <1>2 DEF Node, HashNode, src
  <2> HIDE DEF name, v, h
  <2> QED
    BY <2>1, <2>2, Few
<1> HIDE DEF v, h
<1>5. U32(v, "data-size", files[i].len) \in Item /\ U32(v, DataProp, ext + rel[i]) \in Item /\ Hash(h, files[i].src) \in Item
  <2>1. files[i].len \in Nat /\ files[i].src \in Contents /\ DataProp \in PropNames
    BY <1>3, OwnNames DEF DataProp, Blob
  <2> QED
    BY <1>3, <1>4, <2>1, OwnNames, NumItem, HashItem
<1>6. Begin(Images, src.name) \in Item /\ Begin(v, "hash") \in Item /\ EndNode(v) \in Item /\ EndNode(h) \in Item
      /\ Copied(h, "algo") \in Item
  <2>1. "hash" \in NodeNames
    BY FitConstants DEF OwnNodes
  <2> QED
    BY <1>2, <1>4, <2>1, OwnNames, OwnPlaces, MarkItems, CopiedItem
<1>7. Copies(v, src.before \o src.after) \in Seq(Item)
  <2>1. src.before \o src.after \in Seq(PropNames)
    BY <1>2, Cat
  <2> QED
    BY <1>4, <2>1, CopiesItems
<1> QED
  BY <1>5, <1>6, <1>7 DEF ImageNode, src, v, h

LEMMA NamesOfImage == ASSUME FitInv, NEW i \in DOMAIN its.images PROVE ImageNames(i) \in Seq(PropNames)
<1> DEFINE src == its.images[i]
<1>1. src \in ImageSrc
  BY SourceOK
<1> HIDE DEF src
<1>2. src.before \in Seq(PropNames) /\ src.after \in Seq(PropNames)
  BY <1>1 DEF ImageSrc
<1>3. "data" \in PropNames /\ "algo" \in PropNames
  BY OwnNames
<1> DEFINE own == IF src.data THEN <<"data">> ELSE <<>>
           algo == IF src.hash = "algo" THEN <<"algo">> ELSE <<>>
<1>4. own \in Seq(PropNames) /\ algo \in Seq(PropNames)
  BY <1>3
<1>5. ImageNames(i) = src.before \o own \o src.after \o algo
  BY DEF ImageNames, src
<1> HIDE DEF own, algo
<1> QED
  BY <1>2, <1>4, <1>5, Cat

LEMMA TokSizeNat == ASSUME NEW x \in Item PROVE TokSize(x) \in Nat
<1>1. x.name \in PropNames \union NodeNames /\ x.len \in Nat
  BY DEF Item
<1>2. NameLen[x.name] + 1 \in Nat
  <2> DEFINE n == x.name
  <2>1. n \in PropNames \union NodeNames
    BY <1>1
  <2> HIDE DEF n
  <2>2. NameLen[n] \in Nat
    BY <2>1, FitConstants
  <2> QED
    BY <2>2 DEF n
<1>3. AlignUp(NameLen[x.name] + 1, 4) \in Nat /\ AlignUp(x.len, 4) \in Nat
  BY <1>1, <1>2, AlignFour
<1> QED
  BY <1>3 DEF TokSize

-----------------------------------------------------------------------------
(* One step of each loop.                                                  *)

LEMMA LayStep == ASSUME FitInv, Lay PROVE FitInv'
<1> USE DEF Lay, input, strings, block, reader
<1>1. /\ rel \in Seq(Nat) /\ k = Len(rel) /\ bufPtr \in Nat /\ ext \in Nat
      /\ k + 1 \in DOMAIN its.images /\ files \in [DOMAIN its.images -> Blob]
  BY SourceOK DEF FitInv, TypeOK, InputInv, LayInv
<1> DEFINE n == files[k + 1].len
           room == IF ext # 0 THEN n ELSE AlignUp(n, FIT_ALIGN)
<1>2. n \in Nat
  <2>1. files[k + 1] \in Blob
    BY <1>1
  <2> QED
    BY <2>1 DEF Blob
<1>3. room \in Nat /\ n <= room
  <2> HIDE DEF n
  <2> QED
    BY <1>2, AlignFit
<1>4. rel' = Append(rel, bufPtr) /\ bufPtr' = bufPtr + room /\ k' = k + 1
  OBVIOUS
<1> HIDE DEF room
<1>5. rel' \in Seq(Nat) /\ Len(rel') = k + 1 /\ bufPtr' \in Nat /\ k' \in Nat
  BY <1>1, <1>3, <1>4
<1>6. TypeOK'
  BY <1>5 DEF FitInv, TypeOK
<1>7. InputInv'
  BY <1>1, <1>5, SourceOK DEF FitInv, InputInv
<1>8. LayInv'
  <2>1. \A i \in DOMAIN rel' : (i = k + 1 /\ rel'[i] = bufPtr) \/ (i \in DOMAIN rel /\ rel'[i] = rel[i])
    BY <1>1, <1>4
  <2>2. \A i \in DOMAIN rel : rel[i] \in Nat /\ files[i].len \in Nat /\ rel[i] + files[i].len <= bufPtr
    <3>1. \A i \in DOMAIN rel : rel[i] \in Nat /\ files[i] \in Blob
      BY <1>1, SourceOK DEF FitInv, InputInv
    <3> QED
      BY <3>1 DEF FitInv, LayInv, Blob
  <2>3. ASSUME NEW i \in DOMAIN rel'
        PROVE  /\ rel'[i] + files[i].len <= bufPtr'
               /\ \A j \in 1 .. i - 1 : rel'[j] + files[j].len <= rel'[i]
    <3>1. CASE i = k + 1 /\ rel'[i] = bufPtr
      <4>1. bufPtr + files[k + 1].len <= bufPtr'
        BY <1>1, <1>2, <1>3, <1>4
      <4>2. \A j \in 1 .. i - 1 : j \in DOMAIN rel /\ rel'[j] = rel[j]
        BY <1>1, <1>4, <3>1
      <4> QED
        BY <2>2, <3>1, <4>1, <4>2
    <3>2. CASE i \in DOMAIN rel /\ rel'[i] = rel[i]
      <4>1. rel[i] + files[i].len <= bufPtr'
        BY <1>1, <1>3, <1>4, <2>2, <3>2
      <4>2. \A j \in 1 .. i - 1 : j \in DOMAIN rel /\ rel'[j] = rel[j]
        BY <1>1, <1>4, <3>2
      <4> QED
        BY <3>2, <4>1, <4>2 DEF FitInv, LayInv
    <3> QED
      BY <2>1, <3>1, <3>2
  <2>4. phase' = "lay" => Len(rel') = k'
    BY <1>4, <1>5
  <2> QED
    BY <2>3, <2>4 DEF LayInv
<1>9. ReadInv' /\ BlobsApart'
  BY DEF FitInv, ReadInv, BlobsApart
<1> QED
  BY <1>6, <1>7, <1>8, <1>9 DEF FitInv

\* The loops that leave blobs and image alone disturb the types only.
LEMMA OtherStep ==
  ASSUME FitInv, UNCHANGED <<input, rel, bufPtr, image, reader>>, TypeOK',
         phase' = "lay" => phase = "lay" /\ k' = k,
         phase' \in {"read", "loaded"} => phase' = phase,
         phase' \in {"names", "strings", "nodes", "tokens"} => Len(rel) = Len(its.images)
  PROVE  FitInv'
<1>1. InputInv' /\ LayInv'
  BY DEF FitInv, InputInv, LayInv, TypeOK, input
<1>2. ReadInv' /\ BlobsApart'
  BY DEF FitInv, ReadInv, BlobsApart, reader
<1> QED
  BY <1>1, <1>2 DEF FitInv

LEMMA LoopStep ==
  ASSUME FitInv, Refuse \/ Laid \/ Walk \/ AddName \/ Named \/ Build \/ Emit \/ NoString
  PROVE  FitInv'
<1>1. CASE Refuse \/ NoString
  <2>1. TypeOK'
    BY <1>1 DEF Refuse, NoString, FitInv, TypeOK, input, strings, block, reader
  <2> QED
    BY <1>1, <2>1, OtherStep DEF Refuse, NoString
<1>2. CASE Laid
  <2>1. names' \in Seq(PropNames)
    BY <1>2, OwnNames DEF Laid
  <2>2. TypeOK'
    BY <1>2, <2>1 DEF Laid, FitInv, TypeOK, input, strings, block, reader
  <2> QED
    BY <1>2, <2>2, OtherStep DEF Laid, FitInv, LayInv
<1>3. CASE Walk
  <2>1. names' \in Seq(PropNames)
    <3>1. CASE k < Len(its.images)
      <4>1. k + 1 \in DOMAIN its.images
        BY <3>1, SourceOK DEF FitInv, TypeOK
      <4>2. names' = names \o ImageNames(k + 1) /\ names \in Seq(PropNames)
        BY <1>3, <3>1 DEF Walk, FitInv, TypeOK
      <4> QED
        BY <4>1, <4>2, NamesOfImage, Cat
    <3>2. CASE ~(k < Len(its.images))
      <4> DEFINE conf == IF its.conf THEN <<"description">> ELSE <<>>
      <4>1. names' = names \o <<"default">> \o conf \o Added /\ names \in Seq(PropNames)
        BY <1>3, <3>2 DEF Walk, FitInv, TypeOK
      <4>2. <<"default">> \in Seq(PropNames) /\ conf \in Seq(PropNames)
        BY OwnNames
      <4>3. Added \in Seq(PropNames)
        <5>1. <<"timestamp", "value", "data-position", "data-size">> \in Seq(PropNames)
          BY OwnNames
        <5>2. <<"timestamp", "totalsize", "version", "value", "data-offset", "data-size">> \in Seq(PropNames)
          BY OwnNames
        <5> QED
          BY <5>1, <5>2 DEF Added
      <4> HIDE DEF conf
      <4> QED
        BY <4>1, <4>2, <4>3, Cat
    <3> QED
      BY <3>1, <3>2
  <2>2. TypeOK'
    BY <1>3, <2>1 DEF Walk, FitInv, TypeOK, input, strings, block, reader
  <2> QED
    BY <1>3, <2>2, OtherStep DEF Walk, FitInv, InputInv
<1>4. CASE AddName
  <2>1. names[k + 1] \in PropNames
    BY <1>4 DEF AddName, FitInv, TypeOK
  <2>2. NameLen[names[k + 1]] \in Nat
    BY <2>1, FitConstants
  <2> DEFINE n == names[k + 1]
             new == [name |-> n, off |-> strLen]
  <2>a. strs \in Seq(String) /\ strLen \in Nat
    BY DEF FitInv, TypeOK
  <2>b. new \in String
    BY <2>1, <2>a DEF String
  <2>c. \/ UNCHANGED <<strs, strLen>>
        \/ strs' = Append(strs, new) /\ strLen' = strLen + NameLen[n] + 1
    BY <1>4 DEF AddName
  <2>d. NameLen[n] \in Nat
    BY <2>2
  <2> HIDE DEF new, n
  <2>3. strs' \in Seq(String) /\ strLen' \in Nat
    <3>1. CASE UNCHANGED <<strs, strLen>>
      BY <2>a, <3>1
    <3>2. CASE strs' = Append(strs, new) /\ strLen' = strLen + NameLen[n] + 1
      BY <2>a, <2>b, <2>d, <3>2
    <3> QED
      BY <2>c, <3>1, <3>2
  <2>4. TypeOK'
    BY <1>4, <2>3 DEF AddName, FitInv, TypeOK, input, block, reader
  <2> QED
    BY <1>4, <2>4, OtherStep DEF AddName, FitInv, InputInv
<1>5. CASE Named
  <2>1. TypeOK'
    BY <1>5, HeadItems DEF Named, FitInv, TypeOK, input, strings, reader
  <2> QED
    BY <1>5, <2>1, OtherStep DEF Named, FitInv, InputInv
<1>6. CASE Build
  <2>1. tree' \in Seq(Item)
    <3>1. CASE k < Len(its.images)
      <4>1. k + 1 \in DOMAIN its.images /\ k + 1 \in DOMAIN rel
        BY <1>6, <3>1, SourceOK DEF Build, FitInv, TypeOK, InputInv, LayInv
      <4>2. tree' = tree \o ImageNode(k + 1, rel[k + 1]) /\ tree \in Seq(Item)
        BY <1>6, <3>1 DEF Build, FitInv, TypeOK
      <4> QED
        BY <4>1, <4>2, NodeItems, Cat
    <3>2. CASE ~(k < Len(its.images))
      <4>1. tree' = tree \o TreeTail /\ tree \in Seq(Item)
        BY <1>6, <3>2 DEF Build, FitInv, TypeOK
      <4> QED
        BY <4>1, TailItems, Cat
    <3> QED
      BY <3>1, <3>2
  <2>2. TypeOK'
    BY <1>6, <2>1 DEF Build, FitInv, TypeOK, input, strings, reader
  <2> QED
    BY <1>6, <2>2, OtherStep DEF Build, FitInv, InputInv
<1>7. CASE Emit
  <2> DEFINE x == tree[k + 1]
             off == IF x.t = "prop" THEN StrOff(strs, x.name) ELSE 0
  <2>1. x \in Item
    BY <1>7 DEF Emit, FitInv, TypeOK
  <2>2. off \in Nat
    <3>1. x.t = "prop" => Known(strs, x.name)
      BY <1>7 DEF Emit
    <3>2. ASSUME NEW n, Known(strs, n) PROVE StrOff(strs, n) \in Nat
      <4>1. PICK i \in DOMAIN strs : strs[i].name = n
        BY <3>2 DEF Known
      <4> DEFINE c == CHOOSE j \in DOMAIN strs : strs[j].name = n
      <4>2. c \in DOMAIN strs
        BY <4>1
      <4> HIDE DEF c
      <4>3. strs \in Seq(String)
        BY DEF FitInv, TypeOK
      <4>4. strs[c] \in String
        BY <4>2, <4>3
      <4>5. strs[c].off \in Nat
        BY <4>4 DEF String
      <4> QED
        BY <4>5 DEF StrOff, c
    <3> HIDE DEF x
    <3> QED
      BY <3>1, <3>2
  <2>3. toks' = Append(toks, [at |-> HEADER + structLen, x |-> x, off |-> off])
        /\ structLen' = structLen + TokSize(x)
    BY <1>7 DEF Emit
  <2> HIDE DEF x, off
  <2>4. structLen \in Nat /\ HEADER + structLen \in Nat /\ TokSize(x) \in Nat
    BY <2>1, TokSizeNat DEF FitInv, TypeOK, HEADER
  <2>5. toks' \in Seq(Token) /\ structLen' \in Nat
    BY <2>1, <2>2, <2>3, <2>4 DEF FitInv, TypeOK, Token
  <2>6. TypeOK'
    BY <1>7, <2>5 DEF Emit, FitInv, TypeOK, input, strings, reader
  <2> QED
    BY <1>7, <2>6, OtherStep DEF Emit, FitInv, InputInv
<1> QED
  BY <1>1, <1>2, <1>3, <1>4, <1>5, <1>6, <1>7

-----------------------------------------------------------------------------
(* The file is written, read and packed again.                             *)

LEMMA StartFits == ASSUME FitInv, ext # 0 => FdtSize <= ext PROVE FdtSize \in Nat /\ Start \in Nat /\ FdtSize <= Start
<1>1. FdtSize \in Nat /\ ext \in Nat
  BY DEF FitInv, TypeOK, FdtSize, HEADER
<1> QED
  BY <1>1, AlignFit DEF Start

LEMMA CloseStep == ASSUME FitInv, Close PROVE FitInv'
<1> USE DEF Close, Overlaps, input, strings, block
<1>1. CASE ext # 0 /\ ext < FdtSize
  <2>1. phase' = "failed" /\ UNCHANGED <<image, reader>>
    BY <1>1 DEF Overlaps
  <2>2. TypeOK'
    BY <2>1 DEF FitInv, TypeOK, reader
  <2> QED
    BY <2>1, <2>2, OtherStep
<1>2. CASE ~(ext # 0 /\ ext < FdtSize)
  <2> DEFINE s == Start
             f == FdtSize
             segs == [i \in DOMAIN rel |-> [at |-> s + rel[i], blob |-> files[i]]]
             new == [state |-> "whole", fdt |-> f, start |-> s, size |-> s + bufPtr,
                     toks |-> toks, strs |-> strs, segs |-> segs]
  <2>1. phase' = "read" /\ image' = new /\ pos' = HEADER /\ path' = <<>> /\ read' = <<>> /\ k' = 0
    BY <1>2
  <2>2. f \in Nat /\ s \in Nat /\ f <= s
    <3>1. FdtSize \in Nat /\ ext \in Nat
      BY DEF FitInv, TypeOK, FdtSize, HEADER
    <3> QED
      BY <1>2, <3>1, StartFits
  <2>3. bufPtr \in Nat /\ rel \in Seq(Nat) /\ toks \in Seq(Token) /\ strs \in Seq(String)
    BY DEF FitInv, TypeOK
  <2> HIDE DEF s, f
  <2>4. \A i \in DOMAIN rel : rel[i] \in Nat /\ files[i] \in Blob /\ files[i].len \in Nat
    <3>1. \A i \in DOMAIN rel : rel[i] \in Nat /\ files[i] \in Blob
      BY <2>3, SourceOK DEF FitInv, InputInv
    <3> QED
      BY <3>1 DEF Blob
  <2>5. segs \in Seq(Seg)
    <3>1. \A i \in DOMAIN rel : [at |-> s + rel[i], blob |-> files[i]] \in Seg
      BY <2>2, <2>4 DEF Seg
    <3>2. DOMAIN rel = 1 .. Len(rel) /\ Len(rel) \in Nat
      BY <2>3
    <3>3. segs \in [1 .. Len(rel) -> Seg]
      BY <3>1, <3>2
    <3> HIDE DEF segs
    <3> QED
      BY <3>2, <3>3, FunSeq
  <2>6. \A i \in DOMAIN segs : i \in DOMAIN rel /\ segs[i].at = s + rel[i] /\ segs[i].blob = files[i]
    OBVIOUS
  <2> HIDE DEF segs
  <2>7. new \in Image /\ new.state = "whole" /\ new.fdt = f /\ new.start = s /\ new.size = s + bufPtr /\ new.segs = segs
    BY <2>2, <2>3, <2>5 DEF Image
  <2> HIDE DEF new
  <2>8. TypeOK'
    BY <2>1, <2>7 DEF FitInv, TypeOK, HEADER
  <2>9. InputInv' /\ LayInv'
    BY <2>1 DEF FitInv, InputInv, LayInv
  <2>10. ReadInv'
    BY <2>1, <2>7 DEF ReadInv
  <2>11. BlobsApart'
    <3>1. ASSUME NEW i \in DOMAIN segs
          PROVE  /\ s <= segs[i].at /\ segs[i].at + segs[i].blob.len <= s + bufPtr
                 /\ \A j \in 1 .. i - 1 : segs[j].at + segs[j].blob.len <= segs[i].at
      <4>1. i \in DOMAIN rel /\ segs[i].at = s + rel[i] /\ segs[i].blob.len = files[i].len
        BY <2>6
      <4>2. rel[i] + files[i].len <= bufPtr /\ \A j \in 1 .. i - 1 : rel[j] + files[j].len <= rel[i]
        BY <4>1 DEF FitInv, LayInv
      <4>3. ASSUME NEW j \in 1 .. i - 1 PROVE segs[j].at + segs[j].blob.len <= segs[i].at
        <5>1. j \in DOMAIN rel /\ j \in DOMAIN segs
          BY <2>3, <4>1, <4>3 DEF segs
        <5>2. segs[j].at = s + rel[j] /\ segs[j].blob.len = files[j].len
          BY <2>6, <5>1
        <5> QED
          BY <2>2, <2>4, <4>1, <4>2, <4>3, <5>1, <5>2
      <4> QED
        BY <2>2, <2>3, <2>4, <4>1, <4>2, <4>3
    <3> QED
      BY <2>1, <2>2, <2>7, <3>1 DEF BlobsApart
  <2> QED
    BY <2>8, <2>9, <2>10, <2>11 DEF FitInv
<1> QED
  BY <1>1, <1>2

LEMMA ReadStep == ASSUME FitInv, ReadTok PROVE FitInv'
<1> USE DEF ReadTok, input, strings, block
<1> DEFINE c == CHOOSE i \in DOMAIN image.toks : image.toks[i].at = pos
           tok == image.toks[c]
<1>1. image \in Image /\ image.toks \in Seq(Token) /\ image.strs \in Seq(String) /\ image.size \in Nat
  BY DEF FitInv, ReadInv, Image
<1>2. TokOf(pos) = tok
  BY DEF TokOf
<1>3. c \in DOMAIN image.toks
  BY DEF TokAt
<1> HIDE DEF c
<1>4. tok \in Token
  BY <1>1, <1>3
<1> HIDE DEF tok
<1> DEFINE x == tok.x
           o == tok.off
           num == NumOf(x)
           new == [path |-> path, name |-> NameAt(o), len |-> x.len, num |-> num, src |-> x.src, at |-> pos]
<1>5. x \in Item /\ o \in Nat
  BY <1>4 DEF Token
<1>6. \/ x.t = "begin" /\ path' = Append(path, x.name) /\ read' = read /\ pos' = AlignUp(pos + 4 + NameLen[x.name] + 1, 4)
      \/ x.t = "prop" /\ path' = path /\ read' = Append(read, new) /\ pos' = AlignUp(pos + 12 + x.len, 4)
      \/ x.t = "end" /\ path' = SubSeq(path, 1, Len(path) - 1) /\ read' = read /\ pos' = pos + 4
  BY <1>2
<1>7. phase' \in {"read", "loaded"} /\ phase = "read"
  BY <1>2
<1>8. UNCHANGED <<input, k, rel, bufPtr, strings, block, image>>
  OBVIOUS
<1>9. x.name \in PropNames \union NodeNames /\ x.len \in Nat /\ x.num \in Nat /\ x.src \in Contents
  BY <1>5 DEF Item
<1>10. num \in Nat
  BY <1>1, <1>9 DEF NumOf
<1>11. NameAt(o) \in PropNames \union {"garbage"}
  <2>1. CASE \E i \in DOMAIN image.strs : image.strs[i].off = o
    <3> DEFINE d == CHOOSE i \in DOMAIN image.strs : image.strs[i].off = o
    <3>1. d \in DOMAIN image.strs
      BY <2>1
    <3>2. NameAt(o) = image.strs[d].name
      BY <2>1 DEF NameAt
    <3> HIDE DEF d
    <3>3. image.strs[d] \in String
      BY <1>1, <3>1
    <3> QED
      BY <3>2, <3>3 DEF String
  <2>2. CASE ~\E i \in DOMAIN image.strs : image.strs[i].off = o
    BY <2>2 DEF NameAt
  <2> QED
    BY <2>1, <2>2
<1>12. path \in Seq(PropNames \union NodeNames) /\ read \in Seq(Read) /\ pos \in Nat
  BY DEF FitInv, ReadInv, TypeOK
<1>13. NameLen[x.name] \in Nat
  <2> DEFINE n == x.name
  <2>1. n \in PropNames \union NodeNames
    BY <1>9
  <2> HIDE DEF n
  <2> QED
    BY <2>1, FitConstants DEF n
<1>14. new \in Read
  BY <1>9, <1>10, <1>11, <1>12 DEF Read
<1> DEFINE name == x.name
           len == x.len
           t == x.t
           nl == NameLen[name]
<1>15. name \in PropNames \union NodeNames /\ len \in Nat /\ nl \in Nat
  BY <1>9, <1>13
<1>16. \/ t = "begin" /\ path' = Append(path, name) /\ read' = read /\ pos' = AlignUp(pos + 4 + nl + 1, 4)
       \/ t = "prop" /\ path' = path /\ read' = Append(read, new) /\ pos' = AlignUp(pos + 12 + len, 4)
       \/ t = "end" /\ path' = SubSeq(path, 1, Len(path) - 1) /\ read' = read /\ pos' = pos + 4
  BY <1>6
<1> HIDE DEF new, name, len, nl, t, x, o, num
<1>17. path' \in Seq(PropNames \union NodeNames) /\ read' \in Seq(Read)
  <2>1. SubSeq(path, 1, Len(path) - 1) \in Seq(PropNames \union NodeNames)
    BY <1>12
  <2>2. Append(read, new) \in Seq(Read)
    BY <1>12, <1>14
  <2>3. Append(path, name) \in Seq(PropNames \union NodeNames)
    BY <1>12, <1>15
  <2> QED
    BY <1>12, <1>16, <2>1, <2>2, <2>3, Zenon
<1>18. pos' \in Nat
  <2>1. pos + 4 + nl + 1 \in Nat /\ pos + 12 + len \in Nat /\ pos + 4 \in Nat
    BY <1>12, <1>15
  <2> QED
    BY <1>16, <2>1, AlignFour
<1>19. TypeOK'
  BY <1>7, <1>8, <1>18 DEF FitInv, TypeOK
<1>20. InputInv' /\ LayInv'
  BY <1>7, <1>8 DEF FitInv, InputInv, LayInv
<1>21. ReadInv' /\ BlobsApart'
  BY <1>1, <1>8, <1>17 DEF FitInv, ReadInv, BlobsApart
<1> QED
  BY <1>19, <1>20, <1>21 DEF FitInv

\* What the reader finds of a property that is there is a number.
LEMMA GetNat == ASSUME FitInv, NEW node, NEW p, Has(node, p) PROVE Get(node, p).num \in Nat
<1> DEFINE c == CHOOSE e \in DOMAIN read : read[e].path = node /\ read[e].name = p
<1>1. c \in DOMAIN read
  BY DEF Has
<1>2. Get(node, p) = read[c]
  BY DEF Get
<1> HIDE DEF c
<1>3. read \in Seq(Read)
  BY DEF FitInv, ReadInv
<1>4. read[c] \in Read
  BY <1>1, <1>3
<1> QED
  BY <1>2, <1>4 DEF Read

LEMMA LoadedBlob == ASSUME FitInv, image \in Image, NEW i PROVE Loaded(i) \in Blob
<1> DEFINE n == Get(Node(i), "data-size").num
           p == DataAt(i)
<1>1. Loaded(i) = Cut(p, n)
  BY DEF Loaded
<1> HIDE DEF n, p
<1>2. image.segs \in Seq(Seg)
  BY DEF Image
<1>3. Garbage \in Blob /\ [src |-> "", len |-> 0] \in Blob
  BY OwnContents DEF Garbage, Blob
<1>4. CASE n # 0 /\ \E j \in DOMAIN image.segs : image.segs[j].at = p /\ image.segs[j].blob.len = n
  <2> DEFINE d == CHOOSE j \in DOMAIN image.segs : image.segs[j].at = p /\ image.segs[j].blob.len = n
  <2>1. d \in DOMAIN image.segs
    BY <1>4
  <2>2. Cut(p, n) = image.segs[d].blob
    BY <1>4 DEF Cut
  <2> HIDE DEF d
  <2>3. image.segs[d] \in Seg
    BY <1>2, <2>1
  <2> QED
    BY <1>1, <2>2, <2>3 DEF Seg
<1>5. CASE n = 0 \/ ~\E j \in DOMAIN image.segs : image.segs[j].at = p /\ image.segs[j].blob.len = n
  BY <1>1, <1>3, <1>5 DEF Cut
<1> QED
  BY <1>4, <1>5

LEMMA SelfTestStep == ASSUME FitInv, SelfTest PROVE FitInv'
<1>1. /\ phase' = "lay" /\ k' = 0 /\ rel' = <<>> /\ bufPtr' = 0 /\ names' = <<>> /\ strs' = <<>>
      /\ strLen' = 0 /\ tree' = <<>> /\ toks' = <<>> /\ structLen' = 0 /\ image' = NoImage
      /\ pos' = 0 /\ path' = <<>> /\ read' = <<>> /\ its' = its /\ round' = 2
      /\ files' = [i \in DOMAIN files |-> Loaded(i)]
  BY DEF SelfTest
<1>2. ext' \in Nat
  BY GetNat DEF SelfTest, Detected
<1>3. image \in Image
  BY DEF SelfTest, FitInv, ReadInv
<1>4. files' \in [DOMAIN its'.images -> Blob]
  BY <1>1, <1>3, LoadedBlob DEF FitInv, InputInv
<1>5. TypeOK'
  BY <1>1, <1>2 DEF FitInv, TypeOK, NoImage
<1>6. InputInv' /\ LayInv'
  <2>1. Len(its'.images) \in Nat
    BY <1>1, SourceOK
  <2> QED
    BY <1>1, <1>4, <2>1 DEF InputInv, LayInv
<1>7. ReadInv' /\ BlobsApart'
  BY <1>1 DEF ReadInv, BlobsApart, NoImage
<1> QED
  BY <1>5, <1>6, <1>7 DEF FitInv

-----------------------------------------------------------------------------
\* The inductive invariant of the packer, its reader and its self-test.
THEOREM FitInvariant == Spec => []FitInv
<1>1. Init => FitInv
  <2> SUFFICES ASSUME Init PROVE FitInv
    OBVIOUS
  <2>1. its \in Tree /\ its.images \in Seq(ImageSrc) /\ files \in [DOMAIN its.images -> Blob] /\ ext \in Nat
    BY FitConstants DEF Init, Tree
  <2> QED
    BY <2>1 DEF Init, FitInv, TypeOK, InputInv, LayInv, ReadInv, BlobsApart, NoImage
<1>2. FitInv /\ UNCHANGED vars => FitInv'
  <2> SUFFICES ASSUME FitInv, UNCHANGED vars PROVE FitInv'
    OBVIOUS
  <2>1. UNCHANGED <<input, k, rel, bufPtr, image, reader, phase, strings, block>>
    BY DEF vars
  <2>2. TypeOK'
    BY <2>1 DEF FitInv, TypeOK, input, strings, block, reader
  <2> QED
    BY <2>1, <2>2, OtherStep DEF FitInv, InputInv
<1>3. FitInv /\ [Next]_vars => FitInv'
  BY <1>2, LayStep, LoopStep, CloseStep, ReadStep, SelfTestStep DEF Next
<1> QED
  BY <1>1, <1>3, PTL DEF Spec

\* Every state of the packer is well-formed.
THEOREM FitTypes == Spec => []TypeOK
<1>1. FitInv => TypeOK
  BY DEF FitInv
<1> QED
  BY <1>1, FitInvariant, PTL

\* The blobs of an image lie apart, behind the tree and inside the file, for
\* any lengths and any offset (fit_pack.py:342-352, 375-384).
THEOREM FitBlobsApart == Spec => []BlobsApart
<1>1. FitInv => BlobsApart
  BY DEF FitInv
<1> QED
  BY <1>1, FitInvariant, PTL

-----------------------------------------------------------------------------
(* Sequences: concatenation, and tuples one token longer than another.     *)

LEMMA SameSeq ==
  ASSUME NEW S, NEW s \in Seq(S), NEW u \in Seq(S), Len(s) = Len(u),
         \A i \in 1 .. Len(s) : s[i] = u[i]
  PROVE s = u
  OBVIOUS
LEMMA Joined ==
  ASSUME NEW S, NEW s \in Seq(S), NEW u \in Seq(S)
  PROVE  /\ s \o u \in Seq(S) /\ Len(s \o u) = Len(s) + Len(u) /\ Len(s) \in Nat /\ Len(u) \in Nat
         /\ \A t \in 1 .. Len(s) : (s \o u)[t] = s[t]
         /\ \A t \in 1 .. Len(u) : (s \o u)[Len(s) + t] = u[t]
  OBVIOUS
LEMMA JoinedLast ==
  ASSUME NEW S, NEW s \in Seq(S), NEW d \in Seq(S)
  PROVE  Len(d) = 1 =>
           /\ s \o d \in Seq(S) /\ Len(s \o d) = Len(s) + 1
           /\ (\A i \in 1 .. Len(s) : (s \o d)[i] = s[i]) /\ (s \o d)[Len(s) + 1] = d[1]
<1> DEFINE w == s \o d
           n == Len(d)
<1>1. w \in Seq(S) /\ Len(w) = Len(s) + n /\ Len(s) \in Nat /\ (\A i \in 1 .. Len(s) : w[i] = s[i])
      /\ \A i \in 1 .. n : w[Len(s) + i] = d[i]
  BY Joined
<1>2. Len(d) = 1 => n = 1
  OBVIOUS
<1> HIDE DEF w, n
<1>3. n = 1 => /\ w \in Seq(S) /\ Len(w) = Len(s) + 1
               /\ (\A i \in 1 .. Len(s) : w[i] = s[i]) /\ w[Len(s) + 1] = d[1]
  BY <1>1
<1> QED
  BY <1>2, <1>3 DEF w

LEMMA JoinedOne ==
  ASSUME NEW S, NEW s \in Seq(S), NEW c \in S
  PROVE  /\ s \o <<c>> \in Seq(S) /\ Len(s \o <<c>>) = Len(s) + 1
         /\ (\A i \in 1 .. Len(s) : (s \o <<c>>)[i] = s[i]) /\ (s \o <<c>>)[Len(s) + 1] = c
<1>1. <<c>> \in Seq(S) /\ Len(<<c>>) = 1 /\ <<c>>[1] = c
  OBVIOUS
<1> QED
  BY <1>1, JoinedLast

LEMMA Longer ==
  ASSUME NEW S, NEW s \in Seq(S), NEW c \in S, NEW u \in Seq(S), Len(u) = Len(s) + 1,
         \A i \in 1 .. Len(s) : u[i] = s[i], u[Len(s) + 1] = c
  PROVE  Append(s, c) = u /\ s \o <<c>> = u /\ SubSeq(u, 1, Len(u) - 1) = s
<1>1. Append(s, c) \in Seq(S) /\ Len(Append(s, c)) = Len(s) + 1 /\ Len(s) \in Nat
      /\ Append(s, c)[Len(s) + 1] = c /\ \A i \in 1 .. Len(s) : Append(s, c)[i] = s[i]
  OBVIOUS
<1> DEFINE v == Append(s, c)
<1> HIDE DEF v
<1>2. v = u
  <2>1. \A i \in 1 .. Len(v) : v[i] = u[i]
    BY <1>1 DEF v
  <2> QED
    BY <1>1, <2>1, SameSeq DEF v
<1>3. s \o <<c>> = u
  <2> DEFINE w == s \o <<c>>
  <2>2. w \in Seq(S) /\ Len(w) = Len(s) + 1 /\ w[Len(s) + 1] = c /\ \A i \in 1 .. Len(s) : w[i] = s[i]
    BY JoinedOne
  <2> HIDE DEF w
  <2>5. \A i \in 1 .. Len(w) : w[i] = u[i]
    BY <1>1, <2>2
  <2> QED
    BY <2>2, <2>5, SameSeq DEF w
<1>4. SubSeq(u, 1, Len(u) - 1) = s
  <2> DEFINE w == SubSeq(u, 1, Len(u) - 1)
  <2>1. w \in Seq(S) /\ Len(w) = Len(s) /\ \A i \in 1 .. Len(w) : w[i] = u[i]
    BY <1>1
  <2> HIDE DEF w
  <2>2. \A i \in 1 .. Len(w) : w[i] = s[i]
    BY <2>1
  <2> QED
    BY <2>1, <2>2, SameSeq DEF w
<1> QED
  BY <1>2, <1>3, <1>4 DEF v
LEMMA Tuples ==
  ASSUME NEW a, NEW b, NEW c, NEW d
  PROVE  /\ Append(<<>>, a) = <<a>> /\ Append(<<a>>, b) = <<a, b>> /\ Append(<<a, b>>, c) = <<a, b, c>>
         /\ Append(<<a, b, c>>, d) = <<a, b, c, d>>
         /\ <<a>> \o <<b>> = <<a, b>> /\ <<a, b>> \o <<c>> = <<a, b, c>> /\ <<a, b, c>> \o <<d>> = <<a, b, c, d>>
         /\ SubSeq(<<a>>, 1, 0) = <<>> /\ SubSeq(<<a, b>>, 1, 1) = <<a>> /\ SubSeq(<<a, b, c>>, 1, 2) = <<a, b>>
         /\ SubSeq(<<a, b, c, d>>, 1, 3) = <<a, b, c>>
<1> DEFINE S == {a, b, c, d}
<1>0. a \in S /\ b \in S /\ c \in S /\ d \in S
  OBVIOUS
<1> HIDE DEF S
<1> DEFINE s0 == <<>>
           s1 == <<a>>
           s2 == <<a, b>>
           s3 == <<a, b, c>>
           s4 == <<a, b, c, d>>
<1>1. s0 \in Seq(S) /\ s1 \in Seq(S) /\ s2 \in Seq(S) /\ s3 \in Seq(S) /\ s4 \in Seq(S)
  BY <1>0, Few
<1>2. Len(s0) = 0 /\ Len(s1) = 1 /\ Len(s2) = 2 /\ Len(s3) = 3 /\ Len(s4) = 4
  OBVIOUS
<1>3. /\ s1[1] = a /\ s2[1] = a /\ s3[1] = a /\ s4[1] = a
      /\ s2[2] = b /\ s3[2] = b /\ s4[2] = b /\ s3[3] = c /\ s4[3] = c /\ s4[4] = d
  OBVIOUS
<1> HIDE DEF s0, s1, s2, s3, s4
<1>4. /\ \A i \in 1 .. Len(s0) : s1[i] = s0[i]
      /\ \A i \in 1 .. Len(s1) : s2[i] = s1[i]
      /\ \A i \in 1 .. Len(s2) : s3[i] = s2[i]
      /\ \A i \in 1 .. Len(s3) : s4[i] = s3[i]
  BY <1>2, <1>3
<1>5. /\ s1[Len(s0) + 1] = a /\ s2[Len(s1) + 1] = b /\ s3[Len(s2) + 1] = c /\ s4[Len(s3) + 1] = d
      /\ Len(s1) = Len(s0) + 1 /\ Len(s2) = Len(s1) + 1 /\ Len(s3) = Len(s2) + 1 /\ Len(s4) = Len(s3) + 1
      /\ Len(s1) - 1 = 0 /\ Len(s2) - 1 = 1 /\ Len(s3) - 1 = 2 /\ Len(s4) - 1 = 3
  BY <1>2, <1>3
<1>6. Append(s0, a) = s1 /\ SubSeq(s1, 1, Len(s1) - 1) = s0
  BY <1>0, <1>1, <1>4, <1>5, Longer, ZenonT(60)
<1>7. Append(s1, b) = s2 /\ s1 \o <<b>> = s2 /\ SubSeq(s2, 1, Len(s2) - 1) = s1
  BY <1>0, <1>1, <1>4, <1>5, Longer, ZenonT(60)
<1>8. Append(s2, c) = s3 /\ s2 \o <<c>> = s3 /\ SubSeq(s3, 1, Len(s3) - 1) = s2
  BY <1>0, <1>1, <1>4, <1>5, Longer, ZenonT(60)
<1>9. Append(s3, d) = s4 /\ s3 \o <<d>> = s4 /\ SubSeq(s4, 1, Len(s4) - 1) = s3
  BY <1>0, <1>1, <1>4, <1>5, Longer, ZenonT(60)
<1> QED
  BY <1>5, <1>6, <1>7, <1>8, <1>9 DEF s0, s1, s2, s3, s4

-----------------------------------------------------------------------------
(* Lists of tokens.                                                        *)

\* The node after a token, the one before token t + 1 of a list that starts in p.
After(x) ==
  IF x.t = "begin" THEN Append(x.node, x.name)
  ELSE IF x.t = "end" THEN SubSeq(x.node, 1, Len(x.node) - 1)
  ELSE x.node
Place(s, p, t) == IF t = 0 THEN p ELSE After(s[t])

\* A token that does not end the tree, and that says of an image what is so.
Inner(x) == x.t # "stop" /\ (x.t = "end" => Len(x.node) >= 2)
Right(x) ==
  x.t = "prop" =>
    \A i \in DOMAIN its.images :
      /\ x.node = Node(i) /\ x.name = "data-size" => x.num = files[i].len
      /\ x.node = Node(i) /\ x.name \in {"data-position", "data-offset"} =>
           x.name = DataProp /\ x.num = ext + rel[i]
      /\ x.node = HashNode(i) /\ x.name = "value" => x.src = files[i].src

\* A list of tokens that leads from node p to node q.
Piece(s, p, q) ==
  /\ s \in Seq(Item)
  /\ \A t \in 1 .. Len(s) : s[t].node = Place(s, p, t - 1) /\ Inner(s[t]) /\ Right(s[t])
  /\ Place(s, p, Len(s)) = q

Holds(s, x) == \E t \in 1 .. Len(s) : s[t] = x
\* What the boot stage looks for in an image's node and in the root.
Told(s, i) ==
  /\ Holds(s, U32(Node(i), "data-size", files[i].len))
  /\ Holds(s, U32(Node(i), DataProp, ext + rel[i]))
  /\ its.images[i].hash # "none" => Holds(s, Hash(HashNode(i), files[i].src))
Sized(s) == ext = 0 => Holds(s, U32(Root, "totalsize", 0))

LEMMA PieceCat ==
  ASSUME NEW s, NEW u, NEW p, NEW q, NEW r, Piece(s, p, q), Piece(u, q, r)
  PROVE  Piece(s \o u, p, r)
<1> DEFINE w == s \o u
           n == Len(s)
           m == Len(u)
<1>1. w \in Seq(Item) /\ Len(w) = n + m /\ n \in Nat /\ m \in Nat
      /\ (\A t \in 1 .. n : w[t] = s[t]) /\ (\A t \in 1 .. m : w[n + t] = u[t])
  BY Joined DEF Piece
<1> HIDE DEF w
<1>2. \A t \in 1 .. n : s[t].node = Place(s, p, t - 1) /\ Inner(s[t]) /\ Right(s[t])
  BY DEF Piece
<1>3. \A t \in 1 .. m : u[t].node = Place(u, q, t - 1) /\ Inner(u[t]) /\ Right(u[t])
  BY DEF Piece
<1>4. Place(s, p, n) = q /\ Place(u, q, m) = r
  BY DEF Piece
<1> HIDE DEF n, m
<1>5. \A t \in 0 .. n : Place(w, p, t) = Place(s, p, t)
  BY <1>1 DEF Place
<1>6. \A t \in 0 .. m : Place(w, p, n + t) = Place(u, q, t)
  <2>1. Place(w, p, n + 0) = Place(u, q, 0)
    <3>1. Place(w, p, n) = q
      BY <1>1, <1>4, <1>5
    <3> QED
      BY <1>1, <3>1 DEF Place
  <2>2. ASSUME NEW t \in 1 .. m PROVE Place(w, p, n + t) = Place(u, q, t)
    <3>1. n + t # 0 /\ t # 0 /\ w[n + t] = u[t]
      BY <1>1
    <3> QED
      BY <3>1 DEF Place
  <2> QED
    BY <1>1, <2>1, <2>2
<1>7. ASSUME NEW t \in 1 .. n + m
      PROVE  w[t].node = Place(w, p, t - 1) /\ Inner(w[t]) /\ Right(w[t])
  <2>1. CASE t <= n
    <3>1. t \in 1 .. n /\ t - 1 \in 0 .. n
      BY <1>1, <2>1
    <3> QED
      BY <1>1, <1>2, <1>5, <3>1
  <2>2. CASE t > n
    <3>1. PICK v \in 1 .. m : t = n + v
      <4>1. t - n \in 1 .. m /\ t = n + (t - n)
        BY <1>1, <2>2
      <4> QED
        BY <4>1
    <3>2. v - 1 \in 0 .. m /\ t - 1 = n + (v - 1)
      BY <1>1, <3>1
    <3>3. w[t] = u[v] /\ Place(w, p, t - 1) = Place(u, q, v - 1)
      BY <1>1, <1>6, <3>1, <3>2
    <3> QED
      BY <1>3, <3>3
  <2> QED
    BY <1>1, <2>1, <2>2
<1>8. Place(w, p, n + m) = r
  BY <1>1, <1>4, <1>6
<1> QED
  BY <1>1, <1>7, <1>8 DEF Piece, w

LEMMA HoldsCat ==
  ASSUME NEW s \in Seq(Item), NEW u \in Seq(Item), NEW x, Holds(s, x) \/ Holds(u, x)
  PROVE  Holds(s \o u, x)
<1> DEFINE w == s \o u
           n == Len(s)
           m == Len(u)
<1>1. Len(w) = n + m /\ n \in Nat /\ m \in Nat
      /\ (\A t \in 1 .. n : w[t] = s[t]) /\ (\A t \in 1 .. m : w[n + t] = u[t])
  BY Joined
<1>2. (\E t \in 1 .. n : s[t] = x) \/ (\E t \in 1 .. m : u[t] = x)
  BY DEF Holds
<1> HIDE DEF w, n, m
<1>3. CASE \E t \in 1 .. n : s[t] = x
  <2>1. PICK t \in 1 .. n : s[t] = x
    BY <1>3
  <2>2. t \in 1 .. n + m /\ w[t] = x
    BY <1>1, <2>1
  <2> QED
    BY <1>1, <2>2 DEF Holds, w
<1>4. CASE \E t \in 1 .. m : u[t] = x
  <2>1. PICK t \in 1 .. m : u[t] = x
    BY <1>4
  <2>2. n + t \in 1 .. n + m /\ w[n + t] = x
    BY <1>1, <2>1
  <2> QED
    BY <1>1, <2>2 DEF Holds, w
<1> QED
  BY <1>2, <1>3, <1>4

LEMMA ToldCat ==
  ASSUME NEW s \in Seq(Item), NEW u \in Seq(Item), NEW i, Told(s, i) \/ Told(u, i)
  PROVE  Told(s \o u, i)
  BY HoldsCat DEF Told

LEMMA SizedCat ==
  ASSUME NEW s \in Seq(Item), NEW u \in Seq(Item), Sized(s) \/ Sized(u) PROVE Sized(s \o u)
  BY HoldsCat DEF Sized

-----------------------------------------------------------------------------
(* The pieces the packer builds the tree of.                               *)

LEMMA One ==
  ASSUME NEW x \in Item, NEW p, NEW q, x.node = p, After(x) = q, Inner(x), Right(x)
  PROVE  Piece(<<x>>, p, q)
  BY DEF Piece, Place

LEMMA Two ==
  ASSUME NEW a, NEW b, NEW p, NEW q, NEW r, Piece(<<a>>, p, q), Piece(<<b>>, q, r)
  PROVE  Piece(<<a, b>>, p, r)
<1>1. <<a, b>> = <<a>> \o <<b>>
  BY Tuples
<1> QED
  BY <1>1, PieceCat

LEMMA Three ==
  ASSUME NEW a, NEW b, NEW c, NEW p, NEW q, NEW r, NEW v,
         Piece(<<a>>, p, q), Piece(<<b>>, q, r), Piece(<<c>>, r, v)
  PROVE  Piece(<<a, b, c>>, p, v)
<1>1. <<a, b, c>> = <<a, b>> \o <<c>>
  BY Tuples
<1>2. Piece(<<a, b>>, p, r)
  BY Two
<1> QED
  BY <1>1, <1>2, PieceCat

LEMMA NodesApart ==
  ASSUME FitInv, NEW i \in DOMAIN its.images, NEW j \in DOMAIN its.images
  PROVE  /\ Node(i) = Node(j) => i = j
         /\ HashNode(i) = HashNode(j) => i = j
         /\ Node(i) # HashNode(j)
         /\ Node(i) # Root /\ HashNode(i) # Root
<1>1. its \in Trees
  BY DEF FitInv, TypeOK
<1>2. its.images[i].name = its.images[j].name => i = j
  BY <1>1, SourceNames
<1> DEFINE x == its.images[i].name
           y == its.images[j].name
<1>3. /\ Node(i) = <<"", "images", x>> /\ Node(j) = <<"", "images", y>>
      /\ HashNode(i) = <<"", "images", x, "hash">> /\ HashNode(j) = <<"", "images", y, "hash">>
  BY DEF Node, HashNode
<1>4. x = y => i = j
  BY <1>2
<1> HIDE DEF x, y
<1>5. <<"", "images", x>> = <<"", "images", y>> => x = y
  OBVIOUS
<1>6. <<"", "images", x, "hash">> = <<"", "images", y, "hash">> => x = y
  OBVIOUS
<1>7. <<"", "images", x>> # <<"", "images", y, "hash">> /\ <<"", "images", x>> # <<"">> /\ <<"", "images", x, "hash">> # <<"">>
  OBVIOUS
<1> QED
  BY <1>3, <1>4, <1>5, <1>6, <1>7 DEF Root

LEMMA PlaceOfImage ==
  ASSUME FitInv, NEW i \in DOMAIN its.images
  PROVE  /\ its.images[i] \in ImageSrc
         /\ Node(i) \in Seq(NodeNames) /\ HashNode(i) \in Seq(NodeNames)
         /\ Len(Node(i)) = 3 /\ Len(HashNode(i)) = 4
         /\ Append(Images, its.images[i].name) = Node(i) /\ SubSeq(Node(i), 1, 2) = Images
         /\ Append(Node(i), "hash") = HashNode(i) /\ SubSeq(HashNode(i), 1, 3) = Node(i)
<1>1. its.images[i] \in ImageSrc
  BY SourceOK
<1> DEFINE x == its.images[i].name
<1>2. x \in NodeNames
  BY <1>1 DEF ImageSrc
<1>3. Node(i) = <<"", "images", x>> /\ HashNode(i) = <<"", "images", x, "hash">>
  BY DEF Node, HashNode
<1>4. "" \in NodeNames /\ "images" \in NodeNames /\ "hash" \in NodeNames
  BY FitConstants DEF OwnNodes
<1>5. Append(Images, its.images[i].name) = Append(Images, x)
  OBVIOUS
<1> HIDE DEF x
<1>6. Node(i) \in Seq(NodeNames) /\ HashNode(i) \in Seq(NodeNames)
  BY <1>2, <1>3, <1>4, Few
<1>7. SubSeq(Node(i), 1, 2) = Images /\ SubSeq(HashNode(i), 1, 3) = Node(i)
      /\ Append(Images, x) = Node(i) /\ Append(Node(i), "hash") = HashNode(i)
  BY <1>3, Tuples, ZenonT(60) DEF Images
<1>8. Len(Node(i)) = 3 /\ Len(HashNode(i)) = 4
  BY <1>3
<1> QED
  BY <1>1, <1>5, <1>6, <1>7, <1>8

\* A begin and an end lead into a node and out of it.
LEMMA BeginPiece ==
  ASSUME NEW v \in Seq(NodeNames), NEW n \in NodeNames PROVE Piece(<<Begin(v, n)>>, v, Append(v, n))
<1>1. Begin(v, n) \in Item
  BY MarkItems
<1>2. /\ Begin(v, n).node = v /\ After(Begin(v, n)) = Append(v, n)
      /\ Inner(Begin(v, n)) /\ Right(Begin(v, n))
  BY DEF Begin, Tok, After, Inner, Right
<1> QED
  BY <1>1, <1>2, One

LEMMA EndPiece ==
  ASSUME NEW v \in Seq(NodeNames), Len(v) >= 2
  PROVE  Piece(<<EndNode(v)>>, v, SubSeq(v, 1, Len(v) - 1))
<1>1. EndNode(v) \in Item
  BY MarkItems
<1>2. /\ EndNode(v).node = v /\ After(EndNode(v)) = SubSeq(v, 1, Len(v) - 1)
      /\ Inner(EndNode(v)) /\ Right(EndNode(v))
  BY DEF EndNode, Tok, After, Inner, Right
<1> QED
  BY <1>1, <1>2, One

LEMMA PropPiece ==
  ASSUME NEW x \in Item, x.t = "prop", Right(x) PROVE Piece(<<x>>, x.node, x.node)
<1>1. After(x) = x.node /\ Inner(x)
  BY DEF After, Inner
<1> QED
  BY <1>1, One

\* Outside the nodes of images, and for what is not derived there, a copy is right.
LEMMA CopiedRight ==
  ASSUME NEW v \in Seq(NodeNames), NEW p \in PropNames, p \notin Derived,
         \A i \in DOMAIN its.images : p = "value" => v # HashNode(i)
  PROVE  Piece(<<Copied(v, p)>>, v, v)
<1> DEFINE x == Copied(v, p)
<1>1. x \in Item /\ x.t = "prop" /\ x.node = v /\ x.name = p
  BY CopiedItem DEF Copied, Tok
<1> HIDE DEF x
<1>2. p # "data-size" /\ p \notin {"data-position", "data-offset"}
  BY DEF Derived
<1>3. Right(x)
  BY <1>1, <1>2 DEF Right
<1> QED
  BY <1>1, <1>3, PropPiece DEF x

LEMMA NumRight ==
  ASSUME NEW v \in Seq(NodeNames), NEW p \in PropNames, NEW n \in Nat, p \notin Derived, p # "value"
  PROVE  Piece(<<U32(v, p, n)>>, v, v)
<1> DEFINE x == U32(v, p, n)
<1>1. x \in Item /\ x.t = "prop" /\ x.node = v /\ x.name = p
  BY NumItem DEF U32, Tok
<1> HIDE DEF x
<1>2. p # "data-size" /\ p \notin {"data-position", "data-offset"}
  BY DEF Derived
<1>3. Right(x)
  BY <1>1, <1>2 DEF Right
<1> QED
  BY <1>1, <1>3, PropPiece DEF x

LEMMA CopiesPiece ==
  ASSUME NEW v \in Seq(NodeNames), NEW ps \in Seq(PropNames),
         \A m \in DOMAIN ps : ps[m] \notin Derived, \A i \in DOMAIN its.images : v # HashNode(i)
  PROVE  Piece(Copies(v, ps), v, v)
<1> DEFINE s == Copies(v, ps)
<1>1. s \in Seq(Item) /\ Len(s) = Len(ps) /\ \A t \in 1 .. Len(s) : t \in DOMAIN ps /\ s[t] = Copied(v, ps[t])
  BY CopiesItems DEF Copies
<1> HIDE DEF s
<1>2. ASSUME NEW t \in 1 .. Len(s) PROVE s[t].node = v /\ After(s[t]) = v /\ Inner(s[t]) /\ Right(s[t])
  <2> DEFINE x == Copied(v, ps[t])
  <2>1. ps[t] \in PropNames /\ ps[t] \notin Derived /\ s[t] = x
    BY <1>1
  <2>2. x.t = "prop" /\ x.node = v /\ x.name = ps[t]
    BY DEF Copied, Tok
  <2> HIDE DEF x
  <2>3. ps[t] # "data-size" /\ ps[t] \notin {"data-position", "data-offset"}
    BY <2>1 DEF Derived
  <2>4. After(x) = v /\ Inner(x)
    BY <2>2 DEF After, Inner
  <2>5. Right(x)
    BY <2>2, <2>3 DEF Right
  <2> QED
    BY <2>1, <2>2, <2>4, <2>5
<1>3. \A t \in 0 .. Len(s) : Place(s, v, t) = v
  BY <1>2 DEF Place
<1>4. Len(s) \in Nat
  BY <1>1
<1>5. \A t \in 1 .. Len(s) : s[t].node = Place(s, v, t - 1)
  BY <1>2, <1>3, <1>4
<1> QED
  BY <1>1, <1>2, <1>3, <1>4, <1>5 DEF Piece, s

-----------------------------------------------------------------------------
(* The head, the node of an image and the tail of the final tree.          *)

LEMMA OwnNodesIn == "" \in NodeNames /\ "images" \in NodeNames /\ "configurations" \in NodeNames
                    /\ "hash" \in NodeNames /\ "conf" \in NodeNames
  BY FitConstants DEF OwnNodes

LEMMA OwnTuples ==
  /\ Append(<<>>, "") = Root /\ Append(Root, "images") = Images /\ Append(Root, "configurations") = Confs
  /\ Append(Confs, "conf") = Conf /\ SubSeq(Conf, 1, 2) = Confs
  /\ SubSeq(Images, 1, 1) = Root /\ SubSeq(Confs, 1, 1) = Root /\ SubSeq(Root, 1, 0) = <<>>
  BY Tuples DEF Root, Images, Confs, Conf

LEMMA OwnLengths ==
  /\ Len(Images) >= 2 /\ Len(Images) - 1 = 1 /\ Len(Confs) >= 2 /\ Len(Confs) - 1 = 1
  /\ Len(Conf) >= 2 /\ Len(Conf) - 1 = 2 /\ Len(Root) - 1 = 0 /\ Len(Root) = 1
  BY DEF Root, Images, Confs, Conf

LEMMA HeadPiece == Piece(TreeHead, <<>>, Images) /\ Sized(TreeHead)
<1> DEFINE b == Begin(<<>>, "")
           ts == U32(Root, "timestamp", 0)
           v == U32(Root, "version", 0)
           z == U32(Root, "totalsize", 0)
           auto == IF ext # 0 THEN <<ts>> ELSE <<v, z, ts>>
           d == Copied(Root, "description")
           c == Copied(Root, "#address-cells")
           e == Begin(Root, "images")
<1>1. TreeHead = <<b>> \o auto \o <<d, c, e>>
  BY DEF TreeHead
<1>2. Piece(<<b>>, <<>>, Root)
  BY OwnNodesIn, OwnTuples, OwnPlaces, BeginPiece
<1>3. Piece(<<ts>>, Root, Root) /\ Piece(<<v>>, Root, Root) /\ Piece(<<z>>, Root, Root)
  BY OwnNames, OwnPlaces, NumRight DEF Derived
<1>4. Piece(<<d>>, Root, Root) /\ Piece(<<c>>, Root, Root)
  BY OwnNames, OwnPlaces, CopiedRight DEF Derived
<1>5. Piece(<<e>>, Root, Images)
  BY OwnNodesIn, OwnTuples, OwnPlaces, BeginPiece
<1> HIDE DEF b, ts, v, z, d, c, e
<1>6. Piece(auto, Root, Root)
  BY <1>3, Three
<1>7. Piece(<<d, c, e>>, Root, Images)
  BY <1>4, <1>5, Three
<1>8. Sized(auto)
  <2>1. <<v, z, ts>>[2] = z /\ Len(<<v, z, ts>>) = 3
    OBVIOUS
  <2>2. Holds(<<v, z, ts>>, z)
    BY <2>1 DEF Holds
  <2> QED
    BY <2>2 DEF Sized, z
<1> HIDE DEF auto
<1> DEFINE own == <<d, c, e>>
           one == <<b>>
<1> HIDE DEF own, one
<1>9. Piece(one \o auto, <<>>, Root) /\ Piece(own, Root, Images)
  BY <1>2, <1>6, <1>7, PieceCat DEF one, own
<1>10. one \in Seq(Item) /\ auto \in Seq(Item) /\ own \in Seq(Item) /\ one \o auto \in Seq(Item)
  BY <1>2, <1>6, <1>9 DEF Piece, one
<1>11. Sized(one \o auto \o own)
  BY <1>8, <1>10, SizedCat
<1> QED
  BY <1>1, <1>9, <1>11, PieceCat DEF one, own

LEMMA ImagePiece ==
  ASSUME FitInv, NEW i \in DOMAIN its.images, i \in DOMAIN rel
  PROVE  Piece(ImageNode(i, rel[i]), Images, Images) /\ Told(ImageNode(i, rel[i]), i)
<1> DEFINE src == its.images[i]
           n == Node(i)
           h == HashNode(i)
           a == Begin(Images, src.name)
           b == U32(n, "data-size", files[i].len)
           c == U32(n, DataProp, ext + rel[i])
           copies == Copies(n, src.before \o src.after)
           g == Begin(n, "hash")
           v == Hash(h, files[i].src)
           w == Copied(h, "algo")
           y == EndNode(h)
           hash == IF src.hash # "none" THEN <<g, v, w, y>> ELSE <<>>
           z == EndNode(n)
<1>1. ImageNode(i, rel[i]) = <<a, b, c>> \o copies \o hash \o <<z>>
  BY DEF ImageNode
<1>2. /\ src \in ImageSrc /\ n \in Seq(NodeNames) /\ h \in Seq(NodeNames) /\ Len(n) = 3 /\ Len(h) = 4
      /\ Append(Images, src.name) = n /\ SubSeq(n, 1, 2) = Images /\ Append(n, "hash") = h /\ SubSeq(h, 1, 3) = n
  BY PlaceOfImage
<1>3. src.name \in NodeNames /\ src.before \in Seq(PropNames) /\ src.after \in Seq(PropNames)
  <2> HIDE DEF src
  <2> QED
    BY <1>2 DEF ImageSrc
<1>4. files[i].len \in Nat /\ files[i].src \in Contents /\ ext + rel[i] \in Nat
  <2>1. files[i] \in Blob
    BY DEF FitInv, InputInv
  <2>2. ext + rel[i] \in Nat
    BY DEF FitInv, TypeOK
  <2> QED
    BY <2>1, <2>2 DEF Blob
<1>5. \A j \in DOMAIN its.images : (n = Node(j) => j = i) /\ (h = HashNode(j) => j = i) /\ n # HashNode(j) /\ h # Node(j)
  BY NodesApart
<1>6. Piece(<<a>>, Images, n) /\ Piece(<<g>>, n, h)
  <2>1. Piece(<<a>>, Images, n)
    BY <1>2, <1>3, OwnPlaces, BeginPiece
  <2>2. Piece(<<g>>, n, h)
    BY <1>2, OwnNodesIn, BeginPiece
  <2> QED
    BY <2>1, <2>2
<1>7. Piece(<<b>>, n, n)
  <2> HIDE DEF n, b
  <2>1. b \in Item /\ b.t = "prop" /\ b.node = n /\ b.name = "data-size" /\ b.num = files[i].len
    BY <1>2, <1>4, OwnNames, NumItem DEF U32, Tok, b
  <2>2. Right(b)
    BY <1>5, <2>1 DEF Right
  <2> QED
    BY <2>1, <2>2, PropPiece
<1>8. Piece(<<c>>, n, n)
  <2> HIDE DEF n, c
  <2>1. DataProp \in PropNames /\ DataProp # "data-size" /\ DataProp # "value"
    BY OwnNames DEF DataProp
  <2>2. c \in Item /\ c.t = "prop" /\ c.node = n /\ c.name = DataProp /\ c.num = ext + rel[i]
    BY <1>2, <1>4, <2>1, NumItem DEF U32, Tok, c
  <2>3. Right(c)
    BY <1>5, <2>1, <2>2 DEF Right
  <2> QED
    BY <2>2, <2>3, PropPiece
<1>9. Piece(copies, n, n)
  <2> DEFINE ps == src.before \o src.after
             p == src.before
             q == src.after
  <2>1. its \in Trees
    BY DEF FitInv, TypeOK
  <2>2. (\A m \in DOMAIN p : p[m] \notin Derived) /\ (\A m \in DOMAIN q : q[m] \notin Derived)
    BY <2>1, SourceNames
  <2> HIDE DEF p, q, src
  <2>3. p \in Seq(PropNames) /\ q \in Seq(PropNames)
    BY <1>3 DEF p, q
  <2>4. p \o q \in Seq(PropNames) /\ \A m \in DOMAIN (p \o q) : (p \o q)[m] \notin Derived
    BY <2>2, <2>3
  <2>5. ps \in Seq(PropNames) /\ \A m \in DOMAIN ps : ps[m] \notin Derived
    BY <2>4 DEF p, q
  <2> HIDE DEF ps, n
  <2> QED
    BY <1>2, <1>5, <2>5, CopiesPiece DEF ps
<1>10. Piece(<<v>>, h, h)
  <2> HIDE DEF h, v
  <2>1. v \in Item /\ v.t = "prop" /\ v.node = h /\ v.name = "value" /\ v.src = files[i].src
    BY <1>2, <1>4, HashItem DEF Hash, Tok, v
  <2>2. Right(v)
    BY <1>5, <2>1 DEF Right
  <2> QED
    BY <2>1, <2>2, PropPiece
<1>11. Piece(<<w>>, h, h)
  BY <1>2, OwnNames, CopiedRight DEF Derived
<1>12. Piece(<<y>>, h, n) /\ Piece(<<z>>, n, Images)
  <2>1. Piece(<<y>>, h, SubSeq(h, 1, Len(h) - 1))
    BY <1>2, EndPiece
  <2>2. Piece(<<z>>, n, SubSeq(n, 1, Len(n) - 1))
    BY <1>2, EndPiece
  <2>3. Len(h) - 1 = 3 /\ Len(n) - 1 = 2
    BY <1>2
  <2> QED
    BY <1>2, <2>1, <2>2, <2>3
<1>13. \A s : Piece(s, n, n) => s \in Seq(Item)
  BY DEF Piece
<1> HIDE DEF n, h, a, b, c, copies, g, v, w, y, z
<1>14. Piece(<<a, b, c>>, Images, n)
  BY <1>6, <1>7, <1>8, Three
<1>15. Piece(<<g, v, w, y>>, n, n)
  <2>1. Piece(<<g, v, w>>, n, h)
    BY <1>6, <1>10, <1>11, Three
  <2>2. <<g, v, w, y>> = <<g, v, w>> \o <<y>>
    BY Tuples
  <2> QED
    BY <1>12, <2>1, <2>2, PieceCat
<1>16. Piece(hash, n, n)
  <2>1. Piece(<<>>, n, n)
    BY DEF Piece, Place
  <2> QED
    BY <1>15, <2>1
<1>17. /\ Holds(<<a, b, c>>, b) /\ Holds(<<a, b, c>>, c)
       /\ src.hash # "none" => Holds(hash, v)
  <2>1. <<a, b, c>>[2] = b /\ <<a, b, c>>[3] = c /\ Len(<<a, b, c>>) = 3
    OBVIOUS
  <2>2. <<g, v, w, y>>[2] = v /\ Len(<<g, v, w, y>>) = 4
    OBVIOUS
  <2>3. Holds(<<g, v, w, y>>, v)
    BY <2>2 DEF Holds
  <2> QED
    BY <2>1, <2>3 DEF Holds
<1> DEFINE p1 == <<a, b, c>>
           p4 == <<z>>
<1> HIDE DEF hash, p1, p4
<1>18. Piece(p1 \o copies, Images, n) /\ Piece(p1 \o copies \o hash, Images, n) /\ Piece(p1 \o copies \o hash \o p4, Images, Images)
  <2>1. Piece(p1 \o copies, Images, n)
    BY <1>9, <1>14, PieceCat DEF p1
  <2>2. Piece(p1 \o copies \o hash, Images, n)
    BY <1>16, <2>1, PieceCat
  <2> QED
    BY <1>12, <2>1, <2>2, PieceCat DEF p4
<1>19. p1 \in Seq(Item) /\ copies \in Seq(Item) /\ hash \in Seq(Item) /\ p4 \in Seq(Item)
       /\ p1 \o copies \in Seq(Item) /\ p1 \o copies \o hash \in Seq(Item)
  BY <1>9, <1>12, <1>14, <1>16, <1>18 DEF Piece, p1, p4
<1>20. Holds(p1 \o copies \o hash \o p4, b) /\ Holds(p1 \o copies \o hash \o p4, c)
  BY <1>17, <1>19, HoldsCat DEF p1
<1>21. src.hash # "none" => Holds(p1 \o copies \o hash \o p4, v)
  BY <1>17, <1>19, HoldsCat
<1> QED
  BY <1>1, <1>18, <1>20, <1>21 DEF Told, p1, p4, b, c, v, n, h

\* The whole tree: pieces that lead into the root, the root's end and the end.
Closing == <<EndNode(Root), End>>
Whole(s) ==
  \E body \in Seq(Item) :
    /\ s = body \o Closing /\ Piece(body, <<>>, Root)
    /\ \A i \in DOMAIN its.images : Told(body, i)
    /\ Sized(body)

LEMMA CatAssoc ==
  ASSUME NEW s \in Seq(Item), NEW t \in Seq(Item), NEW u \in Seq(Item)
  PROVE  (s \o t) \o u = s \o (t \o u)
  OBVIOUS

LEMMA MarkRight ==
  ASSUME NEW v
  PROVE  /\ Right(EndNode(v)) /\ EndNode(v).node = v /\ EndNode(v).t = "end"
         /\ Right(End) /\ End.node = <<>> /\ End.t = "stop"
  BY DEF EndNode, End, Tok, Right

LEMMA ClosingItems == Closing \in Seq(Item) /\ Len(Closing) = 2 /\ Closing[1] = EndNode(Root) /\ Closing[2] = End
<1> DEFINE a == EndNode(Root)
           b == End
<1>1. a \in Item /\ b \in Item
  BY OwnPlaces, MarkItems
<1> HIDE DEF a, b
<1> QED
  BY <1>1, Few DEF Closing, a, b

LEMMA TailPiece ==
  ASSUME NEW s, Piece(s, <<>>, Images), \A i \in DOMAIN its.images : Told(s, i), Sized(s)
  PROVE  Whole(s \o TreeTail)
<1> DEFINE a == EndNode(Images)
           b == Begin(Root, "configurations")
           c == Copied(Confs, "default")
           e == Begin(Confs, "conf")
           f == Copied(Conf, "description")
           g == EndNode(Conf)
           x == EndNode(Confs)
           y == EndNode(Root)
           conf == IF its.conf THEN <<e, f, g>> ELSE <<>>
<1>1. TreeTail = <<a, b, c>> \o conf \o <<x, y, End>>
  BY DEF TreeTail
<1>2. Piece(<<a>>, Images, Root) /\ Piece(<<x>>, Confs, Root) /\ Piece(<<g>>, Conf, Confs)
  <2>1. Piece(<<a>>, Images, SubSeq(Images, 1, Len(Images) - 1)) /\ Piece(<<x>>, Confs, SubSeq(Confs, 1, Len(Confs) - 1))
        /\ Piece(<<g>>, Conf, SubSeq(Conf, 1, Len(Conf) - 1))
    BY OwnPlaces, OwnLengths, EndPiece
  <2> QED
    BY <2>1, OwnLengths, OwnTuples
<1>3. Piece(<<b>>, Root, Confs) /\ Piece(<<e>>, Confs, Conf)
  BY OwnNodesIn, OwnPlaces, OwnTuples, BeginPiece
<1>4. Piece(<<c>>, Confs, Confs) /\ Piece(<<f>>, Conf, Conf)
  BY OwnNames, OwnPlaces, CopiedRight DEF Derived
<1>5. y \in Item /\ End \in Item /\ x \in Item
  BY OwnPlaces, MarkItems
<1> DEFINE p == <<a, b, c>>
           q == <<x>>
           z == End
<1> HIDE DEF a, b, c, e, f, g, x, z
<1>6. Piece(p, Images, Confs)
  BY <1>2, <1>3, <1>4, Three
<1>7. Piece(conf, Confs, Confs)
  <2>1. Piece(<<e, f, g>>, Confs, Confs)
    BY <1>2, <1>3, <1>4, Three
  <2>2. Piece(<<>>, Confs, Confs)
    BY DEF Piece, Place
  <2> QED
    BY <2>1, <2>2
<1> HIDE DEF conf, p, q
<1>8. Piece(s \o p, <<>>, Confs) /\ Piece(s \o p \o conf, <<>>, Confs) /\ Piece(s \o p \o conf \o q, <<>>, Root)
  <2>1. Piece(s \o p, <<>>, Confs)
    BY <1>6, PieceCat
  <2>2. Piece(s \o p \o conf, <<>>, Confs)
    BY <1>7, <2>1, PieceCat
  <2> QED
    BY <1>2, <2>1, <2>2, PieceCat DEF q
<1>9. /\ s \in Seq(Item) /\ p \in Seq(Item) /\ conf \in Seq(Item) /\ q \in Seq(Item)
      /\ s \o p \in Seq(Item) /\ s \o p \o conf \in Seq(Item) /\ s \o p \o conf \o q \in Seq(Item)
  BY <1>2, <1>6, <1>7, <1>8 DEF Piece, q
<1>10. s \o TreeTail = (s \o p \o conf \o q) \o Closing
  <2> DEFINE last == <<x, y, z>>
  <2>1. last = q \o Closing
    <3> HIDE DEF y
    <3>1. y \in Item /\ z \in Item /\ x \in Item
      BY <1>5 DEF z
    <3>2. /\ <<x, y, z>> \in Seq(Item) /\ <<x>> \in Seq(Item) /\ <<y, z>> \in Seq(Item) /\ <<x, y>> \in Seq(Item)
          /\ <<z>> \in Seq(Item) /\ <<y>> \in Seq(Item)
      BY <3>1, Few
    <3>3. <<x, y, z>> = <<x>> \o <<y>> \o <<z>> /\ <<y, z>> = <<y>> \o <<z>>
      BY Tuples
    <3>4. <<x>> \o <<y>> \o <<z>> = <<x>> \o (<<y>> \o <<z>>)
      BY <3>2, CatAssoc
    <3> QED
      BY <3>3, <3>4 DEF q, Closing, y, z
  <2>2. TreeTail = p \o conf \o last
    BY <1>1 DEF p, z
  <2>3. Closing \in Seq(Item)
    BY ClosingItems
  <2> HIDE DEF last
  <2> DEFINE pc == p \o conf
             qz == q \o Closing
             spc == s \o p \o conf
  <2>4. pc \in Seq(Item) /\ qz \in Seq(Item)
    BY <1>9, <2>3, Cat
  <2>6. s \o pc = spc
    BY <1>9, CatAssoc, SMTT(30)
  <2>7. spc \o qz = (spc \o q) \o Closing
    <3>1. spc \in Seq(Item)
      BY <1>9
    <3> HIDE DEF spc
    <3> QED
      BY <1>9, <2>3, <3>1, CatAssoc, ZenonT(60)
  <2>5. s \o (pc \o qz) = (s \o pc) \o qz
    <3>1. s \in Seq(Item)
      BY <1>9
    <3> HIDE DEF pc, qz, spc
    <3> QED
      BY <2>4, <3>1, CatAssoc
  <2> QED
    BY <2>1, <2>2, <2>5, <2>6, <2>7
<1> DEFINE body == s \o p \o conf \o q
<1>11. \A i \in DOMAIN its.images : Told(body, i)
  BY <1>9, ToldCat
<1>12. Sized(body)
  BY <1>9, SizedCat
<1> QED
  BY <1>8, <1>9, <1>10, <1>11, <1>12 DEF Whole

\* What the tokens of a whole tree are, one by one.
LEMMA WholeTokens ==
  ASSUME NEW s, Whole(s)
  PROVE  LET n == Len(s)
         IN /\ s \in Seq(Item) /\ n \in Nat /\ n >= 3
            /\ \A t \in 1 .. n : s[t].node = Place(s, <<>>, t - 1)
            /\ \A t \in 1 .. n : Right(s[t])
            /\ \A t \in 1 .. n - 2 : Inner(s[t])
            /\ s[n - 1] = EndNode(Root) /\ s[n] = End
            /\ \A i \in DOMAIN its.images : Told(s, i)
            /\ Sized(s)
<1>1. PICK body \in Seq(Item) :
        /\ s = body \o Closing /\ Piece(body, <<>>, Root)
        /\ (\A i \in DOMAIN its.images : Told(body, i)) /\ Sized(body)
  BY DEF Whole
<1> DEFINE m == Len(body)
<1>2. s \in Seq(Item) /\ Len(s) = m + Len(Closing) /\ m \in Nat
      /\ (\A t \in 1 .. m : s[t] = body[t]) /\ \A t \in 1 .. Len(Closing) : s[m + t] = Closing[t]
  <2>1. body \in Seq(Item) /\ Closing \in Seq(Item)
    BY ClosingItems
  <2> HIDE DEF m
  <2>2. s = body \o Closing
    BY <1>1
  <2> QED
    BY <2>1, <2>2, Joined DEF m
<1>3. Len(s) = m + 2 /\ s[m + 1] = EndNode(Root) /\ s[m + 2] = End
  <2>1. Len(Closing) = 2 /\ 1 \in 1 .. Len(Closing) /\ 2 \in 1 .. Len(Closing)
    BY ClosingItems
  <2> QED
    BY <1>2, <2>1, ClosingItems
<1>4. (\A t \in 1 .. m : body[t].node = Place(body, <<>>, t - 1) /\ Inner(body[t]) /\ Right(body[t])) /\ Place(body, <<>>, m) = Root
  BY <1>1 DEF Piece
<1>5. m # 0
  <2>1. <<>> # Root
    BY DEF Root
  <2> QED
    BY <1>4, <2>1 DEF Place
<1> HIDE DEF m
<1>6. \A t \in 0 .. m : Place(s, <<>>, t) = Place(body, <<>>, t)
  BY <1>2 DEF Place
<1>7. ASSUME NEW t \in 1 .. m + 2 PROVE s[t].node = Place(s, <<>>, t - 1) /\ Right(s[t]) /\ (t <= m => Inner(s[t]))
  <2>1. CASE t <= m
    <3>1. t \in 1 .. m /\ t - 1 \in 0 .. m
      BY <1>2, <2>1
    <3> QED
      BY <1>2, <1>4, <1>6, <3>1
  <2>2. CASE t = m + 1
    <3>1. t - 1 = m /\ m \in 0 .. m
      BY <1>2, <2>2
    <3>2. s[t] = EndNode(Root) /\ Place(s, <<>>, t - 1) = Root
      BY <1>3, <1>4, <1>6, <2>2, <3>1
    <3>3. s[t].node = Root /\ Right(s[t])
      BY <3>2, MarkRight
    <3>4. ~(t <= m)
      BY <1>2, <2>2
    <3> QED
      BY <3>2, <3>3, <3>4
  <2>3. CASE t = m + 2
    <3>1. t - 1 = m + 1 /\ m + 1 # 0
      BY <1>2, <2>3
    <3>2. s[t] = End /\ Place(s, <<>>, t - 1) = After(EndNode(Root))
      BY <1>3, <2>3, <3>1 DEF Place
    <3>3. After(EndNode(Root)) = SubSeq(Root, 1, Len(Root) - 1)
      BY DEF After, EndNode, Tok
    <3>4. Place(s, <<>>, t - 1) = <<>>
      BY <3>2, <3>3, OwnLengths, OwnTuples
    <3>5. s[t].node = <<>> /\ Right(s[t])
      BY <3>2, MarkRight
    <3>6. ~(t <= m)
      BY <1>2, <2>3
    <3> QED
      BY <3>4, <3>5, <3>6
  <2> QED
    BY <1>2, <2>1, <2>2, <2>3
<1>8. (\A i \in DOMAIN its.images : Told(s, i)) /\ Sized(s)
  BY <1>1, ClosingItems, ToldCat, SizedCat
<1>9. Len(s) \in Nat /\ Len(s) >= 3 /\ Len(s) - 2 = m /\ Len(s) - 1 = m + 1
  BY <1>2, <1>3, <1>5
<1>10. \A t \in 1 .. Len(s) : s[t].node = Place(s, <<>>, t - 1) /\ Right(s[t])
  BY <1>3, <1>7
<1>11. \A t \in 1 .. Len(s) - 2 : Inner(s[t])
  <2>1. \A t \in 1 .. m : t \in 1 .. m + 2 /\ t <= m
    BY <1>2
  <2> QED
    BY <1>7, <1>9, <2>1
<1> QED
  BY <1>2, <1>3, <1>8, <1>9, <1>10, <1>11

-----------------------------------------------------------------------------
(* What the packer has when: the layout, the string table, the tree.       *)

RelInv ==
  /\ rel = <<>> => bufPtr = 0
  /\ rel # <<>> => rel[1] = 0
  /\ phase \in {"read", "loaded"} => Len(rel) = Len(its.images)
StrInv ==
  \A i \in DOMAIN strs : strs[i].off < strLen /\ \A j \in 1 .. i - 1 : strs[j].off < strs[i].off
TreeInv ==
  /\ phase = "nodes" =>
       /\ k <= Len(its.images) /\ Piece(tree, <<>>, Images) /\ Sized(tree)
       /\ \A i \in 1 .. k : Told(tree, i)
  /\ phase \in {"tokens", "read", "loaded"} => Whole(tree)

LEMMA RelStep == ASSUME FitInv, RelInv, Next PROVE RelInv'
<1>1. CASE Lay
  <2>1. rel' = Append(rel, bufPtr) /\ rel \in Seq(Nat)
    BY <1>1 DEF Lay, FitInv, TypeOK
  <2>2. rel' # <<>> /\ (rel = <<>> => rel'[1] = bufPtr) /\ (rel # <<>> => rel'[1] = rel[1]) /\ phase' = "lay"
    BY <1>1, <2>1 DEF Lay
  <2> QED
    BY <2>2 DEF RelInv
<1>2. CASE SelfTest
  BY <1>2 DEF SelfTest, RelInv
<1>3. CASE UNCHANGED <<rel, bufPtr, its>> /\ (phase' \in {"read", "loaded"} => phase \in {"tokens", "read"})
  BY <1>3 DEF RelInv, FitInv, InputInv
<1>4. CASE Refuse \/ Laid \/ Walk \/ AddName \/ Named \/ Build \/ Emit \/ NoString \/ Close \/ ReadTok
  BY <1>3, <1>4 DEF Refuse, Laid, Walk, AddName, Named, Build, Emit, NoString, Close, ReadTok, input
<1> QED
  BY <1>1, <1>2, <1>4 DEF Next

LEMMA StrStep == ASSUME FitInv, StrInv, Next PROVE StrInv'
<1>1. CASE AddName
  <2> DEFINE n == names[k + 1]
             new == [name |-> n, off |-> strLen]
  <2>1. \/ UNCHANGED <<strs, strLen>>
        \/ strs' = Append(strs, new) /\ strLen' = strLen + NameLen[n] + 1
    BY <1>1 DEF AddName
  <2>2. n \in PropNames /\ strs \in Seq(String) /\ strLen \in Nat
    BY <1>1 DEF AddName, FitInv, TypeOK
  <2>3. NameLen[n] \in Nat
    <3> HIDE DEF n
    <3> QED
      BY <2>2, FitConstants
  <2>4. new.off = strLen
    OBVIOUS
  <2>5. \A i \in DOMAIN strs : strs[i].off \in Nat
    <3>1. \A i \in DOMAIN strs : strs[i] \in String
      BY <2>2
    <3> QED
      BY <3>1 DEF String
  <2> HIDE DEF n, new
  <2>6. CASE strs' = Append(strs, new) /\ strLen' = strLen + NameLen[n] + 1
    <3> DEFINE len == Len(strs)
    <3>1. len \in Nat /\ DOMAIN strs = 1 .. len /\ DOMAIN strs' = 1 .. len + 1 /\ strs'[len + 1] = new
          /\ \A i \in 1 .. len : strs'[i] = strs[i]
      BY <2>2, <2>6
    <3> HIDE DEF len
    <3>2. strLen' \in Nat /\ strLen < strLen'
      BY <2>2, <2>3, <2>6
    <3>3. ASSUME NEW i \in DOMAIN strs'
          PROVE  strs'[i].off < strLen' /\ \A j \in 1 .. i - 1 : strs'[j].off < strs'[i].off
      <4>1. CASE i = len + 1
        <5>1. strs'[i].off = strLen
          BY <2>4, <3>1, <4>1
        <5>2. \A j \in 1 .. i - 1 : j \in DOMAIN strs /\ strs'[j] = strs[j]
          BY <3>1, <4>1
        <5> QED
          BY <3>2, <5>1, <5>2 DEF StrInv
      <4>2. CASE i \in 1 .. len
        <5>1. i \in DOMAIN strs /\ strs'[i] = strs[i] /\ \A j \in 1 .. i - 1 : j \in 1 .. len /\ strs'[j] = strs[j]
          BY <3>1, <4>2
        <5>2. strs[i].off < strLen /\ strs[i].off \in Nat /\ \A j \in 1 .. i - 1 : strs[j].off < strs[i].off
          BY <2>5, <5>1 DEF StrInv
        <5> QED
          BY <2>2, <3>2, <5>1, <5>2
      <4> QED
        BY <3>1, <3>3, <4>1, <4>2
    <3> QED
      BY <3>3 DEF StrInv
  <2>7. CASE UNCHANGED <<strs, strLen>>
    BY <2>7 DEF StrInv
  <2> QED
    BY <2>1, <2>6, <2>7
<1>2. CASE SelfTest
  <2>1. strs' = <<>>
    BY <1>2 DEF SelfTest
  <2> QED
    BY <2>1 DEF StrInv
<1>3. CASE UNCHANGED strings
  BY <1>3 DEF StrInv, strings
<1>4. CASE Laid \/ Walk
  BY <1>4 DEF Laid, Walk, StrInv
<1> QED
  BY <1>1, <1>2, <1>3, <1>4 DEF Next, Lay, Refuse, Named, Build, Emit, NoString, Close, ReadTok

\* What a tree says holds after a step that leaves sources and layout alone.
LEMMA TreeKept ==
  ASSUME UNCHANGED <<its, files, ext, rel>>
  PROVE  /\ Piece(tree', <<>>, Images) => Piece(tree, <<>>, Images)'
         /\ \A i : Told(tree', i) => Told(tree, i)'
         /\ Sized(tree') => Sized(tree)'
         /\ Whole(tree') => Whole(tree)'
<1>1. Piece(tree', <<>>, Images) => Piece(tree, <<>>, Images)'
  BY DEF Piece, Place, After, Inner, Right, Node, HashNode, DataProp, Images
<1>2. \A i : Told(tree', i) => Told(tree, i)'
  BY DEF Told, Holds, Node, HashNode, DataProp
<1>3. Sized(tree') => Sized(tree)'
  BY DEF Sized, Holds
<1>4. ASSUME Whole(tree') PROVE Whole(tree)'
  <2>1. PICK body \in Seq(Item) :
          /\ tree' = body \o Closing /\ Piece(body, <<>>, Root)
          /\ (\A i \in DOMAIN its.images : Told(body, i)) /\ Sized(body)
    BY <1>4 DEF Whole
  <2>2. Piece(body, <<>>, Root)'
    BY <2>1 DEF Piece, Place, After, Inner, Right, Node, HashNode, DataProp, Root
  <2>3. \A i \in DOMAIN its'.images : Told(body, i)'
    BY <2>1 DEF Told, Holds, Node, HashNode, DataProp
  <2>4. Sized(body)'
    BY <2>1 DEF Sized, Holds
  <2> QED
    BY <2>1, <2>2, <2>3, <2>4 DEF Whole, Closing, Root
<1> QED
  BY <1>1, <1>2, <1>3, <1>4

LEMMA TreeStep == ASSUME FitInv, TreeInv, Next PROVE TreeInv'
<1>1. CASE Named
  <2>1. phase' = "nodes" /\ k' = 0 /\ tree' = TreeHead /\ UNCHANGED <<its, files, ext, rel>>
    BY <1>1 DEF Named, input
  <2>2. Piece(tree', <<>>, Images) /\ Sized(tree')
    BY <2>1, HeadPiece
  <2>3. Len(its.images) \in Nat
    BY SourceOK
  <2> QED
    BY <2>1, <2>2, <2>3, TreeKept DEF TreeInv
<1>2. CASE Build /\ k < Len(its.images)
  <2>1. phase = "nodes" /\ phase' = "nodes" /\ k' = k + 1 /\ tree' = tree \o ImageNode(k + 1, rel[k + 1]) /\ UNCHANGED <<its, files, ext, rel>>
    BY <1>2 DEF Build, input
  <2>2. k \in Nat /\ k + 1 \in DOMAIN its.images /\ k + 1 \in DOMAIN rel /\ k + 1 <= Len(its.images)
    BY <1>2, <2>1, SourceOK DEF FitInv, TypeOK, InputInv
  <2>3. Piece(tree, <<>>, Images) /\ Sized(tree) /\ (\A i \in 1 .. k : Told(tree, i)) /\ tree \in Seq(Item)
    BY <2>1 DEF TreeInv, FitInv, TypeOK
  <2> DEFINE i1 == k + 1
             node == ImageNode(i1, rel[i1])
  <2>4. Piece(node, Images, Images) /\ Told(node, i1)
    <3> HIDE DEF i1, node
    <3>1. i1 \in DOMAIN its.images /\ i1 \in DOMAIN rel
      BY <2>2 DEF i1
    <3> QED
      BY <3>1, ImagePiece DEF node
  <2>5. node \in Seq(Item)
    BY <2>4 DEF Piece
  <2> HIDE DEF node
  <2>6. Piece(tree \o node, <<>>, Images) /\ Sized(tree \o node)
    BY <2>3, <2>4, <2>5, PieceCat, SizedCat
  <2>7. \A i \in 1 .. k : Told(tree \o node, i)
    BY <2>3, <2>5, ToldCat
  <2>8. Told(tree \o node, i1)
    BY <2>3, <2>4, <2>5, ToldCat
  <2>9. tree' = tree \o node
    BY <2>1 DEF node
  <2>10. \A i \in 1 .. k' : Told(tree', i)
    <3>1. \A i \in 1 .. k' : i \in 1 .. k \/ i = i1
      BY <2>1, <2>2
    <3> QED
      BY <2>7, <2>8, <2>9, <3>1
  <2> QED
    BY <2>1, <2>2, <2>6, <2>9, <2>10, TreeKept DEF TreeInv
<1>3. CASE Build /\ ~(k < Len(its.images))
  <2>1. phase = "nodes" /\ phase' = "tokens" /\ tree' = tree \o TreeTail /\ UNCHANGED <<its, files, ext, rel>>
    BY <1>3 DEF Build, input
  <2>2. k = Len(its.images) /\ DOMAIN its.images = 1 .. k
    BY <1>3, <2>1, SourceOK DEF TreeInv, FitInv, TypeOK
  <2>3. Whole(tree')
    BY <2>1, <2>2, TailPiece DEF TreeInv
  <2> QED
    BY <2>1, <2>3, TreeKept DEF TreeInv
<1>4. CASE SelfTest
  BY <1>4 DEF SelfTest, TreeInv
<1>5. CASE Refuse \/ NoString \/ Lay \/ Laid \/ Walk \/ AddName
  <2>1. phase' \notin {"nodes", "tokens", "read", "loaded"}
    BY <1>5 DEF Refuse, NoString, Lay, Laid, Walk, AddName
  <2> QED
    BY <2>1 DEF TreeInv
<1>6. CASE Emit \/ Close \/ ReadTok
  <2>1. UNCHANGED <<its, files, ext, rel, tree>> /\ phase \in {"tokens", "read"} /\ phase' \in {"tokens", "read", "loaded", "failed"}
    BY <1>6 DEF Emit, Close, ReadTok, input, block
  <2> QED
    BY <2>1, TreeKept DEF TreeInv
<1> QED
  BY <1>1, <1>2, <1>3, <1>4, <1>5, <1>6 DEF Next

-----------------------------------------------------------------------------
(* The struct block: each token begins where the one before it ends.       *)

LEMMA AlignMod == ASSUME NEW y \in Nat PROVE AlignUp(y, 4) % 4 = 0
  BY DEF AlignUp

LEMMA AlignShift ==
  ASSUME NEW x \in Nat, x % 4 = 0, NEW y \in Nat
  PROVE  AlignUp(x + 4 + y, 4) = x + 4 + AlignUp(y, 4)
<1>1. PICK q \in Nat : x = 4 * q
  <2>1. x \div 4 \in Nat /\ x = 4 * (x \div 4)
    OBVIOUS
  <2> QED
    BY <2>1
<1>2. (4 * q + 4 + y + 4 - 1) \div 4 = q + 1 + ((y + 4 - 1) \div 4)
  OBVIOUS
<1> QED
  BY <1>1, <1>2 DEF AlignUp

LEMMA TokSizeFour == ASSUME NEW x \in Item PROVE TokSize(x) \in Nat /\ TokSize(x) >= 4 /\ TokSize(x) % 4 = 0
<1> DEFINE n == x.name
           len == x.len
<1>1. n \in PropNames \union NodeNames /\ len \in Nat
  BY DEF Item
<1> HIDE DEF n, len
<1>2. NameLen[n] + 1 \in Nat
  <2>1. NameLen[n] \in Nat
    BY <1>1, FitConstants
  <2> QED
    BY <2>1
<1> DEFINE a == AlignUp(NameLen[n] + 1, 4)
           b == AlignUp(len, 4)
<1>3. a \in Nat /\ b \in Nat /\ a % 4 = 0 /\ b % 4 = 0
  BY <1>1, <1>2, AlignFour, AlignMod
<1>4. TokSize(x) = 4 + a \/ TokSize(x) = 12 + b \/ TokSize(x) = 4
  BY DEF TokSize, n, len
<1> HIDE DEF a, b
<1>5. (4 + a) % 4 = 0 /\ (12 + b) % 4 = 0
  BY <1>3
<1> QED
  BY <1>3, <1>4, <1>5

PosOf(j) == IF j = 0 THEN HEADER ELSE toks[j].at + TokSize(toks[j].x)
Emitted(n) ==
  /\ Len(toks) = n /\ n <= Len(tree)
  /\ HEADER + structLen = PosOf(n) /\ structLen % 4 = 0
  /\ \A j \in 1 .. n :
       /\ toks[j].x = tree[j]
       /\ toks[j].at = PosOf(j - 1) /\ toks[j].at % 4 = 0 /\ toks[j].at < HEADER + structLen
       /\ \A i \in 1 .. j - 1 : toks[i].at < toks[j].at
       /\ toks[j].x.t = "prop" =>
            \E d \in DOMAIN strs : strs[d].name = toks[j].x.name /\ strs[d].off = toks[j].off
EmitInv ==
  /\ phase \in {"lay", "names", "strings", "nodes"} => toks = <<>> /\ structLen = 0
  /\ phase = "tokens" => Emitted(k)
  /\ phase \in {"read", "loaded"} => Emitted(Len(tree))

LEMMA EmitStep ==
  ASSUME FitInv, EmitInv, Emit, NEW n \in Nat, n = k + 1
  PROVE  Emitted(n)'
<1> DEFINE x == tree[k + 1]
           o == IF x.t = "prop" THEN StrOff(strs, x.name) ELSE 0
           new == [at |-> HEADER + structLen, x |-> x, off |-> o]
           end == HEADER + structLen
           size == TokSize(x)
<1>1. toks' = Append(toks, new) /\ structLen' = structLen + size /\ k' = k + 1 /\ UNCHANGED <<tree, strs>>
      /\ (x.t = "prop" => Known(strs, x.name)) /\ phase = "tokens" /\ k < Len(tree)
  BY DEF Emit, strings
<1>2. toks \in Seq(Token) /\ structLen \in Nat /\ tree \in Seq(Item) /\ k \in Nat
  BY DEF FitInv, TypeOK
<1>3. x \in Item /\ k + 1 <= Len(tree) /\ Len(tree) \in Nat
  BY <1>1, <1>2
<1>4. Emitted(k)
  BY <1>1 DEF EmitInv
<1>5. new.at = end /\ new.x = x /\ new.off = o
  OBVIOUS
<1>6. x.t = "prop" => \E d \in DOMAIN strs : strs[d].name = x.name /\ strs[d].off = o
  <2> SUFFICES ASSUME x.t = "prop" PROVE \E d \in DOMAIN strs : strs[d].name = x.name /\ strs[d].off = o
    OBVIOUS
  <2> DEFINE c == CHOOSE d \in DOMAIN strs : strs[d].name = x.name
  <2>1. \E d \in DOMAIN strs : strs[d].name = x.name
    BY <1>1 DEF Known
  <2>2. c \in DOMAIN strs /\ strs[c].name = x.name
    BY <2>1
  <2>3. o = strs[c].off
    BY DEF StrOff
  <2> QED
    BY <2>2, <2>3
<1>7. size \in Nat /\ size >= 4 /\ size % 4 = 0 /\ end \in Nat
  <2> HIDE DEF x
  <2> QED
    BY <1>2, <1>3, TokSizeFour DEF HEADER
<1> HIDE DEF x, o, new, end, size
<1>8. Len(toks) = k /\ end = PosOf(k) /\ structLen % 4 = 0
  BY <1>4 DEF Emitted, end
<1>9. Len(toks') = k + 1 /\ toks'[k + 1] = new /\ \A j \in 1 .. k : toks'[j] = toks[j]
  BY <1>1, <1>2, <1>8
<1>10. HEADER + structLen' = end + size /\ end < end + size /\ structLen' % 4 = 0 /\ end % 4 = 0
  <2>1. structLen % 4 = 0 /\ end = 56 + structLen /\ structLen' = structLen + size
    BY <1>1, <1>8 DEF end, HEADER
  <2>2. (structLen + size) % 4 = 0 /\ (56 + structLen) % 4 = 0
    BY <1>2, <1>7, <2>1
  <2> QED
    BY <1>2, <1>7, <2>1, <2>2 DEF HEADER
<1>11. \A j \in 0 .. k : PosOf(j)' = PosOf(j)
  BY <1>9 DEF PosOf
<1>12. PosOf(n)' = end + size
  <2>1. n # 0 /\ toks'[n] = new
    BY <1>2, <1>9
  <2> QED
    BY <1>5, <2>1 DEF PosOf, size
<1>13. \A j \in 1 .. k : toks[j].at \in Nat
  <2>1. \A j \in 1 .. k : toks[j] \in Token
    BY <1>2, <1>8
  <2> QED
    BY <2>1 DEF Token
<1>14. ASSUME NEW j \in 1 .. n
       PROVE  /\ toks'[j].x = tree'[j]
              /\ toks'[j].at = PosOf(j - 1)' /\ toks'[j].at % 4 = 0 /\ toks'[j].at < HEADER + structLen'
              /\ \A i \in 1 .. j - 1 : toks'[i].at < toks'[j].at
              /\ toks'[j].x.t = "prop" =>
                   \E d \in DOMAIN strs' : strs'[d].name = toks'[j].x.name /\ strs'[d].off = toks'[j].off
  <2>1. CASE j = k + 1
    <3>1. toks'[j] = new /\ toks'[j].x = x /\ toks'[j].at = end /\ toks'[j].off = o /\ tree'[j] = x
      BY <1>1, <1>5, <1>9, <2>1 DEF x
    <3>2. PosOf(j - 1)' = end
      <4>1. j - 1 = k /\ k \in 0 .. k
        BY <1>2, <2>1
      <4> QED
        BY <1>8, <1>11, <4>1
    <3>3. \A i \in 1 .. j - 1 : toks'[i].at < end
      <4>1. \A i \in 1 .. j - 1 : i \in 1 .. k
        BY <1>2, <2>1
      <4> QED
        BY <1>4, <1>9, <4>1 DEF Emitted, end
    <3> QED
      BY <1>1, <1>6, <1>10, <3>1, <3>2, <3>3
  <2>2. CASE j \in 1 .. k
    <3>1. toks'[j] = toks[j] /\ tree' = tree /\ strs' = strs /\ PosOf(j - 1)' = PosOf(j - 1)
          /\ \A i \in 1 .. j - 1 : toks'[i] = toks[i]
      <4>1. j - 1 \in 0 .. k /\ \A i \in 1 .. j - 1 : i \in 1 .. k
        BY <1>2, <2>2
      <4> QED
        BY <1>1, <1>9, <1>11, <2>2, <4>1
    <3>2. /\ toks[j].x = tree[j] /\ toks[j].at = PosOf(j - 1) /\ toks[j].at % 4 = 0 /\ toks[j].at < end
          /\ (\A i \in 1 .. j - 1 : toks[i].at < toks[j].at)
          /\ (toks[j].x.t = "prop" =>
                \E d \in DOMAIN strs : strs[d].name = toks[j].x.name /\ strs[d].off = toks[j].off)
      BY <1>4, <2>2 DEF Emitted, end
    <3>3. toks[j].at < HEADER + structLen'
      BY <1>7, <1>10, <1>13, <2>2, <3>2
    <3> QED
      BY <3>1, <3>2, <3>3
  <2> QED
    BY <1>2, <1>14, <2>1, <2>2
<1>15. Len(toks') = n /\ n <= Len(tree') /\ HEADER + structLen' = PosOf(n)' /\ structLen' % 4 = 0
  BY <1>1, <1>3, <1>9, <1>10, <1>12
<1> QED
  BY <1>14, <1>15 DEF Emitted

LEMMA EmitInvStep == ASSUME FitInv, TreeInv, EmitInv, Next PROVE EmitInv'
<1>1. CASE Emit
  <2>1. phase' = "tokens" /\ k' = k + 1 /\ k \in Nat
    BY <1>1 DEF Emit, FitInv, TypeOK
  <2>2. PICK n \in Nat : n = k + 1
    BY <2>1
  <2>3. Emitted(n)' /\ n = k'
    BY <1>1, <2>1, <2>2, EmitStep
  <2>4. Emitted(k)'
    BY <2>3 DEF Emitted
  <2> QED
    BY <2>1, <2>4 DEF EmitInv
<1>2. CASE Build
  <2>1. CASE phase' = "nodes"
    BY <1>2, <2>1 DEF Build, EmitInv
  <2>2. CASE phase' = "tokens" /\ k' = 0
    <3>1. toks' = <<>> /\ structLen' = 0
      BY <1>2 DEF Build, EmitInv
    <3>2. tree' \in Seq(Item)
      BY <1>2, LoopStep DEF FitInv, TypeOK
    <3>3. Len(toks') = 0 /\ HEADER + structLen' = HEADER /\ structLen' % 4 = 0 /\ 0 <= Len(tree')
      BY <3>1, <3>2 DEF HEADER
    <3>4. Emitted(0)'
      BY <3>3 DEF Emitted, PosOf
    <3> QED
      BY <2>2, <3>4 DEF EmitInv
  <2> QED
    BY <1>2, <2>1, <2>2 DEF Build
<1>3. CASE Close
  <2>1. phase = "tokens" /\ k = Len(tree) /\ UNCHANGED <<toks, tree, strs, structLen>> /\ phase' \in {"read", "failed"}
    BY <1>3 DEF Close, strings, block
  <2>2. Emitted(Len(tree))
    BY <2>1 DEF EmitInv
  <2>3. Emitted(Len(tree))'
    BY <2>1, <2>2 DEF Emitted, PosOf
  <2> QED
    BY <2>1, <2>3 DEF EmitInv
<1>4. CASE ReadTok
  <2>1. phase = "read" /\ UNCHANGED <<toks, tree, strs, structLen>> /\ phase' \in {"read", "loaded"}
    BY <1>4 DEF ReadTok, strings, block
  <2>2. Emitted(Len(tree))'
    BY <2>1 DEF EmitInv, Emitted, PosOf
  <2> QED
    BY <2>1, <2>2 DEF EmitInv
<1>5. CASE SelfTest
  BY <1>5 DEF SelfTest, EmitInv
<1>6. CASE Refuse \/ NoString
  BY <1>6 DEF Refuse, NoString, EmitInv
<1>7. CASE Lay \/ Laid \/ Walk \/ AddName \/ Named
  <2>1. toks' = toks /\ structLen' = structLen /\ phase \in {"lay", "names", "strings", "nodes"}
        /\ phase' \in {"lay", "names", "strings", "nodes"}
    BY <1>7 DEF Lay, Laid, Walk, AddName, Named, block
  <2> QED
    BY <2>1 DEF EmitInv
<1> QED
  BY <1>1, <1>2, <1>3, <1>4, <1>5, <1>6, <1>7 DEF Next

-----------------------------------------------------------------------------
(* The file and what has been read of it.                                  *)

Written ==
  [state |-> "whole", fdt |-> FdtSize, start |-> Start, size |-> Start + bufPtr,
   toks |-> toks, strs |-> strs,
   segs |-> [i \in DOMAIN rel |-> [at |-> Start + rel[i], blob |-> files[i]]]]
WriteInv == phase \in {"read", "loaded"} => image = Written

\* What the reader makes of token j, and of the first n tokens.
Entry(j) ==
  [path |-> toks[j].x.node, name |-> toks[j].x.name, len |-> toks[j].x.len,
   num |-> NumOf(toks[j].x), src |-> toks[j].x.src, at |-> toks[j].at]
ReadUpTo(n) ==
  /\ \A e \in DOMAIN read : \E j \in 1 .. n : toks[j].x.t = "prop" /\ read[e] = Entry(j)
  /\ \A j \in 1 .. n : toks[j].x.t = "prop" => \E e \in DOMAIN read : read[e] = Entry(j)
  /\ \A e \in DOMAIN read : \A f \in 1 .. e - 1 : read[f].at < read[e].at
WalkInv ==
  /\ phase = "read" =>
       \E r \in 1 .. Len(tree) - 1 : pos = toks[r].at /\ path = tree[r].node /\ ReadUpTo(r - 1)
  /\ phase = "loaded" => path = <<>> /\ ReadUpTo(Len(tree))

LEMMA WriteStep == ASSUME FitInv, WriteInv, Next PROVE WriteInv'
<1>1. CASE Close
  <2>1. phase' = "failed" \/ (image' = Written /\ UNCHANGED <<ext, files, rel, bufPtr, structLen, strLen, toks, strs>>)
    BY <1>1 DEF Close, Written, strings, block, input
  <2>2. UNCHANGED <<ext, files, rel, bufPtr, structLen, strLen, toks, strs>> => Written' = Written
    BY DEF Written, Start, FdtSize
  <2>3. phase' = "failed" \/ image' = Written'
    BY <2>1, <2>2
  <2>4. phase' = "failed" => WriteInv'
    BY DEF WriteInv
  <2> QED
    BY <2>3, <2>4 DEF WriteInv
<1>2. CASE ReadTok
  <2>1. phase = "read" /\ image' = image /\ UNCHANGED <<ext, files, rel, bufPtr, structLen, strLen, toks, strs>>
    BY <1>2 DEF ReadTok, strings, block, input
  <2>2. Written' = Written
    BY <2>1 DEF Written, Start, FdtSize
  <2> QED
    BY <2>1, <2>2 DEF WriteInv
<1>3. CASE Refuse \/ NoString \/ Lay \/ Laid \/ Walk \/ AddName \/ Named \/ Build \/ Emit \/ SelfTest
  <2>1. phase' \notin {"read", "loaded"}
    BY <1>3 DEF Refuse, NoString, Lay, Laid, Walk, AddName, Named, Build, Emit, SelfTest
  <2> QED
    BY <2>1 DEF WriteInv
<1> QED
  BY <1>1, <1>2, <1>3 DEF Next

\* While the file is there its tokens are those of the tree, at rising places.
LEMMA Placed ==
  ASSUME FitInv, TreeInv, EmitInv, WriteInv, phase \in {"read", "loaded"}
  PROVE  /\ image.toks = toks /\ image.strs = strs
         /\ tree \in Seq(Item) /\ Len(tree) \in Nat /\ Len(tree) >= 3 /\ DOMAIN toks = 1 .. Len(tree)
         /\ \A j \in 1 .. Len(tree) : toks[j] \in Token /\ toks[j].x = tree[j] /\ toks[j].at \in Nat /\ toks[j].at % 4 = 0
         /\ toks[1].at = HEADER
         /\ \A j \in 1 .. Len(tree) - 1 : toks[j + 1].at = toks[j].at + TokSize(tree[j])
         /\ \A j \in 1 .. Len(tree) : \A i \in 1 .. j - 1 : toks[i].at < toks[j].at
<1> DEFINE n == Len(tree)
<1>1. image.toks = toks /\ image.strs = strs
  BY DEF WriteInv, Written
<1>2. tree \in Seq(Item) /\ n \in Nat /\ n >= 3
  <2>1. Whole(tree)
    BY DEF TreeInv
  <2> QED
    BY <2>1, WholeTokens
<1>3. Emitted(n) /\ toks \in Seq(Token)
  BY DEF EmitInv, FitInv, TypeOK
<1> HIDE DEF n
<1>4. DOMAIN toks = 1 .. n /\ \A j \in 1 .. n : toks[j] \in Token
  BY <1>3 DEF Emitted
<1>5. \A j \in 1 .. n : toks[j].at \in Nat
  BY <1>4 DEF Token
<1>6. \A j \in 1 .. n : toks[j].x = tree[j] /\ toks[j].at = PosOf(j - 1) /\ toks[j].at % 4 = 0
        /\ \A i \in 1 .. j - 1 : toks[i].at < toks[j].at
  BY <1>3 DEF Emitted
<1>7. toks[1].at = HEADER
  BY <1>2, <1>6 DEF PosOf
<1>8. ASSUME NEW j \in 1 .. n - 1 PROVE toks[j + 1].at = toks[j].at + TokSize(tree[j])
  <2>1. j + 1 \in 1 .. n /\ j \in 1 .. n /\ (j + 1) - 1 = j /\ j # 0
    BY <1>2
  <2> QED
    BY <1>6, <2>1 DEF PosOf
<1> QED
  BY <1>1, <1>2, <1>4, <1>5, <1>6, <1>7, <1>8 DEF n

\* A place is that of one token only.
LEMMA OnePlace ==
  ASSUME FitInv, TreeInv, EmitInv, WriteInv, phase \in {"read", "loaded"}, NEW r \in 1 .. Len(tree)
  PROVE  TokAt(toks[r].at) /\ TokOf(toks[r].at) = toks[r]
<1> DEFINE p == toks[r].at
           c == CHOOSE i \in DOMAIN image.toks : image.toks[i].at = p
           n == Len(tree)
<1>1. n \in Nat /\ image.toks = toks /\ DOMAIN toks = 1 .. n
  BY Placed
<1>2. \A j \in 1 .. n : toks[j].at \in Nat /\ \A i \in 1 .. j - 1 : toks[i].at < toks[j].at
  BY Placed
<1>3. r \in DOMAIN image.toks /\ image.toks[r].at = p
  BY <1>1
<1>4. c \in DOMAIN image.toks /\ image.toks[c].at = p
  BY <1>3
<1>5. TokOf(p) = image.toks[c] /\ TokAt(p)
  BY <1>3 DEF TokOf, TokAt
<1> HIDE DEF c, n
<1>6. c \in 1 .. n /\ r \in 1 .. n /\ toks[c].at = toks[r].at
  BY <1>1, <1>4 DEF n
<1>7. c = r
  <2>1. CASE c < r
    <3>1. c \in 1 .. r - 1
      BY <1>1, <1>6, <2>1
    <3>2. toks[c].at < toks[r].at /\ toks[r].at \in Nat
      BY <1>2, <1>6, <3>1
    <3> QED
      BY <1>6, <3>2
  <2>2. CASE r < c
    <3>1. r \in 1 .. c - 1
      BY <1>1, <1>6, <2>2
    <3>2. toks[r].at < toks[c].at /\ toks[r].at \in Nat
      BY <1>2, <1>6, <3>1
    <3> QED
      BY <1>6, <3>2
  <2> QED
    BY <1>1, <1>6, <2>1, <2>2
<1> QED
  BY <1>1, <1>5, <1>7

\* A name's place in the string table leads back to the name.
LEMMA OneName ==
  ASSUME FitInv, StrInv, WriteInv, phase \in {"read", "loaded"}, NEW d \in DOMAIN strs
  PROVE  NameAt(strs[d].off) = strs[d].name
<1> DEFINE o == strs[d].off
           c == CHOOSE i \in DOMAIN image.strs : image.strs[i].off = o
<1>1. image.strs = strs /\ strs \in Seq(String)
  BY DEF WriteInv, Written, FitInv, TypeOK
<1>2. c \in DOMAIN strs /\ strs[c].off = o
  BY <1>1
<1>3. NameAt(o) = strs[c].name
  BY <1>1 DEF NameAt
<1> HIDE DEF c
<1>4. strs[c].off \in Nat /\ strs[d].off \in Nat
  <2>1. strs[c] \in String /\ strs[d] \in String
    BY <1>1, <1>2
  <2> QED
    BY <2>1 DEF String
<1>5. c = d
  <2>1. c \in 1 .. Len(strs) /\ d \in 1 .. Len(strs) /\ Len(strs) \in Nat
    BY <1>1, <1>2
  <2>2. CASE c < d
    <3>1. c \in 1 .. d - 1
      BY <2>1, <2>2
    <3> QED
      BY <1>2, <1>4, <3>1 DEF StrInv
  <2>3. CASE d < c
    <3>1. d \in 1 .. c - 1
      BY <2>1, <2>3
    <3> QED
      BY <1>2, <1>4, <3>1 DEF StrInv
  <2> QED
    BY <2>1, <2>2, <2>3
<1> QED
  BY <1>3, <1>5

\* Tokens that are not properties add nothing to what has been read.
LEMMA ReadMore ==
  ASSUME NEW n \in Nat, NEW m \in Nat, n <= m, ReadUpTo(n),
         \A j \in n + 1 .. m : toks[j].x.t # "prop", UNCHANGED <<read, toks, image>>
  PROVE  ReadUpTo(m)'
<1>1. \A j : Entry(j)' = Entry(j)
  BY DEF Entry, NumOf
<1>2. \A j \in 1 .. m : toks[j].x.t = "prop" => j \in 1 .. n
  OBVIOUS
<1>3. \A j \in 1 .. n : j \in 1 .. m
  OBVIOUS
<1> QED
  BY <1>1, <1>2, <1>3 DEF ReadUpTo

LEMMA ReadOne ==
  ASSUME FitInv, NEW r \in Nat \ {0}, ReadUpTo(r - 1), read' = Append(read, Entry(r)), toks[r].x.t = "prop",
         \A j \in 1 .. r - 1 : toks[j].at < toks[r].at, UNCHANGED <<toks, image>>
  PROVE  ReadUpTo(r)'
<1> DEFINE n == Len(read)
<1>1. \A j : Entry(j)' = Entry(j)
  BY DEF Entry, NumOf
<1>2. \A j : Entry(j).at = toks[j].at
  BY DEF Entry
<1>3. read \in Seq(Read)
  BY DEF FitInv, ReadInv
<1> DEFINE new == Entry(r)
<1> HIDE DEF new
<1>4. n \in Nat /\ DOMAIN read = 1 .. n /\ DOMAIN read' = 1 .. n + 1 /\ read'[n + 1] = new
      /\ \A e \in 1 .. n : read'[e] = read[e]
  BY <1>3 DEF new
<1> HIDE DEF n
<1>5. \A e \in 1 .. n : \E j \in 1 .. r - 1 : toks[j].x.t = "prop" /\ read[e] = Entry(j)
  BY <1>4 DEF ReadUpTo
<1>6. \A j \in 1 .. r - 1 : toks[j].x.t = "prop" => \E e \in 1 .. n : read[e] = Entry(j)
  BY <1>4 DEF ReadUpTo
<1>7. \A e \in 1 .. n : \A f \in 1 .. e - 1 : read[f].at < read[e].at
  BY <1>4 DEF ReadUpTo
<1>8. \A j \in 1 .. r : j \in 1 .. r - 1 \/ j = r
  OBVIOUS
<1>9. \A e \in 1 .. n + 1 : e \in 1 .. n \/ e = n + 1
  BY <1>4
<1>10. \A e \in DOMAIN read' : \E j \in 1 .. r : toks'[j].x.t = "prop" /\ read'[e] = Entry(j)'
  <2>1. \A j \in 1 .. r - 1 : j \in 1 .. r
    OBVIOUS
  <2>2. r \in 1 .. r
    OBVIOUS
  <2> QED
    BY <1>1, <1>4, <1>5, <1>9, <2>1, <2>2 DEF new
<1>11. \A j \in 1 .. r : toks'[j].x.t = "prop" => \E e \in DOMAIN read' : read'[e] = Entry(j)'
  <2>1. \A e \in 1 .. n : e \in DOMAIN read'
    BY <1>4
  <2>2. n + 1 \in DOMAIN read'
    BY <1>4
  <2> QED
    BY <1>1, <1>4, <1>6, <1>8, <2>1, <2>2 DEF new
<1>12. ASSUME NEW e \in DOMAIN read', NEW f \in 1 .. e - 1 PROVE read'[f].at < read'[e].at
  <2>1. CASE e = n + 1
    <3>1. f \in 1 .. n /\ read'[f] = read[f] /\ read'[e].at = toks[r].at
      BY <1>2, <1>4, <2>1 DEF new
    <3>2. PICK j \in 1 .. r - 1 : read[f] = Entry(j)
      BY <1>5, <3>1
    <3> QED
      BY <1>2, <3>1, <3>2
  <2>2. CASE e \in 1 .. n
    <3>1. f \in 1 .. n
      BY <1>4, <2>2
    <3> QED
      BY <1>4, <1>7, <2>2, <3>1
  <2> QED
    BY <1>4, <1>9, <1>12, <2>1, <2>2
<1> QED
  BY <1>10, <1>11, <1>12 DEF ReadUpTo

\* One token of the reader: the next place is the next token's.
LEMMA WalkStep ==
  ASSUME FitInv, StrInv, TreeInv, EmitInv, WriteInv, WalkInv, ReadTok
  PROVE  WalkInv'
<1> DEFINE n == Len(tree)
<1>1. phase = "read" /\ UNCHANGED <<its, files, ext, rel, tree, toks, strs, image>>
  BY DEF ReadTok, input, strings, block
<1>2. PICK r \in 1 .. Len(tree) - 1 : pos = toks[r].at /\ path = tree[r].node /\ ReadUpTo(r - 1)
  BY <1>1 DEF WalkInv
<1>3. n \in Nat /\ n >= 3 /\ r \in 1 .. n
  <2>1. n \in Nat /\ n >= 3
    BY <1>1, Placed
  <2> QED
    BY <1>2, <2>1
<1>4. toks[r] \in Token /\ toks[r].x = tree[r] /\ toks[r].at \in Nat /\ toks[r].at % 4 = 0
      /\ toks[r + 1].at = toks[r].at + TokSize(tree[r])
      /\ \A j \in 1 .. r - 1 : toks[j].at < toks[r].at
  BY <1>1, <1>2, <1>3, Placed
<1>5. TokOf(pos) = toks[r]
  BY <1>1, <1>2, <1>3, OnePlace
<1> DEFINE x == tree[r]
           o == toks[r].off
           p == toks[r].at
           name == x.name
           len == x.len
           new == [path |-> path, name |-> NameAt(o), len |-> len, num |-> NumOf(x), src |-> x.src, at |-> p]
<1>6. \/ x.t = "begin" /\ path' = Append(path, name) /\ read' = read /\ phase' = "read"
         /\ pos' = AlignUp(p + 4 + NameLen[name] + 1, 4)
      \/ x.t = "prop" /\ path' = path /\ read' = Append(read, new) /\ phase' = "read"
         /\ pos' = AlignUp(p + 12 + len, 4)
      \/ x.t = "end" /\ path' = SubSeq(path, 1, Len(path) - 1) /\ read' = read /\ pos' = p + 4
         /\ phase' = IF Len(path) = 1 THEN "loaded" ELSE "read"
  BY <1>1, <1>2, <1>4, <1>5 DEF ReadTok
<1>7. /\ x \in Item /\ x.node = path /\ (r < n - 1 => Inner(x)) /\ (r = n - 1 => x = EndNode(Root))
      /\ tree[r + 1].node = After(x)
  <2>1. Whole(tree)
    BY <1>1 DEF TreeInv
  <2>2. /\ tree \in Seq(Item) /\ (\A t \in 1 .. n : tree[t].node = Place(tree, <<>>, t - 1))
        /\ (\A t \in 1 .. n - 2 : Inner(tree[t])) /\ tree[n - 1] = EndNode(Root)
    BY <2>1, WholeTokens
  <2>3. r + 1 \in 1 .. n /\ (r + 1) - 1 = r /\ r # 0 /\ (r < n - 1 => r \in 1 .. n - 2)
    BY <1>2, <1>3
  <2>4. x \in Item /\ (r < n - 1 => Inner(x)) /\ (r = n - 1 => x = EndNode(Root))
    BY <1>3, <2>2, <2>3
  <2>5. tree[r + 1].node = After(x)
    BY <2>2, <2>3 DEF Place
  <2> QED
    BY <1>2, <2>4, <2>5
<1>8. name \in PropNames \union NodeNames /\ len \in Nat /\ x.t \in {"begin", "prop", "end", "stop"}
  BY <1>7 DEF Item
<1>9. (x.t = "begin" \/ x.t = "prop") => r + 1 \in 1 .. n - 1
  <2>1. r = n - 1 => x.t = "end"
    BY <1>7, MarkRight
  <2>2. r < n - 1 => r + 1 \in 1 .. n - 1
    BY <1>2, <1>3
  <2>3. r < n - 1 \/ r = n - 1
    BY <1>2, <1>3
  <2>4. "end" # "begin" /\ "end" # "prop"
    OBVIOUS
  <2> QED
    BY <2>1, <2>2, <2>3, <2>4
<1>10. PICK q \in Nat : q = r + 1 /\ q - 1 = r
  BY <1>2
<1> HIDE DEF n
<1>11. CASE x.t = "begin"
  <2>1. pos' = toks[q].at
    <3> HIDE DEF name, p
    <3> DEFINE nl == NameLen[name]
               nl1 == nl + 1
               a == AlignUp(nl1, 4)
    <3>1. nl \in Nat
      BY <1>8, FitConstants
    <3>2. TokSize(x) = 4 + a
      BY <1>11 DEF TokSize, name
    <3>3. pos' = AlignUp(p + 4 + nl + 1, 4)
      BY <1>6, <1>11
    <3>4. p \in Nat /\ p % 4 = 0 /\ toks[q].at = p + TokSize(x)
      BY <1>4, <1>10 DEF p
    <3> HIDE DEF nl
    <3>5. nl1 \in Nat /\ p + 4 + nl + 1 = p + 4 + nl1
      BY <3>1, <3>4
    <3> HIDE DEF nl1, x
    <3>6. AlignUp(p + 4 + nl1, 4) = p + 4 + a /\ a \in Nat
      BY <3>4, <3>5, AlignShift, AlignFour
    <3> HIDE DEF a
    <3>7. pos' = p + 4 + a
      BY <3>3, <3>5, <3>6
    <3> QED
      BY <3>2, <3>4, <3>6, <3>7
  <2>2. path' = tree'[q].node /\ q \in 1 .. Len(tree') - 1 /\ phase' = "read" /\ read' = read
    BY <1>1, <1>6, <1>7, <1>9, <1>10, <1>11 DEF After, n
  <2>3. ReadUpTo(r)'
    <3>1. r - 1 \in Nat /\ r \in Nat /\ r - 1 <= r /\ \A j \in (r - 1) + 1 .. r : j = r
      BY <1>2
    <3>2. \A j \in (r - 1) + 1 .. r : toks[j].x.t # "prop"
      BY <1>4, <1>11, <3>1
    <3> QED
      BY <1>1, <1>2, <2>2, <3>1, <3>2, ReadMore
  <2>4. ReadUpTo(q - 1)'
    BY <1>10, <2>3
  <2> QED
    BY <1>1, <2>1, <2>2, <2>4 DEF WalkInv
<1>12. CASE x.t = "prop"
  <2>1. pos' = toks[q].at
    <3> HIDE DEF len, p
    <3> DEFINE p8 == p + 8
               a == AlignUp(len, 4)
    <3>1. p \in Nat /\ p % 4 = 0 /\ toks[q].at = p + TokSize(x)
      BY <1>4, <1>10 DEF p
    <3>2. p8 \in Nat /\ p8 % 4 = 0 /\ p8 + 4 + len = p + 12 + len /\ p8 + 4 = p + 12
      BY <1>8, <3>1
    <3>3. TokSize(x) = 12 + a
      BY <1>12 DEF TokSize, len
    <3>4. pos' = AlignUp(p + 12 + len, 4)
      BY <1>6, <1>12
    <3> HIDE DEF p8, x
    <3>5. AlignUp(p8 + 4 + len, 4) = p8 + 4 + a /\ a \in Nat
      BY <1>8, <3>2, AlignShift, AlignFour
    <3> HIDE DEF a
    <3>6. pos' = p + 12 + a
      BY <3>2, <3>4, <3>5
    <3> QED
      BY <3>1, <3>3, <3>5, <3>6
  <2>2. path' = tree'[q].node /\ q \in 1 .. Len(tree') - 1 /\ phase' = "read" /\ read' = Append(read, new)
    BY <1>1, <1>6, <1>7, <1>9, <1>10, <1>12 DEF After, n
  <2>3. NameAt(o) = name
    <3>1. Emitted(Len(tree))
      BY <1>1 DEF EmitInv
    <3>2. \E d \in DOMAIN strs : strs[d].name = toks[r].x.name /\ strs[d].off = toks[r].off
      BY <1>3, <1>4, <1>12, <3>1 DEF Emitted, n
    <3> QED
      BY <1>1, <1>4, <3>2, OneName
  <2>4. new = Entry(r)
    BY <1>4, <1>7, <2>3 DEF Entry
  <2>5. ReadUpTo(r)'
    <3>1. r \in Nat \ {0}
      BY <1>2
    <3> QED
      BY <1>1, <1>2, <1>4, <1>12, <2>2, <2>4, <3>1, ReadOne
  <2>6. ReadUpTo(q - 1)'
    BY <1>10, <2>5
  <2> QED
    BY <1>1, <2>1, <2>2, <2>6 DEF WalkInv
<1>13. CASE x.t = "end" /\ r < n - 1
  <2>1. Len(path) >= 2 /\ path \in Seq(NodeNames)
    BY <1>7, <1>13 DEF Inner, Item
  <2>2. phase' = "read" /\ path' = SubSeq(path, 1, Len(path) - 1) /\ read' = read /\ pos' = p + 4
    BY <1>6, <1>13, <2>1
  <2>3. path' = tree'[q].node /\ q \in 1 .. Len(tree') - 1
    <3>1. r + 1 \in 1 .. n - 1
      BY <1>2, <1>3, <1>13
    <3> QED
      BY <1>1, <1>7, <1>10, <1>13, <2>2, <3>1 DEF After, n
  <2>4. pos' = toks[q].at
    BY <1>4, <1>10, <1>13, <2>2 DEF TokSize
  <2>5. ReadUpTo(r)'
    <3>1. r - 1 \in Nat /\ r \in Nat /\ r - 1 <= r /\ \A j \in (r - 1) + 1 .. r : j = r
      BY <1>2
    <3>2. \A j \in (r - 1) + 1 .. r : toks[j].x.t # "prop"
      BY <1>4, <1>13, <3>1
    <3> QED
      BY <1>1, <1>2, <2>2, <3>1, <3>2, ReadMore
  <2>6. ReadUpTo(q - 1)'
    BY <1>10, <2>5
  <2> QED
    BY <1>1, <2>2, <2>3, <2>4, <2>6 DEF WalkInv
<1>14. CASE r = n - 1
  <2>1. x.t = "end" /\ path = Root
    BY <1>7, <1>14, MarkRight
  <2>2. phase' = "loaded" /\ path' = <<>> /\ read' = read
    <3>1. phase' = "loaded" /\ path' = SubSeq(Root, 1, Len(Root) - 1) /\ read' = read
      BY <1>6, <2>1, OwnLengths
    <3> QED
      BY <3>1, OwnLengths, OwnTuples
  <2>3. PICK m \in Nat : m = Len(tree) /\ m = n
    BY <1>3 DEF n
  <2>4. ReadUpTo(m)'
    <3>1. tree[n] = End /\ toks[n].x = tree[n]
      <4>1. Whole(tree) /\ n \in 1 .. n
        BY <1>1, <1>3 DEF TreeInv
      <4> QED
        BY <1>1, <4>1, WholeTokens, Placed DEF n
    <3>2. r - 1 \in Nat /\ r - 1 <= m /\ \A j \in (r - 1) + 1 .. m : j = r \/ j = n
      BY <1>2, <1>3, <1>14, <2>3
    <3>3. \A j \in (r - 1) + 1 .. m : toks[j].x.t # "prop"
      <4>1. tree[n].t = "stop"
        BY <3>1, MarkRight
      <4>2. toks[r].x.t # "prop" /\ toks[n].x.t # "prop"
        BY <1>4, <2>1, <3>1, <4>1
      <4> QED
        BY <3>2, <4>2
    <3> QED
      BY <1>1, <1>2, <2>2, <2>3, <3>2, <3>3, ReadMore
  <2>5. ReadUpTo(Len(tree))'
    BY <1>1, <2>3, <2>4 DEF ReadUpTo
  <2> QED
    BY <2>2, <2>5 DEF WalkInv
<1>15. r < n - 1 \/ r = n - 1
  BY <1>2, <1>3 DEF n
<1> QED
  BY <1>6, <1>11, <1>12, <1>13, <1>14, <1>15

\* The first token of a file is the root's begin, and so after a step.
LEMMA FirstPlace ==
  FitInv /\ TreeInv /\ EmitInv /\ WriteInv /\ phase \in {"read", "loaded"} =>
    Len(tree) \in Nat /\ Len(tree) >= 3 /\ toks[1].at = HEADER /\ tree[1].node = <<>>
<1> SUFFICES ASSUME FitInv, TreeInv, EmitInv, WriteInv, phase \in {"read", "loaded"}
             PROVE  Len(tree) \in Nat /\ Len(tree) >= 3 /\ toks[1].at = HEADER /\ tree[1].node = <<>>
  OBVIOUS
<1>1. Len(tree) \in Nat /\ Len(tree) >= 3 /\ toks[1].at = HEADER
  BY Placed
<1>2. Whole(tree)
  BY DEF TreeInv
<1>3. \A t \in 1 .. Len(tree) : tree[t].node = Place(tree, <<>>, t - 1)
  BY <1>2, WholeTokens
<1>4. 1 \in 1 .. Len(tree) /\ 1 - 1 = 0
  BY <1>1
<1> QED
  BY <1>1, <1>3, <1>4 DEF Place

LEMMA FirstPlaceNext ==
  (FitInv /\ TreeInv /\ EmitInv /\ WriteInv /\ phase \in {"read", "loaded"})' =>
    (Len(tree) \in Nat /\ Len(tree) >= 3 /\ toks[1].at = HEADER /\ tree[1].node = <<>>)'
  BY FirstPlace, PTL

LEMMA WalkInvStep == ASSUME FitInv, StrInv, TreeInv, EmitInv, WriteInv, WalkInv, Next PROVE WalkInv'
<1>1. CASE ReadTok
  BY <1>1, WalkStep
<1>2. CASE Close
  <2>1. CASE phase' = "failed"
    BY <2>1 DEF WalkInv
  <2>2. CASE phase' = "read"
    <3>1. pos' = HEADER /\ path' = <<>> /\ read' = <<>>
      BY <1>2, <2>2 DEF Close
    <3>2. FitInv' /\ TreeInv' /\ EmitInv' /\ WriteInv'
      BY <1>2, CloseStep, TreeStep, EmitInvStep, WriteStep DEF Next
    <3>3. Len(tree') \in Nat /\ Len(tree') >= 3 /\ toks'[1].at = HEADER /\ tree'[1].node = <<>>
      BY <2>2, <3>2, FirstPlaceNext
    <3>5. ReadUpTo(0)'
      BY <3>1 DEF ReadUpTo
    <3>6. 1 \in 1 .. Len(tree') - 1 /\ 1 - 1 = 0
      BY <3>3
    <3> QED
      BY <2>2, <3>1, <3>3, <3>5, <3>6 DEF WalkInv
  <2> QED
    BY <1>2, <2>1, <2>2 DEF Close
<1>3. CASE Refuse \/ NoString \/ Lay \/ Laid \/ Walk \/ AddName \/ Named \/ Build \/ Emit \/ SelfTest
  <2>1. phase' \notin {"read", "loaded"}
    BY <1>3 DEF Refuse, NoString, Lay, Laid, Walk, AddName, Named, Build, Emit, SelfTest
  <2> QED
    BY <2>1 DEF WalkInv
<1> QED
  BY <1>1, <1>2, <1>3 DEF Next

-----------------------------------------------------------------------------
(* What the boot stage finds in what was read.                             *)

FileInv == FitInv /\ RelInv /\ StrInv /\ TreeInv /\ EmitInv /\ WriteInv /\ WalkInv

LEMMA ReadToken ==
  ASSUME FileInv, phase = "loaded", NEW e \in DOMAIN read
  PROVE  \E j \in 1 .. Len(tree) :
           /\ tree[j].t = "prop" /\ read[e].path = tree[j].node /\ read[e].name = tree[j].name
           /\ read[e].len = tree[j].len /\ read[e].num = NumOf(tree[j]) /\ read[e].src = tree[j].src
           /\ read[e].at = toks[j].at
<1>1. ReadUpTo(Len(tree))
  BY DEF FileInv, WalkInv
<1>2. PICK j \in 1 .. Len(tree) : toks[j].x.t = "prop" /\ read[e] = Entry(j)
  BY <1>1 DEF ReadUpTo
<1>3. toks[j].x = tree[j]
  BY Placed DEF FileInv
<1> QED
  BY <1>2, <1>3 DEF Entry

LEMMA TokenRead ==
  ASSUME FileInv, phase = "loaded", NEW j \in 1 .. Len(tree), tree[j].t = "prop"
  PROVE  \E e \in DOMAIN read : read[e] = Entry(j)
<1>1. ReadUpTo(Len(tree))
  BY DEF FileInv, WalkInv
<1>2. toks[j].x = tree[j]
  BY Placed DEF FileInv
<1> QED
  BY <1>1, <1>2 DEF ReadUpTo

LEMMA HasHeld == ASSUME FileInv, phase = "loaded", NEW x, Holds(tree, x), x.t = "prop" PROVE Has(x.node, x.name)
<1>1. PICK j \in 1 .. Len(tree) : tree[j] = x
  BY DEF Holds
<1>2. PICK e \in DOMAIN read : read[e] = Entry(j)
  BY <1>1, TokenRead
<1>3. toks[j].x = tree[j]
  BY Placed DEF FileInv
<1> QED
  BY <1>1, <1>2, <1>3 DEF Has, Entry

LEMMA GetHeld ==
  ASSUME FileInv, phase = "loaded", NEW v, NEW p, Has(v, p)
  PROVE  \E x : /\ x.t = "prop" /\ x.node = v /\ x.name = p /\ Right(x)
                /\ Get(v, p).num = NumOf(x) /\ Get(v, p).src = x.src
<1> DEFINE c == CHOOSE e \in DOMAIN read : read[e].path = v /\ read[e].name = p
<1>1. c \in DOMAIN read /\ read[c].path = v /\ read[c].name = p
  BY DEF Has
<1>2. Get(v, p) = read[c]
  BY DEF Get
<1> HIDE DEF c
<1>3. PICK j \in 1 .. Len(tree) :
        /\ tree[j].t = "prop" /\ read[c].path = tree[j].node /\ read[c].name = tree[j].name
        /\ read[c].num = NumOf(tree[j]) /\ read[c].src = tree[j].src
  BY <1>1, ReadToken
<1>4. Whole(tree)
  BY DEF FileInv, TreeInv
<1>5. Right(tree[j])
  BY <1>4, WholeTokens
<1> QED
  BY <1>1, <1>2, <1>3, <1>5

LEMMA ImageFound ==
  ASSUME FileInv, phase = "loaded", NEW i \in DOMAIN its.images
  PROVE  /\ Has(Node(i), "data-size") /\ Get(Node(i), "data-size").num = files[i].len
         /\ Has(Node(i), DataProp) /\ Get(Node(i), DataProp).num = ext + rel[i]
         /\ ext = 0 => ~Has(Node(i), "data-position")
         /\ its.images[i].hash # "none" =>
              Has(HashNode(i), "value") /\ Get(HashNode(i), "value").src = files[i].src
         /\ ext = 0 => Has(Root, "totalsize") /\ Get(Root, "totalsize").num = image.size
<1>1. Whole(tree)
  BY DEF FileInv, TreeInv
<1>2. Told(tree, i) /\ Sized(tree)
  BY <1>1, WholeTokens
<1>3. Has(Node(i), "data-size") /\ Has(Node(i), DataProp)
  <2> DEFINE x == U32(Node(i), "data-size", files[i].len)
             y == U32(Node(i), DataProp, ext + rel[i])
  <2>1. x.t = "prop" /\ x.node = Node(i) /\ x.name = "data-size" /\ y.t = "prop" /\ y.node = Node(i) /\ y.name = DataProp
    BY DEF U32, Tok
  <2>2. Holds(tree, x) /\ Holds(tree, y)
    BY <1>2 DEF Told
  <2> HIDE DEF x, y
  <2> QED
    BY <2>1, <2>2, HasHeld
<1>4. ASSUME NEW p, p # "totalsize", Has(Node(i), p)
      PROVE  /\ p = "data-size" => Get(Node(i), p).num = files[i].len
             /\ p \in {"data-position", "data-offset"} => p = DataProp /\ Get(Node(i), p).num = ext + rel[i]
  <2>1. PICK x : /\ x.t = "prop" /\ x.node = Node(i) /\ x.name = p /\ Right(x)
                 /\ Get(Node(i), p).num = NumOf(x)
    BY <1>4, GetHeld
  <2>2. NumOf(x) = x.num
    BY <1>4, <2>1 DEF NumOf
  <2> QED
    BY <2>1, <2>2 DEF Right
<1>5. DataProp \in {"data-position", "data-offset"} /\ DataProp # "totalsize" /\ (ext = 0 => DataProp = "data-offset")
  BY DEF DataProp
<1>6. Get(Node(i), "data-size").num = files[i].len /\ Get(Node(i), DataProp).num = ext + rel[i]
  BY <1>3, <1>4, <1>5
<1>7. ext = 0 => ~Has(Node(i), "data-position")
  BY <1>4, <1>5
<1>8. ASSUME its.images[i].hash # "none"
      PROVE  Has(HashNode(i), "value") /\ Get(HashNode(i), "value").src = files[i].src
  <2> DEFINE z == Hash(HashNode(i), files[i].src)
  <2>1. z.t = "prop" /\ z.node = HashNode(i) /\ z.name = "value"
    BY DEF Hash, Tok
  <2>2. Holds(tree, z)
    BY <1>2, <1>8 DEF Told
  <2> HIDE DEF z
  <2>3. Has(HashNode(i), "value")
    BY <2>1, <2>2, HasHeld
  <2>4. PICK x : /\ x.t = "prop" /\ x.node = HashNode(i) /\ x.name = "value" /\ Right(x)
                 /\ Get(HashNode(i), "value").src = x.src
    BY <2>3, GetHeld
  <2> QED
    BY <2>3, <2>4 DEF Right
<1>9. ASSUME ext = 0
      PROVE  Has(Root, "totalsize") /\ Get(Root, "totalsize").num = image.size
  <2> DEFINE z == U32(Root, "totalsize", 0)
  <2>1. z.t = "prop" /\ z.node = Root /\ z.name = "totalsize"
    BY DEF U32, Tok
  <2>2. Holds(tree, z)
    BY <1>2, <1>9 DEF Sized
  <2> HIDE DEF z
  <2>3. Has(Root, "totalsize")
    BY <2>1, <2>2, HasHeld
  <2>4. PICK x : /\ x.t = "prop" /\ x.node = Root /\ x.name = "totalsize" /\ Right(x)
                 /\ Get(Root, "totalsize").num = NumOf(x)
    BY <2>3, GetHeld
  <2> QED
    BY <2>3, <2>4 DEF NumOf
<1> QED
  BY <1>3, <1>6, <1>7, <1>8, <1>9

\* Its data lie where the layout put them behind the tree.
LEMMA DataFound ==
  ASSUME FileInv, phase = "loaded", NEW i \in DOMAIN its.images
  PROVE  /\ i \in DOMAIN image.segs /\ image.segs[i].blob = files[i]
         /\ DataAt(i) = image.segs[i].at /\ DataAt(i) = Start + rel[i]
<1>1. image.fdt = FdtSize /\ image.segs = [j \in DOMAIN rel |-> [at |-> Start + rel[j], blob |-> files[j]]]
  BY DEF FileInv, WriteInv, Written
<1>2. i \in DOMAIN rel
  BY SourceOK DEF FileInv, RelInv, FitInv, TypeOK
<1>3. i \in DOMAIN image.segs /\ image.segs[i].at = Start + rel[i] /\ image.segs[i].blob = files[i]
  BY <1>1, <1>2
<1>4. rel[i] \in Nat /\ ext \in Nat
  BY <1>2 DEF FileInv, FitInv, TypeOK
<1>5. DataAt(i) = Start + rel[i]
  <2>1. CASE ext # 0
    BY <2>1, ImageFound DEF DataAt, DataProp, Start
  <2>2. CASE ext = 0
    <3>1. DataAt(i) = AlignUp(FdtSize, FIT_ALIGN) + (0 + rel[i])
      BY <1>1, <2>2, ImageFound DEF DataAt, DataProp
    <3>2. 0 + rel[i] = rel[i]
      BY <1>4
    <3> QED
      BY <2>2, <3>1, <3>2 DEF Start
  <2> QED
    BY <2>1, <2>2
<1> QED
  BY <1>3, <1>5

LEMMA LoadedIs ==
  ASSUME FileInv, phase = "loaded", NEW i \in DOMAIN its.images
  PROVE  Loaded(i) = IF files[i].len = 0 THEN [src |-> "", len |-> 0] ELSE files[i]
<1> DEFINE n == files[i].len
           p == DataAt(i)
           d == CHOOSE j \in DOMAIN image.segs : image.segs[j].at = p /\ image.segs[j].blob.len = n
<1>1. Loaded(i) = Cut(p, n)
  BY ImageFound DEF Loaded
<1>2. i \in DOMAIN image.segs /\ image.segs[i].blob = files[i] /\ image.segs[i].at = p
  BY DataFound
<1>3. CASE n # 0
  <2>1. d \in DOMAIN image.segs /\ image.segs[d].at = p /\ image.segs[d].blob.len = n
    BY <1>2
  <2>2. Cut(p, n) = image.segs[d].blob
    BY <1>2, <1>3 DEF Cut
  <2> HIDE DEF d, p, n
  <2>3. image \in Image /\ image.state = "whole"
    BY DEF FileInv, FitInv, ReadInv, Image
  <2>4. image.segs \in Seq(Seg)
    BY <2>3 DEF Image
  <2>5. image.segs[d] \in Seg /\ image.segs[i] \in Seg
    BY <1>2, <2>1, <2>4
  <2>6. p \in Nat /\ n \in Nat
    BY <2>1, <2>5 DEF Seg, Blob
  <2>7. \A a \in DOMAIN image.segs : \A b \in 1 .. a - 1 :
          image.segs[b].at + image.segs[b].blob.len <= image.segs[a].at
    BY <2>3 DEF FileInv, FitInv, BlobsApart
  <2>8. i \in 1 .. Len(image.segs) /\ d \in 1 .. Len(image.segs) /\ Len(image.segs) \in Nat
    BY <1>2, <2>1, <2>4
  <2>9. image.segs[i].blob.len = n
    BY <1>2 DEF n
  <2>10. d = i
    <3>1. CASE d < i
      <4>1. d \in 1 .. i - 1
        BY <2>8, <3>1
      <4>2. p + n <= p
        BY <1>2, <2>1, <2>7, <4>1
      <4> QED
        BY <1>3, <2>6, <4>2
    <3>2. CASE i < d
      <4>1. i \in 1 .. d - 1
        BY <2>8, <3>2
      <4>2. p + n <= p
        BY <1>2, <2>1, <2>7, <2>9, <4>1
      <4> QED
        BY <1>3, <2>6, <4>2
    <3> QED
      BY <2>8, <3>1, <3>2
  <2> QED
    BY <1>1, <1>2, <1>3, <2>2, <2>10 DEF n
<1>4. CASE n = 0
  BY <1>1, <1>4 DEF Cut
<1> QED
  BY <1>3, <1>4

LEMMA AlignUpward == ASSUME NEW x \in Nat, NEW a \in Nat \ {0} PROVE x <= AlignUp(x, a)
<1> DEFINE y == x + a - 1
           q == y \div a
<1>1. y \in Nat
  OBVIOUS
<1> DEFINE r == y % a
           m == a * q
<1>2. q \in Int /\ r \in 0 .. a - 1 /\ y = m + r
  <2> HIDE DEF y
  <2> QED
    BY <1>1
<1> HIDE DEF q
<1>3. m \in Int /\ q * a = m
  BY <1>2
<1> HIDE DEF m, r
<1>4. x + a - 1 = m + r
  BY <1>2
<1> HIDE DEF y
<1>5. x <= m
  BY <1>2, <1>3, <1>4
<1> QED
  BY <1>3, <1>5 DEF AlignUp, q, y

-----------------------------------------------------------------------------
\* The inductive invariant of what is written and read back.
LEMMA FileStart == Init => FileInv
<1> SUFFICES ASSUME Init PROVE FileInv
  OBVIOUS
<1>1. FitInv
  <2>1. its \in Tree /\ its.images \in Seq(ImageSrc) /\ files \in [DOMAIN its.images -> Blob] /\ ext \in Nat
    BY FitConstants DEF Init, Tree
  <2> QED
    BY <2>1 DEF Init, FitInv, TypeOK, InputInv, LayInv, ReadInv, BlobsApart, NoImage
<1>2. phase = "lay" /\ rel = <<>> /\ bufPtr = 0 /\ strs = <<>> /\ toks = <<>> /\ structLen = 0
  BY DEF Init
<1> QED
  BY <1>1, <1>2 DEF FileInv, RelInv, StrInv, TreeInv, EmitInv, WriteInv, WalkInv

LEMMA FileKept == ASSUME FileInv, FitInv', UNCHANGED vars PROVE FileInv'
<1>1. UNCHANGED <<input, phase, k, rel, bufPtr, strings, block, image, reader>>
  BY DEF vars
<1>2. UNCHANGED <<its, files, ext, phase, k, rel, bufPtr, strs, strLen, tree, toks, structLen, image, pos, path, read>>
  BY <1>1 DEF input, strings, block, reader
<1>3. RelInv' /\ StrInv'
  BY <1>2 DEF FileInv, RelInv, StrInv
<1>4. TreeInv'
  BY <1>2, TreeKept DEF FileInv, TreeInv
<1>5. EmitInv'
  BY <1>2 DEF FileInv, EmitInv, Emitted, PosOf
<1>6. WriteInv'
  BY <1>2 DEF FileInv, WriteInv, Written, Start, FdtSize
<1>7. WalkInv'
  BY <1>2 DEF FileInv, WalkInv, ReadUpTo, Entry, NumOf
<1> QED
  BY <1>3, <1>4, <1>5, <1>6, <1>7 DEF FileInv

\* The inductive invariant: layout, string table, tree, struct block, file and
\* what has been read of it, each where the code has it.
THEOREM FitFileInvariant == Spec => []FileInv
<1>1. FileInv /\ FitInv' /\ [Next]_vars => FileInv'
  <2>1. FileInv /\ FitInv' /\ Next => FileInv'
    BY RelStep, StrStep, TreeStep, EmitInvStep, WriteStep, WalkInvStep DEF FileInv
  <2> QED
    BY <2>1, FileKept
<1> QED
  BY <1>1, FileStart, FitInvariant, PTL DEF Spec

\* The reader meets every token where it was written and gets the properties
\* back in order, each once, in its own node and under its own name, for any
\* source, any lengths and either mode (fit_pack.py:282-306, 406-444).
THEOREM FitReadsBack == Spec => []ReadsBack
<1>1. ASSUME FileInv PROVE ReadsBack
  <2>1. ASSUME phase = "read" PROVE TokAt(pos)
    <3>1. PICK r \in 1 .. Len(tree) - 1 : pos = toks[r].at
      BY <1>1, <2>1 DEF FileInv, WalkInv
    <3>2. r \in 1 .. Len(tree)
      <4>1. Len(tree) \in Nat
        BY <1>1, <2>1, Placed DEF FileInv
      <4> QED
        BY <4>1
    <3> QED
      BY <1>1, <2>1, <3>1, <3>2, OnePlace DEF FileInv
  <2>2. ASSUME phase = "loaded"
        PROVE  /\ path = <<>>
               /\ \A e \in DOMAIN read : TokAt(read[e].at) /\ Same(read[e], TokOf(read[e].at).x)
               /\ \A i \in DOMAIN image.toks :
                    image.toks[i].x.t = "prop" => \E e \in DOMAIN read : read[e].at = image.toks[i].at
               /\ \A e \in DOMAIN read : \A f \in 1 .. e - 1 : read[f].at < read[e].at
    <3>1. path = <<>> /\ \A e \in DOMAIN read : \A f \in 1 .. e - 1 : read[f].at < read[e].at
      BY <1>1, <2>2 DEF FileInv, WalkInv, ReadUpTo
    <3>2. image.toks = toks /\ DOMAIN toks = 1 .. Len(tree) /\ \A j \in 1 .. Len(tree) : toks[j].x = tree[j]
      BY <1>1, <2>2, Placed DEF FileInv
    <3>3. ASSUME NEW e \in DOMAIN read PROVE TokAt(read[e].at) /\ Same(read[e], TokOf(read[e].at).x)
      <4>1. PICK j \in 1 .. Len(tree) :
              /\ read[e].path = tree[j].node /\ read[e].name = tree[j].name /\ read[e].len = tree[j].len
              /\ read[e].at = toks[j].at
        BY <1>1, <2>2, ReadToken
      <4>2. TokAt(toks[j].at) /\ TokOf(toks[j].at) = toks[j]
        BY <1>1, <2>2, OnePlace DEF FileInv
      <4> QED
        BY <3>2, <4>1, <4>2 DEF Same
    <3>4. ASSUME NEW i \in DOMAIN image.toks, image.toks[i].x.t = "prop"
          PROVE  \E e \in DOMAIN read : read[e].at = image.toks[i].at
      <4>1. i \in 1 .. Len(tree) /\ tree[i].t = "prop"
        BY <3>2, <3>4
      <4>2. PICK e \in DOMAIN read : read[e] = Entry(i)
        BY <1>1, <2>2, <4>1, TokenRead
      <4> QED
        BY <3>2, <4>2 DEF Entry
    <3> QED
      BY <3>1, <3>3, <3>4
  <2> QED
    BY <2>1, <2>2 DEF ReadsBack
<1> QED
  BY <1>1, FitFileInvariant, PTL

\* The boot stage finds each image's own bytes and their hash through the tree
\* it reads, and a stage that loads /totalsize rounded up to its block length
\* has them all, for any source, any lengths, either mode and any block length
\* (fit_pack.py:342-352, 371, 517-540).
THEOREM FitLoadable == Spec => []Loadable
<1>1. ASSUME FileInv PROVE Loadable
  <2>1. ASSUME phase = "loaded", NEW i \in DOMAIN its.images
        PROVE  /\ Has(Node(i), "data-size") /\ Loaded(i).len = files[i].len
               /\ files[i].len > 0 => Loaded(i) = files[i]
               /\ its.images[i].hash # "none" =>
                    Has(HashNode(i), "value") /\ Get(HashNode(i), "value").src = files[i].src
               /\ ext = 0 =>
                    \A bl \in BlockLens :
                      Has(Root, "totalsize") /\ DataAt(i) + files[i].len <= AlignUp(Get(Root, "totalsize").num, bl)
    <3>1. files[i].len \in Nat
      <4>1. files[i] \in Blob
        BY <1>1, <2>1 DEF FileInv, FitInv, InputInv
      <4> QED
        BY <4>1 DEF Blob
    <3>2. /\ files[i].len = 0 => Loaded(i) = [src |-> "", len |-> 0]
          /\ files[i].len # 0 => Loaded(i) = files[i]
      BY <1>1, <2>1, LoadedIs
    <3>3. Loaded(i).len = files[i].len
      <4>1. CASE files[i].len = 0
        <5>1. Loaded(i) = [src |-> "", len |-> 0]
          BY <3>2, <4>1
        <5>2. [src |-> "", len |-> 0].len = 0
          OBVIOUS
        <5>3. Loaded(i).len = 0
          BY <5>1, <5>2, Zenon
        <5> QED
          BY <4>1, <5>3, Zenon
      <4>2. CASE files[i].len # 0
        BY <3>2, <4>2
      <4> QED
        BY <4>1, <4>2
    <3>4. files[i].len > 0 => Loaded(i) = files[i]
      <4>1. files[i].len > 0 => files[i].len # 0
        BY <3>1
      <4> QED
        BY <3>2, <4>1
    <3>5. ASSUME ext = 0, NEW bl \in BlockLens
          PROVE  Has(Root, "totalsize") /\ DataAt(i) + files[i].len <= AlignUp(Get(Root, "totalsize").num, bl)
      <4> DEFINE n == files[i].len
                 p == DataAt(i)
                 size == image.size
      <4>1. Has(Root, "totalsize") /\ Get(Root, "totalsize").num = size
        BY <1>1, <2>1, <3>5, ImageFound
      <4>2. p + n <= size
        <5>1. i \in DOMAIN image.segs /\ image.segs[i].blob = files[i] /\ image.segs[i].at = p
          BY <1>1, <2>1, DataFound
        <5>2. image.state = "whole"
          BY <1>1, <2>1 DEF FileInv, FitInv, ReadInv, Image
        <5> QED
          BY <1>1, <5>1, <5>2 DEF FileInv, FitInv, BlobsApart
      <4>3. p \in Nat /\ size \in Nat
        <5>1. p = Start + rel[i] /\ image \in Image
          BY <1>1, <2>1, DataFound DEF FileInv, FitInv, ReadInv
        <5>2. Start \in Nat /\ image.size \in Nat
          BY <1>1, <2>1, <5>1 DEF FileInv, WriteInv, Written, Image
        <5>3. rel[i] \in Nat
          BY <1>1, <2>1, SourceOK DEF FileInv, RelInv, FitInv, TypeOK
        <5> QED
          BY <5>1, <5>2, <5>3
      <4>4. bl \in Nat \ {0}
        BY <3>5, FitConstants
      <4>5. AlignUp(size, bl) \in Int /\ size <= AlignUp(size, bl)
        <5>1. size + bl - 1 \in Int /\ (size + bl - 1) \div bl \in Int
          BY <4>3, <4>4
        <5>2. AlignUp(size, bl) \in Int
          BY <4>4, <5>1 DEF AlignUp
        <5> QED
          BY <4>3, <4>4, <5>2, AlignUpward
      <4> HIDE DEF p, n, size
      <4>6. p + n <= AlignUp(size, bl)
        BY <3>1, <4>2, <4>3, <4>5 DEF n
      <4> QED
        BY <4>1, <4>6 DEF p, n
    <3> QED
      BY <1>1, <2>1, <3>3, <3>4, <3>5, ImageFound
  <2> QED
    BY <2>1 DEF Loadable
<1> QED
  BY <1>1, FitFileInvariant, PTL


-----------------------------------------------------------------------------
(* An image unpacked and packed again.  A packer is the part of the state  *)
(* its loops move; from the source, the blobs and the offset alone, every  *)
(* step of it is determined, so two runs of it go through the same states. *)

Packing == {"lay", "names", "strings", "nodes", "tokens"}
At(p, i, r, b, n, s, sl, tr, tk, tl) ==
  [phase |-> p, k |-> i, rel |-> r, bufPtr |-> b, names |-> n, strs |-> s, strLen |-> sl,
   tree |-> tr, toks |-> tk, structLen |-> tl]
Packer == At(phase, k, rel, bufPtr, names, strs, strLen, tree, toks, structLen)
Fresh == At("lay", 0, <<>>, 0, <<>>, <<>>, 0, <<>>, <<>>, 0)
Done(c) == c.phase = "tokens" /\ c.k = Len(c.tree)

StepLay(c) ==
  IF c.k < Len(its.images)
  THEN At("lay", c.k + 1, Append(c.rel, c.bufPtr),
          c.bufPtr + (IF ext # 0 THEN files[c.k + 1].len ELSE AlignUp(files[c.k + 1].len, FIT_ALIGN)),
          c.names, c.strs, c.strLen, c.tree, c.toks, c.structLen)
  ELSE At("names", 0, c.rel, c.bufPtr, <<"description", "#address-cells">>, c.strs, c.strLen,
          c.tree, c.toks, c.structLen)
StepNames(c) ==
  IF c.k < Len(its.images)
  THEN At("names", c.k + 1, c.rel, c.bufPtr, c.names \o ImageNames(c.k + 1), c.strs, c.strLen,
          c.tree, c.toks, c.structLen)
  ELSE At("strings", 0, c.rel, c.bufPtr,
          c.names \o <<"default">> \o (IF its.conf THEN <<"description">> ELSE <<>>) \o Added,
          c.strs, c.strLen, c.tree, c.toks, c.structLen)
StepStrings(c) ==
  IF c.k < Len(c.names)
  THEN IF Known(c.strs, c.names[c.k + 1])
       THEN At("strings", c.k + 1, c.rel, c.bufPtr, c.names, c.strs, c.strLen, c.tree, c.toks, c.structLen)
       ELSE At("strings", c.k + 1, c.rel, c.bufPtr, c.names,
               Append(c.strs, [name |-> c.names[c.k + 1], off |-> c.strLen]),
               c.strLen + NameLen[c.names[c.k + 1]] + 1, c.tree, c.toks, c.structLen)
  ELSE At("nodes", 0, c.rel, c.bufPtr, c.names, c.strs, c.strLen, TreeHead, c.toks, c.structLen)
StepNodes(c) ==
  IF c.k < Len(its.images)
  THEN At("nodes", c.k + 1, c.rel, c.bufPtr, c.names, c.strs, c.strLen,
          c.tree \o ImageNode(c.k + 1, c.rel[c.k + 1]), c.toks, c.structLen)
  ELSE At("tokens", 0, c.rel, c.bufPtr, c.names, c.strs, c.strLen, c.tree \o TreeTail, c.toks, c.structLen)
StepTokens(c) ==
  At("tokens", c.k + 1, c.rel, c.bufPtr, c.names, c.strs, c.strLen, c.tree,
     Append(c.toks, [at |-> HEADER + c.structLen, x |-> c.tree[c.k + 1],
                     off |-> IF c.tree[c.k + 1].t = "prop" THEN StrOff(c.strs, c.tree[c.k + 1].name) ELSE 0]),
     c.structLen + TokSize(c.tree[c.k + 1]))
Step(c) ==
  IF c.phase = "lay" THEN StepLay(c)
  ELSE IF c.phase = "names" THEN StepNames(c)
  ELSE IF c.phase = "strings" THEN StepStrings(c)
  ELSE IF c.phase = "nodes" THEN StepNodes(c)
  ELSE StepTokens(c)

StartOf(c) == IF ext # 0 THEN ext ELSE AlignUp(HEADER + c.structLen + c.strLen, FIT_ALIGN)
FileOf(c) ==
  [state |-> "whole", fdt |-> HEADER + c.structLen + c.strLen, start |-> StartOf(c),
   size |-> StartOf(c) + c.bufPtr, toks |-> c.toks, strs |-> c.strs,
   segs |-> [i \in DOMAIN c.rel |-> [at |-> StartOf(c) + c.rel[i], blob |-> files[i]]]]

\* The first n steps of a packer, and those of one that has come to the file.
Trace(H, n) == H[0] = Fresh /\ \A t \in 0 .. n - 1 : H[t + 1] = Step(H[t]) /\ ~Done(H[t])
Run(H, n) == Trace(H, n) /\ Done(H[n])

LEMMA Fields ==
  ASSUME NEW p, NEW i, NEW r, NEW b, NEW n, NEW s, NEW sl, NEW tr, NEW tk, NEW tl
  PROVE  LET c == At(p, i, r, b, n, s, sl, tr, tk, tl)
         IN /\ c.phase = p /\ c.k = i /\ c.rel = r /\ c.bufPtr = b /\ c.names = n /\ c.strs = s
            /\ c.strLen = sl /\ c.tree = tr /\ c.toks = tk /\ c.structLen = tl
  BY DEF At

LEMMA PackerFields ==
  /\ Packer.phase = phase /\ Packer.k = k /\ Packer.rel = rel /\ Packer.bufPtr = bufPtr
  /\ Packer.names = names /\ Packer.strs = strs /\ Packer.strLen = strLen /\ Packer.tree = tree
  /\ Packer.toks = toks /\ Packer.structLen = structLen
  BY Fields DEF Packer

LEMMA FreshFields == Fresh.phase = "lay"
  BY Fields DEF Fresh

\* A packer only depends on the source, the blobs and the offset.
LEMMA StepFixed ==
  ASSUME NEW c, UNCHANGED <<its, files, ext>> PROVE Step(c)' = Step(c) /\ FileOf(c)' = FileOf(c)
<1>1. FileOf(c)' = FileOf(c)
  BY DEF FileOf, StartOf
<1>2. StepLay(c)' = StepLay(c)
  BY DEF StepLay
<1>3. StepNames(c)' = StepNames(c)
  BY DEF StepNames, ImageNames, Added
<1>4. StepStrings(c)' = StepStrings(c)
  BY DEF StepStrings, TreeHead
<1>5. StepNodes(c)' = StepNodes(c)
  <2>1. ImageNode(c.k + 1, c.rel[c.k + 1])' = ImageNode(c.k + 1, c.rel[c.k + 1])
    BY DEF ImageNode, Node, HashNode, DataProp
  <2>2. TreeTail' = TreeTail
    BY DEF TreeTail
  <2> QED
    BY <2>1, <2>2 DEF StepNodes
<1>6. StepTokens(c)' = StepTokens(c)
  BY DEF StepTokens
<1> QED
  BY <1>1, <1>2, <1>3, <1>4, <1>5, <1>6 DEF Step

LEMMA TraceFixed ==
  ASSUME NEW H, NEW n, UNCHANGED <<its, files, ext>>
  PROVE  Trace(H, n)' = Trace(H, n) /\ Run(H, n)' = Run(H, n)
<1>1. \A t \in 0 .. n - 1 : Step(H[t])' = Step(H[t])
  BY StepFixed
<1>2. Trace(H, n)' <=> Trace(H, n)
  BY <1>1 DEF Trace, Fresh, Done
<1> QED
  BY <1>2 DEF Run, Done, Trace

\* One action of the packing: the packer makes its one step, the rest stays.
Moved == Packer' = Step(Packer) /\ ~Done(Packer) /\ UNCHANGED <<its, files, ext, round, first>>

LEMMA NextPacker ==
  Packer' = At(phase', k', rel', bufPtr', names', strs', strLen', tree', toks', structLen')
  BY DEF Packer

LEMMA Advance ==
  ASSUME FitInv, phase \in Packing, Next, phase' \in Packing
  PROVE  Moved
<1> USE PackerFields, NextPacker
<1>1. CASE Lay
  <2>1. Step(Packer) = StepLay(Packer) /\ ~Done(Packer)
    BY <1>1 DEF Step, Lay, Done
  <2> QED
    BY <1>1, <2>1 DEF Lay, StepLay, Moved, input, strings, block
<1>2. CASE Refuse \/ NoString
  BY <1>2 DEF Refuse, NoString, Packing
<1>3. CASE Laid
  <2>1. Step(Packer) = StepLay(Packer) /\ ~Done(Packer)
    BY <1>3 DEF Step, Laid, Done
  <2> QED
    BY <1>3, <2>1, SourceOK DEF Laid, StepLay, Moved, input, strings, block
<1>4. CASE Walk
  <2>1. Step(Packer) = StepNames(Packer) /\ ~Done(Packer)
    BY <1>4 DEF Step, Walk, Done
  <2> QED
    BY <1>4, <2>1 DEF Walk, StepNames, Moved, input, strings, block
<1>5. CASE AddName
  <2>1. Step(Packer) = StepStrings(Packer) /\ ~Done(Packer)
    BY <1>5 DEF Step, AddName, Done
  <2> QED
    BY <1>5, <2>1 DEF AddName, StepStrings, Moved, input, strings, block
<1>6. CASE Named
  <2>1. Step(Packer) = StepStrings(Packer) /\ ~Done(Packer)
    BY <1>6 DEF Step, Named, Done
  <2>2. ~(k < Len(names))
    BY <1>6 DEF Named, FitInv, TypeOK
  <2> QED
    BY <1>6, <2>1, <2>2 DEF Named, StepStrings, Moved, input, strings, block
<1>7. CASE Build
  <2>1. Step(Packer) = StepNodes(Packer) /\ ~Done(Packer)
    BY <1>7 DEF Step, Build, Done
  <2> QED
    BY <1>7, <2>1 DEF Build, StepNodes, Moved, input, strings, block
<1>8. CASE Emit
  <2>1. Step(Packer) = StepTokens(Packer)
    BY <1>8 DEF Step, Emit
  <2>2. ~Done(Packer)
    BY <1>8 DEF Emit, Done, FitInv, TypeOK
  <2> QED
    BY <1>8, <2>1, <2>2 DEF Emit, StepTokens, Moved, input, strings, block
<1>9. CASE Close
  BY <1>9 DEF Close, Packing
<1>10. CASE ReadTok \/ SelfTest
  BY <1>10 DEF ReadTok, SelfTest, Packing
<1> QED
  BY <1>1, <1>2, <1>3, <1>4, <1>5, <1>6, <1>7, <1>8, <1>9, <1>10 DEF Next

\* What leaves the packing: the file, as the packer has it.
LEMMA Leave ==
  ASSUME FitInv, phase \in Packing, Next, phase' \in {"read", "loaded"}
  PROVE  Done(Packer) /\ image' = FileOf(Packer) /\ UNCHANGED <<its, files, ext, round, first>>
<1>1. Close
  BY DEF Next, Lay, Refuse, Laid, Walk, AddName, Named, Build, Emit, NoString, ReadTok, SelfTest, Packing
<1>2. Done(Packer)
  BY <1>1, PackerFields DEF Close, Done
<1>3. image' = Written /\ UNCHANGED <<its, files, ext, round, first>>
  BY <1>1 DEF Close, Written, input
<1>4. Written = FileOf(Packer)
  BY PackerFields DEF Written, FileOf, StartOf, Start, FdtSize
<1> QED
  BY <1>2, <1>3, <1>4

LEMMA PlusZero == ASSUME NEW x \in Nat, NEW y, y = 0 PROVE x + y = x
  OBVIOUS
LEMMA NotEmpty == ASSUME NEW S, NEW s \in Seq(S), s # <<>> PROVE 1 \in DOMAIN s /\ Len(s) # 0
  OBVIOUS

\* The first packing again: what the self-test reads is what was packed.
LEMMA SelfSame ==
  ASSUME FileInv, \A i \in DOMAIN its.images : files[i].len = 0 => files[i].src = "", SelfTest
  PROVE  UNCHANGED <<its, files, ext>>
<1>1. phase = "loaded" /\ its.images # <<>> /\ its' = its
      /\ ext' = Detected /\ files' = [i \in DOMAIN files |-> Loaded(i)]
  BY DEF SelfTest
<1>2. files \in [DOMAIN its.images -> Blob] /\ ext \in Nat /\ its.images \in Seq(ImageSrc)
  BY SourceOK DEF FileInv, FitInv, InputInv, TypeOK
<1>3. ASSUME NEW i \in DOMAIN its.images PROVE Loaded(i) = files[i]
  <2>1. Loaded(i) = IF files[i].len = 0 THEN [src |-> "", len |-> 0] ELSE files[i]
    BY <1>1, LoadedIs
  <2>2. files[i] \in Blob
    BY <1>2
  <2>3. files[i] = [src |-> files[i].src, len |-> files[i].len]
    BY <2>2 DEF Blob
  <2> QED
    BY <2>1, <2>3
<1>4. files' = files
  BY <1>1, <1>2, <1>3
<1>5. 1 \in DOMAIN its.images /\ Len(its.images) # 0
  BY <1>1, <1>2, NotEmpty
<1>6. Detected = ext
  <2>1. rel[1] = 0
    <3>1. Len(rel) = Len(its.images) /\ rel \in Seq(Nat) /\ Len(its.images) # 0
      BY <1>1, <1>5 DEF FileInv, RelInv, FitInv, TypeOK
    <3> QED
      BY <3>1 DEF FileInv, RelInv
  <2>2. Has(Node(1), DataProp) /\ Get(Node(1), DataProp).num = ext + rel[1]
        /\ (ext = 0 => ~Has(Node(1), "data-position"))
    BY <1>1, <1>5, ImageFound
  <2>3. CASE ext = 0
    BY <2>2, <2>3 DEF Detected
  <2>4. CASE ext # 0
    <3>2. ext + rel[1] = ext
      <4>1. ext \in Nat
        BY <1>2
      <4> QED
        BY <2>1, <4>1, PlusZero
    <3>1. DataProp = "data-position"
      BY <2>4 DEF DataProp
    <3> QED
      BY <2>2, <3>1, <3>2 DEF Detected
  <2> QED
    BY <2>3, <2>4
<1> QED
  BY <1>1, <1>4, <1>6

EmptyInv == \A i \in DOMAIN its.images : files[i].len = 0 => files[i].src = ""
NoFile == phase \notin {"read", "loaded"} => image = NoImage
\* What the first packing has done, as a run of the packer; and the second
\* one, as a state of that same run.
FirstRun ==
  /\ round = 1 /\ phase \in Packing => \E H : \E n \in Nat : Trace(H, n) /\ Packer = H[n]
  /\ round = 1 /\ phase \in {"read", "loaded"} => \E H : \E n \in Nat : Run(H, n) /\ image = FileOf(H[n])
SecondRun ==
  round = 2 /\ phase # "failed" =>
    \E H : \E n \in Nat :
      /\ Run(H, n) /\ first = FileOf(H[n])
      /\ phase \in Packing => \E m \in 0 .. n : Packer = H[m]
      /\ phase \in {"read", "loaded"} => image = first
SameInv == EmptyInv /\ NoFile /\ FirstRun /\ SecondRun

LEMMA Phases ==
  ASSUME FitInv PROVE phase \in Packing \/ phase \in {"read", "loaded"} \/ phase = "failed"
  BY DEF FitInv, TypeOK, Packing
LEMMA PhasesNext ==
  ASSUME FitInv' PROVE phase' \in Packing \/ phase' \in {"read", "loaded"} \/ phase' = "failed"
  BY DEF FitInv, TypeOK, Packing

LEMMA Extend ==
  ASSUME NEW H, NEW n \in Nat, Trace(H, n), ~Done(H[n])
  PROVE  \E G : \E m \in Nat : Trace(G, m) /\ G[m] = Step(H[n])
<1> DEFINE G == [t \in 0 .. n + 1 |-> IF t = n + 1 THEN Step(H[n]) ELSE H[t]]
<1>1. n + 1 \in Nat /\ G[n + 1] = Step(H[n])
  OBVIOUS
<1>2. \A t \in 0 .. n : G[t] = H[t]
  OBVIOUS
<1> HIDE DEF G
<1>3. Trace(G, n + 1)
  <2>1. G[0] = Fresh
    BY <1>2 DEF Trace
  <2>2. ASSUME NEW t \in 0 .. n + 1 - 1 PROVE G[t + 1] = Step(G[t]) /\ ~Done(G[t])
    <3>1. t \in 0 .. n /\ G[t] = H[t]
      BY <1>2
    <3>2. CASE t = n
      BY <1>1, <3>1, <3>2
    <3>3. CASE t # n
      <4>1. t \in 0 .. n - 1 /\ t + 1 \in 0 .. n
        BY <3>1, <3>3
      <4>2. H[t + 1] = Step(H[t]) /\ ~Done(H[t])
        BY <4>1 DEF Trace
      <4> QED
        BY <1>2, <3>1, <4>1, <4>2
    <3> QED
      BY <3>2, <3>3
  <2> QED
    BY <2>1, <2>2 DEF Trace
<1> QED
  BY <1>1, <1>3

\* Where a run stops, and where it does not.
LEMMA Stops ==
  ASSUME NEW H, NEW n \in Nat, Run(H, n), NEW m \in 0 .. n
  PROVE  /\ Done(H[m]) => m = n
         /\ ~Done(H[m]) => m + 1 \in 0 .. n /\ H[m + 1] = Step(H[m])
<1>1. CASE m = n
  BY <1>1 DEF Run
<1>2. CASE m # n
  <2>1. m \in 0 .. n - 1 /\ m + 1 \in 0 .. n
    BY <1>2
  <2> QED
    BY <2>1 DEF Run, Trace
<1> QED
  BY <1>1, <1>2

LEMMA PackingRuns ==
  ASSUME FitInv, SameInv, phase \in Packing, Next, phase' \in Packing
  PROVE  FirstRun' /\ SecondRun'
<1>1. Packer' = Step(Packer) /\ ~Done(Packer) /\ UNCHANGED <<its, files, ext, round, first>>
  BY Advance DEF Moved
<1>2. phase' \notin {"read", "loaded"}
  BY DEF Packing
<1>3. ASSUME round = 1 PROVE \E G : \E m \in Nat : Trace(G, m)' /\ Packer' = G[m]
  <2>1. PICK H : \E n \in Nat : Trace(H, n) /\ Packer = H[n]
    BY <1>3 DEF SameInv, FirstRun
  <2>2. PICK n \in Nat : Trace(H, n) /\ Packer = H[n]
    BY <2>1
  <2>3. PICK G : \E m \in Nat : Trace(G, m) /\ G[m] = Step(H[n])
    BY <1>1, <2>2, Extend
  <2>4. PICK m \in Nat : Trace(G, m) /\ G[m] = Step(H[n])
    BY <2>3
  <2>5. Trace(G, m)'
    BY <1>1, <2>4, TraceFixed
  <2> QED
    BY <1>1, <2>2, <2>4, <2>5
<1>4. ASSUME round = 2
      PROVE  \E H : \E n \in Nat :
               Run(H, n)' /\ first' = FileOf(H[n])' /\ \E m \in 0 .. n : Packer' = H[m]
  <2>1. phase # "failed"
    BY DEF Packing
  <2>2. PICK H : \E n \in Nat : Run(H, n) /\ first = FileOf(H[n]) /\ \E m \in 0 .. n : Packer = H[m]
    BY <1>4, <2>1 DEF SameInv, SecondRun
  <2>3. PICK n \in Nat : Run(H, n) /\ first = FileOf(H[n]) /\ \E m \in 0 .. n : Packer = H[m]
    BY <2>2
  <2>4. PICK m \in 0 .. n : Packer = H[m]
    BY <2>3
  <2>5. m + 1 \in 0 .. n /\ Packer' = H[m + 1]
    BY <1>1, <2>3, <2>4, Stops
  <2>6. Run(H, n)' /\ FileOf(H[n])' = FileOf(H[n])
    BY <1>1, <2>3, TraceFixed, StepFixed
  <2> QED
    BY <1>1, <2>3, <2>5, <2>6
<1>5. FirstRun'
  BY <1>1, <1>2, <1>3 DEF FirstRun
<1> QED
  BY <1>1, <1>2, <1>4, <1>5 DEF SecondRun

LEMMA LeavingRuns ==
  ASSUME FitInv, SameInv, phase \in Packing, Next, phase' \in {"read", "loaded"}
  PROVE  FirstRun' /\ SecondRun'
<1>1. Done(Packer) /\ image' = FileOf(Packer) /\ UNCHANGED <<its, files, ext, round, first>>
  BY Leave
<1>2. phase' \notin Packing
  BY DEF Packing
<1>3. ASSUME round = 1 PROVE \E H : \E n \in Nat : Run(H, n)' /\ image' = FileOf(H[n])'
  <2>1. PICK H : \E n \in Nat : Trace(H, n) /\ Packer = H[n]
    BY <1>3 DEF SameInv, FirstRun
  <2>2. PICK n \in Nat : Trace(H, n) /\ Packer = H[n]
    BY <2>1
  <2>3. Run(H, n)
    BY <1>1, <2>2 DEF Run
  <2>4. Run(H, n)' /\ FileOf(H[n])' = FileOf(H[n])
    BY <1>1, <2>3, TraceFixed, StepFixed
  <2> QED
    BY <1>1, <2>2, <2>4
<1>4. ASSUME round = 2
      PROVE  \E H : \E n \in Nat : Run(H, n)' /\ first' = FileOf(H[n])' /\ image' = first'
  <2>1. phase # "failed"
    BY DEF Packing
  <2>2. PICK H : \E n \in Nat : Run(H, n) /\ first = FileOf(H[n]) /\ \E m \in 0 .. n : Packer = H[m]
    BY <1>4, <2>1 DEF SameInv, SecondRun
  <2>3. PICK n \in Nat : Run(H, n) /\ first = FileOf(H[n]) /\ \E m \in 0 .. n : Packer = H[m]
    BY <2>2
  <2>4. PICK m \in 0 .. n : Packer = H[m]
    BY <2>3
  <2>5. m = n
    BY <1>1, <2>3, <2>4, Stops
  <2>6. Run(H, n)' /\ FileOf(H[n])' = FileOf(H[n])
    BY <1>1, <2>3, TraceFixed, StepFixed
  <2> QED
    BY <1>1, <2>3, <2>4, <2>5, <2>6
<1>5. FirstRun'
  BY <1>1, <1>2, <1>3 DEF FirstRun
<1> QED
  BY <1>1, <1>2, <1>4, <1>5 DEF SecondRun

LEMMA ReadingRuns ==
  ASSUME FitInv, SameInv, ReadTok PROVE FirstRun' /\ SecondRun' /\ NoFile'
<1>1. phase = "read" /\ phase' \in {"read", "loaded"}
      /\ UNCHANGED <<its, files, ext, round, first, image>>
  BY DEF ReadTok, input
<1>2. phase' \notin Packing
  BY <1>1 DEF Packing
<1>3. ASSUME round = 1 PROVE \E H : \E n \in Nat : Run(H, n)' /\ image' = FileOf(H[n])'
  <2>1. PICK H : \E n \in Nat : Run(H, n) /\ image = FileOf(H[n])
    BY <1>1, <1>3 DEF SameInv, FirstRun
  <2>2. PICK n \in Nat : Run(H, n) /\ image = FileOf(H[n])
    BY <2>1
  <2>3. Run(H, n)' /\ FileOf(H[n])' = FileOf(H[n])
    BY <1>1, <2>2, TraceFixed, StepFixed
  <2> QED
    BY <1>1, <2>2, <2>3
<1>4. ASSUME round = 2
      PROVE  \E H : \E n \in Nat : Run(H, n)' /\ first' = FileOf(H[n])' /\ image' = first'
  <2>1. PICK H : \E n \in Nat : Run(H, n) /\ first = FileOf(H[n]) /\ image = first
    BY <1>1, <1>4 DEF SameInv, SecondRun
  <2>2. PICK n \in Nat : Run(H, n) /\ first = FileOf(H[n]) /\ image = first
    BY <2>1
  <2>3. Run(H, n)' /\ FileOf(H[n])' = FileOf(H[n])
    BY <1>1, <2>2, TraceFixed, StepFixed
  <2> QED
    BY <1>1, <2>2, <2>3
<1>5. FirstRun'
  BY <1>1, <1>2, <1>3 DEF FirstRun
<1>6. SecondRun'
  BY <1>1, <1>2, <1>4 DEF SecondRun
<1> QED
  BY <1>1, <1>5, <1>6 DEF NoFile

LEMMA RepackingRuns ==
  ASSUME FileInv, SameInv, SelfTest PROVE FirstRun' /\ SecondRun' /\ NoFile'
<1>1. phase = "loaded" /\ round = 1 /\ round' = 2 /\ first' = image /\ phase' = "lay" /\ image' = NoImage
  BY DEF SelfTest
<1>2. UNCHANGED <<its, files, ext>>
  BY SelfSame DEF SameInv, EmptyInv
<1>3. Packer' = Fresh
  BY NextPacker DEF SelfTest, Fresh
<1>4. PICK H : \E n \in Nat : Run(H, n) /\ image = FileOf(H[n])
  BY <1>1 DEF SameInv, FirstRun
<1>5. PICK n \in Nat : Run(H, n) /\ image = FileOf(H[n])
  BY <1>4
<1>6. Run(H, n)' /\ FileOf(H[n])' = FileOf(H[n])
  BY <1>2, <1>5, TraceFixed, StepFixed
<1>7. 0 \in 0 .. n /\ Packer' = H[0]
  BY <1>3, <1>5 DEF Run, Trace
<1>8. SecondRun'
  BY <1>1, <1>5, <1>6, <1>7 DEF SecondRun
<1> QED
  BY <1>1, <1>8 DEF FirstRun, NoFile

LEMMA SameStep ==
  ASSUME FileInv, SameInv, FitInv', Next PROVE SameInv'
<1>0. FitInv
  BY DEF FileInv
<1>1. EmptyInv'
  <2>1. UNCHANGED <<its, files>>
    <3>1. CASE SelfTest
      BY <3>1, SelfSame DEF SameInv, EmptyInv
    <3>2. CASE ~SelfTest
      BY <3>2 DEF Next, Lay, Refuse, Laid, Walk, AddName, Named, Build, Emit, NoString, Close, ReadTok, input
    <3> QED
      BY <3>1, <3>2
  <2> QED
    BY <2>1 DEF SameInv, EmptyInv
<1>2. CASE phase \in Packing
  <2>1. CASE phase' \in Packing \/ phase' = "failed"
    <3>1. image' = image
      BY <1>2, <2>1 DEF Next, Lay, Refuse, Laid, Walk, AddName, Named, Build, Emit, NoString, Close,
         ReadTok, SelfTest, Packing
    <3>2. phase \notin {"read", "loaded"} /\ phase' \notin {"read", "loaded"}
      BY <1>2, <2>1 DEF Packing
    <3>3. NoFile'
      BY <3>1, <3>2 DEF SameInv, NoFile, NoImage
    <3>4. CASE phase' = "failed"
      BY <1>1, <3>3, <3>4 DEF SameInv, FirstRun, SecondRun, Packing
    <3> QED
      BY <1>0, <1>1, <1>2, <2>1, <3>3, <3>4, PackingRuns DEF SameInv
  <2>2. CASE phase' \in {"read", "loaded"}
    <3>1. NoFile'
      BY <2>2 DEF NoFile
    <3> QED
      BY <1>0, <1>1, <1>2, <2>2, <3>1, LeavingRuns DEF SameInv
  <2> QED
    BY <2>1, <2>2, PhasesNext
<1>3. CASE phase \in {"read", "loaded"}
  <2>1. ReadTok \/ SelfTest
    BY <1>3 DEF Next, Lay, Refuse, Laid, Walk, AddName, Named, Build, Emit, NoString, Close
  <2> QED
    BY <1>0, <1>1, <2>1, ReadingRuns, RepackingRuns DEF SameInv
<1>4. CASE phase = "failed"
  BY <1>4 DEF Next, Lay, Refuse, Laid, Walk, AddName, Named, Build, Emit, NoString, Close, ReadTok, SelfTest
<1> QED
  BY <1>0, <1>2, <1>3, <1>4, Phases

LEMMA SameStart == Init => SameInv
<1> SUFFICES ASSUME Init PROVE SameInv
  OBVIOUS
<1>1. EmptyInv
  BY EmptyFiles DEF Init, EmptyInv
<1>2. NoFile /\ SecondRun
  BY DEF Init, NoFile, SecondRun
<1>3. Packer = Fresh
  BY DEF Init, Packer, Fresh
<1>4. \E H : \E n \in Nat : Trace(H, n) /\ Packer = H[n]
  <2> DEFINE H == [t \in {0} |-> Fresh]
  <2>1. H[0] = Fresh
    OBVIOUS
  <2> HIDE DEF H
  <2>2. Trace(H, 0)
    <3>1. \A t \in 0 .. 0 - 1 : FALSE
      OBVIOUS
    <3> QED
      BY <2>1, <3>1 DEF Trace
  <2>3. 0 \in Nat
    OBVIOUS
  <2> QED
    BY <1>3, <2>1, <2>2, <2>3
<1>5. FirstRun
  BY <1>4 DEF Init, FirstRun
<1> QED
  BY <1>1, <1>2, <1>5 DEF SameInv

\* An image unpacked and packed again is the same image, byte for byte, for any
\* source with an image, any files, either mode and any offset (cmd_selftest,
\* fit_pack.py:543-594): the mode, the offset and the files found in it are
\* those it was packed from, and the packer is determined by them.
THEOREM FitRepackSame == Spec => []RepackSame
<1>1. FileInv /\ SameInv /\ FitInv' /\ [Next]_vars => SameInv'
  <2>1. ASSUME FileInv, SameInv, UNCHANGED vars PROVE SameInv'
    <3>1. UNCHANGED <<its, files, ext, round, first, phase, image, Packer>>
      BY <2>1 DEF vars, input, strings, block, Packer, At
    <3>2. EmptyInv' /\ NoFile'
      BY <2>1, <3>1 DEF SameInv, EmptyInv, NoFile, NoImage
    <3>3. \A H : \A n : /\ Trace(H, n)' = Trace(H, n) /\ Run(H, n)' = Run(H, n)
                        /\ FileOf(H[n])' = FileOf(H[n])
      BY <3>1, TraceFixed, StepFixed
    <3>4. FirstRun'
      BY <2>1, <3>1, <3>3 DEF SameInv, FirstRun
    <3>5. SecondRun'
      BY <2>1, <3>1, <3>3 DEF SameInv, SecondRun
    <3> QED
      BY <3>2, <3>4, <3>5 DEF SameInv
  <2> QED
    BY <2>1, SameStep
<1>2. FileInv /\ SameInv => RepackSame
  <2> SUFFICES ASSUME FileInv, SameInv, round = 2, image.state = "whole" PROVE image = first
    BY DEF RepackSame
  <2>1. image # NoImage
    BY DEF NoImage
  <2>2. phase \in {"read", "loaded"}
    BY <2>1 DEF SameInv, NoFile
  <2> QED
    BY <2>2 DEF SameInv, SecondRun
<1> QED
  BY <1>1, <1>2, SameStart, FitFileInvariant, FitInvariant, PTL DEF Spec
=============================================================================
