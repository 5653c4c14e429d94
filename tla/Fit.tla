--------------------------------- MODULE Fit ---------------------------------
(***************************************************************************)
(* tools/fit_pack.py: the FIT image of U-Boot (Mode A, external data at    *)
(* relative offsets behind the tree, for the Rockchip SPL) and of the      *)
(* kernel (Mode B, absolute positions, for mainline U-Boot); read_fdt, the *)
(* reader of its self-test; and the self-test, which unpacks an image and  *)
(* packs it again.                                                         *)
(*                                                                         *)
(* Each loop of the code is an action: blobs, names, strings, nodes,       *)
(* tokens, tokens read back.  Positions are bytes; a name or a value is    *)
(* its length and what it stands for.  The code encodes the tree twice,    *)
(* with 0 and with the real /totalsize, four bytes either way: the model   *)
(* encodes it once and fills the number in when the file is written.  A    *)
(* token carries the node of the tree it was emitted for, which the reader *)
(* has to find out again.                                                  *)
(***************************************************************************)
EXTENDS Integers, Sequences

CONSTANTS
  Trees,      \* the image sources (.its) of this instance
  Contents,   \* what the bytes of a file or a value can be
  Blobs,      \* the files they include
  ExtOffsets, \* external_offset: 0 for Mode A
  PropNames, NodeNames,
  NameLen,    \* length of a name
  ValueLen,   \* length of a value copied from the source
  BlockLens   \* lengths in which an SPL loads

Blob == [src : Contents, len : Nat]
ImageSrc == [name : NodeNames, before : Seq(PropNames), data : BOOLEAN,
             after : Seq(PropNames), hash : {"none", "algo", "bare"}]
Tree == [images : Seq(ImageSrc), conf : BOOLEAN, described : BOOLEAN]
OwnProps == {"version", "totalsize", "timestamp", "description", "#address-cells", "data",
             "data-size", "data-offset", "data-position", "value", "algo", "default"}
OwnNodes == {"", "images", "configurations", "hash", "conf"}

ASSUME FitConstants ==
  /\ Trees \subseteq Tree /\ Blobs \subseteq Blob
  /\ ExtOffsets \subseteq Nat /\ BlockLens \subseteq Nat \ {0}
  /\ OwnProps \subseteq PropNames /\ PropNames \union {"", "garbage"} \subseteq Contents /\ OwnNodes \subseteq NodeNames
  /\ NameLen \in [PropNames \union NodeNames -> Nat] /\ ValueLen \in [PropNames -> Nat]
\* The sources name their images apart and leave to the packer what it adds
\* (boards/*/fit/*.its); an empty file has no content.
Derived == {"data-size", "data-offset", "data-position"}
ASSUME SourceNames ==
  \A t \in Trees : \A i \in DOMAIN t.images :
    /\ \A j \in DOMAIN t.images : t.images[i].name = t.images[j].name => i = j
    /\ \A m \in DOMAIN t.images[i].before : t.images[i].before[m] \notin Derived
    /\ \A m \in DOMAIN t.images[i].after : t.images[i].after[m] \notin Derived
ASSUME EmptyFiles == \A b \in Blobs : b.len = 0 => b.src = ""

FIT_ALIGN == 512
HEADER == 56        \* HEADER_SIZE + RSVMAP_SIZE

VARIABLES
  its, files, ext,    \* the source, the included files, external_offset
  round,              \* 1: pack; 2: the self-test's repack
  phase, k,           \* where pack is; the index of the running loop
  rel, bufPtr,        \* the layout of the blobs
  names, strs, strLen,  \* the names of the source; the string table
  tree, toks, structLen, \* the final tree; the struct block
  image,              \* the file written
  pos, path, read,    \* the reader: position, open nodes, properties read
  first               \* the image the self-test started from

input == <<its, files, ext, round, first>>
strings == <<names, strs, strLen>>
block == <<tree, toks, structLen>>
reader == <<pos, path, read>>
vars == <<input, phase, k, rel, bufPtr, strings, block, image, reader>>

NoImage == [state |-> "none"]
Garbage == [src |-> "garbage", len |-> 0]
AlignUp(x, a) == ((x + a - 1) \div a) * a

-----------------------------------------------------------------------------
(* The final tree, as the list of its tokens, in mkimage's order.          *)

\* of a node's begin token: its parent; of any other: the node it is in
Tok(node, t, n, len, num, src) ==
  [node |-> node, t |-> t, name |-> n, len |-> len, num |-> num, src |-> src]
Begin(node, n) == Tok(node, "begin", n, 0, 0, "")
EndNode(node) == Tok(node, "end", "", 0, 0, "")
End == Tok(<<>>, "stop", "", 0, 0, "")
U32(node, p, n) == Tok(node, "prop", p, 4, n, "")
Hash(node, src) == Tok(node, "prop", "value", 32, 0, src)
Copied(node, p) == Tok(node, "prop", p, ValueLen[p], 0, p)
Copies(node, ps) == [i \in DOMAIN ps |-> Copied(node, ps[i])]

Root == <<"">>
Images == <<"", "images">>
Confs == <<"", "configurations">>
Conf == <<"", "configurations", "conf">>
Node(i) == <<"", "images", its.images[i].name>>
HashNode(i) == <<"", "images", its.images[i].name, "hash">>

DataProp == IF ext # 0 THEN "data-position" ELSE "data-offset"
ImageNode(i, off) ==
  LET src == its.images[i]
  IN <<Begin(Images, src.name), U32(Node(i), "data-size", files[i].len),
       U32(Node(i), DataProp, ext + off)>>
     \o Copies(Node(i), src.before \o src.after)
     \o (IF src.hash # "none"
         THEN <<Begin(Node(i), "hash"), Hash(HashNode(i), files[i].src),
                Copied(HashNode(i), "algo"), EndNode(HashNode(i))>>
         ELSE <<>>)
     \o <<EndNode(Node(i))>>
TreeHead ==
  <<Begin(<<>>, "")>>
  \o (IF ext # 0 THEN <<U32(Root, "timestamp", 0)>>
      ELSE <<U32(Root, "version", 0), U32(Root, "totalsize", 0), U32(Root, "timestamp", 0)>>)
  \o <<Copied(Root, "description"), Copied(Root, "#address-cells"), Begin(Root, "images")>>
TreeTail ==
  <<EndNode(Images), Begin(Root, "configurations"), Copied(Confs, "default")>>
  \o (IF its.conf THEN <<Begin(Confs, "conf"), Copied(Conf, "description"), EndNode(Conf)>> ELSE <<>>)
  \o <<EndNode(Confs), EndNode(Root), End>>

\* the names of one image of the source, with the unused "data"; what mkimage adds
ImageNames(i) ==
  LET src == its.images[i]
  IN src.before \o (IF src.data THEN <<"data">> ELSE <<>>) \o src.after
     \o (IF src.hash = "algo" THEN <<"algo">> ELSE <<>>)
Added ==
  IF ext # 0 THEN <<"timestamp", "value", "data-position", "data-size">>
  ELSE <<"timestamp", "totalsize", "version", "value", "data-offset", "data-size">>

Known(table, n) == \E i \in DOMAIN table : table[i].name = n
StrOff(table, n) == table[CHOOSE i \in DOMAIN table : table[i].name = n].off

-----------------------------------------------------------------------------
Init ==
  /\ its \in Trees /\ ext \in ExtOffsets
  /\ files \in [DOMAIN its.images -> Blobs]
  /\ round = 1 /\ phase = "lay" /\ k = 0
  /\ rel = <<>> /\ bufPtr = 0
  /\ names = <<>> /\ strs = <<>> /\ strLen = 0
  /\ tree = <<>> /\ toks = <<>> /\ structLen = 0
  /\ image = NoImage /\ first = NoImage
  /\ pos = 0 /\ path = <<>> /\ read = <<>>

\* pack, one image: its blob goes behind the ones before it
Lay ==
  /\ phase = "lay" /\ k < Len(its.images)
  /\ its.images[k + 1].data
  /\ rel' = Append(rel, bufPtr)
  /\ bufPtr' = bufPtr + (IF ext # 0 THEN files[k + 1].len ELSE AlignUp(files[k + 1].len, FIT_ALIGN))
  /\ k' = k + 1
  /\ UNCHANGED <<input, phase, strings, block, image, reader>>

\* an image without /incbin/, a root without description: pack ends without a file
Refuse ==
  /\ \/ phase = "lay" /\ k < Len(its.images) /\ ~its.images[k + 1].data
     \/ phase = "nodes" /\ ~its.described
  /\ phase' = "failed"
  /\ UNCHANGED <<input, k, rel, bufPtr, strings, block, image, reader>>

Laid ==
  /\ phase = "lay" /\ k = Len(its.images)
  /\ phase' = "names" /\ k' = 0
  /\ names' = <<"description", "#address-cells">>
  /\ UNCHANGED <<input, rel, bufPtr, strs, strLen, block, image, reader>>

\* _build_strings: walk the source, then one name at a time
Walk ==
  /\ phase = "names"
  /\ IF k < Len(its.images)
     THEN names' = names \o ImageNames(k + 1) /\ k' = k + 1 /\ phase' = phase
     ELSE /\ names' = names \o <<"default">> \o (IF its.conf THEN <<"description">> ELSE <<>>) \o Added
          /\ k' = 0 /\ phase' = "strings"
  /\ UNCHANGED <<input, rel, bufPtr, strs, strLen, block, image, reader>>
\* Mutant: a name starts on the zero that ends the one before it.
AddNameShared ==
  /\ phase = "strings" /\ k < Len(names)
  /\ LET n == names[k + 1]
     IN IF Known(strs, n) THEN UNCHANGED <<strs, strLen>>
        ELSE strs' = Append(strs, [name |-> n, off |-> strLen - 1]) /\ strLen' = strLen + NameLen[n] + 1
  /\ k' = k + 1
  /\ UNCHANGED <<input, phase, rel, bufPtr, names, block, image, reader>>
AddName ==
  /\ phase = "strings" /\ k < Len(names)
  /\ LET n == names[k + 1]
     IN IF Known(strs, n) THEN UNCHANGED <<strs, strLen>>
        ELSE strs' = Append(strs, [name |-> n, off |-> strLen]) /\ strLen' = strLen + NameLen[n] + 1
  /\ k' = k + 1
  /\ UNCHANGED <<input, phase, rel, bufPtr, names, block, image, reader>>

Named ==
  /\ phase = "strings" /\ k = Len(names)
  /\ phase' = "nodes" /\ k' = 0 /\ tree' = TreeHead
  /\ UNCHANGED <<input, rel, bufPtr, strings, toks, structLen, image, reader>>

\* _build_final_tree
Build ==
  /\ phase = "nodes" /\ its.described
  /\ IF k < Len(its.images)
     THEN tree' = tree \o ImageNode(k + 1, rel[k + 1]) /\ k' = k + 1 /\ phase' = phase
     ELSE tree' = tree \o TreeTail /\ k' = 0 /\ phase' = "tokens"
  /\ UNCHANGED <<input, rel, bufPtr, strings, toks, structLen, image, reader>>

\* Mutant: values are not padded.
TokSizeUnpadded(x) ==
  CASE x.t = "begin" -> 4 + AlignUp(NameLen[x.name] + 1, 4)
    [] x.t = "prop" -> 12 + x.len
    [] OTHER -> 4
\* _emit_struct, one token, padded to four bytes
TokSize(x) ==
  CASE x.t = "begin" -> 4 + AlignUp(NameLen[x.name] + 1, 4)
    [] x.t = "prop" -> 12 + AlignUp(x.len, 4)
    [] OTHER -> 4
Emit ==
  /\ phase = "tokens" /\ k < Len(tree)
  /\ LET x == tree[k + 1]
     IN /\ x.t = "prop" => Known(strs, x.name)
        /\ toks' = Append(toks, [at |-> HEADER + structLen, x |-> x,
                                 off |-> IF x.t = "prop" THEN StrOff(strs, x.name) ELSE 0])
        /\ structLen' = structLen + TokSize(x)
  /\ k' = k + 1
  /\ UNCHANGED <<input, phase, rel, bufPtr, strings, tree, image, reader>>
\* str_off[pname] of a name that is in no table
NoString ==
  /\ phase = "tokens" /\ k < Len(tree)
  /\ tree[k + 1].t = "prop" /\ ~Known(strs, tree[k + 1].name)
  /\ phase' = "failed"
  /\ UNCHANGED <<input, k, rel, bufPtr, strings, block, image, reader>>

\* sizes, the two refusals, the header and the file: tree, gap, external data
FdtSize == HEADER + structLen + strLen
\* Mutant: the external data follows the tree unaligned.
StartUnaligned == IF ext # 0 THEN ext ELSE FdtSize
Start == IF ext # 0 THEN ext ELSE AlignUp(FdtSize, FIT_ALIGN)
\* Mutant: the string table is forgotten.
OverlapsStruct == ext # 0 /\ ext < HEADER + structLen
Overlaps == ext # 0 /\ ext < FdtSize
Close ==
  /\ phase = "tokens" /\ k = Len(tree)
  /\ IF Overlaps
     THEN phase' = "failed" /\ UNCHANGED <<image, reader>>
     ELSE /\ phase' = "read"
          /\ image' = [state |-> "whole", fdt |-> FdtSize, start |-> Start, size |-> Start + bufPtr,
                       toks |-> toks, strs |-> strs,
                       segs |-> [i \in DOMAIN rel |-> [at |-> Start + rel[i], blob |-> files[i]]]]
          /\ pos' = HEADER /\ path' = <<>> /\ read' = <<>>
  /\ k' = 0
  /\ UNCHANGED <<input, rel, bufPtr, strings, block>>

-----------------------------------------------------------------------------
(* read_fdt: walks the struct block with the sizes it finds there.         *)

TokAt(p) == \E i \in DOMAIN image.toks : image.toks[i].at = p
TokOf(p) == image.toks[CHOOSE i \in DOMAIN image.toks : image.toks[i].at = p]
NameAt(o) ==
  IF \E i \in DOMAIN image.strs : image.strs[i].off = o
  THEN image.strs[CHOOSE i \in DOMAIN image.strs : image.strs[i].off = o].name ELSE "garbage"
NumOf(x) == IF x.name = "totalsize" THEN image.size ELSE x.num

ReadTok ==
  /\ phase = "read" /\ TokAt(pos)
  /\ LET tok == TokOf(pos)
         x == tok.x
     IN \/ /\ x.t = "begin"
           /\ path' = Append(path, x.name) /\ pos' = AlignUp(pos + 4 + NameLen[x.name] + 1, 4)
           /\ UNCHANGED <<read, phase>>
        \/ /\ x.t = "prop"
           /\ read' = Append(read, [path |-> path, name |-> NameAt(tok.off), len |-> x.len,
                                    num |-> NumOf(x), src |-> x.src, at |-> pos])
           /\ pos' = AlignUp(pos + 12 + x.len, 4)
           /\ UNCHANGED <<path, phase>>
        \/ /\ x.t = "end"
           /\ path' = SubSeq(path, 1, Len(path) - 1) /\ pos' = pos + 4
           /\ phase' = IF Len(path) = 1 THEN "loaded" ELSE phase
           /\ UNCHANGED read
  /\ UNCHANGED <<input, k, rel, bufPtr, strings, block, image>>

\* what the consumer finds of an image: get_prop, _image_data_loc, the bytes there
Has(node, p) == \E e \in DOMAIN read : read[e].path = node /\ read[e].name = p
Get(node, p) == read[CHOOSE e \in DOMAIN read : read[e].path = node /\ read[e].name = p]
DataAt(i) ==
  IF Has(Node(i), "data-position") THEN Get(Node(i), "data-position").num
  ELSE AlignUp(image.fdt, FIT_ALIGN) + Get(Node(i), "data-offset").num
Cut(p, n) ==
  IF n = 0 THEN [src |-> "", len |-> 0]
  ELSE IF \E i \in DOMAIN image.segs : image.segs[i].at = p /\ image.segs[i].blob.len = n
       THEN image.segs[CHOOSE i \in DOMAIN image.segs :
                         image.segs[i].at = p /\ image.segs[i].blob.len = n].blob
       ELSE Garbage
Loaded(i) == Cut(DataAt(i), Get(Node(i), "data-size").num)

\* Mutant: the external offset is counted from the end of the tree.
DetectedBehind == IF Has(Node(1), "data-position") THEN DataAt(1) - image.fdt ELSE 0
Detected == IF Has(Node(1), "data-position") THEN Get(Node(1), "data-position").num ELSE 0

\* cmd_selftest: the mode is that of the first image; its blobs, packed again
SelfTest ==
  /\ phase = "loaded" /\ round = 1 /\ its.images # <<>>
  /\ \A i \in DOMAIN its.images :
       Has(Node(i), "data-size") /\ (Has(Node(i), "data-position") \/ Has(Node(i), "data-offset"))
  /\ ext' = Detected
  /\ files' = [i \in DOMAIN files |-> Loaded(i)]
  /\ first' = image /\ round' = 2
  /\ phase' = "lay" /\ k' = 0 /\ rel' = <<>> /\ bufPtr' = 0
  /\ names' = <<>> /\ strs' = <<>> /\ strLen' = 0
  /\ tree' = <<>> /\ toks' = <<>> /\ structLen' = 0
  /\ image' = NoImage /\ pos' = 0 /\ path' = <<>> /\ read' = <<>>
  /\ UNCHANGED its

Next ==
  \/ Lay \/ Refuse \/ Laid \/ Walk \/ AddName \/ Named \/ Build \/ Emit \/ NoString \/ Close
  \/ ReadTok \/ SelfTest
Spec == Init /\ [][Next]_vars

-----------------------------------------------------------------------------
Item == [node : Seq(NodeNames), t : {"begin", "prop", "end", "stop"}, name : PropNames \union NodeNames, len : Nat,
         num : Nat, src : Contents]
String == [name : PropNames, off : Nat]
Token == [at : Nat, x : Item, off : Nat]
TypeOK ==
  /\ its \in Trees /\ ext \in Nat
  /\ round \in {1, 2}
  /\ phase \in {"lay", "names", "strings", "nodes", "tokens", "read", "loaded", "failed"}
  /\ k \in Nat /\ rel \in Seq(Nat) /\ bufPtr \in Nat /\ strLen \in Nat /\ structLen \in Nat
  /\ names \in Seq(PropNames) /\ strs \in Seq(String)
  /\ tree \in Seq(Item) /\ toks \in Seq(Token)
  /\ image.state \in {"none", "whole"} /\ pos \in Nat

\* The blobs of an image lie apart from one another, behind the tree and inside
\* the file, in either mode and for any lengths (fit_pack.py:342-352, 375-384).
BlobsApart ==
  image.state = "whole" =>
    /\ image.fdt <= image.start
    /\ \A i \in DOMAIN image.segs :
         /\ image.start <= image.segs[i].at
         /\ image.segs[i].at + image.segs[i].blob.len <= image.size
         /\ \A j \in 1 .. i - 1 :
              image.segs[j].at + image.segs[j].blob.len <= image.segs[i].at

\* The reader, which knows only the sizes written before each value, meets
\* every token where it was written and ends at the root's end; the properties
\* come back in their order, each once, in its own node and under its own name
\* (fit_pack.py:195-220, 282-306, 406-444).
Same(r, x) == r.path = x.node /\ r.name = x.name /\ r.len = x.len
ReadsBack ==
  /\ phase = "read" => TokAt(pos)
  /\ phase = "loaded" =>
       /\ path = <<>>
       /\ \A e \in DOMAIN read : TokAt(read[e].at) /\ Same(read[e], TokOf(read[e].at).x)
       /\ \A i \in DOMAIN image.toks :
            image.toks[i].x.t = "prop" => \E e \in DOMAIN read : read[e].at = image.toks[i].at
       /\ \A e \in DOMAIN read : \A f \in 1 .. e - 1 : read[f].at < read[e].at

\* What the boot stage computes from the tree it reads finds each image's own
\* bytes, with their hash, and a stage that loads only /totalsize rounded up
\* to its block length has them all (fit_pack.py:517-540, spl_boot_image.c as
\* quoted at :371).
Loadable ==
  phase = "loaded" =>
    \A i \in DOMAIN its.images :
      /\ Has(Node(i), "data-size") /\ Loaded(i).len = files[i].len
      /\ files[i].len > 0 => Loaded(i) = files[i]
      /\ its.images[i].hash # "none" =>
           Has(HashNode(i), "value") /\ Get(HashNode(i), "value").src = files[i].src
      /\ ext = 0 =>
           \A bl \in BlockLens :
             Has(Root, "totalsize") /\ DataAt(i) + files[i].len <= AlignUp(Get(Root, "totalsize").num, bl)

\* An image unpacked and packed again is the same image: the mode and the
\* offset found in it are the ones it was packed with (cmd_selftest).
RepackSame == round = 2 /\ image.state = "whole" => image = first
=============================================================================
