---------------------------- MODULE BuildsProofs ----------------------------
(***************************************************************************)
(* Proofs about Builds: what a build that ends well leaves, for every set  *)
(* of boards and architectures and any number of builds, failures, kills   *)
(* and new sources.                                                        *)
(*                                                                         *)
(* Five invariants carry the argument.  Control says which command a step  *)
(* belongs to; RootfsInv that the packages in the shared output/ are of    *)
(* the architecture of .config except while an architecture switch has     *)
(* emptied it; WifiInv that a whole build has its module once it has left  *)
(* the kernel, and that a module in the target directory is of the         *)
(* architecture of .config; UBootInv what the U-Boot pieces were made from *)
(* at each step; OpenwrtInv that only a whole archive is made from.        *)
(***************************************************************************)
EXTENDS Builds, TLAPS

\* Which command a step belongs to, and which flags it can have.
Control ==
    /\ run.what \in {"none", "all", "owall", "linux"} => run.flags = {}
    /\ run.what = "uboot" => "reconfigure" \notin run.flags
    /\ run.what \in {"rootfs", "openwrt"} => "sd" \notin run.flags
    /\ run.what = "none" => run.at = "end"
    /\ run.at \in {"kernel", "module"} => run.what \in {"all", "linux"}
    /\ run.at \in {"worktree", "sdcopy", "remove"} => run.what = "uboot" /\ "sd" \in run.flags
    /\ run.at = "mrproper" => run.what = "uboot" /\ "clean" \in run.flags /\ "sd" \notin run.flags
    /\ run.at \in {"uboot", "artifacts"} => run.what \in {"all", "uboot"}
    /\ run.at \in {"guard", "brclean", "brconfig", "brmake"} => run.what \in {"all", "rootfs"}
    /\ run.at = "brclean" => "clean" \in run.flags
    /\ run.at \in {"feeds", "seed", "tarball", "archive", "owclean", "owmake", "verify"}
          => run.what \in {"owall", "openwrt"}

\* The packages are of the configured architecture, and a step that would mix
\* architectures is only reached with an empty output/.
Clear == br.cfg = None \/ br.cfg = Arch[run.board]
RootfsInv ==
    /\ br.pkgs \subseteq {br.cfg} /\ None \notin br.pkgs
    /\ run.at = "brclean" => Clear \/ "reconfigure" \in run.flags
    /\ run.at = "brconfig" => Clear \/ (br.pkgs = {} /\ "reconfigure" \in run.flags)
    /\ run.at = "brmake" => br.cfg = Arch[run.board]
    /\ run.at = "end" /\ run.what \in {"rootfs", "all"} =>
          br.tar # None /\ br.tar.archs = {Arch[run.board]}

\* A whole build has its module from the moment it leaves the kernel, and what lies
\* in the target directory is of the configured architecture.
Native(ko, arch) == ko = None \/ Arch[ko[1]] = arch
WifiInv ==
    /\ run.what = "all" /\ run.board \in Wifi /\ run.at \notin {"kernel", "module"}
          => kern[run.board].ko > 0
    /\ run.what = "all" /\ run.at = "end" /\ run.board \in Hooks =>
          br.tar.ko = <<run.board, kern[run.board].ko>>
    /\ Native(br.ko, br.cfg)
    /\ run.at = "brconfig" => Clear \/ br.ko = None
    /\ run.at = "end" /\ run.what \in {"rootfs", "all"} => Native(br.tar.ko, Arch[run.board])

\* Nothing in the tree is older than the sources.
FreshItb(t) == t.itb \in {0, Faulty, source[run.board]}
Fresh(t) == t.code \in {0, source[run.board]} /\ t.dtb \in {0, source[run.board]}
            /\ t.mkimage \in {0, source[run.board]} /\ FreshItb(t)
Current(t) == t.code = source[run.board] /\ t.dtb = source[run.board]
Packaged(t) == run.board \in Atf => t.itb = source[run.board]

\* Where a command is that has left a good make of the U-Boot tree behind.
Left == run.at \in {"artifacts", "guard", "brclean", "brconfig", "brmake", "end"}
UBootInv ==
    /\ "sd" \in run.flags /\ run.at \in {"uboot", "artifacts"} => Fresh(wt)
    /\ "sd" \in run.flags /\ run.at = "sdcopy" => Current(wt)
    /\ "sd" \in run.flags /\ (run.at = "remove" \/ (run.at = "end" /\ run.what = "uboot"))
          => Current(sd[run.board])
    /\ "sd" \notin run.flags /\ "clean" \in run.flags /\ run.what = "uboot"
          /\ run.at \in {"uboot", "artifacts"} => Fresh(uboot[run.board])
    /\ "sd" \notin run.flags /\ "clean" \in run.flags /\ run.what = "uboot"
          /\ run.at = "end" => FreshItb(uboot[run.board])
    /\ "sd" \notin run.flags /\ run.what \in {"all", "uboot"}
          /\ (\/ run.at = "artifacts" /\ run.odd # "make"
              \/ /\ run.at \in {"guard", "brclean", "brconfig", "brmake", "end"}
                 /\ run.odd # "make" \/ "clean" \in run.flags)
          => Current(uboot[run.board]) /\ uboot[run.board].mkimage = source[run.board]
    /\ "sd" \notin run.flags /\ run.what \in {"all", "uboot"} /\ Left /\ run.odd = "no"
          => Packaged(uboot[run.board])

\* The archive is whole once it has been compared.
OpenwrtInv == run.at \in {"owclean", "owmake"} => ow[run.board].tgz = "good"

-----------------------------------------------------------------------------
\* TypeOK, one part per group of variables that change together.
RunOK == run \in [what : Commands \cup {"none"}, board : Boards,
                  flags : SUBSET {"clean", "reconfigure", "sd"}, at : StepNames \cup {"end"},
                  odd : Odds]
SourceOK == source \in [Boards -> Versions]
KernOK == kern \in [Boards -> [image : Built, ko : Built]]
UBootOK == /\ uboot \in [Boards -> Pieces] /\ wt \in Pieces
           /\ sd \in [Boards -> [code : Built, dtb : Built]]
BrOK == /\ br \in [cfg : Archs \cup {None}, pkgs : SUBSET Archs, ko : Ko, tar : Tars \cup {None}]
        /\ br.tar # None => br.cfg # None
OwTrees == [feeds : {"none", "updated", "installed"}, cfg : {"none", "bare", "full"},
            tgz : {"none", "torn", "good"},
            tree : {"none", "torn", "bare", "full"}]
OwOK == ow \in [Boards -> OwTrees]
MenuOK == menu \in Menus /\ breaks \in 0..MaxBreaks

LEMMA TypeParts ==
  TypeOK <=> RunOK /\ SourceOK /\ KernOK /\ UBootOK /\ BrOK /\ OwOK /\ MenuOK
  BY DEF TypeOK, RunOK, SourceOK, KernOK, UBootOK, BrOK, OwTrees, OwOK, MenuOK

\* A command goes to a step of some builder, or ends.
LEMMA FollowStep == ASSUME NEW step, NEW what, NEW b, NEW flags
                    PROVE  Follow(step, what, b, flags) \in StepNames \cup {"end"}
  BY DEF Follow, After, StepNames

\* run moves on, dies, starts or rests.
LEMMA RunTypes == ASSUME RunOK, [Next]_vars PROVE RunOK'
<1>1. ASSUME NEW what \in Commands, NEW b \in Boards, NEW flags \in Flags(what),
             Start(what, b, flags)
      PROVE  RunOK'
  <2>1. flags \in SUBSET {"clean", "reconfigure", "sd"}
    BY DEF Flags
  <2>2. First(what, flags) \in StepNames
    BY DEF First, StepNames
  <2> QED  BY <1>1, <2>1, <2>2 DEF Start, RunOK, Odds
<1>2. CASE Die \/ Verify \/ \E b \in Boards : Setup(b)
  <2>1. CASE Verify
    BY <2>1 DEF Verify, NoRun, B, RunOK, Odds
  <2>2. CASE Die \/ \E b \in Boards : Setup(b)
    BY <2>2 DEF Die, Setup, NoRun, RunOK, Odds
  <2> QED  BY <1>2, <2>1, <2>2
<1>3. CASE Advance
  BY <1>3, FollowStep DEF Advance, NextStep, RunOK
<1>4. CASE UBootOddError \/ BinmanFails
  <2>1. PICK odd \in {"make", "binman"} : run' = [run EXCEPT !.at = NextStep, !.odd = odd]
    BY <1>4 DEF UBootOddError, BinmanFails
  <2> QED  BY <2>1, FollowStep DEF NextStep, RunOK, Odds
<1>5. CASE Tarball
  <2>1. PICK step \in StepNames \cup {"end"} : run' = [run EXCEPT !.at = step]
    BY <1>5, FollowStep DEF Tarball, Unpacked, StepNames
  <2> QED  BY <2>1 DEF RunOK
<1>6. CASE UNCHANGED vars
  BY <1>6 DEF vars, RunOK
<1> QED
  BY <1>1, <1>2, <1>3, <1>4, <1>5, <1>6 DEF Next, Kernel, Module, Worktree, Mrproper, UBoot,
     UBootError, Artifacts, SdCopy, Remove, Guard, BrClean, BrConfig, BrMake, Feeds, Seed,
     Archive, OwClean, OwMake, Stops, MrproperCut, SdCopyCut, BrCleanCut, BrMakeCut,
     FeedsCut, OwMakeCut

\* The kernel's image is made anew and its module kept.
LEMMA KernelMade ==
  ASSUME RunOK, KernOK, Kernel
  PROVE  kern' = [kern EXCEPT ![run.board] = [image |-> source[run.board], ko |-> kern[run.board].ko]]
<1>1. run.board \in Boards /\ kern[run.board] \in [image : Built, ko : Built]
  BY DEF RunOK, KernOK
<1>2. [kern[run.board] EXCEPT !.image = source[run.board]]
        = [image |-> source[run.board], ko |-> kern[run.board].ko]
  BY <1>1
<1>3. kern' = [kern EXCEPT ![run.board] = [kern[run.board] EXCEPT !.image = source[run.board]]]
  BY DEF Kernel, B
<1> QED  BY <1>2, <1>3

LEMMA ModuleMade ==
  ASSUME RunOK, KernOK, Module
  PROVE  kern' = [kern EXCEPT ![run.board] =
                    [image |-> kern[run.board].image,
                     ko |-> IF kern[run.board].ko > 0 THEN kern[run.board].ko ELSE source[run.board]]]
<1> DEFINE ko == IF kern[run.board].ko > 0 THEN kern[run.board].ko ELSE source[run.board]
<1>1. run.board \in Boards /\ kern[run.board] \in [image : Built, ko : Built]
  BY DEF RunOK, KernOK
<1>2. kern' = [kern EXCEPT ![run.board] = [kern[run.board] EXCEPT !.ko = ko]]
  BY DEF Module, B
<1> HIDE DEF ko
<1>3. [kern[run.board] EXCEPT !.ko = ko] = [image |-> kern[run.board].image, ko |-> ko]
  BY <1>1
<1> QED  BY <1>2, <1>3 DEF ko

\* The sources and what the kernel builder made of them.
LEMMA KernTypes == ASSUME BuildConstants, RunOK, SourceOK, KernOK, [Next]_vars
                   PROVE  SourceOK' /\ KernOK'
<1>1. CASE Kernel
  <2>1. source' = source /\ run.board \in Boards /\ source[run.board] \in Built
    BY <1>1 DEF Kernel, RunOK, SourceOK, Versions, Built
  <2>2. kern[run.board].ko \in Built
    BY <2>1 DEF KernOK
  <2> QED  BY <1>1, <2>1, <2>2, KernelMade DEF SourceOK, KernOK
<1>2. CASE Module
  <2>1. source' = source /\ run.board \in Boards /\ source[run.board] \in Built
    BY <1>2 DEF Module, RunOK, SourceOK, Versions, Built
  <2>2. kern[run.board].ko \in Built /\ kern[run.board].image \in Built
    BY <2>1 DEF KernOK
  <2> QED  BY <1>2, <2>1, <2>2, ModuleMade DEF SourceOK, KernOK
<1>3. ASSUME NEW b \in Boards, Setup(b) PROVE SourceOK' /\ KernOK'
  BY <1>3, BuildConstants DEF Setup, SourceOK, KernOK, Versions, Built
<1>4. CASE UNCHANGED <<source, kern>>
  BY <1>4 DEF SourceOK, KernOK
<1> QED
  BY <1>1, <1>2, <1>3, <1>4 DEF Next, vars, Start, Worktree, Mrproper, UBoot, UBootError,
     UBootOddError, BinmanFails, Artifacts, SdCopy, Remove, Guard, BrClean, BrConfig, BrMake,
     Feeds, Seed, Tarball, Archive, OwClean, OwMake, Verify, Stops, MrproperCut, SdCopyCut, BrCleanCut,
     BrMakeCut, FeedsCut, OwMakeCut

\* A tree is left with pieces of the versions there are.
LEMMA UBootTypes == ASSUME BuildConstants, RunOK, SourceOK, UBootOK, [Next]_vars
                    PROVE  UBootOK'
<1>1. NoPieces \in Pieces /\ run.board \in Boards /\ Made \in Pieces /\ Tree \in Pieces
  BY BuildConstants DEF NoPieces, Pieces, Built, Versions, Made, B, RunOK, SourceOK, Tree, UBootOK
<1>2. PartMade \subseteq Pieces /\ Unpackaged \subseteq Pieces
  BY <1>1 DEF PartMade, Unpackaged, Pieces, Made
<1>3. ASSUME NEW t \in Pieces, SetTree(t), sd' = sd PROVE UBootOK'
  BY <1>1, <1>3 DEF SetTree, UBootOK, B
<1>4. CASE Worktree \/ Remove
  BY <1>1, <1>4 DEF Worktree, Remove, UBootOK
<1>5. CASE Mrproper \/ UBoot \/ UBootOddError \/ BinmanFails
  BY <1>1, <1>2, <1>3, <1>5 DEF Mrproper, UBoot, UBootOddError, BinmanFails
<1>6. CASE UBootError
  <2>1. PICK t \in Pieces : IF Has("sd") THEN UNCHANGED uboot ELSE uboot' = [uboot EXCEPT ![B] = t]
    BY <1>2, <1>6 DEF UBootError
  <2>2. wt' = NoPieces /\ sd' = sd
    BY <1>6 DEF UBootError, Die
  <2> QED  BY <1>1, <2>1, <2>2 DEF UBootOK, B
<1>7. CASE MrproperCut
  <2>1. PICK t \in [code : {0, Tree.code}, dtb : {0, Tree.dtb}, mkimage : {0, Tree.mkimage},
                     itb : {0, Tree.itb}] :
          uboot' = [uboot EXCEPT ![B] = t]
    BY <1>7 DEF MrproperCut
  <2>2. t \in Pieces
    BY <1>1, <2>1 DEF Pieces, NoPieces
  <2>3. wt' = NoPieces /\ sd' = sd
    BY <1>7 DEF MrproperCut, Die
  <2> QED  BY <1>1, <2>1, <2>2, <2>3 DEF UBootOK, B
<1>8. CASE SdCopy
  <2>1. [code |-> wt.code, dtb |-> wt.dtb] \in [code : Built, dtb : Built]
    BY DEF UBootOK, Pieces
  <2> QED  BY <1>1, <1>8, <2>1 DEF SdCopy, UBootOK, B
<1>9. CASE SdCopyCut
  <2>1. sd[run.board] \in [code : Built, dtb : Built] /\ wt.code \in Built
    BY <1>1 DEF UBootOK, Pieces
  <2>2. [sd[run.board] EXCEPT !.code = wt.code] \in [code : Built, dtb : Built]
    BY <2>1
  <2>3. sd' = [sd EXCEPT ![run.board] = [sd[run.board] EXCEPT !.code = wt.code]]
    BY <1>9 DEF SdCopyCut, B
  <2>4. wt' = NoPieces /\ uboot' = uboot
    BY <1>9 DEF SdCopyCut, Die
  <2> QED  BY <1>1, <2>2, <2>3, <2>4 DEF UBootOK
<1>10. ASSUME NEW b \in Boards, Setup(b) PROVE UBootOK'
  BY <1>1, <1>10 DEF Setup, UBootOK
<1>11. CASE UNCHANGED <<uboot, sd>> /\ (Die \/ Verify \/ UNCHANGED wt)
  BY <1>1, <1>11 DEF UBootOK, Die, Verify
<1> QED
  BY <1>4, <1>5, <1>6, <1>7, <1>8, <1>9, <1>10, <1>11 DEF Next, vars, Start, Kernel, Module,
     Artifacts, Guard, BrClean, BrConfig, BrMake, Feeds, Seed, Tarball, Archive, OwClean,
     OwMake, Verify, Stops, BrCleanCut, BrMakeCut, FeedsCut, OwMakeCut

\* The shared tree: each step is written out with all its fields.
LEMMA BrTypes ==
  ASSUME BuildConstants, RunOK, KernOK, BrOK, run.at = "brmake" => br.cfg = Arch[run.board],
         [Next]_vars
  PROVE  BrOK'
<1>1. /\ run.board \in Boards /\ Arch[run.board] \in Archs
      /\ kern[run.board].ko \in Built
      /\ br \in [cfg : Archs \cup {None}, pkgs : SUBSET Archs, ko : Ko, tar : Tars \cup {None}]
  BY BuildConstants DEF RunOK, KernOK, BrOK
<1>2. Hooked \in Ko
  BY <1>1 DEF Hooked, Ko, B, Built, Versions, BrOK
<1>3. br.cfg \in Archs => Packages \in SUBSET Archs
  BY <1>1 DEF Packages
<1>4. CASE BrClean
  BY <1>1, <1>4 DEF BrClean, BrOK, Ko
<1>5. CASE BrConfig
  BY <1>1, <1>5, BuildConstants DEF BrConfig, BrOK, B
<1>6. CASE BrMake
  <2>1. br' = [br EXCEPT !.pkgs = Packages, !.ko = Hooked, !.tar = [archs |-> Packages, ko |-> Hooked]]
    BY <1>6 DEF BrMake
  <2>2. br.cfg \in Archs /\ Packages \in SUBSET Archs
    BY <1>1, <1>3, <1>6 DEF BrMake, At
  <2>3. [archs |-> Packages, ko |-> Hooked] \in Tars
    BY <1>2, <2>2 DEF Tars
  <2> QED  BY <1>1, <1>2, <2>1, <2>2, <2>3 DEF BrOK
<1>7. CASE BrCleanCut
  <2>1. PICK pkgs \in SUBSET br.pkgs, ko \in {br.ko, None}, tar \in {br.tar, None} :
          br' = [br EXCEPT !.pkgs = pkgs, !.ko = ko, !.tar = tar]
    BY <1>7 DEF BrCleanCut
  <2> QED  BY <1>1, <2>1 DEF BrOK, Ko
<1>8. CASE BrMakeCut
  <2>1. PICK ko \in {br.ko, Hooked} : br' = [br EXCEPT !.pkgs = Packages, !.ko = ko]
    BY <1>8 DEF BrMakeCut
  <2>2. Packages \in SUBSET Archs
    BY <1>1, <1>3, <1>8 DEF BrMakeCut, At
  <2> QED  BY <1>1, <1>2, <2>1, <2>2 DEF BrOK
<1>9. CASE UNCHANGED br
  BY <1>9 DEF BrOK
<1> QED
  BY <1>4, <1>5, <1>6, <1>7, <1>8, <1>9 DEF Next, vars, Start, Kernel, Module, Worktree,
     Mrproper, UBoot, UBootError, UBootOddError, BinmanFails, Artifacts, SdCopy, Remove, Guard,
     Feeds, Seed,
     Tarball, Archive, OwClean, OwMake, Verify, Stops, MrproperCut, SdCopyCut, FeedsCut,
     OwMakeCut, Setup
\* The OpenWrt trees.
LEMMA OwTypes == ASSUME RunOK, OwOK, [Next]_vars PROVE OwOK'
<1>1. run.board \in Boards /\ ow[run.board] \in OwTrees
  BY DEF RunOK, OwOK
<1>2. ASSUME NEW t \in OwTrees, ow' = [ow EXCEPT ![run.board] = t] PROVE OwOK'
  BY <1>2 DEF OwOK
<1>3. CASE Feeds
  <2>1. [ow[run.board] EXCEPT !.feeds = "installed"] \in OwTrees
    BY <1>1 DEF OwTrees
  <2>2. ow' = [ow EXCEPT ![run.board] = [ow[run.board] EXCEPT !.feeds = "installed"]] \/ ow' = ow
    BY <1>3 DEF Feeds, B
  <2> QED  BY <1>2, <2>1, <2>2 DEF OwOK
<1>4. CASE Seed
  <2> DEFINE cfg == IF ow[run.board].feeds = "installed" THEN "full" ELSE "bare"
  <2>1. cfg \in {"none", "bare", "full"}
    OBVIOUS
  <2>2. ow' = [ow EXCEPT ![run.board] = [ow[run.board] EXCEPT !.cfg = cfg]] \/ ow' = ow
    BY <1>4 DEF Seed, B
  <2> HIDE DEF cfg
  <2>3. [ow[run.board] EXCEPT !.cfg = cfg] \in OwTrees
    BY <1>1, <2>1 DEF OwTrees
  <2> QED  BY <1>2, <2>2, <2>3 DEF OwOK
<1>5. CASE Tarball
  <2> DEFINE tgz == IF ow[run.board].tgz = "good" THEN ow[run.board].tgz ELSE "torn"
  <2>1. tgz \in {"none", "torn", "good"}
    OBVIOUS
  <2>2. ow' = [ow EXCEPT ![run.board] = [ow[run.board] EXCEPT !.tgz = tgz]]
    BY <1>5 DEF Tarball, B
  <2> HIDE DEF tgz
  <2>3. [ow[run.board] EXCEPT !.tgz = tgz] \in OwTrees
    BY <1>1, <2>1 DEF OwTrees
  <2> QED  BY <1>2, <2>2, <2>3
<1>6. CASE Archive
  <2>1. [ow[run.board] EXCEPT !.tgz = "good"] \in OwTrees
    BY <1>1 DEF OwTrees
  <2>2. ow' = [ow EXCEPT ![run.board] = [ow[run.board] EXCEPT !.tgz = "good"]]
    BY <1>6 DEF Archive, B
  <2> QED  BY <1>2, <2>1, <2>2
<1>7. CASE OwClean \/ OwMake \/ OwMakeCut
  <2>1. PICK tree \in {"none", "torn", "bare", "full"} :
          ow' = [ow EXCEPT ![run.board] = [ow[run.board] EXCEPT !.tree = tree]]
    BY <1>1, <1>7 DEF OwClean, OwMake, OwMakeCut, B, OwTrees
  <2>2. [ow[run.board] EXCEPT !.tree = tree] \in OwTrees
    BY <1>1, <2>1 DEF OwTrees
  <2> QED  BY <1>2, <2>1, <2>2
<1>8. CASE FeedsCut
  <2>1. [ow[run.board] EXCEPT !.feeds = "updated"] \in OwTrees
    BY <1>1 DEF OwTrees
  <2>2. ow' = [ow EXCEPT ![run.board] = [ow[run.board] EXCEPT !.feeds = "updated"]]
    BY <1>8 DEF FeedsCut, B
  <2> QED  BY <1>2, <2>1, <2>2
<1>9. CASE UNCHANGED ow
  BY <1>9 DEF OwOK
<1> QED
  BY <1>3, <1>4, <1>5, <1>6, <1>7, <1>8, <1>9 DEF Next, vars, Start, Kernel, Module,
     Worktree, Mrproper, UBoot, UBootError, UBootOddError, BinmanFails, Artifacts, SdCopy, Remove,
     Guard, Verify, BrClean, BrConfig, BrMake, Stops, MrproperCut, SdCopyCut, BrCleanCut, BrMakeCut, Setup

\* What stays within its bound.
LEMMA MenuTypes == ASSUME BuildConstants, MenuOK, [Next]_vars PROVE MenuOK'
<1>1. CASE Unbroken \/ UNCHANGED vars
  BY <1>1 DEF Unbroken, vars, MenuOK
<1>2. CASE Broken
  BY <1>2, BuildConstants DEF Broken, MenuOK
<1> QED
  BY <1>1, <1>2 DEF Next, Start, Kernel, Module, Worktree, Mrproper, UBoot, UBootError,
     UBootOddError, BinmanFails, Artifacts, SdCopy, Remove, Guard, BrClean, BrConfig, BrMake,
     Feeds, Seed, Tarball, Archive, OwClean, OwMake, Verify, Stops, MrproperCut, SdCopyCut, BrCleanCut,
     BrMakeCut, FeedsCut, OwMakeCut, Setup

\* Every step keeps the types; only brmake needs to know more, that there is a .config.
LEMMA TypesStep ==
  ASSUME BuildConstants, TypeOK, run.at = "brmake" => br.cfg = Arch[run.board], [Next]_vars
  PROVE  TypeOK'
<1>1. RunOK /\ SourceOK /\ KernOK /\ UBootOK /\ BrOK /\ OwOK /\ MenuOK
  BY TypeParts
<1>2. RunOK' /\ UBootOK' /\ BrOK' /\ OwOK' /\ MenuOK'
  BY <1>1, BuildConstants, RunTypes, UBootTypes, BrTypes, OwTypes, MenuTypes
<1>3. SourceOK' /\ KernOK'
  BY <1>1, BuildConstants, KernTypes
<1> QED  BY <1>2, <1>3, TypeParts, PTL
-----------------------------------------------------------------------------
\* Every step goes where its command says.
LEMMA ControlStep == ASSUME TypeOK, Control, [Next]_vars PROVE Control'
<1> USE DEF Control
<1>1. ASSUME NEW what \in Commands, NEW b \in Boards, NEW flags \in Flags(what),
             Start(what, b, flags)
      PROVE  Control'
  BY <1>1 DEF Start, First, Flags, Commands
<1>2. CASE Die \/ Verify \/ \E b \in Boards : Setup(b)
  BY <1>2 DEF Die, Verify, Setup, NoRun
<1>3. CASE Advance /\ run.at # "end"
  BY <1>3, TypeOK DEF TypeOK, StepNames, Advance, NextStep, Follow, After
<1>4. CASE UBootOddError \/ BinmanFails
  <2>1. PICK odd \in Odds : run' = [run EXCEPT !.at = "artifacts", !.odd = odd]
    BY <1>4 DEF UBootOddError, BinmanFails, At, NextStep, Follow, Odds
  <2>2. run.at = "uboot"
    BY <1>4 DEF UBootOddError, BinmanFails, At
  <2> QED  BY <2>1, <2>2, TypeOK DEF TypeOK
<1>5. CASE Tarball
  BY <1>5, TypeOK DEF TypeOK, Tarball, At, Unpacked, Follow, After
<1>6. CASE UNCHANGED vars
  BY <1>6 DEF vars
<1> QED
  BY <1>1, <1>2, <1>3, <1>4, <1>5, <1>6 DEF Next, At, Kernel, Module, Worktree, Mrproper, UBoot,
     UBootError, Artifacts, SdCopy, Remove, Guard, BrClean, BrConfig, BrMake, Feeds, Seed,
     Archive, OwClean, OwMake, Stops, MrproperCut, SdCopyCut, BrCleanCut, BrMakeCut,
     FeedsCut, OwMakeCut

\* The shared output/ stays of one architecture.
LEMMA RootfsStep ==
  ASSUME BuildConstants, TypeOK, Control, RootfsInv, [Next]_vars
  PROVE  RootfsInv'
<1> USE DEF RootfsInv, Clear
<1>1. /\ run \in [what : Commands \cup {"none"}, board : Boards,
                  flags : SUBSET {"clean", "reconfigure", "sd"}, at : StepNames \cup {"end"},
                  odd : Odds]
      /\ br \in [cfg : Archs \cup {None}, pkgs : SUBSET Archs, ko : Ko, tar : Tars \cup {None}]
      /\ Arch[run.board] \in Archs /\ None \notin Archs \cup Tars
  BY BuildConstants DEF TypeOK
<1>2. ASSUME NEW what \in Commands, NEW b \in Boards, NEW flags \in Flags(what),
             Start(what, b, flags)
      PROVE  RootfsInv'
  BY <1>1, <1>2 DEF Start, First, Flags, Commands
<1>3. CASE (Die \/ Verify) /\ br' = br
  BY <1>1, <1>3 DEF Die, Verify, NoRun
<1>4. CASE \E b \in Boards : Setup(b)
  BY <1>1, <1>4 DEF Setup, NoRun
<1>5. CASE /\ Advance /\ br' = br
           /\ run.at \notin {"guard", "brclean", "brconfig", "brmake", "end"}
  BY <1>1, <1>5 DEF Advance, NextStep, Follow, After, Control, StepNames
<1>6. CASE UBootOddError \/ BinmanFails
  BY <1>1, <1>6 DEF UBootOddError, BinmanFails, At, NextStep, Follow, After, Control
<1>7. CASE Tarball
  BY <1>1, <1>7 DEF Tarball, At, Unpacked, Follow, After
<1>8. CASE Guard
  <2>1. CASE br.cfg # None /\ ~ArchSwitch /\ br.cfg # Arch[B]
    BY <1>3, <1>8, <2>1 DEF Guard
  <2>2. CASE ~(br.cfg # None /\ ~ArchSwitch /\ br.cfg # Arch[B])
    <3>1. run' = [run EXCEPT !.at = NextStep] /\ br' = br
      BY <1>8, <2>2 DEF Guard, Advance
    <3>2. NextStep = IF "clean" \in run.flags THEN "brclean" ELSE "brconfig"
      BY <1>8 DEF Guard, At, NextStep, Follow
    <3>3. Clear \/ ({"clean", "reconfigure"} \subseteq run.flags)
      BY <2>2 DEF ArchSwitch, Has, B
    <3> QED  BY <1>1, <3>1, <3>2, <3>3
  <2> QED  BY <2>1, <2>2
<1>9. CASE BrClean
  BY <1>1, <1>9 DEF BrClean, At, Advance, NextStep, Follow, After
<1>10. CASE BrConfig
  BY <1>1, <1>10 DEF BrConfig, At, Has, B, Advance, NextStep, Follow, After
<1>11. CASE BrMake
  <2>1. br' = [br EXCEPT !.pkgs = Packages, !.ko = Hooked, !.tar = [archs |-> Packages, ko |-> Hooked]]
    BY <1>11 DEF BrMake
  <2>2. run' = [run EXCEPT !.at = "end"] /\ br.cfg = Arch[run.board]
    BY <1>11 DEF BrMake, At, Advance, NextStep, Follow, After
  <2>3. Packages = {Arch[run.board]}
    BY <2>2 DEF Packages
  <2>4. Hooked \in Ko
    BY <1>1, TypeOK DEF TypeOK, Hooked, Ko, B, Built, Versions
  <2>5. [archs |-> Packages, ko |-> Hooked] \in Tars
    BY <1>1, <2>3, <2>4 DEF Tars
  <2>6. br'.cfg = br.cfg /\ br'.pkgs = Packages /\ br'.tar = [archs |-> Packages, ko |-> Hooked]
    BY <1>1, <2>1
  <2>7. br'.tar # None /\ br'.tar.archs = {Arch[run.board]}
    <3>1. br'.tar \in Tars
      BY <2>5, <2>6
    <3>2. br'.tar.archs = Packages
      BY <2>6
    <3> QED  BY <1>1, <2>3, <3>1, <3>2
  <2>8. br'.cfg = Arch[run.board] /\ br'.pkgs = {Arch[run.board]}
    BY <2>2, <2>3, <2>6
  <2> QED  BY <1>1, <2>2, <2>7, <2>8
<1>12. CASE BrCleanCut
  <2>1. PICK pkgs \in SUBSET br.pkgs, ko \in {br.ko, None}, tar \in {br.tar, None} :
          br' = [br EXCEPT !.pkgs = pkgs, !.ko = ko, !.tar = tar]
    BY <1>12 DEF BrCleanCut
  <2> QED  BY <1>1, <1>12, <2>1 DEF BrCleanCut, Die, NoRun
<1>13. CASE BrMakeCut
  <2>1. PICK ko \in {br.ko, Hooked} : br' = [br EXCEPT !.pkgs = Packages, !.ko = ko]
    BY <1>13 DEF BrMakeCut
  <2>2. Packages = {Arch[run.board]} /\ br.cfg = Arch[run.board]
    BY <1>13 DEF BrMakeCut, At, Packages
  <2> QED  BY <1>1, <1>13, <2>1, <2>2 DEF BrMakeCut, Die, NoRun
<1>14. CASE UNCHANGED vars
  BY <1>14 DEF vars
<1> QED
  BY <1>2, <1>3, <1>4, <1>5, <1>6, <1>7, <1>8, <1>9, <1>10, <1>11, <1>12, <1>13, <1>14
     DEF Next, At, Kernel, Module, Worktree, Mrproper, UBoot, UBootError, Artifacts, SdCopy,
         Remove, Feeds, Seed, Archive, OwClean, OwMake, Verify, Stops, MrproperCut, SdCopyCut,
         FeedsCut, OwMakeCut

\* What the hook leaves in the target directory is of the board's architecture.
LEMMA HookedNative ==
  ASSUME BuildConstants, TypeOK, RootfsInv, WifiInv, run.at = "brmake"
  PROVE  Native(Hooked, Arch[run.board]) /\ Hooked \in Ko
<1>1. run.board \in Boards /\ kern[run.board].ko \in Built /\ br.ko \in Ko
  BY DEF TypeOK
<1>2. br.cfg = Arch[run.board] /\ Native(br.ko, Arch[run.board])
  BY DEF RootfsInv, WifiInv
<1>3. CASE run.board \in Hooks /\ kern[run.board].ko > 0
  <2>1. Hooked = <<run.board, kern[run.board].ko>> /\ kern[run.board].ko \in Versions
    BY <1>1, <1>3, BuildConstants DEF Hooked, B, Built, Versions
  <2> QED  BY <1>1, <2>1 DEF Native, Ko
<1>4. CASE ~(run.board \in Hooks /\ kern[run.board].ko > 0)
  BY <1>1, <1>2, <1>4 DEF Hooked, B
<1> QED  BY <1>3, <1>4

\* A whole build keeps its module, and no other architecture's gets into the target.
LEMMA WifiStep ==
  ASSUME BuildConstants, TypeOK, Control, RootfsInv, WifiInv, [Next]_vars
  PROVE  WifiInv'
<1> USE DEF WifiInv, Native
<1>1. /\ run \in [what : Commands \cup {"none"}, board : Boards,
                  flags : SUBSET {"clean", "reconfigure", "sd"}, at : StepNames \cup {"end"},
                  odd : Odds]
      /\ source[run.board] \in Versions /\ kern \in [Boards -> [image : Built, ko : Built]]
      /\ br \in [cfg : Archs \cup {None}, pkgs : SUBSET Archs, ko : Ko, tar : Tars \cup {None}]
      /\ Hooks \subseteq Wifi /\ Arch \in [Boards -> Archs] /\ None \notin Archs \cup Tars
  BY BuildConstants DEF TypeOK
<1>2. ASSUME NEW what \in Commands, NEW b \in Boards, NEW flags \in Flags(what),
             Start(what, b, flags)
      PROVE  WifiInv'
  BY <1>2 DEF Start, First, Flags, Commands
<1>3. CASE (Die \/ Verify \/ \E b \in Boards : Setup(b)) /\ br' = br
  BY <1>3 DEF Die, Verify, Setup, NoRun
<1>4. CASE Kernel
  <2>1. kern'[run.board].ko = kern[run.board].ko
    BY <1>1, <1>4, KernelMade DEF TypeOK, RunOK, KernOK
  <2>2. run' = [run EXCEPT !.at = NextStep] /\ run.at = "kernel" /\ br' = br
    BY <1>4 DEF Kernel, At, Advance
  <2>3. NextStep \in {"module", "uboot", "end"} /\ (run.board \in Wifi => NextStep = "module")
    BY <2>2 DEF NextStep, Follow, After
  <2>4. run.what \in {"all", "linux"} /\ (run.what = "all" => NextStep # "end")
    BY <2>2 DEF Control, NextStep, Follow, After
  <2> QED  BY <1>1, <2>1, <2>2, <2>3, <2>4
<1>5. CASE Module
  <2>1. kern'[run.board].ko
          = IF kern[run.board].ko > 0 THEN kern[run.board].ko ELSE source[run.board]
    BY <1>1, <1>5, ModuleMade DEF TypeOK, RunOK, KernOK
  <2>2. kern'[run.board].ko > 0
    BY <1>1, <2>1 DEF Versions
  <2>3. run' = [run EXCEPT !.at = NextStep] /\ run.at = "module" /\ br' = br
    BY <1>5 DEF Module, At, Advance
  <2>4. run.what \in {"all", "linux"} /\ NextStep \in {"uboot", "end"}
        /\ (run.what = "all" => NextStep = "uboot")
    BY <2>3 DEF Control, NextStep, Follow, After
  <2> QED  BY <1>1, <2>2, <2>3, <2>4
<1>6. CASE Guard
  <2>1. br' = br /\ kern' = kern
    BY <1>6 DEF Guard
  <2>2. CASE br.cfg # None /\ ~ArchSwitch /\ br.cfg # Arch[B]
    BY <1>3, <1>6, <2>1, <2>2 DEF Guard
  <2>3. CASE ~(br.cfg # None /\ ~ArchSwitch /\ br.cfg # Arch[B])
    <3>1. run' = [run EXCEPT !.at = NextStep] /\ run.at = "guard"
      BY <1>6, <2>3 DEF Guard, Advance, At
    <3>2. NextStep = IF "clean" \in run.flags THEN "brclean" ELSE "brconfig"
      BY <3>1 DEF NextStep, Follow
    <3>3. Clear \/ "clean" \in run.flags
      BY <2>3 DEF ArchSwitch, Has, B, Clear
    <3>4. Clear' = Clear
      BY <1>1, <2>1, <3>1 DEF Clear
    <3> QED  BY <1>1, <2>1, <3>1, <3>2, <3>3, <3>4
  <2> QED  BY <2>2, <2>3
<1>7. CASE BrClean
  <2>1. br' = [br EXCEPT !.pkgs = {}, !.ko = None, !.tar = None] /\ kern' = kern
        /\ run' = [run EXCEPT !.at = "brconfig"] /\ run.at = "brclean"
    BY <1>7 DEF BrClean, At, Advance, NextStep, Follow
  <2>2. br'.ko = None /\ br'.cfg = br.cfg
    BY <1>1, <2>1
  <2> QED  BY <1>1, <2>1, <2>2
<1>8. CASE BrConfig
  <2>1. kern' = kern /\ run' = [run EXCEPT !.at = "brmake"] /\ run.at = "brconfig"
    BY <1>8 DEF BrConfig, At, Advance, NextStep, Follow
  <2>2. br'.ko = br.ko /\ br'.cfg \in {br.cfg, Arch[run.board]}
    BY <1>1, <1>8 DEF BrConfig, B
  <2>3. br.ko = None \/ br.cfg = Arch[run.board]
    <3>1. CASE br.cfg = None
      <4>1. br.ko = None \/ Arch[br.ko[1]] = None
        BY <3>1
      <4>2. br.ko # None => br.ko[1] \in Boards
        BY <1>1 DEF Ko
      <4> QED  BY <1>1, <4>1, <4>2
    <3>2. CASE br.cfg # None
      BY <2>1, <3>2 DEF Clear
    <3> QED  BY <3>1, <3>2
  <2> QED  BY <1>1, <2>1, <2>2, <2>3
<1>9. CASE BrMake
  <2>1. br' = [br EXCEPT !.pkgs = Packages, !.ko = Hooked, !.tar = [archs |-> Packages, ko |-> Hooked]]
    BY <1>9 DEF BrMake
  <2>2. br'.ko = Hooked /\ br'.cfg = br.cfg /\ br'.tar.ko = Hooked
    BY <1>1, <2>1
  <2>3. kern' = kern /\ run' = [run EXCEPT !.at = "end"] /\ run.at = "brmake"
    BY <1>9 DEF BrMake, Advance, At, NextStep, Follow, After
  <2>4. Native(Hooked, Arch[run.board]) /\ br.cfg = Arch[run.board]
    BY <2>3, HookedNative DEF RootfsInv
  <2>5. run.what = "all" /\ run.board \in Hooks => Hooked = <<run.board, kern[run.board].ko>>
    BY <1>1, <2>3 DEF Hooked, B
  <2> QED  BY <1>1, <2>2, <2>3, <2>4, <2>5
<1>10. CASE BrCleanCut
  <2>1. PICK pkgs \in SUBSET br.pkgs, ko \in {br.ko, None}, tar \in {br.tar, None} :
          br' = [br EXCEPT !.pkgs = pkgs, !.ko = ko, !.tar = tar]
    BY <1>10 DEF BrCleanCut
  <2>2. br'.ko = ko /\ br'.cfg = br.cfg
    BY <1>1, <2>1
  <2>3. run'.at = "end" /\ run'.what = "none"
    BY <1>10 DEF BrCleanCut, Die, NoRun
  <2> QED  BY <2>2, <2>3
<1>11. CASE BrMakeCut
  <2>1. PICK ko \in {br.ko, Hooked} : br' = [br EXCEPT !.pkgs = Packages, !.ko = ko]
    BY <1>11 DEF BrMakeCut
  <2>2. br'.ko = ko /\ br'.cfg = br.cfg
    BY <1>1, <2>1
  <2>3. Native(Hooked, Arch[run.board]) /\ br.cfg = Arch[run.board]
    BY <1>11, HookedNative DEF BrMakeCut, At, RootfsInv
  <2>4. run'.at = "end" /\ run'.what = "none"
    BY <1>11 DEF BrMakeCut, Die, NoRun
  <2> QED  BY <2>2, <2>3, <2>4
<1>12. CASE /\ Advance /\ kern' = kern /\ br' = br
            /\ run.at \notin {"kernel", "module", "guard", "brclean", "brconfig", "brmake", "end"}
  <2>1. run' = [run EXCEPT !.at = NextStep]
    BY <1>12 DEF Advance
  <2>2. NextStep \notin {"kernel", "module", "brconfig"}
        /\ (run.what \in {"all", "rootfs"} => NextStep # "end")
    BY <1>1, <1>12 DEF NextStep, Follow, After, Control, StepNames
  <2> QED  BY <1>1, <1>12, <2>1, <2>2
<1>13. CASE UBootOddError \/ BinmanFails
  BY <1>1, <1>13 DEF UBootOddError, BinmanFails, At, NextStep, Follow, After, Control
<1>14. CASE Tarball
  BY <1>1, <1>14 DEF Tarball, At, Unpacked, Follow, After, Control
<1>15. CASE UNCHANGED vars
  BY <1>15 DEF vars, Clear
<1> QED
  BY <1>2, <1>3, <1>4, <1>5, <1>6, <1>7, <1>8, <1>9, <1>10, <1>11, <1>12, <1>13, <1>14, <1>15
     DEF Next, At, Worktree, Mrproper, UBoot, UBootError, Artifacts, SdCopy, Remove,
         Feeds, Seed, Archive, OwClean, OwMake, Verify, Stops, MrproperCut, Setup,
         SdCopyCut, FeedsCut, OwMakeCut

\* The U-Boot pieces are as new as the step allows.
LEMMA UBootStep ==
  ASSUME BuildConstants, TypeOK, Control, UBootInv, [Next]_vars
  PROVE  UBootInv'
<1> USE DEF UBootInv, Fresh, FreshItb, Current, Packaged, Left
<1>1. /\ run \in [what : Commands \cup {"none"}, board : Boards,
                  flags : SUBSET {"clean", "reconfigure", "sd"}, at : StepNames \cup {"end"},
                  odd : Odds]
      /\ source[run.board] \in Versions
      /\ uboot \in [Boards -> Pieces] /\ sd \in [Boards -> [code : Built, dtb : Built]] /\ wt \in Pieces
  BY DEF TypeOK
<1>2. ASSUME NEW what \in Commands, NEW b \in Boards, NEW flags \in Flags(what),
             Start(what, b, flags)
      PROVE  UBootInv'
  BY <1>2 DEF Start, First, Flags, Commands
<1>3. CASE Die \/ Verify \/ \E b \in Boards : Setup(b)
  BY <1>3 DEF Die, Verify, Setup, NoRun
<1>4. CASE Worktree
  BY <1>1, <1>4 DEF Worktree, At, NoPieces, Advance, NextStep, Follow, Control
<1>5. CASE Mrproper
  BY <1>1, <1>5 DEF Mrproper, At, B, Has, SetTree, NoPieces, Advance, NextStep, Follow, Control
<1>6. CASE UBoot
  BY <1>1, <1>6 DEF UBoot, At, B, Has, SetTree, Made, Pieces, Advance, NextStep, Follow, Control
<1>7. CASE UBootOddError \/ BinmanFails
  <2>1. PICK t \in PartMade : SetTree(t) /\ (BinmanFails => t \in Unpackaged)
    BY <1>1, <1>7 DEF UBootOddError, BinmanFails, PartMade, Unpackaged, Made, B
  <2>2. /\ run.at = "uboot" /\ run'.at = "artifacts" /\ run'.what = run.what
        /\ run'.flags = run.flags /\ run'.board = run.board
        /\ UNCHANGED <<source, sd>>
        /\ run'.odd = IF BinmanFails THEN "binman" ELSE "make"
    BY <1>1, <1>7 DEF UBootOddError, BinmanFails, At, NextStep, Follow
  <2>3. /\ t.code \in {Tree.code, source[run.board]} /\ t.dtb \in {Tree.dtb, source[run.board]}
        /\ t.mkimage \in {Tree.mkimage, source[run.board]}
        /\ t.itb \in {0, Tree.itb, Faulty, source[run.board]}
        /\ BinmanFails => /\ t.code = source[run.board] /\ t.dtb = source[run.board]
                          /\ t.mkimage = source[run.board]
    BY <1>1, <2>1 DEF PartMade, Unpackaged, Made, B
  <2>4. CASE "sd" \in run.flags
    BY <1>1, <2>1, <2>2, <2>3, <2>4 DEF Tree, SetTree, Has
  <2>5. CASE "sd" \notin run.flags
    <3>1. Tree = uboot[run.board] /\ uboot'[run.board] = t
      BY <1>1, <2>1, <2>5 DEF Tree, SetTree, Has, B
    <3> QED  BY <1>1, <2>2, <2>3, <2>5, <3>1
  <2> QED  BY <2>4, <2>5
<1>8. CASE Artifacts
  <2>1. CASE Tree.code > 0 /\ Tree.dtb > 0 /\ uboot[B].mkimage > 0
    <3>1. run' = [run EXCEPT !.at = NextStep] /\ run.at = "artifacts"
          /\ UNCHANGED <<source, uboot, sd, wt>>
      BY <1>8, <2>1 DEF Artifacts, At, Advance
    <3>2. "sd" \in run.flags => NextStep = "sdcopy" /\ Tree = wt
      BY <3>1 DEF NextStep, Follow, Tree, Has
    <3>3. "sd" \notin run.flags => NextStep \in {"guard", "end"} /\ Tree = uboot[run.board]
      BY <3>1 DEF NextStep, Follow, After, Tree, Has, B
    <3>4. CASE "sd" \in run.flags
      BY <1>1, <2>1, <3>1, <3>2, <3>4 DEF Control
    <3>5. CASE "sd" \notin run.flags
      BY <1>1, <2>1, <3>1, <3>3, <3>5 DEF Control, B
    <3> QED  BY <3>4, <3>5
  <2>2. CASE ~(Tree.code > 0 /\ Tree.dtb > 0 /\ uboot[B].mkimage > 0)
    BY <1>3, <1>8, <2>2 DEF Artifacts
  <2> QED  BY <2>1, <2>2
<1>9. CASE SdCopy
  BY <1>1, <1>9 DEF SdCopy, At, B, Advance, NextStep, Follow, Control
<1>10. CASE Remove
  BY <1>1, <1>10 DEF Remove, At, NoPieces, Advance, NextStep, Follow, Control
<1>11. CASE /\ Advance /\ UNCHANGED <<source, uboot, sd, wt>>
            /\ run.at \notin {"worktree", "mrproper", "uboot", "artifacts", "sdcopy", "remove", "end"}
  BY <1>1, <1>11 DEF Advance, NextStep, Follow, After, Control, StepNames
<1>12. CASE Tarball
  BY <1>1, <1>12 DEF Tarball, At, Unpacked, Follow, After, Control
<1>13. CASE UNCHANGED vars
  BY <1>13 DEF vars
<1> QED
  BY <1>2, <1>3, <1>4, <1>5, <1>6, <1>7, <1>8, <1>9, <1>10, <1>11, <1>12, <1>13
     DEF Next, At, Kernel, Module, UBootError, Guard, BrClean, BrConfig, BrMake, Feeds, Seed,
         Archive, OwClean, OwMake, Verify, Stops, MrproperCut, SdCopyCut, BrCleanCut, BrMakeCut,
         FeedsCut, OwMakeCut

\* What OpenWrt makes from has been compared.
LEMMA OpenwrtStep == ASSUME TypeOK, Control, OpenwrtInv, [Next]_vars PROVE OpenwrtInv'
<1> USE DEF OpenwrtInv
<1>1. /\ run \in [what : Commands \cup {"none"}, board : Boards,
                  flags : SUBSET {"clean", "reconfigure", "sd"}, at : StepNames \cup {"end"},
                  odd : Odds]
      /\ ow \in [Boards -> OwTrees]
  BY DEF TypeOK, OwTrees
<1>2. ASSUME NEW what \in Commands, NEW b \in Boards, NEW flags \in Flags(what),
             Start(what, b, flags)
      PROVE  OpenwrtInv'
  BY <1>2 DEF Start, First, Flags, Commands
<1>3. CASE (Die \/ Verify \/ \E b \in Boards : Setup(b)) /\ ow' = ow
  BY <1>3 DEF Die, Verify, Setup, NoRun
<1>4. CASE Feeds
  BY <1>1, <1>4 DEF Feeds, At, B, OwTrees, Advance, NextStep, Follow
<1>5. CASE Seed
  BY <1>1, <1>5 DEF Seed, At, B, OwTrees, Advance, NextStep, Follow
<1>6. CASE Tarball
  BY <1>1, <1>6 DEF Tarball, At, B, OwTrees, Unpacked, Follow
<1>7. CASE Archive
  BY <1>1, <1>7 DEF Archive, At, B, OwTrees, Advance, NextStep, Follow
<1>8. CASE OwClean
  BY <1>1, <1>8 DEF OwClean, At, B, OwTrees, Advance, NextStep, Follow
<1>9. CASE OwMake
  BY <1>1, <1>9 DEF OwMake, At, B, OwTrees, Advance, NextStep, Follow
<1>10. CASE Verify
  BY <1>3, <1>10 DEF Verify
<1>11. CASE FeedsCut \/ OwMakeCut
  BY <1>1, <1>11 DEF FeedsCut, OwMakeCut, B, OwTrees, Die, NoRun
<1>12. CASE /\ Advance /\ ow' = ow
            /\ run.at \in {"kernel", "module", "worktree", "mrproper", "uboot", "artifacts", "sdcopy",
                           "remove", "guard", "brclean", "brconfig", "brmake"}
  <2>1. NextStep \notin {"owclean", "owmake"}
    BY <1>12 DEF NextStep, Follow, After
  <2>2. run'.at = NextStep
    BY <1>1, <1>12 DEF Advance
  <2> QED
    BY <1>12, <2>1, <2>2 DEF OpenwrtInv
<1>13. CASE UBootOddError \/ BinmanFails
  BY <1>1, <1>13 DEF UBootOddError, BinmanFails, At, NextStep, Follow, After, Control
<1>14. CASE UNCHANGED vars
  BY <1>14 DEF vars
<1> QED
  BY <1>2, <1>3, <1>4, <1>5, <1>6, <1>7, <1>8, <1>9, <1>10, <1>11, <1>12, <1>13, <1>14
     DEF Next, At, Kernel, Module, Worktree, Mrproper, UBoot, UBootError, Artifacts, SdCopy,
         Remove, Guard, BrClean, BrConfig, BrMake, Stops, MrproperCut, SdCopyCut, BrCleanCut,
         BrMakeCut, Setup

-----------------------------------------------------------------------------
\* The invariants hold together.
BuildsInv == TypeOK /\ Control /\ RootfsInv /\ WifiInv /\ UBootInv /\ OpenwrtInv

\* Nothing is built yet and no command has run.
LEMMA InitInv == ASSUME BuildConstants, Init PROVE BuildsInv
<1>1. PICK b \in Boards : run = NoRun(b)
  BY DEF Init
<1>2. TypeOK
  BY <1>1, BuildConstants DEF Init, TypeOK, NoRun, NoPieces, Pieces, Ko, Tars, Built, Versions, StepNames, Odds
<1>3. Control /\ RootfsInv /\ WifiInv /\ UBootInv /\ OpenwrtInv
  BY <1>1 DEF Init, NoRun, Control, RootfsInv, WifiInv, Native, UBootInv, Left, OpenwrtInv
<1> QED  BY <1>2, <1>3 DEF BuildsInv

\* Every history of builds keeps the invariants.
THEOREM BuildsInvariant == Spec => []BuildsInv
<1>1. Init => BuildsInv
  BY InitInv, BuildConstants
<1>2. BuildsInv /\ [Next]_vars => BuildsInv'
  BY TypesStep, ControlStep, RootfsStep, WifiStep, UBootStep, OpenwrtStep, BuildConstants
     DEF BuildsInv, RootfsInv
<1> QED  BY <1>1, <1>2, PTL DEF Spec

\* The types hold in every history.
THEOREM BuildsTypes == Spec => []TypeOK
<1>1. BuildsInv => TypeOK
  BY DEF BuildsInv
<1> QED  BY <1>1, BuildsInvariant, PTL

\* A rootfs.tar a build ended well with is of its board's architecture alone.
THEOREM BuildsArchPure == Spec => []ArchPure
<1>1. BuildsInv => ArchPure
  BY DEF BuildsInv, RootfsInv, ArchPure, Ended, B
<1> QED  BY <1>1, BuildsInvariant, PTL

\* A whole build of a board whose hook copies the module ends with its own in the
\* tar, and no tar holds one of another architecture.
THEOREM BuildsWifiShips == Spec => []WifiShips
<1>1. BuildsInv => WifiShips
  <2> SUFFICES ASSUME BuildsInv PROVE WifiShips
    OBVIOUS
  <2>1. Hooks \subseteq Wifi
    BY BuildConstants
  <2> QED  BY <2>1 DEF BuildsInv, WifiInv, Native, WifiShips, Ended, B
<1> QED  BY <1>1, BuildsInvariant, PTL

\* U-Boot pieces a build ended well with are of the present sources, unless make or
\* binman failed unseen in a tree that held older ones.
THEOREM BuildsUBootCurrent == Spec => []UBootCurrent
<1>1. BuildsInv => UBootCurrent
  <2> SUFFICES ASSUME BuildsInv PROVE UBootCurrent
    OBVIOUS
  <2>1. run.what = "all" => run.flags = {}
    BY DEF BuildsInv, Control
  <2>2. ASSUME Ended("all") \/ (Ended("uboot") /\ ~Has("sd"))
        PROVE  /\ run.odd # "make" \/ Has("clean") => NewPieces(uboot[B])
               /\ B \in Atf /\ run.odd = "no" => uboot[B].itb = source[B]
               /\ Has("clean") => uboot[B].itb \in {0, Faulty, source[B]}
    <3>1. run.at = "end" /\ run.what \in {"all", "uboot"} /\ "sd" \notin run.flags
      BY <2>1, <2>2 DEF Ended, Has
    <3>2. run.odd # "make" \/ Has("clean") => NewPieces(uboot[B])
      BY <3>1 DEF BuildsInv, UBootInv, Current, NewPieces, Has, B
    <3>3. B \in Atf /\ run.odd = "no" => uboot[B].itb = source[B]
      BY <3>1 DEF BuildsInv, UBootInv, Left, Packaged, B
    <3>4. Has("clean") => uboot[B].itb \in {0, Faulty, source[B]}
      BY <2>1, <3>1 DEF BuildsInv, UBootInv, FreshItb, Has, B
    <3> QED  BY <3>2, <3>3, <3>4
  <2>3. Ended("uboot") /\ Has("sd") => sd[B].code = source[B] /\ sd[B].dtb = source[B]
    BY DEF BuildsInv, UBootInv, Current, Ended, Has, B
  <2> QED  BY <2>2, <2>3 DEF UBootCurrent
<1> QED  BY <1>1, BuildsInvariant, PTL

\* OpenWrt makes from a whole archive only.
THEOREM BuildsOpenwrtSound == Spec => []OpenwrtSound
<1>1. BuildsInv => OpenwrtSound
  BY DEF BuildsInv, OpenwrtInv, OpenwrtSound, At, B
<1> QED  BY <1>1, BuildsInvariant, PTL
=============================================================================
