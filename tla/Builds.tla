------------------------------- MODULE Builds -------------------------------
(***************************************************************************)
(* The component builders of `forge build` (build/linux.py, uboot.py,      *)
(* rootfs.py, openwrt.py) and the order core/dag.py runs them in.          *)
(*                                                                         *)
(* Every builder drives a foreign, incremental make in a tree that the     *)
(* previous build, of whatever board and however it ended, has left as it  *)
(* is.  A command goes from step to step; a step that fails ends it, and a *)
(* kill may come inside any of them.                                       *)
(***************************************************************************)
EXTENDS Integers

CONSTANTS
    Boards,
    Archs, Arch,        \* the architecture of each board
    Wifi,               \* boards with an out-of-tree WiFi driver,
    Hooks,              \* and those whose post-build hook copies its module
    Atf,                \* boards whose u-boot.itb and idbloader.img are binman's
    Nand,               \* boards that also have a card variant and an openwrt profile
    None,               \* what is not there yet
    Menus,              \* the sets of commands a history draws from
    MaxSource,          \* bound: versions of the kernel and U-Boot sources
    MaxBreaks           \* bound: makes that fail or are killed half way

Commands == {"all", "owall", "linux", "uboot", "rootfs", "openwrt"}
Versions == 1..MaxSource
Built == 0..MaxSource           \* 0: not built
Faulty == -1                    \* binman's image of a run that failed
Ko == {None} \cup (Boards \X Versions)         \* the board and sources of a module
Tars == [archs : SUBSET Archs, ko : Ko]

ASSUME BuildConstants ==
    /\ Arch \in [Boards -> Archs]
    /\ Wifi \subseteq Boards /\ Hooks \subseteq Wifi
    /\ Nand \subseteq Boards /\ Atf \subseteq Boards
    /\ None \notin Archs \cup Tars
    /\ Menus \subseteq SUBSET Commands
    /\ MaxSource \in Nat \ {0} /\ MaxBreaks \in Nat

VARIABLES
    source,     \* the version of each board's sources, as setup leaves them
    kern,       \* per board: the kernel image and the WiFi module, with Module.symvers
    uboot,      \* per board: what lies in the U-Boot tree
    sd,         \* per board: the pieces a card build copied to out/
    wt,         \* what lies in the throwaway worktree of a card build
    br,         \* the buildroot tree all boards share
    ow,         \* per board: the OpenWrt tree
    run,        \* the command under way, or the last one
    menu,       \* the commands this history draws from
    breaks      \* makes that broke so far

vars == <<source, kern, uboot, sd, wt, br, ow, run, menu, breaks>>

(***************************************************************************)
(* The commands, and the order their steps come in.                        *)
(***************************************************************************)
\* itb: u-boot.itb and idbloader.img, which binman makes last.
NoPieces == [code |-> 0, dtb |-> 0, mkimage |-> 0, itb |-> 0]
Flags(what) == CASE what \in {"rootfs", "openwrt"} -> SUBSET {"clean", "reconfigure"}
                 [] what = "uboot" -> SUBSET {"clean", "sd"}
                 [] OTHER -> {{}}

First(what, flags) ==
    CASE what \in {"all", "linux"} -> "kernel"
      [] what \in {"owall", "openwrt"} -> "feeds"
      [] what = "rootfs" -> "guard"
      [] OTHER -> IF "sd" \in flags THEN "worktree"
                  ELSE IF "clean" \in flags THEN "mrproper" ELSE "uboot"

\* Orchestrator.build: the kernel and its module come before the root filesystem;
\* a command for one builder ends with it. With the openwrt profile U-Boot would
\* come after OpenWrt, whose builder never ends well (see Verify).
After(what, builder) ==
    CASE what = "all" /\ builder = "linux" -> "uboot"
      [] what = "all" /\ builder = "uboot" -> "guard"
      [] OTHER -> "end"

Follow(step, what, b, flags) ==
    CASE step = "kernel" /\ b \in Wifi -> "module"
      [] step = "module" \/ (step = "kernel" /\ b \notin Wifi) -> After(what, "linux")
      [] step \in {"worktree", "mrproper"} -> "uboot"
      [] step = "uboot" -> "artifacts"
      [] step = "artifacts" /\ "sd" \in flags -> "sdcopy"
      [] step = "sdcopy" -> "remove"
      [] step = "artifacts" /\ "sd" \notin flags -> After(what, "uboot")
      [] step = "guard" -> IF "clean" \in flags THEN "brclean" ELSE "brconfig"
      [] step = "brclean" -> "brconfig"
      [] step = "brconfig" -> "brmake"
      [] step = "feeds" -> "seed"
      [] step = "seed" -> "tarball"
      [] step = "tarball" -> "archive"
      [] step = "archive" -> IF "clean" \in flags THEN "owclean" ELSE "owmake"
      [] step = "owclean" -> "owmake"
      [] step = "owmake" -> "verify"
      [] OTHER -> "end"

Has(flag) == flag \in run.flags
At(step) == run.at = step
NextStep == Follow(run.at, run.what, run.board, run.flags)
Advance == run' = [run EXCEPT !.at = NextStep]
\* odd: what failed without ending the command, binman or make itself; "lost" when
\* it ended for the kernel directory it did not find.
NoRun(b) == [what |-> "none", board |-> b, flags |-> {}, at |-> "end", odd |-> "no"]
Ended(what) == run.what = what /\ run.at = "end"
Die == run' = NoRun(run.board) /\ wt' = NoPieces
Unbroken == UNCHANGED <<menu, breaks>>
Broken == breaks < MaxBreaks /\ breaks' = breaks + 1 /\ UNCHANGED menu
B == run.board

Init ==
    /\ source = [b \in Boards |-> 1]
    /\ kern = [b \in Boards |-> [image |-> 0, ko |-> 0]]
    /\ uboot = [b \in Boards |-> NoPieces] /\ wt = NoPieces
    /\ sd = [b \in Boards |-> [code |-> 0, dtb |-> 0]]
    /\ br = [cfg |-> None, pkgs |-> {}, ko |-> None, tar |-> None]
    /\ ow = [b \in Boards |-> [feeds |-> "none", cfg |-> "none", tgz |-> "none", tree |-> "none"]]
    /\ \E b \in Boards : run = NoRun(b)
    /\ menu \in Menus /\ breaks = 0

\* A card build needs the mkimage of the NAND tree.
Start(what, b, flags) ==
    /\ run.at = "end" /\ what \in menu
    /\ what \in {"owall", "openwrt"} \/ "sd" \in flags => b \in Nand
    /\ "sd" \in flags => uboot[b].mkimage > 0
    /\ run' = [what |-> what, board |-> b, flags |-> flags,
               at |-> First(what, flags), odd |-> "no"]
    /\ UNCHANGED <<source, kern, uboot, sd, wt, br, ow>> /\ Unbroken

(***************************************************************************)
(* LinuxBuilder.                                                           *)
(***************************************************************************)
Kernel ==
    /\ At("kernel")
    /\ kern' = [kern EXCEPT ![B].image = source[B]]
    /\ Advance /\ UNCHANGED <<source, uboot, sd, wt, br, ow>> /\ Unbroken

\* The module is built when it is missing, whatever the image it was built for.
Module ==
    /\ At("module")
    /\ kern' = [kern EXCEPT ![B].ko = IF @ > 0 THEN @ ELSE source[B]]
    /\ Advance /\ UNCHANGED <<source, uboot, sd, wt, br, ow>> /\ Unbroken

(***************************************************************************)
(* UBootBuilder.                                                           *)
(***************************************************************************)
Tree == IF Has("sd") THEN wt ELSE uboot[B]
SetTree(t) == IF Has("sd") THEN wt' = t /\ UNCHANGED uboot
              ELSE uboot' = [uboot EXCEPT ![B] = t] /\ UNCHANGED wt
Made == [code |-> source[B], dtb |-> source[B], mkimage |-> source[B],
         itb |-> IF B \in Atf THEN source[B] ELSE 0]
\* What a make that stops early may have got through.
PartMade == [code : {Tree.code, source[B]}, dtb : {Tree.dtb, source[B]},
             mkimage : {Tree.mkimage, source[B]},
             itb : IF B \in Atf THEN {Tree.itb, Faulty, source[B]} ELSE {0}]
\* What a make leaves whose binman failed: the old images, or images without a blob.
Unpackaged == {[Made EXCEPT !.itb = itb] : itb \in {Tree.itb, Faulty}}

Worktree ==
    /\ At("worktree")
    /\ wt' = NoPieces
    /\ Advance /\ UNCHANGED <<source, kern, uboot, sd, br, ow>> /\ Unbroken

Mrproper ==
    /\ At("mrproper")
    /\ SetTree(NoPieces)
    /\ Advance /\ UNCHANGED <<source, kern, sd, br, ow>> /\ Unbroken

\* make succeeds; on a board without ATF binman fails, and nothing of it is used.
UBoot ==
    /\ At("uboot")
    /\ SetTree(Made)
    /\ Advance /\ UNCHANGED <<source, kern, sd, br, ow>> /\ Unbroken

\* Only binman fails, on a board that packs what it makes: _BINMAN_NOISE lets it pass.
BinmanFails ==
    /\ At("uboot") /\ B \in Atf
    /\ \E t \in Unpackaged : SetTree(t)
    /\ run' = [run EXCEPT !.at = NextStep, !.odd = "binman"]
    /\ UNCHANGED <<source, kern, sd, br, ow>> /\ Broken

\* Mutant: the error lines are printed, the build goes on.
UBootErrorPasses ==
    /\ At("uboot")
    /\ \E t \in PartMade : SetTree(t)
    /\ Advance /\ UNCHANGED <<source, kern, sd, br, ow>> /\ Broken

\* A line of the log matches _REAL_ERR.
UBootError ==
    /\ At("uboot")
    /\ \E t \in PartMade : IF Has("sd") THEN UNCHANGED uboot ELSE uboot' = [uboot EXCEPT ![B] = t]
    /\ Die /\ UNCHANGED <<source, kern, sd, br, ow>> /\ Broken

\* make fails without such a line (a linker that cannot find a library, a compiler
\* that is killed): its exit status is not looked at.
UBootOddError ==
    /\ At("uboot")
    /\ \E t \in PartMade : SetTree(t)
    /\ run' = [run EXCEPT !.at = NextStep, !.odd = "make"]
    /\ UNCHANGED <<source, kern, sd, br, ow>> /\ Broken

\* The pieces of the tree, and always the mkimage of the NAND tree.
Artifacts ==
    /\ At("artifacts")
    /\ IF Tree.code > 0 /\ Tree.dtb > 0 /\ uboot[B].mkimage > 0 THEN Advance /\ UNCHANGED wt ELSE Die
    /\ UNCHANGED <<source, kern, uboot, sd, br, ow>> /\ Unbroken

SdCopy ==
    /\ At("sdcopy")
    /\ sd' = [sd EXCEPT ![B] = [code |-> wt.code, dtb |-> wt.dtb]]
    /\ Advance /\ UNCHANGED <<source, kern, uboot, wt, br, ow>> /\ Unbroken

Remove ==
    /\ At("remove")
    /\ wt' = NoPieces
    /\ Advance /\ UNCHANGED <<source, kern, uboot, sd, br, ow>> /\ Unbroken

(***************************************************************************)
(* RootfsBuilder.                                                          *)
(***************************************************************************)
\* Mutant: either flag is taken for the pair.
ArchSwitchEither == Has("clean") \/ Has("reconfigure")
ArchSwitch == Has("clean") /\ Has("reconfigure")

Guard ==
    /\ At("guard")
    /\ IF br.cfg # None /\ ~ArchSwitch /\ br.cfg # Arch[B] THEN Die ELSE Advance /\ UNCHANGED wt
    /\ UNCHANGED <<source, kern, uboot, sd, br, ow>> /\ Unbroken

BrClean ==
    /\ At("brclean")
    /\ br' = [br EXCEPT !.pkgs = {}, !.ko = None, !.tar = None]
    /\ Advance /\ UNCHANGED <<source, kern, uboot, sd, wt, ow>> /\ Unbroken

\* Mutant: a missing .config is not noticed.
BrConfigAsked ==
    /\ At("brconfig")
    /\ br' = IF Has("reconfigure") THEN [br EXCEPT !.cfg = Arch[B]] ELSE br
    /\ Advance /\ UNCHANGED <<source, kern, uboot, sd, wt, ow>> /\ Unbroken

BrConfig ==
    /\ At("brconfig")
    /\ br' = IF Has("reconfigure") \/ br.cfg = None THEN [br EXCEPT !.cfg = Arch[B]] ELSE br
    /\ Advance /\ UNCHANGED <<source, kern, uboot, sd, wt, ow>> /\ Unbroken

\* The packages that have their stamp are not built again; a post-build hook that
\* copies the board's module does so over whatever the target directory holds.
Packages == br.pkgs \cup {br.cfg}
\* Mutant: a module that lies in the target directory is kept.
HookedOnce == IF B \in Hooks /\ kern[B].ko > 0 /\ br.ko = None THEN <<B, kern[B].ko>> ELSE br.ko
Hooked == IF B \in Hooks /\ kern[B].ko > 0 THEN <<B, kern[B].ko>> ELSE br.ko

BrMake ==
    /\ At("brmake")
    /\ br' = [br EXCEPT !.pkgs = Packages, !.ko = Hooked, !.tar = [archs |-> Packages, ko |-> Hooked]]
    /\ Advance /\ UNCHANGED <<source, kern, uboot, sd, wt, ow>> /\ Unbroken

(***************************************************************************)
(* OpenWrtBuilder.                                                         *)
(***************************************************************************)
Feeds ==
    /\ At("feeds")
    /\ ow' = IF ow[B].feeds = "none" \/ Has("reconfigure")
             THEN [ow EXCEPT ![B].feeds = "installed"] ELSE ow
    /\ Advance /\ UNCHANGED <<source, kern, uboot, sd, wt, br>> /\ Unbroken

\* make defconfig drops the packages no installed feed has.
Seed ==
    /\ At("seed")
    /\ ow' = IF ow[B].cfg = "none" \/ Has("reconfigure")
             THEN [ow EXCEPT ![B].cfg = IF ow[B].feeds = "installed" THEN "full" ELSE "bare"] ELSE ow
    /\ Advance /\ UNCHANGED <<source, kern, uboot, sd, wt, br>> /\ Unbroken

Unpacked == Follow("archive", run.what, run.board, run.flags)

\* Mutant: an archive that exists is trusted.
TarballPresent ==
    /\ At("tarball")
    /\ ow' = [ow EXCEPT ![B].tgz = IF @ # "none" THEN @ ELSE "torn"]
    /\ run' = [run EXCEPT !.at = IF ow[B].tgz # "none" THEN Unpacked ELSE "archive"]
    /\ UNCHANGED <<source, kern, uboot, sd, wt, br>> /\ Unbroken

\* The kernel archive is trusted by its hash; otherwise it is opened for writing ...
Tarball ==
    /\ At("tarball")
    /\ ow' = [ow EXCEPT ![B].tgz = IF @ = "good" THEN @ ELSE "torn"]
    /\ run' = [run EXCEPT !.at = IF ow[B].tgz = "good" THEN Unpacked ELSE "archive"]
    /\ UNCHANGED <<source, kern, uboot, sd, wt, br>> /\ Unbroken

\* ... and the archive of v7.1 is written and its hash compared.
Archive ==
    /\ At("archive")
    /\ ow' = [ow EXCEPT ![B].tgz = "good"]
    /\ Advance /\ UNCHANGED <<source, kern, uboot, sd, wt, br>> /\ Unbroken

OwClean ==
    /\ At("owclean")
    /\ ow' = [ow EXCEPT ![B].tree = "none"]
    /\ Advance /\ UNCHANGED <<source, kern, uboot, sd, wt, br>> /\ Unbroken

OwMake ==
    /\ At("owmake")
    /\ ow' = [ow EXCEPT ![B].tree = ow[B].cfg]
    /\ Advance /\ UNCHANGED <<source, kern, uboot, sd, wt, br>> /\ Unbroken

\* _find_build_dir wants a directory called linux-rockchip_rk3506* that is called
\* linux-7.* as well; the one lies in the other, so none is found, whatever make did.
Verify ==
    /\ At("verify")
    /\ run' = [NoRun(B) EXCEPT !.odd = "lost"] /\ wt' = NoPieces
    /\ UNCHANGED <<source, kern, uboot, sd, br, ow>> /\ Unbroken

(***************************************************************************)
(* A step that fails or is killed, with what it may have done by then.     *)
(***************************************************************************)
Stops ==
    /\ run.at # "end"
    /\ Die /\ UNCHANGED <<source, kern, uboot, sd, br, ow>> /\ Unbroken

MrproperCut ==
    /\ At("mrproper")
    /\ \E t \in [code : {0, Tree.code}, dtb : {0, Tree.dtb}, mkimage : {0, Tree.mkimage},
               itb : {0, Tree.itb}] :
           uboot' = [uboot EXCEPT ![B] = t]
    /\ Die /\ UNCHANGED <<source, kern, sd, br, ow>> /\ Broken

SdCopyCut ==
    /\ At("sdcopy")
    /\ sd' = [sd EXCEPT ![B].code = wt.code]
    /\ Die /\ UNCHANGED <<source, kern, uboot, br, ow>> /\ Broken

BrCleanCut ==
    /\ At("brclean")
    /\ \E pkgs \in SUBSET br.pkgs, ko \in {br.ko, None}, tar \in {br.tar, None} :
           br' = [br EXCEPT !.pkgs = pkgs, !.ko = ko, !.tar = tar]
    /\ Die /\ UNCHANGED <<source, kern, uboot, sd, ow>> /\ Broken

BrMakeCut ==
    /\ At("brmake")
    /\ \E ko \in {br.ko, Hooked} : br' = [br EXCEPT !.pkgs = Packages, !.ko = ko]
    /\ Die /\ UNCHANGED <<source, kern, uboot, sd, ow>> /\ Broken

\* `feeds update` has fetched, `feeds install` has not run.
FeedsCut ==
    /\ At("feeds") /\ (ow[B].feeds = "none" \/ Has("reconfigure"))
    /\ ow' = [ow EXCEPT ![B].feeds = "updated"]
    /\ Die /\ UNCHANGED <<source, kern, uboot, sd, br>> /\ Broken

OwMakeCut ==
    /\ At("owmake")
    /\ ow' = [ow EXCEPT ![B].tree = "torn"]
    /\ Die /\ UNCHANGED <<source, kern, uboot, sd, br>> /\ Broken

\* `forge setup` moves the sources on and leaves what make has built, or the tree
\* is cloned anew and nothing is left.
Setup(b) ==
    /\ run.at = "end" /\ source[b] < MaxSource
    /\ source' = [source EXCEPT ![b] = @ + 1]
    /\ \/ UNCHANGED <<kern, uboot>>
       \/ /\ kern' = [kern EXCEPT ![b] = [image |-> 0, ko |-> 0]]
          /\ uboot' = [uboot EXCEPT ![b] = NoPieces]
    /\ run' = NoRun(b) /\ UNCHANGED <<sd, wt, br, ow>> /\ Unbroken

Next ==
    \/ \E what \in Commands, b \in Boards : \E flags \in Flags(what) : Start(what, b, flags)
    \/ Kernel \/ Module
    \/ Worktree \/ Mrproper \/ UBoot \/ BinmanFails \/ UBootError \/ UBootOddError
    \/ Artifacts \/ SdCopy \/ Remove
    \/ Guard \/ BrClean \/ BrConfig \/ BrMake
    \/ Feeds \/ Seed \/ Tarball \/ Archive \/ OwClean \/ OwMake \/ Verify
    \/ Stops \/ MrproperCut \/ SdCopyCut \/ BrCleanCut \/ BrMakeCut \/ FeedsCut \/ OwMakeCut
    \/ \E b \in Boards : Setup(b)

Spec == Init /\ [][Next]_vars

-----------------------------------------------------------------------------
(***************************************************************************)
(* What a build that ended well has left.                                  *)
(***************************************************************************)
StepNames == {"kernel", "module", "worktree", "mrproper", "uboot", "artifacts", "sdcopy", "remove",
              "guard", "brclean", "brconfig", "brmake",
              "feeds", "seed", "tarball", "archive", "owclean", "owmake", "verify"}
Pieces == [code : Built, dtb : Built, mkimage : Built, itb : Built \cup {Faulty}]
Odds == {"no", "binman", "make", "lost"}

\* Every variable holds a value of its kind, and a tar is never made without
\* the configuration it was made from.
TypeOK ==
    /\ source \in [Boards -> Versions]
    /\ kern \in [Boards -> [image : Built, ko : Built]]
    /\ uboot \in [Boards -> Pieces] /\ wt \in Pieces
    /\ sd \in [Boards -> [code : Built, dtb : Built]]
    /\ br \in [cfg : Archs \cup {None}, pkgs : SUBSET Archs, ko : Ko, tar : Tars \cup {None}]
    /\ (br.tar # None => br.cfg # None)
    /\ ow \in [Boards -> [feeds : {"none", "updated", "installed"}, cfg : {"none", "bare", "full"},
                          tgz : {"none", "torn", "good"},
                          tree : {"none", "torn", "bare", "full"}]]
    /\ run \in [what : Commands \cup {"none"}, board : Boards,
                flags : SUBSET {"clean", "reconfigure", "sd"}, at : StepNames \cup {"end"},
                odd : Odds]
    /\ menu \in Menus /\ breaks \in 0..MaxBreaks

\* The rootfs.tar of a build that ended well holds binaries of its board's
\* architecture and no other, though all boards share one output/ whose packages
\* are never rebuilt, and any build before it was cut anywhere, cleaned or
\* reconfigured (rootfs.py's arch guard).
ArchPure == Ended("rootfs") \/ Ended("all") => br.tar # None /\ br.tar.archs = {Arch[B]}

\* Who may have left a WiFi module in the target directory, which all boards share
\* and no build empties: a whole `forge build` of a board whose hook copies the
\* module ends with its own in the tar, never none, an older or another board's; and
\* no rootfs.tar holds a module of another architecture.
WifiShips ==
    /\ Ended("all") /\ B \in Hooks => kern[B].ko > 0 /\ br.tar.ko = <<B, kern[B].ko>>
    /\ Ended("rootfs") \/ Ended("all") => br.tar.ko = None \/ Arch[br.tar.ko[1]] = Arch[B]

\* The separate pieces of t are of one make of the present sources.
NewPieces(t) == t.code = source[B] /\ t.dtb = source[B] /\ t.mkimage = source[B]

\* What a U-Boot build that ended well has left. The separate pieces are of the
\* present sources, unless make failed in a way the log does not show, over a tree
\* that still held older ones: not after --clean, never for a card. On an ATF board
\* u-boot.itb and idbloader.img are as well, unless binman or make failed so; and
\* after --clean no older ones are left to be packed, whatever failed.
UBootCurrent ==
    /\ Ended("all") \/ (Ended("uboot") /\ ~Has("sd")) =>
          /\ run.odd # "make" \/ Has("clean") => NewPieces(uboot[B])
          /\ B \in Atf /\ run.odd = "no" => uboot[B].itb = source[B]
          /\ Has("clean") => uboot[B].itb \in {0, Faulty, source[B]}
    /\ Ended("uboot") /\ Has("sd") => sd[B].code = source[B] /\ sd[B].dtb = source[B]

\* OpenWrt never cleans or makes from a kernel archive that was cut while it was
\* written, in whatever state earlier builds left it.
OpenwrtSound == At("owclean") \/ At("owmake") => ow[B].tgz = "good"

-----------------------------------------------------------------------------
(***************************************************************************)
(* What comments of the code say of the program, and the code does not.    *)
(***************************************************************************)
\* "real dts/compile/link errors are FATAL" (uboot.py:168): a U-Boot build that ended
\* well has left separate pieces of the present sources.
UBootGate == Ended("uboot") /\ ~Has("sd") => NewPieces(uboot[B])

\* "ATF boards MUST binman-succeed" (fit.py:79): when only binman can have failed,
\* what a build that ended well leaves to be packed is of the present sources.
BinmanGate ==
    Ended("uboot") /\ B \in Atf /\ run.odd # "make" => uboot[B].itb = source[B]

\* "every customization (WiFi .ko, ...) is baked ... during forge build"
\* (stage.py:4-8): a whole build of any board with a driver ships its module.
WifiBaked == Ended("all") /\ B \in Wifi => br.tar.ko = <<B, kern[B].ko>>

\* "feeds (idempotent unless --reconfigure)" (openwrt.py:85): what OpenWrt has made
\* has the packages of every feed its seed asks for.
FeedsThere == At("verify") => ow[B].tree = "full"

\* "OpenWrt kernel build dir not found (build failed?)" (openwrt.py:111): only a
\* build that did not finish is told so.
OpenwrtFound == run.odd = "lost" => ow[B].tree \in {"none", "torn"}
=============================================================================
