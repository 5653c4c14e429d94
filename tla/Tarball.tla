------------------------------ MODULE Tarball ------------------------------
(***************************************************************************)
(* `forge build ubuntu-rootfs` (build/ubuntu_rootfs.py), the one part that  *)
(* runs as root: extract the Ubuntu base into a work directory, bind-mount  *)
(* /proc, /sys and /dev into it, install the packages in a chroot, create   *)
(* the account, pack the tar, and leave a marker with a digest by which     *)
(* later runs skip the half hour.                                           *)
(*                                                                          *)
(* A package list and an account are versions.  Of the digest only the      *)
(* package list varies: the board, the release and the builder's own source *)
(* change as it does.                                                       *)
(***************************************************************************)
EXTENDS Naturals

CONSTANTS
  PkgLists,  \* the versions of packages.list
  Accounts,  \* the login accounts forge.yaml and user/account.yaml give
  Links,     \* the console links of the rk3588 board
  NoWork, NoTar, NoMark,
  Empty,     \* the marker without a digest: of old, accepted by hand, or cut
  Changes,   \* what people do: "pkgs", "account", "accept", "clean", "reboot"
  MaxBreaks, MaxChanges

Points == <<"proc", "sys", "dev">>

PointNames == {"proc", "sys", "dev"}

Sizes == {"part", "whole"}

Works == [owner : {"root", "user"}, base : Sizes, pkgs : SUBSET PkgLists,
          accounts : SUBSET Accounts, links : SUBSET Links]

Tars == [copy : Sizes, base : Sizes, pkgs : SUBSET PkgLists,
         accounts : SUBSET Accounts, host : SUBSET PointNames]

ASSUME TarballConstants ==
  /\ MaxBreaks \in Nat /\ MaxChanges \in Nat
  /\ NoWork \notin Works /\ NoTar \notin Tars
  /\ Empty \notin PkgLists /\ NoMark \notin PkgLists /\ NoMark # Empty

VARIABLES
  pkgs, account,   \* packages.list and the account as they are now
  links,           \* the console links of the board
  \* ---- out/<board>/
  tgz,             \* the Ubuntu base archive is in dl/
  work,            \* ubuntu-rootfs.work
  tar,             \* ubuntu-rootfs.tar
  marker,          \* .ubuntu-rootfs-built
  \* ---- the host
  mounts,          \* layers bind-mounted on each point of the work directory
  hurt,            \* nodes of the host's own /dev are gone
  \* ---- the forge process
  phase, at,
  clean, root,     \* --clean; run by root
  digest,          \* computed when the run began
  \* ---- history
  outcome,         \* how the last run ended
  calm,            \* nothing was changed and nothing broke since it began
  fresh,           \* its work directory was extracted by itself
  traced,          \* the marker was written by such a run
  stranded,        \* a run ended between its mounts and their clean-up
  orphan,          \* a clean took the tar from under the marker that stands
  breaks, changes

inputVars == <<pkgs, account, links>>
outVars == <<tgz, work, tar, marker>>
hostVars == <<mounts, hurt>>
runVars == <<clean, root, digest>>
histVars == <<calm, fresh, traced, stranded, orphan>>
vars == <<inputVars, outVars, hostVars, phase, at, runVars, outcome, histVars, breaks, changes>>

Mounted == {p \in PointNames : mounts[p] > 0}

\* The base as tar unpacks it into a work directory of its owner.
Extracted(owner, base) ==
  [owner |-> owner, base |-> base, pkgs |-> {}, accounts |-> {}, links |-> {}]

-----------------------------------------------------------------------------

\* Earlier versions left a work directory of the user, or a tar with an empty
\* marker.
Init ==
  /\ pkgs \in PkgLists
  /\ account \in Accounts
  /\ links \in {{}, Links}
  /\ tgz = FALSE
  /\ work \in {NoWork, Extracted("user", "whole")}
  /\ \/ tar = NoTar /\ marker = NoMark
     \/ /\ tar = [copy |-> "whole", base |-> "whole", pkgs |-> {pkgs},
                accounts |-> {account}, host |-> {}]
        /\ marker = Empty
  /\ mounts = [p \in PointNames |-> 0]
  /\ hurt = FALSE
  /\ phase = "idle"
  /\ at = 1
  /\ clean = FALSE
  /\ root = FALSE
  /\ digest = pkgs
  /\ outcome = "none"
  /\ calm = FALSE
  /\ fresh = FALSE
  /\ traced = FALSE
  /\ stranded = FALSE
  /\ orphan = FALSE
  /\ breaks = 0
  /\ changes = 0

Start(c, r) ==
  /\ phase = "idle"
  /\ phase' = "guard"
  /\ clean' = c
  /\ root' = r
  /\ digest' = pkgs
  /\ outcome' = "none"
  /\ calm' = TRUE
  /\ fresh' = FALSE
  /\ UNCHANGED <<inputVars, outVars, hostVars, at, traced, stranded, orphan, breaks, changes>>

\* The end of a run: "done", "stale", "failed" or "killed".
End(how) == phase' = "idle" /\ outcome' = how

Goto(where) == phase' = where /\ UNCHANGED outcome

\* What a step of the run leaves alone whatever it does.
Frame == UNCHANGED <<inputVars, runVars, calm, breaks, changes>>

Cached == ~clean /\ tar # NoTar /\ marker # NoMark

\* Mutant: only the files' existence is looked at, as before the digest.
SkipExisting ==
  /\ phase = "guard" /\ Cached /\ marker # Empty
  /\ End("done")
  /\ Frame
  /\ UNCHANGED <<outVars, hostVars, at, fresh, traced, stranded, orphan>>

Skip ==
  /\ phase = "guard" /\ Cached /\ marker = digest
  /\ End("done")
  /\ Frame
  /\ UNCHANGED <<outVars, hostVars, at, fresh, traced, stranded, orphan>>

\* An empty marker is trusted once and gets the digest of today's inputs.
Adopt ==
  /\ phase = "guard" /\ Cached /\ marker = Empty
  /\ marker' = digest
  /\ End("done")
  /\ traced' = FALSE
  /\ Frame
  /\ UNCHANGED <<tgz, work, tar, hostVars, at, fresh, stranded, orphan>>

DieStale ==
  /\ phase = "guard" /\ Cached /\ marker \notin {Empty, digest}
  /\ End("stale")
  /\ Frame
  /\ UNCHANGED <<outVars, hostVars, at, fresh, traced, stranded, orphan>>

\* Mutant: --clean leaves the marker until the new one is written.
PrepareKeepsMarker ==
  /\ phase = "guard" /\ ~Cached
  /\ IF root THEN Goto("work") ELSE End("failed")
  /\ Frame
  /\ UNCHANGED <<outVars, hostVars, at, fresh, traced, stranded, orphan>>

Prepare ==
  /\ phase = "guard" /\ ~Cached
  /\ marker' = IF clean THEN NoMark ELSE marker
  /\ orphan' = (orphan /\ ~clean)
  /\ IF root THEN Goto("work") ELSE End("failed")
  /\ Frame
  /\ UNCHANGED <<tgz, work, tar, hostVars, at, fresh, traced, stranded>>

\* Mutant: --clean does not remove the work directory.
UnfitForeign == work # NoWork /\ work.owner = "user"

Unfit == work # NoWork /\ (clean \/ work.owner = "user")

RmTree ==
  /\ phase = "work" /\ Unfit /\ Mounted = {}
  /\ work' = [work EXCEPT !.base = "part"]
  /\ Goto("removing")
  /\ Frame
  /\ UNCHANGED <<tgz, tar, marker, hostVars, at, fresh, traced, stranded, orphan>>

\* rmtree crosses into what is mounted: it may empty the host's /dev, and it
\* fails on a mount point at the latest.
RmTreeStuck ==
  /\ phase = "work" /\ Unfit /\ Mounted # {}
  /\ work' = [work EXCEPT !.base = "part"]
  /\ hurt' \in {hurt, hurt \/ "dev" \in Mounted}
  /\ End("failed")
  /\ Frame
  /\ UNCHANGED <<tgz, tar, marker, mounts, at, fresh, traced, stranded, orphan>>

\* Mutant: the base is not extracted again after the removal.
RemovedForgets ==
  /\ phase = "removing"
  /\ work' = NoWork
  /\ Goto("sources")
  /\ Frame
  /\ UNCHANGED <<tgz, tar, marker, hostVars, at, fresh, traced, stranded, orphan>>

Removed ==
  /\ phase = "removing"
  /\ work' = NoWork
  /\ Goto("work")
  /\ Frame
  /\ UNCHANGED <<tgz, tar, marker, hostVars, at, fresh, traced, stranded, orphan>>

Reuse ==
  /\ phase = "work" /\ work # NoWork /\ ~Unfit
  /\ Goto("sources")
  /\ Frame
  /\ UNCHANGED <<outVars, hostVars, at, fresh, traced, stranded, orphan>>

\* The download goes to a .partial file that is renamed when it is whole.
Download ==
  /\ phase = "work" /\ work = NoWork /\ ~tgz
  /\ tgz' = TRUE
  /\ Goto("work")
  /\ Frame
  /\ UNCHANGED <<work, tar, marker, hostVars, at, fresh, traced, stranded, orphan>>

MakeWork ==
  /\ phase = "work" /\ work = NoWork /\ tgz
  /\ work' = Extracted("root", "part")
  /\ Goto("extract")
  /\ Frame
  /\ UNCHANGED <<tgz, tar, marker, hostVars, at, fresh, traced, stranded, orphan>>

Extract ==
  /\ phase = "extract"
  /\ work' = Extracted("root", "whole")
  /\ fresh' = TRUE
  /\ Goto("sources")
  /\ Frame
  /\ UNCHANGED <<tgz, tar, marker, hostVars, at, traced, stranded, orphan>>

\* The codename, the sources and qemu, copied in.
Sources ==
  /\ phase = "sources"
  /\ Goto("mount")
  /\ at' = 1
  /\ Frame
  /\ UNCHANGED <<outVars, hostVars, fresh, traced, stranded, orphan>>

BindMount ==
  /\ phase = "mount"
  /\ mounts' = [mounts EXCEPT ![Points[at]] = @ + 1]
  /\ at' = at + 1
  /\ Goto(IF at = 3 THEN "resolv" ELSE "mount")
  /\ Frame
  /\ UNCHANGED <<outVars, hurt, fresh, traced, stranded, orphan>>

CopyResolv ==
  /\ phase = "resolv"
  /\ Goto("apt")
  /\ Frame
  /\ UNCHANGED <<outVars, hostVars, at, fresh, traced, stranded, orphan>>

\* The list is read now, not when the digest was made.
AptInstall ==
  /\ phase = "apt"
  /\ work' = [work EXCEPT !.pkgs = @ \cup {pkgs}]
  /\ Goto("umount")
  /\ at' = 1
  /\ Frame
  /\ UNCHANGED <<tgz, tar, marker, hostVars, fresh, traced, stranded, orphan>>

\* finally: one layer comes off each point; "unwind" is the way of an error.
CleanupMounts ==
  /\ phase \in {"umount", "unwind"}
  /\ mounts' = [mounts EXCEPT ![Points[at]] = IF @ > 0 THEN @ - 1 ELSE 0]
  /\ at' = at + 1
  /\ IF at < 3 THEN Goto(phase) ELSE IF phase = "umount" THEN Goto("config") ELSE End("failed")
  /\ Frame
  /\ UNCHANGED <<outVars, hurt, fresh, traced, stranded, orphan>>

\* useradd where the account is not there.  All accounts have the one uid of
\* forge.yaml (user/account.yaml gives a name and a password), so useradd fails
\* where another one has it.
CreateAccount ==
  /\ phase = "config"
  /\ IF account \in work.accounts \/ work.accounts = {}
     THEN Goto("harden") /\ work' = [work EXCEPT !.accounts = {account}]
     ELSE End("failed") /\ UNCHANGED work
  /\ Frame
  /\ UNCHANGED <<tgz, tar, marker, hostVars, at, fresh, traced, stranded, orphan>>

\* The getty link is made, never replaced: one that is there is an error.
Rk3588Hardening ==
  /\ phase = "harden"
  /\ IF links \cap work.links # {}
     THEN End("failed") /\ UNCHANGED work
     ELSE Goto("tar") /\ work' = [work EXCEPT !.links = @ \cup links]
  /\ Frame
  /\ UNCHANGED <<tgz, tar, marker, hostVars, at, fresh, traced, stranded, orphan>>

\* The tar of the work directory, with what is still mounted in it.
Content(copy) ==
  [copy |-> copy, base |-> work.base, pkgs |-> work.pkgs, accounts |-> work.accounts,
   host |-> Mounted]

\* The tar is written in place.
PackTar ==
  /\ phase = "tar"
  /\ tar' = Content("part")
  /\ Goto("packing")
  /\ Frame
  /\ UNCHANGED <<tgz, work, marker, hostVars, at, fresh, traced, stranded, orphan>>

Packed ==
  /\ phase = "packing"
  /\ tar' = Content("whole")
  /\ Goto("mark")
  /\ Frame
  /\ UNCHANGED <<tgz, work, marker, hostVars, at, fresh, traced, stranded, orphan>>

\* write_text: the file is emptied, then filled.
OpenMark ==
  /\ phase = "mark"
  /\ marker' = Empty
  /\ traced' = FALSE
  /\ orphan' = FALSE
  /\ Goto("marking")
  /\ Frame
  /\ UNCHANGED <<tgz, work, tar, hostVars, at, fresh, stranded>>

Mark ==
  /\ phase = "marking"
  /\ marker' = digest
  /\ traced' = (fresh /\ calm)
  /\ End("done")
  /\ Frame
  /\ UNCHANGED <<tgz, work, tar, hostVars, at, fresh, stranded, orphan>>

-----------------------------------------------------------------------------
(* What goes wrong *)

MayBreak ==
  /\ breaks < MaxBreaks
  /\ breaks' = breaks + 1
  /\ calm' = FALSE
  /\ UNCHANGED <<inputVars, runVars, changes>>

\* Mutant: no finally around apt.
CommandFailsMounted ==
  /\ MayBreak
  /\ phase \in {"mount", "resolv", "apt"}
  /\ End("failed")
  /\ stranded' = (stranded \/ phase \in {"mount", "resolv"})
  /\ UNCHANGED <<outVars, hostVars, at, fresh, traced, orphan>>

\* What a half-extracted or half-removed work directory makes fail, and a
\* command that does: curl, tar, mount, apt, useradd, chpasswd.
CommandFails ==
  /\ \/ MayBreak
     \/ phase \in {"sources", "apt", "config"} /\ work.base = "part" /\ Frame
     \/ phase = "packing" /\ Mounted # {} /\ Frame
  /\ phase \in {"work", "extract", "sources", "mount", "resolv", "apt", "config", "packing"}
  /\ phase = "work" => work = NoWork /\ ~tgz
  /\ IF phase = "apt"
     THEN /\ Goto("unwind")
          /\ at' = 1
          /\ work' \in {work, [work EXCEPT !.pkgs = @ \cup {pkgs}]}
     ELSE End("failed") /\ UNCHANGED <<at, work>>
  /\ stranded' = (stranded \/ phase \in {"mount", "resolv"})
  /\ UNCHANGED <<tgz, tar, marker, hostVars, fresh, traced, orphan>>

\* umount runs with check=False: a busy point stays mounted.
UmountFails ==
  /\ MayBreak
  /\ phase \in {"umount", "unwind"}
  /\ at' = at + 1
  /\ IF at < 3 THEN Goto(phase) ELSE IF phase = "umount" THEN Goto("config") ELSE End("failed")
  /\ stranded' = TRUE
  /\ UNCHANGED <<outVars, hostVars, fresh, traced, orphan>>

\* SIGKILL, SIGTERM: no finally.
Kill ==
  /\ MayBreak
  /\ phase # "idle"
  /\ End("killed")
  /\ stranded' = (stranded \/ phase \in {"mount", "resolv", "apt", "umount", "unwind"})
  /\ UNCHANGED <<outVars, hostVars, at, fresh, traced, orphan>>

-----------------------------------------------------------------------------
(* The others *)

MayChange(what) ==
  /\ what \in Changes
  /\ changes < MaxChanges
  /\ changes' = changes + 1
  /\ calm' = FALSE
  /\ UNCHANGED <<phase, at, runVars, outcome, fresh, traced, breaks>>

EditPkgs ==
  /\ MayChange("pkgs")
  /\ pkgs' \in PkgLists \ {pkgs}
  /\ UNCHANGED <<account, links, outVars, hostVars, stranded, orphan>>

EditAccount ==
  /\ MayChange("account")
  /\ account' \in Accounts \ {account}
  /\ UNCHANGED <<pkgs, links, outVars, hostVars, stranded, orphan>>

\* printf '' > marker, as the stale message offers.
Accept ==
  /\ MayChange("accept")
  /\ phase = "idle" /\ outcome = "stale"
  /\ marker # NoMark
  /\ marker' = Empty
  /\ UNCHANGED <<inputVars, tgz, work, tar, hostVars, stranded, orphan>>

\* `forge clean`, not as root: what root owns inside the work directory stays.
\* rmtree goes entry by entry in no order and ignores its errors: a cut one
\* leaves any of the files, and may leave the marker without the tar.
CleanOut ==
  /\ MayChange("clean")
  /\ phase = "idle"
  /\ tar' \in {tar, NoTar}
  /\ marker' \in {marker, NoMark}
  /\ tgz' \in {tgz, FALSE}
  /\ work' \in IF work # NoWork /\ work.owner = "user"
               THEN {work, [work EXCEPT !.base = "part"], NoWork} ELSE {work}
  /\ orphan' = (marker' # NoMark /\ (orphan \/ tar' = NoTar))
  /\ UNCHANGED <<inputVars, hostVars, stranded>>

Reboot ==
  /\ MayChange("reboot")
  /\ phase = "idle"
  /\ mounts' = [p \in PointNames |-> 0]
  /\ hurt' = FALSE
  /\ stranded' = FALSE
  /\ UNCHANGED <<inputVars, outVars, orphan>>

-----------------------------------------------------------------------------

Step ==
  \/ Skip \/ Adopt \/ DieStale \/ Prepare
  \/ RmTree \/ RmTreeStuck \/ Removed \/ Reuse \/ Download \/ MakeWork \/ Extract
  \/ Sources \/ BindMount \/ CopyResolv \/ AptInstall \/ CleanupMounts
  \/ CreateAccount \/ Rk3588Hardening \/ PackTar \/ Packed \/ OpenMark \/ Mark

Others == EditPkgs \/ EditAccount \/ Accept \/ CleanOut \/ Reboot

Next ==
  \/ \E c, r \in BOOLEAN : Start(c, r)
  \/ Step
  \/ CommandFails \/ UmountFails \/ Kill
  \/ Others

Spec == Init /\ [][Next]_vars

-----------------------------------------------------------------------------
(* Properties *)

Phases == {"idle", "guard", "work", "removing", "extract", "sources", "mount", "resolv",
           "apt", "umount", "unwind", "config", "harden", "tar", "packing", "mark", "marking"}

FlagsOK ==
  /\ tgz \in BOOLEAN /\ hurt \in BOOLEAN
  /\ clean \in BOOLEAN /\ root \in BOOLEAN
  /\ calm \in BOOLEAN /\ fresh \in BOOLEAN /\ traced \in BOOLEAN /\ stranded \in BOOLEAN
  /\ orphan \in BOOLEAN

StateOK ==
  /\ pkgs \in PkgLists /\ account \in Accounts /\ links \in SUBSET Links
  /\ work \in Works \cup {NoWork}
  /\ tar \in Tars \cup {NoTar}
  /\ marker \in PkgLists \cup {NoMark, Empty}
  /\ mounts \in [PointNames -> Nat]
  /\ phase \in Phases
  /\ at \in 1..4
  /\ phase \in {"mount", "umount", "unwind"} => at <= 3
  /\ phase \notin {"idle", "guard", "work"} => work # NoWork
  /\ digest \in PkgLists
  /\ outcome \in {"none", "done", "stale", "failed", "killed"}
  /\ breaks \in 0..MaxBreaks /\ changes \in 0..MaxChanges

\* The run never chroots into, configures or packs a work directory that is
\* not there, its point of the three mounts is one, and a marker holds nothing
\* or a digest.
TypeOK == FlagsOK /\ StateOK

\* `--clean` starts fresh (ubuntu_rootfs.py:150): whatever earlier runs left, a
\* root's undisturbed --clean build ends well, with a tar of just the packages
\* and the account wanted now and nothing of the host in it - unless a run was
\* cut with its mounts in place.
CleanExact ==
  phase = "idle" /\ outcome # "none" /\ clean /\ root /\ calm /\ ~stranded =>
    /\ outcome = "done"
    /\ tar = [copy |-> "whole", base |-> "whole", pkgs |-> {pkgs}, accounts |-> {account},
              host |-> {}]

\* A change of packages.list is a stale-cache die, never a silent skip
\* (ubuntu_rootfs.py:101-105): a run that ends well over a tar of one
\* undisturbed build leaves one that holds the packages of today's list - unless
\* a clean took that tar and left its marker.
SkipFresh ==
  phase = "idle" /\ outcome = "done" /\ calm /\ traced /\ ~orphan =>
    tar # NoTar /\ tar.copy = "whole" /\ tar.base = "whole" /\ tar.pkgs = {pkgs} /\ tar.host = {}

\* Between runs nothing of the host is mounted in the work directory, and no
\* rmtree has reached the host's /dev, unless a run ended between its mounts
\* and their clean-up: an apt that fails or is interrupted does not do it.
HostApart == ~stranded => ~hurt /\ (phase = "idle" => Mounted = {})

\* The marker stands over a whole tar (ubuntu_rootfs.py:98-124): whatever is
\* cut or fails, the builder itself revokes it before it rewrites the tar and
\* writes it last; only a clean may part them, until the next marker.
TarCopy == IF tar = NoTar THEN "none" ELSE tar.copy

C == INSTANCE Cache WITH
  copy <- TarCopy, stamp <- marker, lost <- orphan,
  Stamps <- PkgLists \cup {Empty}, NoStamp <- NoMark

KeepsPromise == C!Spec
=============================================================================
