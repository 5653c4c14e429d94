# A TLA+ model of forge, the rk-forge build orchestrator

rk-forge turns pinned upstream sources (Linux, U-Boot, buildroot / OpenWrt /
Ubuntu base) and a board's patch series into a flashable image for three
Rockchip boards. `forge` (src/forge, Python) is its single entry point.  It is a
sequential program, and what makes it hard is not threads: it is a program that
*decides what it does not have to do*.  A stage is skipped when a fingerprint
says so, a patch series is replayed or not, a driver is fetched or not, and each
decision rests on files that people, other commands and interrupted runs have
left behind.  Around that core stand the builders, which trust what foreign makes
and earlier builds left in shared trees, and the packers, which lay bytes out at
fixed places and read them back.  The specifications here state what all of them
promise, check the promises on small instances of the boards, and prove them for
every graph, patch series, length, package list and set of boards.  Next to `forge`
stand the scripts under `sim/`, which boot the images in QEMU; they are modelled for
what they share with each other.

Paths below are relative to the repository root; `core/dag.py` and the like are
below `src/forge/`.

## Inventory

| part | state it keeps | operations | what is hard |
|---|---|---|---|
| stage skipper (`core/stage.py`) | `out/<board>/.forge-stage/<stage>.fingerprint` | `fingerprint`, `up_to_date`, `mark_done`, `run` | hashes inputs *after* the action; sees size and whole seconds only; a directory contributes source-like names only; a kill at any point |
| orchestrator (`core/dag.py`, `cli.py`) | everything below `out/<board>/` | `pack`, `pack_sd`, `assemble`, `all`, `clean`; leaf commands | which inputs are listed against which are read; records one step keeps for another; leaf commands, with flags of their own, that write without a record; an interrupted `clean` |
| setup (`core/dag.py`) | the patched trees, `apply-<component>.fingerprint` | `setup`, `_apply_series` | reset, clean, replay and record are separate steps; the fingerprint outlives the tree it describes |
| patch applier (`core/patch.py`) | the commits of a tree, `.git/rebase-apply` | `apply`, `--check`, `_rollback`, `series_digest` | one patch of many fails; a killed `git am` |
| fetchers (`fetch/`) | trees, the driver drop, its marker, `.git/info/exclude` | `fetch` | half clones, marker before exclude entry |
| packers (`pack/`, `stage.py`) | images in `out/<board>/` | `pack`, `assemble`, `stage` | what they read; lengths against gaps and partitions; a file of the last pack that is written into |
| encoders (`tools/`) | none | FIT and RKAF/RKFW encoding and reading | offsets, padding, overlap, two modes, a reader that knows only the lengths |
| component builders (`build/linux.py`, `uboot.py`, `rootfs.py`, `openwrt.py`) | build trees, one buildroot `output/` for all boards, OpenWrt's tree and kernel archive | `build` | incremental makes over what another board, or a killed build, has left; makes whose exit status says little |
| ubuntu rootfs builder (`build/ubuntu_rootfs.py`) | `ubuntu-rootfs.tar`, its marker, the work directory, bind mounts | `build ubuntu-rootfs` | runs as root; a cache with a marker that people may overrule and a cut `clean` may orphan; a reused work directory; mounts of the host in it |
| flash (`flash.py`) | none | `flash` | guards and `dd` look at a host that moves; `sd.img` is shared with the packer |
| NPU runtime (`src/rknpu/rk3588`, C++) | buffers, a context, the driver descriptor | load, set inputs, run, get outputs | segments and lanes, fence time-outs, buffer life cycle |
| simulator scripts (`sim/*.py`) | QEMU processes, the root file system and the overlay with its snapshot, the serial log, pictures, the guest's console and files | `create`, `restore`, `drop`; `up`; `smoke_monitor`, `shot`; `sendfile`, `serx` | fixed waits instead of answers; whichever machine holds the port; a root file system that is written under the overlay; a log that two processes truncate and two read; lines that pile up on a console |
| configuration, doctor, site | none that outlives a command | | |

Interaction is by files and calls: a command is one process, calls packers and
builders one after the other, and learns what earlier commands did only from the
file system.  `forge build` and people write the sources; `forge fetch`,
`forge apply` and the leaf commands of `forge pack` / `forge stage` share the
files of the orchestrated commands and none of their records.  `forge flash` reads what
`pack-sd` wrote, also while the next `pack-sd` is at work.

What makes each part correct:

* **Skipping is invisible.** If a step is skipped, running it would have given
  the artefact that is there.  A finished command leaves nothing for the same
  command to do, and `--force` owes nothing to any record.
* **Setup means the pin plus the series.** Success leaves exactly that; failure
  leaves what was there; repeating it always gets there; the driver survives.
* **Layouts hold what they say.** Images do not overlap, fit their partition, and
  come back as the file that went in; an SD image that passes its self-check is
  whole.
* **A build that ends well ships its own parts.** One architecture, the module the
  board's hook copies, U-Boot pieces of the present sources, OpenWrt from a whole
  archive.  Where the code does not keep this (a tolerated failure of make or binman, a
  hook that copies nothing), the property says what is left of it and a claim refutes
  the rest.
* **A cache vouches for the truth.** The marker of the ubuntu tar stands over a
  whole tar of today's packages, as long as no cut `clean` has taken one and left the
  other; `--clean` always recovers; the host is left alone.
* **A script reports what is so.** A snapshot that is reported is there, of a drawn
  desktop and of the root file system its overlay lies on, a start is of the script's own machine, an anomaly in the log is reported
  once, a file that was sent is on the board.
* **A flash writes only where nobody looks aside.** The guards hold for a host that
  keeps still, and what is reported as written is a whole image.

## Modules

| module | models | |
|---|---|---|
| `Stage` | `core/stage.py` and the command loop of `core/dag.py` | any step graph: the graph is a CONSTANT |
| `Dag` | `core/dag.py:209-343` and what the packers read | the graphs of the boards, as tables |
| `Claims` | sentences of documents and comments about the orchestrator | EXTENDS `Stage`, `Dag` |
| `MCForge` | an instance: one board, one profile | EXTENDS `Claims` |
| `StageProofs` | theorems about `Stage` | EXTENDS `Stage`, `TLAPS` |
| `Setup` | `forge setup` / `fetch` / `apply` on one tree | `core/dag.py:87-181`, `core/patch.py`, `fetch/` |
| `MCSetup` | its instances | |
| `SetupProofs` | theorems about `Setup` | |
| `Update` | `forge assemble`: `pack/assemble.py`, `tools/rkfw_pack.py` | any package file, parameter file and lengths |
| `MCUpdate`, `UpdateProofs` | its instances; theorems | |
| `Fit` | `tools/fit_pack.py`: writer, reader, self-test | any image source and blobs |
| `MCFit`, `FitProofs` | its instances; theorems on the layout, on what is read back and packed again | |
| `Media` | `pack/sd.py`, `pack/emmc.py` and `flash.py`, run side by side | |
| `MCMedia`, `MediaProofs` | its instances; theorems | |
| `Tarball` | `build/ubuntu_rootfs.py` | implements `Cache` |
| `Cache` | what a stamped product promises | abstract specification |
| `MCTarball`, `TarballProofs` | its instances; theorems and the refinement | |
| `Builds` | `build/linux.py`, `uboot.py`, `rootfs.py`, `openwrt.py`, and their order | any boards and architectures |
| `MCBuilds`, `BuildsProofs` | its instances; theorems | |
| `Machine` | the QEMU processes of `sim/` and what they serve | shared by the next three |
| `Snapshot` | `sim/snapshot.py` | EXTENDS `Machine` |
| `Watch` | `sim/up.py`, `resboot.py`, `smoke_monitor.py`, `shot.py`, the verdict of `verify_screen.py` | EXTENDS `Machine` |
| `Send` | `sim/sendfile.py`, `serx.py` and the console they talk to | EXTENDS `Machine` |
| `Sim` | the scripts on one host | composes `Snapshot`, `Watch`, `Send` |
| `MCSim`, `SimProofs` | its instances; theorems | |

### Stage

State: `stamp[f]` is what `stat` shows of a file (size and mtime, 0 when it is
absent); `record[n]` and `recorded` the record files; `ver[x]` the text of a
source; `made[w]` what an artefact was made from.  Content is *provenance*: a set
of `<<source, version>>` pairs, and an artefact is stale when it holds a version
its source no longer has.  A torn artefact holds `<<itself, 0>>`, which no
rebuild produces.  The process is `cmd`, `pos`, and `phase`, which is where
`Stage.run` stands: `check` (:90), `act` (:94), `mark` (:95).

| action | code |
|---|---|
| `Invoke`, `InvokeLeaf` | an orchestration command; a leaf command, which is the action alone and may read other files (`from`) |
| `Skip`, `Run` | `core/stage.py:90-93` |
| `Act` | the action runs to its end |
| `Break`, `Missing` | it stops in the middle (a tool fails, a kill; `die` on an absent input): any of its artefacts may be whole or torn |
| `Mark` | `mark_done`, with the fingerprint of the inputs as they are *now* |
| `Kill` | between steps, or while the record file is written, which tears it |
| `Clean`, `CleanCut` | `forge clean`, whole or interrupted in its `rmtree` |
| `Edit`, `QuietEdit` | a person or `forge build`, at any moment; the second is one `stat` cannot show |

`taint` is history: the steps whose matching record is known to vouch for
nothing.  There are exactly these ways in: an edit of something the step has
read, between its action and its record; an edit that `stat` cannot show; a torn
artefact behind a record that still matches (a forced run or a leaf command that
was killed); an artefact that a leaf has made from *other* files behind a record that
still matches (`Unaware(Astray)`); an interrupted `clean`; and staging over a tainted
tree.  A rerun of the action that finishes clears it.  These are the known limits of a
content hash over `stat`; the properties say that there are no others.

A leaf command has flags of its own.  `forge stage` takes a `--profile`, buildroot
unless given, and stages that tree whatever profile the tree was packed for;
`forge pack fit` takes a `--kernel-dir`; neither writes a record.  `Leaves[s]` is
therefore a set of tables like `Needs`, one for each choice of these flags, and
`from` is the table the running command reads by.  After `forge stage` of another
profile the record of stage-rootfs still matches: the next `forge pack` skips it and
a pack-emmc that reruns packs the wrong tree (`LeafStage`).  `SkipIsRerun` and
`PackDelivers` are about the steps no such leaf has undermined; `ForceDelivers` holds
over all of them.  A graph has one profile and one variant of the boot image: another
`--rootfs` of the orchestrator in the same `out/` is not in an instance.
`forge pack fit --variant sd` is the leaf of pack-fit-sd; on an eMMC board it copies
U-Boot's images and then finds no card pieces, which is a leaf of pack-fit that stops
in the middle (`Break`).

Some files are folded together.  pack-emmc writes `boot.scr` into the staged
tree it packs; that file depends on pack-emmc's own inputs alone and is part of
`rootfs.ext4`.  `idblock.img` comes with `MiniLoaderAll.bin`.  The re-execution under fakeroot is
a fork and a wait inside one action.  Tools that no list names (mkimage, mke2fs)
are left out: they are not part of the tree.

### Dag

`Graph(board, profile)` gives the steps, with the stage name, the listed inputs
and the written artefacts; `LeafTables` gives what the leaf commands may read.  `NeedsOf` gives what the packers *read*.  The
difference between the two is the interesting part, and most of its refuted claims are
an entry that is in the second and not in the first.  `SkipIsRerun` and
`PackDelivers` therefore speak of the `Tracked` sources and the `Linked` steps:
those for which the lists are complete.  What the lists leave out is:

| step | reads, and is not rerun for |
|---|---|
| pack-loader | the blobs of rkbin (a listed directory whose files the find filter drops, so that loader and U-Boot image can hold SPL and tee of two checkouts), the SPL of the U-Boot build |
| stage-rootfs | the public key files that `ssh.pubkey_files` names, and `forge.yaml` (ubuntu), TARGET_DIR but for its marker (openwrt) |
| pack-ubifs | the staged tree; it lists buildroot's tar, which is not even the origin of the tree under openwrt, and which a build can rewrite after the tree was staged |
| pack-fit | `idbloader.img` (eMMC), the tee blob and `kernel-sd.its` (NAND) |
| build-uboot-sd | the U-Boot tree but for one defconfig |
| assemble | the package file, and which variant it is |

### Setup

One component tree of one board.  A tree is the commit it grew from and the
patches applied since: `[at |-> pin, applied |-> <<patch, text>>...]`.  `busy` is
`.git/rebase-apply`, `drop`/`excluded` are the driver drop with its marker and
its exclude entry, `kept` is the fingerprint of the last apply.  `phase` walks
through setup: `fetch` (`fetch/deps.py:52-66`), `driver` (`fetch/driver.py:54-91`),
`check`, `reset`, `clean` (`core/dag.py:137-161`), `start`, `am`, then `rollback`
(a patch failed) or `revert` (the end of a dry run) in `core/patch.py:35-64`, and
`record` (`core/dag.py:164`).  `forge fetch` is its first half, `forge apply` and
`apply --check` its second.

The behaviour of git is that of git itself: `reset --hard` leaves
`.git/rebase-apply` alone and `git am` then refuses to start; `git am` of a patch
that is in the tree already succeeds without a commit; `clean -fdq` keeps what is
ignored and steps around a directory with its own `.git`; `rev-parse` of an
unknown ref fails, so `Proc.run` dies before the branch at `core/dag.py:145`
that would only warn.

`Break` kills the process at any phase, with what that phase may leave
(`CutFetch`, `CutDriver`, `CutAm`, `CutBetween`).  `Change` is what people do at
any moment: edit or lose a patch, edit, empty or lose the series, name another pin, remove
the tree, leave files in it, `forge clean`.

Four history variables describe what has happened: `calm` (nobody changed
anything since the command began), `trust` (no replay was cut, no clone came
half, no patch was applied by hand and the pin stayed, since the last recorded
replay), `snag` (a driver fetch was cut after its marker), `outcome`.  A patch
series is taken to name each patch once.  linux, uboot and openwrt go through
the same code one after the other; only linux has the driver.

### Update

One `forge assemble`.  The command is given a variant, a package file (`rows`), the
parameter file (`param`) and the lengths of the files pack has written (`size`); it
goes through `check` (`pack/assemble.py:46-56`), `pack` (a record per row,
`tools/rkfw_pack.py:138-172`), `body` (`:174-178`), then writes the file (`Seal`) and,
unless `--no-verify` was given (`verify`), unpacks it (`unpack`) and compares sizes
(`Compare`).  A file is its name and its
length, so a cut at the wrong place is `Garbage` and a swap of two files of one
length is seen, which the code's own comparison does not see.  The body is
*appended to*, as in the code: where an image lies is computed, not assumed.

| action | code |
|---|---|
| `Check` | inputs there, rootfs and boot fit (`assemble.py:46-56`, `:114-132`) |
| `PackRow`, `RowFails`, `RowsDone` | the loop of `cmd_pack`; a file that is not staged, or a field beyond 32 bits, ends it |
| `AppendImage`, `Seal` | the body, its CRC, the RKFW header, the file |
| `Unpack`, `Compare` | `cmd_unpack` and `_round_trip` |
| `Kill` | also while the output is written, which may tear it |

Two parsers read the parameter file: `_part_bytes` wants `0x..@0x..(label)`, and
`parse_parameter` also takes a tagged label.  `FlashOf` and `HasPart` keep them
apart, since `StaysInPartition` is about their agreement.

### Fit

One `fit-pack pack`, then the self-test on its output.  `Lay` lays out the blobs,
`Walk` and `AddName` collect the string table, `Build` the tree, `Emit` the struct
block, `Close` sizes it, refuses an overlap and writes; `ReadTok` is `read_fdt`, which
advances by the lengths it reads and meets a token only if one starts there.
`SelfTest` detects the mode, cuts the blobs out of the image and packs them again
(`round = 2`).  `Refuse` and `NoString` are the ways out: an image without
`/incbin/`, a root without description, a property name the string table has not
collected.  Names have their real lengths, as these decide the padding.  The code
builds the tree twice, with a placeholder for `/totalsize`; both have the same
length, and the model builds it once.  A token carries the node it was emitted for
(`Root`, `Images`, `Node(i)`, ...), which the file does not: the reader has to find it
out again from the begin and end tokens, and `ReadsBack` compares the two.

### Media

A packer (`pk`), a flasher (`fl`) and a host (`dev`, `mounted`) that moves on its own.
An image is a sequence of cells, each of which says which blob, of which length,
it is a part of: an image shows what was overwritten by what.

| action | code |
|---|---|
| `StartSd`, `Mke2fs`, `Unlink`, `Truncate`, `Sgdisk`, `Dd`, `Verify` | `pack/sd.py:45-105` |
| `StartEmmc`, `Mke2fs` | `pack/emmc.py` |
| `Mke2fsFails`, `SgdiskFails`, `PackDies` | a tool fails, a source goes away, a signal |
| `StartFlash`, `GuardMounted`, `GuardSystem`, `CheckSize`, `Confirm`, `DdDone`, `FlashDies` | `flash.py:40-67`, one guard at a time |
| `EditBlob`, `EditMib`, `Replug`, `Mount`, `Umount` | people and the host, at any moment |

`held` is the unlinked `sd.img` that an open `dd` still reads.  `fl.moved` is history: the
host, or `sd.img`, moved after the first guard; `fl.good`: the image was whole when
`dd` opened it.  `Layered` says that the system disk is behind a volume group, where
`PKNAME` names a partition and the name comparison of the guard does not see the
disk; the mount guard does.

### Tarball and Cache

`forge build ubuntu-rootfs`.  The tar, the work directory and the base archive carry
what they hold (`pkgs`, `accounts`, whether the base is whole), `mounts` counts the
layers bind-mounted on `/proc`, `/sys` and `/dev` of the work directory, `hurt` says
that an `rmtree` has gone through one into the host's `/dev`.

| action | code |
|---|---|
| `Skip`, `Adopt`, `DieStale`, `Prepare` | the cache and the root check, `:97-126` |
| `RmTree`, `RmTreeStuck`, `Removed`, `Reuse`, `Download`, `MakeWork`, `Extract` | the work directory, `:142-158` |
| `Sources`, `BindMount`, `CopyResolv`, `AptInstall`, `CleanupMounts` | `_chroot_apt`, its `finally` included |
| `CreateAccount`, `Rk3588Hardening` | `_post_config`; `useradd` fails over a uid that another account holds in a reused directory; the getty link that is there already is an error, on the board that has it |
| `PackTar`, `Packed`, `OpenMark`, `Mark` | tar in place, then the marker, emptied before it is filled |
| `CommandFails`, `UmountFails`, `Kill` | failures: with `check=True`, with `check=False`, without a `finally` |
| `EditPkgs`, `EditAccount`, `Accept`, `CleanOut`, `Reboot` | people; `CleanOut` is `forge clean`, an `rmtree` that ignores errors and may be cut: of tar, marker, base archive and work directory any may stay |

`calm`, `fresh`, `traced`, `stranded` and `orphan` are history: nothing disturbed the run; it
extracted its own work directory; the marker was written by such a run; a run ended
between its mounts and their clean-up; a clean took the tar and left the marker.  A non-`fresh` tar may hold more than today's
packages (a reused directory keeps the old ones), which is why `SkipFresh` is about
traced markers and `CleanExact` about `--clean`.

An orphaned marker is dropped by `--clean` alone (`:115`): without it a build writes a
new tar under the old marker, and a kill in the middle leaves a marker over half a tar,
which the next build skips over.  `TarOrphan` refutes "already built" with this history.
`SkipFresh` and `Trusted` are about markers that are no orphans, and `CleanExact`
shows that `--clean` recovers also from those.

`Cache` is the abstract specification: a stamp stands over a whole copy; who rewrites
the copy takes the stamp away first and puts one back last; only the removal of both
(`Discard`) may be cut, and a stamp whose copy is `lost` vouches for nothing until the
next one is earned.  `Tarball` implements it under
`copy <- TarCopy, stamp <- marker, lost <- orphan`.  `Adopt` and `Accept`, and a marker cut
while it is written, are `Vouch` steps (`Renew` over a lost copy): they change *which*
stamp, never over what.

### Builds

The builders of `forge build` over the trees they share.  Versions of sources are
numbers; `kern`, `uboot`, `sd`, `wt` (the throwaway worktree of a card build), `br`
(the one buildroot tree) and `ow` hold what was built from what.  `run` is the command
under way and the step it is at; `Follow` and `After` are the order of
`Orchestrator.build`.  Each builder's steps are actions named for them (`Kernel`,
`Module`; `Worktree`, `Mrproper`, `UBoot`, `BinmanFails`, `UBootError`, `UBootOddError`, `Artifacts`,
`SdCopy`, `Remove`; `Guard`, `BrClean`, `BrConfig`, `BrMake`; `Feeds`, `Seed`,
`Tarball`, `Archive`, `OwClean`, `OwMake`, `Verify`).  `Stops` ends a command at any
step without effect, and `MrproperCut`, `SdCopyCut`, `BrCleanCut`, `BrMakeCut`,
`FeedsCut`, `OwMakeCut` with part of one.  A foreign make is modelled by what it may
leave: buildroot does not rebuild a package that has its stamp, whatever the
architecture; U-Boot's make may stop after any of its pieces.  `Setup` moves a
board's sources on and keeps or drops what was built.

Three things the code does are easily taken for something else.

* The exit status of U-Boot's make is not looked at.  A line of its log that names a
  real error ends the command (`UBootError`); any other failure does not
  (`UBootOddError`), and `_BINMAN_NOISE` lets binman's pass (`BinmanFails`).  On the
  boards of `Atf`, `u-boot.itb` and `idbloader.img` (`itb`) are binman's, so they can be
  of older sources, or made without a blob (`Faulty`), behind a build that ended well.
  `run.odd` is history: what failed unseen.
* A post-build hook copies the WiFi module for the boards of `Hooks`: rk3506b-aes has
  one; the hook of rk3568-atk copies none, although that board has a driver (`Wifi`).
* OpenWrt never ends well.  `_find_build_dir("linux-7.*", "linux-rockchip_rk3506*")`
  (`openwrt.py:109`, `:172-181`) wants a directory of the second name that has the first
  name as well, while one lies inside the other; so `Verify` ends every build, and
  the marker at `:128` is never touched.

### Machine, Snapshot, Watch, Send and Sim

`qemus` is the list of QEMU processes the scripts have started, each with its kind
(`desk` of `snapshot.py`, `res` of `resboot.py`), what it has reached, and the monitor
commands typed to it and not yet served.  Two machines cannot both hold serial port
4446; the one that comes second exits, and no script looks at its exit code.  A script
types a command, waits a fixed time and goes on: the model lets it go on at once or
never, and serves the command whenever the machine gets to it.

| action | code |
|---|---|
| `Create`, `Restore`, `PopenDesk`, `WaitMonitor`, `WaitFrame`, `Tell`, `WaitExit`, `GiveUp`, `Drop` | `sim/snapshot.py`, one step each; `GiveUp` is every way out that leaves the machine running |
| `UpCheck`, `PopenRes`, `ClearLog`, `Follow`, `UpEnd` | `sim/up.py` |
| `WatchStart`, `WatchAlive`, `WatchDump`, `WatchLook`, `WatchJudge`, `WatchScan`, `WatchEnd` | one round of `sim/smoke_monitor.py` |
| `ShotAsk`, `ShotLook` | `sim/shot.py` |
| `Hello`, `Look`, `LogIn`, `NoLogin`, `RunRm`, `RunChunk`, `RunSum`, `Sent`, `NotSent`, `RunCmd`, `Leave` | `sim/sendfile.py` and `serx.py` |
| `BindDesk`, `BindRes` (which boots `rootfs.ext4` itself read-write, so `base` is a new version from then on), `Rewrite`, `Draw`, `Speak`, `ServeStop`, `ServeSavevm`, `ServeQuit`, `OpenPic`, `ClosePic`, `RefusePic`, `Die` | QEMU and the guest |
| `Arrive`, `Lose`, `Login`, `Shell`, `PrintSum` | the serial line, getty, the shell, `md5sum` |

The log holds numbers in the order they were written; QEMU opens it once per start and
goes on at its own offset, so that the truncation of `up.py` leaves a hole (0).  A
picture carries the number of the request it answers and how many of its blocks are
over the limit, which is all `verify_full` decides on.  The overlay remembers the `base`
it was created on (`of`), and the snapshot in it the one it was taken over (`took`).  A line on the console is what
it does; `export PS1=...` does nothing but set the prompt, and is left out.

`calm` is history: the sessions that nothing has disturbed since they began alone (no
other machine, no crash, no `drop`, no line lost, no step taken without the answer).
`cut` and `split` are history of the log: it was truncated since `smoke_monitor.py`
began; a read ended in the middle of an anomaly's text.  Both are real: the script
remembers an offset and not the text, so it misses what a truncated log has gained
below that offset, and a text that two reads share.  `snd.own` says that no checksum
of an earlier session was on its way when this one began; `sendfile.py` would take it
for its own.

## Runs

Passing runs:

| run | instance | what it shows |
|---|---|---|
| `EmmcReruns` | rk3588, ubuntu; `pack` and `assemble`, with and without `--force`; leaf `stage` of the buildroot or the ubuntu profile; 1 edit, 1 quiet edit, 3 commands, 1 kill or cut clean | all five stage properties on the eMMC graph, the one with a step that trusts another's record |
| `SetupFaults` | two pins, patches of two texts of which one is bad, series of none, one or two patches or none at all; 4 commands, `--force`; 2 changes, 1 kill | the safety of setup |
| `SetupConverges` | one pin; 1 change, 2 kills, fairness | setup run again and again gets there |
| `Update` | variants emmc, nand, rescue, sd, verified or not; lengths 0, 2040, 2049, 4096 or no file, for every file; partitions fixed, tagged, grow, absent; package files with a row lost or in another order; a kill | what is packed, unpacked and reported |
| `Fit` | one to three images, lengths 0, 511, 512, 513; both modes, offsets inside and behind the tree; sources without `/incbin/`, description or algorithm | layout, reader, self-test |
| `Media` | nand and emmc boards; blobs of one or two cells, three image sizes, 1 edit; two device nodes, two disks, replugging and mounting without bound | packers and flash side by side |
| `Tarball` | two lists, two accounts, a board with the console link and one without; 2 breaks, 2 changes, a cut clean among them; root or not, `--clean` or not, any number of runs | the tar cache, the work directory, the mounts, and the refinement to `Cache` |
| `Builds` | two boards of two architectures, one with a hook and a card variant, one with ATF; three menus of commands; 2 broken makes, 1 move of each board's sources, any number of builds | what builds ship |
| `Sim` | four benches: snapshot and up; up, its log and the smoke monitor; the smoke monitor and shots; up and sendfile / serx. 2 machine starts, 1 crash, 2 versions of the root file system, 3 numbers in the log, 2 pictures out of three (one passes, one fails on the background, one on the structure), 2 sessions of a file of 2 chunks, 1 line lost | what the scripts report |

The properties:

* `SkipIsRerun`: a passing skip test, for a step that sees all it reads and is
  not tainted, means that a rerun would change nothing.  (`Nand.cfg`, a passing
  configuration to be run by hand, checks it on the aes board's longer graph, with
  provision, nand and rescue in any order over the record they share.)
* `RerunSkips`: a finished undisturbed command leaves all its steps up to date.
* `ForceDelivers`: a finished forced command leaves a rebuild of everything,
  whatever taint there was.
* `PackDelivers`: a finished command that skips leaves what a rebuild would, as
  far as the listed inputs go.
* `SkipSound`: for a trusted tree, digest and moved HEAD imply pin + series.
* `SetupDelivers`, `RollsBack`, `DriverStays`: success, failure and the driver.
* `Converges`: under fairness.
* `NoOverlap`, `Delivers`, `StaysInPartition` (`Update`): no two images overlap and
  each lies where its record says; an update that is reported as made, with or without
  the round trip, holds row by row the file that was staged, and one that passed the
  round trip has a row for every image of its variant, although the code compares sizes
  only, and only of three files; what the loader flashes is inside its partition.
* `BlobsApart`, `ReadsBack`, `Loadable`, `RepackSame` (`Fit`): the blobs lie apart
  and behind the tree; a reader that knows only lengths meets every token; a boot
  stage finds each image's own bytes within what it loads; packing again what was
  unpacked gives the same image.
* `PackedWhole`, `WritesAllowed`, `CardWhole` (`Media`): three raw blobs read back
  are enough for the whole card image to be right; if the host kept still under the
  guards, `dd` spares the system disk, mounted disks and disks that are too small;
  a flash that is done has copied one whole image even if pack-sd ran meanwhile.
* `CleanExact`, `SkipFresh`, `HostApart`, `KeepsPromise` (`Tarball`): an undisturbed
  `--clean` of root leaves exactly today's content; a run that ends well over the tar of
  an undisturbed build leaves a whole one of today's packages; nothing of the host stays
  in reach, unless a run was stranded between mounts and clean-up; the refinement.
* `ArchPure`, `WifiShips`, `UBootCurrent`, `OpenwrtSound` (`Builds`): one architecture in
  a tar; the board's own module where a hook copies it, and never one of another
  architecture; U-Boot pieces of the present sources unless something failed unseen, and
  none of older sources after `--clean`; OpenWrt is made from a whole archive only.
* `SnapshotTrue`: no snapshot of a blank screen, ever; a `create` that began alone and
  stayed undisturbed reports a snapshot that is there and was taken over the root file
  system its overlay was created on, though machines of `resboot.py` write that file; such
  a `restore` reports a machine of its own.  Whether that file is *still* the one of the
  snapshot nothing looks at: `SnapVoid`.
* `WatchTrue`: `up.py` reports its own machine and shows its log in order; the smoke
  monitor reports an anomaly once and judges the picture it asked for; a PASS keeps
  the limits it stands for, and a FAIL is near or beyond one of them.
* `SentWhole`: a transfer that is reported has put the file there, whatever was lost.
* `SendRetries`: a failed transfer leaves nothing that could fail the next one.

Bounds.  `MaxRuns = 3` is first run, disturbed run, and the run that has to judge
the result; a longer history differs only in what it leaves in `record` and
`made`, which the bounded one already reaches from both sides.  One kill is
enough for a record to disagree with an artefact; one edit, seen or not, is enough to
make a step rerun behind the step whose record it trusts.  In `Setup` the histories of the
findings need at most two events, and the number of commands is not bounded at
all.  In `Update` and `Fit` nothing is counted: the lengths are those around a page,
an alignment and a partition, which is where rounding can go wrong, and every
combination is taken; `U32` is set to 16000 so that the refusals of
`struct.pack` happen.  In `Media` a cell is the gap between two raw blobs, so
that two lengths are "fits" and "runs into its neighbour".  In `Tarball` two breaks
and two changes give the histories "cut, repaired, cut again" and "changed, accepted,
changed"; in `Builds` two broken makes are one per board, or one per step of a
switch of architecture.  Package lists are only compared with one another, and so are
accounts: the `Tarball` run takes each up to symmetry.  `Menus` keeps apart the commands that share no state, the
kernel and buildroot (`all` with `rootfs`), U-Boot, OpenWrt; that is what makes the
instance small enough and it loses nothing the properties tell apart.  `MaxEdits`,
`MaxQuiet`, `MaxRuns`, `MaxBreaks`, `MaxChanges`, `MaxText` and `MaxSource` are the
only bounds there, and the theorems hold without their being small.  In `Sim` two starts are what
a machine needs to meet an old one, and two sessions what a line needs to outlive its
own; three numbers are an anomaly and the byte after it.  `Benches` keeps apart scripts
that share nothing but the machine's life: each pair that shares a log, a picture, a
port or a console meets in one of them.

Deadlock is checked for `Setup`, `Media`, `Tarball` and `Builds`, where a command can
always be started again.  The `Stage` runs and `Sim` stop when their bounds are used up,
and `Update` and `Fit` are one command that ends; these say `CHECK_DEADLOCK FALSE`.

Fairness.  `Setup!FairSpec` is weak fairness of `Forge`, the steps of a command
that is running: forge is one process that goes on until it returns or is killed,
and kills are bounded.  Nothing makes a person run setup, so `Converges` assumes
that it is started again and again, and that the series stays applicable.  Its
run allows a single change, so that a digest never comes back: the `SeriesCut`
and `PinReverted` runs show what happens when one does.  The other modules state no
liveness: their loops run over finite lists, and a builder that is stopped promises
nothing but to start again safely.

Refuted claims.  A claim is one sentence of the repository, stated as an invariant
and refuted by TLC; `PROJECT.json` quotes the sentences of the first three, which
are its findings.  The other configurations stay here to be run by hand
(`tlc -config <cfg> <module>`).  `BuildsClaims` holds five,
to be kept one at a time.

| configuration | module | what happens |
|---|---|---|
| `SplPair` | `MCForge` | loader with the SPL of an earlier U-Boot build |
| `ShrinkRootfs` | `MCMedia` | a smaller `storage.rootfs_mib` leaves `rootfs.ext4` as long as it was, and assemble refuses it again |
| `LeafStage` | `MCForge` | a leaf `forge stage`, buildroot unless told otherwise, and the next ubuntu `forge pack` packs the buildroot tree |
| `OpenwrtSkips` | `MCForge` | an OpenWrt rebuild is staged and never reaches the UBI image: pack-ubifs lists buildroot's tar and an opaque directory, and not the staging record |
| `NandVariant` | `MCForge` | the nand variant is skipped because provision was made |
| `SdMissing` | `MCForge` | pack-sd writes to one directory and reads from another |
| `SeriesCut` | `MCSetup` | a forced replay killed half-way passes for a finished one |
| `PinReverted` | `MCSetup` | a failed bump of the pin that is undone passes for an applied series |
| `DriverLost` | `MCSetup` | driver fetch killed before its exclude entry: the replay deletes it |
| `SdUpdate` | `MCUpdate` | `--variant sd` stages `uboot-sd.img` where the package file of the board names `uboot.img`: with every input in place it fails |
| `GrowShips` | `MCUpdate` | an image without a flash address is packed: "Fail loudly" (`tools/rkfw_pack.py:157`) is a warning |
| `TarAccount` | `MCTarball` | the digest leaves the account out, so another account is skipped over |
| `TarOrphan` | `MCTarball` | a cut clean leaves the marker, a killed build half a tar under it, and the next build skips |
| `BuildsClaims`, `UBootGate` | `MCBuilds` | a make that fails without a known line in its log passes the gate |
| `BuildsClaims`, `BinmanGate` | `MCBuilds` | binman fails and an ATF board packs the `u-boot.itb` of an earlier build |
| `BuildsClaims`, `WifiBaked` | `MCBuilds` | a whole build of a board whose hook copies nothing ships no module |
| `BuildsClaims`, `OpenwrtFound` | `MCBuilds` | a finished OpenWrt build is told that its kernel directory was not found |
| `BuildsClaims`, `FeedsThere` | `MCBuilds` | `feeds update` killed before `feeds install` passes for installed feeds, and the seed loses their packages |
| `SnapVoid` | `MCSim` | a restore shows a snapshot taken over a root file system that was written since |
| `SnapLost` | `MCSim` | savevm fails and the snapshot is reported |

Other things noticed while modelling, not stated as claims: flash refuses
`/dev/mmcblk0` for its trailing digit (`flash.py:86`) and recommends it in the same
message; with the card pulled after the guards, `dd` creates a plain file in
`/dev` and flash reports success; flash takes the `sd.img` of a pack-sd that was
killed, since it asks only for a regular file (`CardWhole` therefore speaks of an
image that was whole when `dd` opened it); pack-sd says that blobs are verified
and does not read the root filesystem back (`PackedWhole` shows that the order of
the writes makes up for it); `rootfs.ext4`, unlike `sd.img`, is written without
`assert_regular_file`.

## Proofs

The eight `*Proofs` modules are checked by TLAPS, for all values of the constants that
satisfy the named assumptions.  TLC evaluates these assumptions in the runs.

`Stage` assumes `Disjoint` and `GraphType` (the shapes of the tables), `Bounds`,
and `Ordered`: a command lists its steps in dependency order, each record name
once.  The theorems are
`TypeCorrect`, `SkipSound`, `RerunIdle`, `ForceRebuilds` and `PackRebuilds`, one
for each property.  Only the first is inductive by itself.  `StageInv` strengthens
the others:

* no file and no recorded stamp is newer than the clock (in `TypeOK`), so a
  stamp given from now on differs from every recorded one.  That is what makes a
  record stop matching when anything visible happens to an input;
* `RecordInv`: for a step that is vouched for (linked, not tainted, the records
  it trusts match), a matching record means that its artefacts are `Faithful`:
  they hold what its inputs, and for the tree behind another step's record a
  rebuild of that tree, would give.  `Seen` is the point of the proof.  pack-emmc
  can be faithful only relative to what stage-rootfs *would* stage, since the
  tree itself is not in its fingerprint.  A leaf that goes astray taints every step
  that would not notice (`Unaware`), and that is the one way a finished action can
  disturb the records of others;
* `MarkInv` carries the same through the moment between action and record;
* `DoneInv` and `ForceInv` say that the finished part of the command is up to
  date, or rebuilt, and dependency order keeps later steps from undoing it.

`Setup` assumes `SetupConstants` (shapes, distinct names in a series) and
`NoneIsNone`.  The theorems are `SetupTypes`, `SkipIsSound`, `SetupIsExact`,
`FailureRollsBack` and `DriverSurvives`.  `SetupInv` adds:

* `PhaseInv`: where a command can be and what it holds by then;
* `TrustInv`: a trusted digest tells the truth of a trusted tree (`Told`): there
  is no tree, or it is the bare pin, or it is the pin with the recorded patches.
  While a replay is on, it tells it of `pre`, to which a failure goes back;
* `ReplayInv`: in an undisturbed replay the tree is the first part of the series
  and `todo` the rest (`Halfway`);
* `DropInv`: a marked drop is protected by the exclude entry, unless snagged.

`Update` assumes `UpdateConstants` (shapes) and `ManifestRows` (the rows named boot and
rootfs name boot.img and rootfs.img, as in every package file of the boards).
`NoOverlap` and `Delivers` are not inductive; `UpdateInv` adds:

* `RowInv`, `PlaceInv`: record `k` is row `k` with the length of its file, places are
  whole pages that leave room for the table, and all of what is recorded ends before
  the cursor;
* `BodyInv`: the body never runs past the place of the image that comes next, which
  is why appending puts every image where its record says;
* `SealInv`, `ReadInv`: the file is that body, verified or not, and what is unpacked is
  cut from it.
  With `NoOverlap` a cut at a record's place can only be that record's image, which
  is how sizes that agree imply contents that agree (`UpdateDelivers`).

`FlashInv`, on top of it, says that the records carry the parameter file's places and that
packing went on only for images that fit (`UpdateStaysInPartition`).

`Fit` assumes `FitConstants`; `SourceNames`, which the sources under `boards/*/fit/`
obey: no two images of a source have one name, and none of them states `data-size`,
`data-offset` or `data-position`, which the packer adds and `get_prop` would find twice;
and `EmptyFiles`, which says no more than that all empty files are equal.  `FitInv`
adds to `TypeOK` that the layout grows with the blobs (`LayInv`) and that what is read
is well-formed (`ReadInv`), which is enough for `FitBlobsApart`.

`FileInv` carries that on to what is written and read:

* `RelInv`, `StrInv`: the first blob is at 0; the string table's offsets grow, so that
  an offset names one string;
* `TreeInv`: the tree is a `Piece`, a list of tokens each of which carries the node the
  tokens before it lead to (`Place`), with every image's length, position and hash
  (`Told`) and, in mode A, `/totalsize` (`Sized`).  `Piece`s that meet can be
  concatenated (`PieceCat`), so the tree of any number of images comes out of one
  step of `Build`, and no induction over the images is needed;
* `EmitInv`: token `j` starts where the sizes of the tokens before it end, and
  carries the offset of its name;
* `WriteInv`, `WalkInv`: the file is what was laid out; the reader stands at the start of
  some token `r`, in the node that token carries, and has read exactly the properties
  before it.

`FitReadsBack` and `FitLoadable` follow from it.  `FitRepackSame` compares two runs, which
no invariant over one state can: `Packer` is the part of the state the packing moves,
`Step` its one next value, `Trace(H, n)` a run of it.  `FirstRun` keeps some trace that
leads to the first image; `SecondRun` says that the second packing is at a state of that
same trace, and ends only at its end (`Stops`).  Between the two, `SelfSame` shows that
the offset and the files found in the image are those it was packed from.

`Media` assumes `MediaConstants`, and `BlobsInside`: a raw blob may run into its
neighbours and into the root filesystem, but not past the partition of that, 256
MiB long unless asked otherwise.  `MediaInv` adds to `TypeOK`

* `PackInv`: a pack-sd under way has a filesystem of exactly its own size;
* `LayoutInv`: the last cell of the image is still the second partition table, or
  some blob has been written over the place of the root filesystem's first cell
  (`Past`).  The root filesystem comes last and takes that cell back, so such a blob
  cannot read back, and that is why reading three blobs is enough (`SdImageWhole`);
* `CopyInv`: what an open `dd` reads is the image that was whole when it opened it;
  while an image is being laid out none of its cells is the root filesystem's, so it
  is not taken for a whole one;
* `GuardInv`: what the guards saw holds while nothing moves, and no `dd` of the packer
  makes the image longer than it was when the flasher measured it (`BlobsInside`).

`Tarball` assumes `TarballConstants`.  `IInv` is `TypeOK` with

* `Revoked`: from the guard to the marker's first byte there is no marker, and a
  marker stands over a whole tar, unless it is an orphan; which is also the heart of `TarballKeepsPromise`, the
  refinement to `Cache` (each step a `Cache` step or a stutter, one lemma per phase);
* `MountsKnown`: where a run that is not stranded can have a layer, and never more
  than one;
* `RunExact`: what a run has in its work directory at each phase (`Progress`);
* `MarkerTells`: a traced marker names the packages of its tar.

`Builds` assumes `BuildConstants`.  `BuildsInv` adds `Control` (which command and flags a
step belongs to), `RootfsInv` (the packages are of the configured architecture, and a
step that could mix two is only reached with an empty `output/`), `WifiInv`, `UBootInv`
(what the pieces were made from at each step, in the tree and in the worktree, given
what failed unseen) and `OpenwrtInv`.  Each of the five is preserved by a lemma of its own.

`Sim` assumes `WatchConstants` (the shape of a picture, bounds that are naturals) and
`SendConstants` (a file has at least one chunk).  Its `SimInv` is `TypeOK` with

* `ProcInv`, `ConsoleInv`: which script's commands can be in which machine's queue, at
  most one machine is up, since they share a port, and the console is up with it;
* `SnapInv`: while nothing disturbs a session the only desktop machine is
  `snapshot.py`'s own (`OwnInv`), and of its stop, savevm and quit some first `s` are
  served (`Served3`), which fixes the tag in the overlay and whether the machine is up.
  `SnapshotIsTrue` is the case where all three are;
* `BaseInv`: while a calm `create` runs, the root file system is the one of its overlay,
  unless a machine of `resboot.py` is up (`ResUp`); then that has the port, and the machine
  of `create` can come up no more and saves nothing;
* `WatchInv`: what `up.py` showed is the log up to where it reads (`UpInv`); an anomaly that
  was reported lies behind the offset, and one whose line the offset cut in two is in
  `split` (`LogInv`); what is asked for under a picture's name is one request alone
  (`Only`, in `PicInv`).  The thresholds of a PASS and of a FAIL follow from the
  verdict by arithmetic (`WatchIsTrue`);
* `SentInv`: nothing that touches the target is behind a checksum in the two queues
  (`SumLast`), so that one which agrees speaks of the file that stays (`SentIsWhole`);
* `DialogInv`: in a session nothing disturbs, at most one line is on its way, or the guest has
  taken it (`OnWay`, `Taken`), and the machine has the first `k` chunks (`FirstK`), which is
  why no reply can be missing (`RetriesWork`).

The steps of seven scripts on shared machines are many, so the proof first reduces what each
does to the machines to a few forms: one gets a command, serves one, starts, or turns
(`Works`, `Lives`, `Turns`), and each part of `SimInv` is shown for the forms.

Every safety property the passing runs check is stated by a theorem.  Model-checked and not proved: `Converges`, since liveness under fairness and
ENABLED are out of the prover's reach; the properties of the concrete tables of
`Dag`, which are evaluated, not proved; and all refuted claims.  Induction over
data and RECURSIVE operators are not available to the proofs either, so `Setup`
describes a replay by its state and not by a fold over the series.

## Not modelled, and why

* Two forge processes at once, but for pack-sd next to flash: nothing locks, and
  nothing says they may run together.  Locks git leaves behind after a SIGKILL
  (`.git/index.lock`), which a person removes.
* What the tools do inside: make, mke2fs, mkfs.ubifs, boot_merger, qemu; the values of
  CRC, MD5 and SHA sums; the ITS and YAML parsers.
* Retries of a clone: they only choose between success and failure.
* `core/rkbin.py`'s choice of a blob version: a pure function of a directory listing.
* `forge build initramfs`, `--just-dtb`, `--apply-patches`: one call each, no state that
  another step reads but the file `Dag` already has.
* Configuration parsing, doctor, pdf and site: they keep no state.
* Under `sim/`: the one-shot experiments (`engine.py`, `fbdump.py`'s dump, `gles*.py`,
  `attic/`), and the strips and page classes of `verify_screen.py`.
* The NPU runtime (`src/rknpu/rk3588`): a C++ library for the board and no part of the
  pipeline.  What can go wrong in it lies between the register programs it emits,
  the driver and the hardware, and of these only the first is in the repository.
* The age of a WiFi module: it is built when it is missing and kept otherwise, as the
  docstring says; `WifiShips` is about whose module it is.

## Plan

The plan was: orchestrator, setup, layouts, tar cache, shared buildroot output, a
refinement, flash.  All of these are done, in `Stage`, `Dag`, `Claims`, `Setup`, `Update`,
`Fit`, `Media`, `Tarball`, `Cache` and `Builds`, with their runs and their proofs, and
the simulator scripts were added in `Sim` and its parts.
What remains, in order of use:

1. `Builds` and `Tarball` as the writers of `Stage`'s sources, instead of an `Edit`.
2. All three trees of a setup in one instance.
