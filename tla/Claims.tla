------------------------------- MODULE Claims -------------------------------
(***************************************************************************)
(* What the repository's documents and comments say of the orchestrator,   *)
(* as properties of Stage on the graphs of Dag.  The code does not keep    *)
(* them: each is refuted by a run of its own.                              *)
(***************************************************************************)
EXTENDS Stage, Dag

Finished == Completed /\ calm /\ ~leaf

\* "Whatever changed is what reruns" (document/tutorial/forge/00_forge.md:93)
\* and "inputs unchanged: the stage is skipped" (QUICK_START.md:41): after a
\* quiet, undisturbed command every artefact is what rebuilding it would give.
ChangesReachImages ==
  Finished /\ taint = {} =>
    \A i \in 1..Len(cmd) : \A w \in Writes[cmd[i]] : made[w] = Rebuild(w)

\* "mainline SPL matches BL31" (boards/rk3588-topeet/board.yaml:52): the loader
\* and the u-boot.itb of a finished `forge all` come from the same U-Boot build.
OneUbootBuild ==
  Finished /\ Len(cmd) > 0 =>
    \A d \in made["MiniLoaderAll.bin"], e \in made["out/u-boot.itb"] :
      d[1] = "u-boot-spl.bin" /\ e[1] = "u-boot.itb" => d[2] = e[2]

\* "forge assemble --variant nand" builds the NAND update.img
\* (QUICK_START.md:49): when it finishes, the image is there.
NandUpdateMade ==
  Finished /\ "nand" \in {cmd[i] : i \in 1..Len(cmd)} => stamp["update-nand.img"] # 0

\* "every stage routes through" out/<board>/ (forge/cli.py:285-287), and
\* `forge pack-sd` builds a bootable SD image from the pack products
\* (QUICK_START.md:47): with every source in place it misses no input.
NothingMissing ==
  missing => \E x \in Sources : stamp[x] = 0

\* "forge stage: unpack the tar into out/rootfs/", the ubuntu tar, before the
\* packing (document/tutorial/rk3588/05_rootfs.md:33-36): what a finished
\* command of the ubuntu profile packs is made from that tar.
UbuntuPacked ==
  Finished /\ stamp["rootfs.ext4"] # 0 =>
    \E d \in made["rootfs.ext4"] : d[1] = "ubuntu-rootfs.tar"
=============================================================================
