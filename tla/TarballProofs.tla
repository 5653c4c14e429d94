--------------------------- MODULE TarballProofs ---------------------------
(***************************************************************************)
(* Theorems about Tarball, for every set of package lists and accounts, any *)
(* number of faults and changes: its invariants hold, and its marker        *)
(* protocol implements Cache.                                              *)
(***************************************************************************)
EXTENDS Tarball, TLAPS

\* The edits of a work directory.
LEMMA WorkEdits ==
  ASSUME NEW w \in Works, NEW p \in PkgLists, NEW a \in Accounts, NEW l \in SUBSET Links
  PROVE  /\ [w EXCEPT !.base = "part"] \in Works
         /\ [w EXCEPT !.pkgs = @ \cup {p}] \in Works
         /\ [w EXCEPT !.accounts = {a}] \in Works
         /\ [w EXCEPT !.links = @ \cup l] \in Works
<1>1. /\ w.owner \in {"root", "user"} /\ w.base \in Sizes /\ w.pkgs \subseteq PkgLists
      /\ w.accounts \subseteq Accounts /\ w.links \subseteq Links
  BY DEF Works
<1>2. [w EXCEPT !.base = "part"] = [owner |-> w.owner, base |-> "part", pkgs |-> w.pkgs,
                                    accounts |-> w.accounts, links |-> w.links]
  BY DEF Works
<1>3. [w EXCEPT !.pkgs = @ \cup {p}] = [owner |-> w.owner, base |-> w.base, pkgs |-> w.pkgs \cup {p},
                                        accounts |-> w.accounts, links |-> w.links]
  BY DEF Works
<1>4. [w EXCEPT !.accounts = {a}] = [owner |-> w.owner, base |-> w.base, pkgs |-> w.pkgs,
                                     accounts |-> {a}, links |-> w.links]
  BY DEF Works
<1>5. [w EXCEPT !.links = @ \cup l] = [owner |-> w.owner, base |-> w.base, pkgs |-> w.pkgs,
                                       accounts |-> w.accounts, links |-> w.links \cup l]
  BY DEF Works
<1>. QED
  BY <1>1, <1>2, <1>3, <1>4, <1>5 DEF Works, Sizes

LEMMA FreshWork ==
  ASSUME NEW o \in {"root", "user"}, NEW b \in Sizes
  PROVE  Extracted(o, b) \in Works
BY DEF Works, Extracted

LEMMA ContentIs ==
  ASSUME work \in Works, NEW b \in Sizes
  PROVE  Content(b) \in Tars
<1>1. /\ work.base \in Sizes /\ work.pkgs \subseteq PkgLists /\ work.accounts \subseteq Accounts
  BY DEF Works
<1>2. Mounted \subseteq PointNames
  BY DEF Mounted
<1>. QED
  BY <1>1, <1>2 DEF Content, Tars

LEMMA PointsAre == Points[1] = "proc" /\ Points[2] = "sys" /\ Points[3] = "dev"
BY DEF Points

-----------------------------------------------------------------------------
(* Types *)

LEMMA InitTypes == Init => TypeOK
<1>. SUFFICES ASSUME Init PROVE TypeOK
  OBVIOUS
<1>1. work \in Works \cup {NoWork}
  BY FreshWork DEF Init, Sizes
<1>2. tar \in Tars \cup {NoTar} /\ marker \in PkgLists \cup {NoMark, Empty}
  BY DEF Init, Tars, Sizes
<1>3. FlagsOK
  BY DEF Init, FlagsOK
<1>. QED
  BY <1>1, <1>2, <1>3, TarballConstants DEF Init, TypeOK, StateOK, Phases

\* The flags stay Boolean.
LEMMA FlagsStep ==
  ASSUME FlagsOK, [Next]_vars
  PROVE  FlagsOK'
<1>1. CASE \E c, r \in BOOLEAN : Start(c, r)
  BY <1>1 DEF Start, inputVars, outVars, hostVars, runVars, histVars, FlagsOK
<1>2. CASE Skip
  BY <1>2 DEF Skip, End, Frame, inputVars, outVars, hostVars, runVars, histVars, FlagsOK
<1>3. CASE Adopt
  BY <1>3 DEF Adopt, End, Frame, inputVars, outVars, hostVars, runVars, histVars, FlagsOK
<1>4. CASE DieStale
  BY <1>4 DEF DieStale, End, Frame, inputVars, outVars, hostVars, runVars, histVars, FlagsOK
<1>5. CASE Prepare
  BY <1>5 DEF Prepare, Goto, End, Frame, inputVars, outVars, hostVars, runVars, histVars, FlagsOK
<1>6. CASE RmTree
  BY <1>6 DEF RmTree, Goto, Frame, inputVars, outVars, hostVars, runVars, histVars, FlagsOK
<1>7. CASE RmTreeStuck
  BY <1>7 DEF RmTreeStuck, End, Frame, inputVars, outVars, hostVars, runVars, histVars, FlagsOK
<1>8. CASE Removed
  BY <1>8 DEF Removed, Goto, Frame, inputVars, outVars, hostVars, runVars, histVars, FlagsOK
<1>9. CASE Reuse
  BY <1>9 DEF Reuse, Goto, Frame, inputVars, outVars, hostVars, runVars, histVars, FlagsOK
<1>10. CASE Download
  BY <1>10 DEF Download, Goto, Frame, inputVars, outVars, hostVars, runVars, histVars, FlagsOK
<1>11. CASE MakeWork
  BY <1>11 DEF MakeWork, Goto, Frame, inputVars, outVars, hostVars, runVars, histVars, FlagsOK
<1>12. CASE Extract
  BY <1>12 DEF Extract, Goto, Frame, inputVars, outVars, hostVars, runVars, histVars, FlagsOK
<1>13. CASE Sources
  BY <1>13 DEF Sources, Goto, Frame, inputVars, outVars, hostVars, runVars, histVars, FlagsOK
<1>14. CASE BindMount
  BY <1>14 DEF BindMount, Goto, Frame, inputVars, outVars, hostVars, runVars, histVars, FlagsOK
<1>15. CASE CopyResolv
  BY <1>15 DEF CopyResolv, Goto, Frame, inputVars, outVars, hostVars, runVars, histVars, FlagsOK
<1>16. CASE AptInstall
  BY <1>16 DEF AptInstall, Goto, Frame, inputVars, outVars, hostVars, runVars, histVars, FlagsOK
<1>17. CASE CleanupMounts
  BY <1>17 DEF CleanupMounts, Goto, End, Frame, inputVars, outVars, hostVars, runVars, histVars, FlagsOK
<1>18. CASE CreateAccount
  BY <1>18 DEF CreateAccount, Goto, End, Frame, inputVars, outVars, hostVars, runVars, histVars, FlagsOK
<1>19. CASE Rk3588Hardening
  BY <1>19 DEF Rk3588Hardening, Goto, End, Frame, inputVars, outVars, hostVars, runVars, histVars, FlagsOK
<1>20. CASE PackTar
  BY <1>20 DEF PackTar, Goto, Frame, inputVars, outVars, hostVars, runVars, histVars, FlagsOK
<1>21. CASE Packed
  BY <1>21 DEF Packed, Goto, Frame, inputVars, outVars, hostVars, runVars, histVars, FlagsOK
<1>22. CASE OpenMark
  BY <1>22 DEF OpenMark, Goto, Frame, inputVars, outVars, hostVars, runVars, histVars, FlagsOK
<1>23. CASE Mark
  BY <1>23 DEF Mark, End, Frame, inputVars, outVars, hostVars, runVars, histVars, FlagsOK
<1>24. CASE CommandFails
  BY <1>24 DEF CommandFails, MayBreak, Goto, End, Frame, inputVars, outVars, hostVars, runVars, histVars, FlagsOK
<1>25. CASE UmountFails
  BY <1>25 DEF UmountFails, MayBreak, Goto, End, inputVars, outVars, hostVars, runVars, histVars, FlagsOK
<1>26. CASE Kill
  BY <1>26 DEF Kill, MayBreak, End, inputVars, outVars, hostVars, runVars, histVars, FlagsOK
<1>27. CASE EditPkgs
  BY <1>27 DEF EditPkgs, MayChange, inputVars, outVars, hostVars, runVars, histVars, FlagsOK
<1>28. CASE EditAccount
  BY <1>28 DEF EditAccount, MayChange, inputVars, outVars, hostVars, runVars, histVars, FlagsOK
<1>29. CASE Accept
  BY <1>29 DEF Accept, MayChange, inputVars, outVars, hostVars, runVars, histVars, FlagsOK
<1>30. CASE CleanOut
  BY <1>30 DEF CleanOut, MayChange, inputVars, outVars, hostVars, runVars, histVars, FlagsOK
<1>31. CASE Reboot
  BY <1>31 DEF Reboot, MayChange, inputVars, outVars, hostVars, runVars, histVars, FlagsOK
<1>32. CASE UNCHANGED vars
  BY <1>32 DEF vars, inputVars, outVars, hostVars, runVars, histVars, FlagsOK
<1>. QED
  BY <1>1, <1>2, <1>3, <1>4, <1>5, <1>6, <1>7, <1>8, <1>9, <1>10, <1>11, <1>12, <1>13, <1>14, <1>15, <1>16, <1>17, <1>18, <1>19, <1>20, <1>21, <1>22, <1>23, <1>24, <1>25, <1>26, <1>27, <1>28, <1>29, <1>30, <1>31, <1>32 DEF Next, Step, Others

\* The rest of the state keeps its shape.
LEMMA StateStep ==
  ASSUME StateOK, [Next]_vars
  PROVE  StateOK'
<1>1. CASE \E c, r \in BOOLEAN : Start(c, r)
  BY <1>1, TarballConstants DEF Start, inputVars, outVars, hostVars, runVars, histVars, StateOK, Phases
<1>2. CASE Skip
  BY <1>2, TarballConstants DEF Skip, End, Frame, inputVars, outVars, hostVars, runVars, histVars, StateOK, Phases
<1>3. CASE Adopt
  BY <1>3, TarballConstants DEF Adopt, End, Frame, inputVars, outVars, hostVars, runVars, histVars, StateOK, Phases
<1>4. CASE DieStale
  BY <1>4, TarballConstants DEF DieStale, End, Frame, inputVars, outVars, hostVars, runVars, histVars, StateOK, Phases
<1>5. CASE Prepare
  BY <1>5, TarballConstants DEF Prepare, Goto, End, Frame, inputVars, outVars, hostVars, runVars, histVars, StateOK, Phases
<1>6. CASE RmTree
  <2>1. [work EXCEPT !.base = "part"] \in Works
    BY <1>6, WorkEdits DEF RmTree, Unfit, StateOK
  <2>2. work' \in Works /\ work' # NoWork
    BY <1>6, <2>1, TarballConstants DEF RmTree
  <2>. QED
    BY <1>6, <2>2 DEF RmTree, Goto, Frame, inputVars, outVars, hostVars, runVars, histVars, StateOK, Phases
<1>7. CASE RmTreeStuck
  <2>1. [work EXCEPT !.base = "part"] \in Works
    BY <1>7, WorkEdits DEF RmTreeStuck, Unfit, StateOK
  <2>2. work' \in Works /\ work' # NoWork
    BY <1>7, <2>1, TarballConstants DEF RmTreeStuck
  <2>. QED
    BY <1>7, <2>2 DEF RmTreeStuck, End, Frame, inputVars, outVars, hostVars, runVars, histVars, StateOK, Phases
<1>8. CASE Removed
  BY <1>8, TarballConstants DEF Removed, Goto, Frame, inputVars, outVars, hostVars, runVars, histVars, StateOK, Phases
<1>9. CASE Reuse
  BY <1>9, TarballConstants DEF Reuse, Goto, Frame, inputVars, outVars, hostVars, runVars, histVars, StateOK, Phases
<1>10. CASE Download
  BY <1>10, TarballConstants DEF Download, Goto, Frame, inputVars, outVars, hostVars, runVars, histVars, StateOK, Phases
<1>11. CASE MakeWork
  <2>1. work' \in Works /\ work' # NoWork
    BY <1>11, FreshWork, TarballConstants DEF MakeWork, Sizes
  <2>. QED
    BY <1>11, <2>1 DEF MakeWork, Goto, Frame, inputVars, outVars, hostVars, runVars, histVars, StateOK, Phases
<1>12. CASE Extract
  <2>1. work' \in Works /\ work' # NoWork
    BY <1>12, FreshWork, TarballConstants DEF Extract, Sizes
  <2>. QED
    BY <1>12, <2>1 DEF Extract, Goto, Frame, inputVars, outVars, hostVars, runVars, histVars, StateOK, Phases
<1>13. CASE Sources
  BY <1>13, TarballConstants DEF Sources, Goto, Frame, inputVars, outVars, hostVars, runVars, histVars, StateOK, Phases
<1>14. CASE BindMount
  <2>1. at \in 1..3 /\ Points[at] \in PointNames
    BY <1>14, PointsAre DEF BindMount, StateOK, PointNames
  <2>2. mounts' \in [PointNames -> Nat]
    BY <1>14, <2>1 DEF BindMount, StateOK
  <2>3. at' \in 2..4 /\ (phase' = "mount" => at' <= 3) /\ phase' \in {"mount", "resolv"} /\ outcome' = outcome
    BY <1>14, <2>1 DEF BindMount, Goto
  <2>. QED
    BY <1>14, <2>2, <2>3 DEF BindMount, Frame, inputVars, outVars, hostVars, runVars, histVars, StateOK, Phases
<1>15. CASE CopyResolv
  BY <1>15, TarballConstants DEF CopyResolv, Goto, Frame, inputVars, outVars, hostVars, runVars, histVars, StateOK, Phases
<1>16. CASE AptInstall
  <2>1. [work EXCEPT !.pkgs = @ \cup {pkgs}] \in Works
    BY <1>16, WorkEdits DEF AptInstall, Unfit, StateOK
  <2>2. work' \in Works /\ work' # NoWork
    BY <1>16, <2>1, TarballConstants DEF AptInstall
  <2>. QED
    BY <1>16, <2>2 DEF AptInstall, Goto, Frame, inputVars, outVars, hostVars, runVars, histVars, StateOK, Phases
<1>17. CASE CleanupMounts
  <2>1. at \in 1..3 /\ Points[at] \in PointNames
    BY <1>17, PointsAre DEF CleanupMounts, StateOK, PointNames
  <2>2. mounts' \in [PointNames -> Nat]
    BY <1>17, <2>1 DEF CleanupMounts, StateOK
  <2>3. at' \in 2..4 /\ (phase' \in {"umount", "unwind"} => at' <= 3)
    BY <1>17, <2>1 DEF CleanupMounts, Goto, End
  <2>4. phase' \in {"umount", "unwind", "config", "idle"} /\ outcome' \in {outcome, "failed"}
    BY <1>17 DEF CleanupMounts, Goto, End
  <2>. QED
    BY <1>17, <2>2, <2>3, <2>4 DEF CleanupMounts, Frame, inputVars, outVars, hostVars, runVars, histVars, StateOK, Phases
<1>18. CASE CreateAccount
  <2>1. work \in Works /\ [work EXCEPT !.accounts = {account}] \in Works
    BY <1>18, WorkEdits DEF CreateAccount, StateOK
  <2>2. work' \in Works /\ work' # NoWork
    BY <1>18, <2>1, TarballConstants DEF CreateAccount
  <2>3. phase' \in {"idle", "harden"} /\ outcome' \in {outcome, "failed"}
    BY <1>18 DEF CreateAccount, Goto, End
  <2>. QED
    BY <1>18, <2>2, <2>3 DEF CreateAccount, Frame, inputVars, outVars, hostVars, runVars, histVars, StateOK, Phases
<1>19. CASE Rk3588Hardening
  <2>1. work \in Works /\ [work EXCEPT !.links = @ \cup links] \in Works
    BY <1>19, WorkEdits DEF Rk3588Hardening, StateOK
  <2>2. work' \in Works /\ work' # NoWork
    BY <1>19, <2>1, TarballConstants DEF Rk3588Hardening
  <2>3. phase' \in {"idle", "tar"} /\ outcome' \in {outcome, "failed"}
    BY <1>19 DEF Rk3588Hardening, Goto, End
  <2>. QED
    BY <1>19, <2>2, <2>3 DEF Rk3588Hardening, Frame, inputVars, outVars, hostVars, runVars, histVars, StateOK, Phases
<1>20. CASE PackTar
  <2>1. tar' \in Tars
    BY <1>20, ContentIs DEF PackTar, StateOK, Sizes
  <2>. QED
    BY <1>20, <2>1 DEF PackTar, Goto, Frame, inputVars, outVars, hostVars, runVars, histVars, StateOK, Phases
<1>21. CASE Packed
  <2>1. tar' \in Tars
    BY <1>21, ContentIs DEF Packed, StateOK, Sizes
  <2>. QED
    BY <1>21, <2>1 DEF Packed, Goto, Frame, inputVars, outVars, hostVars, runVars, histVars, StateOK, Phases
<1>22. CASE OpenMark
  BY <1>22, TarballConstants DEF OpenMark, Goto, Frame, inputVars, outVars, hostVars, runVars, histVars, StateOK, Phases
<1>23. CASE Mark
  BY <1>23, TarballConstants DEF Mark, End, Frame, inputVars, outVars, hostVars, runVars, histVars, StateOK, Phases
<1>24. CASE CommandFails
  <2>1. breaks' \in 0..MaxBreaks /\ UNCHANGED <<inputVars, runVars, changes>>
    BY <1>24, TarballConstants DEF CommandFails, MayBreak, Frame, StateOK
  <2>2. CASE phase = "apt"
    <3>1. [work EXCEPT !.pkgs = @ \cup {pkgs}] \in Works /\ work \in Works
      BY <2>2, WorkEdits DEF StateOK
    <3>2. work' \in Works /\ work' # NoWork /\ at' = 1 /\ phase' = "unwind" /\ outcome' = outcome
      BY <1>24, <2>2, <3>1, TarballConstants DEF CommandFails, Goto
    <3>. QED
      BY <1>24, <2>1, <3>2 DEF CommandFails, inputVars, runVars, hostVars, StateOK, Phases
  <2>3. CASE phase # "apt"
    BY <1>24, <2>1, <2>3 DEF CommandFails, End, inputVars, runVars, hostVars, StateOK, Phases
  <2>. QED
    BY <2>2, <2>3
<1>25. CASE UmountFails
  <2>3. at' \in 2..4 /\ (phase' \in {"umount", "unwind"} => at' <= 3)
    BY <1>25 DEF UmountFails, Goto, End, StateOK
  <2>4. phase' \in {"umount", "unwind", "config", "idle"} /\ outcome' \in {outcome, "failed"}
    BY <1>25 DEF UmountFails, Goto, End
  <2>. QED
    BY <1>25, <2>3, <2>4, TarballConstants DEF UmountFails, MayBreak, inputVars, outVars, hostVars, runVars, histVars, StateOK, Phases
<1>26. CASE Kill
  BY <1>26, TarballConstants DEF Kill, MayBreak, End, inputVars, outVars, hostVars, runVars, histVars, StateOK, Phases
<1>27. CASE EditPkgs
  BY <1>27, TarballConstants DEF EditPkgs, MayChange, inputVars, outVars, hostVars, runVars, histVars, StateOK, Phases
<1>28. CASE EditAccount
  BY <1>28, TarballConstants DEF EditAccount, MayChange, inputVars, outVars, hostVars, runVars, histVars, StateOK, Phases
<1>29. CASE Accept
  BY <1>29, TarballConstants DEF Accept, MayChange, inputVars, outVars, hostVars, runVars, histVars, StateOK, Phases
<1>30. CASE CleanOut
  <2>1. /\ work' \in Works \cup {NoWork}
        /\ tar' \in Tars \cup {NoTar} /\ marker' \in PkgLists \cup {NoMark, Empty}
    BY <1>30, WorkEdits DEF CleanOut, StateOK
  <2>2. /\ UNCHANGED <<inputVars, runVars, mounts, phase, at, outcome, breaks>>
        /\ phase = "idle" /\ changes' = changes + 1 /\ changes < MaxChanges
    BY <1>30 DEF CleanOut, MayChange, hostVars
  <2>. QED
    BY <2>1, <2>2, TarballConstants DEF inputVars, runVars, StateOK
<1>31. CASE Reboot
  BY <1>31, TarballConstants DEF Reboot, MayChange, inputVars, outVars, hostVars, runVars, histVars, StateOK, Phases
<1>32. CASE UNCHANGED vars
  BY <1>32, TarballConstants DEF vars, inputVars, outVars, hostVars, runVars, histVars, StateOK, Phases
<1>. QED
  BY <1>1, <1>2, <1>3, <1>4, <1>5, <1>6, <1>7, <1>8, <1>9, <1>10, <1>11, <1>12, <1>13, <1>14, <1>15, <1>16, <1>17, <1>18, <1>19, <1>20, <1>21, <1>22, <1>23, <1>24, <1>25, <1>26, <1>27, <1>28, <1>29, <1>30, <1>31, <1>32 DEF Next, Step, Others

-----------------------------------------------------------------------------
(* The inductive invariant *)

\* From the guard on no marker is there until the tar is whole again, but one
\* that a clean has left without its tar.
Revoked ==
  /\ phase \notin {"idle", "guard", "marking"} => marker = NoMark \/ orphan
  /\ (marker # NoMark /\ ~orphan) \/ phase \in {"mark", "marking"} =>
       tar # NoTar /\ tar.copy = "whole"

Zero == mounts["proc"] = 0 /\ mounts["sys"] = 0 /\ mounts["dev"] = 0

\* What one run has mounted where it is.
OneLayer ==
  /\ phase = "mount" =>
       /\ mounts["proc"] = (IF at = 1 THEN 0 ELSE 1)
       /\ mounts["sys"] = (IF at = 3 THEN 1 ELSE 0)
       /\ mounts["dev"] = 0
  /\ phase \in {"resolv", "apt"} => mounts["proc"] = 1 /\ mounts["sys"] = 1 /\ mounts["dev"] = 1
  /\ phase \in {"umount", "unwind"} =>
       /\ mounts["proc"] = (IF at = 1 THEN 1 ELSE 0)
       /\ mounts["sys"] = (IF at = 3 THEN 0 ELSE 1)
       /\ mounts["dev"] = 1
  /\ phase \notin {"mount", "resolv", "apt", "umount", "unwind"} => Zero

\* Nothing is mounted in a work directory of a user's or in one being made or
\* removed, and what is mounted is known as long as no run has stranded its
\* mounts, and in a run that made its own work directory.
MountsKnown ==
  /\ phase \in {"extract", "removing"} => Zero
  /\ work = NoWork => Zero
  /\ work # NoWork /\ work.owner = "user" => Zero
  /\ phase \in {"sources", "mount", "resolv", "apt", "umount", "unwind"} => work.owner = "root"
  /\ ~stranded => OneLayer /\ ~hurt
  /\ fresh /\ calm /\ phase # "idle" => OneLayer
  /\ phase \in {"guard", "work", "removing", "extract"} => ~fresh

\* How far a run that made its own work directory has come.
Filled(p, a, l) ==
  [owner |-> "root", base |-> "whole", pkgs |-> p, accounts |-> a, links |-> l]

Exact == [copy |-> "whole", base |-> "whole", pkgs |-> {pkgs}, accounts |-> {account},
          host |-> {}]

Progress ==
  /\ phase \in {"sources", "mount", "resolv", "apt"} => work = Filled({}, {}, {})
  /\ phase \in {"umount", "config"} => work = Filled({pkgs}, {}, {})
  /\ phase = "harden" => work = Filled({pkgs}, {account}, {})
  /\ phase \in {"tar", "packing", "mark", "marking"} => work = Filled({pkgs}, {account}, links)
  /\ phase \in {"mark", "marking"} => tar = Exact
  /\ phase # "unwind"

\* The run that made its work directory is exact step by step, and so is a
\* run of --clean, which always makes one.
RunExact ==
  /\ calm /\ phase # "idle" => digest = pkgs
  /\ fresh /\ calm /\ phase # "idle" => Progress
  /\ clean /\ phase \notin {"idle", "guard", "work", "removing", "extract"} => fresh
  /\ CleanExact

\* A traced marker tells what its tar holds, and a run that ends well leaves
\* the marker of today's list.
MarkerTells ==
  /\ traced /\ ~orphan /\ marker \in PkgLists =>
       tar.base = "whole" /\ tar.pkgs = {marker} /\ tar.host = {}
  /\ phase = "idle" /\ outcome = "done" /\ calm => marker = pkgs

IInv == TypeOK /\ Revoked /\ MountsKnown /\ RunExact /\ MarkerTells

LEMMA MountedIs ==
  ASSUME mounts \in [PointNames -> Nat]
  PROVE  (Mounted = {}) <=> Zero
<1>1. Mounted = {} => Zero
  BY DEF Mounted, Zero, PointNames
<1>2. Zero => Mounted = {}
  BY DEF Mounted, Zero, PointNames
<1>. QED
  BY <1>1, <1>2

LEMMA OwnerStays ==
  ASSUME NEW w \in Works, NEW p \in PkgLists, NEW a \in Accounts, NEW l \in SUBSET Links
  PROVE  /\ [w EXCEPT !.base = "part"].owner = w.owner
         /\ [w EXCEPT !.pkgs = @ \cup {p}].owner = w.owner
         /\ [w EXCEPT !.accounts = {a}].owner = w.owner
         /\ [w EXCEPT !.links = @ \cup l].owner = w.owner
BY DEF Works

\* No step but a clean leaves a marker over a tar that is not whole.
LEMMA RevokedStep ==
  ASSUME FlagsOK, StateOK, Revoked, [Next]_vars
  PROVE  Revoked'
<1>1. CASE \E c, r \in BOOLEAN : Start(c, r)
  BY <1>1 DEF Start, inputVars, outVars, hostVars, runVars, histVars, Revoked
<1>2. CASE Skip
  BY <1>2 DEF Skip, End, Frame, inputVars, outVars, hostVars, runVars, histVars, Revoked
<1>3. CASE Adopt
  BY <1>3 DEF Adopt, End, Frame, inputVars, outVars, hostVars, runVars, histVars, Revoked, Cached
<1>4. CASE DieStale
  BY <1>4 DEF DieStale, End, Frame, inputVars, outVars, hostVars, runVars, histVars, Revoked
<1>5. CASE Prepare
  BY <1>5, TarballConstants DEF Prepare, Goto, End, Frame, inputVars, outVars, hostVars, runVars, histVars, Revoked, Cached
<1>6. CASE RmTree
  BY <1>6 DEF RmTree, Goto, Frame, inputVars, outVars, hostVars, runVars, histVars, Revoked
<1>7. CASE RmTreeStuck
  BY <1>7 DEF RmTreeStuck, End, Frame, inputVars, outVars, hostVars, runVars, histVars, Revoked
<1>8. CASE Removed
  BY <1>8 DEF Removed, Goto, Frame, inputVars, outVars, hostVars, runVars, histVars, Revoked
<1>9. CASE Reuse
  BY <1>9 DEF Reuse, Goto, Frame, inputVars, outVars, hostVars, runVars, histVars, Revoked
<1>10. CASE Download
  BY <1>10 DEF Download, Goto, Frame, inputVars, outVars, hostVars, runVars, histVars, Revoked
<1>11. CASE MakeWork
  BY <1>11 DEF MakeWork, Goto, Frame, inputVars, outVars, hostVars, runVars, histVars, Revoked
<1>12. CASE Extract
  BY <1>12 DEF Extract, Goto, Frame, inputVars, outVars, hostVars, runVars, histVars, Revoked
<1>13. CASE Sources
  BY <1>13 DEF Sources, Goto, Frame, inputVars, outVars, hostVars, runVars, histVars, Revoked
<1>14. CASE BindMount
  BY <1>14 DEF BindMount, Goto, Frame, inputVars, outVars, hostVars, runVars, histVars, Revoked
<1>15. CASE CopyResolv
  BY <1>15 DEF CopyResolv, Goto, Frame, inputVars, outVars, hostVars, runVars, histVars, Revoked
<1>16. CASE AptInstall
  BY <1>16 DEF AptInstall, Goto, Frame, inputVars, outVars, hostVars, runVars, histVars, Revoked
<1>17. CASE CleanupMounts
  BY <1>17 DEF CleanupMounts, Goto, End, Frame, inputVars, outVars, hostVars, runVars, histVars, Revoked
<1>18. CASE CreateAccount
  BY <1>18 DEF CreateAccount, Goto, End, Frame, inputVars, outVars, hostVars, runVars, histVars, Revoked
<1>19. CASE Rk3588Hardening
  BY <1>19 DEF Rk3588Hardening, Goto, End, Frame, inputVars, outVars, hostVars, runVars, histVars, Revoked
<1>20. CASE PackTar
  BY <1>20 DEF PackTar, Goto, Frame, inputVars, outVars, hostVars, runVars, histVars, Revoked
<1>21. CASE Packed
  <2>1. tar' = Content("whole") /\ Content("whole") \in Tars /\ Content("whole").copy = "whole"
    BY <1>21, ContentIs DEF Packed, StateOK, Content, Sizes
  <2>2. tar' # NoTar /\ tar'.copy = "whole"
    BY <2>1, TarballConstants
  <2>. QED
    BY <1>21, <2>2 DEF Packed, Goto, Frame, inputVars, outVars, hostVars, runVars, histVars, Revoked
<1>22. CASE OpenMark
  BY <1>22 DEF OpenMark, Goto, Frame, inputVars, outVars, hostVars, runVars, histVars, Revoked
<1>23. CASE Mark
  BY <1>23 DEF Mark, End, Frame, inputVars, outVars, hostVars, runVars, histVars, Revoked
<1>24. CASE CommandFails
  BY <1>24 DEF CommandFails, MayBreak, Goto, End, Frame, inputVars, outVars, hostVars, runVars, histVars, Revoked
<1>25. CASE UmountFails
  BY <1>25 DEF UmountFails, MayBreak, Goto, End, inputVars, outVars, hostVars, runVars, histVars, Revoked
<1>26. CASE Kill
  BY <1>26 DEF Kill, MayBreak, End, inputVars, outVars, hostVars, runVars, histVars, Revoked
<1>27. CASE EditPkgs
  BY <1>27 DEF EditPkgs, MayChange, inputVars, outVars, hostVars, runVars, histVars, Revoked
<1>28. CASE EditAccount
  BY <1>28 DEF EditAccount, MayChange, inputVars, outVars, hostVars, runVars, histVars, Revoked
<1>29. CASE Accept
  BY <1>29 DEF Accept, MayChange, inputVars, outVars, hostVars, runVars, histVars, Revoked
<1>30. CASE CleanOut
  BY <1>30 DEF CleanOut, MayChange, inputVars, outVars, hostVars, runVars, histVars, Revoked
<1>31. CASE Reboot
  BY <1>31 DEF Reboot, MayChange, inputVars, outVars, hostVars, runVars, histVars, Revoked
<1>32. CASE UNCHANGED vars
  BY <1>32 DEF vars, inputVars, outVars, hostVars, runVars, histVars, Revoked
<1>. QED
  BY <1>1, <1>2, <1>3, <1>4, <1>5, <1>6, <1>7, <1>8, <1>9, <1>10, <1>11, <1>12, <1>13, <1>14, <1>15, <1>16, <1>17, <1>18, <1>19, <1>20, <1>21, <1>22, <1>23, <1>24, <1>25, <1>26, <1>27, <1>28, <1>29, <1>30, <1>31, <1>32 DEF Next, Step, Others

\* Every step keeps count of the mounts.
LEMMA MountsStep ==
  ASSUME StateOK, FlagsOK, MountsKnown, [Next]_vars
  PROVE  MountsKnown'
<1>1. CASE \E c, r \in BOOLEAN : Start(c, r)
  BY <1>1, TarballConstants DEF Start, inputVars, outVars, hostVars, runVars, histVars, MountsKnown, OneLayer, Zero, StateOK, FlagsOK
<1>2. CASE Skip
  BY <1>2, TarballConstants DEF Skip, End, Frame, inputVars, outVars, hostVars, runVars, histVars, MountsKnown, OneLayer, Zero, StateOK, FlagsOK
<1>3. CASE Adopt
  BY <1>3, TarballConstants DEF Adopt, End, Frame, inputVars, outVars, hostVars, runVars, histVars, MountsKnown, OneLayer, Zero, StateOK, FlagsOK
<1>4. CASE DieStale
  BY <1>4, TarballConstants DEF DieStale, End, Frame, inputVars, outVars, hostVars, runVars, histVars, MountsKnown, OneLayer, Zero, StateOK, FlagsOK
<1>5. CASE Prepare
  BY <1>5, TarballConstants DEF Prepare, Goto, End, Frame, inputVars, outVars, hostVars, runVars, histVars, MountsKnown, OneLayer, Zero, StateOK, FlagsOK
<1>6. CASE RmTree
  <2>1. work \in Works /\ work' \in Works /\ work'.owner = work.owner
    BY <1>6, WorkEdits, OwnerStays, TarballConstants DEF RmTree, Unfit, StateOK
  <2>2. Zero /\ phase = "work" /\ phase' = "removing" /\ UNCHANGED <<mounts, hurt, fresh, stranded, calm>>
    BY <1>6, MountedIs DEF RmTree, Goto, Frame, hostVars, StateOK
  <2>3. Zero'
    BY <2>2 DEF Zero
  <2>. QED
    BY <2>1, <2>2, <2>3, TarballConstants DEF MountsKnown, OneLayer
<1>7. CASE RmTreeStuck
  <2>1. work \in Works /\ work' \in Works /\ work'.owner = work.owner
    BY <1>7, WorkEdits, OwnerStays, TarballConstants DEF RmTreeStuck, Unfit, StateOK
  <2>2. /\ ~Zero /\ phase = "work" /\ phase' = "idle"
        /\ UNCHANGED <<mounts, fresh, stranded, calm>>
    BY <1>7, MountedIs DEF RmTreeStuck, End, Frame, StateOK
  <2>3. stranded
    BY <2>2 DEF MountsKnown, OneLayer
  <2>4. work.owner # "user" /\ work' # NoWork
    BY <2>1, <2>2, TarballConstants DEF MountsKnown
  <2>. QED
    BY <2>1, <2>2, <2>3, <2>4 DEF MountsKnown
<1>8. CASE Removed
  BY <1>8, TarballConstants DEF Removed, Goto, Frame, inputVars, outVars, hostVars, runVars, histVars, MountsKnown, OneLayer, Zero, StateOK, FlagsOK
<1>9. CASE Reuse
  <2>1. work \in Works /\ work.owner = "root"
    BY <1>9 DEF Reuse, Unfit, StateOK, Works
  <2>. QED
    BY <1>9, <2>1 DEF Reuse, Goto, Frame, inputVars, outVars, hostVars, runVars, histVars, MountsKnown, OneLayer, Zero
<1>10. CASE Download
  BY <1>10, TarballConstants DEF Download, Goto, Frame, inputVars, outVars, hostVars, runVars, histVars, MountsKnown, OneLayer, Zero, StateOK, FlagsOK
<1>11. CASE MakeWork
  <2>1. work'.owner = "root" /\ work' \in Works
    BY <1>11, FreshWork DEF MakeWork, Extracted, Sizes
  <2>. QED
    BY <1>11, <2>1, TarballConstants DEF MakeWork, Goto, Frame, inputVars, outVars, hostVars, runVars, histVars, MountsKnown, OneLayer, Zero
<1>12. CASE Extract
  <2>1. work'.owner = "root" /\ work' \in Works
    BY <1>12, FreshWork DEF Extract, Extracted, Sizes
  <2>. QED
    BY <1>12, <2>1, TarballConstants DEF Extract, Goto, Frame, inputVars, outVars, hostVars, runVars, histVars, MountsKnown, OneLayer, Zero
<1>13. CASE Sources
  BY <1>13 DEF Sources, Goto, Frame, inputVars, outVars, hostVars, runVars, histVars, MountsKnown, OneLayer, Zero, StateOK
<1>14. CASE BindMount
  <2>1. at \in {1, 2, 3} /\ work # NoWork /\ work.owner = "root" /\ mounts \in [PointNames -> Nat]
    BY <1>14 DEF BindMount, MountsKnown, StateOK
  <2>2. /\ at = 1 => mounts' = [mounts EXCEPT !["proc"] = @ + 1] /\ at' = 2
        /\ at = 2 => mounts' = [mounts EXCEPT !["sys"] = @ + 1] /\ at' = 3
        /\ at = 3 => mounts' = [mounts EXCEPT !["dev"] = @ + 1] /\ at' = 4
    <3>1. mounts' = [mounts EXCEPT ![Points[at]] = @ + 1] /\ at' = at + 1
      BY <1>14 DEF BindMount
    <3>2. CASE at = 1
      <4>1. Points[at] = "proc"
        BY <3>2, PointsAre
      <4>. QED
        BY <3>1, <3>2, <4>1
    <3>3. CASE at = 2
      <4>1. Points[at] = "sys"
        BY <3>3, PointsAre
      <4>. QED
        BY <3>1, <3>3, <4>1
    <3>4. CASE at = 3
      <4>1. Points[at] = "dev"
        BY <3>4, PointsAre
      <4>. QED
        BY <3>1, <3>4, <4>1
    <3>. QED
      BY <2>1, <3>2, <3>3, <3>4
  <2>3. OneLayer => OneLayer'
    BY <1>14, <2>1, <2>2 DEF BindMount, Goto, OneLayer, Zero, PointNames
  <2>4. phase' \in {"mount", "resolv"} /\ phase = "mount"
    BY <1>14 DEF BindMount, Goto
  <2>. QED
    BY <1>14, <2>1, <2>3, <2>4 DEF BindMount, Frame, outVars, histVars, MountsKnown
<1>15. CASE CopyResolv
  BY <1>15, TarballConstants DEF CopyResolv, Goto, Frame, inputVars, outVars, hostVars, runVars, histVars, MountsKnown, OneLayer, Zero, StateOK, FlagsOK
<1>16. CASE AptInstall
  <2>1. work \in Works /\ work' \in Works /\ work'.owner = work.owner
    BY <1>16, WorkEdits, OwnerStays, TarballConstants DEF AptInstall, Unfit, StateOK
  <2>. QED
    BY <1>16, <2>1, TarballConstants, MountedIs DEF AptInstall, Goto, Frame, inputVars, outVars, hostVars, runVars, histVars, MountsKnown, OneLayer, Zero, FlagsOK
<1>17. CASE CleanupMounts
  <2>1. at \in {1, 2, 3} /\ work # NoWork /\ work.owner = "root" /\ mounts \in [PointNames -> Nat]
    BY <1>17 DEF CleanupMounts, MountsKnown, StateOK
  <2>2. /\ at = 1 => mounts' = [mounts EXCEPT !["proc"] = IF @ > 0 THEN @ - 1 ELSE 0] /\ at' = 2
        /\ at = 2 => mounts' = [mounts EXCEPT !["sys"] = IF @ > 0 THEN @ - 1 ELSE 0] /\ at' = 3
        /\ at = 3 => mounts' = [mounts EXCEPT !["dev"] = IF @ > 0 THEN @ - 1 ELSE 0] /\ at' = 4
    <3>1. mounts' = [mounts EXCEPT ![Points[at]] = IF @ > 0 THEN @ - 1 ELSE 0] /\ at' = at + 1
      BY <1>17 DEF CleanupMounts
    <3>2. CASE at = 1
      <4>1. Points[at] = "proc"
        BY <3>2, PointsAre
      <4>. QED
        BY <3>1, <3>2, <4>1
    <3>3. CASE at = 2
      <4>1. Points[at] = "sys"
        BY <3>3, PointsAre
      <4>. QED
        BY <3>1, <3>3, <4>1
    <3>4. CASE at = 3
      <4>1. Points[at] = "dev"
        BY <3>4, PointsAre
      <4>. QED
        BY <3>1, <3>4, <4>1
    <3>. QED
      BY <2>1, <3>2, <3>3, <3>4
  <2>3. /\ phase \in {"umount", "unwind"}
        /\ at < 3 => phase' = phase
        /\ at = 3 => phase' \in {"config", "idle"}
    BY <1>17, <2>1 DEF CleanupMounts, Goto, End
  <2>4. OneLayer => OneLayer'
    BY <2>1, <2>2, <2>3 DEF OneLayer, Zero, PointNames
  <2>5. phase' \in {"umount", "unwind", "config", "idle"}
    BY <2>1, <2>3
  <2>. QED
    BY <1>17, <2>1, <2>3, <2>4, <2>5 DEF CleanupMounts, Frame, outVars, histVars, MountsKnown
<1>18. CASE CreateAccount
  <2>1. work \in Works /\ work' \in Works /\ work'.owner = work.owner
    <3>1. /\ work \in Works /\ account \in Accounts
          /\ work' = work \/ work' = [work EXCEPT !.accounts = {account}]
      BY <1>18 DEF CreateAccount, StateOK
    <3>2. [work EXCEPT !.accounts = {account}] \in Works
      BY <1>18, <3>1, WorkEdits DEF StateOK
    <3>3. [work EXCEPT !.accounts = {account}].owner = work.owner
      BY <1>18, <3>1, OwnerStays DEF StateOK
    <3>. QED
      BY <3>1, <3>2, <3>3
  <2>. QED
    BY <1>18, <2>1, TarballConstants, MountedIs DEF CreateAccount, Goto, End, Frame, inputVars, outVars, hostVars, runVars, histVars, MountsKnown, OneLayer, Zero, FlagsOK
<1>19. CASE Rk3588Hardening
  <2>1. work \in Works /\ work' \in Works /\ work'.owner = work.owner
    <3>1. /\ work \in Works /\ links \in SUBSET Links
          /\ work' = work \/ work' = [work EXCEPT !.links = @ \cup links]
      BY <1>19 DEF Rk3588Hardening, StateOK
    <3>2. [work EXCEPT !.links = @ \cup links] \in Works
      BY <1>19, <3>1, WorkEdits DEF StateOK
    <3>3. [work EXCEPT !.links = @ \cup links].owner = work.owner
      BY <1>19, <3>1, OwnerStays DEF StateOK
    <3>. QED
      BY <3>1, <3>2, <3>3
  <2>. QED
    BY <1>19, <2>1, TarballConstants, MountedIs DEF Rk3588Hardening, Goto, End, Frame, inputVars, outVars, hostVars, runVars, histVars, MountsKnown, OneLayer, Zero, FlagsOK
<1>20. CASE PackTar
  BY <1>20, TarballConstants DEF PackTar, Goto, Frame, inputVars, outVars, hostVars, runVars, histVars, MountsKnown, OneLayer, Zero, StateOK, FlagsOK
<1>21. CASE Packed
  BY <1>21, TarballConstants DEF Packed, Goto, Frame, inputVars, outVars, hostVars, runVars, histVars, MountsKnown, OneLayer, Zero, StateOK, FlagsOK
<1>22. CASE OpenMark
  BY <1>22, TarballConstants DEF OpenMark, Goto, Frame, inputVars, outVars, hostVars, runVars, histVars, MountsKnown, OneLayer, Zero, StateOK, FlagsOK
<1>23. CASE Mark
  BY <1>23, TarballConstants DEF Mark, End, Frame, inputVars, outVars, hostVars, runVars, histVars, MountsKnown, OneLayer, Zero, StateOK, FlagsOK
<1>24. CASE CommandFails
  <2>1. phase \in {"work", "extract", "sources", "mount", "resolv", "apt", "config", "packing"}
    BY <1>24 DEF CommandFails
  <2>2. UNCHANGED <<clean, root, digest, mounts, hurt, fresh>> /\ (calm' => calm)
    BY <1>24 DEF CommandFails, MayBreak, Frame, runVars, hostVars
  <2>3. CASE phase = "apt"
    <3>1. work \in Works /\ work' \in Works /\ work'.owner = work.owner /\ work' # NoWork
      <4>1. work \in Works /\ work' \in {work, [work EXCEPT !.pkgs = @ \cup {pkgs}]}
        BY <1>24, <2>3 DEF CommandFails, StateOK
      <4>2. [work EXCEPT !.pkgs = @ \cup {pkgs}] \in Works
        BY <4>1, WorkEdits DEF StateOK
      <4>3. [work EXCEPT !.pkgs = @ \cup {pkgs}].owner = work.owner
        BY <4>1, OwnerStays DEF StateOK
      <4>. QED
        BY <4>1, <4>2, <4>3, TarballConstants
    <3>2. phase' = "unwind" /\ at' = 1 /\ (~stranded' => ~stranded)
      BY <1>24, <2>3 DEF CommandFails, Goto, FlagsOK
    <3>. QED
      BY <2>2, <2>3, <3>1, <3>2 DEF MountsKnown, OneLayer, Zero
  <2>4. CASE phase # "apt"
    <3>1. phase' = "idle" /\ work' = work
      BY <1>24, <2>4 DEF CommandFails, End
    <3>2. stranded' = (stranded \/ phase \in {"mount", "resolv"})
      BY <1>24 DEF CommandFails
    <3>. QED
      BY <2>1, <2>2, <2>4, <3>1, <3>2 DEF MountsKnown, OneLayer, Zero
  <2>. QED
    BY <2>3, <2>4
<1>25. CASE UmountFails
  BY <1>25, TarballConstants DEF UmountFails, MayBreak, Goto, End, inputVars, outVars, hostVars, runVars, histVars, MountsKnown, OneLayer, Zero, StateOK, FlagsOK
<1>26. CASE Kill
  BY <1>26, TarballConstants DEF Kill, MayBreak, End, inputVars, outVars, hostVars, runVars, histVars, MountsKnown, OneLayer, Zero, StateOK, FlagsOK
<1>27. CASE EditPkgs
  BY <1>27, TarballConstants DEF EditPkgs, MayChange, inputVars, outVars, hostVars, runVars, histVars, MountsKnown, OneLayer, Zero, StateOK, FlagsOK
<1>28. CASE EditAccount
  BY <1>28, TarballConstants DEF EditAccount, MayChange, inputVars, outVars, hostVars, runVars, histVars, MountsKnown, OneLayer, Zero, StateOK, FlagsOK
<1>29. CASE Accept
  BY <1>29, TarballConstants DEF Accept, MayChange, inputVars, outVars, hostVars, runVars, histVars, MountsKnown, OneLayer, Zero, StateOK, FlagsOK
<1>30. CASE CleanOut
  BY <1>30, TarballConstants DEF CleanOut, MayChange, inputVars, outVars, hostVars, runVars, histVars, MountsKnown, OneLayer, Zero, StateOK, FlagsOK
<1>31. CASE Reboot
  <2>1. Zero'
    BY <1>31 DEF Reboot, Zero, PointNames
  <2>2. OneLayer' /\ ~hurt'
    BY <1>31, <2>1 DEF Reboot, MayChange, OneLayer
  <2>. QED
    BY <1>31, <2>1, <2>2 DEF Reboot, MayChange, outVars, MountsKnown
<1>32. CASE UNCHANGED vars
  BY <1>32, TarballConstants DEF vars, inputVars, outVars, hostVars, runVars, histVars, MountsKnown, OneLayer, Zero, StateOK, FlagsOK
<1>. QED
  BY <1>1, <1>2, <1>3, <1>4, <1>5, <1>6, <1>7, <1>8, <1>9, <1>10, <1>11, <1>12, <1>13, <1>14, <1>15, <1>16, <1>17, <1>18, <1>19, <1>20, <1>21, <1>22, <1>23, <1>24, <1>25, <1>26, <1>27, <1>28, <1>29, <1>30, <1>31, <1>32 DEF Next, Step, Others

\* A run that made its work directory stays exact, and so does --clean.
LEMMA ExactStep ==
  ASSUME StateOK, FlagsOK, MountsKnown, RunExact, [Next]_vars
  PROVE  RunExact'
<1>1. CASE \E c, r \in BOOLEAN : Start(c, r)
  BY <1>1 DEF Start, inputVars, outVars, hostVars, runVars, histVars, RunExact, Progress, CleanExact, Exact
<1>2. CASE Skip
  BY <1>2, TarballConstants DEF Skip, End, Frame, inputVars, outVars, hostVars, runVars, histVars, RunExact, Progress, CleanExact, Cached
<1>3. CASE Adopt
  BY <1>3, TarballConstants DEF Adopt, End, Frame, inputVars, outVars, hostVars, runVars, histVars, RunExact, Progress, CleanExact, Cached
<1>4. CASE DieStale
  BY <1>4, TarballConstants DEF DieStale, End, Frame, inputVars, outVars, hostVars, runVars, histVars, RunExact, Progress, CleanExact, Cached
<1>5. CASE Prepare
  BY <1>5, TarballConstants DEF Prepare, Goto, End, Frame, inputVars, outVars, hostVars, runVars, histVars, RunExact, Progress, CleanExact, Cached, MountsKnown
<1>6. CASE RmTree
  BY <1>6 DEF RmTree, Goto, Frame, inputVars, outVars, hostVars, runVars, histVars, RunExact, Progress, CleanExact, Exact
<1>7. CASE RmTreeStuck
  <2>1. stranded /\ phase = "work" /\ phase' = "idle" /\ stranded' = stranded
    <3>1. ~Zero
      BY <1>7, MountedIs DEF RmTreeStuck, StateOK
    <3>. QED
      BY <1>7, <3>1 DEF RmTreeStuck, End, MountsKnown, OneLayer
  <2>. QED
    BY <1>7, <2>1 DEF RmTreeStuck, Frame, runVars, RunExact, Progress, CleanExact
<1>8. CASE Removed
  BY <1>8 DEF Removed, Goto, Frame, inputVars, outVars, hostVars, runVars, histVars, RunExact, Progress, CleanExact, Exact
<1>9. CASE Reuse
  BY <1>9, TarballConstants DEF Reuse, Goto, Frame, inputVars, outVars, hostVars, runVars, histVars, RunExact, Progress, CleanExact, Unfit, MountsKnown
<1>10. CASE Download
  BY <1>10 DEF Download, Goto, Frame, inputVars, outVars, hostVars, runVars, histVars, RunExact, Progress, CleanExact, Exact
<1>11. CASE MakeWork
  BY <1>11 DEF MakeWork, Goto, Frame, inputVars, outVars, hostVars, runVars, histVars, RunExact, Progress, CleanExact, Exact
<1>12. CASE Extract
  BY <1>12 DEF Extract, Goto, Frame, inputVars, outVars, hostVars, runVars, histVars, RunExact, Progress, CleanExact, Extracted, Filled
<1>13. CASE Sources
  BY <1>13 DEF Sources, Goto, Frame, inputVars, outVars, hostVars, runVars, histVars, RunExact, Progress, CleanExact, Exact
<1>14. CASE BindMount
  BY <1>14 DEF BindMount, Goto, Frame, inputVars, outVars, hostVars, runVars, histVars, RunExact, Progress, CleanExact, Exact
<1>15. CASE CopyResolv
  BY <1>15 DEF CopyResolv, Goto, Frame, inputVars, outVars, hostVars, runVars, histVars, RunExact, Progress, CleanExact, Exact
<1>16. CASE AptInstall
  <2>1. ASSUME fresh, calm PROVE work' = Filled({pkgs}, {}, {})
    BY <1>16, <2>1 DEF AptInstall, RunExact, Progress, Filled
  <2>. QED
    BY <1>16, <2>1 DEF AptInstall, Goto, Frame, inputVars, runVars, RunExact, Progress, CleanExact
<1>17. CASE CleanupMounts
  <2>1. /\ UNCHANGED <<pkgs, account, clean, root, digest, fresh, calm, work>>
        /\ phase \in {"umount", "unwind"} /\ phase' \in {phase, "config", "idle"}
        /\ phase = "umount" => phase' # "idle"
    BY <1>17 DEF CleanupMounts, Goto, End, Frame, inputVars, runVars, outVars
  <2>. QED
    BY <2>1 DEF RunExact, Progress, CleanExact
<1>18. CASE CreateAccount
  <2>1. ASSUME fresh, calm PROVE work' = Filled({pkgs}, {account}, {}) /\ phase' = "harden"
    <3>1. work = Filled({pkgs}, {}, {})
      BY <1>18, <2>1 DEF CreateAccount, RunExact, Progress
    <3>2. work.accounts = {}
      BY <3>1 DEF Filled
    <3>3. work' = [work EXCEPT !.accounts = {account}] /\ phase' = "harden"
      BY <1>18, <3>2 DEF CreateAccount, Goto
    <3>. QED
      BY <3>1, <3>3 DEF Filled
  <2>2. phase = "config" /\ phase' \in {"idle", "harden"}
    BY <1>18 DEF CreateAccount, Goto, End
  <2>. QED
    BY <1>18, <2>1, <2>2 DEF CreateAccount, Frame, inputVars, runVars, RunExact, Progress, CleanExact
<1>19. CASE Rk3588Hardening
  <2>1. ASSUME fresh, calm PROVE work' = Filled({pkgs}, {account}, links) /\ phase' = "tar"
    <3>1. work = Filled({pkgs}, {account}, {})
      BY <1>19, <2>1 DEF Rk3588Hardening, RunExact, Progress
    <3>2. work.links = {}
      BY <3>1 DEF Filled
    <3>3. work' = [work EXCEPT !.links = @ \cup links] /\ phase' = "tar"
      BY <1>19, <3>2 DEF Rk3588Hardening, Goto
    <3>. QED
      BY <3>1, <3>3 DEF Filled
  <2>2. phase = "harden" /\ phase' \in {"idle", "tar"}
    BY <1>19 DEF Rk3588Hardening, Goto, End
  <2>. QED
    BY <1>19, <2>1, <2>2 DEF Rk3588Hardening, Frame, inputVars, runVars, RunExact, Progress, CleanExact
<1>20. CASE PackTar
  BY <1>20 DEF PackTar, Goto, Frame, inputVars, runVars, RunExact, Progress, CleanExact
<1>21. CASE Packed
  <2>1. ASSUME fresh, calm PROVE tar' = Exact
    <3>1. work = Filled({pkgs}, {account}, links) /\ OneLayer /\ phase = "packing"
      BY <1>21, <2>1 DEF Packed, RunExact, Progress, MountsKnown
    <3>2. Mounted = {}
      BY <3>1, MountedIs DEF OneLayer, StateOK
    <3>3. tar' = Content("whole")
      BY <1>21 DEF Packed
    <3>. QED
      BY <3>1, <3>2, <3>3 DEF Content, Exact, Filled
  <2>. QED
    BY <1>21, <2>1 DEF Packed, Goto, Frame, inputVars, runVars, RunExact, Progress, CleanExact, Exact
<1>22. CASE OpenMark
  BY <1>22 DEF OpenMark, Goto, Frame, inputVars, outVars, hostVars, runVars, histVars, RunExact, Progress, CleanExact, Exact
<1>23. CASE Mark
  BY <1>23 DEF Mark, End, Frame, inputVars, outVars, hostVars, runVars, histVars, RunExact, Progress, CleanExact, Exact
<1>24. CASE CommandFails
  <2>1. CASE MayBreak
    <3>1. UNCHANGED <<pkgs, account, clean, root, digest>> /\ ~calm'
      BY <2>1 DEF MayBreak, inputVars, runVars
    <3>2. phase' \in {"idle", "unwind"} /\ fresh' = fresh /\ (phase' = "unwind" => phase = "apt")
      BY <1>24 DEF CommandFails, Goto, End
    <3>. QED
      BY <3>1, <3>2 DEF RunExact, CleanExact
  <2>2. CASE ~MayBreak
    <3>1. \/ phase \in {"sources", "apt", "config"} /\ work.base = "part"
          \/ phase = "packing" /\ Mounted # {}
      BY <1>24, <2>2 DEF CommandFails
    <3>2. UNCHANGED <<pkgs, account, clean, root, digest, calm, fresh>>
      BY <1>24, <2>2 DEF CommandFails, Frame, inputVars, runVars
    <3>3. ~(fresh /\ calm)
      <4>1. CASE phase = "packing"
        BY <3>1, <4>1, MountedIs DEF MountsKnown, OneLayer, StateOK
      <4>2. CASE phase # "packing"
        BY <3>1, <4>2 DEF RunExact, Progress, Filled
      <4>. QED
        BY <4>1, <4>2
    <3>4. phase' \in {"idle", "unwind"} /\ phase \in {"sources", "apt", "config", "packing"}
      BY <1>24, <3>1 DEF CommandFails, Goto, End
    <3>5. clean => ~calm
      BY <3>3, <3>4 DEF RunExact
    <3>. QED
      BY <3>2, <3>3, <3>4, <3>5 DEF RunExact, CleanExact
  <2>. QED
    BY <2>1, <2>2
<1>25. CASE UmountFails
  <2>1. UNCHANGED <<pkgs, account, clean, root, digest, fresh>> /\ ~calm'
    BY <1>25 DEF UmountFails, MayBreak, inputVars, runVars
  <2>2. phase' \in {"umount", "unwind", "config", "idle"} /\ phase \in {"umount", "unwind"}
    BY <1>25 DEF UmountFails, Goto, End
  <2>. QED
    BY <2>1, <2>2 DEF RunExact, CleanExact
<1>26. CASE Kill
  BY <1>26 DEF Kill, MayBreak, End, inputVars, outVars, hostVars, runVars, histVars, RunExact, Progress, CleanExact, Exact
<1>27. CASE EditPkgs
  BY <1>27 DEF EditPkgs, MayChange, inputVars, outVars, hostVars, runVars, histVars, RunExact, Progress, CleanExact, Exact
<1>28. CASE EditAccount
  BY <1>28 DEF EditAccount, MayChange, inputVars, outVars, hostVars, runVars, histVars, RunExact, Progress, CleanExact, Exact
<1>29. CASE Accept
  BY <1>29 DEF Accept, MayChange, inputVars, outVars, hostVars, runVars, histVars, RunExact, Progress, CleanExact, Exact
<1>30. CASE CleanOut
  BY <1>30 DEF CleanOut, MayChange, inputVars, outVars, hostVars, runVars, histVars, RunExact, Progress, CleanExact, Exact
<1>31. CASE Reboot
  BY <1>31 DEF Reboot, MayChange, inputVars, outVars, hostVars, runVars, histVars, RunExact, Progress, CleanExact, Exact
<1>32. CASE UNCHANGED vars
  BY <1>32 DEF vars, inputVars, outVars, hostVars, runVars, histVars, RunExact, Progress, CleanExact, Exact
<1>. QED
  BY <1>1, <1>2, <1>3, <1>4, <1>5, <1>6, <1>7, <1>8, <1>9, <1>10, <1>11, <1>12, <1>13, <1>14, <1>15, <1>16, <1>17, <1>18, <1>19, <1>20, <1>21, <1>22, <1>23, <1>24, <1>25, <1>26, <1>27, <1>28, <1>29, <1>30, <1>31, <1>32 DEF Next, Step, Others

\* A traced marker goes on telling what its tar holds.
LEMMA TellsStep ==
  ASSUME Revoked, RunExact, MarkerTells, [Next]_vars
  PROVE  MarkerTells'
<1>1. CASE \E c, r \in BOOLEAN : Start(c, r)
  BY <1>1 DEF Start, inputVars, outVars, hostVars, runVars, histVars, MarkerTells
<1>2. CASE Skip
  BY <1>2 DEF Skip, End, Frame, inputVars, outVars, hostVars, runVars, histVars, MarkerTells, RunExact
<1>3. CASE Adopt
  BY <1>3 DEF Adopt, End, Frame, inputVars, outVars, hostVars, runVars, histVars, MarkerTells, RunExact
<1>4. CASE DieStale
  BY <1>4 DEF DieStale, End, Frame, inputVars, outVars, hostVars, runVars, histVars, MarkerTells
<1>5. CASE Prepare
  BY <1>5, TarballConstants DEF Prepare, Goto, End, Frame, inputVars, outVars, hostVars, runVars, histVars, MarkerTells
<1>6. CASE RmTree
  BY <1>6 DEF RmTree, Goto, Frame, inputVars, outVars, hostVars, runVars, histVars, MarkerTells
<1>7. CASE RmTreeStuck
  BY <1>7 DEF RmTreeStuck, End, Frame, inputVars, outVars, hostVars, runVars, histVars, MarkerTells
<1>8. CASE Removed
  BY <1>8 DEF Removed, Goto, Frame, inputVars, outVars, hostVars, runVars, histVars, MarkerTells
<1>9. CASE Reuse
  BY <1>9 DEF Reuse, Goto, Frame, inputVars, outVars, hostVars, runVars, histVars, MarkerTells
<1>10. CASE Download
  BY <1>10 DEF Download, Goto, Frame, inputVars, outVars, hostVars, runVars, histVars, MarkerTells
<1>11. CASE MakeWork
  BY <1>11 DEF MakeWork, Goto, Frame, inputVars, outVars, hostVars, runVars, histVars, MarkerTells
<1>12. CASE Extract
  BY <1>12 DEF Extract, Goto, Frame, inputVars, outVars, hostVars, runVars, histVars, MarkerTells
<1>13. CASE Sources
  BY <1>13 DEF Sources, Goto, Frame, inputVars, outVars, hostVars, runVars, histVars, MarkerTells
<1>14. CASE BindMount
  BY <1>14 DEF BindMount, Goto, Frame, inputVars, outVars, hostVars, runVars, histVars, MarkerTells
<1>15. CASE CopyResolv
  BY <1>15 DEF CopyResolv, Goto, Frame, inputVars, outVars, hostVars, runVars, histVars, MarkerTells
<1>16. CASE AptInstall
  BY <1>16 DEF AptInstall, Goto, Frame, inputVars, outVars, hostVars, runVars, histVars, MarkerTells
<1>17. CASE CleanupMounts
  <2>1. UNCHANGED <<pkgs, tar, marker, traced, orphan>> /\ (phase' = "idle" => outcome' = "failed")
    BY <1>17 DEF CleanupMounts, Goto, End, Frame, inputVars, outVars, hostVars, runVars, histVars, Goto, End
  <2>. QED
    BY <2>1 DEF MarkerTells
<1>18. CASE CreateAccount
  BY <1>18 DEF CreateAccount, Goto, End, Frame, inputVars, outVars, hostVars, runVars, histVars, MarkerTells
<1>19. CASE Rk3588Hardening
  BY <1>19 DEF Rk3588Hardening, Goto, End, Frame, inputVars, outVars, hostVars, runVars, histVars, MarkerTells
<1>20. CASE PackTar
  BY <1>20, TarballConstants DEF PackTar, Goto, Frame, inputVars, outVars, hostVars, runVars, histVars, MarkerTells, Revoked
<1>21. CASE Packed
  BY <1>21, TarballConstants DEF Packed, Goto, Frame, inputVars, outVars, hostVars, runVars, histVars, MarkerTells, Revoked
<1>22. CASE OpenMark
  BY <1>22, TarballConstants DEF OpenMark, Goto, Frame, inputVars, outVars, hostVars, runVars, histVars, MarkerTells
<1>23. CASE Mark
  <2>1. ASSUME fresh, calm PROVE tar = Exact /\ digest = pkgs
    BY <1>23, <2>1 DEF Mark, RunExact, Progress
  <2>2. /\ marker' = digest /\ UNCHANGED <<tar, pkgs, calm>> /\ (traced' => fresh /\ calm)
        /\ phase = "marking"
    BY <1>23 DEF Mark, Frame, inputVars
  <2>3. calm => digest = pkgs
    BY <2>2 DEF RunExact
  <2>. QED
    BY <2>1, <2>2, <2>3 DEF MarkerTells, Exact
<1>24. CASE CommandFails
  <2>1. UNCHANGED <<pkgs, tar, marker, traced, orphan>> /\ (phase' = "idle" => outcome' = "failed")
    BY <1>24 DEF CommandFails, MayBreak, Goto, End, Frame, inputVars, outVars, hostVars, runVars, histVars, Goto, End
  <2>. QED
    BY <2>1 DEF MarkerTells
<1>25. CASE UmountFails
  <2>1. UNCHANGED <<pkgs, tar, marker, traced, orphan>> /\ (phase' = "idle" => outcome' = "failed")
    BY <1>25 DEF UmountFails, MayBreak, Goto, End, inputVars, outVars, hostVars, runVars, histVars, Goto, End
  <2>. QED
    BY <2>1 DEF MarkerTells
<1>26. CASE Kill
  BY <1>26 DEF Kill, MayBreak, End, inputVars, outVars, hostVars, runVars, histVars, MarkerTells
<1>27. CASE EditPkgs
  BY <1>27 DEF EditPkgs, MayChange, inputVars, outVars, hostVars, runVars, histVars, MarkerTells
<1>28. CASE EditAccount
  BY <1>28 DEF EditAccount, MayChange, inputVars, outVars, hostVars, runVars, histVars, MarkerTells
<1>29. CASE Accept
  BY <1>29, TarballConstants DEF Accept, MayChange, inputVars, outVars, hostVars, runVars, histVars, MarkerTells
<1>30. CASE CleanOut
  BY <1>30, TarballConstants DEF CleanOut, MayChange, inputVars, outVars, hostVars, runVars, histVars, MarkerTells
<1>31. CASE Reboot
  BY <1>31 DEF Reboot, MayChange, inputVars, outVars, hostVars, runVars, histVars, MarkerTells
<1>32. CASE UNCHANGED vars
  BY <1>32 DEF vars, inputVars, outVars, hostVars, runVars, histVars, MarkerTells
<1>. QED
  BY <1>1, <1>2, <1>3, <1>4, <1>5, <1>6, <1>7, <1>8, <1>9, <1>10, <1>11, <1>12, <1>13, <1>14, <1>15, <1>16, <1>17, <1>18, <1>19, <1>20, <1>21, <1>22, <1>23, <1>24, <1>25, <1>26, <1>27, <1>28, <1>29, <1>30, <1>31, <1>32 DEF Next, Step, Others

LEMMA InitInv == Init => IInv
<1>. SUFFICES ASSUME Init PROVE IInv
  OBVIOUS
<1>1. TypeOK
  BY InitTypes
<1>2. Revoked
  <2>1. tar # NoTar \/ marker = NoMark
    BY TarballConstants DEF Init, Tars, Sizes
  <2>. QED
    BY <2>1 DEF Init, Revoked
<1>3. MountsKnown
  <2>1. Zero
    BY DEF Init, Zero, PointNames
  <2>. QED
    BY <2>1 DEF Init, MountsKnown, OneLayer
<1>4. RunExact
  BY DEF Init, RunExact, CleanExact
<1>5. MarkerTells
  BY DEF Init, MarkerTells
<1>. QED
  BY <1>1, <1>2, <1>3, <1>4, <1>5 DEF IInv

LEMMA NextInv == IInv /\ [Next]_vars => IInv'
<1>. SUFFICES ASSUME IInv, [Next]_vars PROVE IInv'
  OBVIOUS
<1>1. FlagsOK /\ StateOK /\ Revoked /\ MountsKnown /\ RunExact /\ MarkerTells
  BY DEF IInv, TypeOK
<1>2. FlagsOK' /\ StateOK'
  BY <1>1, FlagsStep, StateStep
<1>3. Revoked' /\ MountsKnown'
  BY <1>1, RevokedStep, MountsStep
<1>4. RunExact' /\ MarkerTells'
  BY <1>1, ExactStep, TellsStep
<1>. QED
  BY <1>2, <1>3, <1>4 DEF IInv, TypeOK

-----------------------------------------------------------------------------
(* Theorems *)

\* The inductive invariant holds in every run.
THEOREM TarballInvariant == Spec => []IInv
<1>. QED
  BY InitInv, NextInv, PTL DEF Spec

\* Every variable keeps its type, and no step works on a work directory that
\* is not there (ubuntu_rootfs.py:146-166).
THEOREM TarballTypes == Spec => []TypeOK
<1>1. IInv => TypeOK
  BY DEF IInv
<1>. QED
  BY <1>1, TarballInvariant, PTL

\* A root's undisturbed --clean build gives exactly today's packages and
\* account, whatever was left before it (ubuntu_rootfs.py:150).
THEOREM TarballCleanExact == Spec => []CleanExact
<1>1. IInv => CleanExact
  BY DEF IInv, RunExact
<1>. QED
  BY <1>1, TarballInvariant, PTL

\* A skip over the tar of an undisturbed build, which no clean has parted from
\* its marker, is a skip over today's packages (ubuntu_rootfs.py:101-105).
THEOREM TarballSkipFresh == Spec => []SkipFresh
<1>1. IInv => SkipFresh
  <2>. SUFFICES ASSUME IInv, phase = "idle", outcome = "done", calm, traced, ~orphan
                PROVE  tar # NoTar /\ tar.copy = "whole" /\ tar.base = "whole"
                       /\ tar.pkgs = {pkgs} /\ tar.host = {}
    BY DEF SkipFresh
  <2>1. marker = pkgs /\ pkgs \in PkgLists
    BY DEF IInv, MarkerTells, TypeOK, StateOK
  <2>2. tar # NoTar /\ tar.copy = "whole"
    BY <2>1, TarballConstants DEF IInv, Revoked
  <2>3. tar.base = "whole" /\ tar.pkgs = {marker} /\ tar.host = {}
    BY <2>1 DEF IInv, MarkerTells
  <2>. QED
    BY <2>1, <2>2, <2>3
<1>. QED
  BY <1>1, TarballInvariant, PTL

\* Nothing of the host is left mounted, and its /dev is whole, unless a run
\* ended between its mounts and their clean-up (ubuntu_rootfs.py:188-206).
THEOREM TarballHostApart == Spec => []HostApart
<1>1. IInv => HostApart
  <2>. SUFFICES ASSUME IInv, ~stranded PROVE ~hurt /\ (phase = "idle" => Mounted = {})
    BY DEF HostApart
  <2>1. OneLayer /\ ~hurt /\ mounts \in [PointNames -> Nat]
    BY DEF IInv, MountsKnown, TypeOK, StateOK
  <2>. QED
    BY <2>1, MountedIs DEF OneLayer
<1>. QED
  BY <1>1, TarballInvariant, PTL

-----------------------------------------------------------------------------
(* The marker protocol implements Cache *)

LEMMA CopyIs ==
  ASSUME tar \in Tars \cup {NoTar}
  PROVE  TarCopy \in C!Copies /\ (tar # NoTar /\ tar.copy = "whole" => TarCopy = "whole")
<1>1. CASE tar = NoTar
  BY <1>1 DEF TarCopy, C!Copies
<1>2. CASE tar # NoTar
  <2>1. tar.copy \in Sizes
    BY <1>2 DEF Tars
  <2>. QED
    BY <1>2, <2>1 DEF TarCopy, C!Copies, Sizes
<1>. QED
  BY <1>1, <1>2

\* A step that touches neither the tar nor the marker stutters; the others
\* revoke, rewrite, vouch or discard.
LEMMA StepImplements ==
  ASSUME IInv, IInv', [Next]_vars
  PROVE  [C!Next]_(C!cacheVars)
<1>1. ASSUME tar' = tar, marker' = marker, orphan' = orphan PROVE UNCHANGED C!cacheVars
  BY <1>1 DEF C!cacheVars, TarCopy
<1>2. /\ (tar # NoTar /\ tar.copy = "whole" => TarCopy = "whole")
      /\ TarCopy' \in C!Copies
      /\ marker # NoMark /\ orphan = FALSE => tar # NoTar /\ tar.copy = "whole"
      /\ phase \in {"mark", "marking"} => tar # NoTar /\ tar.copy = "whole"
      /\ digest \in PkgLists /\ orphan \in BOOLEAN
  <2>1. tar \in Tars \cup {NoTar} /\ digest \in PkgLists /\ orphan \in BOOLEAN
    BY DEF IInv, TypeOK, StateOK, FlagsOK
  <2>2. tar' \in Tars \cup {NoTar}
    BY DEF IInv, TypeOK, StateOK
  <2>3. TarCopy' \in C!Copies
    <3>1. tar' = NoTar \/ (tar' # NoTar /\ tar'.copy \in Sizes)
      BY <2>2 DEF Tars
    <3>. QED
      BY <3>1 DEF TarCopy, C!Copies, Sizes
  <2>. QED
    BY <2>1, <2>3, CopyIs DEF IInv, Revoked
<1>3. CASE Adopt \/ Accept
  <2>1. /\ marker # NoMark /\ marker' \in PkgLists \cup {Empty}
        /\ tar' = tar /\ orphan' = orphan
    BY <1>2, <1>3 DEF Adopt, Accept, Cached
  <2>2. CASE orphan = FALSE
    BY <1>2, <2>1, <2>2 DEF C!Next, C!Vouch, TarCopy
  <2>3. CASE orphan = TRUE
    BY <2>1, <2>3 DEF C!Next, C!Renew, TarCopy
  <2>. QED
    BY <1>2, <2>2, <2>3
<1>4. CASE Prepare
  <2>1. CASE clean
    BY <1>4, <2>1 DEF Prepare, C!Next, C!Revoke, TarCopy
  <2>2. CASE ~clean
    <3>1. tar' = tar /\ marker' = marker /\ orphan' = orphan
      BY <1>2, <1>4, <2>2 DEF Prepare
    <3>. QED
      BY <1>1, <3>1
  <2>. QED
    BY <2>1, <2>2
<1>5. CASE PackTar \/ Packed
  <2>1. (marker = NoMark \/ orphan) /\ marker' = marker /\ orphan' = orphan
    BY <1>5 DEF PackTar, Packed, IInv, Revoked
  <2>. QED
    BY <1>2, <2>1 DEF C!Next, C!Rewrite
<1>6. CASE OpenMark \/ Mark
  <2>1. /\ tar' = tar /\ marker' \in PkgLists \cup {Empty} /\ tar # NoTar /\ tar.copy = "whole"
        /\ orphan' \in {orphan, FALSE}
    BY <1>2, <1>6 DEF OpenMark, Mark
  <2>. QED
    BY <1>2, <2>1 DEF C!Next, C!Vouch, TarCopy
<1>7. CASE CleanOut
  <2>1. /\ TarCopy' \in {TarCopy, "none"} /\ marker' \in {marker, NoMark}
        /\ orphan' = (marker' # NoMark /\ (orphan \/ tar' = NoTar))
    BY <1>7 DEF CleanOut, TarCopy
  <2>2. tar' = NoTar <=> TarCopy' = "none"
    BY <1>2 DEF TarCopy, IInv, TypeOK, StateOK, Tars, Sizes
  <2>. QED
    BY <2>1, <2>2 DEF C!Next, C!Discard
<1>8. ASSUME ~(Adopt \/ Accept), ~Prepare, ~(PackTar \/ Packed), ~(OpenMark \/ Mark), ~CleanOut
      PROVE  tar' = tar /\ marker' = marker /\ orphan' = orphan
  <2>1. CASE \E c, r \in BOOLEAN : Start(c, r)
    BY <2>1 DEF Start, outVars
  <2>2. CASE Skip \/ DieStale \/ Reuse \/ Sources \/ CopyResolv \/ BindMount \/ CleanupMounts
    BY <2>2 DEF Skip, DieStale, Reuse, Sources, CopyResolv, BindMount, CleanupMounts, outVars
  <2>3. CASE \/ RmTree \/ RmTreeStuck \/ Removed \/ Download \/ MakeWork \/ Extract
             \/ AptInstall \/ CreateAccount \/ Rk3588Hardening
    BY <2>3 DEF RmTree, RmTreeStuck, Removed, Download, MakeWork, Extract, AptInstall,
       CreateAccount, Rk3588Hardening
  <2>4. CASE CommandFails \/ UmountFails \/ Kill
    BY <2>4 DEF CommandFails, UmountFails, Kill, outVars
  <2>5. CASE EditPkgs \/ EditAccount \/ Reboot
    BY <2>5 DEF EditPkgs, EditAccount, Reboot, outVars
  <2>6. CASE UNCHANGED vars
    BY <2>6 DEF vars, outVars, histVars
  <2>. QED
    BY <1>8, <2>1, <2>2, <2>3, <2>4, <2>5, <2>6 DEF Next, Step, Others
<1>. QED
  BY <1>1, <1>3, <1>4, <1>5, <1>6, <1>7, <1>8

\* The builder keeps the promise of a stamped product: a marker that no clean
\* has parted from its tar stands over a whole one, is revoked before the tar
\* is rewritten, and comes back last (ubuntu_rootfs.py:98-124, 170-175).
THEOREM TarballKeepsPromise == Spec => KeepsPromise
<1>1. Init => C!Init
  <2>. SUFFICES ASSUME Init PROVE C!Init
    OBVIOUS
  <2>1. IInv
    BY InitInv
  <2>2. TarCopy \in C!Copies /\ (tar # NoTar /\ tar.copy = "whole" => TarCopy = "whole")
    BY <2>1, CopyIs DEF IInv, TypeOK, StateOK
  <2>3. marker \in PkgLists \cup {NoMark, Empty} /\ (marker # NoMark => tar # NoTar /\ tar.copy = "whole")
        /\ orphan = FALSE
    BY <2>1 DEF Init, IInv, TypeOK, StateOK, Revoked
  <2>. QED
    BY <2>2, <2>3 DEF C!Init, C!Trusted
<1>2. IInv /\ IInv' /\ [Next]_vars => [C!Next]_(C!cacheVars)
  BY StepImplements
<1>. QED
  BY <1>1, <1>2, TarballInvariant, PTL DEF Spec, C!Spec, KeepsPromise

=============================================================================
