------------------------------- MODULE Setup -------------------------------
(***************************************************************************)
(* `forge setup` on one patched tree (dag.py, core/patch.py, fetch/): clone *)
(* the tree at its pin, drop the WiFi driver into it, and replay the board's *)
(* patch series with `git am`, unless the digest kept from the last apply   *)
(* still matches.  `forge fetch` and `forge apply` run parts of it by hand. *)
(*                                                                          *)
(* A patch is <<name, text>>, a text a small number (0: the file is gone).  *)
(* The tree is the commit it grew from and the patches applied since.       *)
(***************************************************************************)
EXTENDS Naturals, Sequences

CONSTANTS
  Patches,   \* the patch file names
  MaxText,   \* the last text of a patch file
  Bad,       \* the <<commit, name, text>> of patches `git am` rejects on it
  Lists,     \* what the series file may hold: sequences of names
  NoSeries,  \* the member of Lists that stands for "there is no series file"
  Pins,      \* the refs the sources: entry may name
  Tip,       \* the upstream default branch
  NoTree, NoDigest,
  Commands,  \* the commands run: a subset of {"setup", "fetch", "apply", "check"}
  Forcible,  \* the values of --force
  Changes,   \* what people do: "edit", "list", "pin", "refetch", "work", "clean"
  MaxBreaks, MaxChanges

ASSUME SetupConstants ==
  /\ MaxText \in Nat \ {0} /\ MaxBreaks \in Nat /\ MaxChanges \in Nat
  /\ Lists \subseteq Seq(Patches) \cup {NoSeries}
  /\ NoSeries \notin Seq(Patches)
  /\ Tip \notin Pins
  /\ Forcible \subseteq BOOLEAN
  /\ Commands \subseteq {"setup", "fetch", "apply", "check"}
  \* A series names a patch once.
  /\ \A l \in Lists \ {NoSeries} : \A i, j \in 1..Len(l) : l[i] = l[j] => i = j

Texts == 0..MaxText

Entries == Patches \X Texts

Trees == [at : Pins \cup {Tip}, applied : Seq(Entries)]

Digests == [base : Pins, patches : Seq(Entries)]

ASSUME NoneIsNone == NoTree \notin Trees /\ NoDigest \notin Digests

VARIABLES
  \* ---- the board's files
  list, text,    \* the series file and the patch files it may name
  pin,           \* the ref of the sources: entry
  \* ---- the tree
  tree,          \* where HEAD is; NoTree before the clone
  known,         \* the refs the clone can resolve
  busy,          \* .git/rebase-apply is there: an unfinished `git am`
  work,          \* uncommitted or untracked files of a person
  drop,          \* the driver drop: "none", "clone" (no marker yet) or "marked"
  excluded,      \* .git/info/exclude hides the drop
  \* ---- out/<board>/
  kept,          \* the digest in apply-<component>.fingerprint
  \* ---- the forge process
  cmd, phase, force,
  todo,          \* the listed patches still to apply
  pre,           \* pre_head: the HEAD apply started from
  digest,        \* the digest computed before the replay
  \* ---- history
  outcome,       \* how the last command ended
  calm,          \* nobody else changed anything since it began
  trust,         \* no replay was cut, no tree came half-cloned, no patch was
                 \* applied by hand and the pin stayed since the last apply
  snag,          \* the driver fetch was cut after its marker
  breaks, changes

boardVars == <<list, text, pin>>
treeVars == <<tree, known, busy, work, drop, excluded>>
procVars == <<cmd, phase, force, todo, pre, digest>>
histVars == <<outcome, calm, trust, snag>>
vars == <<boardVars, treeVars, kept, procVars, histVars, breaks, changes>>

HasSeries == list # NoSeries

\* The listed patches with the texts they have now.
Series == IF HasSeries THEN [i \in 1..Len(list) |-> <<list[i], text[list[i]]>>] ELSE <<>>

\* Mutant: the digest hashes the series file and not the patches.
SeriesFileDigest == [base |-> pin, patches |-> [i \in 1..Len(Series) |-> <<list[i], 1>>]]

SeriesDigest == [base |-> pin, patches |-> Series]

Clean(t, base) == t = [at |-> base, applied |-> <<>>]

Exact == tree = [at |-> pin, applied |-> Series]

-----------------------------------------------------------------------------

Init ==
  /\ list \in Lists
  /\ text = [p \in Patches |-> 1]
  /\ pin \in Pins
  /\ tree = NoTree
  /\ known = {}
  /\ busy = FALSE
  /\ work = FALSE
  /\ drop = "none"
  /\ excluded = FALSE
  /\ kept = NoDigest
  /\ cmd = "none"
  /\ phase = "idle"
  /\ force = FALSE
  /\ todo = <<>>
  /\ pre = NoTree
  /\ digest = NoDigest
  /\ outcome = "none"
  /\ calm = FALSE
  /\ trust = FALSE
  /\ snag = FALSE
  /\ breaks = 0
  /\ changes = 0

\* `forge apply` begins with the series, the other commands with the fetch.
FirstPhase(c) == IF c \in {"apply", "check"} THEN "start" ELSE "fetch"

Start(c, f) ==
  /\ phase = "idle"
  /\ c \in {"apply", "check"} => tree # NoTree /\ ~f
  /\ cmd' = c
  /\ phase' = FirstPhase(c)
  /\ force' = f
  /\ outcome' = "none"
  /\ calm' = TRUE
  /\ UNCHANGED <<boardVars, treeVars, kept, todo, pre, digest, trust, snag, breaks, changes>>

\* The end of a command: "done", "failed" (die) or "killed".
End(how) == phase' = "idle" /\ outcome' = how

Goto(where) == phase' = where /\ UNCHANGED outcome

\* Mutant: the clone is left on the default branch.
FetchDefault ==
  /\ phase = "fetch"
  /\ Goto("driver")
  /\ IF tree # NoTree
     THEN UNCHANGED treeVars
     ELSE /\ tree' = [at |-> Tip, applied |-> <<>>]
          /\ known' = {Tip}
          /\ busy' = FALSE
          /\ work' = FALSE
          /\ drop' = "none"
          /\ excluded' = FALSE
  /\ UNCHANGED <<boardVars, kept, cmd, force, todo, pre, digest, calm, trust, snag, breaks, changes>>

\* A tree that is there is kept as it is; a clone at a named ref knows only it.
Fetch ==
  /\ phase = "fetch"
  /\ Goto("driver")
  /\ IF tree # NoTree
     THEN UNCHANGED treeVars
     ELSE /\ tree' = [at |-> pin, applied |-> <<>>]
          /\ known' = {pin}
          /\ busy' = FALSE
          /\ work' = FALSE
          /\ drop' = "none"
          /\ excluded' = FALSE
  /\ UNCHANGED <<boardVars, kept, cmd, force, todo, pre, digest, calm, trust, snag, breaks, changes>>

\* `forge fetch` ends with the driver drop, setup goes on to the series.
AfterDriver == IF cmd = "setup" THEN Goto("check") ELSE End("done")

\* The marker makes the driver fetch a no-op, unless --force.
Driver ==
  /\ phase = "driver"
  /\ IF drop = "marked" /\ ~force
     THEN UNCHANGED <<drop, excluded, snag>>
     ELSE drop' = "marked" /\ excluded' = TRUE /\ snag' = FALSE
  /\ AfterDriver
  /\ UNCHANGED <<boardVars, tree, known, busy, work, kept, cmd, force, todo, pre, digest,
                 calm, trust, breaks, changes>>

\* Mutant: a skip on the digest alone, without the look at HEAD.
SkipOnDigest ==
  /\ ~force
  /\ kept = SeriesDigest

\* The skip guard of _apply_series.
SkipGuard ==
  /\ ~force
  /\ kept = SeriesDigest
  /\ ~Clean(tree, pin)

\* _apply_series up to the reset.
Check ==
  /\ phase = "check"
  /\ digest' = IF HasSeries /\ pin \in known THEN SeriesDigest ELSE digest
  /\ IF ~HasSeries THEN End("done")
     ELSE IF pin \notin known THEN End("failed")
     ELSE IF SkipGuard THEN End("done")
     ELSE Goto("reset")
  /\ UNCHANGED <<boardVars, treeVars, kept, cmd, force, todo, pre, calm, trust, snag, breaks, changes>>

\* `git reset --hard` moves HEAD and leaves .git/rebase-apply alone.
Reset ==
  /\ phase = "reset"
  /\ tree' = [at |-> digest.base, applied |-> <<>>]
  /\ Goto("clean")
  /\ UNCHANGED <<boardVars, known, busy, work, drop, excluded, kept, cmd, force, todo, pre,
                 digest, calm, trust, snag, breaks, changes>>

\* Mutant: `git clean -fdxq` takes the ignored files as well.
CleanIgnored ==
  /\ work' = FALSE
  /\ drop' = IF drop = "marked" THEN "none" ELSE drop

\* `git clean -fdq` removes what is untracked and not ignored; it steps around
\* a drop that still has its own .git.
CleanWorktree ==
  /\ work' = FALSE
  /\ drop' = IF drop = "marked" /\ ~excluded THEN "none" ELSE drop

CleanTree ==
  /\ phase = "clean"
  /\ CleanWorktree
  /\ Goto("start")
  /\ UNCHANGED <<boardVars, tree, known, busy, excluded, kept, cmd, force, todo, pre, digest,
                 calm, trust, snag, breaks, changes>>

\* What follows a PatchApplier.apply that returns.
Applied == IF cmd = "setup" THEN Goto("record") ELSE End("done")

\* The series is parsed once; an absent or empty one is a warning.
StartApply ==
  /\ phase = "start"
  /\ IF HasSeries /\ list # <<>>
     THEN pre' = tree /\ todo' = list /\ Goto("am")
     ELSE Applied /\ pre' = tree /\ todo' = <<>>
  /\ UNCHANGED <<boardVars, treeVars, kept, cmd, force, digest, calm, trust, snag, breaks, changes>>

AmCommits(p) ==
  /\ ~busy
  /\ text[p] # 0
  /\ <<tree.at, p, text[p]>> \notin Bad

\* One `git am --3way`: a commit, nothing when the tree has the patch already,
\* or a failure, which a patch of that name or a person's files may also cause.
Am ==
  /\ phase = "am"
  /\ todo # <<>>
  /\ LET p == Head(todo)
         e == <<p, text[p]>>
         there == \E i \in 1..Len(tree.applied) : tree.applied[i][1] = p
     IN \/ /\ AmCommits(p)
           /\ tree' = [tree EXCEPT !.applied =
                         IF \E i \in 1..Len(@) : @[i] = e THEN @ ELSE Append(@, e)]
           /\ todo' = Tail(todo)
           /\ UNCHANGED <<busy, phase>>
        \/ /\ ~AmCommits(p) \/ there \/ work
           /\ busy' = (busy \/ text[p] # 0)
           /\ phase' = "rollback"
           /\ UNCHANGED <<tree, todo>>
  /\ UNCHANGED <<boardVars, known, work, drop, excluded, kept, cmd, force, pre, digest,
                 histVars, breaks, changes>>

AmDone ==
  /\ phase = "am"
  /\ todo = <<>>
  /\ IF cmd = "check" THEN Goto("revert") ELSE Applied
  /\ trust' = (trust /\ cmd # "apply")
  /\ UNCHANGED <<boardVars, treeVars, kept, cmd, force, todo, pre, digest, calm, snag, breaks, changes>>

\* Mutant: no `git am --abort`.
RollbackNoAbort ==
  /\ phase \in {"rollback", "revert"}
  /\ tree' = pre
  /\ CleanWorktree
  /\ End(IF phase = "rollback" THEN "failed" ELSE "done")
  /\ UNCHANGED <<boardVars, known, busy, excluded, kept, cmd, force, todo, pre, digest,
                 calm, trust, snag, breaks, changes>>

\* _rollback, with `git am --abort` first when a patch failed.
Rollback ==
  /\ phase \in {"rollback", "revert"}
  /\ tree' = pre
  /\ busy' = IF phase = "rollback" THEN FALSE ELSE busy
  /\ CleanWorktree
  /\ End(IF phase = "rollback" THEN "failed" ELSE "done")
  /\ UNCHANGED <<boardVars, known, excluded, kept, cmd, force, todo, pre, digest,
                 calm, trust, snag, breaks, changes>>

\* The digest computed before the replay is what is kept.
Record ==
  /\ phase = "record"
  /\ kept' = digest
  /\ trust' = calm
  /\ End("done")
  /\ UNCHANGED <<boardVars, treeVars, cmd, force, todo, pre, digest, calm, snag, breaks, changes>>

-----------------------------------------------------------------------------
(* Failures.                                                               *)

\* The network gives up, or the clone is cut: nothing, or a full clone that was
\* not yet checked out at the pin, whether the pin is in it or not.
CutFetch ==
  /\ phase = "fetch"
  /\ tree = NoTree
  /\ \/ UNCHANGED <<tree, known, trust>>
     \/ /\ tree' = [at |-> Tip, applied |-> <<>>]
        /\ known' \in {{}, {pin}}
        /\ trust' = FALSE
  /\ UNCHANGED <<drop, snag, busy>>

\* Killed in the driver fetch: rmtree or clone unfinished, or the marker is
\* written and the exclude entry is not.
CutDriver ==
  /\ phase = "driver"
  /\ drop = "marked" => force
  /\ \/ drop' \in {"none", "clone"} /\ UNCHANGED snag
     \/ drop' = "marked" /\ snag' = ~excluded
  /\ UNCHANGED <<tree, known, trust, busy>>

\* Killed in `git am`: the session is left behind, with or without the commit.
CutAm ==
  /\ phase = "am"
  /\ todo # <<>>
  /\ AmCommits(Head(todo))
  /\ busy' = TRUE
  /\ trust' = FALSE
  /\ tree' \in {tree, [tree EXCEPT !.applied = Append(@, <<Head(todo), text[Head(todo)]>>)]}
  /\ UNCHANGED <<known, drop, snag>>

\* Killed between two steps.
CutBetween ==
  /\ trust' = (trust /\ phase \notin {"am", "rollback", "revert", "record"})
  /\ UNCHANGED <<tree, known, busy, drop, snag>>

Break ==
  /\ phase # "idle"
  /\ breaks < MaxBreaks
  /\ CutFetch \/ CutDriver \/ CutAm \/ CutBetween
  /\ End("killed")
  /\ breaks' = breaks + 1
  /\ UNCHANGED <<boardVars, work, excluded, kept, cmd, force, todo, pre, digest, calm, changes>>

-----------------------------------------------------------------------------
(* People, at any moment.                                                  *)

Change(what) ==
  /\ what \in Changes
  /\ changes < MaxChanges
  /\ changes' = changes + 1
  /\ calm' = FALSE
  /\ UNCHANGED <<procVars, outcome, breaks>>

\* A patch file gets another text, or is lost.
EditPatch(p, v) ==
  /\ Change("edit")
  /\ v # text[p]
  /\ text' = [text EXCEPT ![p] = v]
  /\ UNCHANGED <<list, pin, treeVars, kept, trust, snag>>

EditSeries(l) ==
  /\ Change("list")
  /\ l # list
  /\ list' = l
  /\ UNCHANGED <<text, pin, treeVars, kept, trust, snag>>

\* The sources: entry names another ref, which the clone may know by then.
Repin(r) ==
  /\ Change("pin")
  /\ r # pin
  /\ pin' = r
  /\ known' \in {known, known \cup {r}}
  /\ trust' = FALSE
  /\ UNCHANGED <<list, text, tree, busy, work, drop, excluded, kept, snag>>

\* `rm -rf` of the tree; the fingerprint in out/ survives it.
Refetch ==
  /\ Change("refetch")
  /\ phase = "idle"
  /\ tree # NoTree
  /\ tree' = NoTree
  /\ known' = {}
  /\ busy' = FALSE
  /\ work' = FALSE
  /\ drop' = "none"
  /\ excluded' = FALSE
  /\ snag' = FALSE
  /\ UNCHANGED <<boardVars, kept, trust>>

Work ==
  /\ Change("work")
  /\ tree # NoTree
  /\ ~work
  /\ work' = TRUE
  /\ UNCHANGED <<boardVars, tree, known, busy, drop, excluded, kept, trust, snag>>

\* `forge clean` removes out/<board>/, the fingerprint with it.
ForgeClean ==
  /\ Change("clean")
  /\ phase = "idle"
  /\ kept # NoDigest
  /\ kept' = NoDigest
  /\ UNCHANGED <<boardVars, treeVars, trust, snag>>

-----------------------------------------------------------------------------

Forge ==
  \/ Fetch \/ Driver \/ Check \/ Reset \/ CleanTree
  \/ StartApply \/ Am \/ AmDone \/ Rollback \/ Record

Next ==
  \/ \E c \in Commands, f \in Forcible : Start(c, f)
  \/ Forge
  \/ Break
  \/ \E p \in Patches, v \in Texts : EditPatch(p, v)
  \/ \E l \in Lists : EditSeries(l)
  \/ \E r \in Pins : Repin(r)
  \/ Refetch \/ Work \/ ForgeClean

Spec == Init /\ [][Next]_vars

\* A command that was started goes on; whether one is started is up to people.
FairSpec == Spec /\ WF_vars(Forge)

-----------------------------------------------------------------------------
(* Properties.                                                             *)

FlagsOK ==
  /\ busy \in BOOLEAN
  /\ work \in BOOLEAN
  /\ excluded \in BOOLEAN
  /\ force \in BOOLEAN
  /\ calm \in BOOLEAN
  /\ trust \in BOOLEAN
  /\ snag \in BOOLEAN

StateOK ==
  /\ list \in Lists
  /\ text \in [Patches -> Texts]
  /\ pin \in Pins
  /\ tree \in Trees \cup {NoTree}
  /\ known \subseteq Pins
  /\ drop \in {"none", "clone", "marked"}
  /\ kept \in Digests \cup {NoDigest}
  /\ cmd \in {"none", "setup", "fetch", "apply", "check"}
  /\ phase \in {"idle", "fetch", "driver", "check", "reset", "clean", "start",
                "am", "rollback", "revert", "record"}
  /\ todo \in Seq(Patches)
  /\ pre \in Trees \cup {NoTree}
  /\ digest \in Digests \cup {NoDigest}
  /\ outcome \in {"none", "done", "failed", "killed"}
  /\ breaks \in Nat /\ changes \in Nat

\* The shape of the state.
TypeOK == FlagsOK /\ StateOK

Replaying == phase \in {"am", "rollback", "revert", "record"}

\* The digest and the moved HEAD together are evidence: when both let setup
\* skip, the tree is the pin with the whole series as it stands now, through
\* edits, re-clones, failed applies, dry runs and `forge clean`.
SkipSound ==
  trust /\ ~Replaying /\ HasSeries /\ tree # NoTree
    /\ kept = SeriesDigest /\ ~Clean(tree, pin)
  => Exact

SetupDone == cmd = "setup" /\ outcome = "done" /\ calm /\ HasSeries

\* A setup that reports success leaves exactly pin + series, in order, none
\* missing and none twice, whatever state it found the tree in.
SetupDelivers == SetupDone /\ trust => Exact

\* A failed apply and a dry run put HEAD back where it was, and end the `git am`
\* session: also one a killed command had left.
RollsBack ==
  /\ outcome = "failed" /\ calm /\ cmd \in {"apply", "check"} => tree = pre /\ ~busy
  /\ outcome = "done" /\ calm /\ cmd = "check" => tree = pre
  /\ outcome = "failed" /\ calm /\ cmd = "setup" /\ pin \in known =>
       Clean(tree, pin) /\ ~busy

\* The driver dropped before the replay is still there after it: reset and
\* clean never take it.
DriverStays == SetupDone /\ ~snag => drop = "marked"

\* The series can be applied: every patch is there and fits the pin.
Applicable ==
  /\ HasSeries
  /\ pin \in known
  /\ \A i \in 1..Len(list) : text[list[i]] # 0 /\ <<pin, list[i], text[list[i]]>> \notin Bad

\* Running setup again and again gets there, whatever was killed before: a
\* left-over `git am` costs one failed run and never wedges the tree.
Converges ==
  []<>(cmd = "setup" /\ phase = "fetch") /\ <>[]Applicable => <>[]Exact

-----------------------------------------------------------------------------
(* The inductive invariant behind the safety properties.                   *)

\* Where a command can be, and what it has by then.
PhaseInv ==
  /\ phase # "idle" => outcome = "none"
  /\ phase \in {"fetch", "driver"} => cmd \in {"setup", "fetch"}
  /\ phase \in {"check", "reset", "clean", "record"} => cmd = "setup"
  /\ phase \in {"start", "am", "rollback"} => cmd \in {"setup", "apply", "check"}
  /\ phase = "revert" => cmd = "check"
  /\ phase \notin {"idle", "fetch"} => tree # NoTree
  /\ phase \in {"am", "rollback", "revert"} => pre # NoTree
  /\ phase \in {"reset", "clean", "start", "am", "rollback", "record"} /\ cmd = "setup" =>
       digest # NoDigest /\ (trust \/ calm => digest.base = pin)

\* What a kept digest says of a tree while it can be trusted.
Told(t) ==
  kept # NoDigest =>
    /\ kept.base = pin
    /\ t = NoTree \/ Clean(t, pin) \/ t = [at |-> pin, applied |-> kept.patches]

TrustInv ==
  /\ trust /\ ~Replaying => Told(tree)
  /\ trust /\ phase \in {"am", "rollback", "revert"} => Told(pre)

\* The tree has the first patches of the series and todo is the rest.
Halfway ==
  /\ tree.at = pin
  /\ Len(tree.applied) + Len(todo) = Len(list)
  /\ \A i \in 1..Len(tree.applied) : tree.applied[i] = <<list[i], text[list[i]]>>
  /\ \A i \in 1..Len(todo) : todo[i] = list[Len(tree.applied) + i]

ReplayInv ==
  cmd = "setup" /\ calm =>
    /\ phase \in {"reset", "clean", "start", "am", "rollback", "record"} =>
         HasSeries /\ pin \in known /\ digest = SeriesDigest
    /\ phase \in {"clean", "start"} => Clean(tree, pin)
    /\ phase \in {"am", "rollback"} => Clean(pre, pin)
    /\ phase = "am" => Halfway
    /\ phase = "record" => Exact

DropInv ==
  /\ drop = "marked" /\ ~excluded => snag
  /\ phase \in {"check", "reset", "clean", "start", "am", "rollback", "record"}
       /\ cmd = "setup" /\ calm /\ ~snag => drop = "marked"

SetupInv ==
  /\ TypeOK /\ PhaseInv /\ TrustInv /\ ReplayInv /\ DropInv
  /\ SetupDelivers /\ RollsBack /\ DriverStays

-----------------------------------------------------------------------------
(* What the docs say of setup and apply.                                   *)

\* dag.py:122-126: the skip guard, with its sanity check on HEAD, covers a tree
\* re-fetched while the fingerprint survived, so setup leaves the series.
SetupAppliesSeries == SetupDone => Exact

\* fetch/driver.py:19-21: the drop is idempotent and there for the wire patch.
DriverThere == SetupDone => drop = "marked"
=============================================================================
