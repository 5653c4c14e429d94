------------------------------- MODULE Stage -------------------------------
(***************************************************************************)
(* Content-hash stage skipping (forge/core/stage.py) under the sequential  *)
(* orchestrator that drives it (forge/core/dag.py), for an arbitrary graph *)
(* of steps.  A step reads files, writes files and is skipped when the     *)
(* fingerprint kept from its last run equals the one computed now.  The    *)
(* module Dag gives the graphs of the real boards.                         *)
(*                                                                         *)
(* Content is abstracted to provenance: the content of an artefact is the  *)
(* set of <<source, version>> pairs it was made from, so an artefact is    *)
(* stale when it holds a version its source no longer has.  A half-written *)
(* artefact holds the pair <<itself, 0>>, which no rebuild produces.       *)
(***************************************************************************)
EXTENDS Naturals, Sequences, FiniteSets

CONSTANTS
  Steps,      \* what the orchestrator runs: a stage name with its action
  Names,      \* stage names; each has a record file <name>.fingerprint
  Sources,    \* files written by people and by `forge build`
  Outputs,    \* files written by steps
  Name,       \* Name[s]: the stage name step s is recorded under
  Listed,     \* Listed[s]: the inputs dag.py passes to Stage.run for s
  Opaque,     \* directory inputs without a file the find filter keeps
  Needs,      \* Needs[w]: the files the action writing w reads for it
  Writes,     \* Writes[s]: the artefacts the action of s writes
  Shipped,    \* the artefacts a fresh checkout already holds
  OutDir,     \* the files below out/<board>/, removed by `forge clean`
  Built,      \* the sources `forge clean --full` removes (mrproper)
  Commands,   \* the step sequences of the orchestration commands
  Leaves,     \* Leaves[s]: what the leaf commands of s may read, one table
              \* like Needs for every choice of their own flags
  Editable,   \* the sets of sources one edit or build rewrites together
  Cuts,       \* what an interrupted `forge clean` may have removed
  Forcible,   \* the values the --force / --no-skip flags take
  MaxEdits, MaxQuiet, MaxRuns, MaxBreaks  \* bounds of the instance

Files == Sources \cup Outputs \cup Names

Reads(s) == UNION {Needs[w] : w \in Writes[s]}

\* A directory input contributes only the files the find filter keeps, and a
\* missing input contributes nothing.
Watched(s) == Listed[s] \ Opaque

ASSUME Disjoint ==
  /\ Sources \cap Outputs = {}
  /\ Sources \cap Names = {}
  /\ Outputs \cap Names = {}

ASSUME GraphType ==
  /\ Name \in [Steps -> Names]
  /\ Listed \in [Steps -> SUBSET Files]
  /\ Needs \in [Outputs -> SUBSET (Sources \cup Outputs)]
  /\ Writes \in [Steps -> SUBSET Outputs]
  /\ Opaque \subseteq Outputs \cup Sources
  /\ Shipped \subseteq Outputs
  /\ OutDir \subseteq Sources \cup Outputs
  /\ Built \subseteq Sources
  /\ Editable \subseteq SUBSET Sources
  /\ Cuts \subseteq SUBSET (OutDir \cup Names)
  /\ Leaves \in [Steps -> SUBSET [Outputs -> SUBSET (Sources \cup Outputs)]]
  /\ Forcible \subseteq BOOLEAN
  /\ Commands \subseteq Seq(Steps) \ {<<>>}

\* A command lists its steps in dependency order, each once: no step writes
\* what an earlier one, or itself, reads or lists.
ASSUME Ordered ==
  /\ \A s \in Steps : Writes[s] \cap (Listed[s] \cup Reads(s)) = {}
                      /\ Name[s] \notin Listed[s]
  /\ \A c \in Commands : \A i, j \in 1..Len(c) : i < j =>
       /\ Name[c[i]] # Name[c[j]]
       /\ Writes[c[j]] \cap (Listed[c[i]] \cup Reads(c[i])) = {}
       /\ Name[c[j]] \notin Listed[c[i]]

ASSUME Bounds ==
  /\ MaxEdits \in Nat
  /\ MaxQuiet \in Nat
  /\ MaxRuns \in Nat
  /\ MaxBreaks \in Nat

VARIABLES
  \* ---- the file system
  stamp,     \* stamp[f]: the (size, mtime) of file f; 0 when it is absent
  ver,       \* ver[x]: the version of source x
  made,      \* made[w]: what artefact w was made from
  recorded,  \* the names with a whole record file
  record,    \* record[n]: the fingerprint kept in n's record file
  clock,     \* the last stamp given
  \* ---- the forge process
  cmd, pos,  \* the steps of the last command and the one it is at
  phase,     \* "idle", or where Stage.run is: "check", "act", "mark"
  force,     \* --force or --no-skip
  leaf,      \* a leaf command: the action alone, outside Stage.run
  from,      \* from[w]: the files the running command reads to make w
  \* ---- history
  calm,      \* no source changed since the command began
  taint,     \* steps whose matching record is known to vouch for nothing
  missing,   \* the last command died of an absent input
  edits, quiet, runs, breaks   \* counters of the bounded events

fileVars == <<stamp, ver, made, recorded, record, clock>>
procVars == <<cmd, pos, phase, force, leaf, from>>
counters == <<edits, quiet, runs, breaks>>
vars == <<fileVars, procVars, calm, taint, missing, counters>>

Atoms == (Sources \cup Outputs) \X Nat

Cur == cmd[pos]

Content(f) == IF f \in Sources THEN {<<f, ver[f]>>} ELSE made[f]

\* What the orchestrator's action that writes w would put into w now.
Rebuild(w) == UNION {Content(r) : r \in Needs[w]}

\* What the running action puts into w.
Made(w) == UNION {Content(r) : r \in from[w]}

\* What the running action makes from other files than the orchestrator's
\* would: a tree staged from another profile, a kernel of another directory.
Astray == {w \in Writes[Cur] : from[w] # Needs[w]}

\* Mutant: the record files of other stages are not fingerprinted.
FingerprintNoRecords(s) ==
  {<<f, stamp[f]>> : f \in {g \in Watched(s) \ Names : stamp[g] # 0}}

Fingerprint(s) ==
  {<<f, stamp[f]>> : f \in {g \in Watched(s) : stamp[g] # 0}}

UpToDate(s) ==
  /\ Name[s] \in recorded
  /\ record[Name[s]] = Fingerprint(s)

\* The steps that write some of W under a record that matches: nothing tells
\* them that W has changed hands.
Unaware(W) == {q \in Steps : W \cap Writes[q] # {} /\ UpToDate(q)}

\* The steps whose record file s lists as an input.
Vouchers(s) == {p \in Steps : Name[p] \in Listed[s]}

DeepReads(s) == Reads(s) \cup UNION {Reads(p) : p \in Vouchers(s)}

-----------------------------------------------------------------------------

Init ==
  /\ stamp = [f \in Files |-> IF f \in Sources \cup Shipped THEN 1 ELSE 0]
  /\ ver = [x \in Sources |-> 1]
  /\ made = [w \in Outputs |-> IF w \in Shipped THEN {<<w, 0>>} ELSE {}]
  /\ recorded = {}
  /\ record = [n \in Names |-> {}]
  /\ clock = 1
  /\ cmd = <<>>
  /\ pos = 1
  /\ phase = "idle"
  /\ force = FALSE
  /\ leaf = FALSE
  /\ from = Needs
  /\ calm = FALSE
  /\ taint = {}
  /\ missing = FALSE
  /\ edits = 0
  /\ quiet = 0
  /\ runs = 0
  /\ breaks = 0

\* An orchestration command: its steps go through Stage.run one by one.
Invoke(c, f) ==
  /\ phase = "idle"
  /\ runs < MaxRuns
  /\ cmd' = c
  /\ pos' = 1
  /\ phase' = "check"
  /\ force' = f
  /\ leaf' = FALSE
  /\ from' = Needs
  /\ calm' = TRUE
  /\ missing' = FALSE
  /\ runs' = runs + 1
  /\ UNCHANGED <<fileVars, taint, edits, quiet, breaks>>

\* A leaf command (`forge stage`, `forge pack fit`, ...) calls the action
\* itself: no skip, no record, and flags of its own (--profile, --variant,
\* --kernel-dir) that may make the same artefact from other files.
InvokeLeaf(s, table) ==
  /\ phase = "idle"
  /\ runs < MaxRuns
  /\ cmd' = <<s>>
  /\ pos' = 1
  /\ phase' = "act"
  /\ force' = FALSE
  /\ leaf' = TRUE
  /\ from' = table
  /\ calm' = TRUE
  /\ missing' = FALSE
  /\ runs' = runs + 1
  /\ UNCHANGED <<fileVars, taint, edits, quiet, breaks>>

\* Mutant: one step too far.
AdvancePast ==
  /\ pos' = pos + 1
  /\ phase' = IF pos > Len(cmd) THEN "idle" ELSE "check"

Advance ==
  /\ pos' = pos + 1
  /\ phase' = IF pos = Len(cmd) THEN "idle" ELSE "check"

\* Mutant: the flag is not looked at.
SkipForced ==
  /\ phase = "check"
  /\ UpToDate(Cur)
  /\ Advance
  /\ UNCHANGED <<fileVars, cmd, force, leaf, from, calm, taint, missing, counters>>

Skip ==
  /\ phase = "check"
  /\ ~force
  /\ UpToDate(Cur)
  /\ Advance
  /\ UNCHANGED <<fileVars, cmd, force, leaf, from, calm, taint, missing, counters>>

Run ==
  /\ phase = "check"
  /\ force \/ ~UpToDate(Cur)
  /\ phase' = "act"
  /\ UNCHANGED <<fileVars, cmd, pos, force, leaf, from, calm, taint, missing, counters>>

\* The effect of an action on the artefacts: those in `new` come out whole,
\* those in `scrap` half-written.
Produce(new, scrap) ==
  /\ clock' = clock + 1
  /\ stamp' = [f \in Files |-> IF f \in new \cup scrap THEN clock + 1 ELSE stamp[f]]
  /\ made' = [w \in Outputs |-> IF w \in new THEN Made(w)
                                ELSE IF w \in scrap THEN {<<w, 0>>}
                                ELSE made[w]]

Present(F) == \A f \in F : stamp[f] # 0

\* What the running action reads.
Asked == UNION {from[w] : w \in Writes[Cur]}

\* A tainted voucher means the running step may have read a bad tree behind
\* an unchanged record: it is tainted as well.
Misled == IF Vouchers(Cur) \cap taint = {} THEN {} ELSE {Cur}

\* The action runs to its end and makes a step taken for good again, unless it
\* was misled or led astray.
Act ==
  /\ phase = "act"
  /\ Present(Asked)
  /\ Produce(Writes[Cur], {})
  /\ taint' = (taint \ {Cur}) \cup Misled \cup Unaware(Astray)
  /\ IF leaf THEN Advance ELSE phase' = "mark" /\ pos' = pos
  /\ UNCHANGED <<ver, recorded, record, cmd, force, leaf, from, calm, missing, counters>>

\* Mutant: a stopped action is marked as done all the same.
StopAndMark(new, scrap) ==
  /\ new \cap scrap = {}
  /\ \A w \in new : Present(from[w])
  /\ Produce(new, scrap)
  /\ recorded' = recorded \cup {Name[Cur]}
  /\ record' = [record EXCEPT ![Name[Cur]] = Fingerprint(Cur)]
  /\ phase' = "idle"
  /\ UNCHANGED <<ver, cmd, pos, force, leaf, from, calm, taint, edits, quiet, runs>>

\* The action stops in the middle: some artefacts are done, some are torn, and
\* SystemExit ends the whole command before mark_done.
StopInAct(new, scrap) ==
  /\ new \cap scrap = {}
  /\ \A w \in new : Present(from[w])
  /\ Produce(new, scrap)
  /\ taint' = taint \cup Misled \cup Unaware(scrap \cup (new \cap Astray))
  /\ phase' = "idle"
  /\ UNCHANGED <<ver, recorded, record, cmd, pos, force, leaf, from, calm, edits, quiet, runs>>

\* A tool fails or the process is killed.
Break ==
  /\ phase = "act"
  /\ breaks < MaxBreaks
  /\ \E new, scrap \in SUBSET Writes[Cur] : StopInAct(new, scrap)
  /\ breaks' = breaks + 1
  /\ UNCHANGED missing

\* die(): an input of the action is not there.
Missing ==
  /\ phase = "act"
  /\ ~Present(Asked)
  /\ \E new, scrap \in SUBSET Writes[Cur] : StopInAct(new, scrap)
  /\ missing' = TRUE
  /\ UNCHANGED breaks

\* Mutant: --force leaves the record as it is.
MarkUnlessForced ==
  /\ phase = "mark"
  /\ IF force
     THEN UNCHANGED <<recorded, record, clock, stamp>>
     ELSE /\ recorded' = recorded \cup {Name[Cur]}
          /\ record' = [record EXCEPT ![Name[Cur]] = Fingerprint(Cur)]
          /\ clock' = clock + 1
          /\ stamp' = [stamp EXCEPT ![Name[Cur]] = clock + 1]
  /\ Advance
  /\ UNCHANGED <<ver, made, cmd, force, leaf, from, calm, taint, missing, counters>>

\* mark_done fingerprints the inputs as they are now, after the action.
Mark ==
  /\ phase = "mark"
  /\ recorded' = recorded \cup {Name[Cur]}
  /\ record' = [record EXCEPT ![Name[Cur]] = Fingerprint(Cur)]
  /\ clock' = clock + 1
  /\ stamp' = [stamp EXCEPT ![Name[Cur]] = clock + 1]
  /\ Advance
  /\ UNCHANGED <<ver, made, cmd, force, leaf, from, calm, taint, missing, counters>>

\* Killed outside an action; while it writes the record, the file may be left
\* truncated, and no fingerprint equals that.
Kill(torn) ==
  /\ phase \in {"check", "mark"}
  /\ torn => phase = "mark"
  /\ breaks < MaxBreaks
  /\ phase' = "idle"
  /\ breaks' = breaks + 1
  /\ IF torn
     THEN /\ recorded' = recorded \ {Name[Cur]}
          /\ clock' = clock + 1
          /\ stamp' = [stamp EXCEPT ![Name[Cur]] = clock + 1]
     ELSE UNCHANGED <<recorded, clock, stamp>>
  /\ UNCHANGED <<ver, made, record, cmd, pos, force, leaf, from, calm, taint, missing,
                 edits, quiet, runs>>

-----------------------------------------------------------------------------
(* The world around forge.                                                 *)

\* A person or `forge build` rewrites the sources X, at any moment.  Between the
\* action and mark_done the new stamp is recorded for the old content.
Edit(X) ==
  /\ edits < MaxEdits
  /\ ver' = [x \in Sources |-> IF x \in X THEN ver[x] + 1 ELSE ver[x]]
  /\ clock' = clock + 1
  /\ stamp' = [f \in Files |-> IF f \in X THEN clock + 1 ELSE stamp[f]]
  /\ calm' = FALSE
  /\ taint' = IF phase = "mark" /\ X \cap Reads(Cur) # {} THEN taint \cup {Cur} ELSE taint
  /\ edits' = edits + 1
  /\ UNCHANGED <<made, recorded, record, procVars, missing, quiet, runs, breaks>>

\* An edit the fingerprint cannot see: same size, and within the same second
\* or with the old mtime put back.
QuietEdit(X) ==
  /\ quiet < MaxQuiet
  /\ Present(X)
  /\ ver' = [x \in Sources |-> IF x \in X THEN ver[x] + 1 ELSE ver[x]]
  /\ calm' = FALSE
  /\ taint' = taint \cup {s \in Steps : X \cap DeepReads(s) # {}}
  /\ quiet' = quiet + 1
  /\ UNCHANGED <<stamp, made, recorded, record, clock, procVars, missing,
                 edits, runs, breaks>>

Remove(gone) ==
  /\ stamp' = [f \in Files |-> IF f \in gone THEN 0 ELSE stamp[f]]
  /\ made' = [w \in Outputs |-> IF w \in gone THEN {} ELSE made[w]]
  /\ recorded' = recorded \ gone
  /\ calm' = FALSE
  /\ UNCHANGED <<ver, record, clock, procVars, missing, edits, quiet>>

\* `forge clean [--full]`: the records are below out/<board>/ as well.
Clean(full) ==
  /\ phase = "idle"
  /\ runs < MaxRuns
  /\ Remove(OutDir \cup Names \cup (IF full THEN Built ELSE {}))
  /\ taint' = {}
  /\ runs' = runs + 1
  /\ UNCHANGED breaks

\* rmtree is killed on its way, in directory order: records may outlive the
\* artefacts they vouch for.
CleanCut(gone) ==
  /\ phase = "idle"
  /\ breaks < MaxBreaks
  /\ Remove(gone)
  /\ taint' = taint \cup {s \in Steps : gone \cap (Writes[s] \cup Listed[s]
                              \cup UNION {Listed[p] : p \in Vouchers(s)}) # {}}
  /\ breaks' = breaks + 1
  /\ UNCHANGED runs

-----------------------------------------------------------------------------

Forge == Skip \/ Run \/ Act \/ Missing \/ Mark

Next ==
  \/ \E c \in Commands, f \in Forcible : Invoke(c, f)
  \/ \E s \in Steps : \E table \in Leaves[s] : InvokeLeaf(s, table)
  \/ Forge
  \/ Break
  \/ \E torn \in BOOLEAN : Kill(torn)
  \/ \E X \in Editable : Edit(X) \/ QuietEdit(X)
  \/ \E full \in BOOLEAN : Clean(full)
  \/ \E gone \in Cuts : CleanCut(gone)

Spec == Init /\ [][Next]_vars

-----------------------------------------------------------------------------
(* Properties.                                                             *)

FlagsOK ==
  /\ force \in BOOLEAN
  /\ leaf \in BOOLEAN
  /\ force = FALSE \/ leaf = FALSE
  /\ calm \in BOOLEAN
  /\ missing \in BOOLEAN

\* No file and no record is newer than the clock.
StoreOK ==
  /\ stamp \in [Files -> Nat]
  /\ ver \in [Sources -> Nat]
  /\ made \in [Outputs -> SUBSET Atoms]
  /\ recorded \subseteq Names
  /\ record \in [Names -> SUBSET (Files \X Nat)]
  /\ clock \in Nat
  /\ \A f \in Files : stamp[f] <= clock
  /\ \A n \in Names : \A e \in record[n] : e[2] <= clock
  /\ cmd \in Seq(Steps)
  /\ cmd \in Commands \/ Len(cmd) <= 1
  /\ pos \in 1..(Len(cmd) + 1)
  /\ phase \in {"idle", "check", "act", "mark"}
  /\ phase # "idle" => pos <= Len(cmd)
  /\ from \in [Outputs -> SUBSET (Sources \cup Outputs)]
  /\ ~leaf => from = Needs
  /\ taint \subseteq Steps
  /\ edits \in Nat /\ quiet \in Nat /\ runs \in Nat /\ breaks \in Nat

\* The shape of the state.
TypeOK == FlagsOK /\ StoreOK

\* The command ran all its steps.
Completed == phase = "idle" /\ pos = Len(cmd) + 1

\* A source every step that reads it also lists.
Tracked == {x \in Sources : \A s \in Steps : x \in Reads(s) => x \in Watched(s)}

\* The part of a content the input lists claim to see.
Vis(m) == {e \in m : e[1] \in Tracked \cup Outputs}

Sole(s) == \A q \in Steps : Name[q] = Name[s] => q = s

Direct(s) == Sole(s) /\ Reads(s) \cap Outputs \subseteq Watched(s)

\* s sees every artefact it reads, either by its own stamp or by the record of
\* the one step that writes it, as pack-emmc does for the staged tree.
Linked(s) ==
  \/ Direct(s)
  \/ /\ Sole(s)
     /\ \A p \in Vouchers(s) : Direct(p) /\ Vouchers(p) = {}
     /\ \A q \in Steps \ {s} : Writes[q] \cap Writes[s] = {}
     /\ \A r \in (Reads(s) \cap Outputs) \ Watched(s) :
          /\ \E p \in Vouchers(s) : r \in Writes[p]
          /\ \A q \in Steps : r \in Writes[q] => q \in Vouchers(s)

\* The skip test passes for s and for the steps whose records it trusts.
Settled(s) == \A p \in {s} \cup Vouchers(s) : UpToDate(p) /\ p \notin taint

\* Whenever the fingerprints let a step be skipped, running it would give what
\* is there already, as far as the listed inputs go: no interleaving of edits,
\* kills, leaf commands, cleans and re-runs makes a stale skip.
SkipIsRerun ==
  \A s \in Steps : Linked(s) /\ Settled(s) =>
    \A w \in Writes[s] : Vis(made[w]) = Vis(Rebuild(w))

\* A command that ran to its end with nothing edited under it leaves every one
\* of its steps up to date: the same command again would skip them all.
RerunSkips ==
  Completed /\ calm /\ ~leaf => \A i \in 1..Len(cmd) : UpToDate(cmd[i])

\* --force / --no-skip need no input list: whatever the records, the crashes
\* and the invisible edits before, each artefact of the command comes out as a
\* rebuild of what it reads.
ForceDelivers ==
  Completed /\ calm /\ force =>
    \A i \in 1..Len(cmd) : \A w \in Writes[cmd[i]] : made[w] = Rebuild(w)

\* The same for a command that skips, as far as the listed inputs go, if its
\* steps are linked within the command and none of them is tainted.
PackDelivers ==
  Completed /\ calm /\ ~leaf
    /\ (\A i \in 1..Len(cmd) : /\ Linked(cmd[i])
                              /\ cmd[i] \notin taint
                              /\ Vouchers(cmd[i]) \subseteq {cmd[j] : j \in 1..Len(cmd)})
  => \A i \in 1..Len(cmd) : \A w \in Writes[cmd[i]] : Vis(made[w]) = Vis(Rebuild(w))

-----------------------------------------------------------------------------
(* The inductive invariant behind the properties above.                    *)

\* What s should have read from r: r itself, or, for an artefact s does not
\* see, what the step that vouches for r would make of it.
Seen(s, r) == IF r \in Outputs \ Watched(s) THEN Rebuild(r) ELSE Content(r)

Faithful(s) ==
  \A w \in Writes[s] : Vis(made[w]) = UNION {Vis(Seen(s, r)) : r \in Needs[w]}

Vouched(s) == Linked(s) /\ s \notin taint /\ \A p \in Vouchers(s) : UpToDate(p)

RecordInv == \A s \in Steps : Vouched(s) /\ UpToDate(s) => Faithful(s)

MarkInv == phase = "mark" /\ Vouched(Cur) => Faithful(Cur)

DoneInv == calm /\ ~leaf => \A i \in 1..(pos - 1) : UpToDate(cmd[i])

ForceInv ==
  calm /\ force /\ (phase # "idle" \/ Completed) =>
    \A i \in 1..(IF phase = "mark" THEN pos ELSE pos - 1) :
      \A w \in Writes[cmd[i]] : made[w] = Rebuild(w)

\* Stamps and records are no newer than the clock, records that match stand
\* for faithful artefacts, and the finished part of the command is done.
StageInv == TypeOK /\ RecordInv /\ MarkInv /\ DoneInv /\ ForceInv
=============================================================================
