------------------------------ MODULE Snapshot ------------------------------
(***************************************************************************)
(* sim/snapshot.py: `create` boots a machine over a fresh overlay of the    *)
(* root file system, waits for the first frame of the desktop, and has the  *)
(* monitor stop it, save it under the tag "desktop" and quit; `restore`     *)
(* starts a machine from the tag; `drop` deletes the overlay.               *)
(*                                                                          *)
(* The monitor serves what is typed to it in order, but the script waits a  *)
(* fixed time after each command, reads no answer, and takes a monitor that *)
(* answers for its own machine's.                                           *)
(***************************************************************************)
EXTENDS Machine

CONSTANT MaxBase

VARIABLE snap   \* the running or the last command

NoProc == 0

SnapInit == snap = [pc |-> "idle", mode |-> "create", own |-> NoProc, conn |-> NoProc,
                    end |-> "none"]

Begin(mode) ==
  /\ snap.pc = "idle"
  /\ snap' = [pc |-> "popen", mode |-> mode, own |-> NoProc, conn |-> NoProc, end |-> "none"]
  /\ calm' = Begun("snap")

\* It refuses to run over an overlay that is there.
Create ==
  /\ ~overlay.there
  /\ Begin("create")
  /\ overlay' = [there |-> TRUE, of |-> base, tag |-> "none", took |-> 0]
  /\ UNCHANGED <<qemus, base, breaks>>

Restore ==
  /\ overlay.there
  /\ Begin("restore")
  /\ UNCHANGED <<qemus, base, overlay, breaks>>

\* A start that a session of up.py may lose the port to.
PopenDesk ==
  /\ snap.pc = "popen"
  /\ Len(qemus) < MaxStarts
  /\ qemus' = Append(qemus, Spawned("desk", snap.mode = "restore"))
  /\ snap' = [snap EXCEPT !.pc = "monitor", !.own = Len(qemus) + 1]
  /\ calm' = calm \ {"up"}
  /\ UNCHANGED <<base, overlay, breaks>>

\* The process takes its ports and opens its disk, or exits: the port is
\* taken, the overlay is gone, or it does not hold the tag.
BindDesk(i, ok) ==
  /\ qemus[i].st = "new"
  /\ qemus[i].kind = "desk"
  /\ ok <=> PortFree /\ overlay.there /\ (qemus[i].load => overlay.tag # "none")
  /\ qemus' = [qemus EXCEPT ![i].st = IF ok THEN "up" ELSE "gone",
                            ![i].frame = ok /\ qemus[i].load /\ overlay.tag = "drawn"]
  /\ UNCHANGED <<base, overlay, calm, breaks, snap>>

\* The guest draws its desktop and exports the scan-out registers.
Draw(i) ==
  /\ Up(i)
  /\ qemus[i].kind = "desk"
  /\ ~qemus[i].paused
  /\ ~qemus[i].frame
  /\ qemus' = [qemus EXCEPT ![i].frame = TRUE]
  /\ UNCHANGED <<base, overlay, calm, breaks, snap>>

\* `info status` is answered "running" or "paused".
WaitMonitor(i) ==
  /\ snap.pc = "monitor"
  /\ i \in Answering("desk")
  /\ qemus[i].todo = <<>>
  /\ snap' = [snap EXCEPT !.pc = "frame", !.conn = i]
  /\ UNCHANGED machineVars

\* Mutant: the answer of the monitor is taken for a frame.
HasFrameIfUp == Up(snap.conn) /\ qemus[snap.conn].todo = <<>>

\* The scan-out register the monitor shows; no answer in time counts as zero.
QomGet(i) ==
  IF Up(i) /\ qemus[i].todo = <<>> /\ qemus[i].frame THEN 1 ELSE 0

HasFrame == QomGet(snap.conn) # 0

\* With the first frame a restore is done; a create goes on to save it.
WaitFrame ==
  /\ snap.pc = "frame"
  /\ HasFrame
  /\ snap' = IF snap.mode = "restore"
             THEN [snap EXCEPT !.pc = "idle", !.end = "restored"]
             ELSE [snap EXCEPT !.pc = "stop"]
  /\ UNCHANGED machineVars

NextOf == [stop |-> "savevm", savevm |-> "quit", quit |-> "wait"]

\* stop, savevm and quit, each typed when the time of the one before is over.
\* The first one typed to a machine that is gone raises no error.
Tell ==
  /\ snap.pc \in {"stop", "savevm", "quit"}
  /\ qemus' = Typed(snap.conn, [do |-> snap.pc, to |-> 0, req |-> 0])
  /\ snap' = [snap EXCEPT !.pc = NextOf[snap.pc]]
  /\ UNCHANGED <<base, overlay, calm, breaks>>

\* proc.wait returns, and the snapshot is reported.
WaitExit ==
  /\ snap.pc = "wait"
  /\ qemus[snap.own].st = "gone"
  /\ snap' = [snap EXCEPT !.pc = "idle", !.end = "saved"]
  /\ UNCHANGED machineVars

\* A deadline passes, a closed monitor raises, or Ctrl-C: the machine, if
\* there is one, is left running with what was typed to it.
GiveUp ==
  /\ snap.pc # "idle"
  /\ snap' = [snap EXCEPT !.pc = "idle", !.end = "failed"]
  /\ UNCHANGED machineVars

\* From another terminal too: a machine that has the overlay open keeps it.
Drop ==
  /\ overlay.there
  /\ overlay' = NoOverlay
  /\ qemus' = [i \in Procs |-> [qemus[i] EXCEPT !.linked = FALSE]]
  /\ calm' = calm \ {"snap"}
  /\ UNCHANGED <<base, breaks, snap>>

\* `forge pack` makes a new root file system, under a running session or not.
Rewrite ==
  /\ base < MaxBase
  /\ base' = base + 1
  /\ calm' = IF snap.pc = "idle" THEN calm ELSE calm \ {"snap"}
  /\ UNCHANGED <<qemus, overlay, breaks, snap>>

ServeStop(i) ==
  /\ Serving(i, "stop")
  /\ qemus' = [Served(i) EXCEPT ![i].paused = TRUE]
  /\ UNCHANGED <<base, overlay, calm, breaks, snap>>

\* The snapshot goes into the overlay the machine has open, which may be a
\* deleted one; on a full disk there is none, and the answer says so.
ServeSavevm(i, done) ==
  /\ Serving(i, "savevm")
  /\ qemus' = Served(i)
  /\ overlay' = IF done /\ qemus[i].linked
                THEN [overlay EXCEPT !.tag = IF qemus[i].frame THEN "drawn" ELSE "blank",
                                     !.took = base]
                ELSE overlay
  /\ calm' = IF done THEN calm ELSE calm \ {"snap"}
  /\ UNCHANGED <<base, breaks, snap>>

ServeQuit(i) ==
  /\ Serving(i, "quit")
  /\ qemus' = [Served(i) EXCEPT ![i].st = "gone"]
  /\ calm' = calm \ {"send"}
  /\ UNCHANGED <<base, overlay, breaks, snap>>

\* The guest neither comes nor goes.
SnapStep ==
  \/ Create \/ Restore \/ PopenDesk \/ WaitFrame \/ Tell \/ WaitExit \/ GiveUp
  \/ Drop \/ Rewrite
  \/ \E i \in Procs :
       \/ WaitMonitor(i) \/ Draw(i) \/ ServeStop(i)
       \/ \E done \in BOOLEAN : ServeSavevm(i, done)

SnapOK ==
  /\ snap \in [pc : {"idle", "popen", "monitor", "frame", "stop", "savevm", "quit", "wait"},
               mode : {"create", "restore"}, own : Nat, conn : Nat,
               end : {"none", "saved", "restored", "failed"}]
  /\ snap.own \in Procs \cup {NoProc}
  /\ snap.conn \in Procs \cup {NoProc}

\* What snapshot.py reports is so.  No snapshot under the tag is of a desktop
\* not yet drawn, whatever happened meanwhile.  A `create` that began alone and
\* was not disturbed reports only when the overlay holds the snapshot, taken
\* over the very root file system the overlay was created over, though machines
\* of resboot.py may boot and write it between the two; such a `restore`
\* reports a machine of its own, started from the tag, with the desktop drawn.
\* That the base is still the one of the snapshot nothing looks at.
SnapshotTrue ==
  /\ overlay.tag # "blank"
  /\ "snap" \in calm =>
       /\ snap.end = "saved" => /\ overlay.there
                                /\ overlay.tag = "drawn"
                                /\ overlay.took = overlay.of
       /\ snap.end = "restored" =>
            /\ snap.conn = snap.own
            /\ qemus[snap.own].load
            /\ qemus[snap.own].frame
            /\ Up(snap.own)
=============================================================================
