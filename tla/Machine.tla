------------------------------ MODULE Machine ------------------------------
(***************************************************************************)
(* The simulated board: the QEMU processes that sim/snapshot.py ("desk")    *)
(* and sim/resboot.py ("res") start.  Every one of them listens on serial   *)
(* port 4446, so of two that live at a time the second exits at its bind,   *)
(* and no script looks at the exit code.  A script meets whichever machine  *)
(* answers on the monitor port of its kind: 4445 or 4449.                   *)
(***************************************************************************)
EXTENDS Naturals, Sequences

CONSTANTS MaxStarts, MaxBreaks   \* bounds of the instance

VARIABLES
  qemus,   \* the QEMU processes in the order of their starts
  base,    \* the version of out/rk3588-topeet/rootfs.ext4, a new one for all
           \* that a machine of resboot.py writes to it
  overlay, \* sim-desktop.qcow2 over it, with the snapshot under the tag
  calm,    \* the sessions nothing has disturbed since they began
  breaks

machineVars == <<qemus, base, overlay, calm, breaks>>

Sessions == {"snap", "up", "send"}

Procs == DOMAIN qemus

\* A snapshot is of a drawn desktop, of a blank screen, or not there.  It was
\* taken over one version of the base, the overlay created over another.
Overlays == [there : BOOLEAN, of : Nat, tag : {"none", "blank", "drawn"}, took : Nat]

NoOverlay == [there |-> FALSE, of |-> 0, tag |-> "none", took |-> 0]

Commands == [do : {"stop", "savevm", "quit", "screendump"}, to : Nat, req : Nat]

Qemus == [kind : {"desk", "res"}, load : BOOLEAN, st : {"new", "up", "gone"},
          frame : BOOLEAN, paused : BOOLEAN, linked : BOOLEAN, todo : Seq(Commands)]

\* A process as Popen leaves it: nothing bound, nothing opened.
Spawned(kind, load) ==
  [kind |-> kind, load |-> load, st |-> "new", frame |-> FALSE, paused |-> FALSE,
   linked |-> TRUE, todo |-> <<>>]

Up(i) == qemus[i].st = "up"

\* connect() to port 4446 is refused.
PortFree == \A i \in Procs : ~Up(i)

\* No process is left that could still take the port.
Alone == \A i \in Procs : qemus[i].st = "gone"

\* The machines behind the monitor port of a kind.
Answering(kind) == {i \in Procs : Up(i) /\ qemus[i].kind = kind}

\* A session begins: only a process of another session may disturb it.
Begun(session) == IF Alone THEN calm \cup {session} ELSE calm \ {session}

\* A command typed on a monitor waits behind the earlier ones; typed to a
\* machine that is gone it is lost.
Typed(i, c) ==
  IF Up(i) THEN [qemus EXCEPT ![i].todo = Append(@, c)] ELSE qemus

Served(i) == [qemus EXCEPT ![i].todo = Tail(@)]

Serving(i, what) == Up(i) /\ qemus[i].todo # <<>> /\ Head(qemus[i].todo).do = what

MachineInit ==
  /\ base = 1
  /\ overlay = NoOverlay
  /\ calm = {}
  /\ breaks = 0

\* The machine crashes, its guest powers off, someone kills it, or the time
\* resboot.py gives it is over.
Die(i) ==
  /\ breaks < MaxBreaks
  /\ qemus[i].st # "gone"
  /\ qemus' = [qemus EXCEPT ![i].st = "gone"]
  /\ calm' = {}
  /\ breaks' = breaks + 1
  /\ UNCHANGED <<base, overlay>>

MachineOK ==
  /\ qemus \in Seq(Qemus)
  /\ base \in Nat
  /\ overlay \in Overlays
  /\ calm \subseteq Sessions
  /\ breaks \in Nat
=============================================================================
