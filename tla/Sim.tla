-------------------------------- MODULE Sim --------------------------------
(***************************************************************************)
(* The scripts under sim/ on one host: they share the serial port, the      *)
(* monitor ports, the disk images and the logs, and nothing else keeps them *)
(* apart.  `tools` says which of them are in use.                           *)
(***************************************************************************)
EXTENDS Snapshot, Watch, Send

CONSTANT Benches   \* sets of tools in use together

VARIABLE tools

vars == <<machineVars, snap, watchVars, sendVars, tools>>

\* Where neither script starts a machine, one is running.
Init ==
  /\ tools \in Benches
  /\ IF tools \cap {"desk", "up"} = {}
     THEN qemus = <<[Spawned("res", FALSE) EXCEPT !.st = "up"]>> /\ guest = "login"
     ELSE qemus = <<>> /\ guest = "down"
  /\ MachineInit
  /\ SnapInit
  /\ WatchInit
  /\ SendInit

\* A process binds its ports; with them it gets the console.
BindOne(i) ==
  \E ok \in BOOLEAN :
    /\ \/ BindDesk(i, ok) /\ UNCHANGED watchVars
       \/ BindRes(i, ok) /\ UNCHANGED snap
    /\ IF ok THEN GuestUp ELSE UNCHANGED sendVars

\* The machine that had the console is gone; a process without it may be, too.
Lost(i) ==
  /\ Die(i)
  /\ IF Up(i) THEN GuestDown ELSE UNCHANGED sendVars
  /\ UNCHANGED <<snap, watchVars>>

QuitOne(i) == ServeQuit(i) /\ GuestDown /\ UNCHANGED watchVars

Next ==
  /\ \/ "desk" \in tools /\ SnapStep /\ UNCHANGED <<watchVars, sendVars>>
     \/ "up" \in tools /\ UpStep /\ UNCHANGED <<snap, sendVars>>
     \/ "log" \in tools /\ LogStep /\ UNCHANGED <<snap, sendVars>>
     \/ "watch" \in tools /\ WatchStep /\ UNCHANGED <<snap, sendVars>>
     \/ "shot" \in tools /\ ShotStep /\ UNCHANGED <<snap, sendVars>>
     \/ "send" \in tools /\ SendStep /\ UNCHANGED <<snap, watchVars>>
     \/ \E i \in Procs : BindOne(i) \/ Lost(i) \/ QuitOne(i)
  /\ UNCHANGED tools

Spec == Init /\ [][Next]_vars

TypeOK == MachineOK /\ SnapOK /\ WatchOK /\ SendOK /\ tools \in Benches
=============================================================================
