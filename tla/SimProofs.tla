------------------------------ MODULE SimProofs ------------------------------
(***************************************************************************)
(* Proofs about Sim, for any number of machines, sessions, chunks, lines,   *)
(* pictures and blocks, and any sets of tools in use together.              *)
(***************************************************************************)
EXTENDS Sim, SequenceTheorems, TLAPS

(* The machines.                                                             *)

\* A process that has bound nothing has drawn nothing and was told nothing;
\* only pictures are asked of resboot.py's machines, and only a machine that
\* shows a frame is told to save.
ProcInv ==
  /\ \A i \in Procs :
       /\ qemus[i].st = "new" => qemus[i].todo = <<>> /\ ~qemus[i].frame
       /\ \A k \in DOMAIN qemus[i].todo :
            /\ qemus[i].kind = "res" <=> qemus[i].todo[k].do = "screendump"
            /\ qemus[i].todo[k].do = "savevm" => qemus[i].frame
  /\ \A i, j \in Procs : Up(i) /\ Up(j) => i = j

\* The console is up with the one machine that has the port.
ConsoleInv ==
  /\ guest = "down" <=> PortFree
  /\ guest = "down" => "send" \notin calm

-----------------------------------------------------------------------------
(* snapshot.py.                                                              *)

Connected == {"frame", "stop", "savevm", "quit", "wait"}

Saving == {"stop", "savevm", "quit", "wait"}

SnapControl ==
  /\ snap.pc = "popen" => snap.own = NoProc
  /\ snap.pc \in {"monitor"} \cup Connected => snap.own \in Procs
  /\ snap.own \in Procs => /\ qemus[snap.own].kind = "desk"
                           /\ qemus[snap.own].load <=> snap.mode = "restore"
  /\ snap.pc \in Saving => snap.mode = "create"
  /\ snap.pc \in Connected => /\ snap.conn \in Procs
                              /\ qemus[snap.conn].kind = "desk"
                              /\ qemus[snap.conn].st # "new"
  /\ snap.pc \in Saving => qemus[snap.conn].frame
  /\ snap.end # "none" => snap.pc = "idle"
  /\ snap.end = "saved" => snap.mode = "create"
  /\ snap.end = "restored" => snap.mode = "restore"

\* In a calm session the only machine of snapshot.py is its own.
Calm == "snap" \in calm

OwnInv ==
  Calm =>
    /\ \A i \in Procs : qemus[i].kind = "desk" /\ qemus[i].st # "gone" => i = snap.own
    /\ snap.pc \in Connected => snap.conn = snap.own
    /\ snap.mode = "restore" /\ snap.own \in Procs => qemus[snap.own].todo = <<>>

Script == <<"stop", "savevm", "quit">>

Told == [frame |-> 0, stop |-> 0, savevm |-> 1, quit |-> 2, wait |-> 3]

\* s of the commands it was told are served: the rest waits, the second of
\* them saved the desktop, the third ended the machine.
Served3(s) ==
  /\ Len(qemus[snap.own].todo) = Told[snap.pc] - s
  /\ \A k \in 1..(Told[snap.pc] - s) : qemus[snap.own].todo[k].do = Script[s + k]
  /\ overlay.tag = IF s >= 2 THEN "drawn" ELSE "none"
  /\ qemus[snap.own].st = IF s = 3 THEN "gone" ELSE "up"

CreateInv ==
  Calm /\ snap.mode = "create" /\ snap.pc # "idle" =>
    /\ overlay.there
    /\ snap.own \in Procs => qemus[snap.own].linked
    /\ snap.pc \in {"popen", "monitor"} => overlay.tag = "none"
    /\ snap.pc = "monitor" => qemus[snap.own].todo = <<>>
    /\ snap.pc \in Connected => \E s \in 0..3 : Served3(s)

ReportInv ==
  Calm =>
    /\ snap.end = "saved" => /\ overlay.there
                             /\ overlay.tag = "drawn"
                             /\ snap.own \in Procs
                             /\ qemus[snap.own].st = "gone"
    /\ snap.end = "restored" => /\ snap.own \in Procs
                                /\ snap.conn = snap.own
                                /\ qemus[snap.own].frame
                                /\ Up(snap.own)

SnapInv == overlay.tag # "blank" /\ SnapControl /\ OwnInv /\ CreateInv /\ ReportInv

\* A machine of resboot.py runs, over the base itself.
ResUp == \E i \in Procs : Up(i) /\ qemus[i].kind = "res"

\* While a calm `create` runs, the base is the one of its overlay, unless a
\* machine of resboot.py has it, and then the port too, without which nothing
\* is saved.
BaseInv ==
  Calm =>
    /\ snap.mode = "create" /\ snap.pc # "idle" =>
         /\ overlay.of = base \/ ResUp
         /\ overlay.tag # "none" => overlay.took = overlay.of
    /\ snap.end = "saved" => overlay.took = overlay.of

-----------------------------------------------------------------------------
(* up.py, its log, and the pictures.                                         *)

UpInv ==
  /\ up.pc \in {"popen", "live"} => up.shown = <<>> /\ up.pos = 0
  /\ up.pc = "popen" /\ "up" \in calm => \A i \in Procs : qemus[i].st = "gone"
  /\ up.pc \in {"live", "follow"} => up.own \in Procs /\ qemus[up.own].kind = "res"
  /\ up.pc \in {"live", "follow"} /\ "up" \in calm =>
       \A i \in Procs : qemus[i].st # "gone" => i = up.own
  /\ up.pc = "follow" /\ "up" \in calm => /\ Up(up.own)
                                          /\ up.pos <= Len(log)
                                          /\ up.shown = SubSeq(log, 1, up.pos)

LogInv ==
  /\ ~cut => watch.off <= Len(log)
  /\ \A a \in Anomalies :
       /\ seen[a] <= 1
       /\ seen[a] = 1 => /\ 2 * a <= spoken
                         /\ \A k \in DOMAIN log : k > watch.off => log[k] # 2 * a
       /\ ~cut =>
            /\ watch.off > 0 /\ log[watch.off] = 2 * a - 1 => a \in split
            /\ a \notin split /\ Has(SubSeq(log, 1, watch.off), a) => seen[a] = 1

\* What is asked for under the name p is the request r alone.
Only(p, r) ==
  /\ pics[p] # NoPic => pics[p].req = r
  /\ \A i \in Procs : \A k \in DOMAIN qemus[i].todo :
       qemus[i].todo[k].do = "screendump" /\ qemus[i].todo[k].to = p => qemus[i].todo[k].req = r

PicInv ==
  /\ \A i \in Procs : \A k \in DOMAIN qemus[i].todo :
       qemus[i].todo[k].do = "screendump" => qemus[i].todo[k].req > 0
  /\ watch.pc \in {"alive", "look", "judge", "scan"} => watch.n <= asked
  /\ watch.pc = "dump" => watch.n <= asked + 1
  /\ watch.pc \in {"dump", "look", "judge"} => watch.n > 0
  /\ watch.pc \in {"look", "judge"} /\ watch.clean => Only(watch.n, watch.req)
  /\ watch.pc = "judge" => pics[watch.n] # NoPic
  /\ shot.pc = "look" /\ shot.clean => Only(0, shot.req)
  /\ watch.pc = "scan" /\ watch.clean => watch.judged.req = watch.req
  /\ shot.clean => shot.got \in {0, shot.req}
  /\ watch.verdict \in {"PASS", "FAIL"} => watch.verdict = Verdict(watch.judged)

WatchInv == UpInv /\ LogInv /\ PicInv

-----------------------------------------------------------------------------
(* sendfile.py and its console.                                              *)

\* No line of these kinds is on its way or waits.
None(kinds) ==
  /\ \A k \in DOMAIN tty : tty[k].do \notin kinds
  /\ \A k \in DOMAIN wire : wire[k].do \notin kinds

\* Nothing that touches the target comes after a checksum.
SumLast ==
  /\ \A j, k \in DOMAIN tty : j < k /\ tty[j].do = "sum" => tty[k].do \notin {"sum", "rm"}
  /\ \A j, k \in DOMAIN wire : j < k /\ wire[j].do = "sum" => wire[k].do \notin {"sum", "rm"}
  /\ \A j \in DOMAIN tty, k \in DOMAIN wire : tty[j].do = "sum" => wire[k].do \notin {"sum", "rm"}

\* The file is there to stay.
Stays == guest # "sum" /\ None({"sum", "rm"}) /\ remote = Local

SentInv ==
  /\ snd.end # "none" => snd.pc = "idle"
  /\ snd.own =>
       /\ snd.pc \notin {"idle", "verdict"} => guest # "sum" /\ None({"sum"})
       /\ snd.pc = "verdict" =>
            /\ SumLast
            /\ guest = "sum" => None({"sum", "rm"})
            /\ snd.sum = "same" => Stays
       /\ snd.end = "sent" => Stays

\* One line is on its way or waits, or the guest has taken it.
OnWay(line) ==
  \/ wire = <<line>> /\ tty = <<>>
  \/ wire = <<>> /\ tty = <<line>>

Taken == wire = <<>> /\ tty = <<>>

Shown(state) == guest = state /\ snd.prompt = PromptOf[state]

\* What a session finds after its first two lines.
HelloInv ==
  \/ Len(wire) >= 2 /\ wire[Len(wire) - 1] = Line("^C") /\ wire[Len(wire)] = Line("nl")
  \/ OnWay(Line("nl")) /\ (Shown("login") \/ Shown("shell"))
  \/ Taken /\ (Shown("login") \/ Shown("shell"))

AuthInv ==
  \/ OnWay(Line("name")) /\ guest \in {"login", "password"} /\ snd.prompt = "none"
  \/ Taken /\ (Shown("password") \/ Shown("shell"))

FirstK(k) == [j \in 1..k |-> j]

ChunkLine == IF snd.k = 0 THEN Line("rm") ELSE Chunk(snd.k)

ChunkInv ==
  /\ guest = "shell"
  /\ \/ OnWay(ChunkLine) /\ (snd.k > 0 => b64 = FirstK(snd.k - 1))
     \/ Taken /\ b64 = FirstK(snd.k)

VerdictInv ==
  \/ OnWay(Line("sum")) /\ guest = "shell" /\ b64 = Local /\ snd.sum = "none"
  \/ Taken /\ guest = "sum" /\ remote = Local /\ snd.sum = "none"
  \/ Taken /\ guest = "shell" /\ snd.sum = "same"

DialogInv ==
  /\ snd.pc \in {"hello", "login", "auth", "rm"} => snd.k = 0
  /\ "send" \in calm =>
       /\ snd.end # "failed"
       /\ snd.pc = "hello" => HelloInv
       /\ snd.pc = "login" => Taken /\ Shown("login")
       /\ snd.pc = "auth" => AuthInv
       /\ snd.pc = "rm" => Taken /\ guest = "shell"
       /\ snd.pc = "chunk" => ChunkInv
       /\ snd.pc = "verdict" => VerdictInv

SimInv ==
  TypeOK /\ ProcInv /\ ConsoleInv /\ SnapInv /\ BaseInv /\ WatchInv /\ SentInv /\ DialogInv
-----------------------------------------------------------------------------
(* What a step does to the machines.                                         *)

\* The machine i is now q, and the others are what they were.
Becomes(i, q) ==
  /\ i \in Procs
  /\ q \in Qemus
  /\ Len(qemus') = Len(qemus)
  /\ Procs' = Procs
  /\ qemus'[i] = q
  /\ \A j \in Procs : j # i => qemus'[j] = qemus[j]

\* One more is started.
Starts(q) ==
  /\ Len(qemus') = Len(qemus) + 1
  /\ Procs' = Procs \cup {Len(qemus) + 1}
  /\ Len(qemus) + 1 \notin Procs
  /\ qemus'[Len(qemus) + 1] = q
  /\ \A j \in Procs : qemus'[j] = qemus[j]

LEMMA ProcTypes ==
  ASSUME MachineOK
  PROVE  /\ Procs = 1..Len(qemus)
         /\ Len(qemus) \in Nat
         /\ \A i \in Procs : qemus[i] \in Qemus
BY DEF MachineOK, Procs

LEMMA Replaced ==
  ASSUME MachineOK, NEW i \in Procs, NEW q \in Qemus, qemus' = [qemus EXCEPT ![i] = q]
  PROVE  qemus' \in Seq(Qemus) /\ Becomes(i, q)
<1>1. qemus \in Seq(Qemus) /\ i \in 1..Len(qemus)
  BY ProcTypes DEF MachineOK
<1>2. /\ qemus' \in Seq(Qemus)
      /\ Len(qemus') = Len(qemus)
      /\ \A j \in 1..Len(qemus) : qemus'[j] = IF j = i THEN q ELSE qemus[j]
  BY <1>1, ExceptSeq
<1>3. Procs' = Procs
  BY <1>1, <1>2 DEF Procs
<1> QED
  BY <1>1, <1>2, <1>3, ProcTypes DEF Becomes

LEMMA Started ==
  ASSUME MachineOK, NEW q \in Qemus, qemus' = Append(qemus, q)
  PROVE  qemus' \in Seq(Qemus) /\ Starts(q)
<1>1. qemus \in Seq(Qemus)
  BY DEF MachineOK
<1>2. /\ qemus' \in Seq(Qemus)
      /\ Len(qemus') = Len(qemus) + 1
      /\ \A j \in 1..Len(qemus) : qemus'[j] = qemus[j]
      /\ qemus'[Len(qemus) + 1] = q
  BY <1>1, AppendProperties
<1>3. Procs' = 1..(Len(qemus) + 1)
  BY <1>2 DEF Procs
<1> QED
  BY <1>2, <1>3, ProcTypes DEF Starts

LEMMA SpawnedOK ==
  ASSUME NEW kind \in {"desk", "res"}, NEW load \in BOOLEAN
  PROVE  /\ Spawned(kind, load) \in Qemus
         /\ Spawned(kind, load).kind = kind
         /\ Spawned(kind, load).load = load
         /\ Spawned(kind, load).st = "new"
         /\ Spawned(kind, load).frame = FALSE
         /\ Spawned(kind, load).linked = TRUE
         /\ Spawned(kind, load).todo = <<>>
BY DEF Spawned, Qemus

\* A queue with one more command, and one that has been served.
More(i, c) == [qemus[i] EXCEPT !.todo = Append(qemus[i].todo, c)]
Less(i) == [qemus[i] EXCEPT !.todo = Tail(qemus[i].todo)]

LEMMA TypedDoes ==
  ASSUME MachineOK, NEW i \in Procs, NEW c \in Commands, qemus' = Typed(i, c)
  PROVE  /\ qemus' \in Seq(Qemus)
         /\ IF Up(i) THEN Becomes(i, More(i, c)) ELSE UNCHANGED qemus
<1>1. qemus[i] \in Qemus /\ qemus[i].todo \in Seq(Commands)
  BY ProcTypes DEF Qemus
<1>2. Append(qemus[i].todo, c) \in Seq(Commands)
  BY <1>1
<1>3. More(i, c) \in Qemus
  BY <1>1, <1>2 DEF More, Qemus
<1>4. CASE Up(i)
  <2>1. qemus' = [qemus EXCEPT ![i] = More(i, c)]
    BY <1>4 DEF Typed, More
  <2> QED
    BY <1>3, <1>4, <2>1, Replaced
<1>5. CASE ~Up(i)
  BY <1>5 DEF Typed, MachineOK
<1> QED
  BY <1>4, <1>5

LEMMA ServingHas ==
  ASSUME MachineOK, NEW i \in Procs, NEW what, Serving(i, what)
  PROVE  /\ Up(i)
         /\ qemus[i] \in Qemus
         /\ qemus[i].todo \in Seq(Commands)
         /\ qemus[i].todo # <<>>
         /\ Len(qemus[i].todo) \in Nat \ {0}
         /\ 1 \in DOMAIN qemus[i].todo
         /\ Head(qemus[i].todo) = qemus[i].todo[1]
         /\ qemus[i].todo[1].do = what
         /\ Tail(qemus[i].todo) \in Seq(Commands)
         /\ Len(Tail(qemus[i].todo)) = Len(qemus[i].todo) - 1
         /\ \A k \in DOMAIN Tail(qemus[i].todo) :
              k + 1 \in DOMAIN qemus[i].todo /\ Tail(qemus[i].todo)[k] = qemus[i].todo[k + 1]
         /\ Less(i) \in Qemus
<1>1. Up(i) /\ qemus[i].todo # <<>> /\ Head(qemus[i].todo).do = what
  BY DEF Serving
<1>2. qemus[i] \in Qemus /\ qemus[i].todo \in Seq(Commands)
  BY ProcTypes DEF Qemus
<1>3. /\ Tail(qemus[i].todo) \in Seq(Commands)
      /\ Len(Tail(qemus[i].todo)) = Len(qemus[i].todo) - 1
      /\ \A k \in 1..Len(Tail(qemus[i].todo)) : Tail(qemus[i].todo)[k] = qemus[i].todo[k + 1]
  BY <1>1, <1>2, HeadTailProperties
<1>4. Less(i) \in Qemus
  BY <1>2, <1>3 DEF Less, Qemus
<1>5. Head(qemus[i].todo) = qemus[i].todo[1] /\ Len(qemus[i].todo) \in Nat \ {0}
  BY <1>1, <1>2
<1>6. DOMAIN qemus[i].todo = 1..Len(qemus[i].todo)
  BY <1>2
<1>7. DOMAIN Tail(qemus[i].todo) = 1..Len(Tail(qemus[i].todo))
  BY <1>3
<1> HIDE DEF Less
<1>8. \A k \in DOMAIN Tail(qemus[i].todo) :
         k + 1 \in DOMAIN qemus[i].todo /\ Tail(qemus[i].todo)[k] = qemus[i].todo[k + 1]
  BY <1>3, <1>5, <1>6, <1>7
<1> QED
  BY <1>1, <1>2, <1>3, <1>4, <1>5, <1>6, <1>8

LEMMA ServedDoes ==
  ASSUME MachineOK, NEW i \in Procs, NEW what, Serving(i, what), qemus' = Served(i)
  PROVE  qemus' \in Seq(Qemus) /\ Becomes(i, Less(i))
<1>1. Less(i) \in Qemus
  BY ServingHas
<1>2. qemus' = [qemus EXCEPT ![i] = Less(i)]
  BY DEF Served, Less
<1> QED
  BY <1>1, <1>2, Replaced

LEMMA BindDeskDoes ==
  ASSUME MachineOK, NEW i \in Procs, NEW ok \in BOOLEAN, BindDesk(i, ok)
  PROVE  /\ qemus' \in Seq(Qemus)
         /\ Becomes(i, [qemus[i] EXCEPT !.st = IF ok THEN "up" ELSE "gone",
                                        !.frame = ok /\ qemus[i].load /\ overlay.tag = "drawn"])
<1> DEFINE q == [qemus[i] EXCEPT !.st = IF ok THEN "up" ELSE "gone",
                                 !.frame = ok /\ qemus[i].load /\ overlay.tag = "drawn"]
<1>1. qemus[i] \in Qemus
  BY ProcTypes
<1>2. (ok /\ qemus[i].load /\ overlay.tag = "drawn") \in BOOLEAN
  OBVIOUS
<1>3. q \in Qemus
  BY <1>1, <1>2 DEF Qemus
<1>4. qemus' = [qemus EXCEPT ![i] = q]
  BY DEF BindDesk
<1> QED
  BY <1>3, <1>4, Replaced

LEMMA DrawDoes ==
  ASSUME MachineOK, NEW i \in Procs, Draw(i)
  PROVE  qemus' \in Seq(Qemus) /\ Becomes(i, [qemus[i] EXCEPT !.frame = TRUE])
<1>1. [qemus[i] EXCEPT !.frame = TRUE] \in Qemus
  BY ProcTypes DEF Qemus
<1>2. qemus' = [qemus EXCEPT ![i] = [qemus[i] EXCEPT !.frame = TRUE]]
  BY DEF Draw
<1> QED
  BY <1>1, <1>2, Replaced

LEMMA ServeStopDoes ==
  ASSUME MachineOK, NEW i \in Procs, ServeStop(i)
  PROVE  qemus' \in Seq(Qemus) /\ Becomes(i, [Less(i) EXCEPT !.paused = TRUE])
<1>1. Serving(i, "stop") /\ qemus' = [Served(i) EXCEPT ![i].paused = TRUE]
  BY DEF ServeStop
<1>2. Less(i) \in Qemus
  BY <1>1, ServingHas
<1>3. [Less(i) EXCEPT !.paused = TRUE] \in Qemus
  BY <1>2 DEF Qemus
<1>4. qemus' = [qemus EXCEPT ![i] = [Less(i) EXCEPT !.paused = TRUE]]
  BY <1>1, ProcTypes DEF Served, Less, MachineOK
<1> QED
  BY <1>3, <1>4, Replaced

LEMMA ServeQuitDoes ==
  ASSUME MachineOK, NEW i \in Procs, ServeQuit(i)
  PROVE  qemus' \in Seq(Qemus) /\ Becomes(i, [Less(i) EXCEPT !.st = "gone"])
<1>1. Serving(i, "quit") /\ qemus' = [Served(i) EXCEPT ![i].st = "gone"]
  BY DEF ServeQuit
<1>2. Less(i) \in Qemus
  BY <1>1, ServingHas
<1>3. [Less(i) EXCEPT !.st = "gone"] \in Qemus
  BY <1>2 DEF Qemus
<1>4. qemus' = [qemus EXCEPT ![i] = [Less(i) EXCEPT !.st = "gone"]]
  BY <1>1, ProcTypes DEF Served, Less, MachineOK
<1> QED
  BY <1>3, <1>4, Replaced

LEMMA BindResDoes ==
  ASSUME MachineOK, NEW i \in Procs, NEW ok \in BOOLEAN, BindRes(i, ok)
  PROVE  /\ qemus' \in Seq(Qemus)
         /\ Becomes(i, [qemus[i] EXCEPT !.st = IF ok THEN "up" ELSE "gone"])
<1> DEFINE q == [qemus[i] EXCEPT !.st = IF ok THEN "up" ELSE "gone"]
<1>1. q \in Qemus
  BY ProcTypes DEF Qemus
<1>2. qemus' = [qemus EXCEPT ![i] = q]
  BY DEF BindRes
<1> QED
  BY <1>1, <1>2, Replaced

LEMMA DieDoes ==
  ASSUME MachineOK, NEW i \in Procs, Die(i)
  PROVE  qemus' \in Seq(Qemus) /\ Becomes(i, [qemus[i] EXCEPT !.st = "gone"])
<1>1. [qemus[i] EXCEPT !.st = "gone"] \in Qemus
  BY ProcTypes DEF Qemus
<1>2. qemus' = [qemus EXCEPT ![i] = [qemus[i] EXCEPT !.st = "gone"]]
  BY DEF Die
<1> QED
  BY <1>1, <1>2, Replaced

LEMMA DropDoes ==
  ASSUME MachineOK, Drop
  PROVE  /\ qemus' \in Seq(Qemus)
         /\ Len(qemus') = Len(qemus)
         /\ Procs' = Procs
         /\ \A i \in Procs : qemus'[i] = [qemus[i] EXCEPT !.linked = FALSE]
<1>1. \A i \in Procs : [qemus[i] EXCEPT !.linked = FALSE] \in Qemus
  BY ProcTypes DEF Qemus
<1>2. qemus' = [i \in 1..Len(qemus) |-> [qemus[i] EXCEPT !.linked = FALSE]]
  BY ProcTypes DEF Drop
<1>3. qemus' \in Seq(Qemus) /\ Len(qemus') = Len(qemus)
  BY <1>1, <1>2, ProcTypes
<1> QED
  BY <1>2, <1>3, ProcTypes DEF Procs

LEMMA AskDoes ==
  ASSUME MachineOK, NEW p \in Nat, asked \in Nat, Ask(p)
  PROVE  /\ qemus' \in Seq(Qemus)
         /\ \E i \in Answering("res") :
              Becomes(i, More(i, [do |-> "screendump", to |-> p, req |-> asked + 1]))
<1>1. PICK i \in Answering("res") :
        qemus' = Typed(i, [do |-> "screendump", to |-> p, req |-> asked + 1])
  BY DEF Ask
<1>2. i \in Procs /\ Up(i)
  BY DEF Answering
<1>3. [do |-> "screendump", to |-> p, req |-> asked + 1] \in Commands
  BY DEF Commands
<1> QED
  BY <1>1, <1>2, <1>3, TypedDoes

LEMMA PopenDeskDoes ==
  ASSUME MachineOK, PopenDesk
  PROVE  qemus' \in Seq(Qemus) /\ Starts(Spawned("desk", snap.mode = "restore"))
<1>1. Spawned("desk", snap.mode = "restore") \in Qemus
  BY SpawnedOK
<1> QED
  BY <1>1, Started DEF PopenDesk

LEMMA PopenResDoes ==
  ASSUME MachineOK, PopenRes
  PROVE  qemus' \in Seq(Qemus) /\ Starts(Spawned("res", FALSE))
<1>1. Spawned("res", FALSE) \in Qemus
  BY SpawnedOK
<1> QED
  BY <1>1, Started DEF PopenRes

-----------------------------------------------------------------------------
(* Types.                                                                    *)

LEMMA BegunOK ==
  ASSUME calm \subseteq Sessions, NEW session \in Sessions
  PROVE  Begun(session) \subseteq Sessions /\ (Begun(session) \ {session}) = (calm \ {session})
BY DEF Begun

\* One of the disjuncts of Next.
SnapNext == SnapStep /\ UNCHANGED <<watchVars, sendVars>>
UpNext == UpStep /\ UNCHANGED <<snap, sendVars>>
LogNext == LogStep /\ UNCHANGED <<snap, sendVars>>
WatchNext == WatchStep /\ UNCHANGED <<snap, sendVars>>
ShotNext == ShotStep /\ UNCHANGED <<snap, sendVars>>
SendNext == SendStep /\ UNCHANGED <<snap, watchVars>>
LifeNext == \E i \in Procs : BindOne(i) \/ Lost(i) \/ QuitOne(i)

LEMMA NextCases ==
  ASSUME Next
  PROVE  /\ SnapNext \/ UpNext \/ LogNext \/ WatchNext \/ ShotNext \/ SendNext \/ LifeNext
         /\ UNCHANGED tools
BY DEF Next, SnapNext, UpNext, LogNext, WatchNext, ShotNext, SendNext, LifeNext

\* What serving a picture leaves alone, and what it takes.
PicStep(i) == OpenPic(i) \/ ClosePic(i) \/ RefusePic(i)

LEMMA WatchCases ==
  ASSUME WatchNext
  PROVE  \/ WatchStart \/ WatchAlive \/ WatchDump \/ WatchLook \/ WatchJudge \/ WatchScan
         \/ WatchEnd
         \/ \E i \in Procs : PicStep(i)
BY DEF WatchNext, WatchStep, PicStep

LEMMA ShotCases ==
  ASSUME ShotNext
  PROVE  ShotAsk \/ ShotLook \/ \E i \in Procs : PicStep(i)
BY DEF ShotNext, ShotStep, PicStep

LEMMA SnapCases ==
  ASSUME SnapNext
  PROVE  \/ Create \/ Restore \/ PopenDesk \/ WaitFrame \/ Tell \/ WaitExit \/ GiveUp
         \/ Drop \/ Rewrite
         \/ \E i \in Procs : WaitMonitor(i)
         \/ \E i \in Procs : Draw(i)
         \/ \E i \in Procs : ServeStop(i)
         \/ \E i \in Procs, done \in BOOLEAN : ServeSavevm(i, done)
BY DEF SnapNext, SnapStep

LEMMA PicQemus ==
  ASSUME MachineOK, NEW i \in Procs, PicStep(i)
  PROVE  /\ Serving(i, "screendump")
         /\ qemus' \in Seq(Qemus)
         /\ UNCHANGED qemus \/ Becomes(i, Less(i))
         /\ UNCHANGED <<base, overlay, calm, breaks>>
<1>1. CASE OpenPic(i)
  BY <1>1 DEF OpenPic, machineVars, MachineOK
<1>2. CASE ClosePic(i)
  <2>1. Serving(i, "screendump") /\ qemus' = Served(i)
    BY <1>2 DEF ClosePic
  <2> QED
    BY <1>2, <2>1, ServedDoes DEF ClosePic
<1>3. CASE RefusePic(i)
  <2>1. Serving(i, "screendump") /\ qemus' = Served(i)
    BY <1>3 DEF RefusePic
  <2> QED
    BY <1>3, <2>1, ServedDoes DEF RefusePic
<1> QED
  BY <1>1, <1>2, <1>3 DEF PicStep

LEMMA SaveDoes ==
  ASSUME MachineOK, NEW i \in Procs, NEW done \in BOOLEAN, ServeSavevm(i, done)
  PROVE  Serving(i, "savevm") /\ qemus' \in Seq(Qemus) /\ Becomes(i, Less(i))
<1>1. Serving(i, "savevm") /\ qemus' = Served(i)
  BY DEF ServeSavevm
<1> QED
  BY <1>1, ServedDoes

LEMMA TellDoes ==
  ASSUME MachineOK, SnapControl, Tell
  PROVE  LET c == [do |-> snap.pc, to |-> 0, req |-> 0] IN
         /\ snap.pc \in {"stop", "savevm", "quit"}
         /\ snap.conn \in Procs
         /\ c \in Commands
         /\ qemus' \in Seq(Qemus)
         /\ IF Up(snap.conn) THEN Becomes(snap.conn, More(snap.conn, c)) ELSE UNCHANGED qemus
<1>1. snap.pc \in {"stop", "savevm", "quit"}
      /\ qemus' = Typed(snap.conn, [do |-> snap.pc, to |-> 0, req |-> 0])
  BY DEF Tell
<1>2. snap.conn \in Procs
  BY <1>1 DEF SnapControl, Connected
<1>3. [do |-> snap.pc, to |-> 0, req |-> 0] \in Commands
  BY <1>1 DEF Commands
<1> QED
  BY <1>1, <1>2, <1>3, TypedDoes

LEMMA MachineTypes ==
  ASSUME TypeOK, SnapControl, Next
  PROVE  MachineOK'
<1>0. MachineOK /\ base \in Nat /\ overlay \in Overlays /\ calm \subseteq Sessions /\ breaks \in Nat
      /\ asked \in Nat /\ watch.n \in Nat
  BY DEF TypeOK, MachineOK, WatchOK
<1> USE DEF MachineOK
<1>1. CASE SnapNext
  <2>1. CASE Create
    <3>1. calm' = Begun("snap") /\ "snap" \in Sessions
      BY <2>1 DEF Create, Begin, Sessions
    <3>2. calm' \subseteq Sessions
      BY <3>1, <1>0, BegunOK
    <3> QED
      BY <2>1, <3>2, <1>0 DEF Create, Overlays
  <2>2. CASE Restore
    <3>1. calm' = Begun("snap") /\ "snap" \in Sessions
      BY <2>2 DEF Restore, Begin, Sessions
    <3>2. calm' \subseteq Sessions
      BY <3>1, <1>0, BegunOK
    <3> QED
      BY <2>2, <3>2, <1>0 DEF Restore
  <2>3. CASE PopenDesk
    BY <2>3, <1>0, PopenDeskDoes DEF PopenDesk
  <2>4. CASE WaitFrame \/ WaitExit \/ GiveUp \/ \E i \in Procs : WaitMonitor(i)
    BY <2>4, <1>0 DEF WaitFrame, WaitExit, GiveUp, WaitMonitor, machineVars
  <2>5. CASE Tell
    BY <2>5, <1>0, TellDoes DEF Tell
  <2>6. CASE Drop
    BY <2>6, <1>0, DropDoes DEF Drop, Overlays, NoOverlay
  <2>7. CASE Rewrite
    BY <2>7, <1>0 DEF Rewrite
  <2>8. CASE \E i \in Procs : Draw(i)
    BY <2>8, <1>0, DrawDoes DEF Draw
  <2>9. CASE \E i \in Procs : ServeStop(i)
    BY <2>9, <1>0, ServeStopDoes DEF ServeStop
  <2>10. CASE \E i \in Procs, done \in BOOLEAN : ServeSavevm(i, done)
    <3>1. PICK i \in Procs, done \in BOOLEAN : ServeSavevm(i, done)
      BY <2>10
    <3>2. overlay' \in Overlays
      BY <3>1, <1>0 DEF ServeSavevm, Overlays
    <3> QED
      BY <3>1, <3>2, <1>0, SaveDoes DEF ServeSavevm
  <2> QED
    BY <1>1, SnapCases, <2>1, <2>2, <2>3, <2>4, <2>5, <2>6, <2>7, <2>8, <2>9, <2>10
<1>2. CASE UpNext
  <2>1. CASE UpCheck
    <3>1. calm' = Begun("up") /\ "up" \in Sessions
      BY <2>1 DEF UpCheck, Sessions
    <3>2. calm' \subseteq Sessions
      BY <3>1, <1>0, BegunOK
    <3> QED
      BY <2>1, <3>2, <1>0 DEF UpCheck
  <2>2. CASE PopenRes
    BY <2>2, <1>0, PopenResDoes DEF PopenRes
  <2>3. CASE ClearLog \/ UpEnd
    BY <2>3, <1>0 DEF ClearLog, UpEnd, machineVars
  <2> QED
    BY <1>2, <2>1, <2>2, <2>3 DEF UpNext, UpStep
<1>3. CASE LogNext
  BY <1>3, <1>0 DEF LogNext, LogStep, Follow, Speak, machineVars
<1>p. ASSUME NEW i \in Procs, PicStep(i) PROVE MachineOK'
  <2>1. /\ qemus' \in Seq(Qemus)
        /\ UNCHANGED <<base, overlay, calm, breaks>>
    BY <1>p, <1>0, PicQemus
  <2> QED
    BY <2>1, <1>0
<1>4. CASE WatchNext
  <2>1. CASE WatchDump
    BY <2>1, <1>0, AskDoes DEF WatchDump, Ask
  <2>2. CASE WatchStart \/ WatchAlive \/ WatchLook \/ WatchJudge \/ WatchScan \/ WatchEnd
    BY <2>2, <1>0 DEF WatchStart, WatchAlive, WatchLook, WatchJudge, WatchScan, WatchEnd, machineVars
  <2> QED
    BY <1>4, WatchCases, <2>1, <2>2, <1>p
<1>5. CASE ShotNext
  <2>1. CASE ShotAsk
    BY <2>1, <1>0, AskDoes DEF ShotAsk, Ask
  <2>2. CASE ShotLook
    BY <2>2, <1>0 DEF ShotLook, machineVars
  <2> QED
    BY <1>5, ShotCases, <2>1, <2>2, <1>p
<1>6. CASE SendNext
  <2>1. UNCHANGED <<qemus, base, overlay, breaks>> /\ calm' \subseteq calm \cup {"send"}
    BY <1>6 DEF SendNext, SendStep, Arrive, Login, Shell, PrintSum, Lose, Hello, Look, LogIn, NoLogin,
       RunRm, RunChunk, RunSum, Sent, NotSent, RunCmd, Leave, HostStep, Late, machineVars
  <2> QED
    BY <2>1, <1>0 DEF Sessions
<1>7. CASE LifeNext
  <2>1. PICK i \in Procs : BindOne(i) \/ Lost(i) \/ QuitOne(i)
    BY <1>7 DEF LifeNext
  <2>2. CASE BindOne(i)
    <3>1. PICK ok \in BOOLEAN : BindDesk(i, ok) \/ BindRes(i, ok)
      BY <2>2 DEF BindOne
    <3>2. CASE BindDesk(i, ok)
      BY <3>2, <1>0, BindDeskDoes DEF BindDesk
    <3>3. CASE BindRes(i, ok)
      <4>1. base' = (IF ok THEN base + 1 ELSE base) /\ UNCHANGED <<overlay, calm, breaks>>
        BY <3>3 DEF BindRes
      <4>2. qemus' \in Seq(Qemus)
        BY <3>3, <1>0, BindResDoes
      <4>3. base' \in Nat
        BY <4>1, <1>0
      <4> QED
        BY <4>1, <4>2, <4>3, <1>0
    <3> QED
      BY <3>1, <3>2, <3>3
  <2>3. CASE Lost(i)
    <3>1. Die(i) /\ UNCHANGED <<base, overlay>> /\ calm' = {} /\ breaks' = breaks + 1
      BY <2>3 DEF Lost, Die
    <3>2. qemus' \in Seq(Qemus)
      BY <3>1, <1>0, DieDoes
    <3> QED
      BY <3>1, <3>2, <1>0
  <2>4. CASE QuitOne(i)
    <3>1. ServeQuit(i) /\ UNCHANGED <<base, overlay, breaks>> /\ calm' = calm \ {"send"}
      BY <2>4 DEF QuitOne, ServeQuit
    <3>2. qemus' \in Seq(Qemus)
      BY <3>1, <1>0, ServeQuitDoes
    <3> QED
      BY <3>1, <3>2, <1>0
  <2> QED
    BY <2>1, <2>2, <2>3, <2>4
<1> QED
  BY NextCases, <1>1, <1>2, <1>3, <1>4, <1>5, <1>6, <1>7

\* The machine i has now this state, this frame and this queue; what it is does
\* not change, and neither do the others.
Turns(i, st, frame, todo) ==
  /\ i \in Procs
  /\ Procs' = Procs
  /\ \A j \in Procs : j # i => qemus'[j] = qemus[j]
  /\ qemus'[i].kind = qemus[i].kind
  /\ qemus'[i].load = qemus[i].load
  /\ qemus'[i].linked = qemus[i].linked
  /\ qemus'[i].st = st
  /\ qemus'[i].frame = frame
  /\ qemus'[i].todo = todo

\* All that a step may do to the machines.
Spawns == \/ PopenDesk /\ Starts(Spawned("desk", snap.mode = "restore"))
          \/ PopenRes /\ Starts(Spawned("res", FALSE))
Drops == /\ Drop
         /\ Procs' = Procs
         /\ \A i \in Procs : /\ qemus'[i].kind = qemus[i].kind
                             /\ qemus'[i].load = qemus[i].load
                             /\ qemus'[i].st = qemus[i].st
                             /\ qemus'[i].frame = qemus[i].frame
                             /\ qemus'[i].todo = qemus[i].todo
Draws(i) == Up(i) /\ qemus[i].kind = "desk" /\ Turns(i, "up", TRUE, qemus[i].todo)
TakesIn(i) ==
  /\ Tell /\ i = snap.conn /\ Up(i)
  /\ Turns(i, "up", qemus[i].frame, Append(qemus[i].todo, [do |-> snap.pc, to |-> 0, req |-> 0]))
TakesAsk(i, p) ==
  /\ i \in Answering("res")
  /\ Ask(p)
  /\ Turns(i, "up", qemus[i].frame,
           Append(qemus[i].todo, [do |-> "screendump", to |-> p, req |-> asked + 1]))
Serves(i) ==
  \E what \in {"stop", "savevm", "screendump"} :
    Serving(i, what) /\ Turns(i, "up", qemus[i].frame, Tail(qemus[i].todo))

\* The tools at work.
Works ==
  \/ UNCHANGED qemus
  \/ Spawns
  \/ Drops
  \/ \E i \in Procs : Draws(i) \/ TakesIn(i) \/ Serves(i) \/ \E p \in Nat : TakesAsk(i, p)

\* A machine comes or goes, and with it the console.
Binds(i, ok) ==
  /\ qemus[i].st = "new"
  /\ ok => PortFree
  /\ \E frame \in BOOLEAN : Turns(i, IF ok THEN "up" ELSE "gone", frame, qemus[i].todo)
  /\ IF ok THEN GuestUp ELSE UNCHANGED sendVars
  /\ calm' = calm
Dies(i) ==
  /\ qemus[i].st # "gone"
  /\ Turns(i, "gone", qemus[i].frame, qemus[i].todo)
  /\ IF Up(i) THEN GuestDown ELSE UNCHANGED sendVars
  /\ calm' = {}
Quits(i) ==
  /\ Serving(i, "quit")
  /\ Turns(i, "gone", qemus[i].frame, Tail(qemus[i].todo))
  /\ GuestDown
  /\ calm' = calm \ {"send"}

Lives ==
  /\ UNCHANGED <<snap, overlay>>
  /\ \E i \in Procs : (\E ok \in BOOLEAN : Binds(i, ok)) \/ Dies(i) \/ Quits(i)

LEMMA MoreTurns ==
  ASSUME MachineOK, NEW i \in Procs, NEW c, Up(i), Becomes(i, More(i, c))
  PROVE  Turns(i, "up", qemus[i].frame, Append(qemus[i].todo, c))
<1>1. qemus[i] \in Qemus
  BY ProcTypes
<1>2. More(i, c).todo = Append(qemus[i].todo, c)
      /\ \A f \in {"kind", "load", "linked", "st", "frame"} : More(i, c)[f] = qemus[i][f]
  BY <1>1 DEF More, Qemus
<1> HIDE DEF More
<1> QED
  BY <1>1, <1>2 DEF Becomes, Turns, Up

LEMMA LessTurns ==
  ASSUME MachineOK, NEW i \in Procs, Up(i), Becomes(i, Less(i))
  PROVE  Turns(i, "up", qemus[i].frame, Tail(qemus[i].todo))
<1>1. qemus[i] \in Qemus
  BY ProcTypes
<1>2. Less(i).todo = Tail(qemus[i].todo)
      /\ \A f \in {"kind", "load", "linked", "st", "frame"} : Less(i)[f] = qemus[i][f]
  BY <1>1 DEF Less, Qemus
<1> HIDE DEF Less
<1> QED
  BY <1>1, <1>2 DEF Becomes, Turns, Up

LEMMA TellEffect ==
  ASSUME MachineOK, SnapControl, Tell
  PROVE  /\ snap.conn \in Procs
         /\ IF Up(snap.conn) THEN TakesIn(snap.conn) ELSE UNCHANGED qemus
BY TellDoes, MoreTurns DEF TakesIn

LEMMA DropEffect ==
  ASSUME MachineOK, Drop
  PROVE  Drops
<1>1. \A i \in Procs : qemus[i] \in Qemus
  BY ProcTypes
<1>2. Procs' = Procs /\ \A i \in Procs : qemus'[i] = [qemus[i] EXCEPT !.linked = FALSE]
  BY DropDoes
<1>3. ASSUME NEW i \in Procs
      PROVE  \A f \in {"kind", "load", "st", "frame", "todo"} : qemus'[i][f] = qemus[i][f]
  BY <1>1, <1>2 DEF Qemus
<1> QED
  BY <1>2, <1>3 DEF Drops

LEMMA DrawEffect ==
  ASSUME MachineOK, NEW i \in Procs, Draw(i)
  PROVE  Draws(i)
<1>1. qemus[i] \in Qemus
  BY ProcTypes
<1>2. Becomes(i, [qemus[i] EXCEPT !.frame = TRUE]) /\ Up(i) /\ qemus[i].kind = "desk"
  BY DrawDoes DEF Draw
<1>3. [qemus[i] EXCEPT !.frame = TRUE].frame = TRUE
      /\ \A f \in {"kind", "load", "linked", "st", "todo"} :
           [qemus[i] EXCEPT !.frame = TRUE][f] = qemus[i][f]
  BY <1>1 DEF Qemus
<1>4. Turns(i, "up", TRUE, qemus[i].todo)
  BY <1>2, <1>3 DEF Becomes, Turns, Up
<1> QED
  BY <1>2, <1>4 DEF Draws

LEMMA StopEffect ==
  ASSUME MachineOK, NEW i \in Procs, ServeStop(i)
  PROVE  Serving(i, "stop") /\ Turns(i, "up", qemus[i].frame, Tail(qemus[i].todo))
<1> DEFINE q == [Less(i) EXCEPT !.paused = TRUE]
<1>1. qemus[i] \in Qemus /\ Serving(i, "stop") /\ Up(i)
  BY ProcTypes DEF ServeStop, Serving
<1>2. Becomes(i, q)
  BY ServeStopDoes
<1>3. q.todo = Tail(qemus[i].todo)
      /\ \A f \in {"kind", "load", "linked", "st", "frame"} : q[f] = qemus[i][f]
  BY <1>1 DEF Less, Qemus
<1> HIDE DEF q
<1>4. Turns(i, "up", qemus[i].frame, Tail(qemus[i].todo))
  BY <1>1, <1>2, <1>3 DEF Becomes, Turns, Up
<1> QED
  BY <1>1, <1>4

LEMMA SaveEffect ==
  ASSUME MachineOK, NEW i \in Procs, NEW done \in BOOLEAN, ServeSavevm(i, done)
  PROVE  Serving(i, "savevm") /\ Turns(i, "up", qemus[i].frame, Tail(qemus[i].todo))
<1>1. Serving(i, "savevm") /\ Up(i) /\ Becomes(i, Less(i))
  BY SaveDoes DEF Serving
<1> QED
  BY <1>1, LessTurns

LEMMA PicEffect ==
  ASSUME MachineOK, NEW i \in Procs, PicStep(i)
  PROVE  /\ Serving(i, "screendump")
         /\ UNCHANGED qemus \/ Turns(i, "up", qemus[i].frame, Tail(qemus[i].todo))
<1>1. Serving(i, "screendump") /\ Up(i)
  BY PicQemus DEF Serving
<1>2. UNCHANGED qemus \/ Becomes(i, Less(i))
  BY PicQemus
<1> QED
  BY <1>1, <1>2, LessTurns

LEMMA SnapEffect ==
  ASSUME MachineOK, SnapControl, SnapNext
  PROVE  Works
<1>1. CASE Create \/ Restore \/ WaitFrame \/ WaitExit \/ GiveUp \/ Rewrite \/ \E i \in Procs : WaitMonitor(i)
  BY <1>1 DEF Create, Restore, WaitFrame, WaitExit, GiveUp, Rewrite, WaitMonitor, machineVars, Works
<1>2. CASE PopenDesk
  BY <1>2, PopenDeskDoes DEF Spawns, Works
<1>3. CASE Tell \/ Drop
  BY <1>3, TellEffect, DropEffect DEF Works
<1>4. CASE \/ \E i \in Procs : Draw(i) \/ ServeStop(i)
           \/ \E i \in Procs, done \in BOOLEAN : ServeSavevm(i, done)
  BY <1>4, DrawEffect, StopEffect, SaveEffect DEF Serves, Works
<1> QED
  BY SnapCases, <1>1, <1>2, <1>3, <1>4

LEMMA AskEffect ==
  ASSUME MachineOK, asked \in Nat, NEW p \in Nat, Ask(p)
  PROVE  \E i \in Procs : TakesAsk(i, p)
<1>1. PICK i \in Answering("res") :
        Becomes(i, More(i, [do |-> "screendump", to |-> p, req |-> asked + 1]))
  BY AskDoes
<1>2. i \in Procs /\ Up(i)
  BY DEF Answering
<1> QED
  BY <1>1, <1>2, MoreTurns DEF TakesAsk

LEMMA LifeEffect ==
  ASSUME MachineOK, LifeNext
  PROVE  Lives
<1>0. UNCHANGED <<snap, overlay>>
  BY DEF LifeNext, BindOne, Lost, QuitOne, BindDesk, BindRes, Die, ServeQuit
<1>1. ASSUME NEW i \in Procs, BindOne(i) PROVE \E ok \in BOOLEAN : Binds(i, ok)
  <2>1. PICK ok \in BOOLEAN : /\ BindDesk(i, ok) \/ BindRes(i, ok)
                             /\ IF ok THEN GuestUp ELSE UNCHANGED sendVars
    BY <1>1 DEF BindOne
  <2> DEFINE f == ok /\ qemus[i].load /\ overlay.tag = "drawn"
  <2> DEFINE s == IF ok THEN "up" ELSE "gone"
  <2>2. qemus[i] \in Qemus /\ f \in BOOLEAN /\ qemus[i].frame \in BOOLEAN
    BY ProcTypes DEF Qemus
  <2>3. qemus[i].st = "new" /\ (ok => PortFree) /\ calm' = calm
    BY <2>1 DEF BindDesk, BindRes
  <2> HIDE DEF f
  <2>4. CASE BindDesk(i, ok)
    <3> DEFINE q == [qemus[i] EXCEPT !.st = s, !.frame = f]
    <3>1. Becomes(i, q)
      BY <2>4, BindDeskDoes DEF f
    <3>2. q.st = s /\ q.frame = f /\ \A g \in {"kind", "load", "linked", "todo"} : q[g] = qemus[i][g]
      BY <2>2 DEF Qemus
    <3> HIDE DEF q
    <3>3. Turns(i, s, f, qemus[i].todo)
      BY <3>1, <3>2 DEF Becomes, Turns
    <3> QED
      BY <2>1, <2>2, <2>3, <3>3 DEF Binds
  <2>5. CASE BindRes(i, ok)
    <3> DEFINE q == [qemus[i] EXCEPT !.st = s]
    <3>1. Becomes(i, q)
      BY <2>5, BindResDoes
    <3>2. q.st = s /\ \A g \in {"kind", "load", "linked", "frame", "todo"} : q[g] = qemus[i][g]
      BY <2>2 DEF Qemus
    <3> HIDE DEF q
    <3>3. Turns(i, s, qemus[i].frame, qemus[i].todo)
      BY <3>1, <3>2 DEF Becomes, Turns
    <3> QED
      BY <2>1, <2>2, <2>3, <3>3 DEF Binds
  <2> QED
    BY <2>1, <2>4, <2>5
<1>2. ASSUME NEW i \in Procs, Lost(i) PROVE Dies(i)
  <2> DEFINE q == [qemus[i] EXCEPT !.st = "gone"]
  <2>1. /\ qemus[i] \in Qemus /\ qemus[i].st # "gone" /\ Die(i) /\ calm' = {}
        /\ IF Up(i) THEN GuestDown ELSE UNCHANGED sendVars
    BY <1>2, ProcTypes DEF Lost, Die
  <2>2. Becomes(i, q)
    BY <2>1, DieDoes
  <2>3. q.st = "gone" /\ \A g \in {"kind", "load", "linked", "frame", "todo"} : q[g] = qemus[i][g]
    BY <2>1 DEF Qemus
  <2> HIDE DEF q
  <2>4. Turns(i, "gone", qemus[i].frame, qemus[i].todo)
    BY <2>2, <2>3 DEF Becomes, Turns
  <2> QED
    BY <2>1, <2>4 DEF Dies
<1>3. ASSUME NEW i \in Procs, QuitOne(i) PROVE Quits(i)
  <2> DEFINE q == [Less(i) EXCEPT !.st = "gone"]
  <2>1. /\ qemus[i] \in Qemus /\ Serving(i, "quit") /\ ServeQuit(i)
        /\ calm' = calm \ {"send"} /\ GuestDown
    BY <1>3, ProcTypes DEF QuitOne, ServeQuit
  <2>2. Becomes(i, q)
    BY <2>1, ServeQuitDoes
  <2>3. q.st = "gone" /\ q.todo = Tail(qemus[i].todo)
        /\ \A g \in {"kind", "load", "linked", "frame"} : q[g] = qemus[i][g]
    BY <2>1 DEF Less, Qemus
  <2> HIDE DEF q
  <2>4. Turns(i, "gone", qemus[i].frame, Tail(qemus[i].todo))
    BY <2>2, <2>3 DEF Becomes, Turns
  <2> QED
    BY <2>1, <2>4 DEF Quits
<1> QED
  BY <1>0, <1>1, <1>2, <1>3 DEF LifeNext, Lives

LEMMA Effects ==
  ASSUME TypeOK, SnapControl, Next
  PROVE  IF LifeNext THEN Lives ELSE Works
<1>0. MachineOK /\ asked \in Nat /\ watch.n \in Nat
  BY DEF TypeOK, WatchOK
<1>p. ASSUME NEW i \in Procs, PicStep(i) PROVE Works
  BY <1>0, <1>p, PicEffect DEF Serves, Works
<1>1. ASSUME SnapNext PROVE Works
  BY <1>0, <1>1, SnapEffect
<1>2. ASSUME UpNext PROVE Works
  <2>1. CASE PopenRes
    BY <2>1, <1>0, PopenResDoes DEF Spawns, Works
  <2>2. CASE UpCheck \/ ClearLog \/ UpEnd
    BY <2>2 DEF UpCheck, ClearLog, UpEnd, machineVars, Works
  <2> QED
    BY <1>2, <2>1, <2>2 DEF UpNext, UpStep
<1>3. ASSUME LogNext PROVE Works
  BY <1>3 DEF LogNext, LogStep, Follow, Speak, machineVars, Works
<1>4. ASSUME WatchNext PROVE Works
  <2>1. CASE WatchDump
    BY <2>1, <1>0, AskEffect DEF WatchDump, Works
  <2>2. CASE WatchStart \/ WatchAlive \/ WatchLook \/ WatchJudge \/ WatchScan \/ WatchEnd
    BY <2>2 DEF WatchStart, WatchAlive, WatchLook, WatchJudge, WatchScan, WatchEnd, machineVars, Works
  <2> QED
    BY <1>4, WatchCases, <2>1, <2>2, <1>p
<1>5. ASSUME ShotNext PROVE Works
  <2>1. CASE ShotAsk
    BY <2>1, <1>0, AskEffect DEF ShotAsk, Works
  <2>2. CASE ShotLook
    BY <2>2 DEF ShotLook, machineVars, Works
  <2> QED
    BY <1>5, ShotCases, <2>1, <2>2, <1>p
<1>6. ASSUME SendNext PROVE Works
  BY <1>6 DEF SendNext, SendStep, Arrive, Login, Shell, PrintSum, Lose, Hello, Look, LogIn, NoLogin,
     RunRm, RunChunk, RunSum, Sent, NotSent, RunCmd, Leave, HostStep, Late, machineVars, Works
<1> QED
  BY NextCases, <1>0, <1>1, <1>2, <1>3, <1>4, <1>5, <1>6, LifeEffect

\* A machine stays what it is; one that is gone or bound stays so, and keeps
\* its frame.
Grows ==
  /\ Procs \subseteq Procs'
  /\ \A i \in Procs : /\ qemus'[i].kind = qemus[i].kind
                      /\ qemus'[i].load = qemus[i].load
                      /\ qemus[i].st = "gone" => qemus'[i].st = "gone"
                      /\ qemus[i].st # "new" => qemus'[i].st # "new"
                      /\ qemus[i].st # "new" /\ qemus[i].frame => qemus'[i].frame

LEMMA SpawnsNew ==
  ASSUME MachineOK, Spawns
  PROVE  /\ Procs' = Procs \cup {Len(qemus) + 1}
         /\ Len(qemus) + 1 \notin Procs
         /\ qemus'[Len(qemus) + 1].st = "new"
         /\ qemus'[Len(qemus) + 1].todo = <<>>
         /\ qemus'[Len(qemus) + 1].frame = FALSE
         /\ qemus'[Len(qemus) + 1].linked = TRUE
         /\ \A j \in Procs : qemus'[j] = qemus[j]
<1>1. PICK kind \in {"desk", "res"}, load \in BOOLEAN : Starts(Spawned(kind, load))
  BY DEF Spawns
<1>2. PICK q : /\ Starts(q) /\ q.st = "new" /\ q.todo = <<>> /\ q.frame = FALSE /\ q.linked = TRUE
  BY <1>1, SpawnedOK
<1> QED
  BY <1>2 DEF Starts

LEMMA WorksGrow ==
  ASSUME MachineOK, Works
  PROVE  /\ Grows
         /\ \A i \in Procs : /\ qemus'[i].st = qemus[i].st
                             /\ qemus[i].frame => qemus'[i].frame
         /\ \A i \in Procs' \ Procs : /\ qemus'[i].st = "new"
                                      /\ qemus'[i].todo = <<>>
                                      /\ qemus'[i].frame = FALSE
                                      /\ qemus'[i].linked = TRUE
<1>1. CASE UNCHANGED qemus
  BY <1>1 DEF Grows, Procs
<1>2. CASE Spawns
  BY <1>2, SpawnsNew DEF Grows
<1>3. CASE Drops
  BY <1>3 DEF Drops, Grows
<1>4. ASSUME NEW i \in Procs, Draws(i) \/ TakesIn(i) \/ Serves(i) \/ \E p \in Nat : TakesAsk(i, p)
      PROVE  /\ Grows
             /\ Procs' = Procs
             /\ \A j \in Procs : /\ qemus'[j].st = qemus[j].st
                                 /\ qemus[j].frame => qemus'[j].frame
  <2>1. PICK frame, todo : Turns(i, "up", frame, todo) /\ Up(i) /\ (qemus[i].frame => frame)
    BY <1>4 DEF Draws, TakesIn, TakesAsk, Serves, Answering, Serving
  <2> QED
    BY <2>1 DEF Turns, Up, Grows
<1> QED
  BY <1>1, <1>2, <1>3, <1>4 DEF Works, Procs

LEMMA LivesGrow ==
  ASSUME MachineOK, Lives
  PROVE  /\ Grows
         /\ Procs' = Procs
         /\ UNCHANGED <<snap, overlay>>
         /\ calm' \subseteq calm
<1>1. PICK i \in Procs : (\E ok \in BOOLEAN : Binds(i, ok)) \/ Dies(i) \/ Quits(i)
  BY DEF Lives
<1>2. CASE \E ok \in BOOLEAN : Binds(i, ok)
  <2>1. PICK ok \in BOOLEAN : Binds(i, ok)
    BY <1>2
  <2>2. PICK frame, todo, st : Turns(i, st, frame, todo) /\ qemus[i].st = "new" /\ calm' = calm
    BY <2>1 DEF Binds
  <2> QED
    BY <2>2 DEF Turns, Grows, Lives
<1>3. CASE Dies(i) \/ Quits(i)
  <2>1. PICK todo : Turns(i, "gone", qemus[i].frame, todo) /\ calm' \subseteq calm
    BY <1>3 DEF Dies, Quits
  <2> QED
    BY <2>1 DEF Turns, Grows, Lives
<1> QED
  BY <1>1, <1>2, <1>3

LEMMA NextGrows ==
  ASSUME TypeOK, SnapControl, Next
  PROVE  Grows
BY Effects, WorksGrow, LivesGrow DEF TypeOK

-----------------------------------------------------------------------------

LEMMA SnapTypes ==
  ASSUME TypeOK, SnapControl, Next
  PROVE  SnapOK'
<1>0. MachineOK /\ SnapOK /\ Grows /\ Len(qemus) \in Nat
  BY NextGrows, ProcTypes DEF TypeOK
<1>1. UNCHANGED snap => SnapOK'
  BY <1>0 DEF SnapOK, Grows
<1>2. CASE SnapNext
  <2>1. CASE Create \/ Restore
    BY <2>1, <1>0 DEF Create, Restore, Begin, SnapOK, NoProc
  <2>2. CASE PopenDesk
    <3>1. Len(qemus) + 1 \in Procs' /\ Len(qemus) + 1 \in Nat
      BY <2>2, <1>0, PopenDeskDoes DEF Starts
    <3>2. snap' = [snap EXCEPT !.pc = "monitor", !.own = Len(qemus) + 1]
      BY <2>2 DEF PopenDesk
    <3> QED
      BY <3>1, <3>2, <1>0 DEF SnapOK, Grows
  <2>3. CASE WaitFrame \/ WaitExit \/ GiveUp
    BY <2>3, <1>0 DEF WaitFrame, WaitExit, GiveUp, SnapOK, Grows
  <2>4. CASE Tell
    BY <2>4, <1>0 DEF Tell, NextOf, SnapOK, Grows
  <2>5. CASE \E i \in Procs : WaitMonitor(i)
    <3>1. PICK i \in Procs : WaitMonitor(i)
      BY <2>5
    <3>2. i \in Nat
      BY <1>0, ProcTypes
    <3> QED
      BY <3>1, <3>2, <1>0 DEF WaitMonitor, SnapOK, Grows
  <2> QED
    BY <1>1, <1>2, <2>1, <2>2, <2>3, <2>4, <2>5, SnapCases DEF Drop, Rewrite, Draw, ServeStop, ServeSavevm
<1>3. ASSUME ~SnapNext PROVE UNCHANGED snap
  BY <1>3, NextCases, LifeEffect, LivesGrow, <1>0
     DEF UpNext, LogNext, WatchNext, ShotNext, SendNext
<1> QED
  BY <1>1, <1>2, <1>3

LEMMA PicTypes ==
  ASSUME TypeOK, PicInv, NEW i \in Procs, PicStep(i)
  PROVE  pics' \in [PicNames -> Pics]
<1>1. MachineOK /\ pics \in [PicNames -> Pics]
  BY DEF TypeOK, WatchOK
<1>2. Head(qemus[i].todo) \in Commands
  BY <1>1, PicQemus, ServingHas
<1>3. CASE RefusePic(i)
  BY <1>1, <1>3 DEF RefusePic, watchVars
<1>4. CASE ClosePic(i)
  <2> DEFINE c == Head(qemus[i].todo)
  <2>1. pics' = [pics EXCEPT ![c.to].whole = TRUE]
    BY <1>4 DEF ClosePic
  <2>2. \A p \in PicNames : [pics[p] EXCEPT !.whole = TRUE] \in Pics
    BY <1>1 DEF Pics
  <2> HIDE DEF c
  <2> QED
    BY <1>1, <2>1, <2>2
<1>5. CASE OpenPic(i)
  <2> DEFINE c == Head(qemus[i].todo)
  <2>1. PICK scr \in Screens : pics' = [pics EXCEPT ![c.to] = [req |-> c.req, whole |-> FALSE, scr |-> scr]]
    BY <1>5 DEF OpenPic
  <2>2. [req |-> c.req, whole |-> FALSE, scr |-> scr] \in Pics
    BY <1>2, WatchConstants DEF Pics, Commands
  <2> HIDE DEF c
  <2> QED
    BY <1>1, <2>1, <2>2
<1> QED
  BY <1>3, <1>4, <1>5 DEF PicStep

LEMMA VerdictOK ==
  ASSUME NEW pic
  PROVE  Verdict(pic) \in {"?", "FAIL", "PASS"}
BY DEF Verdict

LEMMA SubSeqOK ==
  ASSUME NEW S, NEW s \in Seq(S), NEW k \in Nat, k <= Len(s)
  PROVE  /\ From(s, k) \in Seq(S)
         /\ Len(From(s, k)) = Len(s) - k
         /\ \A j \in 1..(Len(s) - k) : From(s, k)[j] = s[k + j]
         /\ SubSeq(s, 1, k) \in Seq(S)
         /\ Len(SubSeq(s, 1, k)) = k
         /\ \A j \in 1..k : SubSeq(s, 1, k)[j] = s[j]
<1>1. Len(s) \in Nat
  OBVIOUS
<1>2. /\ SubSeq(s, k + 1, Len(s)) \in Seq(S)
      /\ Len(SubSeq(s, k + 1, Len(s))) = Len(s) - k
      /\ \A j \in 1..(Len(s) - k) : SubSeq(s, k + 1, Len(s))[j] = s[k + j]
  <2>1. k + 1 \in Int /\ \A j \in (k + 1)..Len(s) : s[j] \in S
    OBVIOUS
  <2> QED
    OBVIOUS
<1>3. /\ SubSeq(s, 1, k) \in Seq(S)
      /\ Len(SubSeq(s, 1, k)) = k
      /\ \A j \in 1..k : SubSeq(s, 1, k)[j] = s[j]
  OBVIOUS
<1> QED
  BY <1>2, <1>3 DEF From

LEMMA SpeakDoes ==
  ASSUME TypeOK, NEW i \in Procs, Speak(i)
  PROVE  /\ log' \in Seq(0..spoken')
         /\ Len(log') = at + 1
         /\ at' = at + 1
         /\ spoken' = spoken + 1 /\ spoken \in Nat /\ at \in Nat /\ spoken' <= MaxSpoken
         /\ Len(log) <= at /\ Len(log) \in Nat
         /\ \A k \in 1..Len(log) : log'[k] = log[k]
         /\ \A k \in (Len(log) + 1)..at : log'[k] = 0
         /\ log'[at + 1] = spoken + 1
<1>1. /\ log \in Seq(0..spoken) /\ at \in Nat /\ spoken \in 0..MaxSpoken /\ Len(log) <= at
      /\ Len(log) \in Nat /\ spoken \in Nat /\ spoken < MaxSpoken /\ MaxSpoken \in Nat
  BY WatchConstants DEF TypeOK, WatchOK, Speak
<1>2. /\ log' = [k \in 1..(at + 1) |-> IF k = at + 1 THEN spoken + 1
                                      ELSE IF k <= Len(log) THEN log[k] ELSE 0]
      /\ at' = at + 1 /\ spoken' = spoken + 1
  BY DEF Speak
<1>3. \A k \in 1..(at + 1) : (IF k = at + 1 THEN spoken + 1
                              ELSE IF k <= Len(log) THEN log[k] ELSE 0) \in 0..(spoken + 1)
  BY <1>1
<1>4. log' \in Seq(0..(spoken + 1)) /\ Len(log') = at + 1
  BY <1>1, <1>2, <1>3
<1> QED
  BY <1>1, <1>2, <1>4

LEMMA AskCount ==
  ASSUME TypeOK, NEW p \in Nat, Ask(p)
  PROVE  asked' = asked + 1 /\ asked' \in 0..MaxAsked /\ asked \in Nat
BY WatchConstants DEF TypeOK, WatchOK, Ask

UpSt == [pc : {"idle", "popen", "live", "follow"}, own : Nat, shown : Seq(Nat), pos : Nat]

WatchSt == [pc : {"idle", "alive", "dump", "look", "judge", "scan"},
            n : Nat, off : Nat, req : Nat, clean : BOOLEAN, judged : Pics,
            verdict : {"none", "?", "PASS", "FAIL"}]

LEMMA WatchParts ==
  ASSUME TypeOK
  PROVE  /\ WatchOK /\ MachineOK /\ MaxAsked \in Nat /\ asked \in Nat
         /\ up \in UpSt /\ watch \in WatchSt /\ watch.n \in Nat
         /\ log \in Seq(0..spoken) /\ Len(log) \in Nat /\ spoken \in Nat
         /\ NoPic \in Pics /\ 0 \in PicNames /\ pics \in [PicNames -> Pics]
<1>1. WatchOK /\ MachineOK /\ MaxAsked \in Nat /\ MaxSpoken \in Nat
  BY WatchConstants DEF TypeOK
<1>2. up \in UpSt /\ watch \in WatchSt
  BY <1>1 DEF WatchOK, UpSt, WatchSt
<1>3. asked \in Nat /\ log \in Seq(0..spoken) /\ spoken \in Nat /\ pics \in [PicNames -> Pics]
  BY <1>1 DEF WatchOK
<1>4. NoPic \in Pics
  BY WatchConstants DEF NoPic, Pics
<1> QED
  BY <1>1, <1>2, <1>3, <1>4 DEF PicNames, WatchSt

LEMMA WatchTypes ==
  ASSUME TypeOK, SnapControl, PicInv, Next
  PROVE  WatchOK'
<1>0. /\ WatchOK /\ MachineOK /\ MaxAsked \in Nat /\ asked \in Nat
      /\ up \in UpSt /\ watch \in WatchSt /\ watch.n \in Nat
      /\ log \in Seq(0..spoken) /\ Len(log) \in Nat /\ spoken \in Nat
      /\ NoPic \in Pics /\ 0 \in PicNames /\ pics \in [PicNames -> Pics]
  BY WatchParts
<1>u. ASSUME up' \in UpSt, UNCHANGED <<logVars, pics, asked, watch, shot, seen, cut, split>>
      PROVE  WatchOK'
  BY <1>0, <1>u DEF WatchOK, UpSt, logVars
<1>w. ASSUME watch' \in WatchSt, UNCHANGED <<logVars, pics, asked, up, shot, seen, cut, split>>
      PROVE  WatchOK'
  BY <1>0, <1>w DEF WatchOK, WatchSt, logVars
<1>1. UNCHANGED watchVars => WatchOK'
  BY <1>0 DEF WatchOK, watchVars, logVars
<1>2. CASE UpNext
  <2>1. CASE UpCheck
    <3>1. up' = [pc |-> "popen", own |-> 0, shown |-> <<>>, pos |-> 0]
          /\ UNCHANGED <<logVars, pics, asked, watch, shot, seen, cut, split>>
      BY <2>1 DEF UpCheck
    <3>2. up' \in UpSt
      BY <3>1 DEF UpSt
    <3> QED
      BY <3>1, <3>2, <1>u
  <2>2. CASE PopenRes
    <3>1. up' = [up EXCEPT !.pc = "live", !.own = Len(qemus) + 1]
          /\ UNCHANGED <<logVars, pics, asked, watch, shot, seen, cut, split>>
      BY <2>2 DEF PopenRes
    <3>2. up' \in UpSt
      BY <3>1, <1>0, ProcTypes DEF UpSt
    <3> QED
      BY <3>1, <3>2, <1>u
  <2>3. CASE ClearLog
    <3>1. /\ up' = [up EXCEPT !.pc = "follow"] /\ log' = <<>> /\ cut' = TRUE
          /\ UNCHANGED <<at, spoken, pics, asked, watch, shot, seen, split>>
      BY <2>3 DEF ClearLog
    <3>2. up' \in UpSt
      BY <3>1, <1>0 DEF UpSt
    <3>3. log' \in Seq(0..spoken') /\ Len(log') = 0
      BY <3>1
    <3> QED
      BY <3>1, <3>2, <3>3, <1>0 DEF WatchOK, UpSt
  <2>4. CASE UpEnd
    BY <2>4, <1>0, <1>u DEF UpEnd, UpSt
  <2> QED
    BY <1>2, <2>1, <2>2, <2>3, <2>4 DEF UpNext, UpStep
<1>3. CASE LogNext
  <2>1. CASE Follow
    <3>1. up' = [up EXCEPT !.shown = up.shown \o From(log, up.pos), !.pos = Len(log)]
          /\ Len(log) > up.pos /\ UNCHANGED <<logVars, pics, asked, watch, shot, seen, cut, split>>
      BY <2>1 DEF Follow
    <3>2. up.pos \in Nat /\ up.shown \in Seq(Nat)
      BY <1>0 DEF UpSt
    <3>3. From(log, up.pos) \in Seq(0..spoken)
      BY <3>1, <3>2, <1>0, SubSeqOK
    <3>4. From(log, up.pos) \in Seq(Nat)
      BY <1>0, <3>3
    <3>5. up.shown \o From(log, up.pos) \in Seq(Nat)
      BY <3>2, <3>4
    <3>6. up' \in UpSt
      BY <3>1, <3>5, <1>0 DEF UpSt
    <3> QED
      BY <3>1, <3>6, <1>u
  <2>2. ASSUME NEW i \in Procs, Speak(i) PROVE WatchOK'
    <3>1. log' \in Seq(0..spoken') /\ at' \in Nat /\ Len(log') <= at' /\ spoken' \in 0..MaxSpoken
      BY <2>2, SpeakDoes
    <3>2. UNCHANGED <<pics, asked, up, watch, shot, seen, cut, split>>
      BY <2>2 DEF Speak
    <3> QED
      BY <3>1, <3>2, <1>0 DEF WatchOK
  <2> QED
    BY <1>3, <2>1, <2>2 DEF LogNext, LogStep
<1>p. ASSUME NEW i \in Procs, PicStep(i) PROVE WatchOK'
  <2>1. pics' \in [PicNames -> Pics]
    BY <1>p, PicTypes
  <2>2. UNCHANGED <<logVars, asked, up, watch, shot, seen, cut, split>>
    BY <1>p DEF PicStep, OpenPic, ClosePic, RefusePic, watchVars
  <2> QED
    BY <2>1, <2>2, <1>0 DEF WatchOK, logVars
<1>4. CASE WatchNext
  <2>1. CASE WatchStart
    <3>1. /\ watch' = [watch EXCEPT !.pc = "alive", !.n = 0, !.off = 0, !.verdict = "none"]
          /\ seen' = [a \in Anomalies |-> 0] /\ cut' = FALSE /\ split' = {}
          /\ UNCHANGED <<logVars, pics, asked, up, shot>>
      BY <2>1 DEF WatchStart
    <3>2. watch' \in WatchSt
      BY <3>1, <1>0 DEF WatchSt
    <3> QED
      BY <3>1, <3>2, <1>0 DEF WatchOK, logVars, WatchSt
  <2>2. CASE WatchAlive
    <3>1. /\ \/ watch' = [watch EXCEPT !.pc = "idle"]
             \/ watch' = [watch EXCEPT !.pc = "dump", !.n = watch.n + 1]
          /\ UNCHANGED <<logVars, pics, asked, up, shot, seen, cut, split>>
      BY <2>2 DEF WatchAlive
    <3>2. watch.n + 1 \in Nat
      BY <1>0
    <3>3. watch' = [watch EXCEPT !.pc = "idle"] => watch' \in WatchSt
      BY <1>0 DEF WatchSt
    <3>4. watch' = [watch EXCEPT !.pc = "dump", !.n = watch.n + 1] => watch' \in WatchSt
      BY <3>2, <1>0 DEF WatchSt
    <3> QED
      BY <3>1, <3>3, <3>4, <1>w
  <2>3. CASE WatchDump
    <3>1. asked' \in 0..MaxAsked /\ asked' = asked + 1
      BY <2>3, <1>0, AskCount DEF WatchDump
    <3>2. Clean(watch.n) \in BOOLEAN
      BY DEF Clean
    <3> HIDE DEF Clean
    <3>3. watch' = [watch EXCEPT !.pc = "look", !.req = asked + 1, !.clean = Clean(watch.n)]
          /\ UNCHANGED <<logVars, pics, up, shot, seen, cut, split>>
      BY <2>3 DEF WatchDump
    <3>4. watch' \in WatchSt
      BY <3>2, <3>3, <1>0 DEF WatchSt
    <3> QED
      BY <3>1, <3>3, <3>4, <1>0 DEF WatchOK, logVars, WatchSt
  <2>4. CASE WatchLook \/ WatchEnd
    BY <2>4, <1>0, <1>w DEF WatchLook, WatchEnd, WatchSt
  <2>5. CASE WatchJudge
    <3>1. watch.n \in PicNames
      BY <2>5, <1>0 DEF WatchJudge, PicInv, PicNames, WatchOK
    <3>2. pics[watch.n] \in Pics
      BY <3>1, <1>0 DEF WatchOK
    <3>3. watch' = [watch EXCEPT !.pc = "scan", !.judged = pics[watch.n], !.verdict = Verdict(pics[watch.n])]
          /\ UNCHANGED <<logVars, pics, asked, up, shot, seen, cut, split>>
      BY <2>5 DEF WatchJudge
    <3> QED
      BY <3>2, <3>3, VerdictOK, <1>0, <1>w DEF WatchSt
  <2>6. CASE WatchScan
    <3>1. seen' = [a \in Anomalies |-> IF Has(From(log, watch.off), a) THEN seen[a] + 1 ELSE seen[a]]
          /\ split' = split \cup {a \in Anomalies : log # <<>> /\ log[Len(log)] = 2 * a - 1}
          /\ watch' = [watch EXCEPT !.pc = "alive", !.off = Len(log)]
          /\ UNCHANGED <<logVars, pics, asked, up, shot, cut>>
      BY <2>6 DEF WatchScan
    <3>2. seen' \in [Anomalies -> Nat]
      BY <3>1, <1>0 DEF WatchOK
    <3>3. split' \subseteq Anomalies
      BY <3>1, <1>0 DEF WatchOK
    <3>4. watch' \in WatchSt
      BY <3>1, <1>0 DEF WatchSt
    <3> QED
      BY <3>1, <3>2, <3>3, <3>4, <1>0 DEF WatchOK, logVars, WatchSt
  <2> QED
    BY <1>4, WatchCases, <2>1, <2>2, <2>3, <2>4, <2>5, <2>6, <1>p
<1>5. CASE ShotNext
  <2>1. CASE ShotAsk
    <3>1. asked' \in 0..MaxAsked /\ asked' = asked + 1
      BY <2>1, AskCount DEF ShotAsk
    <3>2. Clean(0) \in BOOLEAN
      BY DEF Clean
    <3>3. shot' = [pc |-> "look", req |-> asked + 1, clean |-> Clean(0), got |-> 0]
          /\ UNCHANGED <<logVars, pics, up, watch, seen, cut, split>>
      BY <2>1 DEF ShotAsk
    <3> HIDE DEF Clean
    <3> QED
      BY <3>1, <3>2, <3>3, <1>0 DEF WatchOK, logVars
  <2>2. CASE ShotLook
    <3>1. pics[0].req \in Nat
      BY <1>0 DEF WatchOK, Pics
    <3> QED
      BY <2>2, <3>1, <1>0 DEF ShotLook, WatchOK, logVars
  <2> QED
    BY <1>5, ShotCases, <2>1, <2>2, <1>p
<1>6. CASE LifeNext
  <2>1. PICK i \in Procs : BindOne(i) \/ Lost(i) \/ QuitOne(i)
    BY <1>6 DEF LifeNext
  <2>2. ASSUME NEW ok \in BOOLEAN, BindRes(i, ok) PROVE WatchOK'
    BY <2>2, <1>0 DEF BindRes, WatchOK
  <2> QED
    BY <1>1, <2>1, <2>2 DEF BindOne, Lost, QuitOne
<1> QED
  BY NextCases, <1>1, <1>2, <1>3, <1>4, <1>5, <1>6 DEF SnapNext, SendNext

SndSt == [tool : {"sendfile", "serx"},
          pc : {"idle", "hello", "login", "auth", "rm", "chunk", "verdict", "cmd"},
          k : 0..Chunks, prompt : {"none", "login:", "Password", "$"},
          sum : {"none", "same", "other"},
          end : {"none", "sent", "failed", "printed"}, own : BOOLEAN]

LEMMA LinesOK ==
  /\ \A do \in {"^C", "nl", "name", "rm", "sum", "tidy", "cmd"} : Line(do) \in Lines /\ Line(do).do = do
  /\ \A k \in 0..Chunks : Chunk(k) \in Lines /\ Chunk(k).do = "chunk"
BY SendConstants DEF Line, Chunk, Lines

\* The prompts, and what showing one leaves alone.
LEMMA ShowsOK ==
  ASSUME SendOK, NEW p \in {"login:", "Password", "$"}, Shows(p)
  PROVE  snd' \in SndSt
BY DEF SendOK, SndSt, Shows

LEMMA AtOK ==
  ASSUME SendOK, NEW state \in {"login", "password", "wrong", "shell"}, At(state)
  PROVE  snd' \in SndSt /\ guest' = state
BY ShowsOK DEF At, PromptOf

LEMMA TypeLine ==
  ASSUME SendOK, NEW line \in Lines, Type(line)
  PROVE  wire' \in Seq(Lines)
BY DEF SendOK, Type

LEMMA LoginCases ==
  ASSUME Login
  PROVE  \/ guest = "login" /\ \/ Head(tty).do = "nl" /\ At("login")
                               \/ Head(tty).do = "name" /\ At("password")
                               \/ Head(tty).do \notin {"nl", "name"} /\ At("wrong")
         \/ guest = "password" /\ \/ Head(tty).do = "name" /\ At("shell")
                                  \/ Head(tty).do # "name" /\ At("login")
         \/ guest = "wrong" /\ At("login")
BY DEF Login

LEMMA ConsoleTypes ==
  ASSUME SendOK, Arrive \/ Login \/ Shell \/ PrintSum
  PROVE  SendOK'
<1>0. /\ wire \in Seq(Lines) /\ tty \in Seq(Lines) /\ snd \in SndSt /\ Bad \in 0..Chunks
      /\ Line("nl") \in Lines
  BY SendConstants, LinesOK DEF SendOK, SndSt, Bad
<1>1. CASE Arrive
  <2>1. wire # <<>> /\ Head(wire) \in Lines /\ wire' = Tail(wire) /\ wire' \in Seq(Lines)
    BY <1>1, <1>0 DEF Arrive
  <2>2. UNCHANGED <<b64, remote, sends, lost>>
    BY <1>1 DEF Arrive
  <2>3. CASE Head(wire).do = "^C"
    <3>1. tty' = <<>> /\ (At("shell") \/ At("login"))
      BY <1>1, <2>3 DEF Arrive
    <3>2. snd' \in SndSt /\ guest' \in {"shell", "login"}
      BY <3>1, AtOK
    <3> QED
      BY <2>1, <2>2, <3>1, <3>2 DEF SendOK, SndSt
  <2>4. CASE Head(wire).do # "^C"
    <3>1. tty' = Append(tty, Head(wire)) /\ UNCHANGED <<guest, snd>>
      BY <1>1, <2>4 DEF Arrive
    <3>2. tty' \in Seq(Lines)
      BY <3>1, <2>1, <1>0
    <3> QED
      BY <2>1, <2>2, <3>1, <3>2 DEF SendOK
  <2> QED
    BY <2>3, <2>4
<1>2. CASE Login
  <2>1. tty' \in Seq(Lines) /\ UNCHANGED <<wire, b64, remote, sends, lost>>
    BY <1>2, <1>0 DEF Login
  <2>2. At("login") \/ At("password") \/ At("wrong") \/ At("shell")
    BY <1>2, LoginCases
  <2>3. snd' \in SndSt /\ guest' \in {"login", "password", "wrong", "shell"}
    BY <2>2, AtOK
  <2> QED
    BY <2>1, <2>3 DEF SendOK, SndSt
<1>3. CASE Shell
  <2>1. tty # <<>> /\ tty' = Tail(tty) /\ Head(tty) \in Lines /\ tty' \in Seq(Lines)
    BY <1>3, <1>0 DEF Shell
  <2>2. Head(tty).of \in 0..Chunks
    BY <2>1 DEF Lines
  <2>3. b64' \in {<<>>, Append(b64, Head(tty).of), b64} /\ remote' \in {<<>>, b64, remote}
    BY <1>3 DEF Shell
  <2>4. b64' \in Seq(0..Chunks) /\ remote' \in Seq(0..Chunks)
    <3>1. b64 \in Seq(0..Chunks) /\ remote \in Seq(0..Chunks)
      BY DEF SendOK
    <3>2. Append(b64, Head(tty).of) \in Seq(0..Chunks) /\ <<>> \in Seq(0..Chunks)
      BY <2>2, <3>1
    <3> QED
      BY <2>3, <3>1, <3>2
  <2>5. UNCHANGED <<wire, sends, lost>> /\ ((guest' = "sum" /\ UNCHANGED snd) \/ At("shell"))
    BY <1>3 DEF Shell
  <2>6. snd' \in SndSt /\ guest' \in {"sum", "shell"}
    BY <2>5, <1>0, AtOK
  <2> QED
    BY <2>1, <2>4, <2>5, <2>6 DEF SendOK, SndSt
<1>4. CASE PrintSum
  <2> DEFINE s == IF snd.pc = "verdict" /\ snd.sum = "none"
                  THEN (IF remote = Local THEN "same" ELSE "other") ELSE snd.sum
  <2>1. s \in {"none", "same", "other"}
    BY <1>0 DEF SndSt
  <2>2. /\ guest' = "shell" /\ UNCHANGED <<wire, tty, b64, remote, sends, lost>>
        /\ snd' = IF snd.pc = "idle" THEN snd ELSE [snd EXCEPT !.prompt = "$", !.sum = s]
    BY <1>4 DEF PrintSum
  <2> HIDE DEF s
  <2>3. [snd EXCEPT !.prompt = "$", !.sum = s] \in SndSt
    BY <2>1, <1>0 DEF SndSt
  <2>4. snd' \in SndSt
    BY <2>2, <2>3, <1>0
  <2> QED
    BY <2>2, <2>4 DEF SendOK, SndSt
<1> QED
  BY <1>1, <1>2, <1>3, <1>4

\* A step of the script: what becomes of the session and of the wire.
LEMMA ScriptTypes ==
  ASSUME SendOK, snd' \in SndSt, wire' \in Seq(Lines), sends' \in 0..MaxSends, HostStep
  PROVE  SendOK'
BY DEF SendOK, SndSt, HostStep

ScriptStep ==
  \/ \E tool \in {"sendfile", "serx"} : Hello(tool)
  \/ Look \/ LogIn \/ NoLogin \/ RunRm \/ RunChunk \/ RunSum \/ Sent \/ NotSent
  \/ RunCmd \/ Leave

LEMMA ScriptOK ==
  ASSUME SendOK, ScriptStep
  PROVE  SendOK'
<1>0. /\ wire \in Seq(Lines) /\ snd \in SndSt /\ sends \in 0..MaxSends /\ snd.k \in 0..Chunks
      /\ Chunks \in Nat /\ MaxSends \in Nat
  BY SendConstants DEF SendOK, SndSt
<1>1. HostStep
  BY DEF ScriptStep, Hello, Look, LogIn, NoLogin, RunRm, RunChunk, RunSum, Sent, NotSent, RunCmd, Leave
<1>2. ASSUME NEW tool \in {"sendfile", "serx"}, Hello(tool) PROVE SendOK'
  <2> DEFINE o == guest # "sum" /\ \A j \in DOMAIN Pending : Pending[j].do # "sum"
  <2>1. o \in BOOLEAN
    OBVIOUS
  <2>2. /\ wire' = wire \o <<Line("^C"), Line("nl")>>
        /\ snd' = [tool |-> tool, pc |-> "hello", k |-> 0, prompt |-> "none", sum |-> "none",
                   end |-> "none", own |-> o]
        /\ sends' = sends + 1 /\ sends < MaxSends
    BY <1>2 DEF Hello
  <2> HIDE DEF o
  <2>3. snd' \in SndSt
    BY <2>1, <2>2, <1>0 DEF SndSt
  <2>4. <<Line("^C"), Line("nl")>> \in Seq(Lines)
    BY LinesOK
  <2>5. wire' \in Seq(Lines) /\ sends' \in 0..MaxSends
    BY <2>2, <2>4, <1>0
  <2> QED
    BY <2>3, <2>5, <1>1, ScriptTypes
<1>3. CASE Look
  <2>1. [snd EXCEPT !.pc = IF snd.prompt = "$" THEN First(snd.tool) ELSE "login"] \in SndSt
    BY <1>0 DEF SndSt, First
  <2> QED
    BY <1>3, <2>1, <1>0, <1>1, ScriptTypes DEF Look
<1>4. CASE LogIn
  <2>0. wire' = wire \/ Type(Line("name"))
    BY <1>4 DEF LogIn
  <2>1. wire' \in Seq(Lines)
    BY <2>0, <1>0, LinesOK, TypeLine
  <2>2. snd' \in SndSt
    BY <1>4, <1>0 DEF LogIn, SndSt, First
  <2>3. sends' = sends
    BY <1>4 DEF LogIn
  <2> QED
    BY <2>1, <2>2, <2>3, <1>0, <1>1, ScriptTypes
<1>5. CASE NoLogin \/ NotSent \/ Leave
  <2>1. wire' = wire /\ sends' = sends
    BY <1>5 DEF NoLogin, NotSent, Leave
  <2>2. snd' = [snd EXCEPT !.pc = "idle", !.end = "failed"] \/ snd' = [snd EXCEPT !.pc = "idle"]
    BY <1>5 DEF NoLogin, NotSent, Leave, Failed
  <2>3. snd' \in SndSt
    BY <2>2, <1>0 DEF SndSt
  <2> QED
    BY <2>1, <2>3, <1>0, <1>1, ScriptTypes
<1>6. CASE RunRm \/ RunSum \/ Sent \/ RunCmd
  <2>0. (\E do \in {"rm", "sum", "tidy", "cmd"} : Type(Line(do))) /\ sends' = sends
    BY <1>6 DEF RunRm, RunSum, Sent, RunCmd
  <2>1. wire' \in Seq(Lines) /\ sends' = sends
    BY <2>0, LinesOK, TypeLine
  <2>2. snd' \in SndSt
    BY <1>6, <1>0 DEF RunRm, RunSum, Sent, RunCmd, SndSt
  <2> QED
    BY <2>1, <2>2, <1>0, <1>1, ScriptTypes
<1>7. CASE RunChunk
  <2>1. snd.k + 1 \in 0..Chunks /\ wire' = Append(wire, Chunk(snd.k + 1)) /\ sends' = sends
        /\ snd' = [snd EXCEPT !.k = snd.k + 1]
    BY <1>7, <1>0 DEF RunChunk, Type
  <2>2. wire' \in Seq(Lines)
    BY <2>1, <1>0, LinesOK
  <2>3. snd' \in SndSt
    BY <2>1, <1>0 DEF SndSt
  <2> QED
    BY <2>1, <2>2, <2>3, <1>0, <1>1, ScriptTypes
<1> QED
  BY <1>2, <1>3, <1>4, <1>5, <1>6, <1>7 DEF ScriptStep

LEMMA LoseTypes ==
  ASSUME SendOK, NEW garbled \in BOOLEAN, Lose(garbled)
  PROVE  SendOK'
<1>0. wire \in Seq(Lines) /\ tty \in Seq(Lines) /\ Chunk(Bad) \in Lines /\ MaxLost \in Nat
  BY SendConstants, LinesOK DEF SendOK, Bad
<1>1. wire # <<>> /\ wire' = Tail(wire) /\ wire' \in Seq(Lines)
  BY <1>0 DEF Lose
<1>2. tty' \in {tty, Append(tty, Chunk(Bad))}
  BY DEF Lose
<1>3. tty' \in Seq(Lines)
  BY <1>0, <1>2
<1>4. lost' \in 0..MaxLost
  BY <1>0 DEF Lose, SendOK
<1> QED
  BY <1>1, <1>3, <1>4 DEF Lose, SendOK

LEMMA SendCases ==
  ASSUME SendNext
  PROVE  /\ UNCHANGED <<qemus, base, overlay, breaks>>
         /\ \/ Arrive \/ Login \/ Shell \/ PrintSum
            \/ \E garbled \in BOOLEAN : Lose(garbled)
            \/ ScriptStep
<1>1. Arrive \/ Login \/ Shell \/ PrintSum \/ (\E garbled \in BOOLEAN : Lose(garbled)) \/ ScriptStep
  BY DEF SendNext, SendStep, ScriptStep
<1>2. ScriptStep => HostStep
  BY DEF ScriptStep, Hello, Look, LogIn, NoLogin, RunRm, RunChunk, RunSum, Sent, NotSent, RunCmd, Leave
<1> QED
  BY <1>1, <1>2 DEF Arrive, Login, Shell, PrintSum, Lose, HostStep, machineVars

LEMMA SendTypes ==
  ASSUME TypeOK, Next
  PROVE  SendOK'
<1>0. SendOK /\ MachineOK
  BY DEF TypeOK
<1>1. UNCHANGED sendVars => SendOK'
  BY <1>0 DEF SendOK, sendVars, guestVars
<1>2. CASE SendNext
  BY <1>2, <1>0, SendCases, ConsoleTypes, LoseTypes, ScriptOK
<1>3. CASE LifeNext
  <2>1. GuestUp \/ GuestDown \/ UNCHANGED sendVars
    BY <1>3 DEF LifeNext, BindOne, Lost, QuitOne
  <2>2. GuestUp => SendOK'
    BY <1>0 DEF SendOK, GuestUp
  <2>3. ASSUME GuestDown PROVE SendOK'
    <3>1. snd' \in SndSt
      BY <1>0, <2>3 DEF GuestDown, SendOK, SndSt
    <3>2. wire' \in Seq(Lines) /\ tty' \in Seq(Lines)
      BY <2>3 DEF GuestDown
    <3> QED
      BY <1>0, <2>3, <3>1, <3>2 DEF SendOK, GuestDown, SndSt
  <2> QED
    BY <1>1, <2>1, <2>2, <2>3
<1> QED
  BY NextCases, <1>1, <1>2, <1>3 DEF SnapNext, UpNext, LogNext, WatchNext, ShotNext

LEMMA TypesKept ==
  ASSUME TypeOK, SnapControl, PicInv, Next
  PROVE  TypeOK'
BY MachineTypes, SnapTypes, WatchTypes, SendTypes, NextCases DEF TypeOK

-----------------------------------------------------------------------------
(* The machines and the console.                                             *)

LEMMA NewTodo ==
  ASSUME NEW S, NEW s \in Seq(S), NEW c \in S
  PROVE  /\ DOMAIN Append(s, c) = DOMAIN s \cup {Len(s) + 1}
         /\ Append(s, c)[Len(s) + 1] = c
         /\ \A k \in DOMAIN s : Append(s, c)[k] = s[k]
         /\ DOMAIN s = 1..Len(s) /\ Len(s) \in Nat
<1>1. /\ Append(s, c) \in Seq(S)
      /\ Len(Append(s, c)) = Len(s) + 1
      /\ \A i \in 1..Len(s) : Append(s, c)[i] = s[i]
      /\ Append(s, c)[Len(s) + 1] = c
  BY AppendProperties
<1>2. DOMAIN Append(s, c) = 1..(Len(s) + 1) /\ DOMAIN s = 1..Len(s) /\ Len(s) \in Nat
  BY <1>1
<1> QED
  BY <1>1, <1>2

LEMMA TodoTypes ==
  ASSUME MachineOK
  PROVE  \A i \in Procs : qemus[i].todo \in Seq(Commands)
BY ProcTypes DEF Qemus

\* One part of ProcInv, for one machine.
ProcOK(m) ==
  /\ m.st = "new" => m.todo = <<>> /\ ~m.frame
  /\ \A k \in DOMAIN m.todo :
       /\ m.kind = "res" <=> m.todo[k].do = "screendump"
       /\ m.todo[k].do = "savevm" => m.frame

LEMMA ProcKept ==
  ASSUME SimInv, Next
  PROVE  ProcInv'
<1>0. MachineOK /\ SnapControl /\ (\A i \in Procs : ProcOK(qemus[i]))
      /\ (\A i, j \in Procs : Up(i) /\ Up(j) => i = j)
  BY DEF SimInv, TypeOK, SnapInv, ProcInv, ProcOK
<1>t. IF LifeNext THEN Lives ELSE Works
  BY Effects DEF SimInv, SnapInv
<1>1. ASSUME Works PROVE \A i \in Procs' : ProcOK(qemus'[i])
  <2>1. CASE UNCHANGED qemus
    BY <2>1, <1>0 DEF Procs
  <2>2. CASE Spawns
    <3> DEFINE n == Len(qemus) + 1
    <3>1. /\ Procs' = Procs \cup {n} /\ \A j \in Procs : qemus'[j] = qemus[j]
          /\ qemus'[n].todo = <<>> /\ qemus'[n].frame = FALSE
      BY <2>2, <1>0, SpawnsNew
    <3>2. DOMAIN qemus'[n].todo = {}
      BY <3>1
    <3>3. ProcOK(qemus'[n])
      BY <3>1, <3>2 DEF ProcOK
    <3> HIDE DEF n, ProcOK
    <3> QED
      BY <3>1, <3>3, <1>0
  <2>3. CASE Drops
    BY <2>3, <1>0 DEF Drops, ProcOK
  <2>4. ASSUME NEW i \in Procs, Draws(i) PROVE \A j \in Procs' : ProcOK(qemus'[j])
    BY <2>4, <1>0 DEF Draws, Turns, ProcOK, Up
  <2>5. ASSUME NEW i \in Procs, NEW c \in Commands, Up(i),
               Turns(i, "up", qemus[i].frame, Append(qemus[i].todo, c)),
               qemus[i].kind = "res" <=> c.do = "screendump",
               c.do = "savevm" => qemus[i].frame
        PROVE  \A j \in Procs' : ProcOK(qemus'[j])
    <3>1. qemus[i].todo \in Seq(Commands)
      BY <1>0, TodoTypes
    <3>2. ProcOK(qemus'[i])
      BY <2>5, <3>1, <1>0, NewTodo DEF Turns, ProcOK
    <3> QED
      BY <2>5, <3>2, <1>0 DEF Turns
  <2>6. ASSUME NEW i \in Procs, TakesIn(i) PROVE \A j \in Procs' : ProcOK(qemus'[j])
    <3> DEFINE c == [do |-> snap.pc, to |-> 0, req |-> 0]
    <3>1. snap.pc \in {"stop", "savevm", "quit"} /\ c \in Commands /\ c.do = snap.pc
      BY <2>6, <1>0, TellDoes DEF TakesIn
    <3>2. Up(i) /\ i = snap.conn /\ Turns(i, "up", qemus[i].frame, Append(qemus[i].todo, c))
      BY <2>6 DEF TakesIn
    <3>3. qemus[i].kind = "desk" /\ qemus[i].frame
      BY <3>1, <3>2, <1>0 DEF SnapControl, Connected, Saving
    <3> HIDE DEF c
    <3> QED
      BY <3>1, <3>2, <3>3, <2>5
  <2>7. ASSUME NEW i \in Procs, NEW p \in Nat, TakesAsk(i, p) PROVE \A j \in Procs' : ProcOK(qemus'[j])
    <3>1. Turns(i, "up", qemus[i].frame,
                Append(qemus[i].todo, [do |-> "screendump", to |-> p, req |-> asked + 1]))
      BY <2>7 DEF TakesAsk
    <3> DEFINE c == [do |-> "screendump", to |-> p, req |-> asked + 1]
    <3>2. c \in Commands /\ c.do = "screendump"
      BY WatchParts DEF SimInv, Commands
    <3>3. Up(i) /\ qemus[i].kind = "res"
      BY <2>7 DEF TakesAsk, Answering
    <3>4. Turns(i, "up", qemus[i].frame, Append(qemus[i].todo, c))
      BY <3>1
    <3> HIDE DEF c
    <3> QED
      BY <3>2, <3>3, <3>4, <2>5
  <2>8. ASSUME NEW i \in Procs, Serves(i) PROVE \A j \in Procs' : ProcOK(qemus'[j])
    <3>1. PICK what \in {"stop", "savevm", "screendump"} :
            Serving(i, what) /\ Turns(i, "up", qemus[i].frame, Tail(qemus[i].todo))
      BY <2>8 DEF Serves
    <3>2. ProcOK(qemus'[i])
      BY <3>1, <1>0, ServingHas DEF Turns, ProcOK
    <3> QED
      BY <3>1, <3>2, <1>0 DEF Turns
  <2> QED
    BY <1>1, <2>1, <2>2, <2>3, <2>4, <2>6, <2>7, <2>8 DEF Works
<1>2. ASSUME Works PROVE \A i, j \in Procs' : qemus'[i].st = "up" /\ qemus'[j].st = "up" => i = j
  <2>1. /\ \A i \in Procs : qemus'[i].st = qemus[i].st
        /\ \A i \in Procs' \ Procs : qemus'[i].st = "new"
    BY <1>2, <1>0, WorksGrow
  <2> QED
    BY <2>1, <1>0 DEF Up
<1>3. ASSUME Lives
      PROVE  /\ \A i \in Procs' : ProcOK(qemus'[i])
             /\ \A i, j \in Procs' : qemus'[i].st = "up" /\ qemus'[j].st = "up" => i = j
  <2>1. ASSUME NEW i \in Procs, NEW ok \in BOOLEAN, Binds(i, ok)
        PROVE  /\ \A j \in Procs' : ProcOK(qemus'[j])
               /\ \A j, k \in Procs' : qemus'[j].st = "up" /\ qemus'[k].st = "up" => j = k
    <3>1. PICK frame \in BOOLEAN : Turns(i, IF ok THEN "up" ELSE "gone", frame, qemus[i].todo)
      BY <2>1 DEF Binds
    <3>2. qemus[i].st = "new" /\ qemus[i].todo = <<>> /\ (ok => PortFree)
      BY <2>1, <1>0 DEF Binds, ProcOK
    <3>3. ProcOK(qemus'[i])
      BY <3>1, <3>2 DEF Turns, ProcOK
    <3>4. \A j, k \in Procs' : qemus'[j].st = "up" /\ qemus'[k].st = "up" => j = k
      BY <3>1, <3>2, <1>0 DEF Turns, PortFree, Up
    <3> QED
      BY <3>1, <3>3, <3>4, <1>0 DEF Turns
  <2>2. ASSUME NEW i \in Procs, Dies(i)
        PROVE  /\ \A j \in Procs' : ProcOK(qemus'[j])
               /\ \A j, k \in Procs' : qemus'[j].st = "up" /\ qemus'[k].st = "up" => j = k
    BY <2>2, <1>0 DEF Dies, Turns, ProcOK, Up
  <2>3. ASSUME NEW i \in Procs, Quits(i)
        PROVE  /\ \A j \in Procs' : ProcOK(qemus'[j])
               /\ \A j, k \in Procs' : qemus'[j].st = "up" /\ qemus'[k].st = "up" => j = k
    <3>1. Serving(i, "quit") /\ Turns(i, "gone", qemus[i].frame, Tail(qemus[i].todo))
      BY <2>3 DEF Quits
    <3>2. ProcOK(qemus'[i])
      BY <3>1, <1>0, ServingHas DEF Turns, ProcOK
    <3>3. \A j, k \in Procs' : qemus'[j].st = "up" /\ qemus'[k].st = "up" => j = k
      BY <3>1, <1>0 DEF Turns, Up
    <3> QED
      BY <3>1, <3>2, <3>3, <1>0 DEF Turns
  <2> QED
    BY <1>3, <2>1, <2>2, <2>3 DEF Lives
<1>4. (\A i \in Procs' : ProcOK(qemus'[i]))
      /\ \A i, j \in Procs' : qemus'[i].st = "up" /\ qemus'[j].st = "up" => i = j
  BY <1>t, <1>1, <1>2, <1>3
<1> QED
  BY <1>4 DEF ProcInv, ProcOK, Up

\* The other tools leave the console alone, and no session begins with them.
LEMMA OtherTools ==
  ASSUME SimInv, Next, ~LifeNext, ~SendNext
  PROVE  UNCHANGED sendVars /\ ("send" \in calm' => "send" \in calm)
<1>0. MachineOK
  BY DEF SimInv, TypeOK
<1>1. SnapNext \/ UpNext \/ LogNext \/ WatchNext \/ ShotNext => UNCHANGED sendVars
  BY DEF SnapNext, UpNext, LogNext, WatchNext, ShotNext
<1>2. \A session \in {"snap", "up"} : "send" \in Begun(session) => "send" \in calm
  BY DEF Begun
<1>3. SnapNext => ("send" \in calm' => "send" \in calm)
  BY <1>2, SnapCases DEF Create, Restore, Begin, PopenDesk, WaitFrame, Tell, WaitExit, GiveUp, Drop, Rewrite,
         WaitMonitor, Draw, ServeStop, ServeSavevm, machineVars
<1>4. UpNext => ("send" \in calm' => "send" \in calm)
  BY <1>2 DEF UpNext, UpStep, UpCheck, PopenRes, ClearLog, UpEnd, machineVars
<1>5. LogNext => calm' = calm
  BY DEF LogNext, LogStep, Follow, Speak, machineVars
<1>6. ASSUME NEW i \in Procs, PicStep(i) PROVE calm' = calm
  BY <1>6, PicQemus, <1>0
<1>7. WatchNext => calm' = calm
  BY <1>6, WatchCases DEF WatchStart, WatchAlive, WatchDump, WatchLook, WatchJudge, WatchScan,
         WatchEnd, Ask, machineVars
<1>8. ShotNext => calm' = calm
  BY <1>6, ShotCases DEF ShotAsk, ShotLook, Ask, machineVars
<1> QED
  BY NextCases, <1>1, <1>3, <1>4, <1>5, <1>7, <1>8

LEMMA ConsoleKept ==
  ASSUME SimInv, Next
  PROVE  ConsoleInv'
<1>0. /\ MachineOK /\ SendOK /\ ConsoleInv
      /\ \A i, j \in Procs : Up(i) /\ Up(j) => i = j
  BY DEF SimInv, TypeOK, ProcInv
<1>1. ASSUME ~LifeNext PROVE PortFree' <=> PortFree
  <2>1. Works
    BY <1>1, Effects DEF SimInv, SnapInv
  <2> QED
    BY <2>1, <1>0, WorksGrow DEF PortFree, Up, Grows
<1>2. ASSUME SendNext PROVE (guest' = "down" <=> guest = "down") /\ (guest = "down" => "send" \notin calm')
  <2>1. CASE Arrive \/ Login \/ Shell \/ PrintSum
    <3>1. calm' = calm
      BY <2>1 DEF Arrive, Login, Shell, PrintSum, machineVars
    <3>2. guest # "down"
      BY <2>1 DEF Arrive, Login, Shell, PrintSum
    <3>3. guest' # "down"
      BY <2>1, <3>2 DEF Arrive, Login, Shell, PrintSum, At
    <3> QED
      BY <3>2, <3>3
  <2>2. CASE \E garbled \in BOOLEAN : Lose(garbled)
    BY <2>2, <1>0 DEF Lose, ConsoleInv
  <2>3. CASE ScriptStep
    <3>1. guest' = guest
      BY <2>3 DEF ScriptStep, Hello, Look, LogIn, NoLogin, RunRm, RunChunk, RunSum, Sent, NotSent, RunCmd, Leave, HostStep
    <3>2. guest = "down" => calm' \subseteq calm
      BY <2>3 DEF ScriptStep, Hello, Look, LogIn, NoLogin, RunRm, RunChunk, RunSum, Sent, NotSent, RunCmd, Leave, Late
    <3> QED
      BY <3>1, <3>2, <1>0 DEF ConsoleInv
  <2> QED
    BY <1>2, SendCases, <2>1, <2>2, <2>3
<1>3. ASSUME ~LifeNext PROVE ConsoleInv'
  <2>1. SendNext \/ (guest' = guest /\ ("send" \in calm' => "send" \in calm))
    BY <1>3, OtherTools DEF sendVars, guestVars
  <2> QED
    BY <2>1, <1>1, <1>2, <1>3, <1>0 DEF ConsoleInv
<1>4. ASSUME LifeNext PROVE ConsoleInv'
  <2>1. PICK i \in Procs : (\E ok \in BOOLEAN : Binds(i, ok)) \/ Dies(i) \/ Quits(i)
    BY <1>4, <1>0, LifeEffect DEF Lives
  <2>2. CASE \E ok \in BOOLEAN : Binds(i, ok)
    <3>1. PICK ok \in BOOLEAN : Binds(i, ok)
      BY <2>2
    <3>2. PICK frame \in BOOLEAN : Turns(i, IF ok THEN "up" ELSE "gone", frame, qemus[i].todo)
      BY <3>1 DEF Binds
    <3>3. qemus[i].st = "new" /\ calm' = calm
          /\ (ok => PortFree /\ guest' = "login") /\ (~ok => guest' = guest)
      BY <3>1 DEF Binds, GuestUp, sendVars, guestVars
    <3>4. CASE ok
      BY <3>2, <3>3, <3>4, <1>0 DEF ConsoleInv, PortFree, Up, Turns
    <3>5. CASE ~ok
      BY <3>2, <3>3, <3>5, <1>0 DEF ConsoleInv, PortFree, Up, Turns
    <3> QED
      BY <3>4, <3>5
  <2>3. CASE Dies(i)
    <3>1. Turns(i, "gone", qemus[i].frame, qemus[i].todo) /\ calm' = {}
          /\ IF Up(i) THEN guest' = "down" ELSE guest' = guest
      BY <2>3 DEF Dies, GuestDown, sendVars, guestVars
    <3> QED
      BY <3>1, <1>0 DEF ConsoleInv, PortFree, Up, Turns
  <2>4. CASE Quits(i)
    <3>1. Turns(i, "gone", qemus[i].frame, Tail(qemus[i].todo)) /\ calm' = calm \ {"send"}
          /\ Up(i) /\ guest' = "down"
      BY <2>4 DEF Quits, GuestDown, Serving
    <3> QED
      BY <3>1, <1>0 DEF ConsoleInv, PortFree, Up, Turns
  <2> QED
    BY <2>1, <2>2, <2>3, <2>4
<1> QED
  BY <1>3, <1>4

-----------------------------------------------------------------------------
(* snapshot.py.                                                              *)

\* What the other tools do to snapshot.py's machines: nothing.
DeskSame ==
  /\ UNCHANGED <<snap, base, overlay>>
  /\ "snap" \in calm' => "snap" \in calm
  /\ Procs \subseteq Procs'
  /\ \A i \in Procs : /\ qemus'[i].kind = qemus[i].kind
                      /\ qemus[i].kind = "desk" => qemus'[i] = qemus[i]
  /\ \A i \in Procs' \ Procs : qemus'[i].kind = "res"

LEMMA OthersSame ==
  ASSUME SimInv, UpNext \/ LogNext \/ WatchNext \/ ShotNext \/ SendNext
  PROVE  DeskSame
<1>0. MachineOK /\ ProcInv /\ asked \in Nat /\ watch.n \in Nat
  BY WatchParts DEF SimInv, TypeOK
<1>1. snap' = snap
  BY DEF UpNext, LogNext, WatchNext, ShotNext, SendNext
<1>2. ASSUME UNCHANGED qemus
      PROVE  /\ Procs \subseteq Procs'
             /\ \A i \in Procs : /\ qemus'[i].kind = qemus[i].kind
                                 /\ qemus[i].kind = "desk" => qemus'[i] = qemus[i]
             /\ \A i \in Procs' \ Procs : qemus'[i].kind = "res"
  BY <1>2 DEF Procs
<1>3. ASSUME NEW i \in Procs, qemus[i].kind = "res", NEW frame, NEW todo, Turns(i, "up", frame, todo)
      PROVE  /\ Procs \subseteq Procs'
             /\ \A j \in Procs : /\ qemus'[j].kind = qemus[j].kind
                                 /\ qemus[j].kind = "desk" => qemus'[j] = qemus[j]
             /\ \A j \in Procs' \ Procs : qemus'[j].kind = "res"
  BY <1>3 DEF Turns
<1>4. ASSUME NEW p \in Nat, Ask(p), snap' = snap PROVE DeskSame
  <2>1. PICK i \in Procs : TakesAsk(i, p)
    BY <1>4, <1>0, AskEffect
  <2>2. UNCHANGED <<base, overlay, calm>>
    BY <1>4 DEF Ask
  <2> QED
    BY <2>1, <2>2, <1>1, <1>3 DEF TakesAsk, Answering, DeskSame
<1>5. ASSUME NEW i \in Procs, PicStep(i), snap' = snap PROVE DeskSame
  <2>1. Serving(i, "screendump") /\ (UNCHANGED qemus \/ Turns(i, "up", qemus[i].frame, Tail(qemus[i].todo)))
    BY <1>5, <1>0, PicEffect
  <2>2. 1 \in DOMAIN qemus[i].todo /\ qemus[i].todo[1].do = "screendump"
    BY <2>1, <1>0, ServingHas
  <2>3. qemus[i].kind = "res"
    BY <2>2, <1>0 DEF ProcInv
  <2>4. UNCHANGED <<base, overlay, calm>>
    BY <1>5, <1>0, PicQemus
  <2> QED
    BY <2>1, <2>3, <2>4, <1>1, <1>2, <1>3 DEF DeskSame
<1>6. CASE UpNext
  <2>1. CASE PopenRes
    <3>1. Starts(Spawned("res", FALSE)) /\ UNCHANGED <<base, overlay, calm>>
      BY <2>1, <1>0, PopenResDoes DEF PopenRes
    <3>2. Spawned("res", FALSE).kind = "res"
      BY SpawnedOK
    <3> QED
      BY <1>1, <3>1, <3>2 DEF Starts, DeskSame
  <2>2. CASE UpCheck
    <3>1. "snap" \in calm' => "snap" \in calm
      BY <2>2 DEF UpCheck, Begun
    <3> QED
      BY <2>2, <3>1, <1>1, <1>2 DEF UpCheck, DeskSame
  <2>3. CASE ClearLog \/ UpEnd
    BY <2>3, <1>1, <1>2 DEF ClearLog, UpEnd, machineVars, DeskSame
  <2> QED
    BY <1>6, <2>1, <2>2, <2>3 DEF UpNext, UpStep
<1>7. CASE LogNext
  BY <1>7, <1>1, <1>2 DEF LogNext, LogStep, Follow, Speak, machineVars, DeskSame
<1>8. CASE WatchNext
  <2>1. WatchDump => Ask(watch.n)
    BY DEF WatchDump
  <2>2. CASE WatchStart \/ WatchAlive \/ WatchLook \/ WatchJudge \/ WatchScan \/ WatchEnd
    BY <2>2, <1>1, <1>2 DEF WatchStart, WatchAlive, WatchLook, WatchJudge, WatchScan, WatchEnd, machineVars, DeskSame
  <2> QED
    BY <1>8, WatchCases, <2>1, <2>2, <1>0, <1>1, <1>4, <1>5
<1>9. CASE ShotNext
  <2>1. ShotAsk => Ask(0)
    BY DEF ShotAsk
  <2>2. CASE ShotLook
    BY <2>2, <1>1, <1>2 DEF ShotLook, machineVars, DeskSame
  <2> QED
    BY <1>9, ShotCases, <2>1, <2>2, <1>0, <1>1, <1>4, <1>5
<1>10. CASE SendNext
  <2>1. UNCHANGED <<qemus, base, overlay, breaks>>
    BY <1>10, SendCases
  <2>2. "snap" \in calm' => "snap" \in calm
    BY <1>10 DEF SendNext, SendStep, Arrive, Login, Shell, PrintSum, Lose, Hello, Look, LogIn, NoLogin,
       RunRm, RunChunk, RunSum, Sent, NotSent, RunCmd, Leave, Late, machineVars
  <2> QED
    BY <2>1, <2>2, <1>1, <1>2 DEF DeskSame
<1> QED
  BY <1>6, <1>7, <1>8, <1>9, <1>10

LEMMA OthersKeep ==
  ASSUME SimInv, MachineOK', DeskSame
  PROVE  SnapInv'
<1>0. SnapInv /\ MachineOK /\ SnapOK
  BY DEF SimInv, TypeOK
<1>1. overlay'.tag # "blank"
  BY <1>0 DEF SnapInv, DeskSame
<1>3. snap.own \in Procs => qemus'[snap.own] = qemus[snap.own]
  BY <1>0 DEF SnapInv, SnapControl, DeskSame
<1>4. snap'.own \in Procs' => snap.own \in Procs
  <2>1. snap.own \in Procs \cup {NoProc}
    BY <1>0 DEF SnapOK
  <2>2. NoProc \notin Procs'
    BY DEF MachineOK, NoProc, Procs
  <2> QED
    BY <2>1, <2>2 DEF DeskSame
<1>2. SnapControl'
  <2>1. snap' = snap
    BY DEF DeskSame
  <2>2. snap.pc \in Connected => snap.conn \in Procs' /\ qemus'[snap.conn] = qemus[snap.conn]
    BY <1>0 DEF SnapInv, SnapControl, DeskSame
  <2>3. snap.own \in Procs => snap.own \in Procs'
    BY DEF DeskSame
  <2>4. snap.pc \in Saving => snap.pc \in Connected
    BY DEF Saving, Connected
  <2> QED
    BY <1>0, <1>3, <1>4, <2>1, <2>2, <2>3, <2>4 DEF SnapInv, SnapControl
<1>5. OwnInv'
  BY <1>0, <1>3, <1>4 DEF SnapInv, OwnInv, DeskSame, Calm, Connected
<1>6. CreateInv'
  <2>1. snap.pc \in Connected => snap.own \in Procs
    BY <1>0 DEF SnapInv, SnapControl
  <2>2. snap.own \in Procs => \A s \in 0..3 : Served3(s) => Served3(s)'
    BY <1>3 DEF Served3, DeskSame
  <2> QED
    BY <1>0, <1>3, <1>4, <2>1, <2>2 DEF SnapInv, SnapControl, CreateInv, DeskSame, Calm
<1>7. ReportInv'
  BY <1>0, <1>3 DEF SnapInv, ReportInv, DeskSame, Calm, Up
<1> QED
  BY <1>1, <1>2, <1>5, <1>6, <1>7 DEF SnapInv

LEMMA NoProcNone ==
  ASSUME MachineOK, MachineOK'
  PROVE  NoProc \notin Procs /\ NoProc \notin Procs'
BY DEF MachineOK, NoProc, Procs

LEMMA ControlKept ==
  ASSUME SimInv, MachineOK', Grows, snap' = snap
  PROVE  SnapControl'
<1>0. SnapControl /\ snap.own \in Procs \cup {NoProc} /\ NoProc \notin Procs'
  BY NoProcNone DEF SimInv, SnapInv, TypeOK, SnapOK
<1>1. snap.own \in Procs' <=> snap.own \in Procs
  BY <1>0 DEF Grows
<1>2. snap.own \in Procs => /\ qemus'[snap.own].kind = qemus[snap.own].kind
                            /\ qemus'[snap.own].load = qemus[snap.own].load
  BY DEF Grows
<1>3. snap.conn \in Procs => /\ snap.conn \in Procs'
                             /\ qemus'[snap.conn].kind = qemus[snap.conn].kind
                             /\ qemus[snap.conn].st # "new" => qemus'[snap.conn].st # "new"
                             /\ qemus[snap.conn].st # "new" /\ qemus[snap.conn].frame => qemus'[snap.conn].frame
  BY DEF Grows
<1>4. snap.pc \in Saving => snap.pc \in Connected
  BY DEF Saving, Connected
<1> QED
  BY <1>0, <1>1, <1>2, <1>3, <1>4 DEF SnapControl

LEMMA OwnServing ==
  ASSUME SimInv, Calm, NEW i \in Procs, NEW what \in {"stop", "savevm", "quit"}, Serving(i, what)
  PROVE  /\ i = snap.own /\ snap.own \in Procs /\ Up(i)
         /\ snap.mode = "create"
         /\ what = "savevm" => qemus[i].frame
         /\ snap.end = "none" \/ snap.end = "failed"
<1>0. /\ MachineOK /\ ProcInv /\ OwnInv /\ ReportInv /\ SnapControl /\ SnapOK
  BY DEF SimInv, TypeOK, SnapInv
<1>1. /\ Up(i) /\ 1 \in DOMAIN qemus[i].todo /\ qemus[i].todo[1].do = what
      /\ qemus[i].todo # <<>> /\ qemus[i] \in Qemus
  BY <1>0, ServingHas
<1>2. qemus[i].kind = "desk"
  BY <1>0, <1>1 DEF ProcInv, Qemus
<1>3. i = snap.own
  BY <1>0, <1>1, <1>2 DEF OwnInv, Up
<1>4. snap.mode = "create"
  BY <1>0, <1>1, <1>3 DEF OwnInv, SnapOK
<1>5. what = "savevm" => qemus[i].frame
  BY <1>0, <1>1 DEF ProcInv
<1>6. snap.end # "saved" /\ snap.end # "restored"
  BY <1>0, <1>1, <1>3, <1>4 DEF ReportInv, Up, SnapControl
<1> QED
  BY <1>0, <1>1, <1>3, <1>4, <1>5, <1>6 DEF SnapOK

\* The command is the one after the s that are served.
NextServed(s, what) ==
  /\ Served3(s)
  /\ what = Script[s + 1]
  /\ Len(Tail(qemus[snap.own].todo)) = Told[snap.pc] - (s + 1)
  /\ \A k \in 1..(Told[snap.pc] - (s + 1)) :
       Tail(qemus[snap.own].todo)[k].do = Script[(s + 1) + k]

LEMMA ServedNext ==
  ASSUME SimInv, Calm, snap.own \in Procs, snap.mode = "create", snap.pc # "idle",
         NEW what, Serving(snap.own, what)
  PROVE  /\ snap.pc \in Connected
         /\ \E s \in 0..2 : NextServed(s, what)
<1> DEFINE todo == qemus[snap.own].todo
<1>0. MachineOK /\ CreateInv /\ SnapControl /\ SnapOK
  BY DEF SimInv, TypeOK, SnapInv
<1>1. /\ todo # <<>> /\ Len(todo) \in Nat \ {0} /\ todo[1].do = what
      /\ Len(Tail(todo)) = Len(todo) - 1 /\ DOMAIN todo = 1..Len(todo)
      /\ todo \in Seq(Commands) /\ Up(snap.own)
      /\ DOMAIN Tail(todo) = 1..Len(Tail(todo))
      /\ \A k \in DOMAIN Tail(todo) : Tail(todo)[k] = todo[k + 1]
  BY <1>0, ServingHas
<1>2. snap.pc \in Connected
  <2>1. NoProc \notin Procs
    BY <1>0 DEF MachineOK, NoProc, Procs
  <2>2. snap.pc # "popen"
    BY <2>1, <1>0 DEF SnapControl
  <2>3. snap.pc # "monitor"
    BY <1>0, <1>1 DEF CreateInv
  <2> QED
    BY <2>2, <2>3, <1>0 DEF SnapOK, Connected
<1>3. PICK s \in 0..3 : Served3(s)
  BY <1>0, <1>2 DEF CreateInv
<1>4. s # 3
  BY <1>1, <1>3 DEF Served3, Up
<1>5. Told[snap.pc] \in 0..3
  BY <1>2 DEF Told, Connected
<1>6. /\ Len(todo) = Told[snap.pc] - s
      /\ \A k \in 1..(Told[snap.pc] - s) : todo[k].do = Script[s + k]
  BY <1>3 DEF Served3
<1> HIDE DEF todo, Script, Told
<1>7. 1 \in 1..(Told[snap.pc] - s)
  BY <1>1, <1>5, <1>6
<1>8. what = Script[s + 1]
  BY <1>1, <1>6, <1>7
<1>9. Len(Tail(todo)) = Told[snap.pc] - (s + 1)
  BY <1>1, <1>5, <1>6
<1>10. ASSUME NEW k \in 1..(Told[snap.pc] - (s + 1))
       PROVE  Tail(todo)[k].do = Script[(s + 1) + k]
  <2>1. k \in DOMAIN Tail(todo) /\ k + 1 \in 1..(Told[snap.pc] - s)
    BY <1>1, <1>5, <1>9
  <2>2. Tail(todo)[k] = todo[k + 1] /\ todo[k + 1].do = Script[s + (k + 1)]
    BY <2>1, <1>1, <1>6
  <2>3. s + (k + 1) = (s + 1) + k
    BY <1>5
  <2> QED
    BY <2>2, <2>3
<1>11. s \in 0..2
  BY <1>4
<1>12. NextServed(s, what)
  BY <1>3, <1>8, <1>9, <1>10 DEF todo, NextServed
<1> QED
  BY <1>2, <1>11, <1>12

\* A machine takes a command of snapshot.py.
LEMMA ServeKeeps ==
  ASSUME SimInv, MachineOK', NEW i \in Procs, NEW what \in {"stop", "savevm", "quit"},
         Serving(i, what), Grows,
         Turns(i, IF what = "quit" THEN "gone" ELSE "up", qemus[i].frame, Tail(qemus[i].todo)),
         snap' = snap, overlay'.tag # "blank",
         "snap" \in calm' =>
           /\ "snap" \in calm
           /\ overlay'.there = overlay.there
           /\ overlay'.tag = IF what = "savevm" /\ qemus[i].linked THEN "drawn" ELSE overlay.tag
  PROVE  SnapInv'
<1>0. SnapInv /\ SnapOK /\ MachineOK
  BY DEF SimInv, TypeOK
<1>1. SnapControl'
  BY ControlKept
<1>2. CASE "snap" \notin calm'
  BY <1>2, <1>1 DEF SnapInv, OwnInv, CreateInv, ReportInv, Calm
<1>3. CASE "snap" \in calm'
  <2>1. Calm
    BY <1>3 DEF Calm
  <2>2. /\ i = snap.own /\ snap.own \in Procs /\ Up(i) /\ snap.mode = "create"
        /\ snap.end = "none" \/ snap.end = "failed"
    BY <2>1, OwnServing
  <2>3. /\ Procs' = Procs
        /\ \A j \in Procs : j # snap.own => qemus'[j] = qemus[j]
        /\ qemus'[snap.own].linked = qemus[snap.own].linked
        /\ qemus'[snap.own].st = IF what = "quit" THEN "gone" ELSE "up"
        /\ qemus'[snap.own].todo = Tail(qemus[snap.own].todo)
        /\ qemus'[snap.own].kind = qemus[snap.own].kind
    BY <2>2 DEF Turns
  <2>4. OwnInv'
    BY <2>1, <2>2, <2>3, <1>0 DEF SnapInv, OwnInv, Calm
  <2>5. ReportInv'
    BY <2>2 DEF ReportInv
  <2>6. CreateInv'
    <3>1. CASE snap.pc = "idle"
      BY <3>1 DEF CreateInv
    <3>2. CASE snap.pc # "idle"
      <4>0. PICK s \in 0..2 : NextServed(s, what)
        BY <2>1, <2>2, <3>2, ServedNext
      <4>1. /\ Served3(s)
            /\ what = Script[s + 1]
            /\ Len(Tail(qemus[snap.own].todo)) = Told[snap.pc] - (s + 1)
            /\ \A k \in 1..(Told[snap.pc] - (s + 1)) :
                 Tail(qemus[snap.own].todo)[k].do = Script[(s + 1) + k]
        BY <4>0 DEF NextServed
      <4>2. snap.pc \in Connected
        BY <2>1, <2>2, <3>2, ServedNext
      <4>3. /\ overlay.there
            /\ qemus[snap.own].linked
        BY <2>1, <2>2, <3>2, <1>0 DEF SnapInv, CreateInv
      <4>4. (what = "savevm" <=> s = 1) /\ (what = "quit" <=> s = 2)
        BY <4>1 DEF Script
      <4>5. overlay.tag = (IF s >= 2 THEN "drawn" ELSE "none")
        BY <4>1 DEF Served3
      <4>6. /\ overlay'.tag = IF s + 1 >= 2 THEN "drawn" ELSE "none"
            /\ qemus'[snap.own].st = IF s + 1 = 3 THEN "gone" ELSE "up"
            /\ s + 1 \in 0..3
        BY <4>3, <4>4, <4>5, <2>2, <2>3, <1>3
      <4>7. Served3(s + 1)'
        BY <4>1, <4>6, <2>3 DEF Served3
      <4>8. snap.pc \notin {"popen", "monitor"}
        BY <4>2 DEF Connected
      <4> QED
        BY <4>2, <4>3, <4>6, <4>7, <4>8, <2>3, <1>3 DEF CreateInv, Calm
    <3> QED
      BY <3>1, <3>2
  <2> QED
    BY <1>1, <2>4, <2>5, <2>6 DEF SnapInv
<1> QED
  BY <1>2, <1>3

LEMMA LifeKeepsSnap ==
  ASSUME SimInv, MachineOK', LifeNext
  PROVE  SnapInv'
<1>0. SnapInv /\ SnapOK /\ MachineOK /\ Lives /\ Grows /\ UNCHANGED <<snap, overlay>>
  BY LifeEffect, LivesGrow DEF SimInv, TypeOK
<1>1. SnapControl' /\ overlay'.tag # "blank"
  BY <1>0, ControlKept DEF SnapInv
<1>2. PICK i \in Procs : (\E ok \in BOOLEAN : Binds(i, ok)) \/ Dies(i) \/ Quits(i)
  BY <1>0 DEF Lives
<1>3. CASE "snap" \notin calm'
  BY <1>3, <1>1 DEF SnapInv, OwnInv, CreateInv, ReportInv, Calm
<1>4. CASE Quits(i)
  BY <1>0, <1>1, <1>4, ServeKeeps DEF Quits
<1>5. CASE "snap" \in calm' /\ \E ok \in BOOLEAN : Binds(i, ok)
  <2>1. PICK ok \in BOOLEAN, frame \in BOOLEAN :
          Turns(i, IF ok THEN "up" ELSE "gone", frame, qemus[i].todo)
    BY <1>5 DEF Binds
  <2>2. qemus[i].st = "new" /\ Calm
    BY <1>5 DEF Binds, Calm
  <2>3. snap.pc \in Connected \/ snap.end \in {"saved", "restored"} => i # snap.own
    <3>1. snap.pc \in Connected => qemus[snap.own].st # "new"
      BY <2>2, <1>0 DEF SnapInv, OwnInv, SnapControl
    <3>2. snap.end \in {"saved", "restored"} => qemus[snap.own].st # "new"
      BY <2>2, <1>0 DEF SnapInv, ReportInv, Up
    <3> QED
      BY <3>1, <3>2, <2>2
  <2>4. /\ Procs' = Procs
        /\ \A j \in Procs : j # i => qemus'[j] = qemus[j]
        /\ qemus'[i].kind = qemus[i].kind
        /\ qemus'[i].linked = qemus[i].linked
        /\ qemus'[i].todo = qemus[i].todo
    BY <2>1 DEF Turns
  <2>5. OwnInv'
    BY <2>2, <2>4, <1>0 DEF SnapInv, OwnInv, Calm
  <2>6. CreateInv'
    <3>1. snap.pc \in Connected => snap.own \in Procs
      BY <1>0 DEF SnapInv, SnapControl
    <3>2. snap.pc \in Connected => \A s \in 0..3 : Served3(s) => Served3(s)'
      BY <2>3, <2>4, <3>1, <1>0 DEF Served3
    <3>3. snap.own \in Procs => /\ qemus'[snap.own].linked = qemus[snap.own].linked
                               /\ qemus'[snap.own].todo = qemus[snap.own].todo
      BY <2>4
    <3>4. snap.mode = "create" /\ snap.pc \in Connected => \E s \in 0..3 : Served3(s)
      BY <2>2, <1>0 DEF SnapInv, CreateInv, Connected
    <3>5. snap.mode = "create" /\ snap.pc \in Connected => \E s \in 0..3 : Served3(s)'
      BY <3>2, <3>4
    <3>6. snap.pc = "monitor" => snap.own \in Procs
      BY <1>0 DEF SnapInv, SnapControl
    <3> QED
      BY <2>2, <2>4, <3>3, <3>5, <3>6, <1>0 DEF SnapInv, CreateInv, Calm
  <2>7. ReportInv'
    BY <2>2, <2>3, <2>4, <1>0 DEF SnapInv, ReportInv, Calm, Up
  <2> QED
    BY <1>1, <2>5, <2>6, <2>7 DEF SnapInv
<1>6. CASE Dies(i)
  BY <1>3, <1>6 DEF Dies
<1> QED
  BY <1>2, <1>3, <1>4, <1>5, <1>6

\* Without a calm session little is claimed.
LEMMA DisturbedKeeps ==
  ASSUME SnapControl', overlay'.tag # "blank", "snap" \notin calm'
  PROVE  SnapInv'
BY DEF SnapInv, OwnInv, CreateInv, ReportInv, Calm

LEMMA BeginKeeps ==
  ASSUME SimInv, MachineOK', Create \/ Restore
  PROVE  SnapInv'
<1>0. SnapInv /\ MachineOK /\ NoProc \notin Procs' /\ Procs' = Procs /\ qemus' = qemus
  BY NoProcNone DEF SimInv, TypeOK, Create, Restore, Procs
<1>1. PICK mode \in {"create", "restore"} :
        /\ snap' = [pc |-> "popen", mode |-> mode, own |-> NoProc, conn |-> NoProc, end |-> "none"]
        /\ calm' = Begun("snap")
        /\ mode = "create" => overlay' = [there |-> TRUE, of |-> base, tag |-> "none", took |-> 0]
        /\ mode = "restore" => overlay' = overlay
  BY DEF Create, Restore, Begin
<1>2. overlay'.tag # "blank"
  BY <1>0, <1>1 DEF SnapInv
<1>3. SnapControl'
  BY <1>0, <1>1 DEF SnapControl, Connected, Saving
<1>4. "snap" \in calm' => \A i \in Procs : qemus[i].st = "gone"
  BY <1>1 DEF Begun, Alone
<1>5. OwnInv'
  BY <1>0, <1>1, <1>4 DEF OwnInv, Calm, Connected
<1>6. CreateInv'
  BY <1>0, <1>1 DEF CreateInv, Connected
<1>7. ReportInv'
  BY <1>1 DEF ReportInv
<1> QED
  BY <1>2, <1>3, <1>5, <1>6, <1>7 DEF SnapInv

LEMMA PopenKeeps ==
  ASSUME SimInv, MachineOK', PopenDesk
  PROVE  SnapInv'
<1>0. /\ SnapInv /\ MachineOK /\ SnapOK /\ NoProc \notin Procs /\ snap.pc = "popen"
      /\ snap.own = NoProc
  BY NoProcNone DEF SimInv, TypeOK, PopenDesk, SnapInv, SnapControl
<1> DEFINE n == Len(qemus) + 1
<1>1. /\ Procs' = Procs \cup {n} /\ n \notin Procs
      /\ qemus'[n] = Spawned("desk", snap.mode = "restore")
      /\ \A j \in Procs : qemus'[j] = qemus[j]
  BY <1>0, PopenDeskDoes DEF Starts
<1>2. /\ qemus'[n].kind = "desk" /\ qemus'[n].load = (snap.mode = "restore")
      /\ qemus'[n].st = "new" /\ qemus'[n].linked /\ qemus'[n].todo = <<>>
  BY <1>1, SpawnedOK
<1>3. /\ snap' = [snap EXCEPT !.pc = "monitor", !.own = n]
      /\ calm' = calm \ {"up"} /\ UNCHANGED <<base, overlay>>
  BY DEF PopenDesk
<1> HIDE DEF n
<1>4. snap'.pc = "monitor" /\ snap'.own = n /\ snap'.mode = snap.mode
      /\ snap'.end = snap.end /\ snap.end = "none"
  BY <1>0, <1>3 DEF SnapOK, SnapInv, SnapControl
<1>5. overlay'.tag # "blank"
  BY <1>0, <1>3 DEF SnapInv
<1>6. SnapControl'
  BY <1>1, <1>2, <1>4 DEF SnapControl, Connected, Saving
<1>7. "snap" \in calm' => \A i \in Procs : qemus[i].kind = "desk" => qemus[i].st = "gone"
  BY <1>0, <1>3 DEF SnapInv, OwnInv, Calm
<1>8. OwnInv'
  BY <1>1, <1>2, <1>4, <1>7 DEF OwnInv, Calm, Connected
<1>9. CreateInv'
  BY <1>0, <1>1, <1>2, <1>3, <1>4 DEF CreateInv, Connected, SnapInv, Calm
<1>10. ReportInv'
  BY <1>4 DEF ReportInv
<1> QED
  BY <1>5, <1>6, <1>8, <1>9, <1>10 DEF SnapInv

LEMMA MonitorKeeps ==
  ASSUME SimInv, NEW i \in Procs, WaitMonitor(i)
  PROVE  SnapInv'
<1>0. SnapInv /\ SnapOK /\ MachineOK
  BY DEF SimInv, TypeOK
<1>1. /\ snap.pc = "monitor" /\ Up(i) /\ qemus[i].kind = "desk" /\ qemus[i].todo = <<>>
      /\ snap' = [snap EXCEPT !.pc = "frame", !.conn = i]
      /\ UNCHANGED machineVars
  BY DEF WaitMonitor, Answering
<1>2. /\ snap'.pc = "frame" /\ snap'.conn = i /\ snap'.own = snap.own /\ snap'.mode = snap.mode
      /\ snap'.end = snap.end /\ snap.end = "none" /\ snap.own \in Procs
  BY <1>0, <1>1 DEF SnapOK, SnapInv, SnapControl
<1>3. Procs' = Procs /\ UNCHANGED <<qemus, base, overlay, calm>>
  BY <1>1 DEF machineVars, Procs
<1>4. Calm => i = snap.own
  BY <1>0, <1>1 DEF SnapInv, OwnInv, Up
<1>5. SnapControl'
  BY <1>0, <1>1, <1>2, <1>3 DEF SnapInv, SnapControl, Connected, Saving, Up
<1>6. OwnInv'
  BY <1>0, <1>2, <1>3, <1>4 DEF SnapInv, OwnInv, Calm
<1>7. Calm /\ snap.mode = "create" => Served3(0)'
  <2>1. Told["frame"] = 0
    BY DEF Told
  <2>2. ASSUME Calm, snap.mode = "create"
        PROVE  overlay.tag = "none" /\ qemus[snap.own].todo = <<>> /\ qemus[snap.own].st = "up"
    BY <2>2, <1>0, <1>1, <1>4 DEF SnapInv, CreateInv, Up
  <2> QED
    BY <2>1, <2>2, <1>2, <1>3 DEF Served3
<1>8. CreateInv'
  BY <1>0, <1>1, <1>2, <1>3, <1>7 DEF SnapInv, CreateInv, Calm
<1>9. ReportInv'
  BY <1>2 DEF ReportInv
<1> QED
  BY <1>0, <1>3, <1>5, <1>6, <1>8, <1>9 DEF SnapInv

LEMMA FrameKeeps ==
  ASSUME SimInv, WaitFrame
  PROVE  SnapInv'
<1>0. SnapInv /\ SnapOK /\ MachineOK
  BY DEF SimInv, TypeOK
<1>1. /\ snap.pc = "frame" /\ Up(snap.conn) /\ qemus[snap.conn].frame
      /\ UNCHANGED machineVars
  BY DEF WaitFrame, HasFrame, QomGet
<1>2. /\ snap'.own = snap.own /\ snap'.conn = snap.conn /\ snap'.mode = snap.mode
      /\ snap.mode = "restore" => snap'.pc = "idle" /\ snap'.end = "restored"
      /\ snap.mode # "restore" => snap'.pc = "stop" /\ snap'.end = "none"
      /\ snap.own \in Procs /\ snap.mode \in {"create", "restore"}
  BY <1>0, <1>1 DEF WaitFrame, SnapOK, SnapInv, SnapControl, Connected
<1>3. Procs' = Procs /\ UNCHANGED <<qemus, base, overlay, calm>>
  BY <1>1 DEF machineVars, Procs
<1>4. Calm => snap.conn = snap.own
  BY <1>0, <1>1 DEF SnapInv, OwnInv, Connected
<1>5. SnapControl'
  BY <1>0, <1>1, <1>2, <1>3 DEF SnapInv, SnapControl, Connected, Saving
<1>6. OwnInv'
  BY <1>0, <1>2, <1>3, <1>4 DEF SnapInv, OwnInv, Calm
<1>7. CreateInv'
  <2>1. Told["frame"] = Told["stop"]
    BY DEF Told
  <2>2. snap.mode = "create" => \A s \in 0..3 : Served3(s) => Served3(s)'
    BY <2>1, <1>1, <1>2, <1>3 DEF Served3
  <2> QED
    BY <2>2, <1>0, <1>1, <1>2, <1>3 DEF SnapInv, CreateInv, Calm, Connected
<1>8. ReportInv'
  BY <1>1, <1>2, <1>3, <1>4 DEF ReportInv, Calm, Up
<1> QED
  BY <1>0, <1>3, <1>5, <1>6, <1>7, <1>8 DEF SnapInv

LEMMA EndKeeps ==
  ASSUME SimInv, WaitExit \/ GiveUp
  PROVE  SnapInv'
<1>0. SnapInv /\ SnapOK /\ MachineOK
  BY DEF SimInv, TypeOK
<1>1. /\ snap'.pc = "idle" /\ snap'.own = snap.own /\ snap'.mode = snap.mode
      /\ \/ snap'.end = "failed"
         \/ snap'.end = "saved" /\ snap.pc = "wait" /\ qemus[snap.own].st = "gone"
      /\ UNCHANGED machineVars
  BY <1>0 DEF WaitExit, GiveUp, SnapOK
<1>2. Procs' = Procs /\ UNCHANGED <<qemus, base, overlay, calm>>
  BY <1>1 DEF machineVars, Procs
<1>3. SnapControl'
  BY <1>0, <1>1, <1>2 DEF SnapInv, SnapControl, Connected, Saving
<1>4. OwnInv'
  BY <1>0, <1>1, <1>2 DEF SnapInv, OwnInv, Calm, Connected
<1>5. CreateInv'
  BY <1>1 DEF CreateInv
<1>6. ASSUME Calm, snap'.end = "saved"
      PROVE  /\ overlay.there /\ overlay.tag = "drawn"
             /\ snap.own \in Procs
             /\ qemus[snap.own].st = "gone"
  <2>1. snap.pc = "wait" /\ qemus[snap.own].st = "gone"
    BY <1>1, <1>6
  <2>2. snap.mode = "create" /\ snap.own \in Procs
    BY <2>1, <1>0 DEF SnapInv, SnapControl, Saving, Connected
  <2>3. overlay.there /\ \E s \in 0..3 : Served3(s)
    BY <2>1, <2>2, <1>0, <1>6 DEF SnapInv, CreateInv, Connected
  <2>4. overlay.tag = "drawn"
    BY <2>1, <2>3 DEF Served3
  <2> QED
    BY <2>1, <2>2, <2>3, <2>4
<1>7. ReportInv'
  BY <1>1, <1>2, <1>6 DEF ReportInv, Calm
<1> QED
  BY <1>0, <1>2, <1>3, <1>4, <1>5, <1>7 DEF SnapInv

LEMMA TellKeeps ==
  ASSUME SimInv, MachineOK', Tell
  PROVE  SnapInv'
<1>0. SnapInv /\ SnapOK /\ MachineOK /\ SnapControl
  BY DEF SimInv, TypeOK, SnapInv
<1> DEFINE c == [do |-> snap.pc, to |-> 0, req |-> 0]
<1>1. /\ snap.pc \in {"stop", "savevm", "quit"} /\ c \in Commands /\ c.do = snap.pc
      /\ UNCHANGED <<base, overlay, calm>>
      /\ snap' = [snap EXCEPT !.pc = NextOf[snap.pc]]
  BY <1>0, TellDoes DEF Tell
<1>2. /\ snap'.pc \in Saving /\ snap'.own = snap.own /\ snap'.conn = snap.conn
      /\ snap'.mode = snap.mode /\ snap'.end = snap.end
      /\ snap.end = "none" /\ snap.mode = "create" /\ snap.own \in Procs
      /\ Told[snap'.pc] = Told[snap.pc] + 1
      /\ Told[snap.pc] \in 0..2
      /\ Script[Told[snap.pc] + 1] = snap.pc
  BY <1>0, <1>1 DEF NextOf, Saving, Told, Script, SnapOK, SnapControl, Connected
<1>3. /\ snap.conn \in Procs /\ qemus[snap.conn].kind = "desk" /\ qemus[snap.conn].st # "new"
      /\ qemus[snap.conn].frame
  BY <1>0, <1>1 DEF SnapControl, Connected, Saving
<1>4. /\ Procs' = Procs
      /\ \A j \in Procs : /\ qemus'[j].kind = qemus[j].kind
                          /\ qemus'[j].load = qemus[j].load
                          /\ qemus'[j].st = qemus[j].st
                          /\ qemus'[j].frame = qemus[j].frame
                          /\ qemus'[j].linked = qemus[j].linked
                          /\ qemus'[j].todo = IF j = snap.conn /\ Up(j)
                                              THEN Append(qemus[j].todo, c) ELSE qemus[j].todo
  <2>1. CASE Up(snap.conn)
    <3>1. Turns(snap.conn, "up", qemus[snap.conn].frame, Append(qemus[snap.conn].todo, c))
      BY <2>1, <1>0, TellEffect DEF TakesIn
    <3> QED
      BY <3>1, <2>1 DEF Turns, Up
  <2>2. CASE ~Up(snap.conn)
    BY <2>2, <1>0, TellEffect DEF Procs
  <2> QED
    BY <2>1, <2>2
<1> HIDE DEF c
<1>5. SnapControl'
  BY <1>0, <1>1, <1>2, <1>3, <1>4 DEF SnapControl, Connected, Saving
<1>6. Calm => snap.conn = snap.own
  BY <1>0, <1>1 DEF SnapInv, OwnInv, Connected
<1>7. OwnInv'
  BY <1>0, <1>1, <1>2, <1>4, <1>6 DEF SnapInv, OwnInv, Calm
<1>8. ASSUME Calm PROVE \E s \in 0..3 : Served3(s)'
  <2>1. PICK s \in 0..3 : Served3(s)
    BY <1>0, <1>1, <1>2, <1>8 DEF SnapInv, CreateInv, Connected
  <2> DEFINE todo == qemus[snap.own].todo
  <2>2. todo \in Seq(Commands) /\ Len(todo) \in Nat
    BY <1>0, <1>2, TodoTypes
  <2>3. Len(todo) = Told[snap.pc] - s /\ \A k \in 1..(Told[snap.pc] - s) : todo[k].do = Script[s + k]
    BY <2>1 DEF Served3
  <2>4. s # 3 /\ Up(snap.own)
    BY <2>1, <2>2, <2>3, <1>2 DEF Served3, Up
  <2>5. qemus'[snap.own].todo = Append(todo, c)
    BY <1>2, <1>4, <1>6, <1>8, <2>4
  <2> HIDE DEF todo, Script, Told
  <2>6. /\ Len(Append(todo, c)) = Len(todo) + 1
        /\ \A k \in 1..Len(todo) : Append(todo, c)[k] = todo[k]
        /\ Append(todo, c)[Len(todo) + 1] = c
    BY <1>1, <2>2, AppendProperties
  <2>7. ASSUME NEW k \in 1..(Told[snap.pc] + 1 - s)
        PROVE  Append(todo, c)[k].do = Script[s + k]
    <3>1. CASE k = Told[snap.pc] + 1 - s
      <4>1. k = Len(todo) + 1 /\ s + k = Told[snap.pc] + 1
        BY <3>1, <2>3, <1>2
      <4> QED
        BY <4>1, <2>6, <1>1, <1>2
    <3>2. CASE k # Told[snap.pc] + 1 - s
      <4>1. k \in 1..(Told[snap.pc] - s)
        BY <3>2, <1>2
      <4> QED
        BY <4>1, <2>3, <2>6
    <3> QED
      BY <3>1, <3>2
  <2>8. Len(Append(todo, c)) = Told[snap'.pc] - s
    BY <2>3, <2>6, <1>2
  <2>9. Served3(s)'
    <3>1. /\ snap'.own = snap.own /\ snap.own \in Procs
          /\ overlay' = overlay /\ Told[snap'.pc] - s = Told[snap.pc] + 1 - s
      BY <1>1, <1>2
    <3>2. overlay.tag = IF s >= 2 THEN "drawn" ELSE "none"
      BY <2>1 DEF Served3
    <3>3. qemus'[snap.own].st = IF s = 3 THEN "gone" ELSE "up"
      BY <2>4, <1>2, <1>4 DEF Up
    <3>4. \A k \in 1..(Told[snap'.pc] - s) : qemus'[snap'.own].todo[k].do = Script[s + k]
      BY <3>1, <2>5, <2>7
    <3>5. Len(qemus'[snap'.own].todo) = Told[snap'.pc] - s
      BY <3>1, <2>5, <2>8
    <3> QED
      BY <3>1, <3>2, <3>3, <3>4, <3>5 DEF Served3
  <2> QED
    BY <2>9
<1>9. CreateInv'
  <2>1. snap'.pc \in Connected /\ snap'.pc \notin {"popen", "monitor"}
    BY <1>2 DEF Saving, Connected
  <2>2. Calm => overlay.there /\ qemus[snap.own].linked
    BY <1>0, <1>1, <1>2 DEF SnapInv, CreateInv
  <2> QED
    BY <2>1, <2>2, <1>1, <1>2, <1>4, <1>8 DEF CreateInv, Calm
<1>10. ReportInv'
  BY <1>2 DEF ReportInv
<1> QED
  BY <1>0, <1>1, <1>5, <1>7, <1>9, <1>10 DEF SnapInv

LEMMA DrawKeeps ==
  ASSUME SimInv, MachineOK', NEW i \in Procs, Draw(i)
  PROVE  SnapInv'
<1>0. SnapInv /\ SnapOK /\ MachineOK /\ UNCHANGED <<snap, base, overlay, calm>>
  BY DEF SimInv, TypeOK, Draw
<1>1. Draws(i)
  BY <1>0, DrawEffect
<1>2. /\ Procs' = Procs
      /\ \A j \in Procs : /\ qemus'[j].kind = qemus[j].kind
                          /\ qemus'[j].load = qemus[j].load
                          /\ qemus'[j].st = qemus[j].st
                          /\ qemus[j].frame => qemus'[j].frame
                          /\ qemus'[j].linked = qemus[j].linked
                          /\ qemus'[j].todo = qemus[j].todo
  BY <1>1 DEF Draws, Turns, Up
<1>3. Grows
  BY <1>2 DEF Grows
<1>4. SnapControl'
  BY <1>0, <1>3, ControlKept
<1>5. OwnInv'
  BY <1>0, <1>2 DEF SnapInv, OwnInv, Calm
<1>6. CreateInv'
  <2>1. snap.pc \in Connected => snap.own \in Procs
    BY <1>0 DEF SnapInv, SnapControl
  <2>2. snap.pc \in Connected => \A s \in 0..3 : Served3(s) => Served3(s)'
    BY <1>0, <1>2, <2>1 DEF Served3
  <2>3. snap.mode = "create" /\ snap.pc \in Connected /\ Calm => \E s \in 0..3 : Served3(s)'
    BY <2>2, <1>0 DEF SnapInv, CreateInv, Connected
  <2>4. snap.pc = "monitor" => snap.own \in Procs
    BY <1>0 DEF SnapInv, SnapControl
  <2> QED
    BY <1>0, <1>2, <2>3, <2>4 DEF SnapInv, CreateInv, Calm
<1>7. ReportInv'
  BY <1>0, <1>2 DEF SnapInv, ReportInv, Calm, Up
<1> QED
  BY <1>0, <1>4, <1>5, <1>6, <1>7 DEF SnapInv

LEMMA SnapKeeps ==
  ASSUME SimInv, MachineOK', SnapNext
  PROVE  SnapInv'
<1>0. SnapInv /\ SnapOK /\ MachineOK /\ overlay \in Overlays
  BY DEF SimInv, TypeOK, MachineOK
<1>1. CASE Drop
  <2>1. Drops /\ overlay' = NoOverlay /\ calm' = calm \ {"snap"} /\ snap' = snap
    BY <1>0, <1>1, DropEffect DEF Drop
  <2>2. Grows
    BY <2>1 DEF Drops, Grows
  <2>3. overlay'.tag # "blank"
    BY <2>1 DEF NoOverlay
  <2> QED
    BY <2>1, <2>2, <2>3, ControlKept, DisturbedKeeps
<1>2. CASE Rewrite
  <2>1. /\ qemus' = qemus /\ snap' = snap /\ overlay' = overlay
        /\ calm' = IF snap.pc = "idle" THEN calm ELSE calm \ {"snap"}
    BY <1>2 DEF Rewrite
  <2>2. Grows
    BY <2>1 DEF Grows, Procs
  <2>3. CASE "snap" \notin calm'
    BY <1>0, <2>1, <2>2, <2>3, ControlKept, DisturbedKeeps DEF SnapInv
  <2>4. CASE "snap" \in calm'
    <3>1. snap.pc = "idle" /\ calm' = calm /\ Procs' = Procs
      BY <2>1, <2>4 DEF Procs
    <3> QED
      BY <1>0, <2>1, <2>2, <3>1, ControlKept DEF SnapInv, OwnInv, CreateInv, ReportInv, Calm, Connected, Up
  <2> QED
    BY <2>3, <2>4
<1>3. ASSUME NEW i \in Procs, ServeStop(i) PROVE SnapInv'
  <2>1. /\ Serving(i, "stop") /\ Turns(i, "up", qemus[i].frame, Tail(qemus[i].todo))
        /\ UNCHANGED <<base, overlay, calm, snap>>
    BY <1>0, <1>3, StopEffect DEF ServeStop
  <2>2. Grows
    BY <2>1 DEF Turns, Grows, Serving, Up
  <2> QED
    BY <1>0, <2>1, <2>2, ServeKeeps DEF SnapInv
<1>4. ASSUME NEW i \in Procs, NEW done \in BOOLEAN, ServeSavevm(i, done) PROVE SnapInv'
  <2>1. /\ Serving(i, "savevm") /\ Turns(i, "up", qemus[i].frame, Tail(qemus[i].todo))
        /\ UNCHANGED <<base, snap>>
        /\ overlay' = IF done /\ qemus[i].linked
                      THEN [overlay EXCEPT !.tag = IF qemus[i].frame THEN "drawn" ELSE "blank",
                                           !.took = base]
                      ELSE overlay
        /\ calm' = IF done THEN calm ELSE calm \ {"snap"}
    BY <1>0, <1>4, SaveEffect DEF ServeSavevm
  <2>2. Grows
    BY <2>1 DEF Turns, Grows, Serving, Up
  <2>3. qemus[i].frame
    BY <1>0, <2>1, ServingHas DEF SimInv, ProcInv
  <2>4. /\ overlay'.there = overlay.there
        /\ overlay'.tag = IF done /\ qemus[i].linked THEN "drawn" ELSE overlay.tag
    BY <1>0, <2>1, <2>3 DEF Overlays
  <2>5. overlay'.tag # "blank"
    BY <1>0, <2>4 DEF SnapInv
  <2> QED
    BY <1>0, <2>1, <2>2, <2>4, <2>5, ServeKeeps
<1> QED
  BY SnapCases, <1>1, <1>2, <1>3, <1>4, BeginKeeps, PopenKeeps, MonitorKeeps, FrameKeeps, EndKeeps,
     TellKeeps, DrawKeeps

LEMMA SnapKept ==
  ASSUME SimInv, TypeOK', Next
  PROVE  SnapInv'
<1>1. MachineOK'
  BY DEF TypeOK
<1> QED
  BY <1>1, NextCases, OthersSame, OthersKeep, SnapKeeps, LifeKeepsSnap

\* No machine of resboot.py goes in a calm session.
LEMMA ResStays ==
  ASSUME SimInv, Next, "snap" \in calm', ResUp
  PROVE  ResUp'
<1>0. MachineOK /\ ProcInv /\ (IF LifeNext THEN Lives ELSE Works)
  BY Effects DEF SimInv, TypeOK, SnapInv
<1>1. PICK r \in Procs : Up(r) /\ qemus[r].kind = "res"
  BY DEF ResUp
<1>2. CASE ~LifeNext
  <2>1. r \in Procs' /\ qemus'[r].st = qemus[r].st /\ qemus'[r].kind = qemus[r].kind
    BY <1>0, <1>1, <1>2, WorksGrow DEF Grows
  <2> QED
    BY <1>1, <2>1 DEF ResUp, Up
<1>3. CASE LifeNext
  <2>1. PICK i \in Procs : (\E ok \in BOOLEAN : Binds(i, ok)) \/ Dies(i) \/ Quits(i)
    BY <1>0, <1>3 DEF Lives
  <2>2. ~Dies(i)
    BY DEF Dies
  <2>3. Binds(i, TRUE) \/ Binds(i, FALSE) => r # i
    BY <1>1 DEF Binds, Up
  <2>4. Quits(i) => r # i
    <3>1. Quits(i) => 1 \in DOMAIN qemus[i].todo /\ qemus[i].todo[1].do = "quit"
      BY <1>0, ServingHas DEF Quits
    <3> QED
      BY <1>0, <1>1, <3>1 DEF ProcInv
  <2>5. \E st, frame, todo : Turns(i, st, frame, todo)
    BY <2>1, <2>2 DEF Binds, Quits
  <2>6. Procs' = Procs /\ qemus'[r] = qemus[r]
    BY <1>1, <2>1, <2>2, <2>3, <2>4, <2>5 DEF Turns
  <2> QED
    BY <1>1, <2>6 DEF ResUp, Up
<1> QED
  BY <1>2, <1>3

\* resboot.py writes the base only with the port, which no other machine has.
LEMMA BaseMoves ==
  ASSUME SimInv, LifeNext
  PROVE  base' = base \/ ResUp'
<1>0. MachineOK
  BY DEF SimInv, TypeOK
<1>1. PICK i \in Procs : BindOne(i) \/ Lost(i) \/ QuitOne(i)
  BY DEF LifeNext
<1>2. CASE \E ok \in BOOLEAN : BindRes(i, ok)
  <2>1. PICK ok \in BOOLEAN : BindRes(i, ok)
    BY <1>2
  <2>2. CASE ok = FALSE
    BY <2>1, <2>2 DEF BindRes
  <2>3. CASE ok = TRUE
    <3>1. Becomes(i, [qemus[i] EXCEPT !.st = "up"])
      BY <1>0, <2>1, <2>3, BindResDoes
    <3>2. qemus[i] \in Qemus /\ qemus[i].kind = "res"
      BY <1>0, <2>1, ProcTypes DEF BindRes
    <3>3. i \in Procs' /\ qemus'[i].st = "up" /\ qemus'[i].kind = "res"
      BY <3>1, <3>2 DEF Becomes, Qemus
    <3> QED
      BY <3>3 DEF ResUp, Up
  <2> QED
    BY <2>2, <2>3
<1>3. CASE ~\E ok \in BOOLEAN : BindRes(i, ok)
  BY <1>1, <1>3 DEF BindOne, BindDesk, Lost, Die, QuitOne, ServeQuit
<1> QED
  BY <1>2, <1>3

LEMMA BaseKept ==
  ASSUME SimInv, Next, SnapInv'
  PROVE  BaseInv'
<1>0. /\ MachineOK /\ SnapOK /\ SnapControl /\ BaseInv /\ ProcInv
      /\ overlay \in Overlays
  BY DEF SimInv, TypeOK, SnapInv, MachineOK
<1>1. CASE "snap" \notin calm'
  BY <1>1 DEF BaseInv, Calm
<1>2. ASSUME "snap" \in calm', Calm, UNCHANGED <<base, overlay>>, snap'.mode = snap.mode,
             snap'.pc # "idle" => snap.pc # "idle",
             snap'.end = "saved" => snap.end = "saved"
      PROVE  BaseInv'
  BY <1>0, <1>2, ResStays DEF BaseInv, Calm
<1>3. CASE SnapNext
  <2>1. CASE Create \/ Restore
    BY <2>1 DEF Create, Restore, Begin, BaseInv
  <2>2. CASE PopenDesk \/ WaitFrame \/ Tell \/ GiveUp \/ \E i \in Procs : WaitMonitor(i) \/ Draw(i) \/ ServeStop(i)
    <3>1. /\ UNCHANGED <<base, overlay>> /\ snap'.mode = snap.mode
          /\ snap'.pc # "idle" => snap.pc # "idle"
          /\ snap'.end = "saved" => snap.end = "saved"
          /\ "snap" \in calm' => Calm
      BY <1>0, <2>2 DEF PopenDesk, WaitFrame, Tell, GiveUp, WaitMonitor, Draw, ServeStop, machineVars,
         SnapOK, Calm
    <3> QED
      BY <1>1, <1>2, <3>1
  <2>3. CASE WaitExit
    <3>1. /\ UNCHANGED <<base, overlay, calm>> /\ snap.pc = "wait" /\ snap'.pc = "idle"
          /\ snap'.end = "saved"
      BY <1>0, <2>3 DEF WaitExit, machineVars, SnapOK
    <3>2. snap.mode = "create"
      BY <1>0, <3>1 DEF SnapControl, Saving
    <3>3. "snap" \in calm' => overlay.tag = "drawn"
      BY <3>1 DEF SnapInv, ReportInv, Calm
    <3> QED
      BY <1>0, <3>1, <3>2, <3>3 DEF BaseInv, Calm
  <2>4. CASE Drop
    BY <1>1, <2>4 DEF Drop
  <2>5. CASE Rewrite
    <3>1. snap.pc # "idle" => "snap" \notin calm'
      BY <2>5 DEF Rewrite
    <3>2. snap.pc = "idle" => UNCHANGED <<overlay, calm, snap>>
      BY <2>5 DEF Rewrite
    <3> QED
      BY <1>0, <1>1, <3>1, <3>2 DEF BaseInv, Calm
  <2>6. ASSUME NEW i \in Procs, NEW done \in BOOLEAN, ServeSavevm(i, done), "snap" \in calm'
        PROVE  BaseInv'
    <3>1. /\ Serving(i, "savevm") /\ UNCHANGED <<base, snap>> /\ Calm
          /\ \/ overlay' = overlay
             \/ overlay'.of = overlay.of /\ overlay'.took = base
      BY <1>0, <2>6 DEF ServeSavevm, Overlays, Calm
    <3>2. /\ i = snap.own /\ Up(i) /\ qemus[i].kind = "desk" /\ snap.end # "saved"
      BY <1>0, <3>1, OwnServing DEF SnapControl
    <3>3. ~ResUp
      BY <1>0, <3>2 DEF ResUp, ProcInv
    <3>4. snap.mode = "create" /\ snap.pc # "idle" => overlay.of = base
      BY <1>0, <3>1, <3>3 DEF BaseInv
    <3>5. snap.mode = "create" /\ snap.pc # "idle" /\ overlay'.tag # "none" => overlay'.took = overlay'.of
      BY <1>0, <3>1, <3>4 DEF BaseInv
    <3>6. snap.mode = "create" /\ snap.pc # "idle" => overlay'.of = base'
      BY <3>1, <3>4
    <3> QED
      BY <3>1, <3>2, <3>5, <3>6 DEF BaseInv
  <2> QED
    BY <1>1, <1>3, SnapCases, <2>1, <2>2, <2>3, <2>4, <2>5, <2>6
<1>4. CASE UpNext \/ LogNext \/ WatchNext \/ ShotNext \/ SendNext
  <2>1. DeskSame
    BY <1>4, OthersSame
  <2> QED
    BY <1>1, <1>2, <2>1 DEF DeskSame, Calm
<1>5. CASE LifeNext
  <2>1. UNCHANGED <<snap, overlay>> /\ calm' \subseteq calm
    BY <1>0, <1>5, LifeEffect, LivesGrow
  <2>2. base' = base \/ ResUp'
    BY <1>5, BaseMoves
  <2>3. ASSUME "snap" \in calm' PROVE BaseInv'
    <3>1. Calm /\ (ResUp => ResUp')
      BY <2>1, <2>3, ResStays DEF Calm
    <3> QED
      BY <1>0, <2>1, <2>2, <3>1 DEF BaseInv
  <2> QED
    BY <1>1, <2>3
<1> QED
  BY NextCases, <1>3, <1>4, <1>5

-----------------------------------------------------------------------------
(* up.py.                                                                    *)

\* Nobody starts or ends a machine.
LEMMA MachineSame ==
  ASSUME SimInv, Next, ~LifeNext, ~PopenDesk, ~PopenRes
  PROVE  /\ Procs' = Procs
         /\ \A i \in Procs : qemus'[i].st = qemus[i].st /\ qemus'[i].kind = qemus[i].kind
<1>1. Works /\ MachineOK
  BY Effects DEF SimInv, SnapInv, TypeOK
<1>2. /\ \A i \in Procs : qemus'[i].st = qemus[i].st
      /\ \A i \in Procs : qemus'[i].kind = qemus[i].kind
  BY <1>1, WorksGrow DEF Grows
<1>3. Procs' = Procs
  BY <1>1 DEF Works, Spawns, Drops, Draws, TakesIn, TakesAsk, Serves, Turns, Procs
<1> QED
  BY <1>2, <1>3

\* The tools that do not write the log and are not up.py.
LEMMA UpSame ==
  ASSUME SimInv, SnapNext \/ WatchNext \/ ShotNext \/ SendNext
  PROVE  /\ UNCHANGED <<up, log, at, spoken, cut>> \/ (WatchStart /\ UNCHANGED <<up, log, at, spoken>>)
         /\ "up" \in calm' => "up" \in calm
<1>0. MachineOK
  BY DEF SimInv, TypeOK
<1>1. CASE SnapNext
  <2>1. UNCHANGED <<up, log, at, spoken, cut>>
    BY <1>1 DEF SnapNext, watchVars, logVars
  <2>2. "up" \in Begun("snap") => "up" \in calm
    BY DEF Begun
  <2> QED
    BY <2>1, <2>2, <1>1, SnapCases DEF Create, Restore, Begin, PopenDesk, WaitFrame, Tell, WaitExit, GiveUp, Drop,
       Rewrite, WaitMonitor, Draw, ServeStop, ServeSavevm, machineVars
<1>2. ASSUME NEW i \in Procs, PicStep(i) PROVE UNCHANGED <<up, log, at, spoken, cut, calm>>
  BY <1>2 DEF PicStep, OpenPic, ClosePic, RefusePic, watchVars, logVars, machineVars
<1>3. CASE WatchNext
  BY <1>2, <1>3, WatchCases DEF WatchStart, WatchAlive, WatchDump, WatchLook, WatchJudge, WatchScan,
     WatchEnd, Ask, machineVars, logVars
<1>4. CASE ShotNext
  BY <1>2, <1>4, ShotCases DEF ShotAsk, ShotLook, Ask, machineVars, logVars
<1>5. CASE SendNext
  <2>1. UNCHANGED <<up, log, at, spoken, cut>>
    BY <1>5 DEF SendNext, watchVars, logVars
  <2>2. "up" \in calm' => "up" \in calm
    BY <1>5 DEF SendNext, SendStep, Arrive, Login, Shell, PrintSum, Lose, Hello, Look, LogIn, NoLogin,
       RunRm, RunChunk, RunSum, Sent, NotSent, RunCmd, Leave, Late, machineVars
  <2> QED
    BY <2>1, <2>2
<1> QED
  BY <1>1, <1>3, <1>4, <1>5

LEMMA UpKept ==
  ASSUME SimInv, TypeOK', Next
  PROVE  UpInv'
<1>0. /\ UpInv /\ MachineOK /\ up \in UpSt /\ log \in Seq(0..spoken) /\ Len(log) \in Nat
      /\ up.pos \in Nat /\ up.shown \in Seq(Nat) /\ spoken \in Nat
  BY WatchParts DEF SimInv, WatchInv, UpSt
<1>1. ASSUME UNCHANGED <<up, log>>, "up" \in calm' => "up" \in calm,
             ~LifeNext, ~PopenDesk, ~PopenRes
      PROVE  UpInv'
  <2>1. /\ Procs' = Procs
        /\ \A i \in Procs : qemus'[i].st = qemus[i].st /\ qemus'[i].kind = qemus[i].kind
    BY <1>1, MachineSame
  <2> QED
    BY <1>0, <1>1, <2>1 DEF UpInv, Up
<1>2. CASE LifeNext
  <2>1. Lives /\ Grows /\ Procs' = Procs /\ calm' \subseteq calm
    BY <1>2, <1>0, LifeEffect, LivesGrow
  <2>2. up' = up /\ (log' = log \/ \E i \in Procs : qemus[i].st = "new")
    BY <1>2 DEF LifeNext, BindOne, Lost, QuitOne, BindRes, watchVars, logVars
  <2>3. /\ up.pc \in {"popen", "live"} => up.shown = <<>> /\ up.pos = 0
        /\ up.pc = "popen" /\ "up" \in calm' => \A i \in Procs : qemus'[i].st = "gone"
        /\ up.pc \in {"live", "follow"} => up.own \in Procs /\ qemus'[up.own].kind = "res"
        /\ up.pc \in {"live", "follow"} /\ "up" \in calm' =>
             \A i \in Procs : qemus'[i].st # "gone" => i = up.own
    BY <1>0, <2>1 DEF UpInv, Grows
  <2>4. ASSUME up.pc = "follow", "up" \in calm'
        PROVE  qemus'[up.own].st = "up" /\ log' = log
    <3>1. "up" \in calm /\ qemus[up.own].st = "up" /\ up.own \in Procs /\ qemus[up.own].kind = "res"
          /\ \A i \in Procs : qemus[i].st # "gone" => i = up.own
      BY <1>0, <2>1, <2>4 DEF UpInv, Up
    <3>2. PICK i \in Procs : (\E ok \in BOOLEAN : Binds(i, ok)) \/ Dies(i) \/ Quits(i)
      BY <2>1 DEF Lives
    <3>3. ~ \E ok \in BOOLEAN : Binds(i, ok)
      BY <3>1 DEF Binds
    <3>4. ~ Dies(i)
      BY <2>4 DEF Dies
    <3>5. ASSUME Quits(i) PROVE FALSE
      <4>1. Serving(i, "quit")
        BY <3>5 DEF Quits
      <4>2. Up(i) /\ 1 \in DOMAIN qemus[i].todo /\ qemus[i].todo[1].do = "quit"
        BY <4>1, <1>0, ServingHas
      <4>3. i = up.own
        BY <4>2, <3>1 DEF Up
      <4> QED
        BY <4>2, <4>3, <3>1 DEF SimInv, ProcInv
    <3> QED
      BY <3>2, <3>3, <3>4, <3>5
  <2>5. up.pc = "follow" /\ "up" \in calm' =>
          /\ up.pos <= Len(log') /\ up.shown = SubSeq(log', 1, up.pos)
    BY <1>0, <2>1, <2>4 DEF UpInv
  <2> QED
    BY <2>1, <2>2, <2>3, <2>4, <2>5 DEF UpInv, Up
<1>3. CASE PopenDesk /\ SnapNext
  <2>1. calm' = calm \ {"up"} /\ up' = up
    BY <1>3 DEF PopenDesk, SnapNext, watchVars
  <2>2. Grows
    BY <1>3, <1>0, NextGrows DEF SimInv, SnapInv
  <2> QED
    BY <1>0, <2>1, <2>2 DEF UpInv, Grows
<1>4. CASE UpCheck
  <2>1. up' = [pc |-> "popen", own |-> 0, shown |-> <<>>, pos |-> 0] /\ calm' = Begun("up") /\ qemus' = qemus
    BY <1>4 DEF UpCheck
  <2>2. "up" \in calm' => \A i \in Procs : qemus[i].st = "gone"
    BY <2>1 DEF Begun, Alone
  <2> QED
    BY <2>1, <2>2 DEF UpInv, Procs
<1>5. CASE PopenRes
  <2> DEFINE n == Len(qemus) + 1
  <2>1. /\ up.pc = "popen" /\ up' = [up EXCEPT !.pc = "live", !.own = n] /\ calm' = calm
    BY <1>5 DEF PopenRes
  <2>2. /\ Procs' = Procs \cup {n} /\ qemus'[n] = Spawned("res", FALSE)
        /\ \A j \in Procs : qemus'[j] = qemus[j]
    BY <1>5, <1>0, PopenResDoes DEF Starts
  <2>3. qemus'[n].kind = "res"
    BY <2>2, SpawnedOK
  <2> HIDE DEF n
  <2>4. up'.pc = "live" /\ up'.own = n /\ up'.shown = up.shown /\ up'.pos = up.pos
    BY <2>1, <1>0 DEF UpSt
  <2>5. "up" \in calm => \A i \in Procs : qemus[i].st = "gone"
    BY <1>0, <2>1 DEF UpInv
  <2>6. up.shown = <<>> /\ up.pos = 0
    BY <1>0, <2>1 DEF UpInv
  <2>7. "up" \in calm' => \A i \in Procs' : qemus'[i].st # "gone" => i = n
    BY <2>1, <2>2, <2>5
  <2>8. n \in Procs'
    BY <2>2
  <2>9. up'.shown = <<>> /\ up'.pos = 0
    BY <2>4, <2>6
  <2>10. up'.pc # "popen" /\ up'.pc # "follow"
    BY <2>4
  <2> QED
    BY <2>3, <2>4, <2>7, <2>8, <2>9, <2>10 DEF UpInv
<1>6. CASE ClearLog
  <2>1. /\ up.pc = "live" /\ ~PortFree /\ up' = [up EXCEPT !.pc = "follow"] /\ log' = <<>>
        /\ qemus' = qemus /\ calm' = calm
    BY <1>6 DEF ClearLog, machineVars
  <2>2. up'.pc = "follow" /\ up'.own = up.own /\ up'.shown = <<>> /\ up'.pos = 0
    BY <2>1, <1>0 DEF UpSt, UpInv
  <2>3. "up" \in calm => Up(up.own)
    BY <2>1, <1>0 DEF UpInv, PortFree, Up
  <2>4. SubSeq(log', 1, 0) = <<>> /\ Len(log') = 0
    BY <2>1
  <2> QED
    BY <1>0, <2>1, <2>2, <2>3, <2>4 DEF UpInv, Up, Procs
<1>7. CASE UpEnd
  <2>1. up' = [up EXCEPT !.pc = "idle"]
    BY <1>7 DEF UpEnd
  <2>2. up'.pc = "idle"
    BY <2>1, <1>0 DEF UpSt
  <2> QED
    BY <2>2 DEF UpInv
<1>8. CASE Follow
  <2>1. /\ up.pc = "follow" /\ Len(log) > up.pos /\ qemus' = qemus /\ calm' = calm /\ log' = log
        /\ up' = [up EXCEPT !.shown = up.shown \o From(log, up.pos), !.pos = Len(log)]
    BY <1>8 DEF Follow, machineVars, logVars
  <2>2. up'.pc = "follow" /\ up'.own = up.own /\ up'.pos = Len(log)
        /\ up'.shown = up.shown \o From(log, up.pos)
    BY <2>1, <1>0 DEF UpSt
  <2>3. ASSUME "up" \in calm
        PROVE  up.shown \o From(log, up.pos) = SubSeq(log, 1, Len(log))
    <3>1. up.shown = SubSeq(log, 1, up.pos) /\ up.pos <= Len(log)
      BY <2>1, <2>3, <1>0 DEF UpInv
    <3>2. 1 \in 1..(Len(log) + 1) /\ up.pos \in (1 - 1)..Len(log) /\ Len(log) \in up.pos..Len(log)
      BY <3>1, <1>0
    <3>3. SubSeq(log, 1, up.pos) \o SubSeq(log, up.pos + 1, Len(log)) = SubSeq(log, 1, Len(log))
      BY <3>2, <1>0, ConcatAdjacentSubSeq
    <3> QED
      BY <3>1, <3>3 DEF From
  <2>4. up.own \in Procs /\ qemus[up.own].kind = "res"
        /\ ("up" \in calm => Up(up.own) /\ \A i \in Procs : qemus[i].st # "gone" => i = up.own)
    BY <1>0, <2>1 DEF UpInv
  <2>5. Procs' = Procs
    BY <2>1 DEF Procs
  <2>6. "up" \in calm' => up'.shown = SubSeq(log', 1, up'.pos)
    BY <2>1, <2>2, <2>3
  <2>7. up'.pos <= Len(log')
    BY <2>1, <2>2, <1>0
  <2>8. up'.own \in Procs' /\ qemus'[up'.own].kind = "res"
        /\ ("up" \in calm' => qemus'[up'.own].st = "up" /\ \A i \in Procs' : qemus'[i].st # "gone" => i = up'.own)
    BY <2>1, <2>2, <2>4, <2>5 DEF Up
  <2>9. up'.pc # "popen" /\ up'.pc # "live"
    BY <2>2
  <2> QED
    BY <2>6, <2>7, <2>8, <2>9 DEF UpInv, Up
<1>9. ASSUME NEW i \in Procs, Speak(i) PROVE UpInv'
  <2>1. qemus' = qemus /\ calm' = calm /\ up' = up
    BY <1>9 DEF Speak, machineVars
  <2>2. /\ log' \in Seq(0..spoken') /\ Len(log') = at + 1 /\ Len(log) <= at /\ at \in Nat
        /\ \A k \in 1..Len(log) : log'[k] = log[k]
    BY <1>9, SpeakDoes DEF SimInv
  <2>3. ASSUME up.pos <= Len(log)
        PROVE  SubSeq(log', 1, up.pos) = SubSeq(log, 1, up.pos) /\ up.pos <= Len(log')
    <3>1. up.pos <= Len(log')
      BY <2>2, <2>3, <1>0
    <3>2. /\ Len(SubSeq(log, 1, up.pos)) = up.pos
          /\ SubSeq(log, 1, up.pos) \in Seq(0..spoken)
          /\ \A j \in 1..up.pos : SubSeq(log, 1, up.pos)[j] = log[j]
      BY <2>3, <1>0, SubSeqOK
    <3>3. /\ Len(SubSeq(log', 1, up.pos)) = up.pos
          /\ SubSeq(log', 1, up.pos) \in Seq(0..spoken')
          /\ \A j \in 1..up.pos : SubSeq(log', 1, up.pos)[j] = log'[j]
      BY <3>1, <2>2, <1>0, SubSeqOK
    <3>4. \A j \in 1..up.pos : SubSeq(log', 1, up.pos)[j] = SubSeq(log, 1, up.pos)[j]
      BY <3>2, <3>3, <2>2, <2>3, <1>0
    <3> HIDE DEF From
    <3> QED
      BY <3>1, <3>2, <3>3, <3>4, SeqEqual
  <2> QED
    BY <1>0, <2>1, <2>3 DEF UpInv, Up, Procs
<1>10. CASE SnapNext \/ WatchNext \/ ShotNext \/ SendNext
  <2>1. UNCHANGED <<up, log>> /\ ("up" \in calm' => "up" \in calm)
    BY <1>10, UpSame
  <2>2. PopenRes => up' # up
    BY <1>0 DEF PopenRes, UpSt
  <2>3. PopenDesk => snap' # snap
    BY DEF PopenDesk, SimInv, TypeOK, SnapOK
  <2>4. WatchNext \/ ShotNext \/ SendNext => snap' = snap
    BY DEF WatchNext, ShotNext, SendNext
  <2> QED
    BY <1>1, <1>2, <1>3, <1>10, <2>1, <2>2, <2>3, <2>4
<1> QED
  BY NextCases, <1>2, <1>4, <1>5, <1>6, <1>7, <1>8, <1>9, <1>10 DEF UpNext, UpStep, LogNext, LogStep

-----------------------------------------------------------------------------
(* The log of smoke_monitor.py.                                              *)

\* The anomaly a is in s at k.
HasAt(s, a, k) == s[k] = 2 * a - 1 /\ s[k + 1] = 2 * a

LEMMA HasPrefix ==
  ASSUME NEW S, NEW s \in Seq(S), NEW n \in Nat, n <= Len(s), NEW a
  PROVE  Has(SubSeq(s, 1, n), a) <=> \E k \in 1..n : k + 1 <= n /\ HasAt(s, a, k)
<1> DEFINE t == SubSeq(s, 1, n)
<1>1. DOMAIN t = 1..n /\ \A k \in 1..n : t[k] = s[k]
  BY SubSeqOK
<1> HIDE DEF t
<1>2. Has(t, a) <=> \E k \in 1..n : k + 1 \in 1..n /\ t[k] = 2 * a - 1 /\ t[k + 1] = 2 * a
  BY <1>1 DEF Has
<1>3. \A k \in 1..n : k + 1 \in 1..n <=> k + 1 <= n
  OBVIOUS
<1>4. \A k \in 1..n : k + 1 \in 1..n => (t[k] = s[k] /\ t[k + 1] = s[k + 1])
  BY <1>1
<1>5. Has(t, a) <=> \E k \in 1..n : k + 1 <= n /\ HasAt(s, a, k)
  BY <1>2, <1>3, <1>4 DEF HasAt
<1> QED
  BY <1>5 DEF t

LEMMA HasRest ==
  ASSUME NEW S, NEW s \in Seq(S), NEW n \in Nat, NEW a
  PROVE  /\ Has(From(s, n), a) => \E k \in 1..Len(s) : n < k /\ k + 1 <= Len(s) /\ HasAt(s, a, k)
         /\ \A k \in 1..Len(s) : n < k /\ k + 1 <= Len(s) /\ HasAt(s, a, k) => Has(From(s, n), a)
<1>0. Len(s) \in Nat
  OBVIOUS
<1>1. CASE n > Len(s)
  <2>1. From(s, n) = <<>>
    <3>1. Len(s) < n + 1 /\ n + 1 \in Int /\ Len(s) \in Int
      BY <1>0, <1>1
    <3> QED
      BY <3>1, SubSeqEmpty DEF From
  <2>2. ~Has(From(s, n), a)
    BY <2>1 DEF Has
  <2>3. \A k \in 1..Len(s) : ~(n < k)
    BY <1>0, <1>1
  <2> QED
    BY <2>2, <2>3
<1>2. CASE n <= Len(s)
  <2> DEFINE t == From(s, n)
             m == Len(s) - n
  <2>1. m \in Nat /\ DOMAIN t = 1..m /\ \A j \in 1..m : t[j] = s[n + j]
    <3>1. t \in Seq(S) /\ Len(t) = m /\ \A j \in 1..(Len(s) - n) : t[j] = s[n + j]
      BY <1>0, <1>2, SubSeqOK
    <3>2. m \in Nat
      BY <1>0, <1>2
    <3> HIDE DEF t
    <3> QED
      BY <3>1, <3>2
  <2> HIDE DEF t
  <2>2. ASSUME Has(t, a)
        PROVE  \E k \in 1..Len(s) : n < k /\ k + 1 <= Len(s) /\ HasAt(s, a, k)
    <3>1. PICK j \in 1..m : j + 1 \in 1..m /\ t[j] = 2 * a - 1 /\ t[j + 1] = 2 * a
      BY <2>1, <2>2 DEF Has
    <3>2. t[j] = s[n + j] /\ t[j + 1] = s[n + (j + 1)] /\ n + (j + 1) = (n + j) + 1
      BY <2>1, <3>1
    <3>3. n + j \in 1..Len(s) /\ n < n + j /\ (n + j) + 1 <= Len(s)
      BY <1>0, <1>2, <3>1
    <3>4. HasAt(s, a, n + j)
      BY <3>1, <3>2 DEF HasAt
    <3> QED
      BY <3>3, <3>4
  <2>3. ASSUME NEW k \in 1..Len(s), n < k, k + 1 <= Len(s), HasAt(s, a, k)
        PROVE  Has(t, a)
    <3>1. k - n \in 1..m /\ (k - n) + 1 \in 1..m /\ n + (k - n) = k /\ n + ((k - n) + 1) = k + 1
      BY <1>0, <1>2, <2>3
    <3>2. t[k - n] = s[k] /\ t[(k - n) + 1] = s[k + 1]
      BY <2>1, <3>1
    <3> HIDE DEF m
    <3> QED
      BY <2>1, <2>3, <3>1, <3>2 DEF Has, HasAt
  <2> QED
    BY <2>2, <2>3 DEF t
<1> QED
  BY <1>0, <1>1, <1>2

\* The claim about one anomaly.
Reported(a) ==
  /\ seen[a] <= 1
  /\ seen[a] = 1 => /\ 2 * a <= spoken
                    /\ \A k \in DOMAIN log : k > watch.off => log[k] # 2 * a
  /\ ~cut =>
       /\ watch.off > 0 /\ log[watch.off] = 2 * a - 1 => a \in split
       /\ a \notin split /\ Has(SubSeq(log, 1, watch.off), a) => seen[a] = 1

LEMMA SpeakReports ==
  ASSUME SimInv, NEW i \in Procs, Speak(i), NEW a \in Anomalies
  PROVE  Reported(a)'
<1>0. /\ log \in Seq(0..spoken) /\ Len(log) \in Nat /\ watch.off \in Nat /\ spoken \in Nat
      /\ Reported(a) /\ (~cut => watch.off <= Len(log)) /\ a \in Nat /\ a > 0
      /\ \A k \in 1..Len(log) : log[k] \in 0..spoken
  BY WatchParts DEF SimInv, WatchInv, LogInv, Reported, WatchSt, Anomalies
<1>1. /\ log' \in Seq(0..spoken') /\ Len(log') = at + 1 /\ spoken' = spoken + 1
      /\ Len(log) <= at /\ at \in Nat
      /\ \A k \in 1..Len(log) : log'[k] = log[k]
      /\ \A k \in (Len(log) + 1)..at : log'[k] = 0
      /\ log'[at + 1] = spoken + 1
  BY SpeakDoes DEF SimInv
<1>2. UNCHANGED <<watch, seen, cut, split>>
  BY DEF Speak
<1>3. ASSUME seen[a] = 1
      PROVE  2 * a <= spoken' /\ \A k \in 1..Len(log') : k > watch.off => log'[k] # 2 * a
  <2>1. 2 * a <= spoken /\ 2 * a # 0 /\ \A k \in 1..Len(log) : k > watch.off => log[k] # 2 * a
    BY <1>0, <1>3 DEF Reported
  <2>2. 2 * a <= spoken' /\ 2 * a # spoken + 1
    BY <2>1, <1>0, <1>1
  <2>3. ASSUME NEW k \in 1..Len(log'), k > watch.off PROVE log'[k] # 2 * a
    <3>1. k \in 1..Len(log) \/ k \in (Len(log) + 1)..at \/ k = at + 1
      BY <1>0, <1>1
    <3> QED
      BY <3>1, <2>1, <2>2, <2>3, <1>1
  <2> QED
    BY <2>2, <2>3
<1>4. ASSUME ~cut
      PROVE  /\ watch.off > 0 => log'[watch.off] = log[watch.off]
             /\ Has(SubSeq(log', 1, watch.off), a) => Has(SubSeq(log, 1, watch.off), a)
  <2>1. watch.off <= Len(log) /\ watch.off <= Len(log')
    BY <1>0, <1>1, <1>4
  <2>2. watch.off > 0 => watch.off \in 1..Len(log)
    BY <2>1, <1>0
  <2>3. Has(SubSeq(log, 1, watch.off), a) <=> \E k \in 1..watch.off : k + 1 <= watch.off /\ HasAt(log, a, k)
    BY <2>1, <1>0, HasPrefix
  <2>4. Has(SubSeq(log', 1, watch.off), a) <=> \E k \in 1..watch.off : k + 1 <= watch.off /\ HasAt(log', a, k)
    BY <2>1, <1>0, <1>1, HasPrefix
  <2>5. \A k \in 1..watch.off : k + 1 <= watch.off => k \in 1..Len(log) /\ k + 1 \in 1..Len(log)
    BY <2>1, <1>0
  <2>6. \A k \in 1..watch.off : k + 1 <= watch.off /\ HasAt(log', a, k) => HasAt(log, a, k)
    BY <2>5, <1>1 DEF HasAt
  <2> QED
    BY <2>2, <2>3, <2>4, <2>6, <1>1
<1> QED
  BY <1>0, <1>1, <1>2, <1>3, <1>4 DEF Reported

LEMMA ScanReports ==
  ASSUME SimInv, WatchScan, NEW a \in Anomalies
  PROVE  Reported(a)'
<1>0. /\ log \in Seq(0..spoken) /\ Len(log) \in Nat /\ watch.off \in Nat /\ spoken \in Nat
      /\ Reported(a) /\ (~cut => watch.off <= Len(log)) /\ seen \in [Anomalies -> Nat]
      /\ \A k \in 1..Len(log) : log[k] \in 0..spoken
      /\ DOMAIN log = 1..Len(log) /\ watch \in WatchSt /\ split \subseteq Anomalies
      /\ a \in Nat
  <2>1. /\ log \in Seq(0..spoken) /\ Len(log) \in Nat /\ spoken \in Nat /\ watch \in WatchSt
    BY WatchParts DEF SimInv
  <2>2. seen \in [Anomalies -> Nat] /\ split \subseteq Anomalies
    BY DEF SimInv, TypeOK, WatchOK
  <2>3. Reported(a) /\ (~cut => watch.off <= Len(log))
    BY DEF SimInv, WatchInv, LogInv, Reported
  <2>4. DOMAIN log = 1..Len(log) /\ \A k \in 1..Len(log) : log[k] \in 0..spoken
    BY <2>1
  <2> QED
    BY <2>1, <2>2, <2>3, <2>4 DEF WatchSt, Anomalies
<1> DEFINE gain == Has(From(log, watch.off), a)
<1>1. /\ seen'[a] = IF gain THEN seen[a] + 1 ELSE seen[a]
      /\ watch'.off = Len(log)
      /\ split \subseteq split'
      /\ Len(log) > 0 /\ log[Len(log)] = 2 * a - 1 => a \in split'
      /\ UNCHANGED <<log, spoken, cut>>
  BY <1>0 DEF WatchScan, WatchSt, logVars
<1>2. gain => \E k \in 1..Len(log) : watch.off < k /\ k + 1 <= Len(log) /\ HasAt(log, a, k)
  BY <1>0, HasRest
<1>3. \A k \in 1..Len(log) : watch.off < k /\ k + 1 <= Len(log) /\ HasAt(log, a, k) => gain
  BY <1>0, HasRest
<1> HIDE DEF gain
<1>4. gain => seen[a] = 0 /\ 2 * a <= spoken
  <2>1. ASSUME gain PROVE \E k \in 1..Len(log) : watch.off < k /\ log[k] = 2 * a
    <3>1. PICK k \in 1..Len(log) : watch.off < k /\ k + 1 <= Len(log) /\ HasAt(log, a, k)
      BY <1>2, <2>1
    <3>2. k + 1 \in 1..Len(log) /\ watch.off < k + 1 /\ log[k + 1] = 2 * a
      BY <3>1, <1>0 DEF HasAt
    <3> QED
      BY <3>2
  <2>2. seen[a] \in {0, 1}
    BY <1>0 DEF Reported
  <2>3. seen[a] = 1 => ~ \E k \in 1..Len(log) : watch.off < k /\ log[k] = 2 * a
    BY <1>0 DEF Reported
  <2>4. gain => 2 * a <= spoken
    BY <2>1, <1>0
  <2> QED
    BY <2>1, <2>2, <2>3, <2>4
<1>5. seen'[a] <= 1 /\ (seen'[a] = 1 => 2 * a <= spoken)
  BY <1>0, <1>1, <1>4 DEF Reported
<1>6. ASSUME ~cut, a \notin split', Has(SubSeq(log, 1, Len(log)), a)
      PROVE  seen'[a] = 1
  <2>1. PICK k \in 1..Len(log) : k + 1 <= Len(log) /\ HasAt(log, a, k)
    BY <1>0, <1>6, HasPrefix
  <2>2. CASE k + 1 <= watch.off
    <3>1. k \in 1..watch.off /\ watch.off <= Len(log)
      BY <2>2, <1>0, <1>6
    <3>2. Has(SubSeq(log, 1, watch.off), a)
      BY <2>1, <2>2, <3>1, <1>0, HasPrefix
    <3>3. seen[a] = 1
      BY <3>2, <1>0, <1>1, <1>6 DEF Reported
    <3> QED
      BY <3>3, <1>1, <1>4
  <2>3. CASE watch.off < k
    BY <2>1, <2>3, <1>1, <1>3, <1>4
  <2>4. CASE k = watch.off
    <3>1. watch.off > 0 /\ log[watch.off] = 2 * a - 1
      BY <2>1, <2>4 DEF HasAt
    <3> QED
      BY <3>1, <1>0, <1>1, <1>6 DEF Reported
  <2> QED
    BY <2>2, <2>3, <2>4, <1>0
<1>7. \A k \in DOMAIN log : ~(k > Len(log))
  BY <1>0
<1> QED
  BY <1>1, <1>5, <1>6, <1>7 DEF Reported

LEMMA LogKept ==
  ASSUME SimInv, TypeOK', Next
  PROVE  LogInv'
<1>0. /\ LogInv /\ watch \in WatchSt /\ Len(log) \in Nat /\ log \in Seq(0..spoken)
      /\ watch.off \in Nat /\ up \in UpSt
  BY WatchParts DEF SimInv, WatchInv, WatchSt
<1>1. ASSUME UNCHANGED <<log, spoken, seen, cut, split>>, watch'.off = watch.off
      PROVE  LogInv'
  BY <1>0, <1>1 DEF LogInv, Has
<1>2. ASSUME log' = <<>>, cut' = TRUE, UNCHANGED <<spoken, seen, split, watch>>
      PROVE  LogInv'
  BY <1>0, <1>2 DEF LogInv
<1>3. CASE SnapNext \/ SendNext
  BY <1>1, <1>3 DEF SnapNext, SendNext, watchVars, logVars
<1>4. CASE UpNext
  BY <1>1, <1>2, <1>4 DEF UpNext, UpStep, UpCheck, PopenRes, ClearLog, UpEnd, logVars
<1>5. ASSUME NEW i \in Procs, PicStep(i) PROVE LogInv'
  BY <1>1, <1>5 DEF PicStep, OpenPic, ClosePic, RefusePic, watchVars, logVars
<1>6. CASE ShotNext
  <2>1. CASE ShotAsk \/ ShotLook
    BY <1>1, <2>1 DEF ShotAsk, ShotLook, logVars
  <2> QED
    BY <1>6, <2>1, <1>5, ShotCases
<1>7. CASE LifeNext
  BY <1>1, <1>2, <1>7 DEF LifeNext, BindOne, BindRes, Lost, QuitOne, watchVars, logVars
<1>8. CASE LogNext
  <2>1. CASE Follow
    BY <1>1, <2>1 DEF Follow, logVars
  <2>2. ASSUME NEW i \in Procs, Speak(i) PROVE LogInv'
    <3>1. \A a \in Anomalies : Reported(a)'
      BY <2>2, SpeakReports
    <3>2. UNCHANGED <<cut, watch>> /\ Len(log') = at + 1 /\ Len(log) <= at /\ at \in Nat
      BY <2>2, SpeakDoes DEF Speak, SimInv
    <3>3. ~cut => watch.off <= Len(log')
      BY <3>2, <1>0 DEF LogInv
    <3> QED
      BY <3>1, <3>2, <3>3 DEF LogInv, Reported
  <2> QED
    BY <1>8, <2>1, <2>2 DEF LogNext, LogStep
<1>9. CASE WatchNext
  <2>1. CASE WatchStart
    <3>1. /\ watch'.off = 0 /\ seen' = [a \in Anomalies |-> 0] /\ UNCHANGED <<log, spoken>>
      BY <2>1, <1>0 DEF WatchStart, WatchSt, logVars
    <3>2. \A a : ~Has(SubSeq(log, 1, 0), a)
      <4>1. SubSeq(log, 1, 0) = <<>>
        OBVIOUS
      <4> QED
        BY <4>1 DEF Has
    <3> QED
      BY <3>1, <3>2, <1>0 DEF LogInv
  <2>2. CASE WatchAlive \/ WatchDump \/ WatchLook \/ WatchJudge \/ WatchEnd
    <3>1. watch'.off = watch.off
      BY <2>2, <1>0 DEF WatchAlive, WatchDump, WatchLook, WatchJudge, WatchEnd, WatchSt
    <3> QED
      BY <1>1, <2>2, <3>1 DEF WatchAlive, WatchDump, WatchLook, WatchJudge, WatchEnd, logVars
  <2>3. CASE WatchScan
    <3>1. \A a \in Anomalies : Reported(a)'
      BY <2>3, ScanReports
    <3>2. watch'.off = Len(log) /\ log' = log
      BY <2>3, <1>0 DEF WatchScan, WatchSt, logVars
    <3> QED
      BY <3>1, <3>2, <1>0 DEF LogInv, Reported
  <2> QED
    BY <1>9, <2>1, <2>2, <2>3, <1>5, WatchCases
<1> QED
  BY NextCases, <1>3, <1>4, <1>6, <1>7, <1>8, <1>9

-----------------------------------------------------------------------------
(* The pictures.                                                             *)

OldDump(c) == \E i \in Procs : \E k \in DOMAIN qemus[i].todo : qemus[i].todo[k] = c

\* The screendumps that wait were waiting before, or are of the set C.
DumpsFrom(C) ==
  \A i \in Procs' : \A k \in DOMAIN qemus'[i].todo :
    qemus'[i].todo[k].do = "screendump" => OldDump(qemus'[i].todo[k]) \/ qemus'[i].todo[k] \in C

\* A picture is the old one, or of a screendump that waits.
PicsFrom ==
  \A p \in PicNames :
    \/ pics'[p] = pics[p]
    \/ \E c : /\ OldDump(c) /\ c.do = "screendump" /\ c.to = p
              /\ pics'[p].req = c.req
              /\ pics'[p] # NoPic

\* What waits in the queue waited at the machine i, is no screendump, or is of C.
WaitsOld(i, todo, C) ==
  \A k \in DOMAIN todo : \/ \E l \in DOMAIN qemus[i].todo : todo[k] = qemus[i].todo[l]
                         \/ todo[k].do # "screendump"
                         \/ todo[k] \in C

LEMMA DumpsTurn ==
  ASSUME MachineOK, NEW i \in Procs, NEW st, NEW frame, NEW todo, Turns(i, st, frame, todo), NEW C,
         WaitsOld(i, todo, C)
  PROVE  DumpsFrom(C)
<1>1. ASSUME NEW j \in Procs', NEW k \in DOMAIN qemus'[j].todo, qemus'[j].todo[k].do = "screendump"
      PROVE  OldDump(qemus'[j].todo[k]) \/ qemus'[j].todo[k] \in C
  <2>1. j \in Procs /\ Procs' = Procs
    BY <1>1 DEF Turns
  <2>2. CASE j # i
    <3>1. qemus'[j] = qemus[j]
      BY <2>1, <2>2 DEF Turns
    <3> QED
      BY <1>1, <2>1, <3>1 DEF OldDump
  <2>3. CASE j = i
    <3>1. qemus'[j].todo = todo
      BY <2>3 DEF Turns
    <3>2. k \in DOMAIN todo /\ todo[k].do = "screendump"
      BY <1>1, <3>1
    <3> QED
      BY <3>1, <3>2 DEF OldDump, WaitsOld
  <2> QED
    BY <2>2, <2>3
<1> QED
  BY <1>1 DEF DumpsFrom

LEMMA DumpsSame ==
  ASSUME MachineOK, NEW i \in Procs, NEW st, NEW frame, Turns(i, st, frame, qemus[i].todo), NEW C
  PROVE  DumpsFrom(C)
<1>1. WaitsOld(i, qemus[i].todo, C)
  BY DEF WaitsOld
<1> QED
  BY <1>1, DumpsTurn

LEMMA DumpsServed ==
  ASSUME MachineOK, NEW i \in Procs, NEW what, Serving(i, what), NEW st, NEW frame,
         Turns(i, st, frame, Tail(qemus[i].todo)), NEW C
  PROVE  DumpsFrom(C)
<1>1. \A k \in DOMAIN Tail(qemus[i].todo) : \E l \in DOMAIN qemus[i].todo :
        Tail(qemus[i].todo)[k] = qemus[i].todo[l]
  BY ServingHas
<1>2. WaitsOld(i, Tail(qemus[i].todo), C)
  BY <1>1 DEF WaitsOld
<1> QED
  BY <1>2, DumpsTurn

LEMMA DumpsAdded ==
  ASSUME MachineOK, NEW i \in Procs, NEW c \in Commands, NEW st, NEW frame,
         Turns(i, st, frame, Append(qemus[i].todo, c)), NEW C, c.do = "screendump" => c \in C
  PROVE  DumpsFrom(C)
<1>1. qemus[i].todo \in Seq(Commands)
  BY TodoTypes
<1>2. /\ DOMAIN Append(qemus[i].todo, c) = DOMAIN qemus[i].todo \cup {Len(qemus[i].todo) + 1}
      /\ Append(qemus[i].todo, c)[Len(qemus[i].todo) + 1] = c
      /\ \A k \in DOMAIN qemus[i].todo : Append(qemus[i].todo, c)[k] = qemus[i].todo[k]
  BY <1>1, NewTodo
<1>3. WaitsOld(i, Append(qemus[i].todo, c), C)
  BY <1>2 DEF WaitsOld
<1> QED
  BY <1>3, DumpsTurn

LEMMA AskDumps ==
  ASSUME SimInv, NEW p \in Nat, Ask(p)
  PROVE  DumpsFrom({[do |-> "screendump", to |-> p, req |-> asked + 1]})
<1> DEFINE c == [do |-> "screendump", to |-> p, req |-> asked + 1]
<1>0. MachineOK /\ asked \in Nat /\ c \in Commands
  BY WatchParts DEF SimInv, Commands
<1>1. PICK i \in Procs : Turns(i, "up", qemus[i].frame, Append(qemus[i].todo, c))
  BY <1>0, AskEffect DEF TakesAsk
<1> HIDE DEF c
<1>2. DumpsFrom({c})
  BY <1>0, <1>1, DumpsAdded
<1> QED
  BY <1>2 DEF c

LEMMA OldDumps ==
  ASSUME SimInv, Next, asked' = asked
  PROVE  DumpsFrom({})
<1>0. MachineOK /\ SnapControl /\ asked \in Nat
  BY WatchParts DEF SimInv, SnapInv
<1>1. ASSUME Works PROVE DumpsFrom({})
  <2>1. CASE UNCHANGED qemus
    BY <2>1 DEF DumpsFrom, OldDump, Procs
  <2>2. CASE Spawns
    <3>1. /\ Procs' = Procs \cup {Len(qemus) + 1} /\ qemus'[Len(qemus) + 1].todo = <<>>
          /\ \A j \in Procs : qemus'[j] = qemus[j]
      BY <2>2, <1>0, SpawnsNew
    <3> QED
      BY <3>1 DEF DumpsFrom, OldDump
  <2>3. CASE Drops
    BY <2>3 DEF Drops, DumpsFrom, OldDump
  <2>4. ASSUME NEW i \in Procs, Draws(i) PROVE DumpsFrom({})
    BY <2>4, <1>0, DumpsSame DEF Draws
  <2>5. ASSUME NEW i \in Procs, TakesIn(i) PROVE DumpsFrom({})
    <3> DEFINE c == [do |-> snap.pc, to |-> 0, req |-> 0]
    <3>1. c \in Commands /\ c.do # "screendump"
      BY <2>5, <1>0, TellDoes DEF TakesIn
    <3>2. Turns(i, "up", qemus[i].frame, Append(qemus[i].todo, c))
      BY <2>5 DEF TakesIn
    <3> HIDE DEF c
    <3> QED
      BY <3>1, <3>2, <1>0, DumpsAdded
  <2>6. ASSUME NEW i \in Procs, Serves(i) PROVE DumpsFrom({})
    BY <2>6, <1>0, DumpsServed DEF Serves
  <2>7. ASSUME NEW i \in Procs, NEW p \in Nat, TakesAsk(i, p) PROVE FALSE
    BY <2>7, <1>0 DEF TakesAsk, Ask
  <2> QED
    BY <1>1, <2>1, <2>2, <2>3, <2>4, <2>5, <2>6, <2>7 DEF Works
<1>2. ASSUME Lives PROVE DumpsFrom({})
  <2>1. PICK i \in Procs : (\E ok \in BOOLEAN : Binds(i, ok)) \/ Dies(i) \/ Quits(i)
    BY <1>2 DEF Lives
  <2>2. (\E ok \in BOOLEAN : Binds(i, ok)) => DumpsFrom({})
    BY <1>0, DumpsSame DEF Binds
  <2>3. Dies(i) => DumpsFrom({})
    BY <1>0, DumpsSame DEF Dies
  <2>4. Quits(i) => DumpsFrom({})
    BY <1>0, DumpsServed DEF Quits
  <2> QED
    BY <2>1, <2>2, <2>3, <2>4
<1> QED
  BY <1>1, <1>2, Effects DEF SimInv, SnapInv

LEMMA StepPics ==
  ASSUME SimInv, NEW i \in Procs, PicStep(i)
  PROVE  PicsFrom
<1> DEFINE c == Head(qemus[i].todo)
<1>0. MachineOK /\ pics \in [PicNames -> Pics] /\ ProcInv /\ PicInv
  BY WatchParts DEF SimInv, WatchInv
<1>1. /\ Serving(i, "screendump") /\ 1 \in DOMAIN qemus[i].todo
      /\ c = qemus[i].todo[1] /\ c.do = "screendump"
  BY <1>0, PicQemus, ServingHas
<1>2. OldDump(c) /\ c.req > 0
  BY <1>0, <1>1 DEF OldDump, PicInv
<1>3. CASE RefusePic(i)
  BY <1>3 DEF RefusePic, watchVars, PicsFrom
<1>4. CASE ClosePic(i)
  <2>1. pics[c.to].req = c.req /\ pics' = [pics EXCEPT ![c.to].whole = TRUE]
    BY <1>4 DEF ClosePic
  <2> HIDE DEF c
  <2>2. \A p \in PicNames : p # c.to => pics'[p] = pics[p]
    BY <2>1, <1>0
  <2>3. ASSUME NEW p \in PicNames, p = c.to
        PROVE  pics'[p].req = c.req /\ pics'[p].whole = TRUE
    BY <2>1, <2>3, <1>0 DEF Pics
  <2>4. NoPic.whole = FALSE
    BY DEF NoPic
  <2> QED
    BY <1>1, <1>2, <2>2, <2>3, <2>4 DEF PicsFrom
<1>5. CASE OpenPic(i)
  <2>1. PICK scr \in Screens : pics' = [pics EXCEPT ![c.to] = [req |-> c.req, whole |-> FALSE, scr |-> scr]]
    BY <1>5 DEF OpenPic
  <2> HIDE DEF c
  <2>2. \A p \in PicNames : p # c.to => pics'[p] = pics[p]
    BY <2>1, <1>0
  <2>3. ASSUME NEW p \in PicNames, p = c.to
        PROVE  pics'[p].req = c.req
    BY <2>1, <2>3, <1>0
  <2>4. NoPic.req = 0 /\ c.req # 0
    BY <1>2 DEF NoPic
  <2> QED
    BY <1>1, <1>2, <2>2, <2>3, <2>4 DEF PicsFrom
<1> QED
  BY <1>3, <1>4, <1>5 DEF PicStep

LEMMA OnlyKept ==
  ASSUME NEW p \in PicNames, NEW r, Only(p, r), PicsFrom, NEW C, DumpsFrom(C), \A c \in C : c.to # p
  PROVE  Only(p, r)'
<1>1. \A c : OldDump(c) /\ c.do = "screendump" /\ c.to = p => c.req = r
  BY DEF OldDump, Only
<1>2. pics'[p] # NoPic => pics'[p].req = r
  BY <1>1 DEF PicsFrom, Only
<1>3. ASSUME NEW i \in Procs', NEW k \in DOMAIN qemus'[i].todo,
             qemus'[i].todo[k].do = "screendump", qemus'[i].todo[k].to = p
      PROVE  qemus'[i].todo[k].req = r
  BY <1>1, <1>3 DEF DumpsFrom
<1> QED
  BY <1>2, <1>3 DEF Only

LEMMA OnlyBegins ==
  ASSUME SimInv, NEW p \in Nat, Ask(p), Clean(p), pics' = pics, NEW r, r = asked + 1
  PROVE  Only(p, r)'
<1>1. DumpsFrom({[do |-> "screendump", to |-> p, req |-> asked + 1]})
  BY AskDumps
<1>2. pics'[p] = NoPic
  BY DEF Clean
<1>3. \A c : OldDump(c) /\ c.do = "screendump" => c.to # p
  BY DEF OldDump, Clean
<1>4. ASSUME NEW i \in Procs', NEW k \in DOMAIN qemus'[i].todo,
             qemus'[i].todo[k].do = "screendump", qemus'[i].todo[k].to = p
      PROVE  qemus'[i].todo[k].req = r
  <2>1. ~OldDump(qemus'[i].todo[k])
    BY <1>3, <1>4
  <2>2. qemus'[i].todo[k] = [do |-> "screendump", to |-> p, req |-> asked + 1]
    BY <1>1, <1>4, <2>1 DEF DumpsFrom
  <2> QED
    BY <2>2
<1>5. \A i \in Procs' : \A k \in DOMAIN qemus'[i].todo :
        qemus'[i].todo[k].do = "screendump" /\ qemus'[i].todo[k].to = p => qemus'[i].todo[k].req = r
  BY <1>4
<1> QED
  BY <1>2, <1>5 DEF Only

\* The requests that wait are numbered from 1.
LEMMA DumpsNumbered ==
  ASSUME SimInv, NEW C, DumpsFrom(C), \A c \in C : c.req > 0
  PROVE  \A i \in Procs' : \A k \in DOMAIN qemus'[i].todo :
           qemus'[i].todo[k].do = "screendump" => qemus'[i].todo[k].req > 0
<1>1. \A c : OldDump(c) /\ c.do = "screendump" => c.req > 0
  BY DEF SimInv, WatchInv, PicInv, OldDump
<1> QED
  BY <1>1 DEF DumpsFrom


\* PicInv is of the requests, of smoke_monitor.py and of shot.py.
RealDumps ==
  \A i \in Procs : \A k \in DOMAIN qemus[i].todo :
    qemus[i].todo[k].do = "screendump" => qemus[i].todo[k].req > 0

WatchPic ==
  /\ watch.pc \in {"alive", "look", "judge", "scan"} => watch.n <= asked
  /\ watch.pc = "dump" => watch.n <= asked + 1
  /\ watch.pc \in {"dump", "look", "judge"} => watch.n > 0
  /\ watch.pc \in {"look", "judge"} /\ watch.clean => Only(watch.n, watch.req)
  /\ watch.pc = "judge" => pics[watch.n] # NoPic
  /\ watch.pc = "scan" /\ watch.clean => watch.judged.req = watch.req
  /\ watch.verdict \in {"PASS", "FAIL"} => watch.verdict = Verdict(watch.judged)

ShotPic ==
  /\ shot.pc = "look" /\ shot.clean => Only(0, shot.req)
  /\ shot.clean => shot.got \in {0, shot.req}

LEMMA PicParts == PicInv <=> RealDumps /\ WatchPic /\ ShotPic
BY DEF PicInv, RealDumps, WatchPic, ShotPic

LEMMA PicPartsNext == PicInv' <=> RealDumps' /\ WatchPic' /\ ShotPic'
BY DEF PicInv, RealDumps, WatchPic, ShotPic

LEMMA WatchName ==
  ASSUME SimInv, watch.pc \in {"look", "judge"}
  PROVE  watch.n \in PicNames /\ watch.n > 0
<1>1. /\ TypeOK /\ PicInv /\ MaxAsked \in Nat /\ asked \in 0..MaxAsked /\ watch.n \in Nat
  BY WatchParts DEF SimInv, WatchInv, WatchOK
<1> QED
  BY <1>1 DEF PicInv, PicNames

LEMMA WatchPicKept ==
  ASSUME SimInv, PicsFrom, NEW C, DumpsFrom(C), watch' = watch, asked' \in Nat, asked <= asked',
         watch.pc \in {"look", "judge"} => \A c \in C : c.to # watch.n
  PROVE  WatchPic'
<1>0. WatchPic /\ asked \in Nat /\ watch.n \in Nat
  BY PicParts, WatchParts DEF SimInv, WatchInv
<1>1. ASSUME watch.pc \in {"look", "judge"}, watch.clean
      PROVE  Only(watch.n, watch.req)'
  <2>1. Only(watch.n, watch.req) /\ watch.n \in PicNames
    BY <1>0, <1>1, WatchName DEF WatchPic
  <2>2. PICK p \in PicNames : p = watch.n
    BY <2>1
  <2>5. PICK r : r = watch.req
    OBVIOUS
  <2>3. Only(p, r) /\ \A c \in C : c.to # p
    BY <2>1, <2>2, <2>5, <1>1
  <2>4. Only(p, r)'
    BY <2>3, OnlyKept
  <2> QED
    BY <2>2, <2>4, <2>5 DEF Only
<1>2. ASSUME watch.pc = "judge" PROVE pics'[watch.n] # NoPic
  <2>1. watch.n \in PicNames /\ pics[watch.n] # NoPic
    BY <1>0, <1>2, WatchName DEF WatchPic
  <2> QED
    BY <2>1 DEF PicsFrom
<1>3. /\ watch.pc \in {"alive", "look", "judge", "scan"} => watch.n <= asked'
      /\ watch.pc = "dump" => watch.n <= asked' + 1
  BY <1>0 DEF WatchPic
<1>4. /\ watch'.pc \in {"dump", "look", "judge"} => watch'.n > 0
      /\ watch'.pc = "scan" /\ watch'.clean => watch'.judged.req = watch'.req
      /\ watch'.verdict \in {"PASS", "FAIL"} => watch'.verdict = Verdict(watch'.judged)
  BY <1>0 DEF WatchPic
<1> QED
  BY <1>1, <1>2, <1>3, <1>4 DEF WatchPic

LEMMA ShotPicKept ==
  ASSUME SimInv, PicsFrom, NEW C, DumpsFrom(C), shot' = shot, \A c \in C : c.to # 0
  PROVE  ShotPic'
<1>0. ShotPic /\ 0 \in PicNames
  BY PicParts, WatchParts DEF SimInv, WatchInv
<1>1. ASSUME shot.pc = "look", shot.clean
      PROVE  Only(0, shot.req)'
  <2>1. Only(0, shot.req)
    BY <1>0, <1>1 DEF ShotPic
  <2>2. PICK r : r = shot.req
    OBVIOUS
  <2>3. Only(0, r)
    BY <2>1, <2>2
  <2>4. Only(0, r)'
    BY <1>0, <2>3, OnlyKept
  <2> QED
    BY <2>2, <2>4 DEF Only
<1> QED
  BY <1>0, <1>1 DEF ShotPic

LEMMA SamePics ==
  ASSUME pics' = pics
  PROVE  PicsFrom
BY DEF PicsFrom

LEMMA PicSame ==
  ASSUME SimInv, Next, UNCHANGED <<watch, shot, asked>>, PicsFrom
  PROVE  PicInv'
<1>1. DumpsFrom({}) /\ asked \in Nat
  BY OldDumps, WatchParts DEF SimInv
<1>2. RealDumps'
  BY <1>1, DumpsNumbered DEF RealDumps
<1>3. WatchPic'
  BY <1>1, WatchPicKept
<1>4. ShotPic'
  BY <1>1, ShotPicKept
<1> QED
  BY <1>2, <1>3, <1>4, PicPartsNext

LEMMA WatchAsks ==
  ASSUME SimInv, WatchDump
  PROVE  PicInv'
<1>0. /\ TypeOK /\ WatchPic /\ asked \in Nat /\ watch.n \in Nat /\ watch \in WatchSt
      /\ watch.n > 0 /\ watch.n <= asked + 1
  BY PicParts, WatchParts DEF SimInv, WatchInv, WatchPic, WatchDump
<1>1. /\ Ask(watch.n) /\ asked' = asked + 1 /\ pics' = pics /\ shot' = shot
      /\ watch' = [watch EXCEPT !.pc = "look", !.req = asked + 1, !.clean = Clean(watch.n)]
  BY DEF WatchDump, Ask
<1> HIDE DEF Clean
<1>2. /\ watch'.pc = "look" /\ watch'.n = watch.n /\ watch'.req = asked + 1
      /\ watch'.clean = Clean(watch.n) /\ watch'.judged = watch.judged
      /\ watch'.verdict = watch.verdict
  BY <1>0, <1>1 DEF WatchSt
<1>3. PICK p \in Nat, r \in Nat : p = watch.n /\ r = asked + 1
  BY <1>0
<1>4. DumpsFrom({[do |-> "screendump", to |-> p, req |-> asked + 1]})
  BY <1>1, <1>3, AskDumps
<1>5. RealDumps'
  BY <1>0, <1>4, DumpsNumbered DEF RealDumps
<1>6. ShotPic'
  <2>1. PicsFrom /\ p # 0
    BY <1>0, <1>1, <1>3, SamePics
  <2> QED
    BY <1>1, <1>4, <2>1, ShotPicKept
<1>7. ASSUME Clean(p) PROVE Only(p, r)'
  BY <1>1, <1>3, <1>7, OnlyBegins
<1>8. watch'.clean => Only(watch.n, watch.req)'
  BY <1>1, <1>2, <1>3, <1>7 DEF Only
<1>9. WatchPic'
  <2>1. watch'.n <= asked' /\ watch'.n > 0
    BY <1>0, <1>1, <1>2
  <2>2. watch'.verdict \in {"PASS", "FAIL"} => watch'.verdict = Verdict(watch'.judged)
    BY <1>0, <1>2 DEF WatchPic
  <2> QED
    BY <1>2, <1>8, <2>1, <2>2 DEF WatchPic
<1> QED
  BY <1>5, <1>6, <1>9, PicPartsNext

LEMMA ShotAsks ==
  ASSUME SimInv, ShotAsk
  PROVE  PicInv'
<1>0. TypeOK /\ WatchPic /\ asked \in Nat
  BY PicParts, WatchParts DEF SimInv, WatchInv
<1>1. /\ Ask(0) /\ asked' = asked + 1 /\ pics' = pics /\ watch' = watch
      /\ shot' = [pc |-> "look", req |-> asked + 1, clean |-> Clean(0), got |-> 0]
  BY DEF ShotAsk, Ask
<1>4. DumpsFrom({[do |-> "screendump", to |-> 0, req |-> asked + 1]})
  BY <1>1, AskDumps
<1>5. RealDumps'
  BY <1>0, <1>4, DumpsNumbered DEF RealDumps
<1>6. WatchPic'
  <2>1. PicsFrom /\ asked' \in Nat /\ asked <= asked'
    BY <1>0, <1>1, SamePics
  <2>2. watch.pc \in {"look", "judge"} => watch.n # 0
    BY WatchName
  <2> QED
    BY <1>1, <1>4, <2>1, <2>2, WatchPicKept
<1>7. PICK r : r = asked + 1
  OBVIOUS
<1>8. ASSUME Clean(0) PROVE Only(0, r)'
  BY <1>1, <1>7, <1>8, OnlyBegins
<1> HIDE DEF Clean
<1>9. shot'.clean => Only(0, shot.req)'
  BY <1>1, <1>7, <1>8 DEF Only
<1>10. ShotPic'
  BY <1>1, <1>9 DEF ShotPic
<1> QED
  BY <1>5, <1>6, <1>10, PicPartsNext

LEMMA RoundKeeps ==
  ASSUME SimInv, Next, WatchStart \/ WatchAlive \/ WatchLook \/ WatchJudge \/ WatchScan \/ WatchEnd
  PROVE  PicInv'
<1>0. /\ TypeOK /\ WatchPic /\ asked \in Nat /\ watch.n \in Nat /\ watch \in WatchSt
  BY PicParts, WatchParts DEF SimInv, WatchInv
<1>1. UNCHANGED <<qemus, pics, asked, shot>>
  BY DEF WatchStart, WatchAlive, WatchLook, WatchJudge, WatchScan, WatchEnd, machineVars
<1>2. DumpsFrom({}) /\ PicsFrom
  BY <1>1, OldDumps, SamePics
<1>3. RealDumps' /\ ShotPic'
  BY <1>1, <1>2, DumpsNumbered, ShotPicKept DEF RealDumps
<1>4. ASSUME Only(watch.n, watch.req), watch'.n = watch.n, watch'.req = watch.req
      PROVE  Only(watch.n, watch.req)'
  BY <1>1, <1>4 DEF Only, Procs
<1>5. ASSUME WatchStart PROVE WatchPic'
  <2>1. watch' = [watch EXCEPT !.pc = "alive", !.n = 0, !.off = 0, !.verdict = "none"]
    BY <1>5 DEF WatchStart
  <2>2. watch'.pc = "alive" /\ watch'.n = 0 /\ watch'.verdict = "none"
    BY <2>1, <1>0 DEF WatchSt
  <2> QED
    BY <2>2, <1>0, <1>1 DEF WatchPic
<1>6. ASSUME WatchAlive PROVE WatchPic'
  <2>1. /\ watch.pc = "alive"
        /\ \/ watch' = [watch EXCEPT !.pc = "idle"]
           \/ watch' = [watch EXCEPT !.pc = "dump", !.n = watch.n + 1]
    BY <1>6 DEF WatchAlive
  <2>2. /\ watch'.judged = watch.judged /\ watch'.verdict = watch.verdict
        /\ watch'.pc = "idle" \/ (watch'.pc = "dump" /\ watch'.n = watch.n + 1)
    BY <2>1, <1>0 DEF WatchSt
  <2>3. watch.n <= asked
    BY <2>1, <1>0 DEF WatchPic
  <2>4. watch'.pc = "dump" => watch'.n <= asked' + 1 /\ watch'.n > 0
    BY <2>2, <2>3, <1>0, <1>1
  <2> QED
    BY <2>2, <2>4, <1>0 DEF WatchPic
<1>7. ASSUME WatchLook PROVE WatchPic'
  <2>1. /\ watch.pc = "look"
        /\ watch' = [watch EXCEPT !.pc = IF pics[watch.n] = NoPic THEN "alive" ELSE "judge"]
    BY <1>7 DEF WatchLook
  <2>2. /\ watch'.judged = watch.judged /\ watch'.verdict = watch.verdict
        /\ watch'.n = watch.n /\ watch'.req = watch.req /\ watch'.clean = watch.clean
        /\ watch'.pc = IF pics[watch.n] = NoPic THEN "alive" ELSE "judge"
    BY <2>1, <1>0 DEF WatchSt
  <2>3. watch.n <= asked /\ watch.n > 0 /\ (watch.clean => Only(watch.n, watch.req))
    BY <2>1, <1>0 DEF WatchPic
  <2>4. watch'.clean => Only(watch.n, watch.req)'
    BY <2>2, <2>3, <1>4
  <2>5. watch'.verdict \in {"PASS", "FAIL"} => watch'.verdict = Verdict(watch'.judged)
    BY <2>2, <1>0 DEF WatchPic
  <2> QED
    BY <2>2, <2>3, <2>4, <2>5, <1>1 DEF WatchPic
<1>8. ASSUME WatchJudge PROVE WatchPic'
  <2>1. /\ watch.pc = "judge"
        /\ watch' = [watch EXCEPT !.pc = "scan", !.judged = pics[watch.n],
                                  !.verdict = Verdict(pics[watch.n])]
    BY <1>8 DEF WatchJudge
  <2>2. /\ watch'.pc = "scan" /\ watch'.n = watch.n /\ watch'.req = watch.req
        /\ watch'.clean = watch.clean /\ watch'.judged = pics[watch.n]
        /\ watch'.verdict = Verdict(pics[watch.n])
    BY <2>1, <1>0 DEF WatchSt
  <2>3. /\ watch.n <= asked /\ pics[watch.n] # NoPic
        /\ watch.clean => Only(watch.n, watch.req)
    BY <2>1, <1>0 DEF WatchPic
  <2>4. watch.clean => pics[watch.n].req = watch.req
    BY <2>3 DEF Only
  <2> QED
    BY <2>2, <2>3, <2>4, <1>1 DEF WatchPic
<1>9. ASSUME WatchScan PROVE WatchPic'
  <2>1. watch.pc = "scan" /\ watch' = [watch EXCEPT !.pc = "alive", !.off = Len(log)]
    BY <1>9 DEF WatchScan
  <2>2. /\ watch'.judged = watch.judged /\ watch'.verdict = watch.verdict
        /\ watch'.n = watch.n /\ watch'.pc = "alive"
    BY <2>1, <1>0 DEF WatchSt
  <2> QED
    BY <2>1, <2>2, <1>0, <1>1 DEF WatchPic
<1>10. ASSUME WatchEnd PROVE WatchPic'
  <2>1. watch' = [watch EXCEPT !.pc = "idle"]
    BY <1>10 DEF WatchEnd
  <2>2. watch'.judged = watch.judged /\ watch'.verdict = watch.verdict /\ watch'.pc = "idle"
    BY <2>1, <1>0 DEF WatchSt
  <2> QED
    BY <2>2, <1>0 DEF WatchPic
<1>11. WatchPic'
  BY <1>5, <1>6, <1>7, <1>8, <1>9, <1>10
<1> QED
  BY <1>3, <1>11, PicPartsNext

LEMMA ShotKeeps ==
  ASSUME SimInv, Next, ShotLook
  PROVE  PicInv'
<1>0. ShotPic /\ 0 \in PicNames /\ asked \in Nat /\ shot \in [pc : {"idle", "look"}, req : Nat, clean : BOOLEAN, got : Nat]
  BY PicParts, WatchParts DEF SimInv, WatchInv, WatchOK
<1>1. /\ UNCHANGED <<qemus, pics, asked, watch>>
      /\ shot.pc = "look" /\ shot' = [shot EXCEPT !.pc = "idle", !.got = pics[0].req]
  BY DEF ShotLook, machineVars
<1>2. DumpsFrom({}) /\ PicsFrom
  BY <1>1, OldDumps, SamePics
<1>3. RealDumps' /\ WatchPic'
  BY <1>0, <1>1, <1>2, DumpsNumbered, WatchPicKept DEF RealDumps
<1>4. /\ shot'.pc = "idle" /\ shot'.got = pics[0].req /\ shot'.req = shot.req
      /\ shot'.clean = shot.clean
  BY <1>0, <1>1
<1>5. shot.clean => pics[0].req \in {0, shot.req}
  BY <1>0, <1>1 DEF ShotPic, Only, NoPic
<1>6. ShotPic'
  BY <1>4, <1>5 DEF ShotPic
<1> QED
  BY <1>3, <1>6, PicPartsNext

LEMMA PicKept ==
  ASSUME SimInv, Next
  PROVE  PicInv'
<1>p. ASSUME NEW i \in Procs, PicStep(i) PROVE PicInv'
  <2>1. UNCHANGED <<watch, shot, asked>>
    BY <1>p DEF PicStep, OpenPic, ClosePic, RefusePic, watchVars
  <2> QED
    BY <2>1, <1>p, StepPics, PicSame
<1>1. CASE WatchNext
  BY <1>1, <1>p, WatchCases, WatchAsks, RoundKeeps
<1>2. CASE ShotNext
  BY <1>2, <1>p, ShotCases, ShotAsks, ShotKeeps
<1>3. CASE ~WatchNext /\ ~ShotNext
  <2>1. UNCHANGED <<watch, shot, asked, pics>>
    <3>1. (SnapNext \/ SendNext) => UNCHANGED <<watch, shot, asked, pics>>
      BY DEF SnapNext, SendNext, watchVars
    <3>2. (UpNext \/ LogNext) => UNCHANGED <<watch, shot, asked, pics>>
      BY DEF UpNext, UpStep, UpCheck, PopenRes, ClearLog, UpEnd, LogNext, LogStep, Follow, Speak
    <3>3. LifeNext => UNCHANGED <<watch, shot, asked, pics>>
      BY DEF LifeNext, BindOne, BindRes, Lost, QuitOne, watchVars
    <3> QED
      BY <1>3, <3>1, <3>2, <3>3, NextCases
  <2> QED
    BY <2>1, SamePics, PicSame
<1> QED
  BY <1>1, <1>2, <1>3

-----------------------------------------------------------------------------
(* The lines of the console.                                                 *)

LEMMA TailHas ==
  ASSUME NEW S, NEW s \in Seq(S), s # <<>>
  PROVE  /\ 1 \in DOMAIN s /\ Head(s) = s[1] /\ Tail(s) \in Seq(S)
         /\ \A k \in DOMAIN Tail(s) : k \in Nat /\ k + 1 \in DOMAIN s /\ Tail(s)[k] = s[k + 1]
OBVIOUS

\* A line leaves the wire: dropped, lost, garbled, or put to the others that wait.
Moves ==
  /\ wire # <<>>
  /\ wire' = Tail(wire)
  /\ \/ tty' = <<>>
     \/ tty' = tty
     \/ tty' = Append(tty, wire[1])
     \/ tty' = Append(tty, Chunk(Bad))

LEMMA MovesHas ==
  ASSUME SendOK, Moves
  PROVE  /\ 1 \in DOMAIN wire
         /\ DOMAIN tty \subseteq Nat /\ DOMAIN wire \subseteq Nat
         /\ \A k \in DOMAIN wire' : k + 1 \in DOMAIN wire /\ wire'[k] = wire[k + 1] /\ k + 1 > 1
         /\ \A k \in DOMAIN tty' :
              \/ k \in DOMAIN tty /\ tty'[k] = tty[k]
              \/ /\ tty'[k] \in {wire[1], Chunk(Bad)}
                 /\ k = Len(tty) + 1
                 /\ \A j \in DOMAIN tty : j < k
<1>1. wire \in Seq(Lines) /\ tty \in Seq(Lines) /\ Chunk(Bad) \in Lines
  BY SendConstants, LinesOK DEF SendOK, Bad
<1>2. /\ 1 \in DOMAIN wire
      /\ \A k \in DOMAIN Tail(wire) : k \in Nat /\ k + 1 \in DOMAIN wire /\ Tail(wire)[k] = wire[k + 1]
  BY <1>1, TailHas DEF Moves
<1>3. \A k \in DOMAIN wire' : k + 1 \in DOMAIN wire /\ wire'[k] = wire[k + 1] /\ k + 1 > 1
  <2>1. \A k \in DOMAIN wire' : k \in 1..Len(wire')
    BY <1>1 DEF Moves
  <2> QED
    BY <1>2, <2>1 DEF Moves
<1>4. ASSUME NEW c \in Lines, tty' = Append(tty, c)
      PROVE  \A k \in DOMAIN tty' : \/ k \in DOMAIN tty /\ tty'[k] = tty[k]
                                    \/ tty'[k] = c /\ k = Len(tty) + 1 /\ \A j \in DOMAIN tty : j < k
  <2>1. /\ DOMAIN Append(tty, c) = DOMAIN tty \cup {Len(tty) + 1}
        /\ Append(tty, c)[Len(tty) + 1] = c
        /\ \A k \in DOMAIN tty : Append(tty, c)[k] = tty[k]
        /\ DOMAIN tty = 1..Len(tty) /\ Len(tty) \in Nat
    BY <1>1, NewTodo
  <2>2. \A j \in DOMAIN tty : j < Len(tty) + 1
    BY <2>1
  <2> QED
    BY <2>1, <2>2, <1>4
<1>5. wire[1] \in Lines
  BY <1>1, <1>2
<1>6. CASE tty' = <<>> \/ tty' = tty
  BY <1>6, <1>1, <1>2, <1>3
<1>7. CASE tty' = Append(tty, wire[1]) \/ tty' = Append(tty, Chunk(Bad))
  BY <1>7, <1>1, <1>2, <1>3, <1>4, <1>5
<1> QED
  BY <1>6, <1>7 DEF Moves

LEMMA MovesKeep ==
  ASSUME SendOK, Moves, NEW kinds, "chunk" \notin kinds, None(kinds)
  PROVE  None(kinds)'
<1>1. Chunk(Bad).do = "chunk"
  BY DEF Chunk
<1> QED
  BY <1>1, MovesHas DEF None

LEMMA MovesSum ==
  ASSUME SendOK, Moves, SumLast
  PROVE  SumLast'
<1>1. Chunk(Bad).do = "chunk"
  BY DEF Chunk
<1>2. ASSUME NEW j \in DOMAIN tty', NEW k \in DOMAIN tty', j < k, tty'[j].do = "sum"
      PROVE  tty'[k].do \notin {"sum", "rm"}
  <2>1. CASE k \in DOMAIN tty /\ tty'[k] = tty[k]
    <3>1. j \in DOMAIN tty /\ tty'[j] = tty[j]
      BY <1>2, <2>1, MovesHas
    <3> QED
      BY <1>2, <2>1, <3>1 DEF SumLast
  <2>2. CASE tty'[k] \in {wire[1], Chunk(Bad)} /\ k = Len(tty) + 1
    <3>1. j \in DOMAIN tty /\ tty'[j] = tty[j]
      BY <1>2, <2>2, MovesHas
    <3> QED
      BY <1>1, <1>2, <2>2, <3>1, MovesHas DEF SumLast
  <2> QED
    BY <1>2, <2>1, <2>2, MovesHas
<1>3. ASSUME NEW j \in DOMAIN wire', NEW k \in DOMAIN wire', j < k, wire'[j].do = "sum"
      PROVE  wire'[k].do \notin {"sum", "rm"}
  <2>1. /\ j + 1 \in DOMAIN wire /\ wire'[j] = wire[j + 1]
        /\ k + 1 \in DOMAIN wire /\ wire'[k] = wire[k + 1]
    BY MovesHas
  <2>2. j + 1 < k + 1
    <3>1. wire' \in Seq(Lines)
      BY DEF Moves, SendOK
    <3>2. j \in Nat /\ k \in Nat
      BY <3>1
    <3> QED
      BY <1>3, <3>2
  <2> QED
    BY <1>3, <2>1, <2>2 DEF SumLast
<1>4. ASSUME NEW j \in DOMAIN tty', NEW k \in DOMAIN wire', tty'[j].do = "sum"
      PROVE  wire'[k].do \notin {"sum", "rm"}
  <2>1. k + 1 \in DOMAIN wire /\ wire'[k] = wire[k + 1] /\ 1 < k + 1 /\ 1 \in DOMAIN wire
    BY MovesHas
  <2>2. CASE j \in DOMAIN tty /\ tty'[j] = tty[j]
    BY <1>4, <2>1, <2>2 DEF SumLast
  <2>3. CASE tty'[j] = wire[1]
    BY <1>4, <2>1, <2>3 DEF SumLast
  <2>4. tty'[j] # Chunk(Bad)
    BY <1>1, <1>4
  <2> QED
    BY <2>2, <2>3, <2>4, MovesHas
<1> QED
  BY <1>2, <1>3, <1>4 DEF SumLast

LEMMA ReadKeeps ==
  ASSUME SendOK, tty # <<>>, tty' = Tail(tty), wire' = wire, NEW kinds, None(kinds)
  PROVE  None(kinds)'
BY TailHas DEF SendOK, None

LEMMA ReadSum ==
  ASSUME SendOK, tty # <<>>, tty' = Tail(tty), wire' = wire, SumLast
  PROVE  /\ SumLast'
         /\ tty[1].do = "sum" => None({"sum", "rm"})'
<1>1. /\ 1 \in DOMAIN tty
      /\ \A k \in DOMAIN tty' : k \in Nat /\ k + 1 \in DOMAIN tty /\ tty'[k] = tty[k + 1]
      /\ \A k \in DOMAIN tty' : 1 < k + 1
  <2>1. tty \in Seq(Lines)
    BY DEF SendOK
  <2>2. \A k \in DOMAIN tty' : k \in 1..Len(tty')
    BY <2>1
  <2> QED
    BY <2>1, <2>2, TailHas
<1>2. \A j, k \in DOMAIN tty' : j < k => j + 1 < k + 1
  BY <1>1
<1>3. SumLast'
  BY <1>1, <1>2 DEF SumLast
<1>4. ASSUME tty[1].do = "sum" PROVE None({"sum", "rm"})'
  BY <1>1, <1>4 DEF None, SumLast
<1> QED
  BY <1>3, <1>4

LEMMA TypeHas ==
  ASSUME SendOK, NEW line \in Lines, Type(line)
  PROVE  /\ DOMAIN wire' = DOMAIN wire \cup {Len(wire) + 1}
         /\ wire'[Len(wire) + 1] = line
         /\ \A k \in DOMAIN wire : wire'[k] = wire[k]
         /\ \A k \in DOMAIN wire : k < Len(wire) + 1
         /\ Len(wire) \in Nat
<1>1. wire \in Seq(Lines) /\ wire' = Append(wire, line)
  BY DEF SendOK, Type
<1>2. /\ DOMAIN Append(wire, line) = DOMAIN wire \cup {Len(wire) + 1}
      /\ Append(wire, line)[Len(wire) + 1] = line
      /\ \A k \in DOMAIN wire : Append(wire, line)[k] = wire[k]
      /\ DOMAIN wire = 1..Len(wire) /\ Len(wire) \in Nat
  BY <1>1, NewTodo
<1>3. \A k \in DOMAIN wire : k < Len(wire) + 1
  BY <1>2
<1> QED
  BY <1>1, <1>2, <1>3

LEMMA TypeKeeps ==
  ASSUME SendOK, NEW line \in Lines, Type(line), tty' = tty, NEW kinds, line.do \notin kinds, None(kinds)
  PROVE  None(kinds)'
BY TypeHas DEF None

LEMMA TypeSum ==
  ASSUME SendOK, Type(Line("sum")), tty' = tty, None({"sum"})
  PROVE  SumLast'
<1>1. Line("sum") \in Lines
  BY LinesOK
<1>2. /\ DOMAIN wire' = DOMAIN wire \cup {Len(wire) + 1} /\ DOMAIN wire \subseteq Nat
      /\ \A k \in DOMAIN wire : wire'[k] = wire[k]
      /\ \A k \in DOMAIN wire : k < Len(wire) + 1
      /\ Len(wire) \in Nat
  <2>1. DOMAIN wire \subseteq Nat
    BY DEF SendOK
  <2> QED
    BY <1>1, <2>1, TypeHas
<1>3. \A j \in DOMAIN wire' : wire'[j].do = "sum" => j = Len(wire) + 1
  BY <1>2 DEF None
<1>4. \A j, k \in DOMAIN wire' : j < k => j # Len(wire) + 1
  BY <1>2
<1>5. \A j \in DOMAIN tty' : tty'[j].do # "sum"
  BY DEF None
<1> QED
  BY <1>3, <1>4, <1>5 DEF SumLast

\* What showing a prompt, reading and printing leave of the session.
SameSession ==
  /\ snd'.tool = snd.tool
  /\ snd'.pc = snd.pc
  /\ snd'.k = snd.k
  /\ snd'.end = snd.end
  /\ snd'.own = snd.own

LEMMA ShowsSame ==
  ASSUME SendOK, NEW p, Shows(p)
  PROVE  SameSession /\ snd'.sum = snd.sum /\ (snd.pc # "idle" => snd'.prompt = p)
<1>1. snd \in SndSt
  BY DEF SendOK, SndSt
<1> QED
  BY <1>1 DEF Shows, SameSession, SndSt

LEMMA SameSnd ==
  ASSUME snd' = snd
  PROVE  SameSession
BY DEF SameSession

LEMMA ArriveDoes ==
  ASSUME SendOK, Arrive
  PROVE  /\ Moves /\ SameSession /\ snd'.sum = snd.sum
         /\ UNCHANGED <<calm, b64, remote>>
         /\ \/ /\ wire[1].do = "^C" /\ tty' = <<>>
               /\ guest' = IF guest \in {"shell", "sum"} THEN "shell" ELSE "login"
               /\ snd.pc # "idle" => snd'.prompt = PromptOf[guest']
            \/ wire[1].do # "^C" /\ tty' = Append(tty, wire[1]) /\ UNCHANGED <<guest, snd>>
<1>1. /\ wire # <<>> /\ wire' = Tail(wire) /\ Head(wire) = wire[1]
      /\ UNCHANGED <<calm, b64, remote>>
  BY TailHas DEF SendOK, Arrive, machineVars
<1>2. CASE wire[1].do = "^C"
  <2>1. tty' = <<>> /\ At(IF guest \in {"shell", "sum"} THEN "shell" ELSE "login")
    BY <1>1, <1>2 DEF Arrive
  <2>2. guest' = (IF guest \in {"shell", "sum"} THEN "shell" ELSE "login") /\ Shows(PromptOf[guest'])
    BY <2>1 DEF At
  <2>3. SameSession /\ snd'.sum = snd.sum /\ (snd.pc # "idle" => snd'.prompt = PromptOf[guest'])
    BY <2>2, ShowsSame
  <2> QED
    BY <1>1, <1>2, <2>1, <2>2, <2>3 DEF Moves
<1>3. CASE wire[1].do # "^C"
  <2>1. tty' = Append(tty, wire[1]) /\ UNCHANGED <<guest, snd>>
    BY <1>1, <1>3 DEF Arrive
  <2> QED
    BY <1>1, <1>3, <2>1, SameSnd DEF Moves
<1> QED
  BY <1>2, <1>3

LEMMA LoginDoes ==
  ASSUME SendOK, Login
  PROVE  /\ tty # <<>> /\ tty' = Tail(tty) /\ wire' = wire
         /\ SameSession /\ snd'.sum = snd.sum
         /\ UNCHANGED <<calm, b64, remote>>
         /\ guest \in {"login", "password", "wrong"}
         /\ guest' = IF guest = "login"
                     THEN IF tty[1].do = "nl" THEN "login"
                          ELSE IF tty[1].do = "name" THEN "password" ELSE "wrong"
                     ELSE IF guest = "password" /\ tty[1].do = "name" THEN "shell" ELSE "login"
         /\ snd.pc # "idle" => snd'.prompt = PromptOf[guest']
<1>1. /\ tty # <<>> /\ tty' = Tail(tty) /\ wire' = wire /\ Head(tty) = tty[1]
      /\ UNCHANGED <<calm, b64, remote>>
  BY TailHas DEF SendOK, Login, machineVars
<1>2. /\ guest \in {"login", "password", "wrong"}
      /\ guest' = IF guest = "login"
                  THEN IF tty[1].do = "nl" THEN "login"
                       ELSE IF tty[1].do = "name" THEN "password" ELSE "wrong"
                  ELSE IF guest = "password" /\ tty[1].do = "name" THEN "shell" ELSE "login"
      /\ Shows(PromptOf[guest'])
  BY <1>1, LoginCases DEF At
<1>3. SameSession /\ snd'.sum = snd.sum /\ (snd.pc # "idle" => snd'.prompt = PromptOf[guest'])
  BY <1>2, ShowsSame
<1> QED
  BY <1>1, <1>2, <1>3

LEMMA ShellDoes ==
  ASSUME SendOK, Shell
  PROVE  /\ tty # <<>> /\ tty' = Tail(tty) /\ wire' = wire /\ guest = "shell"
         /\ SameSession /\ snd'.sum = snd.sum /\ calm' = calm
         /\ b64' = IF tty[1].do \in {"rm", "tidy"} THEN <<>>
                   ELSE IF tty[1].do = "chunk" THEN Append(b64, tty[1].of) ELSE b64
         /\ remote' = IF tty[1].do = "rm" THEN <<>>
                      ELSE IF tty[1].do = "sum" THEN b64 ELSE remote
         /\ guest' = IF tty[1].do = "sum" THEN "sum" ELSE "shell"
         /\ tty[1].do # "sum" /\ snd.pc # "idle" => snd'.prompt = "$"
<1>1. /\ tty # <<>> /\ tty' = Tail(tty) /\ wire' = wire /\ Head(tty) = tty[1]
      /\ guest = "shell" /\ calm' = calm
  BY TailHas DEF SendOK, Shell, machineVars
<1>2. /\ b64' = IF tty[1].do \in {"rm", "tidy"} THEN <<>>
                ELSE IF tty[1].do = "chunk" THEN Append(b64, tty[1].of) ELSE b64
      /\ remote' = IF tty[1].do = "rm" THEN <<>>
                   ELSE IF tty[1].do = "sum" THEN b64 ELSE remote
      /\ IF tty[1].do = "sum" THEN guest' = "sum" /\ UNCHANGED snd ELSE At("shell")
  BY <1>1 DEF Shell
<1>3. CASE tty[1].do = "sum"
  BY <1>1, <1>2, <1>3, SameSnd
<1>4. CASE tty[1].do # "sum"
  <2>1. guest' = "shell" /\ Shows("$")
    BY <1>2, <1>4 DEF At, PromptOf
  <2> QED
    BY <1>1, <1>2, <1>4, <2>1, ShowsSame
<1> QED
  BY <1>3, <1>4

LEMMA PrintDoes ==
  ASSUME SendOK, PrintSum
  PROVE  /\ guest = "sum" /\ guest' = "shell"
         /\ UNCHANGED <<wire, tty, b64, remote, calm>>
         /\ SameSession
         /\ snd'.sum = IF snd.pc = "verdict" /\ snd.sum = "none"
                       THEN (IF remote = Local THEN "same" ELSE "other") ELSE snd.sum
         /\ snd.pc # "idle" => snd'.prompt = "$"
<1> DEFINE s == IF snd.pc = "verdict" /\ snd.sum = "none"
                THEN (IF remote = Local THEN "same" ELSE "other") ELSE snd.sum
<1>1. /\ guest = "sum" /\ guest' = "shell" /\ UNCHANGED <<wire, tty, b64, remote, calm>>
      /\ snd' = IF snd.pc = "idle" THEN snd ELSE [snd EXCEPT !.prompt = "$", !.sum = s]
  BY DEF PrintSum, machineVars
<1>2. snd \in SndSt /\ (snd.pc = "idle" => s = snd.sum)
  BY DEF SendOK, SndSt
<1> HIDE DEF s
<1>3. SameSession /\ snd'.sum = s /\ (snd.pc # "idle" => snd'.prompt = "$")
  BY <1>1, <1>2 DEF SndSt, SameSession
<1> QED
  BY <1>1, <1>3 DEF s

LEMMA LoseDoes ==
  ASSUME SendOK, NEW garbled \in BOOLEAN, Lose(garbled)
  PROVE  /\ Moves /\ UNCHANGED <<guest, b64, remote, snd>>
         /\ "send" \notin calm'
BY DEF Lose, Moves

LEMMA ConsoleSent ==
  ASSUME SendOK, SentInv, Arrive \/ Login \/ Shell \/ PrintSum \/ \E garbled \in BOOLEAN : Lose(garbled)
  PROVE  SentInv'
<1>1. CASE Arrive
  <2>1. /\ Moves /\ SameSession /\ snd'.sum = snd.sum /\ remote' = remote
        /\ guest' = guest \/ guest' \in {"shell", "login"}
    BY <1>1, ArriveDoes
  <2>2. /\ None({"sum"}) => None({"sum"})'
        /\ None({"sum", "rm"}) => None({"sum", "rm"})'
        /\ SumLast => SumLast'
    BY <2>1, MovesKeep, MovesSum
  <2> QED
    BY <2>1, <2>2 DEF SentInv, Stays, SameSession, Local
<1>2. CASE \E garbled \in BOOLEAN : Lose(garbled)
  <2>1. Moves /\ UNCHANGED <<guest, snd, remote>>
    BY <1>2, LoseDoes
  <2>2. /\ None({"sum"}) => None({"sum"})'
        /\ None({"sum", "rm"}) => None({"sum", "rm"})'
        /\ SumLast => SumLast'
    BY <2>1, MovesKeep, MovesSum
  <2> QED
    BY <2>1, <2>2 DEF SentInv, Stays, Local
<1>3. CASE Login
  <2>1. /\ tty # <<>> /\ tty' = Tail(tty) /\ wire' = wire
        /\ SameSession /\ snd'.sum = snd.sum /\ remote' = remote /\ guest' # "sum"
    BY <1>3, LoginDoes
  <2>2. /\ None({"sum"}) => None({"sum"})'
        /\ None({"sum", "rm"}) => None({"sum", "rm"})'
        /\ SumLast => SumLast'
    BY <2>1, ReadKeeps, ReadSum
  <2> QED
    BY <2>1, <2>2 DEF SentInv, Stays, SameSession, Local
<1>4. CASE Shell
  <2>1. /\ tty # <<>> /\ tty' = Tail(tty) /\ wire' = wire
        /\ SameSession /\ snd'.sum = snd.sum
        /\ guest' = "sum" <=> tty[1].do = "sum"
        /\ tty[1].do \notin {"sum", "rm"} => remote' = remote
    BY <1>4, ShellDoes
  <2>2. /\ None({"sum"}) => None({"sum"})'
        /\ None({"sum", "rm"}) => None({"sum", "rm"})'
        /\ SumLast => SumLast' /\ (tty[1].do = "sum" => None({"sum", "rm"})')
    BY <2>1, ReadKeeps, ReadSum
  <2>3. /\ None({"sum"}) => tty[1].do # "sum"
        /\ None({"sum", "rm"}) => tty[1].do \notin {"sum", "rm"}
    BY <2>1, TailHas DEF None, SendOK
  <2> QED
    BY <2>1, <2>2, <2>3 DEF SentInv, Stays, SameSession, Local
<1>5. CASE PrintSum
  <2>1. /\ guest = "sum" /\ guest' = "shell" /\ UNCHANGED <<wire, tty, remote>> /\ SameSession
        /\ snd'.sum = "same" => snd.sum = "same" \/ remote = Local
    BY <1>5, PrintDoes
  <2>2. /\ None({"sum"}) => None({"sum"})'
        /\ None({"sum", "rm"}) => None({"sum", "rm"})'
        /\ SumLast => SumLast'
    BY <2>1 DEF None, SumLast
  <2> QED
    BY <2>1, <2>2 DEF SentInv, Stays, SameSession, Local
<1> QED
  BY <1>1, <1>2, <1>3, <1>4, <1>5

LEMMA HelloDoes ==
  ASSUME SendOK, NEW tool \in {"sendfile", "serx"}, Hello(tool)
  PROVE  /\ wire' \in Seq(Lines)
         /\ Len(wire') = Len(wire) + 2 /\ Len(wire) \in Nat
         /\ wire'[Len(wire) + 1] = Line("^C") /\ wire'[Len(wire) + 2] = Line("nl")
         /\ \A k \in DOMAIN wire' : \/ k \in DOMAIN wire /\ wire'[k] = wire[k]
                                    \/ wire'[k] \in {Line("^C"), Line("nl")}
         /\ snd' = [tool |-> tool, pc |-> "hello", k |-> 0, prompt |-> "none", sum |-> "none",
                    end |-> "none",
                    own |-> guest # "sum" /\ \A j \in DOMAIN Pending : Pending[j].do # "sum"]
         /\ UNCHANGED <<tty, guest, remote, b64>>
<1> DEFINE two == <<Line("^C"), Line("nl")>>
<1>1. wire \in Seq(Lines) /\ two \in Seq(Lines) /\ Len(two) = 2 /\ two[1] = Line("^C") /\ two[2] = Line("nl")
  BY LinesOK DEF SendOK
<1>2. wire' = wire \o two
  BY DEF Hello
<1> HIDE DEF two
<1>3. /\ wire \o two \in Seq(Lines)
      /\ Len(wire \o two) = Len(wire) + Len(two)
      /\ \A i \in 1..(Len(wire) + Len(two)) :
           (wire \o two)[i] = IF i <= Len(wire) THEN wire[i] ELSE two[i - Len(wire)]
  BY <1>1, ConcatProperties
<1>4. wire' \in Seq(Lines) /\ Len(wire') = Len(wire) + 2 /\ Len(wire) \in Nat
  BY <1>1, <1>2, <1>3
<1>5. \A i \in 1..(Len(wire) + 2) :
        wire'[i] = IF i <= Len(wire) THEN wire[i] ELSE two[i - Len(wire)]
  BY <1>1, <1>2, <1>3
<1>6. wire'[Len(wire) + 1] = Line("^C") /\ wire'[Len(wire) + 2] = Line("nl")
  BY <1>1, <1>4, <1>5
<1>7. ASSUME NEW k \in DOMAIN wire'
      PROVE  \/ k \in DOMAIN wire /\ wire'[k] = wire[k]
             \/ wire'[k] \in {Line("^C"), Line("nl")}
  <2>1. k \in 1..(Len(wire) + 2) /\ DOMAIN wire = 1..Len(wire)
    BY <1>1, <1>4
  <2>2. CASE k <= Len(wire)
    BY <1>4, <1>5, <2>1, <2>2
  <2>3. CASE k = Len(wire) + 1 \/ k = Len(wire) + 2
    BY <1>6, <2>3
  <2> QED
    BY <1>4, <2>1, <2>2, <2>3
<1> QED
  BY <1>4, <1>6, <1>7 DEF Hello, HostStep

\* In the state a session of its own begins in no checksum is on its way.
LEMMA HelloNone ==
  ASSUME SendOK, NEW tool \in {"sendfile", "serx"}, Hello(tool), snd'.own
  PROVE  guest # "sum" /\ None({"sum"})'
<1>1. /\ wire \in Seq(Lines) /\ tty \in Seq(Lines)
      /\ guest # "sum" /\ \A j \in DOMAIN Pending : Pending[j].do # "sum"
  <2> DEFINE o == guest # "sum" /\ \A j \in DOMAIN Pending : Pending[j].do # "sum"
  <2>1. snd' = [tool |-> tool, pc |-> "hello", k |-> 0, prompt |-> "none", sum |-> "none",
                end |-> "none", own |-> o]
    BY HelloDoes
  <2> HIDE DEF o
  <2>2. o
    BY <2>1
  <2> QED
    BY <2>2 DEF o, SendOK
<1>2. /\ Len(Pending) = Len(wire) + Len(tty) /\ Pending \in Seq(Lines)
      /\ \A i \in 1..(Len(wire) + Len(tty)) :
           Pending[i] = IF i <= Len(wire) THEN wire[i] ELSE tty[i - Len(wire)]
  BY <1>1, ConcatProperties DEF Pending
<1> HIDE DEF Pending
<1>3. \A k \in DOMAIN wire : wire[k].do # "sum"
  <2>1. \A k \in DOMAIN wire : k \in DOMAIN Pending /\ Pending[k] = wire[k]
    BY <1>1, <1>2
  <2> QED
    BY <1>1, <2>1
<1>4. \A k \in DOMAIN tty : tty[k].do # "sum"
  <2>1. \A k \in DOMAIN tty : Len(wire) + k \in DOMAIN Pending /\ Pending[Len(wire) + k] = tty[k]
    BY <1>1, <1>2
  <2> QED
    BY <1>1, <2>1
<1>5. Line("^C").do # "sum" /\ Line("nl").do # "sum"
  BY DEF Line
<1> QED
  BY <1>1, <1>3, <1>4, <1>5, HelloDoes DEF None

\* The steps of the script that leave the wire, and those that type a line.
LEMMA ScriptSent ==
  ASSUME SendOK, SentInv, ScriptStep
  PROVE  SentInv'
<1>0. snd \in SndSt /\ HostStep
  BY DEF SendOK, SndSt, ScriptStep, Hello, Look, LogIn, NoLogin, RunRm, RunChunk, RunSum, Sent,
     NotSent, RunCmd, Leave
<1>h. UNCHANGED <<tty, guest, remote, b64>>
  BY <1>0 DEF HostStep
<1>1. ASSUME NEW tool \in {"sendfile", "serx"}, Hello(tool) PROVE SentInv'
  <2>1. snd'.pc = "hello" /\ snd'.end = "none"
    BY <1>1, HelloDoes
  <2>2. snd'.own => guest' # "sum" /\ None({"sum"})'
    BY <1>1, <1>h, HelloNone
  <2> QED
    BY <2>1, <2>2 DEF SentInv
<1>2. CASE Look
  <2>1. /\ wire' = wire /\ snd.pc = "hello"
        /\ snd' = [snd EXCEPT !.pc = IF snd.prompt = "$" THEN First(snd.tool) ELSE "login"]
    BY <1>2 DEF Look
  <2>2. /\ snd'.pc \in {"rm", "cmd", "login"} /\ snd'.end = snd.end /\ snd'.own = snd.own
    BY <2>1, <1>0 DEF SndSt, First
  <2> QED
    BY <2>1, <2>2, <1>h DEF SentInv, None
<1>3. CASE LogIn
  <2>1. /\ snd.pc \in {"login", "auth"}
        /\ wire' = wire \/ Type(Line("name"))
    BY <1>3 DEF LogIn
  <2>2. /\ snd'.pc \in {"auth", "rm", "cmd"} /\ snd'.end = snd.end /\ snd'.own = snd.own
    BY <1>3, <1>0 DEF LogIn, SndSt, First
  <2>3. None({"sum"}) => None({"sum"})'
    BY <2>1, <1>h, TypeKeeps, LinesOK DEF None
  <2> QED
    BY <2>1, <2>2, <2>3, <1>h DEF SentInv
<1>4. CASE NoLogin \/ NotSent \/ RunCmd \/ Leave
  <2>1. snd.pc # "idle" /\ \E end \in {"failed", "printed", snd.end} : snd' = [snd EXCEPT !.pc = "idle", !.end = end]
    BY <1>4, <1>0 DEF NoLogin, NotSent, RunCmd, Leave, Failed, SndSt
  <2>2. snd.end = "none"
    BY <2>1 DEF SentInv
  <2>3. snd'.pc = "idle" /\ snd'.end # "sent"
    BY <2>1, <2>2, <1>0 DEF SndSt
  <2> QED
    BY <2>3 DEF SentInv
<1>5. CASE RunRm \/ RunChunk
  <2>1. PICK line \in Lines : Type(line) /\ line.do \in {"rm", "chunk"}
    BY <1>5, <1>0, LinesOK, SendConstants DEF RunRm, RunChunk, SndSt
  <2>2. snd.pc \in {"rm", "chunk"} /\ snd'.pc = "chunk" /\ snd'.end = snd.end /\ snd'.own = snd.own
    BY <1>5, <1>0 DEF RunRm, RunChunk, SndSt
  <2>3. None({"sum"}) => None({"sum"})'
    BY <2>1, <1>h, TypeKeeps
  <2> QED
    BY <2>2, <2>3, <1>h DEF SentInv
<1>6. CASE RunSum
  <2>1. Type(Line("sum")) /\ snd.pc = "chunk" /\ snd' = [snd EXCEPT !.pc = "verdict", !.sum = "none"]
    BY <1>6 DEF RunSum
  <2>2. snd'.pc = "verdict" /\ snd'.sum = "none" /\ snd'.end = snd.end /\ snd'.own = snd.own
    BY <2>1, <1>0 DEF SndSt
  <2>3. None({"sum"}) => SumLast'
    BY <2>1, <1>h, TypeSum
  <2> QED
    BY <2>1, <2>2, <2>3, <1>h DEF SentInv
<1>7. CASE Sent
  <2>1. Type(Line("tidy")) /\ snd.pc = "verdict" /\ snd.sum = "same" /\ snd' = [snd EXCEPT !.pc = "idle", !.end = "sent"]
    BY <1>7 DEF Sent, Matched
  <2>2. snd'.pc = "idle" /\ snd'.end = "sent" /\ snd'.own = snd.own
    BY <2>1, <1>0 DEF SndSt
  <2>3. None({"sum", "rm"}) => None({"sum", "rm"})'
    BY <2>1, <1>h, TypeKeeps, LinesOK
  <2> QED
    BY <2>1, <2>2, <2>3, <1>h DEF SentInv, Stays, Local
<1> QED
  BY <1>1, <1>2, <1>3, <1>4, <1>5, <1>6, <1>7 DEF ScriptStep

LEMMA DownSent ==
  ASSUME SendOK, SentInv, GuestDown
  PROVE  SentInv'
<1>1. /\ guest' = "down" /\ wire' = <<>> /\ tty' = <<>> /\ remote' = remote
      /\ snd' = [snd EXCEPT !.end = "none"]
  BY DEF GuestDown
<1>2. /\ snd'.end = "none" /\ snd'.pc = snd.pc /\ snd'.own = snd.own /\ snd'.sum = snd.sum
  BY <1>1 DEF SendOK
<1>3. \A kinds : None(kinds)'
  BY <1>1 DEF None
<1>4. SumLast'
  BY <1>1 DEF SumLast
<1> QED
  BY <1>1, <1>2, <1>3, <1>4 DEF SentInv, Stays, Local

LEMMA UpSent ==
  ASSUME SendOK, SentInv, GuestUp
  PROVE  SentInv'
BY DEF GuestUp, SentInv, Stays, Local, None, SumLast

LEMMA SentKept ==
  ASSUME SimInv, Next
  PROVE  SentInv'
<1>0. SendOK /\ SentInv
  BY DEF SimInv, TypeOK
<1>1. UNCHANGED sendVars => SentInv'
  BY <1>0 DEF sendVars, guestVars, SentInv, Stays, Local, None, SumLast
<1>2. CASE SendNext
  BY <1>2, <1>0, SendCases, ConsoleSent, ScriptSent
<1>3. CASE LifeNext
  <2>1. GuestUp \/ GuestDown \/ UNCHANGED sendVars
    BY <1>3 DEF LifeNext, BindOne, Lost, QuitOne
  <2> QED
    BY <2>1, <1>0, <1>1, DownSent, UpSent
<1> QED
  BY <1>1, <1>2, <1>3, OtherTools

-----------------------------------------------------------------------------
(* The dialog of a session nothing disturbs.                                 *)

LEMMA OneLine ==
  ASSUME NEW x \in Lines
  PROVE  /\ <<x>> \in Seq(Lines) /\ <<x>> # <<>> /\ <<x>>[1] = x
         /\ Tail(<<x>>) = <<>> /\ Append(<<>>, x) = <<x>>
<1>1. Tail(<<x>>) \in Seq(Lines) /\ Len(Tail(<<x>>)) = 0
  OBVIOUS
<1>2. Tail(<<x>>) = <<>>
  BY <1>1, EmptySeq
<1> QED
  BY <1>2

LEMMA WayArrives ==
  ASSUME SendOK, Arrive, NEW line \in Lines, line.do # "^C", OnWay(line)
  PROVE  OnWay(line)' /\ UNCHANGED <<guest, snd, b64, remote>>
<1>1. wire = <<line>> /\ tty = <<>>
  BY DEF OnWay, Arrive
<1>2. wire[1] = line /\ wire' = Tail(wire)
  BY <1>1, OneLine, ArriveDoes DEF Moves
<1>3. tty' = Append(tty, wire[1]) /\ UNCHANGED <<guest, snd, b64, remote>>
  BY <1>2, ArriveDoes
<1>4. wire' = <<>> /\ tty' = <<line>>
  BY <1>1, <1>2, <1>3, OneLine
<1> QED
  BY <1>3, <1>4 DEF OnWay

LEMMA WayRead ==
  ASSUME SendOK, NEW line \in Lines, OnWay(line), tty # <<>>, tty' = Tail(tty), wire' = wire
  PROVE  Taken' /\ tty[1] = line
<1>1. tty = <<line>> /\ wire = <<>>
  BY DEF OnWay
<1> QED
  BY <1>1, OneLine DEF Taken

LEMMA TypeWay ==
  ASSUME Taken, NEW line \in Lines, Type(line), tty' = tty
  PROVE  OnWay(line)'
BY OneLine DEF Taken, Type, OnWay

LEMMA WayBusy ==
  ASSUME NEW line \in Lines, OnWay(line)
  PROVE  ~Quiet
BY OneLine DEF OnWay, Quiet

LEMMA Hellos ==
  ASSUME SendOK, HelloInv, snd.pc = "hello", Arrive \/ Login \/ Shell \/ PrintSum
  PROVE  HelloInv'
<1>0. /\ wire \in Seq(Lines) /\ tty \in Seq(Lines) /\ Line("nl") \in Lines /\ Line("nl").do = "nl"
      /\ Line("^C").do = "^C"
  BY LinesOK DEF SendOK
<1>1. ASSUME wire' = wire, Len(wire) >= 2, wire[Len(wire) - 1] = Line("^C"), wire[Len(wire)] = Line("nl")
      PROVE  HelloInv'
  BY <1>1 DEF HelloInv
<1>2. CASE Len(wire) >= 2 /\ wire[Len(wire) - 1] = Line("^C") /\ wire[Len(wire)] = Line("nl")
  <2>1. ASSUME Arrive PROVE HelloInv'
    <3>1. wire' = Tail(wire) /\ wire # <<>>
      BY <2>1, ArriveDoes DEF Moves
    <3>2. Len(wire) \in Nat /\ Len(wire') = Len(wire) - 1 /\ wire' \in Seq(Lines)
          /\ \A k \in 1..(Len(wire) - 1) : wire'[k] = wire[k + 1]
      BY <3>1, <1>0
    <3>3. CASE Len(wire) > 2
      <4>1. Len(wire') >= 2 /\ wire'[Len(wire') - 1] = wire[Len(wire) - 1] /\ wire'[Len(wire')] = wire[Len(wire)]
        BY <3>2, <3>3
      <4> QED
        BY <4>1, <1>2 DEF HelloInv
    <3>4. CASE Len(wire) = 2
      <4>1. wire[1] = Line("^C") /\ wire[2] = Line("nl")
        BY <3>2, <3>4, <1>2
      <4>2. Len(wire') = 1 /\ wire'[1] = Line("nl")
        BY <3>2, <3>4, <4>1
      <4>3. wire' = <<Line("nl")>>
        BY <4>2, <3>2
      <4>4. tty' = <<>> /\ guest' \in {"shell", "login"} /\ snd'.prompt = PromptOf[guest']
        BY <2>1, <4>1, <1>0, ArriveDoes
      <4>5. OnWay(Line("nl"))'
        BY <4>3, <4>4 DEF OnWay, Line
      <4> QED
        BY <4>4, <4>5 DEF HelloInv, Shown, PromptOf
    <3> QED
      BY <3>2, <3>3, <3>4, <1>2
  <2>2. ASSUME Login PROVE wire' = wire
    BY <2>2, LoginDoes
  <2>3. ASSUME Shell PROVE wire' = wire
    BY <2>3, ShellDoes
  <2>4. ASSUME PrintSum PROVE wire' = wire
    BY <2>4, PrintDoes
  <2> QED
    BY <2>1, <2>2, <2>3, <2>4, <1>1, <1>2
<1>3. CASE OnWay(Line("nl")) /\ (Shown("login") \/ Shown("shell"))
  <2>1. ASSUME Arrive PROVE HelloInv'
    <3>1. OnWay(Line("nl"))' /\ UNCHANGED <<guest, snd>>
      BY <2>1, <1>0, <1>3, WayArrives
    <3> QED
      BY <3>1, <1>3 DEF HelloInv, Shown, PromptOf, OnWay, Line
  <2>2. ASSUME Login PROVE HelloInv'
    <3>1. /\ tty # <<>> /\ tty' = Tail(tty) /\ wire' = wire /\ guest \in {"login", "password", "wrong"}
      BY <2>2, LoginDoes
    <3>2. Taken' /\ tty[1] = Line("nl") /\ guest = "login"
      BY <3>1, <1>0, <1>3, WayRead DEF Shown
    <3>3. guest' = "login" /\ snd'.prompt = PromptOf[guest']
      BY <2>2, <3>2, <1>0, LoginDoes
    <3> QED
      BY <3>2, <3>3 DEF HelloInv, Shown, PromptOf
  <2>3. ASSUME Shell PROVE HelloInv'
    <3>1. /\ tty # <<>> /\ tty' = Tail(tty) /\ wire' = wire
      BY <2>3, ShellDoes
    <3>2. Taken' /\ tty[1] = Line("nl")
      BY <3>1, <1>0, <1>3, WayRead
    <3>3. guest' = "shell" /\ snd'.prompt = "$"
      BY <2>3, <3>2, <1>0, ShellDoes
    <3> QED
      BY <3>2, <3>3 DEF HelloInv, Shown, PromptOf
  <2>4. ~PrintSum
    BY <1>3 DEF Shown, PrintSum
  <2> QED
    BY <2>1, <2>2, <2>3, <2>4
<1>4. CASE Taken /\ (Shown("login") \/ Shown("shell"))
  BY <1>4 DEF Taken, Shown, Arrive, Login, Shell, PrintSum
<1> QED
  BY <1>2, <1>3, <1>4 DEF HelloInv

LEMMA Auths ==
  ASSUME SendOK, AuthInv, snd.pc = "auth", Arrive \/ Login \/ Shell \/ PrintSum
  PROVE  AuthInv'
<1>0. Line("name") \in Lines /\ Line("name").do = "name"
  BY LinesOK
<1>1. OnWay(Line("name")) /\ guest \in {"login", "password"} /\ snd.prompt = "none"
      /\ (Arrive \/ Login)
  BY DEF AuthInv, Taken, Shown, Arrive, Login, Shell, PrintSum
<1>2. ASSUME Arrive PROVE AuthInv'
  <2>1. OnWay(Line("name"))' /\ UNCHANGED <<guest, snd>>
    BY <1>0, <1>1, <1>2, WayArrives
  <2> QED
    BY <2>1, <1>1 DEF AuthInv, OnWay, Line
<1>3. ASSUME Login PROVE AuthInv'
  <2>1. tty # <<>> /\ tty' = Tail(tty) /\ wire' = wire
    BY <1>3, LoginDoes
  <2>2. Taken' /\ tty[1] = Line("name")
    BY <2>1, <1>0, <1>1, WayRead
  <2>3. guest' \in {"password", "shell"} /\ snd'.prompt = PromptOf[guest']
    BY <1>0, <1>1, <1>3, <2>2, LoginDoes
  <2> QED
    BY <2>2, <2>3 DEF AuthInv, Shown, PromptOf
<1> QED
  BY <1>1, <1>2, <1>3

LEMMA Firsts ==
  /\ FirstK(0) = <<>>
  /\ \A k \in 1..Chunks : Append(FirstK(k - 1), k) = FirstK(k)
  /\ FirstK(Chunks) = Local
<1>1. FirstK(0) = <<>>
  BY DEF FirstK
<1>2. ASSUME NEW k \in 1..Chunks PROVE Append(FirstK(k - 1), k) = FirstK(k)
  <2>1. Chunks \in Nat /\ k \in Nat /\ k - 1 \in Nat
    BY SendConstants
  <2>2. /\ FirstK(k - 1) \in Seq(Nat) /\ Len(FirstK(k - 1)) = k - 1
        /\ \A j \in 1..(k - 1) : FirstK(k - 1)[j] = j
    BY <2>1 DEF FirstK
  <2>3. FirstK(k) \in Seq(Nat) /\ Len(FirstK(k)) = k /\ \A j \in 1..k : FirstK(k)[j] = j
    BY <2>1 DEF FirstK
  <2>4. /\ Append(FirstK(k - 1), k) \in Seq(Nat) /\ Len(Append(FirstK(k - 1), k)) = k
        /\ \A j \in 1..k : Append(FirstK(k - 1), k)[j] = j
    BY <2>1, <2>2, AppendProperties
  <2> HIDE DEF FirstK
  <2>5. \A s, t \in Seq(Nat) : Len(s) = Len(t) /\ (\A j \in 1..Len(s) : s[j] = t[j]) => s = t
    BY SeqEqual
  <2> QED
    BY <2>3, <2>4, <2>5
<1>3. FirstK(Chunks) = Local
  BY DEF FirstK, Local
<1> QED
  BY <1>1, <1>2, <1>3

LEMMA ChunkSteps ==
  ASSUME SendOK, ChunkInv, snd.pc = "chunk", Arrive \/ Login \/ Shell \/ PrintSum
  PROVE  ChunkInv'
<1>0. snd.k \in 0..Chunks /\ Chunks \in Nat /\ guest = "shell"
  BY SendConstants DEF SendOK, ChunkInv
<1>1. PICK line \in Lines : /\ line = ChunkLine
                            /\ snd.k = 0 => line.do = "rm"
                            /\ snd.k > 0 => line.do = "chunk" /\ line.of = snd.k
                            /\ line.do # "^C"
  <2>1. CASE snd.k = 0
    BY <2>1, LinesOK DEF ChunkLine
  <2>2. CASE snd.k > 0
    <3>1. ChunkLine = Chunk(snd.k) /\ Chunk(snd.k) \in Lines /\ Chunk(snd.k).do = "chunk"
      BY <1>0, <2>2, LinesOK DEF ChunkLine
    <3>2. Chunk(snd.k).of = snd.k
      BY DEF Chunk
    <3> QED
      BY <1>0, <2>2, <3>1, <3>2
  <2> QED
    BY <1>0, <2>1, <2>2
<1>2. OnWay(line) /\ (snd.k > 0 => b64 = FirstK(snd.k - 1)) /\ (Arrive \/ Shell)
  BY <1>0, <1>1 DEF ChunkInv, Taken, Arrive, Login, Shell, PrintSum
<1>3. ASSUME Arrive PROVE ChunkInv'
  <2>1. OnWay(line)' /\ UNCHANGED <<guest, snd, b64>>
    BY <1>1, <1>2, <1>3, WayArrives
  <2>2. ChunkLine' = line
    BY <1>1, <2>1 DEF ChunkLine
  <2>3. OnWay(ChunkLine)'
    BY <2>1, <2>2 DEF OnWay
  <2> QED
    BY <1>0, <1>2, <2>1, <2>3 DEF ChunkInv, FirstK
<1>4. ASSUME Shell PROVE ChunkInv'
  <2>1. tty # <<>> /\ tty' = Tail(tty) /\ wire' = wire /\ SameSession
    BY <1>4, ShellDoes
  <2>2. Taken' /\ tty[1] = line /\ snd'.k = snd.k
    BY <2>1, <1>2, WayRead DEF SameSession
  <2>3. CASE snd.k = 0
    <3>1. line.do = "rm"
      BY <1>1, <2>3
    <3>2. b64' = <<>> /\ guest' = "shell"
      BY <3>1, <1>4, <2>2, ShellDoes
    <3>3. b64' = FirstK(snd'.k)
      BY <3>2, <2>2, <2>3, Firsts
    <3> QED
      BY <3>2, <3>3, <2>2 DEF ChunkInv, FirstK
  <2>4. CASE snd.k > 0
    <3>1. line.do = "chunk" /\ line.of = snd.k
      BY <1>1, <2>4
    <3>2. b64' = Append(b64, snd.k) /\ guest' = "shell"
      BY <3>1, <1>4, <2>2, ShellDoes
    <3>3. b64 = FirstK(snd.k - 1) /\ snd.k \in 1..Chunks
      BY <1>0, <1>2, <2>4
    <3>4. b64' = FirstK(snd.k)
      BY <3>2, <3>3, Firsts
    <3>5. b64' = FirstK(snd'.k)
      BY <3>4, <2>2
    <3> QED
      BY <3>2, <3>5, <2>2 DEF ChunkInv, FirstK
  <2> QED
    BY <1>0, <2>3, <2>4
<1> QED
  BY <1>2, <1>3, <1>4

LEMMA Verdicts ==
  ASSUME SendOK, VerdictInv, snd.pc = "verdict", Arrive \/ Login \/ Shell \/ PrintSum
  PROVE  VerdictInv'
<1>0. Line("sum") \in Lines /\ Line("sum").do = "sum"
  BY LinesOK
<1>1. CASE OnWay(Line("sum")) /\ guest = "shell" /\ b64 = Local /\ snd.sum = "none"
  <2>1. Arrive \/ Shell
    BY <1>1 DEF Login, PrintSum
  <2>2. ASSUME Arrive PROVE VerdictInv'
    <3>1. OnWay(Line("sum"))' /\ UNCHANGED <<guest, snd, b64>>
      BY <1>0, <1>1, <2>2, WayArrives
    <3> QED
      BY <3>1, <1>1 DEF VerdictInv, OnWay, Line, Local
  <2>3. ASSUME Shell PROVE VerdictInv'
    <3>1. tty # <<>> /\ tty' = Tail(tty) /\ wire' = wire
      BY <2>3, ShellDoes
    <3>2. Taken' /\ tty[1] = Line("sum")
      BY <3>1, <1>0, <1>1, WayRead
    <3>3. guest' = "sum" /\ remote' = b64 /\ snd'.sum = snd.sum
      BY <1>0, <2>3, <3>2, ShellDoes
    <3> QED
      BY <3>2, <3>3, <1>1 DEF VerdictInv, Local
  <2> QED
    BY <2>1, <2>2, <2>3
<1>2. CASE Taken /\ guest = "sum" /\ remote = Local /\ snd.sum = "none"
  <2>1. PrintSum
    BY <1>2 DEF Taken, Arrive, Login, Shell
  <2>2. UNCHANGED <<wire, tty>> /\ guest' = "shell" /\ snd'.sum = "same"
    BY <1>2, <2>1, PrintDoes
  <2> QED
    BY <2>2, <1>2 DEF VerdictInv, Taken
<1>3. CASE Taken /\ guest = "shell" /\ snd.sum = "same"
  BY <1>3 DEF Taken, Arrive, Login, Shell, PrintSum
<1> QED
  BY <1>1, <1>2, <1>3 DEF VerdictInv

LEMMA ConsoleDialog ==
  ASSUME SendOK, DialogInv, Arrive \/ Login \/ Shell \/ PrintSum
  PROVE  DialogInv'
<1>1. SameSession /\ calm' = calm
  BY ArriveDoes, LoginDoes, ShellDoes, PrintDoes
<1>2. CASE "send" \notin calm
  BY <1>1, <1>2 DEF DialogInv, SameSession
<1>3. CASE "send" \in calm
  <2>1. snd.pc = "hello" => HelloInv'
    BY <1>3, Hellos DEF DialogInv
  <2>2. ~(snd.pc \in {"login", "rm"})
    BY <1>3 DEF DialogInv, Taken, Shown, Arrive, Login, Shell, PrintSum
  <2>3. snd.pc = "auth" => AuthInv'
    BY <1>3, Auths DEF DialogInv
  <2>4. snd.pc = "chunk" => ChunkInv'
    BY <1>3, ChunkSteps DEF DialogInv
  <2>5. snd.pc = "verdict" => VerdictInv'
    BY <1>3, Verdicts DEF DialogInv
  <2>6. snd'.pc = snd.pc /\ snd'.k = snd.k /\ snd'.end = snd.end
    BY <1>1 DEF SameSession
  <2> HIDE DEF HelloInv, AuthInv, ChunkInv, VerdictInv
  <2> QED
    BY <1>1, <1>3, <2>1, <2>2, <2>3, <2>4, <2>5, <2>6 DEF DialogInv
<1> QED
  BY <1>2, <1>3

LEMMA QuietHello ==
  ASSUME SendOK, HelloInv, Quiet
  PROVE  Taken /\ (Shown("login") \/ Shown("shell"))
<1>1. Line("nl") \in Lines /\ Len(wire) = 0
  BY LinesOK DEF Quiet
<1> QED
  BY <1>1, WayBusy DEF HelloInv

LEMMA ScriptDialog ==
  ASSUME SendOK, DialogInv, ScriptStep
  PROVE  DialogInv'
<1>0. snd \in SndSt /\ HostStep /\ snd.k \in 0..Chunks /\ Chunks \in Nat
  BY SendConstants DEF SendOK, SndSt, ScriptStep, Hello, Look, LogIn, NoLogin, RunRm, RunChunk, RunSum, Sent,
     NotSent, RunCmd, Leave
<1>h. UNCHANGED <<tty, guest, remote, b64>>
  BY <1>0 DEF HostStep
<1>l. "send" \in Late => "send" \in calm /\ Quiet
  BY DEF Late
<1>i. ASSUME snd'.pc = "idle", "send" \in calm' => snd'.end # "failed"
      PROVE  DialogInv'
  BY <1>i DEF DialogInv
<1>1. ASSUME NEW tool \in {"sendfile", "serx"}, Hello(tool) PROVE DialogInv'
  <2>1. snd'.pc = "hello" /\ snd'.end = "none" /\ snd'.k = 0
    BY <1>1, HelloDoes
  <2>2. Len(wire') >= 2 /\ wire'[Len(wire') - 1] = Line("^C") /\ wire'[Len(wire')] = Line("nl")
    BY <1>1, HelloDoes
  <2>3. HelloInv'
    BY <2>2 DEF HelloInv, Line
  <2> HIDE DEF HelloInv
  <2> QED
    BY <2>1, <2>3 DEF DialogInv
<1>2. CASE Look
  <2>1. /\ wire' = wire /\ snd.pc = "hello" /\ calm' = Late
        /\ snd' = [snd EXCEPT !.pc = IF snd.prompt = "$" THEN First(snd.tool) ELSE "login"]
    BY <1>2 DEF Look
  <2>2. /\ snd'.pc \in {"rm", "cmd", "login"}
        /\ snd.prompt # "$" <=> snd'.pc = "login"
        /\ snd'.end = snd.end /\ snd'.k = snd.k /\ snd'.prompt = snd.prompt
    BY <2>1, <1>0 DEF SndSt, First
  <2>3. snd.k = 0 /\ ("send" \in calm => snd.end # "failed")
    BY <2>1 DEF DialogInv
  <2>4. ASSUME "send" \in calm'
        PROVE  Taken /\ (Shown("login") \/ Shown("shell")) /\ "send" \in calm
    BY <2>1, <2>4, <1>l, QuietHello DEF DialogInv
  <2>5. ASSUME "send" \in calm' PROVE Taken' /\ guest' = guest /\ (snd'.pc = "login" => Shown("login")')
                                      /\ (snd'.pc # "login" => guest' = "shell")
    BY <2>4, <2>5, <2>1, <2>2, <1>h DEF Taken, Shown, PromptOf
  <2> QED
    BY <2>2, <2>3, <2>4, <2>5 DEF DialogInv
<1>3. CASE LogIn
  <2>0. calm' = calm /\ snd.pc \in {"login", "auth"} /\ Line("name") \in Lines
    BY <1>3, LinesOK DEF LogIn
  <2>1. snd'.end = snd.end /\ snd'.k = snd.k /\ snd'.pc \in {"auth", "rm", "cmd"}
    BY <1>3, <1>0 DEF LogIn, SndSt, First
  <2>2. snd'.k = 0 /\ ("send" \in calm' => snd'.end # "failed")
    BY <2>0, <2>1 DEF DialogInv
  <2>3. ASSUME "send" \in calm, snd'.pc = "auth" PROVE AuthInv'
    <3>1. Type(Line("name")) /\ snd'.prompt = "none"
          /\ (snd.pc = "login" \/ (snd.pc = "auth" /\ snd.prompt = "Password"))
      BY <1>3, <2>3, <1>0 DEF LogIn, SndSt, First
    <3>2. Taken /\ guest \in {"login", "password"}
      BY <2>3, <3>1 DEF DialogInv, AuthInv, Shown, PromptOf
    <3>3. OnWay(Line("name"))'
      BY <2>0, <3>1, <3>2, <1>h, TypeWay
    <3> QED
      BY <3>1, <3>2, <3>3, <1>h DEF AuthInv, OnWay, Line
  <2>4. ASSUME "send" \in calm, snd'.pc # "auth" PROVE Taken' /\ guest' = "shell"
    <3>1. snd.pc = "auth" /\ snd.prompt = "$" /\ wire' = wire
      BY <1>3, <2>4, <1>0 DEF LogIn, SndSt
    <3>2. Taken /\ guest = "shell"
      BY <2>4, <3>1 DEF DialogInv, AuthInv, Shown, PromptOf
    <3> QED
      BY <3>1, <3>2, <1>h DEF Taken
  <2> HIDE DEF AuthInv
  <2> QED
    BY <2>0, <2>1, <2>2, <2>3, <2>4 DEF DialogInv
<1>4. CASE NoLogin
  <2>1. snd' = [snd EXCEPT !.pc = "idle", !.end = "failed"] /\ calm' = Late
    BY <1>4 DEF NoLogin, Failed
  <2>2. ASSUME "send" \in calm' PROVE FALSE
    <3>1. "send" \in calm /\ Quiet /\ Line("name") \in Lines
      BY <2>1, <2>2, <1>l, LinesOK
    <3> QED
      BY <1>4, <3>1, WayBusy DEF NoLogin, DialogInv, AuthInv, Shown, PromptOf
  <2>3. snd'.pc = "idle"
    BY <2>1, <1>0 DEF SndSt
  <2> QED
    BY <2>2, <2>3, <1>i
<1>5. CASE RunRm
  <2>1. /\ Type(Line("rm")) /\ snd.pc = "rm" /\ calm' = Late /\ Line("rm") \in Lines
        /\ snd' = [snd EXCEPT !.pc = "chunk"]
    BY <1>5, LinesOK DEF RunRm
  <2>2. snd'.pc = "chunk" /\ snd'.k = snd.k /\ snd'.end = snd.end /\ snd.k = 0
    BY <2>1, <1>0 DEF SndSt, DialogInv
  <2>3. ASSUME "send" \in calm' PROVE ChunkInv' /\ snd'.end # "failed"
    <3>1. Taken /\ guest = "shell" /\ snd.end # "failed"
      BY <2>1, <2>3, <1>l DEF DialogInv
    <3>2. OnWay(Line("rm"))'
      BY <2>1, <3>1, <1>h, TypeWay
    <3>3. OnWay(ChunkLine)'
      BY <2>2, <3>2 DEF ChunkLine, OnWay, Line
    <3> QED
      BY <2>2, <3>1, <3>3, <1>h DEF ChunkInv
  <2> HIDE DEF ChunkInv
  <2> QED
    BY <2>2, <2>3 DEF DialogInv
<1>6. CASE RunChunk
  <2>1. /\ Type(Chunk(snd.k + 1)) /\ snd.pc = "chunk" /\ snd.k < Chunks /\ calm' = Late
        /\ snd' = [snd EXCEPT !.k = snd.k + 1]
    BY <1>6 DEF RunChunk
  <2>2. snd'.pc = "chunk" /\ snd'.k = snd.k + 1 /\ snd'.end = snd.end
    BY <2>1, <1>0 DEF SndSt
  <2>3. ASSUME "send" \in calm' PROVE ChunkInv' /\ snd'.end # "failed"
    <3>1. ChunkInv /\ Quiet /\ snd.end # "failed"
      BY <2>1, <2>3, <1>l DEF DialogInv
    <3>2. ChunkLine \in Lines
      BY <1>0, LinesOK DEF ChunkLine
    <3>3. Taken /\ guest = "shell" /\ b64 = FirstK(snd.k)
      BY <3>1, <3>2, WayBusy DEF ChunkInv
    <3>4. PICK line \in Lines : line = Chunk(snd.k + 1)
      BY <1>0, <2>1, LinesOK
    <3>5. OnWay(line)'
      BY <2>1, <3>3, <3>4, <1>h, TypeWay
    <3>6. ChunkLine' = line
      BY <2>2, <3>4, <1>0 DEF ChunkLine, Chunk
    <3>7. OnWay(ChunkLine)'
      BY <3>5, <3>6 DEF OnWay
    <3>8. b64' = FirstK(snd'.k - 1)
      BY <2>2, <3>3, <1>h, <1>0
    <3> QED
      BY <2>2, <3>1, <3>3, <3>7, <3>8, <1>h DEF ChunkInv
  <2> HIDE DEF ChunkInv
  <2> QED
    BY <2>2, <2>3 DEF DialogInv
<1>7. CASE RunSum
  <2>1. /\ Type(Line("sum")) /\ snd.pc = "chunk" /\ snd.k = Chunks /\ calm' = Late
        /\ Line("sum") \in Lines
        /\ snd' = [snd EXCEPT !.pc = "verdict", !.sum = "none"]
    BY <1>7, LinesOK DEF RunSum
  <2>2. snd'.pc = "verdict" /\ snd'.sum = "none" /\ snd'.end = snd.end
    BY <2>1, <1>0 DEF SndSt
  <2>3. ASSUME "send" \in calm' PROVE VerdictInv' /\ snd'.end # "failed"
    <3>1. ChunkInv /\ Quiet /\ snd.end # "failed"
      BY <2>1, <2>3, <1>l DEF DialogInv
    <3>2. ChunkLine \in Lines
      BY <1>0, LinesOK DEF ChunkLine
    <3>3. Taken /\ guest = "shell" /\ b64 = Local
      BY <2>1, <3>1, <3>2, WayBusy, Firsts DEF ChunkInv
    <3>4. OnWay(Line("sum"))'
      BY <2>1, <3>3, <1>h, TypeWay
    <3> QED
      BY <2>2, <3>1, <3>3, <3>4, <1>h DEF VerdictInv, OnWay, Line, Local
  <2> HIDE DEF VerdictInv
  <2> QED
    BY <2>2, <2>3 DEF DialogInv
<1>8. CASE Sent \/ RunCmd
  <2>1. snd'.pc = "idle" /\ snd'.end \in {"sent", "printed"}
    BY <1>8, <1>0 DEF Sent, RunCmd, SndSt
  <2> QED
    BY <2>1, <1>i
<1>9. CASE NotSent
  <2>1. snd' = [snd EXCEPT !.pc = "idle", !.end = "failed"] /\ calm' = Late
    BY <1>9 DEF NotSent, Failed
  <2>2. ASSUME "send" \in calm' PROVE FALSE
    <3>1. "send" \in calm /\ Quiet /\ Line("sum") \in Lines
      BY <2>1, <2>2, <1>l, LinesOK
    <3> QED
      BY <1>9, <3>1, WayBusy DEF NotSent, Matched, DialogInv, VerdictInv, Quiet
  <2>3. snd'.pc = "idle"
    BY <2>1, <1>0 DEF SndSt
  <2> QED
    BY <2>2, <2>3, <1>i
<1>10. CASE Leave
  <2>1. snd'.pc = "idle" /\ "send" \notin calm'
    BY <1>10, <1>0 DEF Leave, SndSt
  <2> QED
    BY <2>1, <1>i
<1> QED
  BY <1>1, <1>2, <1>3, <1>4, <1>5, <1>6, <1>7, <1>8, <1>9, <1>10 DEF ScriptStep

LEMMA DialogKept ==
  ASSUME SimInv, Next
  PROVE  DialogInv'
<1>0. SendOK /\ DialogInv /\ ConsoleInv /\ MachineOK
  BY DEF SimInv, TypeOK
<1>1. ASSUME UNCHANGED sendVars, "send" \in calm' => "send" \in calm PROVE DialogInv'
  BY <1>0, <1>1 DEF sendVars, guestVars, DialogInv, HelloInv, AuthInv, ChunkInv, ChunkLine, VerdictInv,
     OnWay, Taken, Shown, Line, Chunk, FirstK, PromptOf, Local
<1>2. ASSUME "send" \notin calm', snd'.pc = snd.pc, snd'.k = snd.k PROVE DialogInv'
  BY <1>0, <1>2 DEF DialogInv
<1>3. CASE SendNext
  <2>1. ASSUME NEW garbled \in BOOLEAN, Lose(garbled) PROVE DialogInv'
    BY <2>1, <1>0, <1>2, LoseDoes
  <2> QED
    BY <1>3, <1>0, <2>1, SendCases, ConsoleDialog, ScriptDialog
<1>4. CASE LifeNext
  <2>0. PICK i \in Procs : (\E ok \in BOOLEAN : Binds(i, ok)) \/ Dies(i) \/ Quits(i)
    BY <1>4, <1>0, LifeEffect DEF Lives
  <2>d. ASSUME GuestDown PROVE snd'.pc = snd.pc /\ snd'.k = snd.k
    BY <1>0, <2>d DEF GuestDown, SendOK
  <2>1. ASSUME NEW ok \in BOOLEAN, Binds(i, ok) PROVE DialogInv'
    <3>1. calm' = calm
      BY <2>1 DEF Binds
    <3>2. CASE ok
      <4>1. PortFree /\ GuestUp
        BY <2>1, <3>2 DEF Binds
      <4>2. "send" \notin calm /\ snd' = snd
        BY <4>1, <1>0 DEF ConsoleInv, GuestUp
      <4> QED
        BY <3>1, <4>2, <1>2
    <3>3. CASE ~ok
      BY <2>1, <3>1, <3>3, <1>1 DEF Binds
    <3> QED
      BY <3>2, <3>3
  <2>2. ASSUME Dies(i) PROVE DialogInv'
    <3>1. "send" \notin calm' /\ (GuestDown \/ UNCHANGED sendVars)
      BY <2>2 DEF Dies
    <3>2. UNCHANGED sendVars => snd' = snd
      BY DEF sendVars
    <3> QED
      BY <3>1, <3>2, <2>d, <1>2
  <2>3. ASSUME Quits(i) PROVE DialogInv'
    <3>1. "send" \notin calm' /\ GuestDown
      BY <2>3 DEF Quits
    <3> QED
      BY <3>1, <2>d, <1>2
  <2> QED
    BY <2>0, <2>1, <2>2, <2>3
<1> QED
  BY <1>1, <1>3, <1>4, OtherTools

-----------------------------------------------------------------------------
(* The invariant and what it shows.                                          *)

\* A simulator at rest is in order.
LEMMA SimStarts ==
  ASSUME Init
  PROVE  SimInv
<1> USE SendConstants, WatchConstants
<1>0. /\ \/ qemus = <<[Spawned("res", FALSE) EXCEPT !.st = "up"]>> /\ guest = "login"
         \/ qemus = <<>> /\ guest = "down"
      /\ MachineInit /\ SnapInit /\ WatchInit /\ SendInit /\ tools \in Benches
  BY DEF Init
<1>1. PICK m : m = [Spawned("res", FALSE) EXCEPT !.st = "up"]
  OBVIOUS
<1>2. /\ m \in Qemus /\ m.st = "up" /\ m.kind = "res" /\ m.todo = <<>> /\ m.frame = FALSE
  <2>1. m = [kind |-> "res", load |-> FALSE, st |-> "up", frame |-> FALSE, paused |-> FALSE,
             linked |-> TRUE, todo |-> <<>>]
    BY <1>1 DEF Spawned
  <2>2. <<>> \in Seq(Commands)
    OBVIOUS
  <2> QED
    BY <2>1, <2>2 DEF Qemus
<1>3. /\ qemus \in Seq(Qemus)
      /\ \A i \in Procs : qemus[i] = m /\ i = 1
      /\ guest = "down" <=> PortFree
  <2>1. CASE qemus = <<m>> /\ guest = "login"
    BY <1>2, <2>1 DEF PortFree, Up, Procs
  <2>2. CASE qemus = <<>> /\ guest = "down"
    BY <2>2 DEF PortFree, Procs
  <2> QED
    BY <1>0, <1>1, <2>1, <2>2
<1>4. MachineOK
  BY <1>0, <1>3 DEF MachineInit, MachineOK, NoOverlay, Overlays, Sessions
<1>5. ProcInv
  BY <1>2, <1>3 DEF ProcInv
<1>6. ConsoleInv
  BY <1>0, <1>3 DEF MachineInit, ConsoleInv
<1>7. SnapOK /\ SnapInv
  <2>1. /\ snap.pc = "idle" /\ snap.mode = "create" /\ snap.own = 0 /\ snap.conn = 0 /\ snap.end = "none"
        /\ overlay.tag = "none" /\ calm = {}
    BY <1>0 DEF SnapInit, MachineInit, NoOverlay, NoProc
  <2>2. SnapOK
    BY <1>0 DEF SnapInit, SnapOK, NoProc
  <2>3. 0 \notin Procs
    BY <1>3
  <2>4. SnapControl
    BY <2>1, <2>3 DEF SnapControl, Connected, Saving
  <2> QED
    BY <2>1, <2>2, <2>4 DEF SnapInv, OwnInv, CreateInv, ReportInv, Calm
<1>14. BaseInv
  BY <1>0 DEF MachineInit, BaseInv, Calm
<1>8. WatchOK
  <2>1. NoPic \in Pics
    BY DEF NoPic, Pics
  <2>2. log \in Seq(0..spoken) /\ Len(log) <= at /\ up \in UpSt /\ watch \in WatchSt
    BY <1>0, <2>1 DEF WatchInit, UpSt, WatchSt
  <2>3. pics \in [PicNames -> Pics] /\ seen \in [Anomalies -> Nat] /\ asked \in 0..MaxAsked
        /\ spoken \in 0..MaxSpoken
    BY <1>0, <2>1 DEF WatchInit
  <2>4. shot \in [pc : {"idle", "look"}, req : Nat, clean : BOOLEAN, got : Nat]
    BY <1>0 DEF WatchInit
  <2> QED
    BY <1>0, <2>1, <2>2, <2>3, <2>4 DEF WatchInit, WatchOK, UpSt, WatchSt
<1>9. UpInv
  BY <1>0 DEF WatchInit, UpInv
<1>10. LogInv
  <2>1. Len(log) = 0 /\ watch.off = 0 /\ split = {} /\ cut = FALSE /\ \A a \in Anomalies : seen[a] = 0
    BY <1>0 DEF WatchInit
  <2>2. log = <<>> /\ log \in Seq(Nat)
    BY <1>0 DEF WatchInit
  <2>3. SubSeq(log, 1, 0) = <<>>
    BY <2>2
  <2>4. \A a \in Anomalies : ~Has(SubSeq(log, 1, watch.off), a)
    BY <2>1, <2>3 DEF Has
  <2> QED
    BY <2>1, <2>4 DEF LogInv
<1>11. PicInv
  BY <1>0, <1>2, <1>3 DEF WatchInit, PicInv
<1>12. SendOK
  <2>1. snd \in SndSt
    BY <1>0 DEF SendInit, SndSt
  <2>2. /\ wire = <<>> /\ tty = <<>> /\ b64 = <<>> /\ remote = <<>> /\ sends = 0 /\ lost = 0
    BY <1>0 DEF SendInit
  <2>3. <<>> \in Seq(Lines) /\ <<>> \in Seq(0..Chunks)
    OBVIOUS
  <2>4. guest \in {"login", "down"}
    BY <1>0
  <2>5. 0 \in 0..MaxSends /\ 0 \in 0..MaxLost
    BY SendConstants
  <2> QED
    BY <2>1, <2>2, <2>3, <2>4, <2>5 DEF SendOK, SndSt
<1>13. SentInv /\ DialogInv
  BY <1>0 DEF SendInit, SentInv, DialogInv
<1> QED
  BY <1>0, <1>4, <1>5, <1>6, <1>7, <1>8, <1>9, <1>10, <1>11, <1>12, <1>13, <1>14
  DEF SimInv, TypeOK, WatchInv

LEMMA SimStep ==
  ASSUME SimInv, Next
  PROVE  SimInv'
<1>1. TypeOK'
  BY TypesKept DEF SimInv, SnapInv, WatchInv
<1>2. ProcInv' /\ ConsoleInv' /\ SnapInv' /\ SentInv' /\ DialogInv'
  BY <1>1, ProcKept, ConsoleKept, SnapKept, SentKept, DialogKept
<1>3. UpInv' /\ LogInv' /\ PicInv'
  BY <1>1, UpKept, LogKept, PicKept
<1>4. BaseInv'
  BY <1>1, <1>2, BaseKept
<1> QED
  BY <1>1, <1>2, <1>3, <1>4 DEF SimInv, WatchInv

LEMMA SimStutters ==
  ASSUME SimInv, UNCHANGED vars
  PROVE  SimInv'
<1>0. /\ UNCHANGED <<qemus, base, overlay, calm, breaks>>
      /\ UNCHANGED <<snap, log, at, spoken, pics, asked, up, watch, shot, seen, cut, split>>
      /\ UNCHANGED <<wire, tty, guest, b64, remote, snd, sends, lost, tools>>
  BY DEF vars, machineVars, watchVars, logVars, sendVars, guestVars
<1>1. TypeOK'
  <2>1. MachineOK'
    BY <1>0 DEF SimInv, TypeOK, MachineOK
  <2>2. SnapOK'
    BY <1>0 DEF SimInv, TypeOK, SnapOK, Procs
  <2>3. WatchOK'
    BY <1>0 DEF SimInv, TypeOK, WatchOK
  <2>4. SendOK'
    BY <1>0 DEF SimInv, TypeOK, SendOK
  <2> QED
    BY <1>0, <2>1, <2>2, <2>3, <2>4 DEF SimInv, TypeOK
<1>2. ProcInv' /\ ConsoleInv'
  BY <1>0 DEF SimInv, ProcInv, ConsoleInv, PortFree, Up, Procs
<1>3. SnapInv'
  BY <1>0 DEF SimInv, SnapInv, SnapControl, OwnInv, Calm, CreateInv, Served3, ReportInv, Procs, Up,
     Connected, Saving
<1>4. WatchInv'
  BY <1>0 DEF SimInv, WatchInv, UpInv, LogInv, PicInv, Only, Procs, Up
<1>5. SentInv'
  BY <1>0 DEF SimInv, SentInv, None, SumLast, Stays, Local
<1>6. DialogInv'
  BY <1>0 DEF SimInv, DialogInv, HelloInv, AuthInv, ChunkInv, ChunkLine, VerdictInv, OnWay, Taken,
     Shown, FirstK, PromptOf, Line, Chunk, Local
<1>7. BaseInv'
  BY <1>0 DEF SimInv, BaseInv, ResUp, Calm, Procs, Up
<1> QED
  BY <1>1, <1>2, <1>3, <1>4, <1>5, <1>6, <1>7 DEF SimInv

\* In every behaviour of the tools and the machines the invariant holds.
THEOREM SimInvariant == Spec => []SimInv
<1>1. Init => SimInv
  BY SimStarts
<1>2. SimInv /\ [Next]_vars => SimInv'
  BY SimStep, SimStutters
<1> QED
  BY <1>1, <1>2, PTL DEF Spec

\* Every variable of the simulator keeps its type, whatever the tools in use,
\* the size of the files and the pictures, and the number of processes.
THEOREM SimTypes == Spec => []TypeOK
<1>1. SimInv => TypeOK
  BY DEF SimInv
<1> QED
  BY <1>1, SimInvariant, PTL

\* What snapshot.py reports is so: the tag is never of a blank desktop, the
\* snapshot of a `create` that nothing disturbed was taken over the root file
\* system of its overlay, whatever resboot.py wrote meanwhile, and such a
\* `restore` shows it.
THEOREM SnapshotIsTrue == Spec => []SnapshotTrue
<1>1. ASSUME SimInv PROVE SnapshotTrue
  <2>1. SnapControl /\ OwnInv /\ ReportInv /\ BaseInv /\ overlay.tag # "blank"
    BY <1>1 DEF SimInv, SnapInv
  <2>2. ASSUME "snap" \in calm, snap.end = "restored" PROVE qemus[snap.own].load
    BY <2>1, <2>2 DEF SnapControl, ReportInv, Calm
  <2> QED
    BY <2>1, <2>2 DEF ReportInv, BaseInv, Calm, SnapshotTrue
<1> QED
  BY <1>1, SimInvariant, PTL

\* The quantiles of a picture: no value beyond the index is within the limit, and
\* the index is the given share of the values, rounded.
LEMMA NinthTenth ==
  ASSUME NEW n \in Nat, NEW over \in 0..n
  PROVE  /\ ~QuantOver(n, over, 9, 10) => 10 * over <= n
         /\ QuantOver(n, over, 9, 10) => 10 * over + 5 >= n
<1>1. CASE n = 0
  BY <1>1
<1>2. CASE n > 0
  <2> DEFINE k == (2 * n * 9 + 10) \div (2 * 10)
  <2>1. QuantOver(n, over, 9, 10) <=> QuantIndex(n, 9, 10) >= n - over
    BY <1>2 DEF QuantOver
  <2>2. 2 * n * 9 = 18 * n
    OBVIOUS
  <2>3. k \in Nat /\ 20 * k <= 18 * n + 10 /\ 18 * n + 10 < 20 * k + 20
    BY <2>2
  <2>4. QuantIndex(n, 9, 10) = IF k < n THEN k ELSE n - 1
    BY DEF QuantIndex
  <2> HIDE DEF k
  <2> QED
    BY <1>2, <2>1, <2>3, <2>4
<1> QED
  BY <1>1, <1>2

LEMMA Half ==
  ASSUME NEW n \in Nat, NEW over \in 0..n
  PROVE  /\ ~QuantOver(n, over, 1, 2) => 2 * over <= n
         /\ QuantOver(n, over, 1, 2) => 2 * over + 1 >= n
<1>1. CASE n = 0
  BY <1>1
<1>2. CASE n > 0
  <2> DEFINE k == (2 * n * 1 + 2) \div (2 * 2)
  <2>1. QuantOver(n, over, 1, 2) <=> QuantIndex(n, 1, 2) >= n - over
    BY <1>2 DEF QuantOver
  <2>2. 2 * n * 1 = 2 * n
    OBVIOUS
  <2>3. k \in Nat /\ 4 * k <= 2 * n + 2 /\ 2 * n + 2 < 4 * k + 4
    BY <2>2
  <2>4. QuantIndex(n, 1, 2) = IF k < n THEN k ELSE n - 1
    BY DEF QuantIndex
  <2> HIDE DEF k
  <2> QED
    BY <1>2, <2>1, <2>3, <2>4
<1> QED
  BY <1>1, <1>2

\* What up.py and smoke_monitor.py say is so, and so is a shot.
THEOREM WatchIsTrue == Spec => []WatchTrue
<1>1. ASSUME SimInv PROVE WatchTrue
  <2>1. TypeOK /\ UpInv /\ LogInv /\ PicInv
    BY <1>1 DEF SimInv, WatchInv
  <2>2. UpTrue
    BY <2>1 DEF UpInv, UpTrue
  <2>3. ReportsEach
    BY <2>1 DEF LogInv, ReportsEach
  <2>4. /\ watch.judged.scr.bg \in 0..BgBlocks /\ watch.judged.scr.st \in 0..StBlocks
        /\ BgBlocks \in Nat /\ StBlocks \in Nat
    BY <2>1, WatchParts, WatchConstants DEF WatchSt, Pics
  <2>5. ASSUME watch.verdict = "PASS"
        PROVE  10 * watch.judged.scr.bg <= BgBlocks /\ 2 * watch.judged.scr.st <= StBlocks
    <3>1. /\ ~QuantOver(BgBlocks, watch.judged.scr.bg, 9, 10)
          /\ ~QuantOver(StBlocks, watch.judged.scr.st, 1, 2)
      BY <2>1, <2>5 DEF PicInv, Verdict
    <3> QED
      BY <2>4, <3>1, NinthTenth, Half
  <2>6. ASSUME watch.verdict = "FAIL"
        PROVE  \/ 10 * watch.judged.scr.bg + 5 >= BgBlocks
               \/ 2 * watch.judged.scr.st + 1 >= StBlocks
    <3>1. \/ QuantOver(BgBlocks, watch.judged.scr.bg, 9, 10)
          \/ QuantOver(StBlocks, watch.judged.scr.st, 1, 2)
      BY <2>1, <2>6 DEF PicInv, Verdict
    <3> QED
      BY <2>4, <3>1, NinthTenth, Half
  <2>7. JudgesOwn
    BY <2>1, <2>5, <2>6 DEF PicInv, JudgesOwn
  <2> QED
    BY <2>2, <2>3, <2>7 DEF WatchTrue
<1> QED
  BY <1>1, SimInvariant, PTL

\* A transfer that sendfile.py reports has put the file there.
THEOREM SentIsWhole == Spec => []SentWhole
<1>1. SimInv => SentWhole
  BY DEF SimInv, SentInv, Stays, SentWhole
<1> QED
  BY <1>1, SimInvariant, PTL

\* A transfer that nothing disturbs does not fail, in whatever state the
\* sessions before it left the console and the files.
THEOREM RetriesWork == Spec => []SendRetries
<1>1. SimInv => SendRetries
  BY DEF SimInv, DialogInv, SendRetries
<1> QED
  BY <1>1, SimInvariant, PTL
=============================================================================
