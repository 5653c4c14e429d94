------------------------------- MODULE Watch -------------------------------
(***************************************************************************)
(* Who looks at a machine of sim/resboot.py: sim/up.py starts it and        *)
(* follows its serial log, sim/smoke_monitor.py takes a picture every two   *)
(* minutes, judges it (sim/verify_screen.py) and greps what the log has     *)
(* gained, sim/shot.py takes one picture.                                   *)
(*                                                                          *)
(* Nobody owns the log: QEMU truncates it when it starts, before it binds   *)
(* its port, and up.py truncates it once more under the running machine,    *)
(* whose next bytes then come after a hole.  Pictures stay where they are.  *)
(*                                                                          *)
(* The log is a sequence of numbers, 0 in a hole; the numbers 2a - 1 and 2a *)
(* are the halves of the text that gives anomaly a away.                    *)
(***************************************************************************)
EXTENDS Machine, FiniteSets

CONSTANTS
  BgBlocks, StBlocks,  \* blocks of the picture: background and structure
  Screens,             \* what it may show: how many of each are over the limit
  MaxSpoken, MaxAsked

Anomalies == {a \in 1..MaxSpoken : 2 * a <= MaxSpoken}

ASSUME WatchConstants ==
  /\ BgBlocks \in Nat /\ StBlocks \in Nat
  /\ Screens \subseteq [bg : 0..BgBlocks, st : 0..StBlocks]
  /\ MaxSpoken \in Nat /\ MaxAsked \in Nat

VARIABLES
  log,      \* sim/logs/scmi-serial.log
  at,       \* where the machine writes next: the offset of its descriptor
  spoken,   \* numbers written to the log so far
  pics,     \* the pictures in sim/logs, by number; 0 is the one of shot.py
  asked,    \* screendumps asked for so far
  up,       \* the running or the last up.py
  watch,    \* smoke_monitor.py
  shot,     \* shot.py
  seen,     \* seen[a]: the rounds of this smoke_monitor.py that reported a
  cut,      \* the log was truncated since it began
  split     \* anomalies one of its reads ended in the middle of

logVars == <<log, at, spoken>>
watchVars == <<logVars, pics, asked, up, watch, shot, seen, cut, split>>

PicNames == 0..MaxAsked

NoPic == [req |-> 0, whole |-> FALSE, scr |-> [bg |-> 0, st |-> 0]]

Has(s, a) == \E k \in DOMAIN s : k + 1 \in DOMAIN s /\ s[k] = 2 * a - 1 /\ s[k + 1] = 2 * a

From(s, k) == SubSeq(s, k + 1, Len(s))

-----------------------------------------------------------------------------
(* verify_screen.py.                                                         *)

\* The place of the quantile num/den in a sorted list of n, from 0.
QuantIndex(n, num, den) ==
  LET k == (2 * n * num + den) \div (2 * den) IN IF k < n THEN k ELSE n - 1

\* The value there is over its limit: so many of the n values are.
QuantOver(n, over, num, den) == n > 0 /\ QuantIndex(n, num, den) >= n - over

\* load_ppm raises for a picture not written to its end.
Loads(pic) == pic.whole

\* Without a picture the caller reads no verdict.
Verdict(pic) ==
  IF ~Loads(pic) THEN "?"
  ELSE IF \/ QuantOver(BgBlocks, pic.scr.bg, 9, 10)
          \/ QuantOver(StBlocks, pic.scr.st, 1, 2)
  THEN "FAIL" ELSE "PASS"

-----------------------------------------------------------------------------

WatchInit ==
  /\ log = <<>>
  /\ at = 0
  /\ spoken = 0
  /\ pics = [p \in PicNames |-> NoPic]
  /\ asked = 0
  /\ up = [pc |-> "idle", own |-> 0, shown |-> <<>>, pos |-> 0]
  /\ watch = [pc |-> "idle", n |-> 0, off |-> 0, req |-> 0, clean |-> FALSE,
              judged |-> NoPic, verdict |-> "none"]
  /\ shot = [pc |-> "idle", req |-> 0, clean |-> FALSE, got |-> 0]
  /\ seen = [a \in Anomalies |-> 0]
  /\ cut = FALSE
  /\ split = {}

-----------------------------------------------------------------------------
(* up.py and resboot.py.                                                     *)

\* It goes on only when nothing listens on the port yet.
UpCheck ==
  /\ up.pc = "idle"
  /\ PortFree
  /\ up' = [pc |-> "popen", own |-> 0, shown |-> <<>>, pos |-> 0]
  /\ calm' = Begun("up")
  /\ UNCHANGED <<qemus, base, overlay, breaks, logVars, pics, asked, watch, shot,
                 seen, cut, split>>

PopenRes ==
  /\ up.pc = "popen"
  /\ Len(qemus) < MaxStarts
  /\ qemus' = Append(qemus, Spawned("res", FALSE))
  /\ up' = [up EXCEPT !.pc = "live", !.own = Len(qemus) + 1]
  /\ UNCHANGED <<base, overlay, calm, breaks, logVars, pics, asked, watch, shot,
                 seen, cut, split>>

\* QEMU opens its log, and then its port; with the port it boots the root file
\* system itself, which its guest mounts to write.
BindRes(i, ok) ==
  /\ qemus[i].st = "new"
  /\ qemus[i].kind = "res"
  /\ ok <=> PortFree
  /\ qemus' = [qemus EXCEPT ![i].st = IF ok THEN "up" ELSE "gone"]
  /\ log' = <<>>
  /\ at' = IF ok THEN 0 ELSE at
  /\ cut' = TRUE
  /\ base' = IF ok THEN base + 1 ELSE base
  /\ UNCHANGED <<overlay, calm, breaks, spoken, pics, asked, up, watch, shot,
                 seen, split>>

\* Something listens on the port: the start is reported and the log is emptied
\* for the following, what the machine has said by then included.
ClearLog ==
  /\ up.pc = "live"
  /\ ~PortFree
  /\ up' = [up EXCEPT !.pc = "follow"]
  /\ log' = <<>>
  /\ cut' = TRUE
  /\ UNCHANGED <<machineVars, at, spoken, pics, asked, watch, shot, seen, split>>

Follow ==
  /\ up.pc = "follow"
  /\ Len(log) > up.pos
  /\ up' = [up EXCEPT !.shown = @ \o From(log, up.pos), !.pos = Len(log)]
  /\ UNCHANGED <<machineVars, logVars, pics, asked, watch, shot, seen, cut, split>>

\* The monitor port is dead, the wait of 20 s is over, or Ctrl-C.
UpEnd ==
  /\ \/ up.pc = "follow"
     \/ up.pc = "live" /\ PortFree
  /\ up' = [up EXCEPT !.pc = "idle"]
  /\ UNCHANGED <<machineVars, logVars, pics, asked, watch, shot, seen, cut, split>>

\* The machine writes on at its own offset, over a hole if the log is shorter.
Speak(i) ==
  /\ i \in Answering("res")
  /\ spoken < MaxSpoken
  /\ log' = [k \in 1..(at + 1) |-> IF k = at + 1 THEN spoken + 1
                                   ELSE IF k <= Len(log) THEN log[k] ELSE 0]
  /\ at' = at + 1
  /\ spoken' = spoken + 1
  /\ UNCHANGED <<machineVars, pics, asked, up, watch, shot, seen, cut, split>>

-----------------------------------------------------------------------------
(* The pictures: asked for on the monitor, written when it gets to them.     *)

\* No picture of that name is there and none is on its way.
Clean(p) ==
  /\ pics[p] = NoPic
  /\ \A i \in Procs : \A k \in DOMAIN qemus[i].todo :
       qemus[i].todo[k].do = "screendump" => qemus[i].todo[k].to # p

Ask(p) ==
  /\ asked < MaxAsked
  /\ \E i \in Answering("res") :
       qemus' = Typed(i, [do |-> "screendump", to |-> p, req |-> asked + 1])
  /\ asked' = asked + 1
  /\ UNCHANGED <<base, overlay, calm, breaks>>

\* The file is there before the picture is whole.
OpenPic(i) ==
  /\ Serving(i, "screendump")
  /\ LET c == Head(qemus[i].todo) IN
     /\ pics[c.to].req # c.req
     /\ \E scr \in Screens :
          pics' = [pics EXCEPT ![c.to] = [req |-> c.req, whole |-> FALSE, scr |-> scr]]
  /\ UNCHANGED <<machineVars, logVars, asked, up, watch, shot, seen, cut, split>>

ClosePic(i) ==
  /\ Serving(i, "screendump")
  /\ LET c == Head(qemus[i].todo) IN
     /\ pics[c.to].req = c.req
     /\ pics' = [pics EXCEPT ![c.to].whole = TRUE]
  /\ qemus' = Served(i)
  /\ UNCHANGED <<base, overlay, calm, breaks, logVars, asked, up, watch, shot, seen, cut, split>>

\* The monitor refuses: there is nothing to picture yet.
RefusePic(i) ==
  /\ Serving(i, "screendump")
  /\ pics[Head(qemus[i].todo).to].req # Head(qemus[i].todo).req
  /\ qemus' = Served(i)
  /\ UNCHANGED <<base, overlay, calm, breaks, watchVars>>

ShotAsk ==
  /\ shot.pc = "idle"
  /\ Ask(0)
  /\ shot' = [pc |-> "look", req |-> asked + 1, clean |-> Clean(0), got |-> 0]
  /\ UNCHANGED <<logVars, pics, up, watch, seen, cut, split>>

\* After 8 s: the file that is there is converted and delivered.
ShotLook ==
  /\ shot.pc = "look"
  /\ shot' = [shot EXCEPT !.pc = "idle", !.got = pics[0].req]
  /\ UNCHANGED <<machineVars, logVars, pics, asked, up, watch, seen, cut, split>>

-----------------------------------------------------------------------------
(* smoke_monitor.py.                                                         *)

WatchStart ==
  /\ watch.pc = "idle"
  /\ asked < MaxAsked
  /\ watch' = [watch EXCEPT !.pc = "alive", !.n = 0, !.off = 0, !.verdict = "none"]
  /\ seen' = [a \in Anomalies |-> 0]
  /\ cut' = FALSE
  /\ split' = {}
  /\ UNCHANGED <<machineVars, logVars, pics, asked, up, shot>>

\* It stops when the monitor port is dead.
WatchAlive ==
  /\ watch.pc = "alive"
  /\ watch' = IF Answering("res") = {} THEN [watch EXCEPT !.pc = "idle"]
              ELSE [watch EXCEPT !.pc = "dump", !.n = @ + 1]
  /\ UNCHANGED <<machineVars, logVars, pics, asked, up, shot, seen, cut, split>>

WatchDump ==
  /\ watch.pc = "dump"
  /\ Ask(watch.n)
  /\ watch' = [watch EXCEPT !.pc = "look", !.req = asked + 1, !.clean = Clean(watch.n)]
  /\ UNCHANGED <<logVars, pics, up, shot, seen, cut, split>>

\* After 8 s: without the file the round ends, before the log is read.
WatchLook ==
  /\ watch.pc = "look"
  /\ watch' = [watch EXCEPT !.pc = IF pics[watch.n] = NoPic THEN "alive" ELSE "judge"]
  /\ UNCHANGED <<machineVars, logVars, pics, asked, up, shot, seen, cut, split>>

WatchJudge ==
  /\ watch.pc = "judge"
  /\ watch' = [watch EXCEPT !.pc = "scan", !.judged = pics[watch.n],
                            !.verdict = Verdict(pics[watch.n])]
  /\ UNCHANGED <<machineVars, logVars, pics, asked, up, shot, seen, cut, split>>

\* Mutant: every round greps the whole log.
WatchRescan ==
  /\ watch.pc = "scan"
  /\ seen' = [a \in Anomalies |-> IF Has(log, a) THEN seen[a] + 1 ELSE seen[a]]
  /\ split' = split \cup {a \in Anomalies : log # <<>> /\ log[Len(log)] = 2 * a - 1}
  /\ watch' = [watch EXCEPT !.pc = "alive", !.off = Len(log)]
  /\ UNCHANGED <<machineVars, logVars, pics, asked, up, shot, cut>>

\* What the log has gained since the last read is searched, and only that.
WatchScan ==
  /\ watch.pc = "scan"
  /\ seen' = [a \in Anomalies |->
                IF Has(From(log, watch.off), a) THEN seen[a] + 1 ELSE seen[a]]
  /\ split' = split \cup {a \in Anomalies : log # <<>> /\ log[Len(log)] = 2 * a - 1}
  /\ watch' = [watch EXCEPT !.pc = "alive", !.off = Len(log)]
  /\ UNCHANGED <<machineVars, logVars, pics, asked, up, shot, cut>>

\* Ctrl-C, or a monitor port that refuses in the middle of a round.
WatchEnd ==
  /\ watch.pc # "idle"
  /\ watch' = [watch EXCEPT !.pc = "idle"]
  /\ UNCHANGED <<machineVars, logVars, pics, asked, up, shot, seen, cut, split>>

UpStep ==
  UpCheck \/ PopenRes \/ ClearLog \/ UpEnd

LogStep == Follow \/ \E i \in Procs : Speak(i)

WatchStep ==
  \/ WatchStart \/ WatchAlive \/ WatchDump \/ WatchLook \/ WatchJudge \/ WatchScan \/ WatchEnd
  \/ \E i \in Procs : OpenPic(i) \/ ClosePic(i) \/ RefusePic(i)

ShotStep ==
  \/ ShotAsk \/ ShotLook
  \/ \E i \in Procs : OpenPic(i) \/ ClosePic(i) \/ RefusePic(i)

-----------------------------------------------------------------------------

Pics == [req : Nat, whole : BOOLEAN, scr : [bg : 0..BgBlocks, st : 0..StBlocks]]

WatchOK ==
  /\ log \in Seq(0..spoken)
  /\ at \in Nat
  /\ Len(log) <= at
  /\ spoken \in 0..MaxSpoken
  /\ pics \in [PicNames -> Pics]
  /\ asked \in 0..MaxAsked
  /\ up \in [pc : {"idle", "popen", "live", "follow"}, own : Nat, shown : Seq(Nat), pos : Nat]
  /\ watch \in [pc : {"idle", "alive", "dump", "look", "judge", "scan"},
                n : Nat, off : Nat, req : Nat, clean : BOOLEAN, judged : Pics,
                verdict : {"none", "?", "PASS", "FAIL"}]
  /\ shot \in [pc : {"idle", "look"}, req : Nat, clean : BOOLEAN, got : Nat]
  /\ seen \in [Anomalies -> Nat]
  /\ cut \in BOOLEAN
  /\ split \subseteq Anomalies

\* What up.py says is so: a start it reports is of its own machine, and it has
\* shown what that machine wrote since, in order, when nothing else was
\* starting and nothing broke.
UpTrue ==
  up.pc = "follow" /\ "up" \in calm =>
    /\ Up(up.own)
    /\ up.shown = SubSeq(log, 1, up.pos)

\* No anomaly is reported twice; while nobody truncates the log, one that no
\* read ended in is reported by the read that passes it.
ReportsEach ==
  \A a \in Anomalies :
    /\ seen[a] <= 1
    /\ ~cut /\ a \notin split /\ Has(SubSeq(log, 1, watch.off), a) => seen[a] = 1

\* A verdict or a shot is of the picture asked for, when no other of its name
\* was there or on its way.  A PASS leaves nine tenths of the background and half
\* of the structure within the limits; a FAIL leaves a tenth of the background or
\* half of the structure outside, less what the quantile is rounded by.
JudgesOwn ==
  /\ watch.pc = "scan" /\ watch.clean => watch.judged.req = watch.req
  /\ shot.clean => shot.got \in {0, shot.req}
  /\ watch.verdict = "PASS" => /\ 10 * watch.judged.scr.bg <= BgBlocks
                               /\ 2 * watch.judged.scr.st <= StBlocks
  /\ watch.verdict = "FAIL" => \/ 10 * watch.judged.scr.bg + 5 >= BgBlocks
                               \/ 2 * watch.judged.scr.st + 1 >= StBlocks

WatchTrue == UpTrue /\ ReportsEach /\ JudgesOwn
=============================================================================
