-------------------------------- MODULE Send --------------------------------
(***************************************************************************)
(* sim/sendfile.py and sim/serx.py on the serial console of whichever       *)
(* machine holds port 4446: log in if need be, type lines, and take the     *)
(* prompt for the end of a line's command.  sendfile.py types a file in     *)
(* chunks of base64 and believes the checksum the guest prints.             *)
(*                                                                          *)
(* A line goes over the wire to the console, waits there for the shell, and *)
(* may be lost or garbled on its way.  When no prompt comes in time the     *)
(* script goes on to the next line all the same, so its lines pile up and   *)
(* outlive it; the ^C a session begins with drops those the shell has not   *)
(* read.  The lines `export PS1=...` only set the prompt and are left out.  *)
(***************************************************************************)
EXTENDS Machine

CONSTANTS
  Chunks,             \* the number of chunks of the local file
  MaxSends, MaxLost

ASSUME SendConstants == Chunks \in Nat \ {0} /\ MaxSends \in Nat /\ MaxLost \in Nat

VARIABLES
  wire, tty,   \* lines on their way to the console, and lines that wait there
  guest,       \* the console: down, at a prompt, or busy with a checksum
  b64, remote, \* the chunks of the guest's two files; <<>> when absent
  snd,         \* the running or the last session
  sends, lost

guestVars == <<wire, tty, guest, b64, remote>>
sendVars == <<guestVars, snd, sends, lost>>

Local == [k \in 1..Chunks |-> k]

Bad == 0

Lines == [do : {"^C", "nl", "name", "rm", "chunk", "sum", "tidy", "cmd"}, of : 0..Chunks]

Line(do) == [do |-> do, of |-> 0]

Chunk(k) == [do |-> "chunk", of |-> k]

Pending == wire \o tty

\* The guest has answered everything that was typed.
Quiet == wire = <<>> /\ tty = <<>> /\ guest # "sum"

\* The script goes on without the answer.
Late == IF Quiet THEN calm ELSE calm \ {"send"}

SendInit ==
  /\ wire = <<>>
  /\ tty = <<>>
  /\ b64 = <<>>
  /\ remote = <<>>
  /\ snd = [tool |-> "sendfile", pc |-> "idle", k |-> 0, prompt |-> "none",
            sum |-> "none", end |-> "none", own |-> FALSE]
  /\ sends = 0
  /\ lost = 0

\* The machine that holds the port comes and goes: what was typed goes with
\* it, and no verdict about its files outlives it.
GuestUp ==
  /\ guest' = "login"
  /\ UNCHANGED <<wire, tty, b64, remote, snd, sends, lost>>

GuestDown ==
  /\ guest' = "down"
  /\ wire' = <<>>
  /\ tty' = <<>>
  /\ snd' = [snd EXCEPT !.end = "none"]
  /\ UNCHANGED <<b64, remote, sends, lost>>

-----------------------------------------------------------------------------
(* The console.                                                              *)

\* The guest shows a prompt; without a session nobody reads it.
Shows(p) == snd' = IF snd.pc = "idle" THEN snd ELSE [snd EXCEPT !.prompt = p]

PromptOf == [login |-> "login:", password |-> "Password", wrong |-> "Password", shell |-> "$"]

At(state) == guest' = state /\ Shows(PromptOf[state])

\* ^C drops what waits and what runs; a login starts over.
Arrive ==
  /\ wire # <<>>
  /\ guest # "down"
  /\ wire' = Tail(wire)
  /\ IF Head(wire).do = "^C"
     THEN tty' = <<>> /\ At(IF guest \in {"shell", "sum"} THEN "shell" ELSE "login")
     ELSE tty' = Append(tty, Head(wire)) /\ UNCHANGED <<guest, snd>>
  /\ UNCHANGED <<machineVars, b64, remote, sends, lost>>

\* The line is lost, or a chunk arrives with the wrong characters.
Lose(garbled) ==
  /\ wire # <<>>
  /\ lost < MaxLost
  /\ garbled => Head(wire).do = "chunk"
  /\ wire' = Tail(wire)
  /\ tty' = IF garbled THEN Append(tty, Chunk(Bad)) ELSE tty
  /\ lost' = lost + 1
  /\ calm' = calm \ {"send"}
  /\ UNCHANGED <<qemus, base, overlay, breaks, guest, b64, remote, snd, sends>>

\* getty and login: any text is a name, and one name has the password.
Login ==
  /\ tty # <<>>
  /\ tty' = Tail(tty)
  /\ LET line == Head(tty).do IN
     \/ guest = "login" /\ At(IF line = "nl" THEN "login" ELSE IF line = "name" THEN "password" ELSE "wrong")
     \/ guest = "password" /\ At(IF line = "name" THEN "shell" ELSE "login")
     \/ guest = "wrong" /\ At("login")
  /\ UNCHANGED <<machineVars, wire, b64, remote, sends, lost>>

\* The shell runs the next line.
Shell ==
  /\ guest = "shell"
  /\ tty # <<>>
  /\ tty' = Tail(tty)
  /\ LET line == Head(tty) IN
     /\ b64' = IF line.do \in {"rm", "tidy"} THEN <<>>
               ELSE IF line.do = "chunk" THEN Append(b64, line.of) ELSE b64
     /\ remote' = IF line.do = "rm" THEN <<>> ELSE IF line.do = "sum" THEN b64 ELSE remote
     /\ IF line.do = "sum" THEN guest' = "sum" /\ UNCHANGED snd ELSE At("shell")
  /\ UNCHANGED <<machineVars, wire, sends, lost>>

\* md5sum and wc of the decoded file: a script that waits for them takes the
\* first it sees.
PrintSum ==
  /\ guest = "sum"
  /\ guest' = "shell"
  /\ snd' = IF snd.pc = "idle" THEN snd
            ELSE [snd EXCEPT !.prompt = "$",
                             !.sum = IF snd.pc = "verdict" /\ @ = "none"
                                     THEN (IF remote = Local THEN "same" ELSE "other") ELSE @]
  /\ UNCHANGED <<machineVars, wire, tty, b64, remote, sends, lost>>

-----------------------------------------------------------------------------
(* The session.                                                              *)

Type(line) == wire' = Append(wire, line)

\* What a step of the script leaves alone.
HostStep == UNCHANGED <<qemus, base, overlay, breaks, tty, guest, b64, remote, lost>>

\* ^C and an empty line; the session is its own if no checksum is on its way.
Hello(tool) ==
  /\ snd.pc = "idle"
  /\ guest # "down"
  /\ sends < MaxSends
  /\ wire' = wire \o <<Line("^C"), Line("nl")>>
  /\ snd' = [tool |-> tool, pc |-> "hello", k |-> 0, prompt |-> "none", sum |-> "none",
             end |-> "none",
             own |-> guest # "sum" /\ \A j \in DOMAIN Pending : Pending[j].do # "sum"]
  /\ sends' = sends + 1
  /\ calm' = calm \cup {"send"}
  /\ HostStep

\* Two seconds later: a shell prompt, or else a login it is.
First(tool) == IF tool = "sendfile" THEN "rm" ELSE "cmd"

Look ==
  /\ snd.pc = "hello"
  /\ snd' = [snd EXCEPT !.pc = IF snd.prompt = "$" THEN First(snd.tool) ELSE "login"]
  /\ calm' = Late
  /\ UNCHANGED <<wire, sends>>
  /\ HostStep

\* The login is answered in its order, each prompt once; the name is the
\* password too.
LogIn ==
  /\ \/ /\ snd.pc = "login" /\ snd.prompt = "login:"
        /\ Type(Line("name"))
        /\ snd' = [snd EXCEPT !.pc = "auth", !.prompt = "none"]
     \/ /\ snd.pc = "auth" /\ snd.prompt = "Password"
        /\ Type(Line("name"))
        /\ snd' = [snd EXCEPT !.prompt = "none"]
     \/ /\ snd.pc = "auth" /\ snd.prompt = "$"
        /\ snd' = [snd EXCEPT !.pc = First(snd.tool)]
        /\ UNCHANGED wire
  /\ UNCHANGED <<calm, sends>>
  /\ HostStep

Failed == snd' = [snd EXCEPT !.pc = "idle", !.end = "failed"]

\* After 120 s: the prompt it waits for has not come.
NoLogin ==
  /\ \/ snd.pc = "login" /\ snd.prompt # "login:"
     \/ snd.pc = "auth" /\ snd.prompt \notin {"Password", "$"}
  /\ Failed
  /\ calm' = Late
  /\ UNCHANGED <<wire, sends>>
  /\ HostStep

\* Mutant: only the target is removed, the chunks of a failed try stay.
RunKeep ==
  /\ snd.pc = "rm"
  /\ Type(Line("nl"))
  /\ snd' = [snd EXCEPT !.pc = "chunk"]
  /\ calm' = Late
  /\ UNCHANGED sends
  /\ HostStep

RunRm ==
  /\ snd.pc = "rm"
  /\ Type(Line("rm"))
  /\ snd' = [snd EXCEPT !.pc = "chunk"]
  /\ calm' = Late
  /\ UNCHANGED sends
  /\ HostStep

\* Mutant: one chunk more than the file has.
RunChunkMore ==
  /\ snd.pc = "chunk"
  /\ snd.k <= Chunks
  /\ Type(Chunk(snd.k + 1))
  /\ snd' = [snd EXCEPT !.k = @ + 1]
  /\ calm' = Late
  /\ UNCHANGED sends
  /\ HostStep

RunChunk ==
  /\ snd.pc = "chunk"
  /\ snd.k < Chunks
  /\ Type(Chunk(snd.k + 1))
  /\ snd' = [snd EXCEPT !.k = @ + 1]
  /\ calm' = Late
  /\ UNCHANGED sends
  /\ HostStep

\* Decode, md5sum and wc in one line; what was heard before does not count.
RunSum ==
  /\ snd.pc = "chunk"
  /\ snd.k = Chunks
  /\ Type(Line("sum"))
  /\ snd' = [snd EXCEPT !.pc = "verdict", !.sum = "none"]
  /\ calm' = Late
  /\ UNCHANGED sends
  /\ HostStep

\* Mutant: an answer that does not come counts as one that matches.
MatchedUnlessOther == snd.sum # "other"

Matched == snd.sum = "same"

\* The checksum and the length are the local file's: the chunks are removed
\* and the transfer is reported.
Sent ==
  /\ snd.pc = "verdict"
  /\ Matched
  /\ Type(Line("tidy"))
  /\ snd' = [snd EXCEPT !.pc = "idle", !.end = "sent"]
  /\ calm' = calm
  /\ UNCHANGED sends
  /\ HostStep

\* Another checksum, or none by the time limit.
NotSent ==
  /\ snd.pc = "verdict"
  /\ ~Matched
  /\ Failed
  /\ calm' = Late
  /\ UNCHANGED <<wire, sends>>
  /\ HostStep

\* serx.py types its commands and prints what it hears.
RunCmd ==
  /\ snd.pc = "cmd"
  /\ Type(Line("cmd"))
  /\ snd' = [snd EXCEPT !.pc = "idle", !.end = "printed"]
  /\ calm' = Late
  /\ UNCHANGED sends
  /\ HostStep

\* Ctrl-C, or the machine is gone: the lines typed stay typed.
Leave ==
  /\ snd.pc # "idle"
  /\ snd' = [snd EXCEPT !.pc = "idle"]
  /\ calm' = calm \ {"send"}
  /\ UNCHANGED <<wire, sends>>
  /\ HostStep

SendStep ==
  \/ Arrive \/ Login \/ Shell \/ PrintSum
  \/ \E garbled \in BOOLEAN : Lose(garbled)
  \/ \E tool \in {"sendfile", "serx"} : Hello(tool)
  \/ Look \/ LogIn \/ NoLogin \/ RunRm \/ RunChunk \/ RunSum \/ Sent \/ NotSent
  \/ RunCmd \/ Leave

-----------------------------------------------------------------------------

SendOK ==
  /\ wire \in Seq(Lines)
  /\ tty \in Seq(Lines)
  /\ guest \in {"down", "login", "password", "wrong", "shell", "sum"}
  /\ b64 \in Seq(0..Chunks)
  /\ remote \in Seq(0..Chunks)
  /\ snd \in [tool : {"sendfile", "serx"},
              pc : {"idle", "hello", "login", "auth", "rm", "chunk", "verdict", "cmd"},
              k : 0..Chunks, prompt : {"none", "login:", "Password", "$"},
              sum : {"none", "same", "other"},
              end : {"none", "sent", "failed", "printed"}, own : BOOLEAN]
  /\ sends \in 0..MaxSends
  /\ lost \in 0..MaxLost

\* A transfer that sendfile.py reports has put the file on the machine, and it
\* is there until the next session begins, whatever was lost, garbled or late:
\* unless the checksum of an earlier session was still on its way.
SentWhole == snd.end = "sent" /\ snd.own => remote = Local

\* A failed transfer leaves nothing behind that could fail the next: one whose
\* lines all arrive and are answered in time does not fail, in whatever state
\* the earlier ones left the console and the files.
SendRetries == snd.end = "failed" => "send" \notin calm
=============================================================================
