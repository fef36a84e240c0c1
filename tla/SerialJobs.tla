------------------------------- MODULE SerialJobs -------------------------------
(***************************************************************************)
(* The serial port of a device in normal mode and the web server's jobs on *)
(* it: uploading a file and the LCD verification (handleUploadApi and      *)
(* handleVerifyLCD in web.go, UploadSession in upload.go), which speak raw *)
(* REPL, and AT commands (handleAT).  The port is not opened exclusively   *)
(* and nothing keeps two jobs apart, save two AT commands.                 *)
(*                                                                         *)
(* kind, name     what is asked, and the name of the file uploaded         *)
(* outside        what holds up whoever uses the port or the web sockets   *)
(* pc, handler    where a job stands; whether the handler is to return     *)
(* atMu           who holds it                                             *)
(* tmp, fd, disk  the temporary files: the inode under a name, the one a   *)
(*                handler has open, and what an inode holds                *)
(* ports          the jobs that have the port open                         *)
(* local, todo    what UploadFile has read, the commands it has yet to run *)
(* status         what is reported to the web page                         *)
(* repl, f, files, out    the device (external): its mode, Python's f, its *)
(*                files, and what it has said                              *)
(* alone          history: no other job had the port open with this one    *)
(* failed         history: the port or the device failed this job          *)
(* torn           history: uploads whose file was not saved as it was sent *)
(* lost           history: jobs whose ^B did not get to the device         *)
(***************************************************************************)
EXTENDS Integers, Sequences, FiniteSets

CONSTANTS
    Jobs, Kinds, Names,
    FileLen,        \* length of a file, in base64 digits
    ChunkLen,       \* chunkSize
    Hindrances      \* what may go on outside

Script == "script"  \* verify_lcd_160_128.py
Main   == "main.py"

(* The names given to no owner and to no open file are of nothing else. *)
ASSUME SerialAssumption ==
    /\ IsFiniteSet(Jobs)
    /\ Kinds \subseteq {"upload", "verify", "at"}
    /\ FileLen \in Nat /\ ChunkLen \in Nat \ {0}
    /\ Hindrances \subseteq {"talks", "blocks", "stalls"}
    /\ Jobs \cap {"script", "gone", "free"} = {} /\ "closed" \notin Names

VARIABLES kind, name, outside, pc, handler, atMu, tmp, fd, disk, torn, ports,
          local, todo, status, repl, f, files, out, lost, alone, failed

given   == <<kind, name, outside>>
tmpVars == <<tmp, fd, disk, torn>>
devVars == <<repl, f, files, out, lost>>
vars == <<given, pc, handler, atMu, tmpVars, ports, local, todo, status, devVars, alone, failed>>

Free    == "free"
Gone    == "gone"
Closed  == "closed"

Local(j)  == IF kind[j] = "verify" THEN Script ELSE name[j]
Remote(j) == IF kind[j] = "verify" THEN Main ELSE name[j]

Whole(owner) == [n \in 1 .. FileLen |-> [of |-> owner, n |-> n]]

(* What a save that goes wrong leaves is told apart by its length only:    *)
(* what is missing is missing at the end.                                  *)
Beginnings(owner) == {[n \in 1 .. m |-> [of |-> owner, n |-> n]] : m \in 0 .. FileLen}

(* Of the two places handleVerifyLCD looks for the script in, the author's *)
(* home is left out: the script is in /tmp, next to what is uploaded.      *)
Init ==
    /\ kind \in [Jobs -> Kinds]
    /\ name \in [Jobs -> Names \cup {"none"}]
    /\ \A j \in Jobs : kind[j] = "upload" <=> name[j] # "none"
    /\ outside = "calm" /\ torn = {} /\ lost = {}
    /\ pc = [j \in Jobs |-> "new"] /\ handler = [j \in Jobs |-> "none"]
    /\ atMu = Free
    /\ tmp = [n \in Names \cup {Script} |-> IF n = Script THEN Script ELSE Gone]
    /\ fd = [j \in Jobs |-> Gone]
    /\ disk = [o \in Jobs \cup {Script} |-> IF o = Script THEN Whole(Script) ELSE << >>]
    /\ ports = {} /\ local = [j \in Jobs |-> << >>] /\ todo = [j \in Jobs |-> << >>]
    /\ status = [j \in Jobs |-> "none"]
    /\ repl = "friendly" /\ f = Closed
    /\ files = [n \in Names \cup {Main} |-> << >>] /\ out = {}
    /\ alone = [j \in Jobs |-> TRUE] /\ failed = [j \in Jobs |-> FALSE]

Goto(j, where) == pc' = [pc EXCEPT ![j] = where]

Report(j, state) == status' = [status EXCEPT ![j] = state]

-----------------------------------------------------------------------------
(* What goes on outside (external), one thing at a time: the port talks on *)
(* with no pause that would end a read, it takes nothing of what is        *)
(* written, or a browser that does not read holds up every broadcast.      *)
(* None of these waits has a deadline.  What a step writes and logs before *)
(* and after it is part of the step, which is taken when all of it is      *)
(* through.                                                                *)
Outside ==
    /\ outside' \in ({"calm"} \cup Hindrances) \ {outside}
    /\ UNCHANGED <<kind, name, pc, handler, atMu, tmpVars, ports, local, todo, status, devVars,
                   alone, failed>>

FallsSilent == outside # "talks"
TakesIn     == outside # "blocks"
Broadcasts  == outside # "stalls"

-----------------------------------------------------------------------------
(* The handlers. *)

(* The handlers of upload and verification look at currentSession once and *)
(* never set it, so for what follows it may hold anything then.            *)
Refuse(j) ==
    /\ pc[j] = "new" /\ kind[j] # "at"
    /\ Goto(j, "refused")
    /\ UNCHANGED <<given, handler, atMu, tmpVars, ports, local, todo, status, devVars, alone, failed>>

(* os.Create: a file of that name is truncated, and kept. *)
UploadRequest(j) ==
    /\ pc[j] = "new" /\ kind[j] = "upload"
    /\ LET inode == IF tmp[name[j]] = Gone THEN j ELSE tmp[name[j]] IN
         /\ tmp' = [tmp EXCEPT ![name[j]] = inode]
         /\ fd' = [fd EXCEPT ![j] = inode]
         /\ disk' = [disk EXCEPT ![inode] = << >>]
    /\ Goto(j, "save")
    /\ UNCHANGED <<given, handler, atMu, torn, ports, local, todo, status, devVars, alone, failed>>

(* Nobody looks whether the file could be created, ...                     *)
CreateFails(j) ==
    /\ pc[j] = "new" /\ kind[j] = "upload"
    /\ Goto(j, "save")
    /\ UNCHANGED <<given, handler, atMu, tmpVars, ports, local, todo, status, devVars, alone, failed>>

(* ... nor whether reading what was sent or writing it failed.  The        *)
(* handler starts the job and returns ...                                  *)
Save(j) ==
    /\ pc[j] = "save"
    /\ \/ /\ fd[j] # Gone
          /\ \E saved \in Beginnings(j) :
               /\ disk' = [disk EXCEPT ![fd[j]] = saved]
               /\ torn' = IF saved = Whole(j) THEN torn ELSE torn \cup {j}
       \/ fd[j] = Gone /\ torn' = torn \cup {j} /\ UNCHANGED disk
    /\ handler' = [handler EXCEPT ![j] = "returning"]
    /\ Goto(j, "open")
    /\ UNCHANGED <<given, atMu, tmp, fd, ports, local, todo, status, devVars, alone, failed>>

(* ... which removes it: the deferred os.Remove. *)
Return(j) ==
    /\ handler[j] = "returning"
    /\ handler' = [handler EXCEPT ![j] = "done"]
    /\ tmp' = [tmp EXCEPT ![name[j]] = Gone]
    /\ UNCHANGED <<given, pc, atMu, fd, disk, torn, ports, local, todo, status, devVars, alone, failed>>

VerifyRequest(j) ==
    /\ pc[j] = "new" /\ kind[j] = "verify"
    /\ Goto(j, "open")
    /\ UNCHANGED <<given, handler, atMu, tmpVars, ports, local, todo, status, devVars, alone, failed>>

AtRequest(j) ==
    /\ pc[j] = "new" /\ kind[j] = "at"
    /\ atMu = Free
    /\ atMu' = j
    /\ Goto(j, "open")
    /\ UNCHANGED <<given, handler, tmpVars, ports, local, todo, status, devVars, alone, failed>>

-----------------------------------------------------------------------------
(* Every job opens the port. *)

Open(j) ==
    /\ pc[j] = "open" /\ Broadcasts
    /\ ports' = ports \cup {j}
    /\ alone' = [k \in Jobs |-> IF k = j THEN ports = {} ELSE alone[k] /\ k \notin ports]
    /\ Goto(j, IF kind[j] = "at" THEN "at" ELSE "interrupt")
    /\ UNCHANGED <<given, handler, atMu, tmpVars, local, todo, status, devVars, failed>>

OpenFails(j) ==
    /\ pc[j] = "open" /\ Broadcasts
    /\ Report(j, "error")
    /\ failed' = [failed EXCEPT ![j] = TRUE]
    /\ Goto(j, "close")
    /\ UNCHANGED <<given, handler, atMu, tmpVars, ports, local, todo, devVars, alone>>

Close(j) ==
    /\ pc[j] = "close"
    /\ ports' = ports \ {j}
    /\ atMu' = IF atMu = j THEN Free ELSE atMu
    /\ local' = [local EXCEPT ![j] = << >>]
    /\ Goto(j, "done")
    /\ UNCHANGED <<given, handler, tmpVars, todo, status, devVars, alone, failed>>

(* handleAT writes its line and takes whatever is said for the answer; the *)
(* device answers unless it takes the line for Python.                     *)
AtWrite(j) ==
    /\ pc[j] = "at" /\ TakesIn
    /\ out' = IF repl = "friendly" THEN out \cup {"OK"} ELSE out
    /\ Goto(j, "at-read")
    /\ UNCHANGED <<given, handler, atMu, tmpVars, ports, local, todo, status, repl, f, files,
                   lost, alone, failed>>

AtWriteFails(j) ==
    /\ pc[j] = "at"
    /\ Report(j, "error")
    /\ failed' = [failed EXCEPT ![j] = TRUE]
    /\ Goto(j, "close")
    /\ UNCHANGED <<given, handler, atMu, tmpVars, ports, local, todo, devVars, alone>>

(* The read ends with the answer, or when nothing was said for a time.     *)
AtRead(j) ==
    /\ pc[j] = "at-read"
    /\ "OK" \in out \/ FallsSilent
    /\ Broadcasts
    /\ out' = {}
    /\ Report(j, "completed")
    /\ Goto(j, "close")
    /\ UNCHANGED <<given, handler, atMu, tmpVars, ports, local, todo, repl, f, files,
                   lost, alone, failed>>

-----------------------------------------------------------------------------
(* UploadSession.  A write is followed by a read of what is said. *)

(* EnterRawREPL *)
Interrupt(j) ==
    /\ pc[j] = "interrupt" /\ TakesIn /\ FallsSilent
    /\ out' = {}
    /\ Goto(j, "enter")
    /\ UNCHANGED <<given, handler, atMu, tmpVars, ports, local, todo, status, repl, f, files,
                   lost, alone, failed>>

EnterRaw(j) ==
    /\ pc[j] = "enter" /\ TakesIn
    /\ \/ /\ repl' = "raw"
          /\ out' = out \cup {"raw REPL"}
          /\ UNCHANGED failed
       \/ /\ failed' = [failed EXCEPT ![j] = TRUE]
          /\ UNCHANGED <<repl, out>>
    /\ Goto(j, "banner")
    /\ UNCHANGED <<given, handler, atMu, tmpVars, ports, local, todo, status, f, files, lost, alone>>

(* Mutant: the port is closed where the raw REPL is left, and only there. *)
Banner_KeepsPort(j) ==
    /\ pc[j] = "banner" /\ FallsSilent /\ Broadcasts
    /\ out' = {}
    /\ IF "raw REPL" \in out
         THEN Goto(j, "read") /\ UNCHANGED status
         ELSE Report(j, "error") /\ Goto(j, "done")
    /\ UNCHANGED <<given, handler, atMu, tmpVars, ports, local, todo, repl, f, files,
                   lost, alone, failed>>

(* Without the banner the raw REPL is not left again. *)
Banner(j) ==
    /\ pc[j] = "banner" /\ FallsSilent /\ Broadcasts
    /\ out' = {}
    /\ IF "raw REPL" \in out
         THEN Goto(j, "read") /\ UNCHANGED status
         ELSE Report(j, "error") /\ Goto(j, "close")
    /\ UNCHANGED <<given, handler, atMu, tmpVars, ports, local, todo, repl, f, files,
                   lost, alone, failed>>

(* Mutant: the last chunk is sent only when it is full. *)
Chunks_FullOnly(data) ==
    [i \in 1 .. Len(data) \div ChunkLen |-> SubSeq(data, (i - 1) * ChunkLen + 1, i * ChunkLen)]

Chunks(data) ==
    [i \in 1 .. (Len(data) + ChunkLen - 1) \div ChunkLen |->
       LET end == i * ChunkLen
       IN SubSeq(data, (i - 1) * ChunkLen + 1, IF end > Len(data) THEN Len(data) ELSE end)]

(* What UploadFile has the device run: open, the chunks, close, the size.  *)
Commands(remote, data) ==
    <<[do |-> "open", file |-> remote]>>
    \o [i \in 1 .. Len(Chunks(data)) |-> [do |-> "write", data |-> Chunks(data)[i]]]
    \o <<[do |-> "close"], [do |-> "size"]>>

ReadFile(j) ==
    /\ pc[j] = "read" /\ Broadcasts
    /\ tmp[Local(j)] # Gone
    /\ local' = [local EXCEPT ![j] = disk[tmp[Local(j)]]]
    /\ todo' = [todo EXCEPT ![j] = Commands(Remote(j), disk[tmp[Local(j)]])]
    /\ Goto(j, "start")
    /\ UNCHANGED <<given, handler, atMu, tmpVars, ports, status, devVars, alone, failed>>

(* Mutant: without the file the job ends before the raw REPL is left. *)
NoFile_StaysRaw(j) ==
    /\ pc[j] = "read" /\ Broadcasts
    /\ tmp[Local(j)] = Gone
    /\ Report(j, "error")
    /\ Goto(j, "close")
    /\ UNCHANGED <<given, handler, atMu, tmpVars, ports, local, todo, devVars, alone, failed>>

NoFile(j) ==
    /\ pc[j] = "read" /\ Broadcasts
    /\ tmp[Local(j)] = Gone
    /\ Report(j, "error")
    /\ Goto(j, "exit")
    /\ UNCHANGED <<given, handler, atMu, tmpVars, ports, local, todo, devVars, alone, failed>>

(* ^A, then the command and ^D, each with a read of what is said: rawExec  *)
(* and its copies in UploadFile.  Writes that fail are not noticed.        *)
ExecStart(j) ==
    /\ pc[j] = "start" /\ TakesIn /\ FallsSilent
    /\ repl' \in {repl, "raw"}
    /\ out' = {}
    /\ Goto(j, "run")
    /\ UNCHANGED <<given, handler, atMu, tmpVars, ports, local, todo, status, f, files, lost, alone, failed>>

(* The device runs a command.  What it makes of the lines of two jobs that *)
(* overlap, or goes on with after a failure, is not followed: nothing is   *)
(* claimed of the files of either.                                         *)
Runs(command) ==
    CASE command.do = "open"  -> f' = command.file /\ files' = [files EXCEPT ![command.file] = << >>]
      [] command.do = "write" /\ f # Closed ->
           files' = [files EXCEPT ![f] = @ \o command.data] /\ UNCHANGED f
      [] command.do \in {"close", "size"} -> f' = Closed /\ UNCHANGED files
      [] OTHER -> UNCHANGED <<f, files>>

DeviceRuns(j) ==
    \/ /\ alone[j] /\ ~ failed[j]
       /\ Runs(Head(todo[j]))
       /\ UNCHANGED failed
    \/ /\ alone[j]
       /\ failed' = [failed EXCEPT ![j] = TRUE]
       /\ UNCHANGED <<f, files>>
    \/ /\ ~ alone[j]
       /\ UNCHANGED <<f, files, failed>>

(* Mutant: one command more is looked for. *)
ExecRun_OneMore(j) ==
    /\ pc[j] = "run" /\ TakesIn /\ FallsSilent
    /\ Head(todo[j]).do \in {"write", "size"} => Broadcasts
    /\ DeviceRuns(j) /\ out' = {}
    /\ todo' = [todo EXCEPT ![j] = Tail(@)]
    /\ Goto(j, IF Len(todo[j]) = 0 THEN "report" ELSE "start")
    /\ UNCHANGED <<given, handler, atMu, tmpVars, ports, local, status, repl, lost, alone>>

(* The result is read and discarded: that the device could not run the     *)
(* command goes unnoticed.                                                 *)
ExecRun(j) ==
    /\ pc[j] = "run" /\ TakesIn /\ FallsSilent
    /\ Head(todo[j]).do \in {"write", "size"} => Broadcasts
    /\ DeviceRuns(j) /\ out' = {}
    /\ todo' = [todo EXCEPT ![j] = Tail(@)]
    /\ Goto(j, IF Len(todo[j]) = 1 THEN "report" ELSE "start")
    /\ UNCHANGED <<given, handler, atMu, tmpVars, ports, local, status, repl, lost, alone>>

Complete(j) ==
    /\ pc[j] = "report" /\ Broadcasts
    /\ Report(j, "completed")
    /\ Goto(j, "exit")
    /\ UNCHANGED <<given, handler, atMu, tmpVars, ports, local, todo, devVars, alone, failed>>

(* ExitRawREPL: whether ^B could be written is not looked at. *)
Exit(j) ==
    /\ pc[j] = "exit" /\ TakesIn
    /\ \/ repl' = "friendly" /\ UNCHANGED lost
       \/ lost' = lost \cup {j} /\ UNCHANGED repl
    /\ Goto(j, "close")
    /\ UNCHANGED <<given, handler, atMu, tmpVars, ports, local, todo, status, f, files, out,
                   alone, failed>>

-----------------------------------------------------------------------------

JobStep(j) ==
    \/ Save(j)
    \/ Open(j)
    \/ OpenFails(j)
    \/ AtWrite(j)
    \/ AtWriteFails(j)
    \/ AtRead(j)
    \/ Interrupt(j)
    \/ EnterRaw(j)
    \/ Banner(j)
    \/ ReadFile(j)
    \/ NoFile(j)
    \/ ExecStart(j)
    \/ ExecRun(j)
    \/ Complete(j)
    \/ Exit(j)
    \/ Close(j)

Request(j) ==
    \/ UploadRequest(j)
    \/ CreateFails(j)
    \/ VerifyRequest(j)
    \/ AtRequest(j)
    \/ Refuse(j)

Next ==
    \/ \E j \in Jobs : Request(j) \/ JobStep(j) \/ Return(j)
    \/ Outside

Spec == Init /\ [][Next]_vars

(* As long as some job that was started can go on again and again, one     *)
(* does; whether a request comes, and what goes on outside, is left open.  *)
Running == \E j \in Jobs : JobStep(j) \/ Return(j)

FairSpec == Spec /\ SF_vars(Running)

-----------------------------------------------------------------------------
Owners == Jobs \cup {Script}
Digits == [of : Owners, n : 1 .. FileLen]
Orders ==
    [do : {"open"}, file : Names \cup {Main}] \cup [do : {"write"}, data : Seq(Digits)]
      \cup [do : {"close", "size"}]

JobTypes ==
    /\ kind \in [Jobs -> Kinds] /\ name \in [Jobs -> Names \cup {"none"}]
    /\ \A j \in Jobs : kind[j] = "upload" <=> name[j] # "none"
    /\ outside \in {"calm"} \cup Hindrances
    /\ pc \in [Jobs -> {"new", "refused", "save", "open", "at", "at-read", "interrupt", "enter",
                        "banner", "read", "start", "run", "report", "exit", "close", "done"}]
    /\ handler \in [Jobs -> {"none", "returning", "done"}]
    /\ atMu \in Jobs \cup {Free} /\ ports \subseteq Jobs
    /\ status \in [Jobs -> {"none", "completed", "error"}]

TmpTypes ==
    /\ tmp \in [Names \cup {Script} -> Owners \cup {Gone}]
    /\ fd \in [Jobs -> Owners \cup {Gone}]
    /\ disk \in [Owners -> Seq(Digits)] /\ torn \subseteq Jobs

OrderTypes ==
    /\ local \in [Jobs -> Seq(Digits)] /\ todo \in [Jobs -> Seq(Orders)]
    /\ \A j \in Jobs : pc[j] \in {"start", "run"} <=> todo[j] # << >>

DevTypes ==
    /\ repl \in {"friendly", "raw"} /\ out \subseteq {"raw REPL", "OK"}
    /\ files \in [Names \cup {Main} -> Seq(Digits)] /\ f \in Names \cup {Main, Closed}
    /\ lost \subseteq Jobs

FlagTypes == alone \in [Jobs -> BOOLEAN] /\ failed \in [Jobs -> BOOLEAN]

(* Every variable has the shape of what it stands for, and who has ordered *)
(* commands is running them.                                               *)
TypeOK == JobTypes /\ TmpTypes /\ OrderTypes /\ DevTypes /\ FlagTypes

(* A job that reports completed has put what it read on the device, whole, *)
(* when no other job had the port open with it and the device ran all it   *)
(* was given; and what it read is what was sent, when it was saved without *)
(* an error that nobody looked at and no other job uses a temporary file   *)
(* of that name (upload.go:126-196, web.go:639-656).                       *)
CompletedIsOnDevice ==
    \A j \in Jobs : pc[j] = "exit" /\ status[j] = "completed" =>
        /\ alone[j] /\ ~ failed[j] => files[Remote(j)] = local[j]
        /\ j \notin torn /\ (\A k \in Jobs \ {j} : kind[k] # "at" => Local(k) # Local(j)) =>
               local[j] = Whole(IF kind[j] = "verify" THEN Script ELSE j)

(* However jobs overlap, the device is out of the raw REPL when they are   *)
(* over, unless one of them gave up entering it or could not write that it *)
(* leaves it (the two defers, web.go:651-653; upload.go:121-124).          *)
ReplIsLeft ==
    (\A j \in Jobs : pc[j] \in {"new", "refused", "done"}) /\ repl = "raw" =>
        \E j \in Jobs : j \in lost \/ (status[j] = "error" /\ (failed[j] \/ ~ alone[j]))

NoneWaits ==
    \A j \in Jobs :
        \/ pc[j] \in {"new", "refused"}
        \/ pc[j] = "done" /\ j \notin ports /\ status[j] # "none"

(* Every job that was started reports how it ended and closes the port,    *)
(* unless from some time on they are always held up: by a port that talks  *)
(* on or takes nothing in (web.go:517-530, upload.go:38-60), or by a       *)
(* browser that does not read (web.go:696).                                *)
JobsEnd == <>[]NoneWaits \/ <>[](outside # "calm")

(* An upload whose file was saved fails only when the port or the device   *)
(* fails it: it can be made from the upload tab                            *)
(* (verify_lcd_160_128.py:2-3).                                            *)
UploadNeedsOnlyDevice ==
    \A j \in Jobs : status[j] = "error" => failed[j] \/ j \in torn
=============================================================================
