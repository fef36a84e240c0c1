------------------------------- MODULE WebFlash -------------------------------
(***************************************************************************)
(* One flash of the web server, seen by those who watch it: runFlash       *)
(* (web.go) with DownloadCraneFirmware (firmware.go), the receive loop of  *)
(* its session, and the hub (broadcast, handleWebSocket) through which     *)
(* both write every line they log to every web socket, under wsMu.         *)
(*                                                                         *)
(* pc, i, ask     where runFlash stands; the command at work; the exchange *)
(*                a wait belongs to                                        *)
(* file, at, fw   firmware.bin as it was copied, where it is read, and the *)
(*                commands read from it                                    *)
(* slot           s.cmdResponse                                            *)
(* rx             the frame the receive loop has read, while it logs it    *)
(* say            what runFlash and the receive loop have yet to broadcast *)
(* wsMu, todo     who holds wsMu; the sockets the broadcast has yet to do  *)
(* wsClients      the sockets registered                                   *)
(* conn, handler  the state of a connection, and of its handleWebSocket    *)
(* stalled        the watcher does not read, and its buffers are full      *)
(* dev, toDev, toHost    the device and the frames under way (external)    *)
(* reported       the final state                                          *)
(* told           history: the last final state a watcher was sent         *)
(* met, taken     history: commands the device has taken up, 0 for the     *)
(*                reboot; downloads it has taken the data of               *)
(* skipped        history: a nop was given up                              *)
(* trouble        history: something went wrong that is not the program's  *)
(* twice          history: the device did not take the download command    *)
(*                when it was sent for the second time                     *)
(***************************************************************************)
EXTENDS CraneFirmware, FiniteSets

CONSTANTS
    Watchers,       \* the browsers
    MaxStalls,      \* bound on the times a watcher stops reading
    MaxLeft         \* bound on the answers left over from an earlier flash

ASSUME WatchAssumption == IsFiniteSet(Watchers) /\ MaxStalls \in Nat /\ MaxLeft \in Nat

VARIABLES pc, i, ask, file, at, fw, slot, rx, say, wsMu, todo, wsClients,
          conn, handler, stalled, dev, toDev, toHost, reported,
          told, met, taken, skipped, trouble, twice, stalls

readVars  == <<file, at, fw>>
flashVars == <<pc, i, ask, readVars, reported>>
hubVars   == <<wsMu, todo, wsClients>>
webVars   == <<conn, handler, stalled, told, stalls>>
devVars   == <<dev, toDev, toHost, met, taken>>
causes    == <<trouble, twice>>
vars == <<flashVars, slot, rx, say, hubVars, webVars, devVars, skipped, causes>>

Speakers == {"flash", "rx"}
Idle     == [doing |-> "idle", n |-> 0]
NoFrame  == "none"
LeftOver == {"OKAY", "DATA", "FAIL"}
Start    == Place(0, 1)
NoFile   == [last |-> Start, cut |-> TRUE]

(* Whatever an earlier flash has left in the device and on its way.        *)
Init ==
    /\ pc = "open" /\ i = 0 /\ ask = "hello"
    /\ file = NoFile /\ at = Start /\ fw = << >>
    /\ slot = "none" /\ rx = NoFrame
    /\ say = [s \in Speakers |-> IF s = "flash" THEN "log" ELSE "none"]
    /\ wsMu = "free" /\ todo = {} /\ wsClients = {}
    /\ conn = [c \in Watchers |-> "none"] /\ handler = [c \in Watchers |-> "none"]
    /\ stalled = {} /\ told = [c \in Watchers |-> "none"]
    /\ dev \in {Idle, [doing |-> "data", n |-> 0]}
    /\ toDev = << >> /\ toHost \in UNION {[1 .. n -> LeftOver] : n \in 0 .. MaxLeft}
    /\ reported = "none"
    /\ met = << >> /\ taken = {} /\ skipped = FALSE /\ trouble = FALSE /\ twice = FALSE
    /\ stalls = 0

-----------------------------------------------------------------------------
(* runFlash.  What is logged between two steps is one broadcast. *)

Goto(where) == pc' = where /\ say' = [say EXCEPT !["flash"] = "log"]

Quiet == say["flash"] = "none"

Fail ==
    /\ reported' = "error"
    /\ pc' = "report"
    /\ say' = [say EXCEPT !["flash"] = "status"]

(* The search, the switch to download mode, the open and the claim. *)
Open ==
    /\ pc = "open" /\ Quiet
    /\ Goto("hello")
    /\ UNCHANGED <<i, ask, readVars, reported, slot, rx, hubVars, webVars, devVars, skipped, causes>>

OpenFails ==
    /\ pc = "open" /\ Quiet
    /\ Fail
    /\ trouble' = TRUE
    /\ UNCHANGED <<i, ask, readVars, slot, rx, hubVars, webVars, devVars, skipped, twice>>

Request(what, n) ==
    /\ toDev' = Append(toDev, [what |-> what, n |-> n])
    /\ pc' = "wait"
    /\ UNCHANGED <<i, readVars, reported, rx, say, hubVars, webVars, dev, toHost,
                   met, taken, skipped, causes>>

Hello ==
    /\ pc = "hello" /\ Quiet
    /\ ask' = "hello"
    /\ UNCHANGED slot
    /\ Request("hello", 0)

(* os.Stat and ParseCraneFirmware: the header, ... *)
ParseHeader ==
    /\ pc = "parse" /\ Quiet
    /\ file' \in Files
    /\ LineReadable(file', Start)
    /\ at' = After[Start]
    /\ pc' = "read"
    /\ UNCHANGED <<i, ask, fw, reported, slot, rx, say, hubVars, webVars, devVars, skipped, causes>>

(* ... then, turn by turn, a blank line that is skipped, ... *)
ParseBlank ==
    /\ pc = "read"
    /\ LineReadable(file, at) /\ Kind(at) = "blank"
    /\ at' = After[at]
    /\ UNCHANGED <<pc, i, ask, file, fw, reported, slot, rx, say, hubVars, webVars, devVars,
                   skipped, causes>>

(* ... or a command, until nothing can be read. *)
ParseCommand ==
    /\ pc = "read"
    /\ LineReadable(file, at) /\ Kind(at) # "blank"
    /\ Whole(file, at)
    /\ fw' = Append(fw, Command(at))
    /\ at' = Beyond(at)
    /\ UNCHANGED <<pc, i, ask, file, reported, slot, rx, say, hubVars, webVars, devVars,
                   skipped, causes>>

ParseEnd ==
    /\ pc = "read"
    /\ ~ LineReadable(file, at)
    /\ file' = NoFile /\ at' = Start
    /\ i' = 1
    /\ Goto("command")
    /\ UNCHANGED <<ask, fw, reported, slot, rx, hubVars, webVars, devVars, skipped, causes>>

ParseFails ==
    /\ \/ pc = "parse" /\ Quiet /\ \E copied \in Files : ~ LineReadable(copied, Start)
       \/ pc = "read" /\ LineReadable(file, at) /\ Kind(at) # "blank" /\ ~ Whole(file, at)
    /\ file' = NoFile /\ at' = Start /\ fw' = << >>
    /\ Fail
    /\ trouble' = TRUE
    /\ UNCHANGED <<i, ask, slot, rx, hubVars, webVars, devVars, skipped, twice>>

(* SmuxSendCmd empties the slot and writes the command. *)
SendCommand ==
    /\ pc = "command" /\ Quiet
    /\ i <= Len(fw)
    /\ ask' = "command"
    /\ slot' = "none"
    /\ Request(fw[i].type, fw[i].n)

SendReboot ==
    /\ pc = "command" /\ Quiet
    /\ i > Len(fw)
    /\ ask' = "reboot"
    /\ slot' = "none"
    /\ Request("reboot", 0)

(* SmuxDownload sends the download command again, awaits DATA, sends the   *)
(* data and awaits OKAY.                                                   *)
SendAgain ==
    /\ pc = "again" /\ Quiet
    /\ ask' = "again"
    /\ slot' = "none"
    /\ Request("download", fw[i].n)

SendData ==
    /\ pc = "data" /\ Quiet
    /\ ask' = "data"
    /\ slot' = "none"
    /\ Request("data", fw[i].n)

Awaited ==
    CASE ask = "hello" -> {"HELLO_REPLY"}
      [] ask = "data"  -> {"OKAY", "FAIL"}
      [] OTHER         -> {"OKAY", "DATA", "FAIL"}

NextCommand == Goto("command") /\ i' = i + 1 /\ UNCHANGED reported

Complete ==
    /\ reported' = "completed"
    /\ pc' = "report"
    /\ say' = [say EXCEPT !["flash"] = "status"]

(* Mutant: the answer to a download is compared with OKAY. *)
Answered_WantsOkay ==
    /\ pc = "wait"
    /\ slot \in Awaited
    /\ \/ ask = "hello" /\ Goto("parse") /\ UNCHANGED <<i, reported>>
       \/ ask = "reboot" /\ Complete /\ UNCHANGED i
       \/ ask = "command" /\ fw[i].type # "download" /\ NextCommand
       \/ /\ ask = "command" /\ fw[i].type = "download"
          /\ IF slot = "OKAY" THEN Goto("again") /\ UNCHANGED reported ELSE Fail
          /\ UNCHANGED i
       \/ /\ ask = "again"
          /\ IF slot = "DATA" THEN Goto("data") /\ UNCHANGED reported ELSE Fail
          /\ UNCHANGED i
       \/ ask = "data" /\ slot = "OKAY" /\ NextCommand
       \/ ask = "data" /\ slot # "OKAY" /\ Fail /\ UNCHANGED i
    /\ UNCHANGED <<ask, readVars, slot, rx, hubVars, webVars, devVars, skipped, causes>>

(* The answer awaited is in the slot (checked and read again in the code,  *)
(* see SmuxSession).  A refused command other than a download is a warning *)
(* and the flash goes on; so it does whatever reboot brings.               *)
Answered ==
    /\ pc = "wait"
    /\ slot \in Awaited
    /\ \/ ask = "hello" /\ Goto("parse") /\ UNCHANGED <<i, reported>>
       \/ ask = "reboot" /\ Complete /\ UNCHANGED i
       \/ ask = "command" /\ fw[i].type # "download" /\ NextCommand
       \/ /\ ask = "command" /\ fw[i].type = "download"
          /\ IF slot = "DATA" THEN Goto("again") /\ UNCHANGED reported ELSE Fail
          /\ UNCHANGED i
       \/ /\ ask = "again"
          /\ IF slot = "DATA" THEN Goto("data") /\ UNCHANGED reported ELSE Fail
          /\ UNCHANGED i
       \/ ask = "data" /\ slot = "OKAY" /\ NextCommand
       \/ ask = "data" /\ slot # "OKAY" /\ Fail /\ UNCHANGED i
    /\ UNCHANGED <<ask, readVars, slot, rx, hubVars, webVars, devVars, skipped, causes>>

(* Mutant: any command is passed over, not nop alone. *)
GiveUp_Continues ==
    /\ pc = "wait"
    /\ slot \notin Awaited
    /\ trouble' = TRUE
    /\ IF ask = "reboot" THEN Complete /\ UNCHANGED <<i, skipped>>
       ELSE IF ask # "hello"
         THEN NextCommand /\ UNCHANGED skipped
         ELSE Fail /\ UNCHANGED <<i, skipped>>
    /\ UNCHANGED <<ask, readVars, slot, rx, hubVars, webVars, devVars, twice>>

(* Mutant: a reboot that fails is passed over like a nop. *)
GiveUp_RebootsAgain ==
    /\ pc = "wait"
    /\ slot \notin Awaited
    /\ trouble' = TRUE
    /\ IF ask = "reboot" \/ (ask = "command" /\ fw[i].type = "nop")
         THEN NextCommand /\ skipped' = TRUE
         ELSE Fail /\ UNCHANGED <<i, skipped>>
    /\ UNCHANGED <<ask, readVars, slot, rx, hubVars, webVars, devVars, twice>>

(* The deadline, a device abort, or a write that fails.  A nop is passed   *)
(* over, and so is the reboot.                                             *)
GiveUp ==
    /\ pc = "wait"
    /\ slot \notin Awaited
    /\ trouble' = TRUE
    /\ IF ask = "reboot" THEN Complete /\ UNCHANGED <<i, skipped>>
       ELSE IF ask = "command" /\ fw[i].type = "nop"
         THEN NextCommand /\ skipped' = TRUE
         ELSE Fail /\ UNCHANGED <<i, skipped>>
    /\ UNCHANGED <<ask, readVars, slot, rx, hubVars, webVars, devVars, twice>>

(* The final state is out: release, close, and the receive loop ends. *)
Close ==
    /\ pc = "report" /\ Quiet
    /\ pc' = "done"
    /\ UNCHANGED <<i, ask, readVars, reported, slot, rx, say, hubVars, webVars, devVars,
                   skipped, causes>>

-----------------------------------------------------------------------------
(* The receive loop logs what it has read before it looks at it. *)

RxRead ==
    /\ pc \notin {"open", "hello", "done"} \* started by the handshake, ended by Close
    /\ rx = NoFrame /\ toHost # << >>
    /\ rx' = Head(toHost)
    /\ toHost' = Tail(toHost)
    /\ say' = [say EXCEPT !["rx"] = "log"]
    /\ UNCHANGED <<flashVars, slot, hubVars, webVars, dev, toDev, met, taken,
                   skipped, causes>>

RxProcess ==
    /\ rx # NoFrame /\ say["rx"] = "none"
    /\ rx' = NoFrame
    /\ slot' = rx
    /\ UNCHANGED <<flashVars, say, hubVars, webVars, devVars, skipped, causes>>

-----------------------------------------------------------------------------
(* broadcast: every socket is written to under wsMu, with no deadline. *)

HubLock(s) ==
    /\ say[s] # "none"
    /\ wsMu = "free"
    /\ wsMu' = s
    /\ todo' = wsClients
    /\ UNCHANGED <<flashVars, slot, rx, say, wsClients, webVars, devVars, skipped, causes>>

HubWrite(c) ==
    /\ c \in todo
    /\ conn[c] = "open" /\ c \notin stalled
    /\ todo' = todo \ {c}
    /\ told' = IF say[wsMu] = "status" THEN [told EXCEPT ![c] = reported] ELSE told
    /\ UNCHANGED <<flashVars, slot, rx, say, wsMu, wsClients, conn, handler, stalled,
                   stalls, devVars, skipped, causes>>

(* Mutant: the first write that fails ends the loop over the sockets. *)
HubWriteFails_Returns(c) ==
    /\ c \in todo
    /\ conn[c] = "gone"
    /\ todo' = {}
    /\ wsClients' = wsClients \ {c}
    /\ UNCHANGED <<flashVars, slot, rx, say, wsMu, webVars, devVars, skipped, causes>>

(* Mutant: a write that failed is tried again. *)
HubWriteFails_Retries(c) ==
    /\ c \in todo
    /\ conn[c] = "gone"
    /\ UNCHANGED vars

(* The watcher has gone: its socket is closed and forgotten. *)
HubWriteFails(c) ==
    /\ c \in todo
    /\ conn[c] = "gone"
    /\ todo' = todo \ {c}
    /\ wsClients' = wsClients \ {c}
    /\ UNCHANGED <<flashVars, slot, rx, say, wsMu, webVars, devVars, skipped, causes>>

HubUnlock ==
    /\ wsMu # "free"
    /\ todo = {}
    /\ say' = [say EXCEPT ![wsMu] = "none"]
    /\ wsMu' = "free"
    /\ UNCHANGED <<flashVars, slot, rx, todo, wsClients, webVars, devVars, skipped, causes>>

-----------------------------------------------------------------------------
(* handleWebSocket, and the watchers (external). *)

Connect(c) ==
    /\ handler[c] = "none"
    /\ conn' = [conn EXCEPT ![c] = "open"]
    /\ handler' = [handler EXCEPT ![c] = "register"]
    /\ UNCHANGED <<flashVars, slot, rx, say, hubVars, stalled, told, stalls, devVars,
                   skipped, causes>>

Register(c) ==
    /\ handler[c] = "register"
    /\ wsMu = "free"
    /\ wsClients' = wsClients \cup {c}
    /\ handler' = [handler EXCEPT ![c] = "read"]
    /\ UNCHANGED <<flashVars, slot, rx, say, wsMu, todo, conn, stalled, told,
                   stalls, devVars, skipped, causes>>

(* The read fails when the watcher has gone. *)
Unregister(c) ==
    /\ handler[c] = "read"
    /\ conn[c] = "gone"
    /\ wsMu = "free"
    /\ wsClients' = wsClients \ {c}
    /\ conn' = [conn EXCEPT ![c] = "none"]
    /\ handler' = [handler EXCEPT ![c] = "none"]
    /\ told' = [told EXCEPT ![c] = "none"]
    /\ UNCHANGED <<flashVars, slot, rx, say, wsMu, todo, stalled, stalls, devVars,
                   skipped, causes>>

Leave(c) ==
    /\ conn[c] = "open"
    /\ conn' = [conn EXCEPT ![c] = "gone"]
    /\ stalled' = stalled \ {c}
    /\ UNCHANGED <<flashVars, slot, rx, say, hubVars, handler, told,
                   stalls, devVars, skipped, causes>>

Stall(c) ==
    /\ conn[c] = "open" /\ c \notin stalled
    /\ stalls < MaxStalls
    /\ stalls' = stalls + 1
    /\ stalled' = stalled \cup {c}
    /\ UNCHANGED <<flashVars, slot, rx, say, hubVars, conn, handler, told,
                   devVars, skipped, causes>>

ReadOn(c) ==
    /\ c \in stalled
    /\ stalled' = stalled \ {c}
    /\ UNCHANGED <<flashVars, slot, rx, say, hubVars, conn, handler, told,
                   stalls, devVars, skipped, causes>>

-----------------------------------------------------------------------------
(* The device (external).  It takes one request after the other and may    *)
(* refuse it or not answer; while it takes data a handshake sets it back,  *)
(* and a download command that is repeated may be answered with anything.  *)
(* Nothing else is sent to it then, and data is sent only then.            *)

request == Head(toDev)

Told(answer) == toHost' = Append(toHost, answer) /\ UNCHANGED causes
Mute         == trouble' = TRUE /\ UNCHANGED <<toHost, twice>>
Refuse       == toHost' = Append(toHost, "FAIL") /\ trouble' = TRUE /\ UNCHANGED twice
Balk         == \E answer \in {"OKAY", "FAIL"} :
                    toHost' = Append(toHost, answer) /\ twice' = TRUE /\ UNCHANGED trouble

DevTakes ==
    /\ toDev # << >>
    /\ toDev' = Tail(toDev)
    /\ UNCHANGED <<flashVars, slot, rx, say, hubVars, webVars, skipped>>

DevTakesHello ==
    /\ DevTakes
    /\ request.what = "hello"
    /\ dev' = Idle
    /\ Told("HELLO_REPLY") \/ Mute
    /\ UNCHANGED <<met, taken>>

DevTakesCommand ==
    /\ DevTakes
    /\ dev.doing = "idle" /\ request.what \in (Types \cup {"reboot"}) \ {"download"}
    /\ met' = Append(met, request.n)
    /\ Told("OKAY") \/ Refuse \/ Mute
    /\ UNCHANGED <<dev, taken>>

DevTakesDownload ==
    /\ DevTakes
    /\ request.what = "download"
    /\ \/ /\ Told("DATA")
          /\ dev' = [doing |-> "data", n |-> request.n]
       \/ dev.doing = "idle" /\ Refuse /\ UNCHANGED dev
       \/ dev.doing = "data" /\ Balk /\ UNCHANGED dev
       \/ Mute /\ UNCHANGED dev
    /\ met' = IF dev.doing = "idle" THEN Append(met, request.n) ELSE met
    /\ UNCHANGED taken

DevTakesData ==
    /\ DevTakes
    /\ request.what = "data" /\ dev.doing = "data"
    /\ dev' = Idle
    /\ \/ Told("OKAY") /\ taken' = taken \cup {dev.n}
       \/ Refuse /\ UNCHANGED taken
       \/ Mute /\ UNCHANGED taken
    /\ UNCHANGED met

-----------------------------------------------------------------------------

FlashStep ==
    \/ Open
    \/ OpenFails
    \/ Hello
    \/ ParseHeader
    \/ ParseBlank
    \/ ParseCommand
    \/ ParseEnd
    \/ ParseFails
    \/ SendCommand
    \/ SendReboot
    \/ SendAgain
    \/ SendData
    \/ Answered
    \/ GiveUp
    \/ Close

RxStep == RxRead \/ RxProcess

HubStep ==
    \/ \E s \in Speakers : HubLock(s)
    \/ \E c \in Watchers : HubWrite(c) \/ HubWriteFails(c)
    \/ HubUnlock

HandlerStep(c) == Register(c) \/ Unregister(c)

DeviceStep ==
    \/ DevTakesHello
    \/ DevTakesCommand
    \/ DevTakesDownload
    \/ DevTakesData

Over == pc = "done" /\ UNCHANGED vars

Next ==
    \/ FlashStep
    \/ RxStep
    \/ HubStep
    \/ \E c \in Watchers : HandlerStep(c) \/ Connect(c) \/ Leave(c) \/ Stall(c) \/ ReadOn(c)
    \/ DeviceStep
    \/ Over

Spec == Init /\ [][Next]_vars

(* Every goroutine runs and a wait ends at its deadline.  Nothing is       *)
(* assumed about the watchers: none of them has to read on.                *)
FairSpec ==
    /\ Spec
    /\ WF_vars(FlashStep) /\ WF_vars(RxStep) /\ WF_vars(HubStep)
    /\ \A c \in Watchers : WF_vars(HandlerStep(c))

-----------------------------------------------------------------------------
Answers  == {"OKAY", "DATA", "FAIL", "HELLO_REPLY"}
Commands == [type : Types, n : 1 .. Len(Firmware)]
Requests == [what : Types \cup {"hello", "data", "reboot"}, n : 0 .. Len(Firmware)]

FlashTypes ==
    /\ pc \in {"open", "hello", "parse", "read", "command", "again", "data", "wait", "report", "done"}
    /\ i \in 0 .. Len(fw) + 1 /\ ask \in {"hello", "command", "again", "data", "reboot"}
    /\ file \in Files /\ at \in [n : 0 .. Len(Firmware) + 1, k : 1 .. 6]
    /\ fw \in Seq(Commands)
    /\ slot \in Answers \cup {"none"} /\ rx \in Answers \cup {NoFrame}
    /\ reported \in {"none", "completed", "error"}

HubTypes ==
    /\ say \in [Speakers -> {"none", "log", "status"}]
    /\ wsMu \in Speakers \cup {"free"} /\ todo \subseteq Watchers /\ wsClients \subseteq Watchers
    /\ conn \in [Watchers -> {"none", "open", "gone"}]
    /\ handler \in [Watchers -> {"none", "register", "read"}]
    /\ stalled \subseteq {c \in Watchers : conn[c] = "open"} /\ stalls \in 0 .. MaxStalls
    /\ told \in [Watchers -> {"none", "completed", "error"}]

DevTypes ==
    /\ dev \in [doing : {"idle", "data"}, n : 0 .. Len(Firmware)]
    /\ toDev \in Seq(Requests) /\ toHost \in Seq(Answers)
    /\ met \in Seq(0 .. Len(Firmware)) /\ taken \subseteq 0 .. Len(Firmware)
    /\ skipped \in BOOLEAN /\ trouble \in BOOLEAN /\ twice \in BOOLEAN

(* Every variable has the shape of what it stands for. *)
TypeOK == FlashTypes /\ HubTypes /\ DevTypes

(* Wherever the file was cut, what is read from it is a beginning of the   *)
(* commands of the whole file, in order, each with its data, or an error   *)
(* (ParseCraneFirmware, firmware.go:52-115).  A property of the files in   *)
(* which an answer line follows a download command, which the parser       *)
(* expects; it fails for the files README.md:59-75 documents.              *)
ReadIsPrefix ==
    /\ Len(fw) <= Len(Firmware)
    /\ \A k \in 1 .. Len(fw) : fw[k] = [type |-> Firmware[k], n |-> k]

(* A flash that reports completed has got every download to the device,    *)
(* and, unless a nop was passed over, every command, each once and in the  *)
(* order of the file: an answer that came late for a nop is never taken    *)
(* for the one of a download (firmware.go:139-182).                        *)
CompletedMeansTaken ==
    reported = "completed" =>
        /\ \A k \in 1 .. Len(fw) : fw[k].type = "download" => fw[k].n \in taken
        /\ LET order == [k \in 1 .. Len(fw) |-> fw[k].n]
           IN ~ skipped => met \in {order, Append(order, 0)}

(* A flash that reports an error had one: something went wrong outside the *)
(* program, or the device would not take the download command the second   *)
(* time.  What an earlier flash has left in the device and on its way      *)
(* never fails a flash on a device that answers and accepts everything.    *)
ErrorHasCause == reported = "error" => trouble \/ twice

StallsForEver(c) == <>[](c \in stalled)

(* Every flash comes to an end, however the watchers come and go, unless   *)
(* one of them stalls for ever: it is written to with no deadline          *)
(* (web.go:696).                                                           *)
FlashEnds == <>(pc = "done") \/ \E c \in Watchers : StallsForEver(c)

ToldIfStays(c) ==
    (c \in wsClients /\ reported = "none")
        ~> (c \notin wsClients \/ (reported # "none" /\ told[c] = reported))

(* Who watches before the end and stays is told how the flash ended,       *)
(* unless one of the watchers stalls for ever.                             *)
WatcherTold ==
    \/ \A c \in Watchers : ToldIfStays(c)
    \/ \E c \in Watchers : StallsForEver(c)
=============================================================================
