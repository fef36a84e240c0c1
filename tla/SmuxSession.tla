----------------------------- MODULE SmuxSession -----------------------------
(***************************************************************************)
(* A Session (session.go) as its caller, its receive loop and a canceller  *)
(* see it: SmuxHandshake, SmuxSendCmd and SmuxDownload (smux.go) share one *)
(* response slot and one abort reason with the receive loop, take s.mu for *)
(* a single access at a time and carry nothing that ties an answer to the  *)
(* command it answers.  Frames are whole here; SmuxLink has their bytes.   *)
(*                                                                         *)
(* pc, op, call    where the caller stands, in which operation, its number *)
(* stage           1 or 2: the first or the second exchange of op          *)
(* sent            data frames of this download already written            *)
(* slot            s.cmdResponse, with the call it answers (history)       *)
(* abort           s.abortReason is set                                    *)
(* closed, rx      s.closed, and the state of the receive loop             *)
(* dev             what the device is doing, and for which call            *)
(* toDev, toHost   frames on their way                                     *)
(* outcome         the last return of an operation                         *)
(* trusted         history: see TrustedAnswers                             *)
(* aborts          history: operations that an abort reason has failed     *)
(***************************************************************************)
EXTENDS Naturals, Sequences, FiniteSets

CONSTANTS
    MaxCalls,           \* bound on the operations of the session
    Chunks,             \* data frames of a download
    MaxTimeouts,        \* bound on the waits that reach their deadline
    MaxWarnings,        \* bound on the "[WARN"/"[ERR" lines of the device
    MaxWriteErrors,     \* bound on the bulk writes that fail
    MayClose            \* does somebody call Close?

ASSUME SessionAssumption ==
    /\ MaxCalls \in Nat /\ Chunks \in Nat \ {0}
    /\ MaxTimeouts \in Nat /\ MaxWarnings \in Nat /\ MaxWriteErrors \in Nat
    /\ MayClose \in BOOLEAN

VARIABLES
    pc, op, call, stage, sent, slot, abort, closed, rx,
    dev, toDev, toHost, outcome, trusted,
    timeouts, warnings, writeErrors, aborts

hostVars  == <<pc, op, call, stage, sent, outcome, trusted>>
boxVars   == <<slot, abort, closed, rx>>
devVars   == <<dev, toDev, toHost>>
faultVars == <<timeouts, warnings, writeErrors, aborts>>
vars      == <<hostVars, boxVars, devVars, faultVars>>

Ops     == {"handshake", "cmd", "download"}
Answers == {"OKAY", "DATA", "FAIL", "UABT", "HELLO_REPLY"}
Empty   == [what |-> "none", to |-> 0]
Idle    == [doing |-> "idle", for |-> 0, left |-> 0]

Init ==
    /\ pc = "idle" /\ op = "cmd" /\ call = 0 /\ stage = 1 /\ sent = 0
    /\ slot = Empty /\ abort = FALSE /\ closed = FALSE /\ rx = "off"
    /\ dev = Idle /\ toDev = << >> /\ toHost = << >>
    /\ outcome = [of |-> 0, ok |-> FALSE, answerTo |-> 0]
    /\ trusted = TRUE
    /\ timeouts = 0 /\ warnings = 0 /\ writeErrors = 0 /\ aborts = 0

-----------------------------------------------------------------------------
(* The caller. *)

(* The prefixes the check function of the current wait accepts. *)
Awaited ==
    CASE op = "handshake" /\ stage = 1 -> {"UABT"}
      [] op = "handshake" /\ stage = 2 -> {"HELLO_REPLY"}
      [] op = "download"  /\ stage = 2 -> {"OKAY", "FAIL"}
      [] OTHER                         -> {"OKAY", "DATA", "FAIL"}

Return(ok, answerTo) ==
    /\ pc' = "idle"
    /\ outcome' = [of |-> call, ok |-> ok, answerTo |-> answerTo]

(* Mutant: the slot is not emptied before a command. *)
Start_NoClear(o) ==
    /\ pc = "idle"
    /\ call < MaxCalls
    /\ (o # "handshake") => rx # "off"
    /\ op' = o
    /\ call' = call + 1
    /\ stage' = 1
    /\ sent' = 0
    /\ pc' = "write"
    /\ rx' = IF o = "handshake" /\ rx = "off" THEN "on" ELSE rx
    /\ UNCHANGED <<slot, abort, closed, devVars, outcome, trusted, faultVars>>

(* startRxLoop is the first thing SmuxHandshake does; it starts the loop   *)
(* once.  The other operations empty the slot before they write.           *)
Start(o) ==
    /\ pc = "idle"
    /\ call < MaxCalls
    /\ (o # "handshake") => rx # "off"
    /\ op' = o
    /\ call' = call + 1
    /\ stage' = 1
    /\ sent' = 0
    /\ pc' = IF o = "handshake" THEN "write" ELSE "clear"
    /\ rx' = IF o = "handshake" /\ rx = "off" THEN "on" ELSE rx
    /\ UNCHANGED <<slot, abort, closed, devVars, outcome, trusted, faultVars>>

(* Mutant: the clearing has no effect. *)
ClearSlot_Keeps ==
    /\ pc = "clear"
    /\ pc' = IF stage = 1 THEN "write" ELSE "chunks"
    /\ UNCHANGED <<op, call, stage, sent, outcome, trusted, boxVars, devVars, faultVars>>

ClearSlot ==
    /\ pc = "clear"
    /\ slot' = Empty
    /\ pc' = IF stage = 1 THEN "write" ELSE "chunks"
    /\ UNCHANGED <<op, call, stage, sent, outcome, trusted, abort, closed, rx,
                   devVars, faultVars>>

Request ==
    CASE op = "cmd"                     -> "cmd"
      [] op = "download"                -> "download"
      [] op = "handshake" /\ stage = 1  -> "UABT"
      [] op = "handshake" /\ stage = 2  -> "HELLO"

(* BulkWrite on the descriptor FD() returns; it is -1 after Close. *)
WriteRequest ==
    /\ pc = "write"
    /\ ~ closed
    /\ toDev' = Append(toDev, [what |-> Request, of |-> call])
    /\ pc' = "wait"
    /\ UNCHANGED <<op, call, stage, sent, outcome, trusted, boxVars, dev, toHost, faultVars>>

(* Mutant: the loop over the data is one frame too long. *)
WriteChunk_OneMore ==
    /\ pc = "chunks"
    /\ ~ closed
    /\ toDev' = Append(toDev, [what |-> "chunk", of |-> call])
    /\ sent' = sent + 1
    /\ pc' = IF sent = Chunks THEN "wait" ELSE "chunks"
    /\ UNCHANGED <<op, call, stage, outcome, trusted, boxVars, dev, toHost, faultVars>>

WriteChunk ==
    /\ pc = "chunks"
    /\ ~ closed
    /\ toDev' = Append(toDev, [what |-> "chunk", of |-> call])
    /\ sent' = sent + 1
    /\ pc' = IF sent + 1 = Chunks THEN "wait" ELSE "chunks"
    /\ UNCHANGED <<op, call, stage, outcome, trusted, boxVars, dev, toHost, faultVars>>

WriteFails ==
    /\ pc \in {"write", "chunks"}
    /\ \/ closed /\ UNCHANGED writeErrors
       \/ ~ closed /\ writeErrors < MaxWriteErrors /\ writeErrors' = writeErrors + 1
    /\ Return(FALSE, 0)
    /\ trusted' = FALSE
    /\ UNCHANGED <<op, call, stage, sent, boxVars, devVars, timeouts, warnings, aborts>>

(* One turn of waitForResponse under s.mu: the awaited answer first, then  *)
(* the abort reason, which is taken out as it is reported.                 *)
PollAnswered ==
    /\ pc = "wait"
    /\ slot.what \in Awaited
    /\ pc' = "read"
    /\ UNCHANGED <<op, call, stage, sent, outcome, trusted, boxVars, devVars, faultVars>>

(* Mutant: the reason is reported and stays. *)
PollAborted_Keeps ==
    /\ pc = "wait"
    /\ slot.what \notin Awaited
    /\ abort
    /\ aborts' = aborts + 1
    /\ Return(FALSE, 0)
    /\ trusted' = FALSE
    /\ UNCHANGED <<op, call, stage, sent, boxVars, devVars, timeouts, warnings, writeErrors>>

PollAborted ==
    /\ pc = "wait"
    /\ slot.what \notin Awaited
    /\ abort
    /\ abort' = FALSE
    /\ aborts' = aborts + 1
    /\ Return(FALSE, 0)
    /\ trusted' = FALSE
    /\ UNCHANGED <<op, call, stage, sent, slot, closed, rx, devVars,
                   timeouts, warnings, writeErrors>>

PollNothing ==
    /\ pc = "wait"
    /\ slot.what \notin Awaited
    /\ ~ abort
    /\ pc' = "polled"
    /\ UNCHANGED <<op, call, stage, sent, outcome, trusted, boxVars, devVars, faultVars>>

(* After the lock is released: the deadline, then done, then 10 ms sleep.  *)
Deadline ==
    /\ pc = "polled"
    /\ timeouts < MaxTimeouts
    /\ timeouts' = timeouts + 1
    /\ Return(FALSE, 0)
    /\ trusted' = FALSE
    /\ UNCHANGED <<op, call, stage, sent, boxVars, devVars, warnings, writeErrors, aborts>>

SeeDone ==
    /\ pc = "polled"
    /\ closed
    /\ Return(FALSE, 0)
    /\ trusted' = FALSE
    /\ UNCHANGED <<op, call, stage, sent, boxVars, devVars, faultVars>>

Sleep ==
    /\ pc = "polled"
    /\ ~ closed
    /\ pc' = "wait"
    /\ UNCHANGED <<op, call, stage, sent, outcome, trusted, boxVars, devVars, faultVars>>

(* The slot is read under a second acquisition of s.mu.  A handshake looks *)
(* only at what the wait has seen.                                         *)
ReadCmd ==
    /\ pc = "read" /\ op = "cmd"
    /\ Return(TRUE, slot.to)
    /\ UNCHANGED <<op, call, stage, sent, trusted, boxVars, devVars, faultVars>>

(* Mutant: the answer to the download command is not looked at. *)
ReadDownload_AnyAnswer ==
    /\ pc = "read" /\ op = "download"
    /\ \/ /\ stage = 1
          /\ stage' = 2
          /\ pc' = "clear"
          /\ UNCHANGED outcome
       \/ /\ stage = 2 /\ slot.what = "OKAY"
          /\ Return(TRUE, slot.to)
          /\ UNCHANGED stage
       \/ /\ stage = 2 /\ slot.what # "OKAY"
          /\ Return(FALSE, 0)
          /\ UNCHANGED stage
    /\ UNCHANGED <<op, call, sent, trusted, boxVars, devVars, faultVars>>

ReadDownload ==
    /\ pc = "read" /\ op = "download"
    /\ \/ /\ stage = 1 /\ slot.what = "DATA"
          /\ stage' = 2
          /\ pc' = "clear"
          /\ UNCHANGED outcome
       \/ /\ stage = 2 /\ slot.what = "OKAY"
          /\ Return(TRUE, slot.to)
          /\ UNCHANGED stage
       \/ /\ slot.what # IF stage = 1 THEN "DATA" ELSE "OKAY"
          /\ Return(FALSE, 0)
          /\ UNCHANGED stage
    /\ UNCHANGED <<op, call, sent, trusted, boxVars, devVars, faultVars>>

ReadHandshake ==
    /\ pc = "read" /\ op = "handshake"
    /\ \/ /\ stage = 1
          /\ stage' = 2
          /\ sent' = IF slot.to = call THEN 1 ELSE 0     \* history: the UABT was ours
          /\ pc' = "write"
          /\ UNCHANGED <<outcome, trusted>>
       \/ /\ stage = 2
          /\ Return(TRUE, slot.to)
          /\ trusted' = (trusted \/ (sent = 1 /\ slot.to = call))
          /\ UNCHANGED <<stage, sent>>
    /\ UNCHANGED <<op, call, boxVars, devVars, faultVars>>

(* Another goroutine, or a deferred call, closes the session. *)
Close ==
    /\ MayClose
    /\ ~ closed
    /\ rx # "off"
    /\ closed' = TRUE
    /\ UNCHANGED <<hostVars, slot, abort, rx, devVars, faultVars>>

-----------------------------------------------------------------------------
(* The receive loop. *)

RxFrame ==
    /\ rx = "on"
    /\ toHost # << >>
    /\ LET f == Head(toHost) IN
         IF f.what = "WARN"
           THEN /\ abort' = TRUE
                /\ UNCHANGED slot
           ELSE /\ slot' = f
                /\ UNCHANGED abort
    /\ toHost' = Tail(toHost)
    /\ UNCHANGED <<hostVars, closed, rx, dev, toDev, faultVars>>

RxStop ==
    /\ rx = "on"
    /\ closed
    /\ rx' = "stopped"
    /\ UNCHANGED <<hostVars, slot, abort, closed, devVars, faultVars>>

-----------------------------------------------------------------------------
(* The device (external): one request after the other, in order.  It may   *)
(* refuse any of them; while it takes the data of a download it ignores    *)
(* what is not data, except UABT, which brings it back to its prompt.      *)

Say(what, to) == toHost' = Append(toHost, [what |-> what, to |-> to])

DevTakesCmd ==
    /\ dev.doing = "idle" /\ toDev # << >> /\ Head(toDev).what = "cmd"
    /\ dev' = [doing |-> "busy", for |-> Head(toDev).of, left |-> 0]
    /\ toDev' = Tail(toDev)
    /\ UNCHANGED <<toHost, hostVars, boxVars, faultVars>>

DevAnswersCmd ==
    /\ dev.doing = "busy"
    /\ \E what \in {"OKAY", "FAIL"} : Say(what, dev.for)
    /\ dev' = Idle
    /\ UNCHANGED <<toDev, hostVars, boxVars, faultVars>>

DevTakesDownload ==
    /\ dev.doing = "idle" /\ toDev # << >> /\ Head(toDev).what = "download"
    /\ \/ /\ Say("DATA", Head(toDev).of)
          /\ dev' = [doing |-> "data", for |-> Head(toDev).of, left |-> Chunks]
       \/ /\ Say("FAIL", Head(toDev).of)
          /\ dev' = Idle
    /\ toDev' = Tail(toDev)
    /\ UNCHANGED <<hostVars, boxVars, faultVars>>

DevTakesChunk ==
    /\ dev.doing = "data" /\ toDev # << >> /\ Head(toDev).what = "chunk"
    /\ IF dev.left > 1
         THEN /\ dev' = [dev EXCEPT !.left = @ - 1]
              /\ UNCHANGED toHost
         ELSE /\ dev' = Idle
              /\ \E what \in {"OKAY", "FAIL"} : Say(what, dev.for)
    /\ toDev' = Tail(toDev)
    /\ UNCHANGED <<hostVars, boxVars, faultVars>>

DevTakesHello ==
    /\ dev.doing # "busy" /\ toDev # << >>
    /\ \/ Head(toDev).what = "UABT"  /\ Say("UABT", Head(toDev).of)
       \/ dev.doing = "idle" /\ Head(toDev).what = "HELLO" /\ Say("HELLO_REPLY", Head(toDev).of)
    /\ dev' = Idle
    /\ toDev' = Tail(toDev)
    /\ UNCHANGED <<hostVars, boxVars, faultVars>>

DevIgnores ==
    /\ toDev # << >>
    /\ \/ dev.doing = "idle" /\ Head(toDev).what = "chunk"
       \/ dev.doing = "data" /\ Head(toDev).what \in {"cmd", "download", "HELLO"}
    /\ toDev' = Tail(toDev)
    /\ UNCHANGED <<dev, toHost, hostVars, boxVars, faultVars>>

DevWarns ==
    /\ dev.doing # "idle"
    /\ warnings < MaxWarnings
    /\ warnings' = warnings + 1
    /\ Say("WARN", dev.for)
    /\ UNCHANGED <<dev, toDev, hostVars, boxVars, timeouts, writeErrors, aborts>>

-----------------------------------------------------------------------------

(* The program has made its calls and exits. *)
SessionOver ==
    /\ pc = "idle"
    /\ call = MaxCalls
    /\ UNCHANGED vars

CallerStep ==
    \/ ClearSlot
    \/ WriteRequest
    \/ WriteChunk
    \/ WriteFails
    \/ PollAnswered
    \/ PollAborted
    \/ PollNothing
    \/ SeeDone
    \/ Sleep
    \/ ReadCmd
    \/ ReadDownload
    \/ ReadHandshake

DeviceStep ==
    \/ DevTakesCmd
    \/ DevAnswersCmd
    \/ DevTakesDownload
    \/ DevTakesChunk
    \/ DevTakesHello
    \/ DevIgnores

Next ==
    \/ \E o \in Ops : Start(o)
    \/ CallerStep
    \/ Deadline
    \/ Close
    \/ RxFrame
    \/ RxStop
    \/ DeviceStep
    \/ DevWarns
    \/ SessionOver

Spec == Init /\ [][Next]_vars

(* The caller's goroutine is scheduled and time passes: a wait that goes   *)
(* on reaches its deadline.  Nothing is asked of the device.               *)
HostFairness == WF_vars(CallerStep) /\ SF_vars(Deadline)

FairSpec == Spec /\ HostFairness

-----------------------------------------------------------------------------
Message == [what : {"cmd", "download", "chunk", "UABT", "HELLO"}, of : 1 .. MaxCalls]
Frame   == [what : Answers \cup {"WARN"}, to : 1 .. MaxCalls]

HostTypes ==
    /\ pc \in {"idle", "clear", "write", "chunks", "wait", "polled", "read"}
    /\ op \in Ops /\ call \in 0 .. MaxCalls /\ stage \in {1, 2} /\ sent \in 0 .. Chunks
    /\ outcome.of \in 0 .. MaxCalls /\ outcome.answerTo \in 0 .. MaxCalls

BoxTypes ==
    /\ slot \in [what : Answers, to : 1 .. MaxCalls] \cup {Empty}
    /\ rx \in {"off", "on", "stopped"}

DevTypes ==
    /\ dev \in [doing : {"idle", "busy", "data"}, for : 0 .. MaxCalls, left : 0 .. Chunks]
    /\ toDev \in Seq(Message)
    /\ toHost \in Seq(Frame)

FlagTypes == abort \in BOOLEAN /\ closed \in BOOLEAN /\ trusted \in BOOLEAN

FaultTypes ==
    /\ timeouts \in 0 .. MaxTimeouts /\ warnings \in 0 .. MaxWarnings
    /\ writeErrors \in 0 .. MaxWriteErrors /\ aborts \in Nat

(* Every variable has the shape of what it stands for. *)
TypeOK == HostTypes /\ BoxTypes /\ DevTypes /\ FlagTypes /\ FaultTypes

(* The session is a CommandChannel: whatever the device does, or does not  *)
(* do, every call returns (waitForResponse, session.go:153-182), with an   *)
(* error or with the answer to itself; only after a call was given up, and *)
(* until a handshake got its own answers, with the answer to an earlier    *)
(* one.                                                                    *)
Channel == INSTANCE CommandChannel
    WITH busy <- pc # "idle",
         outcome <- [of |-> outcome.of, answerTo |-> outcome.answerTo],
         sound <- trusted

ImplementsChannel == Channel!Spec

(* SmuxDownload writes data only while the device is taking the data of    *)
(* this very download (smux.go:319-355), however late the device is, as    *)
(* long as no call was given up before it.                                 *)
DataOnlyWhenAsked ==
    trusted /\ pc = "chunks" =>
        /\ dev.doing = "data"
        /\ dev.for = call
        /\ \A i \in DOMAIN toDev : toDev[i].what = "chunk" /\ toDev[i].of = call
        /\ dev.left = Chunks - sent + Len(toDev)

(* Once a handshake went through with its own two answers, and until the   *)
(* next operation that times out, aborts or fails to write, every answer   *)
(* returned is the answer to its command: what is late has been flushed.   *)
TrustedAnswers == (trusted /\ outcome.ok) => outcome.answerTo = outcome.of

(* A warning nobody was waiting for fails a later operation that had no    *)
(* part in it (session.go:162-167); it fails one at most: the reason is    *)
(* taken out as it is reported, and what comes while it is set is dropped. *)
WarningFailsOnce == aborts <= warnings
=============================================================================
