------------------------------ MODULE WebControl ------------------------------
(***************************************************************************)
(* The requests of the web server (web.go) that share currentSession and   *)
(* flashMu: /api/flash with its goroutine runFlash, /api/read, /api/status *)
(* and /api/cancel, and what they do to descriptors and to the interface   *)
(* of the device.  A session has the name of the request that made it.     *)
(*                                                                         *)
(* pc, step     where a request stands; which use of the device is next    *)
(* mu           who holds flashMu                                          *)
(* current      currentSession                                             *)
(* session, fd  s.closed and s.fd of the session of a request              *)
(* use          a value FD() returned, not yet passed to the kernel        *)
(* found        what the check under flashMu read from currentSession      *)
(* answer       what the request reported                                  *)
(* table        the descriptors of the process (external)                  *)
(* claimed      the session whose descriptor claims interface 1 (external) *)
(* stalled      a registered browser does not read and its buffers are     *)
(*              full, so that a broadcast does not return (external)       *)
(* wanted       history: the flash a cancel found in progress on arrival   *)
(***************************************************************************)
EXTENDS Naturals, FiniteSets, FiniteSetsExt

CONSTANTS Flashes, Reads, Cancels, Statuses,    \* the requests
          Free                                  \* nobody, no session

ASSUME WebAssumption ==
    /\ IsFiniteSet(Flashes) /\ IsFiniteSet(Reads)
    /\ Flashes \cap Reads = {}
    /\ (Flashes \cup Reads) \cap (Cancels \cup Statuses) = {}
    /\ Cancels \cap Statuses = {}
    /\ Free \notin Flashes \cup Reads \cup Cancels \cup Statuses

VARIABLES pc, step, mu, current, session, fd, use, found, answer,
          table, claimed, stalled, wanted

vars == <<pc, step, mu, current, session, fd, use, found, answer,
          table, claimed, stalled, wanted>>

Workers  == Flashes \cup Reads
Requests == Workers \cup Cancels \cup Statuses
Fds      == 1 .. Cardinality(Workers)       \* never more than one per worker
NoFd     == 0                               \* the -1 of the code

Init ==
    /\ pc = [r \in Requests |-> "start"]
    /\ step = [w \in Workers |-> "claim"]
    /\ mu = Free /\ current = Free
    /\ session = [w \in Workers |-> "none"]
    /\ fd = [w \in Workers |-> NoFd] /\ use = [w \in Workers |-> NoFd]
    /\ found = [r \in Requests |-> Free]
    /\ answer = [r \in Requests |-> "none"]
    /\ table = [f \in Fds |-> Free]
    /\ claimed = Free
    /\ stalled = FALSE
    /\ wanted = [c \in Cancels |-> Free]

Goto(r, where) == pc' = [pc EXCEPT ![r] = where]
Answer(r, what) == answer' = [answer EXCEPT ![r] = what]

(* broadcast writes to every browser under wsMu, and WriteMessage has no   *)
(* deadline: runFlash and handleCancel, which broadcast, wait while one of *)
(* the browsers stalls.  The session of handleRead has no OnLog.           *)
Broadcast(r) == r \in Reads \/ ~stalled

-----------------------------------------------------------------------------
(* handleFlash and handleRead until the session is there. *)

(* Mutant: the lock is not given back after the look. *)
CheckBusy_KeepsLock(w) ==
    /\ pc[w] = "start"
    /\ mu = Free
    /\ mu' = w
    /\ IF current # Free
         THEN Goto(w, "done") /\ Answer(w, "conflict")
         ELSE Goto(w, IF w \in Flashes THEN "lock" ELSE "open") /\ UNCHANGED answer
    /\ UNCHANGED <<step, current, session, fd, use, found, table, claimed, stalled, wanted>>

(* The lock is held for this look at currentSession only. *)
CheckBusy(w) ==
    /\ pc[w] = "start"
    /\ mu = Free
    /\ IF current # Free
         THEN Goto(w, "done") /\ Answer(w, "conflict")
         ELSE Goto(w, IF w \in Flashes THEN "lock" ELSE "open") /\ UNCHANGED answer
    /\ UNCHANGED <<step, mu, current, session, fd, use, found, table, claimed, stalled, wanted>>

BadRequest(w) ==
    /\ \/ pc[w] = "lock"
       \/ pc[w] = "open" /\ w \in Reads
    /\ answer[w] = "none"
    /\ Goto(w, "done")
    /\ Answer(w, "bad request")
    /\ UNCHANGED <<step, mu, current, session, fd, use, found, table, claimed, stalled, wanted>>

(* Mutant: runFlash does not wait for the lock. *)
LockFlash_Barges(w) ==
    /\ pc[w] = "lock"
    /\ mu' = w
    /\ Goto(w, "open")
    /\ Answer(w, "started")
    /\ UNCHANGED <<step, current, session, fd, use, found, table, claimed, stalled, wanted>>

(* runFlash holds flashMu until it returns, and does not look at           *)
(* currentSession again.                                                   *)
LockFlash(w) ==
    /\ pc[w] = "lock"
    /\ mu = Free
    /\ mu' = w
    /\ Goto(w, "open")
    /\ Answer(w, "started")
    /\ UNCHANGED <<step, current, session, fd, use, found, table, claimed, stalled, wanted>>

Unlock(w) == mu' = IF w \in Flashes THEN Free ELSE mu

(* No device, not in download mode, AT command or open failed. *)
OpenFails(w) ==
    /\ pc[w] = "open"
    /\ Broadcast(w)
    /\ Goto(w, "done")
    /\ Answer(w, "error")
    /\ Unlock(w)
    /\ UNCHANGED <<step, current, session, fd, use, found, table, claimed, stalled, wanted>>

(* OpenUSBDevice and NewSession; the kernel gives the lowest descriptor.   *)
(* A request that names the device broadcasts nothing before this.         *)
Open(w) ==
    /\ pc[w] = "open"
    /\ LET f == Min({g \in Fds : table[g] = Free}) IN
         /\ table' = [table EXCEPT ![f] = w]
         /\ fd' = [fd EXCEPT ![w] = f]
    /\ session' = [session EXCEPT ![w] = "open"]
    /\ Goto(w, "publish")
    /\ UNCHANGED <<step, mu, current, use, found, answer, claimed, stalled, wanted>>

(* handleRead makes this assignment without flashMu. *)
Publish(w) ==
    /\ pc[w] = "publish"
    /\ current' = w
    /\ Goto(w, "fetch")
    /\ UNCHANGED <<step, mu, session, fd, use, found, answer, table, claimed, stalled, wanted>>

-----------------------------------------------------------------------------
(* Work on the device: FD() under s.mu, then the system call without it.   *)
(* runFlash says what it is about to do, or how it ended, before each.     *)

Fetch(w) ==
    /\ pc[w] = "fetch"
    /\ Broadcast(w)
    /\ use' = [use EXCEPT ![w] = fd[w]]
    /\ Goto(w, "call")
    /\ UNCHANGED <<step, mu, current, session, fd, found, answer, table, claimed, stalled, wanted>>

FileOf(f) == IF f = NoFd THEN Free ELSE table[f]

After(s) == CASE s = "claim" -> "handshake" [] s = "handshake" -> "command"
              [] s = "command" -> "release"

(* ClaimInterface, the handshake and the commands.  A failure of the claim *)
(* closes at once, the others release the interface first.                 *)
CallSucceeds(w) ==
    /\ pc[w] = "call" /\ step[w] # "release"
    /\ FileOf(use[w]) # Free
    /\ step[w] = "claim" => claimed \in {Free, FileOf(use[w])}
    /\ claimed' = IF step[w] = "claim" THEN FileOf(use[w]) ELSE claimed
    /\ step' = [step EXCEPT ![w] = After(step[w])]
    /\ IF step[w] = "command" THEN Answer(w, "ok") ELSE UNCHANGED answer
    /\ Goto(w, "fetch")
    /\ UNCHANGED <<mu, current, session, fd, use, found, table, stalled, wanted>>

CallFails(w) ==
    /\ pc[w] = "call" /\ step[w] # "release"
    /\ Answer(w, "error")
    /\ IF step[w] = "claim"
         THEN Goto(w, "close") /\ UNCHANGED step
         ELSE Goto(w, "fetch") /\ step' = [step EXCEPT ![w] = "release"]
    /\ UNCHANGED <<mu, current, session, fd, use, found, table, claimed, stalled, wanted>>

Release(w) ==
    /\ pc[w] = "call" /\ step[w] = "release"
    /\ claimed' = IF FileOf(use[w]) = claimed THEN Free ELSE claimed
    /\ Goto(w, "close")
    /\ UNCHANGED <<step, mu, current, session, fd, use, found, answer, table, stalled, wanted>>

(* Mutant: Close neither looks at s.closed nor forgets the descriptor. *)
Close_Again(s) ==
    /\ session' = [session EXCEPT ![s] = "closed"]
    /\ table' = [table EXCEPT ![fd[s]] = Free]
    /\ claimed' = IF claimed = s THEN Free ELSE claimed
    /\ UNCHANGED fd

(* Session.Close, under s.mu: only the first one closes the descriptor,    *)
(* and with it the kernel drops the claim.                                 *)
Close(s) ==
    IF session[s] = "closed"
      THEN UNCHANGED <<session, fd, table, claimed>>
      ELSE /\ session' = [session EXCEPT ![s] = "closed"]
           /\ table' = [table EXCEPT ![fd[s]] = Free]
           /\ fd' = [fd EXCEPT ![s] = NoFd]
           /\ claimed' = IF claimed = s THEN Free ELSE claimed

(* A failed claim is broadcast before the close. *)
CloseOwn(w) ==
    /\ pc[w] = "close"
    /\ step[w] = "claim" => Broadcast(w)
    /\ Close(w)
    /\ Goto(w, "clear")
    /\ UNCHANGED <<step, mu, current, use, found, answer, stalled, wanted>>

(* Mutant: when the claim failed currentSession keeps the closed session. *)
Clear_NotAfterClaim(w) ==
    /\ pc[w] = "clear"
    /\ current' = IF step[w] = "claim" THEN current ELSE Free
    /\ Unlock(w)
    /\ Goto(w, "done")
    /\ UNCHANGED <<step, session, fd, use, found, answer, table, claimed, stalled, wanted>>

(* currentSession = nil, whosever session it is; runFlash then returns.    *)
Clear(w) ==
    /\ pc[w] = "clear"
    /\ current' = Free
    /\ Unlock(w)
    /\ Goto(w, "done")
    /\ UNCHANGED <<step, session, fd, use, found, answer, table, claimed, stalled, wanted>>

-----------------------------------------------------------------------------
(* handleStatus and handleCancel. *)

FlashInProgress == {f \in Flashes : mu = f /\ session[f] = "open" /\ current = f}

Arrive(r) ==
    /\ r \in Cancels \cup Statuses
    /\ pc[r] = "start"
    /\ Goto(r, "look")
    /\ wanted' = IF r \in Cancels /\ FlashInProgress # {}
                   THEN [wanted EXCEPT ![r] = CHOOSE f \in FlashInProgress : TRUE]
                   ELSE wanted
    /\ UNCHANGED <<step, mu, current, session, fd, use, found, answer, table, claimed, stalled>>

(* Mutant: a request that finds no session looks again until there is one. *)
Look_Waits(r) ==
    /\ pc[r] = "look"
    /\ mu = Free
    /\ IF current = Free
         THEN UNCHANGED <<pc, found, answer>>
         ELSE /\ found' = [found EXCEPT ![r] = current]
              /\ IF r \in Statuses
                   THEN Goto(r, "done") /\ Answer(r, "flashing")
                   ELSE Goto(r, "close") /\ UNCHANGED answer
    /\ UNCHANGED <<step, mu, current, session, fd, use, table, claimed, stalled, wanted>>

Look(r) ==
    /\ pc[r] = "look"
    /\ mu = Free
    /\ found' = [found EXCEPT ![r] = current]
    /\ IF r \in Statuses
         THEN Goto(r, "done") /\ Answer(r, IF current = Free THEN "idle" ELSE "flashing")
         ELSE IF current = Free
                THEN Goto(r, "done") /\ Answer(r, "nothing to cancel")
                ELSE Goto(r, "close") /\ UNCHANGED answer
    /\ UNCHANGED <<step, mu, current, session, fd, use, table, claimed, stalled, wanted>>

CancelClose(c) ==
    /\ c \in Cancels /\ pc[c] = "close"
    /\ Close(found[c])
    /\ Goto(c, "tell")
    /\ UNCHANGED <<step, mu, current, use, found, answer, stalled, wanted>>

(* The browsers are told before the one who asked. *)
CancelTells(c) ==
    /\ pc[c] = "tell"
    /\ Broadcast(c)
    /\ Goto(c, "done")
    /\ Answer(c, "cancelled")
    /\ UNCHANGED <<step, mu, current, session, fd, use, found, table, claimed, stalled, wanted>>

-----------------------------------------------------------------------------

WorkerStep(w) ==
    \/ CheckBusy(w)
    \/ BadRequest(w)
    \/ LockFlash(w)
    \/ OpenFails(w)
    \/ Open(w)
    \/ Publish(w)
    \/ Fetch(w)
    \/ CallSucceeds(w)
    \/ CallFails(w)
    \/ Release(w)
    \/ CloseOwn(w)
    \/ Clear(w)

QueryStep(r) == Arrive(r) \/ Look(r) \/ CancelClose(r) \/ CancelTells(r)

(* A browser stops reading; it reads on, or goes away and is forgotten.    *)
Browser ==
    /\ stalled' = ~stalled
    /\ UNCHANGED <<pc, step, mu, current, session, fd, use, found, answer, table,
                   claimed, wanted>>

AllDone == \A r \in Requests : pc[r] = "done"

Served == AllDone /\ UNCHANGED vars

Step ==
    \/ \E w \in Workers : WorkerStep(w)
    \/ \E r \in Cancels \cup Statuses : QueryStep(r)

Next == Step \/ Browser \/ Served

Spec == Init /\ [][Next]_vars

(* Fairness is about the code only: as long as some goroutine can go on    *)
(* again and again, one does.  Every call to the device has a timeout;     *)
(* room that a browser makes is taken by the one broadcast that waits for  *)
(* it, since wsMu keeps the others out.  Nothing is assumed about a        *)
(* browser, nor of the order in which flashMu is given to the waiters.     *)
Fairness == SF_vars(Step)

FairSpec == Spec /\ Fairness

-----------------------------------------------------------------------------
Stages == {"claim", "handshake", "command", "release"}

(* Every variable has the shape of what it stands for. *)
TypeOK ==
    /\ pc \in [Requests -> {"start", "lock", "open", "publish", "fetch", "call",
                            "close", "clear", "look", "tell", "done"}]
    /\ step \in [Workers -> Stages]
    /\ mu \in Flashes \cup {Free} /\ current \in Workers \cup {Free}
    /\ session \in [Workers -> {"none", "open", "closed"}]
    /\ fd \in [Workers -> Fds \cup {NoFd}] /\ use \in [Workers -> Fds \cup {NoFd}]
    /\ found \in [Requests -> Workers \cup {Free}]
    /\ table \in [Fds -> Workers \cup {Free}]
    /\ claimed \in Workers \cup {Free} /\ stalled \in BOOLEAN
    /\ wanted \in [Cancels -> Flashes \cup {Free}]

(* A session that is not closed owns its descriptor: however a cancel, the *)
(* request itself and new requests interleave, no close hits a descriptor  *)
(* the kernel has given to somebody else (Session.Close).                  *)
DescriptorsApart ==
    \A w \in Workers : session[w] = "open" => table[fd[w]] = w

(* Two flashes never have the device open together: runFlash keeps flashMu *)
(* from before the open until after the close.                             *)
OneFlash ==
    \A f, g \in Flashes : session[f] = "open" /\ session[g] = "open" => f = g

(* When every request is over the server is as it started: no session, no  *)
(* lock, no descriptor, no claim is left, whatever failed on the way.      *)
NothingLeft ==
    AllDone => /\ current = Free /\ mu = Free /\ claimed = Free
               /\ \A f \in Fds : table[f] = Free

(* Every request is answered and every flash goroutine returns, however    *)
(* often browsers stop reading, unless one of them stalls for ever: then   *)
(* runFlash stays in broadcast with flashMu held (web.go:208, 687-696).    *)
AllServed == <>AllDone \/ <>[]stalled

(* /api/cancel cancels the flash in progress (README.md:171): as long as   *)
(* the flash it found on arrival goes on, the cancel can go on too.        *)
CancelReachesFlash ==
    \A c \in Cancels :
        pc[c] = "look" /\ wanted[c] \in FlashInProgress => ENABLED Look(c)
=============================================================================
