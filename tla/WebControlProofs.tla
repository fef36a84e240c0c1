---------------------------- MODULE WebControlProofs ----------------------------
(***************************************************************************)
(* Proofs about WebControl, for any number of flashes, reads, cancels and  *)
(* status requests.                                                        *)
(*                                                                         *)
(* The argument: a session and its descriptor point at each other from the *)
(* open to the first close, and nothing else points at either; so a later  *)
(* close finds the session closed, whatever descriptor the kernel has      *)
(* given away in between.  A flash holds flashMu from before the open      *)
(* until after the close.  What a request leaves behind is tied to the     *)
(* stretch of it that takes it away again.                                 *)
(***************************************************************************)
EXTENDS WebControl, TLAPS, FiniteSetTheorems, WellFoundedInduction

-----------------------------------------------------------------------------
(* A set of numbers has a minimum. *)
LEMMA MinFacts ==
    ASSUME NEW S \in SUBSET Nat, S # {}
    PROVE  Min(S) \in S
  <1> DEFINE R == {ss \in Nat \X Nat : ss[1] < ss[2]}
  <1>1. IsWellFoundedOn(R, Nat) BY NatLessThanWellFounded DEF OpToRel
  <1>2. PICK g \in S : \A h \in S : ~ (<<h, g>> \in R)
    <2> HIDE DEF R
    <2> QED BY <1>1, WFMin
  <1>3. ASSUME NEW h \in S PROVE g <= h
    <2>1. <<h, g>> \in Nat \X Nat OBVIOUS
    <2>2. ~ (h < g) BY <1>2, <2>1
    <2> QED BY <2>2
  <1> QED BY <1>3 DEF Min

-----------------------------------------------------------------------------
(* The inductive invariant. *)

(* A session exists from the open on, is open until it is closed, by the   *)
(* request or, once it is published, by a cancel, and closed at the end.   *)
SessionsInv ==
    \A w \in Workers :
        /\ pc[w] \in {"start", "lock", "open"} => session[w] = "none"
        /\ pc[w] = "publish" => session[w] = "open"
        /\ pc[w] \in {"fetch", "call", "close"} => session[w] # "none"
        /\ pc[w] = "clear" => session[w] = "closed"
        /\ pc[w] = "done" => session[w] # "open"
        /\ pc[w] = "lock" => w \in Flashes
        /\ pc[w] \notin {"look", "tell"}

(* An open session and its descriptor point at each other; a claim is one  *)
(* of an open session.                                                     *)
TableInv ==
    /\ \A w \in Workers : session[w] = "open" => fd[w] \in Fds /\ table[fd[w]] = w
    /\ \A f \in Fds : table[f] # Free => session[table[f]] = "open" /\ fd[table[f]] = f
    /\ claimed # Free => session[claimed] = "open"

Published == {"fetch", "call", "close", "clear"}

(* A session is known to others only after it was published, and           *)
(* currentSession only while its request is not over.                      *)
KnownInv ==
    /\ current # Free => pc[current] \in Published
    /\ \A c \in Cancels :
         pc[c] = "close" => found[c] \in Workers /\ pc[found[c]] \in Published \cup {"done"}
                            /\ session[found[c]] # "none"

AtDevice == {"open", "publish"} \cup Published

(* A flash has the device only while it holds flashMu, and gives it back.  *)
LockInv ==
    /\ mu # Free => pc[mu] \in AtDevice
    /\ \A f \in Flashes : pc[f] \in AtDevice => mu = f

WebInv == TypeOK /\ SessionsInv /\ TableInv /\ KnownInv /\ LockInv

-----------------------------------------------------------------------------
(* A request that has no session yet finds a descriptor. *)
LEMMA FreeDescriptor ==
    ASSUME WebInv, NEW w \in Workers, session[w] = "none"
    PROVE  Min({g \in Fds : table[g] = Free}) \in {g \in Fds : table[g] = Free}
  <1> DEFINE Others == Workers \ {w}
  <1>1. IsFiniteSet(Workers) BY WebAssumption, FS_Union DEF Workers
  <1>2. /\ IsFiniteSet(Others) /\ Cardinality(Workers) \in Nat
        /\ Cardinality(Others) = Cardinality(Workers) - 1
    BY <1>1, FS_RemoveElement, FS_CardinalityType
  <1>3. IsFiniteSet(Fds) /\ Cardinality(Fds) = Cardinality(Workers)
    BY <1>2, FS_Interval DEF Fds
  <1>4. Cardinality(Others) < Cardinality(Fds) BY <1>2, <1>3
  <1>5. ASSUME \A g \in Fds : table[g] # Free PROVE FALSE
    <2>1. table \in [Fds -> Others] BY <1>5 DEF WebInv, TypeOK, TableInv
    <2>2. PICK f, g \in Fds : f # g /\ table[f] = table[g]
      <3> HIDE DEF Others
      <3> QED BY <1>2, <1>3, <1>4, <2>1, FS_PigeonHole
    <2>3. fd[table[f]] = f /\ fd[table[g]] = g BY <1>5 DEF WebInv, TableInv
    <2> QED BY <2>2, <2>3
  <1>6. {g \in Fds : table[g] = Free} \in SUBSET Nat BY DEF Fds
  <1> QED BY <1>5, <1>6, MinFacts

(* The requests do not mix. *)
LEMMA Disjoint ==
    /\ Workers \cap (Cancels \cup Statuses) = {} /\ Cancels \cap Statuses = {}
    /\ Free \notin Workers /\ Workers \subseteq Requests
    /\ Cancels \subseteq Requests /\ Statuses \subseteq Requests
    /\ Flashes \subseteq Workers /\ Reads \subseteq Workers /\ Flashes \cap Reads = {}
    /\ NoFd \notin Fds
  BY WebAssumption DEF Workers, Requests, Fds, NoFd

LEMMA InitWebInv == Init => WebInv
  <1> SUFFICES ASSUME Init PROVE WebInv OBVIOUS
  <1>1. TypeOK BY Disjoint DEF Init, TypeOK, Stages
  <1>2. SessionsInv /\ TableInv /\ KnownInv /\ LockInv
    BY Disjoint DEF Init, SessionsInv, TableInv, KnownInv, LockInv, Published, AtDevice
  <1> QED BY <1>1, <1>2 DEF WebInv

-----------------------------------------------------------------------------
(* The steps.  All parts of the invariant are about pc; it is read off the *)
(* step which of the other variables change.                               *)

(* Closing a session that exists, once more or for the first time, keeps   *)
(* sessions and descriptors together.                                      *)
LEMMA CloseFacts ==
    ASSUME WebInv, NEW w \in Workers, session[w] # "none", Close(w)
    PROVE  /\ session' \in [Workers -> {"none", "open", "closed"}]
           /\ fd' \in [Workers -> Fds \cup {NoFd}]
           /\ table' \in [Fds -> Workers \cup {Free}]
           /\ claimed' \in Workers \cup {Free}
           /\ session' = [session EXCEPT ![w] = "closed"]
           /\ TableInv'
  <1>0. /\ session \in [Workers -> {"none", "open", "closed"}]
        /\ fd \in [Workers -> Fds \cup {NoFd}]
        /\ table \in [Fds -> Workers \cup {Free}]
        /\ claimed \in Workers \cup {Free} /\ TableInv
    BY DEF WebInv, TypeOK
  <1>1. CASE session[w] = "closed"
    <2>1. UNCHANGED <<session, fd, table, claimed>> BY <1>1 DEF Close
    <2>2. session' = [session EXCEPT ![w] = "closed"] BY <1>0, <1>1, <2>1
    <2> QED BY <1>0, <2>1, <2>2 DEF TableInv
  <1>2. CASE session[w] = "open"
    <2>1. /\ session' = [session EXCEPT ![w] = "closed"]
          /\ table' = [table EXCEPT ![fd[w]] = Free]
          /\ fd' = [fd EXCEPT ![w] = NoFd]
          /\ claimed' = IF claimed = w THEN Free ELSE claimed
      BY <1>2 DEF Close
    <2>2. fd[w] \in Fds /\ table[fd[w]] = w BY <1>0, <1>2 DEF TableInv
    <2> QED BY <1>0, <2>1, <2>2, Disjoint DEF TableInv
  <1> QED BY <1>0, <1>1, <1>2

LEMMA StepWebInv == WebInv /\ [Next]_vars => WebInv'
  <1> SUFFICES ASSUME WebInv, [Next]_vars PROVE WebInv' OBVIOUS
  <1> USE Disjoint DEF WebInv, TypeOK
  <1>1. ASSUME NEW w \in Workers, CheckBusy(w) PROVE WebInv'
    <2>1. TypeOK' BY <1>1 DEF CheckBusy, Goto, Answer, Unlock, Stages
    <2>2. SessionsInv' BY <1>1 DEF CheckBusy, Goto, SessionsInv
    <2>3. TableInv' BY <1>1 DEF CheckBusy, TableInv
    <2>4. KnownInv' BY <1>1 DEF CheckBusy, Goto, KnownInv, Published
    <2>5. LockInv' BY <1>1 DEF CheckBusy, Goto, Unlock, SessionsInv, LockInv, AtDevice, Published
    <2> QED BY <2>1, <2>2, <2>3, <2>4, <2>5
  <1>2. ASSUME NEW w \in Workers, BadRequest(w) PROVE WebInv'
    <2>1. TypeOK' BY <1>2 DEF BadRequest, Goto, Answer, Unlock, Stages
    <2>2. SessionsInv' BY <1>2 DEF BadRequest, Goto, SessionsInv
    <2>3. TableInv' BY <1>2 DEF BadRequest, TableInv
    <2>4. KnownInv' BY <1>2 DEF BadRequest, Goto, KnownInv, Published
    <2>5. LockInv' BY <1>2 DEF BadRequest, Goto, Unlock, SessionsInv, LockInv, AtDevice, Published
    <2> QED BY <2>1, <2>2, <2>3, <2>4, <2>5
  <1>3. ASSUME NEW w \in Workers, LockFlash(w) PROVE WebInv'
    <2>1. TypeOK' BY <1>3 DEF LockFlash, Goto, Answer, Unlock, Stages, SessionsInv
    <2>2. SessionsInv' BY <1>3 DEF LockFlash, Goto, SessionsInv
    <2>3. TableInv' BY <1>3 DEF LockFlash, TableInv
    <2>4. KnownInv' BY <1>3 DEF LockFlash, Goto, KnownInv, Published
    <2>5. LockInv' BY <1>3 DEF LockFlash, Goto, Unlock, SessionsInv, LockInv, AtDevice, Published
    <2> QED BY <2>1, <2>2, <2>3, <2>4, <2>5
  <1>4. ASSUME NEW w \in Workers, OpenFails(w) PROVE WebInv'
    <2>1. TypeOK' BY <1>4 DEF OpenFails, Goto, Answer, Unlock, Stages
    <2>2. SessionsInv' BY <1>4 DEF OpenFails, Goto, SessionsInv
    <2>3. TableInv' BY <1>4 DEF OpenFails, TableInv
    <2>4. KnownInv' BY <1>4 DEF OpenFails, Goto, KnownInv, Published
    <2>5. LockInv' BY <1>4 DEF OpenFails, Goto, Unlock, SessionsInv, LockInv, AtDevice, Published
    <2> QED BY <2>1, <2>2, <2>3, <2>4, <2>5
  <1>5. ASSUME NEW w \in Workers, Publish(w) PROVE WebInv'
    <2>1. TypeOK' BY <1>5 DEF Publish, Goto, Answer, Unlock, Stages
    <2>2. SessionsInv' BY <1>5 DEF Publish, Goto, SessionsInv
    <2>3. TableInv' BY <1>5 DEF Publish, TableInv
    <2>4. KnownInv' BY <1>5 DEF Publish, Goto, KnownInv, Published
    <2>5. LockInv' BY <1>5 DEF Publish, Goto, Unlock, SessionsInv, LockInv, AtDevice, Published
    <2> QED BY <2>1, <2>2, <2>3, <2>4, <2>5
  <1>6. ASSUME NEW w \in Workers, Fetch(w) PROVE WebInv'
    <2>1. TypeOK' BY <1>6 DEF Fetch, Goto, Answer, Unlock, Stages
    <2>2. SessionsInv' BY <1>6 DEF Fetch, Goto, SessionsInv
    <2>3. TableInv' BY <1>6 DEF Fetch, TableInv
    <2>4. KnownInv' BY <1>6 DEF Fetch, Goto, KnownInv, Published
    <2>5. LockInv' BY <1>6 DEF Fetch, Goto, Unlock, SessionsInv, LockInv, AtDevice, Published
    <2> QED BY <2>1, <2>2, <2>3, <2>4, <2>5
  <1>7. ASSUME NEW w \in Workers, CallFails(w) PROVE WebInv'
    <2>1. TypeOK' BY <1>7 DEF CallFails, Goto, Answer, Unlock, Stages
    <2>2. SessionsInv' BY <1>7 DEF CallFails, Goto, SessionsInv
    <2>3. TableInv' BY <1>7 DEF CallFails, TableInv
    <2>4. KnownInv' BY <1>7 DEF CallFails, Goto, KnownInv, Published
    <2>5. LockInv' BY <1>7 DEF CallFails, Goto, Unlock, SessionsInv, LockInv, AtDevice, Published
    <2> QED BY <2>1, <2>2, <2>3, <2>4, <2>5
  <1>8. ASSUME NEW w \in Workers, Release(w) PROVE WebInv'
    <2>1. TypeOK' BY <1>8 DEF Release, Goto, Answer, Unlock, Stages
    <2>2. SessionsInv' BY <1>8 DEF Release, Goto, SessionsInv
    <2>3. TableInv' BY <1>8 DEF Release, TableInv
    <2>4. KnownInv' BY <1>8 DEF Release, Goto, KnownInv, Published
    <2>5. LockInv' BY <1>8 DEF Release, Goto, Unlock, SessionsInv, LockInv, AtDevice, Published
    <2> QED BY <2>1, <2>2, <2>3, <2>4, <2>5
  <1>9. ASSUME NEW w \in Workers, Clear(w) PROVE WebInv'
    <2>1. TypeOK' BY <1>9 DEF Clear, Goto, Answer, Unlock, Stages
    <2>2. SessionsInv' BY <1>9 DEF Clear, Goto, SessionsInv
    <2>3. TableInv' BY <1>9 DEF Clear, TableInv
    <2>4. KnownInv' BY <1>9 DEF Clear, Goto, KnownInv, Published
    <2>5. LockInv' BY <1>9 DEF Clear, Goto, Unlock, SessionsInv, LockInv, AtDevice, Published
    <2> QED BY <2>1, <2>2, <2>3, <2>4, <2>5
  <1>10. ASSUME NEW w \in Workers, Open(w) PROVE WebInv'
    <2> DEFINE f == Min({g \in Fds : table[g] = Free})
    <2>0. session[w] = "none" BY <1>10 DEF Open, SessionsInv
    <2>1. f \in Fds /\ table[f] = Free BY <2>0, FreeDescriptor
    <2>2. /\ pc[w] = "open" /\ pc' = [pc EXCEPT ![w] = "publish"]
          /\ table' = [table EXCEPT ![f] = w] /\ fd' = [fd EXCEPT ![w] = f]
          /\ session' = [session EXCEPT ![w] = "open"]
          /\ UNCHANGED <<step, mu, current, use, found, claimed, stalled, wanted>>
      BY <1>10 DEF Open, Goto
    <2> HIDE DEF f
    <2>3. TypeOK' BY <2>1, <2>2
    <2>4. SessionsInv' BY <2>2 DEF SessionsInv
    <2>5. TableInv' BY <2>0, <2>1, <2>2 DEF TableInv
    <2>6. KnownInv' BY <2>2 DEF KnownInv, Published
    <2>7. LockInv' BY <2>2 DEF LockInv, AtDevice
    <2> QED BY <2>3, <2>4, <2>5, <2>6, <2>7
  <1>11. ASSUME NEW w \in Workers, CallSucceeds(w) PROVE WebInv'
    <2>1. /\ pc[w] = "call" /\ pc' = [pc EXCEPT ![w] = "fetch"]
          /\ UNCHANGED <<mu, current, session, fd, use, found, table, stalled, wanted>>
      BY <1>11 DEF CallSucceeds, Goto
    <2>2. use[w] \in Fds /\ table[use[w]] \in Workers /\ FileOf(use[w]) = table[use[w]]
      BY <1>11 DEF CallSucceeds, FileOf
    <2>3. claimed' \in {claimed, table[use[w]]} BY <1>11, <2>2 DEF CallSucceeds
    <2>4. After(step[w]) \in Stages
      <3>1. step[w] \in {"claim", "handshake", "command"} BY <1>11 DEF CallSucceeds, Stages
      <3> QED BY <3>1 DEF After, Stages
    <2>5. TypeOK' BY <1>11, <2>1, <2>2, <2>3, <2>4 DEF CallSucceeds
    <2>6. SessionsInv' BY <2>1 DEF SessionsInv
    <2>7. TableInv' BY <2>1, <2>2, <2>3 DEF TableInv
    <2>8. KnownInv' BY <2>1 DEF KnownInv, Published
    <2>9. LockInv' BY <2>1 DEF LockInv, AtDevice, Published
    <2> QED BY <2>5, <2>6, <2>7, <2>8, <2>9
  <1>12. ASSUME NEW w \in Workers, CloseOwn(w) PROVE WebInv'
    <2>1. /\ pc[w] = "close" /\ pc' = [pc EXCEPT ![w] = "clear"] /\ Close(w)
          /\ UNCHANGED <<step, mu, current, use, found, stalled, wanted>>
      BY <1>12 DEF CloseOwn, Goto
    <2>2. session[w] # "none" BY <2>1 DEF SessionsInv
    <2>3. TypeOK' BY <2>1, <2>2, CloseFacts
    <2>4. session' = [session EXCEPT ![w] = "closed"] /\ TableInv' BY <2>1, <2>2, CloseFacts
    <2>5. SessionsInv' BY <2>1, <2>4 DEF SessionsInv
    <2>6. KnownInv' BY <2>1, <2>4 DEF KnownInv, Published
    <2>7. LockInv' BY <2>1 DEF LockInv, AtDevice, Published
    <2> QED BY <2>3, <2>4, <2>5, <2>6, <2>7
  <1>13. ASSUME NEW r \in Cancels \cup Statuses, Arrive(r) PROVE WebInv'
    <2>1. /\ pc[r] = "start" /\ pc' = [pc EXCEPT ![r] = "look"]
          /\ UNCHANGED <<step, mu, current, session, fd, use, found, table, claimed, stalled>>
      BY <1>13 DEF Arrive, Goto
    <2>2. wanted' \in [Cancels -> Flashes \cup {Free}]
      <3>1. FlashInProgress # {} => (CHOOSE f \in FlashInProgress : TRUE) \in Flashes
        BY DEF FlashInProgress
      <3> QED BY <1>13, <3>1 DEF Arrive
    <2>3. TypeOK' BY <2>1, <2>2
    <2>4. SessionsInv' BY <2>1 DEF SessionsInv
    <2>5. TableInv' BY <2>1 DEF TableInv
    <2>6. KnownInv' BY <2>1 DEF KnownInv, Published
    <2>7. LockInv' BY <2>1 DEF LockInv, AtDevice, Published
    <2> QED BY <2>3, <2>4, <2>5, <2>6, <2>7
  <1>14. ASSUME NEW r \in Cancels \cup Statuses, Look(r) PROVE WebInv'
    <2>1. /\ pc[r] = "look"
          /\ \/ pc' = [pc EXCEPT ![r] = "done"]
             \/ pc' = [pc EXCEPT ![r] = "close"] /\ current # Free
          /\ found' = [found EXCEPT ![r] = current]
          /\ UNCHANGED <<step, mu, current, session, fd, use, table, claimed, stalled, wanted>>
      BY <1>14 DEF Look, Goto
    <2>2. current # Free => current \in Workers /\ session[current] # "none"
      BY DEF KnownInv, SessionsInv, Published
    <2>3. TypeOK' BY <2>1
    <2>4. SessionsInv' BY <2>1 DEF SessionsInv
    <2>5. TableInv' BY <2>1 DEF TableInv
    <2>6. KnownInv' BY <2>1, <2>2 DEF KnownInv, Published
    <2>7. LockInv' BY <2>1 DEF LockInv, AtDevice, Published
    <2> QED BY <2>3, <2>4, <2>5, <2>6, <2>7
  <1>15. ASSUME NEW c \in Cancels \cup Statuses, CancelClose(c) PROVE WebInv'
    <2> DEFINE s == found[c]
    <2>1. /\ c \in Cancels /\ pc[c] = "close" /\ pc' = [pc EXCEPT ![c] = "tell"] /\ Close(s)
          /\ UNCHANGED <<step, mu, current, use, found, stalled, wanted>>
      BY <1>15 DEF CancelClose, Goto
    <2>2. s \in Workers /\ session[s] # "none" /\ pc[s] \in Published \cup {"done"}
      BY <2>1 DEF KnownInv
    <2> HIDE DEF s
    <2>3. TypeOK' BY <2>1, <2>2, CloseFacts
    <2>4. session' = [session EXCEPT ![s] = "closed"] /\ TableInv' BY <2>1, <2>2, CloseFacts
    <2>5. SessionsInv' BY <2>1, <2>2, <2>4 DEF SessionsInv, Published
    <2>6. KnownInv' BY <2>1, <2>4 DEF KnownInv, Published
    <2>7. LockInv' BY <2>1 DEF LockInv, AtDevice, Published
    <2> QED BY <2>3, <2>4, <2>5, <2>6, <2>7
  <1>16. ASSUME NEW c \in Cancels \cup Statuses, CancelTells(c) PROVE WebInv'
    <2>1. /\ pc[c] = "tell" /\ pc' = [pc EXCEPT ![c] = "done"]
          /\ UNCHANGED <<step, mu, current, session, fd, use, found, table, claimed,
                         stalled, wanted>>
      BY <1>16 DEF CancelTells, Goto
    <2>2. c \in Cancels \cup Statuses /\ c \notin Workers BY <1>16
    <2>3. TypeOK' BY <2>1, <2>2
    <2>4. SessionsInv' BY <2>1, <2>2 DEF SessionsInv
    <2>5. TableInv' BY <2>1 DEF TableInv
    <2>6. KnownInv' BY <2>1, <2>2 DEF KnownInv, Published
    <2>7. LockInv' BY <2>1, <2>2 DEF LockInv, AtDevice, Published
    <2> QED BY <2>3, <2>4, <2>5, <2>6, <2>7
  <1>17. ASSUME Browser PROVE WebInv'
    <2>1. /\ stalled' \in BOOLEAN
          /\ UNCHANGED <<pc, step, mu, current, session, fd, use, found, table, claimed,
                         wanted>>
      BY <1>17 DEF Browser
    <2> QED BY <2>1 DEF SessionsInv, TableInv, KnownInv, LockInv
  <1>18. CASE UNCHANGED vars
    BY <1>18 DEF vars, SessionsInv, TableInv, KnownInv, LockInv
  <1> QED
    BY <1>1, <1>2, <1>3, <1>4, <1>5, <1>6, <1>7, <1>8, <1>9, <1>10, <1>11, <1>12, <1>13,
       <1>14, <1>15, <1>16, <1>17, <1>18
    DEF Next, Step, WorkerStep, QueryStep, Served

-----------------------------------------------------------------------------
(* The results. *)

(* Every variable keeps its type; in particular the kernel always has a    *)
(* descriptor for a worker.                                                *)
THEOREM WebTypeCorrect == Spec => []TypeOK
  <1>1. WebInv => TypeOK BY DEF WebInv
  <1> QED BY <1>1, InitWebInv, StepWebInv, PTL DEF Spec

(* No close hits a descriptor the kernel has given to somebody else, for   *)
(* any number of requests and however a cancel falls between them.         *)
THEOREM DescriptorsStayApart == Spec => []DescriptorsApart
  <1>1. WebInv => DescriptorsApart BY DEF WebInv, TableInv, DescriptorsApart
  <1> QED BY <1>1, InitWebInv, StepWebInv, PTL DEF Spec

(* Two flashes never have the device open together: flashMu keeps them     *)
(* apart (web.go:207-208).  handleRead does not hold it at the device, and *)
(* nothing is claimed of a flash and a read, or of two reads.              *)
THEOREM FlashesExclude == Spec => []OneFlash
  <1>1. ASSUME WebInv, NEW f \in Flashes, session[f] = "open" PROVE mu = f
    <2>1. pc[f] \in AtDevice
      BY <1>1, Disjoint DEF WebInv, TypeOK, SessionsInv, AtDevice, Published
    <2> QED BY <1>1, <2>1 DEF WebInv, LockInv
  <1>2. WebInv => OneFlash BY <1>1 DEF OneFlash
  <1> QED BY <1>2, InitWebInv, StepWebInv, PTL DEF Spec

(* When every request is over nothing is left: no session, lock,           *)
(* descriptor or claim, whatever failed on the way.                        *)
THEOREM NothingStays == Spec => []NothingLeft
  <1>1. ASSUME WebInv, AllDone
        PROVE  /\ current = Free /\ mu = Free /\ claimed = Free
               /\ \A f \in Fds : table[f] = Free
    <2>1. \A w \in Workers : pc[w] = "done" /\ session[w] # "open"
      BY <1>1, Disjoint DEF AllDone, WebInv, SessionsInv
    <2>2. current = Free /\ mu = Free
      BY <1>1, <2>1, Disjoint DEF WebInv, TypeOK, KnownInv, LockInv, Published, AtDevice
    <2>3. claimed = Free /\ \A f \in Fds : table[f] = Free
      BY <1>1, <2>1 DEF WebInv, TypeOK, TableInv
    <2> QED BY <2>2, <2>3
  <1>2. WebInv => NothingLeft BY <1>1 DEF NothingLeft
  <1> QED BY <1>2, InitWebInv, StepWebInv, PTL DEF Spec
=============================================================================
