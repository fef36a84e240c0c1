--------------------------- MODULE SmuxSessionProofs ---------------------------
(***************************************************************************)
(* Proofs about SmuxSession, for any number of calls, of data frames and   *)
(* of faults.                                                              *)
(*                                                                         *)
(* The argument: nothing in the code ties an answer to its command, so the *)
(* proof follows the queues.  Everything is read in order, so when the     *)
(* answer to the UABT of a handshake is in the slot nothing older is left  *)
(* (OrderInv); from there each exchange starts from a quiet channel, goes  *)
(* through the phases below and ends with the answer to it (TunedInv).     *)
(* Warnings are counted where they are: on their way, set, or reported     *)
(* (WarningInv).                                                           *)
(***************************************************************************)
EXTENDS SmuxSession, TLAPS, SequenceTheorems, FiniteSetTheorems

-----------------------------------------------------------------------------
(* The inductive invariant. *)

(* Where the caller can stand in which operation. *)
ShapeInv ==
    /\ op = "cmd" => stage = 1
    /\ pc = "clear" => op # "handshake"
    /\ pc = "chunks" => op = "download" /\ stage = 2 /\ sent < Chunks
    /\ pc = "write" /\ stage = 2 => op = "handshake"
    /\ op = "download" /\ (stage = 1 \/ pc = "clear") => sent = 0
    /\ op = "download" /\ stage = 2 /\ pc \in {"wait", "polled", "read"} => sent = Chunks
    /\ pc # "idle" => call > 0
    /\ pc = "read" => slot # Empty
    /\ dev.doing = "idle" => dev = Idle
    /\ dev.doing # "idle" => dev.for > 0
    /\ dev.doing = "data" => dev.left > 0

(* Every number under way is one of a call up to n. *)
UpTo(n) ==
    /\ \A i \in DOMAIN toDev : toDev[i].of <= n
    /\ \A i \in DOMAIN toHost : toHost[i].to <= n
    /\ slot.to <= n
    /\ dev.for <= n

Waiting == pc \in {"wait", "polled", "read"}

(* The UABT of this handshake is the last thing the device is to read ...  *)
UabtAsked ==
    /\ toDev # << >>
    /\ toDev[Len(toDev)] = [what |-> "UABT", of |-> call]
    /\ \A i \in DOMAIN toDev : i < Len(toDev) => toDev[i].of < call
    /\ \A i \in DOMAIN toHost : toHost[i].to < call
    /\ slot.to < call
    /\ dev.for < call

(* ... its answer the last thing the receive loop is to read ...           *)
UabtUnderWay ==
    /\ toDev = << >> /\ dev = Idle
    /\ toHost # << >>
    /\ toHost[Len(toHost)] = [what |-> "UABT", to |-> call]
    /\ \A i \in DOMAIN toHost : i < Len(toHost) => toHost[i].to < call
    /\ slot.to < call

Quiet == toDev = << >> /\ dev = Idle /\ toHost = << >>

(* ... and when it is in the slot, all that was late has been flushed.     *)
UabtHere == Quiet /\ slot = [what |-> "UABT", to |-> call]

Flushing == UabtAsked \/ UabtUnderWay \/ UabtHere

OrderInv ==
    /\ UpTo(call)
    /\ pc \in {"clear", "write"} /\ stage = 1 => UpTo(call - 1)
    /\ Waiting /\ op = "handshake" /\ stage = 1 => Flushing

(* No late answer is left: since a handshake went through, or since the    *)
(* UABT of the present one was answered.                                   *)
InTune == trusted \/ (op = "handshake" /\ stage = 2 /\ sent = 1 /\ pc # "idle")

Warned(i) == toHost[i].what = "WARN"

Unanswered == slot.what \notin Awaited

(* What ends the present exchange. *)
Final ==
    CASE op = "handshake" /\ stage = 1 -> {"UABT"}
      [] op = "handshake" /\ stage = 2 -> {"HELLO_REPLY"}
      [] op = "download"  /\ stage = 1 -> {"FAIL"}
      [] OTHER                         -> {"OKAY", "FAIL"}

Requested ==
    /\ op = "download" => stage = 1
    /\ toDev = <<[what |-> Request, of |-> call]>> /\ dev = Idle /\ toHost = << >>
    /\ Unanswered

Working ==
    /\ op = "cmd"
    /\ toDev = << >> /\ dev = [doing |-> "busy", for |-> call, left |-> 0]
    /\ \A i \in DOMAIN toHost : Warned(i)
    /\ Unanswered

OnItsWay ==
    /\ toDev = << >> /\ dev = Idle
    /\ toHost # << >>
    /\ \A i \in DOMAIN toHost :
         IF i < Len(toHost) THEN Warned(i) ELSE toHost[i].what \in Final /\ toHost[i].to = call
    /\ Unanswered

Arrived == Quiet /\ slot.what \in Final /\ slot.to = call

(* The device waits for the data of this download. *)
DataAsked ==
    /\ op = "download" /\ stage = 1
    /\ toDev = << >> /\ dev = [doing |-> "data", for |-> call, left |-> Chunks]
    /\ \/ /\ toHost # << >>
          /\ \A i \in DOMAIN toHost :
               IF i = 1 THEN toHost[i] = [what |-> "DATA", to |-> call] ELSE Warned(i)
          /\ Unanswered
       \/ /\ \A i \in DOMAIN toHost : Warned(i)
          /\ slot = [what |-> "DATA", to |-> call]

Streaming ==
    /\ op = "download" /\ stage = 2
    /\ \A i \in DOMAIN toDev : toDev[i] = [what |-> "chunk", of |-> call]
    /\ dev = [doing |-> "data", for |-> call, left |-> Chunks - sent + Len(toDev)]
    /\ \A i \in DOMAIN toHost : Warned(i)

TunedInv ==
    InTune =>
        /\ pc = "idle" => Quiet /\ slot.what # "UABT"
        /\ pc \in {"clear", "write"} /\ ~ (op = "download" /\ stage = 2) => Quiet
        /\ pc = "write" => Unanswered
        /\ pc = "clear" /\ stage = 2 => Streaming /\ toDev = << >>
        /\ pc = "chunks" => Streaming /\ Unanswered
        /\ Waiting => \/ Requested
                      \/ Working
                      \/ OnItsWay
                      \/ Arrived
                      \/ DataAsked
                      \/ Streaming /\ Unanswered
        /\ pc = "read" => ~ Unanswered

SessionInv == TypeOK /\ ShapeInv /\ OrderInv /\ TunedInv /\ TrustedAnswers

-----------------------------------------------------------------------------
(* What is left of a queue, and what it is with one more. *)
LEMMA TailFacts ==
    ASSUME NEW S, NEW q \in Seq(S), q # << >>
    PROVE  /\ Len(q) \in Nat /\ Len(q) > 0 /\ DOMAIN q = 1 .. Len(q)
           /\ Head(q) = q[1] /\ Head(q) \in S
           /\ Tail(q) \in Seq(S) /\ Len(Tail(q)) = Len(q) - 1
           /\ DOMAIN Tail(q) = 1 .. Len(q) - 1
           /\ \A i \in DOMAIN Tail(q) : i + 1 \in DOMAIN q /\ Tail(q)[i] = q[i + 1]
           /\ Len(q) = 1 => Tail(q) = << >>
           /\ Len(q) # 1 => Tail(q) # << >>
  <1>1. Len(q) \in Nat /\ Len(q) > 0 /\ DOMAIN q = 1 .. Len(q) OBVIOUS
  <1>2. Head(q) = q[1] /\ Head(q) \in S OBVIOUS
  <1>3. Tail(q) \in Seq(S) /\ Len(Tail(q)) = Len(q) - 1 OBVIOUS
  <1>4. DOMAIN Tail(q) = 1 .. Len(q) - 1 BY <1>3
  <1>5. \A i \in DOMAIN Tail(q) : i + 1 \in DOMAIN q /\ Tail(q)[i] = q[i + 1] BY <1>1, <1>4
  <1>6. Tail(q) = << >> <=> Len(q) = 1
    <2>1. Len(q) = 1 <=> Len(Tail(q)) = 0 BY <1>1, <1>3
    <2>2. Tail(q) # << >> => Len(Tail(q)) # 0 BY <1>3, EmptySeq
    <2>3. Tail(q) = << >> => Len(Tail(q)) = 0 BY EmptySeq
    <2> QED BY <2>1, <2>2, <2>3
  <1> QED BY <1>1, <1>2, <1>3, <1>4, <1>5, <1>6

LEMMA AppendFacts ==
    ASSUME NEW S, NEW q \in Seq(S), NEW x \in S
    PROVE  /\ Len(q) \in Nat /\ DOMAIN q = 1 .. Len(q)
           /\ Append(q, x) \in Seq(S) /\ Len(Append(q, x)) = Len(q) + 1
           /\ DOMAIN Append(q, x) = 1 .. Len(q) + 1
           /\ \A i \in DOMAIN Append(q, x) : Append(q, x)[i] = IF i <= Len(q) THEN q[i] ELSE x
           /\ Append(q, x) # << >>
           /\ q = << >> => Append(q, x) = <<x>>
           /\ q = << >> <=> Len(q) = 0
  <1>1. Len(q) \in Nat /\ DOMAIN q = 1 .. Len(q) OBVIOUS
  <1>2. Append(q, x) \in Seq(S) /\ Len(Append(q, x)) = Len(q) + 1 OBVIOUS
  <1>3. DOMAIN Append(q, x) = 1 .. Len(q) + 1 BY <1>2
  <1>4. \A i \in DOMAIN Append(q, x) : Append(q, x)[i] = IF i <= Len(q) THEN q[i] ELSE x
    BY <1>1, <1>3
  <1>5. Append(q, x) # << >> BY <1>1, <1>2
  <1>6. q = << >> => Append(q, x) = <<x>> OBVIOUS
  <1>7. q = << >> <=> Len(q) = 0 OBVIOUS
  <1> QED BY <1>1, <1>2, <1>3, <1>4, <1>5, <1>6, <1>7

-----------------------------------------------------------------------------
(* What a call reads in the slot, and what is written and said. *)
LEMMA SlotNumber == BoxTypes => slot.to \in 0 .. MaxCalls /\ slot.what \in Answers \cup {"none"}
  BY SessionAssumption DEF BoxTypes, Empty, Answers

LEMMA SaidIsFrame ==
    ASSUME DevTypes, ShapeInv, NEW what \in Answers \cup {"WARN"}, NEW to \in 1 .. MaxCalls,
           Say(what, to)
    PROVE  toHost' \in Seq(Frame)
  BY AppendFacts DEF DevTypes, Say, Frame

LEMMA NextMessage ==
    ASSUME DevTypes, toDev # << >>
    PROVE  Head(toDev) \in Message /\ Tail(toDev) \in Seq(Message)
  BY TailFacts DEF DevTypes

LEMMA StepTypeOK ==
    ASSUME TypeOK, ShapeInv, [Next]_vars PROVE TypeOK'
  <1>0. HostTypes /\ BoxTypes /\ DevTypes /\ FaultTypes /\ FlagTypes BY DEF TypeOK
  <1> USE SessionAssumption DEF hostVars, boxVars, devVars, faultVars
  <1>1. ASSUME NEW o \in Ops, Start(o) PROVE TypeOK'
    <2>1. HostTypes' /\ BoxTypes' /\ DevTypes' /\ FaultTypes'
      BY <1>0, <1>1 DEF Start, Ops, HostTypes, BoxTypes, DevTypes, FaultTypes, ShapeInv
    <2>2. FlagTypes' BY <1>0, <1>1, Zenon DEF Start, Ops, FlagTypes
    <2> QED BY <2>1, <2>2 DEF TypeOK
  <1>2. ASSUME ClearSlot PROVE TypeOK'
    <2>1. HostTypes' /\ BoxTypes' /\ DevTypes' /\ FaultTypes'
      BY <1>0, <1>2 DEF ClearSlot, HostTypes, BoxTypes, DevTypes, FaultTypes, Empty
    <2>2. FlagTypes' BY <1>0, <1>2, Zenon DEF ClearSlot, FlagTypes
    <2> QED BY <2>1, <2>2 DEF TypeOK
  <1>3. ASSUME WriteRequest PROVE TypeOK'
    <2>1. HostTypes' /\ BoxTypes' /\ FaultTypes'
      BY <1>0, <1>3 DEF WriteRequest, Request, HostTypes, BoxTypes, FaultTypes
    <2>2. DevTypes'
      <3>1. [what |-> Request, of |-> call] \in Message
        BY <1>0, <1>3 DEF WriteRequest, HostTypes, ShapeInv, Request, Ops, Message
      <3> QED BY <1>0, <1>3, <3>1, AppendFacts DEF WriteRequest, DevTypes
    <2>3. FlagTypes' BY <1>0, <1>3, Zenon DEF WriteRequest, Request, FlagTypes
    <2> QED BY <2>1, <2>2, <2>3 DEF TypeOK
  <1>4. ASSUME WriteChunk PROVE TypeOK'
    <2>1. HostTypes' /\ BoxTypes' /\ FaultTypes'
      BY <1>0, <1>4 DEF WriteChunk, HostTypes, BoxTypes, FaultTypes, Ops, ShapeInv
    <2>2. DevTypes'
      <3>1. [what |-> "chunk", of |-> call] \in Message
        BY <1>0, <1>4 DEF WriteChunk, HostTypes, ShapeInv, Message
      <3> QED BY <1>0, <1>4, <3>1, AppendFacts DEF WriteChunk, DevTypes
    <2>3. FlagTypes' BY <1>0, <1>4, Zenon DEF WriteChunk, FlagTypes
    <2> QED BY <2>1, <2>2, <2>3 DEF TypeOK
  <1>5. ASSUME WriteFails PROVE TypeOK'
    <2>1. HostTypes' /\ BoxTypes' /\ DevTypes' /\ FaultTypes'
      BY <1>0, <1>5 DEF WriteFails, Return, HostTypes, BoxTypes, DevTypes, FaultTypes
    <2>2. FlagTypes' BY <1>0, <1>5, Zenon DEF WriteFails, Return, FlagTypes
    <2> QED BY <2>1, <2>2 DEF TypeOK
  <1>6. ASSUME PollAnswered PROVE TypeOK'
    <2>1. HostTypes' /\ BoxTypes' /\ DevTypes' /\ FaultTypes'
      BY <1>0, <1>6 DEF PollAnswered, HostTypes, BoxTypes, DevTypes, FaultTypes
    <2>2. FlagTypes' BY <1>0, <1>6, Zenon DEF PollAnswered, FlagTypes
    <2> QED BY <2>1, <2>2 DEF TypeOK
  <1>7. ASSUME PollAborted PROVE TypeOK'
    <2>1. HostTypes' /\ BoxTypes' /\ DevTypes' /\ FaultTypes'
      BY <1>0, <1>7 DEF PollAborted, Return, HostTypes, BoxTypes, DevTypes, FaultTypes
    <2>2. FlagTypes' BY <1>0, <1>7, Zenon DEF PollAborted, Return, FlagTypes
    <2> QED BY <2>1, <2>2 DEF TypeOK
  <1>8. ASSUME PollNothing PROVE TypeOK'
    <2>1. HostTypes' /\ BoxTypes' /\ DevTypes' /\ FaultTypes'
      BY <1>0, <1>8 DEF PollNothing, HostTypes, BoxTypes, DevTypes, FaultTypes
    <2>2. FlagTypes' BY <1>0, <1>8, Zenon DEF PollNothing, FlagTypes
    <2> QED BY <2>1, <2>2 DEF TypeOK
  <1>9. ASSUME SeeDone PROVE TypeOK'
    <2>1. HostTypes' /\ BoxTypes' /\ DevTypes' /\ FaultTypes'
      BY <1>0, <1>9 DEF SeeDone, Return, HostTypes, BoxTypes, DevTypes, FaultTypes
    <2>2. FlagTypes' BY <1>0, <1>9, Zenon DEF SeeDone, Return, FlagTypes
    <2> QED BY <2>1, <2>2 DEF TypeOK
  <1>10. ASSUME Sleep PROVE TypeOK'
    <2>1. HostTypes' /\ BoxTypes' /\ DevTypes' /\ FaultTypes'
      BY <1>0, <1>10 DEF Sleep, HostTypes, BoxTypes, DevTypes, FaultTypes
    <2>2. FlagTypes' BY <1>0, <1>10, Zenon DEF Sleep, FlagTypes
    <2> QED BY <2>1, <2>2 DEF TypeOK
  <1>11. ASSUME ReadCmd PROVE TypeOK'
    <2>1. HostTypes' /\ BoxTypes' /\ DevTypes' /\ FaultTypes'
      BY <1>0, <1>11, SlotNumber DEF ReadCmd, Return, HostTypes, BoxTypes, DevTypes, FaultTypes
    <2>2. FlagTypes' BY <1>0, <1>11, Zenon DEF ReadCmd, Return, FlagTypes
    <2> QED BY <2>1, <2>2 DEF TypeOK
  <1>12. ASSUME ReadDownload PROVE TypeOK'
    <2>1. HostTypes' /\ BoxTypes' /\ DevTypes' /\ FaultTypes'
      BY SMTT(40), <1>0, <1>12, SlotNumber DEF ReadDownload, Return, HostTypes, BoxTypes, DevTypes,
         FaultTypes
    <2>2. FlagTypes' BY <1>0, <1>12, Zenon DEF ReadDownload, Return, FlagTypes
    <2> QED BY <2>1, <2>2 DEF TypeOK
  <1>13. ASSUME ReadHandshake PROVE TypeOK'
    <2>1. HostTypes' /\ BoxTypes' /\ DevTypes' /\ FaultTypes'
      BY SMTT(40), <1>0, <1>13, SlotNumber DEF ReadHandshake, Return, HostTypes, BoxTypes, DevTypes,
         FaultTypes, ShapeInv
    <2>2. FlagTypes' BY <1>0, <1>13, Zenon DEF ReadHandshake, Return, FlagTypes
    <2> QED BY <2>1, <2>2 DEF TypeOK
  <1>14. ASSUME Deadline PROVE TypeOK'
    <2>1. HostTypes' /\ BoxTypes' /\ DevTypes' /\ FaultTypes'
      BY <1>0, <1>14 DEF Deadline, Return, HostTypes, BoxTypes, DevTypes, FaultTypes
    <2>2. FlagTypes' BY <1>0, <1>14, Zenon DEF Deadline, Return, FlagTypes
    <2> QED BY <2>1, <2>2 DEF TypeOK
  <1>15. ASSUME Close PROVE TypeOK'
    <2>1. HostTypes' /\ BoxTypes' /\ DevTypes' /\ FaultTypes'
      BY <1>0, <1>15 DEF Close, HostTypes, BoxTypes, DevTypes, FaultTypes
    <2>2. FlagTypes' BY <1>0, <1>15, Zenon DEF Close, FlagTypes
    <2> QED BY <2>1, <2>2 DEF TypeOK
  <1>16. ASSUME RxFrame PROVE TypeOK'
    <2>1. HostTypes' /\ DevTypes' /\ FaultTypes'
      BY <1>0, <1>16 DEF RxFrame, HostTypes, DevTypes, FaultTypes
    <2>2. BoxTypes'
      <3>1. Head(toHost) \in Frame BY <1>0, <1>16, TailFacts DEF RxFrame, DevTypes
      <3> QED BY <1>0, <1>16, <3>1 DEF RxFrame, BoxTypes, Frame
    <2>3. FlagTypes' BY <1>0, <1>16, Zenon DEF RxFrame, FlagTypes
    <2> QED BY <2>1, <2>2, <2>3 DEF TypeOK
  <1>17. ASSUME RxStop PROVE TypeOK'
    <2>1. HostTypes' /\ BoxTypes' /\ DevTypes' /\ FaultTypes'
      BY <1>0, <1>17 DEF RxStop, HostTypes, BoxTypes, DevTypes, FaultTypes
    <2>2. FlagTypes' BY <1>0, <1>17, Zenon DEF RxStop, FlagTypes
    <2> QED BY <2>1, <2>2 DEF TypeOK
  <1>18. ASSUME DevTakesCmd PROVE TypeOK'
    <2>1. HostTypes' /\ BoxTypes' /\ FaultTypes'
      BY <1>0, <1>18 DEF DevTakesCmd, HostTypes, BoxTypes, FaultTypes
    <2>2. DevTypes'
      <3>1. toDev' \in Seq(Message) /\ Head(toDev).of \in 1 .. MaxCalls
        BY <1>0, <1>18, NextMessage DEF DevTakesCmd, Message
      <3> QED BY <1>0, <1>18, <3>1 DEF DevTakesCmd, DevTypes
    <2>3. FlagTypes' BY <1>0, <1>18, Zenon DEF DevTakesCmd, FlagTypes
    <2> QED BY <2>1, <2>2, <2>3 DEF TypeOK
  <1>19. ASSUME DevAnswersCmd PROVE TypeOK'
    <2>1. HostTypes' /\ BoxTypes' /\ FaultTypes'
      BY <1>0, <1>19 DEF DevAnswersCmd, Say, HostTypes, BoxTypes, FaultTypes
    <2>2. DevTypes'
      <3>1. dev.for \in 1 .. MaxCalls BY <1>0, <1>19 DEF DevAnswersCmd, DevTypes, ShapeInv
      <3>2. toHost' \in Seq(Frame) BY <1>0, <1>19, <3>1, SaidIsFrame DEF DevAnswersCmd, Answers
      <3> QED BY <1>0, <1>19, <3>2 DEF DevAnswersCmd, DevTypes, Idle
    <2>3. FlagTypes' BY <1>0, <1>19, Zenon DEF DevAnswersCmd, Say, FlagTypes
    <2> QED BY <2>1, <2>2, <2>3 DEF TypeOK
  <1>20. ASSUME DevTakesDownload PROVE TypeOK'
    <2>1. HostTypes' /\ BoxTypes' /\ FaultTypes'
      BY <1>0, <1>20 DEF DevTakesDownload, Say, HostTypes, BoxTypes, FaultTypes
    <2>2. DevTypes'
      <3>1. toDev' \in Seq(Message) /\ Head(toDev).of \in 1 .. MaxCalls
        BY <1>0, <1>20, NextMessage DEF DevTakesDownload, Message
      <3>2. toHost' \in Seq(Frame)
        BY <1>0, <1>20, <3>1, SaidIsFrame DEF DevTakesDownload, Answers
      <3> QED BY SMTT(40), <1>0, <1>20, <3>1, <3>2 DEF DevTakesDownload, DevTypes, Idle
    <2>3. FlagTypes' BY <1>0, <1>20, Zenon DEF DevTakesDownload, Say, FlagTypes
    <2> QED BY <2>1, <2>2, <2>3 DEF TypeOK
  <1>21. ASSUME DevTakesChunk PROVE TypeOK'
    <2>1. HostTypes' /\ BoxTypes' /\ FaultTypes'
      BY <1>0, <1>21 DEF DevTakesChunk, Say, HostTypes, BoxTypes, FaultTypes, Ops, ShapeInv
    <2>2. DevTypes'
      <3>1. toDev' \in Seq(Message) BY <1>0, <1>21, NextMessage DEF DevTakesChunk
      <3>2. dev.for \in 1 .. MaxCalls BY <1>0, <1>21 DEF DevTakesChunk, DevTypes, ShapeInv
      <3>3. toHost' \in Seq(Frame)
        <4>1. CASE UNCHANGED toHost BY <1>0, <4>1 DEF DevTypes
        <4>2. ASSUME NEW what \in {"OKAY", "FAIL"}, Say(what, dev.for) PROVE toHost' \in Seq(Frame)
          BY <1>0, <3>2, <4>2, SaidIsFrame DEF Answers
        <4> QED BY <1>21, <4>1, <4>2 DEF DevTakesChunk
      <3>4. dev' \in [doing : {"idle", "busy", "data"}, for : 0 .. MaxCalls, left : 0 .. Chunks]
        BY SMTT(40), <1>0, <1>21 DEF DevTakesChunk, DevTypes, Idle
      <3> QED BY <3>1, <3>3, <3>4 DEF DevTypes
    <2>3. FlagTypes' BY <1>0, <1>21, Zenon DEF DevTakesChunk, Say, FlagTypes
    <2> QED BY <2>1, <2>2, <2>3 DEF TypeOK
  <1>22. ASSUME DevTakesHello PROVE TypeOK'
    <2>1. HostTypes' /\ BoxTypes' /\ FaultTypes'
      BY <1>0, <1>22 DEF DevTakesHello, Say, HostTypes, BoxTypes, FaultTypes
    <2>2. DevTypes'
      <3>1. toDev' \in Seq(Message) /\ Head(toDev).of \in 1 .. MaxCalls
        BY <1>0, <1>22, NextMessage DEF DevTakesHello, Message
      <3>2. toHost' \in Seq(Frame)
        BY <1>0, <1>22, <3>1, SaidIsFrame DEF DevTakesHello, Answers
      <3> QED BY <1>0, <1>22, <3>1, <3>2 DEF DevTakesHello, DevTypes, Idle
    <2>3. FlagTypes' BY <1>0, <1>22, Zenon DEF DevTakesHello, Say, FlagTypes
    <2> QED BY <2>1, <2>2, <2>3 DEF TypeOK
  <1>23. ASSUME DevIgnores PROVE TypeOK'
    <2>1. HostTypes' /\ BoxTypes' /\ DevTypes' /\ FaultTypes'
      BY <1>0, <1>23, NextMessage DEF DevIgnores, HostTypes, BoxTypes, DevTypes, FaultTypes
    <2>2. FlagTypes' BY <1>0, <1>23, Zenon DEF DevIgnores, FlagTypes
    <2> QED BY <2>1, <2>2 DEF TypeOK
  <1>24. ASSUME DevWarns PROVE TypeOK'
    <2>1. HostTypes' /\ BoxTypes' /\ FaultTypes'
      BY <1>0, <1>24 DEF DevWarns, Say, HostTypes, BoxTypes, FaultTypes
    <2>2. DevTypes'
      <3>1. dev.for \in 1 .. MaxCalls BY <1>0, <1>24 DEF DevWarns, DevTypes, ShapeInv
      <3>2. toHost' \in Seq(Frame) BY <1>0, <1>24, <3>1, SaidIsFrame DEF DevWarns
      <3> QED BY <1>0, <1>24, <3>2 DEF DevWarns, DevTypes
    <2>3. FlagTypes' BY <1>0, <1>24, Zenon DEF DevWarns, Say, FlagTypes
    <2> QED BY <2>1, <2>2, <2>3 DEF TypeOK
  <1>25. CASE SessionOver \/ UNCHANGED vars
    BY ZenonT(60), <1>25 DEF SessionOver, vars, TypeOK, HostTypes, BoxTypes, DevTypes, FaultTypes, FlagTypes
  <1> QED
    BY <1>1, <1>2, <1>3, <1>4, <1>5, <1>6, <1>7, <1>8, <1>9, <1>10, <1>11, <1>12, <1>13, <1>14,
       <1>15, <1>16, <1>17, <1>18, <1>19, <1>20, <1>21, <1>22, <1>23, <1>24, <1>25
    DEF Next, CallerStep, DeviceStep

LEMMA StepShapeInv ==
    ASSUME TypeOK, ShapeInv, [Next]_vars PROVE ShapeInv'
  <1>0. HostTypes /\ BoxTypes /\ DevTypes BY DEF TypeOK
  <1> USE SessionAssumption
  <1>1. ASSUME NEW o \in Ops, Start(o) PROVE ShapeInv'
    BY <1>0, <1>1 DEF Start, Ops, ShapeInv, HostTypes, DevTypes, Empty, Idle, hostVars,
       boxVars, devVars, faultVars
  <1>2. ASSUME ClearSlot PROVE ShapeInv'
    BY <1>0, <1>2 DEF ClearSlot, ShapeInv, HostTypes, DevTypes, Empty, Idle, hostVars, boxVars,
       devVars, faultVars, Ops
  <1>3. ASSUME WriteRequest PROVE ShapeInv'
    BY <1>0, <1>3 DEF WriteRequest, Request, ShapeInv, HostTypes, DevTypes, Empty, Idle,
       hostVars, boxVars, devVars, faultVars
  <1>4. ASSUME WriteChunk PROVE ShapeInv'
    BY <1>0, <1>4 DEF WriteChunk, ShapeInv, HostTypes, DevTypes, Empty, Idle, hostVars,
       boxVars, devVars, faultVars
  <1>5. ASSUME WriteFails PROVE ShapeInv'
    BY <1>0, <1>5 DEF WriteFails, Return, ShapeInv, HostTypes, DevTypes, Empty, Idle, hostVars,
       boxVars, devVars, faultVars
  <1>6. ASSUME PollAnswered PROVE ShapeInv'
    <2>1. slot # Empty BY <1>6 DEF PollAnswered, Awaited, Empty
    <2>2. UNCHANGED <<op, call, stage, sent, slot, dev>> /\ pc = "wait" /\ pc' = "read"
      BY <1>6 DEF PollAnswered, boxVars, devVars
    <2> QED BY <2>1, <2>2 DEF ShapeInv
  <1>7. ASSUME PollAborted PROVE ShapeInv'
    BY <1>0, <1>7 DEF PollAborted, Return, ShapeInv, HostTypes, DevTypes, Empty, Idle,
       hostVars, boxVars, devVars, faultVars
  <1>8. ASSUME PollNothing PROVE ShapeInv'
    BY <1>0, <1>8 DEF PollNothing, ShapeInv, HostTypes, DevTypes, Empty, Idle, hostVars,
       boxVars, devVars, faultVars
  <1>9. ASSUME SeeDone PROVE ShapeInv'
    BY <1>0, <1>9 DEF SeeDone, Return, ShapeInv, HostTypes, DevTypes, Empty, Idle, hostVars,
       boxVars, devVars, faultVars
  <1>10. ASSUME Sleep PROVE ShapeInv'
    BY <1>0, <1>10 DEF Sleep, ShapeInv, HostTypes, DevTypes, Empty, Idle, hostVars, boxVars,
       devVars, faultVars
  <1>11. ASSUME ReadCmd PROVE ShapeInv'
    BY <1>0, <1>11 DEF ReadCmd, Return, ShapeInv, HostTypes, DevTypes, Empty, Idle, hostVars,
       boxVars, devVars, faultVars
  <1>12. ASSUME ReadDownload PROVE ShapeInv'
    BY <1>0, <1>12 DEF ReadDownload, Return, ShapeInv, HostTypes, DevTypes, Empty, Idle,
       hostVars, boxVars, devVars, faultVars
  <1>13. ASSUME ReadHandshake PROVE ShapeInv'
    BY <1>0, <1>13 DEF ReadHandshake, Return, ShapeInv, HostTypes, DevTypes, Empty, Idle,
       hostVars, boxVars, devVars, faultVars
  <1>14. ASSUME Deadline PROVE ShapeInv'
    BY <1>0, <1>14 DEF Deadline, Return, ShapeInv, HostTypes, DevTypes, Empty, Idle, hostVars,
       boxVars, devVars, faultVars
  <1>15. ASSUME Close PROVE ShapeInv'
    BY <1>0, <1>15 DEF Close, ShapeInv, HostTypes, DevTypes, Empty, Idle, hostVars, boxVars,
       devVars, faultVars
  <1>16. ASSUME RxFrame PROVE ShapeInv'
    BY <1>0, <1>16, TailFacts DEF RxFrame, ShapeInv, HostTypes, DevTypes, Empty, Idle,
       hostVars, boxVars, devVars, faultVars, Frame, Answers
  <1>17. ASSUME RxStop PROVE ShapeInv'
    BY <1>0, <1>17 DEF RxStop, ShapeInv, HostTypes, DevTypes, Empty, Idle, hostVars, boxVars,
       devVars, faultVars
  <1>18. ASSUME DevTakesCmd PROVE ShapeInv'
    BY <1>0, <1>18, NextMessage DEF DevTakesCmd, ShapeInv, HostTypes, DevTypes, Empty, Idle,
       hostVars, boxVars, devVars, faultVars, Message
  <1>19. ASSUME DevAnswersCmd PROVE ShapeInv'
    BY <1>0, <1>19 DEF DevAnswersCmd, Say, ShapeInv, HostTypes, DevTypes, Empty, Idle,
       hostVars, boxVars, devVars, faultVars
  <1>20. ASSUME DevTakesDownload PROVE ShapeInv'
    BY SMTT(40), <1>0, <1>20, NextMessage DEF DevTakesDownload, Say, ShapeInv, HostTypes, DevTypes,
       Empty, Idle, hostVars, boxVars, devVars, faultVars, Message
  <1>21. ASSUME DevTakesChunk PROVE ShapeInv'
    <2>2. CASE dev.left > 1
      <3>1. dev'.doing = "data" /\ dev'.for = dev.for /\ dev'.left = dev.left - 1
        BY <1>0, <2>2, <1>21 DEF DevTakesChunk, DevTypes
      <3> QED
        BY <1>0, <2>2, <3>1, <1>21 DEF DevTakesChunk, DevTypes, ShapeInv, hostVars, boxVars
    <2>3. CASE ~ (dev.left > 1)
      BY <1>0, <2>3, <1>21 DEF DevTakesChunk, ShapeInv, hostVars, boxVars, Idle
    <2> QED BY <2>2, <2>3
  <1>22. ASSUME DevTakesHello PROVE ShapeInv'
    BY <1>0, <1>22 DEF DevTakesHello, Say, ShapeInv, HostTypes, DevTypes, Empty, Idle,
       hostVars, boxVars, devVars, faultVars
  <1>23. ASSUME DevIgnores PROVE ShapeInv'
    BY <1>0, <1>23 DEF DevIgnores, ShapeInv, HostTypes, DevTypes, Empty, Idle, hostVars,
       boxVars, devVars, faultVars
  <1>24. ASSUME DevWarns PROVE ShapeInv'
    BY <1>0, <1>24 DEF DevWarns, Say, ShapeInv, HostTypes, DevTypes, Empty, Idle, hostVars,
       boxVars, devVars, faultVars
  <1>25. CASE UNCHANGED vars
    BY <1>25 DEF vars, ShapeInv, HostTypes, DevTypes, Empty, Idle, hostVars, boxVars, devVars,
       faultVars
  <1> QED
    BY <1>1, <1>2, <1>3, <1>4, <1>5, <1>6, <1>7, <1>8, <1>9, <1>10, <1>11, <1>12, <1>13, <1>14,
       <1>15, <1>16, <1>17, <1>18, <1>19, <1>20, <1>21, <1>22, <1>23, <1>24, <1>25
    DEF Next, CallerStep, DeviceStep, SessionOver

(* In tune, what a call reads in the slot ends its exchange, and nothing    *)
(* else is under way; or it is the DATA the device has just said.          *)
LEMMA ReadInTune ==
    ASSUME TunedInv, InTune, pc = "read"
    PROVE  /\ slot.to = call
           /\ Arrived \/ (DataAsked /\ slot.what = "DATA")
  <1>1. ~ Unanswered BY DEF TunedInv
  <1>2. Arrived \/ DataAsked BY <1>1 DEF TunedInv, Waiting, Requested, Working, OnItsWay
  <1> QED BY <1>1, <1>2 DEF Arrived, DataAsked

LEMMA StepTrustedAnswers ==
    ASSUME TypeOK, TunedInv, TrustedAnswers, [Next]_vars PROVE TrustedAnswers'
  <1>0. HostTypes /\ BoxTypes /\ DevTypes BY DEF TypeOK
  <1> USE SessionAssumption
  <1>1. ASSUME NEW o \in Ops, Start(o) PROVE TrustedAnswers'
    BY <1>0, <1>1 DEF Start, Ops, TrustedAnswers, HostTypes, hostVars, boxVars, devVars,
       faultVars
  <1>2. ASSUME ClearSlot PROVE TrustedAnswers'
    BY <1>0, <1>2 DEF ClearSlot, TrustedAnswers, HostTypes, hostVars, boxVars, devVars,
       faultVars
  <1>3. ASSUME WriteRequest PROVE TrustedAnswers'
    BY <1>0, <1>3 DEF WriteRequest, Request, TrustedAnswers, HostTypes, hostVars, boxVars,
       devVars, faultVars
  <1>4. ASSUME WriteChunk PROVE TrustedAnswers'
    BY <1>0, <1>4 DEF WriteChunk, TrustedAnswers, HostTypes, hostVars, boxVars, devVars,
       faultVars
  <1>5. ASSUME WriteFails PROVE TrustedAnswers'
    BY <1>0, <1>5 DEF WriteFails, Return, TrustedAnswers, HostTypes, hostVars, boxVars,
       devVars, faultVars
  <1>6. ASSUME PollAnswered PROVE TrustedAnswers'
    BY <1>0, <1>6 DEF PollAnswered, TrustedAnswers, HostTypes, hostVars, boxVars, devVars,
       faultVars
  <1>7. ASSUME PollAborted PROVE TrustedAnswers'
    BY <1>0, <1>7 DEF PollAborted, Return, TrustedAnswers, HostTypes, hostVars, boxVars,
       devVars, faultVars
  <1>8. ASSUME PollNothing PROVE TrustedAnswers'
    BY <1>0, <1>8 DEF PollNothing, TrustedAnswers, HostTypes, hostVars, boxVars, devVars,
       faultVars
  <1>9. ASSUME SeeDone PROVE TrustedAnswers'
    BY <1>0, <1>9 DEF SeeDone, Return, TrustedAnswers, HostTypes, hostVars, boxVars, devVars,
       faultVars
  <1>10. ASSUME Sleep PROVE TrustedAnswers'
    BY <1>0, <1>10 DEF Sleep, TrustedAnswers, HostTypes, hostVars, boxVars, devVars, faultVars
  <1>11. ASSUME ReadCmd PROVE TrustedAnswers'
    BY <1>0, <1>11, ReadInTune DEF ReadCmd, Return, TrustedAnswers, HostTypes, hostVars,
       boxVars, devVars, faultVars, InTune
  <1>12. ASSUME ReadDownload PROVE TrustedAnswers'
    BY <1>0, <1>12, ReadInTune DEF ReadDownload, Return, TrustedAnswers, HostTypes, hostVars,
       boxVars, devVars, faultVars, InTune
  <1>13. ASSUME ReadHandshake PROVE TrustedAnswers'
    <2>0. 1 # 2 OBVIOUS
    <2>1. CASE stage = 1
      <3>1. UNCHANGED <<outcome, trusted>> BY <2>0, <2>1, <1>13, Zenon DEF ReadHandshake
      <3> QED BY <3>1 DEF TrustedAnswers
    <2>2. CASE stage = 2
      <3>1. /\ trusted' <=> (trusted \/ (sent = 1 /\ slot.to = call))
            /\ outcome' = [of |-> call, ok |-> TRUE, answerTo |-> slot.to]
        BY <2>0, <2>2, <1>13, Zenon DEF ReadHandshake, Return
      <3>2. trusted' => InTune BY <2>2, <3>1, <1>13 DEF ReadHandshake, InTune
      <3>3. trusted' => slot.to = call BY <3>2, <1>13, ReadInTune DEF ReadHandshake
      <3> QED BY <3>1, <3>3 DEF TrustedAnswers
    <2> QED BY <1>0, <2>1, <2>2 DEF HostTypes
  <1>14. ASSUME Deadline PROVE TrustedAnswers'
    BY <1>0, <1>14 DEF Deadline, Return, TrustedAnswers, HostTypes, hostVars, boxVars, devVars,
       faultVars
  <1>15. ASSUME Close PROVE TrustedAnswers'
    BY <1>0, <1>15 DEF Close, TrustedAnswers, HostTypes, hostVars, boxVars, devVars, faultVars
  <1>16. ASSUME RxFrame PROVE TrustedAnswers'
    BY <1>0, <1>16 DEF RxFrame, TrustedAnswers, HostTypes, hostVars, boxVars, devVars, faultVars
  <1>17. ASSUME RxStop PROVE TrustedAnswers'
    BY <1>0, <1>17 DEF RxStop, TrustedAnswers, HostTypes, hostVars, boxVars, devVars, faultVars
  <1>18. ASSUME DevTakesCmd PROVE TrustedAnswers'
    BY <1>0, <1>18 DEF DevTakesCmd, TrustedAnswers, HostTypes, hostVars, boxVars, devVars,
       faultVars
  <1>19. ASSUME DevAnswersCmd PROVE TrustedAnswers'
    BY <1>0, <1>19 DEF DevAnswersCmd, Say, TrustedAnswers, HostTypes, hostVars, boxVars,
       devVars, faultVars
  <1>20. ASSUME DevTakesDownload PROVE TrustedAnswers'
    BY <1>0, <1>20 DEF DevTakesDownload, Say, TrustedAnswers, HostTypes, hostVars, boxVars,
       devVars, faultVars
  <1>21. ASSUME DevTakesChunk PROVE TrustedAnswers'
    BY <1>0, <1>21 DEF DevTakesChunk, Say, TrustedAnswers, HostTypes, hostVars, boxVars,
       devVars, faultVars
  <1>22. ASSUME DevTakesHello PROVE TrustedAnswers'
    BY <1>0, <1>22 DEF DevTakesHello, Say, TrustedAnswers, HostTypes, hostVars, boxVars,
       devVars, faultVars
  <1>23. ASSUME DevIgnores PROVE TrustedAnswers'
    BY <1>0, <1>23 DEF DevIgnores, TrustedAnswers, HostTypes, hostVars, boxVars, devVars,
       faultVars
  <1>24. ASSUME DevWarns PROVE TrustedAnswers'
    BY <1>0, <1>24 DEF DevWarns, Say, TrustedAnswers, HostTypes, hostVars, boxVars, devVars,
       faultVars
  <1>25. CASE UNCHANGED vars
    BY <1>25 DEF vars, TrustedAnswers, HostTypes, hostVars, boxVars, devVars, faultVars
  <1> QED
    BY <1>1, <1>2, <1>3, <1>4, <1>5, <1>6, <1>7, <1>8, <1>9, <1>10, <1>11, <1>12, <1>13, <1>14,
       <1>15, <1>16, <1>17, <1>18, <1>19, <1>20, <1>21, <1>22, <1>23, <1>24, <1>25
    DEF Next, CallerStep, DeviceStep, SessionOver

LEMMA NextUpTo ==
    ASSUME DevTypes, NEW n \in Nat, UpTo(n), toDev # << >>
    PROVE  /\ Head(toDev).of \in 0 .. n
           /\ \A i \in DOMAIN Tail(toDev) : Tail(toDev)[i].of <= n
  <1>1. toDev \in Seq(Message) BY DEF DevTypes
  <1>2. Head(toDev) \in Message /\ Head(toDev) = toDev[1] /\ 1 \in DOMAIN toDev
    BY <1>1, TailFacts
  <1>3. Head(toDev).of \in Nat BY <1>2, SessionAssumption DEF Message
  <1>4. Head(toDev).of <= n BY <1>2 DEF UpTo
  <1>5. \A i \in DOMAIN Tail(toDev) : Tail(toDev)[i].of <= n BY <1>1, TailFacts DEF UpTo
  <1> QED BY <1>3, <1>4, <1>5

LEMMA SaidUpTo ==
    ASSUME DevTypes, NEW n \in Nat, \A i \in DOMAIN toHost : toHost[i].to <= n,
           NEW what \in Answers \cup {"WARN"}, NEW to \in 0 .. n, Say(what, to)
    PROVE  \A i \in DOMAIN toHost' : toHost'[i].to <= n
  BY AppendFacts DEF DevTypes, Say, Frame

(* Nothing the device or the receive loop does brings up a new number.     *)
LEMMA StepUpTo ==
    ASSUME TypeOK, ShapeInv, NEW n \in Nat, UpTo(n), DeviceStep \/ DevWarns \/ RxFrame
    PROVE  UpTo(n)'
  <1>0. BoxTypes /\ DevTypes BY DEF TypeOK
  <1>1. CASE RxFrame
    <2>1. \A i \in DOMAIN toDev' : toDev'[i].of <= n
      BY <1>1 DEF RxFrame, UpTo, boxVars
    <2>2. Head(toHost).to <= n /\ \A i \in DOMAIN toHost' : toHost'[i].to <= n
      BY <1>0, <1>1, TailFacts DEF RxFrame, UpTo, DevTypes
    <2>3. slot'.to <= n /\ dev'.for <= n
      BY <1>0, <1>1, <2>1, <2>2 DEF RxFrame, UpTo, Idle, boxVars, DevTypes
    <2> QED BY <2>1, <2>2, <2>3 DEF UpTo
  <1>2. CASE DevTakesCmd
    <2>9. dev.for \in 0 .. n BY <1>0 DEF UpTo, DevTypes
    <2>1. Head(toDev).of \in 0 .. n /\ \A i \in DOMAIN toDev' : toDev'[i].of <= n
      BY <1>0, <1>2, NextUpTo DEF DevTakesCmd
    <2>2. \A i \in DOMAIN toHost' : toHost'[i].to <= n
      BY <1>0, <1>2, <2>1, <2>9, SaidUpTo DEF DevTakesCmd, UpTo, DevTypes, Answers
    <2>3. slot'.to <= n /\ dev'.for <= n
      BY <1>0, <1>2, <2>1, <2>2 DEF DevTakesCmd, UpTo, Idle, boxVars, DevTypes
    <2> QED BY <2>1, <2>2, <2>3 DEF UpTo
  <1>3. CASE DevAnswersCmd
    <2>9. dev.for \in 0 .. n BY <1>0 DEF UpTo, DevTypes
    <2>1. \A i \in DOMAIN toDev' : toDev'[i].of <= n
      BY <1>3 DEF DevAnswersCmd, UpTo, boxVars
    <2>2. \A i \in DOMAIN toHost' : toHost'[i].to <= n
      BY <1>0, <1>3, <2>1, <2>9, SaidUpTo DEF DevAnswersCmd, UpTo, DevTypes, Answers
    <2>3. slot'.to <= n /\ dev'.for <= n
      BY <1>0, <1>3, <2>1, <2>2 DEF DevAnswersCmd, UpTo, Idle, boxVars, DevTypes
    <2> QED BY <2>1, <2>2, <2>3 DEF UpTo
  <1>4. CASE DevTakesDownload
    <2>9. dev.for \in 0 .. n BY <1>0 DEF UpTo, DevTypes
    <2>1. Head(toDev).of \in 0 .. n /\ \A i \in DOMAIN toDev' : toDev'[i].of <= n
      BY <1>0, <1>4, NextUpTo DEF DevTakesDownload
    <2>2. \A i \in DOMAIN toHost' : toHost'[i].to <= n
      BY <1>0, <1>4, <2>1, <2>9, SaidUpTo DEF DevTakesDownload, UpTo, DevTypes, Answers
    <2>3. slot'.to <= n /\ dev'.for <= n
      BY <1>0, <1>4, <2>1, <2>2 DEF DevTakesDownload, UpTo, Idle, boxVars, DevTypes
    <2> QED BY <2>1, <2>2, <2>3 DEF UpTo
  <1>5. CASE DevTakesChunk
    <2>9. dev.for \in 0 .. n BY <1>0 DEF UpTo, DevTypes
    <2>1. Head(toDev).of \in 0 .. n /\ \A i \in DOMAIN toDev' : toDev'[i].of <= n
      BY <1>0, <1>5, NextUpTo DEF DevTakesChunk
    <2>2. \A i \in DOMAIN toHost' : toHost'[i].to <= n
      BY <1>0, <1>5, <2>1, <2>9, SaidUpTo DEF DevTakesChunk, UpTo, DevTypes, Answers
    <2>3. slot'.to <= n /\ dev'.for <= n
      BY <1>0, <1>5, <2>1, <2>2 DEF DevTakesChunk, UpTo, Idle, boxVars, DevTypes
    <2> QED BY <2>1, <2>2, <2>3 DEF UpTo
  <1>6. CASE DevTakesHello
    <2>9. dev.for \in 0 .. n BY <1>0 DEF UpTo, DevTypes
    <2>1. Head(toDev).of \in 0 .. n /\ \A i \in DOMAIN toDev' : toDev'[i].of <= n
      BY <1>0, <1>6, NextUpTo DEF DevTakesHello
    <2>2. \A i \in DOMAIN toHost' : toHost'[i].to <= n
      BY <1>0, <1>6, <2>1, <2>9, SaidUpTo DEF DevTakesHello, UpTo, DevTypes, Answers
    <2>3. slot'.to <= n /\ dev'.for <= n
      BY <1>0, <1>6, <2>1, <2>2 DEF DevTakesHello, UpTo, Idle, boxVars, DevTypes
    <2> QED BY <2>1, <2>2, <2>3 DEF UpTo
  <1>7. CASE DevIgnores
    <2>9. dev.for \in 0 .. n BY <1>0 DEF UpTo, DevTypes
    <2>1. Head(toDev).of \in 0 .. n /\ \A i \in DOMAIN toDev' : toDev'[i].of <= n
      BY <1>0, <1>7, NextUpTo DEF DevIgnores
    <2>2. \A i \in DOMAIN toHost' : toHost'[i].to <= n
      BY <1>0, <1>7, <2>1, <2>9, SaidUpTo DEF DevIgnores, UpTo, DevTypes, Answers
    <2>3. slot'.to <= n /\ dev'.for <= n
      BY <1>0, <1>7, <2>1, <2>2 DEF DevIgnores, UpTo, Idle, boxVars, DevTypes
    <2> QED BY <2>1, <2>2, <2>3 DEF UpTo
  <1>8. CASE DevWarns
    <2>9. dev.for \in 0 .. n BY <1>0 DEF UpTo, DevTypes
    <2>1. \A i \in DOMAIN toDev' : toDev'[i].of <= n
      BY <1>8 DEF DevWarns, UpTo, boxVars
    <2>2. \A i \in DOMAIN toHost' : toHost'[i].to <= n
      BY <1>0, <1>8, <2>1, <2>9, SaidUpTo DEF DevWarns, UpTo, DevTypes, Answers
    <2>3. slot'.to <= n /\ dev'.for <= n
      BY <1>0, <1>8, <2>1, <2>2 DEF DevWarns, UpTo, Idle, boxVars, DevTypes
    <2> QED BY <2>1, <2>2, <2>3 DEF UpTo
  <1> QED BY <1>1, <1>2, <1>3, <1>4, <1>5, <1>6, <1>7, <1>8 DEF DeviceStep

LEMMA StepFlushing ==
    ASSUME TypeOK, ShapeInv, Flushing, call > 0, DeviceStep \/ DevWarns \/ RxFrame
    PROVE  Flushing'
  <1>0. /\ BoxTypes /\ DevTypes /\ call \in Nat /\ call - 1 \in Nat /\ call' = call
        /\ toDev \in Seq(Message) /\ toHost \in Seq(Frame)
    BY SessionAssumption DEF TypeOK, HostTypes, DevTypes, DeviceStep, DevTakesCmd,
       DevAnswersCmd,
       DevTakesDownload, DevTakesChunk, DevTakesHello, DevIgnores, DevWarns, RxFrame, hostVars
  <1>1. CASE UabtAsked
    <2>1. /\ toDev # << >> /\ Len(toDev) \in Nat /\ Len(toDev) > 0 /\ DOMAIN toDev = 1 .. Len(toDev)
          /\ toDev[Len(toDev)] = [what |-> "UABT", of |-> call]
          /\ \A i \in DOMAIN toDev : i < Len(toDev) => toDev[i].of < call
      BY <1>0, <1>1, TailFacts DEF UabtAsked
    <2>2. \A i \in DOMAIN toHost : toHost[i].to <= call - 1
      <3> SUFFICES ASSUME NEW i \in DOMAIN toHost PROVE toHost[i].to <= call - 1 OBVIOUS
      <3>1. toHost[i] \in Frame BY <1>0
      <3> QED BY <1>0, <1>1, <3>1, SessionAssumption DEF UabtAsked, Frame
    <2>3. slot.to < call /\ dev.for \in 0 .. call - 1 BY <1>0, <1>1 DEF UabtAsked, DevTypes
    <2> DEFINE Last(q) == /\ q # << >>
                          /\ q[Len(q)] = [what |-> "UABT", of |-> call]
                          /\ \A i \in DOMAIN q : i < Len(q) => q[i].of < call
    <2>4. Len(toDev) # 1 => Last(Tail(toDev)) /\ Head(toDev).of \in 0 .. call - 1
      <3> SUFFICES ASSUME Len(toDev) # 1
                   PROVE  Last(Tail(toDev)) /\ Head(toDev).of \in 0 .. call - 1
        OBVIOUS
      <3>1. Head(toDev) = toDev[1] /\ Head(toDev) \in Message BY <1>0, <2>1, TailFacts
      <3>2. Head(toDev).of \in 0 .. call - 1
        <4>1. 1 \in DOMAIN toDev /\ 1 < Len(toDev) BY <2>1
        <4>2. Head(toDev).of < call BY <2>1, <3>1, <4>1
        <4>3. Head(toDev).of \in 1 .. MaxCalls BY <3>1 DEF Message
        <4> QED BY <1>0, <4>2, <4>3, SessionAssumption
      <3>3. /\ Tail(toDev) # << >> /\ Len(Tail(toDev)) = Len(toDev) - 1
            /\ DOMAIN Tail(toDev) = 1 .. Len(toDev) - 1
            /\ \A i \in DOMAIN Tail(toDev) : i + 1 \in DOMAIN toDev /\ Tail(toDev)[i] = toDev[i + 1]
        BY <1>0, <2>1, TailFacts
      <3>4. Len(toDev) - 1 \in DOMAIN Tail(toDev) BY <2>1, <3>3
      <3>5. Tail(toDev)[Len(Tail(toDev))] = toDev[Len(toDev)] BY <2>1, <3>3, <3>4
      <3>6. \A i \in DOMAIN Tail(toDev) : i < Len(Tail(toDev)) => Tail(toDev)[i].of < call
        BY <2>1, <3>3
      <3> QED BY <2>1, <3>2, <3>3, <3>5, <3>6
    <2>5. Len(toDev) = 1 => Head(toDev) = [what |-> "UABT", of |-> call] /\ Tail(toDev) = << >>
      BY <1>0, <2>1, TailFacts
    <2>6. Last(toDev) BY <2>1
    <2> HIDE DEF Last
    <2>7. ASSUME Last(toDev'), \A i \in DOMAIN toHost' : toHost'[i].to <= call - 1,
                 slot'.to < call, dev'.for \in 0 .. call - 1
          PROVE  Flushing'
      <3>1. \A i \in DOMAIN toHost' : toHost'[i].to < call
        <4> SUFFICES ASSUME NEW i \in DOMAIN toHost' PROVE toHost'[i].to < call OBVIOUS
        <4>1. toHost'[i] \in Frame
          <5>1. TypeOK'
            BY StepTypeOK DEF Next
          <5> QED BY <5>1 DEF TypeOK, DevTypes
        <4> QED BY <1>0, <2>7, <4>1, SessionAssumption DEF Frame
      <3> QED BY <1>0, <2>7, <3>1 DEF Last, Flushing, UabtAsked
    <2>8. CASE DevTakesHello
      <3>1. slot' = slot /\ dev' = Idle /\ toDev' = Tail(toDev)
        BY <2>8 DEF DevTakesHello, boxVars
      <3>2. CASE Len(toDev) # 1
        <4>1. \A i \in DOMAIN toHost' : toHost'[i].to <= call - 1
          BY <1>0, <2>2, <2>4, <2>8, <3>2, SaidUpTo DEF DevTakesHello, Answers
        <4> QED BY <1>0, <2>3, <2>4, <2>7, <3>1, <3>2, <4>1 DEF Idle
      <3>3. CASE Len(toDev) = 1
        <4>1. toHost' = Append(toHost, [what |-> "UABT", to |-> call])
          BY <2>5, <2>8, <3>3 DEF DevTakesHello, Say
        <4>2. [what |-> "UABT", to |-> call] \in Frame
          BY <1>0, SessionAssumption DEF TypeOK, HostTypes, Frame, Answers
        <4>3. /\ toHost' # << >> /\ toHost'[Len(toHost')] = [what |-> "UABT", to |-> call]
              /\ \A i \in DOMAIN toHost' : i < Len(toHost') => i \in DOMAIN toHost /\ toHost'[i] = toHost[i]
          <5> HIDE DEF Last
          <5> QED BY <1>0, <4>1, <4>2, AppendFacts
        <4>4. \A i \in DOMAIN toHost' : i < Len(toHost') => toHost'[i].to < call
          BY <1>1, <4>3 DEF UabtAsked
        <4> QED BY <1>0, <2>3, <2>5, <3>1, <3>3, <4>3, <4>4 DEF Flushing, UabtUnderWay
      <3> QED BY <3>2, <3>3
    <2>9. CASE RxFrame
      <3>1. /\ toHost' = Tail(toHost) /\ toHost # << >> /\ toDev' = toDev /\ dev' = dev
            /\ slot' = slot \/ slot' = Head(toHost)
        BY <2>9 DEF RxFrame
      <3>2. Head(toHost).to < call /\ \A i \in DOMAIN toHost' : toHost'[i].to <= call - 1
        <4>1. Head(toHost) = toHost[1] /\ 1 \in DOMAIN toHost BY <1>0, <3>1, TailFacts
        <4>2. Head(toHost).to < call BY <1>1, <4>1 DEF UabtAsked
        <4> QED BY <1>0, <2>2, <3>1, <4>2, TailFacts
      <3> QED BY <2>3, <2>6, <2>7, <3>1, <3>2
    <2>10. CASE DevAnswersCmd \/ DevWarns
      <3>1. /\ toDev' = toDev /\ slot' = slot /\ dev' \in {dev, Idle}
        BY <2>10 DEF DevAnswersCmd, DevWarns, boxVars
      <3>2. \A i \in DOMAIN toHost' : toHost'[i].to <= call - 1
        BY <1>0, <2>2, <2>3, <2>10, SaidUpTo DEF DevAnswersCmd, DevWarns, Answers
      <3> QED BY <1>0, <2>3, <2>6, <2>7, <3>1, <3>2 DEF Idle
    <2>11. CASE DevTakesCmd \/ DevTakesDownload \/ DevTakesChunk \/ DevIgnores
      <3>1. toDev' = Tail(toDev) /\ slot' = slot /\ Len(toDev) # 1
        BY <2>5, <2>11 DEF DevTakesCmd, DevTakesDownload, DevTakesChunk, DevIgnores, boxVars
      <3>2. Last(toDev') /\ Head(toDev).of \in 0 .. call - 1 BY <2>4, <3>1
      <3>3. \A i \in DOMAIN toHost' : toHost'[i].to <= call - 1
        BY <1>0, <2>2, <2>3, <2>11, <3>2, SaidUpTo
        DEF DevTakesCmd, DevTakesDownload, DevTakesChunk, DevIgnores, Answers
      <3>4. dev'.for \in 0 .. call - 1
        BY SMTT(40), <1>0, <2>3, <2>11, <3>2
        DEF DevTakesCmd, DevTakesDownload, DevTakesChunk, DevIgnores, Idle, DevTypes
      <3> QED BY <2>3, <2>7, <3>1, <3>2, <3>3, <3>4
    <2> QED BY <2>8, <2>9, <2>10, <2>11 DEF DeviceStep
  <1>2. CASE UabtUnderWay
    <2>1. toDev = << >> /\ dev = Idle /\ toHost # << >> BY <1>2 DEF UabtUnderWay
    <2>2. RxFrame
      BY <2>1 DEF Idle, DeviceStep, DevWarns, DevTakesCmd, DevAnswersCmd, DevTakesDownload,
                  DevTakesChunk, DevTakesHello, DevIgnores
    <2>3. toHost' = Tail(toHost) /\ toDev' = toDev /\ dev' = dev BY <2>2 DEF RxFrame
    <2>4. CASE Len(toHost) = 1
      <3>1. Head(toHost) = [what |-> "UABT", to |-> call] /\ Tail(toHost) = << >>
        BY <1>0, <1>2, <2>4, TailFacts DEF UabtUnderWay
      <3>2. slot' = Head(toHost) BY <2>2, <3>1 DEF RxFrame
      <3> QED BY <1>0, <2>1, <2>3, <3>1, <3>2 DEF Flushing, UabtHere, Quiet
    <2>5. CASE Len(toHost) # 1
      <3>1. /\ Len(toHost) \in Nat /\ Len(toHost) > 0 /\ DOMAIN toHost = 1 .. Len(toHost)
            /\ Head(toHost) = toHost[1]
            /\ Tail(toHost) # << >> /\ Len(Tail(toHost)) = Len(toHost) - 1
            /\ DOMAIN Tail(toHost) = 1 .. Len(toHost) - 1
            /\ \A i \in DOMAIN Tail(toHost) : i + 1 \in DOMAIN toHost /\ Tail(toHost)[i] = toHost[i + 1]
        BY <1>0, <2>1, <2>5, TailFacts
      <3>2. /\ toHost[Len(toHost)] = [what |-> "UABT", to |-> call]
            /\ \A i \in DOMAIN toHost : i < Len(toHost) => toHost[i].to < call
        BY <1>2 DEF UabtUnderWay
      <3>3. Len(toHost) - 1 \in DOMAIN Tail(toHost) BY <2>5, <3>1
      <3>4. Tail(toHost)[Len(Tail(toHost))] = toHost[Len(toHost)] BY <3>1, <3>3
      <3>5. \A i \in DOMAIN Tail(toHost) : i < Len(Tail(toHost)) => Tail(toHost)[i].to < call
        BY <3>1, <3>2
      <3>6. slot'.to < call
        <4>1. Head(toHost).to < call BY <2>5, <3>1, <3>2
        <4> QED BY <1>2, <2>2, <4>1 DEF RxFrame, UabtUnderWay
      <3> QED BY <1>0, <2>1, <2>3, <3>1, <3>2, <3>4, <3>5, <3>6 DEF Flushing, UabtUnderWay
    <2> QED BY <2>4, <2>5
  <1>3. CASE UabtHere
    BY <1>3 DEF UabtHere, Quiet, Idle, DeviceStep, DevWarns, DevTakesCmd, DevAnswersCmd,
                DevTakesDownload, DevTakesChunk, DevTakesHello, DevIgnores, RxFrame
  <1> QED BY <1>1, <1>2, <1>3 DEF Flushing

LEMMA NumbersAreNat ==
    ASSUME DevTypes
    PROVE  /\ \A i \in DOMAIN toDev : toDev[i].of \in Nat
           /\ \A i \in DOMAIN toHost : toHost[i].to \in Nat
  <1>1. ASSUME NEW i \in DOMAIN toDev PROVE toDev[i].of \in Nat
    <2>1. toDev[i] \in Message BY DEF DevTypes
    <2> QED BY <2>1, SessionAssumption DEF Message
  <1>2. ASSUME NEW i \in DOMAIN toHost PROVE toHost[i].to \in Nat
    <2>1. toHost[i] \in Frame BY DEF DevTypes
    <2> QED BY <2>1, SessionAssumption DEF Frame
  <1> QED BY <1>1, <1>2

(* Numbers stay in order, and a handshake stays where it is in flushing.    *)
LEMMA StepOrderInv ==
    ASSUME TypeOK, ShapeInv, OrderInv, [Next]_vars PROVE OrderInv'
  <1>0. /\ HostTypes /\ BoxTypes /\ DevTypes /\ call \in Nat
        /\ UpTo(call) /\ toDev \in Seq(Message) /\ toHost \in Seq(Frame)
    BY SessionAssumption DEF TypeOK, HostTypes, OrderInv, DevTypes
  <1>1. ASSUME NEW o \in Ops, Start(o) PROVE OrderInv'
    <2>1. UpTo(call + 1)
      <3> QED BY <1>0, NumbersAreNat, SlotNumber, SessionAssumption DEF UpTo, DevTypes
    <2>2. call' = call + 1 /\ UNCHANGED <<toDev, toHost, slot, dev>>
      BY <1>1 DEF Start, devVars
    <2>3. UpTo(call)' BY <2>1, <2>2 DEF UpTo
    <2>4. UpTo(call - 1)' BY <1>0, <2>2 DEF UpTo
    <2> QED BY <1>1, <2>3, <2>4 DEF Start, OrderInv, Waiting
  <1>2. ASSUME ClearSlot PROVE OrderInv'
    <2>1. UNCHANGED <<call, op, stage, toDev, toHost, dev>> /\ slot' = Empty /\ pc = "clear"
          /\ pc' \in {"write", "chunks"} /\ call > 0
      BY <1>2 DEF ClearSlot, devVars, ShapeInv
    <2>2. UpTo(call)' BY <1>0, <2>1 DEF UpTo, Empty
    <2>3. stage = 1 => UpTo(call - 1)' BY <1>0, <2>1 DEF OrderInv, UpTo, Empty
    <2> QED BY <2>1, <2>2, <2>3 DEF OrderInv, Waiting
  <1>3. ASSUME WriteRequest PROVE OrderInv'
    <2>1. [what |-> Request, of |-> call] \in Message
      BY <1>0, <1>3 DEF WriteRequest, HostTypes, ShapeInv, Request, Ops, Message
    <2>2. /\ Len(toDev) \in Nat /\ DOMAIN toDev = 1 .. Len(toDev)
          /\ Len(toDev') = Len(toDev) + 1 /\ DOMAIN toDev' = 1 .. Len(toDev) + 1 /\ toDev' # << >>
          /\ \A i \in DOMAIN toDev' :
               toDev'[i] = IF i <= Len(toDev) THEN toDev[i] ELSE [what |-> Request, of |-> call]
      BY <1>0, <1>3, <2>1, AppendFacts DEF WriteRequest
    <2>3. UNCHANGED <<call, op, stage, toHost, slot, dev>> /\ pc = "write" /\ pc' = "wait"
      BY <1>3 DEF WriteRequest, boxVars
    <2>4. UpTo(call)' BY <1>0, <2>2, <2>3 DEF UpTo
    <2>5. ASSUME op = "handshake", stage = 1 PROVE UabtAsked'
      <3>1. UpTo(call - 1) BY <2>3, <2>5 DEF OrderInv
      <3>2. /\ \A i \in DOMAIN toDev : toDev[i].of \in Nat
            /\ \A i \in DOMAIN toHost : toHost[i].to \in Nat
        BY <1>0, NumbersAreNat
      <3>4. Request = "UABT" BY <2>5 DEF Request
      <3>5. toDev'[Len(toDev')] = [what |-> "UABT", of |-> call] BY <2>2, <3>4
      <3>7. ASSUME NEW i \in DOMAIN toDev', i < Len(toDev') PROVE toDev'[i].of < call
        <4>1. i \in DOMAIN toDev /\ toDev'[i] = toDev[i] BY <2>2, <3>7
        <4> QED BY <1>0, <3>1, <3>2, <4>1 DEF UpTo
      <3>6. /\ \A i \in DOMAIN toHost : toHost[i].to < call
            /\ slot.to < call /\ dev.for < call
        BY <1>0, <3>1, <3>2, SlotNumber, SessionAssumption DEF UpTo, DevTypes
      <3> QED BY <2>2, <2>3, <3>5, <3>6, <3>7 DEF UabtAsked
    <2> QED BY <2>3, <2>4, <2>5 DEF OrderInv, Waiting, Flushing
  <1>4. ASSUME WriteChunk PROVE OrderInv'
    <2>1. [what |-> "chunk", of |-> call] \in Message
      BY <1>0, <1>4 DEF WriteChunk, HostTypes, ShapeInv, Message
    <2>2. UNCHANGED <<call, op, toHost, slot, dev>> /\ op = "download" /\ pc' \in {"wait", "chunks"}
      BY <1>4 DEF WriteChunk, boxVars, ShapeInv
    <2>3. UpTo(call)' BY <1>0, <1>4, <2>1, <2>2, AppendFacts DEF WriteChunk, UpTo
    <2> QED BY <2>2, <2>3 DEF OrderInv
  <1>5. CASE DeviceStep \/ DevWarns \/ RxFrame
    <2>1. pc' = pc /\ op' = op /\ stage' = stage /\ call' = call
      BY <1>5 DEF DeviceStep, DevTakesCmd, DevAnswersCmd, DevTakesDownload, DevTakesChunk,
         DevTakesHello, DevIgnores, DevWarns, RxFrame, hostVars
    <2>2. UpTo(call)' BY <1>0, <1>5, <2>1, StepUpTo DEF UpTo
    <2>3. ASSUME pc \in {"clear", "write"}, stage = 1 PROVE UpTo(call - 1)'
      <3>1. UpTo(call - 1) /\ call - 1 \in Nat BY <1>0, <2>3 DEF OrderInv, ShapeInv
      <3> QED BY <1>5, <2>1, <3>1, StepUpTo DEF UpTo
    <2>4. (Waiting /\ op = "handshake" /\ stage = 1 => Flushing)'
      BY <1>5, <2>1, StepFlushing DEF OrderInv, Waiting, ShapeInv
    <2> QED BY <2>1, <2>2, <2>3, <2>4 DEF OrderInv
  (* The others leave the numbers alone; the caller waits on, or writes again or returns. *)
  <1> DEFINE Others ==
        \/ WriteFails \/ PollAnswered \/ PollAborted \/ PollNothing \/ SeeDone \/ Sleep \/ ReadCmd
        \/ ReadDownload \/ ReadHandshake \/ Deadline \/ Close \/ RxStop \/ SessionOver
        \/ UNCHANGED vars
  <1>6. CASE Others
    <2> USE DEF WriteFails, PollAnswered, PollAborted, PollNothing, SeeDone, Sleep, ReadCmd,
            ReadDownload, ReadHandshake, Deadline, Close, RxStop, SessionOver, Return,
            vars, hostVars, boxVars, devVars, faultVars
    <2>1. UNCHANGED <<call, op, toDev, toHost, slot, dev>> BY <1>6
    <2>2. pc' \in {"clear", "write"} => stage' = 2 \/ (pc' = pc /\ stage' = stage) BY <1>6
    <2>3. Waiting' => Waiting /\ stage' = stage BY <1>6 DEF Waiting
    <2>4. Flushing => Flushing'
      BY <2>1 DEF Flushing, UabtAsked, UabtUnderWay, UabtHere, Quiet
    <2>5. UpTo(call)' /\ (UpTo(call - 1) => UpTo(call - 1)') BY <1>0, <2>1 DEF UpTo
    <2> QED BY <2>1, <2>2, <2>3, <2>4, <2>5 DEF OrderInv
  <1> QED BY <1>1, <1>2, <1>3, <1>4, <1>5, <1>6 DEF Next, CallerStep

(* The steps of the device and of the receive loop, and what they leave.   *)
Outside == DeviceStep \/ DevWarns \/ RxFrame

LEMMA OutsideKeepsCaller == Outside => UNCHANGED <<hostVars, Awaited, Request, Final>>
  BY DEF Outside, DeviceStep, DevTakesCmd, DevAnswersCmd, DevTakesDownload, DevTakesChunk,
     DevTakesHello, DevIgnores, DevWarns, RxFrame, hostVars, Awaited, Request, Final

(* Where nothing is under way nothing happens. *)
LEMMA QuietStays == Quiet => ~ Outside
  BY DEF Quiet, Outside, Idle, DeviceStep, DevTakesCmd, DevAnswersCmd, DevTakesDownload,
     DevTakesChunk, DevTakesHello, DevIgnores, DevWarns, RxFrame

(* A warning more, or one less, changes nothing else. *)
LEMMA WarningsPass ==
    ASSUME DevTypes, ShapeInv, \A i \in DOMAIN toHost : Warned(i), DevWarns \/ RxFrame
    PROVE  /\ \A i \in DOMAIN toHost' : Warned(i)'
           /\ UNCHANGED <<dev, toDev, slot, hostVars>>
  <1>1. toHost \in Seq(Frame) BY DEF DevTypes
  <1>2. CASE DevWarns
    <2>1. toHost' = Append(toHost, [what |-> "WARN", to |-> dev.for])
          /\ UNCHANGED <<dev, toDev, slot, hostVars>>
      BY <1>2 DEF DevWarns, Say, boxVars
    <2>2. [what |-> "WARN", to |-> dev.for] \in Frame
      BY <1>2, SessionAssumption DEF DevWarns, ShapeInv, DevTypes, Frame
    <2> QED BY <1>1, <2>1, <2>2, AppendFacts DEF Warned
  <1>3. CASE RxFrame
    <2>1. toHost # << >> /\ toHost' = Tail(toHost) BY <1>3 DEF RxFrame
    <2>2. Head(toHost).what = "WARN" BY <1>1, <2>1, TailFacts DEF Warned
    <2>3. UNCHANGED <<dev, toDev, slot, hostVars>> BY <1>3, <2>2 DEF RxFrame
    <2> QED BY <1>1, <2>1, <2>3, TailFacts DEF Warned
  <1> QED BY <1>2, <1>3

(* The answer that ends the exchange, said after warnings only. *)
LEMMA FinalSaid ==
    ASSUME DevTypes, \A i \in DOMAIN toHost : Warned(i), call \in 1 .. MaxCalls,
           NEW what \in Final, Final \subseteq Answers, Say(what, call), UNCHANGED <<hostVars, slot>>,
           toDev' = << >>, dev' = Idle, Unanswered
    PROVE  OnItsWay'
  <1>1. toHost \in Seq(Frame) /\ [what |-> what, to |-> call] \in Frame BY DEF DevTypes, Frame
  <1>2. toHost' = Append(toHost, [what |-> what, to |-> call]) BY DEF Say
  <1>3. /\ Len(toHost) \in Nat /\ DOMAIN toHost = 1 .. Len(toHost)
        /\ Len(toHost') = Len(toHost) + 1 /\ DOMAIN toHost' = 1 .. Len(toHost) + 1 /\ toHost' # << >>
        /\ \A i \in DOMAIN toHost' :
             toHost'[i] = IF i <= Len(toHost) THEN toHost[i] ELSE [what |-> what, to |-> call]
    BY <1>1, <1>2, AppendFacts
  <1>4. Final' = Final /\ Unanswered' /\ call' = call
    BY DEF Final, Unanswered, Awaited, hostVars
  <1>5. ASSUME NEW i \in DOMAIN toHost'
        PROVE  IF i < Len(toHost') THEN Warned(i)' ELSE toHost'[i].what \in Final' /\ toHost'[i].to = call'
    <2>1. CASE i <= Len(toHost)
      <3>1. i < Len(toHost') /\ i \in DOMAIN toHost /\ toHost'[i] = toHost[i] BY <1>3, <2>1
      <3> QED BY <3>1 DEF Warned
    <2>2. CASE ~ (i <= Len(toHost))
      <3>1. ~ (i < Len(toHost')) /\ toHost'[i] = [what |-> what, to |-> call] BY <1>3, <2>2
      <3> QED BY <1>4, <3>1
    <2> QED BY <2>1, <2>2
  <1> QED BY <1>3, <1>4, <1>5 DEF OnItsWay

(* What can become of an exchange while the caller waits. *)
LEMMA StepRequested ==
    ASSUME TypeOK, ShapeInv, pc # "idle", Requested, Outside
    PROVE  (Working \/ OnItsWay \/ DataAsked)'
  <1>0. /\ DevTypes /\ HostTypes /\ call \in 1 .. MaxCalls
        /\ Requested /\ toHost = << >> /\ dev = Idle /\ Unanswered
        /\ toDev # << >> /\ Head(toDev) = [what |-> Request, of |-> call] /\ Tail(toDev) = << >>
    BY DEF TypeOK, HostTypes, ShapeInv, Requested
  <1>1. UNCHANGED <<hostVars, Awaited, Final>> BY OutsideKeepsCaller
  <1>2. \A i \in DOMAIN toHost : Warned(i) BY <1>0
  <1>3. CASE DevTakesCmd
    <2>1. Request = "cmd" /\ op = "cmd" /\ UNCHANGED <<toHost, slot>>
      BY <1>0, <1>3 DEF DevTakesCmd, Request, HostTypes, Ops, boxVars
    <2>2. toDev' = << >> /\ dev' = [doing |-> "busy", for |-> call, left |-> 0]
      BY <1>0, <1>3 DEF DevTakesCmd
    <2> QED BY <1>0, <1>1, <2>1, <2>2 DEF Working, Warned, Unanswered, hostVars
  <1>4. CASE DevTakesDownload
    <2>1. op = "download" /\ stage = 1 /\ slot' = slot /\ toDev' = << >>
      BY <1>0, <1>4 DEF DevTakesDownload, Request, Requested, HostTypes, Ops, boxVars
    <2>2. CASE Say("DATA", call) /\ dev' = [doing |-> "data", for |-> call, left |-> Chunks]
      <3>1. toHost' = <<[what |-> "DATA", to |-> call]>> BY <1>0, <2>2 DEF Say
      <3> QED BY <1>0, <1>1, <2>1, <2>2, <3>1 DEF DataAsked, Warned, Unanswered, hostVars
    <2>3. CASE Say("FAIL", call) /\ dev' = Idle
      <3>1. "FAIL" \in Final /\ Final \subseteq Answers BY <2>1 DEF Final, Answers
      <3> QED BY <1>0, <1>1, <1>2, <2>1, <2>3, <3>1, FinalSaid
    <2> QED BY <1>0, <1>4, <2>2, <2>3 DEF DevTakesDownload
  <1>5. CASE DevTakesHello
    <2>1. /\ slot' = slot /\ toDev' = << >> /\ dev' = Idle
          /\ \/ Request = "UABT" /\ Say("UABT", call)
             \/ Request = "HELLO" /\ Say("HELLO_REPLY", call)
      BY <1>0, <1>5 DEF DevTakesHello, boxVars
    <2>2. op = "handshake" BY <1>0, <2>1 DEF Request, HostTypes, Ops
    <2>3. CASE stage = 1
      <3>1. Request = "UABT" /\ Final = {"UABT"} BY <2>2, <2>3 DEF Request, Final
      <3> QED BY <1>0, <1>1, <1>2, <2>1, <3>1, FinalSaid DEF Answers
    <2>4. CASE stage = 2
      <3>1. Request = "HELLO" /\ Final = {"HELLO_REPLY"} BY <2>2, <2>4 DEF Request, Final
      <3> QED BY <1>0, <1>1, <1>2, <2>1, <3>1, FinalSaid DEF Answers
    <2> QED BY <1>0, <2>3, <2>4 DEF HostTypes
  <1>6. Request # "chunk" BY <1>0 DEF Request, HostTypes, Ops
  <1> QED
    BY <1>0, <1>3, <1>4, <1>5, <1>6
    DEF Outside, DeviceStep, DevAnswersCmd, DevTakesChunk, DevIgnores, DevWarns, RxFrame, Idle

LEMMA StepWorking ==
    ASSUME TypeOK, ShapeInv, pc # "idle", Working, Outside
    PROVE  (Working \/ OnItsWay)'
  <1>0. /\ DevTypes /\ op = "cmd" /\ call \in 1 .. MaxCalls /\ toDev = << >>
        /\ dev = [doing |-> "busy", for |-> call, left |-> 0]
        /\ \A i \in DOMAIN toHost : Warned(i)
        /\ Unanswered
    BY DEF TypeOK, HostTypes, ShapeInv, Working
  <1>1. UNCHANGED <<hostVars, Awaited, Final>> BY OutsideKeepsCaller
  <1>2. CASE DevAnswersCmd
    <2>1. /\ \E what \in {"OKAY", "FAIL"} : Say(what, call)
          /\ dev' = Idle /\ UNCHANGED <<toDev, slot>>
      BY <1>0, <1>2 DEF DevAnswersCmd, boxVars
    <2>2. Final = {"OKAY", "FAIL"} /\ Final \subseteq Answers BY <1>0 DEF Final, Answers
    <2> QED BY <1>0, <1>1, <2>1, <2>2, FinalSaid
  <1>3. CASE DevWarns \/ RxFrame
    <2>1. (\A i \in DOMAIN toHost' : Warned(i)') /\ UNCHANGED <<dev, toDev, slot, hostVars>>
      BY <1>0, <1>3, WarningsPass
    <2> QED BY <1>0, <1>1, <2>1 DEF Working, Unanswered, hostVars
  <1> QED
    BY <1>0, <1>2, <1>3
    DEF Outside, DeviceStep, DevTakesCmd, DevTakesDownload, DevTakesChunk, DevTakesHello, DevIgnores

LEMMA StepOnItsWay ==
    ASSUME TypeOK, OnItsWay, Outside
    PROVE  (OnItsWay \/ Arrived)'
  <1>0. /\ toHost \in Seq(Frame) /\ toDev = << >> /\ dev = Idle /\ toHost # << >>
        /\ \A i \in DOMAIN toHost :
             IF i < Len(toHost) THEN Warned(i) ELSE toHost[i].what \in Final /\ toHost[i].to = call
        /\ Unanswered
    BY DEF TypeOK, DevTypes, OnItsWay
  <1>1. UNCHANGED <<hostVars, Awaited, Final>> BY OutsideKeepsCaller
  <1>2. RxFrame
    BY <1>0 DEF Outside, Idle, DeviceStep, DevWarns, DevTakesCmd, DevAnswersCmd,
       DevTakesDownload,
       DevTakesChunk, DevTakesHello, DevIgnores
  <1>3. toHost' = Tail(toHost) /\ UNCHANGED <<toDev, dev>> BY <1>2 DEF RxFrame
  <1>4. /\ Len(toHost) \in Nat /\ Len(toHost) > 0 /\ DOMAIN toHost = 1 .. Len(toHost)
        /\ Head(toHost) = toHost[1] /\ 1 \in DOMAIN toHost
    BY <1>0, TailFacts
  <1>5. CASE Len(toHost) = 1
    <2>1. Tail(toHost) = << >> /\ Head(toHost).what \in Final /\ Head(toHost).to = call
      BY <1>0, <1>4, <1>5, TailFacts
    <2>2. "WARN" \notin Final BY DEF Final
    <2>3. slot' = Head(toHost) BY <1>2, <2>1, <2>2 DEF RxFrame
    <2> QED BY <1>0, <1>1, <1>3, <2>1, <2>3 DEF Arrived, Quiet, hostVars
  <1>6. CASE Len(toHost) # 1
    <2>1. /\ Tail(toHost) # << >> /\ Len(Tail(toHost)) = Len(toHost) - 1
          /\ DOMAIN Tail(toHost) = 1 .. Len(toHost) - 1
          /\ \A i \in DOMAIN Tail(toHost) : i + 1 \in DOMAIN toHost /\ Tail(toHost)[i] = toHost[i + 1]
      BY <1>0, <1>6, TailFacts
    <2>2. slot' = slot
      <3>1. Warned(1) BY <1>0, <1>4, <1>6
      <3> QED BY <1>2, <1>4, <3>1 DEF RxFrame, Warned
    <2>3. ASSUME NEW i \in DOMAIN toHost'
          PROVE  IF i < Len(toHost') THEN Warned(i)'
                                     ELSE toHost'[i].what \in Final' /\ toHost'[i].to = call'
      <3>1. /\ i + 1 \in DOMAIN toHost /\ toHost'[i] = toHost[i + 1]
            /\ i < Len(toHost') <=> i + 1 < Len(toHost)
        BY <1>3, <1>4, <2>1
      <3> QED BY <1>0, <1>1, <3>1 DEF Warned, hostVars
    <2> QED BY <1>0, <1>1, <1>3, <2>1, <2>2, <2>3 DEF OnItsWay, Unanswered
  <1> QED BY <1>5, <1>6

LEMMA StepDataAsked ==
    ASSUME TypeOK, ShapeInv, pc # "idle", DataAsked, Outside
    PROVE  DataAsked' /\ (~ Unanswered => ~ Unanswered')
  <1>0. /\ DevTypes /\ op = "download" /\ stage = 1 /\ call \in 1 .. MaxCalls /\ toDev = << >>
        /\ dev = [doing |-> "data", for |-> call, left |-> Chunks]
        /\ toHost \in Seq(Frame)
    BY DEF TypeOK, HostTypes, DevTypes, ShapeInv, DataAsked
  <1>1. UNCHANGED <<hostVars, Awaited, Final>> BY OutsideKeepsCaller
  <1>2. DevWarns \/ RxFrame
    BY <1>0 DEF Outside, DeviceStep, DevTakesCmd, DevAnswersCmd, DevTakesDownload,
       DevTakesChunk,
       DevTakesHello, DevIgnores
  <1>3. CASE (\A i \in DOMAIN toHost : Warned(i)) /\ slot = [what |-> "DATA", to |-> call]
    <2>1. (\A i \in DOMAIN toHost' : Warned(i)') /\ UNCHANGED <<dev, toDev, slot, hostVars>>
      BY <1>0, <1>2, <1>3, WarningsPass
    <2> QED BY <1>0, <1>1, <1>3, <2>1 DEF DataAsked, Unanswered, hostVars
  <1>4. CASE /\ toHost # << >> /\ Unanswered
             /\ \A i \in DOMAIN toHost :
                  IF i = 1 THEN toHost[i] = [what |-> "DATA", to |-> call] ELSE Warned(i)
    <2>1. /\ Len(toHost) \in Nat /\ Len(toHost) > 0 /\ DOMAIN toHost = 1 .. Len(toHost)
          /\ Head(toHost) = toHost[1] /\ 1 \in DOMAIN toHost
      BY <1>0, <1>4, TailFacts
    <2>2. CASE RxFrame
      <3>1. Head(toHost) = [what |-> "DATA", to |-> call] BY <1>4, <2>1
      <3>2. slot' = [what |-> "DATA", to |-> call] /\ toHost' = Tail(toHost) /\ UNCHANGED <<dev, toDev>>
        <4>1. Head(toHost).what # "WARN" BY <3>1
        <4> QED BY <2>2, <3>1, <4>1 DEF RxFrame
      <3>3. \A i \in DOMAIN Tail(toHost) :
              i + 1 \in DOMAIN toHost /\ i + 1 # 1 /\ Tail(toHost)[i] = toHost[i + 1]
        BY <1>0, <1>4, TailFacts
      <3>4. \A i \in DOMAIN toHost' : Warned(i)' BY <1>4, <3>2, <3>3 DEF Warned
      <3> QED BY <1>0, <1>1, <1>4, <3>2, <3>4 DEF DataAsked, hostVars
    <2>3. CASE DevWarns
      <3>1. toHost' = Append(toHost, [what |-> "WARN", to |-> call]) /\ UNCHANGED <<dev, toDev, slot>>
        BY <1>0, <2>3 DEF DevWarns, Say, boxVars
      <3>2. [what |-> "WARN", to |-> call] \in Frame BY <1>0 DEF Frame
      <3>3. /\ toHost' # << >>
            /\ \A i \in DOMAIN toHost' :
                 toHost'[i] = IF i <= Len(toHost) THEN toHost[i] ELSE [what |-> "WARN", to |-> call]
            /\ DOMAIN toHost' = 1 .. Len(toHost) + 1
        BY <1>0, <3>1, <3>2, AppendFacts
      <3>4. ASSUME NEW i \in DOMAIN toHost'
            PROVE  IF i = 1 THEN toHost'[i] = [what |-> "DATA", to |-> call] ELSE Warned(i)'
        <4>1. CASE i <= Len(toHost)
          <5>1. i \in DOMAIN toHost /\ toHost'[i] = toHost[i] BY <2>1, <3>3, <4>1
          <5> QED BY <1>4, <5>1 DEF Warned
        <4>2. CASE ~ (i <= Len(toHost))
          <5>1. i # 1 /\ toHost'[i] = [what |-> "WARN", to |-> call] BY <2>1, <3>3, <4>2
          <5> QED BY <5>1 DEF Warned
        <4> QED BY <4>1, <4>2
      <3> QED BY <1>0, <1>1, <1>4, <3>1, <3>3, <3>4 DEF DataAsked, Unanswered, hostVars
    <2> QED BY <1>2, <2>2, <2>3
  <1> QED BY <1>3, <1>4 DEF DataAsked

LEMMA StepStreaming ==
    ASSUME TypeOK, ShapeInv, pc # "idle", Streaming, Outside
    PROVE  \/ Streaming' /\ slot' = slot /\ (toDev = << >> => toDev' = << >>)
           \/ sent = Chunks /\ (Unanswered => OnItsWay')
  <1>0. /\ DevTypes /\ op = "download" /\ stage = 2 /\ call \in 1 .. MaxCalls
        /\ \A i \in DOMAIN toDev : toDev[i] = [what |-> "chunk", of |-> call]
        /\ dev.doing = "data" /\ dev.for = call /\ dev.left = Chunks - sent + Len(toDev)
        /\ \A i \in DOMAIN toHost : Warned(i)
        /\ toDev \in Seq(Message) /\ sent \in 0 .. Chunks /\ Chunks \in Nat
    BY SessionAssumption DEF TypeOK, HostTypes, DevTypes, ShapeInv, Streaming
  <1>1. UNCHANGED <<hostVars, Awaited, Final>> BY OutsideKeepsCaller
  <1>2. CASE DevWarns \/ RxFrame
    <2>1. (\A i \in DOMAIN toHost' : Warned(i)') /\ UNCHANGED <<dev, toDev, slot, hostVars>>
      BY <1>0, <1>2, WarningsPass
    <2>2. Streaming' BY <2>1 DEF Streaming, hostVars
    <2> QED BY <2>1, <2>2
  <1>3. CASE DevTakesChunk
    <2>1. /\ toDev # << >> /\ toDev' = Tail(toDev) /\ slot' = slot /\ Len(toDev) \in Nat \ {0}
          /\ Tail(toDev) \in Seq(Message) /\ Len(Tail(toDev)) = Len(toDev) - 1
          /\ \A i \in DOMAIN Tail(toDev) : Tail(toDev)[i] = [what |-> "chunk", of |-> call]
      BY <1>0, <1>3, TailFacts DEF DevTakesChunk, boxVars
    <2>2. CASE dev.left > 1
      <3>1. /\ dev' = [dev EXCEPT !.left = @ - 1] /\ toHost' = toHost
        BY <1>3, <2>2 DEF DevTakesChunk
      <3>2. dev' = [doing |-> "data", for |-> call, left |-> Chunks - sent + Len(toDev')]
        <4>1. dev' = [doing |-> "data", for |-> call, left |-> dev.left - 1]
          BY <1>0, <3>1 DEF DevTypes
        <4>2. dev.left - 1 = Chunks - sent + Len(toDev') BY <1>0, <2>1
        <4> QED BY <4>1, <4>2
      <3> QED BY <1>0, <1>1, <2>1, <3>1, <3>2 DEF Streaming, Warned, hostVars
    <2>3. CASE ~ (dev.left > 1)
      <3>1. sent = Chunks /\ Len(toDev) = 1 BY <1>0, <2>1, <2>3
      <3>2. toDev' = << >> BY <1>0, <2>1, <3>1, TailFacts
      <3>3. dev' = Idle /\ \E what \in {"OKAY", "FAIL"} : Say(what, call)
        BY <1>0, <1>3, <2>3 DEF DevTakesChunk
      <3>4. Final = {"OKAY", "FAIL"} /\ Final \subseteq Answers BY <1>0 DEF Final, Answers
      <3> QED BY <1>0, <1>1, <2>1, <3>1, <3>2, <3>3, <3>4, FinalSaid
    <2> QED BY <2>2, <2>3
  <1>4. toDev = << >> \/ Head(toDev).what = "chunk" BY <1>0, TailFacts
  <1> QED
    BY <1>0, <1>2, <1>3, <1>4
    DEF Outside, DeviceStep, DevTakesCmd, DevAnswersCmd, DevTakesDownload, DevTakesHello, DevIgnores

(* The exchange the caller waits in. *)
InExchange ==
    Requested \/ Working \/ OnItsWay \/ Arrived \/ DataAsked \/ (Streaming /\ Unanswered)

LEMMA OutsideTunedInv ==
    ASSUME TypeOK, ShapeInv, TunedInv, Outside
    PROVE  TunedInv'
  <1>0. UNCHANGED <<hostVars, Awaited, Request, Final>> BY OutsideKeepsCaller
  <1>1. InTune' <=> InTune BY <1>0, Zenon DEF InTune, hostVars
  <1> SUFFICES ASSUME InTune
               PROVE  TunedInv'
    BY <1>1 DEF TunedInv
  <1>2. ~ Quiet BY QuietStays
  <1>3. pc # "idle" /\ pc # "write" /\ (pc = "clear" => stage = 2)
    BY <1>2 DEF TunedInv, TypeOK, HostTypes, ShapeInv
  <1>4. CASE pc = "clear"
    <2>1. Streaming /\ toDev = << >> /\ op = "download" /\ stage = 2 /\ sent = 0
      BY <1>3, <1>4 DEF TunedInv, Streaming, ShapeInv
    <2>2. Streaming' /\ toDev' = << >> BY <1>3, <2>1, StepStreaming, SessionAssumption
    <2> QED BY <1>0, <1>4, <2>1, <2>2 DEF TunedInv, Waiting, hostVars
  <1>5. CASE pc = "chunks"
    <2>1. Streaming /\ Unanswered /\ sent < Chunks BY <1>5 DEF TunedInv, ShapeInv
    <2>2. Streaming' /\ slot' = slot
      BY <1>3, <2>1, StepStreaming, SessionAssumption DEF TypeOK, HostTypes
    <2> QED BY <1>0, <1>5, <2>1, <2>2 DEF TunedInv, Waiting, Unanswered, hostVars
  <1>6. CASE Waiting
    <2>1. InExchange /\ (pc = "read" => ~ Unanswered) BY <1>6 DEF TunedInv, InExchange
    <2>2. ~ Arrived BY <1>2 DEF Arrived
    <2>3. CASE ~ Unanswered
      <3>1. DataAsked /\ slot = [what |-> "DATA", to |-> call]
        BY <2>1, <2>2, <2>3 DEF InExchange, Requested, Working, OnItsWay, DataAsked
      <3>2. DataAsked' /\ ~ Unanswered' BY <1>3, <2>3, <3>1, StepDataAsked
      <3> QED BY <1>0, <1>6, <3>2 DEF TunedInv, Waiting, hostVars
    <2>4. CASE Unanswered
      <3>1. ASSUME Requested PROVE InExchange' BY <1>3, <3>1, StepRequested DEF InExchange
      <3>2. ASSUME Working PROVE InExchange' BY <1>3, <3>2, StepWorking DEF InExchange
      <3>3. ASSUME OnItsWay PROVE InExchange' BY <3>3, StepOnItsWay DEF InExchange
      <3>4. ASSUME DataAsked PROVE InExchange' BY <1>3, <3>4, StepDataAsked DEF InExchange
      <3>5. ASSUME Streaming PROVE InExchange'
        <4>1. slot' = slot => Unanswered' BY <1>0, <2>4 DEF Unanswered
        <4> QED BY <1>3, <2>4, <3>5, <4>1, StepStreaming DEF InExchange
      <3>6. InExchange' BY <2>1, <2>2, <3>1, <3>2, <3>3, <3>4, <3>5 DEF InExchange
      <3> QED BY <1>0, <1>6, <2>1, <2>4, <3>6 DEF TunedInv, Waiting, InExchange, hostVars
    <2> QED BY <2>3, <2>4
  <1> QED BY <1>3, <1>4, <1>5, <1>6 DEF TypeOK, HostTypes, Waiting

(* The steps of the caller.  An exchange starts from a quiet channel, and   *)
(* what the caller reads at its end has left the channel quiet.            *)
LEMMA StepTunedInv ==
    ASSUME TypeOK, ShapeInv, OrderInv, TunedInv, [Next]_vars
    PROVE  TunedInv'
  <1>0. HostTypes /\ BoxTypes /\ DevTypes /\ toDev \in Seq(Message) BY DEF TypeOK, DevTypes
  <1>1. ASSUME NEW o \in Ops, Start(o) PROVE TunedInv'
    <2>1. /\ UNCHANGED <<toDev, dev, toHost, slot, trusted>> /\ pc = "idle" /\ stage' = 1
          /\ op' = o /\ pc' = IF o = "handshake" THEN "write" ELSE "clear"
      BY <1>1 DEF Start, devVars
    <2>2. InTune' => InTune BY <2>1 DEF InTune
    <2>3. InTune => Quiet' /\ slot'.what # "UABT" BY <2>1 DEF TunedInv, Quiet
    <2> QED BY <2>1, <2>2, <2>3 DEF TunedInv, Waiting, Unanswered, Awaited
  <1>2. ASSUME ClearSlot PROVE TunedInv'
    <2>1. /\ UNCHANGED <<toDev, dev, toHost, op, call, stage, sent, trusted>>
          /\ slot' = Empty /\ pc = "clear" /\ op # "handshake"
          /\ pc' = IF stage = 1 THEN "write" ELSE "chunks"
      BY <1>2 DEF ClearSlot, devVars, ShapeInv
    <2>2. InTune' => InTune BY <2>1 DEF InTune
    <2>3. Unanswered' BY <2>1 DEF Unanswered, Awaited, Empty
    <2>4. (Quiet => Quiet') /\ (Streaming => Streaming')
      BY <2>1 DEF Quiet, Streaming, Warned
    <2> QED BY <1>0, <2>1, <2>2, <2>3, <2>4 DEF TunedInv, Waiting, HostTypes, ShapeInv
  <1>3. ASSUME WriteRequest PROVE TunedInv'
    <2>1. /\ UNCHANGED <<dev, toHost, slot, op, call, stage, sent, trusted>>
          /\ pc = "write" /\ pc' = "wait" /\ toDev' = Append(toDev, [what |-> Request, of |-> call])
          /\ op = "download" => stage = 1
      BY <1>0, <1>3 DEF WriteRequest, boxVars, ShapeInv, HostTypes
    <2>2. InTune' => InTune BY <2>1 DEF InTune
    <2>3. InTune => Requested'
      <3>1. SUFFICES ASSUME InTune PROVE Requested' OBVIOUS
      <3>2. Quiet /\ Unanswered BY <2>1, <3>1 DEF TunedInv
      <3>3. Request' = Request /\ Unanswered' BY <2>1, <3>2 DEF Request, Unanswered, Awaited
      <3>4. toDev' = <<[what |-> Request, of |-> call]>> BY <2>1, <3>2 DEF Quiet
      <3> QED BY <2>1, <3>2, <3>3, <3>4 DEF Requested, Quiet
    <2> QED BY <2>1, <2>2, <2>3 DEF TunedInv, Waiting
  <1>4. ASSUME WriteChunk PROVE TunedInv'
    <2>1. /\ UNCHANGED <<dev, toHost, slot, op, call, stage, trusted>> /\ sent' = sent + 1
          /\ pc = "chunks" /\ pc' \in {"chunks", "wait"}
          /\ toDev' = Append(toDev, [what |-> "chunk", of |-> call])
          /\ op = "download" /\ stage = 2 /\ call \in 1 .. MaxCalls /\ sent \in Nat /\ Chunks \in Nat
      BY <1>0, <1>4, SessionAssumption DEF WriteChunk, boxVars, ShapeInv, HostTypes
    <2>2. InTune' => InTune BY <2>1 DEF InTune
    <2>3. InTune => Streaming' /\ Unanswered'
      <3>1. SUFFICES ASSUME InTune PROVE Streaming' /\ Unanswered' OBVIOUS
      <3>2. Streaming /\ Unanswered BY <2>1, <3>1 DEF TunedInv
      <3>3. [what |-> "chunk", of |-> call] \in Message BY <2>1 DEF Message
      <3>4. /\ Len(toDev) \in Nat /\ Len(toDev') = Len(toDev) + 1
            /\ \A i \in DOMAIN toDev' : toDev'[i] = [what |-> "chunk", of |-> call]
        BY <1>0, <2>1, <3>2, <3>3, AppendFacts DEF Streaming
      <3>5. Chunks - sent' + Len(toDev') = Chunks - sent + Len(toDev) BY <2>1, <3>4
      <3> QED BY <2>1, <3>2, <3>4, <3>5 DEF Streaming, Unanswered, Awaited, Warned
    <2> QED BY <2>1, <2>2, <2>3 DEF TunedInv, Waiting
  <1>5. CASE WriteFails \/ PollAborted \/ SeeDone \/ Deadline
    BY <1>5 DEF WriteFails, PollAborted, SeeDone, Deadline, Return, TunedInv, InTune
  <1>6. CASE PollAnswered \/ PollNothing \/ Sleep
    <2>1. /\ UNCHANGED <<dev, toDev, toHost, slot, op, call, stage, sent, trusted>>
          /\ Waiting /\ Waiting' /\ (pc' = "read" => ~ Unanswered)
      BY <1>6 DEF PollAnswered, PollNothing, Sleep, Waiting, Unanswered, boxVars, devVars
    <2>2. InTune' => InTune BY <2>1 DEF InTune, Waiting
    <2>3. InExchange => InExchange'
      BY <2>1 DEF InExchange, Requested, Working, OnItsWay, Arrived, DataAsked, Streaming,
         Quiet,
         Warned, Unanswered, Awaited, Request, Final
    <2>4. Unanswered' <=> Unanswered BY <2>1 DEF Unanswered, Awaited
    <2> QED BY <2>1, <2>2, <2>3, <2>4 DEF TunedInv, InExchange, Waiting
  <1>7. ASSUME ReadCmd PROVE TunedInv'
    <2>1. UNCHANGED <<dev, toDev, toHost, slot, trusted>> /\ pc = "read" /\ pc' = "idle" /\ op = "cmd"
      BY <1>7 DEF ReadCmd, Return, boxVars, devVars
    <2>2. InTune' => InTune BY <2>1 DEF InTune
    <2>3. InTune => Arrived /\ slot.what # "UABT"
      <3>1. SUFFICES ASSUME InTune PROVE Arrived /\ slot.what # "UABT" OBVIOUS
      <3>2. Arrived BY <2>1, <3>1, ReadInTune DEF DataAsked
      <3> QED BY <2>1, <3>2 DEF Arrived, Final
    <2> QED BY <2>1, <2>2, <2>3 DEF TunedInv, Arrived, Quiet, Waiting
  <1>8. ASSUME ReadDownload PROVE TunedInv'
    <2>1. /\ UNCHANGED <<dev, toDev, toHost, slot, trusted, op, call, sent>>
          /\ pc = "read" /\ op = "download" /\ op' = "download"
          /\ \/ stage = 1 /\ slot.what = "DATA" /\ stage' = 2 /\ pc' = "clear"
             \/ slot.what # "DATA" /\ pc' = "idle"
             \/ stage = 2 /\ pc' = "idle"
      BY <1>0, <1>8 DEF ReadDownload, Return, HostTypes, boxVars, devVars
    <2>2. InTune' => InTune BY <2>1 DEF InTune
    <2>3. SUFFICES ASSUME InTune PROVE TunedInv' BY <2>2 DEF TunedInv
    <2>4. Arrived \/ (DataAsked /\ slot.what = "DATA") BY <2>1, <2>3, ReadInTune
    <2>5. CASE Arrived
      <3>1. pc' = "idle" /\ slot.what # "UABT" BY <2>1, <2>5 DEF Arrived, Final
      <3> QED BY <2>1, <2>5, <3>1 DEF Arrived, Quiet, TunedInv, Waiting
    <2>6. CASE DataAsked /\ slot.what = "DATA"
      <3>1. /\ stage = 1 /\ toDev = << >> /\ sent = 0
            /\ dev = [doing |-> "data", for |-> call, left |-> Chunks]
        BY <2>1, <2>6 DEF DataAsked, ShapeInv
      <3>2. \A i \in DOMAIN toHost : Warned(i) BY <2>6 DEF DataAsked, Unanswered, Awaited
      <3>3. pc' = "clear" /\ stage' = 2 BY <2>1, <2>6, <3>1
      <3>4. Streaming'
        <4>1. Chunks - sent + Len(toDev) = Chunks BY <3>1, SessionAssumption
        <4> QED BY <2>1, <3>1, <3>2, <3>3, <4>1 DEF Streaming, Warned
      <3> QED BY <2>1, <3>1, <3>3, <3>4 DEF TunedInv, Waiting
    <2> QED BY <2>4, <2>5, <2>6
  <1>9. ASSUME ReadHandshake PROVE TunedInv'
    <2>0. 1 # 2 OBVIOUS
    <2>1. UNCHANGED <<dev, toDev, toHost, slot, op, call>> /\ pc = "read" /\ op = "handshake"
      BY <1>9 DEF ReadHandshake, boxVars, devVars
    <2>2. CASE stage = 1
      <3>1. /\ stage' = 2 /\ pc' = "write" /\ trusted' = trusted
            /\ sent' = IF slot.to = call THEN 1 ELSE 0
        BY <1>9, <2>0, <2>2, Zenon DEF ReadHandshake
      <3>2. InTune' => slot.to = call
        <4>1. SUFFICES ASSUME InTune' PROVE slot.to = call OBVIOUS
        <4>2. trusted \/ sent' = 1 BY <3>1, <4>1, Zenon DEF InTune
        <4>3. CASE trusted BY <2>1, <4>3, ReadInTune DEF InTune
        <4> QED BY <3>1, <4>2, <4>3
      <3>3. slot.to = call => UabtHere
        BY <1>0, <2>1, <2>2, SessionAssumption
        DEF OrderInv, Waiting, Flushing, UabtAsked, UabtUnderWay, HostTypes
      <3>4. InTune' => Quiet' /\ Unanswered'
        BY <2>1, <3>1, <3>2, <3>3 DEF UabtHere, Quiet, Unanswered, Awaited
      <3> QED BY <3>1, <3>4 DEF TunedInv, Waiting
    <2>3. CASE stage = 2
      <3>1. pc' = "idle" /\ (trusted' => trusted \/ sent = 1)
        BY <1>9, <2>0, <2>3, Zenon DEF ReadHandshake, Return
      <3>2. InTune' => InTune BY <2>1, <2>3, <3>1 DEF InTune
      <3>3. InTune => Arrived /\ slot.what # "UABT"
        <4>1. SUFFICES ASSUME InTune PROVE Arrived /\ slot.what # "UABT" OBVIOUS
        <4>2. Arrived BY <2>1, <4>1, ReadInTune DEF DataAsked
        <4> QED BY <2>1, <2>3, <4>2 DEF Arrived, Final
      <3> QED BY <2>1, <3>1, <3>2, <3>3 DEF TunedInv, Arrived, Quiet, Waiting
    <2> QED BY <1>0, <2>2, <2>3 DEF HostTypes
  <1>10. CASE Outside BY <1>10, OutsideTunedInv
  <1>11. CASE Close \/ RxStop \/ SessionOver \/ UNCHANGED vars
    <2>1. UNCHANGED <<hostVars, slot, devVars>>
      BY <1>11 DEF Close, RxStop, SessionOver, vars, boxVars
    <2>2. InTune' <=> InTune BY <2>1, Zenon DEF hostVars, InTune
    <2>3. InExchange' <=> InExchange
      BY <2>1 DEF hostVars, devVars, InExchange, Requested, Working, OnItsWay, Arrived,
         DataAsked, Streaming, Quiet, Warned, Unanswered, Awaited, Request, Final
    <2>4. (Streaming' <=> Streaming) /\ (Quiet' <=> Quiet) /\ (Unanswered' <=> Unanswered)
      BY <2>1 DEF hostVars, devVars, Streaming, Quiet, Warned, Unanswered, Awaited
    <2> QED
      BY <2>1, <2>2, <2>3, <2>4 DEF hostVars, devVars, TunedInv, InExchange, Waiting
  <1> QED
    BY <1>1, <1>2, <1>3, <1>4, <1>5, <1>6, <1>7, <1>8, <1>9, <1>10, <1>11
    DEF Next, CallerStep, Outside

-----------------------------------------------------------------------------
LEMMA InitSessionInv == Init => SessionInv
  <1> SUFFICES ASSUME Init PROVE SessionInv OBVIOUS
  <1> USE SessionAssumption DEF Init, Idle, Empty
  <1>1. HostTypes BY DEF HostTypes, Ops
  <1>2. BoxTypes /\ DevTypes /\ FaultTypes BY DEF BoxTypes, DevTypes, FaultTypes
  <1>3. FlagTypes BY DEF FlagTypes
  <1>4. ShapeInv /\ OrderInv BY DEF ShapeInv, OrderInv, UpTo, Waiting
  <1>5. TunedInv BY DEF TunedInv, Quiet, Waiting
  <1>6. TrustedAnswers BY DEF TrustedAnswers
  <1> QED BY <1>1, <1>2, <1>3, <1>4, <1>5, <1>6 DEF SessionInv, TypeOK

LEMMA StepSessionInv == SessionInv /\ [Next]_vars => SessionInv'
  BY StepTypeOK, StepShapeInv, StepOrderInv, StepTunedInv, StepTrustedAnswers DEF SessionInv

LEMMA AlwaysSessionInv == Spec => []SessionInv
  BY InitSessionInv, StepSessionInv, PTL DEF Spec

(* The variables keep their types, for any number of calls, of data frames *)
(* and of faults: the receive loop and the device never put anything into  *)
(* the slot that the check functions of session.go do not know.            *)
THEOREM SessionTypeCorrect == Spec => []TypeOK
  <1>1. SessionInv => TypeOK BY DEF SessionInv
  <1> QED BY <1>1, AlwaysSessionInv, PTL

(* After a handshake that got its own two answers every operation of       *)
(* smux.go returns the answer to itself, until one is given up.            *)
THEOREM AnswersStayTrusted == Spec => []TrustedAnswers
  <1>1. SessionInv => TrustedAnswers BY DEF SessionInv
  <1> QED BY <1>1, AlwaysSessionInv, PTL

(* In a session that is trusted, that is since a handshake that got its    *)
(* own two answers and as long as no operation was given up, SmuxDownload  *)
(* (smux.go:303) writes data only while the device takes the data of this  *)
(* download, and as much of it as the device still expects.  Otherwise the *)
(* late DATA of an earlier download may start data nobody takes.           *)
THEOREM DataOnlyOnDemand == Spec => []DataOnlyWhenAsked
  <1>1. SessionInv => DataOnlyWhenAsked
    BY DEF SessionInv, TunedInv, InTune, Streaming, DataOnlyWhenAsked
  <1> QED BY <1>1, AlwaysSessionInv, PTL

-----------------------------------------------------------------------------
(* A warning is on its way, or is the reason that is set, or has failed an *)
(* operation, or has been dropped.                                         *)
OnTheirWay(q) == {i \in DOMAIN q : q[i].what = "WARN"}

ReasonsSet == IF abort THEN 1 ELSE 0

WarningInv == aborts + ReasonsSet + Cardinality(OnTheirWay(toHost)) <= warnings

LEMMA OnTheirWayFinite ==
    ASSUME NEW q \in Seq(Frame)
    PROVE  IsFiniteSet(OnTheirWay(q)) /\ Cardinality(OnTheirWay(q)) \in Nat
  <1>1. Len(q) \in Nat /\ OnTheirWay(q) \in SUBSET (1 .. Len(q)) BY DEF OnTheirWay
  <1>2. IsFiniteSet(1 .. Len(q)) BY <1>1, FS_Interval
  <1>3. IsFiniteSet(OnTheirWay(q)) BY <1>1, <1>2, FS_Subset
  <1> QED BY <1>3, FS_CardinalityType

LEMMA OnTheirWayAppend ==
    ASSUME NEW q \in Seq(Frame), NEW f \in Frame
    PROVE  Cardinality(OnTheirWay(Append(q, f)))
             = Cardinality(OnTheirWay(q)) + (IF f.what = "WARN" THEN 1 ELSE 0)
  <1>0. IsFiniteSet(OnTheirWay(q)) /\ Cardinality(OnTheirWay(q)) \in Nat BY OnTheirWayFinite
  <1>1. /\ Len(q) \in Nat /\ DOMAIN q = 1 .. Len(q)
        /\ DOMAIN Append(q, f) = 1 .. Len(q) + 1
        /\ \A i \in DOMAIN Append(q, f) : Append(q, f)[i] = IF i <= Len(q) THEN q[i] ELSE f
    BY AppendFacts
  <1>2. CASE f.what = "WARN"
    <2>1. OnTheirWay(Append(q, f)) = OnTheirWay(q) \cup {Len(q) + 1}
      BY <1>1, <1>2 DEF OnTheirWay
    <2>2. Len(q) + 1 \notin OnTheirWay(q) BY <1>1 DEF OnTheirWay
    <2>3. Cardinality(OnTheirWay(q) \cup {Len(q) + 1}) = Cardinality(OnTheirWay(q)) + 1
      BY <1>0, <2>2, FS_AddElement
    <2> QED BY <1>2, <2>1, <2>3
  <1>3. CASE f.what # "WARN"
    <2>1. OnTheirWay(Append(q, f)) = OnTheirWay(q) BY <1>1, <1>3 DEF OnTheirWay
    <2> QED BY <1>0, <1>3, <2>1
  <1> QED BY <1>2, <1>3

LEMMA OnTheirWayTail ==
    ASSUME NEW q \in Seq(Frame), q # << >>
    PROVE  Cardinality(OnTheirWay(Tail(q))) + (IF Head(q).what = "WARN" THEN 1 ELSE 0)
             <= Cardinality(OnTheirWay(q))
  <1>1. /\ Len(q) \in Nat /\ Len(q) > 0 /\ DOMAIN q = 1 .. Len(q) /\ Head(q) = q[1]
        /\ Tail(q) \in Seq(Frame) /\ DOMAIN Tail(q) = 1 .. Len(q) - 1
        /\ \A i \in DOMAIN Tail(q) : i + 1 \in DOMAIN q /\ Tail(q)[i] = q[i + 1]
    BY TailFacts
  <1> DEFINE W == OnTheirWay(q)
             R == OnTheirWay(Tail(q))
             shift == [i \in R |-> i + 1]
  <1>2. IsFiniteSet(W) /\ Cardinality(W) \in Nat /\ Cardinality(R) \in Nat
    BY <1>1, OnTheirWayFinite
  <1>3. IsFiniteSet(W \ {1})
        /\ Cardinality(W \ {1}) = IF 1 \in W THEN Cardinality(W) - 1 ELSE Cardinality(W)
    BY <1>2, FS_RemoveElement
  <1>4. 1 \in W <=> Head(q).what = "WARN" BY <1>1 DEF OnTheirWay
  <1>5. \A i \in R : i \in Nat \ {0} /\ i + 1 \in W \ {1} BY <1>1 DEF OnTheirWay
  <1>6. shift \in Injection(R, W \ {1})
    <2>1. shift \in [R -> W \ {1}] BY <1>5
    <2>2. \A i, j \in R : shift[i] = shift[j] => i = j BY <1>5
    <2> QED BY <2>1, <2>2 DEF Injection, IsInjective
  <1>7. Cardinality(R) <= Cardinality(W \ {1}) BY <1>3, <1>6, FS_Injection
  <1> QED BY <1>2, <1>3, <1>4, <1>7

(* What is said is counted if it is a warning. *)
LEMMA SaidCounts ==
    ASSUME DevTypes, ShapeInv, NEW what \in Answers \cup {"WARN"}, NEW to \in 1 .. MaxCalls,
           Say(what, to)
    PROVE  Cardinality(OnTheirWay(toHost'))
             = Cardinality(OnTheirWay(toHost)) + (IF what = "WARN" THEN 1 ELSE 0)
  <1>1. toHost \in Seq(Frame) /\ [what |-> what, to |-> to] \in Frame BY DEF DevTypes, Frame
  <1>2. toHost' = Append(toHost, [what |-> what, to |-> to]) BY DEF Say
  <1>3. Cardinality(OnTheirWay(Append(toHost, [what |-> what, to |-> to])))
          = Cardinality(OnTheirWay(toHost)) + (IF [what |-> what, to |-> to].what = "WARN" THEN 1 ELSE 0)
    BY <1>1, OnTheirWayAppend
  <1> QED BY <1>2, <1>3

LEMMA AnswersAreNoWarnings == "WARN" \notin Answers
  BY DEF Answers

LEMMA StepWarningInv ==
    ASSUME SessionInv, WarningInv, [Next]_vars PROVE WarningInv'
  <1>0. /\ DevTypes /\ FlagTypes /\ ShapeInv /\ toHost \in Seq(Frame)
        /\ aborts \in Nat /\ warnings \in Nat /\ toDev \in Seq(Message) /\ MaxCalls \in Nat
        /\ dev.for \in 0 .. MaxCalls /\ (dev.doing # "idle" => dev.for \in 1 .. MaxCalls)
    BY SessionAssumption
    DEF SessionInv, TypeOK, DevTypes, FaultTypes, HostTypes, ShapeInv, Frame
  <1>a. Cardinality(OnTheirWay(toHost)) \in Nat BY <1>0, OnTheirWayFinite
  <1> USE DEF WarningInv, ReasonsSet
  <1>1. ASSUME UNCHANGED <<abort, toHost, warnings, aborts>> PROVE WarningInv'
    BY <1>1
  <1>2. CASE PollAborted BY <1>0, <1>a, <1>2 DEF PollAborted, devVars
  <1>3. CASE RxFrame
    <2>1. /\ UNCHANGED <<aborts, warnings>>
          /\ abort' = IF Head(toHost).what = "WARN" THEN TRUE ELSE abort
      BY <1>3 DEF RxFrame, faultVars
    <2>2. Cardinality(OnTheirWay(toHost')) + (IF Head(toHost).what = "WARN" THEN 1 ELSE 0)
            <= Cardinality(OnTheirWay(toHost))
      BY <1>0, <1>3, OnTheirWayTail DEF RxFrame
    <2>3. Cardinality(OnTheirWay(toHost')) \in Nat
      BY <1>0, <1>3, TailFacts, OnTheirWayFinite DEF RxFrame
    <2> QED BY SMTT(40), <1>0, <1>a, <2>1, <2>2, <2>3
  <1>4. CASE DevWarns
    <2>1. aborts' = aborts /\ abort' = abort /\ warnings' = warnings + 1
      BY <1>4 DEF DevWarns, boxVars
    <2>2. Cardinality(OnTheirWay(toHost')) = Cardinality(OnTheirWay(toHost)) + 1
      BY <1>0, <1>4, SaidCounts DEF DevWarns
    <2> QED BY <1>0, <1>a, <2>1, <2>2
  <1>5. ASSUME NEW what \in Answers, NEW to \in 1 .. MaxCalls, Say(what, to),
               UNCHANGED <<abort, aborts, warnings>>
        PROVE  WarningInv'
    <2>1. Cardinality(OnTheirWay(toHost')) = Cardinality(OnTheirWay(toHost))
      BY <1>0, <1>a, <1>5, SaidCounts, AnswersAreNoWarnings
    <2> QED BY <1>5, <2>1
  <1>6. CASE DevAnswersCmd
    <2>1. dev.for \in 1 .. MaxCalls BY <1>0, <1>6 DEF DevAnswersCmd
    <2> QED BY <1>5, <1>6, <2>1 DEF DevAnswersCmd, boxVars, faultVars, Answers
  <1>7. CASE DevTakesDownload
    <2>1. Head(toDev).of \in 1 .. MaxCalls
      BY <1>0, <1>7, NextMessage DEF DevTakesDownload, Message
    <2> QED BY <1>5, <1>7, <2>1 DEF DevTakesDownload, boxVars, faultVars, Answers
  <1>8. CASE DevTakesChunk
    <2>1. dev.for \in 1 .. MaxCalls BY <1>0, <1>8 DEF DevTakesChunk
    <2>2. CASE UNCHANGED toHost BY <1>1, <1>8, <2>2 DEF DevTakesChunk, boxVars, faultVars
    <2>3. CASE \E what \in {"OKAY", "FAIL"} : Say(what, dev.for)
      BY <1>5, <1>8, <2>1, <2>3 DEF DevTakesChunk, boxVars, faultVars, Answers
    <2> QED BY <1>8, <2>2, <2>3 DEF DevTakesChunk
  <1>9. CASE DevTakesHello
    <2>1. Head(toDev).of \in 1 .. MaxCalls
      BY <1>0, <1>9, NextMessage DEF DevTakesHello, Message
    <2> QED BY <1>5, <1>9, <2>1 DEF DevTakesHello, boxVars, faultVars, Answers
  <1>10. ASSUME NEW o \in Ops, Start(o) PROVE WarningInv'
    BY <1>1, <1>10 DEF Start, devVars, faultVars
  <1>11. CASE WriteFails \/ Deadline
    BY <1>1, <1>11 DEF WriteFails, Deadline, boxVars, devVars
  <1>12. CASE ClearSlot \/ WriteRequest \/ WriteChunk \/ PollAnswered \/ PollNothing
    BY <1>1, <1>12
    DEF ClearSlot, WriteRequest, WriteChunk, PollAnswered, PollNothing, boxVars, devVars, faultVars
  <1>13. CASE SeeDone \/ Sleep \/ ReadCmd \/ ReadDownload \/ ReadHandshake
    BY <1>1, <1>13
    DEF SeeDone, Sleep, ReadCmd, ReadDownload, ReadHandshake, boxVars, devVars, faultVars
  <1>14. CASE Close \/ RxStop \/ DevTakesCmd \/ DevIgnores
    BY <1>1, <1>14 DEF Close, RxStop, DevTakesCmd, DevIgnores, boxVars, devVars, faultVars
  <1>15. CASE SessionOver \/ UNCHANGED vars
    BY <1>1, <1>15 DEF SessionOver, vars, boxVars, devVars, faultVars
  <1> QED
    BY <1>2, <1>3, <1>4, <1>6, <1>7, <1>8, <1>9, <1>10, <1>11, <1>12, <1>13, <1>14, <1>15
    DEF Next, CallerStep, DeviceStep

(* However late it is read, and whatever operation finds it, a warning of  *)
(* the device fails one operation at most (session.go:162-167).            *)
THEOREM WarningsFailOnce == Spec => []WarningFailsOnce
  <1>1. Init => WarningInv
    <2>1. OnTheirWay(<< >>) = {} BY DEF OnTheirWay
    <2> QED BY <2>1, FS_EmptySet DEF Init, WarningInv, ReasonsSet
  <1>2. SessionInv /\ WarningInv /\ [Next]_vars => WarningInv' BY StepWarningInv
  <1>3. SessionInv /\ WarningInv => WarningFailsOnce
    <2> SUFFICES ASSUME SessionInv, WarningInv PROVE WarningFailsOnce OBVIOUS
    <2>1. toHost \in Seq(Frame) /\ aborts \in Nat /\ warnings \in Nat
      BY SessionAssumption DEF SessionInv, TypeOK, DevTypes, FaultTypes
    <2>2. Cardinality(OnTheirWay(toHost)) \in Nat BY <2>1, OnTheirWayFinite
    <2> QED BY <2>1, <2>2 DEF WarningInv, ReasonsSet, WarningFailsOnce
  <1> QED BY <1>1, <1>2, <1>3, AlwaysSessionInv, PTL DEF Spec

-----------------------------------------------------------------------------
(* Every step of the session is one of the channel, or none.               *)
LEMMA InitChannel == Init => Channel!Init
  BY DEF Init, Channel!Init

LEMMA StepChannel == SessionInv /\ [Next]_vars => [Channel!Next]_(Channel!channelVars)
  <1> SUFFICES ASSUME SessionInv, [Next]_vars PROVE [Channel!Next]_(Channel!channelVars) OBVIOUS
  <1> USE DEF Channel!channelVars
  <1>0. HostTypes /\ BoxTypes /\ ShapeInv /\ OrderInv /\ TunedInv /\ call \in Nat
    BY SessionAssumption DEF SessionInv, TypeOK, HostTypes
  <1>1. ASSUME NEW o \in Ops, Start(o) PROVE Channel!Call
    BY <1>1 DEF Start, Channel!Call
  <1>2. ASSUME Return(FALSE, 0), pc # "idle", UNCHANGED call, trusted' = trusted \/ trusted' = FALSE
        PROVE  Channel!ReturnError
    BY <1>2 DEF Return, Channel!ReturnError, Channel!Return
  <1>3. CASE WriteFails \/ PollAborted \/ SeeDone \/ Deadline
    <2>1. Return(FALSE, 0) /\ pc # "idle" /\ UNCHANGED call /\ trusted' = FALSE
      BY <1>3 DEF WriteFails, PollAborted, SeeDone, Deadline
    <2> QED BY <1>2, <2>1 DEF Channel!Next
  (* An answer is read: its own, or where the channel is not sound any.    *)
  <1>4. ASSUME Return(TRUE, slot.to), pc = "read", UNCHANGED call,
               \/ trusted' = trusted
               \/ slot.to = call /\ trusted' = TRUE
        PROVE  Channel!ReturnAnswer \/ Channel!ReturnStray
    <2>1. slot.to \in 1 .. call
      BY <1>0, <1>4, SessionAssumption DEF ShapeInv, BoxTypes, OrderInv, UpTo
    <2>2. CASE slot.to = call
      BY <1>4, <2>2 DEF Return, Channel!ReturnAnswer, Channel!Return
    <2>3. CASE slot.to # call
      <3>1. ~ trusted BY <1>0, <1>4, <2>3, ReadInTune DEF InTune
      <3> QED BY <1>4, <2>1, <2>3, <3>1 DEF Return, Channel!ReturnStray, Channel!Return
    <2> QED BY <2>2, <2>3
  <1>5. CASE ReadCmd
    BY <1>4, <1>5 DEF ReadCmd, Channel!Next
  <1>6. CASE ReadDownload
    <2>1. pc = "read" /\ UNCHANGED <<call, trusted>> BY <1>6 DEF ReadDownload
    <2>2. CASE Return(TRUE, slot.to) BY <1>4, <2>1, <2>2 DEF Channel!Next
    <2>3. CASE Return(FALSE, 0) BY <1>2, <2>1, <2>3 DEF Channel!Next
    <2>4. CASE pc' = "clear" /\ UNCHANGED outcome BY <2>1, <2>4
    <2> QED BY <1>6, <2>2, <2>3, <2>4 DEF ReadDownload
  <1>7. CASE ReadHandshake
    <2>1. pc = "read" /\ UNCHANGED call BY <1>7 DEF ReadHandshake
    <2>2. CASE pc' = "write" /\ UNCHANGED <<outcome, trusted>> BY <2>1, <2>2
    <2>3. CASE Return(TRUE, slot.to) /\ trusted' = (trusted \/ (sent = 1 /\ slot.to = call))
      <3>1. trusted \in BOOLEAN BY DEF SessionInv, TypeOK, FlagTypes
      <3>2. trusted' = trusted \/ (slot.to = call /\ trusted' = TRUE) BY <2>3, <3>1, Zenon
      <3> QED BY <1>4, <2>1, <2>3, <3>2 DEF Channel!Next
    <2> QED BY <1>7, <2>2, <2>3, Zenon DEF ReadHandshake
  (* The others neither begin nor end a call. *)
  <1>8. CASE ClearSlot \/ WriteRequest \/ WriteChunk \/ PollAnswered \/ PollNothing \/ Sleep
    <2>1. pc # "idle" /\ pc' # "idle" /\ UNCHANGED <<call, outcome, trusted>>
      BY <1>8 DEF ClearSlot, WriteRequest, WriteChunk, PollAnswered, PollNothing, Sleep
    <2> QED BY <2>1
  <1>9. CASE Outside \/ Close \/ RxStop \/ SessionOver \/ UNCHANGED vars
    <2>1. UNCHANGED hostVars
      BY <1>9, OutsideKeepsCaller DEF Close, RxStop, SessionOver, vars
    <2> QED BY <2>1 DEF hostVars
  <1> QED
    BY <1>1, <1>3, <1>5, <1>6, <1>7, <1>8, <1>9
    DEF Next, CallerStep, Outside, Channel!Next

(* The session is a CommandChannel, as far as safety goes: calls one at a  *)
(* time, and each return is an error or the answer to the call, or once a  *)
(* call was given up perhaps that to an earlier one.  That every call does *)
(* return needs fairness; ImplementsChannel is checked with it.            *)
THEOREM SessionIsChannel == Spec => Channel!Init /\ [][Channel!Next]_(Channel!channelVars)
  BY InitChannel, StepChannel, AlwaysSessionInv, PTL DEF Spec
=============================================================================
