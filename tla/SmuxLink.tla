------------------------------- MODULE SmuxLink -------------------------------
(***************************************************************************)
(* The SMUX link between host and device at the level of single bytes: the *)
(* device spells frames onto the bulk IN endpoint, the receive loop of     *)
(* startRxLoop (session.go) feeds them byte by byte to the parser of the   *)
(* session, and SmuxHandshake (smux.go) waits for two of the frames and    *)
(* replaces the parser between them, without synchronising with the loop.  *)
(*                                                                         *)
(* wire    frames not yet completely read; each carries the position up to *)
(*         which its encoding has been consumed                            *)
(* toDev   what the host has written and the device has not yet handled    *)
(* parser  s.parser                                                        *)
(* slot    s.cmdResponse; "response" stands for OKAY, DATA or FAIL         *)
(* pc      where SmuxHandshake stands                                      *)
(* lost    bytes discarded by bulk reads that timed out                    *)
(* chatter frames the device has sent without being asked                  *)
(* clean   history: the parser was made, each time, between two frames     *)
(***************************************************************************)
EXTENDS SmuxCodec

CONSTANTS
    Chatter,        \* the unsolicited frames: records [type, payload]
    MaxChatter,     \* bound on their number
    MaxWire,        \* bound on the frames on the wire
    MaxToDev,       \* bound on the messages waiting for the device
    MaxLost,        \* bound on the bytes lost
    DirtyStart,     \* may the session open while the device is inside a frame?
    PromptDevice    \* does a wait time out only when no answer is under way?

ASSUME LinkAssumption ==
    /\ Chatter \subseteq [type : FrameType, payload : Seq(Byte)]
    /\ MaxChatter \in Nat /\ MaxWire \in Nat /\ MaxToDev \in Nat /\ MaxLost \in Nat
    /\ DirtyStart \in BOOLEAN /\ PromptDevice \in BOOLEAN

VARIABLES wire, toDev, parser, slot, pc, lost, chatter, clean

vars == <<wire, toDev, parser, slot, pc, lost, chatter, clean>>

UABT == <<85, 65, 66, 84>>
OKAY == <<79, 75, 65, 89>>
DATA == <<68, 65, 84, 65>>
FAIL == <<70, 65, 73, 76>>
Mtu  == <<4, 0>>                                          \* 1024, big endian

Stage == {"open", "mark", "type", "data", "esc"}

WireFrame == [type : FrameType, payload : Seq(Byte), stage : Stage, k : Nat]

(* A frame about to be spelled, see smuxBuildFrame. *)
Fresh(t, payload) == [type |-> t, payload |-> payload, stage |-> "open", k |-> 0]

AtClose(f) == f.stage = "data" /\ f.k = Len(f.payload)

(* The byte of the encoding at the position of f; k payload bytes are out. *)
NextByte(f) ==
    CASE f.stage = "open" -> FrameDelimiter
      [] f.stage = "mark" -> EscChar
      [] f.stage = "type" -> Xor20(f.type)
      [] f.stage = "esc"  -> Xor20(f.payload[f.k + 1])
      [] f.stage = "data" -> IF AtClose(f) THEN FrameDelimiter
                             ELSE IF f.payload[f.k + 1] \in Special THEN EscChar
                             ELSE f.payload[f.k + 1]

Advance(f) ==
    CASE f.stage = "open" -> [f EXCEPT !.stage = IF f.type = STDIO THEN "data" ELSE "mark"]
      [] f.stage = "mark" -> [f EXCEPT !.stage = "type"]
      [] f.stage = "type" -> [f EXCEPT !.stage = "data"]
      [] f.stage = "esc"  -> [f EXCEPT !.stage = "data", !.k = @ + 1]
      [] f.stage = "data" -> IF f.payload[f.k + 1] \in Special
                               THEN [f EXCEPT !.stage = "esc"]
                               ELSE [f EXCEPT !.k = @ + 1]

(* The wire once the byte at its front has been taken off. *)
Consumed(w) == IF AtClose(w[1]) THEN Tail(w) ELSE [w EXCEPT ![1] = Advance(@)]

isExpectedResponse(text) == Len(text) >= 4 /\ SubSeq(text, 1, 4) \in {OKAY, DATA, FAIL}

(* Mutant: the wrong frame type is taken for the reply to HELLO. *)
Meaning_Hello(type, text) ==
    CASE type = STDIO /\ text = UABT -> "UABT"
      [] type = HELLO               -> "HELLO_REPLY"
      [] type \in {STDIO, ABOOT_CMD} /\ isExpectedResponse(text) -> "response"
      [] OTHER                      -> "nothing"

(* What a frame with a payload says to the receive loop. *)
Meaning(type, text) ==
    CASE type = STDIO /\ text = UABT -> "UABT"
      [] type = HELLO_REPLY         -> "HELLO_REPLY"
      [] type \in {STDIO, ABOOT_CMD} /\ isExpectedResponse(text) -> "response"
      [] OTHER                      -> "nothing"

(* What a frame handed over by the parser leaves in cmdResponse; an answer *)
(* nobody waits for replaces one that is waited for.                       *)
Received(p) ==
    LET said == Meaning(p.frametype, p.rx)
    IN  IF said = "nothing" THEN slot ELSE said

(* Every position inside f, for a session that opens on a device that is   *)
(* still talking.                                                          *)
Inside(f) ==
    {g \in [type : {f.type}, payload : {f.payload}, stage : Stage, k : 0 .. Len(f.payload)] :
        /\ (g.stage \in {"open", "mark", "type"}) => g.k = 0
        /\ (g.stage \in {"mark", "type"}) => g.type # STDIO
        /\ (g.stage = "esc") => /\ g.k < Len(g.payload)
                                /\ g.payload[g.k + 1] \in Special}

BetweenFrames == wire = << >> \/ Head(wire).stage = "open"

Init ==
    /\ wire \in {<< >>} \cup
                (IF DirtyStart
                   THEN {<<g>> : g \in UNION {Inside(Fresh(c.type, c.payload)) : c \in Chatter}}
                   ELSE {})
    /\ toDev = << >>
    /\ parser = NewParser
    /\ slot = "none"
    /\ pc = "down"
    /\ lost = 0
    /\ chatter = 0
    /\ clean = BetweenFrames

-----------------------------------------------------------------------------
(* The device (external): it answers UABT with UABT, HELLO with a          *)
(* HELLO_REPLY, and writes log lines and heart beats when it likes.        *)

DeviceAnswer ==
    /\ toDev # << >>
    /\ Len(wire) < MaxWire
    /\ wire' = Append(wire, IF Head(toDev) = "UABT" THEN Fresh(STDIO, UABT)
                                                     ELSE Fresh(HELLO_REPLY, Mtu))
    /\ toDev' = Tail(toDev)
    /\ UNCHANGED <<parser, slot, pc, lost, chatter, clean>>

DeviceChatter ==
    /\ chatter < MaxChatter
    /\ Len(wire) < MaxWire
    /\ \E c \in Chatter : wire' = Append(wire, Fresh(c.type, c.payload))
    /\ chatter' = chatter + 1
    /\ UNCHANGED <<toDev, parser, slot, pc, lost, clean>>

-----------------------------------------------------------------------------
(* The receive loop, started by the first handshake. *)

RxByte ==
    /\ pc # "down"
    /\ wire # << >>
    /\ LET c == NextByte(Head(wire)) IN
         /\ parser' = ProcessByte(parser, c)
         /\ slot' = IF Completes(parser, c) THEN Received(parser) ELSE slot
    /\ wire' = Consumed(wire)
    /\ UNCHANGED <<toDev, pc, lost, chatter, clean>>

(* BulkRead returned an error after its 5 s: the loop continues and the    *)
(* bytes the transfer had already taken are gone.                          *)
ReadTimeout ==
    /\ pc # "down"
    /\ wire # << >>
    /\ lost < MaxLost
    /\ lost' = lost + 1
    /\ wire' = Consumed(wire)
    /\ UNCHANGED <<toDev, parser, slot, pc, chatter, clean>>

-----------------------------------------------------------------------------
(* SmuxHandshake.  Nothing clears cmdResponse before either wait. *)

SendUABT ==
    /\ pc \in {"down", "up", "failed"}
    /\ Len(toDev) < MaxToDev
    /\ toDev' = Append(toDev, "UABT")
    /\ pc' = "awaitUABT"
    /\ UNCHANGED <<wire, parser, slot, lost, chatter, clean>>

GotUABT ==
    /\ pc = "awaitUABT"
    /\ slot = "UABT"
    /\ pc' = "resetParser"
    /\ UNCHANGED <<wire, toDev, parser, slot, lost, chatter, clean>>

(* s.parser = newSmuxParser() under s.mu, which the receive loop does not  *)
(* hold: it falls between any two bytes.                                   *)
ResetParser ==
    /\ pc = "resetParser"
    /\ parser' = NewParser
    /\ pc' = "sendHELLO"
    /\ clean' = (clean /\ BetweenFrames)
    /\ UNCHANGED <<wire, toDev, slot, lost, chatter>>

SendHELLO ==
    /\ pc = "sendHELLO"
    /\ Len(toDev) < MaxToDev
    /\ toDev' = Append(toDev, "HELLO")
    /\ pc' = "awaitReply"
    /\ UNCHANGED <<wire, parser, slot, lost, chatter, clean>>

GotReply ==
    /\ pc = "awaitReply"
    /\ slot = "HELLO_REPLY"
    /\ pc' = "up"
    /\ UNCHANGED <<wire, toDev, parser, slot, lost, chatter, clean>>

(* waitForResponse(5000, ...) looks at the slot before it looks at the     *)
(* clock, so it gives up only when the awaited answer is not there.        *)
HandshakeTimeout ==
    /\ \/ pc = "awaitUABT"  /\ slot # "UABT"
       \/ pc = "awaitReply" /\ slot # "HELLO_REPLY"
    /\ PromptDevice => wire = << >> /\ toDev = << >>
    /\ pc' = "failed"
    /\ UNCHANGED <<wire, toDev, parser, slot, lost, chatter, clean>>

Next ==
    \/ DeviceAnswer
    \/ DeviceChatter
    \/ RxByte
    \/ ReadTimeout
    \/ SendUABT
    \/ GotUABT
    \/ ResetParser
    \/ SendHELLO
    \/ GotReply
    \/ HandshakeTimeout

Spec == Init /\ [][Next]_vars

(* The device answers what it is asked, the receive loop reads what is     *)
(* there, SmuxHandshake runs to its end and a failed handshake is tried    *)
(* again.                                                                  *)
Fairness ==
    /\ WF_vars(DeviceAnswer)
    /\ WF_vars(RxByte)
    /\ WF_vars(pc = "failed" /\ SendUABT)
    /\ WF_vars(pc = "down" /\ SendUABT)
    /\ WF_vars(GotUABT \/ ResetParser \/ SendHELLO \/ GotReply)
    /\ WF_vars(HandshakeTimeout)

FairSpec == Spec /\ Fairness

-----------------------------------------------------------------------------
HostPc == {"down", "awaitUABT", "resetParser", "sendHELLO", "awaitReply", "up", "failed"}

(* Every variable has the shape of the Go state it stands for, and the     *)
(* buffer of the parser never holds more than rxbuf can.                   *)
TypeOK ==
    /\ wire \in Seq(WireFrame)
    /\ toDev \in Seq({"UABT", "HELLO"})
    /\ parser \in ParserState
    /\ Len(parser.rx) <= RxBufSize
    /\ slot \in {"none", "UABT", "HELLO_REPLY", "response"}
    /\ pc \in HostPc
    /\ lost \in 0 .. MaxLost
    /\ chatter \in 0 .. MaxChatter
    /\ clean \in BOOLEAN

(* rx is the part of the payload that has been sent, cut at the buffer.    *)
Holds(rx, payload, k) ==
    /\ Len(rx) = IF k <= RxBufSize THEN k ELSE RxBufSize
    /\ \A i \in 1 .. Len(rx) : rx[i] = payload[i]

(* As long as no byte is lost, a frame the parser completes is exactly the *)
(* frame the device is sending, its payload cut at the size of the buffer: *)
(* a parser replaced in the middle of a frame, or born in the middle of    *)
(* one, may miss frames but never makes one up (smux.go:74-139).           *)
NoForgedFrame ==
    (lost = 0 /\ wire # << >> /\ Completes(parser, NextByte(Head(wire))))
      => /\ AtClose(Head(wire))
         /\ parser.frametype = Head(wire).type
         /\ Holds(parser.rx, Head(wire).payload, Len(Head(wire).payload))

(* As long as no byte is lost and every parser of the session was made     *)
(* between two frames, a frame with a payload is completed by its last     *)
(* byte: what smuxBuildFrame spells, processByte never drops.              *)
NoLostFrame ==
    (/\ lost = 0 /\ clean
     /\ wire # << >> /\ AtClose(Head(wire)) /\ Head(wire).payload # << >>)
      => Completes(parser, NextByte(Head(wire)))

(* What is left of the encoding of f, as smuxBuildFrame would write it. *)
RestOf(f) ==
    LET data(k) == EscapeAll(SubSeq(f.payload, k + 1, Len(f.payload))) \o <<FrameDelimiter>>
    IN  CASE f.stage = "open" -> BuildFrame(f.type, f.payload)
          [] f.stage = "mark" -> TypeMark(f.type) \o data(0)
          [] f.stage = "type" -> Tail(TypeMark(f.type)) \o data(0)
          [] f.stage = "data" -> data(f.k)
          [] f.stage = "esc"  -> Tail(Escape(f.payload[f.k + 1])) \o data(f.k + 1)

(* The bytes the receive loop sees, one after the other, are those of the  *)
(* slice smuxBuildFrame returns (smux.go:37-52): the next byte followed by *)
(* what remains after it is what remained before.                          *)
WireSpellsBuildFrame ==
    \A i \in DOMAIN wire :
        RestOf(wire[i]) =
            <<NextByte(wire[i])>>
              \o (IF AtClose(wire[i]) THEN << >> ELSE RestOf(Advance(wire[i])))

(* The message a frame stands for once its payload is cut at the buffer; a *)
(* frame without payload says nothing, whatever its type.                  *)
Message(f) ==
    IF f.payload = << >> THEN "nothing"
    ELSE Meaning(f.type, SubSeq(f.payload, 1, IF Len(f.payload) <= RxBufSize
                                                THEN Len(f.payload) ELSE RxBufSize))

(* A parser in tune is inside a frame when the device is and outside when  *)
(* the device is.                                                          *)
Tuned(p, w) ==
    (p.state = "WAIT_START") <=> (w = << >> \/ Head(w).stage = "open")

Link == INSTANCE FrameLink
    WITH Answers   <- {"UABT", "HELLO_REPLY", "response"},
         Silence   <- "nothing",
         queue     <- [i \in DOMAIN wire |-> Message(wire[i])],
         tuned     <- Tuned(parser, wire),
         replacing <- pc = "resetParser",
         lossy     <- lost > 0

(* Bytes, escapes and a parser that is replaced at any moment add up to a  *)
(* link of whole messages: a parser in tune with the device hears all of   *)
(* them in order, one out of tune none, and which of the two it is changes *)
(* only when SmuxHandshake replaces it after UABT (session.go:206-257,     *)
(* smux.go:151-163).                                                       *)
ImplementsFrameLink == Link!Spec

(* As long as no byte is lost and every parser is made between two frames, *)
(* the session gets through SmuxHandshake again and again, whatever the    *)
(* device says in between (smux.go:141-188).                               *)
CleanLinkComesUp == [](lost = 0 /\ clean) => []<>(pc = "up")

(* A handshake that fails is retried on the same session (rehandshake,     *)
(* main.go:1642), and sooner or later the session is up again.             *)
RehandshakeRecovers == []<>(pc = "up")
=============================================================================
