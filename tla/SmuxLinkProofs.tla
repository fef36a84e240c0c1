---------------------------- MODULE SmuxLinkProofs ----------------------------
(***************************************************************************)
(* Proofs about SmuxLink, for every set of frames, every payload length,   *)
(* every buffer size and any number of frames, handshakes and parser       *)
(* replacements.                                                           *)
(*                                                                         *)
(* The argument: a parser is in one of two relations to the frame the      *)
(* device is spelling.  In phase, it is inside the frame exactly when the  *)
(* device is and has stored what the device has sent; out of phase, it is  *)
(* inside exactly when the device is between two frames, and then with an  *)
(* empty buffer.  A byte preserves each relation; a new parser is in one   *)
(* of them wherever the device stands, in the first if it stands between   *)
(* two frames.  Only a parser in phase completes a frame.  In whole        *)
(* messages that is FrameLink.  That the bytes are those of smuxBuildFrame *)
(* is a matter of the sums of the lengths of what smuxEscape writes, which *)
(* exist by an induction over a set of naturals.                           *)
(***************************************************************************)
EXTENDS SmuxLink, SequenceTheorems, WellFoundedInduction, TLAPS

-----------------------------------------------------------------------------
(* Facts about bytes. *)

(* Escaping a byte twice gives the byte back. *)
LEMMA Xor20Involutive ==
    ASSUME NEW b \in Byte
    PROVE  Xor20(b) \in Nat /\ Xor20(Xor20(b)) = b
  BY DEF Byte, Xor20

(* The escaped form of a special byte or of a frame type is a byte, and a  *)
(* frame type is not a special byte.                                       *)
LEMMA EscapedBytes ==
    /\ \A b \in Special \cup FrameType : Xor20(b) \in Byte
    /\ \A b \in Byte : Xor20(b) \in FrameType => Xor20(b) \notin Special
    /\ Special \subseteq Byte
    /\ FrameType \subseteq Byte
  BY DEF Byte, Xor20, Special, FrameType, FrameDelimiter, EscChar, STDIO, HEART_BEAT

-----------------------------------------------------------------------------
(* The two relations between a parser and the frame being spelled. *)

InPhase(p, f) ==
    /\ f.stage = "open" => p.state = "WAIT_START"
    /\ f.stage = "mark" => p.state = "IN_FRAME" /\ p.rx = << >>
    /\ f.stage = "type" => p.state = "IN_ESCAPE" /\ p.rx = << >>
    /\ f.stage = "data" => /\ p.state = "IN_FRAME"
                           /\ p.frametype = f.type
                           /\ Holds(p.rx, f.payload, f.k)
    /\ f.stage = "esc"  => /\ p.state = "IN_ESCAPE"
                           /\ p.frametype = f.type
                           /\ Holds(p.rx, f.payload, f.k)

EmptyInside(p) == p.state = "IN_FRAME" /\ p.rx = << >>

OutOfPhase(p, f) ==
    IF f.stage = "open" THEN EmptyInside(p) ELSE p.state = "WAIT_START"

WellFormed(f) ==
    /\ f.k <= Len(f.payload)
    /\ f.stage \in {"open", "mark", "type"} => f.k = 0
    /\ f.stage \in {"mark", "type"} => f.type # STDIO
    /\ f.stage = "esc" => f.k < Len(f.payload) /\ f.payload[f.k + 1] \in Special

(* Advance keeps a frame well formed. *)
LEMMA AdvanceWellFormed ==
    ASSUME NEW f \in WireFrame, WellFormed(f), ~ AtClose(f)
    PROVE  Advance(f) \in WireFrame /\ WellFormed(Advance(f))
  <1>1. CASE f.stage = "open" BY <1>1 DEF WireFrame, WellFormed, Advance, Stage
  <1>2. CASE f.stage = "mark" BY <1>2 DEF WireFrame, WellFormed, Advance, Stage
  <1>3. CASE f.stage = "type" BY <1>3 DEF WireFrame, WellFormed, Advance, Stage
  <1>4. CASE f.stage = "esc"
    <2>1. Advance(f) = [f EXCEPT !.stage = "data", !.k = @ + 1] BY <1>4 DEF Advance
    <2>2. f.k < Len(f.payload) BY <1>4 DEF WellFormed
    <2>3. Advance(f) = [type |-> f.type, payload |-> f.payload, stage |-> "data", k |-> f.k + 1]
      BY <2>1 DEF WireFrame
    <2>4. f.type \in FrameType /\ f.payload \in Seq(Byte) /\ f.k \in Nat BY DEF WireFrame
    <2>5. Advance(f) \in WireFrame BY <2>3, <2>4 DEF WireFrame, Stage
    <2>6. WellFormed(Advance(f)) BY <2>2, <2>3, <2>4 DEF WellFormed
    <2> QED BY <2>5, <2>6
  <1>5. CASE f.stage = "data"
    BY <1>5 DEF WireFrame, WellFormed, AtClose, Advance, Stage
  <1> QED BY <1>1, <1>2, <1>3, <1>4, <1>5 DEF WireFrame, Stage

(* The next byte is a byte. *)
LEMMA NextByteIsByte ==
    ASSUME NEW f \in WireFrame, WellFormed(f)
    PROVE  NextByte(f) \in Byte
  <1>1. f.type \in FrameType /\ f.payload \in Seq(Byte) /\ f.stage \in Stage /\ f.k \in Nat
    BY DEF WireFrame
  <1>2. f.stage \in {"data", "esc"} /\ ~ AtClose(f) => f.payload[f.k + 1] \in Byte
    BY <1>1 DEF WellFormed, AtClose
  <1>3. FrameDelimiter \in Byte /\ EscChar \in Byte
    BY DEF Byte, FrameDelimiter, EscChar
  <1> QED
    BY <1>1, <1>2, <1>3, EscapedBytes DEF NextByte, WellFormed, Stage, AtClose

(* One byte keeps the parser typed and inside its buffer. *)
LEMMA ProcessByteTyped ==
    ASSUME NEW p \in ParserState, NEW c \in Byte, Len(p.rx) <= RxBufSize
    PROVE  ProcessByte(p, c) \in ParserState /\ Len(ProcessByte(p, c).rx) <= RxBufSize
  <1>1. ASSUME NEW b \in Byte
        PROVE  Store(p.rx, b) \in Seq(Byte) /\ Len(Store(p.rx, b)) <= RxBufSize
    BY <1>1, RxBufSizeAssumption DEF Store, ParserState
  <1>2. STDIO \in FrameType BY DEF STDIO, FrameType, HEART_BEAT
  <1>3. Xor20(c) \in Special => Xor20(c) \in Byte BY EscapedBytes
  <1>4. CASE p.state = "WAIT_START"
    BY <1>2, <1>4, RxBufSizeAssumption DEF ProcessByte, InWaitStart, ParserState
  <1>5. CASE p.state = "IN_FRAME"
    <2>1. ProcessByte(p, c) = InFrame(p, c) BY <1>5 DEF ProcessByte
    <2>5. /\ p.frametype \in FrameType /\ p.rx \in Seq(Byte)
          /\ p = [state |-> p.state, frametype |-> p.frametype, rx |-> p.rx]
      BY DEF ParserState
    <2>2. CASE c = EscChar
      <3>1. InFrame(p, c) = [state |-> "IN_ESCAPE", frametype |-> p.frametype, rx |-> p.rx]
        BY <2>2, <2>5 DEF InFrame, EscChar, FrameDelimiter
      <3> QED BY <2>1, <2>5, <3>1 DEF ParserState
    <2>3. CASE c = FrameDelimiter
      <3>1. InFrame(p, c) = [state |-> "WAIT_START", frametype |-> p.frametype, rx |-> << >>]
        <4>1. InFrame(p, c) = [p EXCEPT !.state = "WAIT_START", !.rx = << >>]
          BY <2>3 DEF InFrame, EscChar, FrameDelimiter
        <4> QED BY <4>1, <2>5, Zenon
      <3> QED BY <2>1, <2>5, <3>1, RxBufSizeAssumption DEF ParserState
    <2>4. CASE c \notin Special
      BY <2>1, <2>4, <1>1 DEF InFrame, ParserState, Special
    <2> QED BY <2>2, <2>3, <2>4 DEF Special
  <1>6. CASE p.state = "IN_ESCAPE"
    BY <1>1, <1>2, <1>3, <1>6 DEF ProcessByte, InEscape, ParserState
  <1> QED BY <1>4, <1>5, <1>6 DEF ParserState

(* Storing the next payload byte keeps what has been sent. *)
LEMMA StoreHolds ==
    ASSUME NEW payload \in Seq(Byte), NEW k \in Nat, k < Len(payload),
           NEW rx \in Seq(Byte), Holds(rx, payload, k)
    PROVE  Holds(Store(rx, payload[k + 1]), payload, k + 1)
  <1>1. CASE k < RxBufSize
    <2>1. Len(rx) = k /\ Store(rx, payload[k + 1]) = Append(rx, payload[k + 1])
      BY <1>1, RxBufSizeAssumption DEF Holds, Store
    <2>2. Len(Append(rx, payload[k + 1])) = k + 1
      BY <2>1
    <2>3. \A i \in 1 .. k + 1 : Append(rx, payload[k + 1])[i] = payload[i]
      BY <2>1 DEF Holds
    <2> QED BY <1>1, <2>1, <2>2, <2>3, RxBufSizeAssumption DEF Holds
  <1>2. CASE k >= RxBufSize
    BY <1>2, RxBufSizeAssumption DEF Holds, Store
  <1> QED BY <1>1, <1>2, RxBufSizeAssumption

-----------------------------------------------------------------------------
(* A byte inside a frame keeps a parser in phase. *)
LEMMA InPhaseStep ==
    ASSUME NEW f \in WireFrame, WellFormed(f), ~ AtClose(f),
           NEW p \in ParserState, InPhase(p, f)
    PROVE  InPhase(ProcessByte(p, NextByte(f)), Advance(f))
  <1>1. /\ f.type \in FrameType /\ f.payload \in Seq(Byte)
        /\ f.stage \in Stage /\ f.k \in Nat /\ p.rx \in Seq(Byte)
    BY DEF WireFrame, ParserState
  <1>2. Holds(<< >>, f.payload, 0)
    BY RxBufSizeAssumption DEF Holds
  <1>3. CASE f.stage = "open"
    <2>1. ProcessByte(p, NextByte(f)) = [state |-> "IN_FRAME", frametype |-> STDIO, rx |-> << >>]
      BY <1>3 DEF InPhase, ProcessByte, NextByte, InWaitStart
    <2>2. f.k = 0 BY <1>3 DEF WellFormed
    <2>3. /\ Advance(f).stage = (IF f.type = STDIO THEN "data" ELSE "mark")
          /\ Advance(f).k = 0 /\ Advance(f).payload = f.payload /\ Advance(f).type = f.type
      BY <1>3, <2>2 DEF Advance, WireFrame
    <2> QED BY <2>1, <2>3, <1>2 DEF InPhase
  <1>4. CASE f.stage = "mark"
    <2>1. ProcessByte(p, NextByte(f)) = [p EXCEPT !.state = "IN_ESCAPE"]
      BY <1>4 DEF InPhase, ProcessByte, NextByte, InFrame, EscChar, FrameDelimiter
    <2>2. Advance(f).stage = "type" BY <1>4 DEF Advance, WireFrame
    <2> QED BY <1>4, <2>1, <2>2 DEF InPhase, ParserState
  <1>5. CASE f.stage = "type"
    <2>1. f.type \notin Special
      BY <1>1 DEF Special, FrameType, STDIO, HEART_BEAT, FrameDelimiter, EscChar
    <2>5. f.type \in Byte
      BY <1>1, EscapedBytes
    <2>6. Xor20(Xor20(f.type)) = f.type
      BY <2>5, Xor20Involutive
    <2>2. ProcessByte(p, NextByte(f)) = [p EXCEPT !.state = "IN_FRAME", !.frametype = f.type]
      BY <1>1, <1>5, <2>1, <2>6 DEF InPhase, ProcessByte, NextByte, InEscape
    <2>3. f.k = 0 BY <1>5 DEF WellFormed
    <2>4. Advance(f) = [f EXCEPT !.stage = "data"] BY <1>5 DEF Advance
    <2> QED BY <1>2, <1>5, <2>2, <2>3, <2>4 DEF InPhase, ParserState, WireFrame
  <1>6. CASE f.stage = "esc"
    <2> DEFINE b == f.payload[f.k + 1]
    <2>1. b \in Special /\ b \in Byte /\ f.k < Len(f.payload)
      BY <1>1, <1>6 DEF WellFormed
    <2>2. Xor20(Xor20(b)) = b BY <2>1, Xor20Involutive
    <2>3. ProcessByte(p, NextByte(f)) = [p EXCEPT !.state = "IN_FRAME", !.rx = Store(@, b)]
      BY <1>6, <2>1, <2>2 DEF InPhase, ProcessByte, NextByte, InEscape
    <2>4. Advance(f) = [f EXCEPT !.stage = "data", !.k = @ + 1] BY <1>6 DEF Advance
    <2>5. Holds(Store(p.rx, b), f.payload, f.k + 1)
      BY <1>1, <1>6, <2>1, StoreHolds DEF InPhase
    <2> QED BY <1>6, <2>3, <2>4, <2>5 DEF InPhase, ParserState, WireFrame
  <1>7. CASE f.stage = "data"
    <2> DEFINE b == f.payload[f.k + 1]
    <2>1. b \in Byte /\ f.k < Len(f.payload)
      BY <1>1, <1>7 DEF WellFormed, AtClose
    <2>2. CASE b \in Special
      <3>1. NextByte(f) = EscChar BY <1>7, <2>2 DEF NextByte
      <3>2. ProcessByte(p, NextByte(f)) = [p EXCEPT !.state = "IN_ESCAPE"]
        BY <1>7, <3>1 DEF InPhase, ProcessByte, InFrame, EscChar, FrameDelimiter
      <3>3. Advance(f) = [f EXCEPT !.stage = "esc"] BY <1>7, <2>2 DEF Advance
      <3> QED BY <1>7, <3>2, <3>3 DEF InPhase, ParserState, WireFrame
    <2>3. CASE b \notin Special
      <3>1. NextByte(f) = b BY <1>7, <2>3 DEF NextByte
      <3>2. ProcessByte(p, NextByte(f)) = [p EXCEPT !.rx = Store(@, b)]
        BY <1>7, <2>3, <3>1 DEF InPhase, ProcessByte, InFrame, Special
      <3>3. Advance(f) = [f EXCEPT !.k = @ + 1] BY <1>7, <2>3 DEF Advance
      <3>4. Holds(Store(p.rx, b), f.payload, f.k + 1)
        BY <1>1, <1>7, <2>1, StoreHolds DEF InPhase
      <3> QED BY <1>7, <3>2, <3>3, <3>4 DEF InPhase, ParserState, WireFrame
    <2> QED BY <2>2, <2>3
  <1> QED BY <1>1, <1>3, <1>4, <1>5, <1>6, <1>7 DEF Stage

(* A byte inside a frame keeps a parser out of phase; it completes nothing. *)
LEMMA OutOfPhaseStep ==
    ASSUME NEW f \in WireFrame, WellFormed(f), ~ AtClose(f),
           NEW p \in ParserState, OutOfPhase(p, f)
    PROVE  /\ OutOfPhase(ProcessByte(p, NextByte(f)), Advance(f))
           /\ ~ Completes(p, NextByte(f))
  <1>1. CASE f.stage = "open"
    <2>1. p.state = "IN_FRAME" /\ p.rx = << >> BY <1>1 DEF OutOfPhase, EmptyInside
    <2>2. ProcessByte(p, NextByte(f)) = [p EXCEPT !.state = "WAIT_START", !.rx = << >>]
      BY <1>1, <2>1 DEF ProcessByte, NextByte, InFrame, FrameDelimiter, EscChar
    <2>3. Advance(f).stage # "open" BY <1>1 DEF Advance, WireFrame
    <2> QED BY <2>1, <2>2, <2>3 DEF OutOfPhase, Completes, ParserState
  <1>2. CASE f.stage # "open"
    <2>1. p.state = "WAIT_START" BY <1>2 DEF OutOfPhase
    <2>2. NextByte(f) # FrameDelimiter
      <3>1. f.stage \in Stage /\ f.type \in FrameType BY DEF WireFrame
      <3>2. CASE f.stage = "mark" BY <3>2 DEF NextByte, EscChar, FrameDelimiter
      <3>3. CASE f.stage = "type"
        BY <3>1, <3>3 DEF NextByte, Xor20, FrameType, STDIO, HEART_BEAT, FrameDelimiter
      <3>4. CASE f.stage = "esc"
        BY <3>4 DEF NextByte, WellFormed, Special, Xor20, FrameDelimiter, EscChar
      <3>5. CASE f.stage = "data"
        BY <3>5 DEF NextByte, Special, FrameDelimiter, EscChar
      <3> QED BY <1>2, <3>1, <3>2, <3>3, <3>4, <3>5 DEF Stage
    <2>3. ProcessByte(p, NextByte(f)) = p BY <2>1, <2>2 DEF ProcessByte, InWaitStart
    <2>4. Advance(f).stage # "open"
      BY <1>2 DEF Advance, WireFrame, Stage
    <2> QED BY <2>1, <2>3, <2>4 DEF OutOfPhase, Completes
  <1> QED BY <1>1, <1>2

(* The closing delimiter leaves a parser in phase outside a frame and one  *)
(* out of phase inside an empty one.                                       *)
LEMMA CloseStep ==
    ASSUME NEW f \in WireFrame, AtClose(f), NEW p \in ParserState
    PROVE  /\ InPhase(p, f) => ProcessByte(p, NextByte(f)).state = "WAIT_START"
           /\ OutOfPhase(p, f) => /\ EmptyInside(ProcessByte(p, NextByte(f)))
                                  /\ ~ Completes(p, NextByte(f))
  <1>1. f.stage = "data" /\ NextByte(f) = FrameDelimiter BY DEF AtClose, NextByte
  <1>2. InPhase(p, f) => ProcessByte(p, NextByte(f)).state = "WAIT_START"
    BY <1>1 DEF InPhase, ProcessByte, InFrame, FrameDelimiter, EscChar, ParserState
  <1>3. OutOfPhase(p, f) => /\ EmptyInside(ProcessByte(p, NextByte(f)))
                            /\ ~ Completes(p, NextByte(f))
    BY <1>1 DEF OutOfPhase, EmptyInside, ProcessByte, InWaitStart, Completes
  <1> QED BY <1>2, <1>3

(* Only the closing delimiter completes a frame of a parser in phase, and  *)
(* what the parser then holds is the frame.                                *)
LEMMA InPhaseCompletes ==
    ASSUME NEW f \in WireFrame, WellFormed(f), NEW p \in ParserState, InPhase(p, f)
    PROVE  /\ Completes(p, NextByte(f)) => AtClose(f)
           /\ AtClose(f) => /\ p.frametype = f.type
                            /\ Holds(p.rx, f.payload, Len(f.payload))
           /\ AtClose(f) /\ f.payload # << >> => Completes(p, NextByte(f))
  <1>1. Completes(p, NextByte(f)) => AtClose(f)
    <2>1. f.stage \in Stage BY DEF WireFrame
    <2>2. f.stage = "open" => ~ Completes(p, NextByte(f)) BY DEF InPhase, Completes
    <2>3. f.stage = "mark" => ~ Completes(p, NextByte(f))
      BY DEF NextByte, Completes, EscChar, FrameDelimiter
    <2>4. f.stage \in {"type", "esc"} => ~ Completes(p, NextByte(f))
      BY DEF InPhase, Completes
    <2>5. f.stage = "data" /\ ~ AtClose(f) => ~ Completes(p, NextByte(f))
      BY DEF NextByte, Completes, Special, EscChar, FrameDelimiter
    <2> QED BY <2>1, <2>2, <2>3, <2>4, <2>5 DEF Stage
  <1>2. AtClose(f) => /\ p.frametype = f.type
                      /\ Holds(p.rx, f.payload, Len(f.payload))
    BY DEF AtClose, InPhase
  <1>3. AtClose(f) /\ f.payload # << >> => Completes(p, NextByte(f))
    <2> SUFFICES ASSUME AtClose(f), f.payload # << >>
                 PROVE  Completes(p, NextByte(f))
      OBVIOUS
    <2>1. NextByte(f) = FrameDelimiter /\ p.state = "IN_FRAME"
      BY DEF NextByte, AtClose, InPhase
    <2>2. f.payload \in Seq(Byte) /\ Len(f.payload) \in Nat /\ Len(f.payload) # 0
      BY DEF WireFrame
    <2>3. Len(p.rx) > 0 BY <1>2, <2>2, RxBufSizeAssumption DEF Holds
    <2> QED BY <2>1, <2>3 DEF Completes
  <1> QED BY <1>1, <1>2, <1>3

-----------------------------------------------------------------------------
(* The inductive invariant. *)

WireOK(w) ==
    \A i \in 1 .. Len(w) : WellFormed(w[i]) /\ (i # 1 => w[i].stage = "open")

InOnePhase(p, w) ==
    IF w = << >> THEN p.state = "WAIT_START" \/ EmptyInside(p)
                 ELSE InPhase(p, w[1]) \/ OutOfPhase(p, w[1])

InStep(p, w) == IF w = << >> THEN p.state = "WAIT_START" ELSE InPhase(p, w[1])

OutOfStep(p, w) == IF w = << >> THEN EmptyInside(p) ELSE OutOfPhase(p, w[1])

LinkInv ==
    /\ TypeOK
    /\ WireOK(wire)
    /\ lost = 0 => InOnePhase(parser, wire)
    /\ lost = 0 /\ clean => InStep(parser, wire)

(* A frame the device starts to spell. *)
LEMMA FreshFrame ==
    ASSUME NEW t \in FrameType, NEW payload \in Seq(Byte)
    PROVE  /\ Fresh(t, payload) \in WireFrame
           /\ WellFormed(Fresh(t, payload))
           /\ Fresh(t, payload).stage = "open"
  BY DEF Fresh, WireFrame, WellFormed, Stage

(* Appending such a frame disturbs no phase. *)
LEMMA AppendFresh ==
    ASSUME NEW w \in Seq(WireFrame), WireOK(w), NEW p \in ParserState,
           NEW t \in FrameType, NEW payload \in Seq(Byte)
    PROVE  /\ Append(w, Fresh(t, payload)) \in Seq(WireFrame)
           /\ WireOK(Append(w, Fresh(t, payload)))
           /\ InOnePhase(p, w) => InOnePhase(p, Append(w, Fresh(t, payload)))
           /\ InStep(p, w) => InStep(p, Append(w, Fresh(t, payload)))
  <1> DEFINE f == Fresh(t, payload)
             v == Append(w, f)
  <1>1. f \in WireFrame /\ WellFormed(f) /\ f.stage = "open" BY FreshFrame
  <1> HIDE DEF f
  <1>2. v \in Seq(WireFrame) /\ Len(v) = Len(w) + 1 /\ v # << >>
    BY <1>1
  <1>3. \A i \in 1 .. Len(w) : v[i] = w[i] BY <1>1
  <1>4. v[Len(w) + 1] = f BY <1>1
  <1>5. WireOK(v) BY <1>1, <1>2, <1>3, <1>4 DEF WireOK
  <1>6. CASE w = << >>
    <2>1. v[1] = f BY <1>4, <1>6
    <2> QED BY <1>1, <1>2, <1>5, <1>6, <2>1
            DEF InOnePhase, InStep, InPhase, OutOfPhase, EmptyInside, f
  <1>7. CASE w # << >>
    <2>1. v[1] = w[1] BY <1>3, <1>7
    <2> QED BY <1>2, <1>5, <1>7, <2>1 DEF InOnePhase, InStep, f
  <1> QED BY <1>6, <1>7

(* Taking the byte at the front off the wire. *)
LEMMA ConsumedWire ==
    ASSUME NEW w \in Seq(WireFrame), WireOK(w), w # << >>
    PROVE  Consumed(w) \in Seq(WireFrame) /\ WireOK(Consumed(w))
  <1>1. w[1] \in WireFrame /\ WellFormed(w[1]) BY DEF WireOK
  <1>2. CASE AtClose(w[1])
    <2>1. Consumed(w) = Tail(w) BY <1>2 DEF Consumed
    <2>2. /\ Tail(w) \in Seq(WireFrame) /\ Len(Tail(w)) = Len(w) - 1
          /\ \A i \in 1 .. Len(Tail(w)) : Tail(w)[i] = w[i + 1]
      OBVIOUS
    <2> QED BY <2>1, <2>2 DEF WireOK
  <1>3. CASE ~ AtClose(w[1])
    <2>1. Consumed(w) = [w EXCEPT ![1] = Advance(w[1])] BY <1>3 DEF Consumed
    <2>2. Advance(w[1]) \in WireFrame /\ WellFormed(Advance(w[1]))
      BY <1>1, <1>3, AdvanceWellFormed
    <2>3. /\ Consumed(w) \in Seq(WireFrame) /\ Len(Consumed(w)) = Len(w)
          /\ \A i \in 1 .. Len(w) : i # 1 => Consumed(w)[i] = w[i]
          /\ Consumed(w)[1] = Advance(w[1])
      BY <2>1, <2>2
    <2> QED BY <2>2, <2>3 DEF WireOK
  <1> QED BY <1>2, <1>3

(* The receive loop reads it: the phase is kept. *)
LEMMA ReadKeepsPhase ==
    ASSUME NEW w \in Seq(WireFrame), WireOK(w), w # << >>, NEW p \in ParserState,
           Len(p.rx) <= RxBufSize
    PROVE  LET q == ProcessByte(p, NextByte(w[1]))
           IN  /\ InOnePhase(p, w) => InOnePhase(q, Consumed(w))
               /\ InStep(p, w) => InStep(q, Consumed(w))
               /\ OutOfStep(p, w) => OutOfStep(q, Consumed(w))
  <1> DEFINE q == ProcessByte(p, NextByte(w[1]))
  <1>1. w[1] \in WireFrame /\ WellFormed(w[1]) BY DEF WireOK
  <1>2. CASE AtClose(w[1])
    <2>1. /\ InPhase(p, w[1]) => q.state = "WAIT_START"
          /\ OutOfPhase(p, w[1]) => EmptyInside(q)
      BY <1>1, <1>2, CloseStep
    <2>2. Consumed(w) = Tail(w) BY <1>2 DEF Consumed
    <2>3. CASE Tail(w) = << >>
      BY <2>1, <2>2, <2>3 DEF InOnePhase, InStep, OutOfStep
    <2>4. CASE Tail(w) # << >>
      <3>1. Len(w) >= 2 /\ Tail(w)[1] = w[2] BY <2>4
      <3>2. Tail(w)[1].stage = "open" BY <3>1 DEF WireOK
      <3>3. /\ q.state = "WAIT_START" => InPhase(q, Tail(w)[1])
            /\ EmptyInside(q) => OutOfPhase(q, Tail(w)[1])
        BY <3>2 DEF InPhase, OutOfPhase
      <3> QED BY <2>1, <2>2, <2>4, <3>3 DEF InOnePhase, InStep, OutOfStep
    <2> QED BY <2>3, <2>4
  <1>3. CASE ~ AtClose(w[1])
    <2>1. Consumed(w) = [w EXCEPT ![1] = Advance(w[1])] BY <1>3 DEF Consumed
    <2>2. Consumed(w) # << >> /\ Consumed(w)[1] = Advance(w[1])
      BY <2>1
    <2>3. InPhase(p, w[1]) => InPhase(q, Advance(w[1])) BY <1>1, <1>3, InPhaseStep
    <2>4. OutOfPhase(p, w[1]) => OutOfPhase(q, Advance(w[1])) BY <1>1, <1>3, OutOfPhaseStep
    <2> QED BY <2>2, <2>3, <2>4 DEF InOnePhase, InStep, OutOfStep
  <1> QED BY <1>2, <1>3

(* A new parser is in one of the two phases wherever the device stands. *)
LEMMA NewParserPhase ==
    ASSUME NEW w \in Seq(WireFrame), WireOK(w)
    PROVE  /\ NewParser \in ParserState
           /\ Len(NewParser.rx) <= RxBufSize
           /\ InOnePhase(NewParser, w)
           /\ (w = << >> \/ w[1].stage = "open") => InStep(NewParser, w)
  BY RxBufSizeAssumption
     DEF NewParser, ParserState, InOnePhase, InStep, InPhase, OutOfPhase, WireOK,
         EmptyInside, STDIO, FrameType, HEART_BEAT

(* Every frame the device may be inside of when the session opens. *)
LEMMA InsideFrames ==
    ASSUME NEW c \in Chatter, NEW g \in Inside(Fresh(c.type, c.payload))
    PROVE  g \in WireFrame /\ WellFormed(g)
  <1>1. c.type \in FrameType /\ c.payload \in Seq(Byte) BY LinkAssumption
  <1>2. /\ Fresh(c.type, c.payload).type = c.type
        /\ Fresh(c.type, c.payload).payload = c.payload
    BY DEF Fresh
  <1>3. /\ g.type = c.type /\ g.payload = c.payload /\ g.stage \in Stage
        /\ g.k \in 0 .. Len(c.payload)
        /\ g = [type |-> g.type, payload |-> g.payload, stage |-> g.stage, k |-> g.k]
        /\ (g.stage \in {"open", "mark", "type"}) => g.k = 0
        /\ (g.stage \in {"mark", "type"}) => g.type # STDIO
        /\ (g.stage = "esc") => g.k < Len(g.payload) /\ g.payload[g.k + 1] \in Special
    BY <1>2 DEF Inside
  <1>4. Len(c.payload) \in Nat BY <1>1
  <1>5. g \in WireFrame BY <1>1, <1>3, <1>4 DEF WireFrame
  <1>6. WellFormed(g) BY <1>3, <1>4 DEF WellFormed
  <1> QED BY <1>5, <1>6

LEMMA LinkInit == Init => LinkInv
  <1> SUFFICES ASSUME Init PROVE LinkInv OBVIOUS
  <1>1. wire = << >> \/ \E g \in WireFrame : WellFormed(g) /\ wire = <<g>>
    <2>1. CASE wire = << >> BY <2>1
    <2>2. CASE wire # << >>
      <3>1. PICK c \in Chatter : \E g \in Inside(Fresh(c.type, c.payload)) : wire = <<g>>
        BY <2>2 DEF Init
      <3>2. PICK g \in Inside(Fresh(c.type, c.payload)) : wire = <<g>> BY <3>1
      <3> QED BY <3>2, InsideFrames
    <2> QED BY <2>1, <2>2
  <1>2. wire \in Seq(WireFrame) /\ WireOK(wire)
    <2>1. CASE wire = << >> BY <2>1 DEF WireOK
    <2>2. ASSUME NEW g \in WireFrame, WellFormed(g), wire = <<g>>
          PROVE  wire \in Seq(WireFrame) /\ WireOK(wire)
      <3>1. Len(wire) = 1 /\ wire[1] = g BY <2>2
      <3> QED BY <2>2, <3>1 DEF WireOK
    <2> QED BY <1>1, <2>1, <2>2
  <1>3. parser = NewParser BY DEF Init
  <1>4. /\ parser \in ParserState /\ Len(parser.rx) <= RxBufSize
        /\ InOnePhase(parser, wire)
        /\ (wire = << >> \/ wire[1].stage = "open") => InStep(parser, wire)
    BY <1>2, <1>3, NewParserPhase
  <1>5. clean => (wire = << >> \/ wire[1].stage = "open")
    <2>1. clean = BetweenFrames BY DEF Init
    <2>2. wire # << >> => Head(wire) = wire[1] BY <1>2
    <2> QED BY <2>1, <2>2 DEF BetweenFrames
  <1>6. TypeOK
    <2>1. toDev = << >> /\ pc = "down" /\ lost = 0 /\ chatter = 0 BY DEF Init
    <2>2. lost \in 0 .. MaxLost /\ chatter \in 0 .. MaxChatter BY <2>1, LinkAssumption DEF LinkAssumption
    <2>3. clean \in BOOLEAN BY DEF Init, BetweenFrames
    <2>4. toDev \in Seq({"UABT", "HELLO"}) BY <2>1
    <2>5. slot \in {"none", "UABT", "HELLO_REPLY", "response"} /\ pc \in HostPc BY <2>1 DEF Init, HostPc
    <2> QED BY <1>2, <1>4, <2>2, <2>3, <2>4, <2>5, Zenon DEF TypeOK
  <1> QED BY <1>2, <1>4, <1>5, <1>6 DEF LinkInv

LEMMA LinkStep == LinkInv /\ [Next]_vars => LinkInv'
  <1> SUFFICES ASSUME LinkInv, [Next]_vars PROVE LinkInv' OBVIOUS
  <1> USE DEF LinkInv
  <1>0. TypeOK BY DEF LinkInv
  <1>t. /\ wire \in Seq(WireFrame) /\ toDev \in Seq({"UABT", "HELLO"})
        /\ parser \in ParserState /\ Len(parser.rx) <= RxBufSize
        /\ lost \in Nat /\ chatter \in Nat
    <2>1. lost \in 0 .. MaxLost /\ chatter \in 0 .. MaxChatter BY <1>0, Zenon DEF TypeOK
    <2>2. lost \in Nat /\ chatter \in Nat BY <2>1, LinkAssumption
    <2> QED BY <1>0, <2>2, Zenon DEF TypeOK
  <1>1. CASE DeviceAnswer
    <2>1. PICK t \in FrameType, pl \in Seq(Byte) : wire' = Append(wire, Fresh(t, pl))
      <3>1. UABT \in Seq(Byte) /\ Mtu \in Seq(Byte) BY DEF UABT, Mtu, Byte
      <3>2. STDIO \in FrameType /\ HELLO_REPLY \in FrameType
        BY DEF STDIO, HELLO_REPLY, FrameType, HEART_BEAT
      <3> QED BY <1>1, <3>1, <3>2 DEF DeviceAnswer
    <2>2. /\ wire' \in Seq(WireFrame) /\ WireOK(wire')
          /\ InOnePhase(parser, wire) => InOnePhase(parser, wire')
          /\ InStep(parser, wire) => InStep(parser, wire')
      BY <1>t, <2>1, AppendFresh
    <2>3. toDev' \in Seq({"UABT", "HELLO"}) BY <1>1, <1>t DEF DeviceAnswer
    <2> QED BY <1>0, <1>1, <2>2, <2>3 DEF DeviceAnswer, TypeOK
  <1>2. CASE DeviceChatter
    <2>1. PICK c \in Chatter : wire' = Append(wire, Fresh(c.type, c.payload))
      BY <1>2 DEF DeviceChatter
    <2>2. c.type \in FrameType /\ c.payload \in Seq(Byte) BY LinkAssumption
    <2>3. /\ wire' \in Seq(WireFrame) /\ WireOK(wire')
          /\ InOnePhase(parser, wire) => InOnePhase(parser, wire')
          /\ InStep(parser, wire) => InStep(parser, wire')
      BY <1>t, <2>1, <2>2, AppendFresh
    <2>4. chatter' \in 0 .. MaxChatter BY <1>2, <1>t, LinkAssumption DEF DeviceChatter
    <2> QED BY <1>0, <1>2, <2>3, <2>4 DEF DeviceChatter, TypeOK
  <1>3. CASE RxByte
    <2>1. wire # << >> /\ wire' = Consumed(wire) BY <1>3 DEF RxByte
    <2>2. wire' \in Seq(WireFrame) /\ WireOK(wire') BY <1>t, <2>1, ConsumedWire
    <2>3. parser' = ProcessByte(parser, NextByte(wire[1])) BY <1>3, <1>t, <2>1 DEF RxByte
    <2>4. wire[1] \in WireFrame /\ WellFormed(wire[1]) BY <1>t, <2>1 DEF WireOK
    <2>5. NextByte(wire[1]) \in Byte BY <2>4, NextByteIsByte
    <2>6. parser' \in ParserState /\ Len(parser'.rx) <= RxBufSize
      BY <1>t, <2>3, <2>5, ProcessByteTyped
    <2>7. /\ InOnePhase(parser, wire) => InOnePhase(parser', wire')
          /\ InStep(parser, wire) => InStep(parser', wire')
      BY <1>t, <2>1, <2>3, ReadKeepsPhase
    <2>8. slot' \in {"none", "UABT", "HELLO_REPLY", "response"} BY <1>0, <1>3 DEF RxByte, Received, Meaning, TypeOK
    <2> QED BY <1>0, <1>3, <2>2, <2>6, <2>7, <2>8 DEF RxByte, TypeOK
  <1>4. CASE ReadTimeout
    <2>1. wire # << >> /\ wire' = Consumed(wire) BY <1>4 DEF ReadTimeout
    <2>2. wire' \in Seq(WireFrame) /\ WireOK(wire') BY <1>t, <2>1, ConsumedWire
    <2>3. lost' \in 0 .. MaxLost /\ lost' # 0
      BY <1>4, <1>t, LinkAssumption DEF ReadTimeout
    <2> QED BY <1>0, <1>4, <2>2, <2>3 DEF ReadTimeout, TypeOK
  <1>5. CASE SendUABT
    <2>1. toDev' \in Seq({"UABT", "HELLO"}) BY <1>5, <1>t DEF SendUABT
    <2> QED BY <1>0, <1>5, <2>1 DEF SendUABT, TypeOK, HostPc
  <1>6. CASE GotUABT BY <1>0, <1>6 DEF GotUABT, TypeOK, HostPc
  <1>7. CASE ResetParser
    <2>1. parser' = NewParser /\ wire' = wire BY <1>7 DEF ResetParser
    <2>2. /\ parser' \in ParserState /\ Len(parser'.rx) <= RxBufSize
          /\ InOnePhase(parser', wire)
          /\ (wire = << >> \/ wire[1].stage = "open") => InStep(parser', wire)
      BY <1>t, <2>1, NewParserPhase
    <2>3. clean' = (clean /\ (wire = << >> \/ wire[1].stage = "open"))
      BY <1>7, <1>t DEF ResetParser, BetweenFrames
    <2>4. TypeOK'
      BY <1>0, <1>7, <2>2, <2>3 DEF ResetParser, TypeOK, HostPc
    <2> QED BY <1>7, <2>1, <2>2, <2>3, <2>4 DEF ResetParser
  <1>8. CASE SendHELLO
    <2>1. toDev' \in Seq({"UABT", "HELLO"}) BY <1>8, <1>t DEF SendHELLO
    <2> QED BY <1>0, <1>8, <2>1 DEF SendHELLO, TypeOK, HostPc
  <1>9. CASE GotReply BY <1>0, <1>9 DEF GotReply, TypeOK, HostPc
  <1>10. CASE HandshakeTimeout BY <1>0, <1>10 DEF HandshakeTimeout, TypeOK, HostPc
  <1>11. CASE UNCHANGED vars BY <1>0, <1>11 DEF vars, TypeOK
  <1> QED BY <1>1, <1>2, <1>3, <1>4, <1>5, <1>6, <1>7, <1>8, <1>9, <1>10, <1>11 DEF Next

LEMMA LinkInvSafe == LinkInv => NoForgedFrame /\ NoLostFrame
  <1> SUFFICES ASSUME LinkInv PROVE NoForgedFrame /\ NoLostFrame OBVIOUS
  <1>1. wire \in Seq(WireFrame) /\ parser \in ParserState /\ WireOK(wire)
    BY DEF LinkInv, TypeOK
  <1>2. CASE wire = << >> BY <1>2 DEF NoForgedFrame, NoLostFrame
  <1>3. CASE wire # << >>
    <2> DEFINE f == Head(wire)
    <2>1. f = wire[1] /\ f \in WireFrame /\ WellFormed(f) BY <1>1, <1>3 DEF WireOK
    <2>2. lost = 0 => InPhase(parser, f) \/ OutOfPhase(parser, f)
      BY <1>3, <2>1 DEF LinkInv, InOnePhase
    <2>3. lost = 0 /\ clean => InPhase(parser, f) BY <1>3, <2>1 DEF LinkInv, InStep
    <2>4. OutOfPhase(parser, f) => ~ Completes(parser, NextByte(f))
      BY <1>1, <2>1, OutOfPhaseStep, CloseStep
    <2>5. InPhase(parser, f) =>
            /\ Completes(parser, NextByte(f)) => AtClose(f)
            /\ AtClose(f) => /\ parser.frametype = f.type
                             /\ Holds(parser.rx, f.payload, Len(f.payload))
            /\ AtClose(f) /\ f.payload # << >> => Completes(parser, NextByte(f))
      BY <1>1, <2>1, InPhaseCompletes
    <2> HIDE DEF f
    <2>6. NoForgedFrame BY <2>2, <2>4, <2>5 DEF NoForgedFrame, f
    <2>7. NoLostFrame BY <2>3, <2>5 DEF NoLostFrame, f
    <2> QED BY <2>6, <2>7
  <1> QED BY <1>2, <1>3

(* Type correctness of the link, for every bound and every set of frames:  *)
(* in particular the parser never stores beyond rxbuf (smux.go:94-98).     *)
THEOREM LinkTypeCorrect == Spec => []TypeOK
  <1>1. LinkInv => TypeOK BY DEF LinkInv
  <1> QED BY <1>1, LinkInit, LinkStep, PTL DEF Spec

(* A parser of a link that loses no byte never hands the receive loop a    *)
(* frame that was not sent, however often SmuxHandshake replaces it.       *)
THEOREM LinkNeverForges == Spec => []NoForgedFrame
  BY LinkInit, LinkStep, LinkInvSafe, PTL DEF Spec

(* If in addition every parser was made between two frames, no frame with  *)
(* a payload is missed: processByte inverts smuxBuildFrame.                *)
THEOREM LinkNeverLoses == Spec => []NoLostFrame
  BY LinkInit, LinkStep, LinkInvSafe, PTL DEF Spec

-----------------------------------------------------------------------------
(* What FlattenSeq computes, by induction on the number of sequences.  The *)
(* predicate of the induction is a set, so that no operator is a parameter *)
(* and the well-foundedness of < is all it rests on.                       *)

(* A set of naturals that has 0 and the successor of each of its members   *)
(* is Nat: induction, for a set in place of a predicate.                   *)
LEMMA SetInduction ==
    ASSUME NEW T \in SUBSET Nat, 0 \in T, \A n \in T : n + 1 \in T
    PROVE  T = Nat
  <1> DEFINE R == {ss \in Nat \X Nat : ss[1] < ss[2]}
  <1>1. IsWellFoundedOn(R, Nat) BY NatLessThanWellFounded DEF OpToRel
  <1> SUFFICES ASSUME Nat \ T # {} PROVE FALSE OBVIOUS
  <1>2. PICK n \in Nat \ T : \A m \in Nat \ T : ~ (<<m, n>> \in R)
    <2> HIDE DEF R
    <2> QED BY <1>1, WFMin
  <1>3. n # 0 /\ n - 1 \in Nat /\ n - 1 + 1 = n BY <1>2
  <1>4. <<n - 1, n>> \in R BY <1>2, <1>3
  <1>5. n - 1 \in T BY <1>2, <1>3, <1>4
  <1> QED BY <1>2, <1>3, <1>5

(* Concatenation by another name, for steps that need nothing of it. *)
Cat(s, t) == s \o t

(* It keeps sequences, is associative and has the empty one for a zero.    *)
LEMMA CatFacts ==
    ASSUME NEW S
    PROVE  /\ \A a, b \in Seq(S) : Cat(a, b) \in Seq(S)
           /\ \A a, b, c \in Seq(S) : Cat(Cat(a, b), c) = Cat(a, Cat(b, c))
           /\ \A a \in Seq(S) : Cat(a, << >>) = a
  <1>1. ASSUME NEW a \in Seq(S), NEW b \in Seq(S), NEW c \in Seq(S)
        PROVE  (a \o b) \o c = a \o (b \o c)
    BY ONLY <1>1
  <1>2. ASSUME NEW a \in Seq(S), NEW b \in Seq(S) PROVE a \o b \in Seq(S)
    BY ConcatProperties, Zenon
  <1>3. ASSUME NEW a \in Seq(S) PROVE a \o << >> = a
    BY ConcatEmptySeq, Zenon
  <1> QED BY <1>1, <1>2, <1>3, Zenon DEF Cat

(* The sums of FlattenSeq, one sequence more at a time. *)
Sums(seqs, F) ==
    F = [i \in 1 .. Len(seqs) |-> IF i = 1 THEN seqs[i] ELSE Cat(F[i - 1], seqs[i])]

(* The recursive definition of the sums has a solution. *)
LEMMA SumsExist ==
    ASSUME NEW S, NEW seqs \in Seq(Seq(S))
    PROVE  \E F : Sums(seqs, F)
  <1> DEFINE Upto(n, F) ==
               F = [i \in 1 .. n |-> IF i = 1 THEN seqs[i] ELSE Cat(F[i - 1], seqs[i])]
             T == {n \in Nat : \E F : Upto(n, F)}
  <1>1. 0 \in T
    <2>1. Upto(0, [i \in 1 .. 0 |-> i]) OBVIOUS
    <2> QED BY <2>1
  <1>2. ASSUME NEW n \in T PROVE n + 1 \in T
    <2>1. PICK F : Upto(n, F) BY <1>2
    <2> DEFINE G == [i \in 1 .. n + 1 |-> IF i = 1 THEN seqs[1]
                                          ELSE IF i = n + 1 THEN Cat(F[n], seqs[i]) ELSE F[i]]
    <2>2. ASSUME NEW i \in 1 .. n + 1
          PROVE  G[i] = IF i = 1 THEN seqs[i] ELSE Cat(G[i - 1], seqs[i])
      <3>1. CASE i = 1 BY <3>1
      <3>2. CASE i # 1
        <4>0. i - 1 \in 1 .. n /\ i - 1 \in 1 .. n + 1 /\ i - 1 # n + 1 /\ n \in Nat BY <3>2
        <4>1. G[i - 1] = F[i - 1]
          BY <4>0, <2>1, Zenon
        <4>2. CASE i = n + 1
          <5>1. i - 1 = n BY <4>2
          <5>2. G[i] = Cat(F[n], seqs[i]) BY <3>2, <4>2
          <5> QED BY <5>1, <5>2, <4>1, <3>2
        <4>3. CASE i # n + 1
          <5>1. i \in 1 .. n BY <4>3
          <5>2. G[i] = F[i] BY <3>2, <4>3
          <5>3. F[i] = Cat(F[i - 1], seqs[i]) BY <5>1, <2>1, <3>2
          <5> QED BY <5>2, <5>3, <4>1, <3>2
        <4> QED BY <4>2, <4>3
      <3> QED BY <3>1, <3>2
    <2>3. G = [i \in 1 .. n + 1 |-> G[i]] OBVIOUS
    <2> HIDE DEF G
    <2>4. G = [i \in 1 .. n + 1 |-> IF i = 1 THEN seqs[i] ELSE Cat(G[i - 1], seqs[i])]
      BY <2>2, <2>3
    <2>5. \E H : Upto(n + 1, H) BY <2>4
    <2> HIDE DEF Upto
    <2> QED BY <2>5
  <1> HIDE DEF T
  <1>3. T = Nat BY <1>1, <1>2, SetInduction DEF T
  <1>4. Len(seqs) \in T BY <1>3
  <1>5. \E F : Upto(Len(seqs), F) BY <1>4, Zenon DEF T
  <1> QED BY <1>5, Zenon DEF Sums

(* FlattenSeq is the last of the sums. *)
LEMMA FlattenIsSum ==
    ASSUME NEW S, NEW seqs \in Seq(Seq(S)), seqs # << >>
    PROVE  \E F : Sums(seqs, F) /\ FlattenSeq(seqs) = F[Len(seqs)]
  <1>1. Len(seqs) # 0 OBVIOUS
  <1> DEFINE F == CHOOSE F : Sums(seqs, F)
  <1>2. FlattenSeq(seqs) = F[Len(seqs)] BY <1>1, Zenon DEF FlattenSeq, Sums, Cat
  <1>3. Sums(seqs, F) BY SumsExist
  <1> QED BY <1>2, <1>3

(* The first sum, and each of the others from the one before it. *)
LEMMA SumsAt ==
    ASSUME NEW S, NEW seqs \in Seq(S), NEW F, Sums(seqs, F)
    PROVE  /\ seqs # << >> => F[1] = seqs[1]
           /\ \A i \in 1 .. Len(seqs) - 1 : F[i + 1] = Cat(F[i], seqs[i + 1])
  <1>1. \A i \in 1 .. Len(seqs) : F[i] = IF i = 1 THEN seqs[i] ELSE Cat(F[i - 1], seqs[i])
    BY Zenon DEF Sums
  <1>2. seqs # << >> => 1 \in 1 .. Len(seqs) OBVIOUS
  <1>3. ASSUME NEW i \in 1 .. Len(seqs) - 1 PROVE F[i + 1] = Cat(F[i], seqs[i + 1])
    <2>1. i + 1 \in 1 .. Len(seqs) /\ i + 1 # 1 /\ i + 1 - 1 = i OBVIOUS
    <2> DEFINE j == i + 1
    <2>2. F[j] = Cat(F[j - 1], seqs[j])
      <3> HIDE DEF j
      <3> QED BY <1>1, <2>1, Zenon DEF j
    <2> QED BY <2>1, <2>2
  <1> QED BY <1>1, <1>2, <1>3

(* Each sum is a sequence. *)
LEMMA SumsTyped ==
    ASSUME NEW S, NEW seqs \in Seq(Seq(S)), NEW F, Sums(seqs, F)
    PROVE  \A i \in 1 .. Len(seqs) : F[i] \in Seq(S)
  <1> DEFINE T == {n \in Nat : n \in 1 .. Len(seqs) => F[n] \in Seq(S)}
  <1>f. /\ seqs # << >> => F[1] = seqs[1]
        /\ \A i \in 1 .. Len(seqs) - 1 : F[i + 1] = Cat(F[i], seqs[i + 1])
    BY SumsAt
  <1>1. 0 \in T OBVIOUS
  <1>2. ASSUME NEW n \in T PROVE n + 1 \in T
    <2> SUFFICES ASSUME n + 1 \in 1 .. Len(seqs) PROVE F[n + 1] \in Seq(S) OBVIOUS
    <2>1. seqs[n + 1] \in Seq(S) /\ seqs # << >> OBVIOUS
    <2>c. \A a, b \in Seq(S) : Cat(a, b) \in Seq(S) BY CatFacts
    <2>2. CASE n = 0 BY <1>f, <2>1, <2>2
    <2>3. CASE n # 0
      <3>1. n \in 1 .. Len(seqs) /\ n \in 1 .. Len(seqs) - 1 BY <2>3
      <3> QED BY <1>f, <2>1, <2>c, <3>1
    <2> QED BY <2>2, <2>3
  <1> HIDE DEF T
  <1>3. T = Nat BY <1>1, <1>2, SetInduction DEF T
  <1>4. ASSUME NEW i \in 1 .. Len(seqs) PROVE F[i] \in Seq(S)
    <2>1. i \in T BY <1>3
    <2> QED BY <2>1 DEF T
  <1> QED BY <1>4

(* A sequence taken out at the front comes first in every sum. *)
LEMMA SumsOfTail ==
    ASSUME NEW S, NEW seqs \in Seq(Seq(S)), seqs # << >>, NEW F, Sums(seqs, F),
           NEW G, Sums(Tail(seqs), G)
    PROVE  \A i \in 1 .. Len(seqs) - 1 : F[i + 1] = Cat(seqs[1], G[i])
  <1> DEFINE t == Tail(seqs)
             T == {n \in Nat : n \in 1 .. Len(seqs) - 1 => F[n + 1] = Cat(seqs[1], G[n])}
  <1>t. /\ t \in Seq(Seq(S)) /\ Len(t) = Len(seqs) - 1
        /\ \A i \in 1 .. Len(seqs) - 1 : t[i] = seqs[i + 1]
    OBVIOUS
  <1>f. /\ \A i \in 1 .. Len(seqs) : seqs[i] \in Seq(S)
        /\ F[1] = seqs[1]
        /\ \A i \in 1 .. Len(seqs) - 1 : F[i + 1] = Cat(F[i], seqs[i + 1])
    BY SumsAt
  <1>g. /\ \A i \in 1 .. Len(seqs) - 1 : G[i] \in Seq(S)
        /\ Len(seqs) > 1 => G[1] = seqs[2]
        /\ \A i \in 1 .. Len(seqs) - 2 : G[i + 1] = Cat(G[i], seqs[i + 2])
    <2>1. \A i \in 1 .. Len(t) : G[i] \in Seq(S) BY <1>t, SumsTyped, Zenon
    <2>2. /\ t # << >> => G[1] = t[1]
          /\ \A i \in 1 .. Len(t) - 1 : G[i + 1] = Cat(G[i], t[i + 1])
      BY <1>t, SumsAt, Zenon
    <2> HIDE DEF t
    <2>3. Len(seqs) > 1 => t # << >> /\ t[1] = seqs[2]
      <3>1. Len(seqs) > 1 => 1 \in 1 .. Len(seqs) - 1 /\ 1 + 1 = 2 OBVIOUS
      <3>2. Len(seqs) > 1 => t # << >> BY <1>t
      <3>3. Len(seqs) > 1 => t[1] = seqs[1 + 1] BY <1>t, <3>1
      <3> QED BY <3>1, <3>2, <3>3
    <2>4. \A i \in 1 .. Len(seqs) - 2 :
             i \in 1 .. Len(t) - 1 /\ t[i + 1] = seqs[i + 2]
      <3>1. ASSUME NEW i \in 1 .. Len(seqs) - 2
            PROVE  i \in 1 .. Len(t) - 1 /\ t[i + 1] = seqs[i + 2]
        <4>1. i + 1 \in 1 .. Len(seqs) - 1 /\ i + 1 + 1 = i + 2 OBVIOUS
        <4> QED BY SMTT(40), <1>t, <4>1
      <3> QED BY <3>1
    <2> QED BY <1>t, <2>1, <2>2, <2>3, <2>4
  <1>1. 0 \in T OBVIOUS
  <1>2. ASSUME NEW n \in T PROVE n + 1 \in T
    <2> SUFFICES ASSUME n + 1 \in 1 .. Len(seqs) - 1 PROVE F[n + 2] = Cat(seqs[1], G[n + 1])
      <3>1. n + 1 + 1 = n + 2 /\ n + 1 \in Nat OBVIOUS
      <3> QED BY <3>1
    <2>1. F[n + 2] = Cat(F[n + 1], seqs[n + 2]) BY <1>f
    <2>2. CASE n = 0 BY <1>f, <1>g, <2>1, <2>2
    <2>3. CASE n # 0
      <3>1. n \in 1 .. Len(seqs) - 1 /\ n \in 1 .. Len(seqs) - 2 /\ n + 2 \in 1 .. Len(seqs)
        BY <2>3
      <3>2. F[n + 1] = Cat(seqs[1], G[n]) BY <3>1
      <3>3. G[n + 1] = Cat(G[n], seqs[n + 2]) BY <1>g, <3>1
      <3>4. seqs[1] \in Seq(S) /\ G[n] \in Seq(S) /\ seqs[n + 2] \in Seq(S)
        BY <1>f, <1>g, <3>1
      <3>5. Cat(Cat(seqs[1], G[n]), seqs[n + 2]) = Cat(seqs[1], Cat(G[n], seqs[n + 2]))
        <4>1. \A a, b, c \in Seq(S) : Cat(Cat(a, b), c) = Cat(a, Cat(b, c)) BY CatFacts
        <4> QED BY <3>4, <4>1, Zenon
      <3> QED BY <2>1, <3>2, <3>3, <3>5
    <2> QED BY <2>2, <2>3
  <1> HIDE DEF T
  <1>3. T = Nat BY <1>1, <1>2, SetInduction DEF T
  <1>4. ASSUME NEW i \in 1 .. Len(seqs) - 1 PROVE F[i + 1] = Cat(seqs[1], G[i])
    <2>1. i \in T BY <1>3
    <2> QED BY <2>1 DEF T
  <1> QED BY <1>4

(* FlattenSeq concatenates, from the left as well. *)
LEMMA FlattenFromLeft ==
    ASSUME NEW S, NEW seqs \in Seq(Seq(S)), seqs # << >>
    PROVE  /\ FlattenSeq(seqs) \in Seq(S)
           /\ FlattenSeq(seqs) = seqs[1] \o FlattenSeq(Tail(seqs))
  <1>1. PICK F : Sums(seqs, F) /\ FlattenSeq(seqs) = F[Len(seqs)] BY FlattenIsSum
  <1>2. Len(seqs) \in 1 .. Len(seqs) /\ seqs[1] \in Seq(S) OBVIOUS
  <1>3. FlattenSeq(seqs) \in Seq(S) BY <1>1, <1>2, SumsTyped
  <1>t. Tail(seqs) \in Seq(Seq(S)) /\ Len(Tail(seqs)) = Len(seqs) - 1 OBVIOUS
  <1>4. CASE Len(seqs) = 1
    <2>1. FlattenSeq(seqs) = seqs[1] BY <1>1, <1>4, SumsAt
    <2>2. Len(Tail(seqs)) = 0 BY <1>t, <1>4
    <2>3. Tail(seqs) = << >> BY <1>t, <2>2, EmptySeq
    <2>4. FlattenSeq(Tail(seqs)) = << >> BY <2>2, <2>3, Zenon DEF FlattenSeq
    <2>5. Cat(seqs[1], << >>) = seqs[1] BY <1>2, CatFacts
    <2> QED BY <1>3, <2>1, <2>4, <2>5 DEF Cat
  <1>5. CASE Len(seqs) # 1
    <2>1. Len(seqs) \in Nat /\ Len(seqs) # 0 BY EmptySeq
    <2>a. ASSUME NEW n \in Nat, n # 0, n # 1
          PROVE  n - 1 \in 1 .. n - 1 /\ n - 1 + 1 = n /\ n - 1 # 0
      BY <2>a
    <2>2. /\ Len(seqs) - 1 \in 1 .. Len(seqs) - 1 /\ Len(seqs) - 1 + 1 = Len(seqs)
          /\ Len(seqs) - 1 # 0
      BY <1>5, <2>1, <2>a, Zenon
    <2>3. Tail(seqs) # << >> BY <1>t, <2>2, EmptySeq
    <2>4. PICK G : Sums(Tail(seqs), G) /\ FlattenSeq(Tail(seqs)) = G[Len(Tail(seqs))]
      BY <1>t, <2>3, FlattenIsSum, Zenon
    <2>5. \A i \in 1 .. Len(seqs) - 1 : F[i + 1] = Cat(seqs[1], G[i])
      BY <1>1, <2>4, SumsOfTail
    <2>6. F[Len(seqs) - 1 + 1] = Cat(seqs[1], G[Len(seqs) - 1]) BY <2>2, <2>5, Zenon
    <2>7. FlattenSeq(seqs) = Cat(seqs[1], FlattenSeq(Tail(seqs)))
      BY <1>1, <1>t, <2>2, <2>4, <2>6
    <2> QED BY <1>3, <2>7 DEF Cat
  <1> QED BY <1>4, <1>5

-----------------------------------------------------------------------------
(* What is left of a frame, byte by byte. *)

(* A byte escapes to a string of bytes. *)
LEMMA EscapeIsBytes ==
    ASSUME NEW b \in Byte
    PROVE  Escape(b) \in Seq(Byte) /\ Escape(b) # << >>
  <1>1. b \in Special => Xor20(b) \in Byte BY EscapedBytes
  <1>2. EscChar \in Byte BY DEF Byte, EscChar
  <1> QED BY <1>1, <1>2 DEF Escape

(* What is escaped from position k on is the escape of the next byte, and  *)
(* what is escaped after it.                                               *)
LEMMA EscapeAllFirst ==
    ASSUME NEW payload \in Seq(Byte), NEW k \in 0 .. Len(payload) - 1
    PROVE  LET rest(j) == EscapeAll(SubSeq(payload, j + 1, Len(payload)))
           IN  /\ rest(k) = Escape(payload[k + 1]) \o rest(k + 1)
               /\ rest(k) \in Seq(Byte)
  <1> DEFINE p == SubSeq(payload, k + 1, Len(payload))
             q == SubSeq(payload, k + 1 + 1, Len(payload))
             E(s) == [i \in DOMAIN s |-> Escape(s[i])]
  <1>1. /\ p \in Seq(Byte) /\ Len(p) = Len(payload) - k
        /\ \A i \in 1 .. Len(p) : p[i] = payload[k + i]
    OBVIOUS
  <1>2. /\ q \in Seq(Byte) /\ Len(q) = Len(payload) - k - 1
        /\ \A i \in 1 .. Len(q) : q[i] = payload[k + 1 + i]
    OBVIOUS
  <1>n. Len(payload) \in Nat /\ k \in Nat OBVIOUS
  <1> HIDE DEF p, q
  <1>3. ASSUME NEW s \in Seq(Byte)
        PROVE  /\ E(s) \in Seq(Seq(Byte)) /\ Len(E(s)) = Len(s)
               /\ \A i \in 1 .. Len(s) : E(s)[i] = Escape(s[i])
    <2>1. DOMAIN s = 1 .. Len(s) /\ Len(s) \in Nat OBVIOUS
    <2>2. \A i \in 1 .. Len(s) : Escape(s[i]) \in Seq(Byte)
      <3>1. \A i \in 1 .. Len(s) : s[i] \in Byte BY <2>1
      <3>2. \A b \in Byte : Escape(b) \in Seq(Byte) BY EscapeIsBytes
      <3> QED BY <3>1, <3>2
    <2> QED BY <2>1, <2>2
  <1> HIDE DEF E
  <1>4. E(p) # << >> BY <1>1, <1>3, <1>n, EmptySeq
  <1>5. /\ Tail(E(p)) \in Seq(Seq(Byte)) /\ Len(Tail(E(p))) = Len(p) - 1
        /\ \A i \in 1 .. Len(p) - 1 : Tail(E(p))[i] = E(p)[i + 1]
    <2>1. ASSUME NEW e \in Seq(Seq(Byte)), e # << >>
          PROVE  /\ Tail(e) \in Seq(Seq(Byte)) /\ Len(Tail(e)) = Len(e) - 1
                 /\ \A i \in 1 .. Len(e) - 1 : Tail(e)[i] = e[i + 1]
      BY <2>1, HeadTailProperties
    <2> QED BY <1>1, <1>3, <1>4, <2>1
  <1>6. Tail(E(p)) = E(q)
    <2>1. E(q) \in Seq(Seq(Byte)) /\ Len(E(q)) = Len(q) BY <1>2, <1>3
    <2>2. Len(Tail(E(p))) = Len(E(q)) BY <1>1, <1>2, <1>5, <1>n, <2>1
    <2>3. ASSUME NEW i \in 1 .. Len(E(q)) PROVE Tail(E(p))[i] = E(q)[i]
      <3>1. /\ i \in 1 .. Len(q) /\ i \in 1 .. Len(p) - 1 /\ i + 1 \in 1 .. Len(p)
            /\ k + (i + 1) = k + 1 + i
        BY <1>1, <1>2, <1>n, <2>1
      <3>2. E(q)[i] = Escape(payload[k + 1 + i]) BY <1>2, <1>3, <3>1
      <3>3. E(p)[i + 1] = Escape(payload[k + (i + 1)]) BY <1>1, <1>3, <3>1
      <3> QED BY <1>5, <3>1, <3>2, <3>3
    <2> QED BY <1>5, <2>1, <2>2, <2>3, SeqEqual
  <1>7. E(p)[1] = Escape(payload[k + 1])
    <2>1. 1 \in 1 .. Len(p) BY <1>1, <1>n
    <2> QED BY <1>1, <1>3, <2>1
  <1>8. E(p) \in Seq(Seq(Byte)) BY <1>1, <1>3
  <1>9. /\ FlattenSeq(E(p)) \in Seq(Byte)
        /\ FlattenSeq(E(p)) = E(p)[1] \o FlattenSeq(Tail(E(p)))
    BY <1>4, <1>8, FlattenFromLeft
  <1>10. EscapeAll(p) = FlattenSeq(E(p)) /\ EscapeAll(q) = FlattenSeq(E(q))
    BY Zenon DEF EscapeAll, E
  <1>11. EscapeAll(p) = Escape(payload[k + 1]) \o EscapeAll(q) /\ EscapeAll(p) \in Seq(Byte)
    BY <1>6, <1>7, <1>9, <1>10
  <1> QED BY <1>11, Zenon DEF p, q

(* A string of bytes escapes to a string of bytes. *)
LEMMA EscapeAllTyped ==
    /\ EscapeAll(<< >>) = << >>
    /\ \A payload \in Seq(Byte) : EscapeAll(payload) \in Seq(Byte)
  <1>1. EscapeAll(<< >>) = << >>
    <2>1. [i \in DOMAIN << >> |-> Escape(<< >>[i])] = << >> OBVIOUS
    <2>2. Len(<< >>) = 0 OBVIOUS
    <2> QED BY <2>1, <2>2, Zenon DEF EscapeAll, FlattenSeq
  <1>2. ASSUME NEW payload \in Seq(Byte) PROVE EscapeAll(payload) \in Seq(Byte)
    <2>1. CASE payload = << >> BY <1>1, <2>1
    <2>2. CASE payload # << >>
      <3>1. 0 \in 0 .. Len(payload) - 1 BY <2>2
      <3>2. EscapeAll(SubSeq(payload, 0 + 1, Len(payload))) \in Seq(Byte)
        BY <3>1, EscapeAllFirst
      <3>3. 0 + 1 = 1 /\ SubSeq(payload, 1, Len(payload)) = payload BY SubSeqFull
      <3> QED BY <3>2, <3>3
    <2> QED BY <2>1, <2>2
  <1> QED BY <1>1, <1>2

(* What is left of a frame: the payload from position k on, and the end.   *)
Left(payload, k) ==
    EscapeAll(SubSeq(payload, k + 1, Len(payload))) \o <<FrameDelimiter>>

(* It is the end only once the payload is out, and loses one byte at a     *)
(* time.                                                                   *)
LEMMA LeftFacts ==
    ASSUME NEW payload \in Seq(Byte)
    PROVE  /\ \A k \in 0 .. Len(payload) : Left(payload, k) \in Seq(Byte)
           /\ Left(payload, Len(payload)) = <<FrameDelimiter>>
           /\ Left(payload, 0) = EscapeAll(payload) \o <<FrameDelimiter>>
           /\ \A k \in 0 .. Len(payload) - 1 :
                 Left(payload, k) = Escape(payload[k + 1]) \o Left(payload, k + 1)
  <1> DEFINE n == Len(payload)
             E(k) == EscapeAll(SubSeq(payload, k + 1, n))
  <1>n. n \in Nat OBVIOUS
  <1>d. <<FrameDelimiter>> \in Seq(Byte) BY DEF Byte, FrameDelimiter
  <1>1. ASSUME NEW k \in 0 .. n PROVE E(k) \in Seq(Byte)
    <2>1. SubSeq(payload, k + 1, n) \in Seq(Byte) OBVIOUS
    <2> QED BY <2>1, EscapeAllTyped
  <1>2. E(n) = << >>
    <2>1. SubSeq(payload, n + 1, n) = << >> OBVIOUS
    <2> QED BY <2>1, EscapeAllTyped
  <1>3. E(0) = EscapeAll(payload)
    <2>1. 0 + 1 = 1 /\ SubSeq(payload, 1, n) = payload BY SubSeqFull
    <2> QED BY <2>1
  <1>4. ASSUME NEW k \in 0 .. n - 1
        PROVE  E(k) = Escape(payload[k + 1]) \o E(k + 1)
    BY <1>4, EscapeAllFirst
  <1>5. \A k : Left(payload, k) = E(k) \o <<FrameDelimiter>> BY Zenon DEF Left
  <1> HIDE DEF E
  <1>6. \A k \in 0 .. n : Left(payload, k) \in Seq(Byte)
    BY <1>1, <1>5, <1>d, ConcatProperties
  <1>7. Left(payload, n) = <<FrameDelimiter>>
    <2>1. << >> \o <<FrameDelimiter>> = <<FrameDelimiter>> OBVIOUS
    <2> QED BY <1>2, <1>5, <2>1
  <1>8. ASSUME NEW k \in 0 .. n - 1
        PROVE  Left(payload, k) = Escape(payload[k + 1]) \o Left(payload, k + 1)
    <2>1. k + 1 \in 0 .. n /\ payload[k + 1] \in Byte BY <1>n
    <2>2. Escape(payload[k + 1]) \in Seq(Byte) /\ E(k + 1) \in Seq(Byte)
      BY <1>1, <2>1, EscapeIsBytes
    <2>3. (Escape(payload[k + 1]) \o E(k + 1)) \o <<FrameDelimiter>>
            = Escape(payload[k + 1]) \o (E(k + 1) \o <<FrameDelimiter>>)
      <3>1. ASSUME NEW a \in Seq(Byte), NEW b \in Seq(Byte), NEW c \in Seq(Byte)
            PROVE  (a \o b) \o c = a \o (b \o c)
        BY ONLY <3>1
      <3> QED BY <1>d, <2>2, <3>1, ZenonT(60)
    <2> QED BY <1>4, <1>5, <2>3
  <1> QED BY <1>3, <1>5, <1>6, <1>7, <1>8

(* Two bytes, one after the other. *)
LEMMA TwoBytes ==
    \A x, y \in Byte, s \in Seq(Byte) :
        /\ Tail(<<x, y>>) = <<y>>
        /\ <<x, y>> \o s = <<x>> \o (Tail(<<x, y>>) \o s)
  <1> TAKE x, y \in Byte, s \in Seq(Byte)
  <1>1. Tail(<<x, y>>) = <<y>> OBVIOUS
  <1>2. <<x, y>> = <<x>> \o <<y>>
    <2>1. <<x>> \in Seq(Byte) /\ <<y>> \in Seq(Byte) /\ <<x, y>> \in Seq(Byte) OBVIOUS
    <2>2. Len(<<x>>) = 1 /\ Len(<<y>>) = 1 /\ Len(<<x, y>>) = 2 OBVIOUS
    <2>3. /\ <<x>> \o <<y>> \in Seq(Byte) /\ Len(<<x>> \o <<y>>) = 2
          /\ (<<x>> \o <<y>>)[1] = x /\ (<<x>> \o <<y>>)[2] = y
      BY <2>1, <2>2, ConcatProperties
    <2>4. <<x, y>>[1] = x /\ <<x, y>>[2] = y OBVIOUS
    <2>5. \A i \in 1 .. 2 : i = 1 \/ i = 2 OBVIOUS
    <2>6. \A i \in 1 .. Len(<<x, y>>) : <<x, y>>[i] = (<<x>> \o <<y>>)[i]
      BY <2>2, <2>3, <2>4, <2>5
    <2> QED BY <2>1, <2>2, <2>3, <2>6, SeqEqual
  <1>3. (<<x>> \o <<y>>) \o s = <<x>> \o (<<y>> \o s)
    <2>1. <<x>> \in Seq(Byte) /\ <<y>> \in Seq(Byte) OBVIOUS
    <2> QED BY ONLY <2>1, s \in Seq(Byte)
  <1> QED BY <1>1, <1>2, <1>3

(* The next byte, and what is left after it. *)
LEMMA FrameSpelled ==
    ASSUME NEW f \in WireFrame, WellFormed(f)
    PROVE  RestOf(f) =
             <<NextByte(f)>> \o (IF AtClose(f) THEN << >> ELSE RestOf(Advance(f)))
  <1> DEFINE t == f.type
             p == f.payload
  <1>t. /\ t \in FrameType /\ p \in Seq(Byte) /\ f.stage \in Stage /\ f.k \in Nat
        /\ f = [type |-> t, payload |-> p, stage |-> f.stage, k |-> f.k]
    <2>1. ASSUME NEW A, NEW B, NEW C, NEW D,
                 NEW g \in [type : A, payload : B, stage : C, k : D]
          PROVE  g.type \in A /\ g.payload \in B /\ g.stage \in C /\ g.k \in D
      BY ONLY <2>1
    <2>2. ASSUME NEW A, NEW B, NEW C, NEW D,
                 NEW g \in [type : A, payload : B, stage : C, k : D]
          PROVE  g = [type |-> g.type, payload |-> g.payload,
                      stage |-> g.stage, k |-> g.k]
      BY ONLY <2>2, ZenonT(60)
    <2> QED BY <2>1, <2>2, Zenon DEF WireFrame
  <1>r. ASSUME NEW g \in WireFrame
        PROVE  /\ g.stage = "open" => RestOf(g) = BuildFrame(g.type, g.payload)
               /\ g.stage = "mark" => RestOf(g) = TypeMark(g.type) \o Left(g.payload, 0)
               /\ g.stage = "type" => RestOf(g) = Tail(TypeMark(g.type)) \o Left(g.payload, 0)
               /\ g.stage = "data" => RestOf(g) = Left(g.payload, g.k)
               /\ g.stage = "esc" =>
                     RestOf(g) = Tail(Escape(g.payload[g.k + 1])) \o Left(g.payload, g.k + 1)
    BY DEF RestOf, Left
  <1>m. t # STDIO => /\ TypeMark(t) = <<EscChar, Xor20(t)>>
                     /\ EscChar \in Byte /\ Xor20(t) \in Byte
    <2>1. Xor20(t) \in Byte BY <1>t, EscapedBytes
    <2>2. EscChar \in Byte BY DEF EscChar, Byte
    <2> QED BY <2>1, <2>2 DEF TypeMark
  <1>a. Left(p, 0) \in Seq(Byte)
    <2>1. 0 \in 0 .. Len(p) BY <1>t
    <2> QED BY <1>t, <2>1, LeftFacts
  <1>x. EscChar \in Byte /\ \A b \in Special : Xor20(b) \in Byte
    <2>1. EscChar \in Byte BY DEF EscChar, Byte
    <2> QED BY <2>1, EscapedBytes
  <1>w. ~ AtClose(f) => Advance(f) \in WireFrame BY AdvanceWellFormed
  <1> HIDE DEF t, p
  <1>1. CASE f.stage = "open"
    <2>1. ~ AtClose(f) /\ NextByte(f) = FrameDelimiter BY <1>1 DEF AtClose, NextByte
    <2>2. f.k = 0 BY <1>1 DEF WellFormed
    <2>3. RestOf(f) = BuildFrame(t, p) BY <1>1, <1>r DEF t, p
    <2>4. /\ TypeMark(t) \in Seq(Byte) /\ EscapeAll(p) \in Seq(Byte)
          /\ <<FrameDelimiter>> \in Seq(Byte)
      <3>1. TypeMark(t) = << >> \/ t # STDIO BY DEF TypeMark
      <3>2. << >> \in Seq(Byte) OBVIOUS
      <3>4. t # STDIO => TypeMark(t) \in Seq(Byte)
        <4>1. \A x, y \in Byte : <<x, y>> \in Seq(Byte) OBVIOUS
        <4> QED BY <1>m, <4>1
      <3>5. FrameDelimiter \in Byte BY DEF Byte, FrameDelimiter
      <3>6. EscapeAll(p) \in Seq(Byte) BY <1>t, EscapeAllTyped
      <3>7. TypeMark(t) \in Seq(Byte) BY <3>1, <3>2, <3>4
      <3>8. <<FrameDelimiter>> \in Seq(Byte) BY <3>5
      <3> QED BY <3>6, <3>7, <3>8, Zenon
    <2>5. BuildFrame(t, p) = <<FrameDelimiter>> \o (TypeMark(t) \o Left(p, 0))
      <3>1. ASSUME NEW a \in Seq(Byte), NEW b \in Seq(Byte), NEW c \in Seq(Byte)
            PROVE  ((a \o b) \o c) \o a = a \o (b \o (c \o a))
        <4>1. (a \o b) \o c = a \o (b \o c) BY ONLY <3>1
        <4>2. b \o c \in Seq(Byte) BY ONLY <3>1, ConcatProperties
        <4>3. ASSUME NEW d \in Seq(Byte) PROVE (a \o d) \o a = a \o (d \o a)
          BY ONLY <3>1, <4>3
        <4>4. (b \o c) \o a = b \o (c \o a) BY ONLY <3>1
        <4> QED BY <4>1, <4>2, <4>3, <4>4, Zenon
      <3>2. BuildFrame(t, p) = ((<<FrameDelimiter>> \o TypeMark(t)) \o EscapeAll(p)) \o <<FrameDelimiter>>
        BY Zenon DEF BuildFrame
      <3>3. Left(p, 0) = EscapeAll(p) \o <<FrameDelimiter>> BY <1>t, LeftFacts
      <3>4. ((<<FrameDelimiter>> \o TypeMark(t)) \o EscapeAll(p)) \o <<FrameDelimiter>>
              = <<FrameDelimiter>> \o (TypeMark(t) \o (EscapeAll(p) \o <<FrameDelimiter>>))
        BY <2>4, <3>1
      <3> QED BY <3>2, <3>3, <3>4, Zenon
    <2>6. RestOf(Advance(f)) = TypeMark(t) \o Left(p, 0)
      <3>1. CASE t = STDIO
        <4>1. Advance(f) = [type |-> t, payload |-> p, stage |-> "data", k |-> 0]
          BY <1>1, <1>t, <2>2, <3>1 DEF Advance, t
        <4>2. RestOf(Advance(f)) = Left(p, 0) BY <1>r, <1>w, <2>1, <4>1
        <4>3. TypeMark(t) = << >> BY <3>1 DEF TypeMark
        <4>4. << >> \o Left(p, 0) = Left(p, 0) BY <1>a, ConcatEmptySeq
        <4> QED BY <4>2, <4>3, <4>4
      <3>2. CASE t # STDIO
        <4>1. Advance(f) = [type |-> t, payload |-> p, stage |-> "mark", k |-> 0]
          BY <1>1, <1>t, <2>2, <3>2 DEF Advance, t
        <4> QED BY <1>r, <1>w, <2>1, <4>1
      <3> QED BY <3>1, <3>2
    <2> QED BY <2>1, <2>3, <2>5, <2>6
  <1>2. CASE f.stage = "mark"
    <2>1. ~ AtClose(f) /\ NextByte(f) = EscChar BY <1>2 DEF AtClose, NextByte
    <2>2. f.k = 0 /\ t # STDIO BY <1>2 DEF WellFormed, t
    <2>3. Advance(f) = [type |-> t, payload |-> p, stage |-> "type", k |-> 0]
      BY <1>2, <1>t, <2>2 DEF Advance
    <2>4. RestOf(Advance(f)) = Tail(TypeMark(t)) \o Left(p, 0) BY <1>r, <1>w, <2>1, <2>3
    <2>5. RestOf(f) = TypeMark(t) \o Left(p, 0) BY <1>2, <1>r DEF t, p
    <2>6. TypeMark(t) \o Left(p, 0) = <<EscChar>> \o (Tail(TypeMark(t)) \o Left(p, 0))
      <3>1. <<EscChar, Xor20(t)>> \o Left(p, 0)
              = <<EscChar>> \o (Tail(<<EscChar, Xor20(t)>>) \o Left(p, 0))
        BY <1>a, <1>m, <2>2, TwoBytes, Zenon
      <3> QED BY <1>m, <2>2, <3>1, Zenon
    <2> QED BY <2>1, <2>4, <2>5, <2>6
  <1>3. CASE f.stage = "type"
    <2>1. ~ AtClose(f) /\ NextByte(f) = Xor20(t) BY <1>3 DEF AtClose, NextByte, t
    <2>2. f.k = 0 /\ t # STDIO BY <1>3 DEF WellFormed, t
    <2>3. Advance(f) = [type |-> t, payload |-> p, stage |-> "data", k |-> 0]
      BY <1>3, <1>t, <2>2 DEF Advance
    <2>4. RestOf(Advance(f)) = Left(p, 0) BY <1>r, <1>w, <2>1, <2>3
    <2>5. RestOf(f) = Tail(TypeMark(t)) \o Left(p, 0) BY <1>3, <1>r DEF t, p
    <2>6. Tail(TypeMark(t)) = <<Xor20(t)>> BY <1>a, <1>m, <2>2, TwoBytes
    <2> QED BY <2>1, <2>4, <2>5, <2>6
  <1>4. CASE f.stage = "data" /\ AtClose(f)
    <2>1. NextByte(f) = FrameDelimiter /\ f.k = Len(p) BY <1>4 DEF AtClose, NextByte, p
    <2>2. RestOf(f) = <<FrameDelimiter>>
      <3>1. RestOf(f) = Left(p, Len(p)) BY <1>4, <1>r, <2>1 DEF p
      <3> QED BY <1>t, <3>1, LeftFacts
    <2>3. <<FrameDelimiter>> \o << >> = <<FrameDelimiter>> OBVIOUS
    <2> QED BY <1>4, <2>1, <2>2, <2>3
  <1>5. CASE f.stage = "data" /\ ~ AtClose(f)
    <2>1. f.k \in 0 .. Len(p) - 1 BY <1>5, <1>t DEF AtClose, WellFormed, p
    <2>2. RestOf(f) = Left(p, f.k) BY <1>5, <1>r DEF p
    <2>3. Left(p, f.k) = Escape(p[f.k + 1]) \o Left(p, f.k + 1) BY <1>t, <2>1, LeftFacts
    <2>4. Left(p, f.k + 1) \in Seq(Byte) /\ p[f.k + 1] \in Byte
      <3>1. \A i, n \in Nat :
                 i \in 0 .. n - 1 => (i + 1 \in 0 .. n /\ i + 1 \in 1 .. n)
        OBVIOUS
      <3>2. f.k \in Nat /\ Len(p) \in Nat BY <1>t
      <3>3. f.k + 1 \in 0 .. Len(p) /\ f.k + 1 \in 1 .. Len(p)
        BY <2>1, <3>1, <3>2, ZenonT(60)
      <3> QED BY <1>t, <3>3, LeftFacts
    <2>5. CASE p[f.k + 1] \in Special
      <3>1. NextByte(f) = EscChar BY <1>5, <2>5 DEF NextByte, p
      <3>2. Advance(f) = [type |-> t, payload |-> p, stage |-> "esc", k |-> f.k]
        BY <1>5, <1>t, <2>5 DEF Advance, p
      <3>3. RestOf(Advance(f)) = Tail(Escape(p[f.k + 1])) \o Left(p, f.k + 1)
        BY <1>5, <1>r, <1>w, <3>2
      <3>4. /\ Escape(p[f.k + 1]) = <<EscChar, Xor20(p[f.k + 1])>>
            /\ EscChar \in Byte /\ Xor20(p[f.k + 1]) \in Byte
        BY <2>5, <1>x DEF Escape
      <3>5. Escape(p[f.k + 1]) \o Left(p, f.k + 1)
              = <<EscChar>> \o (Tail(Escape(p[f.k + 1])) \o Left(p, f.k + 1))
        <4> DEFINE y == Xor20(p[f.k + 1])
                   u == Left(p, f.k + 1)
        <4>1. EscChar \in Byte /\ y \in Byte /\ u \in Seq(Byte) BY <2>4, <3>4
        <4> HIDE DEF y, u
        <4>2. <<EscChar, y>> \o u = <<EscChar>> \o (Tail(<<EscChar, y>>) \o u)
          BY <4>1, TwoBytes, Zenon
        <4> QED BY <3>4, <4>2, Zenon DEF y, u
      <3> QED BY <1>5, <2>2, <2>3, <3>1, <3>3, <3>5
    <2>6. CASE p[f.k + 1] \notin Special
      <3>1. NextByte(f) = p[f.k + 1] BY <1>5, <2>6 DEF NextByte, p
      <3>2. Advance(f) = [type |-> t, payload |-> p, stage |-> "data", k |-> f.k + 1]
        BY <1>5, <1>t, <2>6 DEF Advance, p
      <3>3. RestOf(Advance(f)) = Left(p, f.k + 1) BY <1>5, <1>r, <1>w, <3>2
      <3>4. Escape(p[f.k + 1]) = <<p[f.k + 1]>> BY <2>6 DEF Escape
      <3> QED BY <1>5, <2>2, <2>3, <3>1, <3>3, <3>4
    <2> QED BY <2>5, <2>6
  <1>6. CASE f.stage = "esc"
    <2>1. ~ AtClose(f) /\ NextByte(f) = Xor20(p[f.k + 1]) BY <1>6 DEF AtClose, NextByte, p
    <2>2. f.k < Len(p) /\ p[f.k + 1] \in Special BY <1>6 DEF WellFormed, p
    <2>3. Advance(f) = [type |-> t, payload |-> p, stage |-> "data", k |-> f.k + 1]
      <3>1. Advance(f) = [f EXCEPT !.stage = "data", !.k = @ + 1] BY <1>6 DEF Advance
      <3> QED BY <3>1 DEF WireFrame, t, p
    <2>4. RestOf(Advance(f)) = Left(p, f.k + 1) BY <1>r, <1>w, <2>1, <2>3
    <2>5. RestOf(f) = Tail(Escape(p[f.k + 1])) \o Left(p, f.k + 1) BY <1>6, <1>r DEF p
    <2>6. Tail(Escape(p[f.k + 1])) = <<Xor20(p[f.k + 1])>>
      <3>1. /\ Escape(p[f.k + 1]) = <<EscChar, Xor20(p[f.k + 1])>>
            /\ EscChar \in Byte /\ Xor20(p[f.k + 1]) \in Byte
        BY <2>2, <1>x DEF Escape
      <3> QED BY <1>a, <3>1, TwoBytes
    <2> QED BY <2>1, <2>4, <2>5, <2>6
  <1> QED BY <1>1, <1>2, <1>3, <1>4, <1>5, <1>6, <1>t DEF Stage

(* The bytes on the wire are those of the slice smuxBuildFrame returns     *)
(* (smux.go:37-52), for every type and payload and from every position.    *)
THEOREM WireIsBuildFrame == Spec => []WireSpellsBuildFrame
  <1>1. LinkInv => WireSpellsBuildFrame
    <2> SUFFICES ASSUME LinkInv PROVE WireSpellsBuildFrame OBVIOUS
    <2>1. wire \in Seq(WireFrame) /\ WireOK(wire) BY DEF LinkInv, TypeOK
    <2>2. ASSUME NEW i \in DOMAIN wire PROVE wire[i] \in WireFrame /\ WellFormed(wire[i])
      BY <2>1 DEF WireOK
    <2> QED BY <2>2, FrameSpelled DEF WireSpellsBuildFrame
  <1> QED BY <1>1, LinkInit, LinkStep, PTL DEF Spec

-----------------------------------------------------------------------------
(* The link implements FrameLink. *)

Heard(w) == [i \in DOMAIN w |-> Message(w[i])]

(* A frame says one of the answers or nothing. *)
LEMMA MessageTyped ==
    ASSUME NEW f
    PROVE  Message(f) \in {"UABT", "HELLO_REPLY", "response"} \cup {"nothing"}
  BY DEF Message, Meaning

(* Spelling a frame does not change what it says. *)
LEMMA AdvanceSaysTheSame ==
    ASSUME NEW f \in WireFrame
    PROVE  Message(Advance(f)) = Message(f)
  <1>1. Advance(f).type = f.type /\ Advance(f).payload = f.payload
    BY DEF Advance, WireFrame, Stage
  <1> QED BY <1>1 DEF Message

(* The messages under way, as the wire changes. *)
LEMMA HeardAppend ==
    ASSUME NEW w \in Seq(WireFrame), NEW f \in WireFrame
    PROVE  Heard(Append(w, f)) = Append(Heard(w), Message(f))
  <1> DEFINE M == {"UABT", "HELLO_REPLY", "response"} \cup {"nothing"}
             n == Len(w)
  <1>1. /\ Append(w, f) \in Seq(WireFrame) /\ Len(Append(w, f)) = n + 1
        /\ \A i \in 1 .. n : Append(w, f)[i] = w[i]
        /\ Append(w, f)[n + 1] = f /\ n \in Nat
    OBVIOUS
  <1>2. ASSUME NEW v \in Seq(WireFrame)
        PROVE  /\ Heard(v) \in Seq(M) /\ Len(Heard(v)) = Len(v)
               /\ \A i \in 1 .. Len(v) : Heard(v)[i] = Message(v[i])
    BY MessageTyped DEF Heard
  <1>3. Message(f) \in M BY MessageTyped
  <1> HIDE DEF M
  <1>4. /\ Append(Heard(w), Message(f)) \in Seq(M)
        /\ Len(Append(Heard(w), Message(f))) = n + 1
        /\ \A i \in 1 .. n : Append(Heard(w), Message(f))[i] = Heard(w)[i]
        /\ Append(Heard(w), Message(f))[n + 1] = Message(f)
    BY <1>2, <1>3
  <1>5. /\ Heard(Append(w, f)) \in Seq(M) /\ Len(Heard(Append(w, f))) = n + 1
        /\ \A i \in 1 .. n + 1 : Heard(Append(w, f))[i] = Message(Append(w, f)[i])
    BY <1>1, <1>2
  <1>6. \A i \in 1 .. n : Heard(w)[i] = Message(w[i]) BY <1>2
  <1>7. \A i \in 1 .. n + 1 : i \in 1 .. n \/ i = n + 1 BY <1>1
  <1>8. \A i \in 1 .. Len(Heard(Append(w, f))) :
           Heard(Append(w, f))[i] = Append(Heard(w), Message(f))[i]
    <2>1. ASSUME NEW i \in 1 .. n
          PROVE  Heard(Append(w, f))[i] = Append(Heard(w), Message(f))[i]
      BY <1>1, <1>4, <1>5, <1>6, <2>1
    <2>2. Heard(Append(w, f))[n + 1] = Append(Heard(w), Message(f))[n + 1]
      BY <1>1, <1>4, <1>5
    <2> QED BY <1>5, <1>7, <2>1, <2>2
  <1> QED BY <1>4, <1>5, <1>8, SeqEqual

LEMMA HeardConsumed ==
    ASSUME NEW w \in Seq(WireFrame), w # << >>
    PROVE  /\ Heard(w) # << >> /\ Head(Heard(w)) = Message(w[1])
           /\ Heard(Consumed(w)) = IF AtClose(w[1]) THEN Tail(Heard(w)) ELSE Heard(w)
  <1>1. DOMAIN w = 1 .. Len(w) /\ Len(w) \in Nat \ {0} /\ w[1] \in WireFrame
    OBVIOUS
  <1>2. Heard(w) \in Seq({"UABT", "HELLO_REPLY", "response"} \cup {"nothing"})
    BY <1>1, MessageTyped DEF Heard
  <1>3. Len(Heard(w)) = Len(w) BY <1>1 DEF Heard
  <1>4. Heard(w) # << >> /\ Head(Heard(w)) = Message(w[1])
    BY <1>1, <1>2, <1>3 DEF Heard
  <1>5. CASE AtClose(w[1])
    <2>1. Consumed(w) = Tail(w) BY <1>5 DEF Consumed
    <2>2. /\ Tail(w) \in Seq(WireFrame) /\ Len(Tail(w)) = Len(w) - 1
          /\ \A i \in 1 .. Len(w) - 1 : Tail(w)[i] = w[i + 1]
      OBVIOUS
    <2>3. /\ Tail(Heard(w)) \in Seq({"UABT", "HELLO_REPLY", "response"} \cup {"nothing"})
          /\ Len(Tail(Heard(w))) = Len(w) - 1
          /\ \A i \in 1 .. Len(w) - 1 : Tail(Heard(w))[i] = Heard(w)[i + 1]
      BY <1>1, <1>2, <1>3, <1>4
    <2>4. \A i \in 1 .. Len(w) - 1 : Heard(w)[i + 1] = Message(w[i + 1])
      BY <1>1 DEF Heard
    <2>5. /\ Heard(Tail(w)) \in Seq({"UABT", "HELLO_REPLY", "response"} \cup {"nothing"})
          /\ Len(Heard(Tail(w))) = Len(w) - 1
          /\ \A i \in 1 .. Len(w) - 1 : Heard(Tail(w))[i] = Message(w[i + 1])
      BY <1>1, <2>2, MessageTyped DEF Heard
    <2>6. Heard(Tail(w)) = Tail(Heard(w))
      <3>1. \A i \in 1 .. Len(Heard(Tail(w))) : Heard(Tail(w))[i] = Tail(Heard(w))[i]
        BY <2>3, <2>4, <2>5
      <3> QED BY <2>3, <2>5, <3>1, SeqEqual
    <2> QED BY <1>4, <1>5, <2>1, <2>6
  <1>6. CASE ~ AtClose(w[1])
    <2>1. Consumed(w) = [w EXCEPT ![1] = Advance(w[1])] BY <1>6 DEF Consumed
    <2>2. DOMAIN Consumed(w) = DOMAIN w BY <2>1
    <2>3. \A i \in DOMAIN w : Consumed(w)[i] = IF i = 1 THEN Advance(w[1]) ELSE w[i]
      BY <2>1
    <2>4. Message(Advance(w[1])) = Message(w[1]) BY <1>1, AdvanceSaysTheSame
    <2>5. \A i \in DOMAIN w : Message(Consumed(w)[i]) = Message(w[i]) BY <2>3, <2>4
    <2>6. Heard(Consumed(w)) = Heard(w) BY <2>2, <2>5 DEF Heard
    <2> QED BY <1>4, <1>6, <2>6
  <1> QED BY <1>4, <1>5, <1>6

(* Tuned is what the two relations between parser and device come to. *)
LEMMA TuneIsPhase ==
    ASSUME NEW w \in Seq(WireFrame), NEW p \in ParserState
    PROVE  /\ InStep(p, w) => Tuned(p, w)
           /\ OutOfStep(p, w) => ~ Tuned(p, w)
           /\ InOnePhase(p, w) => InStep(p, w) \/ OutOfStep(p, w)
  <1>1. CASE w = << >>
    BY <1>1 DEF InStep, OutOfStep, InOnePhase, Tuned, EmptyInside
  <1>2. CASE w # << >>
    <2>1. w[1] \in WireFrame /\ Head(w) = w[1] BY <1>2
    <2>4. w[1].stage \in Stage BY <2>1 DEF WireFrame
    <2>2. InPhase(p, w[1]) => Tuned(p, w) BY <1>2, <2>1, <2>4 DEF InPhase, Tuned, Stage
    <2>3. OutOfPhase(p, w[1]) => ~ Tuned(p, w)
      BY <1>2, <2>1, <2>4 DEF OutOfPhase, EmptyInside, Tuned, Stage
    <2> QED BY <1>2, <2>2, <2>3 DEF InStep, OutOfStep, InOnePhase
  <1> QED BY <1>1, <1>2

(* What a parser in phase holds at the closing delimiter says what the     *)
(* frame says.                                                             *)
LEMMA HeldSaysMessage ==
    ASSUME NEW f \in WireFrame, WellFormed(f), AtClose(f),
           NEW p \in ParserState, InPhase(p, f)
    PROVE  (IF Completes(p, NextByte(f)) THEN Received(p) ELSE slot)
             = (IF Message(f) \in {"UABT", "HELLO_REPLY", "response"} THEN Message(f) ELSE slot)
  <1> DEFINE n == IF Len(f.payload) <= RxBufSize THEN Len(f.payload) ELSE RxBufSize
  <1>1. f.payload \in Seq(Byte) /\ p.rx \in Seq(Byte) BY DEF WireFrame, ParserState
  <1>2. /\ p.frametype = f.type /\ Holds(p.rx, f.payload, Len(f.payload))
        /\ f.payload # << >> => Completes(p, NextByte(f))
    BY InPhaseCompletes
  <1>3. n \in 0 .. Len(f.payload) BY <1>1, RxBufSizeAssumption
  <1>4. CASE f.payload = << >>
    <2>1. Len(f.payload) = 0 BY <1>4
    <2>2. Len(p.rx) = 0 BY <1>2, <2>1, RxBufSizeAssumption DEF Holds
    <2>3. ~ Completes(p, NextByte(f)) BY <2>2 DEF Completes
    <2>4. Message(f) = "nothing" BY <1>4 DEF Message
    <2> QED BY <2>3, <2>4
  <1>5. CASE f.payload # << >>
    <2>1. Len(p.rx) = n /\ \A i \in 1 .. n : p.rx[i] = f.payload[i] BY <1>2 DEF Holds
    <2>2. /\ SubSeq(f.payload, 1, n) \in Seq(Byte)
          /\ Len(SubSeq(f.payload, 1, n)) = n
          /\ \A i \in 1 .. n : SubSeq(f.payload, 1, n)[i] = f.payload[i]
      BY <1>1, <1>3
    <2>3. p.rx = SubSeq(f.payload, 1, n)
      <3>1. Len(p.rx) = Len(SubSeq(f.payload, 1, n)) BY <2>1, <2>2
      <3>2. \A i \in 1 .. Len(p.rx) : p.rx[i] = SubSeq(f.payload, 1, n)[i] BY <2>1, <2>2
      <3> QED BY <1>1, <2>2, <3>1, <3>2, SeqEqual
    <2>4. Message(f) = Meaning(p.frametype, p.rx)
      BY <1>2, <1>5, <2>3 DEF Message
    <2>5. Received(p) = IF Message(f) = "nothing" THEN slot ELSE Message(f)
      BY <2>4 DEF Received
    <2>6. Message(f) = "nothing" \/ Message(f) \in {"UABT", "HELLO_REPLY", "response"}
      BY MessageTyped
    <2> QED BY <1>2, <1>5, <2>5, <2>6
  <1> QED BY <1>4, <1>5

LEMMA InitFrameLink == Init => Link!Init
  <1> SUFFICES ASSUME Init PROVE Link!Init OBVIOUS
  <1>1. Heard(wire) \in {<< >>} \cup {<<m>> : m \in Link!Message}
    <2>1. CASE wire = << >>
      <3>1. Heard(wire) = << >> BY <2>1 DEF Heard
      <3> QED BY <3>1
    <2>2. CASE wire # << >>
      <3>1. PICK g : wire = <<g>> BY <2>2 DEF Init
      <3>2. Heard(wire) = <<Message(g)>> BY <3>1 DEF Heard
      <3>3. Message(g) \in Link!Message BY MessageTyped DEF Link!Message
      <3> QED BY <3>2, <3>3
    <2> QED BY <2>1, <2>2
  <1>2. slot = "none" /\ pc = "down" /\ lost = 0 BY DEF Init
  <1>3. Tuned(parser, wire) \in BOOLEAN BY DEF Tuned
  <1>4. (pc = "resetParser") = FALSE /\ (lost > 0) = FALSE BY <1>2
  <1> QED BY <1>1, <1>2, <1>3, <1>4 DEF Link!Init, Heard

(* One step of the receive loop or of SmuxHandshake is one of FrameLink or *)
(* none.                                                                   *)
LEMMA StepFrameLink == LinkInv /\ [Next]_vars => [Link!Next]_(Link!linkVars)
  <1> SUFFICES ASSUME LinkInv, [Next]_vars PROVE [Link!Next]_(Link!linkVars)
    OBVIOUS
  <1> DEFINE Q == Heard(wire)
             T == Tuned(parser, wire)
             R == pc = "resetParser"
             L == lost > 0
  <1>t. /\ wire \in Seq(WireFrame) /\ WireOK(wire) /\ parser \in ParserState
        /\ Len(parser.rx) <= RxBufSize
        /\ slot \in {"none", "UABT", "HELLO_REPLY", "response"}
        /\ lost \in Nat
    <2>1. TypeOK /\ WireOK(wire) BY DEF LinkInv
    <2>2. lost \in 0 .. MaxLost BY <2>1, Zenon DEF TypeOK
    <2>3. lost \in Nat BY <2>2, LinkAssumption
    <2> QED BY <2>1, <2>3, Zenon DEF TypeOK
  <1>s. ASSUME Q' = Q, slot' = slot, T' = T, R' = R, L' = L
        PROVE  UNCHANGED Link!linkVars
    BY <1>s DEF Link!linkVars, Heard
  <1>a. ASSUME NEW t \in FrameType, NEW pl \in Seq(Byte),
               wire' = Append(wire, Fresh(t, pl)),
               UNCHANGED <<parser, slot, pc, lost>>
        PROVE  Link!Next
    <2>1. Fresh(t, pl) \in WireFrame /\ Fresh(t, pl).stage = "open" BY FreshFrame
    <2>2. Q' = Append(Q, Message(Fresh(t, pl))) BY <1>t, <1>a, <2>1, HeardAppend
    <2>3. Message(Fresh(t, pl)) \in Link!Message BY MessageTyped DEF Link!Message
    <2>4. T' = T
      <3>1. wire' # << >> /\ (wire # << >> => Head(wire') = Head(wire))
            /\ (wire = << >> => Head(wire') = Fresh(t, pl))
        BY <1>t, <1>a, <2>1
      <3> QED BY <1>a, <2>1, <3>1 DEF Tuned
    <2>5. Link!Say(Message(Fresh(t, pl))) BY <1>a, <2>2, <2>4 DEF Link!Say, Heard
    <2> QED BY <2>3, <2>5 DEF Link!Next
  <1>1. CASE DeviceAnswer
    <2>1. PICK t \in FrameType, pl \in Seq(Byte) : wire' = Append(wire, Fresh(t, pl))
      <3>1. UABT \in Seq(Byte) /\ Mtu \in Seq(Byte) BY DEF UABT, Mtu, Byte
      <3>2. STDIO \in FrameType /\ HELLO_REPLY \in FrameType
        BY DEF STDIO, HELLO_REPLY, FrameType, HEART_BEAT
      <3> QED BY <1>1, <3>1, <3>2 DEF DeviceAnswer
    <2> QED BY <1>1, <1>a, <2>1 DEF DeviceAnswer
  <1>2. CASE DeviceChatter
    <2>1. PICK c \in Chatter : wire' = Append(wire, Fresh(c.type, c.payload))
      BY <1>2 DEF DeviceChatter
    <2>2. c.type \in FrameType /\ c.payload \in Seq(Byte) BY LinkAssumption
    <2> QED BY <1>2, <1>a, <2>1, <2>2 DEF DeviceChatter
  <1>3. CASE RxByte
    <2>1. /\ wire # << >> /\ wire' = Consumed(wire) /\ Head(wire) = wire[1]
          /\ parser' = ProcessByte(parser, NextByte(wire[1]))
          /\ slot' = IF Completes(parser, NextByte(wire[1])) THEN Received(parser) ELSE slot
          /\ pc' = pc /\ lost' = lost
      BY <1>3, <1>t DEF RxByte
    <2>2. wire[1] \in WireFrame /\ WellFormed(wire[1]) BY <1>t, <2>1 DEF WireOK
    <2>3. /\ Q # << >> /\ Head(Q) = Message(wire[1])
          /\ Q' = IF AtClose(wire[1]) THEN Tail(Q) ELSE Q
      BY <1>t, <2>1, HeardConsumed
    <2>4. R' = R /\ L' = L BY <2>1
    <2>p. wire' \in Seq(WireFrame) /\ parser' \in ParserState
      <3>1. NextByte(wire[1]) \in Byte BY <2>2, NextByteIsByte
      <3> QED BY <1>t, <2>1, <3>1, ConsumedWire, ProcessByteTyped
    <2>5. CASE lost > 0
      <3>1. slot' \in {"UABT", "HELLO_REPLY", "response"} \cup {slot}
        BY <2>1 DEF Received, Meaning
      <3>2. T' \in BOOLEAN BY DEF Tuned
      <3>3. Link!Garble BY <2>3, <2>4, <2>5, <3>1, <3>2 DEF Link!Garble, Heard
      <3> QED BY <3>3 DEF Link!Next
    <2>6. CASE lost = 0
      <3>1. InStep(parser, wire) \/ OutOfStep(parser, wire)
        BY <1>t, <2>6, TuneIsPhase DEF LinkInv
      <3>2. CASE InStep(parser, wire)
        <4>1. InStep(parser', wire') BY <1>t, <2>1, <3>2, ReadKeepsPhase
        <4>2. T /\ T' BY <1>t, <2>p, <3>2, <4>1, TuneIsPhase
        <4>3. InPhase(parser, wire[1]) BY <2>1, <3>2 DEF InStep
        <4>4. CASE AtClose(wire[1])
          <5>1. slot' = IF Head(Q) \in {"UABT", "HELLO_REPLY", "response"} THEN Head(Q) ELSE slot
            BY <1>t, <2>1, <2>2, <2>3, <4>3, <4>4, HeldSaysMessage
          <5>2. Link!Hear BY <2>3, <2>4, <4>2, <4>4, <5>1 DEF Link!Hear, Heard
          <5> QED BY <5>2 DEF Link!Next
        <4>5. CASE ~ AtClose(wire[1])
          <5>1. slot' = slot BY <1>t, <2>1, <2>2, <4>3, <4>5, InPhaseCompletes
          <5> QED BY <1>s, <2>3, <2>4, <4>2, <4>5, <5>1 DEF T
        <4> QED BY <4>4, <4>5
      <3>3. CASE OutOfStep(parser, wire)
        <4>1. OutOfStep(parser', wire') BY <1>t, <2>1, <3>3, ReadKeepsPhase
        <4>2. ~ T /\ T' = T
          <5>1. ~ T /\ ~ T' BY <1>t, <2>p, <3>3, <4>1, TuneIsPhase
          <5>2. T \in BOOLEAN /\ T' \in BOOLEAN BY DEF Tuned
          <5> QED BY <5>1, <5>2
        <4>3. OutOfPhase(parser, wire[1]) BY <2>1, <3>3 DEF OutOfStep
        <4>4. slot' = slot BY <1>t, <2>1, <2>2, <4>3, OutOfPhaseStep, CloseStep
        <4>5. CASE AtClose(wire[1])
          <5>1. Link!Miss BY <2>3, <2>4, <4>2, <4>4, <4>5 DEF Link!Miss, Heard
          <5> QED BY <5>1 DEF Link!Next
        <4>6. CASE ~ AtClose(wire[1])
          BY <1>s, <2>3, <2>4, <4>2, <4>4, <4>6
        <4> QED BY <4>5, <4>6
      <3> QED BY <3>1, <3>2, <3>3
    <2> QED BY <1>t, <2>5, <2>6
  <1>4. CASE ReadTimeout
    <2>1. wire # << >> /\ wire' = Consumed(wire) /\ lost' = lost + 1
          /\ slot' = slot /\ pc' = pc
      BY <1>4 DEF ReadTimeout
    <2>2. Q # << >> /\ Q' = IF AtClose(wire[1]) THEN Tail(Q) ELSE Q
      BY <1>t, <2>1, HeardConsumed
    <2>3. T' \in BOOLEAN BY DEF Tuned
    <2>4. L' = TRUE BY <1>t, <2>1
    <2>5. Link!Lose BY <2>1, <2>2, <2>3, <2>4 DEF Link!Lose, Heard
    <2> QED BY <2>5 DEF Link!Next
  <1>5. CASE SendUABT
    BY <1>5, <1>s DEF SendUABT, Heard, Tuned
  <1>6. CASE GotUABT
    <2>1. Link!WantReplacement BY <1>6 DEF GotUABT, Link!WantReplacement
    <2> QED BY <2>1 DEF Link!Next
  <1>7. CASE ResetParser
    <2>1. T' \in BOOLEAN BY DEF Tuned
    <2>2. Link!Replace BY <1>7, <2>1 DEF ResetParser, Link!Replace
    <2> QED BY <2>2 DEF Link!Next
  <1>8. CASE SendHELLO
    BY <1>8, <1>s DEF SendHELLO, Heard, Tuned
  <1>9. CASE GotReply
    BY <1>9, <1>s DEF GotReply, Heard, Tuned
  <1>10. CASE HandshakeTimeout
    BY <1>10, <1>s DEF HandshakeTimeout, Heard, Tuned
  <1>11. CASE UNCHANGED vars
    BY <1>11, <1>s DEF vars, Heard, Tuned
  <1> QED BY <1>1, <1>2, <1>3, <1>4, <1>5, <1>6, <1>7, <1>8, <1>9, <1>10, <1>11 DEF Next

(* For every set of frames and every buffer size the bytes on the wire and *)
(* the parser that is replaced under them make a link of whole messages    *)
(* (session.go:206-257, smux.go:151-163).                                  *)
THEOREM LinkIsFrameLink == Spec => ImplementsFrameLink
  BY InitFrameLink, StepFrameLink, LinkInit, LinkStep, PTL
     DEF Spec, ImplementsFrameLink, Link!Spec
=============================================================================
