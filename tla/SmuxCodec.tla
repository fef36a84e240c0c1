------------------------------ MODULE SmuxCodec ------------------------------
(***************************************************************************)
(* The SMUX framing of smux.go: how a byte is escaped, how a frame is laid *)
(* out, and what the receive parser does with one byte.  Bytes are the     *)
(* real ones, 0 .. 255; only the size of the receive buffer is a parameter *)
(* (4096 in newSmuxParser).                                                *)
(***************************************************************************)
EXTENDS Naturals, Sequences, SequencesExt

CONSTANT RxBufSize

ASSUME RxBufSizeAssumption == RxBufSize \in Nat \ {0}

FrameDelimiter == 126                                   \* 0x7E
EscChar        == 125                                   \* 0x7D
Byte           == 0 .. 255

STDIO       == 0
HELLO       == 1
HELLO_REPLY == 2
ABOOT_CMD   == 3
ABOOT_DATA  == 4
HEART_BEAT  == 5
FrameType   == STDIO .. HEART_BEAT

(* b ^ 0x20: bit 5 flipped. *)
Xor20(b) == IF (b \div 32) % 2 = 1 THEN b - 32 ELSE b + 32

Special == {FrameDelimiter, EscChar}

(* Mutant: the escape byte itself goes out unescaped. *)
Escape_OnlyDelimiter(b) == IF b = FrameDelimiter THEN <<EscChar, Xor20(b)>> ELSE <<b>>

Escape(b) == IF b \in Special THEN <<EscChar, Xor20(b)>> ELSE <<b>>

(* STDIO frames carry no type mark. *)
TypeMark(t) == IF t = STDIO THEN << >> ELSE <<EscChar, Xor20(t)>>

EscapeAll(payload) == FlattenSeq([i \in DOMAIN payload |-> Escape(payload[i])])

BuildFrame(t, payload) ==
    <<FrameDelimiter>> \o TypeMark(t) \o EscapeAll(payload) \o <<FrameDelimiter>>

-----------------------------------------------------------------------------
(* The parser.  rx stands for rxbuf[:framesize]. *)

ParserState == [state     : {"WAIT_START", "IN_FRAME", "IN_ESCAPE"},
                frametype : FrameType,
                rx        : Seq(Byte)]

NewParser == [state |-> "WAIT_START", frametype |-> STDIO, rx |-> << >>]

(* Mutant: no bound check. *)
Store_Unbounded(rx, b) == Append(rx, b)

(* A byte that does not fit the buffer is dropped without a word. *)
Store(rx, b) == IF Len(rx) < RxBufSize THEN Append(rx, b) ELSE rx

(* Mutant: a frame that filled the buffer is dropped. *)
Completes_NotFull(p, c) ==
    p.state = "IN_FRAME" /\ c = FrameDelimiter /\ Len(p.rx) \in 1 .. RxBufSize - 1

(* The byte that closes a frame which is handed to the receive loop. *)
Completes(p, c) == p.state = "IN_FRAME" /\ c = FrameDelimiter /\ Len(p.rx) > 0

(* Mutant: the type of the previous frame is kept. *)
InWaitStart_KeepsType(p, c) ==
    IF c = FrameDelimiter
      THEN [p EXCEPT !.state = "IN_FRAME", !.rx = << >>]
      ELSE p

InWaitStart(p, c) ==
    IF c = FrameDelimiter
      THEN [state |-> "IN_FRAME", frametype |-> STDIO, rx |-> << >>]
      ELSE p

(* Mutant: the end of an empty frame is taken for the start of the next. *)
InFrame_StaysOpen(p, c) ==
    CASE c = EscChar        -> [p EXCEPT !.state = "IN_ESCAPE"]
      [] c = FrameDelimiter -> [p EXCEPT !.state = IF p.rx = << >> THEN "IN_FRAME"
                                                                   ELSE "WAIT_START",
                                         !.rx = << >>]
      [] OTHER              -> [p EXCEPT !.rx = Store(@, c)]

(* Both the completed and the empty frame end here; the frame type stays. *)
InFrame(p, c) ==
    CASE c = EscChar        -> [p EXCEPT !.state = "IN_ESCAPE"]
      [] c = FrameDelimiter -> [p EXCEPT !.state = "WAIT_START", !.rx = << >>]
      [] OTHER              -> [p EXCEPT !.rx = Store(@, c)]

(* An escape carries a special byte or a frame type; any other makes the   *)
(* frame STDIO.                                                            *)
InEscape(p, c) ==
    IF Xor20(c) \in Special
      THEN [p EXCEPT !.state = "IN_FRAME", !.rx = Store(@, Xor20(c))]
      ELSE [p EXCEPT !.state = "IN_FRAME",
                     !.frametype = IF Xor20(c) \in FrameType THEN Xor20(c) ELSE STDIO]

ProcessByte(p, c) ==
    CASE p.state = "WAIT_START" -> InWaitStart(p, c)
      [] p.state = "IN_FRAME"   -> InFrame(p, c)
      [] p.state = "IN_ESCAPE"  -> InEscape(p, c)
=============================================================================
