----------------------------- MODULE ReadBackProofs -----------------------------
(***************************************************************************)
(* Proofs about ReadBack, for partitions, frames and numbers of reads of   *)
(* any size and for any number of waits that run out.                      *)
(*                                                                         *)
(* What is saved depends on what is under way: the frames from the device  *)
(* continue, one after the other and up to where the device has come, what *)
(* is in the buffer (Flow, Streaming).  That holds while reader and device *)
(* are in step, and only because then nothing is under way but the answer  *)
(* to the last command (SyncInv).  For uploadReadMode, which begins to     *)
(* expect data earlier, the buffer has to be empty when the answer comes   *)
(* and the range staged (StagedInv).  No data is dropped because none is   *)
(* to come while it is not expected (DropInv).                             *)
(***************************************************************************)
EXTENDS ReadBack, TLAPS, SequenceTheorems

-----------------------------------------------------------------------------
(* The inductive invariant. *)

(* Nothing under way is of a later read. *)
OfRead ==
    /\ dev.of = 0 <=> dev = DevIdle
    /\ \A k \in DOMAIN toDev : toDev[k].of <= read
    /\ \A k \in DOMAIN toHost : toHost[k].of <= read
    /\ dev.of <= read

(* The reader expects data where it is said to. *)
PlaceInv ==
    /\ pc \notin {"idle", "panic"} => read > 0
    /\ pc = "take" => slot # "none"
    /\ pc = "expect-first" => user = "upload-read"
    /\ pc = "resize" => user = "upload-read"
    /\ pc \in {"resize", "expect", "diagnose", "diagnosing", "receive"} => cmd = "upload"
    /\ pc \in {"expect", "diagnose", "diagnosing"} => user # "upload-read"
    /\ pc = "receive" => expectData /\ expectSize = Size
    /\ user = "upload-read" /\ cmd = "upload" /\ pc \in {"send", "await", "take", "resize"}
         => expectData /\ expectSize = Huge
    /\ cmd # "upload" => user = "upload-read"

ShapeInv == OfRead /\ PlaceInv

(* data[:remaining] *)
BufferInv == user # "upload-read" \/ InStep => Len(buffer) <= expectSize /\ pc # "panic"

(* The data from behind p up to q of a range. *)
Stretch(r, p, q) == [i \in 1 .. q - p |-> Unit(r, p + i)]

SoFar == IF dev = DevIdle THEN Size ELSE dev.sent

(* What is under way to the host continues what it has got: b says where   *)
(* in the range each frame begins.                                         *)
Flow(r, got) ==
    /\ dev # DevIdle => dev.range = r
    /\ \E b \in [1 .. Len(toHost) + 1 -> 0 .. Size] :
         /\ b[1] = got
         /\ b[Len(toHost) + 1] = SoFar
         /\ \A j, k \in 1 .. Len(toHost) + 1 : j <= k => b[j] <= b[k]
         /\ \A k \in 1 .. Len(toHost) :
              IF toHost[k].what = "data"
                THEN b[k] < b[k + 1] /\ toHost[k].data = Stretch(r, b[k], b[k + 1])
                ELSE b[k] = b[k + 1]

(* The range the data of this read is of. *)
Mine(r) == r = read \/ (user = "upload-read" /\ read \in unstaged)

Streaming ==
    \E r \in 0 .. MaxReads, got \in 0 .. Size :
        /\ Mine(r)
        /\ Flow(r, got)
        /\ pc = "receive" => \E p \in 0 .. got : buffer = Stretch(r, p, got)
        /\ user = "upload-read" => buffer = Stretch(r, 0, got)

Refused ==
    /\ pc \in {"await", "take"} /\ dev = DevIdle
    /\ \/ toHost = <<Say("FAIL")>> /\ slot = "none"
       \/ toHost = << >> /\ slot = "FAIL"

(* useflash and ulstage are answered in one frame. *)
SmallTalk ==
    /\ dev = DevIdle
    /\ \/ slot = "none" /\ (toHost = <<Say("OKAY")>> \/ toHost = <<Say("FAIL")>>)
       \/ toHost = << >>

InUpload ==
    \/ pc \in {"await", "take"} /\ cmd = "upload"
    \/ pc \in {"resize", "expect", "diagnose", "diagnosing", "receive"}

(* Who has sent a command waits for the answer to it alone. *)
Asked ==
    toDev # << >> =>
        /\ pc = "await" /\ toDev = <<[what |-> cmd, of |-> read]>>
        /\ dev = DevIdle /\ toHost = << >> /\ slot = "none"

Quiet ==
    pc = "expect-first" \/ (pc = "send" /\ user = "upload-read" /\ cmd # "useflash") => Silent

Talking   == pc \in {"await", "take"} /\ cmd # "upload" /\ toDev = << >> => SmallTalk
Uploading == InUpload /\ toDev = << >> => Refused \/ Streaming

(* Reader and device in step: nothing is under way but the answer to the   *)
(* last command.                                                           *)
SyncInv == InStep => Asked /\ Quiet /\ Talking /\ Uploading

(* The device has taken the ulstage of this read. *)
StageTaken ==
    \/ pc = "expect-first"
    \/ pc \in {"await", "take"} /\ cmd = "ulstage" /\ toDev = << >>
    \/ pc \in {"send", "await"} /\ cmd = "upload"

(* uploadReadMode has staged its range, or was refused, and has emptied    *)
(* the buffer, before it sends the upload command.                         *)
StagedInv ==
    InStep /\ user = "upload-read" =>
        /\ StageTaken => staged = read \/ read \in unstaged
        /\ pc \in {"send", "await"} /\ cmd = "upload" /\ (pc = "await" => toDev # << >>)
             => buffer = << >>

(* No data of the present read is to come. *)
NoneComing ==
    /\ \A k \in DOMAIN toDev : ~ (toDev[k].what = "upload" /\ toDev[k].of = read)
    /\ \A k \in DOMAIN toHost : ~ (toHost[k].what = "data" /\ toHost[k].of = read)
    /\ dev # DevIdle /\ dev.of = read => dev.sent = Size

DropInv ==
    InStep /\ user = "upload-read" =>
        /\ ~ dropped
        /\ expectData \/ NoneComing

ReadInv ==
    /\ TypeOK /\ ShapeInv /\ BufferInv /\ SyncInv /\ StagedInv /\ DropInv
    /\ SavedIsPartition

-----------------------------------------------------------------------------
(* Data, and what is kept of it. *)

(* A stretch of a range is data, as long as it says.                       *)
LEMMA StretchFacts ==
    ASSUME NEW r \in 0 .. MaxReads, NEW p \in 0 .. Size, NEW q \in p .. Size
    PROVE  Stretch(r, p, q) \in Seq(Units) /\ Len(Stretch(r, p, q)) = q - p
  <1>1. p \in Nat /\ q \in Nat /\ q - p \in Nat /\ Size \in Nat BY ReadAssumption
  <1>2. \A i \in 1 .. q - p : Unit(r, p + i) \in Units BY <1>1 DEF Unit, Units
  <1> QED BY <1>1, <1>2 DEF Stretch

(* Adjoining stretches make one.                                           *)
LEMMA StretchJoins ==
    ASSUME NEW r \in 0 .. MaxReads, NEW p \in 0 .. Size, NEW q \in p .. Size, NEW t \in q .. Size
    PROVE  Stretch(r, p, q) \o Stretch(r, q, t) = Stretch(r, p, t)
  <1>0. p \in Nat /\ q \in Nat /\ t \in Nat /\ q \in 0 .. Size /\ t \in p .. Size
    BY ReadAssumption
  <1> DEFINE a == Stretch(r, p, q)
             b == Stretch(r, q, t)
             c == Stretch(r, p, t)
  <1>1. a \in Seq(Units) /\ Len(a) = q - p BY StretchFacts
  <1>2. b \in Seq(Units) /\ Len(b) = t - q BY <1>0, StretchFacts
  <1>3. c \in Seq(Units) /\ Len(c) = t - p BY <1>0, StretchFacts
  <1>4. a \o b \in Seq(Units) /\ Len(a \o b) = t - p BY <1>0, <1>1, <1>2
  <1>5. ASSUME NEW i \in 1 .. t - p PROVE (a \o b)[i] = c[i]
    <2>1. CASE i <= q - p
      <3>1. (a \o b)[i] = a[i] BY <1>0, <1>1, <1>2, <2>1
      <3> QED BY <1>0, <2>1, <3>1 DEF Stretch
    <2>2. CASE ~ (i <= q - p)
      <3>1. (a \o b)[i] = b[i - (q - p)] /\ i - (q - p) \in 1 .. t - q
        BY SMTT(40), <1>0, <1>1, <1>2, <2>2
      <3>2. q + (i - (q - p)) = p + i BY <1>0
      <3> QED BY <1>0, <3>1, <3>2 DEF Stretch
    <2> QED BY <2>1, <2>2
  <1> HIDE DEF a, b, c
  <1>6. Len(a \o b) = Len(c) /\ \A i \in 1 .. Len(a \o b) : (a \o b)[i] = c[i]
    BY <1>3, <1>4, <1>5
  <1>7. a \o b = c BY <1>3, <1>4, <1>6, SeqEqual
  <1> QED BY <1>7 DEF a, b, c

(* What the sizes are.                                                     *)
LEMMA SizeFacts ==
    /\ Size \in Nat \ {0} /\ Huge \in Nat /\ Huge > Size /\ FrameLen \in Nat \ {0} /\ MaxReads \in Nat
    /\ MaxTimeouts \in Nat
    /\ BoxTypes => expectSize \in Nat
  BY ReadAssumption DEF BoxTypes

(* Where the buffer is within bounds the slice is, and the buffer stays so.  *)
LEMMA KeptFacts ==
    ASSUME BoxTypes, NEW data \in Seq(Units), Len(buffer) <= expectSize
    PROVE  /\ buffer \o Kept(data) \in Seq(Units)
           /\ Len(buffer \o Kept(data)) <= expectSize
           /\ Len(buffer) + Len(data) <= expectSize => Kept(data) = data
  <1>1. buffer \in Seq(Units) /\ Len(buffer) \in Nat /\ expectSize \in Nat /\ Len(data) \in Nat
    BY SizeFacts DEF BoxTypes
  <1>2. CASE Len(data) > expectSize - Len(buffer)
    <2>1. Kept(data) = SubSeq(data, 1, expectSize - Len(buffer)) BY <1>2 DEF Kept
    <2>2. expectSize - Len(buffer) \in 0 .. Len(data) BY <1>1, <1>2
    <2>3. Kept(data) \in Seq(Units) /\ Len(Kept(data)) = expectSize - Len(buffer)
      BY <2>1, <2>2, SubSeqProperties
    <2> QED BY <1>1, <1>2, <2>3
  <1>3. CASE ~ (Len(data) > expectSize - Len(buffer))
    <2>1. Kept(data) = data BY <1>3 DEF Kept
    <2> QED BY <1>1, <1>3, <2>1
  <1> QED BY <1>2, <1>3

(* What is left of a queue without its head.                               *)
LEMMA TailFacts ==
    ASSUME NEW S, NEW q \in Seq(S), q # << >>
    PROVE  /\ Len(q) \in Nat /\ Len(q) > 0 /\ DOMAIN q = 1 .. Len(q)
           /\ Head(q) = q[1] /\ Head(q) \in S /\ 1 \in DOMAIN q
           /\ Tail(q) \in Seq(S) /\ Len(Tail(q)) = Len(q) - 1
           /\ DOMAIN Tail(q) = 1 .. Len(q) - 1
           /\ \A i \in DOMAIN Tail(q) : i + 1 \in DOMAIN q /\ Tail(q)[i] = q[i + 1]
           /\ Len(q) = 1 => Tail(q) = << >>
  <1>1. Len(q) \in Nat /\ Len(q) > 0 /\ DOMAIN q = 1 .. Len(q) OBVIOUS
  <1>2. Head(q) = q[1] /\ Head(q) \in S OBVIOUS
  <1>3. Tail(q) \in Seq(S) /\ Len(Tail(q)) = Len(q) - 1 OBVIOUS
  <1>4. DOMAIN Tail(q) = 1 .. Len(q) - 1 BY <1>3
  <1>5. \A i \in DOMAIN Tail(q) : i + 1 \in DOMAIN q /\ Tail(q)[i] = q[i + 1] BY <1>1, <1>4
  <1>6. Len(q) = 1 => Tail(q) = << >>
    <2>1. Len(q) = 1 => Len(Tail(q)) = 0 BY <1>3
    <2>2. Tail(q) # << >> => Len(Tail(q)) # 0 BY <1>3, EmptySeq
    <2> QED BY <2>1, <2>2
  <1> QED BY <1>1, <1>2, <1>3, <1>4, <1>5, <1>6

(* What a queue holds with one more at its end.                            *)
LEMMA AppendFacts ==
    ASSUME NEW S, NEW q \in Seq(S), NEW x \in S
    PROVE  /\ Len(q) \in Nat /\ DOMAIN q = 1 .. Len(q)
           /\ Append(q, x) \in Seq(S) /\ Len(Append(q, x)) = Len(q) + 1
           /\ DOMAIN Append(q, x) = 1 .. Len(q) + 1
           /\ \A i \in DOMAIN q : Append(q, x)[i] = q[i]
           /\ Append(q, x)[Len(q) + 1] = x
           /\ q = << >> => Append(q, x) = <<x>>
  <1>1. Len(q) \in Nat /\ DOMAIN q = 1 .. Len(q) OBVIOUS
  <1>2. Append(q, x) \in Seq(S) /\ Len(Append(q, x)) = Len(q) + 1 OBVIOUS
  <1>3. DOMAIN Append(q, x) = 1 .. Len(q) + 1 BY <1>2
  <1>4. \A i \in DOMAIN q : Append(q, x)[i] = q[i] BY <1>1
  <1>5. Append(q, x)[Len(q) + 1] = x OBVIOUS
  <1>6. q = << >> => Append(q, x) = <<x>> OBVIOUS
  <1> QED BY <1>1, <1>2, <1>3, <1>4, <1>5, <1>6

(* An answer is a frame.                                                   *)
LEMMA SaidIsFrame ==
    ASSUME NEW what \in {"DATA", "OKAY", "FAIL"} PROVE Say(what) \in Frames
  BY SizeFacts DEF Say, Frames

(* A frame of data continues where the last one ended. *)
LEMMA SentFrame ==
    ASSUME DevTypes, DevSendsData
    PROVE  \E n \in 1 .. Size - dev.sent :
             /\ toHost' = Append(toHost, [what |-> "data", of |-> dev.of,
                                          data |-> Stretch(dev.range, dev.sent, dev.sent + n)])
             /\ dev' = [dev EXCEPT !.sent = @ + n]
  <1> DEFINE n == IF Size - dev.sent < FrameLen THEN Size - dev.sent ELSE FrameLen
  <1>1. dev.sent \in 0 .. Size /\ dev.sent < Size BY DEF DevTypes, DevSendsData
  <1>2. n \in 1 .. Size - dev.sent BY <1>1, SizeFacts
  <1>3. (dev.sent + n) - dev.sent = n BY <1>1, <1>2, SizeFacts
  <1> HIDE DEF n
  <1>4. [i \in 1 .. n |-> Unit(dev.range, dev.sent + i)] = Stretch(dev.range, dev.sent, dev.sent + n)
    <2> DEFINE F(t) == [i \in 1 .. t |-> Unit(dev.range, dev.sent + i)]
    <2>1. Stretch(dev.range, dev.sent, dev.sent + n) = F((dev.sent + n) - dev.sent)
      BY Zenon DEF Stretch
    <2> QED BY <1>3, <2>1 DEF F
  <1>5. /\ toHost' = Append(toHost, [what |-> "data", of |-> dev.of,
                                     data |-> [i \in 1 .. n |-> Unit(dev.range, dev.sent + i)]])
        /\ dev' = [dev EXCEPT !.sent = @ + n]
    BY DEF DevSendsData, n
  <1> QED BY <1>2, <1>4, <1>5

-----------------------------------------------------------------------------
(* Every action keeps the types.                                           *)
LEMMA StepTypeOK ==
    ASSUME TypeOK, ShapeInv, [Next]_vars PROVE TypeOK'
  <1>0. ReaderTypes /\ BoxTypes /\ DevTypes /\ FlagTypes /\ ShapeInv BY DEF TypeOK
  <1> USE SizeFacts DEF boxVars, devVars
  <1>1. ASSUME Begin PROVE TypeOK'
    <2>1. ReaderTypes' /\ BoxTypes' /\ DevTypes'
      BY <1>0, <1>1 DEF Begin, MayRead, ReaderTypes, BoxTypes, DevTypes
    <2>2. FlagTypes' BY <1>0, <1>1, Zenon DEF Begin, MayRead, FlagTypes
    <2> QED BY <2>1, <2>2 DEF TypeOK
  <1>2. ASSUME ExpectFirst PROVE TypeOK'
    <2>1. ReaderTypes' /\ BoxTypes' /\ DevTypes'
      BY <1>0, <1>2 DEF ExpectFirst, BeginDataExpect, ReaderTypes, BoxTypes, DevTypes
    <2>2. FlagTypes' BY <1>0, <1>2, Zenon DEF ExpectFirst, BeginDataExpect, FlagTypes
    <2> QED BY <2>1, <2>2 DEF TypeOK
  <1>3. ASSUME Send PROVE TypeOK'
    <2>1. ReaderTypes' /\ BoxTypes'
      BY <1>0, <1>3 DEF Send, ReaderTypes, BoxTypes
    <2>2. DevTypes'
      <3>1. [what |-> cmd, of |-> read] \in Requests
        BY <1>0, <1>3 DEF Send, ReaderTypes, ShapeInv, PlaceInv, Requests
      <3> QED BY <1>0, <1>3, <3>1, AppendFacts DEF Send, DevTypes
    <2>3. FlagTypes' BY <1>0, <1>3, Zenon DEF Send, FlagTypes
    <2> QED BY <2>1, <2>2, <2>3 DEF TypeOK
  <1>4. ASSUME Answered PROVE TypeOK'
    <2>1. ReaderTypes' /\ BoxTypes' /\ DevTypes'
      BY <1>0, <1>4 DEF Answered, ReaderTypes, BoxTypes, DevTypes
    <2>2. FlagTypes' BY <1>0, <1>4, Zenon DEF Answered, FlagTypes
    <2> QED BY <2>1, <2>2 DEF TypeOK
  <1>5. ASSUME NoAnswer PROVE TypeOK'
    <2>1. BoxTypes' /\ DevTypes'
      BY <1>0, <1>5 DEF NoAnswer, MayRunOut, RunsOut, BoxTypes, DevTypes
    <2>2. ReaderTypes'
      <3>1. timeouts' \in 0 .. MaxTimeouts
        <4>1. timeouts \in 0 .. MaxTimeouts /\ MaxTimeouts \in Nat
          BY <1>0, SizeFacts DEF ReaderTypes
        <4>2. timeouts' = timeouts \/ (timeouts' = timeouts + 1 /\ timeouts < MaxTimeouts)
          BY <1>5 DEF NoAnswer, MayRunOut, RunsOut
        <4> QED BY <4>1, <4>2
      <3> QED BY <1>0, <1>5, <3>1 DEF NoAnswer, ReaderTypes
    <2>3. FlagTypes' BY <1>0, <1>5, Zenon DEF NoAnswer, MayRunOut, RunsOut, FlagTypes
    <2> QED BY <2>1, <2>2, <2>3 DEF TypeOK
  <1>6. ASSUME Take PROVE TypeOK'
    <2>1. ReaderTypes' /\ BoxTypes' /\ DevTypes'
      BY <1>0, <1>6 DEF Take, ReaderTypes, BoxTypes, DevTypes
    <2>2. FlagTypes' BY <1>0, <1>6, Zenon DEF Take, FlagTypes
    <2> QED BY <2>1, <2>2 DEF TypeOK
  <1>7. ASSUME Resize PROVE TypeOK'
    <2>1. ReaderTypes' /\ BoxTypes' /\ DevTypes'
      BY <1>0, <1>7 DEF Resize, ReaderTypes, BoxTypes, DevTypes
    <2>2. FlagTypes' BY <1>0, <1>7, Zenon DEF Resize, FlagTypes
    <2> QED BY <2>1, <2>2 DEF TypeOK
  <1>8. ASSUME Diagnose PROVE TypeOK'
    <2>1. ReaderTypes' /\ BoxTypes' /\ DevTypes'
      BY <1>0, <1>8 DEF Diagnose, BeginDataExpect, ReaderTypes, BoxTypes, DevTypes
    <2>2. FlagTypes' BY <1>0, <1>8, Zenon DEF Diagnose, BeginDataExpect, FlagTypes
    <2> QED BY <2>1, <2>2 DEF TypeOK
  <1>9. ASSUME Expect PROVE TypeOK'
    <2>1. BoxTypes' /\ DevTypes'
      BY <1>0, <1>9 DEF Expect, BeginDataExpect, MayRunOut, RunsOut, BoxTypes, DevTypes
    <2>2. ReaderTypes'
      <3>1. timeouts' \in 0 .. MaxTimeouts
        <4>1. timeouts \in 0 .. MaxTimeouts /\ MaxTimeouts \in Nat
          BY <1>0, SizeFacts DEF ReaderTypes
        <4>2. timeouts' = timeouts \/ (timeouts' = timeouts + 1 /\ timeouts < MaxTimeouts)
          BY <1>9 DEF Expect, MayRunOut, RunsOut
        <4> QED BY <4>1, <4>2
      <3> QED BY <1>0, <1>9, <3>1 DEF Expect, ReaderTypes
    <2>3. FlagTypes' BY <1>0, <1>9, Zenon DEF Expect, BeginDataExpect, MayRunOut, RunsOut, FlagTypes
    <2> QED BY <2>1, <2>2, <2>3 DEF TypeOK
  <1>10. ASSUME Receive PROVE TypeOK'
    <2>1. ReaderTypes' /\ BoxTypes' /\ DevTypes'
      BY <1>0, <1>10 DEF Receive, ReaderTypes, BoxTypes, DevTypes
    <2>2. FlagTypes' BY <1>0, <1>10, Zenon DEF Receive, FlagTypes
    <2> QED BY <2>1, <2>2 DEF TypeOK
  <1>11. ASSUME ReceiveTimesOut PROVE TypeOK'
    <2>1. BoxTypes' /\ DevTypes'
      BY <1>0, <1>11 DEF ReceiveTimesOut, MayRunOut, RunsOut, BoxTypes, DevTypes
    <2>2. ReaderTypes'
      <3>1. timeouts' \in 0 .. MaxTimeouts
        <4>1. timeouts \in 0 .. MaxTimeouts /\ MaxTimeouts \in Nat
          BY <1>0, SizeFacts DEF ReaderTypes
        <4>2. timeouts' = timeouts \/ (timeouts' = timeouts + 1 /\ timeouts < MaxTimeouts)
          BY <1>11 DEF ReceiveTimesOut, MayRunOut, RunsOut
        <4> QED BY <4>1, <4>2
      <3> QED BY <1>0, <1>11, <3>1 DEF ReceiveTimesOut, ReaderTypes
    <2>3. FlagTypes' BY <1>0, <1>11, Zenon DEF ReceiveTimesOut, MayRunOut, RunsOut, FlagTypes
    <2> QED BY <2>1, <2>2, <2>3 DEF TypeOK
  <1>12. ASSUME RxFrame PROVE TypeOK'
    <2>1. ReaderTypes'
      BY <1>0, <1>12 DEF RxFrame, RxData, ReaderTypes
    <2>2. BoxTypes'
      <3>1. toHost \in Seq(Frames) /\ toHost # << >> BY <1>0, <1>12 DEF DevTypes, RxFrame
      <3>2. Head(toHost) \in Frames BY <3>1, TailFacts
      <3>3. Head(toHost).data \in Seq(Units) BY <3>2 DEF Frames
      <3>4. UNCHANGED expectSize BY <1>12 DEF RxFrame
      <3>5. slot' \in {"none", "DATA", "OKAY", "FAIL"}
        BY <1>0, <3>2, <1>12 DEF RxFrame, RxData, BoxTypes, Frames
      <3>6. buffer' = buffer \/ (Len(buffer) <= expectSize /\ buffer' = buffer \o Kept(Head(toHost).data))
        BY <1>12 DEF RxFrame, RxData
      <3>7. buffer' \in Seq(Units) /\ Len(buffer') <= Huge
        <4>1. CASE buffer' = buffer BY <1>0, <4>1 DEF BoxTypes
        <4>2. CASE Len(buffer) <= expectSize /\ buffer' = buffer \o Kept(Head(toHost).data)
          <5>1. buffer' \in Seq(Units) /\ Len(buffer') <= expectSize
            BY <1>0, <3>3, <4>2, KeptFacts
          <5>2. expectSize <= Huge /\ expectSize \in Nat /\ Len(buffer') \in Nat
            BY <1>0, <5>1, SizeFacts DEF BoxTypes
          <5> QED BY <5>1, <5>2, SizeFacts
        <4> QED BY <3>6, <4>1, <4>2
      <3> QED BY <1>0, <3>4, <3>5, <3>7 DEF BoxTypes
    <2>3. DevTypes' BY <1>0, <1>12, TailFacts DEF RxFrame, DevTypes
    <2>4. FlagTypes' BY <1>0, <1>12, Zenon DEF RxFrame, RxData, FlagTypes
    <2> QED BY <2>1, <2>2, <2>3, <2>4 DEF TypeOK
  <1>13. ASSUME DevTakesUpload PROVE TypeOK'
    <2>1. ReaderTypes' /\ BoxTypes'
      BY <1>0, <1>13 DEF DevTakesUpload, ReaderTypes, BoxTypes
    <2>2. DevTypes'
      <3>1. toDev' \in Seq(Requests) /\ Head(toDev) \in Requests
        BY <1>0, <1>13, TailFacts DEF DevTakesUpload, DevTypes
      <3>2. toHost' \in Seq(Frames)
        <4>1. toHost \in Seq(Frames) BY <1>0 DEF DevTypes
        <4>2. \E what \in {"DATA", "OKAY", "FAIL"} : toHost' = Append(toHost, Say(what))
          BY <1>13 DEF DevTakesUpload
        <4> QED BY <4>1, <4>2, SaidIsFrame, AppendFacts
      <3>3. dev' \in [of : 0 .. MaxReads, range : 0 .. MaxReads, sent : 0 .. Size]
        BY SMTT(40), <1>0, <1>13, <3>1, SizeFacts DEF DevTakesUpload, DevTypes, Requests
      <3> QED BY <1>0, <1>13, <3>1, <3>2, <3>3 DEF DevTakesUpload, DevTypes
    <2>3. FlagTypes' BY <1>0, <1>13, Zenon DEF DevTakesUpload, FlagTypes
    <2> QED BY <2>1, <2>2, <2>3 DEF TypeOK
  <1>14. ASSUME DevTakesStage PROVE TypeOK'
    <2>1. ReaderTypes' /\ BoxTypes'
      BY <1>0, <1>14 DEF DevTakesStage, ReaderTypes, BoxTypes
    <2>2. DevTypes'
      <3>1. toDev' \in Seq(Requests) /\ Head(toDev) \in Requests
        BY <1>0, <1>14, TailFacts DEF DevTakesStage, DevTypes
      <3>2. toHost' \in Seq(Frames)
        <4>1. toHost \in Seq(Frames) BY <1>0 DEF DevTypes
        <4>2. \E what \in {"DATA", "OKAY", "FAIL"} : toHost' = Append(toHost, Say(what))
          BY <1>14 DEF DevTakesStage
        <4> QED BY <4>1, <4>2, SaidIsFrame, AppendFacts
      <3>3. staged' \in 0 .. MaxReads /\ unstaged' \in SUBSET (1 .. MaxReads)
        <4>1. Head(toDev).of \in 1 .. MaxReads BY <3>1 DEF Requests
        <4>2. staged' \in {staged, Head(toDev).of} BY <1>14 DEF DevTakesStage
        <4>3. unstaged' \in {unstaged, unstaged \cup {Head(toDev).of}} BY <1>14 DEF DevTakesStage
        <4> QED BY SMTT(40), <1>0, <4>1, <4>2, <4>3, SizeFacts DEF DevTypes
      <3> QED BY <1>0, <1>14, <3>1, <3>2, <3>3 DEF DevTakesStage, DevTypes
    <2>3. FlagTypes' BY <1>0, <1>14, Zenon DEF DevTakesStage, FlagTypes
    <2> QED BY <2>1, <2>2, <2>3 DEF TypeOK
  <1>15. ASSUME DevSendsData PROVE TypeOK'
    <2>1. ReaderTypes' /\ BoxTypes'
      BY <1>0, <1>15 DEF DevSendsData, ReaderTypes, BoxTypes
    <2>2. DevTypes'
      <3>1. PICK n \in 1 .. Size - dev.sent :
              /\ toHost' = Append(toHost, [what |-> "data", of |-> dev.of,
                                           data |-> Stretch(dev.range, dev.sent, dev.sent + n)])
              /\ dev' = [dev EXCEPT !.sent = @ + n]
        BY <1>0, <1>15, SentFrame
      <3>2. dev.sent + n \in dev.sent .. Size /\ dev.sent \in 0 .. Size /\ dev.range \in 0 .. MaxReads
            /\ dev.of \in 0 .. MaxReads
        BY SMTT(40), <1>0, <3>1, SizeFacts DEF DevTypes
      <3>3. Stretch(dev.range, dev.sent, dev.sent + n) \in Seq(Units) BY <3>2, StretchFacts
      <3>4. toHost' \in Seq(Frames) BY <1>0, <3>1, <3>2, <3>3, AppendFacts DEF DevTypes, Frames
      <3>5. dev' \in [of : 0 .. MaxReads, range : 0 .. MaxReads, sent : 0 .. Size]
        <4>1. dev.sent + n \in 0 .. Size BY <3>2, SizeFacts
        <4> QED BY <1>0, <3>1, <4>1 DEF DevTypes
      <3> QED BY <1>0, <1>15, <3>4, <3>5 DEF DevSendsData, DevTypes
    <2>3. FlagTypes' BY <1>0, <1>15, Zenon DEF DevSendsData, FlagTypes
    <2> QED BY <2>1, <2>2, <2>3 DEF TypeOK
  <1>16. ASSUME DevFinishes PROVE TypeOK'
    <2>1. ReaderTypes' /\ BoxTypes'
      BY <1>0, <1>16 DEF DevFinishes, ReaderTypes, BoxTypes
    <2>2. DevTypes'
      <3>1. toHost' \in Seq(Frames)
        BY <1>0, <1>16, SaidIsFrame, AppendFacts DEF DevFinishes, DevTypes
      <3> QED BY <1>0, <1>16, <3>1, SizeFacts DEF DevFinishes, DevTypes, DevIdle
    <2>3. FlagTypes' BY <1>0, <1>16, Zenon DEF DevFinishes, FlagTypes
    <2> QED BY <2>1, <2>2, <2>3 DEF TypeOK
  <1>17. ASSUME Over \/ UNCHANGED vars PROVE TypeOK'
    <2>0. UNCHANGED vars BY <1>17 DEF Over
    <2>1. ReaderTypes' /\ BoxTypes' /\ DevTypes'
      BY <1>0, <2>0 DEF vars, ReaderTypes, BoxTypes, DevTypes
    <2>2. FlagTypes' BY <1>0, <1>17, Zenon DEF Over, vars, FlagTypes
    <2> QED BY <2>1, <2>2 DEF TypeOK
  <1> QED
    BY <1>1, <1>2, <1>3, <1>4, <1>5, <1>6, <1>7, <1>8, <1>9, <1>10, <1>11, <1>12, <1>13, <1>14, <1>15, <1>16, <1>17
    DEF Next, ReaderStep, DeviceStep

(* Reads only get later, and commands are of the present one.              *)
LEMMA StepOfRead ==
    ASSUME TypeOK, OfRead, [Next]_vars, PlaceInv PROVE OfRead'
  <1>0. /\ ReaderTypes /\ BoxTypes /\ DevTypes
        /\ read \in Nat /\ dev.of \in Nat
        /\ \A k \in DOMAIN toDev : toDev[k].of \in Nat
        /\ \A k \in DOMAIN toHost : toHost[k].of \in Nat
        /\ Say("DATA").of = 0 /\ Say("OKAY").of = 0 /\ Say("FAIL").of = 0
    <2>1. ReaderTypes /\ BoxTypes /\ DevTypes BY DEF TypeOK
    <2>2. read \in Nat /\ dev.of \in Nat BY <2>1, SizeFacts DEF ReaderTypes, DevTypes
    <2>3. ASSUME NEW k \in DOMAIN toDev PROVE toDev[k].of \in Nat
      <3>1. toDev \in Seq(Requests) BY <2>1 DEF DevTypes
      <3>2. toDev[k] \in Requests BY <3>1
      <3> QED BY <3>2, SizeFacts DEF Requests
    <2>4. ASSUME NEW k \in DOMAIN toHost PROVE toHost[k].of \in Nat
      <3>1. toHost \in Seq(Frames) BY <2>1 DEF DevTypes
      <3>2. toHost[k] \in Frames BY <3>1
      <3> QED BY <3>2, SizeFacts DEF Frames
    <2> QED BY <2>1, <2>2, <2>3, <2>4 DEF Say
  <1> USE DEF boxVars, devVars
  <1>1. ASSUME Begin PROVE OfRead'
    <2>1. read' = read + 1 /\ UNCHANGED <<dev, toDev, toHost>> BY <1>1 DEF Begin
    <2> QED BY <1>0, <2>1 DEF OfRead
  <1>2. ASSUME ExpectFirst PROVE OfRead'
    BY <1>2 DEF ExpectFirst, OfRead
  <1>3. ASSUME Send PROVE OfRead'
    <2>1. toDev' = Append(toDev, [what |-> cmd, of |-> read]) BY <1>3 DEF Send
    <2>2. toDev \in Seq(Requests) /\ [what |-> cmd, of |-> read] \in Requests
      BY <1>0, <1>3 DEF Send, ReaderTypes, DevTypes, PlaceInv, Requests
    <2>3. \A k \in DOMAIN toDev' : toDev'[k].of <= read
      <3>1. DOMAIN toDev' = 1 .. Len(toDev) + 1 /\ DOMAIN toDev = 1 .. Len(toDev) /\ Len(toDev) \in Nat
            /\ toDev'[Len(toDev) + 1].of = read /\ \A k \in DOMAIN toDev : toDev'[k] = toDev[k]
        BY <2>1, <2>2, AppendFacts
      <3> QED BY <1>0, <3>1 DEF OfRead
    <2>4. UNCHANGED <<read, dev, toHost>> BY <1>3 DEF Send
    <2> QED BY <1>0, <2>3, <2>4 DEF OfRead
  <1>4. ASSUME Answered PROVE OfRead'
    BY <1>4 DEF Answered, OfRead
  <1>5. ASSUME NoAnswer PROVE OfRead'
    BY <1>5 DEF NoAnswer, OfRead
  <1>6. ASSUME Take PROVE OfRead'
    BY <1>6 DEF Take, OfRead
  <1>7. ASSUME Resize PROVE OfRead'
    BY <1>7 DEF Resize, OfRead
  <1>8. ASSUME Diagnose PROVE OfRead'
    BY <1>8 DEF Diagnose, OfRead
  <1>9. ASSUME Expect PROVE OfRead'
    BY <1>9 DEF Expect, OfRead
  <1>10. ASSUME Receive PROVE OfRead'
    BY <1>10 DEF Receive, OfRead
  <1>11. ASSUME ReceiveTimesOut PROVE OfRead'
    BY <1>11 DEF ReceiveTimesOut, OfRead
  <1>12. ASSUME RxFrame PROVE OfRead'
    <2>1. \A k \in DOMAIN toHost' : toHost'[k].of <= read
      BY <1>0, <1>12, TailFacts DEF RxFrame, OfRead, DevTypes
    <2>2. UNCHANGED <<read, dev, toDev>> BY <1>12 DEF RxFrame
    <2> QED BY <1>0, <2>1, <2>2 DEF OfRead
  <1>13. ASSUME DevTakesUpload PROVE OfRead'
    <2>1. \A k \in DOMAIN toDev' : toDev'[k].of <= read
      BY <1>0, <1>13, TailFacts DEF DevTakesUpload, OfRead, DevTypes
    <2>2. \A k \in DOMAIN toHost' : toHost'[k].of <= read
      <3>1. PICK f \in Frames : toHost' = Append(toHost, f) /\ f.of <= read
        <4>1. \E what \in {"DATA", "OKAY", "FAIL"} : toHost' = Append(toHost, Say(what))
          BY <1>13 DEF DevTakesUpload
        <4> QED BY <1>0, <4>1, SaidIsFrame
      <3>2. DOMAIN toHost' = 1 .. Len(toHost) + 1 /\ DOMAIN toHost = 1 .. Len(toHost) /\ Len(toHost) \in Nat
            /\ toHost'[Len(toHost) + 1] = f /\ \A k \in DOMAIN toHost : toHost'[k] = toHost[k]
        BY <1>0, <3>1, AppendFacts DEF DevTypes
      <3> QED BY <1>0, <3>1, <3>2 DEF OfRead
    <2>3. Head(toDev).of <= read /\ Head(toDev).of # 0
      <3>1. toDev \in Seq(Requests) /\ toDev # << >> BY <1>0, <1>13 DEF DevTypes, DevTakesUpload
      <3>2. Head(toDev) = toDev[1] /\ 1 \in DOMAIN toDev /\ Head(toDev) \in Requests BY <3>1, TailFacts
      <3> QED BY <3>2, SizeFacts DEF OfRead, Requests
    <2>4. (dev.of = 0 <=> dev = DevIdle)' /\ dev'.of <= read
      BY <1>0, <1>13, <2>3 DEF DevTakesUpload, OfRead, DevIdle
    <2>5. UNCHANGED read BY <1>13 DEF DevTakesUpload
    <2> QED BY <2>1, <2>2, <2>4, <2>5 DEF OfRead
  <1>14. ASSUME DevTakesStage PROVE OfRead'
    <2>1. \A k \in DOMAIN toDev' : toDev'[k].of <= read
      BY <1>0, <1>14, TailFacts DEF DevTakesStage, OfRead, DevTypes
    <2>2. \A k \in DOMAIN toHost' : toHost'[k].of <= read
      <3>1. PICK f \in Frames : toHost' = Append(toHost, f) /\ f.of <= read
        <4>1. \E what \in {"DATA", "OKAY", "FAIL"} : toHost' = Append(toHost, Say(what))
          BY <1>14 DEF DevTakesStage
        <4> QED BY <1>0, <4>1, SaidIsFrame
      <3>2. DOMAIN toHost' = 1 .. Len(toHost) + 1 /\ DOMAIN toHost = 1 .. Len(toHost) /\ Len(toHost) \in Nat
            /\ toHost'[Len(toHost) + 1] = f /\ \A k \in DOMAIN toHost : toHost'[k] = toHost[k]
        BY <1>0, <3>1, AppendFacts DEF DevTypes
      <3> QED BY <1>0, <3>1, <3>2 DEF OfRead
    <2>3. UNCHANGED <<read, dev>> BY <1>14 DEF DevTakesStage
    <2> QED BY <2>1, <2>2, <2>3 DEF OfRead
  <1>15. ASSUME DevSendsData PROVE OfRead'
    <2>1. \A k \in DOMAIN toHost' : toHost'[k].of <= read
      <3>1. PICK f \in Frames : toHost' = Append(toHost, f) /\ f.of <= read
        <4>1. PICK n \in 1 .. Size - dev.sent :
                toHost' = Append(toHost, [what |-> "data", of |-> dev.of,
                                          data |-> Stretch(dev.range, dev.sent, dev.sent + n)])
          BY <1>0, <1>15, SentFrame
        <4>2. dev.sent \in 0 .. Size /\ dev.sent + n \in dev.sent .. Size /\ dev.range \in 0 .. MaxReads
              /\ dev.of \in 0 .. MaxReads
          BY <1>0, <4>1, SizeFacts DEF DevTypes
        <4>3. Stretch(dev.range, dev.sent, dev.sent + n) \in Seq(Units) BY <4>2, StretchFacts
        <4> QED BY <4>1, <4>2, <4>3 DEF Frames, OfRead
      <3>2. DOMAIN toHost' = 1 .. Len(toHost) + 1 /\ DOMAIN toHost = 1 .. Len(toHost) /\ Len(toHost) \in Nat
            /\ toHost'[Len(toHost) + 1] = f /\ \A k \in DOMAIN toHost : toHost'[k] = toHost[k]
        BY <1>0, <3>1, AppendFacts DEF DevTypes
      <3> QED BY <1>0, <3>1, <3>2 DEF OfRead
    <2>2. dev'.of = dev.of /\ dev.of # 0 /\ dev' # DevIdle
      <3>1. dev.of # 0 BY <1>15 DEF DevSendsData, OfRead
      <3>2. dev'.of = dev.of BY <1>0, <1>15 DEF DevSendsData, DevTypes
      <3> QED BY <3>1, <3>2 DEF DevIdle
    <2>3. UNCHANGED <<read, toDev>> BY <1>15 DEF DevSendsData
    <2> QED BY <2>1, <2>2, <2>3 DEF OfRead
  <1>16. ASSUME DevFinishes PROVE OfRead'
    <2>1. CASE toHost' = toHost
      BY <1>0, <1>16, <2>1 DEF DevFinishes, OfRead, DevIdle
    <2>2. CASE toHost' = Append(toHost, Say("OKAY"))
      <3>1. \A k \in DOMAIN toHost' : toHost'[k].of <= read
        <4>1. PICK f \in Frames : toHost' = Append(toHost, f) /\ f.of <= read
          BY <1>0, <2>2, SaidIsFrame
        <4>2. DOMAIN toHost' = 1 .. Len(toHost) + 1 /\ DOMAIN toHost = 1 .. Len(toHost) /\ Len(toHost) \in Nat
              /\ toHost'[Len(toHost) + 1] = f /\ \A k \in DOMAIN toHost : toHost'[k] = toHost[k]
          BY <1>0, <4>1, AppendFacts DEF DevTypes
        <4> QED BY <1>0, <4>1, <4>2 DEF OfRead
      <3> QED BY <1>0, <1>16, <3>1 DEF DevFinishes, OfRead, DevIdle
    <2> QED BY <1>16, <2>1, <2>2 DEF DevFinishes
  <1>17. ASSUME Over \/ UNCHANGED vars PROVE OfRead'
    BY <1>17 DEF Over, vars, OfRead
  <1> QED
    BY <1>1, <1>2, <1>3, <1>4, <1>5, <1>6, <1>7, <1>8, <1>9, <1>10, <1>11, <1>12, <1>13, <1>14, <1>15, <1>16, <1>17
    DEF Next, ReaderStep, DeviceStep

(* Every action leaves the reader where it may be.                         *)
LEMMA StepPlaceInv ==
    ASSUME TypeOK, PlaceInv, [Next]_vars PROVE PlaceInv'
  <1>0. ReaderTypes /\ BoxTypes /\ DevTypes /\ read \in Nat BY SizeFacts DEF TypeOK, ReaderTypes
  <1> USE SizeFacts DEF boxVars, devVars
  <1>1. ASSUME Begin PROVE PlaceInv'
    BY <1>0, <1>1 DEF Begin, MayRead, PlaceInv, ReaderTypes, BoxTypes
  <1>2. ASSUME ExpectFirst PROVE PlaceInv'
    BY <1>0, <1>2 DEF ExpectFirst, BeginDataExpect, PlaceInv, ReaderTypes, BoxTypes
  <1>3. ASSUME Send PROVE PlaceInv'
    BY <1>0, <1>3 DEF Send, PlaceInv, ReaderTypes, BoxTypes
  <1>4. ASSUME Answered PROVE PlaceInv'
    BY <1>0, <1>4 DEF Answered, PlaceInv, ReaderTypes, BoxTypes
  <1>5. ASSUME NoAnswer PROVE PlaceInv'
    BY <1>0, <1>5 DEF NoAnswer, MayRunOut, RunsOut, PlaceInv, ReaderTypes, BoxTypes
  <1>6. ASSUME Take PROVE PlaceInv'
    BY <1>0, <1>6 DEF Take, PlaceInv, ReaderTypes, BoxTypes
  <1>7. ASSUME Resize PROVE PlaceInv'
    BY <1>0, <1>7 DEF Resize, PlaceInv, ReaderTypes, BoxTypes
  <1>8. ASSUME Diagnose PROVE PlaceInv'
    BY <1>0, <1>8 DEF Diagnose, BeginDataExpect, PlaceInv, ReaderTypes, BoxTypes
  <1>9. ASSUME Expect PROVE PlaceInv'
    BY <1>0, <1>9 DEF Expect, BeginDataExpect, MayRunOut, RunsOut, PlaceInv, ReaderTypes, BoxTypes
  <1>10. ASSUME Receive PROVE PlaceInv'
    BY <1>0, <1>10 DEF Receive, PlaceInv, ReaderTypes, BoxTypes
  <1>11. ASSUME ReceiveTimesOut PROVE PlaceInv'
    BY <1>0, <1>11 DEF ReceiveTimesOut, MayRunOut, RunsOut, PlaceInv, ReaderTypes, BoxTypes
  <1>12. ASSUME RxFrame PROVE PlaceInv'
    <2>1. Head(toHost) \in Frames BY <1>0, <1>12, TailFacts DEF RxFrame, DevTypes
    <2>2. slot' \in {slot, "DATA", "OKAY", "FAIL"} /\ pc' \in {pc, "panic"}
      BY <1>12, <2>1 DEF RxFrame, RxData, Frames
    <2>3. UNCHANGED <<user, cmd, read, expectData, expectSize>> BY <1>12 DEF RxFrame
    <2> QED BY <2>2, <2>3 DEF PlaceInv
  <1>13. ASSUME DevTakesUpload PROVE PlaceInv'
    BY <1>0, <1>13 DEF DevTakesUpload, PlaceInv, ReaderTypes, BoxTypes
  <1>14. ASSUME DevTakesStage PROVE PlaceInv'
    BY <1>0, <1>14 DEF DevTakesStage, PlaceInv, ReaderTypes, BoxTypes
  <1>15. ASSUME DevSendsData PROVE PlaceInv'
    BY <1>0, <1>15 DEF DevSendsData, PlaceInv, ReaderTypes, BoxTypes
  <1>16. ASSUME DevFinishes PROVE PlaceInv'
    BY <1>0, <1>16 DEF DevFinishes, PlaceInv, ReaderTypes, BoxTypes
  <1>17. ASSUME Over \/ UNCHANGED vars PROVE PlaceInv'
    BY <1>17 DEF Over, vars, PlaceInv
  <1> QED
    BY <1>1, <1>2, <1>3, <1>4, <1>5, <1>6, <1>7, <1>8, <1>9, <1>10, <1>11, <1>12, <1>13, <1>14, <1>15, <1>16, <1>17
    DEF Next, ReaderStep, DeviceStep

(* A reader and a device once out of step stay out of step. *)
LEMMA OnceInStep ==
    ASSUME TypeOK, [Next]_vars, InStep' PROVE InStep
  <1>0. timeouts \in Nat /\ hasty \in BOOLEAN BY SizeFacts DEF TypeOK, ReaderTypes, FlagTypes
  <1>1. timeouts' \in {timeouts, timeouts + 1}
    BY DEF Next, ReaderStep, DeviceStep, Over, vars, boxVars, devVars, RunsOut,
           Begin, ExpectFirst, Send, Answered, NoAnswer, Take, Resize, Diagnose, Expect, Receive,
           ReceiveTimesOut, RxFrame, DevTakesUpload, DevTakesStage, DevSendsData, DevFinishes
  <1>2. hasty => hasty'
    BY Zenon
       DEF Next, ReaderStep, DeviceStep, Over, vars, boxVars, devVars, RunsOut,
           Begin, ExpectFirst, Send, Answered, NoAnswer, Take, Resize, Diagnose, Expect, Receive,
           ReceiveTimesOut, RxFrame, DevTakesUpload, DevTakesStage, DevSendsData, DevFinishes
  <1>3. timeouts = 0 BY <1>0, <1>1 DEF InStep
  <1> QED BY <1>2, <1>3 DEF InStep

(* A wait that runs out in step had nothing to wait for. *)
LEMMA RanOutSilent ==
    ASSUME TypeOK, RunsOut, InStep' PROVE Silent
  <1>1. timeouts \in Nat /\ timeouts' = 0 BY SizeFacts DEF TypeOK, ReaderTypes, InStep
  <1>2. timeouts + 1 # 0 BY <1>1
  <1> QED BY <1>1, <1>2 DEF RunsOut

-----------------------------------------------------------------------------
(* The flow of the data. *)

(* What is left when a frame is read continues it.                         *)
LEMMA FlowRead ==
    ASSUME DevTypes, NEW r \in 0 .. MaxReads, NEW got \in 0 .. Size, Flow(r, got),
           toHost # << >>, toHost' = Tail(toHost), UNCHANGED dev
    PROVE  IF Head(toHost).what = "data"
             THEN \E gets \in got .. Size :
                    /\ gets > got
                    /\ Head(toHost).data = Stretch(r, got, gets)
                    /\ Flow(r, gets)'
             ELSE Flow(r, got)'
  <1> DEFINE n == Len(toHost)
  <1>1. PICK b \in [1 .. n + 1 -> 0 .. Size] :
          /\ b[1] = got
          /\ b[n + 1] = SoFar
          /\ \A j, k \in 1 .. n + 1 : j <= k => b[j] <= b[k]
          /\ \A k \in 1 .. n :
               IF toHost[k].what = "data"
                 THEN b[k] < b[k + 1] /\ toHost[k].data = Stretch(r, b[k], b[k + 1])
                 ELSE b[k] = b[k + 1]
    BY DEF Flow
  <1>2. /\ n \in Nat /\ n > 0 /\ Head(toHost) = toHost[1]
        /\ Len(toHost') = n - 1 /\ \A i \in 1 .. n - 1 : toHost'[i] = toHost[i + 1]
    BY TailFacts DEF DevTypes
  <1>3. SoFar' = SoFar /\ (dev' # DevIdle => dev'.range = r) BY DEF SoFar, Flow
  <1> DEFINE c == [k \in 1 .. n |-> b[k + 1]]
  <1>4. c \in [1 .. Len(toHost') + 1 -> 0 .. Size] BY <1>1, <1>2
  <1>5. c[Len(toHost') + 1] = SoFar BY <1>1, <1>2
  <1>6. \A j, k \in 1 .. Len(toHost') + 1 : j <= k => c[j] <= c[k] BY SMTT(40), <1>1, <1>2
  <1>7. ASSUME NEW k \in 1 .. Len(toHost')
        PROVE  IF toHost'[k].what = "data"
                 THEN c[k] < c[k + 1] /\ toHost'[k].data = Stretch(r, c[k], c[k + 1])
                 ELSE c[k] = c[k + 1]
    <2>1. k + 1 \in 1 .. n /\ c[k] = b[k + 1] /\ c[k + 1] = b[(k + 1) + 1] BY <1>2
    <2>2. toHost'[k] = toHost[k + 1] BY <1>2
    <2> QED BY <1>1, <2>1, <2>2, Zenon
  <1>8. c[1] = b[2] /\ b[2] \in 0 .. Size /\ 1 \in 1 .. n BY <1>1, <1>2
  <1> HIDE DEF c
  <1>9. Flow(r, b[2])'
    BY <1>2, <1>3, <1>4, <1>5, <1>6, <1>7, <1>8 DEF Flow
  <1>10. CASE Head(toHost).what = "data"
    <2>1. b[1] < b[1 + 1] /\ toHost[1].data = Stretch(r, b[1], b[1 + 1])
      BY <1>1, <1>2, <1>8, <1>10
    <2>2. b[2] \in got .. Size /\ b[2] > got BY <1>1, <1>8, <2>1, SizeFacts
    <2> QED BY <1>1, <1>2, <1>9, <1>10, <2>1, <2>2
  <1>11. CASE Head(toHost).what # "data"
    <2>1. b[1] = b[1 + 1] BY <1>1, <1>2, <1>8, <1>11
    <2> QED BY <1>1, <1>9, <1>11, <2>1
  <1> QED BY <1>10, <1>11

(* A frame that continues the last one continues the flow.                 *)
LEMMA FlowGrows ==
    ASSUME DevTypes, NEW r \in 0 .. MaxReads, NEW got \in 0 .. Size, Flow(r, got),
           NEW f \in Frames, toHost' = Append(toHost, f),
           SoFar \in 0 .. Size, NEW upto \in 0 .. Size, SoFar' = upto, dev' # DevIdle => dev'.range = r,
           IF f.what = "data" THEN SoFar < upto /\ f.data = Stretch(r, SoFar, upto) ELSE upto = SoFar
    PROVE  Flow(r, got)'
  <1> DEFINE n == Len(toHost)
  <1>1. PICK b \in [1 .. n + 1 -> 0 .. Size] :
          /\ b[1] = got
          /\ b[n + 1] = SoFar
          /\ \A j, k \in 1 .. n + 1 : j <= k => b[j] <= b[k]
          /\ \A k \in 1 .. n :
               IF toHost[k].what = "data"
                 THEN b[k] < b[k + 1] /\ toHost[k].data = Stretch(r, b[k], b[k + 1])
                 ELSE b[k] = b[k + 1]
    BY DEF Flow
  <1>2. /\ n \in Nat /\ Len(toHost') = n + 1 /\ toHost'[n + 1] = f
        /\ \A i \in 1 .. n : toHost'[i] = toHost[i]
    BY AppendFacts DEF DevTypes
  <1> DEFINE c == [k \in 1 .. (n + 1) + 1 |-> IF k = (n + 1) + 1 THEN upto ELSE b[k]]
  <1>3. SoFar <= upto BY SizeFacts
  <1>4. c \in [1 .. (n + 1) + 1 -> 0 .. Size] BY <1>1, <1>2
  <1>5. c[1] = got /\ c[(n + 1) + 1] = upto BY <1>1, <1>2
  <1>6. ASSUME NEW j \in 1 .. (n + 1) + 1, NEW k \in 1 .. (n + 1) + 1, j <= k PROVE c[j] <= c[k]
    <2>1. CASE k # (n + 1) + 1
      <3>1. j \in 1 .. n + 1 /\ k \in 1 .. n + 1 /\ j # (n + 1) + 1 BY SMTT(40), <1>2, <1>6, <2>1
      <3>2. c[j] = b[j] /\ c[k] = b[k] BY <2>1, <3>1
      <3> QED BY <1>1, <1>6, <3>1, <3>2
    <2>2. CASE k = (n + 1) + 1 /\ j # k
      <3>1. j \in 1 .. n + 1 /\ j <= n + 1 /\ n + 1 \in 1 .. n + 1 /\ c[j] = b[j] /\ c[k] = upto
        BY <1>2, <1>6, <2>2
      <3>2. b[j] <= b[n + 1] /\ b[j] \in 0 .. Size BY <1>1, <3>1
      <3> QED BY <1>1, <1>3, <3>1, <3>2, SizeFacts
    <2>3. CASE j = k
      <3>1. c[k] \in 0 .. Size BY <1>4
      <3> QED BY <2>3, <3>1, SizeFacts
    <2> QED BY <2>1, <2>2, <2>3
  <1>7. ASSUME NEW k \in 1 .. n + 1
        PROVE  IF toHost'[k].what = "data"
                 THEN c[k] < c[k + 1] /\ toHost'[k].data = Stretch(r, c[k], c[k + 1])
                 ELSE c[k] = c[k + 1]
    <2>1. CASE k = n + 1
      <3>1. toHost'[k] = f /\ c[k] = SoFar /\ c[k + 1] = upto BY <1>1, <1>2, <2>1
      <3> QED BY <3>1, Zenon
    <2>2. CASE k # n + 1
      <3>1. k \in 1 .. n /\ toHost'[k] = toHost[k] /\ c[k] = b[k] /\ c[k + 1] = b[k + 1]
        BY <1>2, <2>2
      <3> QED BY <1>1, <3>1, Zenon
    <2> QED BY <2>1, <2>2
  <1> HIDE DEF c
  <1> QED BY SMTT(40), <1>2, <1>4, <1>5, <1>6, <1>7 DEF Flow

(* The answer to an upload command begins the flow. *)
LEMMA FlowStarts ==
    ASSUME NEW r \in 0 .. MaxReads, NEW f, f.what # "data", toHost' = <<f>>,
           dev' # DevIdle, dev'.range = r, dev'.sent = 0
    PROVE  Flow(r, 0)'
  <1> DEFINE c == [k \in 1 .. 1 + 1 |-> 0]
  <1>1. Len(toHost') = 1 /\ toHost'[1] = f OBVIOUS
  <1>2. c \in [1 .. 1 + 1 -> 0 .. Size] /\ c[1] = 0 /\ c[1 + 1] = 0
        /\ (\A j, k \in 1 .. 1 + 1 : j <= k => c[j] <= c[k]) /\ \A k \in 1 .. 1 : c[k] = c[k + 1] /\ k = 1
    BY SizeFacts
  <1> HIDE DEF c
  <1>3. SoFar' = 0 BY DEF SoFar
  <1> QED BY <1>1, <1>2, <1>3 DEF Flow

(* Who has all of it gets no more. *)
LEMMA FlowEnds ==
    ASSUME DevTypes, NEW r \in 0 .. MaxReads, Flow(r, Size)
    PROVE  SoFar = Size /\ \A k \in DOMAIN toHost : toHost[k].what # "data"
  <1> DEFINE n == Len(toHost)
  <1>1. PICK b \in [1 .. n + 1 -> 0 .. Size] :
          /\ b[1] = Size
          /\ b[n + 1] = SoFar
          /\ \A j, k \in 1 .. n + 1 : j <= k => b[j] <= b[k]
          /\ \A k \in 1 .. n :
               IF toHost[k].what = "data"
                 THEN b[k] < b[k + 1] /\ toHost[k].data = Stretch(r, b[k], b[k + 1])
                 ELSE b[k] = b[k + 1]
    BY DEF Flow
  <1>2. n \in Nat /\ DOMAIN toHost = 1 .. n BY DEF DevTypes
  <1>3. ASSUME NEW k \in 1 .. n + 1 PROVE b[k] = Size
    <2>1. 1 \in 1 .. n + 1 /\ 1 <= k BY <1>2
    <2>2. b[1] <= b[k] /\ b[k] \in 0 .. Size BY <1>1, <2>1
    <2> QED BY <1>1, <2>2, SizeFacts
  <1>4. SoFar = Size BY <1>1, <1>2, <1>3
  <1>5. ASSUME NEW k \in 1 .. n, toHost[k].what = "data" PROVE FALSE
    <2>1. b[k] = Size /\ b[k + 1] = Size BY <1>2, <1>3
    <2>2. b[k] < b[k + 1] BY <1>1, <1>5
    <2> QED BY <2>1, <2>2, SizeFacts
  <1> QED BY <1>2, <1>4, <1>5

(* Who reads does not change.                                              *)
LEMMA UserStays == ASSUME [Next]_vars PROVE user' = user
  BY DEF Next, ReaderStep, DeviceStep, Over, vars, boxVars, devVars,
         Begin, ExpectFirst, Send, Answered, NoAnswer, Take, Resize, Diagnose, Expect, Receive,
         ReceiveTimesOut, RxFrame, DevTakesUpload, DevTakesStage, DevSendsData, DevFinishes

(* Nothing is a stretch of every range.                                    *)
LEMMA EmptyStretch ==
    ASSUME NEW r \in 0 .. MaxReads, NEW p \in 0 .. Size PROVE Stretch(r, p, p) = << >>
  <1>1. p \in p .. Size /\ p - p = 0 BY SizeFacts
  <1>2. Stretch(r, p, p) \in Seq(Units) /\ Len(Stretch(r, p, p)) = 0 BY <1>1, StretchFacts
  <1> QED BY <1>2

(* While the frames under way stay, the stream does; and who empties the   *)
(* buffer in between begins in the middle.                                 *)
LEMMA StreamStays ==
    ASSUME Streaming, UNCHANGED <<read, user, unstaged, toHost, dev>>,
           \/ buffer' = buffer /\ (pc' = "receive" => pc = "receive" \/ user = "upload-read")
           \/ buffer' = << >> /\ user # "upload-read"
    PROVE  Streaming'
  <1>1. PICK r \in 0 .. MaxReads, got \in 0 .. Size :
          /\ Mine(r)
          /\ Flow(r, got)
          /\ pc = "receive" => \E p \in 0 .. got : buffer = Stretch(r, p, got)
          /\ user = "upload-read" => buffer = Stretch(r, 0, got)
    BY DEF Streaming
  <1>2. Mine(r)' /\ Flow(r, got)' BY <1>1 DEF Mine, Flow, SoFar
  <1>3. 0 \in 0 .. got /\ got \in 0 .. got BY SizeFacts
  <1>4. CASE buffer' = buffer /\ (pc' = "receive" => pc = "receive" \/ user = "upload-read")
    <2>1. pc' = "receive" => \E p \in 0 .. got : buffer' = Stretch(r, p, got) BY <1>1, <1>3, <1>4
    <2> QED BY <1>1, <1>2, <1>4, <2>1 DEF Streaming
  <1>5. CASE buffer' = << >> /\ user # "upload-read"
    <2>1. buffer' = Stretch(r, got, got) BY <1>5, EmptyStretch
    <2> QED BY <1>2, <1>3, <1>5, <2>1 DEF Streaming
  <1> QED BY <1>4, <1>5

(* Data that comes is kept as it came. *)
LEMMA StreamKept ==
    ASSUME BoxTypes, NEW r \in 0 .. MaxReads, NEW p \in 0 .. Size, NEW got \in p .. Size, NEW gets \in got .. Size,
           buffer = Stretch(r, p, got), expectData, expectSize \in {Size, Huge},
           NEW f, f.data = Stretch(r, got, gets), RxData(f)
    PROVE  buffer' = Stretch(r, p, gets)
  <1>1. p \in Nat /\ got \in Nat /\ gets \in Nat /\ got \in 0 .. Size /\ gets <= Size /\ got <= gets
        /\ p <= got /\ Size \in Nat /\ Huge \in Nat /\ Size < Huge
    BY SizeFacts
  <1>2. Len(buffer) = got - p BY StretchFacts
  <1>3. f.data \in Seq(Units) /\ Len(f.data) = gets - got BY <1>1, StretchFacts
  <1>4. Len(buffer) + Len(f.data) <= expectSize /\ Len(buffer) <= expectSize BY <1>1, <1>2, <1>3
  <1>5. Kept(f.data) = f.data BY <1>3, <1>4, KeptFacts
  <1>6. buffer' = buffer \o f.data BY <1>4, <1>5 DEF RxData
  <1> QED BY <1>1, <1>6, StretchJoins

-----------------------------------------------------------------------------
(* The size is lowered only under a buffer that holds part of a partition. *)
LEMMA StepBufferInv ==
    ASSUME TypeOK, ShapeInv, BufferInv, SyncInv, [Next]_vars PROVE BufferInv'
  <1> SUFFICES ASSUME user' # "upload-read" \/ InStep'
               PROVE  (Len(buffer) <= expectSize /\ pc # "panic")'
    BY DEF BufferInv
  <1>0. /\ BoxTypes /\ DevTypes /\ PlaceInv
        /\ user # "upload-read" \/ InStep
        /\ Len(buffer) <= expectSize /\ pc # "panic"
        /\ Len(<< >>) = 0 /\ expectSize \in Nat
    BY UserStays, OnceInStep, SizeFacts DEF TypeOK, ShapeInv, BufferInv
  <1> USE SizeFacts DEF boxVars, devVars
  <1>1. ASSUME Begin PROVE (Len(buffer) <= expectSize /\ pc # "panic")'
    BY <1>0, <1>1 DEF Begin, MayRead
  <1>2. ASSUME ExpectFirst PROVE (Len(buffer) <= expectSize /\ pc # "panic")'
    BY <1>0, <1>2 DEF ExpectFirst, BeginDataExpect
  <1>3. ASSUME Send PROVE (Len(buffer) <= expectSize /\ pc # "panic")'
    BY <1>0, <1>3 DEF Send
  <1>4. ASSUME Answered PROVE (Len(buffer) <= expectSize /\ pc # "panic")'
    BY <1>0, <1>4 DEF Answered
  <1>5. ASSUME NoAnswer PROVE (Len(buffer) <= expectSize /\ pc # "panic")'
    BY <1>0, <1>5 DEF NoAnswer, MayRunOut, RunsOut
  <1>6. ASSUME Take PROVE (Len(buffer) <= expectSize /\ pc # "panic")'
    BY <1>0, <1>6 DEF Take
  <1>7. ASSUME Resize PROVE (Len(buffer) <= expectSize /\ pc # "panic")'
    <2>1. pc = "resize" /\ user = "upload-read" /\ InStep BY <1>0, <1>7 DEF Resize, PlaceInv
    <2>2. Streaming
      <3>1. toDev = << >> BY <2>1 DEF SyncInv, Asked
      <3> QED BY <2>1, <3>1 DEF SyncInv, Uploading, InUpload, Refused
    <2>3. PICK r \in 0 .. MaxReads, got \in 0 .. Size : buffer = Stretch(r, 0, got)
      BY <2>1, <2>2 DEF Streaming
    <2>4. 0 \in 0 .. Size /\ got \in Nat /\ got <= Size OBVIOUS
    <2>5. Len(buffer) = got BY <2>3, <2>4, StretchFacts
    <2> QED BY <1>7, <2>4, <2>5 DEF Resize
  <1>8. ASSUME Diagnose PROVE (Len(buffer) <= expectSize /\ pc # "panic")'
    BY <1>0, <1>8 DEF Diagnose, BeginDataExpect
  <1>9. ASSUME Expect PROVE (Len(buffer) <= expectSize /\ pc # "panic")'
    BY <1>0, <1>9 DEF Expect, BeginDataExpect, MayRunOut, RunsOut
  <1>10. ASSUME Receive PROVE (Len(buffer) <= expectSize /\ pc # "panic")'
    BY <1>0, <1>10 DEF Receive
  <1>11. ASSUME ReceiveTimesOut PROVE (Len(buffer) <= expectSize /\ pc # "panic")'
    BY <1>0, <1>11 DEF ReceiveTimesOut, MayRunOut, RunsOut
  <1>12. ASSUME RxFrame PROVE (Len(buffer) <= expectSize /\ pc # "panic")'
    <2>1. Head(toHost) \in Frames /\ Head(toHost).data \in Seq(Units)
      <3>1. toHost \in Seq(Frames) /\ toHost # << >> BY <1>0, <1>12 DEF RxFrame, DevTypes
      <3>2. Head(toHost) \in Frames BY <3>1, TailFacts
      <3> QED BY <3>2 DEF Frames
    <2>2. buffer' \in {buffer, buffer \o Kept(Head(toHost).data)} /\ pc' = pc /\ expectSize' = expectSize
      BY <1>0, <1>12 DEF RxFrame, RxData
    <2> QED BY <1>0, <2>1, <2>2, KeptFacts
  <1>13. ASSUME DevTakesUpload PROVE (Len(buffer) <= expectSize /\ pc # "panic")'
    BY <1>0, <1>13 DEF DevTakesUpload
  <1>14. ASSUME DevTakesStage PROVE (Len(buffer) <= expectSize /\ pc # "panic")'
    BY <1>0, <1>14 DEF DevTakesStage
  <1>15. ASSUME DevSendsData PROVE (Len(buffer) <= expectSize /\ pc # "panic")'
    BY <1>0, <1>15 DEF DevSendsData
  <1>16. ASSUME DevFinishes PROVE (Len(buffer) <= expectSize /\ pc # "panic")'
    BY <1>0, <1>16 DEF DevFinishes
  <1>17. ASSUME Over \/ UNCHANGED vars PROVE (Len(buffer) <= expectSize /\ pc # "panic")'
    BY <1>0, <1>17 DEF Over, vars
  <1> QED
    BY <1>1, <1>2, <1>3, <1>4, <1>5, <1>6, <1>7, <1>8, <1>9, <1>10, <1>11, <1>12, <1>13, <1>14, <1>15, <1>16, <1>17
    DEF Next, ReaderStep, DeviceStep

(* In step every action finds nothing under way but what it waits for.     *)
LEMMA StepSyncInv ==
    ASSUME TypeOK, ShapeInv, BufferInv, SyncInv, StagedInv, [Next]_vars PROVE SyncInv'
  <1> SUFFICES ASSUME InStep' PROVE (Asked /\ Quiet /\ Talking /\ Uploading)'
    BY DEF SyncInv
  <1>0. /\ BoxTypes /\ DevTypes /\ ReaderTypes /\ PlaceInv /\ OfRead /\ InStep
        /\ Asked /\ Quiet /\ Talking /\ Uploading
        /\ pc # "panic"
    BY OnceInStep DEF TypeOK, ShapeInv, SyncInv, BufferInv
  <1> USE DEF boxVars, devVars
  <1>1. ASSUME Begin PROVE (Asked /\ Quiet /\ Talking /\ Uploading)'
    <2>1. toDev = << >> BY <1>0, <1>1 DEF Begin, Asked
    <2> QED BY <1>1, <2>1 DEF Begin, Asked, Quiet, Talking, Uploading, InUpload
  <1>2. ASSUME ExpectFirst PROVE (Asked /\ Quiet /\ Talking /\ Uploading)'
    <2>1. Silent BY <1>0, <1>2 DEF ExpectFirst, Quiet
    <2>2. Silent' BY <1>2, <2>1 DEF ExpectFirst, Silent
    <2> QED BY <1>2, <2>2 DEF ExpectFirst, Silent, Asked, Quiet, Talking, Uploading, InUpload
  <1>3. ASSUME Send PROVE (Asked /\ Quiet /\ Talking /\ Uploading)'
    <2>1. Silent
      <3>1. ~ hasty' /\ hasty' = (hasty \/ ~ Silent) BY <1>3 DEF Send, InStep
      <3> QED BY <3>1, Zenon
    <2>2. toDev' = <<[what |-> cmd, of |-> read]>> BY <1>3, <2>1 DEF Send, Silent
    <2>3. toDev' # << >> BY <2>2
    <2> QED BY <1>3, <2>1, <2>2, <2>3 DEF Send, Silent, Asked, Quiet, Talking, Uploading
  <1>4. ASSUME Answered PROVE (Asked /\ Quiet /\ Talking /\ Uploading)'
    <2>1. toDev = << >> BY <1>0, <1>4 DEF Answered, Asked
    <2>2. Talking' BY <1>0, <1>4 DEF Answered, Talking, SmallTalk
    <2>3. Uploading'
      <3>1. CASE cmd # "upload" BY <1>4, <3>1 DEF Answered, Uploading, InUpload
      <3>2. CASE cmd = "upload" /\ Refused BY <1>4, <3>2 DEF Answered, Uploading, Refused
      <3>3. CASE cmd = "upload" /\ Streaming
        <4>1. Streaming' BY <1>4, <3>3, StreamStays DEF Answered
        <4> QED BY <4>1 DEF Uploading
      <3> QED BY <1>0, <1>4, <2>1, <3>1, <3>2, <3>3 DEF Answered, Uploading, InUpload
    <2> QED BY <1>4, <2>1, <2>2, <2>3 DEF Answered, Asked, Quiet
  <1>5. ASSUME NoAnswer PROVE (Asked /\ Quiet /\ Talking /\ Uploading)'
    <2>1. Silent BY <1>5, RanOutSilent DEF NoAnswer
    <2>2. Silent' BY <1>5, <2>1 DEF NoAnswer, Silent
    <2> QED BY <1>5, <2>2 DEF NoAnswer, Silent, Asked, Quiet, Talking, Uploading, InUpload
  <1>6. ASSUME Take PROVE (Asked /\ Quiet /\ Talking /\ Uploading)'
    <2>1. toDev = << >> /\ slot # "none" BY <1>0, <1>6 DEF Take, Asked, PlaceInv
    <2>2. Asked' BY <1>6, <2>1 DEF Take, Asked
    <2>3. CASE cmd # "upload"
      <3>1. Silent BY <1>0, <1>6, <2>1, <2>3 DEF Take, Talking, SmallTalk, Silent
      <3>2. Silent' BY <1>6, <3>1 DEF Take, Silent
      <3> QED BY <1>0, <1>6, <2>2, <2>3, <3>2
              DEF Take, ReaderTypes, Quiet, Talking, Uploading, InUpload
    <2>4. CASE cmd = "upload"
      <3>1. Refused \/ Streaming BY <1>0, <1>6, <2>1, <2>4 DEF Take, Uploading, InUpload
      <3>2. CASE Refused
        <4>1. slot = "FAIL" BY <2>1, <3>2 DEF Refused
        <4> QED BY <1>6, <2>2, <2>4, <4>1 DEF Take, Quiet, Talking, Uploading, InUpload
      <3>3. CASE Streaming
        <4>1. Streaming' BY <1>6, <2>4, <3>3, StreamStays DEF Take
        <4> QED BY <1>6, <2>2, <2>4, <4>1 DEF Take, Quiet, Talking, Uploading
      <3> QED BY <3>1, <3>2, <3>3
    <2> QED BY <2>3, <2>4
  <1>7. ASSUME Resize PROVE (Asked /\ Quiet /\ Talking /\ Uploading)'
    <2>1. toDev = << >> /\ user = "upload-read" BY <1>0, <1>7 DEF Resize, Asked, PlaceInv
    <2>2. Streaming BY <1>0, <1>7, <2>1 DEF Resize, Uploading, InUpload, Refused
    <2>3. Streaming' BY <1>7, <2>1, <2>2, StreamStays DEF Resize
    <2> QED BY <1>7, <2>1, <2>3 DEF Resize, Asked, Quiet, Talking, Uploading
  <1>8. ASSUME Diagnose PROVE (Asked /\ Quiet /\ Talking /\ Uploading)'
    <2>1. toDev = << >> /\ user # "upload-read" BY <1>0, <1>8 DEF Diagnose, Asked, PlaceInv
    <2>2. Streaming BY <1>0, <1>8, <2>1 DEF Diagnose, Uploading, InUpload, Refused
    <2>3. Streaming' BY <1>8, <2>1, <2>2, StreamStays DEF Diagnose, BeginDataExpect
    <2> QED BY <1>8, <2>1, <2>3 DEF Diagnose, BeginDataExpect, Asked, Quiet, Talking, Uploading
  <1>9. ASSUME Expect PROVE (Asked /\ Quiet /\ Talking /\ Uploading)'
    <2>1. toDev = << >> /\ user # "upload-read" BY <1>0, <1>9 DEF Expect, Asked, PlaceInv
    <2>2. Streaming BY <1>0, <1>9, <2>1 DEF Expect, Uploading, InUpload, Refused
    <2>3. Streaming' BY <1>9, <2>1, <2>2, StreamStays DEF Expect, BeginDataExpect
    <2> QED BY <1>9, <2>1, <2>3 DEF Expect, BeginDataExpect, Asked, Quiet, Talking, Uploading
  <1>10. ASSUME Receive PROVE (Asked /\ Quiet /\ Talking /\ Uploading)'
    <2>1. toDev = << >> BY <1>0, <1>10 DEF Receive, Asked
    <2> QED BY <1>10, <2>1 DEF Receive, Asked, Quiet, Talking, Uploading, InUpload
  <1>11. ASSUME ReceiveTimesOut PROVE (Asked /\ Quiet /\ Talking /\ Uploading)'
    <2>1. toDev = << >> BY <1>0, <1>11 DEF ReceiveTimesOut, Asked
    <2> QED BY <1>11, <2>1 DEF ReceiveTimesOut, Asked, Quiet, Talking, Uploading, InUpload
  <1>12. ASSUME RxFrame PROVE (Asked /\ Quiet /\ Talking /\ Uploading)'
    <2>1. toHost # << >> /\ UNCHANGED <<toDev, dev, read, user, cmd, unstaged, expectData, expectSize>>
      BY <1>12 DEF RxFrame
    <2>2. toDev = << >> /\ ~ Silent BY <1>0, <2>1 DEF Asked, Silent
    <2>3. pc' = pc
      <3>1. pc' = pc \/ (pc' = "panic" /\ expectData /\ Len(buffer) > expectSize)
        BY <1>12 DEF RxFrame, RxData
      <3>2. Len(buffer) <= expectSize BY <1>0 DEF BufferInv
      <3>3. Len(buffer) \in Nat /\ expectSize \in Nat BY <1>0, SizeFacts DEF BoxTypes
      <3> QED BY <3>1, <3>2, <3>3
    <2>4. Asked' /\ Quiet' BY <1>0, <2>1, <2>2, <2>3 DEF Asked, Quiet
    <2>5. toHost \in Seq(Frames) /\ toHost' = Tail(toHost) BY <1>0, <1>12 DEF RxFrame, DevTypes
    <2>6. ASSUME NEW x, toHost = <<x>> PROVE toHost' = << >> /\ Head(toHost) = x
      BY <2>5, <2>6
    <2>7. Talking'
      <3>1. CASE pc \in {"await", "take"} /\ cmd # "upload"
        <4>1. PICK x : toHost = <<x>> BY <1>0, <2>1, <2>2, <3>1 DEF Talking, SmallTalk
        <4>2. dev = DevIdle BY <1>0, <2>2, <3>1 DEF Talking, SmallTalk
        <4> QED BY <2>1, <2>6, <4>1, <4>2 DEF Talking, SmallTalk
      <3> QED BY <2>1, <2>3, <3>1 DEF Talking
    <2>8. ASSUME InUpload PROVE (Refused \/ Streaming)'
      <3>1. CASE Refused
        <4>1. toHost = <<Say("FAIL")>> /\ slot = "none" /\ pc \in {"await", "take"} /\ dev = DevIdle
          BY <2>1, <3>1 DEF Refused
        <4>2. toHost' = << >> /\ Head(toHost) = Say("FAIL") BY <2>6, <4>1
        <4>3. slot' = "FAIL" BY <1>12, <4>2 DEF RxFrame, Say
        <4> QED BY <2>1, <2>3, <4>1, <4>2, <4>3 DEF Refused
      <3>2. CASE Streaming
        <4>1. PICK r \in 0 .. MaxReads, got \in 0 .. Size :
                /\ Mine(r)
                /\ Flow(r, got)
                /\ pc = "receive" => \E p \in 0 .. got : buffer = Stretch(r, p, got)
                /\ user = "upload-read" => buffer = Stretch(r, 0, got)
          BY <3>2 DEF Streaming
        <4>2. Mine(r)' BY <2>1, <4>1 DEF Mine
        <4>3. CASE Head(toHost).what # "data"
          <5>1. Flow(r, got)' BY <1>0, <2>1, <2>5, <4>1, <4>3, FlowRead
          <5>2. buffer' = buffer BY <1>12, <4>3 DEF RxFrame
          <5> QED BY <2>1, <2>3, <4>1, <4>2, <5>1, <5>2 DEF Streaming
        <4>4. CASE Head(toHost).what = "data"
          <5>1. PICK gets \in got .. Size :
                  gets > got /\ Head(toHost).data = Stretch(r, got, gets) /\ Flow(r, gets)'
            BY <1>0, <2>1, <2>5, <4>1, <4>4, FlowRead
          <5>2. RxData(Head(toHost)) BY <1>12, <4>4 DEF RxFrame
          <5>3. gets \in 0 .. Size /\ got \in Nat /\ gets \in Nat /\ got <= gets BY <5>1, SizeFacts
          <5>4. ASSUME pc = "receive" \/ user = "upload-read",
                       NEW p \in 0 .. got, buffer = Stretch(r, p, got)
                PROVE  buffer' = Stretch(r, p, gets)
            <6>1. expectData
              <7>1. CASE pc = "receive" BY <1>0, <7>1 DEF PlaceInv
              <7>2. CASE pc # "receive"
                BY <1>0, <2>8, <5>4, <7>2 DEF PlaceInv, InUpload
              <7> QED BY <7>1, <7>2
            <6>2. expectSize \in {Size, Huge}
              <7>1. CASE pc = "receive" BY <1>0, <7>1 DEF PlaceInv
              <7>2. CASE pc # "receive"
                BY <1>0, <2>8, <5>4, <7>2 DEF PlaceInv, InUpload
              <7> QED BY <7>1, <7>2
            <6>3. p \in 0 .. Size /\ got \in p .. Size BY <5>4, SizeFacts
            <6> QED BY <1>0, <5>1, <5>2, <5>4, <6>1, <6>2, <6>3, StreamKept
          <5>5. pc' = "receive" => \E p \in 0 .. gets : buffer' = Stretch(r, p, gets)
            <6>1. \A p \in 0 .. got : p \in 0 .. gets BY <5>3
            <6> QED BY <2>3, <4>1, <5>4, <6>1
          <5>6. user' = "upload-read" => buffer' = Stretch(r, 0, gets)
            <6>1. 0 \in 0 .. got BY <5>3
            <6> QED BY <2>1, <4>1, <5>4, <6>1
          <5> QED BY <4>2, <5>1, <5>3, <5>5, <5>6 DEF Streaming
        <4> QED BY <4>3, <4>4
      <3> QED BY <1>0, <2>2, <2>8, <3>1, <3>2 DEF Uploading
    <2>9. Uploading' BY <2>1, <2>3, <2>8 DEF Uploading, InUpload
    <2> QED BY <2>4, <2>7, <2>9
  <1>13. ASSUME DevTakesUpload PROVE (Asked /\ Quiet /\ Talking /\ Uploading)'
    <2>0. toDev # << >> /\ UNCHANGED <<pc, cmd, user, read, slot, unstaged, buffer>> BY <1>13 DEF DevTakesUpload
    <2>1. /\ pc = "await" /\ toDev = <<[what |-> cmd, of |-> read]>>
          /\ dev = DevIdle /\ toHost = << >> /\ slot = "none"
      BY <1>0, <2>0 DEF Asked
    <2>2. toDev' = << >> /\ Head(toDev) = [what |-> cmd, of |-> read] BY <1>13, <2>1 DEF DevTakesUpload
    <2>3. cmd = "upload" BY <1>13, <2>2 DEF DevTakesUpload
    <2>4. read \in 0 .. MaxReads /\ read # 0 BY <1>0, <2>1, SizeFacts DEF ReaderTypes, PlaceInv
    <2>5. (Refused \/ Streaming)'
      <3>1. CASE UNCHANGED dev
        <4>1. toHost' = <<Say("FAIL")>>
          <5>1. toHost' = Append(toHost, Say("FAIL"))
            <6>1. read # 0 /\ dev.of = 0 BY <2>1, <2>4 DEF DevIdle
            <6>2. dev' = dev => dev'.of # read BY <6>1
            <6> QED BY <1>13, <2>2, <3>1, <6>2 DEF DevTakesUpload
          <5> QED BY <2>1, <5>1
        <4> QED BY <2>0, <2>1, <3>1, <4>1 DEF Refused
      <3>2. CASE ~ UNCHANGED dev
        <4>0. (IF user = "upload-read" THEN staged ELSE read) \in 0 .. MaxReads
          BY <1>0 DEF ReaderTypes, DevTypes
        <4>3. PICK r \in 0 .. MaxReads : r = IF user = "upload-read" THEN staged ELSE read BY <4>0
        <4>1. PICK f : f.what # "data" /\ toHost' = <<f>>
          <5>1. \E what \in {"DATA", "OKAY"} : toHost' = Append(toHost, Say(what))
            BY <1>13, <3>2 DEF DevTakesUpload
          <5>2. PICK what \in {"DATA", "OKAY"} : toHost' = <<Say(what)>> BY <2>1, <5>1
          <5> QED BY <5>2 DEF Say
        <4>2. dev' = [of |-> read, range |-> r, sent |-> 0] BY <1>13, <2>2, <3>2, <4>3 DEF DevTakesUpload
        <4>4. Mine(r)'
          <5>1. user = "upload-read" => staged = read \/ read \in unstaged
            BY <1>0, <2>1, <2>3 DEF StagedInv, StageTaken
          <5> QED BY <2>0, <4>3, <5>1 DEF Mine
        <4>5. user = "upload-read" => buffer = << >>
          BY <1>0, <2>0, <2>1, <2>3 DEF StagedInv
        <4>6. dev' # DevIdle /\ dev'.range = r /\ dev'.sent = 0 BY <2>4, <4>2 DEF DevIdle
        <4>7. Flow(r, 0)' BY <4>1, <4>3, <4>6, FlowStarts
        <4>8. 0 \in 0 .. Size BY SizeFacts
        <4>9. user' = "upload-read" => buffer' = Stretch(r, 0, 0)
          BY <2>0, <4>3, <4>5, <4>8, EmptyStretch
        <4> QED BY <2>0, <2>1, <4>3, <4>4, <4>7, <4>8, <4>9 DEF Streaming
      <3> QED BY <3>1, <3>2
    <2> QED BY <2>0, <2>1, <2>2, <2>3, <2>5 DEF Asked, Quiet, Talking, Uploading
  <1>14. ASSUME DevTakesStage PROVE (Asked /\ Quiet /\ Talking /\ Uploading)'
    <2>0. toDev # << >> /\ UNCHANGED <<pc, cmd, user, slot, dev>> BY <1>14 DEF DevTakesStage
    <2>1. /\ pc = "await" /\ toDev = <<[what |-> cmd, of |-> read]>>
          /\ dev = DevIdle /\ toHost = << >> /\ slot = "none"
      BY <1>0, <2>0 DEF Asked
    <2>2. toDev' = << >> /\ Head(toDev) = [what |-> cmd, of |-> read] BY <1>14, <2>1 DEF DevTakesStage
    <2>3. cmd # "upload" BY <1>14, <2>2 DEF DevTakesStage
    <2>4. SmallTalk'
      <3>1. toHost' = <<Say("OKAY")>> \/ toHost' = <<Say("FAIL")>> BY <1>14, <2>1 DEF DevTakesStage
      <3> QED BY <2>0, <2>1, <3>1 DEF SmallTalk
    <2> QED BY <2>0, <2>1, <2>2, <2>3, <2>4 DEF Asked, Quiet, Talking, Uploading, InUpload
  <1>15. ASSUME DevSendsData PROVE (Asked /\ Quiet /\ Talking /\ Uploading)'
    <2>0. dev # DevIdle /\ UNCHANGED <<pc, cmd, user, slot, toDev, read, unstaged, buffer>> BY <1>15 DEF DevSendsData
    <2>1. toDev = << >> /\ ~ Silent BY <1>0, <2>0 DEF Asked, Silent
    <2>2. Asked' /\ Quiet' /\ Talking'
      BY <1>0, <2>0, <2>1 DEF Asked, Quiet, Talking, SmallTalk
    <2>3. ASSUME Streaming PROVE Streaming'
      <3>1. PICK r \in 0 .. MaxReads, got \in 0 .. Size :
              /\ Mine(r)
              /\ Flow(r, got)
              /\ pc = "receive" => \E p \in 0 .. got : buffer = Stretch(r, p, got)
              /\ user = "upload-read" => buffer = Stretch(r, 0, got)
        BY <2>3 DEF Streaming
      <3>2. dev.range = r /\ SoFar = dev.sent /\ dev.sent \in 0 .. Size
        BY <1>0, <2>0, <3>1 DEF Flow, SoFar, DevTypes
      <3>3. Flow(r, got)'
        <4>1. PICK n \in 1 .. Size - dev.sent :
                /\ toHost' = Append(toHost, [what |-> "data", of |-> dev.of,
                                             data |-> Stretch(dev.range, dev.sent, dev.sent + n)])
                /\ dev' = [dev EXCEPT !.sent = @ + n]
          BY <1>0, <1>15, SentFrame
        <4>2. dev.sent + n \in dev.sent .. Size /\ dev.sent + n \in 0 .. Size /\ dev.sent < dev.sent + n
              /\ dev.of \in 0 .. MaxReads
          <5>1. dev.of \in 0 .. MaxReads BY <1>0 DEF DevTypes
          <5>2. n \in 1 .. Size - dev.sent /\ dev.sent \in 0 .. Size /\ Size \in Nat
            BY ONLY <3>2, <4>1, SizeFacts
          <5>3. \A s, i, m \in Nat :
                   s \in 0 .. m /\ i \in 1 .. m - s =>
                       s + i \in s .. m /\ s + i \in 0 .. m /\ s < s + i
            OBVIOUS
          <5>4. n \in Nat /\ dev.sent \in Nat BY ONLY <5>2
          <5> QED BY <5>1, <5>2, <5>3, <5>4, ZenonT(60)
        <4>3. Stretch(dev.range, dev.sent, dev.sent + n) \in Seq(Units) BY <3>2, <4>2, StretchFacts
        <4> DEFINE f == [what |-> "data", of |-> dev.of,
                         data |-> Stretch(dev.range, dev.sent, dev.sent + n)]
        <4>4. f \in Frames BY <4>2, <4>3 DEF Frames
        <4>5. dev'.sent = dev.sent + n /\ dev'.range = r /\ dev'.of = dev.of
          BY <1>0, <3>2, <4>1 DEF DevTypes
        <4>6. dev' # DevIdle
          <5>1. dev.of # 0 BY <1>0, <2>0 DEF OfRead
          <5> QED BY <4>5, <5>1 DEF DevIdle
        <4>7. SoFar' = dev.sent + n BY <4>5, <4>6 DEF SoFar
        <4>8. f.what = "data" /\ f.data = Stretch(r, SoFar, dev.sent + n) BY <3>2
        <4> HIDE DEF f
        <4>9. toHost' = Append(toHost, f) BY <4>1 DEF f
        <4> QED BY <1>0, <3>1, <3>2, <4>2, <4>4, <4>5, <4>7, <4>8, <4>9, FlowGrows
      <3> QED BY <2>0, <3>1, <3>3 DEF Streaming, Mine
    <2>4. Uploading' BY <1>0, <2>0, <2>1, <2>3 DEF Uploading, InUpload, Refused
    <2> QED BY <2>2, <2>4
  <1>16. ASSUME DevFinishes PROVE (Asked /\ Quiet /\ Talking /\ Uploading)'
    <2>0. dev # DevIdle /\ UNCHANGED <<pc, cmd, user, slot, toDev, read, unstaged, buffer>> BY <1>16 DEF DevFinishes
    <2>1. toDev = << >> /\ ~ Silent BY <1>0, <2>0 DEF Asked, Silent
    <2>2. Asked' /\ Quiet' /\ Talking'
      BY <1>0, <2>0, <2>1 DEF Asked, Quiet, Talking, SmallTalk
    <2>3. ASSUME Streaming PROVE Streaming'
      <3>1. PICK r \in 0 .. MaxReads, got \in 0 .. Size :
              /\ Mine(r)
              /\ Flow(r, got)
              /\ pc = "receive" => \E p \in 0 .. got : buffer = Stretch(r, p, got)
              /\ user = "upload-read" => buffer = Stretch(r, 0, got)
        BY <2>3 DEF Streaming
      <3>2. dev.range = r /\ SoFar = dev.sent /\ dev.sent \in 0 .. Size
        BY <1>0, <2>0, <3>1 DEF Flow, SoFar, DevTypes
      <3>3. Flow(r, got)'
        <4>1. dev' = DevIdle /\ SoFar = Size /\ Size \in 0 .. Size
          BY <1>16, <3>2, SizeFacts DEF DevFinishes
        <4>2. SoFar' = Size BY <4>1 DEF SoFar
        <4>3. CASE toHost' = toHost
          BY <3>1, <4>1, <4>2, <4>3 DEF Flow
        <4>4. CASE toHost' = Append(toHost, Say("OKAY"))
          <5>1. Say("OKAY") \in Frames /\ Say("OKAY").what # "data" BY SaidIsFrame DEF Say
          <5> QED BY <1>0, <3>1, <3>2, <4>1, <4>2, <4>4, <5>1, FlowGrows
        <4> QED BY <1>16, <4>3, <4>4 DEF DevFinishes
      <3> QED BY <2>0, <3>1, <3>3 DEF Streaming, Mine
    <2>4. Uploading' BY <1>0, <2>0, <2>1, <2>3 DEF Uploading, InUpload, Refused
    <2> QED BY <2>2, <2>4
  <1>17. ASSUME Over \/ UNCHANGED vars PROVE (Asked /\ Quiet /\ Talking /\ Uploading)'
    <2>0. UNCHANGED vars BY <1>17 DEF Over
    <2>1. Asked' /\ Quiet' BY <1>0, <2>0 DEF vars, Asked, Quiet, Silent
    <2>2. Talking' BY <1>0, <2>0 DEF vars, Talking, SmallTalk
    <2>3. Streaming => Streaming' BY <2>0, StreamStays DEF vars
    <2>4. Uploading' BY <1>0, <2>0, <2>3 DEF vars, Uploading, InUpload, Refused
    <2> QED BY <2>1, <2>2, <2>4
  <1> QED
    BY <1>1, <1>2, <1>3, <1>4, <1>5, <1>6, <1>7, <1>8, <1>9, <1>10, <1>11, <1>12, <1>13, <1>14, <1>15, <1>16, <1>17
    DEF Next, ReaderStep, DeviceStep

(* The device has staged, or refused, before the reader goes on.           *)
LEMMA StepStagedInv ==
    ASSUME TypeOK, ShapeInv, BufferInv, SyncInv, StagedInv, [Next]_vars PROVE StagedInv'
  <1> DEFINE Goal ==
        /\ StageTaken => staged = read \/ read \in unstaged
        /\ pc \in {"send", "await"} /\ cmd = "upload" /\ (pc = "await" => toDev # << >>)
             => buffer = << >>
  <1> SUFFICES ASSUME InStep', user' = "upload-read" PROVE Goal'
    BY DEF StagedInv
  <1>0. /\ DevTypes /\ ReaderTypes /\ PlaceInv /\ InStep /\ user = "upload-read"
        /\ Asked /\ Quiet /\ Goal /\ pc # "panic"
    BY OnceInStep, UserStays DEF TypeOK, ShapeInv, SyncInv, BufferInv, StagedInv
  <1> USE DEF boxVars, devVars
  <1>1. ASSUME Begin PROVE Goal'
    BY <1>0, <1>1 DEF Begin, StageTaken
  <1>2. ASSUME ExpectFirst PROVE Goal'
    <2>1. UNCHANGED <<staged, read, unstaged>> /\ StageTaken BY <1>2 DEF ExpectFirst, StageTaken
    <2> QED BY <1>0, <1>2, <2>1 DEF ExpectFirst, BeginDataExpect
  <1>3. ASSUME Send PROVE Goal'
    <2>1. UNCHANGED <<staged, read, unstaged, cmd, buffer>> /\ pc = "send" /\ pc' = "await" /\ toDev' # << >>
      <3>1. [what |-> cmd, of |-> read] \in Requests /\ toDev \in Seq(Requests)
        BY <1>0, <1>3 DEF Send, ReaderTypes, DevTypes, PlaceInv, Requests
      <3>2. toDev' # << >> BY <1>3, <3>1 DEF Send
      <3> QED BY <1>3, <3>2 DEF Send
    <2>2. StageTaken' => StageTaken BY <2>1 DEF StageTaken
    <2> QED BY <1>0, <2>1, <2>2
  <1>4. ASSUME Answered PROVE Goal'
    <2>1. UNCHANGED <<staged, read, unstaged, cmd, toDev>> /\ pc = "await" /\ pc' = "take" BY <1>4 DEF Answered
    <2>2. StageTaken' => StageTaken BY <2>1 DEF StageTaken
    <2> QED BY <1>0, <2>1, <2>2
  <1>5. ASSUME NoAnswer PROVE Goal'
    <2>1. Silent BY <1>5, RanOutSilent DEF NoAnswer
    <2>2. UNCHANGED <<staged, read, unstaged>> /\ pc' \in {"expect-first", "idle"} BY <1>5 DEF NoAnswer
    <2>3. StageTaken' => StageTaken BY <1>5, <2>1 DEF NoAnswer, StageTaken, Silent
    <2> QED BY <1>0, <2>2, <2>3
  <1>6. ASSUME Take PROVE Goal'
    <2>1. toDev = << >> BY <1>0, <1>6 DEF Take, Asked
    <2>2. UNCHANGED <<staged, read, unstaged>> BY <1>6 DEF Take
    <2>3. StageTaken' => StageTaken
      BY <1>0, <1>6, <2>1 DEF Take, StageTaken, ReaderTypes
    <2>4. ~ (pc' \in {"send", "await"} /\ cmd' = "upload") BY <1>0, <1>6 DEF Take, ReaderTypes
    <2> QED BY <1>0, <2>2, <2>3, <2>4
  <1>7. ASSUME Resize PROVE Goal'
    BY <1>7 DEF Resize, StageTaken
  <1>8. ASSUME Diagnose PROVE Goal'
    BY <1>8 DEF Diagnose, StageTaken
  <1>9. ASSUME Expect PROVE Goal'
    BY <1>9 DEF Expect, StageTaken
  <1>10. ASSUME Receive PROVE Goal'
    BY <1>10 DEF Receive, StageTaken
  <1>11. ASSUME ReceiveTimesOut PROVE Goal'
    BY <1>11 DEF ReceiveTimesOut, StageTaken
  <1>12. ASSUME RxFrame PROVE Goal'
    <2>1. toHost # << >> /\ UNCHANGED <<staged, read, unstaged, cmd, user, toDev>> /\ pc' \in {pc, "panic"}
      BY <1>12 DEF RxFrame, RxData
    <2>2. toDev = << >> /\ ~ Silent BY <1>0, <2>1 DEF Asked, Silent
    <2>3. ~ (pc' \in {"send", "await"} /\ cmd' = "upload" /\ (pc' = "await" => toDev' # << >>))
      BY <1>0, <2>1, <2>2 DEF Quiet
    <2>4. StageTaken' => StageTaken BY <2>1 DEF StageTaken
    <2> QED BY <1>0, <2>1, <2>3, <2>4
  <1>13. ASSUME DevTakesUpload PROVE Goal'
    <2>1. /\ pc = "await" /\ toDev = <<[what |-> cmd, of |-> read]>> /\ toDev # << >>
          /\ UNCHANGED <<staged, read, unstaged, cmd, pc>>
      BY <1>0, <1>13 DEF DevTakesUpload, Asked
    <2>2. toDev' = << >> /\ cmd = "upload" BY <1>13, <2>1 DEF DevTakesUpload
    <2>3. StageTaken BY <2>1, <2>2 DEF StageTaken
    <2> QED BY <1>0, <2>1, <2>2, <2>3
  <1>14. ASSUME DevTakesStage PROVE Goal'
    <2>1. /\ pc = "await" /\ toDev = <<[what |-> cmd, of |-> read]>>
          /\ UNCHANGED <<read, cmd, pc>>
      BY <1>0, <1>14 DEF DevTakesStage, Asked
    <2>2. toDev' = << >> /\ Head(toDev) = [what |-> cmd, of |-> read] /\ cmd \in {"useflash", "ulstage"}
      BY <1>14, <2>1 DEF DevTakesStage
    <2>3. cmd = "ulstage" => staged' = read \/ read \in unstaged'
      BY <1>14, <2>2 DEF DevTakesStage
    <2> QED BY <2>1, <2>2, <2>3 DEF StageTaken
  <1>15. ASSUME DevSendsData PROVE Goal'
    <2>1. UNCHANGED <<staged, read, unstaged, cmd, pc, toDev, buffer>> BY <1>15 DEF DevSendsData
    <2>2. StageTaken' => StageTaken BY <2>1 DEF StageTaken
    <2> QED BY <1>0, <2>1, <2>2
  <1>16. ASSUME DevFinishes PROVE Goal'
    <2>1. UNCHANGED <<staged, read, unstaged, cmd, pc, toDev, buffer>> BY <1>16 DEF DevFinishes
    <2>2. StageTaken' => StageTaken BY <2>1 DEF StageTaken
    <2> QED BY <1>0, <2>1, <2>2
  <1>17. ASSUME Over \/ UNCHANGED vars PROVE Goal'
    <2>0. UNCHANGED vars BY <1>17 DEF Over
    <2> QED BY <1>0, <2>0 DEF vars, StageTaken
  <1> HIDE DEF Goal
  <1> QED
    BY <1>1, <1>2, <1>3, <1>4, <1>5, <1>6, <1>7, <1>8, <1>9, <1>10, <1>11, <1>12, <1>13, <1>14, <1>15, <1>16, <1>17
    DEF Next, ReaderStep, DeviceStep

(* Where data stops being expected all of it has come.                     *)
LEMMA StepDropInv ==
    ASSUME TypeOK, ShapeInv, BufferInv, SyncInv, DropInv, [Next]_vars PROVE DropInv'
  <1> DEFINE Goal == ~ dropped /\ (expectData \/ NoneComing)
  <1> SUFFICES ASSUME InStep', user' = "upload-read" PROVE Goal'
    BY DEF DropInv
  <1>0. /\ BoxTypes /\ DevTypes /\ ReaderTypes /\ PlaceInv /\ OfRead /\ InStep /\ user = "upload-read"
        /\ Asked /\ Quiet /\ Uploading /\ Goal
    BY OnceInStep, UserStays DEF TypeOK, ShapeInv, SyncInv, DropInv
  <1> USE DEF boxVars, devVars
  <1>1. ASSUME Begin PROVE Goal'
    <2>1. /\ read' = read + 1 /\ read \in Nat /\ UNCHANGED <<toDev, toHost, dev>> /\ dropped' = FALSE
      BY <1>0, <1>1, SizeFacts DEF Begin, ReaderTypes
    <2>2. ASSUME NEW x \in Int, x <= read PROVE x # read' BY <2>1, <2>2
    <2>3. \A k \in DOMAIN toDev : toDev[k].of # read'
      <3>1. ASSUME NEW k \in DOMAIN toDev PROVE toDev[k].of \in Int
        <4>1. toDev[k] \in Requests BY <1>0, <3>1 DEF DevTypes
        <4> QED BY <4>1, SizeFacts DEF Requests
      <3> QED BY <1>0, <2>2, <3>1 DEF OfRead
    <2>4. \A k \in DOMAIN toHost : toHost[k].of # read'
      <3>1. ASSUME NEW k \in DOMAIN toHost PROVE toHost[k].of \in Int
        <4>1. toHost[k] \in Frames BY <1>0, <3>1 DEF DevTypes
        <4> QED BY <4>1, SizeFacts DEF Frames
      <3> QED BY <1>0, <2>2, <3>1 DEF OfRead
    <2>5. dev.of # read' BY <1>0, <2>2, SizeFacts DEF OfRead, DevTypes
    <2>6. NoneComing' BY <2>1, <2>3, <2>4, <2>5 DEF NoneComing
    <2> QED BY <2>1, <2>6
  <1>2. ASSUME ExpectFirst PROVE Goal'
    BY <1>0, <1>2, Zenon DEF ExpectFirst, BeginDataExpect
  <1>3. ASSUME Send PROVE Goal'
    <2>1. UNCHANGED <<dropped, expectData, dev, toHost, read>> /\ toDev' = Append(toDev, [what |-> cmd, of |-> read])
          /\ pc = "send"
      BY <1>3 DEF Send
    <2>2. CASE cmd = "upload" BY <1>0, <2>1, <2>2 DEF PlaceInv
    <2>3. CASE cmd # "upload"
      <3>1. toDev' = <<[what |-> cmd, of |-> read]>>
        <4>1. Silent
          <5>1. ~ hasty' /\ hasty' = (hasty \/ ~ Silent) BY <1>3 DEF Send, InStep
          <5> QED BY <5>1, Zenon
        <4> QED BY <2>1, <4>1 DEF Silent
      <3>2. \A k \in DOMAIN toDev' : toDev'[k].what # "upload" BY <2>3, <3>1
      <3>3. NoneComing => NoneComing' BY <2>1, <3>2 DEF NoneComing
      <3> QED BY <1>0, <2>1, <3>3
    <2> QED BY <2>2, <2>3
  <1>4. ASSUME Answered PROVE Goal'
    <2>1. UNCHANGED <<dropped, expectData, dev, toHost, toDev, read>> BY <1>4 DEF Answered
    <2> QED BY <1>0, <2>1 DEF NoneComing
  <1>5. ASSUME NoAnswer PROVE Goal'
    <2>1. UNCHANGED <<dropped, expectData, dev, toHost, toDev, read>> BY <1>5 DEF NoAnswer
    <2> QED BY <1>0, <2>1 DEF NoneComing
  <1>6. ASSUME Take PROVE Goal'
    <2>1. UNCHANGED <<dropped, expectData, dev, toHost, toDev, read>> BY <1>6 DEF Take
    <2> QED BY <1>0, <2>1 DEF NoneComing
  <1>7. ASSUME Resize PROVE Goal'
    <2>1. UNCHANGED <<dropped, expectData, dev, toHost, toDev, read>> BY <1>7 DEF Resize
    <2> QED BY <1>0, <2>1 DEF NoneComing
  <1>8. ASSUME Diagnose PROVE Goal'
    BY <1>0, <1>8 DEF Diagnose, PlaceInv
  <1>9. ASSUME Expect PROVE Goal'
    BY <1>0, <1>9 DEF Expect, PlaceInv
  <1>10. ASSUME Receive PROVE Goal'
    <2>1. toDev = << >> /\ Streaming /\ expectSize = Size /\ Len(buffer) >= Size
      <3>1. toDev = << >> BY <1>0, <1>10 DEF Receive, Asked
      <3> QED BY <1>0, <1>10, <3>1 DEF Receive, Uploading, InUpload, Refused, PlaceInv, DataComplete
    <2>2. PICK r \in 0 .. MaxReads, got \in 0 .. Size : Flow(r, got) /\ buffer = Stretch(r, 0, got)
      BY <1>0, <2>1 DEF Streaming
    <2>3. got = Size
      <3>1. 0 \in 0 .. Size /\ got \in Nat /\ got <= Size BY SizeFacts
      <3>2. Len(buffer) = got BY <2>2, <3>1, StretchFacts
      <3> QED BY <2>1, <3>1, <3>2, SizeFacts
    <2>4. SoFar = Size /\ \A k \in DOMAIN toHost : toHost[k].what # "data" BY <1>0, <2>2, <2>3, FlowEnds
    <2>5. dev # DevIdle => dev.sent = Size BY <2>4 DEF SoFar
    <2>6. NoneComing BY <2>1, <2>4, <2>5 DEF NoneComing
    <2>7. UNCHANGED <<dropped, dev, toHost, toDev, read>> BY <1>10 DEF Receive
    <2> QED BY <1>0, <2>6, <2>7 DEF NoneComing
  <1>11. ASSUME ReceiveTimesOut PROVE Goal'
    <2>1. UNCHANGED <<dropped, expectData, dev, toHost, toDev, read>> BY <1>11 DEF ReceiveTimesOut
    <2> QED BY <1>0, <2>1 DEF NoneComing
  <1>12. ASSUME RxFrame PROVE Goal'
    <2>1. toHost # << >> /\ UNCHANGED <<expectData, dev, toDev, read>> /\ toHost' = Tail(toHost)
      BY <1>12 DEF RxFrame
    <2>2. toHost \in Seq(Frames) BY <1>0 DEF DevTypes
    <2>3. Head(toHost) = toHost[1] /\ 1 \in DOMAIN toHost
          /\ \A i \in DOMAIN toHost' : i + 1 \in DOMAIN toHost /\ toHost'[i] = toHost[i + 1]
      BY <2>1, <2>2, TailFacts
    <2>4. NoneComing => NoneComing' BY <2>1, <2>3 DEF NoneComing
    <2>5. dropped' => dropped \/ (~ expectData /\ Head(toHost).what = "data" /\ Head(toHost).of = read)
      BY <1>12, Zenon DEF RxFrame, RxData
    <2>6. ~ (~ expectData /\ Head(toHost).what = "data" /\ Head(toHost).of = read)
      BY <1>0, <2>3, Zenon DEF NoneComing
    <2>7. ~ dropped /\ (expectData \/ NoneComing) /\ (expectData' <=> expectData) BY <1>0, <2>1
    <2> QED BY <2>4, <2>5, <2>6, <2>7, Zenon
  <1>13. ASSUME DevTakesUpload PROVE Goal'
    <2>1. toDev = <<[what |-> cmd, of |-> read]>> /\ UNCHANGED <<dropped, expectData>>
      BY <1>0, <1>13 DEF DevTakesUpload, Asked
    <2>2. toDev[1].what = "upload" /\ toDev[1].of = read /\ 1 \in DOMAIN toDev BY <1>13, <2>1 DEF DevTakesUpload
    <2>3. ~ NoneComing BY <2>2, Zenon DEF NoneComing
    <2> QED BY <1>0, <2>1, <2>3
  <1>14. ASSUME DevTakesStage PROVE Goal'
    <2>1. toDev = <<[what |-> cmd, of |-> read]>> /\ UNCHANGED <<dropped, expectData, dev, read>>
      BY <1>0, <1>14 DEF DevTakesStage, Asked
    <2>2. toDev' = << >> BY <1>14, <2>1 DEF DevTakesStage
    <2>3. PICK what \in {"OKAY", "FAIL"} : toHost' = Append(toHost, Say(what))
      <3>1. \E what \in {"OKAY", "FAIL"} : toHost' = Append(toHost, Say(what)) BY <1>14 DEF DevTakesStage
      <3> QED BY <3>1
    <2>4. Say(what) \in Frames /\ Say(what).what # "data" BY SaidIsFrame DEF Say
    <2>5. ASSUME NoneComing, NEW f \in Frames, toHost' = Append(toHost, f),
                 ~ (f.what = "data" /\ f.of = read)
          PROVE  \A k \in DOMAIN toHost' : ~ (toHost'[k].what = "data" /\ toHost'[k].of = read)
      <3>1. DOMAIN toHost' = 1 .. Len(toHost) + 1 /\ DOMAIN toHost = 1 .. Len(toHost) /\ Len(toHost) \in Nat
            /\ toHost'[Len(toHost) + 1] = f /\ \A k \in DOMAIN toHost : toHost'[k] = toHost[k]
        BY <1>0, <2>5, AppendFacts DEF DevTypes
      <3>2. \A k \in DOMAIN toHost : ~ (toHost[k].what = "data" /\ toHost[k].of = read)
        BY <2>5 DEF NoneComing
      <3> QED BY <2>5, <3>1, <3>2
    <2>6. NoneComing => NoneComing'
      <3> SUFFICES ASSUME NoneComing PROVE NoneComing' OBVIOUS
      <3>1. \A k \in DOMAIN toHost' : ~ (toHost'[k].what = "data" /\ toHost'[k].of = read)
        BY <2>3, <2>4, <2>5
      <3> QED BY <2>1, <2>2, <3>1 DEF NoneComing
    <2> QED BY <1>0, <2>1, <2>6
  <1>15. ASSUME DevSendsData PROVE Goal'
    <2>1. ASSUME NoneComing, NEW f \in Frames, toHost' = Append(toHost, f),
                 ~ (f.what = "data" /\ f.of = read)
          PROVE  \A k \in DOMAIN toHost' : ~ (toHost'[k].what = "data" /\ toHost'[k].of = read)
      <3>1. DOMAIN toHost' = 1 .. Len(toHost) + 1 /\ DOMAIN toHost = 1 .. Len(toHost) /\ Len(toHost) \in Nat
            /\ toHost'[Len(toHost) + 1] = f /\ \A k \in DOMAIN toHost : toHost'[k] = toHost[k]
        BY <1>0, <2>1, AppendFacts DEF DevTypes
      <3>2. \A k \in DOMAIN toHost : ~ (toHost[k].what = "data" /\ toHost[k].of = read)
        BY <2>1 DEF NoneComing
      <3> QED BY <2>1, <3>1, <3>2
    <2>2. UNCHANGED <<dropped, expectData, toDev, read>> /\ dev # DevIdle /\ dev.sent < Size
      BY <1>15 DEF DevSendsData
    <2>3. NoneComing => NoneComing'
      <3> SUFFICES ASSUME NoneComing PROVE NoneComing' OBVIOUS
      <3>1. dev.of # read
        <4>1. dev.of = read => dev.sent = Size BY <2>2 DEF NoneComing
        <4> QED BY <2>2, <4>1, SizeFacts
      <3>2. PICK n \in 1 .. Size - dev.sent :
              /\ toHost' = Append(toHost, [what |-> "data", of |-> dev.of,
                                           data |-> Stretch(dev.range, dev.sent, dev.sent + n)])
              /\ dev' = [dev EXCEPT !.sent = @ + n]
        BY <1>0, <1>15, SentFrame
      <3>3. dev.sent + n \in dev.sent .. Size /\ dev.sent \in 0 .. Size /\ dev.range \in 0 .. MaxReads
            /\ dev.of \in 0 .. MaxReads
        BY SMTT(40), <1>0, <3>2, SizeFacts DEF DevTypes
      <3>4. Stretch(dev.range, dev.sent, dev.sent + n) \in Seq(Units) BY <3>3, StretchFacts
      <3> DEFINE f == [what |-> "data", of |-> dev.of,
                       data |-> Stretch(dev.range, dev.sent, dev.sent + n)]
      <3>5. f \in Frames /\ f.of = dev.of BY <3>3, <3>4 DEF Frames
      <3> HIDE DEF f
      <3>6. toHost' = Append(toHost, f) BY <3>2 DEF f
      <3>7. \A k \in DOMAIN toHost' : ~ (toHost'[k].what = "data" /\ toHost'[k].of = read)
        BY <2>1, <3>1, <3>5, <3>6
      <3>8. dev'.of # read BY <1>0, <3>1, <3>2 DEF DevTypes
      <3> QED BY <2>2, <3>7, <3>8 DEF NoneComing
    <2> QED BY <1>0, <2>2, <2>3
  <1>16. ASSUME DevFinishes PROVE Goal'
    <2>1. ASSUME NoneComing, NEW f \in Frames, toHost' = Append(toHost, f),
                 ~ (f.what = "data" /\ f.of = read)
          PROVE  \A k \in DOMAIN toHost' : ~ (toHost'[k].what = "data" /\ toHost'[k].of = read)
      <3>1. DOMAIN toHost' = 1 .. Len(toHost) + 1 /\ DOMAIN toHost = 1 .. Len(toHost) /\ Len(toHost) \in Nat
            /\ toHost'[Len(toHost) + 1] = f /\ \A k \in DOMAIN toHost : toHost'[k] = toHost[k]
        BY <1>0, <2>1, AppendFacts DEF DevTypes
      <3>2. \A k \in DOMAIN toHost : ~ (toHost[k].what = "data" /\ toHost[k].of = read)
        BY <2>1 DEF NoneComing
      <3> QED BY <2>1, <3>1, <3>2
    <2>2. UNCHANGED <<dropped, expectData, toDev, read>> /\ dev' = DevIdle BY <1>16 DEF DevFinishes
    <2>3. NoneComing => NoneComing'
      <3> SUFFICES ASSUME NoneComing PROVE NoneComing' OBVIOUS
      <3>1. CASE toHost' = toHost BY <2>2, <3>1 DEF NoneComing
      <3>2. CASE toHost' = Append(toHost, Say("OKAY"))
        <4>1. Say("OKAY") \in Frames /\ Say("OKAY").what # "data" BY SaidIsFrame DEF Say
        <4>2. \A k \in DOMAIN toHost' : ~ (toHost'[k].what = "data" /\ toHost'[k].of = read)
          BY <2>1, <3>2, <4>1
        <4> QED BY <2>2, <4>2 DEF NoneComing
      <3> QED BY <1>16, <3>1, <3>2 DEF DevFinishes
    <2> QED BY <1>0, <2>2, <2>3
  <1>17. ASSUME Over \/ UNCHANGED vars PROVE Goal'
    <2>0. UNCHANGED vars BY <1>17 DEF Over
    <2> QED BY <1>0, <2>0 DEF vars, NoneComing
  <1> HIDE DEF Goal
  <1> QED
    BY <1>1, <1>2, <1>3, <1>4, <1>5, <1>6, <1>7, <1>8, <1>9, <1>10, <1>11, <1>12, <1>13, <1>14, <1>15, <1>16, <1>17
    DEF Next, ReaderStep, DeviceStep

(* A buffer as long as the partition is the partition: it can only have    *)
(* begun at its beginning.                                                 *)
LEMMA StepSaved ==
    ASSUME TypeOK, ShapeInv, SyncInv, SavedIsPartition, [Next]_vars PROVE SavedIsPartition'
  <1> SUFFICES ASSUME InStep', saved'.of # 0
               PROVE  (saved.data = Whole(saved.of) \/ (user = "upload-read" /\ saved.of \in unstaged))'
    BY DEF SavedIsPartition
  <1>0. /\ BoxTypes /\ DevTypes /\ PlaceInv /\ InStep /\ Asked /\ Uploading /\ user' = user
    BY OnceInStep, UserStays DEF TypeOK, ShapeInv, SyncInv
  <1>1. CASE Receive
    <2>1. toDev = << >> /\ Streaming /\ expectSize = Size /\ Len(buffer) >= Size /\ pc = "receive"
      <3>1. toDev = << >> BY <1>0, <1>1 DEF Receive, Asked
      <3> QED BY <1>0, <1>1, <3>1 DEF Receive, Uploading, InUpload, Refused, PlaceInv, DataComplete
    <2>2. PICK r \in 0 .. MaxReads, got \in 0 .. Size :
            Mine(r) /\ \E p \in 0 .. got : buffer = Stretch(r, p, got)
      BY <2>1 DEF Streaming
    <2>3. PICK p \in 0 .. got : buffer = Stretch(r, p, got) BY <2>2
    <2>4. p \in 0 .. Size /\ got \in p .. Size /\ p \in Nat /\ got \in Nat /\ got <= Size BY SizeFacts
    <2>5. Len(buffer) = got - p BY <2>3, <2>4, StretchFacts
    <2>6. p = 0 /\ got = Size BY <2>1, <2>4, <2>5, SizeFacts
    <2>7. Stretch(r, 0, Size) = Whole(r)
      <3>1. Size - 0 = Size /\ \A i \in 1 .. Size : 0 + i = i BY SizeFacts
      <3> QED BY <3>1 DEF Stretch, Whole
    <2>8. saved' = [of |-> read, data |-> Whole(r)] /\ unstaged' = unstaged
      BY <1>1, <2>3, <2>6, <2>7 DEF Receive, devVars
    <2> QED BY <1>0, <2>2, <2>8 DEF Mine
  <1>2. CASE ~ Receive
    <2>1. saved' = saved /\ unstaged \subseteq unstaged'
      BY <1>2 DEF Next, ReaderStep, DeviceStep, Over, vars, boxVars, devVars,
             Begin, ExpectFirst, Send, Answered, NoAnswer, Take, Resize, Diagnose, Expect,
             ReceiveTimesOut, RxFrame, DevTakesUpload, DevTakesStage, DevSendsData, DevFinishes
    <2> QED BY <1>0, <2>1 DEF SavedIsPartition, Whole
  <1> QED BY <1>1, <1>2

-----------------------------------------------------------------------------
(* The invariant holds in the beginning.                                   *)
LEMMA InitReadInv == Init => ReadInv
  <1> SUFFICES ASSUME Init PROVE ReadInv OBVIOUS
  <1> USE SizeFacts
  <1>1. ReaderTypes /\ DevTypes BY DEF Init, ReaderTypes, DevTypes, DevIdle
  <1>2. BoxTypes BY DEF Init, BoxTypes
  <1>3. FlagTypes BY Zenon DEF Init, FlagTypes
  <1>4. ShapeInv BY DEF Init, ShapeInv, OfRead, PlaceInv, DevIdle
  <1>5. BufferInv BY DEF Init, BufferInv
  <1>6. SyncInv BY DEF Init, SyncInv, Asked, Quiet, Talking, Uploading, InUpload
  <1>7. StagedInv BY DEF Init, StagedInv, StageTaken
  <1>8. DropInv
    <2>1. NoneComing BY DEF Init, NoneComing
    <2> QED BY <2>1 DEF Init, DropInv
  <1>9. SavedIsPartition BY DEF Init, SavedIsPartition
  <1> QED BY <1>1, <1>2, <1>3, <1>4, <1>5, <1>6, <1>7, <1>8, <1>9 DEF ReadInv, TypeOK

(* Every step keeps the invariant.                                         *)
LEMMA StepReadInv == ReadInv /\ [Next]_vars => ReadInv'
  <1> SUFFICES ASSUME ReadInv, [Next]_vars PROVE ReadInv' OBVIOUS
  <1>1. TypeOK /\ ShapeInv /\ OfRead /\ PlaceInv BY DEF ReadInv, ShapeInv
  <1>2. TypeOK' BY <1>1, StepTypeOK
  <1>3. ShapeInv' BY <1>1, StepOfRead, StepPlaceInv DEF ShapeInv
  <1>4. BufferInv' BY StepBufferInv DEF ReadInv
  <1>5. SyncInv' BY StepSyncInv DEF ReadInv
  <1>6. StagedInv' BY StepStagedInv DEF ReadInv
  <1>7. DropInv' BY StepDropInv DEF ReadInv
  <1>8. SavedIsPartition' BY StepSaved DEF ReadInv
  <1> QED BY <1>2, <1>3, <1>4, <1>5, <1>6, <1>7, <1>8 DEF ReadInv

(* The invariant holds of every state. *)
LEMMA AlwaysReadInv == Spec => []ReadInv
  BY InitReadInv, StepReadInv, PTL DEF Spec

(* Every variable keeps the shape of what it stands for: the buffer of the *)
(* Session never outgrows the largest size a reader expects (session.go:   *)
(* 80-103).                                                                *)
THEOREM ReadTypeCorrect == Spec => []TypeOK
  <1>1. ReadInv => TypeOK BY DEF ReadInv
  <1> QED BY <1>1, AlwaysReadInv, PTL

(* However long the partition, the frames and the delays: what is written  *)
(* to a file while reader and device are in step is the whole partition in *)
(* order, or that of another range only where the ulstage was refused      *)
(* unseen (upload_read.go:162).                                            *)
THEOREM FilesHoldPartitions == Spec => []SavedIsPartition
  <1>1. ReadInv => SavedIsPartition BY DEF ReadInv
  <1> QED BY <1>1, AlwaysReadInv, PTL

(* The slice data[:remaining] (session.go:95-97) is in range for every     *)
(* reader that sets its size before it reads, however late the data, and   *)
(* for uploadReadMode as long as it is in step.                            *)
THEOREM SliceInRange == Spec => []NoPanic
  <1>1. ReadInv => NoPanic BY DEF ReadInv, BufferInv, NoPanic
  <1> QED BY <1>1, AlwaysReadInv, PTL

(* uploadReadMode, which expects data before it asks for it, drops none of *)
(* it while in step (upload_read.go:165-166).                              *)
THEOREM UploadReadDropsNone == Spec => []UploadReadKeepsAll
  <1>1. ReadInv => UploadReadKeepsAll BY DEF ReadInv, DropInv, UploadReadKeepsAll
  <1> QED BY <1>1, AlwaysReadInv, PTL
=============================================================================
