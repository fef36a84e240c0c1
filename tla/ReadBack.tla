------------------------------- MODULE ReadBack -------------------------------
(***************************************************************************)
(* Reading partitions back: the data buffer of a Session (BeginDataExpect, *)
(* ReceiveData and appendData, session.go) between the receive loop and    *)
(* its three users, which differ in when they begin to expect data:        *)
(*   "package"     the upload command of a package (main.go:974-1027)      *)
(*   "partition"   read-partition (readPartitionMode, main.go:484-583)     *)
(*   "upload-read" uploadReadMode (upload_read.go:134-192), which first    *)
(*                 tells the device what to read: useflash, ulstage        *)
(*                                                                         *)
(* user, style   who reads, and how the device answers (see Answers)       *)
(* pc, read      where the reader stands, and the number of its read       *)
(* cmd           the command it sends                                      *)
(* slot, rsp     s.cmdResponse, and what the reader took from it           *)
(* expectData, expectSize, buffer       as in Session                      *)
(* dev, staged, toDev, toHost   the device, the read the last ulstage it   *)
(*               took is of, and the frames under way                      *)
(* saved         the last file written: of which read, with what           *)
(* dropped       history: appendData has dropped data of the current read  *)
(* unstaged      history: the reads whose ulstage the device refused       *)
(* hasty         history: a command was sent with an answer to an earlier  *)
(*               one still to come                                         *)
(* timeouts      waits that ran out with an answer still to come           *)
(***************************************************************************)
EXTENDS Integers, Sequences

CONSTANTS
    Users, Styles,      \* the readers and the answers to look at
    Size,               \* length of a partition
    FrameLen,           \* data in a frame
    Huge,               \* the 0xFFFFFF of a reader that does not know the size
    MaxReads,           \* bound on the reads
    MaxTimeouts,        \* bound on the waits that run out with an answer under way
    MayRefuse           \* may the device answer FAIL?

ASSUME ReadAssumption ==
    /\ Users \subseteq {"package", "partition", "upload-read"}
    /\ Styles \subseteq {"data", "okay"}
    /\ Size \in Nat \ {0} /\ FrameLen \in Nat \ {0} /\ Huge \in Nat /\ Huge > Size
    /\ MaxReads \in Nat /\ MaxTimeouts \in Nat /\ MayRefuse \in BOOLEAN

VARIABLES user, style, pc, read, cmd, slot, rsp, expectData, expectSize, buffer,
          dev, staged, toDev, toHost, saved, dropped, unstaged, hasty, timeouts

boxVars == <<expectData, expectSize, buffer>>
devVars == <<dev, staged, toDev, toHost, unstaged, hasty>>
vars    == <<user, style, pc, read, cmd, slot, rsp, boxVars, devVars, saved, dropped, timeouts>>

DevIdle == [of |-> 0, range |-> 0, sent |-> 0]

Init ==
    /\ user \in Users /\ style \in Styles
    /\ pc = "idle" /\ read = 0 /\ cmd = "upload"
    /\ slot = "none" /\ rsp = "none"
    /\ expectData = FALSE /\ expectSize = 0 /\ buffer = << >>
    /\ dev = DevIdle /\ staged = 0 /\ unstaged = {} /\ hasty = FALSE /\ toDev = << >> /\ toHost = << >>
    /\ saved = [of |-> 0, data |-> << >>]
    /\ dropped = FALSE /\ timeouts = 0

-----------------------------------------------------------------------------
(* Session. *)

(* Mutant: what an earlier read left in the buffer stays. *)
BeginDataExpect_KeepsBuffer(total) ==
    /\ expectData' = TRUE
    /\ expectSize' = total
    /\ buffer' = buffer

(* Mutant: one byte too few is expected. *)
BeginDataExpect_OneLess(total) ==
    /\ expectData' = TRUE
    /\ expectSize' = total - 1
    /\ buffer' = << >>

BeginDataExpect(total) ==
    /\ expectData' = TRUE
    /\ expectSize' = total
    /\ buffer' = << >>

(* The expected data is there: ReceiveData hands it out. *)
DataComplete == expectData /\ Len(buffer) >= expectSize

(* data[:remaining] *)
Kept(data) ==
    LET remaining == expectSize - Len(buffer) IN
      IF Len(data) > remaining THEN SubSeq(data, 1, remaining) ELSE data

(* appendData, by the receive loop; data[:remaining] panics when the       *)
(* buffer already holds more than is expected.                             *)
RxData(f) ==
    /\ buffer' = IF expectData /\ Len(buffer) <= expectSize THEN buffer \o Kept(f.data) ELSE buffer
    /\ dropped' = (dropped \/ (~ expectData /\ f.of = read))
    /\ pc' = IF expectData /\ Len(buffer) > expectSize THEN "panic" ELSE pc
    /\ UNCHANGED slot

RxFrame ==
    /\ toHost # << >>
    /\ pc # "panic"
    /\ LET f == Head(toHost) IN
         IF f.what = "data"
           THEN RxData(f)
           ELSE slot' = f.what /\ UNCHANGED <<buffer, dropped, pc>>
    /\ toHost' = Tail(toHost)
    /\ UNCHANGED <<user, style, read, cmd, rsp, expectData, expectSize, dev, staged, toDev, unstaged, hasty, saved, timeouts>>

(* A wait runs out; for MaxTimeouts times although an answer is under way. *)
Silent == dev = DevIdle /\ toDev = << >> /\ toHost = << >>

RunsOut == timeouts' = IF Silent THEN timeouts ELSE timeouts + 1

MayRunOut == Silent \/ timeouts < MaxTimeouts

-----------------------------------------------------------------------------
(* The readers. *)

(* read-partition is a process for one read. *)
MayRead == read < MaxReads /\ (user = "partition" => read = 0)

Begin ==
    /\ pc = "idle" /\ MayRead
    /\ read' = read + 1
    /\ dropped' = FALSE
    /\ cmd' = IF user = "upload-read" THEN "useflash" ELSE "upload"
    /\ pc' = "send"
    /\ UNCHANGED <<user, style, slot, rsp, boxVars, devVars, saved, timeouts>>

(* Mutant: uploadReadMode begins to expect data after the command, too. *)
ExpectFirst_Never ==
    /\ pc = "expect-first"
    /\ UNCHANGED boxVars
    /\ cmd' = "upload"
    /\ pc' = "send"
    /\ UNCHANGED <<user, style, read, slot, rsp, devVars, saved, dropped, timeouts>>

(* uploadReadMode expects data before it asks for it. *)
ExpectFirst ==
    /\ pc = "expect-first"
    /\ BeginDataExpect(Huge)
    /\ cmd' = "upload"
    /\ pc' = "send"
    /\ UNCHANGED <<user, style, read, slot, rsp, devVars, saved, dropped, timeouts>>

(* SmuxSendCmd: the slot is emptied, the command written, any answer       *)
(* awaited, and the slot read again.                                       *)
Send ==
    /\ pc = "send"
    /\ slot' = "none"
    /\ toDev' = Append(toDev, [what |-> cmd, of |-> read])
    /\ hasty' = (hasty \/ ~ Silent)
    /\ pc' = "await"
    /\ UNCHANGED <<user, style, read, cmd, rsp, boxVars, dev, staged, toHost, saved, dropped,
                   unstaged, timeouts>>

Answered ==
    /\ pc = "await"
    /\ slot # "none"
    /\ pc' = "take"
    /\ UNCHANGED <<user, style, read, cmd, slot, rsp, boxVars, devVars, saved, dropped, timeouts>>

(* A useflash without an answer ends the read, an ulstage does not. *)
NoAnswer ==
    /\ pc = "await"
    /\ slot = "none" /\ MayRunOut /\ RunsOut
    /\ pc' = IF cmd = "ulstage" THEN "expect-first" ELSE "idle"
    /\ UNCHANGED <<user, style, read, cmd, slot, rsp, boxVars, devVars, saved, dropped>>

(* Whatever is answered to useflash and ulstage is printed only. *)
Take ==
    /\ pc = "take"
    /\ rsp' = slot
    /\ cmd' = IF cmd = "useflash" THEN "ulstage" ELSE cmd
    /\ pc' = CASE cmd = "useflash"                         -> "send"
               [] cmd = "ulstage"                          -> "expect-first"
               [] cmd = "upload" /\ slot = "DATA"          -> IF user = "upload-read"
                                                                THEN "resize" ELSE "expect"
               [] cmd = "upload" /\ slot = "OKAY" /\ user = "partition" -> "diagnose"
               [] OTHER                                    -> "idle"
    /\ UNCHANGED <<user, style, read, slot, boxVars, devVars, saved, dropped, timeouts>>

Resize ==
    /\ pc = "resize"
    /\ expectSize' = Size
    /\ pc' = "receive"
    /\ UNCHANGED <<user, style, read, cmd, slot, rsp, expectData, buffer, devVars, saved, dropped, timeouts>>

(* After OKAY read-partition first receives for five seconds without a     *)
(* size, then begins anew with the size it was given or knows; without     *)
(* either it would exit.                                                   *)
Diagnose ==
    /\ pc = "diagnose"
    /\ BeginDataExpect(Huge)
    /\ pc' = "diagnosing"
    /\ UNCHANGED <<user, style, read, cmd, slot, rsp, devVars, saved, dropped, timeouts>>

Expect ==
    /\ \/ pc = "expect" /\ UNCHANGED timeouts
       \/ pc = "diagnosing" /\ ~ DataComplete /\ MayRunOut /\ RunsOut
    /\ BeginDataExpect(Size)
    /\ pc' = "receive"
    /\ UNCHANGED <<user, style, read, cmd, slot, rsp, devVars, saved, dropped>>

(* read-partition then waits for OKAY, but saves whether it comes or not.  *)
Receive ==
    /\ pc = "receive"
    /\ DataComplete
    /\ saved' = [of |-> read, data |-> buffer]
    /\ buffer' = << >>
    /\ expectData' = FALSE
    /\ pc' = "idle"
    /\ UNCHANGED <<user, style, read, cmd, slot, rsp, expectSize, devVars, dropped, timeouts>>

(* Mutant: at the deadline the wait begins anew. *)
ReceiveTimesOut_WaitsOn == pc = "receive" /\ ~ DataComplete /\ UNCHANGED vars

(* expectData and the buffer stay as they are. *)
ReceiveTimesOut ==
    /\ pc = "receive"
    /\ ~ DataComplete
    /\ MayRunOut /\ RunsOut
    /\ pc' = "idle"
    /\ UNCHANGED <<user, style, read, cmd, slot, rsp, boxVars, devVars, saved, dropped>>

-----------------------------------------------------------------------------
(* The device (external): DATA<size>, the data, OKAY; or, as the comment   *)
(* at main.go:523 has it, OKAY and then the data.                          *)

Unit(r, i)  == [of |-> r, i |-> i]
Say(what)   == [what |-> what, of |-> 0, data |-> << >>]

(* The range of an upload command is what was staged last; the others name *)
(* it in the command.                                                      *)
DevTakesUpload ==
    /\ dev = DevIdle /\ toDev # << >>
    /\ Head(toDev).what = "upload"
    /\ toDev' = Tail(toDev)
    /\ \/ /\ toHost' = Append(toHost, Say(IF style = "data" THEN "DATA" ELSE "OKAY"))
          /\ dev' = [of    |-> Head(toDev).of,
                     range |-> IF user = "upload-read" THEN staged ELSE Head(toDev).of,
                     sent  |-> 0]
       \/ /\ MayRefuse
          /\ toHost' = Append(toHost, Say("FAIL"))
          /\ UNCHANGED dev
    /\ UNCHANGED <<user, style, pc, read, cmd, slot, rsp, boxVars, staged, unstaged, hasty, saved, dropped,
                   timeouts>>

DevTakesStage ==
    /\ dev = DevIdle /\ toDev # << >>
    /\ Head(toDev).what \in {"useflash", "ulstage"}
    /\ toDev' = Tail(toDev)
    /\ \/ /\ toHost' = Append(toHost, Say("OKAY"))
          /\ staged' = IF Head(toDev).what = "ulstage" THEN Head(toDev).of ELSE staged
          /\ UNCHANGED unstaged
       \/ /\ MayRefuse
          /\ toHost' = Append(toHost, Say("FAIL"))
          /\ unstaged' = IF Head(toDev).what = "ulstage"
                           THEN unstaged \cup {Head(toDev).of} ELSE unstaged
          /\ UNCHANGED staged
    /\ UNCHANGED <<user, style, pc, read, cmd, slot, rsp, boxVars, dev, hasty, saved, dropped,
                   timeouts>>

DevSendsData ==
    /\ dev # DevIdle /\ dev.sent < Size
    /\ LET n == IF Size - dev.sent < FrameLen THEN Size - dev.sent ELSE FrameLen IN
         /\ toHost' = Append(toHost, [what |-> "data", of |-> dev.of,
                                      data |-> [i \in 1 .. n |-> Unit(dev.range, dev.sent + i)]])
         /\ dev' = [dev EXCEPT !.sent = @ + n]
    /\ UNCHANGED <<user, style, pc, read, cmd, slot, rsp, boxVars, staged, toDev, unstaged, hasty,
                   saved, dropped, timeouts>>

DevFinishes ==
    /\ dev # DevIdle /\ dev.sent = Size
    /\ toHost' = IF style = "data" THEN Append(toHost, Say("OKAY")) ELSE toHost
    /\ dev' = DevIdle
    /\ UNCHANGED <<user, style, pc, read, cmd, slot, rsp, boxVars, staged, toDev, unstaged, hasty,
                   saved, dropped, timeouts>>

-----------------------------------------------------------------------------

Over == ((pc = "idle" /\ ~ MayRead) \/ pc = "panic") /\ UNCHANGED vars

ReaderStep ==
    \/ ExpectFirst
    \/ Send
    \/ Answered
    \/ NoAnswer
    \/ Take
    \/ Resize
    \/ Diagnose
    \/ Expect
    \/ Receive
    \/ ReceiveTimesOut

DeviceStep == DevTakesUpload \/ DevTakesStage \/ DevSendsData \/ DevFinishes

Next == Begin \/ ReaderStep \/ RxFrame \/ DeviceStep \/ Over

Spec == Init /\ [][Next]_vars

(* The reader runs and its waits have deadlines; the device finishes what  *)
(* it has begun and the receive loop reads it.                             *)
FairSpec == Spec /\ WF_vars(ReaderStep) /\ WF_vars(DeviceStep) /\ WF_vars(RxFrame)

-----------------------------------------------------------------------------
Whole(r) == [i \in 1 .. Size |-> Unit(r, i)]

Units    == [of : 0 .. MaxReads, i : 1 .. Size]
Requests == [what : {"useflash", "ulstage", "upload"}, of : 1 .. MaxReads]
Frames   == [what : {"DATA", "OKAY", "FAIL", "data"}, of : 0 .. MaxReads, data : Seq(Units)]

ReaderTypes ==
    /\ user \in Users /\ style \in Styles
    /\ pc \in {"idle", "send", "await", "take", "resize", "diagnose", "diagnosing",
               "expect", "expect-first", "receive", "panic"}
    /\ read \in 0 .. MaxReads /\ cmd \in {"useflash", "ulstage", "upload"}
    /\ rsp \in {"none", "DATA", "OKAY", "FAIL"}
    /\ timeouts \in 0 .. MaxTimeouts

BoxTypes ==
    /\ slot \in {"none", "DATA", "OKAY", "FAIL"}
    /\ expectSize \in {0, Size, Huge}
    /\ buffer \in Seq(Units) /\ Len(buffer) <= Huge

DevTypes ==
    /\ dev \in [of : 0 .. MaxReads, range : 0 .. MaxReads, sent : 0 .. Size]
    /\ staged \in 0 .. MaxReads /\ unstaged \in SUBSET (1 .. MaxReads)
    /\ toDev \in Seq(Requests) /\ toHost \in Seq(Frames)

FlagTypes == expectData \in BOOLEAN /\ dropped \in BOOLEAN /\ hasty \in BOOLEAN

(* Every variable has the shape of what it stands for. *)
TypeOK == ReaderTypes /\ BoxTypes /\ DevTypes /\ FlagTypes

(* So far every answer had come before the reader went on.  That the       *)
(* device answers in time is not enough: after the data comes an OKAY,     *)
(* which only read-partition awaits; in the others it may be taken for the *)
(* answer to the next command, and the data of that one for a later read's.*)
InStep == timeouts = 0 /\ ~ hasty

(* A file holds the partition it was read for, whole and in order: as long *)
(* as reader and device are in step neither data of an earlier read nor a  *)
(* part of the data is ever saved (ReceiveData), and a file of             *)
(* uploadReadMode holds another range only where the device refused the    *)
(* ulstage, which is not looked at (upload_read.go:162).                   *)
SavedIsPartition ==
    InStep /\ saved.of # 0 =>
        \/ saved.data = Whole(saved.of)
        \/ user = "upload-read" /\ saved.of \in unstaged

(* data[:remaining] panics (session.go:95-97) only where the size is       *)
(* lowered after the data began to come, in upload-read, and there only    *)
(* after late data of an earlier read: a reader that sets the size and     *)
(* empties the buffer at once is safe however late the data comes.         *)
NoPanic == pc = "panic" => user = "upload-read" /\ ~ InStep

(* uploadReadMode expects the data before it can come (upload_read.go:     *)
(* 165-166), so none of it is dropped while the two are in step.           *)
UploadReadKeepsAll == user = "upload-read" /\ InStep => ~ dropped

(* Every read comes to an end, if only with the end of the process. *)
ReadsEnd == (pc = "send") ~> (pc \in {"idle", "panic"})
=============================================================================
