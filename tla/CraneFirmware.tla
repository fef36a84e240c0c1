----------------------------- MODULE CraneFirmware -----------------------------
(***************************************************************************)
(* A firmware file in the CRANE format and how ParseCraneFirmware reads it *)
(* (firmware.go).  A file is a header and, of every command, lines and a   *)
(* block of data; it was copied up to some place, or into it.  Texts and   *)
(* contents are left out.  The reader goes from place to place without     *)
(* knowing which command a place belongs to.                               *)
(***************************************************************************)
EXTENDS Naturals, Sequences

CONSTANTS
    Firmware,       \* the types of the commands in the whole file
    AnswerFirst     \* an answer line stands between a download and its data

Types == {"nop", "download", "getvar", "call", "reboot", "complete", "disconnect", "other"}

ASSUME FirmwareAssumption == Firmware \in Seq(Types) /\ AnswerFirst \in BOOLEAN

(* A command and the answer expected.  Of a download the parser expects an *)
(* answer line, the data, the line end that follows them, and the answer   *)
(* to the data (firmware.go:76-104); README.md:59-75 puts the data at once *)
(* behind the command.                                                     *)
Layout(n) ==
    IF n = 0 THEN <<"header">>
    ELSE IF n \in DOMAIN Firmware /\ Firmware[n] = "download"
      THEN IF AnswerFirst
             THEN <<"cmd", "rsp", "data", "blank", "okay", "blank">>
             ELSE <<"cmd", "data", "blank", "okay">>
      ELSE <<"cmd", "rsp">>

Place(n, k) == [n |-> n, k |-> k]

Places == UNION {{Place(n, k) : k \in 1 .. Len(Layout(n))} : n \in 0 .. Len(Firmware)}

Kind(p) == Layout(p.n)[p.k]

Anywhere == [n : Nat, k : Nat]

After == [p \in Anywhere |->
    IF p.k < Len(Layout(p.n)) THEN Place(p.n, p.k + 1) ELSE Place(p.n + 1, 1)]

Files == [last : Places, cut : BOOLEAN]

-----------------------------------------------------------------------------
(* ReadFull fails at the end and in a piece that is cut.                   *)
Readable(file, p) ==
    \/ p.n < file.last.n
    \/ p.n = file.last.n /\ p.k < file.last.k
    \/ p = file.last /\ ~ file.cut

(* ReadString goes to the next line end: the data hold none.               *)
LineEnd(p) == IF Kind(p) = "data" THEN After[p] ELSE p

NextLine == [p \in Anywhere |-> After[LineEnd(p)]]

LineReadable(file, p) == Readable(file, LineEnd(p))

(* getCmdType *)
TypeOf(p) == IF Kind(p) = "cmd" THEN Firmware[p.n] ELSE "other"

Command(p) == [type |-> TypeOf(p), n |-> p.n]

(* Where the data are looked for.  Behind an answer line that was not      *)
(* there ReadFull takes other bytes for data, here the piece that comes    *)
(* next.                                                                   *)
DataPlace(p) == NextLine[NextLine[p]]

(* A command without its answer or its data is an error ...                *)
Whole(file, p) ==
    /\ LineReadable(file, NextLine[p])
    /\ TypeOf(p) = "download" => Readable(file, DataPlace(p))

(* Mutant: after the data only one line is read. *)
Beyond_OneLine(p) ==
    IF TypeOf(p) = "download" THEN NextLine[After[DataPlace(p)]] ELSE NextLine[NextLine[p]]

(* ... but the two lines after the data are read without looking at errors. *)
Beyond(p) ==
    IF TypeOf(p) = "download"
      THEN NextLine[NextLine[After[DataPlace(p)]]]
      ELSE NextLine[NextLine[p]]
=============================================================================
