----------------------------- MODULE WebFlashProofs -----------------------------
(***************************************************************************)
(* Proofs about WebFlash and CraneFirmware, for any firmware in which an   *)
(* answer line stands between a download and its data (AnswerFirst), any   *)
(* watchers and any number of answers left over.                           *)
(*                                                                         *)
(* The reader stands before the next command or behind a download          *)
(* (ReaderInv).  Until a nop is given up nothing is under way but the      *)
(* answer to the request at work, and the device has taken up the commands *)
(* one by one (InStep).  Afterwards answers may be late, but none of them  *)
(* is DATA, and what is late has come when DATA comes (OutOfStep): so a    *)
(* download is always in step with the device (DownloadInv).               *)
(***************************************************************************)
EXTENDS WebFlash, TLAPS, SequenceTheorems

USE DEF causes

-----------------------------------------------------------------------------
(* The inductive invariant. *)

Before == {"open", "hello", "parse", "read"}

AtCommand  == pc = "wait" /\ ask = "command"
AtDownload == pc \in {"again", "data"} \/ (pc = "wait" /\ ask \in {"again", "data"})
AtHello    == pc = "wait" /\ ask = "hello"
AtReboot   == pc = "wait" /\ ask = "reboot"

(* Which command is at work where. *)
PlaceInv ==
    /\ reported = "none" <=> pc \notin {"report", "done"}
    /\ pc \in Before \/ AtHello => i = 0 /\ ~ skipped /\ met = << >>
    /\ pc \in {"open", "hello", "parse"} \/ AtHello => fw = << >>
    /\ pc = "command" => i > 0
    /\ AtCommand \/ AtDownload => i \in 1 .. Len(fw)
    /\ AtDownload => fw[i].type = "download"
    /\ AtReboot \/ reported = "completed" => i = Len(fw) + 1

(* The reader stands before the next command, or before the blank line     *)
(* that follows the last one.                                              *)
ReaderInv ==
    pc = "read" =>
        \/ at = Place(Len(fw) + 1, 1)
        \/ fw # << >> /\ Firmware[Len(fw)] = "download" /\ at = Place(Len(fw), 6)

(* All that is under way or was read last is of the answers S, save the    *)
(* very last.                                                              *)
Flight(S) ==
    /\ \A k \in DOMAIN toHost : toHost[k] \in S
    /\ rx \in S \cup {NoFrame} /\ slot \in S \cup {"none"}

FlightTo(S, answer) ==
    \/ /\ toHost # << >> /\ toHost[Len(toHost)] = answer
       /\ \A k \in 1 .. Len(toHost) - 1 : toHost[k] \in S
       /\ rx \in S \cup {NoFrame} /\ slot \in S \cup {"none"}
    \/ toHost = << >> /\ rx = answer /\ slot \in S \cup {"none"}
    \/ toHost = << >> /\ rx = NoFrame /\ slot = answer

Silent == toHost = << >> /\ rx = NoFrame

Pending(what, n) == toDev = <<[what |-> what, n |-> n]>>

Upto(m) == [k \in 1 .. m |-> k]

Busy(n) == [doing |-> "data", n |-> n]

(* The handshake waits for its answer to come after all that is left over. *)
HelloInv ==
    /\ pc \in {"open", "hello"} =>
         toDev = << >> /\ Flight(LeftOver) /\ rx = NoFrame /\ slot = "none"
    /\ AtHello =>
         \/ Pending("hello", 0) /\ Flight(LeftOver)
         \/ /\ toDev = << >> /\ dev = Idle
            /\ FlightTo(LeftOver, "HELLO_REPLY") \/ (trouble /\ Flight(LeftOver))
    /\ pc \in {"parse", "read"} => toDev = << >> /\ Silent /\ dev = Idle

(* While no nop was given up, nothing is under way but the answer to the   *)
(* command at work.                                                        *)
InStep ==
    ~ skipped =>
        /\ pc = "command" => toDev = << >> /\ Silent /\ met = Upto(i - 1)
        /\ AtCommand =>
             \/ Pending(fw[i].type, i) /\ Flight({}) /\ dev = Idle /\ met = Upto(i - 1)
             \/ /\ toDev = << >> /\ met = Upto(i)
                /\ \/ fw[i].type = "download" /\ FlightTo({}, "DATA") /\ dev = Busy(i)
                   \/ fw[i].type # "download" /\ FlightTo({}, "OKAY") /\ dev = Idle
                   \/ (FlightTo({}, "FAIL") \/ Flight({})) /\ dev = Idle /\ trouble
        /\ AtDownload => met = Upto(i)
        /\ AtReboot \/ reported = "completed" =>
             \/ Pending("reboot", 0) /\ met = Upto(Len(fw))
             \/ toDev = << >> /\ met = Append(Upto(Len(fw)), 0)

Late == {"OKAY", "FAIL"}

Plain == Types \ {"download"}

(* Otherwise late answers may be, but none of them is DATA, so that they   *)
(* end at the next download.                                               *)
OutOfStep ==
    skipped =>
        /\ pc = "command" =>
             /\ \A k \in DOMAIN toDev : toDev[k].what \in Plain
             /\ \A k \in DOMAIN toHost : toHost[k] \in Late
             /\ rx \in Late \cup {NoFrame}
        /\ AtCommand /\ fw[i].type # "download" =>
             Flight(Late) /\ \A k \in DOMAIN toDev : toDev[k].what \in Plain
        /\ AtCommand /\ fw[i].type = "download" =>
             \/ /\ toDev # << >> /\ toDev[Len(toDev)] = [what |-> "download", n |-> i]
                /\ \A k \in 1 .. Len(toDev) - 1 : toDev[k].what \in Plain
                /\ Flight(Late) /\ dev = Idle
             \/ toDev = << >> /\ FlightTo(Late, "DATA") /\ dev = Busy(i)
             \/ toDev = << >> /\ Flight(Late) /\ dev = Idle

(* A download is at work: DATA has ended what was late. *)
DownloadInv ==
    /\ pc = "command" \/ (AtCommand /\ fw[i].type # "download") => dev = Idle
    /\ pc \in {"again", "data"} => toDev = << >> /\ Silent /\ dev = Busy(i)
    /\ AtDownload /\ pc = "wait" /\ ask = "again" =>
         /\ dev = Busy(i)
         /\ \/ Pending("download", i) /\ Flight({})
            \/ /\ toDev = << >>
               /\ \/ FlightTo({}, "DATA")
                  \/ Flight({}) /\ trouble
                  \/ (FlightTo({}, "OKAY") \/ FlightTo({}, "FAIL")) /\ twice
    /\ AtDownload /\ pc = "wait" /\ ask = "data" =>
         \/ Pending("data", i) /\ Flight({}) /\ dev = Busy(i)
         \/ toDev = << >> /\ dev = Idle /\ FlightTo({}, "OKAY") /\ i \in taken
         \/ toDev = << >> /\ dev = Idle /\ (FlightTo({}, "FAIL") \/ Flight({})) /\ trouble

(* Downloads that are through were taken. *)
TakenInv ==
    reported # "error" =>
        \A k \in 1 .. Len(fw) : k < i /\ fw[k].type = "download" => k \in taken

SkipHasCause == skipped => trouble

FlowInv ==
    /\ ReadIsPrefix /\ PlaceInv /\ ReaderInv /\ HelloInv /\ InStep /\ OutOfStep
    /\ DownloadInv /\ TakenInv /\ ErrorHasCause /\ SkipHasCause

WebInv == AnswerFirst /\ TypeOK /\ FlowInv

-----------------------------------------------------------------------------
(* The file and its reader. *)

LEMMA FirmwareFacts == Len(Firmware) \in Nat /\ \A n \in 1 .. Len(Firmware) : Firmware[n] \in Types
  BY FirmwareAssumption

LEMMA LayoutFacts ==
    /\ Len(Layout(0)) = 1 /\ Layout(0)[1] = "header"
    /\ AnswerFirst => \A n \in Nat \ {0} :
         IF n \in 1 .. Len(Firmware) /\ Firmware[n] = "download"
           THEN /\ Len(Layout(n)) = 6 /\ Layout(n)[1] = "cmd" /\ Layout(n)[6] = "blank"
                /\ Layout(n)[2] = "rsp" /\ Layout(n)[4] = "blank" /\ Layout(n)[5] = "okay"
           ELSE Len(Layout(n)) = 2 /\ Layout(n)[1] = "cmd" /\ Layout(n)[2] = "rsp"
  <1>1. DOMAIN Firmware = 1 .. Len(Firmware) BY FirmwareAssumption
  <1>2. Len(Layout(0)) = 1 /\ Layout(0)[1] = "header" BY DEF Layout
  <1>3. ASSUME AnswerFirst, NEW n \in Nat \ {0},
               n \in 1 .. Len(Firmware) /\ Firmware[n] = "download"
        PROVE  /\ Len(Layout(n)) = 6 /\ Layout(n)[1] = "cmd" /\ Layout(n)[6] = "blank"
               /\ Layout(n)[2] = "rsp" /\ Layout(n)[4] = "blank" /\ Layout(n)[5] = "okay"
    <2>1. Layout(n) = <<"cmd", "rsp", "data", "blank", "okay", "blank">>
      BY <1>1, <1>3 DEF Layout
    <2> QED BY <2>1
  <1>4. ASSUME NEW n \in Nat \ {0}, ~ (n \in 1 .. Len(Firmware) /\ Firmware[n] = "download")
        PROVE  Len(Layout(n)) = 2 /\ Layout(n)[1] = "cmd" /\ Layout(n)[2] = "rsp"
    <2>1. Layout(n) = <<"cmd", "rsp">> BY <1>1, <1>4 DEF Layout
    <2> QED BY <2>1
  <1> QED BY <1>2, <1>3, <1>4

LEMMA FileFacts ==
    /\ Start \in Places /\ NoFile \in Files
    /\ \A copied \in Files : copied.last.n \in 0 .. Len(Firmware) /\ copied.last.k \in Nat
  <1>1. Start \in Places
    <2>1. 0 \in 0 .. Len(Firmware) BY FirmwareFacts
    <2>2. 1 \in 1 .. Len(Layout(0)) BY LayoutFacts
    <2> QED BY <2>1, <2>2 DEF Places, Start
  <1>2. ASSUME NEW copied \in Files
        PROVE  copied.last.n \in 0 .. Len(Firmware) /\ copied.last.k \in Nat
    <2>1. copied.last \in Places BY DEF Files
    <2>2. PICK n \in 0 .. Len(Firmware) : copied.last \in {Place(n, k) : k \in 1 .. Len(Layout(n))}
      BY <2>1 DEF Places
    <2>3. PICK k \in 1 .. Len(Layout(n)) : copied.last = Place(n, k) BY <2>2
    <2> QED BY <2>3 DEF Place
  <1> QED BY <1>1, <1>2 DEF NoFile, Files

(* What can be read is a piece of a command that there is. *)
LEMMA ReadableFacts ==
    ASSUME NEW copied \in Files, NEW p, Readable(copied, p), p.n \in Nat
    PROVE  p.n <= Len(Firmware)
  <1>1. copied.last.n \in 0 .. Len(Firmware) BY FileFacts
  <1> QED BY <1>1, FirmwareFacts DEF Readable

LEMMA PlaceFacts ==
    ASSUME NEW n \in Nat, NEW k \in Nat
    PROVE  /\ Place(n, k) \in Anywhere /\ Place(n, k).n = n /\ Place(n, k).k = k
           /\ Kind(Place(n, k)) = Layout(n)[k]
           /\ After[Place(n, k)] =
                IF k < Len(Layout(n)) THEN Place(n, k + 1) ELSE Place(n + 1, 1)
  <1>1. Place(n, k).n = n /\ Place(n, k).k = k /\ Place(n, k) \in Anywhere
    BY DEF Place, Anywhere
  <1>2. Kind(Place(n, k)) = Layout(n)[k] BY <1>1 DEF Kind
  <1> QED BY <1>1, <1>2, Zenon DEF After

(* A line that does not begin with data is a piece. *)
LEMMA LineFacts ==
    ASSUME NEW n \in Nat, NEW k \in Nat, Layout(n)[k] # "data", NEW p, p = Place(n, k)
    PROVE  /\ NextLine[p] = After[p]
           /\ \A copied : LineReadable(copied, p) <=> Readable(copied, p)
  <1>0. Place(n, k) \in Anywhere /\ Kind(Place(n, k)) = Layout(n)[k] BY PlaceFacts, Zenon
  <1>1. p \in Anywhere /\ Kind(p) # "data" BY <1>0
  <1>2. LineEnd(p) = p BY <1>1, Zenon DEF LineEnd
  <1>3. NextLine[p] = After[LineEnd(p)] BY <1>1, Zenon DEF NextLine
  <1> QED BY <1>2, <1>3, Zenon DEF LineReadable

(* The reader at a command reads it and stands behind it.                  *)
LEMMA CommandRead ==
    ASSUME AnswerFirst, NEW n \in 1 .. Len(Firmware), NEW p, p = Place(n, 1)
    PROVE  /\ Kind(p) = "cmd" /\ Command(p) = [type |-> Firmware[n], n |-> n]
           /\ Beyond(p) = IF Firmware[n] = "download" THEN Place(n, 6) ELSE Place(n + 1, 1)
  <1>1. n \in Nat \ {0} BY FirmwareFacts
  <1>2. Kind(p) = "cmd"
    <2>1. Layout(n)[1] = "cmd" BY <1>1, LayoutFacts
    <2>2. p.n = n /\ p.k = 1 BY DEF Place
    <2> QED BY <2>1, <2>2, Zenon DEF Kind
  <1>3. TypeOf(p) = Firmware[n] BY <1>2 DEF TypeOf, Place
  <1>4. Command(p) = [type |-> Firmware[n], n |-> n] BY <1>3 DEF Command, Place
  <1>5. CASE Firmware[n] = "download"
    <2>1. /\ Len(Layout(n)) = 6 /\ Layout(n)[1] = "cmd" /\ Layout(n)[2] = "rsp"
          /\ Layout(n)[4] = "blank" /\ Layout(n)[5] = "okay"
      BY <1>1, <1>5, LayoutFacts
    <2>2. \A k \in 1 .. 5 : After[Place(n, k)] = Place(n, k + 1)
      <3>1. \A k \in 1 .. 5 : k < Len(Layout(n)) /\ k \in Nat BY <2>1
      <3> QED BY <1>1, <3>1, PlaceFacts, Zenon
    <2>3. /\ After[Place(n, 1)] = Place(n, 2) /\ After[Place(n, 2)] = Place(n, 3)
          /\ After[Place(n, 3)] = Place(n, 4) /\ After[Place(n, 4)] = Place(n, 5)
          /\ After[Place(n, 5)] = Place(n, 6)
      BY <2>2
    <2>4. \A k \in {1, 2, 4, 5} : NextLine[Place(n, k)] = After[Place(n, k)]
      <3> SUFFICES ASSUME NEW k \in {1, 2, 4, 5}
                   PROVE  NextLine[Place(n, k)] = After[Place(n, k)]
        OBVIOUS
      <3>1. k \in Nat /\ n \in Nat /\ Layout(n)[k] # "data" BY <1>1, <2>1
      <3> QED BY <3>1, LineFacts, Zenon
    <2>5. DataPlace(p) = Place(n, 3)
      <3>1. NextLine[p] = Place(n, 2) BY <2>3, <2>4
      <3>2. NextLine[Place(n, 2)] = Place(n, 3) BY <2>3, <2>4
      <3> QED BY <3>1, <3>2, Zenon DEF DataPlace
    <2>6. NextLine[NextLine[After[DataPlace(p)]]] = Place(n, 6)
      <3>1. NextLine[Place(n, 4)] = Place(n, 5) /\ NextLine[Place(n, 5)] = Place(n, 6)
        BY <2>3, <2>4
      <3> QED BY <2>3, <2>5, <3>1, Zenon
    <2>7. Beyond(p) = Place(n, 6) BY <1>3, <1>5, <2>6, Zenon DEF Beyond
    <2> QED BY <1>2, <1>4, <1>5, <2>7
  <1>6. CASE Firmware[n] # "download"
    <2>1. Len(Layout(n)) = 2 /\ Layout(n)[1] = "cmd" /\ Layout(n)[2] = "rsp"
      BY <1>1, <1>6, LayoutFacts
    <2>2. 1 < Len(Layout(n)) /\ ~ 2 < Len(Layout(n)) /\ 1 + 1 = 2 /\ 1 \in Nat /\ 2 \in Nat
      BY <2>1
    <2>3. NextLine[p] = Place(n, 2)
      <3>0. n \in Nat BY <1>1
      <3>1. After[Place(n, 1)] = Place(n, 1 + 1) BY <2>2, <3>0, PlaceFacts, Zenon
      <3> QED BY <1>1, <2>1, <2>2, <3>1, LineFacts
    <2>4. NextLine[Place(n, 2)] = Place(n + 1, 1)
      <3>1. After[Place(n, 2)] = Place(n + 1, 1) BY <1>1, <2>2, PlaceFacts, Zenon
      <3> QED BY <1>1, <2>1, <2>2, <3>1, LineFacts
    <2>5. Beyond(p) = Place(n + 1, 1) BY <1>3, <1>6, <2>3, <2>4, Zenon DEF Beyond
    <2> QED BY <1>2, <1>4, <1>6, <2>5
  <1> QED BY <1>5, <1>6

(* The blank line behind a download. *)
LEMMA BlankRead ==
    ASSUME AnswerFirst, NEW n \in 1 .. Len(Firmware), Firmware[n] = "download",
           NEW p, p = Place(n, 6)
    PROVE  Kind(p) = "blank" /\ After[p] = Place(n + 1, 1)
  <1>1. n \in Nat \ {0} /\ 6 \in Nat BY FirmwareFacts
  <1>2. Len(Layout(n)) = 6 /\ Layout(n)[6] = "blank" BY <1>1, LayoutFacts
  <1>3. ~ 6 < Len(Layout(n)) BY <1>2
  <1> QED BY <1>1, <1>2, <1>3, PlaceFacts, Zenon

(* Where the reader stands between two commands a line is a piece. *)
LEMMA ReaderLine ==
    ASSUME AnswerFirst, TypeOK, ReadIsPrefix, ReaderInv, pc = "read",
           LineReadable(file, at)
    PROVE  Readable(file, at)
  <1>1. Len(fw) \in Nat BY DEF TypeOK, FlashTypes
  <1>2. CASE at = Place(Len(fw) + 1, 1)
    <2>1. PICK n \in Nat \ {0} : n = Len(fw) + 1 BY <1>1
    <2>2. Layout(n)[1] = "cmd" BY <2>1, LayoutFacts
    <2> QED BY <1>2, <2>1, <2>2, LineFacts
  <1>3. CASE fw # << >> /\ Firmware[Len(fw)] = "download" /\ at = Place(Len(fw), 6)
    <2>1. fw \in Seq(Commands) BY DEF TypeOK, FlashTypes
    <2>2. Len(fw) # 0 BY <1>3, <2>1, EmptySeq
    <2>3. Len(fw) <= Len(Firmware) BY DEF ReadIsPrefix
    <2>4. PICK n \in Nat \ {0} : n = Len(fw) /\ n \in 1 .. Len(Firmware)
      BY <1>1, <2>2, <2>3, FirmwareFacts
    <2>5. Layout(n)[6] = "blank" BY <1>3, <2>4, LayoutFacts
    <2> QED BY <1>3, <2>4, <2>5, LineFacts
  <1> QED BY <1>2, <1>3 DEF ReaderInv

LEMMA ParseReads ==
    ASSUME AnswerFirst, TypeOK, ReadIsPrefix, PlaceInv, ReaderInv, ParseCommand
    PROVE  /\ Len(fw) + 1 \in 1 .. Len(Firmware)
           /\ fw' = Append(fw, [type |-> Firmware[Len(fw) + 1], n |-> Len(fw) + 1])
           /\ fw' \in Seq(Commands) /\ Len(fw') = Len(fw) + 1
           /\ \A k \in 1 .. Len(fw) : fw'[k] = fw[k]
           /\ fw'[Len(fw) + 1] = [type |-> Firmware[Len(fw) + 1], n |-> Len(fw) + 1]
           /\ at' \in [n : 0 .. Len(Firmware) + 1, k : 1 .. 6]
           /\ \/ at' = Place(Len(fw) + 2, 1)
              \/ Firmware[Len(fw) + 1] = "download" /\ at' = Place(Len(fw) + 1, 6)
  <1>1. file \in Files /\ fw \in Seq(Commands) BY DEF TypeOK, FlashTypes
  <1>2. PICK n \in Nat : n = Len(fw) + 1 BY <1>1
  <1>3. pc = "read" /\ Readable(file, at) /\ Kind(at) # "blank" BY ReaderLine DEF ParseCommand
  <1>4. at = Place(n, 1)
    <2>1. CASE fw # << >> /\ Firmware[Len(fw)] = "download" /\ at = Place(Len(fw), 6)
      <3>1. Len(fw) # 0 BY <1>1, <2>1, EmptySeq
      <3>2. Len(fw) \in 1 .. Len(Firmware)
        <4>1. Len(fw) <= Len(Firmware) BY DEF ReadIsPrefix
        <4>2. Len(fw) \in Nat BY <1>1
        <4> QED BY <3>1, <4>1, <4>2, FirmwareFacts
      <3> QED BY <1>3, <2>1, <3>2, BlankRead
    <2> QED BY <1>2, <1>3, <2>1 DEF ReaderInv
  <1>5. n \in 1 .. Len(Firmware)
    <2>1. at.n = n BY <1>4 DEF Place
    <2>2. n <= Len(Firmware) BY <1>1, <1>3, <2>1, ReadableFacts
    <2> QED BY <1>1, <1>2, <2>2, FirmwareFacts
  <1>6. /\ Command(at) = [type |-> Firmware[n], n |-> n]
        /\ Beyond(at) = IF Firmware[n] = "download" THEN Place(n, 6) ELSE Place(n + 1, 1)
    BY <1>4, <1>5, CommandRead
  <1>7. fw' = Append(fw, [type |-> Firmware[n], n |-> n]) /\ at' = Beyond(at)
    BY <1>6 DEF ParseCommand
  <1>8. [type |-> Firmware[n], n |-> n] \in Commands BY <1>5, FirmwareFacts DEF Commands
  <1>9. /\ fw' \in Seq(Commands) /\ Len(fw') = n
        /\ \A k \in 1 .. Len(fw) : fw'[k] = fw[k]
        /\ fw'[n] = [type |-> Firmware[n], n |-> n]
    BY <1>1, <1>2, <1>7, <1>8
  <1>10. at' \in [n : 0 .. Len(Firmware) + 1, k : 1 .. 6]
    BY <1>5, <1>6, <1>7, FirmwareFacts DEF Place
  <1>11. n + 1 = Len(fw) + 2 BY <1>1, <1>2
  <1> QED BY <1>2, <1>5, <1>6, <1>7, <1>9, <1>10, <1>11

(* After the data of a download the blank line is passed. *)
LEMMA BlankReads ==
    ASSUME AnswerFirst, TypeOK, ReadIsPrefix, ReaderInv, ParseBlank
    PROVE  Len(fw) \in 1 .. Len(Firmware) /\ at' = Place(Len(fw) + 1, 1)
  <1>1. file \in Files /\ fw \in Seq(Commands) BY DEF TypeOK, FlashTypes
  <1>2. pc = "read" /\ Readable(file, at) /\ Kind(at) = "blank" /\ at' = After[at]
    BY ReaderLine DEF ParseBlank
  <1>3. Len(fw) \in Nat /\ Len(fw) <= Len(Firmware)
    <2>1. Len(fw) \in Nat BY <1>1
    <2>2. Len(fw) <= Len(Firmware) BY DEF ReadIsPrefix
    <2> QED BY <2>1, <2>2
  <1>4. at # Place(Len(fw) + 1, 1)
    <2> SUFFICES ASSUME at = Place(Len(fw) + 1, 1) PROVE FALSE
      OBVIOUS
    <2>1. PICK n \in Nat : n = Len(fw) + 1 BY <1>3
    <2>2. at.n = n BY <2>1 DEF Place
    <2>3. n <= Len(Firmware) BY <1>1, <1>2, <2>2, ReadableFacts
    <2>4. n \in 1 .. Len(Firmware) BY <1>3, <2>1, <2>3, FirmwareFacts
    <2> QED BY <1>2, <2>1, <2>4, CommandRead
  <1>5. fw # << >> /\ Firmware[Len(fw)] = "download" /\ at = Place(Len(fw), 6)
    BY <1>2, <1>4 DEF ReaderInv
  <1>6. Len(fw) # 0 BY <1>1, <1>5, EmptySeq
  <1>7. Len(fw) \in 1 .. Len(Firmware) BY <1>3, <1>6, FirmwareFacts
  <1> QED BY <1>2, <1>5, <1>7, BlankRead

LEMMA HeaderReads == ASSUME ParseHeader PROVE at' = Place(1, 1)
  <1>1. Len(Layout(0)) = 1 BY LayoutFacts
  <1>2. ~ 1 < Len(Layout(0))
    <2>1. ~ 1 < 1 OBVIOUS
    <2> QED BY <1>1, <2>1, Zenon
  <1>3. 0 + 1 = 1 /\ 0 \in Nat /\ 1 \in Nat OBVIOUS
  <1>4. After[Place(0, 1)] = Place(0 + 1, 1) BY <1>2, <1>3, PlaceFacts, Zenon
  <1> QED BY <1>3, <1>4, Zenon DEF ParseHeader, Start

-----------------------------------------------------------------------------
(* The answers on their way, the frame read and the slot. *)

LEMMA NothingFlies ==
    ASSUME DevTypes, FlashTypes, Flight({})
    PROVE  Silent /\ slot = "none"
  <1>1. toHost \in Seq(Answers) BY DEF DevTypes
  <1>2. DOMAIN toHost = 1 .. Len(toHost) /\ Len(toHost) \in Nat BY <1>1
  <1>3. Len(toHost) = 0 BY <1>2 DEF Flight
  <1>4. toHost = << >> BY <1>1, <1>3, EmptySeq
  <1> QED BY <1>4 DEF Flight, Silent, NoFrame

(* An answer that is not one of S is the very last. *)
LEMMA LastInSlot ==
    ASSUME NEW S, NEW answer, FlightTo(S, answer), slot \notin S \cup {"none"}
    PROVE  slot = answer /\ Silent
  BY DEF FlightTo, Silent

LEMMA SilentFlight ==
    ASSUME NEW S, Silent', slot' \in S \cup {"none"}
    PROVE  Flight(S)'
  BY DEF Silent, Flight

LEMMA SlotCleared ==
    ASSUME NEW S, Flight(S), UNCHANGED <<toHost, rx>>, slot' = "none" \/ slot' = slot
    PROVE  Flight(S)'
  BY DEF Flight

LEMMA AnswerAdded ==
    ASSUME DevTypes, NEW S, Flight(S), UNCHANGED <<slot, rx>>,
           NEW answer \in Answers, toHost' = Append(toHost, answer)
    PROVE  FlightTo(S, answer)' /\ (answer \in S => Flight(S)')
  <1>1. toHost \in Seq(Answers) BY DEF DevTypes
  <1>2. /\ Len(toHost) \in Nat /\ Len(toHost') = Len(toHost) + 1
        /\ DOMAIN toHost = 1 .. Len(toHost) /\ DOMAIN toHost' = 1 .. Len(toHost) + 1
        /\ \A k \in 1 .. Len(toHost) : toHost'[k] = toHost[k]
        /\ toHost'[Len(toHost) + 1] = answer
        /\ toHost' # << >>
    BY <1>1
  <1>3. \A k \in 1 .. Len(toHost) : toHost[k] \in S BY <1>2 DEF Flight
  <1>4. rx \in S \cup {NoFrame} /\ slot \in S \cup {"none"} BY DEF Flight
  <1>5. FlightTo(S, answer)'
    <2>1. Len(toHost') - 1 = Len(toHost) BY <1>2
    <2> QED BY <1>2, <1>3, <1>4, <2>1 DEF FlightTo
  <1>6. ASSUME answer \in S PROVE Flight(S)'
    <2>1. ASSUME NEW k \in 1 .. Len(toHost) + 1 PROVE toHost'[k] \in S
      <3>1. k \in 1 .. Len(toHost) \/ k = Len(toHost) + 1 BY <1>2
      <3> QED BY <1>2, <1>3, <1>6, <3>1
    <2> QED BY <1>2, <1>4, <2>1 DEF Flight
  <1> QED BY <1>5, <1>6

LEMMA ReceiveKeeps ==
    ASSUME DevTypes, FlashTypes, RxStep, NEW S, NEW answer
    PROVE  (Flight(S) => Flight(S)') /\ (FlightTo(S, answer) => FlightTo(S, answer)')
  <1>1. toHost \in Seq(Answers) BY DEF DevTypes
  <1>2. CASE RxRead
    <2>1. /\ rx = NoFrame /\ toHost # << >> /\ rx' = Head(toHost) /\ toHost' = Tail(toHost)
          /\ slot' = slot
      BY <1>2 DEF RxRead
    <2>2. /\ Len(toHost) \in Nat /\ Len(toHost) # 0
          /\ DOMAIN toHost = 1 .. Len(toHost) /\ Head(toHost) = toHost[1]
      BY <1>1, <2>1, EmptySeq
    <2>3. /\ Tail(toHost) \in Seq(Answers)
          /\ Len(Tail(toHost)) = Len(toHost) - 1 /\ DOMAIN Tail(toHost) = 1 .. Len(toHost) - 1
          /\ \A k \in 1 .. Len(toHost) - 1 : Tail(toHost)[k] = toHost[k + 1]
      BY <1>1, <2>1
    <2>4. ASSUME Flight(S) PROVE Flight(S)'
      <3>1. \A k \in DOMAIN toHost' : toHost'[k] \in S BY <2>1, <2>2, <2>3, <2>4 DEF Flight
      <3>2. rx' \in S BY <2>1, <2>2, <2>4 DEF Flight
      <3> QED BY <2>1, <2>4, <3>1, <3>2 DEF Flight
    <2>5. ASSUME FlightTo(S, answer) PROVE FlightTo(S, answer)'
      <3>1. /\ toHost[Len(toHost)] = answer /\ slot \in S \cup {"none"}
            /\ \A k \in 1 .. Len(toHost) - 1 : toHost[k] \in S
        BY <2>1, <2>5 DEF FlightTo
      <3>2. CASE Len(toHost) = 1
        <4>1. Tail(toHost) = << >> BY <2>3, <3>2, EmptySeq
        <4> QED BY <2>1, <2>2, <3>1, <3>2, <4>1 DEF FlightTo
      <3>3. CASE Len(toHost) # 1
        <4>1. Tail(toHost) # << >>
          <5>1. Len(Tail(toHost)) # 0 BY <2>2, <2>3, <3>3
          <5> QED BY <5>1, EmptySeq
        <4>2. Tail(toHost)[Len(Tail(toHost))] = answer BY <2>2, <2>3, <3>1, <3>3
        <4>3. \A k \in 1 .. Len(Tail(toHost)) - 1 : Tail(toHost)[k] \in S
          BY <2>2, <2>3, <3>1, <3>3
        <4>4. rx' \in S BY <2>1, <2>2, <3>1, <3>3
        <4> QED BY <2>1, <3>1, <4>1, <4>2, <4>3, <4>4 DEF FlightTo
      <3> QED BY <3>2, <3>3
    <2> QED BY <2>4, <2>5
  <1>3. CASE RxProcess
    <2>1. rx # NoFrame /\ rx' = NoFrame /\ slot' = rx /\ toHost' = toHost
      BY <1>3 DEF RxProcess, devVars
    <2> QED BY <2>1 DEF Flight, FlightTo
  <1> QED BY <1>2, <1>3 DEF RxStep

-----------------------------------------------------------------------------
(* The requests on their way, and what the device has taken up. *)

LEMMA UptoFacts ==
    ASSUME NEW m \in Nat
    PROVE  /\ Upto(0) = << >>
           /\ Upto(m) \in Seq(Nat) /\ Append(Upto(m), m + 1) = Upto(m + 1)
  <1>1. Upto(m) \in Seq(Nat) /\ Len(Upto(m)) = m BY DEF Upto
  <1>2. Upto(m + 1) \in Seq(Nat) /\ Len(Upto(m + 1)) = m + 1 BY DEF Upto
  <1>3. Append(Upto(m), m + 1) \in Seq(Nat) /\ Len(Append(Upto(m), m + 1)) = m + 1 BY <1>1
  <1>4. ASSUME NEW k \in 1 .. m + 1 PROVE Append(Upto(m), m + 1)[k] = Upto(m + 1)[k]
    <2>1. CASE k = m + 1 BY <1>1, <2>1 DEF Upto
    <2>2. CASE k # m + 1
      <3>1. k \in 1 .. m BY <2>2
      <3> QED BY <1>1, <3>1 DEF Upto
    <2> QED BY <2>1, <2>2
  <1>5. Append(Upto(m), m + 1) = Upto(m + 1) BY <1>2, <1>3, <1>4, SeqEqual
  <1>6. Upto(0) = << >>
    <2>1. Upto(0) \in Seq(Nat) /\ Len(Upto(0)) = 0 BY DEF Upto
    <2> QED BY <2>1, EmptySeq
  <1> QED BY <1>1, <1>5, <1>6

LEMMA OneRequest ==
    ASSUME NEW what, NEW n, Pending(what, n)
    PROVE  /\ toDev # << >> /\ Tail(toDev) = << >> /\ Len(toDev) = 1
           /\ request.what = what /\ request.n = n
  BY DEF Pending, request

LEMMA FirstRequest ==
    ASSUME NEW what, NEW n, toDev = << >>, toDev' = Append(toDev, [what |-> what, n |-> n])
    PROVE  Pending(what, n)'
  BY DEF Pending

-----------------------------------------------------------------------------
(* Types. *)

LEMMA FlashKeepsHubTypes ==
    ASSUME TypeOK, FlashStep
    PROVE  HubTypes'
  <1>1. /\ say' \in {say, [say EXCEPT !["flash"] = "log"], [say EXCEPT !["flash"] = "status"]}
        /\ UNCHANGED <<hubVars, webVars>>
    BY DEF FlashStep, Open, OpenFails, Hello, ParseHeader, ParseBlank, ParseCommand, ParseEnd,
       ParseFails, SendCommand, SendReboot, SendAgain, SendData, Answered, GiveUp, Close,
       Goto, Fail, Request, NextCommand, Complete
  <1>2. say' \in [Speakers -> {"none", "log", "status"}]
    BY <1>1 DEF TypeOK, HubTypes, Speakers
  <1> QED BY <1>1, <1>2 DEF TypeOK, HubTypes, hubVars, webVars

LEMMA FlashKeepsDevTypes ==
    ASSUME TypeOK, PlaceInv, FlashStep
    PROVE  DevTypes'
  <1>1. \/ UNCHANGED devVars
        \/ /\ UNCHANGED <<dev, toHost, met, taken>>
           /\ \/ \E what \in {"hello", "reboot"} : Request(what, 0)
              \/ \E k \in 1 .. Len(fw) : Request(fw[k].type, fw[k].n)
              \/ \E k \in 1 .. Len(fw), what \in {"download", "data"} : Request(what, fw[k].n)
    <2>1. CASE SendCommand
      <3>1. Request(fw[i].type, fw[i].n) /\ i \in 1 .. Len(fw)
        BY <2>1 DEF SendCommand, PlaceInv, TypeOK, FlashTypes
      <3> QED BY <3>1, Zenon DEF Request
    <2>2. CASE SendAgain
      <3>1. Request("download", fw[i].n) /\ i \in 1 .. Len(fw)
        BY <2>2 DEF SendAgain, PlaceInv, AtDownload
      <3> QED BY <3>1, Zenon DEF Request
    <2>3. CASE SendData
      <3>1. Request("data", fw[i].n) /\ i \in 1 .. Len(fw)
        BY <2>3 DEF SendData, PlaceInv, AtDownload
      <3> QED BY <3>1, Zenon DEF Request
    <2> QED
      BY <2>1, <2>2, <2>3, Zenon DEF FlashStep, Open, OpenFails, Hello, ParseHeader, ParseBlank,
         ParseCommand, ParseEnd, ParseFails, SendReboot, Answered, GiveUp, Close, Request
  <1>2. toDev' \in Seq(Requests)
    <2>0. toDev \in Seq(Requests) /\ fw \in Seq(Commands) BY DEF TypeOK, DevTypes, FlashTypes
    <2>1. ASSUME NEW what \in {"hello", "reboot"}, Request(what, 0) PROVE toDev' \in Seq(Requests)
      <3>1. [what |-> what, n |-> 0] \in Requests BY FirmwareFacts DEF Requests
      <3> QED BY <2>0, <2>1, <3>1 DEF Request
    <2>2. ASSUME NEW k \in 1 .. Len(fw), NEW what \in Types \cup {"data"}, Request(what, fw[k].n)
          PROVE  toDev' \in Seq(Requests)
      <3>1. fw[k] \in Commands BY <2>0
      <3>2. [what |-> what, n |-> fw[k].n] \in Requests
        BY <3>1, FirmwareFacts DEF Requests, Commands
      <3> QED BY <2>0, <2>2, <3>2 DEF Request
    <2>3. ASSUME NEW k \in 1 .. Len(fw), Request(fw[k].type, fw[k].n)
          PROVE  toDev' \in Seq(Requests)
      <3>1. fw[k] \in Commands BY <2>0
      <3>2. fw[k].type \in Types BY <3>1 DEF Commands
      <3> QED BY <2>2, <2>3, <3>2
    <2>4. "download" \in Types BY DEF Types
    <2> QED BY <1>1, <2>0, <2>1, <2>2, <2>3, <2>4, Zenon DEF devVars
  <1>3. skipped' \in BOOLEAN /\ trouble' \in BOOLEAN /\ twice' \in BOOLEAN
    <2>1. skipped' \in {skipped, TRUE} /\ trouble' \in {trouble, TRUE} /\ twice' = twice
      BY DEF FlashStep, Open, OpenFails, Hello, ParseHeader, ParseBlank, ParseCommand, ParseEnd,
         ParseFails, SendCommand, SendReboot, SendAgain, SendData, Answered, GiveUp, Close, Request
    <2> QED BY <2>1 DEF TypeOK, DevTypes
  <1>4. UNCHANGED <<dev, toHost, met, taken>> BY <1>1 DEF devVars
  <1> QED BY <1>2, <1>3, <1>4 DEF TypeOK, DevTypes

LEMMA FlashKeepsFlashTypes ==
    ASSUME WebInv, FlashStep
    PROVE  FlashTypes'
  <1>1. FlashTypes /\ Len(fw) \in Nat /\ fw \in Seq(Commands)
    BY DEF WebInv, TypeOK, FlashTypes
  <1>2. ASSUME UNCHANGED <<readVars, rx>>, i' = i \/ (i' = i + 1 /\ i <= Len(fw)),
               slot' \in {slot, "none"}, ask' \in {"hello", "command", "again", "data", "reboot"},
               reported' \in {reported, "completed", "error"},
               pc' \in {"hello", "parse", "command", "again", "data", "wait", "report", "done"}
        PROVE  FlashTypes'
    BY <1>1, <1>2 DEF FlashTypes, readVars
  <1>3. CASE ParseHeader
    <2>1. at' = Place(1, 1) BY <1>3, HeaderReads
    <2>2. at' \in [n : 0 .. Len(Firmware) + 1, k : 1 .. 6] BY <2>1, FirmwareFacts DEF Place
    <2> QED BY <1>1, <1>3, <2>2 DEF FlashTypes, ParseHeader
  <1>4. CASE ParseBlank
    <2>1. Len(fw) \in 1 .. Len(Firmware) /\ at' = Place(Len(fw) + 1, 1)
      BY <1>4, BlankReads DEF WebInv, FlowInv
    <2>2. at' \in [n : 0 .. Len(Firmware) + 1, k : 1 .. 6] BY <2>1, FirmwareFacts DEF Place
    <2> QED BY <1>1, <1>4, <2>2 DEF FlashTypes, ParseBlank
  <1>5. CASE ParseCommand
    <2>1. /\ fw' \in Seq(Commands) /\ Len(fw') = Len(fw) + 1
          /\ at' \in [n : 0 .. Len(Firmware) + 1, k : 1 .. 6]
      BY <1>5, ParseReads DEF WebInv, FlowInv
    <2>2. UNCHANGED <<pc, i, ask, file, slot, rx, reported>> BY <1>5 DEF ParseCommand
    <2>3. i' \in 0 .. Len(fw') + 1 BY <1>1, <2>1, <2>2 DEF FlashTypes
    <2> QED BY <1>1, <2>1, <2>2, <2>3 DEF FlashTypes
  <1>6. ASSUME file' = NoFile, at' = Start
        PROVE  file' \in Files /\ at' \in [n : 0 .. Len(Firmware) + 1, k : 1 .. 6]
    BY <1>6, FileFacts, FirmwareFacts DEF Start, Place
  <1>7. CASE ParseEnd
    <2>1. /\ file' \in Files /\ at' \in [n : 0 .. Len(Firmware) + 1, k : 1 .. 6]
      BY <1>6, <1>7 DEF ParseEnd
    <2>2. /\ pc' = "command" /\ i' = 1 /\ ask' = ask /\ fw' = fw /\ slot' = slot /\ rx' = rx
          /\ reported' = reported
      BY <1>7 DEF ParseEnd, Goto
    <2> QED BY <1>1, <2>1, <2>2 DEF FlashTypes
  <1>8. CASE ParseFails
    <2>1. /\ file' \in Files /\ at' \in [n : 0 .. Len(Firmware) + 1, k : 1 .. 6]
      BY <1>6, <1>8 DEF ParseFails
    <2>2. /\ pc' = "report" /\ i' = i /\ ask' = ask /\ fw' = << >> /\ slot' = slot /\ rx' = rx
          /\ reported' = "error" /\ pc \in {"parse", "read"}
      BY <1>8 DEF ParseFails, Fail
    <2>3. i = 0 BY <2>2 DEF WebInv, FlowInv, PlaceInv, Before
    <2> QED BY <1>1, <2>1, <2>2, <2>3 DEF FlashTypes
  <1>9. CASE Open \/ OpenFails \/ Hello \/ Close
    BY <1>1, <1>2, <1>9 DEF Open, OpenFails, Hello, Close, Goto, Fail, Request, FlashTypes
  <1>10. CASE SendCommand \/ SendReboot \/ SendAgain \/ SendData
    BY <1>1, <1>2, <1>10 DEF SendCommand, SendReboot, SendAgain, SendData, Request, FlashTypes
  <1>11. ASSUME AtCommand \/ AtDownload PROVE i <= Len(fw)
    BY <1>1, <1>11 DEF WebInv, FlowInv, PlaceInv, AtCommand, AtDownload
  <1>12. CASE Answered
    <2>1. /\ UNCHANGED <<ask, readVars, slot, rx>> /\ pc = "wait"
          /\ \/ i' = i
             \/ i' = i + 1 /\ ask \in {"command", "data"}
          /\ reported' \in {reported, "completed", "error"}
          /\ pc' \in {"hello", "parse", "command", "again", "data", "wait", "report", "done"}
      BY <1>12 DEF Answered, Goto, NextCommand, Fail, Complete
    <2> QED BY <1>1, <1>2, <1>11, <2>1 DEF FlashTypes, AtCommand, AtDownload
  <1>13. CASE GiveUp
    <2>1. /\ UNCHANGED <<ask, readVars, slot, rx>> /\ pc = "wait"
          /\ \/ i' = i
             \/ i' = i + 1 /\ ask \in {"command", "data"}
          /\ reported' \in {reported, "completed", "error"}
          /\ pc' \in {"hello", "parse", "command", "again", "data", "wait", "report", "done"}
      BY <1>13 DEF GiveUp, Goto, NextCommand, Fail, Complete
    <2> QED BY <1>1, <1>2, <1>11, <2>1 DEF FlashTypes, AtCommand, AtDownload
  <1> QED
    BY <1>3, <1>4, <1>5, <1>7, <1>8, <1>9, <1>10, <1>12, <1>13 DEF FlashStep

-----------------------------------------------------------------------------
(* The steps of runFlash. *)

LEMMA FlashTyped ==
    ASSUME WebInv
    PROVE  /\ DevTypes /\ FlashTypes /\ fw \in Seq(Commands) /\ Len(fw) \in Nat /\ i \in Nat
           /\ i <= Len(fw) + 1
           /\ \A k \in 1 .. Len(fw) : fw[k].n = k /\ fw[k].type = Firmware[k] /\ fw[k].type \in Types
  <1>1. DevTypes /\ FlashTypes /\ fw \in Seq(Commands) BY DEF WebInv, TypeOK, FlashTypes
  <1>2. Len(fw) \in Nat BY <1>1
  <1>3. i \in Nat /\ i <= Len(fw) + 1 BY <1>1, <1>2 DEF FlashTypes
  <1>4. ASSUME NEW k \in 1 .. Len(fw)
        PROVE  fw[k].n = k /\ fw[k].type = Firmware[k] /\ fw[k].type \in Types
    <2>1. fw[k] \in Commands BY <1>1
    <2>2. fw[k].type \in Types BY <2>1 DEF Commands
    <2>3. fw[k] = [type |-> Firmware[k], n |-> k] BY DEF WebInv, FlowInv, ReadIsPrefix
    <2> QED BY <2>2, <2>3
  <1> QED BY <1>1, <1>2, <1>3, <1>4

LEMMA FailKeeps ==
    ASSUME WebInv, Fail, trouble' \/ twice', skipped' => trouble', fw' = fw \/ fw' = << >>
    PROVE  FlowInv'
  <1>1. pc' = "report" /\ reported' = "error" BY DEF Fail
  <1>2. ReadIsPrefix'
    <2>1. CASE fw' = fw BY <2>1 DEF WebInv, FlowInv, ReadIsPrefix
    <2>2. CASE fw' = << >>
      <3>1. Len(fw') = 0 BY <2>2
      <3> QED BY <3>1, FirmwareFacts DEF ReadIsPrefix
    <2> QED BY <2>1, <2>2
  <1>3. PlaceInv' /\ ReaderInv' /\ HelloInv'
    BY <1>1 DEF PlaceInv, ReaderInv, HelloInv, Before, AtCommand, AtDownload, AtHello, AtReboot
  <1>4. InStep' /\ OutOfStep' /\ DownloadInv'
    BY <1>1 DEF InStep, OutOfStep, DownloadInv, AtCommand, AtDownload, AtReboot
  <1>5. TakenInv' /\ ErrorHasCause' /\ SkipHasCause'
    BY <1>1 DEF TakenInv, ErrorHasCause, SkipHasCause
  <1> QED BY <1>2, <1>3, <1>4, <1>5 DEF FlowInv

LEMMA OpenKeeps ==
    ASSUME WebInv, Open
    PROVE  FlowInv'
  <1>1. /\ pc = "open" /\ pc' = "hello"
        /\ UNCHANGED <<i, ask, readVars, reported, slot, rx, devVars, skipped, trouble, twice>>
    BY DEF Open, Goto
  <1>2. ReadIsPrefix' BY <1>1 DEF WebInv, FlowInv, ReadIsPrefix, readVars
  <1>3. PlaceInv' /\ ReaderInv'
    BY <1>1 DEF WebInv, FlowInv, PlaceInv, ReaderInv, Before, AtCommand, AtDownload, AtHello,
       AtReboot, readVars, devVars
  <1>4. HelloInv' BY <1>1 DEF WebInv, FlowInv, HelloInv, AtHello, Flight, devVars
  <1>5. InStep' /\ OutOfStep' /\ DownloadInv'
    BY <1>1 DEF WebInv, FlowInv, PlaceInv, InStep, OutOfStep, DownloadInv, AtCommand, AtDownload,
       AtReboot
  <1>6. TakenInv' /\ ErrorHasCause' /\ SkipHasCause'
    BY <1>1 DEF WebInv, FlowInv, PlaceInv, TakenInv, ErrorHasCause, SkipHasCause, readVars, devVars
  <1> QED BY <1>2, <1>3, <1>4, <1>5, <1>6 DEF FlowInv

LEMMA HelloKeeps ==
    ASSUME WebInv, Hello
    PROVE  FlowInv'
  <1>1. /\ pc = "hello" /\ pc' = "wait" /\ ask' = "hello"
        /\ toDev' = Append(toDev, [what |-> "hello", n |-> 0])
        /\ UNCHANGED <<i, readVars, reported, slot, rx, dev, toHost, met, taken, skipped, trouble, twice>>
    BY DEF Hello, Request
  <1>2. ReadIsPrefix' BY <1>1 DEF WebInv, FlowInv, ReadIsPrefix, readVars
  <1>3. PlaceInv' /\ ReaderInv'
    BY <1>1 DEF WebInv, FlowInv, PlaceInv, ReaderInv, Before, AtCommand, AtDownload, AtHello,
       AtReboot, readVars
  <1>4. HelloInv'
    <2>1. toDev = << >> /\ Flight(LeftOver) BY <1>1 DEF WebInv, FlowInv, HelloInv
    <2>2. Pending("hello", 0)' BY <1>1, <2>1, FirstRequest
    <2>3. Flight(LeftOver)' BY <1>1, <2>1, SlotCleared
    <2> QED BY <1>1, <2>2, <2>3 DEF HelloInv, AtHello
  <1>5. InStep' /\ OutOfStep' /\ DownloadInv'
    BY <1>1 DEF WebInv, FlowInv, PlaceInv, InStep, OutOfStep, DownloadInv, AtCommand, AtDownload,
       AtReboot
  <1>6. TakenInv' /\ ErrorHasCause' /\ SkipHasCause'
    BY <1>1 DEF WebInv, FlowInv, PlaceInv, TakenInv, ErrorHasCause, SkipHasCause, readVars
  <1> QED BY <1>2, <1>3, <1>4, <1>5, <1>6 DEF FlowInv

(* The reader goes on: nothing but what is read changes. *)
LEMMA ReaderKeeps ==
    ASSUME WebInv, pc \in {"parse", "read"}, pc' = "read", ReadIsPrefix', ReaderInv',
           UNCHANGED <<i, ask, reported, slot, rx, devVars, skipped, trouble, twice>>
    PROVE  FlowInv'
  <1>1. i = 0 /\ i' = 0 BY DEF WebInv, FlowInv, PlaceInv, Before
  <1>2. PlaceInv'
    BY DEF WebInv, FlowInv, PlaceInv, Before, AtCommand, AtDownload, AtHello, AtReboot, devVars
  <1>3. HelloInv' BY DEF WebInv, FlowInv, HelloInv, AtHello, Silent, devVars
  <1>4. InStep' /\ OutOfStep' /\ DownloadInv'
    BY DEF WebInv, FlowInv, PlaceInv, InStep, OutOfStep, DownloadInv, AtCommand, AtDownload,
       AtReboot
  <1>5. TakenInv'
    <2>1. \A k \in 1 .. Len(fw') : ~ k < i' BY <1>1
    <2> QED BY <2>1 DEF TakenInv
  <1>6. ErrorHasCause' /\ SkipHasCause'
    BY DEF WebInv, FlowInv, ErrorHasCause, SkipHasCause
  <1> QED BY <1>2, <1>3, <1>4, <1>5, <1>6 DEF FlowInv

LEMMA ParseKeeps ==
    ASSUME WebInv, ParseHeader \/ ParseBlank \/ ParseCommand
    PROVE  FlowInv'
  <1>1. /\ pc \in {"parse", "read"} /\ pc' = "read"
        /\ UNCHANGED <<i, ask, reported, slot, rx, devVars, skipped, trouble, twice>>
    BY DEF ParseHeader, ParseBlank, ParseCommand
  <1>2. AnswerFirst /\ TypeOK /\ ReadIsPrefix /\ PlaceInv /\ ReaderInv BY DEF WebInv, FlowInv
  <1>3. ReadIsPrefix' /\ ReaderInv'
    <2>1. CASE ParseHeader
      <3>1. fw = << >> /\ fw' = fw /\ Len(fw') = 0
        BY <2>1 DEF ParseHeader, WebInv, FlowInv, PlaceInv
      <3>2. at' = Place(1, 1) BY <2>1, HeaderReads
      <3> QED BY <1>2, <3>1, <3>2 DEF ReadIsPrefix, ReaderInv
    <2>2. CASE ParseBlank
      <3>1. fw' = fw BY <2>2 DEF ParseBlank
      <3>2. at' = Place(Len(fw) + 1, 1) BY <1>2, <2>2, BlankReads
      <3> QED BY <1>2, <3>1, <3>2 DEF ReadIsPrefix, ReaderInv
    <2>3. CASE ParseCommand
      <3>1. /\ Len(fw) + 1 \in 1 .. Len(Firmware) /\ Len(fw') = Len(fw) + 1
            /\ \A k \in 1 .. Len(fw) : fw'[k] = fw[k]
            /\ fw'[Len(fw) + 1] = [type |-> Firmware[Len(fw) + 1], n |-> Len(fw) + 1]
            /\ \/ at' = Place(Len(fw) + 2, 1)
               \/ Firmware[Len(fw) + 1] = "download" /\ at' = Place(Len(fw) + 1, 6)
        BY <1>2, <2>3, ParseReads
      <3>2. PICK m \in Nat : m = Len(fw) BY FlashTyped
      <3>3. ReadIsPrefix'
        <4>1. \A k \in 1 .. m : fw[k] = [type |-> Firmware[k], n |-> k]
          BY <1>2, <3>2 DEF ReadIsPrefix
        <4>2. ASSUME NEW k \in 1 .. m + 1 PROVE fw'[k] = [type |-> Firmware[k], n |-> k]
          <5>1. k \in 1 .. m \/ k = m + 1 BY <3>2
          <5> QED BY <3>1, <3>2, <4>1, <5>1
        <4>3. m + 1 <= Len(Firmware) BY <3>1, <3>2, FirmwareFacts
        <4> QED BY <3>1, <3>2, <4>2, <4>3 DEF ReadIsPrefix
      <3>4. ReaderInv'
        <4>1. fw' # << >> /\ Len(fw') + 1 = Len(fw) + 2 BY <3>1, <3>2
        <4> QED BY <3>1, <4>1 DEF ReaderInv
      <3> QED BY <3>3, <3>4
    <2> QED BY <2>1, <2>2, <2>3
  <1> QED BY <1>1, <1>3, ReaderKeeps

LEMMA ParseEndKeeps ==
    ASSUME WebInv, ParseEnd
    PROVE  FlowInv'
  <1>1. /\ pc = "read" /\ pc' = "command" /\ i' = 1
        /\ UNCHANGED <<ask, fw, reported, slot, rx, devVars, skipped, trouble, twice>>
    BY DEF ParseEnd, Goto
  <1>2. /\ ~ skipped /\ met = << >> /\ reported = "none"
        /\ toDev = << >> /\ Silent /\ dev = Idle
    BY <1>1 DEF WebInv, FlowInv, PlaceInv, HelloInv, Before
  <1>3. ReadIsPrefix' BY <1>1 DEF WebInv, FlowInv, ReadIsPrefix
  <1>4. PlaceInv' /\ ReaderInv' /\ HelloInv'
    BY <1>1, <1>2 DEF PlaceInv, ReaderInv, HelloInv, Before, AtCommand, AtDownload, AtHello, AtReboot
  <1>5. InStep'
    <2>1. 1 - 1 = 0 OBVIOUS
    <2>2. Upto(i' - 1) = << >> BY <1>1, <2>1, UptoFacts
    <2> QED
      BY <1>1, <1>2, <2>2 DEF InStep, AtCommand, AtDownload, AtReboot, Silent, devVars
  <1>6. OutOfStep' /\ DownloadInv'
    BY <1>1, <1>2 DEF OutOfStep, DownloadInv, AtCommand, AtDownload, devVars
  <1>7. TakenInv'
    <2>1. \A k \in 1 .. Len(fw') : ~ k < i' BY <1>1
    <2> QED BY <2>1 DEF TakenInv
  <1>8. ErrorHasCause' /\ SkipHasCause'
    BY <1>1, <1>2 DEF ErrorHasCause, SkipHasCause
  <1> QED BY <1>3, <1>4, <1>5, <1>6, <1>7, <1>8 DEF FlowInv

(* A command goes out and its place among those sent is that of the file. *)
LEMMA SendKeeps ==
    ASSUME WebInv, SendCommand \/ SendReboot \/ SendAgain \/ SendData
    PROVE  /\ pc' = "wait" /\ slot' = "none"
           /\ UNCHANGED <<i, readVars, reported, rx, dev, toHost, met, taken, skipped, trouble, twice>>
           /\ ReadIsPrefix' /\ ReaderInv' /\ TakenInv' /\ ErrorHasCause' /\ SkipHasCause'
           /\ \A S : Flight(S) => Flight(S)'
           /\ \A S : Silent => Flight(S)'
  <1>1. /\ pc' = "wait" /\ slot' = "none"
        /\ UNCHANGED <<i, readVars, reported, rx, dev, toHost, met, taken, skipped, trouble, twice>>
    BY DEF SendCommand, SendReboot, SendAgain, SendData, Request
  <1>2. ReadIsPrefix' /\ ReaderInv'
    BY <1>1 DEF WebInv, FlowInv, ReadIsPrefix, ReaderInv, readVars
  <1>3. TakenInv' /\ ErrorHasCause' /\ SkipHasCause'
    BY <1>1 DEF WebInv, FlowInv, TakenInv, ErrorHasCause, SkipHasCause, readVars
  <1>4. ASSUME NEW S, Flight(S) PROVE Flight(S)'
    BY <1>1, <1>4, SlotCleared
  <1>5. ASSUME NEW S, Silent PROVE Flight(S)'
    <2>1. Silent' /\ slot' \in S \cup {"none"} BY <1>1, <1>5 DEF Silent
    <2> QED BY <2>1, SilentFlight
  <1> QED BY <1>1, <1>2, <1>3, <1>4, <1>5

LEMMA SendCommandKeeps ==
    ASSUME WebInv, SendCommand
    PROVE  FlowInv'
  <1>1. /\ pc = "command" /\ i <= Len(fw) /\ ask' = "command"
        /\ toDev' = Append(toDev, [what |-> fw[i].type, n |-> fw[i].n])
    BY DEF SendCommand, Request
  <1>2. /\ pc' = "wait" /\ slot' = "none" /\ i' = i /\ fw' = fw /\ reported' = reported
        /\ dev' = dev /\ met' = met /\ skipped' = skipped /\ toHost' = toHost /\ rx' = rx
    BY SendKeeps DEF readVars
  <1>3. i > 0 /\ reported = "none" /\ dev = Idle
    BY <1>1 DEF WebInv, FlowInv, PlaceInv, DownloadInv
  <1>4. i \in 1 .. Len(fw) /\ fw[i].n = i /\ fw[i].type \in Types
    BY <1>1, <1>3, FlashTyped
  <1>5. PlaceInv' /\ HelloInv'
    BY <1>2, <1>1, <1>3, <1>4 DEF PlaceInv, HelloInv, Before, AtCommand, AtDownload, AtHello, AtReboot
  <1>6. InStep'
    <2> SUFFICES ASSUME ~ skipped
                 PROVE  Pending(fw[i].type, i)' /\ Flight({})' /\ dev = Idle /\ met = Upto(i - 1)
      BY <1>1, <1>2, <1>3 DEF InStep, AtCommand, AtDownload, AtReboot
    <2>1. toDev = << >> /\ Silent /\ met = Upto(i - 1)
      BY <1>1 DEF WebInv, FlowInv, InStep
    <2>2. Pending(fw[i].type, i)' BY <1>1, <1>2, <1>4, <2>1 DEF Pending
    <2> QED BY <1>3, <2>1, <2>2, SendKeeps
  <1>7. OutOfStep'
    <2> SUFFICES ASSUME skipped
                 PROVE  /\ fw[i].type # "download" =>
                             Flight(Late)' /\ \A k \in DOMAIN toDev' : toDev'[k].what \in Plain
                        /\ fw[i].type = "download" =>
                             /\ toDev' # << >>
                             /\ toDev'[Len(toDev')] = [what |-> "download", n |-> i]
                             /\ \A k \in 1 .. Len(toDev') - 1 : toDev'[k].what \in Plain
                             /\ Flight(Late)' /\ dev = Idle
      BY <1>1, <1>2 DEF OutOfStep, AtCommand, AtDownload, AtReboot
    <2>1. /\ \A k \in DOMAIN toDev : toDev[k].what \in Plain
          /\ \A k \in DOMAIN toHost : toHost[k] \in Late
          /\ rx \in Late \cup {NoFrame}
      BY <1>1 DEF WebInv, FlowInv, OutOfStep
    <2>2. Flight(Late)' BY <1>2, <2>1 DEF Flight
    <2>3. PICK m \in Nat :
            /\ m = Len(toDev) /\ DOMAIN toDev = 1 .. m /\ Len(toDev') = m + 1
            /\ DOMAIN toDev' = 1 .. m + 1 /\ toDev' # << >>
            /\ \A k \in 1 .. m : toDev'[k] = toDev[k]
            /\ toDev'[m + 1] = [what |-> fw[i].type, n |-> fw[i].n]
      <3>1. toDev \in Seq(Requests) BY FlashTyped DEF DevTypes
      <3> QED BY <1>1, <3>1
    <2>4. \A k \in 1 .. m : toDev'[k].what \in Plain BY <2>1, <2>3
    <2>5. ASSUME fw[i].type # "download", NEW k \in 1 .. m + 1 PROVE toDev'[k].what \in Plain
      <3>1. k \in 1 .. m \/ k = m + 1 BY <2>3
      <3>2. toDev'[m + 1].what \in Plain BY <1>4, <2>3, <2>5 DEF Plain
      <3> QED BY <2>4, <3>1, <3>2
    <2>6. Len(toDev') - 1 = m BY <2>3
    <2> QED BY <1>3, <1>4, <2>2, <2>3, <2>4, <2>5, <2>6
  <1>8. DownloadInv'
    BY <1>1, <1>2, <1>3 DEF DownloadInv, AtCommand, AtDownload
  <1> QED BY <1>5, <1>6, <1>7, <1>8, SendKeeps DEF FlowInv

LEMMA SendRebootKeeps ==
    ASSUME WebInv, SendReboot
    PROVE  FlowInv'
  <1>1. /\ pc = "command" /\ i > Len(fw) /\ ask' = "reboot"
        /\ toDev' = Append(toDev, [what |-> "reboot", n |-> 0])
    BY DEF SendReboot, Request
  <1>2. /\ pc' = "wait" /\ slot' = "none" /\ i' = i /\ fw' = fw /\ reported' = reported
        /\ dev' = dev /\ met' = met /\ skipped' = skipped /\ toHost' = toHost /\ rx' = rx
    BY SendKeeps DEF readVars
  <1>3. reported = "none" BY <1>1 DEF WebInv, FlowInv, PlaceInv
  <1>4. i = Len(fw) + 1 /\ i - 1 = Len(fw) BY <1>1, FlashTyped
  <1>5. PlaceInv' /\ HelloInv'
    BY <1>2, <1>1, <1>3, <1>4 DEF PlaceInv, HelloInv, Before, AtCommand, AtDownload, AtHello, AtReboot
  <1>6. InStep'
    <2> SUFFICES ASSUME ~ skipped PROVE Pending("reboot", 0)' /\ met = Upto(Len(fw))
      BY <1>1, <1>2, <1>3 DEF InStep, AtCommand, AtDownload, AtReboot
    <2>1. toDev = << >> /\ met = Upto(i - 1) BY <1>1 DEF WebInv, FlowInv, InStep
    <2> QED BY <1>1, <1>4, <2>1, FirstRequest
  <1>7. OutOfStep' /\ DownloadInv'
    BY <1>1, <1>2 DEF OutOfStep, DownloadInv, AtCommand, AtDownload
  <1> QED BY <1>5, <1>6, <1>7, SendKeeps DEF FlowInv

LEMMA SendAgainKeeps ==
    ASSUME WebInv, SendAgain \/ SendData
    PROVE  FlowInv'
  <1>1. \/ /\ pc = "again" /\ ask' = "again"
           /\ toDev' = Append(toDev, [what |-> "download", n |-> fw[i].n])
        \/ /\ pc = "data" /\ ask' = "data"
           /\ toDev' = Append(toDev, [what |-> "data", n |-> fw[i].n])
    BY DEF SendAgain, SendData, Request
  <1>2. /\ pc' = "wait" /\ slot' = "none" /\ i' = i /\ fw' = fw /\ reported' = reported
        /\ dev' = dev /\ met' = met /\ skipped' = skipped /\ toHost' = toHost /\ rx' = rx
    BY SendKeeps DEF readVars
  <1>3. /\ i \in 1 .. Len(fw) /\ reported = "none" /\ fw[i].type = "download"
        /\ toDev = << >> /\ Silent /\ dev = Busy(i)
    BY <1>1 DEF WebInv, FlowInv, PlaceInv, DownloadInv, AtDownload
  <1>4. fw[i].n = i BY <1>3, FlashTyped
  <1>5. PlaceInv' /\ HelloInv'
    BY <1>2, <1>1, <1>3 DEF PlaceInv, HelloInv, Before, AtCommand, AtDownload, AtHello, AtReboot
  <1>6. InStep'
    BY <1>1, <1>2, <1>3 DEF WebInv, FlowInv, InStep, AtCommand, AtDownload, AtReboot
  <1>7. OutOfStep' BY <1>1, <1>2 DEF OutOfStep, AtCommand
  <1>8. DownloadInv'
    <2>1. Flight({})' BY <1>3, SendKeeps
    <2>2. ask' = "again" => Pending("download", i)' BY <1>1, <1>2, <1>3, <1>4 DEF Pending
    <2>3. ask' = "data" => Pending("data", i)' BY <1>1, <1>2, <1>3, <1>4 DEF Pending
    <2> QED BY <1>1, <1>2, <1>3, <2>1, <2>2, <2>3 DEF DownloadInv, AtCommand, AtDownload
  <1> QED BY <1>5, <1>6, <1>7, <1>8, SendKeeps DEF FlowInv

(* The next command: what was at work is through. *)
LEMMA NextCommandKeeps ==
    ASSUME WebInv, NextCommand, AtCommand \/ AtDownload, UNCHANGED <<fw, slot, rx, devVars>>,
           dev = Idle,
           fw[i].type = "download" => i \in taken,
           skipped => skipped', skipped' => trouble',
           ~ skipped' => toDev = << >> /\ Silent /\ met = Upto(i),
           skipped' => /\ \A k \in DOMAIN toDev : toDev[k].what \in Plain
                       /\ \A k \in DOMAIN toHost : toHost[k] \in Late
                       /\ rx \in Late \cup {NoFrame}
    PROVE  FlowInv'
  <1>1. /\ pc' = "command" /\ i' = i + 1 /\ reported' = reported /\ fw' = fw
        /\ i \in 1 .. Len(fw) /\ reported = "none"
    BY DEF NextCommand, Goto, WebInv, FlowInv, PlaceInv, AtCommand, AtDownload
  <1>2. i \in Nat /\ Len(fw) \in Nat /\ i' > 0 /\ i' - 1 = i BY <1>1, FlashTyped
  <1>3. ReadIsPrefix' BY <1>1 DEF WebInv, FlowInv, ReadIsPrefix
  <1>4. PlaceInv' /\ ReaderInv' /\ HelloInv'
    BY <1>1, <1>2 DEF PlaceInv, ReaderInv, HelloInv, Before, AtCommand, AtDownload, AtHello, AtReboot
  <1>5. InStep'
    BY <1>1, <1>2 DEF InStep, AtCommand, AtDownload, AtReboot, Silent, devVars
  <1>6. OutOfStep' BY <1>1 DEF OutOfStep, AtCommand, devVars
  <1>7. DownloadInv' BY <1>1 DEF DownloadInv, AtCommand, AtDownload, devVars
  <1>8. TakenInv'
    <2>1. \A k \in 1 .. Len(fw) : k < i /\ fw[k].type = "download" => k \in taken
      BY <1>1 DEF WebInv, FlowInv, TakenInv
    <2>2. \A k \in 1 .. Len(fw) : k < i + 1 => k < i \/ k = i BY <1>2
    <2> QED BY <1>1, <2>1, <2>2 DEF TakenInv, devVars
  <1>9. ErrorHasCause' /\ SkipHasCause'
    BY <1>1 DEF ErrorHasCause, SkipHasCause
  <1> QED BY <1>3, <1>4, <1>5, <1>6, <1>7, <1>8, <1>9 DEF FlowInv

LEMMA CompleteKeeps ==
    ASSUME WebInv, Complete, AtReboot, UNCHANGED <<i, fw, slot, rx, devVars, skipped>>,
           skipped => trouble'
    PROVE  FlowInv'
  <1>1. /\ pc' = "report" /\ reported' = "completed" /\ i' = i /\ fw' = fw
        /\ i = Len(fw) + 1 /\ reported = "none"
    BY DEF Complete, WebInv, FlowInv, PlaceInv, AtReboot
  <1>2. ReadIsPrefix' BY <1>1 DEF WebInv, FlowInv, ReadIsPrefix
  <1>3. PlaceInv' /\ ReaderInv' /\ HelloInv'
    BY <1>1 DEF PlaceInv, ReaderInv, HelloInv, Before, AtCommand, AtDownload, AtHello, AtReboot
  <1>4. InStep'
    BY <1>1 DEF WebInv, FlowInv, InStep, AtCommand, AtDownload, AtReboot, Pending, devVars
  <1>5. OutOfStep' /\ DownloadInv'
    BY <1>1 DEF OutOfStep, DownloadInv, AtCommand, AtDownload
  <1>6. TakenInv' BY <1>1 DEF WebInv, FlowInv, TakenInv, devVars
  <1>7. ErrorHasCause' /\ SkipHasCause'
    BY <1>1 DEF ErrorHasCause, SkipHasCause
  <1> QED BY <1>2, <1>3, <1>4, <1>5, <1>6, <1>7 DEF FlowInv

(* The device expects the command again, or its data. *)
LEMMA DownloadGoesOn ==
    ASSUME WebInv, pc = "wait", Goto("again") \/ Goto("data"), AtCommand \/ AtDownload,
           UNCHANGED <<i, fw, slot, rx, reported, devVars, skipped, trouble, twice>>,
           fw[i].type = "download", toDev = << >>, Silent, dev = Busy(i),
           ~ skipped => met = Upto(i)
    PROVE  FlowInv'
  <1>1. pc' \in {"again", "data"} /\ i \in 1 .. Len(fw) /\ reported = "none"
    BY DEF Goto, WebInv, FlowInv, PlaceInv, AtCommand, AtDownload
  <1>2. ReadIsPrefix' BY DEF WebInv, FlowInv, ReadIsPrefix
  <1>3. PlaceInv' /\ ReaderInv' /\ HelloInv'
    BY <1>1 DEF PlaceInv, ReaderInv, HelloInv, Before, AtCommand, AtDownload, AtHello, AtReboot
  <1>4. InStep' /\ OutOfStep' /\ DownloadInv'
    BY <1>1 DEF InStep, OutOfStep, DownloadInv, AtCommand, AtDownload, AtReboot, Silent, devVars
  <1>5. TakenInv' BY <1>1 DEF WebInv, FlowInv, TakenInv, devVars
  <1>6. ErrorHasCause' /\ SkipHasCause'
    BY DEF WebInv, FlowInv, ErrorHasCause, SkipHasCause
  <1> QED BY <1>2, <1>3, <1>4, <1>5, <1>6 DEF FlowInv

LEMMA AnsweredKeeps ==
    ASSUME WebInv, Answered
    PROVE  FlowInv'
  <1>1. /\ pc = "wait" /\ slot \in Awaited /\ slot # "none"
        /\ ask # "hello" => slot \in {"OKAY", "DATA", "FAIL"}
        /\ ask = "hello" => slot = "HELLO_REPLY"
        /\ ask = "data" => slot \in {"OKAY", "FAIL"}
        /\ UNCHANGED <<ask, readVars, slot, rx, devVars, skipped, trouble, twice>> /\ fw' = fw
    BY DEF Answered, Awaited, readVars
  <1>2. ~ Flight({}) BY <1>1, NothingFlies, FlashTyped
  <1>3. ASSUME NEW answer, FlightTo({}, answer) PROVE slot = answer /\ Silent
    BY <1>1, <1>3, LastInSlot
  <1>11. skipped' => trouble' BY <1>1 DEF WebInv, FlowInv, SkipHasCause
  <1>4. CASE ask = "hello"
    <2>1. Goto("parse") /\ UNCHANGED <<i, reported>> BY <1>4 DEF Answered
    <2>2. toDev = << >> /\ dev = Idle /\ Silent
      <3>1. slot \notin LeftOver \cup {"none"} BY <1>1, <1>4 DEF LeftOver
      <3>2. toDev = << >> /\ dev = Idle /\ FlightTo(LeftOver, "HELLO_REPLY")
        BY <1>1, <1>4, <3>1 DEF WebInv, FlowInv, HelloInv, AtHello, Flight
      <3> QED BY <3>1, <3>2, LastInSlot
    <2>3. i = 0 /\ ~ skipped /\ met = << >> /\ fw = << >> /\ reported = "none"
      BY <1>1, <1>4 DEF WebInv, FlowInv, PlaceInv, AtHello
    <2>4. pc' = "parse" BY <2>1 DEF Goto
    <2>5. ReadIsPrefix' BY <1>1 DEF WebInv, FlowInv, ReadIsPrefix
    <2>6. PlaceInv' /\ ReaderInv' /\ HelloInv'
      BY <1>1, <2>1, <2>2, <2>3, <2>4 DEF PlaceInv, ReaderInv, HelloInv, Before, AtCommand,
         AtDownload, AtHello, AtReboot, Silent, devVars
    <2>7. InStep' /\ OutOfStep' /\ DownloadInv'
      BY <2>1, <2>3, <2>4 DEF InStep, OutOfStep, DownloadInv, AtCommand, AtDownload, AtReboot
    <2>8. TakenInv' BY <1>1, <2>1 DEF WebInv, FlowInv, TakenInv, devVars
    <2>9. ErrorHasCause' /\ SkipHasCause'
      BY <1>1, <2>1 DEF WebInv, FlowInv, ErrorHasCause, SkipHasCause
    <2> QED BY <2>5, <2>6, <2>7, <2>8, <2>9 DEF FlowInv
  <1>5. CASE ask = "reboot"
    <2>1. Complete /\ i' = i BY <1>5 DEF Answered
    <2>2. AtReboot /\ (skipped => trouble')
      BY <1>1, <1>5 DEF AtReboot, WebInv, FlowInv, SkipHasCause
    <2> QED BY <1>1, <2>1, <2>2, CompleteKeeps
  <1>6. CASE ask = "command" /\ fw[i].type # "download"
    <2>1. NextCommand /\ AtCommand BY <1>1, <1>6 DEF Answered, AtCommand
    <2>2. dev = Idle BY <1>6, <2>1 DEF WebInv, FlowInv, DownloadInv
    <2>3. ~ skipped => toDev = << >> /\ Silent /\ met = Upto(i)
      BY <1>2, <1>3, <1>6, <2>1 DEF WebInv, FlowInv, InStep
    <2>4. skipped => /\ \A k \in DOMAIN toDev : toDev[k].what \in Plain
                     /\ \A k \in DOMAIN toHost : toHost[k] \in Late
                     /\ rx \in Late \cup {NoFrame}
      BY <1>6, <2>1 DEF WebInv, FlowInv, OutOfStep, Flight
    <2>5. skipped' => trouble' BY <1>1 DEF WebInv, FlowInv, SkipHasCause
    <2> QED BY <1>1, <1>6, <2>1, <2>2, <2>3, <2>4, <2>5, NextCommandKeeps
  <1>7. CASE ask = "command" /\ fw[i].type = "download"
    <2>1. AtCommand /\ IF slot = "DATA" THEN Goto("again") /\ UNCHANGED reported ELSE Fail
      BY <1>1, <1>7 DEF Answered, AtCommand
    <2>2. CASE slot = "DATA"
      <3>1. ~ skipped => toDev = << >> /\ Silent /\ met = Upto(i) /\ dev = Busy(i)
        BY <1>2, <1>3, <1>7, <2>1, <2>2 DEF WebInv, FlowInv, InStep
      <3>2. skipped => toDev = << >> /\ Silent /\ dev = Busy(i)
        <4>1. ~ Flight(Late) BY <2>2 DEF Flight, Late
        <4>2. slot \notin Late \cup {"none"} BY <2>2 DEF Late
        <4>3. FlightTo(Late, "DATA") => Silent BY <4>2, LastInSlot
        <4> QED BY <1>7, <2>1, <4>1, <4>3 DEF WebInv, FlowInv, OutOfStep
      <3>3. Goto("again") /\ UNCHANGED <<i, reported>> BY <1>7, <2>1, <2>2 DEF Answered
      <3> QED BY <1>1, <1>7, <2>1, <3>1, <3>2, <3>3, DownloadGoesOn
    <2>3. CASE slot # "DATA"
      <3>1. trouble
        <4>1. ~ skipped => trouble BY <1>2, <1>3, <1>7, <2>1, <2>3 DEF WebInv, FlowInv, InStep
        <4> QED BY <4>1 DEF WebInv, FlowInv, SkipHasCause
      <3>2. Fail BY <2>1, <2>3
      <3> QED BY <1>1, <1>11, <3>1, <3>2, FailKeeps
    <2> QED BY <2>2, <2>3
  <1>8. ASSUME ask \in {"again", "data"}
        PROVE  /\ AtDownload /\ i \in 1 .. Len(fw) /\ fw[i].type = "download"
               /\ ~ skipped => met = Upto(i)
    BY <1>1, <1>8 DEF WebInv, FlowInv, PlaceInv, InStep, AtDownload
  <1>9. CASE ask = "again"
    <2>1. IF slot = "DATA" THEN Goto("data") /\ UNCHANGED reported ELSE Fail
      BY <1>9 DEF Answered
    <2>2. i' = i BY <1>9 DEF Answered
    <2>3. /\ dev = Busy(i) /\ toDev = << >>
          /\ \/ FlightTo({}, "DATA")
             \/ (FlightTo({}, "OKAY") \/ FlightTo({}, "FAIL")) /\ twice
      BY <1>1, <1>2, <1>8, <1>9 DEF WebInv, FlowInv, DownloadInv
    <2>4. CASE slot = "DATA"
      <3>1. Silent BY <1>3, <2>3
      <3> QED BY <1>1, <1>8, <1>9, <2>1, <2>2, <2>3, <2>4, <3>1, DownloadGoesOn
    <2>5. CASE slot # "DATA"
      <3>1. twice /\ Fail BY <1>3, <2>1, <2>3, <2>5
      <3> QED BY <1>1, <1>11, <3>1, FailKeeps
    <2> QED BY <2>4, <2>5
  <1>10. CASE ask = "data"
    <2>1. /\ toDev = << >> /\ dev = Idle
          /\ (FlightTo({}, "OKAY") /\ i \in taken) \/ (FlightTo({}, "FAIL") /\ trouble)
      <3>1. AtDownload /\ pc = "wait" /\ ask = "data" /\ DownloadInv
        BY <1>1, <1>8, <1>10 DEF WebInv, FlowInv
      <3> QED BY <1>2, <3>1 DEF DownloadInv
    <2>2. CASE slot = "OKAY"
      <3>1. NextCommand BY <1>10, <2>2 DEF Answered
      <3>2. Silent /\ i \in taken BY <1>3, <2>1, <2>2
      <3>3. /\ \A k \in DOMAIN toDev : toDev[k].what \in Plain
            /\ \A k \in DOMAIN toHost : toHost[k] \in Late
            /\ rx \in Late \cup {NoFrame}
        BY <2>1, <3>2 DEF Silent
      <3>4. skipped' => trouble' BY <1>1 DEF WebInv, FlowInv, SkipHasCause
      <3> QED BY <1>1, <1>8, <1>10, <2>1, <3>1, <3>2, <3>3, <3>4, NextCommandKeeps
    <2>3. CASE slot # "OKAY"
      <3>1. trouble /\ Fail BY <1>3, <1>10, <2>1, <2>3 DEF Answered
      <3> QED BY <1>1, <1>11, <3>1, FailKeeps
    <2> QED BY <2>2, <2>3
  <1> QED BY <1>4, <1>5, <1>6, <1>7, <1>9, <1>10 DEF Answered

LEMMA GiveUpKeeps ==
    ASSUME WebInv, GiveUp
    PROVE  FlowInv'
  <1>1. /\ pc = "wait" /\ slot \notin Awaited /\ trouble' /\ fw' = fw
        /\ UNCHANGED <<ask, readVars, slot, rx, devVars>>
    BY DEF GiveUp, readVars
  <1>2. CASE ask = "reboot"
    <2>1. Complete /\ AtReboot /\ UNCHANGED <<i, skipped>> BY <1>1, <1>2 DEF GiveUp, AtReboot
    <2> QED BY <1>1, <2>1, CompleteKeeps
  <1>3. CASE ask = "command" /\ fw[i].type = "nop"
    <2>1. NextCommand /\ AtCommand /\ skipped' BY <1>1, <1>3 DEF GiveUp, AtCommand
    <2>2. dev = Idle BY <1>3, <2>1 DEF WebInv, FlowInv, DownloadInv
    <2>3. /\ \A k \in DOMAIN toDev : toDev[k].what \in Plain
          /\ \A k \in DOMAIN toHost : toHost[k] \in Late
          /\ rx \in Late \cup {NoFrame}
      <3>1. CASE skipped BY <1>3, <2>1, <3>1 DEF WebInv, FlowInv, OutOfStep, Flight
      <3>2. CASE ~ skipped
        <4>1. Pending("nop", i) \/ toDev = << >>
          BY <1>3, <2>1, <3>2 DEF WebInv, FlowInv, InStep
        <4>2. FlightTo({}, "OKAY") \/ FlightTo({}, "FAIL") \/ Flight({})
          BY <1>3, <2>1, <3>2 DEF WebInv, FlowInv, InStep
        <4>3. \A k \in DOMAIN toDev : toDev[k].what \in Plain
          BY <4>1 DEF Pending, Plain, Types
        <4>4. ASSUME NEW answer \in Late, FlightTo({}, answer)
              PROVE  (\A k \in DOMAIN toHost : toHost[k] \in Late) /\ rx \in Late \cup {NoFrame}
          <5>1. toHost \in Seq(Answers) BY FlashTyped DEF DevTypes
          <5>2. ASSUME NEW k \in DOMAIN toHost PROVE toHost[k] \in Late
            <6>1. /\ Len(toHost) \in Nat /\ k \in 1 .. Len(toHost) /\ toHost # << >>
              BY <5>1, <5>2
            <6>2. k = Len(toHost) BY <4>4, <6>1 DEF FlightTo
            <6> QED BY <4>4, <6>1, <6>2 DEF FlightTo
          <5> QED BY <4>4, <5>2 DEF FlightTo
        <4>5. Flight({}) => Silent BY NothingFlies, FlashTyped
        <4>6. "OKAY" \in Late /\ "FAIL" \in Late BY DEF Late
        <4> QED BY <4>2, <4>3, <4>4, <4>5, <4>6 DEF Silent
      <3> QED BY <3>1, <3>2
    <2> QED BY <1>1, <1>3, <2>1, <2>2, <2>3, NextCommandKeeps
  <1>4. CASE ~ (ask = "reboot" \/ (ask = "command" /\ fw[i].type = "nop"))
    <2>1. Fail BY <1>4 DEF GiveUp
    <2> QED BY <1>1, <2>1, FailKeeps
  <1> QED BY <1>2, <1>3, <1>4

LEMMA CloseKeeps ==
    ASSUME WebInv, Close
    PROVE  FlowInv'
  <1>1. /\ pc = "report" /\ pc' = "done"
        /\ UNCHANGED <<i, ask, readVars, reported, slot, rx, devVars, skipped, trouble, twice>>
    BY DEF Close
  <1>2. ReadIsPrefix' BY <1>1 DEF WebInv, FlowInv, ReadIsPrefix, readVars
  <1>3. PlaceInv' /\ ReaderInv' /\ HelloInv'
    BY <1>1 DEF WebInv, FlowInv, PlaceInv, ReaderInv, HelloInv, Before, AtCommand, AtDownload,
       AtHello, AtReboot, readVars
  <1>4. InStep'
    BY <1>1 DEF WebInv, FlowInv, InStep, AtCommand, AtDownload, AtReboot, Pending, readVars, devVars
  <1>5. OutOfStep' /\ DownloadInv'
    BY <1>1 DEF OutOfStep, DownloadInv, AtCommand, AtDownload
  <1>6. TakenInv' /\ ErrorHasCause' /\ SkipHasCause'
    BY <1>1 DEF WebInv, FlowInv, TakenInv, ErrorHasCause, SkipHasCause, readVars, devVars
  <1> QED BY <1>2, <1>3, <1>4, <1>5, <1>6 DEF FlowInv

-----------------------------------------------------------------------------
(* The receive loop. *)

LEMMA RxKeeps ==
    ASSUME WebInv, RxStep
    PROVE  FlowInv'
  <1>1. UNCHANGED <<flashVars, dev, toDev, met, taken, skipped, trouble, twice>>
    BY DEF RxStep, RxRead, RxProcess, devVars
  <1>2. ~ Silent BY DEF RxStep, RxRead, RxProcess, Silent
  <1>3. ASSUME NEW S, NEW answer
        PROVE  (Flight(S) => Flight(S)') /\ (FlightTo(S, answer) => FlightTo(S, answer)')
    BY ReceiveKeeps, FlashTyped
  <1>4. /\ Flight({}) => Flight({})'
        /\ Flight(Late) => Flight(Late)'
        /\ Flight(LeftOver) => Flight(LeftOver)'
        /\ FlightTo({}, "OKAY") => FlightTo({}, "OKAY")'
        /\ FlightTo({}, "DATA") => FlightTo({}, "DATA")'
        /\ FlightTo({}, "FAIL") => FlightTo({}, "FAIL")'
        /\ FlightTo(Late, "DATA") => FlightTo(Late, "DATA")'
        /\ FlightTo(LeftOver, "HELLO_REPLY") =>
             FlightTo(LeftOver, "HELLO_REPLY")'
    BY <1>3, Zenon
  <1>5. ReadIsPrefix' /\ PlaceInv' /\ ReaderInv' /\ TakenInv' /\ ErrorHasCause' /\ SkipHasCause'
    BY <1>1 DEF WebInv, FlowInv, ReadIsPrefix, PlaceInv, ReaderInv, TakenInv, ErrorHasCause,
       SkipHasCause, Before, AtCommand, AtDownload, AtHello, AtReboot, flashVars, readVars
  <1>6. HelloInv'
    <2>1. pc \notin {"open", "hello"}
      BY DEF RxStep, RxRead, RxProcess, WebInv, FlowInv, HelloInv
    <2> QED BY <1>1, <1>2, <1>4, <2>1 DEF WebInv, FlowInv, HelloInv, AtHello, Pending, flashVars
  <1>7. InStep'
    BY <1>1, <1>2, <1>4 DEF WebInv, FlowInv, InStep, AtCommand, AtDownload, AtReboot, Pending,
       flashVars, readVars
  <1>8. OutOfStep'
    <2>1. CASE pc = "command"
      <3>1. ASSUME \A k \in DOMAIN toHost : toHost[k] \in Late
            PROVE  /\ \A k \in DOMAIN toHost' : toHost'[k] \in Late
                   /\ rx \in Late \cup {NoFrame} => rx' \in Late \cup {NoFrame}
        <4>1. toHost \in Seq(Answers) BY FlashTyped DEF DevTypes
        <4>2. CASE RxRead
          <5>1. toHost # << >> /\ toHost' = Tail(toHost) /\ rx' = Head(toHost)
            BY <4>2 DEF RxRead
          <5>2. Len(toHost) \in Nat /\ Len(toHost) # 0 /\ DOMAIN toHost = 1 .. Len(toHost)
            BY <4>1, <5>1, EmptySeq
          <5>3. rx' = toHost[1] BY <4>1, <5>1, <5>2
          <5>4. /\ DOMAIN Tail(toHost) = 1 .. Len(toHost) - 1
                /\ \A k \in 1 .. Len(toHost) - 1 : Tail(toHost)[k] = toHost[k + 1]
            BY <4>1, <5>1
          <5> QED BY <3>1, <5>1, <5>2, <5>3, <5>4
        <4>3. CASE RxProcess BY <3>1, <4>3 DEF RxProcess, devVars
        <4> QED BY <4>2, <4>3 DEF RxStep
      <3> QED
        BY <1>1, <2>1, <3>1 DEF WebInv, FlowInv, OutOfStep, AtCommand, flashVars, readVars
    <2>2. CASE pc # "command"
      BY <1>1, <1>4, <2>2 DEF WebInv, FlowInv, OutOfStep, AtCommand, flashVars, readVars
    <2> QED BY <2>1, <2>2
  <1>9. DownloadInv'
    BY <1>1, <1>2, <1>4 DEF WebInv, FlowInv, DownloadInv, AtCommand, AtDownload, Pending,
       flashVars, readVars
  <1> QED BY <1>5, <1>6, <1>7, <1>8, <1>9 DEF FlowInv

LEMMA RxKeepsTypes ==
    ASSUME TypeOK, RxStep
    PROVE  TypeOK'
  <1>1. FlashTypes' /\ DevTypes'
    <2>1. toHost \in Seq(Answers) BY DEF TypeOK, DevTypes
    <2>2. toHost' \in Seq(Answers) /\ rx' \in Answers \cup {NoFrame}
          /\ slot' \in Answers \cup {"none"}
      <3>1. CASE RxRead
        <4>1. toHost # << >> /\ toHost' = Tail(toHost) /\ rx' = Head(toHost) /\ slot' = slot
          BY <3>1 DEF RxRead
        <4>2. Tail(toHost) \in Seq(Answers) /\ Head(toHost) \in Answers BY <2>1, <4>1
        <4> QED BY <4>1, <4>2 DEF TypeOK, FlashTypes
      <3>2. CASE RxProcess
        BY <3>2 DEF RxProcess, TypeOK, FlashTypes, DevTypes, devVars, NoFrame
      <3> QED BY <3>1, <3>2 DEF RxStep
    <2>3. UNCHANGED <<flashVars, dev, toDev, met, taken, skipped, trouble, twice>>
      BY DEF RxStep, RxRead, RxProcess, devVars
    <2> QED BY <2>2, <2>3 DEF TypeOK, FlashTypes, DevTypes, flashVars, readVars
  <1>2. HubTypes'
    <2>1. say' \in {say, [say EXCEPT !["rx"] = "log"]} /\ UNCHANGED <<hubVars, webVars>>
      BY DEF RxStep, RxRead, RxProcess
    <2>2. say' \in [Speakers -> {"none", "log", "status"}]
      BY <2>1 DEF TypeOK, HubTypes, Speakers
    <2> QED BY <2>1, <2>2 DEF TypeOK, HubTypes, hubVars, webVars
  <1> QED BY <1>1, <1>2 DEF TypeOK

-----------------------------------------------------------------------------
(* The hub and the watchers touch nothing of the flash. *)

LEMMA WatchKeeps ==
    ASSUME WebInv, UNCHANGED <<flashVars, slot, rx, devVars, skipped, trouble, twice>>
    PROVE  FlowInv' /\ FlashTypes' /\ DevTypes'
  <1>1. FlashTypes' /\ DevTypes'
    BY DEF WebInv, TypeOK, FlashTypes, DevTypes, flashVars, readVars, devVars
  <1>2. ReadIsPrefix' /\ PlaceInv' /\ ReaderInv' /\ TakenInv' /\ ErrorHasCause' /\ SkipHasCause'
    BY DEF WebInv, FlowInv, ReadIsPrefix, PlaceInv, ReaderInv, TakenInv, ErrorHasCause,
       SkipHasCause, Before, AtCommand, AtDownload, AtHello, AtReboot, flashVars, readVars, devVars
  <1>3. ASSUME NEW S, NEW answer
        PROVE  (Flight(S) => Flight(S)') /\ (FlightTo(S, answer) => FlightTo(S, answer)')
    BY DEF Flight, FlightTo, devVars
  <1>4. /\ Flight({}) => Flight({})'
        /\ Flight(Late) => Flight(Late)'
        /\ Flight(LeftOver) => Flight(LeftOver)'
        /\ FlightTo({}, "OKAY") => FlightTo({}, "OKAY")'
        /\ FlightTo({}, "DATA") => FlightTo({}, "DATA")'
        /\ FlightTo({}, "FAIL") => FlightTo({}, "FAIL")'
        /\ FlightTo(Late, "DATA") => FlightTo(Late, "DATA")'
        /\ FlightTo(LeftOver, "HELLO_REPLY") =>
             FlightTo(LeftOver, "HELLO_REPLY")'
        /\ Silent => Silent'
    BY <1>3 DEF Silent, devVars
  <1>5. HelloInv'
    BY <1>4 DEF WebInv, FlowInv, HelloInv, AtHello, Pending, flashVars, devVars
  <1>6. InStep'
    BY <1>4 DEF WebInv, FlowInv, InStep, AtCommand, AtDownload, AtReboot, Pending, flashVars,
       readVars, devVars
  <1>7. OutOfStep'
    BY <1>4 DEF WebInv, FlowInv, OutOfStep, AtCommand, flashVars, readVars, devVars
  <1>8. DownloadInv'
    BY <1>4 DEF WebInv, FlowInv, DownloadInv, AtCommand, AtDownload, Pending, flashVars, readVars,
       devVars
  <1> QED BY <1>1, <1>2, <1>5, <1>6, <1>7, <1>8 DEF FlowInv

LEMMA HubKeepsTypes ==
    ASSUME TypeOK,
           HubStep \/ \E c \in Watchers :
               HandlerStep(c) \/ Connect(c) \/ Leave(c) \/ Stall(c) \/ ReadOn(c)
    PROVE  HubTypes' /\ UNCHANGED <<flashVars, slot, rx, devVars, skipped, trouble, twice>>
  <1>0. HubTypes /\ MaxStalls \in Nat BY WatchAssumption DEF TypeOK
  <1>1. ASSUME NEW s \in Speakers, HubLock(s)
        PROVE  HubTypes' /\ UNCHANGED <<flashVars, slot, rx, devVars, skipped, trouble, twice>>
    BY <1>0, <1>1 DEF HubLock, HubTypes, webVars
  <1>2. CASE HubUnlock
    <2>1. say' \in [Speakers -> {"none", "log", "status"}]
      BY <1>0, <1>2 DEF HubUnlock, HubTypes
    <2> QED BY <1>0, <1>2, <2>1 DEF HubUnlock, HubTypes, webVars
  <1>3. ASSUME NEW c \in Watchers, HubWrite(c) \/ HubWriteFails(c)
        PROVE  HubTypes' /\ UNCHANGED <<flashVars, slot, rx, devVars, skipped, trouble, twice>>
    <2>1. CASE HubWriteFails(c) BY <1>0, <2>1 DEF HubWriteFails, HubTypes, webVars
    <2>2. CASE HubWrite(c)
      <3>1. told' \in [Watchers -> {"none", "completed", "error"}]
        BY <1>0, <2>2 DEF HubWrite, HubTypes, TypeOK, FlashTypes
      <3> QED BY <1>0, <2>2, <3>1 DEF HubWrite, HubTypes
    <2> QED BY <1>3, <2>1, <2>2
  <1>4. ASSUME NEW c \in Watchers, Register(c) \/ Unregister(c)
        PROVE  HubTypes' /\ UNCHANGED <<flashVars, slot, rx, devVars, skipped, trouble, twice>>
    <2>1. CASE Register(c) BY <1>0, <2>1 DEF Register, HubTypes
    <2>2. CASE Unregister(c) BY <1>0, <2>2 DEF Unregister, HubTypes
    <2> QED BY <1>4, <2>1, <2>2
  <1>5. ASSUME NEW c \in Watchers, Connect(c) \/ Leave(c) \/ Stall(c) \/ ReadOn(c)
        PROVE  HubTypes' /\ UNCHANGED <<flashVars, slot, rx, devVars, skipped, trouble, twice>>
    <2>1. CASE Connect(c) BY <1>0, <2>1 DEF Connect, HubTypes, hubVars
    <2>2. CASE Leave(c) BY <1>0, <2>2 DEF Leave, HubTypes, hubVars
    <2>3. CASE Stall(c) BY <1>0, <2>3 DEF Stall, HubTypes, hubVars
    <2>4. CASE ReadOn(c) BY <1>0, <2>4 DEF ReadOn, HubTypes, hubVars
    <2> QED BY <1>5, <2>1, <2>2, <2>3, <2>4
  <1> QED BY <1>1, <1>2, <1>3, <1>4, <1>5 DEF HubStep, HandlerStep

-----------------------------------------------------------------------------
(* The device. *)

Balks(answer) == toHost' = Append(toHost, answer) /\ twice' = TRUE /\ UNCHANGED trouble

LEMMA DevKeepsTypes ==
    ASSUME TypeOK, DeviceStep
    PROVE  TypeOK'
  <1>1. DevTakes BY DEF DeviceStep, DevTakesHello, DevTakesCommand, DevTakesDownload, DevTakesData
  <1>2. UNCHANGED <<flashVars, slot, rx, say, hubVars, webVars, skipped>> BY <1>1 DEF DevTakes
  <1>3. FlashTypes' /\ HubTypes'
    BY <1>2 DEF TypeOK, FlashTypes, HubTypes, flashVars, readVars, hubVars, webVars
  <1>4. DevTypes BY DEF TypeOK
  <1>5. toDev' \in Seq(Requests) /\ request.n \in 0 .. Len(Firmware)
    <2>1. toDev \in Seq(Requests) /\ toDev # << >> /\ toDev' = Tail(toDev)
      BY <1>1, <1>4 DEF DevTakes, DevTypes
    <2>2. Head(toDev) \in Requests BY <2>1
    <2> QED BY <2>1, <2>2 DEF request, Requests
  <1>6. toHost' \in Seq(Answers) /\ trouble' \in BOOLEAN /\ twice' \in BOOLEAN
    <2>1. \/ \E answer \in Answers : Told(answer)
          \/ Refuse
          \/ Mute
          \/ \E answer \in Answers : Balks(answer)
      BY DEF DeviceStep, DevTakesHello, DevTakesCommand, DevTakesDownload, DevTakesData, Answers,
         Balk, Balks
    <2>2. /\ toHost \in Seq(Answers) /\ trouble \in BOOLEAN /\ twice \in BOOLEAN
          /\ "FAIL" \in Answers
      BY <1>4 DEF DevTypes, Answers
    <2>3. toHost' \in Seq(Answers) BY SMTT(40), <2>1, <2>2 DEF Told, Refuse, Mute, Balks
    <2>4. trouble' \in {trouble, TRUE} /\ twice' \in {twice, TRUE}
      BY <2>1 DEF Told, Refuse, Mute, Balks
    <2> QED BY <2>2, <2>3, <2>4
  <1>7. dev' \in [doing : {"idle", "data"}, n : 0 .. Len(Firmware)]
    <2>1. dev' \in {dev, Idle, [doing |-> "data", n |-> request.n]}
      BY DEF DeviceStep, DevTakesHello, DevTakesCommand, DevTakesDownload, DevTakesData
    <2> QED BY <1>4, <1>5, <2>1, FirmwareFacts DEF DevTypes, Idle
  <1>8. met' \in Seq(0 .. Len(Firmware))
    <2>1. met' = met \/ met' = Append(met, request.n)
      BY DEF DeviceStep, DevTakesHello, DevTakesCommand, DevTakesDownload, DevTakesData
    <2>2. met \in Seq(0 .. Len(Firmware)) BY <1>4 DEF DevTypes
    <2>3. Append(met, request.n) \in Seq(0 .. Len(Firmware)) BY <1>5, <2>2, AppendProperties
    <2> QED BY <2>1, <2>2, <2>3
  <1>9. taken' \subseteq 0 .. Len(Firmware)
    <2>1. taken' = taken \/ taken' = taken \cup {dev.n}
      BY DEF DeviceStep, DevTakesHello, DevTakesCommand, DevTakesDownload, DevTakesData
    <2> QED BY <1>4, <2>1 DEF DevTypes
  <1>10. DevTypes' BY <1>2, <1>4, <1>5, <1>6, <1>7, <1>8, <1>9 DEF DevTypes
  <1> QED BY <1>3, <1>10 DEF TypeOK

(* Where a request can be on its way, and which. *)
LEMMA RequestUnderWay ==
    ASSUME WebInv, toDev # << >>
    PROVE  /\ pc \notin Before \cup {"again", "data"}
           /\ AtHello => Pending("hello", 0) /\ Flight(LeftOver)
           /\ ~ skipped =>
                /\ pc # "command"
                /\ AtCommand => /\ Pending(fw[i].type, i) /\ Flight({}) /\ dev = Idle
                                /\ met = Upto(i - 1)
                /\ AtDownload => met = Upto(i)
                /\ AtReboot \/ reported = "completed" =>
                     Pending("reboot", 0) /\ met = Upto(Len(fw))
           /\ pc = "wait" /\ ask = "again" => Pending("download", i) /\ Flight({}) /\ dev = Busy(i)
           /\ pc = "wait" /\ ask = "data" => Pending("data", i) /\ Flight({}) /\ dev = Busy(i)
  <1>1. pc \notin Before \cup {"again", "data"}
    BY DEF WebInv, FlowInv, HelloInv, DownloadInv, Before
  <1>2. AtHello => Pending("hello", 0) /\ Flight(LeftOver)
    BY DEF WebInv, FlowInv, HelloInv
  <1>3. ~ skipped =>
          /\ pc # "command"
          /\ AtCommand => /\ Pending(fw[i].type, i) /\ Flight({}) /\ dev = Idle
                          /\ met = Upto(i - 1)
          /\ AtDownload => met = Upto(i)
          /\ AtReboot \/ reported = "completed" => Pending("reboot", 0) /\ met = Upto(Len(fw))
    BY DEF WebInv, FlowInv, InStep
  <1>4. pc = "wait" /\ ask = "again" => Pending("download", i) /\ Flight({}) /\ dev = Busy(i)
    BY DEF WebInv, FlowInv, DownloadInv, AtDownload
  <1>5. pc = "wait" /\ ask = "data" => Pending("data", i) /\ Flight({}) /\ dev = Busy(i)
    BY DEF WebInv, FlowInv, DownloadInv, AtDownload
  <1> QED BY <1>1, <1>2, <1>3, <1>4, <1>5

LEMMA LateRequests ==
    ASSUME WebInv, toDev # << >>, skipped, pc = "command" \/ AtCommand
    PROVE  /\ dev = Idle
           /\ AtCommand => Flight(Late)
           /\ \/ /\ AtCommand /\ fw[i].type = "download" /\ Pending("download", i)
              \/ /\ AtCommand /\ fw[i].type = "download" /\ request.what \in Plain
                 /\ Tail(toDev) # << >>
                 /\ Tail(toDev)[Len(Tail(toDev))] = [what |-> "download", n |-> i]
                 /\ \A k \in 1 .. Len(Tail(toDev)) - 1 : Tail(toDev)[k].what \in Plain
              \/ /\ ~ (AtCommand /\ fw[i].type = "download") /\ request.what \in Plain
                 /\ \A k \in DOMAIN Tail(toDev) : Tail(toDev)[k].what \in Plain
  <1>0. DevTypes BY FlashTyped
  <1>1. toDev \in Seq(Requests) BY ONLY <1>0, ZenonT(40) DEF DevTypes
  <1>2. PICK m \in Nat :
          /\ Len(toDev) = m + 1 /\ DOMAIN toDev = 1 .. m + 1
          /\ Tail(toDev) \in Seq(Requests) /\ Len(Tail(toDev)) = m /\ DOMAIN Tail(toDev) = 1 .. m
          /\ \A k \in 1 .. m : Tail(toDev)[k] = toDev[k + 1]
    <2>1. Len(toDev) \in Nat /\ Len(toDev) # 0 BY <1>1, EmptySeq
    <2>2. Len(toDev) - 1 \in Nat /\ (Len(toDev) - 1) + 1 = Len(toDev) BY <2>1
    <2>3. /\ Tail(toDev) \in Seq(Requests) /\ Len(Tail(toDev)) = Len(toDev) - 1
          /\ DOMAIN Tail(toDev) = 1 .. Len(toDev) - 1
          /\ \A k \in 1 .. Len(toDev) - 1 : Tail(toDev)[k] = toDev[k + 1]
      BY <1>1
    <2>4. DOMAIN toDev = 1 .. Len(toDev) BY <1>1
    <2> QED BY <2>1, <2>2, <2>3, <2>4
  <1>3. request = toDev[1] BY <1>1 DEF request
  <1>4. CASE ~ (AtCommand /\ fw[i].type = "download")
    <2>1. /\ \A k \in DOMAIN toDev : toDev[k].what \in Plain
          /\ AtCommand => Flight(Late)
          /\ dev = Idle
      BY <1>4 DEF WebInv, FlowInv, OutOfStep, DownloadInv
    <2>2. 1 \in 1 .. m + 1 /\ \A k \in 1 .. m : k + 1 \in 1 .. m + 1 BY <1>2
    <2> QED BY <1>2, <1>3, <1>4, <2>1, <2>2
  <1>5. CASE AtCommand /\ fw[i].type = "download"
    <2>1. /\ toDev[m + 1] = [what |-> "download", n |-> i]
          /\ \A k \in 1 .. (m + 1) - 1 : toDev[k].what \in Plain
          /\ Flight(Late) /\ dev = Idle
      BY <1>2, <1>5 DEF WebInv, FlowInv, OutOfStep
    <2>2. \A k \in 1 .. m : toDev[k].what \in Plain BY <1>2, <2>1
    <2>3. CASE m = 0
      <3>1. toDev = <<[what |-> "download", n |-> i]>>
        <4>1. Len(toDev) = 1 /\ toDev[1] = [what |-> "download", n |-> i] BY <1>2, <2>1, <2>3
        <4> QED BY <1>1, <4>1
      <3> QED BY <1>5, <2>1, <3>1 DEF Pending
    <2>4. CASE m # 0
      <3>1. /\ 1 \in 1 .. m /\ m \in 1 .. m
            /\ \A k \in 1 .. m - 1 : k \in 1 .. m /\ k + 1 \in 1 .. m
        BY <1>2, <2>4
      <3>2. Tail(toDev) # << >> BY <1>2, <2>4, EmptySeq
      <3> QED BY <1>2, <1>3, <1>5, <2>1, <2>2, <3>1, <3>2
    <2> QED BY <2>3, <2>4
  <1> QED BY SMTT(40), <1>4, <1>5

LEMMA DevAnswers ==
    ASSUME DevTypes, UNCHANGED <<slot, rx>>, NEW S, Flight(S)
    PROVE  /\ \A answer \in Answers :
                Told(answer) => FlightTo(S, answer)' /\ (answer \in S => Flight(S)')
           /\ Refuse => FlightTo(S, "FAIL")' /\ ("FAIL" \in S => Flight(S)')
           /\ Mute => Flight(S)'
           /\ Balk => twice' /\ (FlightTo(S, "OKAY")' \/ FlightTo(S, "FAIL")')
  <1>1. "FAIL" \in Answers /\ "OKAY" \in Answers BY DEF Answers
  <1>2. ASSUME NEW answer \in Answers, toHost' = Append(toHost, answer)
        PROVE  FlightTo(S, answer)' /\ (answer \in S => Flight(S)')
    BY <1>2, AnswerAdded
  <1>3. ASSUME Mute PROVE Flight(S)'
    <2>1. UNCHANGED <<toHost, rx>> /\ slot' = slot BY <1>3 DEF Mute
    <2> QED BY <2>1, SlotCleared
  <1>4. ASSUME Balk PROVE twice' /\ (FlightTo(S, "OKAY")' \/ FlightTo(S, "FAIL")')
    <2>1. PICK answer \in {"OKAY", "FAIL"} : toHost' = Append(toHost, answer) BY <1>4 DEF Balk
    <2>2. FlightTo(S, answer)' BY <1>1, <1>2, <2>1
    <2> QED BY <1>4, <2>1, <2>2 DEF Balk
  <1> QED BY <1>1, <1>2, <1>3, <1>4 DEF Told, Refuse

(* What no step of the device touches. *)
LEMMA DevFrame ==
    ASSUME WebInv, DeviceStep
    PROVE  /\ toDev # << >> /\ toDev' = Tail(toDev)
           /\ pc' = pc /\ i' = i /\ ask' = ask /\ fw' = fw /\ reported' = reported
           /\ slot' = slot /\ rx' = rx /\ skipped' = skipped
           /\ (trouble => trouble') /\ (twice => twice')
           /\ ReadIsPrefix' /\ ReaderInv' /\ TakenInv' /\ ErrorHasCause' /\ SkipHasCause'
  <1>1. DevTakes /\ (trouble => trouble') /\ (twice => twice') /\ taken \subseteq taken'
    BY DEF DeviceStep, DevTakesHello, DevTakesCommand, DevTakesDownload, DevTakesData, Told, Refuse,
       Mute, Balk
  <1>2. /\ toDev # << >> /\ toDev' = Tail(toDev)
        /\ UNCHANGED <<flashVars, slot, rx, skipped>>
    BY <1>1 DEF DevTakes
  <1>3. ReadIsPrefix' /\ ReaderInv'
    BY <1>2 DEF WebInv, FlowInv, ReadIsPrefix, ReaderInv, flashVars, readVars
  <1>4. TakenInv' BY <1>1, <1>2 DEF WebInv, FlowInv, TakenInv, flashVars, readVars
  <1>5. ErrorHasCause' /\ SkipHasCause'
    BY <1>1, <1>2 DEF WebInv, FlowInv, ErrorHasCause, SkipHasCause, flashVars
  <1> QED BY <1>1, <1>2, <1>3, <1>4, <1>5 DEF flashVars, readVars

LEMMA DevHelloKeeps ==
    ASSUME WebInv, DevTakesHello
    PROVE  FlowInv'
  <1>1. DeviceStep /\ request.what = "hello" /\ dev' = Idle /\ met' = met /\ taken' = taken
    BY DEF DeviceStep, DevTakesHello
  <1>2. ASSUME NEW what, NEW n, Pending(what, n) PROVE what = "hello" /\ toDev' = << >>
    BY <1>1, <1>2, OneRequest, DevFrame
  <1>3. PlaceInv'
    BY <1>1, DevFrame DEF WebInv, FlowInv, PlaceInv, Before, AtCommand, AtDownload, AtHello, AtReboot
  <1>4. HelloInv'
    <2>1. pc \notin Before BY DevFrame, <1>1, RequestUnderWay
    <2>2. ASSUME AtHello
          PROVE  \/ FlightTo(LeftOver, "HELLO_REPLY")'
                 \/ trouble' /\ Flight(LeftOver)'
      <3>1. Flight(LeftOver) /\ UNCHANGED <<slot, rx>> /\ DevTypes
        BY <1>1, <2>2, DevFrame, RequestUnderWay, FlashTyped
      <3>2. "HELLO_REPLY" \in Answers BY DEF Answers
      <3>3. Told("HELLO_REPLY") \/ (Mute /\ trouble') BY DEF DevTakesHello, Mute
      <3> QED BY <3>1, <3>2, <3>3, DevAnswers
    <2>3. AtHello => toDev' = << >> BY <1>1, <1>2, DevFrame, RequestUnderWay
    <2> QED BY <1>1, <2>1, <2>2, <2>3, DevFrame DEF HelloInv, AtHello, Before
  <1>5. ~ AtDownload /\ (~ skipped => ~ AtCommand /\ pc # "command" /\ ~ AtReboot /\
                                      reported # "completed")
    <2>1. toDev # << >> BY <1>1, DevFrame
    <2>2. ~ AtDownload BY <1>2, <2>1, RequestUnderWay DEF AtDownload
    <2>3. ASSUME ~ skipped PROVE ~ AtReboot /\ reported # "completed" /\ pc # "command"
      BY <1>2, <2>1, <2>3, RequestUnderWay
    <2>4. ASSUME ~ skipped, AtCommand PROVE FALSE
      <3>1. fw[i].type = "hello" BY <1>2, <2>1, <2>4, RequestUnderWay
      <3>2. i \in 1 .. Len(fw) BY <2>4 DEF WebInv, FlowInv, PlaceInv
      <3> QED BY <3>1, <3>2, FlashTyped DEF Types
    <2> QED BY <2>2, <2>3, <2>4
  <1>6. InStep'
    BY <1>1, <1>5, DevFrame DEF InStep, AtCommand, AtDownload, AtReboot
  <1>7. skipped => pc # "command" /\ ~ AtCommand
    <2> SUFFICES ASSUME skipped, pc = "command" \/ AtCommand PROVE FALSE
      OBVIOUS
    <2>1. request.what \in Plain \/ Pending("download", i) BY <1>1, DevFrame, LateRequests
    <2>2. "hello" \notin Plain BY DEF Plain, Types
    <2> QED BY <1>1, <1>2, <2>1, <2>2
  <1>8. OutOfStep' /\ DownloadInv'
    <2>1. pc \notin {"again", "data"} BY <1>1, DevFrame, RequestUnderWay
    <2> QED BY <1>1, <1>5, <1>7, <2>1, DevFrame DEF OutOfStep, DownloadInv, AtCommand, AtDownload
  <1> QED BY <1>1, <1>3, <1>4, <1>6, <1>8, DevFrame DEF FlowInv

LEMMA DevCommandKeeps ==
    ASSUME WebInv, DevTakesCommand
    PROVE  FlowInv'
  <1>1. /\ DeviceStep /\ request.what \in (Types \cup {"reboot"}) \ {"download"}
        /\ dev' = dev /\ met' = Append(met, request.n)
    BY DEF DeviceStep, DevTakesCommand
  <1>2. /\ toDev # << >> /\ toDev' = Tail(toDev)
        /\ pc' = pc /\ i' = i /\ ask' = ask /\ fw' = fw /\ reported' = reported
        /\ slot' = slot /\ rx' = rx /\ skipped' = skipped
    BY <1>1, DevFrame
  <1>3. ASSUME NEW what, NEW n, Pending(what, n)
        PROVE  /\ what \notin {"hello", "data", "download"} /\ toDev' = << >>
               /\ met' = Append(met, n)
    BY <1>1, <1>2, <1>3, OneRequest DEF Types
  <1>4. pc \notin Before \cup {"again", "data"} /\ ~ AtHello /\ ~ AtDownload
    <2>1. pc \notin Before \cup {"again", "data"} BY <1>2, RequestUnderWay
    <2>2. ~ AtHello BY <1>2, <1>3, RequestUnderWay
    <2>3. ~ (pc = "wait" /\ ask \in {"again", "data"}) BY <1>2, <1>3, RequestUnderWay
    <2> QED BY <2>1, <2>2, <2>3 DEF AtDownload
  <1>5. ASSUME NEW S, Flight(S)
        PROVE  \/ FlightTo(S, "OKAY")' /\ ("OKAY" \in S => Flight(S)')
               \/ FlightTo(S, "FAIL")' /\ ("FAIL" \in S => Flight(S)') /\ trouble'
               \/ Flight(S)' /\ trouble'
    <2>1. DevTypes /\ "OKAY" \in Answers BY FlashTyped DEF Answers
    <2>2. Told("OKAY") \/ (Refuse /\ trouble') \/ (Mute /\ trouble')
      BY DEF DevTakesCommand, Refuse, Mute
    <2> QED BY <1>2, <1>5, <2>1, <2>2, DevAnswers
  <1>6. PlaceInv'
    BY <1>2, <1>4 DEF WebInv, FlowInv, PlaceInv, Before, AtCommand, AtDownload, AtHello, AtReboot
  <1>7. HelloInv' BY <1>2, <1>4 DEF HelloInv, AtHello, Before
  <1>8. InStep'
    <2> SUFFICES ASSUME ~ skipped PROVE InStep'
      BY <1>2 DEF InStep
    <2>1. pc # "command" BY <1>2, RequestUnderWay
    <2>2. ASSUME AtCommand
          PROVE  /\ toDev' = << >> /\ met' = Upto(i) /\ dev = Idle /\ fw[i].type # "download"
                 /\ FlightTo({}, "OKAY")' \/ ((FlightTo({}, "FAIL")' \/ Flight({})') /\ trouble')
      <3>1. Pending(fw[i].type, i) /\ Flight({}) /\ dev = Idle /\ met = Upto(i - 1)
        BY <1>2, <2>2, RequestUnderWay
      <3>2. fw[i].type # "download" /\ toDev' = << >> /\ met' = Append(Upto(i - 1), i)
        BY <1>3, <3>1
      <3>3. i - 1 \in Nat /\ (i - 1) + 1 = i
        BY <2>2, FlashTyped DEF WebInv, FlowInv, PlaceInv
      <3>4. met' = Upto(i)
        <4>1. Append(Upto(i - 1), (i - 1) + 1) = Upto((i - 1) + 1) BY <3>3, UptoFacts
        <4> QED BY <3>2, <3>3, <4>1
      <3> QED BY <1>5, <3>1, <3>2, <3>4
    <2>3. ASSUME AtReboot \/ reported = "completed"
          PROVE  toDev' = << >> /\ met' = Append(Upto(Len(fw)), 0)
      BY <1>2, <1>3, <2>3, RequestUnderWay
    <2> QED
      BY <1>1, <1>2, <1>4, <2>1, <2>2, <2>3 DEF InStep, AtCommand, AtDownload, AtReboot
  <1>9. OutOfStep'
    <2> SUFFICES ASSUME skipped, pc = "command" \/ AtCommand PROVE OutOfStep'
      BY <1>2 DEF OutOfStep, AtCommand
    <2>1. /\ dev = Idle
          /\ AtCommand => Flight(Late)
          /\ \/ /\ AtCommand /\ fw[i].type = "download" /\ Tail(toDev) # << >>
                /\ Tail(toDev)[Len(Tail(toDev))] = [what |-> "download", n |-> i]
                /\ \A k \in 1 .. Len(Tail(toDev)) - 1 : Tail(toDev)[k].what \in Plain
             \/ /\ ~ (AtCommand /\ fw[i].type = "download")
                /\ \A k \in DOMAIN Tail(toDev) : Tail(toDev)[k].what \in Plain
      BY <1>2, <1>3, LateRequests
    <2>2. Flight(Late) => Flight(Late)' BY <1>5 DEF Late
    <2>3. CASE AtCommand
      <3>1. pc # "command" /\ pc' # "command" /\ Flight(Late)' BY <1>2, <2>1, <2>2, <2>3 DEF AtCommand
      <3> QED BY <1>1, <1>2, <2>1, <2>3, <3>1 DEF OutOfStep, AtCommand
    <2>4. CASE pc = "command"
      <3>1. ~ AtCommand BY <2>4 DEF AtCommand
      <3>2. /\ \A k \in DOMAIN toHost : toHost[k] \in Late
            /\ rx \in Late \cup {NoFrame}
        BY <2>4 DEF WebInv, FlowInv, OutOfStep
      <3>3. toHost \in Seq(Answers) BY FlashTyped DEF DevTypes
      <3>4. \/ toHost' = toHost \/ toHost' = Append(toHost, "OKAY") \/ toHost' = Append(toHost, "FAIL")
        BY DEF DevTakesCommand, Told, Refuse, Mute
      <3>5. \A k \in DOMAIN toHost' : toHost'[k] \in Late
        <4>1. ASSUME NEW answer \in Late, toHost' = Append(toHost, answer), NEW k \in DOMAIN toHost'
              PROVE  toHost'[k] \in Late
          <5>1. /\ Len(toHost) \in Nat /\ DOMAIN toHost = 1 .. Len(toHost)
                /\ DOMAIN Append(toHost, answer) = 1 .. Len(toHost) + 1
                /\ \A l \in 1 .. Len(toHost) : Append(toHost, answer)[l] = toHost[l]
                /\ Append(toHost, answer)[Len(toHost) + 1] = answer
            BY <3>3
          <5>2. k \in 1 .. Len(toHost) \/ k = Len(toHost) + 1 BY <4>1, <5>1
          <5> QED BY <3>2, <4>1, <5>1, <5>2
        <4>2. "OKAY" \in Late /\ "FAIL" \in Late BY DEF Late
        <4> QED BY <3>2, <3>4, <4>1, <4>2
      <3> QED BY <1>2, <2>1, <2>4, <3>1, <3>2, <3>5 DEF OutOfStep, AtCommand
    <2> QED BY <2>3, <2>4
  <1>10. DownloadInv'
    BY <1>1, <1>2, <1>4 DEF WebInv, FlowInv, DownloadInv, AtCommand, AtDownload
  <1> QED BY <1>1, <1>6, <1>7, <1>8, <1>9, <1>10, DevFrame DEF FlowInv

LEMMA DevDownloadKeeps ==
    ASSUME WebInv, DevTakesDownload
    PROVE  FlowInv'
  <1>1. /\ DeviceStep /\ request.what = "download"
        /\ met' = IF dev.doing = "idle" THEN Append(met, request.n) ELSE met
    BY DEF DeviceStep, DevTakesDownload
  <1>2. /\ toDev # << >> /\ toDev' = Tail(toDev)
        /\ pc' = pc /\ i' = i /\ ask' = ask /\ fw' = fw /\ reported' = reported
        /\ slot' = slot /\ rx' = rx /\ skipped' = skipped
    BY <1>1, DevFrame
  <1>3. ASSUME NEW what, NEW n, Pending(what, n)
        PROVE  what = "download" /\ toDev' = << >> /\ request.n = n
    BY <1>1, <1>2, <1>3, OneRequest
  <1>4. pc \notin Before \cup {"again", "data"} /\ ~ AtHello /\ ~ (pc = "wait" /\ ask = "data")
    <2>1. pc \notin Before \cup {"again", "data"} BY <1>2, RequestUnderWay
    <2>2. ~ AtHello BY <1>2, <1>3, RequestUnderWay
    <2>3. ~ (pc = "wait" /\ ask = "data") BY <1>2, <1>3, RequestUnderWay
    <2> QED BY <2>1, <2>2, <2>3
  <1>5. ASSUME NEW S, Flight(S)
        PROVE  \/ FlightTo(S, "DATA")' /\ dev' = Busy(request.n)
               \/ /\ dev.doing = "idle" /\ dev' = dev /\ trouble'
                  /\ FlightTo(S, "FAIL")' /\ ("FAIL" \in S => Flight(S)')
               \/ Flight(S)' /\ dev' = dev /\ trouble'
               \/ /\ dev.doing = "data" /\ dev' = dev /\ twice'
                  /\ FlightTo(S, "OKAY")' \/ FlightTo(S, "FAIL")'
    <2>1. DevTypes /\ "DATA" \in Answers BY FlashTyped DEF Answers
    <2>2. \/ Told("DATA") /\ dev' = Busy(request.n)
          \/ dev.doing = "idle" /\ Refuse /\ trouble' /\ dev' = dev
          \/ Mute /\ trouble' /\ dev' = dev
          \/ dev.doing = "data" /\ Balk /\ dev' = dev
      BY DEF DevTakesDownload, Refuse, Mute, Busy
    <2> QED BY <1>2, <1>5, <2>1, <2>2, DevAnswers
  <1>6. PlaceInv'
    BY <1>2, <1>4 DEF WebInv, FlowInv, PlaceInv, Before, AtCommand, AtDownload, AtHello, AtReboot
  <1>7. HelloInv' BY <1>2, <1>4 DEF HelloInv, AtHello, Before
  <1>8. Idle.doing = "idle" /\ \A n : Busy(n).doing = "data" BY DEF Idle, Busy
  <1>9. pc = "wait" /\ ask = "again" =>
          /\ met' = met /\ toDev' = << >> /\ dev' = Busy(i)
          /\ \/ FlightTo({}, "DATA")'
             \/ Flight({})' /\ trouble'
             \/ (FlightTo({}, "OKAY")' \/ FlightTo({}, "FAIL")') /\ twice'
    <2> SUFFICES ASSUME pc = "wait" /\ ask = "again"
                 PROVE  /\ met' = met /\ toDev' = << >> /\ dev' = Busy(i)
                        /\ \/ FlightTo({}, "DATA")'
                           \/ Flight({})' /\ trouble'
                           \/ (FlightTo({}, "OKAY")' \/ FlightTo({}, "FAIL")') /\ twice'
      OBVIOUS
    <2>1. Pending("download", i) /\ Flight({}) /\ dev = Busy(i) BY <1>2, RequestUnderWay
    <2>2. dev.doing # "idle" BY <1>8, <2>1
    <2>3. request.n = i /\ toDev' = << >> BY <1>3, <2>1
    <2> QED BY <1>1, <1>5, <2>1, <2>2, <2>3
  <1>10. InStep'
    <2> SUFFICES ASSUME ~ skipped PROVE InStep'
      BY <1>2 DEF InStep
    <2>1. /\ pc # "command" /\ ~ AtReboot /\ reported # "completed"
      BY <1>2, <1>3, RequestUnderWay
    <2>2. ASSUME AtCommand
          PROVE  /\ toDev' = << >> /\ met' = Upto(i) /\ fw[i].type = "download"
                 /\ \/ FlightTo({}, "DATA")' /\ dev' = Busy(i)
                    \/ (FlightTo({}, "FAIL")' \/ Flight({})') /\ dev' = Idle /\ trouble'
      <3>1. Pending(fw[i].type, i) /\ Flight({}) /\ dev = Idle /\ met = Upto(i - 1)
        BY <1>2, <2>2, RequestUnderWay
      <3>2. fw[i].type = "download" /\ toDev' = << >> /\ request.n = i BY <1>3, <3>1
      <3>3. met' = Append(Upto(i - 1), i) BY <1>1, <1>8, <3>1, <3>2
      <3>4. i - 1 \in Nat /\ (i - 1) + 1 = i
        BY <2>2, FlashTyped DEF WebInv, FlowInv, PlaceInv
      <3>5. met' = Upto(i)
        <4>1. Append(Upto(i - 1), (i - 1) + 1) = Upto((i - 1) + 1) BY <3>4, UptoFacts
        <4> QED BY <3>3, <3>4, <4>1
      <3>6. dev.doing # "data" BY <1>8, <3>1
      <3> QED BY <1>5, <3>1, <3>2, <3>5, <3>6
    <2>3. ASSUME AtDownload PROVE met' = Upto(i)
      <3>1. met = Upto(i) BY <1>2, <2>3, RequestUnderWay
      <3>2. pc = "wait" /\ ask = "again" BY <1>4, <2>3 DEF AtDownload
      <3> QED BY <1>9, <3>1, <3>2
    <2> QED BY <1>2, <2>1, <2>2, <2>3 DEF InStep, AtCommand, AtDownload, AtReboot
  <1>11. ASSUME skipped, pc = "command" \/ AtCommand
         PROVE  /\ AtCommand /\ fw[i].type = "download" /\ toDev' = << >>
                /\ \/ FlightTo(Late, "DATA")' /\ dev' = Busy(i)
                   \/ Flight(Late)' /\ dev' = Idle
    <2>1. request.what \notin Plain BY <1>1 DEF Plain
    <2>2. /\ dev = Idle /\ Flight(Late) /\ AtCommand /\ fw[i].type = "download"
          /\ Pending("download", i)
      BY <1>2, <1>11, <2>1, LateRequests
    <2>3. request.n = i /\ toDev' = << >> BY <1>3, <2>2
    <2>4. "FAIL" \in Late /\ dev.doing # "data" BY <1>8, <2>2 DEF Late
    <2> QED BY <1>5, <2>2, <2>3, <2>4
  <1>12. OutOfStep'
    <2> SUFFICES ASSUME skipped, pc = "command" \/ AtCommand PROVE OutOfStep'
      BY <1>2 DEF OutOfStep, AtCommand
    <2>1. /\ AtCommand /\ fw[i].type = "download" /\ toDev' = << >>
          /\ \/ FlightTo(Late, "DATA")' /\ dev' = Busy(i)
             \/ Flight(Late)' /\ dev' = Idle
      BY <1>11
    <2> QED BY <1>2, <2>1 DEF OutOfStep, AtCommand
  <1>13. DownloadInv'
    <2>1. pc # "command" /\ (AtCommand => fw[i].type = "download")
      <3>1. CASE skipped BY <1>11, <3>1 DEF AtCommand
      <3>2. CASE ~ skipped BY <1>2, <1>3, <3>2, RequestUnderWay
      <3> QED BY <3>1, <3>2
    <2> QED BY <1>2, <1>4, <1>9, <2>1 DEF DownloadInv, AtCommand, AtDownload
  <1> QED BY <1>1, <1>6, <1>7, <1>10, <1>12, <1>13, DevFrame DEF FlowInv

LEMMA DevDataKeeps ==
    ASSUME WebInv, DevTakesData
    PROVE  FlowInv'
  <1>1. /\ DeviceStep /\ request.what = "data" /\ dev.doing = "data"
        /\ dev' = Idle /\ met' = met
    BY DEF DeviceStep, DevTakesData
  <1>2. /\ toDev # << >> /\ toDev' = Tail(toDev)
        /\ pc' = pc /\ i' = i /\ ask' = ask /\ fw' = fw /\ reported' = reported
        /\ slot' = slot /\ rx' = rx /\ skipped' = skipped
    BY <1>1, DevFrame
  <1>3. ASSUME NEW what, NEW n, Pending(what, n) PROVE what = "data" /\ toDev' = << >>
    BY <1>1, <1>2, <1>3, OneRequest
  <1>4. /\ pc \notin Before \cup {"again", "data", "command"} /\ ~ AtHello /\ ~ AtCommand
        /\ ~ (pc = "wait" /\ ask = "again")
    <2>1. pc \notin Before \cup {"again", "data"} BY <1>2, RequestUnderWay
    <2>2. ~ AtHello BY <1>2, <1>3, RequestUnderWay
    <2>3. ~ (pc = "wait" /\ ask = "again") BY <1>2, <1>3, RequestUnderWay
    <2>4. pc # "command" /\ ~ AtCommand
      <3>1. CASE skipped
        <4>1. request.what \notin Plain BY <1>1 DEF Plain, Types
        <4> QED BY <1>2, <1>3, <3>1, <4>1, LateRequests
      <3>2. CASE ~ skipped
        <4>1. pc # "command" BY <1>2, <3>2, RequestUnderWay
        <4>2. AtCommand => fw[i].type = "data" BY <1>2, <1>3, <3>2, RequestUnderWay
        <4>3. AtCommand => i \in 1 .. Len(fw) BY DEF WebInv, FlowInv, PlaceInv
        <4> QED BY <4>1, <4>2, <4>3, FlashTyped DEF Types
      <3> QED BY <3>1, <3>2
    <2> QED BY <2>1, <2>2, <2>3, <2>4
  <1>5. PlaceInv'
    BY <1>2, <1>4 DEF WebInv, FlowInv, PlaceInv, Before, AtCommand, AtDownload, AtHello, AtReboot
  <1>6. HelloInv' BY <1>2, <1>4 DEF HelloInv, AtHello, Before
  <1>7. InStep'
    <2>1. ~ skipped => /\ ~ AtReboot /\ reported # "completed"
                       /\ AtDownload => met = Upto(i)
      BY <1>2, <1>3, RequestUnderWay
    <2> QED BY <1>1, <1>2, <1>4, <2>1 DEF InStep, AtCommand, AtDownload, AtReboot
  <1>8. OutOfStep' BY <1>2, <1>4 DEF OutOfStep, AtCommand
  <1>9. DownloadInv'
    <2> SUFFICES ASSUME pc = "wait", ask = "data"
                 PROVE  /\ toDev' = << >>
                        /\ \/ FlightTo({}, "OKAY")' /\ i \in taken'
                           \/ (FlightTo({}, "FAIL")' \/ Flight({})') /\ trouble'
      BY <1>1, <1>2, <1>4 DEF DownloadInv, AtCommand, AtDownload
    <2>1. Pending("data", i) /\ Flight({}) /\ dev = Busy(i) BY <1>2, RequestUnderWay
    <2>2. toDev' = << >> BY <1>3, <2>1
    <2>3. dev.n = i BY <2>1 DEF Busy
    <2>4. \/ Told("OKAY") /\ i \in taken'
          \/ Refuse /\ trouble'
          \/ Mute /\ trouble'
      BY <2>3 DEF DevTakesData, Refuse, Mute
    <2>5. DevTypes /\ "OKAY" \in Answers BY FlashTyped DEF Answers
    <2> QED BY <1>2, <2>1, <2>2, <2>4, <2>5, DevAnswers
  <1> QED BY <1>1, <1>5, <1>6, <1>7, <1>8, <1>9, DevFrame DEF FlowInv

-----------------------------------------------------------------------------
LEMMA InitWebInv == AnswerFirst /\ Init => WebInv
  <1> SUFFICES ASSUME AnswerFirst, Init PROVE WebInv
    OBVIOUS
  <1>1. FlashTypes
    <2>1. NoFile \in Files BY FileFacts
    <2>2. Start \in [n : 0 .. Len(Firmware) + 1, k : 1 .. 6] BY FirmwareFacts DEF Start, Place
    <2>3. << >> \in Seq(Commands) /\ Len(<< >>) = 0 OBVIOUS
    <2> QED BY <2>1, <2>2, <2>3 DEF Init, FlashTypes
  <1>2. HubTypes BY WatchAssumption DEF Init, HubTypes, Speakers
  <1>3. DevTypes
    <2>1. dev \in [doing : {"idle", "data"}, n : 0 .. Len(Firmware)]
      BY FirmwareFacts DEF Init, Idle
    <2>2. toHost \in Seq(Answers)
      <3>1. LeftOver \subseteq Answers BY DEF LeftOver, Answers
      <3>2. PICK n \in 0 .. MaxLeft : toHost \in [1 .. n -> LeftOver] BY DEF Init
      <3>3. n \in Nat BY WatchAssumption
      <3>4. toHost \in [1 .. n -> Answers] BY <3>1, <3>2
      <3> QED BY <3>3, <3>4
    <2>3. toDev \in Seq(Requests) /\ met \in Seq(0 .. Len(Firmware)) BY EmptySeq DEF Init
    <2>4. taken \subseteq 0 .. Len(Firmware) /\ skipped \in BOOLEAN /\ trouble \in BOOLEAN
          /\ twice \in BOOLEAN
      BY DEF Init
    <2> QED BY <2>1, <2>2, <2>3, <2>4 DEF DevTypes
  <1>4. Flight(LeftOver)
    <2>1. PICK n \in 0 .. MaxLeft : toHost \in [1 .. n -> LeftOver] BY DEF Init
    <2>2. \A k \in DOMAIN toHost : toHost[k] \in LeftOver BY <2>1
    <2> QED BY <2>2 DEF Init, Flight
  <1>5. ReadIsPrefix
    <2>1. Len(fw) = 0 BY DEF Init
    <2> QED BY <2>1, FirmwareFacts DEF ReadIsPrefix
  <1>6. PlaceInv /\ ReaderInv
    BY DEF Init, PlaceInv, ReaderInv, Before, AtCommand, AtDownload, AtHello, AtReboot
  <1>7. HelloInv BY <1>4 DEF Init, HelloInv, AtHello
  <1>8. InStep /\ OutOfStep /\ DownloadInv
    BY DEF Init, InStep, OutOfStep, DownloadInv, AtCommand, AtDownload, AtReboot
  <1>9. TakenInv
    <2>1. \A k \in 1 .. Len(fw) : ~ k < i BY DEF Init
    <2> QED BY <2>1 DEF TakenInv
  <1>10. ErrorHasCause /\ SkipHasCause BY DEF Init, ErrorHasCause, SkipHasCause
  <1> QED BY <1>1, <1>2, <1>3, <1>5, <1>6, <1>7, <1>8, <1>9, <1>10 DEF WebInv, TypeOK, FlowInv

LEMMA StepKeepsWebInv == WebInv /\ [Next]_vars => WebInv'
  <1> SUFFICES ASSUME WebInv, [Next]_vars PROVE WebInv'
    OBVIOUS
  <1>1. CASE FlashStep
    <2>1. TypeOK'
      BY <1>1, FlashKeepsFlashTypes, FlashKeepsHubTypes, FlashKeepsDevTypes DEF WebInv, FlowInv, TypeOK
    <2>2. FlowInv'
      <3>1. CASE OpenFails
        <4>1. Fail /\ trouble' /\ fw' = fw BY <3>1 DEF OpenFails, readVars
        <4> QED BY <4>1, FailKeeps
      <3>2. CASE ParseFails
        <4>1. Fail /\ trouble' /\ fw' = << >> BY <3>2 DEF ParseFails
        <4> QED BY <4>1, FailKeeps
      <3> QED
        BY <1>1, <3>1, <3>2, OpenKeeps, HelloKeeps, ParseKeeps, ParseEndKeeps, SendCommandKeeps,
           SendRebootKeeps, SendAgainKeeps, AnsweredKeeps, GiveUpKeeps, CloseKeeps DEF FlashStep
    <2> QED BY <2>1, <2>2 DEF WebInv
  <1>2. CASE RxStep BY <1>2, RxKeeps, RxKeepsTypes DEF WebInv
  <1>3. CASE HubStep \/ \E c \in Watchers :
               HandlerStep(c) \/ Connect(c) \/ Leave(c) \/ Stall(c) \/ ReadOn(c)
    <2>1. HubTypes' /\ UNCHANGED <<flashVars, slot, rx, devVars, skipped, trouble, twice>>
      BY <1>3, HubKeepsTypes DEF WebInv
    <2>2. FlowInv' /\ FlashTypes' /\ DevTypes' BY <2>1, WatchKeeps
    <2> QED BY <2>1, <2>2 DEF WebInv, TypeOK
  <1>4. CASE DeviceStep
    <2>1. TypeOK' BY <1>4, DevKeepsTypes DEF WebInv
    <2>2. FlowInv'
      BY <1>4, DevHelloKeeps, DevCommandKeeps, DevDownloadKeeps, DevDataKeeps DEF DeviceStep
    <2> QED BY <2>1, <2>2 DEF WebInv
  <1>5. CASE UNCHANGED vars
    <2>1. UNCHANGED <<flashVars, slot, rx, devVars, skipped, trouble, twice>> BY <1>5 DEF vars
    <2>2. HubTypes' BY <1>5 DEF WebInv, TypeOK, HubTypes, vars, hubVars, webVars
    <2>3. FlowInv' /\ FlashTypes' /\ DevTypes' BY <2>1, WatchKeeps
    <2> QED BY <2>2, <2>3 DEF WebInv, TypeOK
  <1> QED BY <1>1, <1>2, <1>3, <1>4, <1>5 DEF Next, Over

LEMMA WebInvCompleted == WebInv => CompletedMeansTaken
  <1> SUFFICES ASSUME WebInv, reported = "completed"
               PROVE  /\ \A k \in 1 .. Len(fw) : fw[k].type = "download" => fw[k].n \in taken
                      /\ LET order == [k \in 1 .. Len(fw) |-> fw[k].n]
                         IN ~ skipped => met \in {order, Append(order, 0)}
    BY DEF CompletedMeansTaken
  <1>1. i = Len(fw) + 1 BY DEF WebInv, FlowInv, PlaceInv
  <1>2. \A k \in 1 .. Len(fw) : fw[k].n = k BY FlashTyped
  <1>3. ASSUME NEW k \in 1 .. Len(fw), fw[k].type = "download" PROVE fw[k].n \in taken
    <2>1. k < i BY <1>1, FlashTyped
    <2>2. k \in taken BY <1>3, <2>1 DEF WebInv, FlowInv, TakenInv
    <2> QED BY <1>2, <2>2
  <1>4. [k \in 1 .. Len(fw) |-> fw[k].n] = Upto(Len(fw)) BY <1>2 DEF Upto
  <1>5. ~ skipped => met \in {Upto(Len(fw)), Append(Upto(Len(fw)), 0)}
    BY DEF WebInv, FlowInv, InStep
  <1> QED BY <1>3, <1>4, <1>5

THEOREM WebInvariant == AnswerFirst /\ Spec => []WebInv
  <1> QED BY InitWebInv, StepKeepsWebInv, PTL DEF Spec

-----------------------------------------------------------------------------
(* Every variable has the shape of what it stands for, whatever the        *)
(* firmware and however many watch.                                        *)
THEOREM WebFlashTypeCorrect == AnswerFirst /\ Spec => []TypeOK
  <1>1. WebInv => TypeOK BY DEF WebInv
  <1> QED BY <1>1, WebInvariant, PTL

(* Of a file in which an answer line follows every download command, which *)
(* is what the parser expects, ParseCraneFirmware (firmware.go:52-115)     *)
(* reads a beginning of the commands, in order, wherever the copy ends.    *)
THEOREM ReadsBeginning == AnswerFirst /\ Spec => []ReadIsPrefix
  <1>1. WebInv => ReadIsPrefix BY DEF WebInv, FlowInv
  <1> QED BY <1>1, WebInvariant, PTL

(* A flash reported as completed got every download to the device and,     *)
(* unless a nop was given up, every command once and in order              *)
(* (firmware.go:139-182).                                                  *)
THEOREM CompletedIsTaken == AnswerFirst /\ Spec => []CompletedMeansTaken
  <1> QED BY WebInvCompleted, WebInvariant, PTL

(* A flash is reported as failed only when something outside the program   *)
(* went wrong or the device did not take the download command that is sent *)
(* to it a second time (firmware.go:170-182): what an earlier flash has    *)
(* left on its way, however much, fails none.                              *)
THEOREM ErrorsHaveCauses == AnswerFirst /\ Spec => []ErrorHasCause
  <1>1. WebInv => ErrorHasCause BY DEF WebInv, FlowInv
  <1> QED BY <1>1, WebInvariant, PTL
=============================================================================
