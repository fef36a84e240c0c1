---------------------------- MODULE SerialJobsProofs ----------------------------
(***************************************************************************)
(* Proofs about SerialJobs, for any jobs, names of files, lengths of files *)
(* and of chunks.                                                          *)
(*                                                                         *)
(* A job that was alone on the port has it for itself until it closes it   *)
(* (AloneInv), so that nobody else writes the file, and what it has yet to *)
(* run completes it (FileInv).  An inode is known by one name only         *)
(* (NameInv), so that nobody else touches the temporary file of a job that *)
(* does not share its name, and it holds what was sent unless saving it    *)
(* went wrong (OwnInv).  Whoever is told that the device is in the raw     *)
(* REPL leaves it or loses its ^B; who is not told so was failed by the    *)
(* device or had company (BannerInv, ReplInv).                             *)
(***************************************************************************)
EXTENDS SerialJobs, TLAPS, SequenceTheorems

-----------------------------------------------------------------------------
(* The inductive invariant. *)

Raw    == {"banner", "read", "start", "run", "report", "exit"}
OnPort == {"at", "at-read", "interrupt", "enter"} \cup Raw
Ended  == {"exit", "close", "done"}

(* Who is at work has the port open, and only a job that is over has       *)
(* reported.                                                               *)
PortInv ==
    \A j \in Jobs :
        /\ pc[j] \in OnPort => j \in ports
        /\ status[j] # "none" => pc[j] \in Ended
        /\ pc[j] \in {"interrupt", "enter"} \cup Raw => kind[j] # "at"
        /\ pc[j] = "save" \/ handler[j] = "returning" => kind[j] = "upload"
        /\ pc[j] \in {"new", "save"} => handler[j] = "none"

(* A job that was alone on the port has it still for itself. *)
AloneInv == \A j \in Jobs : j \in ports /\ alone[j] => ports = {j}

(* What it is told is for it. *)
BannerInv ==
    \A j \in Jobs : pc[j] = "banner" /\ alone[j] /\ ~ failed[j] => "raw REPL" \in out

(* Who will leave the raw REPL, or may have failed to.                     *)
Spoiled(j) == j \in lost \/ (status[j] = "error" /\ (failed[j] \/ ~ alone[j]))

ReplInv == repl = "raw" => \E j \in Jobs : pc[j] \in Raw \/ Spoiled(j)

(* An inode is never known by two names.                                   *)
NameInv ==
    /\ \A n \in Names \cup {Script} :
         /\ tmp[n] \in Jobs => name[tmp[n]] = n
         /\ tmp[n] = Script => n = Script
    /\ \A j \in Jobs :
         /\ fd[j] \in Jobs => name[fd[j]] = name[j]
         /\ fd[j] = Script => name[j] = Script
         /\ pc[j] = "new" => fd[j] = Gone

Sole(j) == \A k \in Jobs \ {j} : kind[k] # "at" => Local(k) # Local(j)

Author(j) == IF kind[j] = "verify" THEN Script ELSE j

Reading   == {"open", "interrupt", "enter", "banner", "read"}
HasRead(j) == pc[j] \in {"start", "run", "report"} \/ (pc[j] = "exit" /\ status[j] = "completed")

(* What a job with a temporary file for itself finds in it is what was     *)
(* sent, if it was saved whole.                                            *)
OwnInv ==
    \A j \in Jobs : Sole(j) /\ j \notin torn =>
        /\ kind[j] = "verify" => tmp[Script] = Script /\ disk[Script] = Whole(Script)
        /\ pc[j] = "save" /\ fd[j] # Gone => tmp[name[j]] = fd[j]
        /\ kind[j] = "upload" /\ pc[j] \in Reading =>
             tmp[name[j]] = Gone \/ (tmp[name[j]] # Gone /\ disk[tmp[name[j]]] = Whole(j))
        /\ HasRead(j) => local[j] = Whole(Author(j))

(* How much of the data m chunks are. *)
UpTo(data, m) == IF m * ChunkLen > Len(data) THEN Len(data) ELSE m * ChunkLen

(* What the device has made of the first m commands. *)
Ran(remote, data, m) ==
    m > 0 =>
      IF m <= Len(Chunks(data)) + 1
        THEN f = remote /\ files[remote] = SubSeq(data, 1, UpTo(data, m - 1))
        ELSE files[remote] = data

(* The first m commands are run, the others are still to run. *)
Midway(remote, data, left, m) ==
    /\ left = SubSeq(Commands(remote, data), m + 1, Len(Chunks(data)) + 3)
    /\ Ran(remote, data, m)

(* The commands a job has yet to run complete the file. *)
OnFile(j) ==
    /\ pc[j] \in {"start", "run"} =>
         \E m \in 0 .. Len(Chunks(local[j])) + 2 : Midway(Remote(j), local[j], todo[j], m)
    /\ pc[j] = "report" \/ (pc[j] = "exit" /\ status[j] = "completed")
         => files[Remote(j)] = local[j]

FileInv == \A j \in Jobs : alone[j] /\ ~ failed[j] => OnFile(j)

SerialInv ==
    /\ TypeOK /\ PortInv /\ AloneInv /\ BannerInv /\ ReplInv
    /\ NameInv /\ OwnInv /\ FileInv

-----------------------------------------------------------------------------
(* The sizes, and who the jobs are not. *)
LEMMA SerialFacts ==
    /\ FileLen \in Nat /\ ChunkLen \in Nat /\ ChunkLen > 0
    /\ \A j \in Jobs : j # Script /\ j # Gone /\ j # Free
    /\ Script # Gone /\ Closed \notin Names \cup {Main}
  BY SerialAssumption DEF Script, Gone, Free, Closed, Main

(* Rounding up. *)
LEMMA DivUp ==
    ASSUME NEW a \in Nat, NEW b \in Nat, b > 0
    PROVE  /\ (a + b - 1) \div b \in Nat
           /\ ((a + b - 1) \div b) * b >= a
           /\ ((a + b - 1) \div b - 1) * b < a
  OBVIOUS

LEMMA UpToFacts ==
    ASSUME NEW data \in Seq(Digits), NEW m \in Nat
    PROVE  /\ m * ChunkLen \in Nat /\ UpTo(data, m) \in 0 .. Len(data)
           /\ m * ChunkLen <= Len(data) => UpTo(data, m) = m * ChunkLen
           /\ m * ChunkLen >= Len(data) => UpTo(data, m) = Len(data)
  <1>1. Len(data) \in Nat /\ ChunkLen \in Nat BY SerialFacts
  <1>2. m * ChunkLen \in Nat BY <1>1
  <1> QED BY <1>1, <1>2 DEF UpTo

(* The chunks divide the data, and the last one ends with it. *)
LEMMA ChunksFacts ==
    ASSUME NEW data \in Seq(Digits)
    PROVE  /\ Chunks(data) \in Seq(Seq(Digits)) /\ Len(Chunks(data)) \in Nat
           /\ UpTo(data, Len(Chunks(data))) = Len(data)
           /\ \A i \in 1 .. Len(Chunks(data)) :
                /\ (i - 1) * ChunkLen <= Len(data)
                /\ UpTo(data, i - 1) = (i - 1) * ChunkLen
                /\ UpTo(data, i - 1) <= UpTo(data, i)
                /\ Chunks(data)[i] = SubSeq(data, UpTo(data, i - 1) + 1, UpTo(data, i))
  <1> DEFINE n == (Len(data) + ChunkLen - 1) \div ChunkLen
  <1>1. Len(data) \in Nat /\ ChunkLen \in Nat /\ ChunkLen > 0 BY SerialFacts
  <1>2. n \in Nat /\ n * ChunkLen >= Len(data) /\ (n - 1) * ChunkLen < Len(data) BY <1>1, DivUp
  <1>3. Chunks(data) = [i \in 1 .. n |-> SubSeq(data, (i - 1) * ChunkLen + 1, UpTo(data, i))]
    BY Zenon DEF Chunks, UpTo
  <1> HIDE DEF n
  <1>4. ASSUME NEW i \in 1 .. n
        PROVE  /\ (i - 1) * ChunkLen <= Len(data)
               /\ UpTo(data, i - 1) = (i - 1) * ChunkLen
               /\ UpTo(data, i - 1) <= UpTo(data, i)
               /\ UpTo(data, i - 1) + 1 = (i - 1) * ChunkLen + 1
               /\ SubSeq(data, (i - 1) * ChunkLen + 1, UpTo(data, i)) \in Seq(Digits)
    <2>1. i \in Nat /\ i - 1 \in Nat /\ i - 1 <= n - 1 BY <1>2, <1>4
    <2>2. (i - 1) * ChunkLen \in Nat /\ (i - 1) * ChunkLen <= (n - 1) * ChunkLen BY <1>1, <1>2, <2>1
    <2>3. (i - 1) * ChunkLen <= Len(data) BY <1>1, <1>2, <2>1, <2>2
    <2>4. UpTo(data, i - 1) = (i - 1) * ChunkLen BY <2>1, <2>3, UpToFacts
    <2>5. (i - 1) * ChunkLen <= i * ChunkLen /\ i * ChunkLen \in Nat BY <1>1, <2>1
    <2>6. UpTo(data, i - 1) <= UpTo(data, i) BY <1>1, <2>2, <2>3, <2>4, <2>5 DEF UpTo
    <2>7. UpTo(data, i) \in 0 .. Len(data) BY <2>1, UpToFacts
    <2>8. \A k \in (i - 1) * ChunkLen + 1 .. UpTo(data, i) : data[k] \in Digits
      BY <1>1, <2>2, <2>7
    <2>9. SubSeq(data, (i - 1) * ChunkLen + 1, UpTo(data, i)) \in Seq(Digits)
      BY <2>2, <2>7, <2>8, SubSeqProperties
    <2> QED BY <2>3, <2>4, <2>6, <2>9
  <1>5. Chunks(data) \in Seq(Seq(Digits)) /\ Len(Chunks(data)) = n
    <2>1. Chunks(data) \in [1 .. n -> Seq(Digits)] BY <1>3, <1>4
    <2> QED BY <1>2, <2>1
  <1>6. UpTo(data, n) = Len(data) BY <1>2, UpToFacts
  <1>7. \A i \in 1 .. n : Chunks(data)[i] = SubSeq(data, UpTo(data, i - 1) + 1, UpTo(data, i))
    BY <1>3, <1>4
  <1> QED BY <1>2, <1>4, <1>5, <1>6, <1>7

(* Two sequences, one after the other. *)
LEMMA Joined ==
    ASSUME NEW S, NEW s \in Seq(S), NEW t \in Seq(S)
    PROVE  /\ s \o t \in Seq(S) /\ Len(s \o t) = Len(s) + Len(t)
           /\ \A i \in 1 .. Len(s) + Len(t) : (s \o t)[i] = IF i <= Len(s) THEN s[i] ELSE t[i - Len(s)]
  <1>1. s \o t \in Seq(S) /\ Len(s \o t) = Len(s) + Len(t) OBVIOUS
  <1>2. ASSUME NEW i \in 1 .. Len(s) + Len(t)
        PROVE  (s \o t)[i] = IF i <= Len(s) THEN s[i] ELSE t[i - Len(s)]
    OBVIOUS
  <1> QED BY <1>1, <1>2

(* A sequence between one element and two.                                 *)
LEMMA Framed ==
    ASSUME NEW S, NEW x \in S, NEW s \in Seq(S), NEW y \in S, NEW z \in S
    PROVE  /\ <<x>> \o s \o <<y, z>> \in Seq(S)
           /\ Len(<<x>> \o s \o <<y, z>>) = Len(s) + 3
           /\ (<<x>> \o s \o <<y, z>>)[1] = x
           /\ \A i \in 1 .. Len(s) : (<<x>> \o s \o <<y, z>>)[i + 1] = s[i]
           /\ (<<x>> \o s \o <<y, z>>)[Len(s) + 2] = y
           /\ (<<x>> \o s \o <<y, z>>)[Len(s) + 3] = z
  <1> DEFINE a == <<x>>
             e == <<y, z>>
             b == a \o s
             c == b \o e
             n == Len(s)
  <1>1. a \in Seq(S) /\ e \in Seq(S) /\ n \in Nat OBVIOUS
  <1>2. Len(a) = 1 /\ a[1] = x /\ Len(e) = 2 /\ e[1] = y /\ e[2] = z OBVIOUS
  <1> HIDE DEF a, e
  <1>3. b \in Seq(S) /\ Len(b) = Len(a) + n
        /\ \A i \in 1 .. Len(a) + n : b[i] = IF i <= Len(a) THEN a[i] ELSE s[i - Len(a)]
    BY <1>1, Joined
  <1> HIDE DEF b, n
  <1>4. c \in Seq(S) /\ Len(c) = Len(b) + Len(e)
        /\ \A i \in 1 .. Len(b) + Len(e) : c[i] = IF i <= Len(b) THEN b[i] ELSE e[i - Len(b)]
    BY <1>1, <1>3, Joined
  <1> HIDE DEF c
  <1>5. Len(b) = n + 1 /\ Len(c) = n + 3 BY <1>1, <1>2, <1>3, <1>4
  <1>6. \A i \in 1 .. n + 3 : c[i] = IF i <= n + 1 THEN b[i] ELSE e[i - (n + 1)]
    BY <1>1, <1>2, <1>4, <1>5
  <1>7. c[1] = x
    <2>1. c[1] = b[1] BY <1>1, <1>6
    <2>2. b[1] = a[1] BY <1>1, <1>2, <1>3
    <2> QED BY <1>2, <2>1, <2>2
  <1>8. ASSUME NEW i \in 1 .. n PROVE c[i + 1] = s[i]
    <2>1. c[i + 1] = b[i + 1] BY <1>1, <1>6
    <2>2. b[i + 1] = s[i] BY <1>1, <1>2, <1>3
    <2> QED BY <2>1, <2>2
  <1>9. c[n + 2] = y /\ c[n + 3] = z
    <2>1. (n + 2) - (n + 1) = 1 /\ (n + 3) - (n + 1) = 2 BY <1>1
    <2> QED BY <1>1, <1>2, <1>6, <2>1
  <1> QED BY <1>4, <1>5, <1>7, <1>8, <1>9 DEF a, e, b, c, n
(* What is run: the file is opened, the chunks, closed, its size asked.    *)
LEMMA CommandsFacts ==
    ASSUME NEW remote \in Names \cup {Main}, NEW data \in Seq(Digits)
    PROVE  LET n == Len(Chunks(data))
               c == Commands(remote, data)
           IN  /\ c \in Seq(Orders) /\ Len(c) = n + 3 /\ c # << >>
               /\ c[1] = [do |-> "open", file |-> remote]
               /\ \A i \in 1 .. n : c[i + 1] = [do |-> "write", data |-> Chunks(data)[i]]
               /\ c[n + 2] = [do |-> "close"]
               /\ c[n + 3] = [do |-> "size"]
  <1> DEFINE n == Len(Chunks(data))
             x == [do |-> "open", file |-> remote]
             b == [i \in 1 .. n |-> [do |-> "write", data |-> Chunks(data)[i]]]
             y == [do |-> "close"]
             z == [do |-> "size"]
             c == <<x>> \o b \o <<y, z>>
  <1>1. n \in Nat /\ \A i \in 1 .. n : Chunks(data)[i] \in Seq(Digits)
    <2>1. Chunks(data) \in Seq(Seq(Digits)) BY ChunksFacts
    <2> QED BY <2>1
  <1>2. x \in Orders /\ y \in Orders /\ z \in Orders BY DEF Orders
  <1>3. b \in Seq(Orders) /\ Len(b) = n /\ \A i \in 1 .. n : b[i] = [do |-> "write", data |-> Chunks(data)[i]]
    <2>1. \A i \in 1 .. n : [do |-> "write", data |-> Chunks(data)[i]] \in Orders BY <1>1 DEF Orders
    <2>2. b \in [1 .. n -> Orders] BY <2>1
    <2>3. b \in Seq(Orders) /\ Len(b) = n
      <3> HIDE DEF b
      <3> QED BY <1>1, <2>2
    <2> QED BY <2>3
  <1>4. Commands(remote, data) = c BY Zenon DEF Commands
  <1> HIDE DEF x, y, z, b
  <1>5. /\ c \in Seq(Orders) /\ Len(c) = Len(b) + 3 /\ c[1] = x
        /\ \A i \in 1 .. Len(b) : c[i + 1] = b[i]
        /\ c[Len(b) + 2] = y /\ c[Len(b) + 3] = z
    BY <1>2, <1>3, Framed
  <1> HIDE DEF c, n
  <1>6. c # << >> BY <1>1, <1>3, <1>5
  <1> QED BY <1>3, <1>4, <1>5, <1>6 DEF x, y, z, n

-----------------------------------------------------------------------------
(* Every variable keeps its shape. *)

LEMMA WholeFacts ==
    ASSUME NEW owner \in Owners
    PROVE  Whole(owner) \in Seq(Digits) /\ Len(Whole(owner)) = FileLen
  <1>1. Whole(owner) \in [1 .. FileLen -> Digits] BY DEF Whole, Digits
  <1> QED BY <1>1, SerialFacts

(* A file saved in part holds digits. *)
LEMMA BeginningFacts ==
    ASSUME NEW owner \in Owners, NEW saved \in Beginnings(owner)
    PROVE  saved \in Seq(Digits)
  <1>1. PICK m \in 0 .. FileLen : saved = [n \in 1 .. m |-> [of |-> owner, n |-> n]]
    BY DEF Beginnings
  <1>2. saved \in [1 .. m -> Digits] BY <1>1, SerialFacts DEF Digits
  <1> QED BY <1>2, SerialFacts

LEMMA TailFacts ==
    ASSUME NEW S, NEW s \in Seq(S), s # << >>
    PROVE  /\ Len(s) \in Nat \ {0} /\ Head(s) = s[1] /\ s[1] \in S
           /\ Tail(s) \in Seq(S) /\ Len(Tail(s)) = Len(s) - 1
           /\ Tail(s) = << >> <=> Len(s) = 1
  <1>1. /\ Len(s) \in Nat \ {0} /\ Head(s) = s[1] /\ s[1] \in S
        /\ Tail(s) \in Seq(S) /\ Len(Tail(s)) = Len(s) - 1
    BY HeadTailProperties, EmptySeq
  <1>2. Tail(s) = << >> <=> Len(Tail(s)) = 0 BY <1>1, EmptySeq
  <1> QED BY <1>1, <1>2

(* Names and data of a job that has one. *)
LEMMA JobFacts ==
    ASSUME JobTypes, NEW j \in Jobs, kind[j] # "at"
    PROVE  /\ kind[j] \in {"upload", "verify"}
           /\ Local(j) \in Names \cup {Script} /\ Remote(j) \in Names \cup {Main}
           /\ kind[j] = "upload" => name[j] \in Names
  BY SerialAssumption DEF JobTypes, Local, Remote

(* An order is run. *)
LEMMA RunsFacts ==
    ASSUME DevTypes, NEW c \in Orders, Runs(c)
    PROVE  files' \in [Names \cup {Main} -> Seq(Digits)] /\ f' \in Names \cup {Main, Closed}
  <1>1. CASE c \in [do : {"open"}, file : Names \cup {Main}]
    <2>1. c.do = "open" /\ c.file \in Names \cup {Main} BY <1>1
    <2>2. f' = c.file /\ files' = [files EXCEPT ![c.file] = << >>] BY <2>1 DEF Runs
    <2>3. << >> \in Seq(Digits) OBVIOUS
    <2>4. files' \in [Names \cup {Main} -> Seq(Digits)] BY <2>1, <2>2, <2>3, Zenon DEF DevTypes
    <2> QED BY <2>1, <2>2, <2>4
  <1>2. CASE c \in [do : {"write"}, data : Seq(Digits)] /\ f # Closed
    <2>1. files' = [files EXCEPT ![f] = @ \o c.data] /\ f' = f BY <1>2 DEF Runs
    <2>2. f \in Names \cup {Main} BY <1>2 DEF DevTypes
    <2>3. files[f] \in Seq(Digits) /\ c.data \in Seq(Digits) BY <1>2, <2>2 DEF DevTypes
    <2>4. files[f] \o c.data \in Seq(Digits) BY <2>3
    <2> QED BY <2>1, <2>2, <2>4 DEF DevTypes
  <1>3. CASE c \in [do : {"write"}, data : Seq(Digits)] /\ f = Closed
    BY <1>3 DEF Runs, DevTypes
  <1>4. CASE c \in [do : {"close", "size"}]
    BY <1>4 DEF Runs, DevTypes
  <1> QED BY <1>1, <1>2, <1>3, <1>4 DEF Orders

LEMMA StepJobTypes ==
    ASSUME TypeOK, NEW j \in Jobs, Request(j) \/ JobStep(j) \/ Return(j)
    PROVE  JobTypes'
  <1> USE DEF TypeOK, JobTypes, Goto, Report, given
  <1>1. CASE UploadRequest(j) \/ CreateFails(j) \/ VerifyRequest(j) \/ Refuse(j)
    BY <1>1 DEF UploadRequest, CreateFails, VerifyRequest, Refuse
  <1>2. CASE AtRequest(j) BY <1>2 DEF AtRequest
  <1>3. CASE Save(j) \/ Return(j) BY <1>3 DEF Save, Return
  <1>4. CASE Open(j) BY <1>4 DEF Open
  <1>5. CASE OpenFails(j) \/ Banner(j) \/ NoFile(j) BY ZenonT(60), <1>5 DEF OpenFails, Banner, NoFile
  <1>6. CASE AtWrite(j) \/ AtWriteFails(j) \/ AtRead(j) BY <1>6 DEF AtWrite, AtWriteFails, AtRead
  <1>7. CASE Interrupt(j) \/ EnterRaw(j) BY <1>7 DEF Interrupt, EnterRaw
  <1>8. CASE ReadFile(j) \/ ExecStart(j) BY <1>8 DEF ReadFile, ExecStart
  <1>9. CASE ExecRun(j) BY <1>9 DEF ExecRun
  <1>10. CASE Complete(j) \/ Exit(j) BY <1>10 DEF Complete, Exit
  <1>11. CASE Close(j) BY <1>11 DEF Close, Free
  <1> QED BY <1>1, <1>2, <1>3, <1>4, <1>5, <1>6, <1>7, <1>8, <1>9, <1>10, <1>11 DEF Request, JobStep

LEMMA StepTmpTypes ==
    ASSUME TypeOK, NEW j \in Jobs, Request(j) \/ JobStep(j) \/ Return(j)
    PROVE  TmpTypes'
  <1> USE DEF TypeOK, JobTypes, TmpTypes, Owners
  <1>1. CASE UploadRequest(j) BY <1>1, SerialFacts DEF UploadRequest
  <1>2. CASE Save(j)
    <2>1. torn' \subseteq Jobs /\ UNCHANGED <<tmp, fd>> BY <1>2 DEF Save
    <2>2. disk' \in [Owners -> Seq(Digits)]
      <3>1. CASE UNCHANGED disk BY <3>1
      <3>2. ASSUME NEW saved \in Beginnings(j), disk' = [disk EXCEPT ![fd[j]] = saved] PROVE disk' \in [Owners -> Seq(Digits)]
        <4>1. saved \in Seq(Digits) BY BeginningFacts
        <4> QED BY <3>2, <4>1
      <3> QED BY <1>2, <3>1, <3>2 DEF Save
    <2> QED BY <2>1, <2>2
  <1>3. CASE Return(j) BY <1>3 DEF Return
  <1>4. CASE UNCHANGED tmpVars BY <1>4 DEF tmpVars
  <1> QED BY <1>1, <1>2, <1>3, <1>4 DEF Request, JobStep, CreateFails, VerifyRequest, AtRequest, Refuse,
       Open, OpenFails, Close, AtWrite, AtWriteFails, AtRead, Interrupt, EnterRaw, Banner, ReadFile, NoFile,
       ExecStart, ExecRun, Complete, Exit

LEMMA StepOrderTypes ==
    ASSUME TypeOK, PortInv, NEW j \in Jobs, Request(j) \/ JobStep(j) \/ Return(j)
    PROVE  OrderTypes'
  <1> USE DEF TypeOK, JobTypes, OrderTypes, Goto
  <1>1. CASE ReadFile(j)
    <2>1. kind[j] # "at" BY <1>1 DEF ReadFile, PortInv, Raw
    <2>2. tmp[Local(j)] \in Owners BY <1>1, <2>1, JobFacts DEF ReadFile, TmpTypes
    <2>3. disk[tmp[Local(j)]] \in Seq(Digits) BY <2>2 DEF TmpTypes
    <2>4. /\ Commands(Remote(j), disk[tmp[Local(j)]]) \in Seq(Orders)
          /\ Commands(Remote(j), disk[tmp[Local(j)]]) # << >>
      <3>1. Remote(j) \in Names \cup {Main} BY <2>1, JobFacts
      <3>2. ASSUME NEW remote \in Names \cup {Main}, NEW d \in Seq(Digits)
            PROVE  Commands(remote, d) \in Seq(Orders) /\ Commands(remote, d) # << >>
        BY ONLY <3>2, CommandsFacts, ZenonT(60)
      <3> QED BY <2>3, <3>1, <3>2, ZenonT(60)
    <2> QED BY <1>1, <2>3, <2>4 DEF ReadFile
  <1>2. CASE ExecRun(j)
    <2>1. todo[j] # << >> /\ todo[j] \in Seq(Orders) BY <1>2 DEF ExecRun
    <2>2. Tail(todo[j]) \in Seq(Orders) /\ (Tail(todo[j]) = << >> <=> Len(todo[j]) = 1)
      BY <2>1, TailFacts
    <2> QED BY <1>2, <2>2 DEF ExecRun
  <1>3. CASE Close(j) BY <1>3 DEF Close
  <1>4. CASE Return(j) BY <1>4 DEF Return
  <1>5. CASE /\ UNCHANGED <<local, todo>> /\ (pc[j] \in {"start", "run"} <=> pc'[j] \in {"start", "run"})
             /\ \A k \in Jobs \ {j} : pc'[k] = pc[k]
    BY <1>5
  <1>6. CASE Request(j)
    <2>1. /\ UNCHANGED <<local, todo>> /\ (pc[j] \in {"start", "run"} <=> pc'[j] \in {"start", "run"})
          /\ \A k \in Jobs \ {j} : pc'[k] = pc[k]
      BY <1>6 DEF Request, UploadRequest, CreateFails, VerifyRequest, AtRequest, Refuse
    <2> QED BY <1>5, <2>1
  <1>7. CASE Save(j) \/ Open(j) \/ OpenFails(j) \/ AtWrite(j) \/ AtWriteFails(j) \/ AtRead(j)
    <2>1. /\ UNCHANGED <<local, todo>> /\ (pc[j] \in {"start", "run"} <=> pc'[j] \in {"start", "run"})
          /\ \A k \in Jobs \ {j} : pc'[k] = pc[k]
      BY <1>7 DEF Save, Open, OpenFails, AtWrite, AtWriteFails, AtRead
    <2> QED BY <1>5, <2>1
  <1>8. CASE Interrupt(j) \/ EnterRaw(j) \/ Banner(j) \/ NoFile(j) \/ ExecStart(j) \/ Complete(j) \/ Exit(j)
    <2>1. /\ UNCHANGED <<local, todo>> /\ (pc[j] \in {"start", "run"} <=> pc'[j] \in {"start", "run"})
          /\ \A k \in Jobs \ {j} : pc'[k] = pc[k]
      BY ZenonT(60), <1>8 DEF Interrupt, EnterRaw, Banner, NoFile, ExecStart, Complete, Exit
    <2> QED BY <1>5, <2>1
  <1> QED BY <1>1, <1>2, <1>3, <1>4, <1>6, <1>7, <1>8 DEF JobStep

LEMMA StepDevTypes ==
    ASSUME TypeOK, NEW j \in Jobs, Request(j) \/ JobStep(j) \/ Return(j)
    PROVE  DevTypes' /\ FlagTypes'
  <1> USE DEF TypeOK, DevTypes, FlagTypes
  <1>1. CASE AtWrite(j) \/ AtRead(j) BY <1>1 DEF AtWrite, AtRead
  <1>2. CASE Interrupt(j) \/ Banner(j) BY <1>2 DEF Interrupt, Banner
  <1>3. CASE EnterRaw(j) BY <1>3 DEF EnterRaw
  <1>4. CASE ExecStart(j) \/ Exit(j) BY <1>4 DEF ExecStart, Exit
  <1>5. CASE ExecRun(j)
    <2>1. Head(todo[j]) \in Orders
      <3>1. todo[j] \in Seq(Orders) /\ todo[j] # << >> BY <1>5 DEF ExecRun, OrderTypes
      <3>2. Head(todo[j]) = todo[j][1] /\ todo[j][1] \in Orders BY <3>1, TailFacts
      <3> QED BY <3>2
    <2>2. files' \in [Names \cup {Main} -> Seq(Digits)] /\ f' \in Names \cup {Main, Closed}
      <3>1. CASE Runs(Head(todo[j])) BY <2>1, <3>1, RunsFacts
      <3>2. CASE UNCHANGED <<f, files>> BY <3>2
      <3> QED BY <1>5, <3>1, <3>2 DEF ExecRun, DeviceRuns
    <2>3. failed' \in [Jobs -> BOOLEAN] BY <1>5 DEF ExecRun, DeviceRuns
    <2> QED BY <1>5, <2>2, <2>3 DEF ExecRun
  <1>6. CASE Open(j) BY <1>6 DEF Open, devVars
  <1>7. CASE OpenFails(j) \/ AtWriteFails(j) BY <1>7 DEF OpenFails, AtWriteFails, devVars
  <1>8. CASE UNCHANGED <<devVars, alone, failed>> BY <1>8 DEF devVars
  <1> QED BY <1>1, <1>2, <1>3, <1>4, <1>5, <1>6, <1>7, <1>8 DEF Request, JobStep, UploadRequest,
       CreateFails, VerifyRequest, AtRequest, Refuse, Save, Close, ReadFile, NoFile, Complete, Return

LEMMA StepTypeOK ==
    ASSUME TypeOK, PortInv, [Next]_vars
    PROVE  TypeOK'
  <1>1. CASE UNCHANGED vars
    <2> USE <1>1 DEF TypeOK, vars
    <2>1. JobTypes' BY DEF JobTypes, given
    <2>2. TmpTypes' BY DEF TmpTypes, tmpVars
    <2>3. OrderTypes' BY DEF OrderTypes
    <2>4. DevTypes' /\ FlagTypes' BY DEF DevTypes, FlagTypes, devVars
    <2> QED BY <2>1, <2>2, <2>3, <2>4
  <1>2. ASSUME NEW j \in Jobs, Request(j) \/ JobStep(j) \/ Return(j) PROVE TypeOK'
    BY <1>2, StepJobTypes, StepTmpTypes, StepOrderTypes, StepDevTypes DEF TypeOK
  <1>3. CASE Outside
    <2> USE <1>3 DEF TypeOK, Outside
    <2>1. JobTypes' BY DEF JobTypes
    <2>2. TmpTypes' BY DEF TmpTypes, tmpVars
    <2>3. OrderTypes' BY DEF OrderTypes
    <2>4. DevTypes' /\ FlagTypes' BY DEF DevTypes, FlagTypes, devVars
    <2> QED BY <2>1, <2>2, <2>3, <2>4
  <1> QED BY <1>1, <1>2, <1>3 DEF Next

-----------------------------------------------------------------------------
(* The port, the mode of the device and the names of the temporary files. *)

(* A step of one job leaves the others where they are. *)
LEMMA Others ==
    ASSUME TypeOK, NEW j \in Jobs, Request(j) \/ JobStep(j) \/ Return(j), NEW k \in Jobs \ {j}
    PROVE  /\ pc'[k] = pc[k] /\ status'[k] = status[k] /\ failed'[k] = failed[k]
           /\ local'[k] = local[k] /\ todo'[k] = todo[k] /\ UNCHANGED given
  <1> USE DEF TypeOK, JobTypes, OrderTypes, FlagTypes, Goto, Report
  <1>1. CASE Request(j) BY <1>1 DEF Request, UploadRequest, CreateFails, VerifyRequest, AtRequest, Refuse
  <1>2. CASE Save(j) \/ Open(j) \/ OpenFails(j) \/ Close(j) \/ Return(j)
    BY <1>2 DEF Save, Open, OpenFails, Close, Return
  <1>3. CASE AtWrite(j) \/ AtWriteFails(j) \/ AtRead(j) \/ Interrupt(j) \/ EnterRaw(j) \/ Banner(j)
    BY ZenonT(60), <1>3 DEF AtWrite, AtWriteFails, AtRead, Interrupt, EnterRaw, Banner
  <1>4. CASE ReadFile(j) \/ NoFile(j) \/ ExecStart(j) \/ Complete(j) \/ Exit(j)
    BY <1>4 DEF ReadFile, NoFile, ExecStart, Complete, Exit
  <1>5. CASE ExecRun(j) BY <1>5 DEF ExecRun, DeviceRuns
  <1> QED BY <1>1, <1>2, <1>3, <1>4, <1>5 DEF JobStep

(* What went wrong with a file or a ^B has gone wrong for good. *)
LEMMA Kept ==
    ASSUME TypeOK, NEW j \in Jobs, Request(j) \/ JobStep(j) \/ Return(j)
    PROVE  torn \subseteq torn' /\ lost \subseteq lost'
  <1>1. CASE Save(j)
    <2>1. torn \subseteq torn' BY <1>1 DEF Save
    <2>2. UNCHANGED lost BY <1>1 DEF Save, devVars
    <2> QED BY <2>1, <2>2
  <1>2. CASE Exit(j)
    <2>1. lost \subseteq lost' BY <1>2 DEF Exit
    <2>2. UNCHANGED torn BY <1>2 DEF Exit, tmpVars
    <2> QED BY <2>1, <2>2
  <1>3. CASE UNCHANGED <<torn, lost>> BY <1>3
  <1> QED BY <1>1, <1>2, <1>3, Zenon DEF Request, JobStep, UploadRequest, CreateFails, VerifyRequest, AtRequest,
       Refuse, Open, OpenFails, Close, AtWrite, AtWriteFails, AtRead, Interrupt, EnterRaw, Banner, ReadFile,
       NoFile, ExecStart, ExecRun, Complete, Return, tmpVars, devVars

LEMMA StepPortInv ==
    ASSUME TypeOK, PortInv, NEW j \in Jobs, Request(j) \/ JobStep(j) \/ Return(j)
    PROVE  PortInv'
  <1> USE DEF TypeOK, JobTypes, PortInv, OnPort, Raw, Ended, Goto, Report, given
  <1>1. CASE UploadRequest(j) \/ CreateFails(j) \/ VerifyRequest(j) \/ Refuse(j)
    BY <1>1 DEF UploadRequest, CreateFails, VerifyRequest, Refuse
  <1>2. CASE AtRequest(j) BY <1>2 DEF AtRequest
  <1>3. CASE Save(j) \/ Return(j) BY <1>3 DEF Save, Return
  <1>4. CASE Open(j) BY <1>4 DEF Open
  <1>5. CASE OpenFails(j) BY <1>5 DEF OpenFails
  <1>6. CASE AtWrite(j) \/ AtWriteFails(j) \/ AtRead(j) BY <1>6 DEF AtWrite, AtWriteFails, AtRead
  <1>7. CASE Interrupt(j) BY <1>7 DEF Interrupt
  <1>8. CASE EnterRaw(j) BY <1>8 DEF EnterRaw
  <1>9. CASE Banner(j)
    <2>1. pc[j] = "banner" /\ UNCHANGED <<kind, handler, ports>> BY <1>9 DEF Banner
    <2>2. CASE pc' = [pc EXCEPT ![j] = "read"] /\ UNCHANGED status BY <2>1, <2>2
    <2>3. CASE pc' = [pc EXCEPT ![j] = "close"] /\ status' = [status EXCEPT ![j] = "error"]
      BY <2>1, <2>3
    <2> QED BY <1>9, <2>2, <2>3, Zenon DEF Banner
  <1>10. CASE ReadFile(j) \/ NoFile(j) BY <1>10 DEF ReadFile, NoFile
  <1>11. CASE ExecStart(j) BY <1>11 DEF ExecStart
  <1>12. CASE ExecRun(j) BY <1>12 DEF ExecRun
  <1>13. CASE Complete(j) BY <1>13 DEF Complete
  <1>14. CASE Exit(j) BY <1>14 DEF Exit
  <1>15. CASE Close(j) BY <1>15 DEF Close
  <1> QED BY <1>1, <1>2, <1>3, <1>4, <1>5, <1>6, <1>7, <1>8, <1>9, <1>10, <1>11, <1>12, <1>13,
       <1>14, <1>15 DEF Request, JobStep

(* Nobody gets company who was alone. *)
LEMMA NoCompany ==
    ASSUME TypeOK, PortInv, AloneInv, NEW j \in Jobs, Request(j) \/ JobStep(j) \/ Return(j),
           NEW k \in Jobs \ {j}, k \in ports, alone'[k]
    PROVE  alone[k] /\ pc[j] \notin OnPort /\ UNCHANGED devVars
  <1>1. alone[k] /\ ~ Open(j)
    <2>1. CASE Open(j)
      <3>1. alone'[k] = (alone[k] /\ k \notin ports) BY <2>1 DEF Open
      <3> QED BY <3>1, Zenon
    <2>2. CASE UNCHANGED alone BY <2>1, <2>2, Zenon
    <2> QED BY <2>1, <2>2, Zenon DEF Request, JobStep, UploadRequest, CreateFails, VerifyRequest, AtRequest, Refuse,
         Save, OpenFails, Close, AtWrite, AtWriteFails, AtRead, Interrupt, EnterRaw, Banner, ReadFile, NoFile,
         ExecStart, ExecRun, Complete, Exit, Return
  <1>2. j \notin ports
    <2>1. ports = {k} BY <1>1, Zenon DEF AloneInv
    <2> QED BY <2>1
  <1>3. pc[j] \notin OnPort BY <1>2, Zenon DEF PortInv
  <1>4. UNCHANGED devVars
    <2>1. CASE Request(j) BY <2>1, Zenon DEF Request, UploadRequest, CreateFails, VerifyRequest, AtRequest, Refuse
    <2>2. CASE Save(j) \/ OpenFails(j) \/ Close(j) \/ Return(j)
      BY <2>2, Zenon DEF Save, OpenFails, Close, Return
    <2>3. CASE JobStep(j) /\ ~ (Save(j) \/ OpenFails(j) \/ Close(j))
      BY <1>1, <1>3, <2>3 DEF JobStep, AtWrite, AtWriteFails, AtRead, Interrupt, EnterRaw, Banner, ReadFile, NoFile,
         ExecStart, ExecRun, Complete, Exit, OnPort, Raw
    <2> QED BY <2>1, <2>2, <2>3, Zenon
  <1> QED BY <1>1, <1>3, <1>4, Zenon

LEMMA StepAloneInv ==
    ASSUME TypeOK, PortInv, AloneInv, NEW j \in Jobs, Request(j) \/ JobStep(j) \/ Return(j)
    PROVE  AloneInv'
  <1>1. SUFFICES ASSUME NEW k \in Jobs, k \in ports', alone'[k] PROVE ports' = {k}
    BY Zenon DEF AloneInv
  <1>2. CASE Open(j)
    <2>1. ports' = ports \cup {j} BY <1>2 DEF Open
    <2>2. CASE k = j
      <3>1. alone'[k] = (ports = {}) BY <1>2, <2>2 DEF Open
      <3>2. ports = {} BY <1>1, <3>1, Zenon
      <3> QED BY <2>1, <2>2, <3>2
    <2>3. CASE k # j
      <3>1. alone'[k] = (alone[k] /\ k \notin ports) BY <1>2, <2>3 DEF Open
      <3>2. k \notin ports BY <1>1, <3>1, Zenon
      <3> QED BY <1>1, <2>1, <2>3, <3>2
    <2> QED BY <2>2, <2>3
  <1>3. CASE Close(j)
    <2>1. ports' = ports \ {j} /\ alone' = alone BY <1>3 DEF Close
    <2>2. alone[k] /\ k \in ports /\ k # j BY <1>1, <2>1
    <2>3. ports = {k} BY <2>2, Zenon DEF AloneInv
    <2> QED BY <2>1, <2>2, <2>3
  <1>4. CASE UNCHANGED <<ports, alone>>
    BY <1>1, <1>4, Zenon DEF AloneInv
  <1> QED BY <1>2, <1>3, <1>4, Zenon DEF Request, JobStep, UploadRequest, CreateFails, VerifyRequest, AtRequest,
       Refuse, Save, OpenFails, AtWrite, AtWriteFails, AtRead, Interrupt, EnterRaw, Banner, ReadFile, NoFile,
       ExecStart, ExecRun, Complete, Exit, Return

LEMMA StepBannerInv ==
    ASSUME TypeOK, PortInv, AloneInv, BannerInv,
           NEW j \in Jobs, Request(j) \/ JobStep(j) \/ Return(j)
    PROVE  BannerInv'
  <1>1. SUFFICES ASSUME NEW k \in Jobs, pc'[k] = "banner", alone'[k], ~ failed'[k]
                 PROVE  "raw REPL" \in out'
    BY Zenon DEF BannerInv
  <1>2. CASE k # j
    <2>1. pc[k] = "banner" /\ failed'[k] = failed[k] BY <1>1, <1>2, Others
    <2>2. k \in ports BY <2>1 DEF PortInv, OnPort, Raw
    <2>3. alone[k] /\ UNCHANGED devVars BY <1>1, <1>2, <2>2, NoCompany, Zenon
    <2>4. "raw REPL" \in out BY <1>1, <2>1, <2>3, Zenon DEF BannerInv
    <2> QED BY <2>3, <2>4 DEF devVars
  <1>3. CASE k = j /\ EnterRaw(j)
    <2>1. failed \in [Jobs -> BOOLEAN] BY DEF TypeOK, FlagTypes
    <2>2. CASE out' = out \cup {"raw REPL"} BY <2>2
    <2>3. CASE failed' = [failed EXCEPT ![j] = TRUE]
      <3>1. failed'[k] = TRUE BY <1>3, <2>1, <2>3
      <3> QED BY <1>1, <3>1, Zenon
    <2> QED BY <1>3, <2>2, <2>3, Zenon DEF EnterRaw
  <1>4. CASE k = j /\ ~ EnterRaw(j)
    <2> USE DEF TypeOK, JobTypes, Goto, PortInv
    <2>1. CASE Request(j) BY <1>1, <1>4, <2>1 DEF Request, UploadRequest, CreateFails, VerifyRequest, AtRequest, Refuse
    <2>2. CASE Save(j) \/ Open(j) \/ OpenFails(j) \/ Close(j) BY ZenonT(60), <1>1, <1>4, <2>2 DEF Save, Open, OpenFails, Close
    <2>3. CASE AtWrite(j) \/ AtWriteFails(j) \/ AtRead(j) \/ Interrupt(j) \/ Banner(j)
      BY <1>1, <1>4, <2>3 DEF AtWrite, AtWriteFails, AtRead, Interrupt, Banner
    <2>4. CASE ReadFile(j) \/ NoFile(j) \/ ExecStart(j) \/ ExecRun(j) \/ Complete(j) \/ Exit(j)
      BY ZenonT(60), <1>1, <1>4, <2>4 DEF ReadFile, NoFile, ExecStart, ExecRun, Complete, Exit
    <2>5. CASE Return(j)
      <3>1. UNCHANGED <<pc, alone, failed, devVars>> BY <2>5, Zenon DEF Return
      <3> QED BY <1>1, <3>1, Zenon DEF BannerInv, devVars
    <2> QED BY <1>4, <2>1, <2>2, <2>3, <2>4, <2>5, Zenon DEF JobStep
  <1> QED BY <1>2, <1>3, <1>4, Zenon

LEMMA StepReplInv ==
    ASSUME TypeOK, PortInv, AloneInv, BannerInv, ReplInv,
           NEW j \in Jobs, Request(j) \/ JobStep(j) \/ Return(j)
    PROVE  ReplInv'
  <1>1. SUFFICES ASSUME repl' = "raw" PROVE \E k \in Jobs : (pc[k] \in Raw)' \/ Spoiled(k)'
    BY Zenon DEF ReplInv
  <1>2. CASE EnterRaw(j) \/ ExecStart(j)
    BY <1>2 DEF EnterRaw, ExecStart, Goto, Raw, TypeOK, JobTypes
  <1>3. CASE ~ (EnterRaw(j) \/ ExecStart(j))
    <2>1. repl = "raw"
      BY <1>1, <1>3 DEF Request, JobStep, UploadRequest, CreateFails, VerifyRequest, AtRequest, Refuse,
         Save, Open, OpenFails, Close, AtWrite, AtWriteFails, AtRead, Interrupt, Banner, ReadFile, NoFile,
         ExecRun, Complete, Exit, Return, devVars
    <2>2. PICK k \in Jobs : pc[k] \in Raw \/ Spoiled(k) BY <2>1, Zenon DEF ReplInv
    <2>3. CASE k # j
      <3>1. pc'[k] = pc[k] /\ status'[k] = status[k] /\ failed'[k] = failed[k] BY <2>3, Others
      <3>2. CASE pc[k] \in Raw BY <3>1, <3>2, Zenon
      <3>3. CASE Spoiled(k)
        <4>1. alone'[k] => alone[k]
          <5>1. CASE Open(j)
            <6>1. alone'[k] = (alone[k] /\ k \notin ports) BY <2>3, <5>1 DEF Open
            <6> QED BY <6>1, Zenon
          <5>2. CASE UNCHANGED alone BY <5>2, Zenon
          <5> QED BY <5>1, <5>2, Zenon DEF Request, JobStep, UploadRequest, CreateFails, VerifyRequest, AtRequest, Refuse,
               Save, OpenFails, Close, AtWrite, AtWriteFails, AtRead, Interrupt, EnterRaw, Banner, ReadFile, NoFile,
               ExecStart, ExecRun, Complete, Exit, Return
        <4>2. k \in lost => k \in lost' BY Kept
        <4> QED BY <3>1, <3>3, <4>1, <4>2, Zenon DEF Spoiled
      <3> QED BY <2>2, <3>2, <3>3, Zenon
    <2>4. CASE k = j /\ Return(j)
      <3>1. UNCHANGED <<pc, status, failed, alone, lost>> BY <2>4, Zenon DEF Return, devVars
      <3> QED BY <2>2, <3>1, Zenon DEF Spoiled
    <2>5. CASE k = j /\ ~ Return(j) /\ (j \in lost \/ Exit(j))
      <3>1. j \in lost => j \in lost' BY Kept
      <3>2. Exit(j) => j \in lost' BY <1>1 DEF Exit
      <3> QED BY <2>5, <3>1, <3>2, Zenon DEF Spoiled
    <2>6. CASE k = j /\ ~ Return(j) /\ ~ Exit(j) /\ status[j] = "error" /\ (failed[j] \/ ~ alone[j])
      <3>1. pc[j] \in Ended BY <2>6 DEF PortInv
      <3>2. Close(j)
        BY <1>3, <2>6, <3>1 DEF Request, JobStep, UploadRequest, CreateFails, VerifyRequest, AtRequest, Refuse,
             Save, Open, OpenFails, AtWrite, AtWriteFails, AtRead, Interrupt, Banner, ReadFile, NoFile,
             ExecRun, Complete, Ended
      <3>3. UNCHANGED <<status, failed, alone>> BY <3>2, Zenon DEF Close
      <3> QED BY <2>6, <3>3, Zenon DEF Spoiled
    <2>7. CASE k = j /\ ~ Return(j) /\ ~ Exit(j) /\ pc[j] \in Raw
      <3>1. CASE Banner(j)
        <4>1. CASE "raw REPL" \in out BY <3>1, <4>1 DEF Banner, Goto, Raw, TypeOK, JobTypes
        <4>2. CASE "raw REPL" \notin out
          <5>1. pc[j] = "banner" BY <3>1 DEF Banner
          <5>2. failed[j] \/ ~ alone[j] BY <4>2, <5>1, Zenon DEF BannerInv
          <5>3. status'[j] = "error" BY <3>1, <4>2 DEF Banner, Report, TypeOK, JobTypes
          <5>4. UNCHANGED <<alone, failed>> BY <3>1, Zenon DEF Banner
          <5> QED BY <5>2, <5>3, <5>4, Zenon DEF Spoiled
        <4> QED BY <4>1, <4>2
      <3>2. CASE ~ Banner(j)
        <4>1. pc'[j] \in Raw
          BY <1>3, <2>7, <3>2 DEF Request, JobStep, UploadRequest, CreateFails, VerifyRequest, AtRequest, Refuse,
             Save, Open, OpenFails, Close, AtWrite, AtWriteFails, AtRead, Interrupt, ReadFile, NoFile,
             ExecRun, Complete, Raw, Goto, TypeOK, JobTypes
        <4> QED BY <4>1, Zenon
      <3> QED BY <3>1, <3>2
    <2> QED BY <2>2, <2>3, <2>4, <2>5, <2>6, <2>7, Zenon DEF Spoiled
  <1> QED BY <1>2, <1>3

(* No job is asked for twice. *)
LEMMA NeverNew ==
    ASSUME TypeOK, NEW j \in Jobs, Request(j) \/ JobStep(j) \/ Return(j), pc'[j] = "new"
    PROVE  pc[j] = "new"
  <1> USE DEF TypeOK, JobTypes, Goto
  <1>1. CASE Request(j) BY <1>1 DEF Request, UploadRequest, CreateFails, VerifyRequest, AtRequest, Refuse
  <1>2. CASE Save(j) \/ Open(j) \/ OpenFails(j) \/ Close(j) \/ Return(j)
    BY <1>2 DEF Save, Open, OpenFails, Close, Return
  <1>3. CASE AtWrite(j) \/ AtWriteFails(j) \/ AtRead(j) \/ Interrupt(j) \/ EnterRaw(j)
    BY <1>3 DEF AtWrite, AtWriteFails, AtRead, Interrupt, EnterRaw
  <1>4. CASE Banner(j)
    <2>1. pc'[j] \in {"read", "close"} BY <1>4 DEF Banner
    <2> QED BY <2>1
  <1>5. CASE ReadFile(j) \/ NoFile(j) \/ ExecStart(j) \/ ExecRun(j) \/ Complete(j) \/ Exit(j)
    BY <1>5 DEF ReadFile, NoFile, ExecStart, ExecRun, Complete, Exit
  <1> QED BY <1>1, <1>2, <1>3, <1>4, <1>5 DEF JobStep

LEMMA StepNameInv ==
    ASSUME TypeOK, PortInv, NameInv, NEW j \in Jobs, Request(j) \/ JobStep(j) \/ Return(j)
    PROVE  NameInv'
  <1> USE DEF TypeOK, JobTypes, TmpTypes, NameInv, Goto, Owners
  <1>1. CASE UploadRequest(j) BY <1>1, SerialFacts DEF UploadRequest, given
  <1>2. CASE Return(j) BY <1>2, SerialFacts DEF Return, given
  <1>3. CASE UNCHANGED <<given, tmp, fd>>
    <2>1. \A k \in Jobs : pc'[k] = "new" => pc[k] = "new" BY Others, NeverNew
    <2> QED BY <1>3, <2>1 DEF given
  <1> QED BY <1>1, <1>2, <1>3, Zenon DEF Request, JobStep, CreateFails, VerifyRequest, AtRequest, Refuse, Save,
       Open, OpenFails, Close, AtWrite, AtWriteFails, AtRead, Interrupt, EnterRaw, Banner, ReadFile, NoFile,
       ExecStart, ExecRun, Complete, Exit, tmpVars

(* A temporary file of a name that one job alone uses is not touched by    *)
(* another.                                                                *)
LEMMA TmpOfOthers ==
    ASSUME TypeOK, PortInv, NameInv, NEW j \in Jobs, Request(j) \/ JobStep(j) \/ Return(j),
           NEW k \in Jobs \ {j}, Sole(k), kind[k] # "at"
    PROVE  /\ tmp'[Local(k)] = tmp[Local(k)] /\ fd'[k] = fd[k]
           /\ tmp[Local(k)] # Gone => disk'[tmp[Local(k)]] = disk[tmp[Local(k)]]
  <1> DEFINE n == Local(k)
  <1>1. n \in Names \cup {Script} BY JobFacts DEF TypeOK
  <1>2. kind[j] = "upload" => name[j] # n BY DEF Sole, Local
  <1> HIDE DEF n
  <1>3. SUFFICES /\ tmp'[n] = tmp[n] /\ fd'[k] = fd[k]
                 /\ tmp[n] # Gone => disk'[tmp[n]] = disk[tmp[n]]
    BY Zenon DEF n
  <1> USE DEF TypeOK, JobTypes, TmpTypes, Owners
  <1>4. CASE UploadRequest(j)
    <2>1. tmp[n] # Gone => tmp[n] # j BY <1>1, <1>2, <1>4 DEF UploadRequest, NameInv
    <2>2. tmp[name[j]] # Gone => tmp[n] # tmp[name[j]]
      <3>1. name[j] \in Names BY <1>4, JobFacts DEF UploadRequest
      <3> QED BY <1>1, <1>2, <1>4, <3>1 DEF UploadRequest, NameInv
    <2> QED BY <1>1, <1>2, <1>4, <2>1, <2>2 DEF UploadRequest
  <1>5. CASE Save(j)
    <2>1. kind[j] = "upload" /\ UNCHANGED <<tmp, fd>> BY <1>5 DEF Save, PortInv
    <2>2. CASE fd[j] = Gone
      <3>1. UNCHANGED disk BY <1>5, <2>2 DEF Save
      <3> QED BY <2>1, <3>1
    <2>3. CASE fd[j] # Gone
      <3>1. fd[j] \in Owners BY <2>3
      <3>2. tmp[n] # fd[j] BY <1>1, <1>2, <2>1, <3>1 DEF NameInv
      <3>3. PICK saved \in Beginnings(j) : disk' = [disk EXCEPT ![fd[j]] = saved]
        BY <1>5, <2>3 DEF Save
      <3> QED BY <1>1, <2>1, <3>1, <3>2, <3>3
    <2> QED BY <2>2, <2>3
  <1>6. CASE Return(j)
    <2>1. kind[j] = "upload" BY <1>6 DEF Return, PortInv
    <2> QED BY <1>1, <1>2, <1>6, <2>1 DEF Return
  <1>7. CASE UNCHANGED tmpVars BY <1>7 DEF tmpVars
  <1> QED BY <1>4, <1>5, <1>6, <1>7, Zenon DEF Request, JobStep, CreateFails, VerifyRequest, AtRequest, Refuse,
       Open, OpenFails, Close, AtWrite, AtWriteFails, AtRead, Interrupt, EnterRaw, Banner, ReadFile, NoFile,
       ExecStart, ExecRun, Complete, Exit

(* What a job makes of its own temporary file. *)
LEMMA TmpOfOwn ==
    ASSUME TypeOK, PortInv, NameInv, OwnInv, NEW j \in Jobs, Request(j) \/ JobStep(j) \/ Return(j),
           Sole(j), j \notin torn'
    PROVE  /\ kind[j] = "verify" => tmp'[Script] = Script /\ disk'[Script] = Whole(Script)
           /\ pc'[j] = "save" /\ fd'[j] # Gone => tmp'[name[j]] = fd'[j]
           /\ kind[j] = "upload" /\ pc'[j] \in Reading =>
                tmp'[name[j]] = Gone \/ (tmp'[name[j]] # Gone /\ disk'[tmp'[name[j]]] = Whole(j))
  <1>0. j \notin torn BY Kept
  <1> USE <1>0 DEF TypeOK, JobTypes, TmpTypes, Owners, Goto, OwnInv, Reading
  <1>1. CASE UploadRequest(j)
    <2>1. kind[j] = "upload" /\ name[j] \in Names BY <1>1, JobFacts DEF UploadRequest
    <2> QED BY <1>1, <2>1 DEF UploadRequest
  <1>2. CASE Save(j)
    <2>1. kind[j] = "upload" /\ name[j] \in Names
      <3>1. kind[j] = "upload" BY <1>2 DEF Save, PortInv
      <3> QED BY <3>1, JobFacts
    <2>2. fd[j] # Gone BY <1>2 DEF Save
    <2>3. fd[j] \in Owners /\ tmp[name[j]] = fd[j] BY <1>2, <2>2 DEF Save
    <2>4. PICK saved \in Beginnings(j) :
            /\ disk' = [disk EXCEPT ![fd[j]] = saved]
            /\ torn' = IF saved = Whole(j) THEN torn ELSE torn \cup {j}
      BY <1>2, <2>2, Zenon DEF Save
    <2>5. saved = Whole(j) BY <2>4
    <2>6. disk'[fd[j]] = Whole(j) BY <2>3, <2>4, <2>5
    <2>7. tmp' = tmp /\ pc'[j] = "open" BY <1>2 DEF Save
    <2> QED BY <2>1, <2>3, <2>6, <2>7
  <1>3. CASE Return(j)
    <2>1. kind[j] = "upload" /\ name[j] \in Names
      <3>1. kind[j] = "upload" BY <1>3 DEF Return, PortInv
      <3> QED BY <3>1, JobFacts
    <2>2. pc'[j] = pc[j] /\ pc[j] # "save" BY <1>3 DEF Return, PortInv
    <2> QED BY <1>3, <2>1, <2>2 DEF Return
  <1>4. CASE /\ UNCHANGED tmpVars /\ pc'[j] # "save"
             /\ kind[j] = "upload" /\ pc'[j] \in Reading => pc[j] \in Reading
    BY <1>4 DEF tmpVars
  <1>5. CASE VerifyRequest(j) \/ AtRequest(j) \/ Refuse(j) \/ Open(j) \/ OpenFails(j) \/ Close(j)
    <2>1. /\ UNCHANGED tmpVars /\ pc'[j] # "save"
          /\ kind[j] = "upload" /\ pc'[j] \in Reading => pc[j] \in Reading
      BY <1>5 DEF VerifyRequest, AtRequest, Refuse, Open, OpenFails, Close
    <2> QED BY <1>4, <2>1, Zenon
  <1>6. CASE AtWrite(j) \/ AtWriteFails(j) \/ AtRead(j) \/ Interrupt(j) \/ EnterRaw(j) \/ Banner(j) \/ ReadFile(j)
    <2>1. /\ UNCHANGED tmpVars /\ pc'[j] # "save"
          /\ kind[j] = "upload" /\ pc'[j] \in Reading => pc[j] \in Reading
      BY ZenonT(60), <1>6 DEF AtWrite, AtWriteFails, AtRead, Interrupt, EnterRaw, Banner, ReadFile
    <2> QED BY <1>4, <2>1, Zenon
  <1>7. CASE NoFile(j) \/ ExecStart(j) \/ ExecRun(j) \/ Complete(j) \/ Exit(j)
    <2>1. /\ UNCHANGED tmpVars /\ pc'[j] # "save"
          /\ kind[j] = "upload" /\ pc'[j] \in Reading => pc[j] \in Reading
      BY <1>7 DEF NoFile, ExecStart, ExecRun, Complete, Exit
    <2> QED BY <1>4, <2>1, Zenon
  <1>8. CASE CreateFails(j)
    <2>1. /\ UNCHANGED tmpVars /\ pc'[j] = "save" /\ kind[j] = "upload"
      BY <1>8 DEF CreateFails
    <2>2. fd[j] = Gone \/ tmp[name[j]] = fd[j] BY <1>8 DEF CreateFails, NameInv
    <2> QED BY <2>1, <2>2 DEF tmpVars
  <1> QED BY <1>1, <1>2, <1>3, <1>5, <1>6, <1>7, <1>8, Zenon DEF Request, JobStep

(* What a job has read stays what it was. *)
LEMMA ReadOnce ==
    ASSUME TypeOK, PortInv, NEW j \in Jobs, Request(j) \/ JobStep(j) \/ Return(j), HasRead(j)'
    PROVE  ReadFile(j) \/ (HasRead(j) /\ local'[j] = local[j])
  <1> USE DEF TypeOK, JobTypes, Goto, Report, PortInv, HasRead, Ended
  <1>1. CASE Request(j) BY <1>1 DEF Request, UploadRequest, CreateFails, VerifyRequest, AtRequest, Refuse
  <1>2. CASE Save(j) \/ Open(j) \/ OpenFails(j) \/ Close(j) \/ Return(j)
    BY <1>2 DEF Save, Open, OpenFails, Close, Return
  <1>3. CASE AtWrite(j) \/ AtWriteFails(j) \/ AtRead(j) \/ Interrupt(j) \/ EnterRaw(j)
    BY ZenonT(60), <1>3 DEF AtWrite, AtWriteFails, AtRead, Interrupt, EnterRaw
  <1>4. CASE Banner(j)
    <2>1. pc'[j] \in {"read", "close"} BY <1>4 DEF Banner
    <2> QED BY <2>1
  <1>5. CASE NoFile(j) \/ ExecStart(j) \/ ExecRun(j) \/ Complete(j) \/ Exit(j)
    BY <1>5 DEF NoFile, ExecStart, ExecRun, Complete, Exit
  <1> QED BY <1>1, <1>2, <1>3, <1>4, <1>5 DEF JobStep

LEMMA StepOwnInv ==
    ASSUME TypeOK, PortInv, NameInv, OwnInv, NEW j \in Jobs, Request(j) \/ JobStep(j) \/ Return(j)
    PROVE  OwnInv'
  <1>1. UNCHANGED given
    BY Zenon DEF Request, JobStep, UploadRequest, CreateFails, VerifyRequest, AtRequest, Refuse,
       Save, Open, OpenFails, Close, AtWrite, AtWriteFails, AtRead, Interrupt, EnterRaw, Banner, ReadFile, NoFile,
       ExecStart, ExecRun, Complete, Exit, Return
  <1>2. \A k \in Jobs : /\ Sole(k)' = Sole(k) /\ Local(k)' = Local(k) /\ Author(k)' = Author(k)
                        /\ kind'[k] = kind[k] /\ name'[k] = name[k]
    BY <1>1 DEF given, Sole, Local, Author
  <1>3. SUFFICES ASSUME NEW k \in Jobs, Sole(k), k \notin torn'
        PROVE  /\ kind[k] = "verify" => tmp'[Script] = Script /\ disk'[Script] = Whole(Script)
               /\ pc'[k] = "save" /\ fd'[k] # Gone => tmp'[name[k]] = fd'[k]
               /\ kind[k] = "upload" /\ pc'[k] \in Reading =>
                    tmp'[name[k]] = Gone \/ (tmp'[name[k]] # Gone /\ disk'[tmp'[name[k]]] = Whole(k))
               /\ HasRead(k)' => local'[k] = Whole(Author(k))
    BY SMTT(40), <1>2 DEF OwnInv, Whole, Gone, Script, Reading
  <1>0. k \notin torn BY <1>3, Kept
  <1> USE <1>0
  <1>4. CASE k # j
    <2>1. pc'[k] = pc[k] /\ status'[k] = status[k] /\ local'[k] = local[k] BY <1>4, Others
    <2>2. HasRead(k)' => local'[k] = Whole(Author(k)) BY <1>3, <2>1 DEF OwnInv, HasRead
    <2>3. kind[k] # "at" =>
            /\ tmp'[Local(k)] = tmp[Local(k)] /\ fd'[k] = fd[k]
            /\ tmp[Local(k)] # Gone => disk'[tmp[Local(k)]] = disk[tmp[Local(k)]]
      BY <1>3, <1>4, TmpOfOthers
    <2>4. CASE kind[k] = "at"
      <3>1. pc[k] # "save" BY <2>4 DEF PortInv
      <3> QED BY <2>1, <2>2, <2>4, <3>1
    <2>5. CASE kind[k] = "verify"
      <3>1. pc[k] # "save" BY <2>5 DEF PortInv
      <3>2. Local(k) = Script BY <2>5 DEF Local
      <3> QED BY <1>3, <2>1, <2>2, <2>3, <2>5, <3>1, <3>2, SerialFacts DEF OwnInv
    <2>6. CASE kind[k] = "upload"
      <3>1. Local(k) = name[k] BY <2>6 DEF Local
      <3> QED BY <1>3, <2>1, <2>2, <2>3, <2>6, <3>1 DEF OwnInv
    <2> QED BY <2>4, <2>5, <2>6, JobFacts DEF TypeOK
  <1>5. CASE k = j
    <2>1. HasRead(j)' => local'[j] = Whole(Author(j))
      <3>1. SUFFICES ASSUME HasRead(j)' PROVE local'[j] = Whole(Author(j)) OBVIOUS
      <3>2. CASE HasRead(j) /\ local'[j] = local[j] BY <1>3, <1>5, <3>2 DEF OwnInv
      <3>3. CASE ReadFile(j)
        <4>1. kind[j] # "at" /\ pc[j] \in Reading BY <3>3 DEF ReadFile, PortInv, Raw, Reading
        <4>2. tmp[Local(j)] # Gone /\ local'[j] = disk[tmp[Local(j)]]
          BY <3>3 DEF ReadFile, TypeOK, OrderTypes
        <4>3. disk[tmp[Local(j)]] = Whole(Author(j))
          BY <1>3, <1>5, <4>1, <4>2, JobFacts DEF OwnInv, Author, Local, TypeOK
        <4> QED BY <4>2, <4>3
      <3> QED BY <3>1, <3>2, <3>3, ReadOnce
    <2> QED BY <1>3, <1>5, <2>1, TmpOfOwn
  <1> QED BY <1>4, <1>5

-----------------------------------------------------------------------------
(* The file on the device. *)

(* What is left of the commands. *)
LEMMA OrdersLeft ==
    ASSUME NEW remote \in Names \cup {Main}, NEW data \in Seq(Digits),
           NEW m \in 0 .. Len(Chunks(data)) + 2
    PROVE  LET n == Len(Chunks(data))
               c == Commands(remote, data)
               s == SubSeq(c, m + 1, n + 3)
           IN  /\ Len(s) = n + 3 - m
               /\ Head(s) = c[m + 1] /\ c[m + 1] \in Orders
               /\ Tail(s) = SubSeq(c, m + 2, n + 3)
  <1> DEFINE n == Len(Chunks(data))
             c == Commands(remote, data)
  <1>1. n \in Nat BY ChunksFacts
  <1>2. c \in Seq(Orders) /\ Len(c) = n + 3 BY CommandsFacts
  <1> HIDE DEF n, c
  <1>3. m \in 0 .. n + 2 BY DEF n
  <1>4. m + 1 \in 1 .. Len(c) /\ n + 3 \in m + 1 .. Len(c) /\ (m + 1) + 1 = m + 2 BY <1>1, <1>2, <1>3
  <1>5. Head(SubSeq(c, m + 1, n + 3)) = c[m + 1] /\ Tail(SubSeq(c, m + 1, n + 3)) = SubSeq(c, m + 2, n + 3)
    BY SMTT(40), <1>2, <1>4, HeadTailOfSubSeq
  <1>6. c[m + 1] \in Orders BY <1>2, <1>4
  <1>7. Len(SubSeq(c, m + 1, n + 3)) = n + 3 - m
    <2>1. \A i \in m + 1 .. n + 3 : c[i] \in Orders BY <1>1, <1>2, <1>3
    <2>2. m + 1 \in Int /\ n + 3 \in Int /\ m + 1 <= n + 3 BY <1>1, <1>3
    <2>3. Len(SubSeq(c, m + 1, n + 3)) = (n + 3) - (m + 1) + 1
      BY <2>1, <2>2, SubSeqProperties
    <2> QED BY <1>1, <1>3, <2>3
  <1> QED BY <1>5, <1>6, <1>7 DEF n, c

(* One more command brings the file on. *)
LEMMA RunsNext ==
    ASSUME DevTypes, NEW remote \in Names \cup {Main}, NEW data \in Seq(Digits),
           NEW m \in 0 .. Len(Chunks(data)) + 2,
           Ran(remote, data, m), Runs(Commands(remote, data)[m + 1])
    PROVE  Ran(remote, data, m + 1)'
  <1> DEFINE n == Len(Chunks(data))
             c == Commands(remote, data)
  <1>1. n \in Nat BY ChunksFacts
  <1>2. /\ c[1] = [do |-> "open", file |-> remote]
        /\ \A i \in 1 .. n : c[i + 1] = [do |-> "write", data |-> Chunks(data)[i]]
        /\ c[n + 2] = [do |-> "close"] /\ c[n + 3] = [do |-> "size"]
    BY CommandsFacts
  <1>3. SUFFICES IF m + 1 <= n + 1
                   THEN f' = remote /\ files'[remote] = SubSeq(data, 1, UpTo(data, (m + 1) - 1))
                   ELSE files'[remote] = data
    BY DEF Ran, UpTo, Chunks
  <1>4. Len(data) \in Nat OBVIOUS
  <1>5. remote # Closed BY SerialFacts
  <1>6. /\ m \in 1 .. n + 1 => f = remote /\ files[remote] = SubSeq(data, 1, UpTo(data, m - 1))
        /\ m = n + 2 => files[remote] = data
    <2>1. m > 0 => IF m <= n + 1 THEN f = remote /\ files[remote] = SubSeq(data, 1, UpTo(data, m - 1))
                                 ELSE files[remote] = data
      BY DEF Ran
    <2> HIDE DEF n
    <2> QED BY <1>1, <2>1
  <1>7. UpTo(data, n) = Len(data)
        /\ \A i \in 1 .. n : /\ UpTo(data, i - 1) \in 0 .. Len(data) /\ UpTo(data, i) \in 0 .. Len(data)
                             /\ UpTo(data, i - 1) <= UpTo(data, i)
                             /\ Chunks(data)[i] = SubSeq(data, UpTo(data, i - 1) + 1, UpTo(data, i))
    <2>1. \A i \in 1 .. n : UpTo(data, i - 1) \in 0 .. Len(data) /\ UpTo(data, i) \in 0 .. Len(data)
      <3> HIDE DEF n
      <3>1. \A i \in 1 .. n : i \in Nat /\ i - 1 \in Nat BY <1>1
      <3> QED BY <3>1, UpToFacts
    <2> QED BY <2>1, ChunksFacts
  <1>8. m \in 0 .. n + 2 /\ Runs(c[m + 1]) OBVIOUS
  <1>9. files \in [Names \cup {Main} -> Seq(Digits)] BY DEF DevTypes
  <1> HIDE DEF n, c
  <1>10. CASE m = 0
    <2>1. c[m + 1].do = "open" /\ c[m + 1].file = remote BY <1>2, <1>10
    <2>2. f' = remote /\ files' = [files EXCEPT ![remote] = << >>] BY <1>8, <2>1 DEF Runs
    <2>3. UpTo(data, (m + 1) - 1) = 0 /\ m + 1 <= n + 1
      <3>1. (m + 1) - 1 = 0 /\ 0 * ChunkLen = 0 /\ m + 1 <= n + 1 BY <1>1, <1>10, SerialFacts
      <3> QED BY <1>4, <3>1 DEF UpTo
    <2>4. SubSeq(data, 1, 0) = << >> BY SubSeqEmpty
    <2>5. files'[remote] = << >> BY <1>9, <2>2
    <2> QED BY <2>2, <2>3, <2>4, <2>5
  <1>11. CASE m \in 1 .. n
    <2>1. m + 1 <= n + 1 /\ m \in 1 .. n + 1 /\ (m + 1) - 1 = m /\ m - 1 \in Nat BY <1>1, <1>11
    <2>2. f = remote /\ files[remote] = SubSeq(data, 1, UpTo(data, m - 1)) BY <1>6, <2>1
    <2>3. c[m + 1].do = "write" /\ c[m + 1].data = Chunks(data)[m]
      <3>1. c[m + 1] = [do |-> "write", data |-> Chunks(data)[m]] BY <1>2, <1>11
      <3> QED BY <3>1
    <2>4. f' = f /\ files' = [files EXCEPT ![f] = @ \o Chunks(data)[m]]
      BY <1>5, <1>8, <2>2, <2>3 DEF Runs
    <2>5. PICK a \in 0 .. Len(data), b \in 0 .. Len(data) :
             a = UpTo(data, m - 1) /\ b = UpTo(data, m) /\ a <= b
             /\ Chunks(data)[m] = SubSeq(data, a + 1, b)
      BY <1>7, <1>11
    <2>6. SubSeq(data, 1, a) \o SubSeq(data, a + 1, b) = SubSeq(data, 1, b)
      <3>1. 1 \in 1 .. Len(data) + 1 /\ a \in 1 - 1 .. Len(data) /\ b \in a .. Len(data) BY <1>4, <2>5
      <3> QED BY <3>1, ConcatAdjacentSubSeq
    <2>7. files'[remote] = files[remote] \o Chunks(data)[m] BY <1>9, <2>2, <2>4
    <2> QED BY <2>1, <2>2, <2>4, <2>5, <2>6, <2>7
  <1>12. CASE m = n + 1
    <2>1. m \in 1 .. n + 1 /\ m - 1 = n /\ ~ (m + 1 <= n + 1) /\ m + 1 = n + 2 BY <1>1, <1>12
    <2>2. files[remote] = SubSeq(data, 1, Len(data)) BY <1>6, <1>7, <2>1
    <2>3. files[remote] = data BY <2>2, SubSeqFull
    <2>4. c[m + 1].do = "close" BY <1>2, <2>1
    <2>5. files' = files BY <1>8, <2>4 DEF Runs
    <2> QED BY <2>1, <2>3, <2>5
  <1>13. CASE m = n + 2
    <2>1. ~ (m + 1 <= n + 1) /\ m + 1 = n + 3 BY <1>1, <1>13
    <2>2. c[m + 1].do = "size" BY <1>2, <2>1
    <2>3. files' = files BY <1>8, <2>2 DEF Runs
    <2> QED BY <1>6, <1>13, <2>1, <2>3
  <1> QED BY <1>1, <1>8, <1>10, <1>11, <1>12, <1>13

(* The file of a job alone on the port is safe from the others, ... *)
LEMMA FileOfOthers ==
    ASSUME TypeOK, PortInv, AloneInv, FileInv, NEW j \in Jobs, Request(j) \/ JobStep(j) \/ Return(j),
           NEW k \in Jobs \ {j}, alone'[k], ~ failed'[k]
    PROVE  OnFile(k)'
  <1>1. /\ pc'[k] = pc[k] /\ status'[k] = status[k] /\ failed'[k] = failed[k]
        /\ local'[k] = local[k] /\ todo'[k] = todo[k] /\ UNCHANGED given
    BY Others
  <1>2. CASE pc[k] \notin {"start", "run", "report", "exit"} BY <1>1, <1>2 DEF OnFile
  <1>3. CASE pc[k] \in {"start", "run", "report", "exit"}
    <2>1. k \in ports BY <1>3 DEF PortInv, OnPort, Raw
    <2>2. alone[k] /\ UNCHANGED devVars BY <2>1, NoCompany, Zenon
    <2>3. Remote(k)' = Remote(k) BY <1>1 DEF Remote, given
    <2>4. f' = f /\ files' = files BY <2>2 DEF devVars
    <2>5. OnFile(k) BY <1>1, <2>2, Zenon DEF FileInv
    <2> QED BY <1>1, <2>3, <2>4, <2>5, Zenon DEF OnFile, Midway, Ran
  <1> QED BY <1>2, <1>3

(* ... and what it runs itself writes it. *)
LEMMA FileOfOwn ==
    ASSUME TypeOK, PortInv, FileInv, NEW j \in Jobs, Request(j) \/ JobStep(j) \/ Return(j),
           alone'[j], ~ failed'[j]
    PROVE  OnFile(j)'
  <1> DEFINE r == Remote(j)
             Work == {"start", "run", "report", "exit"}
  <1>1. CASE pc'[j] \notin Work \/ NoFile(j)
    <2>1. CASE pc'[j] \notin Work BY <2>1 DEF OnFile
    <2>2. CASE NoFile(j)
      <3>1. pc'[j] = "exit" /\ status'[j] = "error"
        BY <2>2 DEF NoFile, Goto, Report, TypeOK, JobTypes
      <3> QED BY <3>1 DEF OnFile
    <2> QED BY <1>1, <2>1, <2>2
  <1>2. CASE ReadFile(j)
    <2>1. kind[j] # "at" BY <1>2 DEF ReadFile, PortInv, Raw
    <2>2. r \in Names \cup {Main} /\ Local(j) \in Names \cup {Script} BY <2>1, JobFacts DEF TypeOK
    <2>3. disk[tmp[Local(j)]] \in Seq(Digits) BY <1>2, <2>2 DEF ReadFile, TypeOK, TmpTypes
    <2>4. PICK d \in Seq(Digits) : d = disk[tmp[Local(j)]] BY <2>3
    <2>5. local'[j] = d /\ todo'[j] = Commands(r, d) /\ pc'[j] = "start"
      BY <1>2, <2>4 DEF ReadFile, TypeOK, JobTypes, OrderTypes, Goto
    <2>6. r' = r BY <1>2 DEF ReadFile, Remote, given
    <2>7. Commands(r, d) = SubSeq(Commands(r, d), 0 + 1, Len(Chunks(d)) + 3)
      <3>1. Commands(r, d) \in Seq(Orders) /\ Len(Commands(r, d)) = Len(Chunks(d)) + 3
        BY <2>2, CommandsFacts
      <3> QED BY <3>1, SubSeqFull
    <2>8. 0 \in 0 .. Len(Chunks(d)) + 2 BY ChunksFacts
    <2>9. Midway(r, d, Commands(r, d), 0)' BY <2>6, <2>7 DEF Midway, Ran
    <2> QED BY <2>5, <2>6, <2>8, <2>9 DEF OnFile
  <1>3. CASE ExecRun(j)
    <2>1. kind[j] # "at" /\ pc[j] = "run" BY <1>3 DEF ExecRun, PortInv, Raw
    <2>2. r \in Names \cup {Main} /\ r' = r
      <3>1. r' = r BY <1>3 DEF ExecRun, Remote, given
      <3> QED BY <2>1, <3>1, JobFacts DEF TypeOK
    <2>3. PICK d \in Seq(Digits) : d = local[j] BY DEF TypeOK, OrderTypes
    <2>4. alone[j] /\ ~ failed[j] /\ Runs(Head(todo[j]))
      <3>1. alone[j] BY <1>3, Zenon DEF ExecRun
      <3>2. failed \in [Jobs -> BOOLEAN] BY DEF TypeOK, FlagTypes
      <3>3. failed' # [failed EXCEPT ![j] = TRUE]
        <4>1. SUFFICES ASSUME failed' = [failed EXCEPT ![j] = TRUE] PROVE FALSE OBVIOUS
        <4>2. failed'[j] = TRUE BY <3>2, <4>1
        <4> QED BY <4>2, Zenon
      <3> QED BY <1>3, <3>1, <3>3, Zenon DEF ExecRun, DeviceRuns
    <2>5. PICK m \in 0 .. Len(Chunks(d)) + 2 : Midway(r, d, todo[j], m)
      <3>1. OnFile(j) BY <2>4, Zenon DEF FileInv
      <3> QED BY <2>1, <2>3, <3>1 DEF OnFile
    <2>6. PICK n \in Nat : n = Len(Chunks(d)) BY ChunksFacts
    <2>7. /\ Len(todo[j]) = n + 3 - m /\ Head(todo[j]) = Commands(r, d)[m + 1]
          /\ Tail(todo[j]) = SubSeq(Commands(r, d), m + 2, n + 3)
      BY <2>2, <2>5, <2>6, OrdersLeft DEF Midway
    <2>8. Ran(r, d, m + 1)'
      <3>1. Ran(r, d, m) /\ Runs(Commands(r, d)[m + 1]) BY <2>4, <2>5, <2>7 DEF Midway
      <3>2. Ran(r, d, m + 1)' BY <2>2, <3>1, RunsNext DEF TypeOK
      <3> QED BY <3>2
    <2>9. local'[j] = d /\ todo'[j] = SubSeq(Commands(r, d), m + 2, n + 3)
      BY <1>3, <2>3, <2>7 DEF ExecRun, TypeOK, OrderTypes
    <2>10. CASE m = n + 2
      <3>1. pc'[j] = "report"
        <4>1. Len(todo[j]) = 1 BY <2>7, <2>10
        <4> QED BY <1>3, <4>1 DEF ExecRun, Goto, TypeOK, JobTypes
      <3>2. files'[r] = d
        <4>1. m + 1 > 0 /\ ~ (m + 1 <= n + 1) BY <2>10
        <4> QED BY <2>2, <2>6, <2>8, <4>1 DEF Ran
      <3> QED BY <2>2, <2>9, <3>1, <3>2 DEF OnFile
    <2>11. CASE m # n + 2
      <3>1. m + 1 \in 0 .. n + 2 /\ m + 2 = (m + 1) + 1 BY <2>5, <2>6, <2>11
      <3>2. pc'[j] = "start"
        <4>1. Len(todo[j]) # 1 BY SMTT(40), <2>5, <2>6, <2>7, <2>11
        <4> QED BY <1>3, <4>1 DEF ExecRun, Goto, TypeOK, JobTypes
      <3>3. Midway(r, d, SubSeq(Commands(r, d), m + 2, n + 3), m + 1)'
        BY <2>2, <2>6, <2>8, <3>1 DEF Midway
      <3> QED BY <2>2, <2>6, <2>9, <3>1, <3>2, <3>3 DEF OnFile
    <2> QED BY <2>10, <2>11
  <1>4. CASE ExecStart(j) \/ Complete(j) \/ Return(j)
    <2>1. /\ UNCHANGED <<given, local, todo, f, files, alone, failed>>
          /\ pc'[j] \in {"start", "run"} => pc[j] \in {"start", "run"}
          /\ pc'[j] = "report" \/ (pc'[j] = "exit" /\ status'[j] = "completed") =>
               pc[j] = "report" \/ (pc[j] = "exit" /\ status[j] = "completed")
      BY <1>4 DEF ExecStart, Complete, Return, devVars, Goto, Report, TypeOK, JobTypes
    <2>2. r' = r BY <2>1 DEF Remote, given
    <2>3. OnFile(j) BY <2>1, Zenon DEF FileInv
    <2> QED BY <2>1, <2>2, <2>3, Zenon DEF OnFile, Midway, Ran
  <1>5. ASSUME pc'[j] \in Work PROVE NoFile(j) \/ ReadFile(j) \/ ExecRun(j) \/ ExecStart(j) \/ Complete(j) \/ Return(j)
    <2> USE DEF TypeOK, JobTypes, Goto
    <2>1. ~ Request(j) BY <1>5 DEF Request, UploadRequest, CreateFails, VerifyRequest, AtRequest, Refuse
    <2>2. ~ (Save(j) \/ Open(j) \/ OpenFails(j) \/ Close(j)) BY <1>5 DEF Save, Open, OpenFails, Close
    <2>3. ~ (AtWrite(j) \/ AtWriteFails(j) \/ AtRead(j) \/ Interrupt(j) \/ EnterRaw(j) \/ Exit(j))
      BY ZenonT(60), <1>5 DEF AtWrite, AtWriteFails, AtRead, Interrupt, EnterRaw, Exit
    <2>4. ~ Banner(j)
      <3>1. Banner(j) => pc'[j] \in {"read", "close"} BY DEF Banner
      <3> QED BY <1>5, <3>1
    <2> QED BY <2>1, <2>2, <2>3, <2>4, Zenon DEF JobStep
  <1> QED BY <1>1, <1>2, <1>3, <1>4, <1>5

(* ... so that it is completed or being completed. *)
LEMMA StepFileInv ==
    ASSUME TypeOK, PortInv, AloneInv, FileInv, NEW j \in Jobs, Request(j) \/ JobStep(j) \/ Return(j)
    PROVE  FileInv'
  <1>1. SUFFICES ASSUME NEW k \in Jobs, alone'[k], ~ failed'[k] PROVE OnFile(k)'
    BY Zenon DEF FileInv
  <1>2. CASE k = j BY <1>1, <1>2, FileOfOwn, Zenon
  <1>3. CASE k # j BY <1>1, <1>3, FileOfOthers, Zenon
  <1> QED BY <1>2, <1>3

-----------------------------------------------------------------------------
(* The invariant. *)

LEMMA InitSerialInv == Init => SerialInv
  <1> SUFFICES ASSUME Init PROVE SerialInv OBVIOUS
  <1> USE DEF Init
  <1>1. TypeOK
    <2>1. JobTypes BY SerialAssumption DEF JobTypes, Free
    <2>2. TmpTypes
      <3>1. Whole(Script) \in Seq(Digits) BY WholeFacts DEF Owners
      <3>2. << >> \in Seq(Digits) OBVIOUS
      <3>3. disk \in [Owners -> Seq(Digits)] BY <3>1, <3>2 DEF Owners
      <3>4. tmp \in [Names \cup {Script} -> Owners \cup {Gone}] BY DEF Owners
      <3>5. fd \in [Jobs -> Owners \cup {Gone}] BY DEF Owners
      <3> QED BY <3>3, <3>4, <3>5 DEF TmpTypes
    <2>3. OrderTypes BY DEF OrderTypes
    <2>4. DevTypes BY DEF DevTypes
    <2>5. FlagTypes BY DEF FlagTypes
    <2> QED BY <2>1, <2>2, <2>3, <2>4, <2>5 DEF TypeOK
  <1>2. PortInv BY DEF PortInv, OnPort, Raw
  <1>3. AloneInv /\ BannerInv /\ ReplInv BY DEF AloneInv, BannerInv, ReplInv
  <1>4. NameInv BY SerialFacts DEF NameInv
  <1>5. OwnInv
    <2>1. tmp[Script] = Script /\ disk[Script] = Whole(Script) OBVIOUS
    <2>2. \A j \in Jobs : pc[j] \notin Reading /\ pc[j] # "save" /\ ~ HasRead(j) BY DEF Reading, HasRead
    <2> QED BY <2>1, <2>2, Zenon DEF OwnInv
  <1>6. FileInv BY DEF FileInv, OnFile
  <1> QED BY <1>1, <1>2, <1>3, <1>4, <1>5, <1>6 DEF SerialInv

LEMMA StepSerialInv == SerialInv /\ [Next]_vars => SerialInv'
  <1> SUFFICES ASSUME SerialInv, [Next]_vars PROVE SerialInv' OBVIOUS
  <1> USE DEF SerialInv
  <1>1. CASE UNCHANGED vars
    <2> USE <1>1 DEF vars, given, tmpVars, devVars
    <2>1. TypeOK' BY StepTypeOK
    <2>2. PortInv' /\ AloneInv' /\ BannerInv' BY DEF PortInv, AloneInv, BannerInv
    <2>3. ReplInv' BY Zenon DEF ReplInv, Spoiled
    <2>4. NameInv' BY DEF NameInv
    <2>5. OwnInv' BY Zenon DEF OwnInv, Sole, Local, Author, HasRead
    <2>6. FileInv' BY ZenonT(60) DEF FileInv, OnFile, Midway, Ran, Remote
    <2> QED BY <2>1, <2>2, <2>3, <2>4, <2>5, <2>6
  <1>2. ASSUME NEW j \in Jobs, Request(j) \/ JobStep(j) \/ Return(j) PROVE SerialInv'
    <2>1. TypeOK' BY StepTypeOK
    <2>2. PortInv' /\ AloneInv' BY <1>2, StepPortInv, StepAloneInv
    <2>3. BannerInv' /\ ReplInv' BY <1>2, StepBannerInv, StepReplInv
    <2>4. NameInv' /\ OwnInv' BY <1>2, StepNameInv, StepOwnInv
    <2>5. FileInv' BY <1>2, StepFileInv
    <2> QED BY <2>1, <2>2, <2>3, <2>4, <2>5
  <1>3. CASE Outside
    <2> USE <1>3 DEF Outside, tmpVars, devVars
    <2>1. TypeOK' BY StepTypeOK
    <2>2. PortInv' /\ AloneInv' /\ BannerInv' BY DEF PortInv, AloneInv, BannerInv
    <2>3. ReplInv' BY Zenon DEF ReplInv, Spoiled
    <2>4. NameInv' BY DEF NameInv
    <2>5. OwnInv' BY Zenon DEF OwnInv, Sole, Local, Author, HasRead
    <2>6. FileInv' BY ZenonT(60) DEF FileInv, OnFile, Midway, Ran, Remote
    <2> QED BY <2>1, <2>2, <2>3, <2>4, <2>5, <2>6
  <1> QED BY <1>1, <1>2, <1>3 DEF Next

LEMMA SerialCorrect == Spec => []SerialInv
  BY InitSerialInv, StepSerialInv, PTL DEF Spec

-----------------------------------------------------------------------------
(* The theorems. *)

(* Every variable keeps the shape of what it stands for, whatever the jobs *)
(* and however they overlap (web.go:599-660, upload.go).                   *)
THEOREM SerialTypeCorrect == Spec => []TypeOK
  BY SerialCorrect, PTL DEF SerialInv

(* When the jobs are over the device is out of the raw REPL, unless one of *)
(* them gave up entering it, because the device failed it or others read   *)
(* its banner, or could not write the ^B that leaves it (the two defers,   *)
(* web.go:651-653; upload.go:121-124).                                     *)
THEOREM ReplAlwaysLeft == Spec => []ReplIsLeft
  <1>1. SerialInv => ReplIsLeft BY Zenon DEF SerialInv, ReplInv, Spoiled, ReplIsLeft, Raw
  <1> QED BY SerialCorrect, <1>1, PTL

(* A job that was alone, and that neither port nor device failed, has put  *)
(* on the device what it read when it reports completed, for any length of *)
(* the file and of the chunks; and it read what was sent when its          *)
(* temporary file had a name of its own and was saved whole, which the     *)
(* handler does not look at (upload.go:126-196, web.go:639-656).           *)
THEOREM CompletedAlwaysOnDevice == Spec => []CompletedIsOnDevice
  <1>1. ASSUME SerialInv, NEW j \in Jobs, pc[j] = "exit" /\ status[j] = "completed"
        PROVE  /\ alone[j] /\ ~ failed[j] => files[Remote(j)] = local[j]
               /\ j \notin torn /\ Sole(j) => local[j] = Whole(Author(j))
    <2>1. alone[j] /\ ~ failed[j] => files[Remote(j)] = local[j]
      BY <1>1, Zenon DEF SerialInv, FileInv, OnFile
    <2>2. HasRead(j) BY <1>1 DEF HasRead
    <2>3. j \notin torn /\ Sole(j) => local[j] = Whole(Author(j)) BY <1>1, <2>2, Zenon DEF SerialInv, OwnInv
    <2> QED BY <2>1, <2>3
  <1>2. SerialInv => CompletedIsOnDevice
    BY <1>1, Zenon DEF CompletedIsOnDevice, Sole, Author
  <1> QED BY SerialCorrect, <1>2, PTL

=============================================================================
