---------------------------- MODULE FlashJobProofs ----------------------------
(***************************************************************************)
(* Proofs about FlashJob, for every package, with or without --retry, and  *)
(* any number of runs, faults and unplugs.                                 *)
(*                                                                         *)
(* The argument: a group leaves todo only by being gone through or by      *)
(* being skipped, and what is skipped was gone through already, because    *)
(* the checkpoint is written after the group it names.  The group at work  *)
(* is the smallest of todo, so all smaller ones are gone through.  A       *)
(* command of a group is no longer to do only when the device has carried  *)
(* it out, its failure was printed, or it writes nothing; so all commands  *)
(* of the groups gone through are accounted for.                           *)
(***************************************************************************)
EXTENDS FlashJob, TLAPS, WellFoundedInduction

-----------------------------------------------------------------------------
(* Groups are natural numbers. *)
LEMMA GroupsNat == Groups \subseteq Nat
  <1>1. ASSUME NEW n \in Numbers PROVE Package[n].group \in Nat
    <2> DEFINE C == [group : Nat,
                     do : {"require", "upload", "call", "partition", "erase", "flash"},
                     what : STRING, segs : Nat \ {0}]
    <2>1. Package \in Seq(C) BY JobAssumption
    <2>2. \A c \in C : c.group \in Nat OBVIOUS
    <2> HIDE DEF C
    <2>3. Package[n] \in C BY <2>1 DEF Numbers
    <2> QED BY <2>2, <2>3
  <1> QED BY <1>1 DEF Groups

(* A set of numbers has a smallest one. *)
LEMMA SmallestFacts ==
    ASSUME NEW S \in SUBSET Nat, S # {}
    PROVE  FirstOf(S) \in S /\ \A h \in S : FirstOf(S) <= h
  <1> DEFINE R == {ss \in Nat \X Nat : ss[1] < ss[2]}
  <1>1. IsWellFoundedOn(R, Nat) BY NatLessThanWellFounded DEF OpToRel
  <1>2. PICK g \in S : \A h \in S : ~ (<<h, g>> \in R)
    <2> HIDE DEF R
    <2> QED BY <1>1, WFMin
  <1>3. ASSUME NEW h \in S PROVE g <= h
    <2>1. <<h, g>> \in Nat \X Nat OBVIOUS
    <2>2. ~ (h < g) BY <1>2, <2>1
    <2> QED BY <2>2
  <1> QED BY <1>3 DEF FirstOf

(* The keys have a smallest one. *)
LEMMA FirstOfFacts ==
    ASSUME NEW S \in SUBSET Groups, S # {}
    PROVE  FirstOf(S) \in S /\ \A h \in S : FirstOf(S) <= h
  BY SmallestFacts, GroupsNat

-----------------------------------------------------------------------------
(* The inductive invariant. *)

AtWork == {"command", "verify", "call", "resume", "order", "recover", "save", "write"}

ThroughTo(n) == \A g \in Groups : g <= n => g \in through

(* The numbers are those of groups. *)
NumbersInv ==
    /\ todo \subseteq Groups
    /\ through \subseteq Groups
    /\ skip \in Groups \cup {None}
    /\ file \in Groups \cup {None, Torn}

(* What the checkpoint makes this run, or the next one, skip is done.      *)
SkipInv ==
    /\ ThroughTo(loadCheckpoint)
    /\ pc # "down" => ThroughTo(skip)

(* What is no longer to do is done, or at work; so is all before that.     *)
TodoInv ==
    /\ pc = "group" => \A g \in Groups \ todo : g \in through
    /\ pc \in AtWork =>
         /\ group \in Groups
         /\ \A g \in Groups \ todo : g \in through \cup {group}
         /\ \A g \in Groups : g < group => g \in through
    /\ pc \in {"save", "write"} => group \in through

OrderInv == NumbersInv /\ SkipInv /\ TodoInv

-----------------------------------------------------------------------------
(* A step that leaves the books alone, and neither begins a group nor      *)
(* starts the process, keeps the invariant.                                *)
LEMMA QuietStep ==
    ASSUME OrderInv,
           UNCHANGED <<skip, todo, group, file, through>>,
           pc' = "group" => pc = "group",
           pc' \in AtWork => pc \in AtWork,
           pc' \in {"save", "write"} => pc \in {"save", "write"},
           pc' # "down" => pc # "down"
    PROVE  OrderInv'
  BY DEF OrderInv, NumbersInv, SkipInv, TodoInv, ThroughTo, loadCheckpoint

LEMMA InitOrderInv == Init => OrderInv
  <1>1. ASSUME NEW g \in Groups PROVE ~ (g <= None) BY GroupsNat DEF None
  <1> QED
    BY <1>1 DEF Init, OrderInv, NumbersInv, SkipInv, TodoInv, ThroughTo, loadCheckpoint,
                None, AtWork

(* Through a step, the groups gone through grow, or all of them were and a *)
(* new job begins: a step of GroupOrder.                                   *)
LEMMA StepOrderInv == OrderInv /\ [Next]_vars => OrderInv' /\ [InOrder!Next]_through
  <1> SUFFICES ASSUME OrderInv, [Next]_vars PROVE OrderInv' /\ [InOrder!Next]_through
    OBVIOUS
  <1> DEFINE Quiet == UNCHANGED <<skip, todo, group, file, through>>
  <1>a. ASSUME NEW g \in Groups PROVE ~ (g <= None) /\ ~ (g <= Torn) /\ g >= 0
    BY GroupsNat DEF None, Torn
  <1>1. CASE Connect
    BY <1>1 DEF Connect, OrderInv, NumbersInv, SkipInv, TodoInv, ThroughTo, loadCheckpoint, AtWork
  <1>2. CASE SkipGroup
    <2>1. FirstOf(todo) \in todo BY <1>2, FirstOfFacts DEF SkipGroup, OrderInv, NumbersInv
    <2>2. FirstOf(todo) \in through
      BY <1>2, <2>1 DEF SkipGroup, OrderInv, NumbersInv, SkipInv, ThroughTo
    <2>3. pc' = pc /\ todo' = todo \ {FirstOf(todo)} /\ UNCHANGED <<skip, group, file, through>>
      BY <1>2 DEF SkipGroup
    <2>4. NumbersInv' BY <2>3 DEF OrderInv, NumbersInv
    <2>5. SkipInv' BY <2>3 DEF OrderInv, SkipInv, ThroughTo, loadCheckpoint
    <2>6. TodoInv' BY <1>2, <2>2, <2>3 DEF SkipGroup, OrderInv, TodoInv, AtWork
    <2> QED BY <2>3, <2>4, <2>5, <2>6 DEF OrderInv
  <1>3. CASE BeginGroup
    <2> DEFINE g == FirstOf(todo)
    <2>1. g \in todo /\ \A h \in todo : g <= h
      BY <1>3, FirstOfFacts DEF BeginGroup, OrderInv, NumbersInv
    <2>2. /\ pc = "group" /\ pc' = "command" /\ group' = g /\ todo' = todo \ {g}
          /\ UNCHANGED <<skip, file, through>>
      BY <1>3 DEF BeginGroup
    <2> HIDE DEF g
    <2>3. NumbersInv' BY <2>2 DEF OrderInv, NumbersInv
    <2>4. SkipInv' BY <2>2 DEF OrderInv, SkipInv, ThroughTo, loadCheckpoint
    <2>5. g \in Groups BY <2>1 DEF OrderInv, NumbersInv
    <2>6. ASSUME NEW h \in Groups, h < g PROVE h \in through
      <3>1. h \notin todo BY <2>1, <2>5, <2>6, GroupsNat
      <3> QED BY <2>2, <3>1 DEF OrderInv, TodoInv
    <2>7. TodoInv' BY <2>2, <2>5, <2>6 DEF OrderInv, TodoInv, AtWork
    <2> QED BY <2>2, <2>3, <2>4, <2>7 DEF OrderInv
  <1>4. CASE GroupThrough
    <2>1. /\ pc = "command" /\ pc' = "save" /\ through' = through \cup {group}
          /\ UNCHANGED <<skip, todo, group, file>>
      BY <1>4 DEF GroupThrough, jobVars
    <2>2. group \in Groups /\ \A h \in Groups : h < group => h \in through
      BY <2>1 DEF OrderInv, TodoInv, AtWork
    <2>3. NumbersInv' BY <2>1, <2>2 DEF OrderInv, NumbersInv
    <2>4. SkipInv' BY <2>1 DEF OrderInv, SkipInv, ThroughTo, loadCheckpoint
    <2>5. TodoInv' BY <2>1, <2>2 DEF OrderInv, TodoInv, AtWork
    <2>6. InOrder!Go(group) BY <2>1, <2>2 DEF InOrder!Go
    <2> QED BY <2>2, <2>3, <2>4, <2>5, <2>6 DEF OrderInv, InOrder!Next
  <1>5. CASE Truncate
    <2>1. /\ pc = "save" /\ pc' = "write" /\ file' = Torn
          /\ UNCHANGED <<skip, todo, group, through>>
      BY <1>5 DEF Truncate, jobVars
    <2>2. SkipInv' BY <1>a, <2>1 DEF OrderInv, SkipInv, ThroughTo, loadCheckpoint, None, Torn
    <2> QED BY <2>1, <2>2 DEF OrderInv, NumbersInv, TodoInv, AtWork
  <1>6. CASE SaveCheckpoint
    <2>1. /\ pc = "write" /\ pc' = "group" /\ file' = group
          /\ UNCHANGED <<skip, todo, group, through>>
      BY <1>6 DEF SaveCheckpoint, jobVars
    <2>2. /\ group \in Groups /\ group \in through
          /\ \A h \in Groups : h < group => h \in through
          /\ \A h \in Groups \ todo : h \in through \cup {group}
      BY <2>1 DEF OrderInv, TodoInv, AtWork
    <2>3. NumbersInv' BY <2>1, <2>2 DEF OrderInv, NumbersInv
    <2>4. \A h \in Groups : h <= group => h \in through BY <2>2, GroupsNat
    <2>5. loadCheckpoint' = group BY <1>a, <2>1, <2>2 DEF loadCheckpoint
    <2>6. SkipInv' BY <2>1, <2>4, <2>5 DEF OrderInv, SkipInv, ThroughTo
    <2>7. TodoInv' BY <2>1, <2>2 DEF OrderInv, TodoInv, AtWork
    <2> QED BY <2>1, <2>3, <2>6, <2>7 DEF OrderInv
  <1>7. CASE SaveFails
    <2>1. /\ pc \in {"save", "write"} /\ pc' = "group"
          /\ UNCHANGED <<skip, todo, group, file, through>>
      BY <1>7 DEF SaveFails, jobVars
    <2> QED BY <2>1 DEF OrderInv, NumbersInv, SkipInv, TodoInv, ThroughTo, loadCheckpoint, AtWork
  <1>8. CASE Succeed
    <2>1. /\ pc = "group" /\ todo = {} /\ file' = None /\ through' = {}
          /\ UNCHANGED <<todo, group>>
          /\ \/ skip' = None /\ pc' = "scan"
             \/ skip' = skip /\ pc' = "down"
      BY <1>8, JobAssumption DEF Succeed, jobVars
    <2>2. through = Groups BY <2>1 DEF OrderInv, NumbersInv, TodoInv
    <2>3. InOrder!Finish BY <2>1, <2>2 DEF InOrder!Finish
    <2>4. NumbersInv' BY <2>1 DEF OrderInv, NumbersInv
    <2>5. SkipInv' BY <1>a, <2>1 DEF OrderInv, SkipInv, ThroughTo, loadCheckpoint, None
    <2>6. TodoInv' BY <2>1 DEF OrderInv, TodoInv, AtWork
    <2> QED BY <2>3, <2>4, <2>5, <2>6 DEF OrderInv, InOrder!Next
  <1>9. CASE GiveUpOrRetry \/ Restart
    <2>1. /\ pc' \in {"scan", "down"}
          /\ skip' = loadCheckpoint \/ (skip' = skip /\ pc' = "down")
          /\ UNCHANGED <<todo, group, file, through>>
      BY <1>9 DEF GiveUpOrRetry, Restart, jobVars
    <2>2. loadCheckpoint \in Groups \cup {None} /\ loadCheckpoint' = loadCheckpoint
      BY <1>a, <2>1 DEF OrderInv, NumbersInv, loadCheckpoint, None, Torn
    <2>3. NumbersInv' BY <2>1, <2>2 DEF OrderInv, NumbersInv
    <2>4. SkipInv' BY <2>1, <2>2 DEF OrderInv, SkipInv, ThroughTo
    <2>5. TodoInv' BY <2>1 DEF OrderInv, TodoInv, AtWork
    <2> QED BY <2>1, <2>3, <2>4, <2>5 DEF OrderInv
  <1>10. CASE Quiet /\ pc' \in {"scan", "begin", "failed", "down"} /\ (pc' # "down" => pc # "down")
    BY <1>10, QuietStep DEF AtWork
  <1>11. CASE Quiet /\ pc \in AtWork \ {"save", "write"} /\ pc' \in AtWork \ {"save", "write"}
    BY <1>11, QuietStep DEF AtWork
  <1>12. CASE Quiet /\ pc' = pc
    BY <1>12, QuietStep
  <1>13. CASE ConnectFails \/ ImageMissing \/ CallFails \/ Found \/ MonitorTimeout \/ Crash
    BY <1>10, <1>13 DEF ConnectFails, ImageMissing, CallFails, Found, MonitorTimeout, Crash,
                        AttemptFails, jobVars
  <1>14. CASE Aside \/ Download \/ Call \/ Resume \/ Recover
    BY <1>11, <1>14 DEF Aside, Download, Call, Resume, Recover, NextCommand, AtWork, jobVars
  <1>15. CASE DownloadFails \/ Verify
    BY <1>10, <1>11, <1>15 DEF DownloadFails, Verify, AttemptFails, AtWork, jobVars
  <1>16. CASE Order
    BY <1>11, <1>16 DEF Order, AtOrder, NextCommand, AtWork
  <1>17. CASE OrderFails
    BY <1>11, <1>17 DEF OrderFails, AtOrder, AtWork, jobVars
  <1>18. CASE Plug \/ Unplug
    BY <1>12, <1>18 DEF Plug, Unplug, jobVars
  <1>19. CASE UNCHANGED vars
    BY <1>12, <1>19 DEF vars, jobVars
  <1>20. CASE RemoveFails
    <2>1. /\ pc' \in {"scan", "down"}
          /\ skip' = None \/ (skip' = skip /\ pc' = "down")
          /\ UNCHANGED <<todo, group, file, through>>
      BY <1>20 DEF RemoveFails, jobVars
    <2>2. NumbersInv' BY <2>1 DEF OrderInv, NumbersInv
    <2>3. SkipInv' BY <1>a, <2>1 DEF OrderInv, SkipInv, ThroughTo, loadCheckpoint, None
    <2>4. TodoInv' BY <2>1 DEF OrderInv, TodoInv, AtWork
    <2> QED BY <2>1, <2>2, <2>3, <2>4 DEF OrderInv
  <1> QED
    BY <1>1, <1>2, <1>3, <1>4, <1>5, <1>6, <1>7, <1>8, <1>9, <1>13, <1>14, <1>15, <1>16,
       <1>17, <1>18, <1>19, <1>20
    DEF Next, AttemptStep, Over

-----------------------------------------------------------------------------
(* Commands. *)

Ordered == {"partition", "erase", "flash"}

(* A command is one of the package. *)
LEMMA PackageFacts ==
    ASSUME NEW n \in Numbers
    PROVE  /\ Package[n].group \in Groups
           /\ Package[n].do \in {"require", "upload", "call"} \cup Ordered
           /\ Package[n].what \in STRING /\ Package[n].segs \in Nat \ {0}
  <1> DEFINE C == [group : Nat,
                   do : {"require", "upload", "call", "partition", "erase", "flash"},
                   what : STRING, segs : Nat \ {0}]
  <1>1. Package \in Seq(C) BY JobAssumption
  <1>2. \A c \in C : /\ c.do \in {"require", "upload", "call"} \cup Ordered
                     /\ c.what \in STRING /\ c.segs \in Nat \ {0}
    BY DEF Ordered
  <1> HIDE DEF C
  <1>3. Package[n] \in C BY <1>1 DEF Numbers
  <1> QED BY <1>2, <1>3 DEF Groups

(* The command at work is one of those still to do. *)
LEMMA AtIsOneOf == ASSUME cmds \subseteq Numbers, cmds # {} PROVE at \in cmds
  BY SmallestFacts DEF at, FirstOf, Numbers

(* A command that writes is accounted for when the device has carried it   *)
(* out or its failure was printed; of a device that was swapped in nothing *)
(* is said.                                                                *)
Accounted(n) == Package[n].do \in Ordered /\ ~ swapped => n \in written \cup left

(* The commands of the groups gone through are accounted for, and those of *)
(* the group at work that are no longer to do; what stands in the middle   *)
(* of a command has one, and an image is called for a call only.           *)
BooksInv ==
    /\ \A n \in Numbers : Package[n].group \in through => Accounted(n)
    /\ pc \in AtWork =>
         /\ \A n \in Numbers \ cmds : Package[n].group = group => Accounted(n)
         /\ cmds \subseteq Numbers
    /\ pc \in {"verify", "call", "resume", "order", "recover"} => cmds # {}
    /\ pc \in {"verify", "call", "resume"} => cmd.do = "call"
    /\ pc \in {"save", "write"} => cmds = {}

(* Every variable keeps its type. *)
LEMMA StepTypeOK == TypeOK /\ OrderInv /\ BooksInv /\ [Next]_vars => TypeOK'
  <1> SUFFICES ASSUME TypeOK, OrderInv, BooksInv, [Next]_vars PROVE TypeOK' OBVIOUS
  <1> USE DEF TypeOK
  <1>1. CASE Connect BY <1>1 DEF Connect, pastVars
  <1>2. CASE ConnectFails
    BY <1>2, JobAssumption DEF ConnectFails, NoAnswer, Fault, AttemptFails, jobVars, devVars, pastVars
  <1>3. CASE SkipGroup BY <1>3 DEF SkipGroup, devVars, pastVars
  <1>4. CASE BeginGroup
    <2>1. FirstOf(todo) \in Groups BY <1>4, FirstOfFacts DEF BeginGroup
    <2>2. CommandsOf(FirstOf(todo)) \subseteq Numbers BY DEF CommandsOf
    <2>3. group' \in Nat /\ todo' \subseteq Groups /\ cmds' \subseteq Numbers
      BY <1>4, <2>1, <2>2, GroupsNat DEF BeginGroup
    <2> QED BY <1>4, <2>3 DEF BeginGroup, devVars, pastVars
  <1>5. CASE Aside BY <1>5 DEF Aside, NextCommand, devVars, pastVars
  <1>6. CASE ImageMissing BY <1>6 DEF ImageMissing, AttemptFails, jobVars, devVars, pastVars
  <1>7. CASE Download BY <1>7 DEF Download, jobVars, devVars, pastVars
  <1>8. CASE DownloadFails
    BY <1>8, JobAssumption DEF DownloadFails, NoAnswer, Fault, AttemptFails, jobVars, devVars, pastVars
  <1>9. CASE Verify
    BY <1>9, JobAssumption DEF Verify, NoAnswer, Fault, AttemptFails, jobVars, devVars, pastVars
  <1>10. CASE Call BY <1>10 DEF Call, StageAfter, jobVars, pastVars
  <1>11. CASE CallFails
    BY <1>11, JobAssumption
    DEF CallFails, Refused, NoAnswer, Fault, AttemptFails, StageAfter, jobVars, pastVars
  <1>12. CASE Resume BY <1>12 DEF Resume, NextCommand, devVars, pastVars
  <1>13. CASE Order
    <2>1. cmds # {} /\ at \in Numbers BY <1>13, AtIsOneOf DEF Order, AtOrder, BooksInv
    <2>2. seg' \in Nat \ {0} BY <1>13 DEF Order, NextCommand
    <2>3. cmds' \subseteq Numbers /\ written' \subseteq Numbers
      BY <1>13, <2>1 DEF Order, NextCommand
    <2> QED BY <1>13, <2>2, <2>3 DEF Order, NextCommand, devVars
  <1>14. CASE OrderFails
    BY <1>14, JobAssumption DEF OrderFails, Refused, NoAnswer, Fault, jobVars, devVars, pastVars
  <1>15. CASE Recover
    BY <1>15, AtIsOneOf DEF Recover, NextCommand, BooksInv, devVars
  <1>16. CASE GroupThrough BY <1>16 DEF OrderInv, TodoInv, AtWork, GroupThrough, jobVars, devVars, pastVars
  <1>17. CASE Truncate BY <1>17 DEF Truncate, jobVars, devVars, pastVars
  <1>18. CASE SaveCheckpoint BY <1>18 DEF OrderInv, TodoInv, AtWork, SaveCheckpoint, jobVars, devVars, pastVars
  <1>19. CASE SaveFails BY <1>19, JobAssumption DEF SaveFails, Fault, jobVars, devVars, pastVars
  <1>20. CASE Succeed BY <1>20 DEF Succeed, jobVars, devVars
  <1>21. CASE GiveUpOrRetry
    BY <1>21, JobAssumption DEF GiveUpOrRetry, Fault, loadCheckpoint, None, Torn, jobVars, pastVars
  <1>22. CASE Plug
    <2>1. /\ present' \in BOOLEAN /\ stage' \in {"bootrom", "preboot", "flasher"}
          /\ written' \subseteq written /\ swapped' \in BOOLEAN
      BY <1>22 DEF Plug
    <2>2. UNCHANGED <<linked, unplugs, pc, skip, jobVars, why, file, options, left, through, runs, faults>>
      BY <1>22 DEF Plug
    <2> QED BY <2>1, <2>2 DEF jobVars
  <1>23. CASE Unplug
    <2>1. unplugs' \in 0 .. MaxUnplugs BY <1>23, JobAssumption DEF Unplug
    <2>2. present' \in BOOLEAN /\ linked' \in BOOLEAN BY <1>23 DEF Unplug
    <2> QED BY <1>23, <2>1, <2>2, ZenonT(60) DEF Unplug, jobVars, pastVars
  <1>24. CASE Found BY <1>24 DEF Found, jobVars, devVars, pastVars
  <1>25. CASE MonitorTimeout BY <1>25 DEF MonitorTimeout, jobVars, devVars, pastVars
  <1>26. CASE Crash BY <1>26 DEF Crash, jobVars, devVars, pastVars
  <1>27. CASE Restart
    BY <1>27, JobAssumption DEF Restart, loadCheckpoint, None, Torn, jobVars, devVars, pastVars
  <1>29. CASE UNCHANGED vars BY <1>29 DEF vars, jobVars, devVars, pastVars
  <1>28. CASE RemoveFails
    BY <1>28, JobAssumption DEF RemoveFails, Fault, None, jobVars, devVars, pastVars
  <1> QED
    BY <1>1, <1>2, <1>3, <1>4, <1>5, <1>6, <1>7, <1>8, <1>9, <1>10, <1>11, <1>12, <1>13,
       <1>14, <1>15, <1>16, <1>17, <1>18, <1>19, <1>20, <1>21, <1>22, <1>23, <1>24, <1>25,
       <1>26, <1>27, <1>28, <1>29
    DEF Next, AttemptStep, Over

(* The command at work is left, and accounted for if it writes. *)
LEMMA NextCommandBooks ==
    ASSUME TypeOK, OrderInv, BooksInv, NextCommand,
           pc \in AtWork \ {"save", "write"}, cmds # {},
           written \subseteq written', left \subseteq left', UNCHANGED <<swapped, through>>,
           Package[at].do \in Ordered => at \in written' \cup left'
    PROVE  BooksInv'
  <1>1. at \in cmds BY AtIsOneOf DEF BooksInv, AtWork
  <1>2. ASSUME NEW n \in Numbers, Accounted(n) PROVE Accounted(n)'
    BY <1>2 DEF Accounted
  <1>3. cmds' = cmds \ {at} /\ pc' = "command" /\ group' = group BY DEF NextCommand
  <1>4. ASSUME NEW n \in Numbers, n \notin cmds', Package[n].group = group PROVE Accounted(n)'
    <2>1. CASE n = at BY <2>1 DEF Accounted
    <2>2. CASE n \notin cmds BY <1>2, <1>4, <2>2 DEF BooksInv, AtWork
    <2> QED BY <1>3, <1>4, <2>1, <2>2
  <1> QED BY <1>2, <1>3, <1>4 DEF BooksInv, AtWork

(* A step that neither begins, ends nor leaves a command's group, a        *)
(* command or the job keeps the books.                                     *)
LEMMA QuietBooks ==
    ASSUME BooksInv, UNCHANGED <<group, cmds, left, through>>,
           swapped' \/ (~ swapped /\ written' = written),
           pc' \in AtWork => pc \in AtWork,
           pc' \in {"verify", "call", "resume", "order", "recover"} => cmds # {},
           pc' \in {"verify", "call", "resume"} => cmd.do = "call",
           pc' \in {"save", "write"} => pc \in {"save", "write"}
    PROVE  BooksInv'
  <1>1. cmd' = cmd BY DEF cmd, at
  <1>2. ASSUME NEW n \in Numbers, Accounted(n) PROVE Accounted(n)'
    BY <1>2 DEF Accounted
  <1> QED BY <1>1, <1>2 DEF BooksInv

LEMMA StepBooksInv == TypeOK /\ OrderInv /\ BooksInv /\ [Next]_vars => BooksInv'
  <1> SUFFICES ASSUME TypeOK, OrderInv, BooksInv, [Next]_vars PROVE BooksInv' OBVIOUS
  <1>1. CASE BeginGroup
    <2> DEFINE g == FirstOf(todo)
    <2>1. /\ pc' = "command" /\ group' = g /\ cmds' = CommandsOf(g)
          /\ UNCHANGED <<written, left, swapped, through>>
      BY <1>1 DEF BeginGroup, pastVars
    <2>2. \A n \in Numbers : Accounted(n)' = Accounted(n) BY <2>1 DEF Accounted
    <2>3. \A n \in Numbers \ cmds' : Package[n].group # group' BY <2>1 DEF CommandsOf
    <2> QED BY <2>1, <2>2, <2>3 DEF BooksInv, CommandsOf
  <1>2. CASE Aside
    <2>1. Package[at].do \notin Ordered BY <1>2 DEF Aside, cmd, Ordered
    <2> QED BY <1>2, <2>1, NextCommandBooks DEF Aside, AtWork, pastVars
  <1>3. CASE Resume
    <2>1. cmds # {} /\ Package[at].do \notin Ordered
      BY <1>3 DEF Resume, BooksInv, cmd, Ordered
    <2> QED BY <1>3, <2>1, NextCommandBooks DEF Resume, AtWork, pastVars
  <1>4. CASE Order
    <2>0. /\ pc \in {"order", "command"} /\ cmds # {} /\ UNCHANGED <<left, swapped, through>>
      BY <1>4 DEF Order, AtOrder, BooksInv
    <2>1. CASE seg < cmd.segs
      BY <1>4, <2>0, <2>1, QuietBooks DEF Order, AtWork
    <2>2. CASE ~ (seg < cmd.segs)
      <3>1. NextCommand /\ written' = written \cup {at} BY <1>4, <2>2 DEF Order
      <3> QED BY <2>0, <3>1, NextCommandBooks DEF AtWork
    <2> QED BY <2>1, <2>2
  <1>5. CASE Recover
    <2>1. /\ pc = "recover" /\ NextCommand /\ left' = left \cup {at}
          /\ UNCHANGED <<written, swapped, through>>
      BY <1>5 DEF Recover
    <2> QED BY <2>1, NextCommandBooks DEF AtWork, BooksInv
  <1>6. CASE GroupThrough
    <2>1. /\ pc = "command" /\ cmds = {} /\ pc' = "save" /\ through' = through \cup {group}
          /\ UNCHANGED <<group, cmds, written, left, swapped>>
      BY <1>6 DEF GroupThrough, jobVars, pastVars
    <2>2. \A n \in Numbers : Accounted(n)' = Accounted(n) BY <2>1 DEF Accounted
    <2> QED BY <2>1, <2>2 DEF BooksInv, AtWork
  <1>7. CASE Succeed
    <2>1. through' = {} /\ pc' \in {"scan", "down"} BY <1>7 DEF Succeed
    <2> QED BY <2>1 DEF BooksInv, AtWork
  <1>8. CASE Truncate \/ SaveCheckpoint \/ SaveFails
    BY <1>8, QuietBooks
    DEF Truncate, SaveCheckpoint, SaveFails, AtWork, jobVars, pastVars
  <1>9. CASE Download \/ DownloadFails
    <2>1. cmds # {} /\ pc = "command" /\ UNCHANGED <<group, cmds, written, left, swapped, through>>
      BY <1>9 DEF Download, DownloadFails, AttemptFails, jobVars, pastVars
    <2>2. \/ pc' = "verify" /\ cmd.do = "call"
          \/ pc' \in {"order", "recover", "failed"}
      BY <1>9 DEF Download, DownloadFails, AttemptFails
    <2> QED BY <2>1, <2>2, QuietBooks DEF AtWork
  <1>10. CASE Verify \/ Call
    <2>1. /\ pc \in {"verify", "call"} /\ pc' \in {"call", "resume", "failed"}
          /\ UNCHANGED <<group, cmds, written, left, swapped, through>>
      BY <1>10 DEF Verify, Call, AttemptFails, jobVars, pastVars
    <2>2. cmds # {} /\ cmd.do = "call" BY <2>1 DEF BooksInv
    <2> QED BY <2>1, <2>2, QuietBooks DEF AtWork
  <1>11. CASE OrderFails
    <2>1. /\ pc \in {"order", "command"} /\ pc' = "recover" /\ cmds # {}
          /\ UNCHANGED <<group, cmds, written, left, swapped, through>>
      BY <1>11 DEF OrderFails, AtOrder, BooksInv, jobVars, pastVars
    <2> QED BY <2>1, QuietBooks DEF AtWork
  <1>12. CASE \/ Connect \/ ConnectFails \/ SkipGroup \/ ImageMissing \/ CallFails
             \/ GiveUpOrRetry \/ RemoveFails \/ Found \/ MonitorTimeout \/ Crash \/ Restart
    <2>1. /\ pc' \in {"group", "failed", "scan", "begin", "down"}
          /\ UNCHANGED <<group, cmds, written, left, swapped, through>>
      BY <1>12
      DEF Connect, ConnectFails, SkipGroup, ImageMissing, CallFails, GiveUpOrRetry, RemoveFails, Found,
          MonitorTimeout, Crash, Restart, AttemptFails, jobVars, pastVars
    <2> QED BY <2>1, QuietBooks DEF AtWork
  <1>13. CASE Unplug \/ UNCHANGED vars
    <2>1. UNCHANGED <<pc, group, cmds, written, left, swapped, through>>
      BY <1>13 DEF Unplug, vars, jobVars, pastVars
    <2> QED BY <2>1, QuietBooks DEF BooksInv
  <1>14. CASE Plug
    <2>1. UNCHANGED <<pc, group, cmds, left, through>> BY <1>14 DEF Plug, jobVars
    <2>2. swapped' \/ (~ swapped /\ written' = written) BY <1>14 DEF Plug
    <2> QED BY <2>1, <2>2, QuietBooks DEF BooksInv
  <1> QED
    BY <1>1, <1>2, <1>3, <1>4, <1>5, <1>6, <1>7, <1>8, <1>9, <1>10, <1>11, <1>12, <1>13,
       <1>14
    DEF Next, AttemptStep, Over

LEMMA InitTypedBooks == Init => TypeOK /\ BooksInv
  <1>1. ASSUME Init PROVE TypeOK
    <2>1. runs \in 1 .. MaxRuns /\ faults \in 0 .. MaxFaults /\ unplugs \in 0 .. MaxUnplugs
      BY <1>1, JobAssumption DEF Init
    <2>2. group \in Nat /\ seg \in Nat \ {0} /\ skip = None /\ file = None BY <1>1 DEF Init
    <2> QED BY <1>1, <2>1, <2>2, Zenon DEF Init, TypeOK
  <1>2. Init => BooksInv BY DEF Init, BooksInv, AtWork
  <1> QED BY <1>1, <1>2

-----------------------------------------------------------------------------
(* The results. *)

(* Over all failures, retries, crashes and restarts the groups of a        *)
(* package are gone through in ascending order and none is left out, for   *)
(* every package: FlashJob implements GroupOrder.                          *)
THEOREM JobInOrder == Spec => ImplementsGroupOrder
  <1>1. Init => OrderInv BY InitOrderInv
  <1>2. Init => InOrder!Init BY DEF Init, InOrder!Init
  <1>3. OrderInv /\ [Next]_vars => OrderInv' /\ [InOrder!Next]_through BY StepOrderInv
  <1> QED BY <1>1, <1>2, <1>3, PTL DEF Spec, ImplementsGroupOrder, InOrder!Spec

(* The checkpoint is never ahead of the job, not even when the process     *)
(* dies between two of its steps, or while it writes the checkpoint.       *)
THEOREM CheckpointNeverAhead == Spec => []CheckpointBehind
  <1>1. Init => OrderInv BY InitOrderInv
  <1>2. OrderInv /\ [Next]_vars => OrderInv' BY StepOrderInv
  <1>3. OrderInv => CheckpointBehind BY DEF OrderInv, SkipInv, ThroughTo, CheckpointBehind
  <1> QED BY <1>1, <1>2, <1>3, PTL DEF Spec

(* Every variable keeps its type: the checkpoint file holds a group of the *)
(* package, nothing, or is torn, and the bounds are kept.                  *)
THEOREM JobTypeCorrect == Spec => []TypeOK
  <1>1. Init => TypeOK /\ OrderInv /\ BooksInv BY InitTypedBooks, InitOrderInv
  <1>2. TypeOK /\ OrderInv /\ BooksInv /\ [Next]_vars => TypeOK' /\ OrderInv' /\ BooksInv'
    BY StepTypeOK, StepOrderInv, StepBooksInv
  <1> QED BY <1>1, <1>2, PTL DEF Spec

(* No command of a group a checkpoint covers is lost silently: it was      *)
(* carried out, or its failure was printed, whatever failed, died and was  *)
(* started again, with other flags, in between; all on one device.         *)
THEOREM CheckpointAlwaysAccounts == Spec => []CheckpointAccounts
  <1>1. Init => TypeOK /\ OrderInv /\ BooksInv BY InitTypedBooks, InitOrderInv
  <1>2. TypeOK /\ OrderInv /\ BooksInv /\ [Next]_vars => TypeOK' /\ OrderInv' /\ BooksInv'
    BY StepTypeOK, StepOrderInv, StepBooksInv
  <1>3. OrderInv /\ BooksInv => CheckpointAccounts
    <2> SUFFICES ASSUME OrderInv, BooksInv,
                        NEW n \in Numbers, Package[n].group <= loadCheckpoint,
                        Package[n].do \in Ordered, ~ swapped
                 PROVE  n \in written \cup left
      BY DEF CheckpointAccounts, Ordered
    <2>1. Package[n].group \in through
      BY PackageFacts DEF OrderInv, SkipInv, ThroughTo
    <2> QED BY <2>1 DEF BooksInv, Accounted
  <1> QED BY <1>1, <1>2, <1>3, PTL DEF Spec
=============================================================================
