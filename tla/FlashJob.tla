------------------------------- MODULE FlashJob -------------------------------
(***************************************************************************)
(* flash-watch (flashWatchMode, main.go): it waits for a device, runs the  *)
(* commands of a package on it group by group (executeFlashCommands),      *)
(* saves a checkpoint after every group, and on a failure starts over from *)
(* the checkpoint.  The process may die and be started again at any time.  *)
(*                                                                         *)
(* pc          where the process stands; "down" when it does not run       *)
(* skip        lastCompletedGroup                                          *)
(* todo, cmds  the groups, and the commands of the group, still to do      *)
(* group, seg  the group at work; the segment of a flash at work           *)
(* why         the error the attempt returned                              *)
(* file        the checkpoint file                                         *)
(* present     the device is enumerated in download mode (external)        *)
(* linked      it has not gone away since it was opened (external)         *)
(* stage       the program the device runs (external)                      *)
(* options     the flags and the images the process was started with       *)
(* written     history: the commands this device has carried out           *)
(* left        history: the commands left after a failure that was printed *)
(* through     history: the groups gone through since the checkpoint was   *)
(*             last cleared                                                *)
(* swapped     history: since then another device has taken the place of   *)
(*             one that had carried out some of the job                    *)
(***************************************************************************)
EXTENDS Integers, Sequences, FiniteSets

CONSTANTS
    Package,        \* download.json: [group, do, what, segs], segs >= 1
    Options,        \* how it may be started: [retry, limited, missing], for
                    \* --retry, --timeout and the images not in the zip
    MaxRuns,        \* bound on the processes started
    MaxFaults,      \* bound on what the device refuses or does not answer,
                    \* and on the failures of the checkpoint's disk
    MaxUnplugs      \* bound on the times the device goes away

ASSUME JobAssumption ==
    /\ Package \in Seq([group : Nat, do : {"require", "upload", "call", "partition", "erase", "flash"},
                        what : STRING, segs : Nat \ {0}])
    /\ Options \subseteq [retry : BOOLEAN, limited : BOOLEAN, missing : SUBSET STRING]
    /\ MaxRuns \in Nat \ {0} /\ MaxFaults \in Nat /\ MaxUnplugs \in Nat

VARIABLES pc, skip, todo, group, cmds, seg, why, file,
          present, linked, stage, options, written, left, swapped, through, runs, faults, unplugs

jobVars  == <<todo, group, cmds, seg>>
devVars  == <<present, linked, stage, unplugs>>
pastVars == <<written, left, swapped>>
vars     == <<pc, skip, jobVars, why, file, devVars, options, pastVars, through, runs, faults>>

Numbers == 1 .. Len(Package)                    \* a command is named by its number
Groups  == {Package[n].group : n \in Numbers}

None == -1          \* no checkpoint
Torn == -2          \* truncated, not yet written
loadCheckpoint == IF file >= 0 THEN file ELSE None

Init ==
    /\ pc = "scan" /\ skip = None
    /\ todo = {} /\ group = 0 /\ cmds = {} /\ seg = 1
    /\ why = "none" /\ file = None
    /\ present = FALSE /\ linked = FALSE /\ stage = "bootrom" /\ unplugs = 0
    /\ options \in Options
    /\ written = {} /\ left = {} /\ swapped = FALSE /\ through = {}
    /\ runs = 1 /\ faults = 0

-----------------------------------------------------------------------------
(* The device (external): preboot is called by the boot ROM, flasher by    *)
(* preboot, and only flasher writes.  It starts in the boot ROM.           *)

Accepts(c) ==
    \/ c.do = "call" /\ c.what = "preboot.img" /\ stage = "bootrom"
    \/ c.do = "call" /\ c.what = "flasher.img" /\ stage = "preboot"
    \/ c.do \in {"partition", "erase", "flash"} /\ stage = "flasher"

StageAfter(c) ==
    CASE c.do = "call" /\ c.what = "preboot.img" -> "preboot"
      [] c.do = "call" /\ c.what = "flasher.img" -> "flasher"
      [] OTHER                                   -> stage

(* What is plugged in may be another device: nothing tells the two apart,  *)
(* and the checkpoint is named after the package.                          *)
Plug ==
    /\ ~ present
    /\ present' = TRUE
    /\ stage' = "bootrom"
    /\ \/ UNCHANGED <<written, swapped>>
       \/ written' = {} /\ swapped' = (swapped \/ written # {})
    /\ UNCHANGED <<linked, unplugs, pc, skip, jobVars, why, file, options, left, through, runs, faults>>

Unplug ==
    /\ present
    /\ unplugs < MaxUnplugs
    /\ unplugs' = unplugs + 1
    /\ present' = FALSE
    /\ linked' = FALSE
    /\ UNCHANGED <<stage, pc, skip, jobVars, why, file, options, pastVars, through, runs, faults>>

Fault == faults < MaxFaults /\ faults' = faults + 1

(* An exchange gets no answer: the device is gone, it says nothing or      *)
(* warns ("timeout", "device abort"), or the transfer fails; the kernel's  *)
(* word for a transfer out of time is "connection timed out".              *)
NoAnswer(there) ==
    \/ (~ there /\ why' = "gone" /\ UNCHANGED faults)
    \/ (there /\ Fault /\ why' \in {"timeout", "io"})

(* It is refused: the device cannot, or will not. *)
Refused(c) ==
    /\ linked
    /\ why' = "refused"
    /\ IF Accepts(c) THEN Fault ELSE UNCHANGED faults

-----------------------------------------------------------------------------
(* executeFlashCommands. *)

(* Mutant: the keys are compared as text ("1" < "10" < "2"). *)
FirstOf_AsText(S) ==
    LET rank(n) == IF n < 10 THEN 10 * n - 1 ELSE n IN
      CHOOSE g \in S : \A h \in S : rank(g) <= rank(h)

(* The keys of the groups are sorted as numbers; the commands of a group   *)
(* are taken as they stand in the package.                                 *)
FirstOf(S) == CHOOSE g \in S : \A h \in S : g <= h

at  == FirstOf(cmds)
cmd == Package[at]

CommandsOf(g) == {n \in Numbers : Package[n].group = g}

NextCommand ==
    /\ cmds' = cmds \ {at}
    /\ seg' = 1
    /\ pc' = "command"
    /\ UNCHANGED <<todo, group>>

AttemptFails == pc' = "failed" /\ UNCHANGED jobVars

(* Look for the device again, open it, claim the interface, shake hands. *)
Connect ==
    /\ pc = "begin"
    /\ present
    /\ linked' = TRUE
    /\ todo' = Groups
    /\ pc' = "group"
    /\ UNCHANGED <<group, cmds, seg, skip, why, file, present, stage, unplugs, options, pastVars, through, runs, faults>>

ConnectFails ==
    /\ pc = "begin"
    /\ NoAnswer(present)
    /\ AttemptFails
    /\ UNCHANGED <<skip, file, devVars, options, pastVars, through, runs>>

SkipGroup ==
    /\ pc = "group" /\ todo # {}
    /\ skip >= 0 /\ FirstOf(todo) <= skip
    /\ todo' = todo \ {FirstOf(todo)}
    /\ UNCHANGED <<pc, group, cmds, seg, skip, why, file, devVars, options, pastVars, through, runs, faults>>

(* Mutant: the checkpoint is saved before the group. *)
BeginGroup_Saves ==
    /\ pc = "group" /\ todo # {}
    /\ ~ (skip >= 0 /\ FirstOf(todo) <= skip)
    /\ group' = FirstOf(todo)
    /\ todo' = todo \ {group'}
    /\ cmds' = CommandsOf(group')
    /\ seg' = 1
    /\ pc' = "command"
    /\ file' = group'
    /\ UNCHANGED <<skip, why, devVars, options, pastVars, through, runs, faults>>

BeginGroup ==
    /\ pc = "group" /\ todo # {}
    /\ ~ (skip >= 0 /\ FirstOf(todo) <= skip)
    /\ group' = FirstOf(todo)
    /\ todo' = todo \ {group'}
    /\ cmds' = CommandsOf(group')
    /\ seg' = 1
    /\ pc' = "command"
    /\ UNCHANGED <<skip, why, file, devVars, options, pastVars, through, runs, faults>>

(* require, progress and unknown commands are printed; a partition that is *)
(* read back (upload, see ReadBack) ends neither the group nor the attempt *)
(* when it fails.                                                          *)
Aside ==
    /\ pc = "command" /\ cmds # {}
    /\ cmd.do \in {"require", "upload"}
    /\ NextCommand
    /\ UNCHANGED <<skip, why, file, devVars, options, pastVars, through, runs, faults>>

HasImage(c) == c.do \in {"call", "partition", "flash"}

ImageMissing ==
    /\ pc = "command" /\ cmds # {}
    /\ HasImage(cmd) /\ cmd.what \in options.missing
    /\ why' = "missing"
    /\ AttemptFails
    /\ UNCHANGED <<skip, file, devVars, options, pastVars, through, runs, faults>>

(* abootDownload of the image, or of one segment of it: any stage takes it. *)
Download ==
    /\ pc = "command" /\ cmds # {}
    /\ HasImage(cmd) /\ cmd.what \notin options.missing
    /\ linked
    /\ pc' = IF cmd.do = "call" THEN "verify" ELSE "order"
    /\ UNCHANGED <<skip, jobVars, why, file, devVars, options, pastVars, through, runs, faults>>

(* A failed download ends the attempt for a call, else it ends the command. *)
DownloadFails ==
    /\ pc = "command" /\ cmds # {}
    /\ HasImage(cmd) /\ cmd.what \notin options.missing
    /\ NoAnswer(linked) \/ (linked /\ Fault /\ why' = "refused")
    /\ IF cmd.do = "call" THEN AttemptFails ELSE pc' = "recover" /\ UNCHANGED jobVars
    /\ UNCHANGED <<skip, file, devVars, options, pastVars, through, runs>>

(* The answer to verify is printed, whatever it says. *)
Verify ==
    /\ pc = "verify"
    /\ \/ linked /\ pc' = "call" /\ UNCHANGED <<jobVars, why, faults>>
       \/ NoAnswer(linked) /\ AttemptFails
    /\ UNCHANGED <<skip, file, devVars, options, pastVars, through, runs>>

Call ==
    /\ pc = "call"
    /\ linked /\ Accepts(cmd)
    /\ stage' = StageAfter(cmd)
    /\ pc' = "resume"
    /\ UNCHANGED <<skip, jobVars, why, file, present, linked, unplugs, options, pastVars, through, runs, faults>>

(* Without an answer the image may be running all the same. *)
CallFails ==
    /\ pc = "call"
    /\ \/ Refused(cmd) /\ UNCHANGED stage
       \/ NoAnswer(linked) /\ (UNCHANGED stage \/ (linked /\ Accepts(cmd) /\ stage' = StageAfter(cmd)))
    /\ AttemptFails
    /\ UNCHANGED <<skip, file, present, linked, unplugs, options, pastVars, through, runs>>

(* The handshake with the new program and getvar:max-download-size; the    *)
(* failure of either is a warning.                                         *)
Resume ==
    /\ pc = "resume"
    /\ NextCommand
    /\ UNCHANGED <<skip, why, file, devVars, options, pastVars, through, runs, faults>>

AtOrder ==
    \/ pc = "order"
    \/ pc = "command" /\ cmds # {} /\ cmd.do = "erase"

(* partition, erase:<p> or flash:<p>; the next segment of a flash follows. *)
Order ==
    /\ AtOrder
    /\ linked /\ Accepts(cmd)
    /\ IF seg < cmd.segs
         THEN seg' = seg + 1 /\ pc' = "command" /\ UNCHANGED <<todo, group, cmds, written>>
         ELSE NextCommand /\ written' = written \cup {at}
    /\ UNCHANGED <<skip, why, file, devVars, options, left, swapped, through, runs, faults>>

(* Mutant: a break that leaves the loop over the commands, not the switch. *)
OrderFails_Breaks ==
    /\ AtOrder
    /\ NoAnswer(linked) \/ Refused(cmd)
    /\ pc' = "recover"
    /\ cmds' = {at}
    /\ UNCHANGED <<skip, todo, group, seg, file, devVars, options, pastVars, through, runs>>

OrderFails ==
    /\ AtOrder
    /\ NoAnswer(linked) \/ Refused(cmd)
    /\ pc' = "recover"
    /\ UNCHANGED <<skip, jobVars, file, devVars, options, pastVars, through, runs>>

(* Mutant: the command that failed is tried again, without end. *)
Recover_TriesAgain ==
    /\ pc = "recover"
    /\ pc' = "command"
    /\ seg' = 1
    /\ UNCHANGED <<todo, group, cmds, skip, why, file, devVars, options, pastVars, through, runs, faults>>

(* rehandshake, whose failure is printed; the command is left. *)
Recover ==
    /\ pc = "recover"
    /\ left' = left \cup {at}
    /\ NextCommand
    /\ UNCHANGED <<skip, why, file, devVars, options, written, swapped, through, runs, faults>>

-----------------------------------------------------------------------------
(* The checkpoint: os.WriteFile truncates the file, then writes it. *)

GroupThrough ==
    /\ pc = "command" /\ cmds = {}
    /\ through' = through \cup {group}
    /\ pc' = "save"
    /\ UNCHANGED <<skip, jobVars, why, file, devVars, options, pastVars, runs, faults>>

Truncate ==
    /\ pc = "save"
    /\ file' = Torn
    /\ pc' = "write"
    /\ UNCHANGED <<skip, jobVars, why, devVars, options, pastVars, through, runs, faults>>

(* Mutant: the number that is written is the one of the next group. *)
SaveCheckpoint_Next ==
    /\ pc = "write"
    /\ file' = group + 1
    /\ pc' = "group"
    /\ UNCHANGED <<skip, jobVars, why, devVars, options, pastVars, through, runs, faults>>

SaveCheckpoint ==
    /\ pc = "write"
    /\ file' = group
    /\ pc' = "group"
    /\ UNCHANGED <<skip, jobVars, why, devVars, options, pastVars, through, runs, faults>>

SaveFails ==
    /\ pc \in {"save", "write"}
    /\ Fault
    /\ pc' = "group"
    /\ UNCHANGED <<skip, jobVars, why, file, devVars, options, pastVars, through, runs>>

-----------------------------------------------------------------------------
(* flashWatchMode. *)

Found ==
    /\ pc = "scan"
    /\ present
    /\ pc' = "begin"
    /\ UNCHANGED <<skip, jobVars, why, file, devVars, options, pastVars, through, runs, faults>>

MonitorTimeout ==
    /\ pc = "scan"
    /\ options.limited
    /\ pc' = "down"
    /\ UNCHANGED <<skip, jobVars, why, file, devVars, options, pastVars, through, runs, faults>>

(* The file is removed; with --retry the watch goes on, from the start. *)
Succeed ==
    /\ pc = "group" /\ todo = {}
    /\ file' = None
    /\ skip' = IF options.retry THEN None ELSE skip
    /\ pc' = IF options.retry THEN "scan" ELSE "down"
    /\ through' = {} /\ written' = {} /\ left' = {} /\ swapped' = FALSE
    /\ UNCHANGED <<options, jobVars, why, devVars, runs, faults>>

(* Whether it could be removed is not looked at: with the checkpoint, what *)
(* was done of the job stays, and the next process will have nothing to do. *)
RemoveFails ==
    /\ pc = "group" /\ todo = {}
    /\ Fault
    /\ skip' = IF options.retry THEN None ELSE skip
    /\ pc' = IF options.retry THEN "scan" ELSE "down"
    /\ UNCHANGED <<jobVars, why, file, devVars, options, pastVars, through, runs>>

(* The error's text decides on a USB reset, which re-enumerates the device *)
(* into its boot ROM, or fails; the checkpoint is loaded again.            *)
GiveUpOrRetry ==
    /\ pc = "failed"
    /\ pc' = IF options.retry THEN "scan" ELSE "down"
    /\ skip' = IF options.retry THEN loadCheckpoint ELSE skip
    /\ IF options.retry /\ why = "timeout" /\ present
         THEN (stage' = "bootrom" /\ UNCHANGED faults) \/ (Fault /\ UNCHANGED stage)
         ELSE UNCHANGED <<stage, faults>>
    /\ UNCHANGED <<jobVars, why, file, present, linked, unplugs, options, pastVars, through, runs>>

Crash ==
    /\ pc # "down"
    /\ runs < MaxRuns
    /\ pc' = "down"
    /\ UNCHANGED <<skip, jobVars, why, file, devVars, options, pastVars, through, runs, faults>>

(* Started anew by the user, with the same package and flags of his choice. *)
Restart ==
    /\ pc = "down"
    /\ runs < MaxRuns
    /\ runs' = runs + 1
    /\ skip' = loadCheckpoint
    /\ options' \in {o \in Options : o.missing = options.missing}
    /\ pc' = "scan"
    /\ UNCHANGED <<jobVars, why, file, devVars, pastVars, through, faults>>

-----------------------------------------------------------------------------

Over == pc = "down" /\ runs = MaxRuns /\ UNCHANGED vars

AttemptStep ==
    \/ Connect
    \/ ConnectFails
    \/ SkipGroup
    \/ BeginGroup
    \/ Aside
    \/ ImageMissing
    \/ Download
    \/ DownloadFails
    \/ Verify
    \/ Call
    \/ CallFails
    \/ Resume
    \/ Order
    \/ OrderFails
    \/ Recover
    \/ GroupThrough
    \/ Truncate
    \/ SaveCheckpoint
    \/ SaveFails
    \/ Succeed
    \/ RemoveFails
    \/ GiveUpOrRetry

Next ==
    \/ AttemptStep
    \/ Plug
    \/ Unplug
    \/ Found
    \/ MonitorTimeout
    \/ Crash
    \/ Restart
    \/ Over

Spec == Init /\ [][Next]_vars

(* The process runs, and every wait of an exchange has a timeout. *)
FairSpec == Spec /\ WF_vars(AttemptStep)

-----------------------------------------------------------------------------

(* Every variable has the shape of what it stands for. *)
TypeOK ==
    /\ pc \in {"scan", "begin", "group", "command", "verify", "call", "resume", "order",
               "recover", "save", "write", "failed", "down"}
    /\ skip \in Groups \cup {None} /\ file \in Groups \cup {None, Torn}
    /\ todo \subseteq Groups
    /\ group \in Nat
    /\ cmds \subseteq Numbers
    /\ seg \in Nat \ {0}
    /\ why \in {"none", "gone", "timeout", "io", "refused", "missing"}
    /\ present \in BOOLEAN /\ linked \in BOOLEAN /\ swapped \in BOOLEAN /\ stage \in {"bootrom", "preboot", "flasher"}
    /\ options \in Options
    /\ written \subseteq Numbers /\ left \subseteq Numbers /\ through \subseteq Groups
    /\ runs \in 1 .. MaxRuns /\ faults \in 0 .. MaxFaults /\ unplugs \in 0 .. MaxUnplugs

(* The groups are gone through in order and none is left out, over all     *)
(* failures, retries, crashes and restarts (executeFlashCommands with      *)
(* skipGroupsBelow).                                                       *)
InOrder == INSTANCE GroupOrder

ImplementsGroupOrder == InOrder!Spec

(* The checkpoint is never ahead of the job: the groups it makes the next  *)
(* attempt skip have been gone through (saveCheckpoint, loadCheckpoint).   *)
CheckpointBehind ==
    \A g \in Groups : g <= loadCheckpoint => g \in through

(* Whatever the device does, an attempt comes to an end. *)
AttemptsEnd == (pc = "begin") ~> (pc \in {"scan", "down"})

(* What a checkpoint makes the next attempt skip was carried out by the    *)
(* device, or its failure was printed as it was left: no command of a      *)
(* covered group is lost silently, over retries, crashes and restarts      *)
(* (main.go:30 calls such a group completed with success).  Only a device  *)
(* that takes the place of one on which the job was begun misses some.     *)
CheckpointAccounts ==
    ~ swapped => \A n \in Numbers :
        Package[n].group <= loadCheckpoint /\ Package[n].do \in {"partition", "erase", "flash"}
            => n \in written \cup left

(* Flashing goes on only where the flasher runs; where it cannot be        *)
(* reached the attempt fails (main.go:905).                                *)
FlashInFlasher ==
    pc = "order" /\ linked /\ cmd.do = "flash" => stage = "flasher"
=============================================================================
