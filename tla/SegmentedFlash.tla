---------------------------- MODULE SegmentedFlash ----------------------------
(***************************************************************************)
(* How an image of a package gets onto its partition: what                 *)
(* convertZipToSparse makes of it when the zip is parsed, how it is        *)
(* downloaded once the flasher has reported its limit (the flash command   *)
(* of executeFlashCommands, main.go:1029-1085), whole or in segments       *)
(* (flashSegmented), and what the flasher writes.                          *)
(*                                                                         *)
(* pc         where the flash of the image stands                          *)
(* image      length of the image, and its name as far as it matters       *)
(* auto       conversion is on (no --no-sparse)                            *)
(* file       what the file map holds: its length, and is it sparse?       *)
(* max        maxDownloadSize                                              *)
(* seg        the segment at work                                          *)
(* blob       the last download                                            *)
(* extents    the blocks the flasher has written, and from where           *)
(* split      history: flashSegmented was given a sparse image             *)
(***************************************************************************)
EXTENDS SparseImage

CONSTANTS Lengths,          \* lengths of images
          Limits,           \* what flashers report as their max-download-size
          MaxAttempts       \* bound on the attempts to flash the image

MaxDownloadSize == 1048576      \* the initial value, 0x100000

ASSUME FlashAssumption ==
    /\ Lengths \subseteq Nat \ {0}
    /\ \A l \in Limits : l \in Nat /\ l >= MaxDownloadSize
    /\ MaxAttempts \in Nat

VARIABLES pc, image, auto, file, max, seg, blob, extents, split, attempts

vars == <<pc, image, auto, file, max, seg, blob, extents, split, attempts>>

(* Images that are called, or taken by the partition command. *)
KeptRaw == {"preboot.img", "flasher.img", "flashinfo.bin", "partition.bin"}
Names   == KeptRaw \cup {"other"}
NoBlob  == [sparse |-> FALSE, size |-> 0, img |-> RawToSparse(1, 0), from |-> 0]

(* A sparse file is the one rawToSparse makes of the image, whether this   *)
(* program made it or the maker of the zip did.                            *)
SparseFile(len) == [sparse |-> TRUE, size |-> SizeOf(RawToSparse(len, 0))]

Init ==
    /\ pc = "parse"
    /\ image \in [len : Lengths, name : Names]
    /\ auto \in BOOLEAN
    /\ file \in {[sparse |-> FALSE, size |-> image.len], SparseFile(image.len)}
    /\ max = MaxDownloadSize
    /\ seg = 0 /\ blob = NoBlob /\ extents = {}
    /\ split = FALSE /\ attempts = 1

-----------------------------------------------------------------------------

(* convertZipToSparse leaves what is sparse, what is kept raw by its name, *)
(* and what exceeds the limit known at that time.                          *)
Parse ==
    /\ pc = "parse"
    /\ file' = IF auto /\ ~ file.sparse /\ image.name \notin KeptRaw /\ file.size <= max
                 THEN SparseFile(image.len)
                 ELSE file
    /\ pc' = "getvar"
    /\ UNCHANGED <<image, auto, max, seg, blob, extents, split, attempts>>

(* getvar:max-download-size, after the call of the flasher. *)
GetVar ==
    /\ pc = "getvar"
    /\ max' \in Limits \cup {max}
    /\ pc' = "flash"
    /\ UNCHANGED <<image, auto, file, seg, blob, extents, split, attempts>>

(* partition.bin is converted here; the rest as it is in the file map. *)
ToFlash ==
    IF image.name = "partition.bin" /\ ~ file.sparse THEN SparseFile(image.len) ELSE file

BeginFlash ==
    /\ pc = "flash"
    /\ pc' = IF ToFlash.size > max THEN "segment" ELSE "whole"
    /\ seg' = 0
    /\ split' = (split \/ (ToFlash.size > max /\ ToFlash.sparse))
    /\ UNCHANGED <<image, auto, file, max, blob, extents, attempts>>

DownloadWhole ==
    /\ pc = "whole"
    /\ blob' = [sparse |-> ToFlash.sparse, size |-> ToFlash.size,
                img |-> RawToSparse(image.len, 0), from |-> 0]
    /\ pc' = "order"
    /\ UNCHANGED <<image, auto, file, max, seg, extents, split, attempts>>

SegBlocks     == 255
MaxSegPayload == SegBlocks * BlockSize
SegCount      == (ToFlash.size + MaxSegPayload - 1) \div MaxSegPayload
Start(s)      == s * MaxSegPayload
End(s)        == IF Start(s) + MaxSegPayload > ToFlash.size THEN ToFlash.size
                                                            ELSE Start(s) + MaxSegPayload

(* Mutant: a segment takes one block more than the next one skips. *)
DownloadSegment_Overlap ==
    /\ pc = "segment"
    /\ LET img == RawToSparseAtOffset(End(seg) - Start(seg) + BlockSize, ToFlash.size,
                                      Start(seg) \div BlockSize) IN
         blob' = [sparse |-> TRUE, size |-> SizeOf(img), img |-> img,
                  from |-> Start(seg) \div BlockSize]
    /\ pc' = "order"
    /\ UNCHANGED <<image, auto, file, max, seg, extents, split, attempts>>

(* Mutant: the blocks of a segment are counted from its own start. *)
DownloadSegment_Relative ==
    /\ pc = "segment"
    /\ LET img == RawToSparseAtOffset(End(seg) - Start(seg), ToFlash.size, 0) IN
         blob' = [sparse |-> TRUE, size |-> SizeOf(img), img |-> img,
                  from |-> Start(seg) \div BlockSize]
    /\ pc' = "order"
    /\ UNCHANGED <<image, auto, file, max, seg, extents, split, attempts>>

DownloadSegment ==
    /\ pc = "segment"
    /\ LET img == RawToSparseAtOffset(End(seg) - Start(seg), ToFlash.size,
                                      Start(seg) \div BlockSize) IN
         blob' = [sparse |-> TRUE, size |-> SizeOf(img), img |-> img,
                  from |-> Start(seg) \div BlockSize]
    /\ pc' = "order"
    /\ UNCHANGED <<image, auto, file, max, seg, extents, split, attempts>>

(* Mutant: the loop ends one segment early. *)
MoreSegments_OneLess == ToFlash.size > max /\ seg + 2 < SegCount

MoreSegments == ToFlash.size > max /\ seg + 1 < SegCount

(* flash:<partition>; the flasher (external) writes the RAW blocks behind  *)
(* the blocks it skips.                                                    *)
Order ==
    /\ pc = "order"
    /\ extents' = extents \cup {[at |-> blob.img.skip, from |-> blob.from, blocks |-> blob.img.raw]}
    /\ pc' = IF MoreSegments THEN "segment" ELSE "done"
    /\ seg' = IF MoreSegments THEN seg + 1 ELSE seg
    /\ UNCHANGED <<image, auto, file, max, blob, split, attempts>>

(* A download or a flash command fails: the command is left. *)
Fail ==
    /\ pc \in {"whole", "segment", "order"}
    /\ pc' = "skipped"
    /\ UNCHANGED <<image, auto, file, max, seg, blob, extents, split, attempts>>

(* Another attempt, with the same files and the limit as it is by now.     *)
TryAgain ==
    /\ pc = "skipped"
    /\ attempts < MaxAttempts
    /\ attempts' = attempts + 1
    /\ pc' = "getvar"
    /\ UNCHANGED <<image, auto, file, max, seg, blob, extents, split>>

Over == pc \in {"done", "skipped"} /\ UNCHANGED vars

Next == Parse \/ GetVar \/ BeginFlash \/ DownloadWhole \/ DownloadSegment \/ Order
          \/ Fail \/ TryAgain \/ Over

Spec == Init /\ [][Next]_vars

-----------------------------------------------------------------------------
Pcs == {"parse", "getvar", "flash", "whole", "segment", "order", "done", "skipped"}

(* The chunks of a sparse download add up to the partition its header      *)
(* announces, and are as many as it announces (rawToSparseAtOffset).       *)
ChunksAddUp ==
    /\ blob.img.skip + blob.img.raw + blob.img.tail = blob.img.total_blocks
    /\ blob.img.total_chunks = 2 + There(blob.img.skip) + There(blob.img.tail)

(* Every variable has the shape of what it stands for, and a sparse image  *)
(* is what its header says.                                                *)
TypeOK ==
    /\ ChunksAddUp
    /\ pc \in Pcs
    /\ image \in [len : Lengths, name : Names]
    /\ auto \in BOOLEAN
    /\ file \in [sparse : BOOLEAN, size : Nat]
    /\ max \in Limits \cup {MaxDownloadSize}
    /\ seg \in Nat
    /\ blob.size \in Nat /\ blob.from \in Nat
    /\ blob.img.skip \in Nat /\ blob.img.raw \in Nat /\ blob.img.tail \in Nat
    /\ \A e \in extents : e.at \in Nat /\ e.from \in Nat /\ e.blocks \in Nat
    /\ split \in BOOLEAN /\ attempts \in Nat

(* Every download, segments too, is within the limit of the device.        *)
DownloadFits == pc = "order" => blob.size <= max

(* Data is written only where it belongs: whatever was refused, left and   *)
(* tried again, every block of a segment goes to its place in the image.   *)
InPlace ==
    \A e \in extents : e.at = e.from /\ (split \/ e.at + e.blocks <= BlocksOf(image.len))

(* When a flash is reported done every block of the image has been written *)
(* (flashSegmented tiles the image with its segments).                     *)
ImageWritten ==
    pc = "done" /\ ~ split =>
        \A b \in 0 .. BlocksOf(image.len) - 1 :
            \E e \in extents : e.at <= b /\ b < e.at + e.blocks

Write == INSTANCE ImageWrite
    WITH blocks  <- BlocksOf(image.len),
         state   <- CASE pc = "done"                           -> "done"
                      [] pc \in {"whole", "segment", "order"} -> "writing"
                      [] OTHER                                 -> "idle",
         upTo    <- IF pc = "done" THEN BlocksOf(image.len) ELSE seg * SegBlocks,
         on      <- UNION {e.at .. e.at + e.blocks - 1 : e \in extents},
         mangled <- split

(* The downloads and flash commands of one image, whole or in segments, in *)
(* as many attempts as it takes, put its blocks onto the partition from    *)
(* the first to the last (main.go:1029-1085, 1586-1640).                   *)
ImplementsImageWrite == Write!Spec
=============================================================================
