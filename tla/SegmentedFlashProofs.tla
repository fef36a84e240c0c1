------------------------- MODULE SegmentedFlashProofs -------------------------
(***************************************************************************)
(* Proofs about SegmentedFlash, for every set of image lengths, every set  *)
(* of limits of at least 1 MB and any number of attempts.                  *)
(*                                                                         *)
(* The argument: while an image is flashed in segments, the one at work is *)
(* a segment of the image, the download about to be ordered is the image   *)
(* of that segment, and all blocks before the segment have been written.   *)
(* The last segment ends where the image ends.                             *)
(***************************************************************************)
EXTENDS SegmentedFlash, TLAPS

-----------------------------------------------------------------------------
(* Facts about sparse images. *)

Img  == [skip : Nat, raw : Nat, tail : Nat, total_blocks : Nat, total_chunks : Nat]
Blob == [sparse : BOOLEAN, size : Nat, img : Img, from : Nat]

AddsUp(img) ==
    /\ img.skip + img.raw + img.tail = img.total_blocks
    /\ img.total_chunks = 2 + There(img.skip) + There(img.tail)

(* BlocksOf rounds up: the blocks hold the bytes, and one less would not. *)
LEMMA BlocksOfBounds ==
    ASSUME NEW n \in Nat
    PROVE  /\ BlocksOf(n) \in Nat
           /\ n <= BlocksOf(n) * 4096
           /\ BlocksOf(n) * 4096 < n + 4096
  BY SMT DEF BlocksOf, BlockSize

(* rawToSparseAtOffset makes a consistent image that skips the offset, has *)
(* the blocks of the data, and is larger than them by 116 bytes at most.   *)
LEMMA SparseImageMade ==
    ASSUME NEW len \in Nat, NEW out \in Nat, NEW off \in Nat,
           NEW img, img = RawToSparseAtOffset(len, out, off)
    PROVE  /\ img \in Img
           /\ AddsUp(img)
           /\ img.skip = off
           /\ img.raw = BlocksOf(len)
           /\ SizeOf(img) \in Nat
           /\ SizeOf(img) <= 100 + BlocksOf(len) * BlockSize
  <1>1. BlocksOf(len) \in Nat /\ BlocksOf(out) \in Nat BY BlocksOfBounds
  <1> DEFINE data  == BlocksOf(len)
             asked == IF out > 0 THEN BlocksOf(out) ELSE 0
             part  == IF asked < data + off THEN data + off ELSE asked
             tail  == IF part > off + data THEN part - off - data ELSE 0
  <1>2. data \in Nat /\ part \in Nat /\ tail \in Nat /\ off + data + tail = part BY <1>1
  <1>3. img = [skip |-> off, raw |-> data, tail |-> tail, total_blocks |-> part,
               total_chunks |-> 1 + There(off) + There(tail) + 1]
    BY DEF RawToSparseAtOffset
  <1>4. There(off) \in {0, 1} /\ There(tail) \in {0, 1} BY DEF There
  <1> HIDE DEF data, part, tail
  <1>5. img \in Img BY <1>2, <1>3, <1>4 DEF Img
  <1>6. AddsUp(img) BY <1>2, <1>3, <1>4 DEF AddsUp
  <1>7. SizeOf(img) = 32 + (1 + There(off) + There(tail) + 1) * 16 + data * 4096 + 4
    BY <1>3 DEF SizeOf, SparseHeaderSize, SparseChunkSize, BlockSize
  <1>8. SizeOf(img) \in Nat /\ SizeOf(img) <= 100 + data * BlockSize
    BY <1>2, <1>4, <1>7 DEF BlockSize
  <1> QED BY <1>3, <1>5, <1>6, <1>8 DEF data

(* The segments of flashSegmented: a segment begins at a multiple of 255   *)
(* blocks inside the image, has 255 blocks unless it is the last, and the  *)
(* last one ends with the image.                                           *)
LEMMA SegmentFacts ==
    ASSUME NEW size \in Nat, NEW s \in Nat,
           NEW count, count = (size + 1044479) \div 1044480, s < count,
           NEW end, end = IF s * 1044480 + 1044480 > size THEN size ELSE s * 1044480 + 1044480
    PROVE  /\ (s * 1044480) \div 4096 = s * 255
           /\ end - s * 1044480 \in Nat
           /\ BlocksOf(end - s * 1044480) \in Nat
           /\ BlocksOf(end - s * 1044480) <= 255
           /\ s * 255 + BlocksOf(end - s * 1044480) <= BlocksOf(size)
           /\ s + 1 < count => BlocksOf(end - s * 1044480) = 255
           /\ ~ (s + 1 < count) => s * 255 + BlocksOf(end - s * 1044480) = BlocksOf(size)
  <1>1. count \in Nat /\ count * 1044480 < size + 1044480 /\ size <= count * 1044480 BY SMT
  <1>2. s * 1044480 < size BY SMT, <1>1
  <1>3. (s * 1044480) \div 4096 = s * 255 BY SMT
  <1>4. PICK n \in Nat : n = end - s * 1044480 /\ n <= 1044480 BY SMT, <1>2
  <1>5. n <= 1044480 BY SMT, <1>4
  <1>6. s + 1 < count => n = 1044480 /\ s * 1044480 + 1044480 < size BY SMT, <1>1, <1>4
  <1>7. ~ (s + 1 < count) => n = size - s * 1044480 BY SMT, <1>1, <1>4
  <1>8. s * 1044480 + n <= size BY SMT, <1>2, <1>4
  <1>9. /\ BlocksOf(n) \in Nat /\ n <= BlocksOf(n) * 4096
        /\ BlocksOf(n) * 4096 < n + 4096
    BY BlocksOfBounds
  <1>10. /\ BlocksOf(size) \in Nat /\ size <= BlocksOf(size) * 4096
         /\ BlocksOf(size) * 4096 < size + 4096
    BY BlocksOfBounds
  <1>11. BlocksOf(n) <= 255 BY SMT, <1>5, <1>9
  <1>12. s * 255 + BlocksOf(n) <= BlocksOf(size) BY SMT, <1>8, <1>9, <1>10
  <1>13. s + 1 < count => BlocksOf(n) = 255 BY SMT, <1>6, <1>9
  <1>14. ~ (s + 1 < count) => s * 255 + BlocksOf(n) = BlocksOf(size)
    BY SMT, <1>7, <1>9, <1>10
  <1> QED BY SMT, <1>3, <1>4, <1>9, <1>11, <1>12, <1>13, <1>14

-----------------------------------------------------------------------------
(* The inductive invariant. *)

Extent == [at : Nat, from : Nat, blocks : Nat]

Typed ==
    /\ pc \in Pcs
    /\ image \in [len : Lengths, name : Names]
    /\ auto \in BOOLEAN
    /\ max \in Limits \cup {MaxDownloadSize}
    /\ seg \in Nat
    /\ blob \in Blob
    /\ extents \subseteq Extent
    /\ split \in BOOLEAN /\ attempts \in Nat

(* The file map holds the image itself or its sparse form. *)
FileInv ==
    file \in {[sparse |-> FALSE, size |-> image.len], SparseFile(image.len)}

SegmentImage(s) ==
    RawToSparseAtOffset(End(s) - Start(s), ToFlash.size, Start(s) \div BlockSize)

SegmentBlob(s) ==
    [sparse |-> TRUE, size |-> SizeOf(SegmentImage(s)), img |-> SegmentImage(s),
     from |-> Start(s) \div BlockSize]

WholeBlob ==
    [sparse |-> ToFlash.sparse, size |-> ToFlash.size,
     img |-> RawToSparse(image.len, 0), from |-> 0]

(* The download at work is the one its place in the code asks for. *)
PhaseInv ==
    /\ pc = "whole"   => ToFlash.size <= max
    /\ pc = "segment" => ToFlash.size > max /\ seg < SegCount
    /\ pc = "order"   => IF ToFlash.size > max
                           THEN seg < SegCount /\ blob = SegmentBlob(seg)
                           ELSE blob = WholeBlob

(* What is cut into segments is the image itself, or split is set. *)
SplitInv ==
    pc \in {"segment", "order"} /\ ToFlash.size > max /\ ~ split => ~ ToFlash.sparse

CoveredTo(n) ==
    \A b \in Nat : b < n => \E e \in extents : e.at <= b /\ b < e.at + e.blocks

(* The blocks before the segment at work are written, in the end all are.  *)
CoverInv ==
    /\ pc \in {"segment", "order"} /\ ToFlash.size > max /\ ~ split => CoveredTo(seg * 255)
    /\ pc = "done" /\ ~ split => CoveredTo(BlocksOf(image.len))

IInv ==
    /\ Typed
    /\ FileInv
    /\ AddsUp(blob.img)
    /\ PhaseInv
    /\ SplitInv
    /\ CoverInv
    /\ InPlace

-----------------------------------------------------------------------------
(* What is flashed is the image or a sparse form of it. *)
LEMMA ToFlashFacts ==
    ASSUME Typed, FileInv
    PROVE  /\ image.len \in Nat
           /\ ToFlash \in [sparse : BOOLEAN, size : Nat]
           /\ file \in [sparse : BOOLEAN, size : Nat]
           /\ ~ ToFlash.sparse => ToFlash.size = image.len
           /\ max \in Nat /\ max >= MaxDownloadSize
  <1>1. image.len \in Nat BY FlashAssumption DEF Typed
  <1>2. SparseFile(image.len) \in [sparse : BOOLEAN, size : Nat] /\ SparseFile(image.len).sparse
    BY <1>1, SparseImageMade DEF SparseFile, RawToSparse
  <1>3. [sparse |-> FALSE, size |-> image.len] \in [sparse : BOOLEAN, size : Nat] BY <1>1
  <1>4. file \in [sparse : BOOLEAN, size : Nat] BY <1>2, <1>3 DEF FileInv
  <1>5. ToFlash \in [sparse : BOOLEAN, size : Nat] BY <1>2, <1>4 DEF ToFlash
  <1>6. ~ ToFlash.sparse => ToFlash.size = image.len
    BY <1>2, <1>3 DEF ToFlash, FileInv
  <1>7. max \in Nat /\ max >= MaxDownloadSize
    BY SMT, FlashAssumption DEF Typed, MaxDownloadSize
  <1> QED BY <1>1, <1>4, <1>5, <1>6, <1>7

(* The download of a segment fits, is consistent, goes to its place, and   *)
(* reaches up to the next segment or, if it is the last, to the end.       *)
LEMMA SegmentBlobFacts ==
    ASSUME ToFlash.size \in Nat, NEW s \in Nat, s < SegCount
    PROVE  /\ SegmentBlob(s) \in Blob
           /\ AddsUp(SegmentBlob(s).img)
           /\ SegmentBlob(s).size <= MaxDownloadSize
           /\ SegmentBlob(s).from = s * 255
           /\ SegmentBlob(s).img.skip = s * 255
           /\ s * 255 + SegmentBlob(s).img.raw <= BlocksOf(ToFlash.size)
           /\ s + 1 < SegCount => SegmentBlob(s).img.raw = 255
           /\ ~ (s + 1 < SegCount) =>
                 s * 255 + SegmentBlob(s).img.raw = BlocksOf(ToFlash.size)
  <1>1. /\ SegCount = (ToFlash.size + 1044479) \div 1044480
        /\ Start(s) = s * 1044480
        /\ End(s) = IF s * 1044480 + 1044480 > ToFlash.size THEN ToFlash.size
                                                            ELSE s * 1044480 + 1044480
    BY SMT DEF SegCount, Start, End, MaxSegPayload, SegBlocks, BlockSize
  <1> DEFINE n == End(s) - Start(s)
  <1>2. /\ Start(s) \div BlockSize = s * 255
        /\ n \in Nat /\ BlocksOf(n) \in Nat /\ BlocksOf(n) <= 255
        /\ s * 255 + BlocksOf(n) <= BlocksOf(ToFlash.size)
        /\ s + 1 < SegCount => BlocksOf(n) = 255
        /\ ~ (s + 1 < SegCount) => s * 255 + BlocksOf(n) = BlocksOf(ToFlash.size)
    BY SMT, <1>1, SegmentFacts DEF BlockSize
  <1> HIDE DEF n
  <1>3. s * 255 \in Nat BY SMT
  <1>4. SegmentImage(s) = RawToSparseAtOffset(n, ToFlash.size, s * 255)
    BY <1>2 DEF SegmentImage, n
  <1>5. /\ SegmentImage(s) \in Img /\ AddsUp(SegmentImage(s))
        /\ SegmentImage(s).skip = s * 255
        /\ SegmentImage(s).raw = BlocksOf(n)
        /\ SizeOf(SegmentImage(s)) \in Nat
        /\ SizeOf(SegmentImage(s)) <= 100 + BlocksOf(n) * BlockSize
    <2>1. PICK len \in Nat, out \in Nat, off \in Nat :
                len = n /\ out = ToFlash.size /\ off = s * 255
      BY <1>2, <1>3
    <2> DEFINE img == RawToSparseAtOffset(len, out, off)
    <2>2. img \in Img /\ AddsUp(img) /\ SizeOf(img) \in Nat BY Zenon, SparseImageMade
    <2>3. img.skip = off BY SMT, SparseImageMade
    <2>4. img.raw = BlocksOf(len) BY SMT, SparseImageMade
    <2>5. SizeOf(img) <= 100 + BlocksOf(len) * BlockSize BY SMT, SparseImageMade
    <2> HIDE DEF img
    <2>6. SegmentImage(s) = img BY <1>4, <2>1 DEF img
    <2> QED BY <2>1, <2>2, <2>3, <2>4, <2>5, <2>6
  <1>6. SizeOf(SegmentImage(s)) <= MaxDownloadSize
    BY SMT, <1>2, <1>5 DEF BlockSize, MaxDownloadSize
  <1>7. SegmentBlob(s) = [sparse |-> TRUE, size |-> SizeOf(SegmentImage(s)),
                          img |-> SegmentImage(s), from |-> s * 255]
    BY <1>2 DEF SegmentBlob
  <1>8. SegmentBlob(s) \in Blob BY <1>3, <1>5, <1>7 DEF Blob
  <1> QED BY <1>2, <1>5, <1>6, <1>7, <1>8

(* The same of the download of the whole image. *)
LEMMA WholeBlobFacts ==
    ASSUME image.len \in Nat, ToFlash \in [sparse : BOOLEAN, size : Nat]
    PROVE  /\ WholeBlob \in Blob
           /\ AddsUp(WholeBlob.img)
           /\ WholeBlob.size = ToFlash.size
           /\ WholeBlob.from = 0
           /\ WholeBlob.img.skip = 0
           /\ WholeBlob.img.raw = BlocksOf(image.len)
  <1>0. PICK len \in Nat, zero \in Nat : len = image.len /\ zero = 0 OBVIOUS
  <1> DEFINE img == RawToSparseAtOffset(len, zero, zero)
  <1>1. /\ img \in Img
        /\ AddsUp(img)
        /\ img.skip = 0
        /\ img.raw = BlocksOf(image.len)
    <2>1. img \in Img /\ AddsUp(img) BY Zenon, SparseImageMade
    <2>2. img.skip = zero BY SMT, SparseImageMade
    <2>3. img.raw = BlocksOf(len) BY SMT, SparseImageMade
    <2> HIDE DEF img
    <2> QED BY <1>0, <2>1, <2>2, <2>3
  <1>2. WholeBlob = [sparse |-> ToFlash.sparse, size |-> ToFlash.size,
                     img |-> img, from |-> 0]
    BY <1>0 DEF WholeBlob, RawToSparse
  <1> HIDE DEF img
  <1>3. ToFlash.sparse \in BOOLEAN /\ ToFlash.size \in Nat OBVIOUS
  <1>4. WholeBlob \in Blob BY <1>1, <1>2, <1>3 DEF Blob
  <1> QED BY <1>1, <1>2, <1>4

-----------------------------------------------------------------------------
(* The invariant holds at the start and is kept by every step. *)

LEMMA InitIInv == Init => IInv
  <1> SUFFICES ASSUME Init PROVE IInv OBVIOUS
  <1>1. NoBlob \in Blob /\ AddsUp(NoBlob.img)
    <2>1. PICK one \in Nat, zero \in Nat : one = 1 /\ zero = 0 OBVIOUS
    <2> DEFINE img == RawToSparseAtOffset(one, zero, zero)
    <2>2. img \in Img /\ AddsUp(img) BY Zenon, SparseImageMade
    <2>3. NoBlob = [sparse |-> FALSE, size |-> 0, img |-> img, from |-> 0]
      BY <2>1 DEF NoBlob, RawToSparse
    <2> HIDE DEF img
    <2> QED BY <2>2, <2>3 DEF Blob
  <1>2. Typed BY <1>1 DEF Init, Typed, Pcs
  <1>3. FileInv BY DEF Init, FileInv
  <1>4. PhaseInv /\ SplitInv /\ CoverInv /\ InPlace
    BY DEF Init, PhaseInv, SplitInv, CoverInv, InPlace
  <1>5. AddsUp(blob.img) BY <1>1 DEF Init
  <1> QED BY <1>2, <1>3, <1>4, <1>5 DEF IInv

(* What the operators of flashSegmented say does not change with what they *)
(* do not mention.                                                         *)
LEMMA SameImage ==
    ASSUME UNCHANGED <<image, file>>
    PROVE  /\ ToFlash' = ToFlash /\ SegCount' = SegCount
           /\ WholeBlob' = WholeBlob
           /\ \A s : SegmentBlob(s)' = SegmentBlob(s)
           /\ FileInv' <=> FileInv
  <1>1. ToFlash' = ToFlash BY DEF ToFlash
  <1>2. SegCount' = SegCount BY <1>1 DEF SegCount
  <1>3. WholeBlob' = WholeBlob BY <1>1 DEF WholeBlob
  <1>4. ASSUME NEW s PROVE SegmentBlob(s)' = SegmentBlob(s)
    BY <1>1 DEF SegmentBlob, SegmentImage, Start, End
  <1>5. FileInv' <=> FileInv BY DEF FileInv
  <1> QED BY <1>1, <1>2, <1>3, <1>4, <1>5

LEMMA StepIInv == IInv /\ [Next]_vars => IInv'
  <1> SUFFICES ASSUME IInv, [Next]_vars PROVE IInv' OBVIOUS
  <1> USE DEF IInv
  <1>a. /\ image.len \in Nat
        /\ ToFlash \in [sparse : BOOLEAN, size : Nat]
        /\ file \in [sparse : BOOLEAN, size : Nat]
        /\ ~ ToFlash.sparse => ToFlash.size = image.len
        /\ max \in Nat /\ max >= MaxDownloadSize
    BY ToFlashFacts
  <1>1. CASE Parse
    <2>1. Typed' BY <1>1 DEF Parse, Typed, Pcs
    <2>2. FileInv' BY <1>1 DEF Parse, FileInv
    <2>3. AddsUp(blob.img)' BY <1>1 DEF Parse
    <2>4. (PhaseInv /\ SplitInv /\ CoverInv)' BY <1>1 DEF Parse, PhaseInv, SplitInv, CoverInv
    <2>5. InPlace' BY <1>1 DEF Parse, InPlace
    <2> QED BY <2>1, <2>2, <2>3, <2>4, <2>5
  <1>2. CASE GetVar
    <2>1. Typed' BY <1>2 DEF GetVar, Typed, Pcs
    <2>2. FileInv' BY <1>2 DEF GetVar, FileInv
    <2>3. AddsUp(blob.img)' BY <1>2 DEF GetVar
    <2>4. (PhaseInv /\ SplitInv /\ CoverInv)' BY <1>2 DEF GetVar, PhaseInv, SplitInv, CoverInv
    <2>5. InPlace' BY <1>2 DEF GetVar, InPlace
    <2> QED BY <2>1, <2>2, <2>3, <2>4, <2>5
  <1>3. CASE BeginFlash
    <2>a. UNCHANGED <<image, file>> /\ UNCHANGED max BY <1>3 DEF BeginFlash
    <2>b. ToFlash' = ToFlash /\ SegCount' = SegCount /\ FileInv' BY <2>a, SameImage
    <2>1. Typed' BY <1>3 DEF BeginFlash, Typed, Pcs
    <2>3. AddsUp(blob.img)' BY <1>3 DEF BeginFlash
    <2>4. PhaseInv'
      <3>1. pc' \in {"whole", "segment"} BY <1>3 DEF BeginFlash
      <3>2. pc' = "whole" => ToFlash.size <= max BY <1>3, <1>a DEF BeginFlash
      <3>3. pc' = "segment" => ToFlash.size > max /\ seg' = 0 BY <1>3 DEF BeginFlash
      <3>4. ToFlash.size > 0 => 0 < SegCount
        BY SMT, <1>a DEF SegCount, MaxSegPayload, SegBlocks, BlockSize
      <3>5. ToFlash.size > max => ToFlash.size > 0 BY SMT, <1>a
      <3> QED BY <2>a, <2>b, <3>1, <3>2, <3>3, <3>4, <3>5 DEF PhaseInv
    <2>5. SplitInv' BY <1>3, <1>a, <2>a, <2>b DEF BeginFlash, SplitInv
    <2>6. CoverInv'
      <3>1. seg' = 0 /\ pc' # "done" BY <1>3 DEF BeginFlash
      <3>2. CoveredTo(seg * 255)' BY SMT, <3>1 DEF CoveredTo
      <3> QED BY <3>1, <3>2 DEF CoverInv
    <2>7. InPlace' BY <1>3 DEF BeginFlash, InPlace
    <2> QED BY <2>b, <2>1, <2>3, <2>4, <2>5, <2>6, <2>7
  <1>4. CASE DownloadWhole
    <2>a. UNCHANGED <<image, file>> /\ UNCHANGED max BY <1>4 DEF DownloadWhole
    <2>b. ToFlash' = ToFlash /\ WholeBlob' = WholeBlob /\ FileInv' BY <2>a, SameImage
    <2>c. blob' = WholeBlob BY <1>4 DEF DownloadWhole, WholeBlob
    <2>d. blob' \in Blob /\ AddsUp(blob'.img) BY <1>a, <2>c, WholeBlobFacts
    <2>e. ToFlash.size <= max /\ ~ (ToFlash.size > max)
      BY SMT, <1>4, <1>a DEF DownloadWhole, PhaseInv
    <2>1. Typed' BY <1>4, <2>d DEF DownloadWhole, Typed, Pcs
    <2>4. PhaseInv' BY <1>4, <2>a, <2>b, <2>c, <2>e DEF DownloadWhole, PhaseInv
    <2>5. SplitInv' BY <1>4, <2>a, <2>b, <2>e DEF DownloadWhole, SplitInv
    <2>6. CoverInv' BY <1>4, <2>a, <2>b, <2>e DEF DownloadWhole, CoverInv
    <2>7. InPlace' BY <1>4 DEF DownloadWhole, InPlace
    <2> QED BY <2>b, <2>d, <2>1, <2>4, <2>5, <2>6, <2>7
  <1>5. CASE DownloadSegment
    <2>a. UNCHANGED <<image, file>> /\ UNCHANGED <<max, seg, extents, split>>
      BY <1>5 DEF DownloadSegment
    <2>b. /\ ToFlash' = ToFlash /\ SegCount' = SegCount /\ FileInv'
          /\ SegmentBlob(seg)' = SegmentBlob(seg)
      <3>1. SegmentBlob(seg)' = SegmentBlob(seg)
        BY <2>a, SameImage DEF SegmentBlob, SegmentImage, Start, End
      <3> QED BY <2>a, <3>1, SameImage
    <2>c. blob' = SegmentBlob(seg) BY <1>5 DEF DownloadSegment, SegmentBlob, SegmentImage
    <2>d. ToFlash.size > max /\ seg < SegCount BY <1>5 DEF DownloadSegment, PhaseInv
    <2>e. blob' \in Blob /\ AddsUp(blob'.img)
      BY <1>a, <2>c, <2>d, SegmentBlobFacts DEF Typed
    <2>1. Typed' BY <1>5, <2>e DEF DownloadSegment, Typed, Pcs
    <2>4. PhaseInv' BY <1>5, <2>a, <2>b, <2>c, <2>d DEF DownloadSegment, PhaseInv
    <2>5. SplitInv' BY <1>5, <2>a, <2>b DEF DownloadSegment, SplitInv
    <2>6. CoverInv' BY <1>5, <2>a, <2>b DEF DownloadSegment, CoverInv, CoveredTo
    <2>7. InPlace' BY <1>5 DEF DownloadSegment, InPlace
    <2> QED BY <2>b, <2>e, <2>1, <2>4, <2>5, <2>6, <2>7
  <1>6. CASE Order
    <2> DEFINE new == [at |-> blob.img.skip, from |-> blob.from, blocks |-> blob.img.raw]
    <2>a. UNCHANGED <<image, file>> /\ UNCHANGED <<max, blob, split>> /\ extents' = extents \cup {new}
      BY <1>6 DEF Order
    <2>b. ToFlash' = ToFlash /\ SegCount' = SegCount /\ FileInv' BY <2>a, SameImage
    <2>c. new \in Extent BY DEF Typed, Blob, Img, Extent
    <2>d. new.at = blob.img.skip /\ new.from = blob.from /\ new.blocks = blob.img.raw OBVIOUS
    <2>e. BlocksOf(image.len) \in Nat BY <1>a, BlocksOfBounds
    <2>f. seg \in Nat /\ extents \subseteq Extent BY DEF Typed
    <2> HIDE DEF new
    <2>1. Typed' BY <1>6, <2>a, <2>c DEF Order, Typed, Pcs
    <2>3. AddsUp(blob.img)' BY <2>a
    <2>4. ASSUME NEW n \in Nat, NEW m \in Nat, CoveredTo(n),
                 new.at <= n, m <= new.at + new.blocks
          PROVE  CoveredTo(m)'
      <3> SUFFICES ASSUME NEW b \in Nat, b < m
                   PROVE  \E e \in extents' : e.at <= b /\ b < e.at + e.blocks
        BY DEF CoveredTo
      <3>1. CASE b < n BY <2>a, <2>4, <3>1 DEF CoveredTo
      <3>2. CASE ~ (b < n)
        <4>1. new.at <= b /\ b < new.at + new.blocks BY SMT, <2>c, <2>4, <3>2 DEF Extent
        <4> QED BY <2>a, <4>1
      <3> QED BY <3>1, <3>2
    <2>5. CASE ToFlash.size > max
      <3>1. seg < SegCount /\ blob = SegmentBlob(seg) BY <1>6, <2>5 DEF Order, PhaseInv
      <3>2. /\ new.at = seg * 255 /\ new.from = seg * 255
            /\ seg * 255 + new.blocks <= BlocksOf(ToFlash.size)
            /\ seg + 1 < SegCount => new.blocks = 255
            /\ ~ (seg + 1 < SegCount) => seg * 255 + new.blocks = BlocksOf(ToFlash.size)
        BY <1>a, <2>d, <2>f, <3>1, SegmentBlobFacts
      <3>3. ~ split => ToFlash.size = image.len
        BY <1>6, <1>a, <2>5 DEF Order, SplitInv
      <3>4. MoreSegments <=> seg + 1 < SegCount BY <2>5 DEF MoreSegments
      <3>5. PhaseInv' BY <1>6, <2>5, <2>a, <2>b, <3>4 DEF Order, PhaseInv
      <3>6. SplitInv' BY <1>6, <2>5, <2>a, <2>b DEF Order, SplitInv
      <3>7. CoverInv'
        <4>1. CASE seg + 1 < SegCount
          <5>1. pc' = "segment" /\ seg' = seg + 1 BY <1>6, <3>4, <4>1 DEF Order
          <5>2. ~ split => CoveredTo(seg * 255) BY <1>6, <2>5 DEF Order, CoverInv
          <5>3. PICK n \in Nat, m \in Nat : n = seg * 255 /\ m = (seg + 1) * 255 BY <2>f
          <5>4. new.at <= n /\ m <= new.at + new.blocks BY SMT, <2>f, <3>2, <4>1, <5>3
          <5>5. ~ split => CoveredTo(m)' BY <2>4, <5>2, <5>3, <5>4
          <5>6. m = seg' * 255 BY <5>1, <5>3
          <5>7. ~ split => CoveredTo(seg * 255)' BY <5>5, <5>6 DEF CoveredTo
          <5> QED BY <2>a, <5>1, <5>7 DEF CoverInv
        <4>2. CASE ~ (seg + 1 < SegCount)
          <5>1. pc' = "done" BY <1>6, <3>4, <4>2 DEF Order
          <5>2. ~ split => CoveredTo(seg * 255) BY <1>6, <2>5 DEF Order, CoverInv
          <5>0. seg * 255 \in Nat BY SMT, <2>f
          <5>3. PICK n \in Nat, m \in Nat : n = seg * 255 /\ m = BlocksOf(image.len)
            BY <2>e, <5>0
          <5>4. ~ split => new.at <= n /\ m <= new.at + new.blocks
            BY SMT, <2>f, <3>2, <3>3, <4>2, <5>3
          <5>5. ~ split => CoveredTo(m)' BY <2>4, <5>2, <5>3, <5>4
          <5>6. ~ split => CoveredTo(BlocksOf(image.len))' BY <2>a, <5>3, <5>5 DEF CoveredTo
          <5> QED BY <2>a, <5>1, <5>6 DEF CoverInv
        <4> QED BY <4>1, <4>2
      <3>8. new.at = new.from /\ (split \/ new.at + new.blocks <= BlocksOf(image.len))
        BY <3>2, <3>3
      <3>9. InPlace' BY <2>a, <3>8 DEF InPlace
      <3> QED BY <2>b, <2>1, <2>3, <3>5, <3>6, <3>7, <3>9
    <2>6. CASE ~ (ToFlash.size > max)
      <3>1. blob = WholeBlob BY <1>6, <2>6 DEF Order, PhaseInv
      <3>2. new.at = 0 /\ new.from = 0 /\ new.blocks = BlocksOf(image.len)
        BY <1>a, <2>d, <3>1, WholeBlobFacts
      <3>3. pc' = "done" BY <1>6, <2>6 DEF Order, MoreSegments
      <3>4. PhaseInv' /\ SplitInv' BY <3>3 DEF PhaseInv, SplitInv
      <3>5. CoverInv'
        <4>1. PICK n \in Nat, m \in Nat : n = 0 /\ m = BlocksOf(image.len) BY <2>e
        <4>2. CoveredTo(n) BY SMT, <4>1 DEF CoveredTo
        <4>3. new.at <= n /\ m <= new.at + new.blocks BY SMT, <3>2, <4>1
        <4>4. CoveredTo(m)' BY <2>4, <4>2, <4>3
        <4>5. CoveredTo(BlocksOf(image.len))' BY <2>a, <4>1, <4>4 DEF CoveredTo
        <4> QED BY <3>3, <4>5 DEF CoverInv
      <3>6. new.at = new.from /\ new.at + new.blocks <= BlocksOf(image.len)
        BY SMT, <2>e, <3>2
      <3>7. InPlace' BY <2>a, <3>6 DEF InPlace
      <3> QED BY <2>b, <2>1, <2>3, <3>4, <3>5, <3>7
    <2> QED BY <2>5, <2>6
  <1>7. CASE Fail
    <2>1. Typed' BY <1>7 DEF Fail, Typed, Pcs
    <2>2. FileInv' BY <1>7 DEF Fail, FileInv
    <2>3. AddsUp(blob.img)' BY <1>7 DEF Fail
    <2>4. (PhaseInv /\ SplitInv /\ CoverInv)' BY <1>7 DEF Fail, PhaseInv, SplitInv, CoverInv
    <2>5. InPlace' BY <1>7 DEF Fail, InPlace
    <2> QED BY <2>1, <2>2, <2>3, <2>4, <2>5
  <1>8. CASE TryAgain
    <2>1. Typed' BY <1>8 DEF TryAgain, Typed, Pcs
    <2>2. FileInv' BY <1>8 DEF TryAgain, FileInv
    <2>3. AddsUp(blob.img)' BY <1>8 DEF TryAgain
    <2>4. (PhaseInv /\ SplitInv /\ CoverInv)' BY <1>8 DEF TryAgain, PhaseInv, SplitInv, CoverInv
    <2>5. InPlace' BY <1>8 DEF TryAgain, InPlace
    <2> QED BY <2>1, <2>2, <2>3, <2>4, <2>5
  <1>9. CASE UNCHANGED vars
    <2>a. UNCHANGED <<image, file>> /\ UNCHANGED <<pc, auto, max, seg, blob, extents, split, attempts>>
      BY <1>9 DEF vars
    <2>b. ToFlash' = ToFlash /\ SegCount' = SegCount /\ WholeBlob' = WholeBlob /\ FileInv'
      BY <2>a, SameImage
    <2>c. SegmentBlob(seg)' = SegmentBlob(seg)
      BY <2>a, SameImage DEF SegmentBlob, SegmentImage, Start, End
    <2>1. Typed' BY <2>a DEF Typed
    <2>4. PhaseInv' BY <2>a, <2>b, <2>c DEF PhaseInv
    <2>5. SplitInv' BY <2>a, <2>b DEF SplitInv
    <2>6. CoverInv' BY <2>a, <2>b DEF CoverInv, CoveredTo
    <2>7. InPlace' BY <2>a DEF InPlace
    <2> QED BY <2>a, <2>b, <2>1, <2>4, <2>5, <2>6, <2>7
  <1> QED BY <1>1, <1>2, <1>3, <1>4, <1>5, <1>6, <1>7, <1>8, <1>9 DEF Next, Over

-----------------------------------------------------------------------------
(* The results. *)

THEOREM Invariance == Spec => []IInv
  <1>1. Init => IInv BY InitIInv
  <1>2. IInv /\ [Next]_vars => IInv' BY StepIInv
  <1> QED BY <1>1, <1>2, PTL DEF Spec

(* Type correctness of the flash of an image, for all lengths and limits:  *)
(* among it that the images rawToSparseAtOffset makes for the downloads are *)
(* consistent, their chunks as many, and as long, as their header says.    *)
THEOREM FlashTypeCorrect == Spec => []TypeOK
  <1>1. IInv => TypeOK
    <2> SUFFICES ASSUME IInv PROVE TypeOK OBVIOUS
    <2>1. file \in [sparse : BOOLEAN, size : Nat] BY ToFlashFacts DEF IInv
    <2> QED BY <2>1 DEF IInv, Typed, Blob, Img, Extent, AddsUp, ChunksAddUp, TypeOK
  <1> QED BY <1>1, Invariance, PTL

(* No download of a flash command exceeds the limit of the device, however *)
(* long the image and whatever limit of 1 MB or more the device reports.   *)
THEOREM DownloadsAlwaysFit == Spec => []DownloadFits
  <1>1. IInv => DownloadFits
    <2> SUFFICES ASSUME IInv, pc = "order" PROVE blob.size <= max BY DEF DownloadFits
    <2>1. /\ image.len \in Nat
          /\ ToFlash \in [sparse : BOOLEAN, size : Nat]
          /\ max \in Nat /\ max >= MaxDownloadSize
      BY ToFlashFacts DEF IInv
    <2>2. CASE ToFlash.size > max
      <3>1. seg \in Nat /\ seg < SegCount /\ blob = SegmentBlob(seg) /\ blob \in Blob
        BY <2>2 DEF IInv, PhaseInv, Typed
      <3>2. blob.size <= MaxDownloadSize BY <2>1, <3>1, SegmentBlobFacts
      <3>3. blob.size \in Nat BY <3>1 DEF Blob
      <3> QED BY SMT, <2>1, <3>2, <3>3 DEF MaxDownloadSize
    <2>3. CASE ~ (ToFlash.size > max)
      <3>1. blob = WholeBlob BY <2>3 DEF IInv, PhaseInv
      <3>2. blob.size = ToFlash.size BY <2>1, <3>1, WholeBlobFacts
      <3> QED BY SMT, <2>1, <2>3, <3>2
    <2> QED BY <2>2, <2>3
  <1> QED BY <1>1, Invariance, PTL

(* When flashSegmented is given a converted image. *)
SplitIsLong ==
    split => /\ ToFlash.sparse /\ pc # "parse"
             /\ image.len > SegBlocks * BlockSize

(* Only an image that is sparse when it is flashed, and longer than 255    *)
(* blocks, is ever cut up after its conversion: all that AlwaysInPlace,    *)
(* ImageAlwaysWritten and FlashIsImageWrite leave open is left open for    *)
(* these alone (main.go:1029-1042).                                        *)
THEOREM OnlyLongSparseIsSplit == Spec => []SplitIsLong
  <1>1. Init => SplitIsLong BY DEF Init, SplitIsLong
  <1>2. IInv /\ SplitIsLong /\ [Next]_vars => SplitIsLong'
    <2> SUFFICES ASSUME IInv, SplitIsLong, [Next]_vars PROVE SplitIsLong' OBVIOUS
    <2>1. CASE Parse BY <2>1 DEF Parse, SplitIsLong
    <2>2. CASE BeginFlash
      <3>1. UNCHANGED <<image, file>> /\ pc = "flash" /\ pc' \in {"segment", "whole"}
        BY <2>2 DEF BeginFlash
      <3>2. ToFlash' = ToFlash BY <3>1 DEF ToFlash
      <3>3. CASE split' = split BY <3>1, <3>2, <3>3 DEF SplitIsLong
      <3>4. CASE ToFlash.size > max /\ ToFlash.sparse
        <4>1. max \in Nat /\ max >= 1048576
          BY FlashAssumption DEF IInv, Typed, MaxDownloadSize
        <4>2. image.len \in Nat BY ToFlashFacts DEF IInv
        <4>3. ToFlash = SparseFile(image.len) BY <3>4 DEF IInv, FileInv, ToFlash
        <4>4. ToFlash.size \in Nat /\ ToFlash.size <= 100 + BlocksOf(image.len) * 4096
          <5>1. PICK len \in Nat : len = image.len BY <4>2
          <5>2. SizeOf(RawToSparse(len, 0)) \in Nat
                /\ SizeOf(RawToSparse(len, 0)) <= 100 + BlocksOf(len) * BlockSize
            BY SparseImageMade DEF RawToSparse
          <5>3. ToFlash.size = SizeOf(RawToSparse(len, 0)) BY <4>3, <5>1 DEF SparseFile
          <5> QED BY <5>1, <5>2, <5>3 DEF BlockSize
        <4>5. BlocksOf(image.len) \in Nat /\ BlocksOf(image.len) * 4096 < image.len + 4096
          BY <4>2, BlocksOfBounds
        <4>6. image.len > 255 * 4096 BY SMT, <3>4, <4>1, <4>2, <4>4, <4>5
        <4> QED BY <3>1, <3>2, <3>4, <4>6 DEF SplitIsLong, SegBlocks, BlockSize
      <3> QED BY <2>2, <3>3, <3>4 DEF BeginFlash, IInv, Typed
    <2>3. CASE UNCHANGED <<image, file, split>> /\ (pc' = "parse" => pc = "parse")
      <3>1. ToFlash' = ToFlash BY <2>3 DEF ToFlash
      <3> QED BY <2>3, <3>1 DEF SplitIsLong
    <2> QED
      BY <2>1, <2>2, <2>3
      DEF Next, GetVar, DownloadWhole, DownloadSegment, Order, Fail, TryAgain, Over, vars
  <1> QED BY <1>1, <1>2, Invariance, PTL DEF Spec

(* A download writes the blocks it holds at the places they have in what   *)
(* is downloaded, and none beyond the end of the image unless the image    *)
(* was cut up after its conversion, whatever was refused and tried again.  *)
(* What is downloaded is the image; of one that was cut up (see            *)
(* OnlyLongSparseIsSplit) it is the sparse file, whose places are not      *)
(* those of the image (main.go:1586-1640).                                 *)
THEOREM AlwaysInPlace == Spec => []InPlace
  <1>1. IInv => InPlace BY DEF IInv
  <1> QED BY <1>1, Invariance, PTL

(* A flash reported done has written every block of the image, unless it   *)
(* was cut up after its conversion: for every length the segments of       *)
(* flashSegmented tile what they are made of, which is the image itself    *)
(* where it was not converted (main.go:1586-1640).                         *)
THEOREM ImageAlwaysWritten == Spec => []ImageWritten
  <1>1. IInv => ImageWritten
    <2> SUFFICES ASSUME IInv, pc = "done", ~ split PROVE ImageWritten BY DEF ImageWritten
    <2>1. image.len \in Nat BY ToFlashFacts DEF IInv
    <2>2. PICK n \in Nat : n = BlocksOf(image.len) BY <2>1, BlocksOfBounds
    <2>3. CoveredTo(n) BY <2>2 DEF IInv, CoverInv, CoveredTo
    <2>4. \A b \in 0 .. n - 1 : b \in Nat /\ b < n BY SMT
    <2> QED BY <2>2, <2>3, <2>4 DEF CoveredTo, ImageWritten
  <1> QED BY <1>1, Invariance, PTL

-----------------------------------------------------------------------------
(* The flash implements ImageWrite. *)

Places(E) == UNION {e.at .. e.at + e.blocks - 1 : e \in E}

State == CASE pc = "done"                          -> "done"
           [] pc \in {"whole", "segment", "order"} -> "writing"
           [] OTHER                                -> "idle"

UpTo == IF pc = "done" THEN BlocksOf(image.len) ELSE seg * SegBlocks

(* A download that is not cut up begins with the image. *)
FromStart == pc \in {"whole", "order"} /\ ~ (ToFlash.size > max) => seg = 0

LEMMA FromStartStep == IInv /\ FromStart /\ [Next]_vars => FromStart'
  <1> SUFFICES ASSUME IInv, FromStart, [Next]_vars PROVE FromStart' OBVIOUS
  <1>1. CASE Parse BY <1>1 DEF Parse, FromStart
  <1>2. CASE GetVar BY <1>2 DEF GetVar, FromStart
  <1>3. CASE BeginFlash BY <1>3 DEF BeginFlash, FromStart
  <1>4. CASE DownloadWhole BY <1>4 DEF DownloadWhole, FromStart, ToFlash
  <1>5. CASE DownloadSegment
    BY <1>5 DEF DownloadSegment, FromStart, ToFlash, IInv, PhaseInv
  <1>6. CASE Order BY <1>6 DEF Order, FromStart
  <1>7. CASE Fail BY <1>7 DEF Fail, FromStart
  <1>8. CASE TryAgain BY <1>8 DEF TryAgain, FromStart
  <1>9. CASE UNCHANGED vars BY <1>9 DEF vars, FromStart, ToFlash
  <1> QED BY <1>1, <1>2, <1>3, <1>4, <1>5, <1>6, <1>7, <1>8, <1>9 DEF Next, Over

(* What one more download covers. *)
LEMMA PlacesGrow ==
    ASSUME NEW E, NEW x
    PROVE  Places(E \cup {x}) = Places(E) \cup (x.at .. x.at + x.blocks - 1)
  BY Zenon DEF Places

(* An image has a block, and a segment too. *)
LEMMA ImageHasBlock ==
    ASSUME NEW n \in Nat \ {0}
    PROVE  BlocksOf(n) \in Nat \ {0}
  <1>1. BlocksOf(n) \in Nat /\ n <= BlocksOf(n) * 4096 BY BlocksOfBounds
  <1> QED BY <1>1

LEMMA SegmentHasBlock ==
    ASSUME ToFlash.size \in Nat, NEW s \in Nat, s < SegCount
    PROVE  s * 255 < BlocksOf(ToFlash.size)
  <1>1. SegCount = (ToFlash.size + 1044479) \div 1044480
    BY SMT DEF SegCount, MaxSegPayload, SegBlocks, BlockSize
  <1>2. s * 1044480 < ToFlash.size BY SMT, <1>1
  <1>3. BlocksOf(ToFlash.size) \in Nat /\ ToFlash.size <= BlocksOf(ToFlash.size) * 4096
    BY BlocksOfBounds
  <1> QED BY SMT, <1>2, <1>3

LEMMA InitImageWrite == Init => Write!Init
  <1> SUFFICES ASSUME Init PROVE Write!Init OBVIOUS
  <1>1. image.len \in Nat \ {0} BY FlashAssumption DEF Init
  <1>2. BlocksOf(image.len) \in Nat \ {0} BY <1>1, ImageHasBlock
  <1>3. State = "idle" BY DEF Init, State
  <1>4. UpTo = 0 BY SMT DEF Init, UpTo, SegBlocks
  <1>5. Places(extents) = {} BY DEF Init, Places
  <1>6. split = FALSE BY DEF Init
  <1> QED BY <1>2, <1>3, <1>4, <1>5, <1>6 DEF Write!Init, State, UpTo, Places

LEMMA StepImageWrite ==
    IInv /\ FromStart /\ [Next]_vars => [Write!Next]_(Write!writeVars)
  <1> SUFFICES ASSUME IInv, FromStart, [Next]_vars
               PROVE  [Write!Next]_(Write!writeVars)
    OBVIOUS
  <1> DEFINE B == BlocksOf(image.len)
             P == Places(extents)
  <1>t. /\ image.len \in Nat /\ seg \in Nat /\ split \in BOOLEAN
        /\ ToFlash.size \in Nat /\ (~ ToFlash.sparse => ToFlash.size = image.len)
        /\ B \in Nat \ {0}
    <2>1. /\ image.len \in Nat /\ ToFlash \in [sparse : BOOLEAN, size : Nat]
          /\ (~ ToFlash.sparse => ToFlash.size = image.len)
      BY ToFlashFacts DEF IInv
    <2>2. image.len \in Nat \ {0} BY FlashAssumption DEF IInv, Typed
    <2>3. B \in Nat \ {0} BY <2>2, ImageHasBlock
    <2>4. seg \in Nat /\ split \in BOOLEAN BY DEF IInv, Typed
    <2> QED BY <2>1, <2>3, <2>4
  <1>s. ASSUME image' = image, State' = State, UpTo' = UpTo, extents' = extents, split' = split
        PROVE  UNCHANGED Write!writeVars
    BY <1>s DEF Write!writeVars, State, UpTo
  <1>1. CASE Parse BY <1>1, <1>s DEF Parse, State, UpTo
  <1>2. CASE GetVar BY <1>2, <1>s DEF GetVar, State, UpTo
  <1>3. CASE BeginFlash
    <2>1. State = "idle" /\ State' = "writing" BY <1>3 DEF BeginFlash, State
    <2>2. UpTo' = 0 BY SMT, <1>3 DEF BeginFlash, UpTo, SegBlocks
    <2>3. split' \in {split, TRUE}
      <3>1. split' = (split \/ (ToFlash.size > max /\ ToFlash.sparse)) BY <1>3 DEF BeginFlash
      <3> QED BY <1>t, <3>1
    <2>4. image' = image /\ extents' = extents BY <1>3 DEF BeginFlash
    <2>5. Write!Begin BY <2>1, <2>2, <2>3, <2>4 DEF Write!Begin, State, UpTo
    <2> QED BY <2>5 DEF Write!Next
  <1>4. CASE DownloadWhole BY <1>4, <1>s DEF DownloadWhole, State, UpTo
  <1>5. CASE DownloadSegment BY <1>5, <1>s DEF DownloadSegment, State, UpTo
  <1>6. CASE Order
    <2> DEFINE x == [at |-> blob.img.skip, from |-> blob.from, blocks |-> blob.img.raw]
    <2>1. /\ State = "writing" /\ UpTo = seg * 255
          /\ image' = image /\ split' = split /\ extents' = extents \cup {x}
          /\ State' = (IF MoreSegments THEN "writing" ELSE "done")
          /\ UpTo' = (IF MoreSegments THEN (seg + 1) * 255 ELSE B)
      BY <1>6 DEF Order, State, UpTo, SegBlocks
    <2>2. P' = P \cup (x.at .. x.at + x.blocks - 1) BY <2>1, PlacesGrow, Zenon
    <2>3. CASE split
      <3>1. UpTo' \in Nat /\ State' \in {"writing", "done"} BY <1>t, <2>1
      <3>2. P \subseteq P' BY <2>2
      <3>3. Write!WriteMangled BY <2>1, <2>3, <3>1, <3>2 DEF Write!WriteMangled, State, UpTo, Places
      <3> QED BY <3>3 DEF Write!Next
    <2>4. CASE ~ split
      <3>1. /\ x.at = UpTo /\ UpTo' \in UpTo + 1 .. B
            /\ x.at + x.blocks - 1 = UpTo' - 1
            /\ (UpTo' = B <=> ~ MoreSegments)
        <4>1. CASE ToFlash.size > max
          <5>1. ~ ToFlash.sparse BY <1>6, <2>4, <4>1 DEF Order, IInv, SplitInv
          <5>2. BlocksOf(ToFlash.size) = B BY <1>t, <5>1
          <5>3. seg < SegCount /\ blob = SegmentBlob(seg)
            BY <1>6, <4>1 DEF Order, IInv, PhaseInv
          <5>4. /\ blob.img.skip = seg * 255
                /\ blob.img.raw \in Nat
                /\ seg + 1 < SegCount => blob.img.raw = 255
                /\ ~ (seg + 1 < SegCount) => seg * 255 + blob.img.raw = B
            BY <1>t, <5>2, <5>3, SegmentBlobFacts DEF Blob, Img
          <5>5. seg * 255 < B BY <1>t, <5>2, <5>3, SegmentHasBlock
          <5>6. seg + 1 < SegCount => (seg + 1) * 255 < B
            BY <1>t, <5>2, SegmentHasBlock
          <5>7. MoreSegments <=> seg + 1 < SegCount BY <4>1 DEF MoreSegments
          <5> QED BY SMT, <1>t, <2>1, <5>4, <5>5, <5>6, <5>7
        <4>2. CASE ~ (ToFlash.size > max)
          <5>1. seg = 0 BY <1>6, <4>2 DEF Order, FromStart
          <5>2. blob = WholeBlob BY <1>6, <4>2 DEF Order, IInv, PhaseInv
          <5>3. ToFlash \in [sparse : BOOLEAN, size : Nat] BY ToFlashFacts DEF IInv
          <5>4. blob.img.skip = 0 /\ blob.img.raw = B BY <1>t, <5>2, <5>3, WholeBlobFacts
          <5>5. ~ MoreSegments BY <4>2 DEF MoreSegments
          <5> QED BY SMT, <1>t, <2>1, <5>1, <5>4, <5>5
        <4> QED BY <4>1, <4>2
      <3>2. P' = P \cup (UpTo .. UpTo' - 1)
        <4>1. x.at .. x.at + x.blocks - 1 = UpTo .. UpTo' - 1 BY <3>1
        <4> QED BY <2>2, <4>1, Zenon
      <3>3. State' = (IF UpTo' = B THEN "done" ELSE "writing") BY <2>1, <3>1
      <3>4. Write!Write BY <2>1, <3>1, <3>2, <3>3 DEF Write!Write, State, UpTo, Places
      <3> QED BY <3>4 DEF Write!Next
    <2> QED BY <1>t, <2>3, <2>4
  <1>7. CASE Fail
    <2>1. /\ State = "writing" /\ State' = "idle" /\ UpTo' = UpTo
          /\ image' = image /\ extents' = extents /\ split' = split
      BY <1>7 DEF Fail, State, UpTo
    <2>2. Write!GiveUp BY <2>1 DEF Write!GiveUp, State, UpTo
    <2> QED BY <2>2 DEF Write!Next
  <1>8. CASE TryAgain BY <1>8, <1>s DEF TryAgain, State, UpTo
  <1>9. CASE UNCHANGED vars BY <1>9, <1>s DEF vars, State, UpTo
  <1> QED BY <1>1, <1>2, <1>3, <1>4, <1>5, <1>6, <1>7, <1>8, <1>9 DEF Next, Over

(* For every length and every limit the downloads and flash commands of an *)
(* image, whole or in segments, in any number of attempts, write its       *)
(* blocks from the first to the last; from the moment an attempt begins to *)
(* cut up a converted image nothing is promised any more (main.go:1029-    *)
(* 1085, 1586-1640), which OnlyLongSparseIsSplit confines.                 *)
THEOREM FlashIsImageWrite == Spec => ImplementsImageWrite
  <1>1. Init => FromStart BY DEF Init, FromStart
  <1> QED
    BY <1>1, FromStartStep, InitImageWrite, StepImageWrite, Invariance, PTL
       DEF Spec, ImplementsImageWrite, Write!Spec
=============================================================================
