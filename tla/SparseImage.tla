------------------------------ MODULE SparseImage ------------------------------
(***************************************************************************)
(* The sparse images of sparse.go, by their chunks: a DONT_CARE chunk that *)
(* skips the offset, one RAW chunk, a DONT_CARE chunk up to the size of    *)
(* the partition and a CRC32 chunk.  A DONT_CARE chunk of no blocks is not *)
(* there.  Lengths are bytes; the data itself plays no part.               *)
(***************************************************************************)
EXTENDS Integers

BlockSize        == 4096
SparseHeaderSize == 32
SparseChunkSize  == 16

(* The data is padded to a whole number of blocks. *)
BlocksOf(bytes) == (bytes + BlockSize - 1) \div BlockSize

There(blocks) == IF blocks > 0 THEN 1 ELSE 0

(* Mutant: the blocks after the data start at the data, not at its offset. *)
RawToSparseAtOffset_LongTail(len, outputSize, offsetBlocks) ==
    LET data  == BlocksOf(len)
        asked == IF outputSize > 0 THEN BlocksOf(outputSize) ELSE 0
        part  == IF asked < data + offsetBlocks THEN data + offsetBlocks ELSE asked
        tail  == IF part > offsetBlocks + data THEN part - data ELSE 0
    IN  [skip |-> offsetBlocks, raw |-> data, tail |-> tail, total_blocks |-> part,
         total_chunks |-> 1 + There(offsetBlocks) + There(tail) + 1]

(* rawToSparseAtOffset: the header of the image and its chunks. *)
RawToSparseAtOffset(len, outputSize, offsetBlocks) ==
    LET data  == BlocksOf(len)
        asked == IF outputSize > 0 THEN BlocksOf(outputSize) ELSE 0
        part  == IF asked < data + offsetBlocks THEN data + offsetBlocks ELSE asked
        tail  == IF part > offsetBlocks + data THEN part - offsetBlocks - data ELSE 0
    IN  [skip |-> offsetBlocks, raw |-> data, tail |-> tail, total_blocks |-> part,
         total_chunks |-> 1 + There(offsetBlocks) + There(tail) + 1]

RawToSparse(len, outputSize) == RawToSparseAtOffset(len, outputSize, 0)

(* The bytes of an image: every chunk has its header, RAW its blocks and   *)
(* CRC32 four bytes.                                                       *)
SizeOf(img) ==
    SparseHeaderSize + img.total_chunks * SparseChunkSize + img.raw * BlockSize + 4
=============================================================================
