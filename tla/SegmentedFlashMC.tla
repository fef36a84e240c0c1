--------------------------- MODULE SegmentedFlashMC ---------------------------
(* SegmentedFlash for TLC: lengths on both sides of every boundary. *)
EXTENDS SegmentedFlash

MCLengths == {1, 4096, 4097, 1044480, 1044481, 1048576, 1048577, 1835008, 1835009,
              2088960, 2088961, 4239360}

MCLimits == {1048576, 1835008}
=============================================================================
