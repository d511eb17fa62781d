---------------------------- MODULE MCBlockDev ----------------------------
(* Small instances of the block device requests: a disk and a partition of *)
(* it, or one device with more tasks.  Tasks are alike, and so are devices *)
(* (only safety runs use the symmetry).                                    *)
EXTENDS BlockDev, TLC

Alike == Permutations(Task) \cup Permutations(Dev)
=============================================================================
