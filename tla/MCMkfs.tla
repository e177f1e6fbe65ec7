------------------------------- MODULE MCMkfs -------------------------------
(***************************************************************************)
(* Instance of Mkfs for TLC.  An int is at least -128 and less than 128, a *)
(* block has 8 bytes and an inode 4, so that the bytes of the inode table  *)
(* overflow at 32 inodes, are negative from there and 0 at 64.  The number *)
(* of blocks overflows at 99 data blocks when there are 3 or 4 inodes.     *)
(***************************************************************************)
EXTENDS Mkfs

CONSTANT n1

OneName    == {n1}
OneText    == {Entry("txt", 77)}
ZeroHeap   == {ZeroCell}
DirtyStack == {ZeroInode, [type |-> RegularFile, size |-> 1, direct |-> [a \in Ptrs |-> 1000]]}
MCRequests == ({-1, 1} \cup 3 .. 9 \cup {15, 31, 32, 33, 50, 63, 64, 65, 127})
                \X ({1, 2, 3, 4, 5, 9} \cup {98, 99, 127})
=============================================================================
