------------------------- MODULE MCLocalFileSystem --------------------------
(***************************************************************************)
(* Instances of LocalFileSystem for TLC.                                   *)
(***************************************************************************)
EXTENDS LFSProperties, TLC

CONSTANTS n1, n2, n3, n4

OneName   == {n1}
TwoNames  == {n1, n2}
\* An unused root entry may even hold a name that is used later.
TwoNamesOrNone == {"", n1, n2}
FourNames == {n1, n2, n3, n4}
SwapTwo   == Permutations(TwoNames)
SwapFour  == Permutations(FourNames)

\* File text: read as an entry it has a name nobody uses and no valid inum.
OneText == {Entry("txt", 77)}
TwoTexts == {Entry("txt", 77), Entry("more", 78)}

\* Heap that was zero, and heap that still holds an entry.
MCZeroHeap == {ZeroCell}
MCBothHeaps == {ZeroCell, Entry("old", 1)}

CleanStack == {ZeroInode}
\* An inode of the first region block that mkfs left with stack bytes in it.
DirtyStack == {[type |-> RegularFile, size |-> 1, direct |-> [i \in Ptrs |-> 1000]]}
\* No block, part of one, one and a part, two, and the two that are refused.
ManySizes == {-1, 0, 1, 4, 6, 7}
=============================================================================
