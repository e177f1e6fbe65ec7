---------------------------- MODULE MCSharedImage ----------------------------
(***************************************************************************)
(* Instance of SharedImage for TLC.                                        *)
(***************************************************************************)
EXTENDS SharedImage

CONSTANTS n0, n1

TwoNames   == {n0, n1}
OneText    == {Entry("txt", 77)}
\* Heap that was zero, and heap that still holds an entry.
BothHeaps  == {ZeroCell, Entry("old", 1)}
CleanStack == {ZeroInode}
=============================================================================
