------------------------------- MODULE MCDfs --------------------------------
(***************************************************************************)
(* Instances of DistributedFileSystemService for TLC.                      *)
(***************************************************************************)
EXTENDS DistributedFileSystemService, TLC

CONSTANTS n1, n2

TwoNames   == {n1, n2}
OneText    == {Entry("txt", 77)}
ZeroHeap   == {ZeroCell}
CleanStack == {ZeroInode}

\* A file, a file below a directory, the parent of both, a way there through
\* another directory, a name too long.
MCPaths == {<<>>, <<n1>>, <<n2>>, <<n1, n2>>, <<n1, "..">>,
            <<n2, "..", n1, n2>>, <<n2, LongName>>}
\* Only names a user would give.
PlainPaths == {<<n1>>, <<n2>>, <<n1, n2>>}
=============================================================================
