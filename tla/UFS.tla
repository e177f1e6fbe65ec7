-------------------------------- MODULE UFS ---------------------------------
(***************************************************************************)
(* The on-disk structures of ufs.h and the calls of LocalFileSystem that   *)
(* only read them.                                                         *)
(*                                                                         *)
(* The unit of size is one directory entry (32 bytes in the code, 128 to a *)
(* block).  A block is a row of cells.  A cell of a directory block is an  *)
(* entry; the bytes of a file are cells too, so that a block read through  *)
(* the wrong inode shows what it holds.  A bitmap is the set of the bits   *)
(* that are 1, a data block is named by its absolute block number.         *)
(***************************************************************************)
EXTENDS Integers, FiniteSets

CONSTANTS
  NumInodes,        \* super.num_inodes
  NumData,          \* super.num_data
  EntriesPerBlock,  \* UFS_BLOCK_SIZE / sizeof(dir_ent_t)
  DirectPtrs,       \* DIRECT_PTRS
  InodesPerBlock,   \* UFS_BLOCK_SIZE / sizeof(inode_t)
  Names,            \* legal names other than "." and ".."
  LongName,         \* a name of DIR_ENT_NAME_SIZE characters or more
  FileCells,        \* what 32 bytes of file text may be
  HeapCells,        \* what 32 bytes of uninitialised heap may be
  StackNames        \* what mkfs may leave in the names of unused root entries

ASSUME UFSAssumption ==
  /\ NumInodes \in Nat \ {0} /\ NumData \in Nat \ {0}
  /\ EntriesPerBlock \in Nat \ {0, 1}
  /\ DirectPtrs \in Nat \ {0}
  /\ InodesPerBlock \in Nat \ {0}
  /\ \A c \in FileCells \cup HeapCells :
       c.inum \in Int /\ c = [name |-> c.name, inum |-> c.inum]

ASSUME NamesAssumption == Names \cap {"", ".", ".."} = {}

Directory   == 0
RegularFile == 1
Root        == 0

ENOTENOUGHSPACE   == 1
EDIRNOTEMPTY      == 2
EINVALIDINODE     == 3
ENOTALLOCATED     == 4
EINVALIDSIZE      == 5
ENOTFOUND         == 7
EINVALIDNAME      == 8
EINVALIDTYPE      == 9
EUNLINKNOTALLOWED == 10

----------------------------------------------------------------------------
Inodes == 0 .. NumInodes - 1
Slots  == 0 .. EntriesPerBlock - 1      \* cells of a block
Ptrs   == 0 .. DirectPtrs - 1

\* Super block, one block for each bitmap, the inode region, the data region.
InodeRegionAddr == 3
InodeRegionLen  == (NumInodes + InodesPerBlock - 1) \div InodesPerBlock
DataRegionAddr  == InodeRegionAddr + InodeRegionLen
DataBlocks      == DataRegionAddr .. DataRegionAddr + NumData - 1

NoBlock == 0        \* direct[i] == 0
Unset   == -1       \* direct[i] == UINT_MAX, what mkfs leaves in the root inode

ValidNames == Names \cup {".", ".."}
CellNames  == ValidNames \cup {""} \cup StackNames \cup {c.name : c \in FileCells \cup HeapCells}

Cell  == [name : CellNames, inum : Int]
Block == [Slots -> Cell]
Inode == [type : {Directory, RegularFile}, size : Int, direct : [Ptrs -> Int]]

Image == [inodeBitmap : SUBSET Inodes, dataBitmap : SUBSET DataBlocks,
          inodes : [Inodes -> Inode], blocks : [DataBlocks -> Block]]

Entry(n, i) == [name |-> n, inum |-> i]
Unused      == Entry("", -1)     \* an entry no file was ever put in
ZeroCell    == Entry("", 0)      \* 32 zero bytes
ZeroBlock   == [s \in Slots |-> ZeroCell]
ZeroInode   == [type |-> Directory, size |-> 0, direct |-> [k \in Ptrs |-> NoBlock]]

----------------------------------------------------------------------------
Least(S)   == CHOOSE x \in S : \A y \in S : x <= y
\* The element of S that r elements of S are smaller than.
Nth(S, r)  == CHOOSE x \in S : Cardinality({y \in S : y < x}) = r
MinOf(a, b) == IF a <= b THEN a ELSE b

\* Blocks a size occupies: (size + UFS_BLOCK_SIZE - 1) / UFS_BLOCK_SIZE.
BlocksFor(size) == (size + EntriesPerBlock - 1) \div EntriesPerBlock

\* A mutant of Held: the last block is left out.
HeldButLast(ino, n) == {k \in Ptrs : k < n - 1 /\ ino.direct[k] # NoBlock}

\* The indices below n whose pointer is not 0.
Held(ino, n) == {k \in Ptrs : k < n /\ ino.direct[k] # NoBlock}

\* A position counts cells through all the blocks of an inode.
CellAt(d, ino, pos) ==
  d.blocks[ino.direct[pos \div EntriesPerBlock]][pos % EntriesPerBlock]

PositionsIn(ks) ==
  UNION {{k * EntriesPerBlock + s : s \in Slots} : k \in ks}

\* The first of a set of positions, -1 if there is none.
First(hits) == IF hits = {} THEN -1 ELSE Least(hits)

----------------------------------------------------------------------------
\* stat(): the inode bitmap is not consulted.
StatFails(i) == i \notin Inodes

\* lookup(): entries whose inum is 0 are passed over.
Lookup(d, p, n) ==
  IF StatFails(p) \/ d.inodes[p].type # Directory THEN -EINVALIDINODE
  ELSE LET ino  == d.inodes[p]
           ks   == {k \in Held(ino, BlocksFor(ino.size)) : ino.direct[k] # Unset}
           hits == {pos \in PositionsIn(ks) :
                      /\ CellAt(d, ino, pos).inum # 0
                      /\ CellAt(d, ino, pos).name = n}
       IN  IF hits = {} THEN -ENOTFOUND ELSE CellAt(d, ino, Least(hits)).inum

\* read(): every block the inode points to, in order, until size is reached.
\* The result is a function on 0 .. (cells read) - 1, or an error code.
ReadFails(d, i, size) == StatFails(i) \/ size < 0 \/ size > d.inodes[i].size

Read(d, i, size) ==
  LET ino == d.inodes[i]
      ks  == {k \in Ptrs : ino.direct[k] \in DataBlocks}
  IN  [e \in 0 .. MinOf(size, Cardinality(ks) * EntriesPerBlock) - 1 |->
         d.blocks[ino.direct[Nth(ks, e \div EntriesPerBlock)]][e % EntriesPerBlock]]
=============================================================================
