-------------------------------- MODULE Mkfs --------------------------------
(***************************************************************************)
(* mkfs: the layout it computes, in ints, and the writes it makes, one     *)
(* after another.  It can end at any of them; what is in the file then is  *)
(* what the next process to open the image finds.                          *)
(***************************************************************************)
EXTENDS UFS, Sequences

CONSTANTS
  Asan, StackInodes, Sizes,   \* as in LocalFileSystem
  Requests,      \* pairs of -i and -d the program is called with
  MinCount,      \* 32 in the asserts
  BlockBytes,    \* UFS_BLOCK_SIZE
  InodeBytes,    \* sizeof(inode_t)
  SuperBytes,    \* sizeof(super_t)
  BitsPerBlock,  \* 8 * UFS_BLOCK_SIZE
  IntBound       \* an int is at least -IntBound and less than IntBound

AnInt == -IntBound .. IntBound - 1

ASSUME MkfsAssumption ==
  /\ Requests \subseteq AnInt \X AnInt
  /\ MinCount \in Nat \ {0, 1}
  /\ InodeBytes \in Nat \ {0} /\ BitsPerBlock \in Nat \ {0}
  /\ BlockBytes = InodesPerBlock * InodeBytes
  /\ SuperBytes \in 1 .. BlockBytes - 1
  /\ IntBound \in Nat \ {0}
  /\ \A ino \in StackInodes : ino \in Inode /\ \A a \in Ptrs : ino.direct[a] \notin DataBlocks

VARIABLES
  pc,      \* the next write, "made", or "failed"
  asked,   \* the options
  length,  \* of the file, in bytes
  file,    \* its blocks; block 0 is there as soon as the super block is
  at       \* the loop that clears the blocks

vars == <<pc, asked, length, file, at>>

----------------------------------------------------------------------------
\* The layout.  The product in total_inode_bytes is a size_t that becomes an
\* int, and the sum of total_blocks is one; both wrap.  Dividing an int rounds
\* towards zero.
AsInt(x) == ((x + IntBound) % (2 * IntBound)) - IntBound
Quotient(n, per) == IF n >= 0 THEN n \div per ELSE -((-n) \div per)

\* A mutant of Needed: the remainder is dropped.
NeededBelow(n, per) == Quotient(n, per)

\* n / per, and one more if there is a remainder.
Needed(n, per) ==
  IF n = Quotient(n, per) * per THEN Quotient(n, per) ELSE Quotient(n, per) + 1

SuperBlock(ni, nd) ==
  LET ibl == Needed(ni, BitsPerBlock)
      dbl == Needed(nd, BitsPerBlock)
      irl == Needed(AsInt(ni * InodeBytes), BlockBytes)
  IN  [num_inodes |-> ni, num_data |-> nd,
       inode_bitmap_addr |-> 1, inode_bitmap_len |-> ibl,
       data_bitmap_addr |-> 1 + ibl, data_bitmap_len |-> dbl,
       inode_region_addr |-> 1 + ibl + dbl, inode_region_len |-> irl,
       data_region_addr |-> 1 + ibl + dbl + irl, data_region_len |-> nd]

\* What comes before the data is small: only the sum with all the data blocks
\* can be more than an int holds.
ASSUME AddressesAssumption ==
  1 + Needed(IntBound, BitsPerBlock) + Needed(IntBound, BitsPerBlock)
    + Needed(IntBound, BlockBytes) < IntBound

TotalBlocks(sb) ==
  AsInt(1 + sb.inode_bitmap_len + sb.data_bitmap_len + sb.inode_region_len + sb.data_region_len)

Super == SuperBlock(asked[1], asked[2])

\* What a block of the file holds.
Zero       == [zero |-> TRUE]
Layout(sb) == [super |-> sb]
Bits(set)  == [bits |-> set]
Table(t)   == [inodes |-> t]
Dir(cells) == [cells |-> cells]

----------------------------------------------------------------------------
Init ==
  /\ pc = "open" /\ asked \in Requests
  /\ length = 0 /\ file = <<>> /\ at = 1

Fail == pc' = "failed" /\ UNCHANGED <<asked, length, file, at>>

\* The file is emptied before the options are looked at.
Open ==
  /\ pc = "open"
  /\ IF asked[1] >= MinCount /\ asked[2] >= MinCount
     THEN pc' = "super" /\ UNCHANGED <<asked, length, file, at>>
     ELSE Fail

WriteSuper ==
  /\ pc = "super"
  /\ file' = [b \in {0} |-> Layout(Super)] /\ length' = SuperBytes
  /\ pc' = "zero"
  /\ UNCHANGED <<asked, at>>

\* pwrite of a block at b * UFS_BLOCK_SIZE, which is computed in ints: a
\* negative offset is refused, and whether an overflow makes one is up to the
\* compiler.
PutBlock(b, content) ==
  /\ b >= 0
  /\ file' = [a \in (0 .. b) \cup DOMAIN file |->
                IF a = b THEN content ELSE IF a \in DOMAIN file THEN file[a] ELSE Zero]
  /\ length' = IF (b + 1) * BlockBytes > length THEN (b + 1) * BlockBytes ELSE length

CannotPut(b) == (b < 0 \/ b * BlockBytes >= IntBound) /\ Fail

ClearBlock ==
  /\ pc = "zero" /\ at < TotalBlocks(Super)
  /\ \/ PutBlock(at, Zero) /\ at' = at + 1 /\ UNCHANGED <<pc, asked>>
     \/ CannotPut(at)

Cleared ==
  /\ pc = "zero" /\ at >= TotalBlocks(Super)
  /\ pc' = "inodeBitmap"
  /\ UNCHANGED <<asked, length, file, at>>

\* One of the four blocks that are not zero.
Write(here, b, content, next) ==
  /\ pc = here
  /\ \/ PutBlock(b, content) /\ pc' = next /\ UNCHANGED <<asked, at>>
     \/ CannotPut(b)

\* Mutants: the data bitmap, or the inode table, is left out.
WriteInodeBitmapOnly == Write("inodeBitmap", Super.inode_bitmap_addr, Bits({0}), "table")
WriteDataBitmapOnly  == Write("dataBitmap", Super.data_bitmap_addr, Bits({0}), "root")

\* A bitmap may have more blocks; the first bit is in the first of them.
WriteInodeBitmap == Write("inodeBitmap", Super.inode_bitmap_addr, Bits({0}), "dataBitmap")
WriteDataBitmap  == Write("dataBitmap", Super.data_bitmap_addr, Bits({0}), "table")

MadeRoot == [type |-> Directory, size |-> 2,
             direct |-> [a \in Ptrs |-> IF a = 0 THEN Super.data_region_addr ELSE Unset]]

\* The rest of the table, and the names of the unused entries, are what was
\* on the stack.
WriteTable ==
  \E rest \in [1 .. InodesPerBlock - 1 -> StackInodes] :
     Write("table", Super.inode_region_addr,
           Table([e \in 0 .. InodesPerBlock - 1 |-> IF e = 0 THEN MadeRoot ELSE rest[e]]), "root")

MadeEntries(rest) == [e \in Slots |-> IF e = 0 THEN Entry(".", Root)
                                      ELSE IF e = 1 THEN Entry("..", Root)
                                      ELSE Entry(rest[e], -1)]

WriteRoot ==
  \E rest \in [Slots -> StackNames] :
     Write("root", Super.data_region_addr, Dir(MadeEntries(rest)), "made")

\* mkfs goes on, or is killed.
Next ==
  \/ Open \/ WriteSuper \/ ClearBlock \/ Cleared
  \/ WriteInodeBitmap \/ WriteDataBitmap \/ WriteTable \/ WriteRoot
  \/ (pc \notin {"made", "failed"} /\ Fail)

Spec == Init /\ [][Next]_vars

----------------------------------------------------------------------------
\* The image LocalFileSystem reads from the file, by the super block in it.
\* It can be opened if the size is a multiple of the block size, and used if
\* all the blocks are there.
\* The blocks of the layout are those up to the last one for data.
sb == file[0].super
Blocks(layout) == layout.data_region_addr + layout.data_region_len
Readable == length > 0 /\ length % BlockBytes = 0 /\ Blocks(sb) - 1 \in DOMAIN file

BitsAt(b, n) == IF "bits" \in DOMAIN file[b] THEN file[b].bits \cap 0 .. n - 1 ELSE {}

InodeAt(i) ==
  LET b == file[sb.inode_region_addr + i \div InodesPerBlock]
  IN  IF "inodes" \in DOMAIN b THEN b.inodes[i % InodesPerBlock] ELSE ZeroInode

CellsAt(b) == IF "cells" \in DOMAIN file[b] THEN file[b].cells ELSE ZeroBlock

Found == [inodeBitmap |-> BitsAt(sb.inode_bitmap_addr, NumInodes),
          dataBitmap  |-> {sb.data_region_addr + e : e \in BitsAt(sb.data_bitmap_addr, NumData)},
          inodes      |-> [i \in Inodes |-> InodeAt(i)],
          blocks      |-> [b \in DataBlocks |-> CellsAt(b)]]

L == INSTANCE LFSProperties WITH
  disk <- Found, pc <- "idle", job <- [op |-> "none"], pending <- <<>>, k <- 0,
  mem <- [inodeBitmap |-> Found.inodeBitmap, dataBitmap |-> Found.dataBitmap,
          inodes |-> Found.inodes]

\* The other modules have one size of image.
Theirs == asked = <<NumInodes, NumData>>

\* The image mkfs makes is the one the calls of LocalFileSystem start from.
MadeIsInit == pc = "made" /\ Theirs => L!Init

\* The number of bytes of the inode table is an int; so is the number of blocks.
TableFits == asked[1] * InodeBytes < IntBound
BlocksFit == Blocks(Super) < IntBound

\* The regions follow one another, and each has room for what goes into it.
Roomy(x) ==
  /\ x.inode_bitmap_addr = 1
  /\ x.data_bitmap_addr = x.inode_bitmap_addr + x.inode_bitmap_len
  /\ x.inode_region_addr = x.data_bitmap_addr + x.data_bitmap_len
  /\ x.data_region_addr = x.inode_region_addr + x.inode_region_len
  /\ x.inode_bitmap_len > 0 /\ x.inode_bitmap_len * BitsPerBlock >= x.num_inodes
  /\ x.data_bitmap_len > 0 /\ x.data_bitmap_len * BitsPerBlock >= x.num_data
  /\ x.inode_region_len > 0 /\ x.inode_region_len * InodesPerBlock >= x.num_inodes
  /\ x.data_region_len = x.num_data

\* If the table fits, the regions of an image that was made have room for
\* everything the super block promises.  If the number of blocks fits, too, the
\* image has all of them; if not, the loop clears none, and an image that was
\* made ends with the root directory: the data blocks behind it are missing.
MadeIsRoomy ==
  pc = "made" /\ TableFits =>
    /\ sb.num_inodes = asked[1] /\ sb.num_data = asked[2] /\ Roomy(sb)
    /\ LET blocks == IF BlocksFit THEN Blocks(sb) ELSE sb.data_region_addr + 1
       IN  DOMAIN file = 0 .. blocks - 1 /\ length = blocks * BlockBytes

\* An image that mkfs has not finished, if it can be used at all, has no block
\* that is pointed to and not marked; the first create in it is refused as
\* long as the root is not marked, and takes no block of the root afterwards.
UnfinishedIsSound ==
  Theirs /\ Readable =>
    /\ L!Unshared(Found.inodes) /\ L!Marked(Found.inodes, Found.dataBitmap)
    /\ \A n \in Names :
         LET plan == L!CreatePlan(Found, Root, RegularFile, n)
         IN  IF Root \in Found.inodeBitmap
             THEN /\ plan.ret = 1
                  /\ \A w \in 1 .. Len(plan.writes) :
                       \/ plan.writes[w].addr \notin Found.dataBitmap
                       \/ CellAt(Found, Found.inodes[Root], 0).name = "."
             ELSE plan.ret = -EINVALIDINODE
=============================================================================
