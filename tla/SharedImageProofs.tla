------------------------- MODULE SharedImageProofs --------------------------
(***************************************************************************)
(* Proofs about SharedImage: two processes that change the same image with *)
(* nothing between them may spoil what they work on, but never a file that *)
(* neither is asked about, for images of any size, calls without number    *)
(* and deaths at any moment; and a process that is alone does what         *)
(* LocalFileSystem describes.                                              *)
(***************************************************************************)
EXTENDS SharedImage, LFSProofs, SequenceTheorems

(***************************************************************************)
(* The inductive invariant.  An image, and whatever a process remembers or *)
(* is about to write, never breaks the path to the file: the root's first  *)
(* block and the block of the file are marked and nobody else points to    *)
(* them; no entry with a name that is asked about names the root or the    *)
(* file; the first three entries of the root stay.                         *)
(***************************************************************************)
PtrsOK(inodes) ==
  \A i \in Inodes, a \in Ptrs :
     /\ inodes[i].direct[a] = FileBlock => i = File
     /\ inodes[i].direct[a] = DataRegionAddr => i = Root /\ a = 0

RootOK(ino) == ino.type = Directory /\ ino.size >= 1 /\ ino.direct[0] = DataRegionAddr

OnPath(i, ino) == /\ i = File => ino = StartImage.inodes[File]
                  /\ i = Root => RootOK(ino)

TableOK(inodes) == \A i \in Inodes : OnPath(i, inodes[i])

CellOK(c)    == c.name \in Others => c.inum \notin {Root, File}
RootCells(c) == /\ c[0] = Entry(".", Root) /\ c[1] = Entry("..", Root)
                /\ c[2] = Entry(Bystander, File)

BlockOK(b, c) == /\ c \in Block
                 /\ \A s \in Slots : CellOK(c[s])
                 /\ b = DataRegionAddr => RootCells(c)

BlocksOK(blocks) ==
  /\ blocks \in [DataBlocks -> Block]
  /\ \A b \in DataBlocks : BlockOK(b, blocks[b])

MetaOK(m) ==
  /\ m \in Metadata
  /\ {Root, File} \subseteq m.inodeBitmap
  /\ {DataRegionAddr, FileBlock} \subseteq m.dataBitmap
  /\ PtrsOK(m.inodes) /\ TableOK(m.inodes)

DiskOK ==
  /\ DOMAIN disk = {"inodeBitmap", "dataBitmap", "inodes", "blocks"}
  /\ MetaOK(Meta(disk))
  /\ BlocksOK(disk.blocks)
  /\ disk.blocks[FileBlock] = [s \in Slots |-> FileText]

GoodWrites == {w \in [addr : DataBlocks \ {FileBlock}, cells : Block] : BlockOK(w.addr, w.cells)}

(***************************************************************************)
(* What a process with program counter p, call j and so on may be up to.   *)
(***************************************************************************)
Shared == {"blocks", "inodeBitmap", "dataBitmap", "region"}

JobOK(p, j) ==
  \/ /\ j.op = "create"
     /\ p \in {"readInodeBitmap", "readDataBitmap", "readRegion", "decide", "home", "link"}
              \cup Shared
     /\ j.inum \in Inodes /\ j.type \in {Directory, RegularFile} /\ j.name \in Others
  \/ /\ j.op = "unlink"
     /\ p \in {"readInodeBitmap", "readRegion", "readDirectory", "readDataBitmap", "decide"}
              \cup Shared
     /\ j.inum \in Inodes /\ j.name \in Others
  \/ /\ j.op = "write"
     /\ p \in {"readDataBitmap", "write", "dataBitmap", "region"}
     /\ j.inum \in Inodes \ {Root, File} /\ j.text \in FileCells
     /\ j.ret \in Int /\ BlocksFor(j.ret) <= DirectPtrs

InodeBitmapRead(p, j) == j.op # "write" /\ p # "readInodeBitmap"

DataBitmapRead(p, j) ==
  \/ p \notin {"readInodeBitmap", "readDataBitmap", "readRegion", "readDirectory"}
  \/ j.op = "create" /\ p = "readRegion"

RegionRead(p, j) ==
  \/ j.op = "write" /\ p = "region"
  \/ j.op = "create" /\ p \notin {"readInodeBitmap", "readDataBitmap", "readRegion"}
  \/ j.op = "unlink" /\ p \notin {"readInodeBitmap", "readRegion"}

MemOK(p, j, m, i) ==
  /\ m \in Metadata /\ PtrsOK(m.inodes)
  /\ InodeBitmapRead(p, j) => {Root, File} \subseteq m.inodeBitmap
  /\ DataBitmapRead(p, j) => {DataRegionAddr, FileBlock} \subseteq m.dataBitmap
  /\ RegionRead(p, j) => TableOK(m.inodes)
  /\ p = "readRegion" =>
       \A x \in Inodes : x \div InodesPerBlock < i => OnPath(x, m.inodes[x])

WritesOK(p, j, w, m) ==
  /\ p \in {"blocks", "home"} => w \in Seq(GoodWrites) /\ w # <<>>
  /\ p \in {"home", "link"} =>
       /\ j.ret \in Inodes \ {Root, File}
       /\ m.inodes[j.inum].type = Directory /\ ~Unreadable(m.inodes[j.inum])

SeenOK(p, j, s) == j.op = "unlink" /\ p \in {"readDataBitmap", "decide"} => BlocksOK(s)

CallOK(p, j, w, m, i, s) ==
  /\ i \in Nat /\ (p \notin {"readRegion", "write", "region"} => i = 0)
  /\ p # "idle" => JobOK(p, j) /\ MemOK(p, j, m, i) /\ WritesOK(p, j, w, m) /\ SeenOK(p, j, s)

CurrentOK == CallOK(pc, job, pending, mem, k, seen)
OtherOK ==
  /\ DOMAIN other = {"pc", "job", "pending", "mem", "k", "seen", "begun"}
  /\ CallOK(other.pc, other.job, other.pending, other.mem, other.k, other.seen)

PathKept == DiskOK /\ CurrentOK /\ OtherOK

----------------------------------------------------------------------------
(***************************************************************************)
(* The file and the way to it.                                             *)
(***************************************************************************)
LEMMA TheFile ==
  /\ Root \in Inodes /\ File \in Inodes /\ Root # File
  /\ DataRegionAddr \in DataBlocks /\ FileBlock \in DataBlocks
  /\ DataRegionAddr # FileBlock /\ DataRegionAddr \in Nat /\ FileBlock \in Nat
  /\ 0 \in Ptrs /\ {0, 1, 2} \subseteq Slots
  /\ FileText \in FileCells
<1>1. NumInodes \in Nat /\ NumInodes > 1 /\ NumData \in Nat /\ NumData > 1
      /\ EntriesPerBlock \in Nat /\ EntriesPerBlock > 2 /\ DirectPtrs \in Nat /\ DirectPtrs > 0
  BY UFSAssumption, SharedAssumption
<1>2. DataRegionAddr \in Nat
  BY Layout DEF DataRegionAddr, InodeRegionAddr
<1>3. FileText \in FileCells
  BY SharedAssumption DEF FileText
<1> QED
  BY <1>1, <1>2, <1>3 DEF Root, File, Inodes, DataBlocks, FileBlock, Ptrs, Slots

LEMMA FileInode ==
  /\ StartImage.inodes[File].type = RegularFile
  /\ StartImage.inodes[File].size = EntriesPerBlock
  /\ StartImage.inodes[File].direct =
       [a \in Ptrs |-> IF a = 0 THEN FileBlock ELSE NoBlock]
  /\ RegularFile # Directory
<1>1. StartImage.inodes[File] =
        [type |-> RegularFile, size |-> EntriesPerBlock,
         direct |-> [a \in Ptrs |-> IF a = 0 THEN FileBlock ELSE NoBlock]]
  BY TheFile DEF StartImage
<1> QED
  BY <1>1 DEF RegularFile, Directory

\* A directory that is read or written is not the file.
LEMMA NotTheFile ==
  ASSUME NEW x, TableOK(x), NEW p \in Inodes, x[p].type = Directory
  PROVE  p # File /\ \A a \in Ptrs : PtrsOK(x) => x[p].direct[a] # FileBlock
  BY FileInode DEF TableOK, OnPath, PtrsOK

\* Pointers to other blocks may come and go.
LEMMA PointerTaken ==
  ASSUME NEW x, NEW y, NEW i0, NEW a0, NEW b, PtrsOK(x), OneNew(x, y, i0, a0, b),
         b \notin {DataRegionAddr, FileBlock}
  PROVE  PtrsOK(y)
  BY TheFile DEF PtrsOK, OneNew

LEMMA PointersDropped ==
  ASSUME NEW x, NEW y, NEW freed, PtrsOK(x), OnlyDropped(x, y, freed)
  PROVE  PtrsOK(y)
  BY TheFile DEF PtrsOK, OnlyDropped

\* The first free bit is not that of the root or the file.
LEMMA FreeInode ==
  ASSUME NEW bits \in SUBSET Inodes, bits # Inodes
  PROVE  Least(Inodes \ bits) \in Inodes /\ Least(Inodes \ bits) \notin bits
<1>1. Inodes \ bits # {}
  OBVIOUS
<1>2. Inodes \ bits \in SUBSET Nat
  BY DEF Inodes
<1> QED
  BY <1>1, <1>2, LeastIsMinimum

LEMMA FreeBlock ==
  ASSUME NEW bits \in SUBSET DataBlocks, bits # DataBlocks
  PROVE  Least(DataBlocks \ bits) \in DataBlocks /\ Least(DataBlocks \ bits) \notin bits
<1>1. DataBlocks \ bits \in SUBSET Nat /\ DataBlocks \ bits # {}
  BY Layout
<1> QED
  BY <1>1, LeastIsMinimum

----------------------------------------------------------------------------
(***************************************************************************)
(* create()                                                                *)
(***************************************************************************)
\* The new inode.
LEMMA MadeInode ==
  ASSUME NEW m, MetaOK(m), NEW type \in {Directory, RegularFile},
         m.inodeBitmap # Inodes, type = Directory => m.dataBitmap # DataBlocks,
         NEW r, r = WithInode(m, type), NEW i, i = Least(Inodes \ m.inodeBitmap),
         NEW home, home = Least(DataBlocks \ m.dataBitmap)
  PROVE  /\ MetaOK(r)
         /\ i \in Inodes \ {Root, File} /\ i \notin m.inodeBitmap
         /\ type = Directory => home \in DataBlocks \ {DataRegionAddr, FileBlock}
         /\ \A j \in m.inodeBitmap : r.inodes[j] = m.inodes[j]
<1> DEFINE new == NewInode(type, home)
<1>1. /\ m.inodes \in [Inodes -> Inode] /\ m.inodeBitmap \in SUBSET Inodes
      /\ m.dataBitmap \in SUBSET DataBlocks
      /\ {Root, File} \subseteq m.inodeBitmap /\ {DataRegionAddr, FileBlock} \subseteq m.dataBitmap
      /\ PtrsOK(m.inodes) /\ TableOK(m.inodes)
  BY DEF MetaOK, Metadata
<1>2. i \in Inodes /\ i \notin m.inodeBitmap
  BY <1>1, FreeInode
<1>3. i \in Inodes \ {Root, File}
  BY <1>1, <1>2
<1>4. type = Directory => home \in DataBlocks \ {DataRegionAddr, FileBlock}
  BY <1>1, FreeBlock
<1>5. /\ r.inodeBitmap = m.inodeBitmap \cup {i}
      /\ r.dataBitmap = m.dataBitmap \cup (IF type = Directory THEN {home} ELSE {})
      /\ r.inodes = [m.inodes EXCEPT ![i] = new]
      /\ r = [inodeBitmap |-> r.inodeBitmap, dataBitmap |-> r.dataBitmap, inodes |-> r.inodes]
  BY DEF WithInode
<1>6. /\ new \in Inode
      /\ \A c \in Ptrs : new.direct[c] = NoBlock \/ (type = Directory /\ new.direct[c] = home)
  <2>1. CASE type = Directory
    <3>1. home \in DataBlocks
      BY <2>1, <1>4
    <3>2. home \in Int
      BY <3>1, Layout
    <3> QED
      BY <2>1, <3>2, Layout DEF NewInode, Inode
  <2>2. CASE type # Directory
    BY <2>2, Layout DEF NewInode, Inode
  <2> QED
    BY <2>1, <2>2
<1> HIDE DEF new
<1>7. r \in Metadata
  BY <1>1, <1>2, <1>4, <1>5, <1>6 DEF Metadata
<1>8. PtrsOK(r.inodes)
  <2>1. \A c \in Ptrs : new.direct[c] \notin {DataRegionAddr, FileBlock}
    BY <1>4, <1>6, TheFile, Layout
  <2> QED
    BY <1>1, <1>5, <2>1 DEF PtrsOK
<1>9. TableOK(r.inodes)
  BY <1>1, <1>3, <1>5 DEF TableOK, OnPath
<1> QED
  BY <1>1, <1>2, <1>3, <1>4, <1>5, <1>7, <1>8, <1>9 DEF MetaOK

\* The block of a new directory.
LEMMA NewDirectory ==
  ASSUME NEW home \in DataBlocks \ {DataRegionAddr, FileBlock}, NEW i \in Int, NEW p \in Int
  PROVE  Update(home, DirBlock(i, p)) \in GoodWrites
<1>1. DirBlock(i, p) \in Block
  <2>1. "." \in CellNames /\ ".." \in CellNames
    BY Cells DEF ValidNames
  <2>2. Entry(".", i) \in Cell /\ Entry("..", p) \in Cell /\ Unused \in Cell
    BY <2>1, Cells
  <2> QED
    BY <2>2 DEF DirBlock, Block
<1>2. \A s \in Slots : DirBlock(i, p)[s].name \in {".", "..", ""}
  BY DEF DirBlock, Entry, Unused
<1>3. \A s \in Slots : CellOK(DirBlock(i, p)[s])
  BY <1>2, NamesAssumption DEF CellOK, Others
<1>4. BlockOK(home, DirBlock(i, p))
  BY <1>1, <1>3 DEF BlockOK
<1> QED
  BY <1>1, <1>4 DEF GoodWrites, Update

\* The directory that takes one more entry.
LEMMA Linked ==
  ASSUME NEW m \in Metadata, NEW p \in Inodes, NEW r, NEW a, NEW b,
         r = WithEntry(m, p) \/ r = WithBlock(m, p, a, b)
  PROVE  /\ r.inodes[p].type = m.inodes[p].type
         /\ r.inodes[p].size = m.inodes[p].size + 1
         /\ a # 0 => r.inodes[p].direct[0] = m.inodes[p].direct[0]
         /\ r.inodeBitmap = m.inodeBitmap
         /\ \A j \in Inodes : j # p => r.inodes[j] = m.inodes[j]
<1> DEFINE old == m.inodes[p]
<1>1. m.inodes \in [Inodes -> Inode] /\ old \in Inode
  BY DEF Metadata
<1>2. CASE r = WithEntry(m, p)
  <2>1. r.inodes = [m.inodes EXCEPT ![p] = [old EXCEPT !.size = @ + 1]]
        /\ r.inodeBitmap = m.inodeBitmap
    BY <1>2 DEF WithEntry, Metadata
  <2> HIDE DEF old
  <2>2. r.inodes[p] = [old EXCEPT !.size = @ + 1]
    BY <1>1, <2>1
  <2>3. /\ r.inodes[p].type = old.type /\ r.inodes[p].size = old.size + 1
        /\ r.inodes[p].direct = old.direct
    BY <1>1, <2>2 DEF Inode
  <2> QED
    BY <1>1, <2>1, <2>3 DEF old
<1>3. CASE r = WithBlock(m, p, a, b)
  <2>1. r.inodes = [m.inodes EXCEPT ![p].size = @ + 1, ![p].direct[a] = b]
        /\ r.inodeBitmap = m.inodeBitmap
    BY <1>3 DEF WithBlock, Metadata
  <2>2. r.inodes[p] = [old EXCEPT !.size = @ + 1, !.direct[a] = b]
        /\ \A j \in Inodes : j # p => r.inodes[j] = m.inodes[j]
    BY <1>1, <2>1
  <2> HIDE DEF old
  <2>3. /\ r.inodes[p].type = old.type /\ r.inodes[p].size = old.size + 1
        /\ r.inodes[p].direct = [old.direct EXCEPT ![a] = b]
    BY <1>1, <2>2 DEF Inode
  <2>4. a # 0 => r.inodes[p].direct[0] = old.direct[0]
    BY <1>1, <2>3, TheFile DEF Inode
  <2> QED
    BY <2>1, <2>2, <2>3, <2>4 DEF old
<1> QED
  BY <1>2, <1>3

LEMMA RootHasBlock ==
  ASSUME NEW ino \in Inode, RootOK(ino)
  PROVE  BlocksFor(ino.size) \in Int /\ BlocksFor(ino.size) >= 1
<1>1. ino.size \in Nat /\ ino.size > 0 /\ EntriesPerBlock \in Nat /\ EntriesPerBlock > 0
  BY UFSAssumption DEF Inode, RootOK
<1>2. 0 \div EntriesPerBlock < BlocksFor(ino.size) /\ BlocksFor(ino.size) \in Int
  BY <1>1, BlocksForInt, DivisionBelow DEF BlocksFor
<1> QED
  BY <1>1, <1>2

\* The metadata after an entry was linked.
LEMMA LinkedMeta ==
  ASSUME NEW m, MetaOK(m), NEW p \in Inodes, m.inodes[p].type = Directory,
         NEW b, NEW r,
         \/ r = WithEntry(m, p)
         \/ /\ r = WithBlock(m, p, BlocksFor(m.inodes[p].size), b)
            /\ b \in DataBlocks \ {DataRegionAddr, FileBlock}
  PROVE  MetaOK(r)
<1> DEFINE used == BlocksFor(m.inodes[p].size)
<1>1. /\ m \in Metadata /\ PtrsOK(m.inodes) /\ TableOK(m.inodes)
      /\ {Root, File} \subseteq m.inodeBitmap /\ {DataRegionAddr, FileBlock} \subseteq m.dataBitmap
      /\ m.inodes \in [Inodes -> Inode]
  BY DEF MetaOK, Metadata
<1>2. p # File
  BY <1>1, NotTheFile
<1>3. p = Root => used # 0 /\ RootOK(m.inodes[p])
  BY <1>1, RootHasBlock DEF TableOK, OnPath
<1> HIDE DEF used
<1>4. /\ r.inodes[p].type = m.inodes[p].type
      /\ r.inodes[p].size = m.inodes[p].size + 1
      /\ used # 0 => r.inodes[p].direct[0] = m.inodes[p].direct[0]
      /\ r.inodeBitmap = m.inodeBitmap
      /\ \A j \in Inodes : j # p => r.inodes[j] = m.inodes[j]
  <2>1. r = WithEntry(m, p) \/ r = WithBlock(m, p, used, b)
    BY DEF used
  <2>2. m \in Metadata
    BY <1>1
  <2> QED
    BY <2>1, <2>2, Linked
<1>5. r \in Metadata /\ m.dataBitmap \subseteq r.dataBitmap /\ PtrsOK(r.inodes)
  <2>1. CASE r = WithEntry(m, p)
    <3>1. r \in Metadata /\ r.dataBitmap = m.dataBitmap
          /\ \A j \in Inodes : r.inodes[j].direct = m.inodes[j].direct
      BY <1>1, <2>1, GrowSize
    <3> QED
      BY <1>1, <3>1 DEF PtrsOK
  <2>2. CASE r = WithBlock(m, p, used, b) /\ b \in DataBlocks \ {DataRegionAddr, FileBlock}
    <3>1. /\ r \in Metadata /\ r.dataBitmap = m.dataBitmap \cup {b}
          /\ OneNew(m.inodes, r.inodes, p, used, b)
      BY <1>1, <2>2, AddPointer
    <3>2. PtrsOK(r.inodes)
      BY <1>1, <2>2, <3>1, PointerTaken
    <3> QED
      BY <3>1, <3>2
  <2> QED
    BY <2>1, <2>2 DEF used
<1>6. TableOK(r.inodes)
  <2>1. m.inodes[p].size \in Int
    BY <1>1 DEF Inode
  <2>2. p = Root => RootOK(r.inodes[p])
    BY <1>3, <1>4, <2>1 DEF RootOK
  <2> QED
    BY <1>1, <1>2, <1>4, <2>2 DEF TableOK, OnPath
<1> QED
  BY <1>1, <1>4, <1>5, <1>6 DEF MetaOK

LEMMA OneWrite == \A T, w : w \in T => <<w>> \in Seq(T)
  OBVIOUS

\* create writes the new entry to a cell that was unused or to a new block.
LEMMA LinkKeeps ==
  ASSUME NEW d, BlocksOK(d.blocks), NEW m, MetaOK(m), NEW p \in Inodes,
         m.inodes[p].type = Directory, ~Unreadable(m.inodes[p]),
         NEW n \in Others, NEW i \in Inodes \ {Root, File},
         NEW plan, plan = Link(d, p, n, i, <<>>, m), ~IsRefused(plan)
  PROVE  plan.writes \in Seq(GoodWrites) /\ MetaOK(plan.mem)
<1> DEFINE ino  == m.inodes[p]
           used == BlocksFor(ino.size)
           hits == {pos \in PositionsIn(Held(ino, used)) : CellAt(d, ino, pos).inum = -1}
           slot == First(hits)
           at   == ino.direct[slot \div EntriesPerBlock]
           free == DataBlocks \ m.dataBitmap
           b    == Least(free)
           old  == [d.blocks[at] EXCEPT ![slot % EntriesPerBlock] = Entry(n, i)]
           new  == [s \in Slots |-> IF s = 0 THEN Entry(n, i) ELSE Unused]
<1>1. /\ Entry(n, i) \in Cell /\ Unused \in Cell
      /\ CellOK(Entry(n, i)) /\ CellOK(Unused)
  <2>1. i \in Int
    BY DEF Inodes
  <2>2. n \in CellNames
    BY Cells DEF Others, ValidNames
  <2>3. CellOK(Entry(n, i))
    BY DEF CellOK, Entry
  <2>4. CellOK(Unused)
    BY NamesAssumption DEF CellOK, Entry, Unused, Others
  <2> QED
    BY <2>1, <2>2, <2>3, <2>4, Cells
<1>2. /\ m \in Metadata /\ PtrsOK(m.inodes) /\ TableOK(m.inodes)
      /\ m.dataBitmap \in SUBSET DataBlocks
      /\ {DataRegionAddr, FileBlock} \subseteq m.dataBitmap
  BY DEF MetaOK, Metadata
<1>3. ASSUME slot # -1
      PROVE  Update(at, old) \in GoodWrites
  <2>1. Held(ino, used) \in SUBSET Ptrs
    BY DEF Held
  <2>2. hits \in SUBSET Nat
    BY <2>1, PositionInBlocks
  <2>3. slot \in hits
    <3> HIDE DEF hits
    <3> QED
      BY <1>3, <2>2, FirstIsElement
  <2>4. slot \div EntriesPerBlock \in Held(ino, used) /\ slot % EntriesPerBlock \in Slots
    <3>1. slot \in PositionsIn(Held(ino, used))
      BY <2>3
    <3> HIDE DEF slot
    <3> QED
      BY <2>1, <3>1, PositionInBlocks
  <2>5. d.blocks[at][slot % EntriesPerBlock].inum = -1
    <3>1. CellAt(d, ino, slot).inum = -1
      BY <2>3
    <3> HIDE DEF slot
    <3> QED
      BY <3>1 DEF CellAt
  <2> HIDE DEF slot, used
  <2>6. slot \div EntriesPerBlock \in Ptrs /\ at \in DataBlocks
    <3>1. slot \div EntriesPerBlock \in Held(ino, BlocksFor(ino.size)) /\ ~Unreadable(ino)
      BY <2>4 DEF used
    <3> QED
      BY <3>1, ReadableBlock
  <2>7. at # FileBlock
    BY <1>2, <2>6, NotTheFile
  <2> HIDE DEF at
  <2>8. BlockOK(at, d.blocks[at])
    BY <2>6 DEF BlocksOK
  <2>9. old \in Block
    BY <2>4, <2>8, <1>1 DEF BlockOK, Block
  <2>10. \A s \in Slots : old[s] = IF s = slot % EntriesPerBlock THEN Entry(n, i) ELSE d.blocks[at][s]
    BY <2>4, <2>8 DEF BlockOK, Block
  <2> HIDE DEF old
  <2>11. \A s \in Slots : CellOK(old[s])
    BY <2>8, <2>10, <1>1 DEF BlockOK
  <2>12. ASSUME at = DataRegionAddr
         PROVE  RootCells(old)
    <3>1. RootCells(d.blocks[at])
      BY <2>8, <2>12 DEF BlockOK
    <3>2. \A s \in {0, 1, 2} : d.blocks[at][s].inum # -1
      BY <3>1 DEF RootCells, Entry, Root, File
    <3>3. \A s \in {0, 1, 2} : old[s] = d.blocks[at][s]
      BY <2>5, <2>10, <3>2, TheFile
    <3> QED
      BY <3>1, <3>3 DEF RootCells
  <2>13. BlockOK(at, old)
    BY <2>9, <2>11, <2>12 DEF BlockOK
  <2> QED
    BY <2>6, <2>7, <2>9, <2>13 DEF Update, GoodWrites
<1>4. ASSUME free # {}
      PROVE  Update(b, new) \in GoodWrites /\ b \in DataBlocks \ {DataRegionAddr, FileBlock}
  <2>1. b \in DataBlocks \ {DataRegionAddr, FileBlock}
    BY <1>2, <1>4, FreeBlock
  <2>2. new \in Block
    BY <1>1 DEF Block
  <2>3. \A s \in Slots : CellOK(new[s])
    BY <1>1
  <2> HIDE DEF b, new
  <2> QED
    BY <2>1, <2>2, <2>3 DEF Update, GoodWrites, BlockOK
<1> HIDE DEF at, old, b, new, slot
<1>5. CASE plan = Plan(i, <<Update(at, old)>>, TRUE, WithEntry(m, p)) /\ slot # -1
  <2>1. plan.writes = <<Update(at, old)>> /\ plan.mem = WithEntry(m, p)
    BY <1>5 DEF Plan
  <2>2. plan.writes \in Seq(GoodWrites)
    BY <1>3, <1>5, <2>1, OneWrite
  <2> QED
    BY <2>1, <2>2, LinkedMeta
<1>6. CASE plan = Plan(-ENOTENOUGHSPACE, <<>>, FALSE, Meta(d))
  BY <1>6 DEF Plan, IsRefused
<1>7. CASE plan = Plan(i, <<Update(b, new)>>, TRUE, WithBlock(m, p, used, b)) /\ free # {}
  <2>1. plan.writes = <<Update(b, new)>> /\ plan.mem = WithBlock(m, p, used, b)
    BY <1>7 DEF Plan
  <2>2. plan.writes \in Seq(GoodWrites)
    BY <1>4, <1>7, <2>1, OneWrite
  <2> QED
    BY <1>4, <1>7, <2>1, <2>2, LinkedMeta
<1>8. Append(<<>>, Update(at, old)) = <<Update(at, old)>>
      /\ Append(<<>>, Update(b, new)) = <<Update(b, new)>>
  OBVIOUS
<1> QED
  BY <1>5, <1>6, <1>7, <1>8 DEF Link, WithEntry, WithBlock, slot, at, old, b, new, Meta

----------------------------------------------------------------------------
(***************************************************************************)
(* unlink()                                                                *)
(***************************************************************************)
\* No 32 bytes of a file or of the heap spell an entry that gives a name the
\* processes are asked about to the root or to the file.
NoForgedEntry ==
  \A c \in FileCells \cup HeapCells : c.name \in Others => c.inum \notin {Root, File}

\* The metadata after the entry of inode v was removed.
LEMMA RemovedKeeps ==
  ASSUME NEW d, MetaOK(Meta(d)), NEW p \in Inodes, d.inodes[p].type = Directory,
         NEW v \in Inodes \ {Root, File}, NEW at, at \div EntriesPerBlock \in Ptrs,
         NEW emptied,
         p = Root /\ emptied =>
            at \div EntriesPerBlock # 0 /\ d.inodes[p].size - EntriesPerBlock >= 1,
         NEW m, m = Removed(d, p, v, at, emptied)
  PROVE  MetaOK(m)
<1> DEFINE i     == at \div EntriesPerBlock
           x     == d.inodes
           after == [x EXCEPT ![v] = Released(x[v])]
           block == IF emptied THEN {after[p].direct[i]} ELSE {}
           freed == Freed(x[v]) \cup block
<1>1. /\ x \in [Inodes -> Inode] /\ d.inodeBitmap \in SUBSET Inodes
      /\ d.dataBitmap \in SUBSET DataBlocks
      /\ PtrsOK(x) /\ TableOK(x)
      /\ {Root, File} \subseteq d.inodeBitmap /\ {DataRegionAddr, FileBlock} \subseteq d.dataBitmap
  BY DEF MetaOK, Metadata, Meta
<1>2. /\ m.inodeBitmap = d.inodeBitmap \ {v} /\ m.dataBitmap = d.dataBitmap \ freed
      /\ m.inodes = IF emptied THEN WithoutBlock(after, p, i) ELSE after
      /\ m = [inodeBitmap |-> m.inodeBitmap, dataBitmap |-> m.dataBitmap, inodes |-> m.inodes]
  BY DEF Removed, WithoutBlock
<1> HIDE DEF x
<1>3. /\ after \in [Inodes -> Inode]
      /\ \A j \in Inodes : j # v => after[j] = x[j]
      /\ \A j \in Inodes, c \in Ptrs : after[j].direct[c] \in {x[j].direct[c], NoBlock}
  <2>1. /\ Released(x[v]) \in Inode
        /\ \A c \in Ptrs : Released(x[v]).direct[c] =
             IF c < BlocksFor(x[v].size) THEN NoBlock ELSE x[v].direct[c]
    BY <1>1, ReleasedInode
  <2> QED
    BY <1>1, <2>1
<1> HIDE DEF after, i
<1>4. i \in Ptrs /\ (p = Root /\ emptied => i # 0 /\ x[p].size - EntriesPerBlock >= 1)
  BY DEF i, x
<1>5. /\ m.inodes \in [Inodes -> Inode]
      /\ \A j \in Inodes, c \in Ptrs : m.inodes[j].direct[c] =
           IF emptied /\ j = p /\ c = i THEN NoBlock ELSE after[j].direct[c]
  <2>1. CASE emptied
    BY <1>2, <1>3, <1>4, <2>1, ShrinkDirectory
  <2>2. CASE ~emptied
    BY <1>2, <1>3, <2>2
  <2> QED
    BY <2>1, <2>2
<1>6. p # File
  BY <1>1, NotTheFile DEF x
<1>7. DataRegionAddr \notin freed /\ FileBlock \notin freed
  <2>1. \A c \in Ptrs : x[v].direct[c] \notin {DataRegionAddr, FileBlock}
    BY <1>1 DEF PtrsOK
  <2>2. DataRegionAddr \notin Freed(x[v]) /\ FileBlock \notin Freed(x[v])
    BY <2>1 DEF Freed, Held
  <2>3. emptied => after[p].direct[i] \notin {DataRegionAddr, FileBlock}
    <3>1. after[p].direct[i] \in {x[p].direct[i], NoBlock}
      BY <1>3, <1>4
    <3>2. NoBlock \notin {DataRegionAddr, FileBlock}
      BY TheFile, Layout
    <3>3. emptied => x[p].direct[i] \notin {DataRegionAddr, FileBlock}
      BY <1>1, <1>4, <1>6 DEF PtrsOK
    <3> QED
      BY <3>1, <3>2, <3>3
  <2> QED
    BY <2>2, <2>3
<1>8. m \in Metadata
  <2> HIDE DEF freed
  <2> QED
    BY <1>1, <1>2, <1>5 DEF Metadata
<1>9. PtrsOK(m.inodes)
  <2>1. \A j \in Inodes, c \in Ptrs : m.inodes[j].direct[c] \in {x[j].direct[c], NoBlock}
    BY <1>3, <1>5
  <2>2. NoBlock \notin {DataRegionAddr, FileBlock}
    BY TheFile, Layout
  <2> QED
    BY <1>1, <2>1, <2>2 DEF PtrsOK
<1>10. TableOK(m.inodes)
  <2>1. \A j \in Inodes : j # p /\ j # v => m.inodes[j] = x[j]
    BY <1>2, <1>3 DEF WithoutBlock
  <2>2. ASSUME p = Root PROVE RootOK(m.inodes[p])
    <3>1. p # v /\ after[p] = x[p] /\ x[p] \in Inode /\ RootOK(x[p])
      BY <1>1, <1>3, <2>2 DEF TableOK, OnPath
    <3>2. m.inodes[p].direct[0] = DataRegionAddr
      BY <1>4, <1>5, <2>2, <3>1, TheFile DEF RootOK
    <3>3. CASE emptied
      <4>1. m.inodes[p] = [x[p] EXCEPT !.direct[i] = NoBlock, !.size = @ - EntriesPerBlock]
        BY <1>2, <1>3, <3>1, <3>3 DEF WithoutBlock
      <4>2. m.inodes[p].type = x[p].type /\ m.inodes[p].size = x[p].size - EntriesPerBlock
        BY <3>1, <4>1 DEF Inode
      <4> QED
        BY <1>4, <2>2, <3>1, <3>2, <3>3, <4>2 DEF RootOK
    <3>4. CASE ~emptied
      BY <1>2, <3>1, <3>4
    <3> QED
      BY <3>3, <3>4
  <2> QED
    BY <1>1, <1>6, <2>1, <2>2 DEF TableOK, OnPath
<1> QED
  BY <1>1, <1>2, <1>7, <1>8, <1>9, <1>10 DEF MetaOK

\* The first cells unlink reads of the root are those of its first block.
LEMMA RootData ==
  ASSUME NEW d, d.inodes[Root] \in Inode, RootOK(d.inodes[Root]),
         NEW heap \in [HeapRange(d, Root) -> HeapCells],
         NEW s \in {0, 1, 2}, s < d.inodes[Root].size
  PROVE  /\ s \in DOMAIN DirData(d, Root, heap)
         /\ DirData(d, Root, heap)[s] = d.blocks[DataRegionAddr][s]
<1> DEFINE ino == d.inodes[Root]
           ks  == BlocksRead(ino)
           n   == CellsRead(ino)
           c   == Cardinality(ks)
<1>1. EntriesPerBlock \in Nat /\ EntriesPerBlock > 2 /\ DirectPtrs \in Nat /\ ino.size \in Int
  BY UFSAssumption, SharedAssumption DEF Inode
<1>2. ks \in SUBSET (0 .. DirectPtrs) /\ ks \in SUBSET Nat
  BY <1>1 DEF BlocksRead, Held, Ptrs
<1>3. 0 \in ks
  <2>1. 0 < BlocksFor(ino.size)
    BY RootHasBlock
  <2>2. ino.direct[0] # NoBlock
    BY TheFile, Layout DEF RootOK
  <2> QED
    BY <2>1, <2>2, TheFile DEF BlocksRead, Held
<1> HIDE DEF ks
<1>4. c \in Nat /\ c > 0
  <2>1. IsFiniteSet(ks) /\ c \in Nat
    BY <1>1, <1>2, SetOfIndices
  <2>2. c # 0
    BY <1>3, <2>1, FS_EmptySet
  <2> QED
    BY <2>1, <2>2
<1>5. Nth(ks, 0) = 0
  <2>1. Nth(ks, 0) \in ks /\ Cardinality(Below(ks, Nth(ks, 0))) = 0
    BY <1>1, <1>2, <1>4, NthIsElement
  <2>2. IsFiniteSet(Below(ks, Nth(ks, 0)))
    BY <1>1, <1>2, <2>1, SetOfIndices
  <2>3. Below(ks, Nth(ks, 0)) = {}
    BY <2>1, <2>2, FS_EmptySet
  <2>4. ~(0 < Nth(ks, 0)) /\ Nth(ks, 0) \in Nat
    BY <1>2, <1>3, <2>1, <2>3 DEF Below
  <2> QED
    BY <2>4
<1>6. n \in Int /\ s < n
  <2> HIDE DEF c, ino
  <2>1. c * EntriesPerBlock >= EntriesPerBlock /\ c * EntriesPerBlock \in Nat
    BY <1>1, <1>4
  <2>2. n = MinOf(ino.size, c * EntriesPerBlock)
    BY DEF CellsRead, c, ks
  <2>3. s < ino.size
    BY DEF ino
  <2> QED
    BY <1>1, <2>1, <2>2, <2>3 DEF MinOf
<1>7. s \notin DOMAIN heap
  <2>1. DOMAIN heap = n .. Limit(ino.size) - 1
    BY TheFile DEF HeapRange, Limit
  <2> HIDE DEF n
  <2> QED
    BY <1>6, <2>1
<1>8. s \in 0 .. n - 1
  BY <1>6
<1>9. s \div EntriesPerBlock = 0 /\ s % EntriesPerBlock = s
  <2>1. (0 * EntriesPerBlock + s) \div EntriesPerBlock = 0 /\ (0 * EntriesPerBlock + s) % EntriesPerBlock = s
    BY <1>1, PositionOf
  <2>2. 0 * EntriesPerBlock + s = s
    BY <1>1
  <2> QED
    BY <2>1, <2>2
<1>10. /\ s \in DOMAIN DirData(d, Root, heap)
       /\ DirData(d, Root, heap)[s] = d.blocks[ino.direct[Nth(ks, s \div EntriesPerBlock)]][s % EntriesPerBlock]
  BY <1>7, <1>8 DEF DirData, ks
<1> QED
  BY <1>5, <1>9, <1>10 DEF RootOK

\* The cells unlink reads: none gives a name that is asked about to the root
\* or to the file.
LEMMA CellsReadOK ==
  ASSUME NoForgedEntry, NEW d, BlocksOK(d.blocks),
         NEW p \in Inodes, d.inodes[p] \in Inode, ~Unreadable(d.inodes[p]),
         NEW heap \in [HeapRange(d, p) -> HeapCells],
         NEW e \in 0 .. Limit(d.inodes[p].size) - 1
  PROVE  /\ e \in DOMAIN DirData(d, p, heap)
         /\ DirData(d, p, heap)[e] \in Cell /\ CellOK(DirData(d, p, heap)[e])
<1>1. /\ e \in DOMAIN DirData(d, p, heap)
      /\ \/ DirData(d, p, heap)[e] \in HeapCells
         \/ \E b \in DataBlocks, s \in Slots : DirData(d, p, heap)[e] = d.blocks[b][s]
  BY DirDataOrigin
<1>2. \A b \in DataBlocks, s \in Slots : d.blocks[b][s] \in Cell /\ CellOK(d.blocks[b][s])
  BY DEF BlocksOK, BlockOK, Block
<1>3. \A c \in HeapCells : c \in Cell /\ CellOK(c)
  BY Cells DEF NoForgedEntry, CellOK
<1> QED
  BY <1>1, <1>2, <1>3

\* The entry that is removed is not among the first three of the root.
LEMMA RootEntriesStay ==
  ASSUME NEW d, BlocksOK(d.blocks), d.inodes[Root] \in Inode, RootOK(d.inodes[Root]),
         NEW heap \in [HeapRange(d, Root) -> HeapCells], NEW n \in Others,
         NEW data, data = DirData(d, Root, heap),
         NEW at \in 0 .. d.inodes[Root].size - 1, data[at].name = n
  PROVE  /\ at \in Nat /\ at > 2
         /\ \A s \in {0, 1, 2} : s \in DOMAIN data /\ data[s] = d.blocks[DataRegionAddr][s]
         /\ RootCells(d.blocks[DataRegionAddr])
<1>1. d.inodes[Root].size \in Int /\ at \in Nat /\ at < d.inodes[Root].size
  BY DEF Inode
<1>2. RootCells(d.blocks[DataRegionAddr])
  BY TheFile DEF BlocksOK, BlockOK
<1>3. \A s \in {0, 1, 2} : d.blocks[DataRegionAddr][s].name # n
  <2>1. n # "." /\ n # ".." /\ n # Bystander
    BY NamesAssumption DEF Others
  <2> QED
    BY <1>2, <2>1 DEF RootCells, Entry
<1>4. at \notin {0, 1, 2}
  <2>1. SUFFICES ASSUME at \in {0, 1, 2} PROVE FALSE
    OBVIOUS
  <2>2. data[at] = d.blocks[DataRegionAddr][at]
    BY <1>1, <2>1, RootData
  <2> QED
    BY <1>3, <2>1, <2>2
<1>5. at > 2
  BY <1>1, <1>4
<1>6. ASSUME NEW s \in {0, 1, 2}
      PROVE  s \in DOMAIN data /\ data[s] = d.blocks[DataRegionAddr][s]
  <2>1. s < d.inodes[Root].size
    BY <1>1, <1>5
  <2> QED
    BY <2>1, RootData
<1> QED
  BY <1>1, <1>2, <1>5, <1>6

\* unlink never takes the entry of the root or of the file away.
LEMMA UnlinkPlanKeeps ==
  ASSUME NoForgedEntry, NEW d, MetaOK(Meta(d)), BlocksOK(d.blocks),
         NEW p, NEW n \in Others, NEW heap \in [HeapRange(d, p) -> HeapCells], NEW lucky,
         NEW plan, plan = UnlinkPlan(d, p, n, heap, lucky), ~IsRefused(plan)
  PROVE  plan.writes \in Seq(GoodWrites) /\ MetaOK(plan.mem)
<1> DEFINE ino     == d.inodes[p]
           data    == DirData(d, p, heap)
           at      == EntryNamed(data, ino, n)
           i       == at \div EntriesPerBlock
           v       == data[at].inum
           data1   == [data EXCEPT ![at].name = ""]
           emptied == BlockEmpty(data1, i)
           m       == Removed(d, p, v, at, emptied)
           writes  == WriteBack(m.inodes[p], BlocksFor(ino.size), data1, ino.size)
<1>1. \A x : IsRefused(Refuse(d, x))
  BY DEF IsRefused, Refuse, Plan
<1>2. /\ p \in Inodes /\ ino.type = Directory /\ ~Unreadable(ino)
      /\ ~(ino.size < 0) /\ at # -1 /\ v \in Inodes
      /\ plan = UnlinkEntry(d, p, v, at, data, lucky)
  BY <1>1 DEF UnlinkPlan
<1>3. \/ plan = Plan(Aborts, writes, FALSE, Meta(d))
      \/ plan = Plan(0, writes, TRUE, m)
  BY <1>1, <1>2 DEF UnlinkEntry
<1>4. /\ d.inodes \in [Inodes -> Inode] /\ ino \in Inode /\ ino.size \in Int
      /\ PtrsOK(d.inodes) /\ TableOK(d.inodes) /\ p # File
      /\ p = Root => RootOK(ino)
  <2>1. d.inodes \in [Inodes -> Inode] /\ PtrsOK(d.inodes) /\ TableOK(d.inodes)
    BY DEF MetaOK, Metadata, Meta
  <2>2. ino \in Inode /\ ino.size \in Int
    BY <1>2, <2>1 DEF Inode
  <2>3. p # File /\ (p = Root => RootOK(ino))
    BY <1>2, <2>1, NotTheFile DEF TableOK, OnPath
  <2> QED
    BY <2>1, <2>2, <2>3
<1>5. at \in 0 .. ino.size - 1 /\ data[at].name = n
  <2> DEFINE hits == {e \in 0 .. ino.size - 1 : data[e].name = n}
  <2>1. hits \in SUBSET Nat /\ at = First(hits)
    BY DEF EntryNamed
  <2> HIDE DEF hits, at
  <2>2. at \in hits
    BY <1>2, <2>1, FirstIsElement
  <2> QED
    BY <2>2 DEF hits
<1> HIDE DEF at
<1>6. i \in Ptrs
  BY <1>2, <1>4, <1>5, EntryInBlocks
<1>7. \A e \in 0 .. Limit(ino.size) - 1 :
        e \in DOMAIN data /\ data[e] \in Cell /\ CellOK(data[e])
  BY <1>2, <1>4, CellsReadOK
<1>8. at \in 0 .. Limit(ino.size) - 1
  <2>1. CASE Asan
    BY <1>5, <2>1 DEF Limit
  <2>2. CASE ~Asan
    <3>1. EntriesPerBlock \in Nat /\ EntriesPerBlock > 0 /\ at \in Nat /\ ino.size \in Nat
          /\ at < ino.size
      BY <1>4, <1>5, UFSAssumption
    <3>2. ino.size <= BlocksFor(ino.size) * EntriesPerBlock /\ BlocksFor(ino.size) \in Nat
      <4> DEFINE z == ino.size + EntriesPerBlock - 1
      <4>1. z \in Nat
        BY <3>1
      <4>2. z \div EntriesPerBlock \in Nat /\ z < EntriesPerBlock * (z \div EntriesPerBlock) + EntriesPerBlock
        BY <3>1, <4>1, Division
      <4> DEFINE q == z \div EntriesPerBlock
      <4>3. BlocksFor(ino.size) = q
        BY DEF BlocksFor
      <4> HIDE DEF q
      <4>4. EntriesPerBlock * q = q * EntriesPerBlock /\ q * EntriesPerBlock \in Nat
        BY <3>1, <4>2 DEF q
      <4>5. z < q * EntriesPerBlock + EntriesPerBlock
        BY <4>2, <4>4 DEF q
      <4>6. ino.size <= q * EntriesPerBlock
        BY <3>1, <4>4, <4>5
      <4> QED
        BY <4>2, <4>3, <4>6 DEF q
    <3>3. BlocksFor(ino.size) * EntriesPerBlock \in Nat
      BY <3>1, <3>2
    <3> QED
      BY <2>2, <3>1, <3>2, <3>3 DEF Limit
  <2> QED
    BY <2>1, <2>2
<1>9. v \in Inodes \ {Root, File}
  BY <1>2, <1>5, <1>7, <1>8 DEF CellOK
<1>10. \A e \in 0 .. Limit(ino.size) - 1 :
         data1[e] \in Cell /\ CellOK(data1[e]) /\ (e # at => data1[e] = data[e])
  <2>1. SUFFICES ASSUME NEW e \in 0 .. Limit(ino.size) - 1
                 PROVE  data1[e] \in Cell /\ CellOK(data1[e]) /\ (e # at => data1[e] = data[e])
    OBVIOUS
  <2>2. e \in DOMAIN data /\ data[e] \in Cell /\ CellOK(data[e])
    BY <1>7
  <2> HIDE DEF data
  <2>3. data1[e] = IF e = at THEN [data[e] EXCEPT !.name = ""] ELSE data[e]
    BY <2>2
  <2>4. "" \in CellNames /\ "" \notin Others
    BY Cells, NamesAssumption DEF Others
  <2>5. data1[e] \in Cell
    BY <2>2, <2>3, <2>4 DEF Cell
  <2>6. CellOK(data1[e])
    <3>1. e = at => data1[e].name = ""
      BY <2>2, <2>3 DEF Cell
    <3> QED
      BY <2>2, <2>3, <2>4, <3>1 DEF CellOK
  <2> QED
    BY <2>3, <2>5, <2>6
<1>11. p = Root => /\ at \in Nat /\ at > 2
                   /\ \A s \in {0, 1, 2} : s \in DOMAIN data /\ data1[s] = data[s]
                                          /\ data[s] = d.blocks[DataRegionAddr][s]
                   /\ RootCells(d.blocks[DataRegionAddr])
  <2>1. SUFFICES ASSUME p = Root
                 PROVE  /\ at \in Nat /\ at > 2
                        /\ \A s \in {0, 1, 2} : s \in DOMAIN data /\ data1[s] = data[s]
                                               /\ data[s] = d.blocks[DataRegionAddr][s]
                        /\ RootCells(d.blocks[DataRegionAddr])
    OBVIOUS
  <2>2. /\ at \in Nat /\ at > 2
        /\ \A s \in {0, 1, 2} : s \in DOMAIN data /\ data[s] = d.blocks[DataRegionAddr][s]
        /\ RootCells(d.blocks[DataRegionAddr])
    BY <1>4, <1>5, <2>1, RootEntriesStay
  <2> HIDE DEF data
  <2>3. \A s \in {0, 1, 2} : data1[s] = data[s]
    <3>1. SUFFICES ASSUME NEW s \in {0, 1, 2} PROVE data1[s] = data[s]
      OBVIOUS
    <3>2. s \in DOMAIN data
      BY <2>2
    <3>3. s # at
      BY <2>2
    <3> QED
      BY <3>2, <3>3
  <2> HIDE DEF data1
  <2> QED
    BY <2>2, <2>3
<1>12. p = Root /\ emptied => i # 0 /\ ino.size - EntriesPerBlock >= 1
  <2>1. SUFFICES ASSUME p = Root, emptied PROVE i # 0 /\ ino.size - EntriesPerBlock >= 1
    OBVIOUS
  <2>2. 0 \in DOMAIN data1 /\ data1[0].name = "."
    <3>1. 0 \in DOMAIN data /\ data1[0] = d.blocks[DataRegionAddr][0]
      BY <1>11, <2>1
    <3>2. d.blocks[DataRegionAddr][0] = Entry(".", Root)
      BY <1>11, <2>1 DEF RootCells
    <3>3. DOMAIN data1 = DOMAIN data
      OBVIOUS
    <3> HIDE DEF data, data1
    <3> QED
      BY <3>1, <3>2, <3>3 DEF Entry
  <2>3. EntriesPerBlock \in Nat /\ EntriesPerBlock > 0
    BY UFSAssumption
  <2>4. 0 \in CellsOf(0)
    BY <2>3 DEF CellsOf
  <2>5. "." # ""
    OBVIOUS
  <2>6. i # 0
    <3> HIDE DEF i, data1
    <3> QED
      BY <2>1, <2>2, <2>4, <2>5 DEF BlockEmpty
  <2>7. i \in Nat /\ EntriesPerBlock * i <= at
    BY <1>11, <2>1, <2>3, Division
  <2> HIDE DEF i
  <2>8. EntriesPerBlock * i >= EntriesPerBlock
    BY <2>3, <2>6, <2>7
  <2> HIDE DEF ino
  <2>9. ino.size - EntriesPerBlock >= 1
    BY <1>4, <1>5, <2>3, <2>7, <2>8
  <2> QED
    BY <2>6, <2>9
<1>13. MetaOK(m)
  <2> HIDE DEF emptied, v, data, data1
  <2> QED
    BY <1>2, <1>6, <1>9, <1>12, RemovedKeeps
<1>14. \A a \in Ptrs : m.inodes[p].direct[a] \in {ino.direct[a], NoBlock}
  <2> HIDE DEF emptied, v, data, data1
  <2> QED
    BY <1>2, <1>4, <1>6, <1>9, RemovedInodes
<1>15. ASSUME NEW x \in Held(m.inodes[p], BlocksFor(ino.size)),
              ~Asan \/ (x + 1) * EntriesPerBlock <= ino.size
       PROVE  Update(m.inodes[p].direct[x],
                     [s \in Slots |-> data1[x * EntriesPerBlock + s]]) \in GoodWrites
  <2> DEFINE cells == [s \in Slots |-> data1[x * EntriesPerBlock + s]]
             b     == m.inodes[p].direct[x]
  <2> HIDE DEF m, data1
  <2>1. x \in Ptrs /\ x < BlocksFor(ino.size) /\ b # NoBlock
    BY DEF Held
  <2>2. b = ino.direct[x]
    BY <1>14, <2>1
  <2>3. x \in Held(ino, BlocksFor(ino.size))
    BY <2>1, <2>2 DEF Held
  <2>4. b \in DataBlocks
    BY <1>2, <2>2, <2>3, ReadableBlock
  <2>5. b # FileBlock /\ (b = DataRegionAddr => p = Root /\ x = 0)
    BY <1>2, <1>4, <2>1, <2>2 DEF PtrsOK
  <2>6. \A s \in Slots : data1[x * EntriesPerBlock + s] \in Cell /\ CellOK(data1[x * EntriesPerBlock + s])
    <3>1. \A s \in Slots : x * EntriesPerBlock + s \in 0 .. Limit(ino.size) - 1
      BY <1>4, <1>15, <2>1, CellsWritten
    <3> HIDE DEF ino
    <3> QED
      BY <1>10, <3>1
  <2>7. cells \in Block /\ \A s \in Slots : CellOK(cells[s])
    BY <2>6 DEF Block
  <2>8. ASSUME b = DataRegionAddr PROVE RootCells(cells)
    <3>1. x = 0 /\ p = Root
      BY <2>5, <2>8
    <3>2. \A s \in {0, 1, 2} : x * EntriesPerBlock + s = s
      BY <3>1, UFSAssumption
    <3>3. \A s \in {0, 1, 2} : cells[s] = data1[s]
      BY <3>2, TheFile
    <3>4. \A s \in {0, 1, 2} : data1[s] = d.blocks[DataRegionAddr][s]
      BY <1>11, <3>1
    <3> HIDE DEF cells
    <3> QED
      BY <1>11, <3>1, <3>3, <3>4 DEF RootCells
  <2> HIDE DEF cells, b
  <2>9. BlockOK(b, cells)
    BY <2>7, <2>8 DEF BlockOK
  <2>10. Update(b, cells) \in GoodWrites
    BY <2>4, <2>5, <2>7, <2>9 DEF Update, GoodWrites
  <2> QED
    BY <2>10 DEF b, cells
<1>16. writes \in Seq(GoodWrites)
  <2> HIDE DEF m, data1, ino
  <2> QED
    BY <1>15, WriteBackWrites
<1> HIDE DEF writes, m
<1>17. CASE plan = Plan(Aborts, writes, FALSE, Meta(d))
  BY <1>16, <1>17 DEF Plan
<1>18. CASE plan = Plan(0, writes, TRUE, m)
  BY <1>13, <1>16, <1>18 DEF Plan
<1> QED
  BY <1>3, <1>17, <1>18

----------------------------------------------------------------------------
(***************************************************************************)
(* The steps of the process that runs.                                     *)
(***************************************************************************)
LEMMA DiskMeta ==
  ASSUME DiskOK
  PROVE  /\ disk.inodeBitmap \in SUBSET Inodes /\ disk.dataBitmap \in SUBSET DataBlocks
         /\ disk.inodes \in [Inodes -> Inode]
         /\ {Root, File} \subseteq disk.inodeBitmap
         /\ {DataRegionAddr, FileBlock} \subseteq disk.dataBitmap
         /\ PtrsOK(disk.inodes) /\ TableOK(disk.inodes) /\ BlocksOK(disk.blocks)
  BY DEF DiskOK, MetaOK, Meta, Metadata

LEMMA SameDiskKeeps == DiskOK /\ disk' = disk => DiskOK'
  BY DEF DiskOK

LEMMA ReturnKeepsCall == Return(disk') => CurrentOK'
  BY DEF Return, CurrentOK, CallOK

\* What a call has before it has read anything.
LEMMA BlankOK ==
  /\ Blank \in Metadata /\ PtrsOK(Blank.inodes)
  /\ Blank.inodes \in [Inodes -> Inode]
<1>1. ZeroInode \in Inode
  BY Layout DEF ZeroInode, Inode
<1>2. Blank \in Metadata /\ Blank.inodes \in [Inodes -> Inode]
  BY <1>1 DEF Blank, Metadata
<1>3. \A i \in Inodes, a \in Ptrs : Blank.inodes[i].direct[a] = NoBlock
  BY DEF Blank, ZeroInode
<1>4. NoBlock \notin {DataRegionAddr, FileBlock}
  BY TheFile, Layout
<1> QED
  BY <1>2, <1>3, <1>4 DEF PtrsOK

LEMMA BeginCallSpares == DiskOK /\ CurrentOK /\ BeginCall => DiskOK' /\ CurrentOK'
<1>1. SUFFICES ASSUME DiskOK, CurrentOK, BeginCall PROVE DiskOK' /\ CurrentOK'
  OBVIOUS
<1>2. ASSUME NEW p \in Inodes, NEW n \in Others, NEW type \in {Directory, RegularFile},
             BeginCreate(p, type, n)
      PROVE  disk' = disk /\ CurrentOK'
  <2>1. /\ pc = "idle" /\ pc' = "readInodeBitmap" /\ mem' = Blank /\ disk' = disk /\ k' = k
        /\ job' = [op |-> "create", inum |-> p, type |-> type, name |-> n, ret |-> 0]
    BY <1>2 DEF BeginCreate, Begin
  <2>2. k' = 0 /\ 0 \in Nat
    BY <1>1, <2>1 DEF CurrentOK, CallOK
  <2>3. /\ job'.op = "create" /\ job'.inum \in Inodes /\ job'.name \in Others
        /\ job'.type \in {Directory, RegularFile}
    BY <2>1
  <2>4. JobOK(pc', job')
    BY <2>1, <2>3 DEF JobOK
  <2>5. MemOK(pc', job', mem', k')
    BY <2>1, <2>3, BlankOK DEF MemOK, InodeBitmapRead, DataBitmapRead, RegionRead
  <2>6. WritesOK(pc', job', pending', mem') /\ SeenOK(pc', job', seen')
    BY <2>1 DEF WritesOK, SeenOK
  <2> QED
    BY <2>1, <2>2, <2>4, <2>5, <2>6 DEF CurrentOK, CallOK
<1>3. ASSUME NEW p \in Inodes, NEW n \in Others, BeginUnlink(p, n)
      PROVE  disk' = disk /\ CurrentOK'
  <2>1. /\ pc = "idle" /\ pc' = "readInodeBitmap" /\ mem' = Blank /\ disk' = disk /\ k' = k
        /\ job' = [op |-> "unlink", inum |-> p, name |-> n, ret |-> 0]
    BY <1>3 DEF BeginUnlink, Begin
  <2>2. k' = 0 /\ 0 \in Nat
    BY <1>1, <2>1 DEF CurrentOK, CallOK
  <2>3. job'.op = "unlink" /\ job'.inum \in Inodes /\ job'.name \in Others
    BY <2>1
  <2>4. JobOK(pc', job')
    BY <2>1, <2>3 DEF JobOK
  <2>5. MemOK(pc', job', mem', k')
    BY <2>1, <2>3, BlankOK DEF MemOK, InodeBitmapRead, DataBitmapRead, RegionRead
  <2>6. WritesOK(pc', job', pending', mem') /\ SeenOK(pc', job', seen')
    BY <2>1 DEF WritesOK, SeenOK
  <2> QED
    BY <2>1, <2>2, <2>4, <2>5, <2>6 DEF CurrentOK, CallOK
<1>4. ASSUME NEW i \in Inodes \ {File}, NEW text \in FileCells, NEW size \in Sizes,
             BeginWrite(i, text, size)
      PROVE  disk' = disk /\ CurrentOK'
  <2>1. /\ pc = "idle" /\ pc' = "readDataBitmap" /\ disk' = disk /\ k' = k
        /\ mem' = [Blank EXCEPT !.inodes[i] = disk.inodes[i]]
        /\ job' = [op |-> "write", inum |-> i, text |-> text, ret |-> size]
        /\ WriteError(disk, i, size) = 0
    BY <1>4 DEF BeginWrite, Begin
  <2>2. k' = 0 /\ 0 \in Nat
    BY <1>1, <2>1 DEF CurrentOK, CallOK
  <2>3. disk.inodes[i].type = RegularFile /\ ~(BlocksFor(size) > DirectPtrs) /\ size \in Int
    BY <2>1, LFSAssumption DEF WriteError, EINVALIDSIZE, EINVALIDINODE, EINVALIDTYPE
  <2>4. i # Root /\ BlocksFor(size) <= DirectPtrs
    <3>1. i # Root
      BY <1>1, <2>3, DiskMeta, FileInode DEF TableOK, OnPath, RootOK
    <3>2. BlocksFor(size) \in Int /\ DirectPtrs \in Int
      BY <2>3, BlocksForInt, UFSAssumption
    <3> QED
      BY <2>3, <3>1, <3>2
  <2>5. /\ job'.op = "write" /\ job'.inum \in Inodes \ {Root, File} /\ job'.text \in FileCells
        /\ job'.ret \in Int /\ BlocksFor(job'.ret) <= DirectPtrs
    <3>1. job'.op = "write" /\ job'.inum = i /\ job'.text = text /\ job'.ret = size
      BY <2>1
    <3> QED
      BY <2>3, <2>4, <3>1
  <2>6. JobOK(pc', job')
    BY <2>1, <2>5 DEF JobOK
  <2>7. mem' \in Metadata /\ PtrsOK(mem'.inodes)
    <3>1. disk.inodes \in [Inodes -> Inode] /\ PtrsOK(disk.inodes)
      BY <1>1, DiskMeta
    <3>2. mem'.inodes = [Blank.inodes EXCEPT ![i] = disk.inodes[i]]
      BY <2>1, BlankOK DEF Blank
    <3>3. mem' \in Metadata
      BY <2>1, <3>1, BlankOK DEF Metadata
    <3>4. PtrsOK(mem'.inodes)
      BY <3>1, <3>2, BlankOK DEF PtrsOK
    <3> QED
      BY <3>3, <3>4
  <2>8. MemOK(pc', job', mem', k')
    BY <2>1, <2>5, <2>7 DEF MemOK, InodeBitmapRead, DataBitmapRead, RegionRead
  <2>9. WritesOK(pc', job', pending', mem') /\ SeenOK(pc', job', seen')
    BY <2>1, <2>5 DEF WritesOK, SeenOK
  <2> QED
    BY <2>1, <2>2, <2>6, <2>8, <2>9 DEF CurrentOK, CallOK
<1>5. disk' = disk /\ CurrentOK'
  BY <1>1, <1>2, <1>3, <1>4 DEF BeginCall
<1> QED
  BY <1>1, <1>5, SameDiskKeeps

(***************************************************************************)
(* The reads.                                                              *)
(***************************************************************************)
LEMMA ReadInodeBitmapSpares ==
  DiskOK /\ CurrentOK /\ ReadInodeBitmap => disk' = disk /\ CurrentOK'
<1>1. SUFFICES ASSUME DiskOK, CurrentOK, ReadInodeBitmap PROVE disk' = disk /\ CurrentOK'
  OBVIOUS
<1>2. /\ pc = "readInodeBitmap" /\ disk' = disk /\ job' = job /\ pending' = pending /\ k' = k
      /\ seen' = seen /\ mem' = [mem EXCEPT !.inodeBitmap = disk.inodeBitmap]
      /\ pc' = IF job.op = "create" THEN "readDataBitmap" ELSE "readRegion"
  BY <1>1 DEF ReadInodeBitmap, GoOn
<1>3. JobOK(pc, job) /\ MemOK(pc, job, mem, k) /\ k = 0
  BY <1>1, <1>2 DEF CurrentOK, CallOK
<1>4. JobOK(pc', job')
  BY <1>2, <1>3 DEF JobOK
<1>5. /\ mem' \in Metadata /\ mem'.inodeBitmap = disk.inodeBitmap /\ mem'.inodes = mem.inodes
      /\ {Root, File} \subseteq disk.inodeBitmap
  BY <1>1, <1>2, <1>3, DiskMeta DEF MemOK, Metadata
<1>6. \A x \in Inodes : ~(x \div InodesPerBlock < 0)
  BY Layout
<1>7. MemOK(pc', job', mem', k')
  BY <1>2, <1>3, <1>5, <1>6 DEF MemOK, JobOK, DataBitmapRead, RegionRead
<1>8. WritesOK(pc', job', pending', mem') /\ SeenOK(pc', job', seen')
  BY <1>2, <1>3 DEF WritesOK, SeenOK, JobOK
<1> QED
  BY <1>2, <1>3, <1>4, <1>7, <1>8 DEF CurrentOK, CallOK

LEMMA ReadDataBitmapSpares ==
  DiskOK /\ CurrentOK /\ ReadDataBitmap => disk' = disk /\ CurrentOK'
<1>1. SUFFICES ASSUME DiskOK, CurrentOK, ReadDataBitmap PROVE disk' = disk /\ CurrentOK'
  OBVIOUS
<1>2. /\ pc = "readDataBitmap" /\ disk' = disk /\ job' = job /\ pending' = pending /\ k' = k
      /\ seen' = seen /\ mem' = [mem EXCEPT !.dataBitmap = disk.dataBitmap]
      /\ pc' = AfterDataBitmap
  BY <1>1 DEF ReadDataBitmap, GoOn
<1>3. /\ JobOK(pc, job) /\ MemOK(pc, job, mem, k) /\ SeenOK(pc, job, seen) /\ k = 0
  BY <1>1, <1>2 DEF CurrentOK, CallOK
<1>4. \/ job.op = "create" /\ pc' = "readRegion"
      \/ job.op = "write" /\ pc' = "write"
      \/ job.op = "unlink" /\ pc' = "decide"
  BY <1>2, <1>3 DEF AfterDataBitmap, JobOK
<1>5. JobOK(pc', job')
  BY <1>2, <1>3, <1>4 DEF JobOK
<1>6. /\ mem' \in Metadata /\ mem'.dataBitmap = disk.dataBitmap /\ mem'.inodes = mem.inodes
      /\ mem'.inodeBitmap = mem.inodeBitmap
      /\ {DataRegionAddr, FileBlock} \subseteq disk.dataBitmap
  BY <1>1, <1>2, <1>3, DiskMeta DEF MemOK, Metadata
<1>7. \A x \in Inodes : ~(x \div InodesPerBlock < 0)
  BY Layout
<1>8. MemOK(pc', job', mem', k')
  BY <1>2, <1>3, <1>4, <1>6, <1>7 DEF MemOK, InodeBitmapRead, RegionRead
<1>9. WritesOK(pc', job', pending', mem') /\ SeenOK(pc', job', seen')
  BY <1>2, <1>3, <1>4 DEF WritesOK, SeenOK
<1> QED
  BY <1>2, <1>3, <1>5, <1>8, <1>9 DEF CurrentOK, CallOK

LEMMA ReadRegionSpares ==
  DiskOK /\ CurrentOK /\ ReadRegion => disk' = disk /\ CurrentOK'
<1>1. SUFFICES ASSUME DiskOK, CurrentOK, ReadRegion PROVE disk' = disk /\ CurrentOK'
  OBVIOUS
<1> DEFINE next == IF job.op = "create" THEN "decide" ELSE "readDirectory"
<1>2. /\ pc = "readRegion" /\ disk' = disk /\ job' = job /\ pending' = pending /\ seen' = seen
      /\ mem' = [mem EXCEPT !.inodes = [i \in Inodes |->
               IF i \div InodesPerBlock = k THEN disk.inodes[i] ELSE @[i]]]
      /\ \/ k + 1 < InodeRegionLen /\ k' = k + 1 /\ pc' = "readRegion"
         \/ ~(k + 1 < InodeRegionLen) /\ k' = 0 /\ pc' = next
  BY <1>1 DEF ReadRegion, GoOn
<1>3. /\ JobOK(pc, job) /\ MemOK(pc, job, mem, k) /\ k \in Nat
      /\ job.op \in {"create", "unlink"}
  BY <1>1, <1>2 DEF CurrentOK, CallOK, JobOK
<1>4. JobOK(pc', job')
  BY <1>2, <1>3 DEF JobOK
<1>5. mem.inodes \in [Inodes -> Inode] /\ disk.inodes \in [Inodes -> Inode]
      /\ PtrsOK(mem.inodes) /\ PtrsOK(disk.inodes) /\ TableOK(disk.inodes)
  BY <1>1, <1>3, DiskMeta DEF MemOK, Metadata
<1>6. /\ mem'.inodes = [i \in Inodes |->
                          IF i \div InodesPerBlock = k THEN disk.inodes[i] ELSE mem.inodes[i]]
      /\ mem'.inodeBitmap = mem.inodeBitmap /\ mem'.dataBitmap = mem.dataBitmap
      /\ mem' = [mem EXCEPT !.inodes = mem'.inodes]
  BY <1>2, <1>3 DEF MemOK, Metadata
<1>7. mem' \in Metadata /\ PtrsOK(mem'.inodes)
  <2>1. mem'.inodes \in [Inodes -> Inode]
    BY <1>5, <1>6
  <2>2. mem' \in Metadata
    BY <1>3, <1>6, <2>1 DEF MemOK, Metadata
  <2>3. PtrsOK(mem'.inodes)
    BY <1>5, <1>6 DEF PtrsOK
  <2> QED
    BY <2>2, <2>3
<1>8. \A x \in Inodes : x \div InodesPerBlock < k + 1 => OnPath(x, mem'.inodes[x])
  <2>1. SUFFICES ASSUME NEW x \in Inodes, x \div InodesPerBlock < k + 1
                 PROVE  OnPath(x, mem'.inodes[x])
    OBVIOUS
  <2>2. CASE x \div InodesPerBlock = k
    BY <1>5, <1>6, <2>2 DEF TableOK
  <2>3. CASE x \div InodesPerBlock # k
    <3>1. x \div InodesPerBlock < k
      BY <1>3, <2>1, <2>3, Layout
    <3>2. OnPath(x, mem.inodes[x])
      BY <1>2, <1>3, <3>1 DEF MemOK
    <3> QED
      BY <1>6, <2>3, <3>2
  <2> QED
    BY <2>2, <2>3
<1>9. MemOK(pc', job', mem', k') /\ k' \in Nat
  <2>1. CASE k' = k + 1 /\ pc' = "readRegion"
    BY <1>2, <1>3, <1>6, <1>7, <1>8, <2>1
       DEF MemOK, InodeBitmapRead, DataBitmapRead, RegionRead
  <2>2. CASE ~(k + 1 < InodeRegionLen) /\ k' = 0 /\ pc' = next
    <3>1. \A x \in Inodes : x \div InodesPerBlock < k + 1
      BY <1>3, <2>2, Layout
    <3>2. TableOK(mem'.inodes)
      BY <1>8, <3>1 DEF TableOK
    <3> QED
      BY <1>2, <1>3, <1>6, <1>7, <2>2, <3>2
         DEF MemOK, InodeBitmapRead, DataBitmapRead, RegionRead
  <2> QED
    BY <1>2, <2>1, <2>2
<1>10. WritesOK(pc', job', pending', mem') /\ SeenOK(pc', job', seen')
  BY <1>2, <1>3 DEF WritesOK, SeenOK
<1>11. pc' \notin {"readRegion", "write", "region"} => k' = 0
  BY <1>2
<1> QED
  BY <1>2, <1>4, <1>9, <1>10, <1>11 DEF CurrentOK, CallOK

LEMMA ReadDirectorySpares ==
  DiskOK /\ CurrentOK /\ ReadDirectory => disk' = disk /\ CurrentOK'
<1>1. SUFFICES ASSUME DiskOK, CurrentOK, ReadDirectory PROVE disk' = disk /\ CurrentOK'
  OBVIOUS
<1>2. /\ pc = "readDirectory" /\ pc' = "readDataBitmap" /\ seen' = disk.blocks /\ disk' = disk
      /\ job' = job /\ pending' = pending /\ mem' = mem /\ k' = k
  BY <1>1 DEF ReadDirectory, GoOn
<1>3. /\ JobOK(pc, job) /\ MemOK(pc, job, mem, k) /\ k = 0 /\ job.op = "unlink"
  BY <1>1, <1>2 DEF CurrentOK, CallOK, JobOK, Shared
<1>4. JobOK(pc', job')
  BY <1>2, <1>3 DEF JobOK
<1>5. MemOK(pc', job', mem', k')
  BY <1>2, <1>3 DEF MemOK, InodeBitmapRead, DataBitmapRead, RegionRead
<1>6. WritesOK(pc', job', pending', mem') /\ SeenOK(pc', job', seen')
  BY <1>1, <1>2, DiskMeta DEF WritesOK, SeenOK
<1> QED
  BY <1>2, <1>3, <1>4, <1>5, <1>6 DEF CurrentOK, CallOK

(***************************************************************************)
(* What a write of one block and a write of the table leave.               *)
(***************************************************************************)
LEMMA BlockWritten ==
  ASSUME DiskOK, NEW w \in GoodWrites, disk' = [disk EXCEPT !.blocks[w.addr] = w.cells]
  PROVE  DiskOK'
<1>1. /\ w.addr \in DataBlocks /\ w.addr # FileBlock /\ BlockOK(w.addr, w.cells)
      /\ w.cells \in Block
  BY DEF GoodWrites
<1>2. /\ Meta(disk') = Meta(disk)
      /\ DOMAIN disk' = {"inodeBitmap", "dataBitmap", "inodes", "blocks"}
      /\ disk'.blocks = [disk.blocks EXCEPT ![w.addr] = w.cells]
  BY DEF DiskOK, Meta
<1>3. BlocksOK(disk'.blocks)
  BY <1>1, <1>2, DiskMeta DEF BlocksOK
<1>4. disk'.blocks[FileBlock] = disk.blocks[FileBlock]
  BY <1>1, <1>2, TheFile, DiskMeta DEF BlocksOK
<1> QED
  BY <1>2, <1>3, <1>4 DEF DiskOK

(***************************************************************************)
(* The decisions.                                                          *)
(***************************************************************************)
LEMMA GiveUpSpares == GiveUp => disk' = disk /\ CurrentOK'
<1>1. SUFFICES ASSUME GiveUp PROVE disk' = disk /\ CurrentOK'
  OBVIOUS
<1>2. disk' = disk /\ Return(disk')
  BY <1>1 DEF GiveUp
<1> QED
  BY <1>2, ReturnKeepsCall

\* A call that has decided goes on to what it has to write.
LEMMA ProceedSpares ==
  ASSUME CurrentOK, pc \in {"decide", "link"}, JobOK(pc, job),
         NEW plan, plan.writes \in Seq(GoodWrites), MetaOK(plan.mem),
         NEW j, JobOK("blocks", j), Proceed(j, plan)
  PROVE  disk' = disk /\ CurrentOK'
<1>1. /\ job' = j /\ pending' = plan.writes /\ mem' = plan.mem /\ disk' = disk /\ k' = k
      /\ pc' = IF plan.writes = <<>> THEN "inodeBitmap" ELSE "blocks"
  BY DEF Proceed
<1>2. k = 0
  BY DEF CurrentOK, CallOK
<1>3. JobOK(pc', job')
  BY <1>1 DEF JobOK, Shared
<1>4. /\ mem' \in Metadata /\ PtrsOK(mem'.inodes) /\ TableOK(mem'.inodes)
      /\ {Root, File} \subseteq mem'.inodeBitmap /\ {DataRegionAddr, FileBlock} \subseteq mem'.dataBitmap
  BY <1>1 DEF MetaOK
<1>5. MemOK(pc', job', mem', k')
  BY <1>1, <1>4 DEF MemOK
<1>6. WritesOK(pc', job', pending', mem') /\ SeenOK(pc', job', seen')
  BY <1>1 DEF WritesOK, SeenOK
<1> QED
  BY <1>1, <1>2, <1>3, <1>5, <1>6 DEF CurrentOK, CallOK

\* What a call that has read everything knows.
LEMMA Knows ==
  ASSUME CurrentOK, pc \in {"decide", "home", "link"}
  PROVE  JobOK(pc, job) /\ MetaOK(mem) /\ k = 0
<1>1. /\ JobOK(pc, job) /\ MemOK(pc, job, mem, k) /\ k = 0
  BY DEF CurrentOK, CallOK
<1>2. job.op \in {"create", "unlink"}
  BY <1>1 DEF JobOK
<1> QED
  BY <1>1, <1>2 DEF MemOK, MetaOK, InodeBitmapRead, DataBitmapRead, RegionRead

LEMMA DecideUnlinkSpares ==
  ASSUME NoForgedEntry, DiskOK, CurrentOK, DecideUnlink
  PROVE  disk' = disk /\ CurrentOK'
<1> DEFINE d == Believed(seen)
<1>1. pc = "decide" /\ job.op = "unlink"
  BY DEF DecideUnlink
<1>2. JobOK(pc, job) /\ MetaOK(mem) /\ k = 0
  BY <1>1, Knows
<1>3. BlocksOK(seen)
  BY <1>1 DEF CurrentOK, CallOK, SeenOK
<1>4. job.name \in Others /\ job.inum \in Inodes
  BY <1>1, <1>2 DEF JobOK
<1>5. MetaOK(Meta(d)) /\ BlocksOK(d.blocks)
  <2>1. Meta(d) = mem
    BY <1>2 DEF Believed, Meta, MetaOK, Metadata
  <2>2. d.blocks = seen
    BY DEF Believed
  <2> HIDE DEF d
  <2> QED
    BY <1>2, <1>3, <2>1, <2>2
<1> HIDE DEF d
<1>6. PICK heap \in [HeapRange(d, job.inum) -> HeapCells], lucky \in BOOLEAN :
        LET plan == UnlinkPlan(d, job.inum, job.name, heap, lucky)
        IN  IF IsRefused(plan) THEN GiveUp ELSE Proceed([job EXCEPT !.ret = plan.ret], plan)
  BY DEF DecideUnlink, UnlinkPlans, d
<1> DEFINE plan == UnlinkPlan(d, job.inum, job.name, heap, lucky)
           j    == [job EXCEPT !.ret = plan.ret]
<1>7. CASE IsRefused(plan)
  BY <1>6, <1>7, GiveUpSpares
<1>8. CASE ~IsRefused(plan)
  <2>1. plan.writes \in Seq(GoodWrites) /\ MetaOK(plan.mem)
    BY <1>4, <1>5, <1>8, UnlinkPlanKeeps
  <2>2. j.op = job.op /\ j.inum = job.inum /\ j.name = job.name
    OBVIOUS
  <2> HIDE DEF j
  <2>3. JobOK("blocks", j)
    BY <1>1, <1>4, <2>2 DEF JobOK, Shared
  <2>4. Proceed(j, plan)
    BY <1>6, <1>8 DEF j
  <2> HIDE DEF plan
  <2> QED
    BY <1>1, <1>2, <2>1, <2>3, <2>4, ProceedSpares
<1> QED
  BY <1>7, <1>8

LEMMA DecideCreateSpares ==
  ASSUME DiskOK, CurrentOK, DecideCreate
  PROVE  disk' = disk /\ CurrentOK'
<1> DEFINE d    == Believed(disk.blocks)
           i    == Least(Inodes \ mem.inodeBitmap)
           home == Least(DataBlocks \ mem.dataBitmap)
           m    == WithInode(mem, job.type)
<1>1. pc = "decide" /\ job.op = "create"
  BY DEF DecideCreate
<1>2. JobOK(pc, job) /\ MetaOK(mem) /\ k = 0
  BY <1>1, Knows
<1>3. job.name \in Others /\ job.inum \in Inodes /\ job.type \in {Directory, RegularFile}
  BY <1>1, <1>2 DEF JobOK
<1>4. CASE GiveUp
  BY <1>4, GiveUpSpares
<1>5. ASSUME CreateChecks(d, job.inum, job.type, job.name) = Passes,
             mem' = m, job' = [job EXCEPT !.ret = i], disk' = disk, k' = k,
             \/ /\ job.type = Directory
                /\ pc' = "home" /\ pending' = <<Update(home, DirBlock(i, job.inum))>>
             \/ /\ job.type # Directory
                /\ pc' = "link" /\ pending' = pending
      PROVE  disk' = disk /\ CurrentOK'
  <2>1. d.inodeBitmap = mem.inodeBitmap /\ d.dataBitmap = mem.dataBitmap /\ d.inodes = mem.inodes
    BY DEF Believed
  <2>2. mem.inodeBitmap \in SUBSET Inodes
    BY <1>2 DEF MetaOK, Metadata
  <2> HIDE DEF d
  <2>3. /\ mem.inodeBitmap # Inodes /\ job.inum \in mem.inodeBitmap
        /\ job.type = Directory => mem.dataBitmap # DataBlocks
    BY <1>5, <2>1, <2>2, ChecksPassed
  <2>4. mem.inodes[job.inum].type = Directory /\ ~Unreadable(mem.inodes[job.inum])
    BY <1>5, <2>1, <2>2, ChecksPassedName DEF IsDirectory
  <2>5. /\ MetaOK(m) /\ i \in Inodes \ {Root, File}
        /\ job.type = Directory => home \in DataBlocks \ {DataRegionAddr, FileBlock}
        /\ \A x \in mem.inodeBitmap : m.inodes[x] = mem.inodes[x]
    <3> DEFINE type == job.type
    <3>1. /\ m = WithInode(mem, type) /\ i = Least(Inodes \ mem.inodeBitmap)
          /\ home = Least(DataBlocks \ mem.dataBitmap)
      OBVIOUS
    <3>2. MetaOK(mem)
      BY <1>2
    <3>3. type \in {Directory, RegularFile}
      BY <1>3
    <3>4. mem.inodeBitmap # Inodes /\ (type = Directory => mem.dataBitmap # DataBlocks)
      BY <2>3
    <3> HIDE DEF m, i, home, type
    <3>5. /\ MetaOK(m)
          /\ i \in Inodes \ {Root, File} /\ i \notin mem.inodeBitmap
          /\ type = Directory => home \in DataBlocks \ {DataRegionAddr, FileBlock}
          /\ \A j \in mem.inodeBitmap : m.inodes[j] = mem.inodes[j]
      BY ONLY <3>1, <3>2, <3>3, <3>4, MadeInode, Zenon
    <3> QED
      BY <3>5 DEF type
  <2> HIDE DEF m, i, home
  <2>6. /\ job'.op = job.op /\ job'.inum = job.inum /\ job'.name = job.name
        /\ job'.type = job.type /\ job'.ret = i
    <3>1. DOMAIN job' = DOMAIN job
      BY <1>5
    <3> QED
      BY <1>5
  <2>7. JobOK(pc', job')
    BY <1>1, <1>3, <1>5, <2>6 DEF JobOK
  <2>8. MemOK(pc', job', mem', k')
    BY <1>5, <2>5 DEF MemOK, MetaOK
  <2>9. WritesOK(pc', job', pending', mem')
    <3>1. mem'.inodes[job'.inum] = mem.inodes[job.inum]
      BY <1>5, <2>3, <2>5, <2>6
    <3>2. job.type = Directory => Update(home, DirBlock(i, job.inum)) \in GoodWrites
      <4>1. SUFFICES ASSUME job.type = Directory
                     PROVE  Update(home, DirBlock(i, job.inum)) \in GoodWrites
        OBVIOUS
      <4>2. home \in DataBlocks \ {DataRegionAddr, FileBlock}
        BY <2>5, <4>1
      <4>3. i \in Inodes /\ job.inum \in Inodes
        BY <1>3, <2>5
      <4>4. i \in Int /\ job.inum \in Int
        BY <4>3 DEF Inodes
      <4> QED
        BY <4>2, <4>4, NewDirectory
    <3>3. pc' = "home" => pending' \in Seq(GoodWrites) /\ pending' # <<>>
      <4> DEFINE w == Update(home, DirBlock(i, job.inum))
      <4>1. pc' = "home" => pending' = <<w>> /\ w \in GoodWrites
        BY <1>5, <3>2
      <4> HIDE DEF w
      <4>2. w \in GoodWrites => <<w>> \in Seq(GoodWrites)
        BY OneWrite
      <4>3. <<w>> # <<>>
        OBVIOUS
      <4> QED
        BY <4>1, <4>2, <4>3
    <3> QED
      BY <1>5, <2>4, <2>5, <2>6, <3>1, <3>3 DEF WritesOK
  <2>10. SeenOK(pc', job', seen')
    BY <1>1, <2>6 DEF SeenOK
  <2> QED
    BY <1>2, <1>5, <2>7, <2>8, <2>9, <2>10 DEF CurrentOK, CallOK
<1> QED
  BY <1>4, <1>5 DEF DecideCreate

LEMMA WriteHomeSpares ==
  ASSUME DiskOK, CurrentOK, WriteHome
  PROVE  DiskOK' /\ CurrentOK'
<1> DEFINE w == Head(pending)
<1>1. /\ pc = "home" /\ disk' = [disk EXCEPT !.blocks[w.addr] = w.cells]
      /\ pending' = <<>> /\ pc' = "link"
      /\ job' = job /\ mem' = mem /\ k' = k /\ seen' = seen
  BY DEF WriteHome
<1>2. JobOK(pc, job) /\ MetaOK(mem) /\ k = 0
  BY <1>1, Knows
<1>3. MemOK(pc, job, mem, k) /\ WritesOK(pc, job, pending, mem) /\ job.op = "create"
  BY <1>1 DEF CurrentOK, CallOK, JobOK, Shared
<1>4. w \in GoodWrites
  BY <1>1, <1>3 DEF WritesOK
<1>5. DiskOK'
  BY <1>1, <1>4, BlockWritten
<1>6. JobOK(pc', job')
  BY <1>1, <1>2, <1>3 DEF JobOK
<1>7. MemOK(pc', job', mem', k')
  BY <1>1, <1>2, <1>3 DEF MemOK, MetaOK
<1>8. WritesOK(pc', job', pending', mem') /\ SeenOK(pc', job', seen')
  BY <1>1, <1>3 DEF WritesOK, SeenOK
<1> QED
  BY <1>1, <1>2, <1>5, <1>6, <1>7, <1>8 DEF CurrentOK, CallOK

LEMMA LinkEntrySpares ==
  ASSUME DiskOK, CurrentOK, LinkEntry
  PROVE  disk' = disk /\ CurrentOK'
<1> DEFINE d    == Believed(disk.blocks)
           plan == Link(d, job.inum, job.name, job.ret, <<>>, mem)
<1>1. /\ pc = "link" /\ IF IsRefused(plan) THEN GiveUp ELSE Proceed(job, plan)
  BY DEF LinkEntry
<1>2. JobOK(pc, job) /\ MetaOK(mem) /\ k = 0
  BY <1>1, Knows
<1>3. /\ job.op = "create" /\ job.inum \in Inodes /\ job.name \in Others
      /\ job.type \in {Directory, RegularFile}
      /\ job.ret \in Inodes \ {Root, File}
      /\ mem.inodes[job.inum].type = Directory /\ ~Unreadable(mem.inodes[job.inum])
  BY <1>1, <1>2 DEF CurrentOK, CallOK, WritesOK, JobOK, Shared
<1>4. BlocksOK(d.blocks)
  BY DiskMeta DEF Believed
<1> HIDE DEF d
<1>5. CASE IsRefused(plan)
  BY <1>1, <1>5, GiveUpSpares
<1>6. CASE ~IsRefused(plan)
  <2>1. plan.writes \in Seq(GoodWrites) /\ MetaOK(plan.mem)
    BY <1>2, <1>3, <1>4, <1>6, LinkKeeps
  <2>2. JobOK("blocks", job)
    BY <1>3 DEF JobOK, Shared
  <2>3. Proceed(job, plan)
    BY <1>1, <1>6
  <2> HIDE DEF plan
  <2> QED
    BY <1>1, <1>2, <2>1, <2>2, <2>3, ProceedSpares
<1> QED
  BY <1>5, <1>6

(***************************************************************************)
(* The loop of write().                                                    *)
(***************************************************************************)
LEMMA WriteKnows ==
  ASSUME CurrentOK, pc = "write"
  PROVE  /\ job.op = "write" /\ job.inum \in Inodes \ {Root, File} /\ job.text \in FileCells
         /\ job.ret \in Int /\ BlocksFor(job.ret) \in Int /\ BlocksFor(job.ret) <= DirectPtrs
         /\ JobOK("dataBitmap", job) /\ k \in Nat
         /\ mem \in Metadata /\ PtrsOK(mem.inodes)
         /\ {DataRegionAddr, FileBlock} \subseteq mem.dataBitmap
<1>1. JobOK(pc, job) /\ MemOK(pc, job, mem, k) /\ k \in Nat
  BY DEF CurrentOK, CallOK
<1>2. /\ job.op = "write" /\ job.inum \in Inodes \ {Root, File} /\ job.text \in FileCells
      /\ job.ret \in Int /\ BlocksFor(job.ret) <= DirectPtrs
  BY <1>1 DEF JobOK, Shared
<1>3. BlocksFor(job.ret) \in Int
  BY <1>2, BlocksForInt
<1>4. JobOK("dataBitmap", job)
  BY <1>2 DEF JobOK
<1>5. mem \in Metadata /\ PtrsOK(mem.inodes) /\ {DataRegionAddr, FileBlock} \subseteq mem.dataBitmap
  BY <1>1 DEF MemOK, DataBitmapRead
<1> QED
  BY <1>1, <1>2, <1>3, <1>4, <1>5

\* A call of write whose bitmap still has the path.
LEMMA WriteGoesOn ==
  ASSUME NEW p \in {"write", "dataBitmap"}, NEW j, JobOK(p, j), j.op = "write",
         NEW m \in Metadata, PtrsOK(m.inodes),
         {DataRegionAddr, FileBlock} \subseteq m.dataBitmap,
         NEW i \in Nat, p = "dataBitmap" => i = 0, NEW w, NEW s
  PROVE  CallOK(p, j, w, m, i, s)
<1>1. MemOK(p, j, m, i)
  BY DEF MemOK, InodeBitmapRead, RegionRead
<1>2. WritesOK(p, j, w, m) /\ SeenOK(p, j, s)
  BY DEF WritesOK, SeenOK
<1> QED
  BY <1>1, <1>2 DEF CallOK

\* The body goes to a block that is not on the path.
LEMMA ChunkSpares ==
  ASSUME NoForgedEntry, DiskOK, CurrentOK, pc = "write",
         NEW b \in DataBlocks \ {DataRegionAddr, FileBlock}, PutChunk(b)
  PROVE  DiskOK'
<1> DEFINE cells == Chunk(job.text, job.ret, k)
           w     == Update(b, cells)
<1>1. job.text \in FileCells
  BY WriteKnows
<1>2. job.text \in Cell /\ ZeroCell \in Cell /\ CellOK(job.text) /\ CellOK(ZeroCell)
  <2>1. CellOK(ZeroCell)
    BY NamesAssumption DEF CellOK, Entry, ZeroCell, Others
  <2>2. CellOK(job.text)
    BY <1>1 DEF CellOK, NoForgedEntry
  <2> QED
    BY <1>1, <2>1, <2>2, Cells
<1>3. cells \in Block /\ \A s \in Slots : CellOK(cells[s])
  BY <1>2 DEF Chunk, Block
<1> HIDE DEF cells
<1>4. w.addr = b /\ w.cells = cells
  BY DEF Update
<1>5. BlockOK(b, cells)
  BY <1>3 DEF BlockOK
<1>6. w \in GoodWrites
  BY <1>3, <1>5 DEF GoodWrites, Update
<1>7. disk' = [disk EXCEPT !.blocks[w.addr] = w.cells]
  BY <1>4 DEF PutChunk, cells
<1> HIDE DEF w
<1> QED
  BY <1>6, <1>7, BlockWritten

LEMMA WriteReuseSpares ==
  ASSUME NoForgedEntry, DiskOK, CurrentOK, WriteReuse
  PROVE  DiskOK' /\ CurrentOK'
<1> DEFINE ino == mem.inodes[job.inum]
           b   == ino.direct[k]
<1>1. /\ pc = "write" /\ k < BlocksFor(job.ret) /\ b \in DataBlocks /\ PutChunk(b)
      /\ k' = k + 1 /\ pc' = pc /\ job' = job /\ pending' = pending /\ mem' = mem
  BY DEF WriteReuse, InLoop
<1>2. /\ job.op = "write" /\ job.inum \in Inodes \ {Root, File}
      /\ job.ret \in Int /\ BlocksFor(job.ret) \in Int /\ BlocksFor(job.ret) <= DirectPtrs
      /\ k \in Nat
  BY <1>1, WriteKnows
<1>3. /\ mem \in Metadata /\ PtrsOK(mem.inodes)
      /\ {DataRegionAddr, FileBlock} \subseteq mem.dataBitmap
  BY <1>1, WriteKnows
<1>4. k \in Ptrs
  BY <1>1, <1>2, UFSAssumption DEF Ptrs
<1>5. b \in DataBlocks \ {DataRegionAddr, FileBlock}
  BY <1>1, <1>2, <1>3, <1>4 DEF PtrsOK
<1> HIDE DEF b
<1>6. DiskOK'
  BY <1>1, <1>5, ChunkSpares
<1>7. JobOK(pc, job)
  BY <1>1 DEF CurrentOK, CallOK
<1>8. CallOK(pc, job, pending, mem, k + 1, seen')
  <2>1. k + 1 \in Nat
    BY <1>2
  <2> QED
    BY <1>1, <1>2, <1>3, <1>7, <2>1, WriteGoesOn
<1> QED
  BY <1>1, <1>6, <1>8 DEF CurrentOK

LEMMA WriteAllocateSpares ==
  ASSUME NoForgedEntry, DiskOK, CurrentOK, WriteAllocate
  PROVE  DiskOK' /\ CurrentOK'
<1> DEFINE b == Least(DataBlocks \ mem.dataBitmap)
<1>1. /\ pc = "write" /\ mem.dataBitmap # DataBlocks /\ PutChunk(b)
      /\ mem' = WithChunk(mem, job.inum, k, b)
      /\ k' = k + 1 /\ pc' = pc /\ job' = job /\ pending' = pending
  BY DEF WriteAllocate, InLoop, WithChunk
<1>2. job.op = "write" /\ job.inum \in Inodes /\ k \in Nat
  BY <1>1, WriteKnows
<1>3. /\ mem \in Metadata /\ PtrsOK(mem.inodes)
      /\ {DataRegionAddr, FileBlock} \subseteq mem.dataBitmap
  BY <1>1, WriteKnows
<1>4. b \in DataBlocks \ {DataRegionAddr, FileBlock}
  <2>1. mem.dataBitmap \in SUBSET DataBlocks
    BY <1>3 DEF Metadata
  <2>2. b \in DataBlocks /\ b \notin mem.dataBitmap
    BY <1>1, <2>1, FreeBlock
  <2> QED
    BY <1>3, <2>2
<1> HIDE DEF b
<1>5. DiskOK'
  BY <1>1, <1>4, ChunkSpares
<1>6. /\ mem' \in Metadata /\ mem'.dataBitmap = mem.dataBitmap \cup {b}
      /\ OneNew(mem.inodes, mem'.inodes, job.inum, k, b)
  BY <1>1, <1>2, <1>3, <1>4, ChunkPointer
<1>7. PtrsOK(mem'.inodes)
  BY <1>3, <1>4, <1>6, PointerTaken
<1>8. JobOK(pc, job)
  BY <1>1 DEF CurrentOK, CallOK
<1>9. CallOK(pc, job, pending, mem', k + 1, seen')
  <2>1. k + 1 \in Nat /\ {DataRegionAddr, FileBlock} \subseteq mem'.dataBitmap
    BY <1>2, <1>3, <1>6
  <2> QED
    BY <1>1, <1>2, <1>6, <1>7, <1>8, <2>1, WriteGoesOn
<1> QED
  BY <1>1, <1>5, <1>9 DEF CurrentOK

LEMMA WriteFailsSpares == WriteFails => disk' = disk /\ CurrentOK'
<1>1. SUFFICES ASSUME WriteFails PROVE disk' = disk /\ CurrentOK'
  OBVIOUS
<1>2. disk' = disk /\ Return(disk')
  BY <1>1 DEF WriteFails, Return
<1> QED
  BY <1>2, ReturnKeepsCall

LEMMA WriteTrimSpares ==
  ASSUME CurrentOK, WriteTrim
  PROVE  disk' = disk /\ CurrentOK'
<1> DEFINE ino  == mem.inodes[job.inum]
           drop == {a \in Held(ino, BlocksFor(ino.size)) : a >= BlocksFor(job.ret)}
<1>1. pc = "write" /\ disk' = disk
  BY DEF WriteTrim
<1>2. CASE Return(disk)
  <2>1. Return(disk')
    BY <1>1, <1>2 DEF Return
  <2> QED
    BY <1>1, <2>1, ReturnKeepsCall
<1>3. CASE /\ pc' = "dataBitmap" /\ k' = 0 /\ job' = job /\ pending' = pending
           /\ mem' = Trimmed(mem, job.inum, job.ret, drop)
  <2>1. /\ job.op = "write" /\ job.inum \in Inodes \ {Root, File} /\ job.ret \in Int
        /\ JobOK("dataBitmap", job)
    BY <1>1, WriteKnows
  <2>2. /\ mem \in Metadata /\ PtrsOK(mem.inodes)
        /\ {DataRegionAddr, FileBlock} \subseteq mem.dataBitmap
    BY <1>1, WriteKnows
  <2>3. drop \in SUBSET Ptrs
    BY DEF Held
  <2> HIDE DEF drop
  <2>4. /\ mem' \in Metadata
        /\ mem'.dataBitmap = mem.dataBitmap \ {mem.inodes[job.inum].direct[a] : a \in drop}
        /\ \A j \in Inodes, c \in Ptrs : mem'.inodes[j].direct[c] =
             IF j = job.inum /\ c \in drop THEN NoBlock ELSE mem.inodes[j].direct[c]
    <3>1. mem' = Trimmed(mem, job.inum, job.ret, drop)
      BY <1>3
    <3>2. mem \in Metadata /\ job.inum \in Inodes /\ job.ret \in Int
      BY <2>1, <2>2
    <3> QED
      BY <2>3, <3>1, <3>2, TrimmedInodes
  <2>5. PtrsOK(mem'.inodes)
    <3>1. NoBlock \notin {DataRegionAddr, FileBlock}
      BY TheFile, Layout
    <3> QED
      BY <2>2, <2>4, <3>1 DEF PtrsOK
  <2>6. {DataRegionAddr, FileBlock} \subseteq mem'.dataBitmap
    <3>1. \A a \in drop : mem.inodes[job.inum].direct[a] \notin {DataRegionAddr, FileBlock}
      BY <2>1, <2>2, <2>3 DEF PtrsOK
    <3> QED
      BY <2>2, <2>4, <3>1
  <2>7. CallOK("dataBitmap", job, pending, mem', 0, seen')
    <3>1. mem' \in Metadata
      BY <2>4
    <3> QED
      BY <2>1, <2>5, <2>6, <3>1, WriteGoesOn
  <2> QED
    BY <1>1, <1>3, <2>7 DEF CurrentOK
<1> QED
  BY <1>2, <1>3 DEF WriteTrim, Trimmed

(***************************************************************************)
(* The block writes of a call that has decided, and death.                 *)
(***************************************************************************)
LEMMA FlushBlockSpares ==
  ASSUME DiskOK, CurrentOK, FlushBlock
  PROVE  DiskOK' /\ CurrentOK'
<1> DEFINE w == Head(pending)
<1>1. pc = "blocks" /\ disk' = [disk EXCEPT !.blocks[w.addr] = w.cells]
  BY DEF FlushBlock
<1>2. /\ JobOK(pc, job) /\ MemOK(pc, job, mem, k) /\ WritesOK(pc, job, pending, mem)
      /\ k = 0 /\ job.op \in {"create", "unlink"}
  BY <1>1 DEF CurrentOK, CallOK, JobOK
<1>3. pending \in Seq(GoodWrites) /\ pending # <<>>
  BY <1>1, <1>2 DEF WritesOK
<1>4. w \in GoodWrites /\ Tail(pending) \in Seq(GoodWrites)
  BY <1>3
<1> HIDE DEF w
<1>5. DiskOK'
  BY <1>1, <1>4, BlockWritten
<1>6. CASE Return(disk')
  BY <1>5, <1>6, ReturnKeepsCall
<1>7. CASE /\ pending' = Tail(pending) /\ job' = job /\ mem' = mem /\ k' = k
           /\ pc' = IF Tail(pending) = <<>> THEN "inodeBitmap" ELSE "blocks"
  <2>1. JobOK(pc', job')
    BY <1>1, <1>2, <1>7 DEF JobOK, Shared
  <2>2. MemOK(pc', job', mem', k')
    BY <1>1, <1>2, <1>7 DEF MemOK, InodeBitmapRead, DataBitmapRead, RegionRead
  <2>3. WritesOK(pc', job', pending', mem') /\ SeenOK(pc', job', seen')
    BY <1>4, <1>7 DEF WritesOK, SeenOK
  <2>4. CurrentOK'
    BY <1>2, <1>7, <2>1, <2>2, <2>3 DEF CurrentOK, CallOK
  <2> QED
    BY <1>5, <2>4
<1> QED
  BY <1>6, <1>7 DEF FlushBlock

LEMMA FlushInodeBitmapSpares ==
  ASSUME DiskOK, CurrentOK, FlushInodeBitmap
  PROVE  DiskOK' /\ CurrentOK'
<1>1. /\ pc = "inodeBitmap" /\ pc' = "dataBitmap"
      /\ disk' = [disk EXCEPT !.inodeBitmap = mem.inodeBitmap]
      /\ job' = job /\ pending' = pending /\ mem' = mem /\ k' = k
  BY DEF FlushInodeBitmap
<1>2. /\ JobOK(pc, job) /\ MemOK(pc, job, mem, k) /\ k = 0
      /\ job.op \in {"create", "unlink"}
  BY <1>1 DEF CurrentOK, CallOK, JobOK
<1>3. mem.inodeBitmap \in SUBSET Inodes /\ {Root, File} \subseteq mem.inodeBitmap
  BY <1>1, <1>2 DEF MemOK, InodeBitmapRead, Metadata
<1>4. DiskOK'
  <2>1. /\ DOMAIN disk' = {"inodeBitmap", "dataBitmap", "inodes", "blocks"}
        /\ disk'.inodeBitmap = mem.inodeBitmap /\ disk'.dataBitmap = disk.dataBitmap
        /\ disk'.inodes = disk.inodes /\ disk'.blocks = disk.blocks
    BY <1>1 DEF DiskOK
  <2>2. MetaOK(Meta(disk'))
    BY <1>3, <2>1, DiskMeta DEF MetaOK, Metadata, Meta
  <2> QED
    BY <2>1, <2>2 DEF DiskOK
<1>5. JobOK(pc', job')
  BY <1>1, <1>2 DEF JobOK, Shared
<1>6. MemOK(pc', job', mem', k')
  BY <1>1, <1>2 DEF MemOK, InodeBitmapRead, DataBitmapRead, RegionRead
<1>7. WritesOK(pc', job', pending', mem') /\ SeenOK(pc', job', seen')
  BY <1>1 DEF WritesOK, SeenOK
<1> QED
  BY <1>1, <1>2, <1>4, <1>5, <1>6, <1>7 DEF CurrentOK, CallOK

\* Here write() reads the inode region a second time: what it will write is
\* the table of this moment with its own inode in it.
LEMMA FlushDataBitmapSpares ==
  ASSUME DiskOK, CurrentOK, FlushDataBitmap
  PROVE  DiskOK' /\ CurrentOK'
<1> DEFINE table == IF job.op = "write"
                    THEN [disk.inodes EXCEPT ![job.inum] = mem.inodes[job.inum]]
                    ELSE mem.inodes
<1>1. /\ pc = "dataBitmap" /\ pc' = "region"
      /\ disk' = [disk EXCEPT !.dataBitmap = mem.dataBitmap]
      /\ mem' = [mem EXCEPT !.inodes = table]
      /\ job' = job /\ pending' = pending /\ k' = k
  BY DEF FlushDataBitmap
<1>2. /\ JobOK(pc, job) /\ MemOK(pc, job, mem, k) /\ k = 0
  BY <1>1 DEF CurrentOK, CallOK
<1>3. /\ mem \in Metadata /\ mem.inodes \in [Inodes -> Inode] /\ PtrsOK(mem.inodes)
      /\ mem.dataBitmap \in SUBSET DataBlocks
      /\ {DataRegionAddr, FileBlock} \subseteq mem.dataBitmap
  BY <1>1, <1>2 DEF MemOK, DataBitmapRead, Metadata
<1>4. DiskOK'
  <2>1. /\ DOMAIN disk' = {"inodeBitmap", "dataBitmap", "inodes", "blocks"}
        /\ disk'.inodeBitmap = disk.inodeBitmap /\ disk'.dataBitmap = mem.dataBitmap
        /\ disk'.inodes = disk.inodes /\ disk'.blocks = disk.blocks
    BY <1>1 DEF DiskOK
  <2>2. MetaOK(Meta(disk'))
    BY <1>3, <2>1, DiskMeta DEF MetaOK, Metadata, Meta
  <2> QED
    BY <2>1, <2>2 DEF DiskOK
<1>5. table \in [Inodes -> Inode] /\ PtrsOK(table) /\ TableOK(table)
  <2>1. CASE job.op = "write"
    <3>1. job.inum \in Inodes \ {Root, File}
      BY <1>1, <1>2, <2>1 DEF JobOK
    <3>2. /\ disk.inodes \in [Inodes -> Inode]
          /\ PtrsOK(disk.inodes) /\ TableOK(disk.inodes)
      BY DiskMeta
    <3>3. /\ table = [disk.inodes EXCEPT ![job.inum] = mem.inodes[job.inum]]
          /\ mem.inodes[job.inum] \in Inode
      BY <1>3, <2>1, <3>1
    <3> HIDE DEF table
    <3>4. table \in [Inodes -> Inode]
      BY <3>2, <3>3
    <3>5. PtrsOK(table)
      BY <1>3, <3>1, <3>2, <3>3 DEF PtrsOK
    <3>6. TableOK(table)
      BY <3>1, <3>2, <3>3 DEF TableOK, OnPath
    <3> QED
      BY <3>4, <3>5, <3>6
  <2>2. CASE job.op # "write"
    <3>1. RegionRead(pc, job)
      BY <1>1, <1>2, <2>2 DEF RegionRead, JobOK
    <3>2. TableOK(mem.inodes)
      BY <1>2, <3>1 DEF MemOK
    <3> QED
      BY <1>3, <2>2, <3>2
  <2> QED
    BY <2>1, <2>2
<1> HIDE DEF table
<1>6. /\ mem' \in Metadata /\ mem'.inodes = table /\ mem'.dataBitmap = mem.dataBitmap
      /\ mem'.inodeBitmap = mem.inodeBitmap
  BY <1>1, <1>3, <1>5 DEF Metadata
<1>7. JobOK(pc', job')
  BY <1>1, <1>2 DEF JobOK, Shared
<1>8. MemOK(pc', job', mem', k')
  <2>1. InodeBitmapRead(pc', job') => {Root, File} \subseteq mem'.inodeBitmap
    BY <1>1, <1>2, <1>6 DEF MemOK, InodeBitmapRead
  <2>2. {DataRegionAddr, FileBlock} \subseteq mem'.dataBitmap
    BY <1>3, <1>6
  <2> QED
    BY <1>1, <1>5, <1>6, <2>1, <2>2 DEF MemOK
<1>9. WritesOK(pc', job', pending', mem') /\ SeenOK(pc', job', seen')
  BY <1>1 DEF WritesOK, SeenOK
<1> QED
  BY <1>1, <1>2, <1>4, <1>7, <1>8, <1>9 DEF CurrentOK, CallOK

\* Every block of the table keeps the inodes of the path.
LEMMA FlushRegionSpares ==
  ASSUME DiskOK, CurrentOK, FlushRegion
  PROVE  DiskOK' /\ CurrentOK'
<1> DEFINE table == [i \in Inodes |->
                      IF i \div InodesPerBlock = k THEN mem.inodes[i] ELSE disk.inodes[i]]
<1>1. pc = "region" /\ disk' = [disk EXCEPT !.inodes = table]
  BY DEF FlushRegion
<1>2. JobOK(pc, job) /\ MemOK(pc, job, mem, k) /\ k \in Nat
  BY <1>1 DEF CurrentOK, CallOK
<1>3. RegionRead(pc, job)
  BY <1>1, <1>2 DEF RegionRead, JobOK
<1>4. mem.inodes \in [Inodes -> Inode] /\ PtrsOK(mem.inodes) /\ TableOK(mem.inodes)
  BY <1>2, <1>3 DEF MemOK, Metadata
<1>5. table \in [Inodes -> Inode] /\ PtrsOK(table) /\ TableOK(table)
  <2>1. table \in [Inodes -> Inode]
    BY <1>4, DiskMeta
  <2>2. \A i \in Inodes : table[i] = mem.inodes[i] \/ table[i] = disk.inodes[i]
    OBVIOUS
  <2> HIDE DEF table
  <2>3. PtrsOK(table)
    BY <1>4, <2>2, DiskMeta DEF PtrsOK
  <2>4. TableOK(table)
    BY <1>4, <2>2, DiskMeta DEF TableOK
  <2> QED
    BY <2>1, <2>3, <2>4
<1> HIDE DEF table
<1>6. DiskOK'
  <2>1. /\ DOMAIN disk' = {"inodeBitmap", "dataBitmap", "inodes", "blocks"}
        /\ disk'.inodeBitmap = disk.inodeBitmap /\ disk'.dataBitmap = disk.dataBitmap
        /\ disk'.inodes = table /\ disk'.blocks = disk.blocks
    BY <1>1 DEF DiskOK
  <2>2. MetaOK(Meta(disk'))
    BY <1>5, <2>1, DiskMeta DEF MetaOK, Metadata, Meta
  <2> QED
    BY <2>1, <2>2 DEF DiskOK
<1>7. CASE Return(disk')
  BY <1>6, <1>7, ReturnKeepsCall
<1>8. CASE k' = k + 1 /\ pc' = pc /\ job' = job /\ pending' = pending /\ mem' = mem
  <2>1. k + 1 \in Nat
    BY <1>2
  <2>2. MemOK(pc', job', mem', k')
    BY <1>1, <1>2, <1>8 DEF MemOK
  <2>3. WritesOK(pc', job', pending', mem') /\ SeenOK(pc', job', seen')
    BY <1>1, <1>8 DEF WritesOK, SeenOK
  <2>4. CurrentOK'
    BY <1>1, <1>2, <1>8, <2>1, <2>2, <2>3 DEF CurrentOK, CallOK
  <2> QED
    BY <1>6, <2>4
<1> QED
  BY <1>7, <1>8 DEF FlushRegion

LEMMA DieSpares == Die => disk' = disk /\ CurrentOK'
<1>1. SUFFICES ASSUME Die PROVE disk' = disk /\ CurrentOK'
  OBVIOUS
<1>2. disk' = disk /\ Return(disk')
  BY <1>1 DEF Die, Crash, Return
<1> QED
  BY <1>2, ReturnKeepsCall

LEMMA ContinueSpares ==
  ASSUME NoForgedEntry, DiskOK, CurrentOK, Continue
  PROVE  DiskOK' /\ CurrentOK'
<1>1. CASE ReadInodeBitmap
  BY <1>1, ReadInodeBitmapSpares, SameDiskKeeps
<1>2. CASE ReadDataBitmap
  BY <1>2, ReadDataBitmapSpares, SameDiskKeeps
<1>3. CASE ReadRegion
  BY <1>3, ReadRegionSpares, SameDiskKeeps
<1>4. CASE ReadDirectory
  BY <1>4, ReadDirectorySpares, SameDiskKeeps
<1>5. CASE DecideUnlink
  BY <1>5, DecideUnlinkSpares, SameDiskKeeps
<1>6. CASE DecideCreate
  BY <1>6, DecideCreateSpares, SameDiskKeeps
<1>7. CASE WriteHome
  BY <1>7, WriteHomeSpares
<1>8. CASE LinkEntry
  BY <1>8, LinkEntrySpares, SameDiskKeeps
<1>9. CASE WriteSteps
  <2>1. CASE WriteReuse
    BY <2>1, WriteReuseSpares
  <2>2. CASE WriteAllocate
    BY <2>2, WriteAllocateSpares
  <2>3. CASE WriteFails
    BY <2>3, WriteFailsSpares, SameDiskKeeps
  <2>4. CASE WriteTrim
    BY <2>4, WriteTrimSpares, SameDiskKeeps
  <2> QED
    BY <1>9, <2>1, <2>2, <2>3, <2>4 DEF WriteSteps
<1>10. CASE Flush
  BY <1>10, FlushBlockSpares, FlushInodeBitmapSpares, FlushDataBitmapSpares,
     FlushRegionSpares DEF Flush
<1> QED
  BY <1>1, <1>2, <1>3, <1>4, <1>5, <1>6, <1>7, <1>8, <1>9, <1>10 DEF Continue

----------------------------------------------------------------------------
(***************************************************************************)
(* The two processes.                                                      *)
(***************************************************************************)
\* The suspended process waits; between two calls it remembers nothing.
LEMMA OtherWaits == OtherOK /\ Forgets => OtherOK'
<1>1. SUFFICES ASSUME OtherOK, Forgets PROVE OtherOK'
  OBVIOUS
<1>2. CASE other.pc = "idle"
  <2>1. other' = [other EXCEPT !.mem = Meta(disk')]
    BY <1>1, <1>2 DEF Forgets
  <2>2. /\ DOMAIN other' = {"pc", "job", "pending", "mem", "k", "seen", "begun"}
        /\ other'.pc = "idle" /\ other'.k = other.k
    BY <1>1, <1>2, <2>1 DEF OtherOK
  <2>3. other.k \in Nat /\ other.k = 0
    BY <1>1, <1>2 DEF OtherOK, CallOK
  <2> QED
    BY <2>2, <2>3 DEF OtherOK, CallOK
<1>3. CASE other.pc # "idle"
  <2>1. other' = other
    BY <1>1, <1>3 DEF Forgets
  <2> QED
    BY <1>1, <2>1 DEF OtherOK
<1> QED
  BY <1>2, <1>3

LEMMA SwitchSpares == PathKept /\ Switch => PathKept'
<1>1. SUFFICES ASSUME PathKept, Switch PROVE PathKept'
  OBVIOUS
<1>2. /\ disk' = disk /\ other' = Current
      /\ pc' = other.pc /\ job' = other.job /\ pending' = other.pending /\ mem' = other.mem
      /\ k' = other.k /\ seen' = other.seen
  BY <1>1 DEF Switch
<1>3. DiskOK /\ CurrentOK /\ OtherOK
  BY <1>1 DEF PathKept
<1>4. DiskOK'
  BY <1>2, <1>3, SameDiskKeeps
<1>5. CurrentOK'
  BY <1>2, <1>3 DEF CurrentOK, OtherOK
<1>6. OtherOK'
  <2>1. /\ DOMAIN other' = {"pc", "job", "pending", "mem", "k", "seen", "begun"}
        /\ other'.pc = pc /\ other'.job = job /\ other'.pending = pending /\ other'.mem = mem
        /\ other'.k = k /\ other'.seen = seen
    BY <1>2 DEF Current
  <2> QED
    BY <1>3, <2>1 DEF CurrentOK, OtherOK
<1> QED
  BY <1>4, <1>5, <1>6 DEF PathKept

LEMMA RunSpares ==
  ASSUME NoForgedEntry, PathKept, Run
  PROVE  PathKept'
<1>1. DiskOK /\ CurrentOK /\ OtherOK /\ Forgets
  BY DEF PathKept, Run
<1>2. OtherOK'
  BY <1>1, OtherWaits
<1>3. DiskOK' /\ CurrentOK'
  <2>1. CASE BeginCall
    BY <1>1, <2>1, BeginCallSpares
  <2>2. CASE Continue
    BY <1>1, <2>2, ContinueSpares
  <2>3. CASE Die
    BY <1>1, <2>3, DieSpares, SameDiskKeeps
  <2> QED
    BY <2>1, <2>2, <2>3 DEF Run
<1> QED
  BY <1>2, <1>3 DEF PathKept

\* The image both open.
LEMMA StartBlocks == NoForgedEntry => BlocksOK(StartImage.blocks)
<1>1. SUFFICES ASSUME NoForgedEntry PROVE BlocksOK(StartImage.blocks)
  OBVIOUS
<1> DEFINE root == [RootBlock([s \in Slots |-> ""]) EXCEPT ![2] = Entry(Bystander, File)]
           text == [s \in Slots |-> FileText]
<1>2. BlockOK(DataRegionAddr, root)
  <2> DEFINE blank == [s \in Slots |-> ""]
  <2>0. \A s \in Slots : blank[s] = ""
    OBVIOUS
  <2> HIDE DEF blank
  <2>1. /\ root[0] = Entry(".", Root) /\ root[1] = Entry("..", Root)
        /\ root[2] = Entry(Bystander, File)
        /\ \A s \in Slots \ {0, 1, 2} : root[s] = Entry("", -1)
        /\ root = [s \in Slots |-> root[s]]
    <3>1. /\ root = [RootBlock(blank) EXCEPT ![2] = Entry(Bystander, File)]
          /\ DOMAIN RootBlock(blank) = Slots
          /\ \A s \in Slots : RootBlock(blank)[s] =
               IF s = 0 THEN Entry(".", Root)
               ELSE IF s = 1 THEN Entry("..", Root) ELSE Entry(blank[s], -1)
      BY DEF RootBlock, blank
    <3> HIDE DEF root
    <3>2. /\ root = [s \in Slots |-> root[s]]
          /\ root[2] = Entry(Bystander, File)
          /\ \A s \in Slots \ {2} : root[s] = RootBlock(blank)[s]
      BY <3>1, TheFile
    <3>3. root[0] = Entry(".", Root) /\ root[1] = Entry("..", Root)
      BY <3>1, <3>2, TheFile
    <3>4. \A s \in Slots \ {0, 1, 2} : root[s] = Entry(blank[s], -1)
      BY <3>1, <3>2
    <3>5. \A s \in Slots \ {0, 1, 2} : root[s] = Entry("", -1)
      BY <2>0, <3>4
    <3> QED
      BY <3>2, <3>3, <3>5
  <2> HIDE DEF root
  <2>2. /\ Entry(".", Root) \in Cell /\ Entry("..", Root) \in Cell
        /\ Entry(Bystander, File) \in Cell /\ Entry("", -1) \in Cell
    <3>1. "." \in CellNames /\ ".." \in CellNames /\ Bystander \in CellNames /\ "" \in CellNames
      BY Cells, SharedAssumption DEF ValidNames
    <3>2. Root \in Int /\ File \in Int /\ -1 \in Int
      BY DEF Root, File
    <3> QED
      BY <3>1, <3>2, Cells
  <2>3. /\ CellOK(Entry(".", Root)) /\ CellOK(Entry("..", Root))
        /\ CellOK(Entry(Bystander, File)) /\ CellOK(Entry("", -1))
    <3>1. "." \notin Others /\ ".." \notin Others /\ Bystander \notin Others /\ "" \notin Others
      BY NamesAssumption DEF Others
    <3> QED
      BY <3>1 DEF CellOK, Entry
  <2>4. \A s \in Slots : root[s] \in Cell /\ CellOK(root[s])
    BY <2>1, <2>2, <2>3
  <2>5. root \in Block
    BY <2>1, <2>4 DEF Block
  <2> QED
    BY <2>1, <2>4, <2>5 DEF BlockOK, RootCells
<1>3. FileText \in Cell /\ CellOK(FileText)
  BY <1>1, TheFile, Cells DEF NoForgedEntry, CellOK
<1>4. BlockOK(FileBlock, text)
  <2>1. text \in Block /\ \A s \in Slots : CellOK(text[s])
    BY <1>3 DEF Block
  <2> HIDE DEF text
  <2> QED
    BY <2>1, TheFile DEF BlockOK
<1>5. ZeroBlock \in Block /\ \A s \in Slots : CellOK(ZeroBlock[s])
  <2>1. CellOK(ZeroCell)
    BY NamesAssumption DEF CellOK, Entry, ZeroCell, Others
  <2> QED
    BY <2>1, Cells DEF ZeroBlock, Block
<1>6. /\ StartImage.blocks[DataRegionAddr] = root
      /\ StartImage.blocks[FileBlock] = text
      /\ \A b \in DataBlocks \ {DataRegionAddr, FileBlock} : StartImage.blocks[b] = ZeroBlock
  BY TheFile DEF StartImage
<1>7. StartImage.blocks = [b \in DataBlocks |-> StartImage.blocks[b]]
  BY DEF StartImage
<1> HIDE DEF root, text
<1>8. \A b \in DataBlocks : BlockOK(b, StartImage.blocks[b])
  <2>1. SUFFICES ASSUME NEW b \in DataBlocks PROVE BlockOK(b, StartImage.blocks[b])
    OBVIOUS
  <2>2. CASE b = DataRegionAddr
    BY <1>2, <1>6, <2>2
  <2>3. CASE b = FileBlock
    BY <1>4, <1>6, <2>3, TheFile
  <2>4. CASE b \notin {DataRegionAddr, FileBlock}
    <3>1. StartImage.blocks[b] = ZeroBlock
      BY <1>6, <2>4
    <3> QED
      BY <1>5, <2>4, <3>1 DEF BlockOK
  <2> QED
    BY <2>2, <2>3, <2>4
<1>9. \A b \in DataBlocks : StartImage.blocks[b] \in Block
  BY <1>8 DEF BlockOK
<1> QED
  BY <1>7, <1>8, <1>9 DEF BlocksOK

LEMMA StartMeta == MetaOK(Meta(StartImage))
<1> DEFINE x    == StartImage.inodes
           root == [RootInode EXCEPT !.size = 3]
<1>1. /\ root.type = Directory /\ root.size = 3
      /\ root.direct = [i \in Ptrs |-> IF i = 0 THEN DataRegionAddr ELSE Unset]
      /\ root \in Inode
  <2>1. RootInode = [type |-> Directory, size |-> 2,
                     direct |-> [i \in Ptrs |-> IF i = 0 THEN DataRegionAddr ELSE Unset]]
    BY DEF RootInode
  <2>2. root = [type |-> Directory, size |-> 3,
                direct |-> [i \in Ptrs |-> IF i = 0 THEN DataRegionAddr ELSE Unset]]
    BY <2>1
  <2> HIDE DEF root
  <2>3. root \in Inode
    BY <2>2, TheFile, Layout DEF Inode
  <2> QED
    BY <2>2, <2>3
<1> HIDE DEF root
<1>2. \A i \in Inodes : /\ i = Root => x[i] = root
                        /\ i \notin {Root, File} => x[i] = ZeroInode
  BY DEF StartImage, root, File, Root
<1>3. /\ ZeroInode \in Inode /\ \A a \in Ptrs : ZeroInode.direct[a] = NoBlock
  BY Layout DEF ZeroInode, Inode
<1>4. x[File] \in Inode
  <2>1. x[File] = [type |-> RegularFile, size |-> EntriesPerBlock,
                   direct |-> [a \in Ptrs |-> IF a = 0 THEN FileBlock ELSE NoBlock]]
    BY TheFile DEF StartImage
  <2>2. EntriesPerBlock \in Int /\ FileBlock \in Int /\ NoBlock \in Int
    BY UFSAssumption, TheFile, Layout
  <2> HIDE DEF x
  <2> QED
    BY <2>1, <2>2 DEF Inode
<1>5. x = [i \in Inodes |-> x[i]]
  BY DEF StartImage
<1>6. \A a \in Ptrs : x[File].direct[a] = IF a = 0 THEN FileBlock ELSE NoBlock
  BY FileInode
<1> HIDE DEF x
<1>7. x \in [Inodes -> Inode]
  <2>1. \A i \in Inodes : x[i] \in Inode
    BY <1>1, <1>2, <1>3, <1>4
  <2> QED
    BY <1>5, <2>1
<1>8. PtrsOK(x)
  <2>1. {NoBlock, Unset} \cap {DataRegionAddr, FileBlock} = {}
    BY TheFile, Layout
  <2>2. SUFFICES ASSUME NEW i \in Inodes, NEW a \in Ptrs
                 PROVE  /\ x[i].direct[a] = FileBlock => i = File
                        /\ x[i].direct[a] = DataRegionAddr => i = Root /\ a = 0
    BY DEF PtrsOK
  <2>3. CASE i = Root
    BY <1>1, <1>2, <2>1, <2>3, TheFile
  <2>4. CASE i = File
    BY <1>6, <2>1, <2>4, TheFile
  <2>5. CASE i \notin {Root, File}
    BY <1>2, <1>3, <2>1, <2>5
  <2> QED
    BY <2>3, <2>4, <2>5
<1>9. TableOK(x)
  <2>1. RootOK(x[Root])
    BY <1>1, <1>2, TheFile DEF RootOK
  <2> QED
    BY <2>1, TheFile DEF TableOK, OnPath, x
<1>10. /\ Meta(StartImage).inodeBitmap = {Root, File} /\ Meta(StartImage).inodes = x
       /\ Meta(StartImage).dataBitmap = {DataRegionAddr, FileBlock}
       /\ Meta(StartImage) = [inodeBitmap |-> {Root, File},
                              dataBitmap |-> {DataRegionAddr, FileBlock}, inodes |-> x]
  BY DEF Meta, StartImage, x
<1>11. Meta(StartImage) \in Metadata
  BY <1>7, <1>10, TheFile DEF Metadata
<1> QED
  BY <1>8, <1>9, <1>10, <1>11 DEF MetaOK

LEMMA StartSpares ==
  ASSUME NoForgedEntry, SharedInit
  PROVE  PathKept
<1>1. /\ disk = StartImage /\ pc = "idle" /\ k = 0 /\ other = Current
  BY DEF SharedInit
<1>2. DiskOK
  <2>1. DOMAIN StartImage = {"inodeBitmap", "dataBitmap", "inodes", "blocks"}
    BY DEF StartImage
  <2>2. StartImage.blocks[FileBlock] = [s \in Slots |-> FileText]
    BY TheFile DEF StartImage
  <2> QED
    BY <1>1, <2>1, <2>2, StartBlocks, StartMeta DEF DiskOK
<1>3. CurrentOK
  BY <1>1 DEF CurrentOK, CallOK
<1>4. OtherOK
  <2>1. /\ DOMAIN other = {"pc", "job", "pending", "mem", "k", "seen", "begun"}
        /\ other.pc = "idle" /\ other.k = 0
    BY <1>1 DEF Current
  <2> QED
    BY <2>1 DEF OtherOK, CallOK
<1> QED
  BY <1>2, <1>3, <1>4 DEF PathKept

(***************************************************************************)
(* The invariant says what a reader of the image finds.                    *)
(***************************************************************************)
\* lookup() goes over the first two entries of the root, whose inum is 0.
LEMMA FoundUnderItsName == DiskOK => Lookup(disk, Root, Bystander) = File
<1>1. SUFFICES ASSUME DiskOK PROVE Lookup(disk, Root, Bystander) = File
  OBVIOUS
<1> DEFINE ino  == disk.inodes[Root]
           ks   == {a \in Held(ino, BlocksFor(ino.size)) : ino.direct[a] # Unset}
           hits == {pos \in PositionsIn(ks) :
                      /\ CellAt(disk, ino, pos).inum # 0
                      /\ CellAt(disk, ino, pos).name = Bystander}
<1>2. ino \in Inode /\ RootOK(ino) /\ RootCells(disk.blocks[DataRegionAddr])
  <2>1. ino \in Inode /\ RootOK(ino)
    BY <1>1, TheFile, DiskMeta DEF TableOK, OnPath
  <2>2. RootCells(disk.blocks[DataRegionAddr])
    BY <1>1, TheFile, DiskMeta DEF BlocksOK, BlockOK
  <2> QED
    BY <2>1, <2>2
<1> HIDE DEF ino
<1>3. ks \in SUBSET Ptrs /\ 0 \in ks
  <2>1. 0 < BlocksFor(ino.size)
    BY <1>2, RootHasBlock
  <2>2. ino.direct[0] # NoBlock /\ ino.direct[0] # Unset
    BY <1>2, TheFile, Layout DEF RootOK
  <2> QED
    BY <2>1, <2>2, TheFile DEF Held
<1> HIDE DEF ks
<1>4. \A s \in {0, 1, 2} : /\ CellAt(disk, ino, s) = disk.blocks[DataRegionAddr][s]
                           /\ s \in PositionsIn(ks)
  <2>1. SUFFICES ASSUME NEW s \in {0, 1, 2}
                 PROVE  /\ CellAt(disk, ino, s) = disk.blocks[DataRegionAddr][s]
                        /\ s \in PositionsIn(ks)
    OBVIOUS
  <2>2. s \in Slots /\ EntriesPerBlock \in Nat /\ EntriesPerBlock > 2
    BY TheFile, UFSAssumption, SharedAssumption
  <2>3. 0 * EntriesPerBlock + s = s
    BY <2>2
  <2>4. (0 * EntriesPerBlock + s) \div EntriesPerBlock = 0
        /\ (0 * EntriesPerBlock + s) % EntriesPerBlock = s
    BY <2>2, PositionOf
  <2>5. CellAt(disk, ino, s) = disk.blocks[DataRegionAddr][s]
    BY <1>2, <2>3, <2>4 DEF CellAt, RootOK
  <2>6. s \in PositionsIn(ks)
    BY <1>3, <2>2, <2>3 DEF PositionsIn
  <2> QED
    BY <2>5, <2>6
<1>5. 2 \in hits /\ 0 \notin hits /\ 1 \notin hits
  <2>1. /\ CellAt(disk, ino, 0).inum = 0 /\ CellAt(disk, ino, 1).inum = 0
        /\ CellAt(disk, ino, 2) = Entry(Bystander, File)
    BY <1>2, <1>4 DEF RootCells, Entry, Root
  <2>2. Entry(Bystander, File).inum # 0 /\ Entry(Bystander, File).name = Bystander
    BY DEF Entry, File
  <2> QED
    BY <1>4, <2>1, <2>2
<1>6. hits \in SUBSET Nat
  <2>1. \A pos \in PositionsIn(ks) : pos \in Nat
    BY <1>3, PositionInBlocks
  <2> QED
    BY <2>1
<1> DEFINE at == Least(hits)
<1>7. Lookup(disk, Root, Bystander) = CellAt(disk, ino, at).inum
  <2>1. hits # {}
    BY <1>5
  <2>2. ~StatFails(Root) /\ ino.type = Directory
    BY <1>2, TheFile DEF StatFails, RootOK
  <2> QED
    BY <2>1, <2>2 DEF Lookup, ino, ks
<1> HIDE DEF hits
<1>8. Least(hits) = 2
  <2>1. at \in hits /\ at <= 2 /\ at \in Nat
    BY <1>5, <1>6, LeastIsMinimum
  <2> HIDE DEF at
  <2>2. at \in {0, 1, 2}
    BY <2>1
  <2> QED
    BY <1>5, <2>1, <2>2 DEF at
<1>9. CellAt(disk, ino, 2) = Entry(Bystander, File)
  BY <1>2, <1>4 DEF RootCells
<1> QED
  BY <1>7, <1>8, <1>9 DEF Entry

LEMMA ReadsAsBefore ==
  DiskOK => Read(disk, File, EntriesPerBlock) = Read(StartImage, File, EntriesPerBlock)
<1>1. SUFFICES ASSUME DiskOK
               PROVE  Read(disk, File, EntriesPerBlock) = Read(StartImage, File, EntriesPerBlock)
  OBVIOUS
<1>2. disk.inodes[File] = StartImage.inodes[File]
  BY <1>1, TheFile, DiskMeta DEF TableOK, OnPath
<1>3. disk.blocks[FileBlock] = StartImage.blocks[FileBlock]
  <2>1. StartImage.blocks[FileBlock] = [s \in Slots |-> FileText]
    BY TheFile DEF StartImage
  <2> QED
    BY <1>1, <2>1 DEF DiskOK
<1>4. \A a \in BlocksOf(StartImage.inodes[File]) : StartImage.inodes[File].direct[a] = FileBlock
  BY FileInode, Layout DEF BlocksOf
<1>5. EntriesPerBlock \in Int
  BY UFSAssumption
<1> QED
  BY <1>2, <1>3, <1>4, <1>5, ReadDependsOn

LEMMA KeptIsSeen == PathKept => BystanderKept
<1>1. SUFFICES ASSUME DiskOK PROVE BystanderKept
  BY DEF PathKept
<1>2. /\ File \in disk.inodeBitmap /\ FileBlock \in disk.dataBitmap
      /\ disk.inodes[File] = StartImage.inodes[File]
  BY <1>1, TheFile, DiskMeta DEF TableOK, OnPath
<1> QED
  BY <1>1, <1>2, FoundUnderItsName, ReadsAsBefore DEF BystanderKept

(***************************************************************************)
(* A file nobody is asked about is never lost to the race of two processes *)
(* with the same image open: in every image they leave, also by dying, it  *)
(* is found under its name, is marked in both bitmaps and reads as before. *)
(***************************************************************************)
THEOREM BystanderIsKept ==
  ASSUME NoForgedEntry
  PROVE  SharedSpec => []BystanderKept
<1>1. SharedInit => PathKept
  BY StartSpares
<1>2. PathKept /\ [Run \/ Switch]_sharedVars => PathKept'
  <2>1. SUFFICES ASSUME PathKept, [Run \/ Switch]_sharedVars PROVE PathKept'
    OBVIOUS
  <2>2. CASE Run
    BY <2>1, <2>2, RunSpares
  <2>3. CASE Switch
    BY <2>1, <2>3, SwitchSpares
  <2>4. CASE UNCHANGED sharedVars
    BY <2>1, <2>4 DEF sharedVars, process, PathKept, DiskOK, CurrentOK, OtherOK
  <2> QED
    BY <2>1, <2>2, <2>3, <2>4
<1>3. PathKept => BystanderKept
  BY KeptIsSeen
<1> QED
  BY <1>1, <1>2, <1>3, PTL DEF SharedSpec

----------------------------------------------------------------------------
(***************************************************************************)
(* A process that is alone.                                                *)
(*                                                                         *)
(* LocalFileSystem lets a call read the image and decide in one step; here *)
(* each read of a region is a step.  The inductive invariant AloneInv says *)
(* that as long as the other process has begun nothing, what the process   *)
(* has read so far is still what the image holds, so that it decides, at   *)
(* its last read, what LocalFileSystem decides on the image as it is; and  *)
(* it is told for the suspended process as well, which may be the one.     *)
(***************************************************************************)

(***************************************************************************)
(* The operators of L, LocalFileSystem as it is seen from here, are those  *)
(* of this module: they do not depend on its variables.                    *)
(***************************************************************************)
LEMMA SameLayout ==
  /\ L!Inodes = Inodes /\ L!Slots = Slots /\ L!Ptrs = Ptrs
  /\ L!DataRegionAddr = DataRegionAddr /\ L!DataBlocks = DataBlocks
  /\ L!InodeRegionLen = InodeRegionLen
  /\ L!NoBlock = NoBlock /\ L!Directory = Directory /\ L!RegularFile = RegularFile
  /\ L!ValidNames = ValidNames /\ L!Passes = Passes /\ L!Aborts = Aborts
  /\ L!NoJob = NoJob /\ L!AnyName = AnyName /\ L!AnyInode = AnyInode
<1>1. L!DataRegionAddr = DataRegionAddr /\ L!InodeRegionLen = InodeRegionLen
  BY DEF L!DataRegionAddr, DataRegionAddr, L!InodeRegionAddr, InodeRegionAddr,
         L!InodeRegionLen, InodeRegionLen
<1>2. L!Inodes = Inodes /\ L!Slots = Slots /\ L!Ptrs = Ptrs /\ L!DataBlocks = DataBlocks
  BY <1>1 DEF L!Inodes, Inodes, L!Slots, Slots, L!Ptrs, Ptrs, L!DataBlocks, DataBlocks
<1>3. /\ L!NoBlock = NoBlock /\ L!Directory = Directory /\ L!RegularFile = RegularFile
      /\ L!Passes = Passes /\ L!Aborts = Aborts /\ L!AnyInode = AnyInode
  BY DEF L!NoBlock, NoBlock, L!Directory, Directory, L!RegularFile, RegularFile,
         L!Passes, Passes, L!Aborts, Aborts, L!AnyInode, AnyInode
<1>4. L!ValidNames = ValidNames /\ L!NoJob = NoJob
  BY DEF L!ValidNames, ValidNames, L!NoJob, NoJob
<1>5. L!AnyName = AnyName
  BY <1>4, Zenon DEF L!AnyName, AnyName
<1> QED
  BY <1>1, <1>2, <1>3, <1>4, <1>5

\* The results of the calls.
LEMMA SameErrors ==
  /\ L!ENOTENOUGHSPACE = ENOTENOUGHSPACE /\ L!EDIRNOTEMPTY = EDIRNOTEMPTY
  /\ L!EINVALIDINODE = EINVALIDINODE /\ L!ENOTALLOCATED = ENOTALLOCATED
  /\ L!EINVALIDSIZE = EINVALIDSIZE /\ L!EINVALIDNAME = EINVALIDNAME
  /\ L!EINVALIDTYPE = EINVALIDTYPE /\ L!EUNLINKNOTALLOWED = EUNLINKNOTALLOWED
BY DEF L!ENOTENOUGHSPACE, ENOTENOUGHSPACE, L!EDIRNOTEMPTY, EDIRNOTEMPTY,
       L!EINVALIDINODE, EINVALIDINODE, L!ENOTALLOCATED, ENOTALLOCATED,
       L!EINVALIDSIZE, EINVALIDSIZE, L!EINVALIDNAME, EINVALIDNAME,
       L!EINVALIDTYPE, EINVALIDTYPE, L!EUNLINKNOTALLOWED, EUNLINKNOTALLOWED

LEMMA SameCardinality == \A S : L!Cardinality(S) = Cardinality(S)
BY DEF L!Cardinality, Cardinality

\* How an inode and its cells are read.
LEMMA SameReading ==
  /\ \A S : L!Least(S) = Least(S)
  /\ \A S, r : L!Nth(S, r) = Nth(S, r)
  /\ \A a, b : L!MinOf(a, b) = MinOf(a, b)
  /\ \A size : L!BlocksFor(size) = BlocksFor(size)
  /\ \A ino, n : L!Held(ino, n) = Held(ino, n)
  /\ \A d, ino, pos : L!CellAt(d, ino, pos) = CellAt(d, ino, pos)
  /\ \A ks : L!PositionsIn(ks) = PositionsIn(ks)
  /\ \A hits : L!First(hits) = First(hits)
  /\ \A i : L!StatFails(i) = StatFails(i)
  /\ \A n, i : L!Entry(n, i) = Entry(n, i)
<1>1. \A S : L!Least(S) = Least(S)
  BY DEF L!Least, Least
<1>2. \A S, r : L!Nth(S, r) = Nth(S, r)
  BY SameCardinality DEF L!Nth, Nth
<1>3. \A a, b : L!MinOf(a, b) = MinOf(a, b)
  BY DEF L!MinOf, MinOf
<1>4. \A size : L!BlocksFor(size) = BlocksFor(size)
  BY DEF L!BlocksFor, BlocksFor
<1>5. \A ino, n : L!Held(ino, n) = Held(ino, n)
  BY SameLayout DEF L!Held, Held
<1>6. \A d, ino, pos : L!CellAt(d, ino, pos) = CellAt(d, ino, pos)
  BY DEF L!CellAt, CellAt
<1>7. \A ks : L!PositionsIn(ks) = PositionsIn(ks)
  BY SameLayout DEF L!PositionsIn, PositionsIn
<1>8. \A hits : L!First(hits) = First(hits)
  BY <1>1 DEF L!First, First
<1>9. \A i : L!StatFails(i) = StatFails(i)
  BY SameLayout DEF L!StatFails, StatFails
<1>10. \A n, i : L!Entry(n, i) = Entry(n, i)
  BY DEF L!Entry, Entry
<1> QED
  BY <1>1, <1>2, <1>3, <1>4, <1>5, <1>6, <1>7, <1>8, <1>9, <1>10

\* What a call decides, and what it checks first.
LEMMA SamePlans ==
  /\ \A d : L!Meta(d) = Meta(d)
  /\ \A ret, writes, commit, m : L!Plan(ret, writes, commit, m) = Plan(ret, writes, commit, m)
  /\ \A d, ret : L!Refuse(d, ret) = Refuse(d, ret)
  /\ \A b, cells : L!Update(b, cells) = Update(b, cells)
  /\ \A ino : L!Unreadable(ino) = Unreadable(ino)
  /\ \A d, p : L!IsDirectory(d, p) = IsDirectory(d, p)
  /\ \A plan : L!IsRefused(plan) = IsRefused(plan)
  /\ \A text, size, b : L!Chunk(text, size, b) = Chunk(text, size, b)
  /\ \A d, i, size : L!WriteError(d, i, size) = WriteError(d, i, size)
  /\ \A blocks, lucky : L!StrayBit(blocks, lucky) = StrayBit(blocks, lucky)
<1>1. \A d : L!Meta(d) = Meta(d)
  BY DEF L!Meta, Meta
<1>2. \A ret, writes, commit, m : L!Plan(ret, writes, commit, m) = Plan(ret, writes, commit, m)
  BY DEF L!Plan, Plan
<1>3. \A d, ret : L!Refuse(d, ret) = Refuse(d, ret)
  BY <1>1, <1>2 DEF L!Refuse, Refuse
<1>4. \A b, cells : L!Update(b, cells) = Update(b, cells)
  BY DEF L!Update, Update
<1>5. \A ino : L!Unreadable(ino) = Unreadable(ino)
  BY SameReading, SameLayout DEF L!Unreadable, Unreadable
<1>6. \A d, p : L!IsDirectory(d, p) = IsDirectory(d, p)
  BY SameLayout DEF L!IsDirectory, IsDirectory
<1>7. \A plan : L!IsRefused(plan) = IsRefused(plan)
  BY DEF L!IsRefused, IsRefused
<1>8. \A text, size, b : L!Chunk(text, size, b) = Chunk(text, size, b)
  <2>1. L!ZeroCell = ZeroCell
    BY DEF L!ZeroCell, ZeroCell, L!Entry, Entry
  <2> QED
    BY <2>1, SameLayout DEF L!Chunk, Chunk
<1>9. \A d, i, size : L!WriteError(d, i, size) = WriteError(d, i, size)
  BY SameReading, SameLayout, SameErrors DEF L!WriteError, WriteError
<1>10. \A blocks, lucky : L!StrayBit(blocks, lucky) = StrayBit(blocks, lucky)
  BY SameLayout DEF L!StrayBit, StrayBit
<1> QED
  BY <1>1, <1>2, <1>3, <1>4, <1>5, <1>6, <1>7, <1>8, <1>9, <1>10

\* What create() decides.
LEMMA SameCreate ==
  /\ \A d, p, type, n : L!CreateChecks(d, p, type, n) = CreateChecks(d, p, type, n)
  /\ \A i, p : L!DirBlock(i, p) = DirBlock(i, p)
  /\ \A d, type : L!WithInode(d, type) = WithInode(d, type)
  /\ \A d, p, n, i, first, m : L!Link(d, p, n, i, first, m) = Link(d, p, n, i, first, m)
  /\ \A d, p, type, n : L!CreatePlan(d, p, type, n) = CreatePlan(d, p, type, n)
<1>1. \A d, ino, n : L!Existing(d, ino, n) = Existing(d, ino, n)
  BY SameReading DEF L!Existing, Existing
<1>2. \A d, i, type : L!ExistingResult(d, i, type) = ExistingResult(d, i, type)
  BY SameErrors DEF L!ExistingResult, ExistingResult
<1>3. \A d, p, type, n : L!CreateChecks(d, p, type, n) = CreateChecks(d, p, type, n)
  BY <1>1, <1>2, SameLayout, SameErrors, SameReading, SamePlans DEF L!CreateChecks, CreateChecks
<1>4. L!Unused = Unused
  BY DEF L!Unused, Unused, L!Entry, Entry
<1>5. \A i, p : L!DirBlock(i, p) = DirBlock(i, p)
  BY <1>4, SameLayout, SameReading DEF L!DirBlock, DirBlock
<1>6. \A type, home : L!NewInode(type, home) = NewInode(type, home)
  BY SameLayout DEF L!NewInode, NewInode
<1>7. \A d, type : L!WithInode(d, type) = WithInode(d, type)
  BY <1>6, SameLayout, SameReading DEF L!WithInode, WithInode
<1>8. \A d, p, n, i, first, m : L!Link(d, p, n, i, first, m) = Link(d, p, n, i, first, m)
  <2>1. SUFFICES ASSUME NEW d, NEW p, NEW n, NEW i, NEW first, NEW m
                 PROVE  L!Link(d, p, n, i, first, m) = Link(d, p, n, i, first, m)
    OBVIOUS
  <2> DEFINE ino  == m.inodes[p]
             used == BlocksFor(ino.size)
             slot == First({pos \in PositionsIn(Held(ino, used)) :
                              CellAt(d, ino, pos).inum = -1})
             b    == Least(DataBlocks \ m.dataBitmap)
  <2>2. L!First({pos \in L!PositionsIn(L!Held(ino, L!BlocksFor(ino.size))) :
                   L!CellAt(d, ino, pos).inum = -1}) = slot
    BY SameReading
  <2>3. L!Least(L!DataBlocks \ m.dataBitmap) = b
    BY SameReading, SameLayout
  <2>4. L!BlocksFor(ino.size) = used
    BY SameReading
  <2>5. [s \in L!Slots |-> IF s = 0 THEN L!Entry(n, i) ELSE L!Unused]
          = [s \in Slots |-> IF s = 0 THEN Entry(n, i) ELSE Unused]
    BY <1>4, SameLayout, SameReading
  <2> DEFINE at == ino.direct[slot \div EntriesPerBlock]
             c1 == [d.blocks[at] EXCEPT ![slot % EntriesPerBlock] = Entry(n, i)]
             c2 == [s \in Slots |-> IF s = 0 THEN Entry(n, i) ELSE Unused]
             m1 == [m EXCEPT !.inodes[p].size = @ + 1]
             m2 == [m EXCEPT !.dataBitmap = @ \cup {b}, !.inodes[p].size = @ + 1,
                             !.inodes[p].direct[used] = b]
  <2>6. Link(d, p, n, i, first, m) =
          IF slot # -1 THEN Plan(i, Append(first, Update(at, c1)), TRUE, m1)
          ELSE IF used >= DirectPtrs \/ DataBlocks \ m.dataBitmap = {}
          THEN Plan(-ENOTENOUGHSPACE, first, FALSE, Meta(d))
          ELSE Plan(i, Append(first, Update(b, c2)), TRUE, m2)
    BY DEF Link
  <2> DEFINE lslot == L!First({pos \in L!PositionsIn(L!Held(ino, L!BlocksFor(ino.size))) :
                                 L!CellAt(d, ino, pos).inum = -1})
             lused == L!BlocksFor(ino.size)
             lb    == L!Least(L!DataBlocks \ m.dataBitmap)
             lat   == ino.direct[lslot \div EntriesPerBlock]
             le    == L!Entry(n, i)
             l1    == [d.blocks[lat] EXCEPT ![lslot % EntriesPerBlock] = le]
             l2    == [s \in L!Slots |-> IF s = 0 THEN le ELSE L!Unused]
             lm    == [m EXCEPT !.dataBitmap = @ \cup {lb}, !.inodes[p].size = @ + 1,
                                !.inodes[p].direct[lused] = lb]
  <2>7. L!Link(d, p, n, i, first, m) =
          IF lslot # -1 THEN L!Plan(i, Append(first, L!Update(lat, l1)), TRUE, m1)
          ELSE IF lused >= DirectPtrs \/ L!DataBlocks \ m.dataBitmap = {}
          THEN L!Plan(-L!ENOTENOUGHSPACE, first, FALSE, L!Meta(d))
          ELSE L!Plan(i, Append(first, L!Update(lb, l2)), TRUE, lm)
    BY DEF L!Link
  <2>8. lslot = slot /\ lused = used /\ lb = b /\ le = Entry(n, i) /\ l2 = c2
    BY <2>2, <2>3, <2>4, <2>5, SameReading
  <2> HIDE DEF slot, used, b, c2, lslot, lused, lb, le, l2
  <2>9. lat = at /\ l1 = c1 /\ lm = m2
    BY <2>8
  <2> HIDE DEF at, c1, m1, m2, lat, l1, lm
  <2>10. /\ L!Update(lat, l1) = Update(at, c1) /\ L!Update(lb, l2) = Update(b, c2)
         /\ L!Meta(d) = Meta(d) /\ -L!ENOTENOUGHSPACE = -ENOTENOUGHSPACE
         /\ L!DataBlocks \ m.dataBitmap = DataBlocks \ m.dataBitmap
    BY <2>8, <2>9, SamePlans, SameErrors, SameLayout
  <2>11. \A ret, w, c, x : L!Plan(ret, w, c, x) = Plan(ret, w, c, x)
    BY SamePlans
  <2>12. CASE slot # -1
    BY <2>6, <2>7, <2>8, <2>9, <2>10, <2>11, <2>12
  <2>13. CASE slot = -1 /\ (used >= DirectPtrs \/ DataBlocks \ m.dataBitmap = {})
    BY <2>6, <2>7, <2>8, <2>10, <2>11, <2>13
  <2>14. CASE slot = -1 /\ ~(used >= DirectPtrs \/ DataBlocks \ m.dataBitmap = {})
    BY <2>6, <2>7, <2>8, <2>9, <2>10, <2>11, <2>14
  <2> QED
    BY <2>12, <2>13, <2>14
<1>9. \A d, p, type, n : L!CreatePlan(d, p, type, n) = CreatePlan(d, p, type, n)
  <2>1. SUFFICES ASSUME NEW d, NEW p, NEW type, NEW n
                 PROVE  L!CreatePlan(d, p, type, n) = CreatePlan(d, p, type, n)
    OBVIOUS
  <2>2. /\ L!Least(L!Inodes \ d.inodeBitmap) = Least(Inodes \ d.inodeBitmap)
        /\ L!Least(L!DataBlocks \ d.dataBitmap) = Least(DataBlocks \ d.dataBitmap)
    BY SameReading, SameLayout
  <2> QED
    BY <2>2, <1>3, <1>5, <1>7, <1>8, SameLayout, SamePlans DEF L!CreatePlan, CreatePlan
<1> QED
  BY <1>3, <1>5, <1>7, <1>8, <1>9

\* What unlink() decides.
LEMMA SameUnlink ==
  \A d, p, n : L!UnlinkPlans(d, p, n) = UnlinkPlans(d, p, n)
<1>1. \A ino : L!BlocksRead(ino) = BlocksRead(ino)
  BY SameReading DEF L!BlocksRead, BlocksRead
<1>2. \A ino : L!CellsRead(ino) = CellsRead(ino)
  BY <1>1, SameCardinality, SameReading DEF L!CellsRead, CellsRead
<1>3. \A d, p : L!HeapRange(d, p) = HeapRange(d, p)
  BY <1>2, SameLayout, SameReading DEF L!HeapRange, HeapRange
<1>4. \A d, p, heap : L!DirData(d, p, heap) = DirData(d, p, heap)
  BY <1>1, <1>2, SameReading DEF L!DirData, DirData
<1>5. \A data, i : L!BlockEmpty(data, i) = BlockEmpty(data, i)
  <2>1. \A i : L!CellsOf(i) = CellsOf(i)
    BY DEF L!CellsOf, CellsOf
  <2> QED
    BY <2>1, Zenon DEF L!BlockEmpty, BlockEmpty
<1>6. \A data, ino, n : L!EntryNamed(data, ino, n) = EntryNamed(data, ino, n)
  BY SameReading DEF L!EntryNamed, EntryNamed
<1>7. \A ino : L!Freed(ino) = Freed(ino)
  BY SameReading DEF L!Freed, Freed
<1>8. \A ino : L!Released(ino) = Released(ino)
  BY SameReading, SameLayout DEF L!Released, Released
<1>9. \A d, p, v, at, emptied : L!Removed(d, p, v, at, emptied) = Removed(d, p, v, at, emptied)
  <2>1. SUFFICES ASSUME NEW d, NEW p, NEW v, NEW at, NEW emptied
                 PROVE  L!Removed(d, p, v, at, emptied) = Removed(d, p, v, at, emptied)
    OBVIOUS
  <2>2. /\ L!Freed(d.inodes[v]) = Freed(d.inodes[v])
        /\ L!Released(d.inodes[v]) = Released(d.inodes[v])
    BY <1>7, <1>8
  <2> QED
    BY <2>2, SameLayout DEF L!Removed, Removed
<1>10. \A ino, total, data, size :
         L!WriteBack(ino, total, data, size) = WriteBack(ino, total, data, size)
  <2>1. SUFFICES ASSUME NEW ino, NEW total, NEW data, NEW size
                 PROVE  L!WriteBack(ino, total, data, size) = WriteBack(ino, total, data, size)
    OBVIOUS
  <2> DEFINE is == {i \in Held(ino, total) : ~Asan \/ (i + 1) * EntriesPerBlock <= size}
  <2>2. {i \in L!Held(ino, total) : ~Asan \/ (i + 1) * EntriesPerBlock <= size} = is
    BY SameReading
  <2>3. L!Cardinality(is) = Cardinality(is)
    BY SameCardinality
  <2> DEFINE cells(j) == [s \in Slots |-> data[Nth(is, j - 1) * EntriesPerBlock + s]]
  <2>4. \A j : L!Update(ino.direct[L!Nth(is, j - 1)],
                   [s \in L!Slots |-> data[L!Nth(is, j - 1) * EntriesPerBlock + s]])
                = Update(ino.direct[Nth(is, j - 1)], cells(j))
    <3> HIDE DEF is
    <3> QED
      BY SameReading, SameLayout, SamePlans
  <2>5. WriteBack(ino, total, data, size)
          = [j \in 1 .. Cardinality(is) |-> Update(ino.direct[Nth(is, j - 1)], cells(j))]
    BY DEF WriteBack
  <2>6. L!WriteBack(ino, total, data, size)
          = [j \in 1 .. L!Cardinality(is) |->
               L!Update(ino.direct[L!Nth(is, j - 1)],
                   [s \in L!Slots |-> data[L!Nth(is, j - 1) * EntriesPerBlock + s]])]
    BY <2>2 DEF L!WriteBack
  <2> HIDE DEF is, cells
  <2> QED
    BY <2>3, <2>4, <2>5, <2>6
<1>11. \A ino : L!NotEmpty(ino) = NotEmpty(ino)
  BY SameLayout DEF L!NotEmpty, NotEmpty
<1>12. \A d, p, v, at, data, lucky :
         L!UnlinkEntry(d, p, v, at, data, lucky) = UnlinkEntry(d, p, v, at, data, lucky)
  <2>1. SUFFICES ASSUME NEW d, NEW p, NEW v, NEW at, NEW data, NEW lucky
                 PROVE  L!UnlinkEntry(d, p, v, at, data, lucky)
                          = UnlinkEntry(d, p, v, at, data, lucky)
    OBVIOUS
  <2> DEFINE data1 == [data EXCEPT ![at].name = ""]
             size  == d.inodes[p].size
  <2>2. /\ L!BlockEmpty(data1, at \div EntriesPerBlock) = BlockEmpty(data1, at \div EntriesPerBlock)
        /\ L!BlocksFor(size) = BlocksFor(size)
        /\ L!Freed(d.inodes[v]) = Freed(d.inodes[v])
        /\ L!Released(d.inodes[v]) = Released(d.inodes[v])
    BY <1>5, <1>7, <1>8, SameReading
  <2> HIDE DEF data1
  <2> QED
    BY <2>2, <1>9, <1>10, SameCardinality, SameReading, SamePlans, SameLayout
    DEF L!UnlinkEntry, UnlinkEntry, data1
<1>13. \A d, p, n, heap, lucky :
         L!UnlinkPlan(d, p, n, heap, lucky) = UnlinkPlan(d, p, n, heap, lucky)
  BY <1>4, <1>6, <1>11, <1>12, SameErrors, SameLayout, SamePlans DEF L!UnlinkPlan, UnlinkPlan
<1> QED
  BY <1>3, <1>13 DEF L!UnlinkPlans, UnlinkPlans

(***************************************************************************)
(* What a process remembers while it is alone is what the image holds.     *)
(***************************************************************************)
Whole(m) ==
  /\ m = [inodeBitmap |-> m.inodeBitmap, dataBitmap |-> m.dataBitmap, inodes |-> m.inodes]
  /\ m.inodes = [i \in Inodes |-> m.inodes[i]]

DiskWhole ==
  /\ disk = [inodeBitmap |-> disk.inodeBitmap, dataBitmap |-> disk.dataBitmap,
             inodes |-> disk.inodes, blocks |-> disk.blocks]
  /\ disk.inodes = [i \in Inodes |-> disk.inodes[i]]

ReadUpTo(m, i) == \A x \in Inodes : x \div InodesPerBlock < i => m.inodes[x] = disk.inodes[x]

\* The inode a call of create has made in memory.
MadeFrom(j, m) ==
  /\ CreateChecks(disk, j.inum, j.type, j.name) = Passes
  /\ j.ret = Least(Inodes \ disk.inodeBitmap)
  /\ m = WithInode(disk, j.type)

Flushing == {"blocks", "inodeBitmap", "dataBitmap", "region"}

CreateUpToDate(p, j, m, i) ==
  /\ j = [op |-> "create", inum |-> j.inum, type |-> j.type, name |-> j.name, ret |-> j.ret]
  /\ j.inum \in Inodes /\ j.type \in {Directory, RegularFile} /\ j.name \in Others
  /\ p \in {"readInodeBitmap", "readDataBitmap", "readRegion", "decide", "home", "link"}
           \cup Flushing
  /\ p \in {"readInodeBitmap", "readDataBitmap", "readRegion", "decide"} => Whole(m)
  /\ p \in {"readDataBitmap", "readRegion", "decide"} => m.inodeBitmap = disk.inodeBitmap
  /\ p \in {"readRegion", "decide"} => m.dataBitmap = disk.dataBitmap
  /\ p = "readRegion" => ReadUpTo(m, i)
  /\ p = "decide" => m.inodes = disk.inodes
  /\ p = "home" => j.type = Directory
  /\ p = "link" /\ j.type = RegularFile => MadeFrom(j, m)

UnlinkUpToDate(p, j, m, i, s) ==
  /\ j = [op |-> "unlink", inum |-> j.inum, name |-> j.name, ret |-> j.ret]
  /\ j.inum \in Inodes /\ j.name \in Others
  /\ p \in {"readInodeBitmap", "readRegion", "readDirectory", "readDataBitmap", "decide"}
           \cup Flushing
  /\ p \notin Flushing => Whole(m)
  /\ p \in {"readRegion", "readDirectory", "readDataBitmap", "decide"} =>
        m.inodeBitmap = disk.inodeBitmap
  /\ p = "readRegion" => ReadUpTo(m, i)
  /\ p \in {"readDirectory", "readDataBitmap", "decide"} => m.inodes = disk.inodes
  /\ p \in {"readDataBitmap", "decide"} => s = disk.blocks
  /\ p = "decide" => m.dataBitmap = disk.dataBitmap

WriteUpToDate(p, j, m) ==
  /\ j = [op |-> "write", inum |-> j.inum, text |-> j.text, ret |-> j.ret]
  /\ j.inum \in Inodes /\ j.text \in FileCells /\ j.ret \in Sizes
  /\ p \in {"readDataBitmap", "write", "dataBitmap", "region"}
  /\ Whole(m)
  /\ p = "readDataBitmap" =>
        WriteError(disk, j.inum, j.ret) = 0 /\ m.inodes[j.inum] = disk.inodes[j.inum]
  /\ p = "region" => \A x \in Inodes \ {j.inum} : m.inodes[x] = disk.inodes[x]

Rests(p, j, w, m, i) == p = "idle" /\ j = NoJob /\ w = <<>> /\ i = 0 /\ m = Meta(disk)

\* Where the loops are, and what is still to be written.
Counts(p, w, i) ==
  /\ i \in Nat /\ (p \notin {"readRegion", "write", "region"} => i = 0)
  /\ p \notin {"home", "blocks"} => w = <<>>
  /\ p = "home" => \E x : w = <<x>>

UpToDate(p, j, w, m, i, s) ==
  \/ Rests(p, j, w, m, i)
  \/ /\ Counts(p, w, i)
     /\ CreateUpToDate(p, j, m, i) \/ UnlinkUpToDate(p, j, m, i, s) \/ WriteUpToDate(p, j, m)

NowUpToDate == UpToDate(pc, job, pending, mem, k, seen)

OtherWhole ==
  other = [pc |-> other.pc, job |-> other.job, pending |-> other.pending, mem |-> other.mem,
           k |-> other.k, seen |-> other.seen, begun |-> other.begun]

AloneInv ==
  /\ DiskWhole /\ OtherWhole
  /\ begun \in Nat /\ other.begun \in Nat
  /\ begun = 0 => pc = "idle"
  /\ other.begun = 0 => other.pc = "idle" /\ NowUpToDate
  /\ begun = 0 =>
       UpToDate(other.pc, other.job, other.pending, other.mem, other.k, other.seen)

Simulated == [L!Calls \/ L!Crash]_(L!vars)

----------------------------------------------------------------------------
\* A call that has begun for LocalFileSystem, and one that has not.
LEMMA Views ==
  /\ ~Begun => /\ pcL = "idle" /\ jobL = NoJob /\ pendingL = <<>> /\ memL = Meta(disk)
               /\ kL = 0
  /\ Begun /\ ~Creating /\ ~Writing =>
       pcL = pc /\ jobL = job /\ pendingL = pending /\ memL = mem /\ kL = k
  /\ Begun /\ Creating =>
       /\ pcL = "blocks" /\ jobL = [job EXCEPT !.ret = LinkPlan.ret]
       /\ pendingL = LinkPlan.writes /\ memL = LinkPlan.mem /\ kL = k
  /\ Begun /\ ~Creating /\ Writing =>
       /\ pcL = pc /\ jobL = job /\ pendingL = pending /\ kL = k
       /\ memL = [mem EXCEPT !.inodeBitmap = disk.inodeBitmap,
                             !.inodes = [disk.inodes EXCEPT ![job.inum] = mem.inodes[job.inum]]]
BY DEF pcL, jobL, pendingL, memL, kL

\* The same of the next state.
LEMMA NextViews ==
  /\ ~Begun' => /\ pcL' = "idle" /\ jobL' = NoJob /\ pendingL' = <<>> /\ memL' = Meta(disk')
                /\ kL' = 0
  /\ Begun' /\ ~Creating' /\ ~Writing' =>
       pcL' = pc' /\ jobL' = job' /\ pendingL' = pending' /\ memL' = mem' /\ kL' = k'
  /\ Begun' /\ Creating' =>
       /\ pcL' = "blocks" /\ jobL' = [job' EXCEPT !.ret = LinkPlan'.ret]
       /\ pendingL' = LinkPlan'.writes /\ memL' = LinkPlan'.mem /\ kL' = k'
  /\ Begun' /\ ~Creating' /\ Writing' =>
       /\ pcL' = pc' /\ jobL' = job' /\ pendingL' = pending' /\ kL' = k'
       /\ memL' = [mem' EXCEPT !.inodeBitmap = disk'.inodeBitmap,
                               !.inodes = [disk'.inodes EXCEPT
                                             ![job'.inum] = mem'.inodes[job'.inum]]]
BY DEF pcL, jobL, pendingL, memL, kL, Meta

LooksIdle == pcL = "idle" /\ jobL = NoJob /\ pendingL = <<>> /\ memL = Meta(disk) /\ kL = 0

\* Before a call begins for LocalFileSystem, and after it has returned, nothing is
\* seen of it there; two such states with the same image are the same.
LEMMA IdleLooksIdle == ~Begun \/ Rests(pc, job, pending, mem, k) => LooksIdle
BY Views DEF LooksIdle, Rests, Begun, Creating, Writing, Deciding

LEMMA NextLooksIdle == ~Begun' \/ Return(disk') => LooksIdle'
<1>1. ~Begun' => LooksIdle'
  BY NextViews DEF LooksIdle, Meta
<1>2. Return(disk') => LooksIdle'
  BY NextViews DEF LooksIdle, Return, Begun, Creating, Writing, Deciding, Meta
<1> QED
  BY <1>1, <1>2

LEMMA IdleStutters == LooksIdle /\ LooksIdle' /\ disk' = disk => Simulated
BY DEF LooksIdle, Simulated, L!vars, Meta

LEMMA LReturns == Return(disk') => L!Return(disk')
BY NextLooksIdle, SamePlans, SameLayout DEF LooksIdle, L!Return, Meta

LEMMA StepSimulates == L!WriteSteps \/ L!Flush \/ L!Crash => Simulated
BY DEF Simulated, L!Calls

(***************************************************************************)
(* A call begins, and reads.                                               *)
(***************************************************************************)
LEMMA BlankWhole == Whole(Blank)
BY DEF Whole, Blank

\* A call that begins to read leaves LocalFileSystem where it is.
LEMMA BeginSimulates ==
  ASSUME DiskWhole, NowUpToDate, pc = "idle", BeginCall
  PROVE  NowUpToDate' /\ disk' = disk /\ Simulated
<1>1. Rests(pc, job, pending, mem, k)
  BY DEF NowUpToDate, UpToDate, CreateUpToDate, UnlinkUpToDate, WriteUpToDate, Flushing
<1>2. ASSUME NEW j, NEW p, NEW m, Begin(j, p, m), p \in {"readInodeBitmap", "readDataBitmap"}
      PROVE  /\ pc' = p /\ job' = j /\ mem' = m /\ k' = 0 /\ pending' = <<>> /\ disk' = disk
             /\ Counts(pc', pending', k') /\ Simulated
  <2>1. /\ pc' = p /\ job' = j /\ mem' = m /\ k' = 0 /\ pending' = <<>> /\ disk' = disk
    BY <1>1, <1>2 DEF Begin, Rests
  <2>2. Counts(pc', pending', k')
    BY <1>2, <2>1 DEF Counts
  <2>3. ~Begun'
    BY <1>2, <2>1 DEF Begun, Deciding
  <2> QED
    BY <1>1, <2>1, <2>2, <2>3, IdleLooksIdle, NextLooksIdle, IdleStutters
<1>3. ASSUME NEW p \in Inodes, NEW n \in Others, NEW type \in {Directory, RegularFile},
             BeginCreate(p, type, n)
      PROVE  NowUpToDate' /\ disk' = disk /\ Simulated
  <2> DEFINE j == [op |-> "create", inum |-> p, type |-> type, name |-> n, ret |-> 0]
  <2>1. Begin(j, "readInodeBitmap", Blank)
    BY <1>3 DEF BeginCreate
  <2>2. /\ pc' = "readInodeBitmap" /\ job' = j /\ mem' = Blank /\ disk' = disk
        /\ Counts(pc', pending', k') /\ Simulated
    BY <1>2, <2>1
  <2>3. CreateUpToDate(pc, job, mem, k)'
    BY <2>2, BlankWhole DEF CreateUpToDate, Flushing, Whole
  <2> QED
    BY <2>2, <2>3 DEF NowUpToDate, UpToDate
<1>4. ASSUME NEW p \in Inodes, NEW n \in Others, BeginUnlink(p, n)
      PROVE  NowUpToDate' /\ disk' = disk /\ Simulated
  <2> DEFINE j == [op |-> "unlink", inum |-> p, name |-> n, ret |-> 0]
  <2>1. Begin(j, "readInodeBitmap", Blank)
    BY <1>4 DEF BeginUnlink
  <2>2. /\ pc' = "readInodeBitmap" /\ job' = j /\ mem' = Blank /\ disk' = disk
        /\ Counts(pc', pending', k') /\ Simulated
    BY <1>2, <2>1
  <2>3. UnlinkUpToDate(pc, job, mem, k, seen)'
    BY <2>2, BlankWhole DEF UnlinkUpToDate, Flushing, Whole
  <2> QED
    BY <2>2, <2>3 DEF NowUpToDate, UpToDate
<1>5. ASSUME NEW i \in Inodes \ {File}, NEW text \in FileCells, NEW size \in Sizes,
             BeginWrite(i, text, size)
      PROVE  NowUpToDate' /\ disk' = disk /\ Simulated
  <2> DEFINE j == [op |-> "write", inum |-> i, text |-> text, ret |-> size]
             m == [Blank EXCEPT !.inodes[i] = disk.inodes[i]]
  <2>1. WriteError(disk, i, size) = 0 /\ Begin(j, "readDataBitmap", m)
    BY <1>5 DEF BeginWrite
  <2>2. /\ pc' = "readDataBitmap" /\ job' = j /\ mem' = m /\ disk' = disk
        /\ Counts(pc', pending', k') /\ Simulated
    BY <1>2, <2>1
  <2>3. Whole(m) /\ m.inodes[i] = disk.inodes[i]
    BY DEF Whole, Blank
  <2> HIDE DEF m
  <2>4. WriteUpToDate(pc, job, mem)'
    BY <2>1, <2>2, <2>3 DEF WriteUpToDate, Whole
  <2> QED
    BY <2>2, <2>4 DEF NowUpToDate, UpToDate
<1> QED
  BY <1>3, <1>4, <1>5 DEF BeginCall

\* So does each of its reads.
LEMMA Reading ==
  ASSUME NowUpToDate, pc \notin {"idle", "home"} \cup Flushing, pc # "write"
  PROVE  /\ Counts(pc, pending, k) /\ pending = <<>>
         /\ \/ CreateUpToDate(pc, job, mem, k) /\ job.op = "create"
            \/ UnlinkUpToDate(pc, job, mem, k, seen) /\ job.op = "unlink"
            \/ WriteUpToDate(pc, job, mem) /\ job.op = "write" /\ pc = "readDataBitmap"
BY DEF NowUpToDate, UpToDate, Rests, Counts, CreateUpToDate, UnlinkUpToDate, WriteUpToDate,
       Flushing

\* Replacing one part of the metadata leaves the others.
LEMMA PartReplaced ==
  ASSUME NEW m, Whole(m), NEW x
  PROVE  /\ [m EXCEPT !.inodeBitmap = x]
              = [inodeBitmap |-> x, dataBitmap |-> m.dataBitmap, inodes |-> m.inodes]
         /\ [m EXCEPT !.dataBitmap = x]
              = [inodeBitmap |-> m.inodeBitmap, dataBitmap |-> x, inodes |-> m.inodes]
         /\ [m EXCEPT !.inodes = x]
              = [inodeBitmap |-> m.inodeBitmap, dataBitmap |-> m.dataBitmap, inodes |-> x]
<1>1. PICK b, d, f : m = [inodeBitmap |-> b, dataBitmap |-> d, inodes |-> f]
  BY DEF Whole
<1> QED
  BY <1>1

LEMMA InodeBitmapSimulates ==
  ASSUME DiskWhole, NowUpToDate, ReadInodeBitmap
  PROVE  NowUpToDate' /\ disk' = disk /\ Simulated
<1>1. /\ pc = "readInodeBitmap" /\ disk' = disk /\ job' = job /\ pending' = pending
      /\ k' = k /\ seen' = seen /\ mem' = [mem EXCEPT !.inodeBitmap = disk.inodeBitmap]
      /\ pc' = IF job.op = "create" THEN "readDataBitmap" ELSE "readRegion"
  BY DEF ReadInodeBitmap, GoOn
<1>2. /\ Counts(pc, pending, k) /\ pending = <<>> /\ k = 0
      /\ \/ CreateUpToDate(pc, job, mem, k) /\ job.op = "create"
         \/ UnlinkUpToDate(pc, job, mem, k, seen) /\ job.op = "unlink"
  BY <1>1, Reading DEF Flushing, Counts
<1>3. ~Begun /\ ~Begun'
  BY <1>1 DEF Begun, Deciding
<1>4. Whole(mem)
  BY <1>1, <1>2 DEF CreateUpToDate, UnlinkUpToDate, Flushing
<1>5. Whole(mem') /\ mem'.inodeBitmap = disk.inodeBitmap
  BY <1>1, <1>4, PartReplaced DEF Whole
<1>6. Counts(pc, pending, k)'
  BY <1>1, <1>2 DEF Counts
<1>7. CASE CreateUpToDate(pc, job, mem, k) /\ job.op = "create"
  <2>1. CreateUpToDate(pc, job, mem, k)'
    BY <1>1, <1>5, <1>7 DEF CreateUpToDate, Flushing, Whole
  <2> QED
    BY <1>1, <1>3, <1>6, <2>1, IdleLooksIdle, NextLooksIdle, IdleStutters DEF NowUpToDate, UpToDate
<1>8. CASE UnlinkUpToDate(pc, job, mem, k, seen) /\ job.op = "unlink"
  <2>1. ReadUpTo(mem, k)'
    <3>1. \A x \in Inodes : ~(x \div InodesPerBlock < 0)
      BY UFSAssumption DEF Inodes
    <3>2. k' = 0
      BY <1>1, <1>2
    <3> QED
      BY <3>1, <3>2 DEF ReadUpTo
  <2>2. UnlinkUpToDate(pc, job, mem, k, seen)'
    BY <1>1, <1>2, <1>5, <1>8, <2>1 DEF UnlinkUpToDate, Flushing, Whole
  <2> QED
    BY <1>1, <1>3, <1>6, <2>2, IdleLooksIdle, NextLooksIdle, IdleStutters DEF NowUpToDate, UpToDate
<1> QED
  BY <1>2, <1>7, <1>8

LEMMA DataBitmapSimulates ==
  ASSUME DiskWhole, NowUpToDate, ReadDataBitmap
  PROVE  NowUpToDate' /\ disk' = disk /\ Simulated
<1>1. /\ pc = "readDataBitmap" /\ disk' = disk /\ job' = job /\ pending' = pending
      /\ k' = k /\ seen' = seen /\ mem' = [mem EXCEPT !.dataBitmap = disk.dataBitmap]
      /\ pc' = AfterDataBitmap
  BY DEF ReadDataBitmap, GoOn
<1>2. /\ Counts(pc, pending, k) /\ pending = <<>> /\ k = 0
      /\ \/ CreateUpToDate(pc, job, mem, k) /\ job.op = "create"
         \/ UnlinkUpToDate(pc, job, mem, k, seen) /\ job.op = "unlink"
         \/ WriteUpToDate(pc, job, mem) /\ job.op = "write"
  BY <1>1, Reading DEF Flushing, Counts
<1>3. /\ job.op = "create" => pc' = "readRegion"
      /\ job.op = "unlink" => pc' = "decide"
      /\ job.op = "write" => pc' = "write"
  BY <1>1 DEF AfterDataBitmap
<1>4. Whole(mem)
  BY <1>1, <1>2 DEF CreateUpToDate, UnlinkUpToDate, WriteUpToDate, Flushing
<1>5. /\ Whole(mem') /\ mem'.dataBitmap = disk.dataBitmap
      /\ mem'.inodeBitmap = mem.inodeBitmap /\ mem'.inodes = mem.inodes
  BY <1>1, <1>4, PartReplaced DEF Whole
<1>6. Counts(pc, pending, k)'
  BY <1>1, <1>2, <1>3 DEF Counts
<1>7. LooksIdle
  BY <1>1, IdleLooksIdle DEF Begun, Deciding
<1>8. CASE CreateUpToDate(pc, job, mem, k) /\ job.op = "create"
  <2>1. ReadUpTo(mem, k)'
    <3>1. \A x \in Inodes : ~(x \div InodesPerBlock < 0)
      BY UFSAssumption DEF Inodes
    <3>2. k' = 0
      BY <1>1, <1>2
    <3> QED
      BY <3>1, <3>2 DEF ReadUpTo
  <2>2. CreateUpToDate(pc, job, mem, k)'
    BY <1>1, <1>2, <1>3, <1>5, <1>8, <2>1 DEF CreateUpToDate, Flushing, Whole
  <2>3. ~Begun'
    BY <1>3, <1>8 DEF Begun, Deciding
  <2> QED
    BY <1>1, <1>6, <1>7, <2>2, <2>3, NextLooksIdle, IdleStutters DEF NowUpToDate, UpToDate
<1>9. CASE UnlinkUpToDate(pc, job, mem, k, seen) /\ job.op = "unlink"
  <2>1. UnlinkUpToDate(pc, job, mem, k, seen)'
    BY <1>1, <1>3, <1>5, <1>9 DEF UnlinkUpToDate, Flushing, Whole
  <2>2. ~Begun'
    BY <1>3, <1>9 DEF Begun, Deciding
  <2> QED
    BY <1>1, <1>6, <1>7, <2>1, <2>2, NextLooksIdle, IdleStutters DEF NowUpToDate, UpToDate
<1>10. CASE WriteUpToDate(pc, job, mem) /\ job.op = "write"
  <2>1. WriteUpToDate(pc, job, mem)'
    BY <1>1, <1>3, <1>5, <1>10 DEF WriteUpToDate, Whole
  <2>2. NowUpToDate'
    BY <1>6, <2>1 DEF NowUpToDate, UpToDate
  <2>3. Begun' /\ ~Creating' /\ Writing'
    BY <1>1, <1>3, <1>10 DEF Begun, Deciding, Creating, Writing
  <2>4. pcL' = "write" /\ jobL' = job /\ pendingL' = <<>> /\ kL' = 0
    BY <1>1, <1>2, <1>3, <1>10, <2>3, NextViews
  <2>5. memL' = Meta(disk)
    <3>1. memL' = [mem' EXCEPT !.inodeBitmap = disk.inodeBitmap,
                               !.inodes = [disk.inodes EXCEPT
                                             ![job.inum] = mem'.inodes[job.inum]]]
      BY <1>1, <2>3, NextViews
    <3>2. mem'.inodes[job.inum] = disk.inodes[job.inum]
      BY <1>1, <1>5, <1>10 DEF WriteUpToDate
    <3>3. [disk.inodes EXCEPT ![job.inum] = mem'.inodes[job.inum]] = disk.inodes
      BY <3>2 DEF DiskWhole
    <3> QED
      BY <3>1, <3>3, <1>5 DEF Whole, Meta
  <2>6. /\ WriteError(disk, job.inum, job.ret) = 0
        /\ job.inum \in Inodes /\ job.text \in FileCells /\ job.ret \in Sizes
        /\ job = [op |-> "write", inum |-> job.inum, text |-> job.text, ret |-> job.ret]
    BY <1>1, <1>10 DEF WriteUpToDate
  <2>7. L!Write(job.inum, job.text, job.ret)
    BY <1>1, <1>7, <2>4, <2>5, <2>6, SamePlans DEF LooksIdle, L!Write
  <2>8. job.inum \in L!AnyInode
    BY <2>6, SameLayout, UFSAssumption DEF AnyInode, Inodes
  <2>9. Simulated
    BY <2>6, <2>7, <2>8 DEF Simulated, L!Calls
  <2> QED
    BY <1>1, <2>2, <2>9
<1> QED
  BY <1>2, <1>8, <1>9, <1>10

LEMMA RegionSimulates ==
  ASSUME DiskWhole, NowUpToDate, ReadRegion
  PROVE  NowUpToDate' /\ disk' = disk /\ Simulated
<1> DEFINE next == IF job.op = "create" THEN "decide" ELSE "readDirectory"
<1>1. /\ pc = "readRegion" /\ disk' = disk /\ job' = job /\ pending' = pending /\ seen' = seen
      /\ mem' = [mem EXCEPT !.inodes = [i \in Inodes |->
               IF i \div InodesPerBlock = k THEN disk.inodes[i] ELSE mem.inodes[i]]]
      /\ \/ k + 1 < InodeRegionLen /\ k' = k + 1 /\ pc' = "readRegion"
         \/ ~(k + 1 < InodeRegionLen) /\ k' = 0 /\ pc' = next
  BY DEF ReadRegion, GoOn
<1>2. /\ Counts(pc, pending, k) /\ pending = <<>> /\ k \in Nat
      /\ \/ CreateUpToDate(pc, job, mem, k) /\ job.op = "create"
         \/ UnlinkUpToDate(pc, job, mem, k, seen) /\ job.op = "unlink"
  BY <1>1, Reading DEF Flushing, Counts
<1>3. Whole(mem) /\ ReadUpTo(mem, k)
  BY <1>1, <1>2 DEF CreateUpToDate, UnlinkUpToDate, Flushing
<1>4. /\ Whole(mem') /\ mem'.dataBitmap = mem.dataBitmap /\ mem'.inodeBitmap = mem.inodeBitmap
      /\ mem'.inodes = [i \in Inodes |->
               IF i \div InodesPerBlock = k THEN disk.inodes[i] ELSE mem.inodes[i]]
  BY <1>1, <1>3 DEF Whole
<1>5. \A x \in Inodes : x \div InodesPerBlock < k + 1 => mem'.inodes[x] = disk.inodes[x]
  <2>1. SUFFICES ASSUME NEW x \in Inodes, x \div InodesPerBlock < k + 1
                 PROVE  mem'.inodes[x] = disk.inodes[x]
    OBVIOUS
  <2>2. CASE x \div InodesPerBlock = k
    BY <1>4, <2>2
  <2>3. CASE x \div InodesPerBlock # k
    <3>1. x \div InodesPerBlock < k
      BY <1>2, <2>1, <2>3, Layout
    <3> QED
      BY <1>3, <1>4, <2>3, <3>1 DEF ReadUpTo
  <2> QED
    BY <2>2, <2>3
<1>6. Counts(pc, pending, k)'
  BY <1>1, <1>2 DEF Counts
<1>7. ~Begun /\ ~Begun'
  BY <1>1 DEF Begun, Deciding
<1>8. Simulated
  BY <1>1, <1>7, IdleLooksIdle, NextLooksIdle, IdleStutters
<1>9. pc' = "readRegion" => ReadUpTo(mem, k)'
  BY <1>1, <1>5 DEF ReadUpTo
<1>10. pc' # "readRegion" => mem'.inodes = disk.inodes
  <2>1. SUFFICES ASSUME pc' # "readRegion" PROVE mem'.inodes = disk.inodes
    OBVIOUS
  <2>2. \A x \in Inodes : x \div InodesPerBlock < k + 1
    BY <1>1, <1>2, <2>1, Layout
  <2>3. \A x \in Inodes : mem'.inodes[x] = disk.inodes[x]
    BY <1>5, <2>2
  <2> QED
    BY <1>4, <2>3 DEF DiskWhole, Whole
<1>11. CASE CreateUpToDate(pc, job, mem, k) /\ job.op = "create"
  <2>1. pc' \in {"readRegion", "decide"}
    BY <1>1, <1>11
  <2>2. CreateUpToDate(pc, job, mem, k)'
    BY <1>1, <1>4, <1>9, <1>10, <1>11, <2>1 DEF CreateUpToDate, Whole
  <2> QED
    BY <1>1, <1>6, <1>8, <2>2 DEF NowUpToDate, UpToDate
<1>12. CASE UnlinkUpToDate(pc, job, mem, k, seen) /\ job.op = "unlink"
  <2>1. pc' \in {"readRegion", "readDirectory"}
    BY <1>1, <1>12
  <2>2. UnlinkUpToDate(pc, job, mem, k, seen)'
    BY <1>1, <1>4, <1>9, <1>10, <1>12, <2>1 DEF UnlinkUpToDate, Whole
  <2> QED
    BY <1>1, <1>6, <1>8, <2>2 DEF NowUpToDate, UpToDate
<1> QED
  BY <1>2, <1>11, <1>12

LEMMA DirectorySimulates ==
  ASSUME DiskWhole, NowUpToDate, ReadDirectory
  PROVE  NowUpToDate' /\ disk' = disk /\ Simulated
<1>1. /\ pc = "readDirectory" /\ pc' = "readDataBitmap" /\ seen' = disk.blocks
      /\ disk' = disk /\ job' = job /\ pending' = pending /\ mem' = mem /\ k' = k
  BY DEF ReadDirectory, GoOn
<1>2. /\ Counts(pc, pending, k) /\ UnlinkUpToDate(pc, job, mem, k, seen)
  BY <1>1, Reading DEF Flushing, CreateUpToDate
<1>3. UnlinkUpToDate(pc, job, mem, k, seen)'
  BY <1>1, <1>2 DEF UnlinkUpToDate, Flushing, Whole
<1>4. Counts(pc, pending, k)'
  BY <1>1, <1>2 DEF Counts
<1>5. ~Begun /\ ~Begun'
  BY <1>1 DEF Begun, Deciding
<1> QED
  BY <1>1, <1>3, <1>4, <1>5, IdleLooksIdle, NextLooksIdle, IdleStutters
  DEF NowUpToDate, UpToDate

(***************************************************************************)
(* The decisions.  A call that has read everything decides on the image.   *)
(***************************************************************************)
LEMMA BelievesImage ==
  ASSUME DiskWhole, Whole(mem), mem.inodeBitmap = disk.inodeBitmap,
         mem.dataBitmap = disk.dataBitmap, mem.inodes = disk.inodes
  PROVE  Believed(disk.blocks) = disk /\ mem = Meta(disk)
BY DEF DiskWhole, Whole, Believed, Meta

LEMMA AnyArguments ==
  /\ \A i \in Inodes : i \in L!AnyInode
  /\ \A n \in Others : n \in L!AnyName
<1>1. \A i \in Inodes : i \in L!AnyInode
  BY SameLayout, UFSAssumption DEF AnyInode, Inodes
<1>2. Others \subseteq ValidNames
  BY Zenon DEF Others, ValidNames
<1>3. \A n \in ValidNames : n \in AnyName
  BY Zenon DEF AnyName
<1> QED
  BY <1>1, <1>2, <1>3, SameLayout

\* A call that is refused is a whole step of LocalFileSystem.
LEMMA GivenUp ==
  ASSUME LooksIdle, GiveUp
  PROVE  NowUpToDate' /\ disk' = disk /\ Simulated
<1>1. disk' = disk /\ Return(disk)
  BY DEF GiveUp
<1>2. Return(disk')
  BY <1>1 DEF Return
<1>3. Rests(pc, job, pending, mem, k)'
  BY <1>1, <1>2 DEF Return, Rests, Meta
<1> QED
  BY <1>1, <1>2, <1>3, NextLooksIdle, IdleStutters DEF NowUpToDate, UpToDate

\* unlink() decides what LocalFileSystem decides on the image as it is.
LEMMA DecideUnlinkSimulates ==
  ASSUME DiskWhole, NowUpToDate, DecideUnlink
  PROVE  NowUpToDate' /\ disk' = disk /\ Simulated
<1>1. pc = "decide" /\ job.op = "unlink"
  BY DEF DecideUnlink
<1>2. Counts(pc, pending, k) /\ UnlinkUpToDate(pc, job, mem, k, seen) /\ k = 0
  BY <1>1, Reading DEF Flushing, Counts
<1>3. Believed(seen) = disk
  BY <1>1, <1>2, BelievesImage DEF UnlinkUpToDate, Flushing
<1>4. PICK plan \in UnlinkPlans(disk, job.inum, job.name) :
        IF IsRefused(plan) THEN GiveUp ELSE Proceed([job EXCEPT !.ret = plan.ret], plan)
  BY <1>3 DEF DecideUnlink
<1>5. LooksIdle
  BY <1>1, IdleLooksIdle DEF Begun, Deciding
<1>6. CASE IsRefused(plan)
  BY <1>4, <1>5, <1>6, GivenUp
<1>7. CASE ~IsRefused(plan)
  <2> DEFINE j == [op |-> "unlink", inum |-> job.inum, name |-> job.name, ret |-> plan.ret]
  <2>1. /\ job.inum \in Inodes /\ job.name \in Others
        /\ job = [op |-> "unlink", inum |-> job.inum, name |-> job.name, ret |-> job.ret]
    BY <1>2 DEF UnlinkUpToDate
  <2>2. [job EXCEPT !.ret = plan.ret] = j
    BY <2>1
  <2>3. /\ job' = j /\ pending' = plan.writes /\ mem' = plan.mem /\ disk' = disk /\ k' = k
        /\ pc' = IF plan.writes = <<>> THEN "inodeBitmap" ELSE "blocks"
    BY <1>4, <1>7, <2>2 DEF Proceed
  <2>4. UnlinkUpToDate(pc, job, mem, k, seen)'
    BY <2>1, <2>3 DEF UnlinkUpToDate, Flushing
  <2>5. Counts(pc, pending, k)'
    BY <1>2, <2>3 DEF Counts
  <2>6. Begun' /\ ~Creating' /\ ~Writing'
    BY <2>3 DEF Begun, Deciding, Creating, Writing
  <2>7. /\ pcL' = pc' /\ jobL' = j /\ pendingL' = plan.writes /\ memL' = plan.mem
        /\ kL' = 0
    BY <1>2, <2>3, <2>6, NextViews
  <2> HIDE DEF j
  <2>8. L!Proceed(j, plan)
    BY <1>5, <2>3, <2>7 DEF L!Proceed, LooksIdle
  <2>9. L!UnlinkWith(job.inum, job.name, plan)
    BY <1>5, <1>7, <2>8, SamePlans DEF L!UnlinkWith, L!Start, LooksIdle, j
  <2>10. L!Unlink(job.inum, job.name)
    BY <1>4, <2>9, SameUnlink DEF L!Unlink
  <2>11. Simulated
    BY <2>1, <2>10, AnyArguments DEF Simulated, L!Calls
  <2> QED
    BY <2>3, <2>4, <2>5, <2>11 DEF NowUpToDate, UpToDate
<1> QED
  BY <1>6, <1>7

LEMMA AppendToOne ==
  \A x, u : /\ Append(<<>>, u) # <<>> /\ Append(<<x>>, u) # <<>>
            /\ Head(Append(<<x>>, u)) = x /\ Tail(Append(<<x>>, u)) = Append(<<>>, u)
<1>1. SUFFICES ASSUME NEW x, NEW u
               PROVE  /\ Append(<<>>, u) # <<>> /\ Append(<<x>>, u) # <<>>
                      /\ Head(Append(<<x>>, u)) = x /\ Tail(Append(<<x>>, u)) = Append(<<>>, u)
  BY Zenon
<1>2. <<>> \in Seq({x, u}) /\ <<x>> \in Seq({x, u}) /\ u \in {x, u}
  OBVIOUS
<1>3. <<x>> # <<>> /\ Head(<<x>>) = x /\ Tail(<<x>>) = <<>>
  OBVIOUS
<1>4. Append(<<>>, u) # <<>> /\ Append(<<x>>, u) # <<>>
  BY <1>2, AppendProperties
<1>5. Head(Append(<<x>>, u)) = x /\ Tail(Append(<<x>>, u)) = Append(<<>>, u)
  BY <1>2, <1>3, HeadTailAppend
<1> QED
  BY <1>4, <1>5

\* The three outcomes of Link, each but the blocks written before it.
LEMMA LinkOutcome ==
  ASSUME NEW d, NEW p, NEW n, NEW i, NEW m
  PROVE  \/ \E u, r : \A first : Link(d, p, n, i, first, m) = Plan(i, Append(first, u), TRUE, r)
         \/ \A first : Link(d, p, n, i, first, m) = Plan(-ENOTENOUGHSPACE, first, FALSE, Meta(d))
<1> DEFINE ino  == m.inodes[p]
           used == BlocksFor(ino.size)
           slot == First({pos \in PositionsIn(Held(ino, used)) :
                            CellAt(d, ino, pos).inum = -1})
           at   == ino.direct[slot \div EntriesPerBlock]
           b    == Least(DataBlocks \ m.dataBitmap)
           u1   == Update(at, [d.blocks[at] EXCEPT ![slot % EntriesPerBlock] = Entry(n, i)])
           u2   == Update(b, [s \in Slots |-> IF s = 0 THEN Entry(n, i) ELSE Unused])
           m1   == [m EXCEPT !.inodes[p].size = @ + 1]
           m2   == [m EXCEPT !.dataBitmap = @ \cup {b}, !.inodes[p].size = @ + 1,
                             !.inodes[p].direct[used] = b]
           full == used >= DirectPtrs \/ DataBlocks \ m.dataBitmap = {}
<1>1. \A first :
        Link(d, p, n, i, first, m) =
          IF slot # -1 THEN Plan(i, Append(first, u1), TRUE, m1)
          ELSE IF full THEN Plan(-ENOTENOUGHSPACE, first, FALSE, Meta(d))
          ELSE Plan(i, Append(first, u2), TRUE, m2)
  BY DEF Link
<1> HIDE DEF slot, u1, u2, m1, m2, full
<1> QED
  BY <1>1

\* Linking with the block of a new directory before the entry, and without it.
LEMMA LinkInTwo ==
  ASSUME NEW d, NEW p, NEW n, NEW i, NEW m, NEW x
  PROVE  LET both == Link(d, p, n, i, <<x>>, m)
             one  == Link(d, p, n, i, <<>>, m)
         IN  /\ both.writes # <<>> /\ Head(both.writes) = x
             /\ \/ /\ both.ret = i /\ one.ret = i /\ both.mem = one.mem /\ both.commit
                   /\ one.commit /\ one.writes # <<>> /\ Tail(both.writes) = one.writes
                \/ /\ both.ret < 0 /\ Tail(both.writes) = <<>>
                   /\ one.writes = <<>> /\ ~one.commit
<1> DEFINE both == Link(d, p, n, i, <<x>>, m)
           one  == Link(d, p, n, i, <<>>, m)
<1>1. CASE \E u, r : \A first : Link(d, p, n, i, first, m) = Plan(i, Append(first, u), TRUE, r)
  <2> PICK u, r : \A first : Link(d, p, n, i, first, m) = Plan(i, Append(first, u), TRUE, r)
    BY <1>1
  <2>1. both = Plan(i, Append(<<x>>, u), TRUE, r) /\ one = Plan(i, Append(<<>>, u), TRUE, r)
    OBVIOUS
  <2> HIDE DEF both, one
  <2>2. /\ both.ret = i /\ both.mem = r /\ both.commit /\ both.writes = Append(<<x>>, u)
        /\ one.ret = i /\ one.mem = r /\ one.commit /\ one.writes = Append(<<>>, u)
    BY <2>1 DEF Plan
  <2> QED
    BY <2>2, AppendToOne DEF both, one
<1>2. CASE \A first : Link(d, p, n, i, first, m)
                        = Plan(-ENOTENOUGHSPACE, first, FALSE, Meta(d))
  <2>1. /\ both = Plan(-ENOTENOUGHSPACE, <<x>>, FALSE, Meta(d))
        /\ one = Plan(-ENOTENOUGHSPACE, <<>>, FALSE, Meta(d))
    BY <1>2
  <2> HIDE DEF both, one
  <2>2. /\ both.ret = -ENOTENOUGHSPACE /\ both.writes = <<x>>
        /\ one.writes = <<>> /\ ~one.commit
    BY <2>1 DEF Plan
  <2>3. -ENOTENOUGHSPACE < 0
    BY DEF ENOTENOUGHSPACE
  <2>4. <<x>> # <<>> /\ Head(<<x>>) = x /\ Tail(<<x>>) = <<>>
    OBVIOUS
  <2> QED
    BY <2>2, <2>3, <2>4 DEF both, one
<1> QED
  BY <1>1, <1>2, LinkOutcome

\* What the link does depends on the blocks alone.
LEMMA LinkByBlocks ==
  ASSUME NEW d, NEW e, d.blocks = e.blocks, NEW p, NEW n, NEW i, NEW m
  PROVE  LET one == Link(d, p, n, i, <<>>, m)
             two == Link(e, p, n, i, <<>>, m)
         IN  /\ IsRefused(one) = IsRefused(two)
             /\ ~IsRefused(one) => one = two
<1> DEFINE ino      == m.inodes[p]
           used     == BlocksFor(ino.size)
           slot(c)  == First({pos \in PositionsIn(Held(ino, used)) :
                                CellAt(c, ino, pos).inum = -1})
           at(c)    == ino.direct[slot(c) \div EntriesPerBlock]
           b        == Least(DataBlocks \ m.dataBitmap)
           u1(c)    == Update(at(c), [c.blocks[at(c)] EXCEPT
                                        ![slot(c) % EntriesPerBlock] = Entry(n, i)])
           u2       == Update(b, [s \in Slots |-> IF s = 0 THEN Entry(n, i) ELSE Unused])
           m1       == [m EXCEPT !.inodes[p].size = @ + 1]
           m2       == [m EXCEPT !.dataBitmap = @ \cup {b}, !.inodes[p].size = @ + 1,
                                 !.inodes[p].direct[used] = b]
           full     == used >= DirectPtrs \/ DataBlocks \ m.dataBitmap = {}
<1>1. \A c :
        Link(c, p, n, i, <<>>, m) =
          IF slot(c) # -1 THEN Plan(i, Append(<<>>, u1(c)), TRUE, m1)
          ELSE IF full THEN Plan(-ENOTENOUGHSPACE, <<>>, FALSE, Meta(c))
          ELSE Plan(i, Append(<<>>, u2), TRUE, m2)
  BY DEF Link
<1>2. slot(d) = slot(e)
  BY DEF CellAt
<1>3. u1(d) = u1(e)
  <2> HIDE DEF slot
  <2>1. at(d) = at(e)
    BY <1>2
  <2> HIDE DEF at
  <2>2. slot(d) % EntriesPerBlock = slot(e) % EntriesPerBlock
    BY <1>2
  <2>3. d.blocks[at(d)] = e.blocks[at(e)]
    BY <2>1
  <2> QED
    <3> DEFINE cells == d.blocks[at(d)]
               pos   == slot(d) % EntriesPerBlock
    <3>1. u1(d) = Update(at(d), [cells EXCEPT ![pos] = Entry(n, i)])
      OBVIOUS
    <3>2. u1(e) = Update(at(e), [e.blocks[at(e)] EXCEPT ![slot(e) % EntriesPerBlock] = Entry(n, i)])
      OBVIOUS
    <3>3. e.blocks[at(e)] = cells /\ slot(e) % EntriesPerBlock = pos
      BY <2>2, <2>3
    <3> HIDE DEF cells, pos, u1
    <3> QED
      BY <2>1, <3>1, <3>2, <3>3
<1> HIDE DEF slot, u1, u2, m1, m2, full
<1>4. CASE slot(d) = -1 /\ full
  <2>1. Link(d, p, n, i, <<>>, m) = Plan(-ENOTENOUGHSPACE, <<>>, FALSE, Meta(d))
    BY <1>1, <1>4
  <2>2. Link(e, p, n, i, <<>>, m) = Plan(-ENOTENOUGHSPACE, <<>>, FALSE, Meta(e))
    BY <1>1, <1>2, <1>4
  <2>3. \A r, x : IsRefused(Plan(r, <<>>, FALSE, x))
    BY DEF IsRefused, Plan
  <2> HIDE DEF full
  <2>4. IsRefused(Link(d, p, n, i, <<>>, m)) /\ IsRefused(Link(e, p, n, i, <<>>, m))
    BY <2>1, <2>2, <2>3, Zenon
  <2> QED
    BY <2>4, Zenon
<1>5. CASE ~(slot(d) = -1 /\ full)
  <2>1. Link(d, p, n, i, <<>>, m) = Link(e, p, n, i, <<>>, m)
    BY <1>1, <1>2, <1>3, <1>5
  <2> QED
    BY <2>1
<1> QED
  BY <1>4, <1>5

\* create() of a directory decides as LocalFileSystem does when it makes its block;
\* of a file it is still hidden, and decides with the entry.
LEMMA DecideCreateSimulates ==
  ASSUME DiskWhole, NowUpToDate, DecideCreate
  PROVE  NowUpToDate' /\ disk' = disk /\ Simulated
<1> DEFINE i     == Least(Inodes \ disk.inodeBitmap)
           home  == Least(DataBlocks \ disk.dataBitmap)
           first == Update(home, DirBlock(i, job.inum))
           m     == WithInode(disk, job.type)
<1>1. pc = "decide" /\ job.op = "create"
  BY DEF DecideCreate
<1>2. /\ Counts(pc, pending, k) /\ pending = <<>> /\ k = 0
      /\ CreateUpToDate(pc, job, mem, k)
  BY <1>1, Reading DEF Flushing, Counts
<1>3. /\ mem = Meta(disk) /\ Believed(disk.blocks) = disk
      /\ job.inum \in Inodes /\ job.type \in {Directory, RegularFile} /\ job.name \in Others
      /\ job = [op |-> "create", inum |-> job.inum, type |-> job.type, name |-> job.name,
                ret |-> job.ret]
  BY <1>1, <1>2, BelievesImage DEF CreateUpToDate
<1>4. mem.inodeBitmap = disk.inodeBitmap /\ mem.dataBitmap = disk.dataBitmap
      /\ mem.inodes = disk.inodes
  BY <1>3 DEF Meta
<1>5. WithInode(mem, job.type) = m
  BY <1>4 DEF WithInode
<1>6. LooksIdle
  BY <1>1, IdleLooksIdle DEF Begun, Deciding
<1> DEFINE checks == CreateChecks(disk, job.inum, job.type, job.name)
<1>7. CASE checks # Passes
  <2>1. GiveUp
    BY <1>3, <1>7 DEF DecideCreate
  <2> QED
    BY <1>6, <2>1, GivenUp
<1>8. CASE checks = Passes
  <2>1. /\ mem' = m /\ job' = [job EXCEPT !.ret = i] /\ disk' = disk /\ k' = k
        /\ IF job.type = Directory
           THEN pc' = "home" /\ pending' = <<first>>
           ELSE pc' = "link" /\ pending' = pending
    BY <1>3, <1>4, <1>5, <1>8 DEF DecideCreate
  <2> HIDE DEF i, home, first, m, checks
  <2>2. job' = [op |-> "create", inum |-> job.inum, type |-> job.type, name |-> job.name,
                ret |-> i]
    BY <1>3, <2>1
  <2>3. CASE job.type # Directory
    <3>1. job.type = RegularFile /\ pc' = "link" /\ pending' = <<>>
      BY <1>2, <1>3, <2>1, <2>3
    <3>3. MadeFrom(job, mem)'
      BY <1>8, <2>1, <2>2 DEF MadeFrom, checks, i, m
    <3>4. CreateUpToDate(pc, job, mem, k)'
      BY <1>3, <2>2, <3>1, <3>3 DEF CreateUpToDate, Flushing
    <3>5. Counts(pc, pending, k)'
      BY <1>2, <2>1, <3>1 DEF Counts
    <3>6. ~Begun'
      BY <2>2, <2>3, <3>1 DEF Begun
    <3> QED
      BY <1>6, <2>1, <3>4, <3>5, <3>6, NextLooksIdle, IdleStutters DEF NowUpToDate, UpToDate
  <2>4. CASE job.type = Directory
    <3>1. pc' = "home" /\ pending' = <<first>>
      BY <2>1, <2>4
    <3>2. CreateUpToDate(pc, job, mem, k)'
      BY <1>3, <2>2, <2>4, <3>1 DEF CreateUpToDate, Flushing
    <3>3. Counts(pc, pending, k)'
      BY <1>2, <2>1, <3>1 DEF Counts
    <3>4. Begun' /\ Creating'
      BY <3>1 DEF Begun, Creating, Deciding
    <3> DEFINE written == [disk EXCEPT !.blocks[home] = DirBlock(i, job.inum)]
               plan    == Link(written, job.inum, job.name, i, <<first>>, m)
               j       == [op |-> "create", inum |-> job.inum, type |-> job.type,
                           name |-> job.name, ret |-> plan.ret]
    <3>5. CreatePlan(disk, job.inum, job.type, job.name) = plan
      BY <1>8, <2>4 DEF CreatePlan, checks, i, home, first, m
    <3>6. LinkPlan' = plan
      <4>1. Head(pending').addr = home /\ Head(pending').cells = DirBlock(i, job.inum)
        BY <3>1 DEF first, Update
      <4>2. [disk' EXCEPT !.blocks = [disk'.blocks EXCEPT ![Head(pending').addr]
                                                     = Head(pending').cells]] = written
        BY <2>1, <4>1
      <4>3. job'.inum = job.inum /\ job'.name = job.name /\ job'.ret = i
        BY <2>2
      <4> HIDE DEF written
      <4> QED
        BY <2>1, <3>1, <4>2, <4>3 DEF LinkPlan
    <3>7. plan.writes # <<>>
      <4> HIDE DEF written
      <4> QED
        BY LinkInTwo
    <3> HIDE DEF written, plan
    <3>8. [job' EXCEPT !.ret = plan.ret] = j
      BY <2>2
    <3>9. /\ pcL' = "blocks" /\ jobL' = j /\ pendingL' = plan.writes /\ memL' = plan.mem
          /\ kL' = 0 /\ disk' = disk
      BY <1>2, <2>1, <3>4, <3>6, <3>8, NextViews
    <3> HIDE DEF j
    <3>10. L!Proceed(j, plan)
      BY <1>6, <3>7, <3>9 DEF L!Proceed, LooksIdle
    <3>11. ~L!IsRefused(plan)
      BY <3>7 DEF L!IsRefused
    <3>12. L!CreatePlan(disk, job.inum, job.type, job.name) = plan
      BY <3>5, SameCreate
    <3>13. L!Create(job.inum, job.type, job.name)
      BY <1>6, <3>10, <3>11, <3>12 DEF L!Create, L!Start, LooksIdle, j
    <3>14. Simulated
      BY <1>3, <3>13, AnyArguments, SameLayout DEF Simulated, L!Calls
    <3> QED
      BY <2>1, <3>2, <3>3, <3>14 DEF NowUpToDate, UpToDate
  <2> QED
    BY <2>3, <2>4
<1> QED
  BY <1>7, <1>8

\* A new directory's block is written as there.  What create() will then do to the
\* parent is the rest of the plan it is seen with.
LEMMA WriteHomeSimulates ==
  ASSUME DiskWhole, NowUpToDate, WriteHome
  PROVE  DiskWhole' /\ NowUpToDate' /\ Simulated
<1>1. /\ pc = "home" /\ pc' = "link" /\ pending' = <<>>
      /\ job' = job /\ mem' = mem /\ k' = k /\ seen' = seen
      /\ disk' = [disk EXCEPT !.blocks[Head(pending).addr] = Head(pending).cells]
  BY DEF WriteHome
<1>2. CreateUpToDate(pc, job, mem, k) /\ Counts(pc, pending, k)
  BY <1>1 DEF NowUpToDate, UpToDate, Rests, UnlinkUpToDate, WriteUpToDate, Flushing
<1>3. /\ job.inum \in Inodes /\ job.type = Directory /\ job.name \in Others
      /\ job = [op |-> "create", inum |-> job.inum, type |-> job.type, name |-> job.name,
                ret |-> job.ret]
  BY <1>1, <1>2 DEF CreateUpToDate
<1>4. PICK x : pending = <<x>>
  BY <1>1, <1>2 DEF Counts
<1>5. Head(pending) = x /\ Tail(pending) = <<>>
  BY <1>4
<1> DEFINE blocks == [disk.blocks EXCEPT ![x.addr] = x.cells]
           after  == [disk EXCEPT !.blocks = blocks]
           both   == Link(after, job.inum, job.name, job.ret, <<x>>, mem)
           one    == Link(after, job.inum, job.name, job.ret, <<>>, mem)
<1>6. disk' = after
  BY <1>1, <1>5
<1>7. DiskWhole'
  <2>1. /\ after = [inodeBitmap |-> after.inodeBitmap, dataBitmap |-> after.dataBitmap,
                    inodes |-> after.inodes, blocks |-> after.blocks]
        /\ after.inodes = [i \in Inodes |-> after.inodes[i]]
    BY DEF DiskWhole
  <2> HIDE DEF after
  <2> QED
    BY <1>6, <2>1 DEF DiskWhole
<1>8. NowUpToDate'
  <2>1. CreateUpToDate(pc, job, mem, k)'
    BY <1>1, <1>3 DEF CreateUpToDate, Flushing, Directory, RegularFile
  <2>2. Counts(pc, pending, k)'
    BY <1>1, <1>2 DEF Counts
  <2> QED
    BY <2>1, <2>2 DEF NowUpToDate, UpToDate
<1>9. LinkPlan = both
  BY <1>1, <1>4, <1>5 DEF LinkPlan
<1>10. LinkPlan' = one
  <2>1. [disk' EXCEPT !.blocks = disk'.blocks] = after
    <3>1. after.blocks = blocks
      BY DEF DiskWhole
    <3> HIDE DEF blocks
    <3>2. [after EXCEPT !.blocks = after.blocks] = after
      BY <3>1
    <3> HIDE DEF after
    <3> QED
      BY <1>6, <3>2
  <2> HIDE DEF after
  <2> QED
    BY <1>1, <2>1 DEF LinkPlan
<1>11. Begun /\ Creating
  BY <1>1 DEF Begun, Creating, Deciding
<1> HIDE DEF blocks, after
<1>12. /\ both.writes # <<>> /\ Head(both.writes) = x
       /\ \/ /\ both.ret = job.ret /\ one.ret = job.ret /\ both.mem = one.mem
             /\ one.commit /\ one.writes # <<>> /\ Tail(both.writes) = one.writes
          \/ /\ both.ret < 0 /\ Tail(both.writes) = <<>>
             /\ one.writes = <<>> /\ ~one.commit
  BY LinkInTwo
<1> HIDE DEF both, one
<1>13. /\ pcL = "blocks" /\ jobL = [job EXCEPT !.ret = both.ret] /\ pendingL = both.writes
       /\ memL = both.mem /\ kL = k
  BY <1>9, <1>11, Views
<1>14. disk' = [disk EXCEPT !.blocks[Head(pendingL).addr] = Head(pendingL).cells]
  BY <1>1, <1>5, <1>12, <1>13
<1>15. CASE IsRefused(one)
  <2>1. both.ret < 0 /\ Tail(both.writes) = <<>>
    BY <1>12, <1>15 DEF IsRefused
  <2>2. jobL.ret = both.ret
    BY <1>3, <1>13
  <2>3. ~Begun'
    BY <1>1, <1>10, <1>15 DEF Begun
  <2>4. L!Return(disk')
    BY <2>3, NextLooksIdle, SamePlans, SameLayout DEF LooksIdle, L!Return, Meta
  <2>5. L!FlushBlock
    BY <1>13, <1>14, <2>1, <2>2, <2>4 DEF L!FlushBlock
  <2> QED
    BY <1>7, <1>8, <2>5, StepSimulates DEF L!Flush
<1>16. CASE ~IsRefused(one)
  <2>1. /\ both.ret = job.ret /\ one.ret = job.ret /\ both.mem = one.mem
        /\ one.writes # <<>> /\ Tail(both.writes) = one.writes
    BY <1>12, <1>16 DEF IsRefused
  <2>2. Begun' /\ Creating'
    BY <1>1, <1>3, <1>10, <1>16 DEF Begun, Creating, Deciding
  <2>3. /\ pcL' = "blocks" /\ jobL' = [job EXCEPT !.ret = one.ret] /\ pendingL' = one.writes
        /\ memL' = one.mem /\ kL' = k
    BY <1>1, <1>10, <2>2, NextViews
  <2>4. L!FlushBlock
    BY <1>13, <1>14, <2>1, <2>3 DEF L!FlushBlock
  <2> QED
    BY <1>7, <1>8, <2>4, StepSimulates DEF L!Flush
<1> QED
  BY <1>15, <1>16

\* The entry: of a directory, it was decided there already; of a file, the whole
\* decision is made here.
LEMMA LinkEntrySimulates ==
  ASSUME DiskWhole, NowUpToDate, LinkEntry
  PROVE  NowUpToDate' /\ disk' = disk /\ Simulated
<1> DEFINE plan == Link(Believed(disk.blocks), job.inum, job.name, job.ret, <<>>, mem)
<1>1. /\ pc = "link" /\ seen' = seen
      /\ IF IsRefused(plan) THEN GiveUp ELSE Proceed(job, plan)
  BY DEF LinkEntry
<1>2. CreateUpToDate(pc, job, mem, k) /\ Counts(pc, pending, k) /\ pending = <<>> /\ k = 0
  BY <1>1, Reading DEF Flushing, Counts, UnlinkUpToDate, WriteUpToDate
<1>3. /\ job.inum \in Inodes /\ job.type \in {Directory, RegularFile} /\ job.name \in Others
      /\ job = [op |-> "create", inum |-> job.inum, type |-> job.type, name |-> job.name,
                ret |-> job.ret]
  BY <1>1, <1>2 DEF CreateUpToDate
<1> DEFINE here == Link(disk, job.inum, job.name, job.ret, <<>>, mem)
<1>4. IsRefused(plan) = IsRefused(here) /\ (~IsRefused(here) => plan = here)
  <2>1. Believed(disk.blocks).blocks = disk.blocks
    BY DEF Believed
  <2> QED
    BY <2>1, LinkByBlocks
<1>5. ~IsRefused(here) => here.ret = job.ret /\ here.writes # <<>>
  <2>1. PICK x : x = 0
    OBVIOUS
  <2> DEFINE both == Link(disk, job.inum, job.name, job.ret, <<x>>, mem)
  <2>2. \/ both.ret = job.ret /\ here.ret = job.ret /\ here.writes # <<>>
        \/ both.ret < 0 /\ here.writes = <<>> /\ ~here.commit
    BY LinkInTwo
  <2> HIDE DEF here, both
  <2> QED
    BY <2>2 DEF IsRefused
<1>6. LinkPlan = here
  <2>1. [disk EXCEPT !.blocks = disk.blocks] = disk
    BY DEF DiskWhole
  <2> QED
    BY <1>1, <1>2, <2>1 DEF LinkPlan
<1> HIDE DEF plan, here
<1>7. CASE IsRefused(here)
  <2>1. ~Begun
    BY <1>1, <1>6, <1>7 DEF Begun
  <2> QED
    BY <1>1, <1>4, <1>7, <2>1, IdleLooksIdle, GivenUp
<1>8. CASE ~IsRefused(here)
  <2>1. /\ job' = job /\ pending' = here.writes /\ mem' = here.mem /\ disk' = disk /\ k' = k
        /\ pc' = "blocks" /\ here.ret = job.ret /\ here.writes # <<>>
    BY <1>1, <1>4, <1>5, <1>8 DEF Proceed
  <2>2. CreateUpToDate(pc, job, mem, k)'
    BY <1>3, <2>1 DEF CreateUpToDate, Flushing
  <2>3. Counts(pc, pending, k)'
    BY <1>2, <2>1 DEF Counts
  <2>4. Begun' /\ ~Creating' /\ ~Writing'
    BY <2>1 DEF Begun, Deciding, Creating, Writing
  <2>5. /\ pcL' = "blocks" /\ jobL' = job /\ pendingL' = here.writes /\ memL' = here.mem
        /\ kL' = 0
    BY <1>2, <2>1, <2>4, NextViews
  <2>6. CASE job.type = Directory
    <3>1. Begun /\ Creating
      BY <1>1, <1>6, <1>8, <2>6 DEF Begun, Creating, Deciding
    <3>2. /\ pcL = "blocks" /\ jobL = [job EXCEPT !.ret = here.ret]
          /\ pendingL = here.writes /\ memL = here.mem /\ kL = 0
      BY <1>2, <1>6, <3>1, Views
    <3>3. [job EXCEPT !.ret = here.ret] = job
      BY <1>3, <2>1
    <3>4. Simulated
      BY <2>1, <2>5, <3>2, <3>3 DEF Simulated, L!vars
    <3> QED
      BY <2>1, <2>2, <2>3, <3>4 DEF NowUpToDate, UpToDate
  <2>7. CASE job.type # Directory
    <3>1. job.type = RegularFile /\ MadeFrom(job, mem)
      BY <1>1, <1>2, <1>3, <2>7 DEF CreateUpToDate
    <3>2. LooksIdle
      BY <1>1, <2>7, IdleLooksIdle DEF Begun
    <3>3. CreatePlan(disk, job.inum, job.type, job.name) = here
      BY <2>7, <3>1 DEF MadeFrom, CreatePlan, here
    <3>4. L!CreatePlan(disk, job.inum, job.type, job.name) = here
      BY <3>3, SameCreate
    <3>5. L!Proceed(job, here)
      BY <2>1, <2>5, <3>2 DEF L!Proceed, LooksIdle
    <3>6. ~L!IsRefused(here)
      BY <1>8, SamePlans
    <3>7. job = [op |-> "create", inum |-> job.inum, type |-> job.type, name |-> job.name,
                 ret |-> here.ret]
      BY <1>3, <2>1
    <3>8. L!Create(job.inum, job.type, job.name)
      BY <3>2, <3>4, <3>5, <3>6, <3>7 DEF L!Create, L!Start, LooksIdle
    <3>9. Simulated
      BY <1>3, <3>8, AnyArguments, SameLayout DEF Simulated, L!Calls
    <3> QED
      BY <2>1, <2>2, <2>3, <3>9 DEF NowUpToDate, UpToDate
  <2> QED
    BY <2>6, <2>7
<1> QED
  BY <1>7, <1>8

(***************************************************************************)
(* write().                                                                *)
(***************************************************************************)
LEMMA InWrite ==
  ASSUME DiskWhole, NowUpToDate,
         pc = "write" \/ (pc \in {"dataBitmap", "region"} /\ job.op = "write")
  PROVE  /\ WriteUpToDate(pc, job, mem) /\ Counts(pc, pending, k) /\ job.op = "write"
         /\ pending = <<>> /\ k \in Nat /\ job.inum \in Inodes
         /\ pcL = pc /\ jobL = job /\ pendingL = <<>> /\ kL = k /\ Whole(memL)
         /\ memL.inodeBitmap = disk.inodeBitmap /\ memL.dataBitmap = mem.dataBitmap
         /\ memL.inodes = [disk.inodes EXCEPT ![job.inum] = mem.inodes[job.inum]]
         /\ memL.inodes[job.inum] = mem.inodes[job.inum]
<1>1. WriteUpToDate(pc, job, mem) /\ Counts(pc, pending, k)
  BY DEF NowUpToDate, UpToDate, Rests, CreateUpToDate, UnlinkUpToDate, Flushing
<1>2. job.op = "write" /\ pending = <<>> /\ k \in Nat /\ job.inum \in Inodes
  BY <1>1 DEF WriteUpToDate, Counts
<1>3. Begun /\ ~Creating /\ Writing
  BY <1>2 DEF Begun, Deciding, Creating, Writing
<1>4. /\ pcL = pc /\ jobL = job /\ pendingL = <<>> /\ kL = k
      /\ memL = [mem EXCEPT !.inodeBitmap = disk.inodeBitmap,
                            !.inodes = [disk.inodes EXCEPT
                                          ![job.inum] = mem.inodes[job.inum]]]
  BY <1>2, <1>3, Views
<1>5. /\ memL.inodeBitmap = disk.inodeBitmap /\ memL.dataBitmap = mem.dataBitmap
      /\ memL.inodes = [disk.inodes EXCEPT ![job.inum] = mem.inodes[job.inum]]
      /\ memL = [inodeBitmap |-> memL.inodeBitmap, dataBitmap |-> memL.dataBitmap,
                 inodes |-> memL.inodes]
  BY <1>1, <1>4 DEF WriteUpToDate, Whole
<1>6. /\ memL.inodes = [i \in Inodes |-> memL.inodes[i]]
      /\ memL.inodes[job.inum] = mem.inodes[job.inum]
  BY <1>2, <1>5 DEF DiskWhole
<1> QED
  BY <1>1, <1>2, <1>4, <1>5, <1>6 DEF Whole

\* What LocalFileSystem sees of write() after a step of it.
LEMMA StillInWrite ==
  ASSUME DiskWhole', Whole(mem)', job' = job, job.op = "write", job.inum \in Inodes,
         pc' \in {"write", "dataBitmap", "region"}
  PROVE  /\ pcL' = pc' /\ jobL' = job /\ pendingL' = pending' /\ kL' = k'
         /\ memL' = [inodeBitmap |-> disk'.inodeBitmap, dataBitmap |-> mem'.dataBitmap,
                     inodes |-> [disk'.inodes EXCEPT ![job.inum] = mem'.inodes[job.inum]]]
<1>1. Begun' /\ ~Creating' /\ Writing'
  BY DEF Begun, Deciding, Creating, Writing
<1>2. /\ pcL' = pc' /\ jobL' = job /\ pendingL' = pending' /\ kL' = k'
      /\ memL' = [mem' EXCEPT !.inodeBitmap = disk'.inodeBitmap,
                              !.inodes = [disk'.inodes EXCEPT
                                            ![job.inum] = mem'.inodes[job.inum]]]
  BY <1>1, NextViews
<1> QED
  BY <1>2 DEF Whole

\* A block of the body is written.
LEMMA ChunkWritten ==
  ASSUME DiskWhole, NEW b, PutChunk(b)
  PROVE  /\ DiskWhole' /\ disk'.inodes = disk.inodes
         /\ disk'.inodeBitmap = disk.inodeBitmap
<1> DEFINE c == Chunk(job.text, job.ret, k)
           d == [disk EXCEPT !.blocks[b] = c]
<1>1. disk' = d
  BY DEF PutChunk
<1> HIDE DEF c
<1>2. /\ d = [inodeBitmap |-> disk.inodeBitmap, dataBitmap |-> disk.dataBitmap,
              inodes |-> disk.inodes, blocks |-> d.blocks]
      /\ d.inodes = disk.inodes /\ d.inodeBitmap = disk.inodeBitmap
      /\ d.dataBitmap = disk.dataBitmap
  BY DEF DiskWhole
<1> HIDE DEF d
<1> QED
  BY <1>1, <1>2 DEF DiskWhole

\* The three outcomes of one turn of write()'s loop.
LEMMA WriteReuseSimulates ==
  ASSUME DiskWhole, NowUpToDate, WriteReuse
  PROVE  DiskWhole' /\ NowUpToDate' /\ Simulated
<1> DEFINE ino == mem.inodes[job.inum]
           b   == ino.direct[k]
<1>1. /\ pc = "write" /\ InLoop /\ Reuses(ino) /\ b \in DataBlocks /\ PutChunk(b)
      /\ k' = k + 1 /\ pc' = pc /\ job' = job /\ pending' = pending /\ mem' = mem
  BY DEF WriteReuse, InLoop
<1>2. DiskWhole' /\ disk'.inodes = disk.inodes /\ disk'.inodeBitmap = disk.inodeBitmap
  BY <1>1, ChunkWritten
<1>3. /\ WriteUpToDate(pc, job, mem) /\ Counts(pc, pending, k) /\ job.op = "write"
      /\ pending = <<>> /\ k \in Nat /\ job.inum \in Inodes
      /\ pcL = pc /\ jobL = job /\ pendingL = <<>> /\ kL = k /\ Whole(memL)
      /\ memL.inodeBitmap = disk.inodeBitmap /\ memL.dataBitmap = mem.dataBitmap
      /\ memL.inodes = [disk.inodes EXCEPT ![job.inum] = mem.inodes[job.inum]]
      /\ memL.inodes[job.inum] = ino
  BY <1>1, InWrite
<1>4. WriteUpToDate(pc, job, mem)' /\ Whole(mem)'
  BY <1>1, <1>3 DEF WriteUpToDate, Whole
<1>5. Counts(pc, pending, k)'
  BY <1>1, <1>3 DEF Counts
<1>6. pcL' = pcL /\ jobL' = jobL /\ pendingL' = pendingL /\ kL' = kL + 1 /\ memL' = memL
  <2>1. /\ pcL' = pc' /\ jobL' = job /\ pendingL' = pending' /\ kL' = k'
        /\ memL' = [inodeBitmap |-> disk'.inodeBitmap, dataBitmap |-> mem'.dataBitmap,
                    inodes |-> [disk'.inodes EXCEPT ![job.inum] = mem'.inodes[job.inum]]]
    BY <1>1, <1>2, <1>3, <1>4, StillInWrite
  <2>2. memL' = memL
    BY <1>1, <1>2, <1>3, <2>1 DEF Whole
  <2> QED
    BY <1>1, <1>3, <2>1, <2>2
<1>7. L!PutChunk(b)
  BY <1>1, <1>3, SamePlans DEF L!PutChunk, PutChunk
<1>8. L!InLoop /\ L!Reuses(ino)
  BY <1>1, <1>3, SameReading, SameLayout DEF L!InLoop, InLoop, L!Reuses, Reuses
<1>9. L!WriteReuse
  BY <1>1, <1>3, <1>6, <1>7, <1>8, SameLayout DEF L!WriteReuse
<1> QED
  BY <1>2, <1>4, <1>5, <1>9, StepSimulates DEF NowUpToDate, UpToDate, L!WriteSteps

LEMMA WriteAllocateSimulates ==
  ASSUME DiskWhole, NowUpToDate, WriteAllocate
  PROVE  DiskWhole' /\ NowUpToDate' /\ Simulated
<1> DEFINE ino == mem.inodes[job.inum]
           b   == Least(DataBlocks \ mem.dataBitmap)
           new == [ino EXCEPT !.direct[k] = b]
<1>1. /\ pc = "write" /\ InLoop /\ ~Reuses(ino) /\ mem.dataBitmap # DataBlocks /\ PutChunk(b)
      /\ mem' = [mem EXCEPT !.dataBitmap = @ \cup {b}, !.inodes[job.inum].direct[k] = b]
      /\ k' = k + 1 /\ pc' = pc /\ job' = job /\ pending' = pending
  BY DEF WriteAllocate, InLoop
<1>2. DiskWhole' /\ disk'.inodes = disk.inodes /\ disk'.inodeBitmap = disk.inodeBitmap
  BY <1>1, ChunkWritten
<1>3. /\ WriteUpToDate(pc, job, mem) /\ Counts(pc, pending, k) /\ job.op = "write"
      /\ pending = <<>> /\ k \in Nat /\ job.inum \in Inodes
      /\ pcL = pc /\ jobL = job /\ pendingL = <<>> /\ kL = k /\ Whole(memL)
      /\ memL.inodeBitmap = disk.inodeBitmap /\ memL.dataBitmap = mem.dataBitmap
      /\ memL.inodes = [disk.inodes EXCEPT ![job.inum] = mem.inodes[job.inum]]
      /\ memL.inodes[job.inum] = ino
  BY <1>1, InWrite
<1>4. Whole(mem)
  BY <1>3 DEF WriteUpToDate
<1> HIDE DEF b
<1>5. /\ Whole(mem)' /\ mem'.dataBitmap = mem.dataBitmap \cup {b}
      /\ mem'.inodes[job.inum] = new
  BY <1>1, <1>3, <1>4 DEF Whole
<1>6. WriteUpToDate(pc, job, mem)'
  BY <1>1, <1>3, <1>5 DEF WriteUpToDate, Whole
<1>7. Counts(pc, pending, k)'
  BY <1>1, <1>3 DEF Counts
<1>8. /\ pcL' = pcL /\ jobL' = jobL /\ pendingL' = pendingL /\ kL' = kL + 1
      /\ memL' = [memL EXCEPT !.dataBitmap = @ \cup {b}, !.inodes[job.inum].direct[k] = b]
  <2>1. /\ pcL' = pc' /\ jobL' = job /\ pendingL' = pending' /\ kL' = k'
        /\ memL' = [inodeBitmap |-> disk'.inodeBitmap, dataBitmap |-> mem'.dataBitmap,
                    inodes |-> [disk'.inodes EXCEPT ![job.inum] = mem'.inodes[job.inum]]]
    BY <1>1, <1>2, <1>3, <1>5, StillInWrite
  <2>2. memL' = [inodeBitmap |-> disk.inodeBitmap, dataBitmap |-> mem.dataBitmap \cup {b},
                 inodes |-> [disk.inodes EXCEPT ![job.inum] = new]]
    BY <1>2, <1>5, <2>1
  <2>3. [memL.inodes EXCEPT ![job.inum].direct[k] = b] = [disk.inodes EXCEPT ![job.inum] = new]
    <3>1. [memL.inodes EXCEPT ![job.inum].direct[k] = b] = [memL.inodes EXCEPT ![job.inum] = new]
      BY <1>3
    <3> HIDE DEF new
    <3> QED
      BY <1>3, <3>1 DEF DiskWhole
  <2>4. [memL EXCEPT !.dataBitmap = @ \cup {b}, !.inodes[job.inum].direct[k] = b]
          = [inodeBitmap |-> memL.inodeBitmap, dataBitmap |-> memL.dataBitmap \cup {b},
             inodes |-> [memL.inodes EXCEPT ![job.inum].direct[k] = b]]
    <3> DEFINE m1 == [memL EXCEPT !.dataBitmap = @ \cup {b}]
    <3>1. m1 = [inodeBitmap |-> memL.inodeBitmap, dataBitmap |-> memL.dataBitmap \cup {b},
                inodes |-> memL.inodes]
      BY <1>3, PartReplaced
    <3>2. [memL EXCEPT !.dataBitmap = @ \cup {b}, !.inodes[job.inum].direct[k] = b]
            = [m1 EXCEPT !.inodes[job.inum].direct[k] = b]
      OBVIOUS
    <3>3. m1.inodes = memL.inodes
      BY <3>1
    <3> HIDE DEF m1
    <3>4. [m1 EXCEPT !.inodes[job.inum].direct[k] = b]
            = [m1 EXCEPT !.inodes = [memL.inodes EXCEPT ![job.inum].direct[k] = b]]
      BY <3>3
    <3> QED
      BY <3>1, <3>2, <3>4
  <2>5. memL.inodeBitmap = disk.inodeBitmap /\ memL.dataBitmap = mem.dataBitmap
    BY <1>3
  <2>6. memL' = [memL EXCEPT !.dataBitmap = @ \cup {b}, !.inodes[job.inum].direct[k] = b]
    BY <2>2, <2>3, <2>4, <2>5
  <2> QED
    BY <1>1, <1>3, <2>1, <2>6
<1>9. L!PutChunk(b)
  BY <1>1, <1>3, SamePlans DEF L!PutChunk, PutChunk
<1>10. L!InLoop /\ ~L!Reuses(ino)
  BY <1>1, <1>3, SameReading, SameLayout DEF L!InLoop, InLoop, L!Reuses, Reuses
<1>11. L!Least(L!DataBlocks \ memL.dataBitmap) = b
  BY <1>3, SameReading, SameLayout DEF b
<1>12. L!WriteAllocate
  BY <1>1, <1>3, <1>8, <1>9, <1>10, <1>11, SameLayout DEF L!WriteAllocate
<1> QED
  BY <1>2, <1>6, <1>7, <1>12, StepSimulates DEF NowUpToDate, UpToDate, L!WriteSteps

\* A call that has returned rests.
LEMMA Returned ==
  ASSUME Return(disk')
  PROVE  NowUpToDate'
BY DEF Return, NowUpToDate, UpToDate, Rests, Meta

LEMMA WriteFailsSimulates ==
  ASSUME DiskWhole, NowUpToDate, WriteFails
  PROVE  NowUpToDate' /\ disk' = disk /\ Simulated
<1> DEFINE ino == mem.inodes[job.inum]
<1>1. /\ pc = "write" /\ InLoop /\ disk' = disk /\ Return(disk)
      /\ IF Reuses(ino) THEN ino.direct[k] \notin DataBlocks ELSE mem.dataBitmap = DataBlocks
  BY DEF WriteFails, InLoop
<1>2. /\ pcL = pc /\ jobL = job /\ kL = k /\ memL.dataBitmap = mem.dataBitmap
      /\ memL.inodes[job.inum] = ino
  BY <1>1, InWrite
<1>3. Return(disk')
  BY <1>1 DEF Return
<1>4. L!Return(disk)
  BY <1>1, <1>3, LReturns DEF L!Return
<1>5. L!InLoop /\ L!Reuses(ino) = Reuses(ino)
  BY <1>1, <1>2, SameReading, SameLayout DEF L!InLoop, InLoop, L!Reuses, Reuses
<1>6. L!WriteFails
  BY <1>1, <1>2, <1>4, <1>5, SameLayout DEF L!WriteFails
<1> QED
  BY <1>1, <1>3, <1>6, Returned, StepSimulates DEF L!WriteSteps

\* The end of write()'s loop.
LEMMA WriteTrimSimulates ==
  ASSUME DiskWhole, NowUpToDate, WriteTrim
  PROVE  NowUpToDate' /\ disk' = disk /\ Simulated
<1> DEFINE ino  == mem.inodes[job.inum]
           drop == {i \in Held(ino, BlocksFor(ino.size)) : i >= BlocksFor(job.ret)}
           old  == {ino.direct[i] : i \in drop}
           new  == [ino EXCEPT !.size = job.ret,
                               !.direct = [i \in Ptrs |-> IF i \in drop THEN NoBlock
                                                          ELSE ino.direct[i]]]
           trimmed(m) == [m EXCEPT !.dataBitmap = @ \ old, !.inodes[job.inum] = new]
<1>1. PICK lucky \in BOOLEAN :
        /\ pc = "write" /\ k = BlocksFor(job.ret) /\ disk' = disk
        /\ IF StrayBit(old, lucky)
           THEN pc' = "dataBitmap" /\ k' = 0 /\ mem' = trimmed(mem)
                /\ job' = job /\ pending' = pending
           ELSE Return(disk)
  BY DEF WriteTrim
<1>2. /\ WriteUpToDate(pc, job, mem) /\ Counts(pc, pending, k) /\ job.op = "write"
      /\ pending = <<>> /\ job.inum \in Inodes
      /\ pcL = pc /\ jobL = job /\ pendingL = <<>> /\ kL = k /\ Whole(memL)
      /\ memL.inodeBitmap = disk.inodeBitmap /\ memL.dataBitmap = mem.dataBitmap
      /\ memL.inodes = [disk.inodes EXCEPT ![job.inum] = mem.inodes[job.inum]]
      /\ memL.inodes[job.inum] = ino
  BY <1>1, InWrite
<1>3. Whole(mem)
  BY <1>2 DEF WriteUpToDate
<1> DEFINE lino  == memL.inodes[jobL.inum]
           ldrop == {i \in L!Held(lino, L!BlocksFor(lino.size)) : i >= L!BlocksFor(jobL.ret)}
           lold  == {lino.direct[i] : i \in ldrop}
           lnew  == [lino EXCEPT !.size = jobL.ret,
                                 !.direct = [i \in L!Ptrs |-> IF i \in ldrop THEN L!NoBlock
                                                              ELSE lino.direct[i]]]
<1>4. lino = ino /\ jobL.ret = job.ret
  BY <1>2
<1>5. ldrop = drop
  <2> HIDE DEF ino, lino
  <2> QED
    BY <1>4, SameReading
<1>6. lold = old /\ lnew = new
  <2> HIDE DEF ldrop, drop, lino, ino
  <2>1. [i \in L!Ptrs |-> IF i \in ldrop THEN L!NoBlock ELSE lino.direct[i]]
          = [i \in Ptrs |-> IF i \in drop THEN NoBlock ELSE ino.direct[i]]
    BY <1>4, <1>5, SameLayout
  <2> QED
    BY <1>4, <1>5, <2>1
<1>7. \A l \in BOOLEAN : L!StrayBit(lold, l) = StrayBit(old, l)
  BY <1>6, SamePlans
<1>8. k = L!BlocksFor(job.ret)
  BY <1>1, SameReading
<1>9. (/\ pcL = "write" /\ kL = L!BlocksFor(jobL.ret)
       /\ \E l \in BOOLEAN :
            IF L!StrayBit(lold, l)
            THEN /\ pcL' = "dataBitmap" /\ kL' = 0
                 /\ memL' = [memL EXCEPT !.dataBitmap = @ \ lold, !.inodes[jobL.inum] = lnew]
                 /\ UNCHANGED <<jobL, pendingL>>
            ELSE L!Return(disk)
       /\ UNCHANGED disk) => L!WriteTrim
  BY DEF L!WriteTrim
<1> HIDE DEF drop, old, new, ldrop, lold, lnew, lino
<1>10. CASE ~StrayBit(old, lucky)
  <2>1. Return(disk) /\ Return(disk')
    BY <1>1, <1>10 DEF Return
  <2>2. L!Return(disk)
    BY <1>1, <2>1, LReturns DEF L!Return
  <2>3. L!WriteTrim
    BY <1>1, <1>2, <1>7, <1>8, <1>9, <1>10, <2>2
  <2> QED
    BY <1>1, <2>1, <2>3, Returned, StepSimulates DEF L!WriteSteps
<1>11. CASE StrayBit(old, lucky)
  <2>1. /\ pc' = "dataBitmap" /\ k' = 0 /\ mem' = trimmed(mem)
        /\ job' = job /\ pending' = pending
    BY <1>1, <1>11
  <2>2. ASSUME NEW m, Whole(m)
        PROVE  /\ trimmed(m) = [inodeBitmap |-> m.inodeBitmap, dataBitmap |-> m.dataBitmap \ old,
                                inodes |-> [m.inodes EXCEPT ![job.inum] = new]]
    <3> DEFINE m1 == [m EXCEPT !.dataBitmap = @ \ old]
    <3>1. m1 = [inodeBitmap |-> m.inodeBitmap, dataBitmap |-> m.dataBitmap \ old,
                inodes |-> m.inodes]
      BY <2>2, PartReplaced
    <3>2. trimmed(m) = [m1 EXCEPT !.inodes[job.inum] = new]
      OBVIOUS
    <3>3. m1.inodes = m.inodes
      BY <3>1
    <3> HIDE DEF m1, trimmed
    <3> QED
      BY <3>1, <3>2, <3>3
  <2>3. /\ mem' = [inodeBitmap |-> mem.inodeBitmap, dataBitmap |-> mem.dataBitmap \ old,
                   inodes |-> [mem.inodes EXCEPT ![job.inum] = new]]
        /\ trimmed(memL) = [inodeBitmap |-> memL.inodeBitmap,
                            dataBitmap |-> memL.dataBitmap \ old,
                            inodes |-> [memL.inodes EXCEPT ![job.inum] = new]]
    BY <1>2, <1>3, <2>1, <2>2
  <2>4. /\ Whole(mem)' /\ mem'.dataBitmap = mem.dataBitmap \ old /\ mem'.inodes[job.inum] = new
    BY <1>2, <1>3, <2>3 DEF Whole
  <2>5. WriteUpToDate(pc, job, mem)'
    BY <1>2, <2>1, <2>4 DEF WriteUpToDate, Whole
  <2>6. Counts(pc, pending, k)'
    BY <1>2, <2>1 DEF Counts
  <2>7. DiskWhole'
    BY <1>1 DEF DiskWhole
  <2>8. /\ pcL' = "dataBitmap" /\ jobL' = job /\ pendingL' = <<>> /\ kL' = 0
        /\ memL' = [inodeBitmap |-> disk.inodeBitmap, dataBitmap |-> mem.dataBitmap \ old,
                    inodes |-> [disk.inodes EXCEPT ![job.inum] = new]]
    BY <1>1, <1>2, <2>1, <2>4, <2>7, StillInWrite
  <2>9. [memL.inodes EXCEPT ![job.inum] = new] = [disk.inodes EXCEPT ![job.inum] = new]
    BY <1>2 DEF DiskWhole
  <2>10. memL' = trimmed(memL)
    BY <1>2, <2>3, <2>8, <2>9
  <2>11. memL' = [memL EXCEPT !.dataBitmap = @ \ lold, !.inodes[jobL.inum] = lnew]
    BY <1>2, <1>6, <2>10
  <2>12. L!WriteTrim
    BY <1>1, <1>2, <1>7, <1>8, <1>9, <1>11, <2>8, <2>11
  <2> QED
    BY <1>1, <2>5, <2>6, <2>12, StepSimulates DEF NowUpToDate, UpToDate, L!WriteSteps
<1> QED
  BY <1>10, <1>11

(***************************************************************************)
(* The writes of what was decided.                                         *)
(***************************************************************************)
\* One part of the image is replaced.
LEMMA DiskReplaced ==
  ASSUME DiskWhole, NEW x
  PROVE  /\ disk' = [disk EXCEPT !.inodeBitmap = x] => DiskWhole' /\ disk'.inodes = disk.inodes
         /\ disk' = [disk EXCEPT !.dataBitmap = x] =>
              /\ DiskWhole' /\ disk'.inodes = disk.inodes
              /\ disk'.inodeBitmap = disk.inodeBitmap
         /\ disk' = [disk EXCEPT !.blocks = x] => DiskWhole'
         /\ \A f : disk' = [disk EXCEPT !.inodes = [i \in Inodes |-> f[i]]] =>
              /\ DiskWhole' /\ disk'.inodes = [i \in Inodes |-> f[i]]
              /\ disk'.inodeBitmap = disk.inodeBitmap
<1>1. PICK b, d, f, c : disk = [inodeBitmap |-> b, dataBitmap |-> d, inodes |-> f, blocks |-> c]
  BY DEF DiskWhole
<1>2. disk.inodes = [i \in Inodes |-> disk.inodes[i]]
  BY DEF DiskWhole
<1>3. disk' = [disk EXCEPT !.inodeBitmap = x] => DiskWhole' /\ disk'.inodes = disk.inodes
  <2>1. [disk EXCEPT !.inodeBitmap = x]
          = [inodeBitmap |-> x, dataBitmap |-> d, inodes |-> f, blocks |-> c]
    BY <1>1
  <2> QED
    BY <1>1, <1>2, <2>1 DEF DiskWhole
<1>4. disk' = [disk EXCEPT !.dataBitmap = x] =>
        /\ DiskWhole' /\ disk'.inodes = disk.inodes /\ disk'.inodeBitmap = disk.inodeBitmap
  <2>1. [disk EXCEPT !.dataBitmap = x]
          = [inodeBitmap |-> b, dataBitmap |-> x, inodes |-> f, blocks |-> c]
    BY <1>1
  <2> QED
    BY <1>1, <1>2, <2>1 DEF DiskWhole
<1>5. disk' = [disk EXCEPT !.blocks = x] => DiskWhole'
  <2>1. [disk EXCEPT !.blocks = x]
          = [inodeBitmap |-> b, dataBitmap |-> d, inodes |-> f, blocks |-> x]
    BY <1>1
  <2> QED
    BY <1>1, <1>2, <2>1 DEF DiskWhole
<1>6. ASSUME NEW g, disk' = [disk EXCEPT !.inodes = [i \in Inodes |-> g[i]]]
      PROVE  /\ DiskWhole' /\ disk'.inodes = [i \in Inodes |-> g[i]]
             /\ disk'.inodeBitmap = disk.inodeBitmap
  <2> DEFINE h == [i \in Inodes |-> g[i]]
  <2>1. [disk EXCEPT !.inodes = h]
          = [inodeBitmap |-> b, dataBitmap |-> d, inodes |-> h, blocks |-> c]
    BY <1>1
  <2>2. h = [i \in Inodes |-> h[i]]
    OBVIOUS
  <2> HIDE DEF h
  <2>3. disk' = [inodeBitmap |-> b, dataBitmap |-> d, inodes |-> h, blocks |-> c]
    BY <1>6, <2>1 DEF h
  <2>4. disk'.inodes = h /\ disk'.inodeBitmap = disk.inodeBitmap /\ DiskWhole'
    BY <1>1, <2>2, <2>3 DEF DiskWhole
  <2> QED
    BY <2>4 DEF h
<1> QED
  BY <1>3, <1>4, <1>5, <1>6

\* A call of create or unlink that writes looks the same to LocalFileSystem.
LEMMA InFlush ==
  ASSUME NowUpToDate, pc \in Flushing, pc \in {"dataBitmap", "region"} => job.op # "write"
  PROVE  /\ CreateUpToDate(pc, job, mem, k) \/ UnlinkUpToDate(pc, job, mem, k, seen)
         /\ Counts(pc, pending, k) /\ job.op # "write" /\ k \in Nat
         /\ pcL = pc /\ jobL = job /\ pendingL = pending /\ memL = mem /\ kL = k
<1>1. /\ CreateUpToDate(pc, job, mem, k) \/ UnlinkUpToDate(pc, job, mem, k, seen)
      /\ Counts(pc, pending, k)
  BY DEF NowUpToDate, UpToDate, Rests, WriteUpToDate, Flushing
<1>2. job.op # "write" /\ k \in Nat
  BY <1>1 DEF CreateUpToDate, UnlinkUpToDate, Counts
<1>3. Begun /\ ~Creating /\ ~Writing
  BY <1>2 DEF Begun, Deciding, Creating, Writing, Flushing
<1> QED
  BY <1>1, <1>2, <1>3, Views

\* What LocalFileSystem sees of it after a step.
LEMMA StillInFlush ==
  ASSUME CreateUpToDate(pc, job, mem, k) \/ UnlinkUpToDate(pc, job, mem, k, seen),
         pc \in Flushing, pc' \in Flushing, job' = job
  PROVE  /\ CreateUpToDate(pc, job, mem, k)' \/ UnlinkUpToDate(pc, job, mem, k, seen)'
         /\ pcL' = pc' /\ jobL' = job /\ pendingL' = pending' /\ memL' = mem' /\ kL' = k'
<1>1. CASE CreateUpToDate(pc, job, mem, k)
  <2>1. CreateUpToDate(pc, job, mem, k)' /\ job.op # "write"
    BY <1>1 DEF CreateUpToDate, Flushing
  <2>2. Begun' /\ ~Creating' /\ ~Writing'
    BY <2>1 DEF Begun, Deciding, Creating, Writing, Flushing
  <2> QED
    BY <2>1, <2>2, NextViews
<1>2. CASE UnlinkUpToDate(pc, job, mem, k, seen)
  <2>1. UnlinkUpToDate(pc, job, mem, k, seen)' /\ job.op # "write"
    BY <1>2 DEF UnlinkUpToDate, Flushing
  <2>2. Begun' /\ ~Creating' /\ ~Writing'
    BY <2>1 DEF Begun, Deciding, Creating, Writing, Flushing
  <2> QED
    BY <2>1, <2>2, NextViews
<1> QED
  BY <1>1, <1>2

\* The writes, one by one.
LEMMA FlushBlockSimulates ==
  ASSUME DiskWhole, NowUpToDate, FlushBlock
  PROVE  DiskWhole' /\ NowUpToDate' /\ Simulated
<1>1. /\ pc = "blocks"
      /\ disk' = [disk EXCEPT !.blocks[Head(pending).addr] = Head(pending).cells]
      /\ IF Tail(pending) = <<>> /\ job.ret < 0 THEN Return(disk')
         ELSE /\ pending' = Tail(pending)
              /\ pc' = IF Tail(pending) = <<>> THEN "inodeBitmap" ELSE "blocks"
              /\ job' = job /\ mem' = mem /\ k' = k
  BY DEF FlushBlock
<1>2. /\ CreateUpToDate(pc, job, mem, k) \/ UnlinkUpToDate(pc, job, mem, k, seen)
      /\ Counts(pc, pending, k) /\ job.op # "write"
      /\ pcL = pc /\ jobL = job /\ pendingL = pending /\ memL = mem /\ kL = k
  BY <1>1, InFlush DEF Flushing
<1>3. DiskWhole'
  BY <1>1, DiskReplaced
<1>4. CASE Tail(pending) = <<>> /\ job.ret < 0
  <2>1. Return(disk')
    BY <1>1, <1>4
  <2>2. L!FlushBlock
    BY <1>1, <1>2, <1>4, <2>1, LReturns DEF L!FlushBlock
  <2> QED
    BY <1>3, <2>1, <2>2, Returned, StepSimulates DEF L!Flush
<1>5. CASE ~(Tail(pending) = <<>> /\ job.ret < 0)
  <2>1. /\ pending' = Tail(pending) /\ job' = job /\ mem' = mem /\ k' = k
        /\ pc' = IF Tail(pending) = <<>> THEN "inodeBitmap" ELSE "blocks"
    BY <1>1, <1>5
  <2>2. /\ CreateUpToDate(pc, job, mem, k)' \/ UnlinkUpToDate(pc, job, mem, k, seen)'
        /\ pcL' = pc' /\ jobL' = job /\ pendingL' = pending' /\ memL' = mem' /\ kL' = k'
    BY <1>1, <1>2, <2>1, StillInFlush DEF Flushing
  <2>3. Counts(pc, pending, k)'
    BY <1>1, <1>2, <2>1 DEF Counts
  <2>4. L!FlushBlock
    BY <1>1, <1>2, <1>5, <2>1, <2>2 DEF L!FlushBlock
  <2> QED
    BY <1>3, <2>2, <2>3, <2>4, StepSimulates DEF NowUpToDate, UpToDate, L!Flush
<1> QED
  BY <1>4, <1>5

LEMMA FlushInodeBitmapSimulates ==
  ASSUME DiskWhole, NowUpToDate, FlushInodeBitmap
  PROVE  DiskWhole' /\ NowUpToDate' /\ Simulated
<1>1. /\ pc = "inodeBitmap" /\ pc' = "dataBitmap"
      /\ disk' = [disk EXCEPT !.inodeBitmap = mem.inodeBitmap]
      /\ job' = job /\ pending' = pending /\ mem' = mem /\ k' = k
  BY DEF FlushInodeBitmap
<1>2. /\ CreateUpToDate(pc, job, mem, k) \/ UnlinkUpToDate(pc, job, mem, k, seen)
      /\ Counts(pc, pending, k) /\ job.op # "write"
      /\ pcL = pc /\ jobL = job /\ pendingL = pending /\ memL = mem /\ kL = k
  BY <1>1, InFlush DEF Flushing
<1>3. DiskWhole'
  BY <1>1, DiskReplaced
<1>4. /\ CreateUpToDate(pc, job, mem, k)' \/ UnlinkUpToDate(pc, job, mem, k, seen)'
      /\ pcL' = pc' /\ jobL' = job /\ pendingL' = pending' /\ memL' = mem' /\ kL' = k'
  BY <1>1, <1>2, StillInFlush DEF Flushing
<1>5. Counts(pc, pending, k)'
  BY <1>1, <1>2 DEF Counts
<1>6. L!FlushInodeBitmap
  BY <1>1, <1>2, <1>4 DEF L!FlushInodeBitmap
<1> QED
  BY <1>3, <1>4, <1>5, <1>6, StepSimulates DEF NowUpToDate, UpToDate, L!Flush

LEMMA FlushDataBitmapSimulates ==
  ASSUME DiskWhole, NowUpToDate, FlushDataBitmap
  PROVE  DiskWhole' /\ NowUpToDate' /\ Simulated
<1> DEFINE read == [disk.inodes EXCEPT ![job.inum] = mem.inodes[job.inum]]
<1>1. /\ pc = "dataBitmap" /\ pc' = "region"
      /\ disk' = [disk EXCEPT !.dataBitmap = mem.dataBitmap]
      /\ mem' = [mem EXCEPT !.inodes = IF job.op = "write" THEN read ELSE mem.inodes]
      /\ job' = job /\ pending' = pending /\ k' = k
  BY DEF FlushDataBitmap
<1>2. DiskWhole' /\ disk'.inodes = disk.inodes /\ disk'.inodeBitmap = disk.inodeBitmap
  BY <1>1, DiskReplaced
<1>3. CASE job.op # "write"
  <2>1. /\ CreateUpToDate(pc, job, mem, k) \/ UnlinkUpToDate(pc, job, mem, k, seen)
        /\ Counts(pc, pending, k)
        /\ pcL = pc /\ jobL = job /\ pendingL = pending /\ memL = mem /\ kL = k
    BY <1>1, <1>3, InFlush DEF Flushing
  <2>2. /\ CreateUpToDate(pc, job, mem, k)' \/ UnlinkUpToDate(pc, job, mem, k, seen)'
        /\ pcL' = pc' /\ jobL' = job /\ pendingL' = pending' /\ memL' = mem' /\ kL' = k'
    BY <1>1, <2>1, StillInFlush DEF Flushing
  <2>3. Counts(pc, pending, k)'
    BY <1>1, <2>1 DEF Counts
  <2>4. L!FlushDataBitmap
    BY <1>1, <1>3, <2>1, <2>2 DEF L!FlushDataBitmap
  <2> QED
    BY <1>2, <2>2, <2>3, <2>4, StepSimulates DEF NowUpToDate, UpToDate, L!Flush
<1>4. CASE job.op = "write"
  <2>1. /\ WriteUpToDate(pc, job, mem) /\ Counts(pc, pending, k)
        /\ pending = <<>> /\ k \in Nat /\ job.inum \in Inodes
        /\ pcL = pc /\ jobL = job /\ pendingL = <<>> /\ kL = k /\ Whole(memL)
        /\ memL.inodeBitmap = disk.inodeBitmap /\ memL.dataBitmap = mem.dataBitmap
        /\ memL.inodes = read
        /\ memL.inodes[job.inum] = mem.inodes[job.inum]
    BY <1>1, <1>4, InWrite
  <2>2. Whole(mem)
    BY <2>1 DEF WriteUpToDate
  <2>3. mem' = [inodeBitmap |-> mem.inodeBitmap, dataBitmap |-> mem.dataBitmap, inodes |-> read]
    BY <1>1, <1>4, <2>2, PartReplaced
  <2>4. /\ read = [i \in Inodes |-> read[i]] /\ read[job.inum] = mem.inodes[job.inum]
        /\ \A x \in Inodes \ {job.inum} : read[x] = disk.inodes[x]
    BY <2>1 DEF DiskWhole
  <2> HIDE DEF read
  <2>5. /\ Whole(mem)' /\ mem'.dataBitmap = mem.dataBitmap
        /\ mem'.inodes = read /\ mem'.inodes[job.inum] = mem.inodes[job.inum]
    BY <2>3, <2>4 DEF Whole
  <2>6. WriteUpToDate(pc, job, mem)'
    BY <1>1, <1>2, <2>1, <2>4, <2>5 DEF WriteUpToDate, Whole
  <2>7. Counts(pc, pending, k)'
    BY <1>1, <2>1 DEF Counts
  <2>8. /\ pcL' = "region" /\ jobL' = job /\ pendingL' = <<>> /\ kL' = k
        /\ memL' = [inodeBitmap |-> disk.inodeBitmap, dataBitmap |-> mem.dataBitmap,
                    inodes |-> read]
    <3>1. /\ pcL' = pc' /\ jobL' = job /\ pendingL' = pending' /\ kL' = k'
          /\ memL' = [inodeBitmap |-> disk'.inodeBitmap, dataBitmap |-> mem'.dataBitmap,
                      inodes |-> [disk'.inodes EXCEPT ![job.inum] = mem'.inodes[job.inum]]]
      BY <1>1, <1>2, <1>4, <2>1, <2>5, StillInWrite
    <3>2. [disk.inodes EXCEPT ![job.inum] = mem.inodes[job.inum]] = read
      BY DEF read
    <3> QED
      BY <1>1, <1>2, <2>1, <2>5, <3>1, <3>2
  <2>9. memL' = [memL EXCEPT !.inodes = [disk.inodes EXCEPT ![job.inum] = memL.inodes[job.inum]]]
    <3>1. [disk.inodes EXCEPT ![job.inum] = memL.inodes[job.inum]] = read
      BY <2>1 DEF read
    <3>2. [memL EXCEPT !.inodes = read]
            = [inodeBitmap |-> memL.inodeBitmap, dataBitmap |-> memL.dataBitmap, inodes |-> read]
      BY <2>1, PartReplaced
    <3> QED
      BY <2>1, <2>8, <3>1, <3>2
  <2>10. L!FlushDataBitmap
    BY <1>1, <1>4, <2>1, <2>8, <2>9 DEF L!FlushDataBitmap
  <2> QED
    BY <1>2, <2>6, <2>7, <2>10, StepSimulates DEF NowUpToDate, UpToDate, L!Flush
<1> QED
  BY <1>3, <1>4

LEMMA FlushRegionSimulates ==
  ASSUME DiskWhole, NowUpToDate, FlushRegion
  PROVE  DiskWhole' /\ NowUpToDate' /\ Simulated
<1> DEFINE table(m) == [i \in Inodes |-> IF i \div InodesPerBlock = k THEN m.inodes[i]
                                         ELSE disk.inodes[i]]
<1>1. /\ pc = "region" /\ disk' = [disk EXCEPT !.inodes = table(mem)]
      /\ IF k + 1 = InodeRegionLen THEN Return(disk')
         ELSE /\ k' = k + 1 /\ pc' = pc /\ job' = job /\ pending' = pending /\ mem' = mem
  BY DEF FlushRegion
<1>2. DiskWhole' /\ disk'.inodes = table(mem) /\ disk'.inodeBitmap = disk.inodeBitmap
  <2>1. table(mem) = [i \in Inodes |-> table(mem)[i]]
    OBVIOUS
  <2> HIDE DEF table
  <2> QED
    BY <1>1, <2>1, DiskReplaced
<1>3. CASE job.op # "write"
  <2>1. /\ CreateUpToDate(pc, job, mem, k) \/ UnlinkUpToDate(pc, job, mem, k, seen)
        /\ Counts(pc, pending, k) /\ k \in Nat
        /\ pcL = pc /\ jobL = job /\ pendingL = pending /\ memL = mem /\ kL = k
    BY <1>1, <1>3, InFlush DEF Flushing
  <2>2. CASE k + 1 = InodeRegionLen
    <3>1. Return(disk')
      BY <1>1, <2>2
    <3>2. L!FlushRegion
      BY <1>1, <2>1, <2>2, <3>1, LReturns, SameLayout DEF L!FlushRegion
    <3> QED
      BY <1>2, <3>1, <3>2, Returned, StepSimulates DEF L!Flush
  <2>3. CASE k + 1 # InodeRegionLen
    <3>1. k' = k + 1 /\ pc' = pc /\ job' = job /\ pending' = pending /\ mem' = mem
      BY <1>1, <2>3
    <3>2. /\ CreateUpToDate(pc, job, mem, k)' \/ UnlinkUpToDate(pc, job, mem, k, seen)'
          /\ pcL' = pc' /\ jobL' = job /\ pendingL' = pending' /\ memL' = mem' /\ kL' = k'
      BY <1>1, <2>1, <3>1, StillInFlush DEF Flushing
    <3>3. Counts(pc, pending, k)'
      BY <1>1, <2>1, <3>1 DEF Counts
    <3>4. L!FlushRegion
      BY <1>1, <2>1, <2>3, <3>1, <3>2, SameLayout DEF L!FlushRegion
    <3> QED
      BY <1>2, <3>2, <3>3, <3>4, StepSimulates DEF NowUpToDate, UpToDate, L!Flush
  <2> QED
    BY <2>2, <2>3
<1>4. CASE job.op = "write"
  <2>1. /\ WriteUpToDate(pc, job, mem) /\ Counts(pc, pending, k)
        /\ pending = <<>> /\ k \in Nat /\ job.inum \in Inodes
        /\ pcL = pc /\ jobL = job /\ pendingL = <<>> /\ kL = k /\ Whole(memL)
        /\ memL.inodeBitmap = disk.inodeBitmap /\ memL.dataBitmap = mem.dataBitmap
        /\ memL.inodes = [disk.inodes EXCEPT ![job.inum] = mem.inodes[job.inum]]
        /\ memL.inodes[job.inum] = mem.inodes[job.inum]
    BY <1>1, <1>4, InWrite
  <2>2. Whole(mem) /\ \A x \in Inodes \ {job.inum} : mem.inodes[x] = disk.inodes[x]
    BY <1>1, <2>1 DEF WriteUpToDate
  <2>3. \A x \in Inodes : memL.inodes[x] = mem.inodes[x]
    BY <2>1, <2>2 DEF DiskWhole
  <2>4. table(memL) = table(mem)
    BY <2>3
  <2>5. \A x \in Inodes \ {job.inum} : table(mem)[x] = disk.inodes[x]
    BY <2>2
  <2>6. [i \in L!Inodes |-> IF i \div InodesPerBlock = kL THEN memL.inodes[i]
                            ELSE disk.inodes[i]] = table(mem)
    BY <2>1, <2>4, SameLayout
  <2> HIDE DEF table
  <2>7. CASE k + 1 = InodeRegionLen
    <3>1. Return(disk')
      BY <1>1, <2>7
    <3>2. L!FlushRegion
      BY <1>1, <2>1, <2>6, <2>7, <3>1, LReturns, SameLayout DEF L!FlushRegion
    <3> QED
      BY <1>2, <3>1, <3>2, Returned, StepSimulates DEF L!Flush
  <2>8. CASE k + 1 # InodeRegionLen
    <3>1. k' = k + 1 /\ pc' = pc /\ job' = job /\ pending' = pending /\ mem' = mem
      BY <1>1, <2>8
    <3>2. WriteUpToDate(pc, job, mem)'
      BY <1>1, <1>2, <2>1, <2>2, <2>5, <3>1 DEF WriteUpToDate, Whole
    <3>3. Counts(pc, pending, k)'
      BY <1>1, <2>1, <3>1 DEF Counts
    <3>4. /\ pcL' = pc' /\ jobL' = job /\ pendingL' = pending' /\ kL' = k'
          /\ memL' = [inodeBitmap |-> disk'.inodeBitmap, dataBitmap |-> mem'.dataBitmap,
                      inodes |-> [disk'.inodes EXCEPT ![job.inum] = mem'.inodes[job.inum]]]
      BY <1>1, <1>2, <1>4, <2>1, <2>2, <3>1, StillInWrite DEF Whole
    <3>5. [disk'.inodes EXCEPT ![job.inum] = mem.inodes[job.inum]] = memL.inodes
      <4>1. disk'.inodes = [i \in Inodes |-> disk'.inodes[i]]
            /\ disk.inodes = [i \in Inodes |-> disk.inodes[i]]
        BY <1>2 DEF DiskWhole
      <4>2. \A x \in Inodes \ {job.inum} : disk'.inodes[x] = disk.inodes[x]
        BY <1>2, <2>5
      <4> QED
        BY <2>1, <4>1, <4>2
    <3>6. memL' = memL
      BY <1>2, <2>1, <3>1, <3>4, <3>5 DEF Whole
    <3>7. L!FlushRegion
      BY <1>1, <2>1, <2>6, <2>8, <3>1, <3>4, <3>6, SameLayout DEF L!FlushRegion
    <3> QED
      BY <1>2, <3>2, <3>3, <3>7, StepSimulates DEF NowUpToDate, UpToDate, L!Flush
  <2> QED
    BY <2>7, <2>8
<1> QED
  BY <1>3, <1>4

\* A process that dies is a crash of LocalFileSystem, or nothing if it has only read.
LEMMA DieSimulates ==
  ASSUME DiskWhole, NowUpToDate, Die
  PROVE  NowUpToDate' /\ disk' = disk /\ Simulated
<1>1. pc # "idle" /\ disk' = disk /\ Return(disk) /\ Return(disk')
  BY DEF Die, Crash, Return
<1>2. LooksIdle' /\ L!Return(disk)
  BY <1>1, NextLooksIdle, LReturns DEF L!Return
<1>3. CASE ~Begun
  BY <1>1, <1>2, <1>3, IdleLooksIdle, IdleStutters, Returned
<1>4. CASE Begun
  <2>1. pcL # "idle"
    BY <1>1, <1>4 DEF pcL
  <2>2. L!Crash
    BY <1>1, <1>2, <2>1 DEF L!Crash
  <2> QED
    BY <1>1, <2>2, Returned, StepSimulates
<1> QED
  BY <1>3, <1>4

----------------------------------------------------------------------------
(***************************************************************************)
(* All the steps together.                                                 *)
(***************************************************************************)
LEMMA SameDiskWhole == DiskWhole /\ disk' = disk => DiskWhole'
  BY DEF DiskWhole

\* No step changes the shape of the image.
LEMMA StepStaysWhole ==
  ASSUME DiskWhole, BeginCall \/ Continue \/ Die
  PROVE  DiskWhole'
<1>1. BeginCall \/ Die => disk' = disk
  BY DEF BeginCall, BeginCreate, BeginUnlink, BeginWrite, Begin, Die, Crash
<1>2. ReadInodeBitmap \/ ReadDataBitmap \/ ReadRegion \/ ReadDirectory => disk' = disk
  BY DEF ReadInodeBitmap, ReadDataBitmap, ReadRegion, ReadDirectory, GoOn
<1>3. GiveUp => disk' = disk
  BY DEF GiveUp
<1>4. \A j, plan : Proceed(j, plan) => disk' = disk
  BY DEF Proceed
<1>5. DecideUnlink \/ DecideCreate \/ LinkEntry => disk' = disk
  BY <1>3, <1>4 DEF DecideUnlink, DecideCreate, LinkEntry
<1>6. WriteFails \/ WriteTrim => disk' = disk
  BY DEF WriteFails, WriteTrim
<1>7. WriteHome \/ FlushBlock => DiskWhole'
  BY DiskReplaced DEF WriteHome, FlushBlock
<1>8. WriteReuse \/ WriteAllocate => DiskWhole'
  BY ChunkWritten DEF WriteReuse, WriteAllocate
<1>9. FlushInodeBitmap \/ FlushDataBitmap => DiskWhole'
  BY DiskReplaced DEF FlushInodeBitmap, FlushDataBitmap
<1>10. FlushRegion => DiskWhole'
  <2>1. SUFFICES ASSUME FlushRegion PROVE DiskWhole'
    OBVIOUS
  <2> DEFINE table == [i \in Inodes |-> IF i \div InodesPerBlock = k THEN mem.inodes[i]
                                        ELSE disk.inodes[i]]
  <2>2. disk' = [disk EXCEPT !.inodes = table] /\ table = [i \in Inodes |-> table[i]]
    BY <2>1 DEF FlushRegion
  <2> HIDE DEF table
  <2> QED
    BY <2>2, DiskReplaced
<1> QED
  BY <1>1, <1>2, <1>5, <1>6, <1>7, <1>8, <1>9, <1>10, SameDiskWhole
  DEF Continue, WriteSteps, Flush

\* Every step of a call is one of LocalFileSystem or a stuttering one.
LEMMA ContinueSimulates ==
  ASSUME DiskWhole, NowUpToDate, Continue
  PROVE  NowUpToDate' /\ Simulated
<1>1. CASE ReadInodeBitmap \/ ReadDataBitmap \/ ReadRegion \/ ReadDirectory
  BY <1>1, InodeBitmapSimulates, DataBitmapSimulates, RegionSimulates, DirectorySimulates
<1>2. CASE DecideUnlink \/ DecideCreate \/ WriteHome \/ LinkEntry
  BY <1>2, DecideUnlinkSimulates, DecideCreateSimulates, WriteHomeSimulates, LinkEntrySimulates
<1>3. CASE WriteSteps
  BY <1>3, WriteReuseSimulates, WriteAllocateSimulates, WriteFailsSimulates, WriteTrimSimulates
  DEF WriteSteps
<1>4. CASE Flush
  BY <1>4, FlushBlockSimulates, FlushInodeBitmapSimulates, FlushDataBitmapSimulates,
     FlushRegionSimulates
  DEF Flush
<1> QED
  BY <1>1, <1>2, <1>3, <1>4 DEF Continue

\* Only a call that has begun goes on or dies.
LEMMA IdleWaits == Continue \/ Die => pc # "idle"
BY DEF Continue, ReadInodeBitmap, ReadDataBitmap, ReadRegion, ReadDirectory, DecideUnlink,
       DecideCreate, WriteHome, LinkEntry, WriteSteps, WriteReuse, WriteAllocate, WriteFails,
       WriteTrim, InLoop, Flush, FlushBlock, FlushInodeBitmap, FlushDataBitmap, FlushRegion,
       Die, Crash

\* The image both open, and two processes that rest.
LEMMA StartsAlone == SharedInit => AloneInv
<1>1. SUFFICES ASSUME SharedInit PROVE AloneInv
  OBVIOUS
<1>2. /\ disk = StartImage /\ other = Current /\ begun = 0
      /\ pc = "idle" /\ job = NoJob /\ pending = <<>> /\ k = 0 /\ mem = Meta(disk)
  BY <1>1 DEF SharedInit
<1>3. DiskWhole
  <2>1. StartImage.inodes = [i \in Inodes |-> StartImage.inodes[i]]
    BY DEF StartImage
  <2>2. StartImage = [inodeBitmap |-> StartImage.inodeBitmap,
                      dataBitmap |-> StartImage.dataBitmap,
                      inodes |-> StartImage.inodes, blocks |-> StartImage.blocks]
    BY DEF StartImage
  <2> QED
    BY <1>2, <2>1, <2>2 DEF DiskWhole
<1>4. Rests(pc, job, pending, mem, k)
  BY <1>2 DEF Rests
<1>5. /\ other.pc = pc /\ other.job = job /\ other.pending = pending /\ other.mem = mem
      /\ other.k = k /\ other.seen = seen /\ other.begun = begun
      /\ OtherWhole
  BY <1>2 DEF Current, OtherWhole
<1> QED
  BY <1>2, <1>3, <1>4, <1>5 DEF AloneInv, NowUpToDate, UpToDate

\* A suspended process that has begun nothing still rests, one that has begun
\* a call stays as it is.
LEMMA OtherUndisturbed ==
  ASSUME OtherWhole, Forgets
  PROVE  OtherWhole' /\ other'.begun = other.begun /\ other'.pc = other.pc
<1>1. PICK p, j, w, m, i, s, b :
        other = [pc |-> p, job |-> j, pending |-> w, mem |-> m, k |-> i, seen |-> s, begun |-> b]
  BY DEF OtherWhole
<1>2. \/ other' = other
      \/ other' = [pc |-> p, job |-> j, pending |-> w, mem |-> Meta(disk'), k |-> i,
                   seen |-> s, begun |-> b]
  BY <1>1 DEF Forgets
<1> QED
  BY <1>1, <1>2 DEF OtherWhole

\* The process that runs makes a step.
LEMMA RunStaysAlone ==
  ASSUME AloneInv, Run
  PROVE  /\ AloneInv'
         /\ other.begun = 0 /\ other'.begun = 0 => Simulated
<1>1. /\ DiskWhole /\ OtherWhole /\ begun \in Nat /\ other.begun \in Nat
      /\ begun = 0 => pc = "idle"
      /\ other.begun = 0 => other.pc = "idle" /\ NowUpToDate
      /\ begun = 0 =>
           UpToDate(other.pc, other.job, other.pending, other.mem, other.k, other.seen)
  BY DEF AloneInv
<1>2. /\ BeginCall \/ ((Continue \/ Die) /\ begun' = begun)
      /\ Forgets
  BY DEF Run
<1>3. DiskWhole'
  BY <1>1, <1>2, StepStaysWhole
<1>4. OtherWhole' /\ other'.begun = other.begun /\ other'.pc = other.pc
  BY <1>1, <1>2, OtherUndisturbed
<1>5. begun' \in Nat /\ begun' # 0
  <2>1. CASE BeginCall
    BY <1>1, <2>1 DEF BeginCall
  <2>2. CASE (Continue \/ Die) /\ begun' = begun
    BY <1>1, <2>2, IdleWaits
  <2> QED
    BY <1>2, <2>1, <2>2
<1>6. ASSUME other.begun = 0
      PROVE  NowUpToDate' /\ Simulated
  <2>1. CASE BeginCall
    <3>1. pc = "idle"
      BY <2>1 DEF BeginCall, BeginCreate, BeginUnlink, BeginWrite, Begin
    <3> QED
      BY <1>1, <1>6, <2>1, <3>1, BeginSimulates
  <2>2. CASE Continue
    BY <1>1, <1>6, <2>2, ContinueSimulates
  <2>3. CASE Die
    BY <1>1, <1>6, <2>3, DieSimulates
  <2> QED
    BY <1>2, <2>1, <2>2, <2>3
<1>7. /\ other'.begun \in Nat /\ begun' = 0 => FALSE
      /\ other'.begun = 0 => other'.pc = "idle" /\ NowUpToDate'
  BY <1>1, <1>4, <1>5, <1>6
<1>8. AloneInv'
  BY <1>1, <1>3, <1>4, <1>5, <1>7 DEF AloneInv
<1> QED
  BY <1>6, <1>8

\* A process that waits for its first call is idle for LocalFileSystem, too.
LEMMA WaitsLooksIdle ==
  /\ NowUpToDate /\ pc = "idle" => LooksIdle
  /\ NowUpToDate' /\ pc' = "idle" => LooksIdle'
<1>1. NowUpToDate /\ pc = "idle" => LooksIdle
  BY IdleLooksIdle
  DEF NowUpToDate, UpToDate, CreateUpToDate, UnlinkUpToDate, WriteUpToDate, Flushing
<1>2. NowUpToDate' /\ pc' = "idle" => LooksIdle'
  <2>1. SUFFICES ASSUME NowUpToDate', pc' = "idle" PROVE LooksIdle'
    OBVIOUS
  <2>2. job' = NoJob /\ pending' = <<>> /\ k' = 0 /\ mem' = Meta(disk')
    BY <2>1 DEF NowUpToDate, UpToDate, Rests, CreateUpToDate, UnlinkUpToDate, WriteUpToDate,
                Flushing, Meta
  <2> QED
    BY <2>1, <2>2, NextViews DEF LooksIdle, Begun, Creating, Writing, Deciding, Meta
<1> QED
  BY <1>1, <1>2

\* The two are switched.
LEMMA SwitchStaysAlone ==
  ASSUME AloneInv, Switch
  PROVE  /\ AloneInv'
         /\ other.begun = 0 /\ other'.begun = 0 => Simulated
<1>1. /\ DiskWhole /\ OtherWhole /\ begun \in Nat /\ other.begun \in Nat
      /\ begun = 0 => pc = "idle"
      /\ other.begun = 0 => other.pc = "idle" /\ NowUpToDate
      /\ begun = 0 =>
           UpToDate(other.pc, other.job, other.pending, other.mem, other.k, other.seen)
  BY DEF AloneInv
<1>2. /\ disk' = disk /\ other' = Current /\ begun' = other.begun
      /\ pc' = other.pc /\ job' = other.job /\ pending' = other.pending /\ mem' = other.mem
      /\ k' = other.k /\ seen' = other.seen
  BY DEF Switch
<1>3. /\ other'.pc = pc /\ other'.job = job /\ other'.pending = pending /\ other'.mem = mem
      /\ other'.k = k /\ other'.seen = seen /\ other'.begun = begun
      /\ OtherWhole'
  BY <1>2 DEF Current, OtherWhole
<1>4. DiskWhole'
  BY <1>1, <1>2, SameDiskWhole
<1>5. begun = 0 => NowUpToDate'
  BY <1>1, <1>2
  DEF NowUpToDate, UpToDate, Rests, Counts, CreateUpToDate, UnlinkUpToDate, WriteUpToDate,
      MadeFrom, ReadUpTo, Meta, Whole
<1>6. other.begun = 0 =>
        UpToDate(other.pc, other.job, other.pending, other.mem, other.k, other.seen)'
  BY <1>1, <1>2, <1>3
  DEF NowUpToDate, UpToDate, Rests, Counts, CreateUpToDate, UnlinkUpToDate, WriteUpToDate,
      MadeFrom, ReadUpTo, Meta, Whole
<1>7. AloneInv'
  BY <1>1, <1>2, <1>3, <1>4, <1>5, <1>6 DEF AloneInv
<1>8. ASSUME other.begun = 0, other'.begun = 0
      PROVE  Simulated
  <2>1. NowUpToDate /\ pc = "idle" /\ NowUpToDate' /\ pc' = "idle"
    BY <1>1, <1>2, <1>3, <1>5, <1>8
  <2> QED
    BY <1>2, <2>1, WaitsLooksIdle, IdleStutters
<1> QED
  BY <1>7, <1>8

(***************************************************************************)
(* As long as a process is the only one that has begun a call, that its    *)
(* reads of the image are steps of their own makes no difference: every    *)
(* step is one of LocalFileSystem, in which a call reads the image and     *)
(* decides in its first step, or changes nothing there.                    *)
(***************************************************************************)
THEOREM AloneActsAsLFS == SharedSpec => AloneAsLFS
<1>1. SharedInit => AloneInv
  BY StartsAlone
<1>2. AloneInv /\ [Run \/ Switch]_sharedVars => AloneInv'
  <2>1. SUFFICES ASSUME AloneInv, UNCHANGED sharedVars PROVE AloneInv'
    BY RunStaysAlone, SwitchStaysAlone
  <2> QED
    BY <2>1
    DEF sharedVars, process, AloneInv, DiskWhole, OtherWhole, NowUpToDate, UpToDate, Rests,
        Counts, CreateUpToDate, UnlinkUpToDate, WriteUpToDate, MadeFrom, ReadUpTo, Meta
<1>3. AloneInv /\ [Run \/ Switch]_sharedVars
        => [other.begun = 0 /\ other'.begun = 0 => [L!Calls \/ L!Crash]_(L!vars)]_sharedVars
  BY RunStaysAlone, SwitchStaysAlone DEF Simulated
<1> QED
  BY <1>1, <1>2, <1>3, PTL DEF SharedSpec, AloneAsLFS
=============================================================================
