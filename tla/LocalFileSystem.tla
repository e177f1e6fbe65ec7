-------------------------- MODULE LocalFileSystem ---------------------------
(***************************************************************************)
(* The calls of class LocalFileSystem that change the image.               *)
(*                                                                         *)
(* A call reads the metadata into memory, decides, and then issues its     *)
(* block writes one after another; each is on the disk when writeBlock     *)
(* returns.  One step of this module is one block write, so that a process *)
(* can die between any two of them.  disk is the image, the other          *)
(* variables are the memory of the running call.                           *)
(***************************************************************************)
EXTENDS UFS, Sequences

CONSTANTS
  Asan,          \* TRUE: the default build (-fsanitize=address);
                 \* FALSE: the build with DEBUGGER set
  StackInodes,   \* what mkfs may leave in the inodes it does not set
  Sizes          \* sizes write() is called with

ASSUME LFSAssumption ==
  /\ Asan \in BOOLEAN
  /\ StackInodes \subseteq Inode
  /\ \A ino \in StackInodes : \A k \in Ptrs : ino.direct[k] \notin DataBlocks
  /\ Sizes \subseteq Int

VARIABLES
  disk,      \* the image
  pc,        \* "idle", "write" (the loop of write()), or the write that is next:
             \* "blocks", "inodeBitmap", "dataBitmap", "region"
  job,       \* the running call and what it will return
  pending,   \* data blocks it has still to write, in order
  mem,       \* its copies of the bitmaps and of the inodes
  k          \* index of the loop over file blocks or region blocks

vars == <<disk, pc, job, pending, mem, k>>

Meta(d) == [inodeBitmap |-> d.inodeBitmap, dataBitmap |-> d.dataBitmap,
            inodes |-> d.inodes]

\* The return value of a call that ends the process instead.
Aborts == -100
NoJob  == [op |-> "none"]

\* The image mkfs makes.  It sets no inode but the root's in the first block
\* of the region, and of an unused root entry only the inum; the other bytes
\* come from the stack.
RootInode == [type |-> Directory, size |-> 2,
              direct |-> [i \in Ptrs |-> IF i = 0 THEN DataRegionAddr ELSE Unset]]
RootBlock(rest) == [s \in Slots |-> IF s = 0 THEN Entry(".", Root)
                                    ELSE IF s = 1 THEN Entry("..", Root)
                                    ELSE Entry(rest[s], -1)]

Formatted(ino) ==
  /\ ino \in [Inodes -> StackInodes \cup {ZeroInode, RootInode}]
  /\ ino[Root] = RootInode
  /\ \A i \in Inodes \ {Root} :
        IF i < InodesPerBlock THEN ino[i] \in StackInodes ELSE ino[i] = ZeroInode

Init ==
  /\ \E ino \in [Inodes -> StackInodes \cup {ZeroInode, RootInode}],
        rest \in [Slots -> StackNames] :
       /\ Formatted(ino)
       /\ disk = [inodeBitmap |-> {Root}, dataBitmap |-> {DataRegionAddr},
                  inodes |-> ino,
                  blocks |-> [b \in DataBlocks |->
                                IF b = DataRegionAddr THEN RootBlock(rest) ELSE ZeroBlock]]
  /\ pc = "idle" /\ job = NoJob /\ pending = <<>> /\ k = 0
  /\ mem = Meta(disk)

----------------------------------------------------------------------------
\* What a call has decided: its return value, the data blocks it writes, and
\* whether the metadata m follow.
Plan(ret, writes, commit, m) ==
  [ret |-> ret, writes |-> writes, commit |-> commit, mem |-> m]
Refuse(d, ret) == Plan(ret, <<>>, FALSE, Meta(d))

\* A mutant of Update: the block number is that of the data bitmap.
UpdateByBit(b, cells) == [addr |-> b - DataRegionAddr, cells |-> cells]
Update(b, cells) == [addr |-> b, cells |-> cells]

\* A directory block that cannot be read or that lies past direct[] ends the
\* process (readBlock exits; past the array the pointer is garbage).
Unreadable(ino) ==
  \/ BlocksFor(ino.size) > DirectPtrs
  \/ \E i \in Held(ino, BlocksFor(ino.size)) : ino.direct[i] \notin DataBlocks

IsDirectory(d, p) == p \in d.inodeBitmap /\ d.inodes[p].type = Directory

----------------------------------------------------------------------------
\* create()

\* A mutant of Existing: only the first block of the directory is searched.
ExistingInFirst(d, ino, n) ==
  First({pos \in PositionsIn(Held(ino, 1)) :
           CellAt(d, ino, pos).inum # -1 /\ CellAt(d, ino, pos).name = n})

\* The entry create takes for an existing one; unlike lookup it accepts inum 0.
Existing(d, ino, n) ==
  First({pos \in PositionsIn(Held(ino, BlocksFor(ino.size))) :
           CellAt(d, ino, pos).inum # -1 /\ CellAt(d, ino, pos).name = n})

ExistingResult(d, i, type) ==
  IF i \notin d.inodeBitmap THEN -EINVALIDINODE
  ELSE IF d.inodes[i].type = type THEN i ELSE -EINVALIDTYPE

\* A mutant of DirBlock: ".." is the directory itself.
DirBlockOwnParent(i, p) == [s \in Slots |-> IF s = 0 THEN Entry(".", i)
                                            ELSE IF s = 1 THEN Entry("..", i) ELSE Unused]

DirBlock(i, p) == [s \in Slots |-> IF s = 0 THEN Entry(".", i)
                                   ELSE IF s = 1 THEN Entry("..", p) ELSE Unused]

NewInode(type, home) ==
  IF type = Directory
  THEN [type |-> type, size |-> 2,
        direct |-> [i \in Ptrs |-> IF i = 0 THEN home ELSE NoBlock]]
  ELSE [type |-> type, size |-> 0, direct |-> [i \in Ptrs |-> NoBlock]]

\* Linking inode i under n in p.  d is the image after the block of a new
\* directory was written (first), m the metadata with inode i in them.  The
\* first slot whose inum is -1 is taken, or a new block is added at the index
\* that follows from the size.
Link(d, p, n, i, first, m) ==
  LET ino   == m.inodes[p]
      used  == BlocksFor(ino.size)
      slot  == First({pos \in PositionsIn(Held(ino, used)) : CellAt(d, ino, pos).inum = -1})
      at    == ino.direct[slot \div EntriesPerBlock]
      free  == DataBlocks \ m.dataBitmap
      b     == Least(free)
  IN  IF slot # -1
      THEN Plan(i, Append(first, Update(at, [d.blocks[at] EXCEPT
                                               ![slot % EntriesPerBlock] = Entry(n, i)])),
                TRUE, [m EXCEPT !.inodes[p].size = @ + 1])
      ELSE IF used >= DirectPtrs \/ free = {}
      THEN Plan(-ENOTENOUGHSPACE, first, FALSE, Meta(d))
      ELSE Plan(i, Append(first, Update(b, [s \in Slots |->
                                              IF s = 0 THEN Entry(n, i) ELSE Unused])),
                TRUE, [m EXCEPT !.dataBitmap = @ \cup {b},
                                !.inodes[p].size = @ + 1,
                                !.inodes[p].direct[used] = b])

\* The metadata with a new inode in them.
WithInode(d, type) ==
  LET i    == Least(Inodes \ d.inodeBitmap)
      home == Least(DataBlocks \ d.dataBitmap)
  IN  [inodeBitmap |-> d.inodeBitmap \cup {i},
       dataBitmap  |-> d.dataBitmap \cup (IF type = Directory THEN {home} ELSE {}),
       inodes      |-> [d.inodes EXCEPT ![i] = NewInode(type, home)]]

\* What create returns when it makes no inode.  No inode has the number Passes.
Passes == NumInodes

CreateChecks(d, p, type, n) ==
  LET ino == d.inodes[p]
      old == Existing(d, ino, n)
  IN  IF n \notin ValidNames THEN -EINVALIDNAME
      ELSE IF ~IsDirectory(d, p) THEN -EINVALIDINODE
      ELSE IF Unreadable(ino) THEN Aborts
      ELSE IF old # -1 THEN ExistingResult(d, CellAt(d, ino, old).inum, type)
      ELSE IF d.inodeBitmap = Inodes \/ (type = Directory /\ d.dataBitmap = DataBlocks)
      THEN -ENOTENOUGHSPACE
      ELSE Passes

CreatePlan(d, p, type, n) ==
  LET i    == Least(Inodes \ d.inodeBitmap)
      home == Least(DataBlocks \ d.dataBitmap)
      m    == WithInode(d, type)
  IN  IF CreateChecks(d, p, type, n) # Passes
      THEN Refuse(d, CreateChecks(d, p, type, n))
      ELSE IF type = Directory
      THEN Link([d EXCEPT !.blocks[home] = DirBlock(i, p)], p, n, i,
                <<Update(home, DirBlock(i, p))>>, m)
      ELSE Link(d, p, n, i, <<>>, m)

----------------------------------------------------------------------------
\* unlink()

\* The directory is read into a buffer of size cells.  A freed block leaves
\* no gap there, so the blocks after it move up and the end of the buffer is
\* not set; writing whole blocks back reads past its end.
BlocksRead(ino) == Held(ino, BlocksFor(ino.size))
CellsRead(ino)  == MinOf(ino.size, Cardinality(BlocksRead(ino)) * EntriesPerBlock)

\* The cells that are heap: all that the loops below can touch, or, when the
\* sanitizer stops a read past the end, those inside the buffer.
HeapRange(d, p) ==
  IF p \notin Inodes THEN {}
  ELSE LET ino == d.inodes[p]
       IN  CellsRead(ino) ..
             (IF Asan THEN ino.size ELSE BlocksFor(ino.size) * EntriesPerBlock) - 1

\* The buffer and the heap behind it.
DirData(d, p, heap) ==
  LET ino == d.inodes[p]
      n   == CellsRead(ino)
  IN  [e \in (0 .. n - 1) \cup DOMAIN heap |->
         IF e \in DOMAIN heap THEN heap[e]
         ELSE d.blocks[ino.direct[Nth(BlocksRead(ino), e \div EntriesPerBlock)]]
                      [e % EntriesPerBlock]]

CellsOf(i) == i * EntriesPerBlock .. (i + 1) * EntriesPerBlock - 1

\* The loop over the block of a removed entry finds no name.
BlockEmpty(data, i) == \A e \in CellsOf(i) \cap DOMAIN data : data[e].name = ""

\* A mutant of EntryNamed: the last entry is not looked at.
EntryNamedButLast(data, ino, n) == First({e \in 0 .. ino.size - 2 : data[e].name = n})

\* The entry to remove is searched among as many cells as the size counts, and
\* not in all the blocks as lookup does.
EntryNamed(data, ino, n) == First({e \in 0 .. ino.size - 1 : data[e].name = n})

\* Freeing the blocks of the removed inode and, if it is now empty, the
\* directory block the entry was in.
Freed(ino) == {ino.direct[i] : i \in Held(ino, BlocksFor(ino.size))}

\* A mutant of Released: the pointers stay.
ReleasedButPointers(ino) == [ino EXCEPT !.size = 0]

Released(ino) ==
  [ino EXCEPT !.size = 0,
              !.direct = [i \in Ptrs |-> IF i < BlocksFor(ino.size)
                                         THEN NoBlock ELSE ino.direct[i]]]

\* The metadata after entry number at of p, which names inode v, was removed.
Removed(d, p, v, at, emptied) ==
  LET i     == at \div EntriesPerBlock
      after == [d.inodes EXCEPT ![v] = Released(d.inodes[v])]
      block == IF emptied THEN {after[p].direct[i]} ELSE {}
  IN  [inodeBitmap |-> d.inodeBitmap \ {v},
       dataBitmap  |-> d.dataBitmap \ (Freed(d.inodes[v]) \cup block),
       inodes      |-> IF emptied
                       THEN [after EXCEPT ![p].direct[i] = NoBlock,
                                          ![p].size = @ - EntriesPerBlock]
                       ELSE after]

\* Clearing the bit of a pointer outside the data region writes outside the
\* bitmap: the sanitizer stops that, otherwise lucky says whether it is
\* survived.
StrayBit(blocks, lucky) == blocks \subseteq DataBlocks \/ (~Asan /\ lucky)

\* Writing back the blocks of a directory that had total blocks.  Under the
\* sanitizer the first block that reaches past the buffer ends the process.
WriteBack(ino, total, data, size) ==
  LET is == {i \in Held(ino, total) : ~Asan \/ (i + 1) * EntriesPerBlock <= size}
  IN  [j \in 1 .. Cardinality(is) |->
         Update(ino.direct[Nth(is, j - 1)],
                [s \in Slots |-> data[Nth(is, j - 1) * EntriesPerBlock + s]])]

\* A directory that may not go: its size counts more than "." and "..".
NotEmpty(ino) == ino.type = Directory /\ ino.size > 2

UnlinkEntry(d, p, v, at, data, lucky) ==
  LET size    == d.inodes[p].size
      total   == BlocksFor(size)
      i       == at \div EntriesPerBlock
      data1   == [data EXCEPT ![at].name = ""]
      emptied == BlockEmpty(data1, i)
      m       == Removed(d, p, v, at, emptied)
      stray   == Freed(d.inodes[v]) \cup
                   (IF emptied THEN {[d.inodes EXCEPT ![v] = Released(d.inodes[v])][p].direct[i]}
                    ELSE {})
      writes  == WriteBack(m.inodes[p], total, data1, size)
  IN  IF ~StrayBit(stray, lucky) \/ (Asan /\ emptied /\ (i + 1) * EntriesPerBlock > size)
      THEN Refuse(d, Aborts)
      ELSE IF Len(writes) < Cardinality(Held(m.inodes[p], total))
      THEN Plan(Aborts, writes, FALSE, Meta(d))
      ELSE Plan(0, writes, TRUE, m)

UnlinkPlan(d, p, n, heap, lucky) ==
  LET ino  == d.inodes[p]
      data == DirData(d, p, heap)
      at   == EntryNamed(data, ino, n)
      v    == data[at].inum
  IN  IF p \notin Inodes THEN Refuse(d, -EINVALIDINODE)
      ELSE IF p \notin d.inodeBitmap THEN Refuse(d, -ENOTALLOCATED)
      ELSE IF ino.type # Directory THEN Refuse(d, -EINVALIDINODE)
      ELSE IF n \notin Names THEN Refuse(d, -EUNLINKNOTALLOWED)
      ELSE IF ino.size < 0 \/ Unreadable(ino) THEN Refuse(d, Aborts)
      ELSE IF at = -1 THEN Refuse(d, 0)
      ELSE IF v \notin Inodes THEN Refuse(d, -EINVALIDINODE)
      ELSE IF v \notin d.inodeBitmap THEN Refuse(d, -ENOTALLOCATED)
      ELSE IF NotEmpty(d.inodes[v]) THEN Refuse(d, -EDIRNOTEMPTY)
      ELSE UnlinkEntry(d, p, v, at, data, lucky)

----------------------------------------------------------------------------
\* Steps.  A call that is refused changes nothing.

\* The call returns, or its process ends and another one opens the image.
Return(d) ==
  /\ pc' = "idle" /\ job' = NoJob /\ pending' = <<>> /\ k' = 0
  /\ mem' = Meta(d)

IsRefused(plan) == plan.writes = <<>> /\ ~plan.commit

\* The call goes on to the writes it has decided.
Proceed(j, plan) ==
  /\ job' = j
  /\ pending' = plan.writes
  /\ mem' = plan.mem
  /\ pc' = IF plan.writes = <<>> THEN "inodeBitmap" ELSE "blocks"
  /\ UNCHANGED <<disk, k>>

Start(j, plan) == IF IsRefused(plan) THEN UNCHANGED vars ELSE Proceed(j, plan)

Create(p, type, n) ==
  LET plan == CreatePlan(disk, p, type, n)
  IN  /\ pc = "idle"
      /\ Start([op |-> "create", inum |-> p, type |-> type, name |-> n,
                ret |-> plan.ret], plan)

UnlinkWith(p, n, plan) ==
  pc = "idle" /\ Start([op |-> "unlink", inum |-> p, name |-> n, ret |-> plan.ret], plan)

UnlinkPlans(d, p, n) == {UnlinkPlan(d, p, n, heap, lucky) :
                           heap \in [HeapRange(d, p) -> HeapCells], lucky \in BOOLEAN}

Unlink(p, n) == \E plan \in UnlinkPlans(disk, p, n) : UnlinkWith(p, n, plan)

\* write() writes file blocks while it still decides.  Its bitmap and inode
\* stay in memory until the loop is over.
WriteError(d, i, size) ==
  IF size < 0 THEN -EINVALIDSIZE
  ELSE IF StatFails(i) THEN -EINVALIDINODE
  ELSE IF d.inodes[i].type # RegularFile THEN -EINVALIDTYPE
  ELSE IF BlocksFor(size) > DirectPtrs THEN -EINVALIDSIZE
  ELSE 0

Write(i, text, size) ==
  /\ pc = "idle"
  /\ IF WriteError(disk, i, size) # 0 THEN UNCHANGED vars
     ELSE /\ pc' = "write"
          /\ job' = [op |-> "write", inum |-> i, text |-> text, ret |-> size]
          /\ UNCHANGED <<disk, pending, mem, k>>

\* A mutant of Chunk: the last cell of the body is left out.
ChunkButLast(text, size, b) ==
  [s \in Slots |-> IF b * EntriesPerBlock + s < size - 1 THEN text ELSE ZeroCell]

\* Block number b of the body, zero padded.
Chunk(text, size, b) ==
  [s \in Slots |-> IF b * EntriesPerBlock + s < size THEN text ELSE ZeroCell]

InLoop == pc = "write" /\ k < BlocksFor(job.ret)
Reuses(ino) == k < BlocksFor(ino.size) /\ ino.direct[k] # NoBlock

PutChunk(b) == disk' = [disk EXCEPT !.blocks[b] = Chunk(job.text, job.ret, k)]

WriteReuse ==
  LET ino == mem.inodes[job.inum]
  IN  /\ InLoop /\ Reuses(ino) /\ ino.direct[k] \in DataBlocks
      /\ PutChunk(ino.direct[k])
      /\ k' = k + 1
      /\ UNCHANGED <<pc, job, pending, mem>>

\* A mutant of WriteAllocate: the bit of the new block is not set.
WriteAllocateUnmarked ==
  LET b == Least(DataBlocks \ mem.dataBitmap)
  IN  /\ InLoop /\ ~Reuses(mem.inodes[job.inum]) /\ mem.dataBitmap # DataBlocks
      /\ PutChunk(b)
      /\ mem' = [mem EXCEPT !.inodes[job.inum].direct[k] = b]
      /\ k' = k + 1
      /\ UNCHANGED <<pc, job, pending>>

WriteAllocate ==
  LET b == Least(DataBlocks \ mem.dataBitmap)
  IN  /\ InLoop /\ ~Reuses(mem.inodes[job.inum]) /\ mem.dataBitmap # DataBlocks
      /\ PutChunk(b)
      /\ mem' = [mem EXCEPT !.dataBitmap = @ \cup {b}, !.inodes[job.inum].direct[k] = b]
      /\ k' = k + 1
      /\ UNCHANGED <<pc, job, pending>>

\* -ENOTENOUGHSPACE or -EINVALIDINODE after the blocks before k were written.
WriteFails ==
  LET ino == mem.inodes[job.inum]
  IN  /\ InLoop
      /\ IF Reuses(ino) THEN ino.direct[k] \notin DataBlocks
         ELSE mem.dataBitmap = DataBlocks
      /\ Return(disk)
      /\ UNCHANGED disk

\* A mutant of WriteTrim: the bits of the blocks it drops stay set.
WriteTrimKeepsBits ==
  LET ino  == mem.inodes[job.inum]
      need == BlocksFor(job.ret)
  IN  /\ pc = "write" /\ k = need
      /\ pc' = "dataBitmap" /\ k' = 0
      /\ mem' = [mem EXCEPT !.inodes[job.inum] =
                   [ino EXCEPT !.size = job.ret,
                               !.direct = [i \in Ptrs |-> IF i >= need THEN NoBlock
                                                          ELSE ino.direct[i]]]]
      /\ UNCHANGED <<disk, job, pending>>

\* After the loop the blocks a longer old body had are given back.
WriteTrim ==
  LET ino  == mem.inodes[job.inum]
      need == BlocksFor(job.ret)
      drop == {i \in Held(ino, BlocksFor(ino.size)) : i >= need}
      old  == {ino.direct[i] : i \in drop}
  IN  /\ pc = "write" /\ k = need
      /\ \E lucky \in BOOLEAN :
           IF StrayBit(old, lucky)
           THEN /\ pc' = "dataBitmap" /\ k' = 0
                /\ mem' = [mem EXCEPT
                     !.dataBitmap = @ \ old,
                     !.inodes[job.inum] =
                        [ino EXCEPT !.size = job.ret,
                                    !.direct = [i \in Ptrs |-> IF i \in drop THEN NoBlock
                                                               ELSE ino.direct[i]]]]
                /\ UNCHANGED <<job, pending>>
           ELSE Return(disk)
      /\ UNCHANGED disk

----------------------------------------------------------------------------
\* The block writes of a call that has decided.
FlushBlock ==
  /\ pc = "blocks"
  /\ disk' = [disk EXCEPT !.blocks[Head(pending).addr] = Head(pending).cells]
  /\ IF Tail(pending) = <<>> /\ job.ret < 0 THEN Return(disk')
     ELSE /\ pending' = Tail(pending)
          /\ pc' = IF Tail(pending) = <<>> THEN "inodeBitmap" ELSE "blocks"
          /\ UNCHANGED <<job, mem, k>>

\* Mutants of FlushInodeBitmap: it writes nothing; the data bitmap is forgotten.
FlushNoInodeBitmap ==
  /\ pc = "inodeBitmap"
  /\ pc' = "dataBitmap"
  /\ UNCHANGED <<disk, job, pending, mem, k>>

FlushOnlyInodeBitmap ==
  /\ pc = "inodeBitmap"
  /\ disk' = [disk EXCEPT !.inodeBitmap = mem.inodeBitmap]
  /\ pc' = "region"
  /\ UNCHANGED <<job, pending, mem, k>>

FlushInodeBitmap ==
  /\ pc = "inodeBitmap"
  /\ disk' = [disk EXCEPT !.inodeBitmap = mem.inodeBitmap]
  /\ pc' = "dataBitmap"
  /\ UNCHANGED <<job, pending, mem, k>>

\* Behind the bitmap write() reads the inode region and replaces one inode in
\* it; as long as no other process writes that is what it has in memory.
FlushDataBitmap ==
  /\ pc = "dataBitmap"
  /\ disk' = [disk EXCEPT !.dataBitmap = mem.dataBitmap]
  /\ mem' = [mem EXCEPT !.inodes =
                IF job.op = "write" THEN [disk.inodes EXCEPT ![job.inum] = mem.inodes[job.inum]]
                ELSE @]
  /\ pc' = "region"
  /\ UNCHANGED <<job, pending, k>>

FlushRegion ==
  /\ pc = "region"
  /\ disk' = [disk EXCEPT !.inodes = [i \in Inodes |->
                IF i \div InodesPerBlock = k THEN mem.inodes[i] ELSE disk.inodes[i]]]
  /\ IF k + 1 = InodeRegionLen THEN Return(disk')
     ELSE k' = k + 1 /\ UNCHANGED <<pc, job, pending, mem>>

Flush == FlushBlock \/ FlushInodeBitmap \/ FlushDataBitmap \/ FlushRegion

\* The process dies between two block writes; nothing repairs the image.
Crash == pc # "idle" /\ Return(disk) /\ UNCHANGED disk

\* The stretch in which the data bitmap on disk no longer has the blocks a call
\* gives back, while inodes on disk may still point to them.
GivingBack == pc = "region" /\ job.op \in {"unlink", "write"}

----------------------------------------------------------------------------
AnyInode == -1 .. NumInodes
AnyName  == ValidNames \cup {"", LongName}

WriteSteps == WriteReuse \/ WriteAllocate \/ WriteFails \/ WriteTrim

Calls ==
  \/ \E p \in AnyInode, type \in {Directory, RegularFile}, n \in AnyName : Create(p, type, n)
  \/ \E p \in AnyInode, n \in AnyName : Unlink(p, n)
  \/ \E i \in AnyInode, text \in FileCells, size \in Sizes : Write(i, text, size)
  \/ WriteSteps
  \/ Flush

\* No process dies.
Spec == Init /\ [][Calls]_vars

\* Processes die, and new ones open the image as it is, but not while blocks
\* are being given back.
RestartSpec == Init /\ [][Calls \/ (Crash /\ ~GivingBack)]_vars

\* Callers write only to inodes that are allocated, as the server does, which
\* writes to what lookup or create has just returned.
ServerNext == Calls /\ (pc = "idle" /\ pc' = "write" => job'.inum \in disk.inodeBitmap)
ServerSpec == Init /\ [][ServerNext]_vars
=============================================================================
