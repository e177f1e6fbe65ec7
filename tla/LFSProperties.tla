--------------------------- MODULE LFSProperties ----------------------------
(***************************************************************************)
(* What LocalFileSystem keeps and what it promises.                        *)
(*                                                                         *)
(* The image is looked at in every state, also between the block writes of *)
(* a call: such a state is the image a process that dies there leaves.     *)
(***************************************************************************)
EXTENDS LocalFileSystem

Metadata == [inodeBitmap : SUBSET Inodes, dataBitmap : SUBSET DataBlocks,
             inodes : [Inodes -> Inode]]

Jobs == {NoJob}
        \cup [op : {"create"}, inum : AnyInode, type : {Directory, RegularFile},
              name : AnyName, ret : Int]
        \cup [op : {"unlink"}, inum : AnyInode, name : AnyName, ret : Int]
        \cup [op : {"write"}, inum : Inodes, text : FileCells, ret : Int]

\* The state is what the code's structures can hold.
TypeOK ==
  /\ disk \in Image
  /\ pc \in {"idle", "write", "blocks", "inodeBitmap", "dataBitmap", "region"}
  /\ job \in Jobs
  /\ pending \in Seq([addr : DataBlocks, cells : Block])
  /\ mem \in Metadata
  /\ k \in 0 .. DirectPtrs + InodeRegionLen

----------------------------------------------------------------------------
\* Blocks

\* No data block has two owners among the pointers of all inodes, whether the
\* inode is allocated or not.
Unshared(inodes) ==
  \A i, j \in Inodes, a, b \in Ptrs :
     /\ inodes[i].direct[a] \in DataBlocks
     /\ inodes[i].direct[a] = inodes[j].direct[b]
     => i = j /\ a = b

\* Every data block an inode points to has its bit set.
Marked(inodes, dataBitmap) ==
  \A i \in Inodes, a \in Ptrs :
     inodes[i].direct[a] \in DataBlocks => inodes[i].direct[a] \in dataBitmap

\* At no moment, and after any number of restarts, do two inodes of the image
\* share a block, so that no file is overwritten through another; nor in the
\* image of any crash but one while blocks are given back.
NoSharedBlock == Unshared(disk.inodes)

\* A block that an inode of the image points to is free on disk only while the
\* running unlink or write is giving it back: bits are set on disk before a
\* pointer appears and cleared only on behalf of a pointer that disappears.
FreeOnlyWhileGivenBack ==
  \A i \in Inodes, a \in Ptrs :
     LET b == disk.inodes[i].direct[a]
     IN  b \in DataBlocks \ disk.dataBitmap => GivingBack /\ b \notin mem.dataBitmap

\* What makes these two inductive.  The inodes on disk and those in memory are
\* apart from each other and not only among themselves, since the region is
\* written block by block and holds some of each in between; a call that only
\* takes blocks marks in memory whatever the disk points to.
Apart(x, y) ==
  \A i, j \in Inodes, a, b \in Ptrs :
     i # j /\ x[i].direct[a] \in DataBlocks => x[i].direct[a] # y[j].direct[b]

Taking == pc = "write" \/ (pc # "idle" /\ job.op = "create")

Structure ==
  /\ DOMAIN disk = {"inodeBitmap", "dataBitmap", "inodes", "blocks"}
  /\ Meta(disk) \in Metadata
  /\ mem \in Metadata

Control ==
  /\ pc = "idle" => mem = Meta(disk)
  /\ pc # "idle" => job.op \in {"create", "unlink", "write"}
  /\ pc = "write" => job.op = "write" /\ job.inum \in Inodes /\ job.ret \in Int
  /\ pc \in {"blocks", "inodeBitmap"} => job.op # "write"
  /\ pc \in {"write", "dataBitmap"} /\ job.op = "write" =>
       /\ job.inum \in Inodes
       /\ \A i \in Inodes \ {job.inum} : mem.inodes[i] = disk.inodes[i]
  /\ pc \in {"idle", "blocks", "inodeBitmap", "dataBitmap"} => k = 0
  /\ pc = "region" =>
       /\ k \in 0 .. InodeRegionLen - 1
       /\ disk.dataBitmap = mem.dataBitmap
       /\ \A i \in Inodes : i \div InodesPerBlock < k => disk.inodes[i] = mem.inodes[i]

Owners ==
  /\ Unshared(disk.inodes)
  /\ Unshared(mem.inodes)
  /\ Apart(disk.inodes, mem.inodes)
  /\ Marked(mem.inodes, mem.dataBitmap)
  /\ ~GivingBack => Marked(disk.inodes, disk.dataBitmap)
  /\ Taking => Marked(disk.inodes, mem.dataBitmap)

Ownership == Structure /\ Control /\ Owners

\* Without crashes, and while directories have at most two blocks, no data block
\* is lost: every block whose bit is set is one an inode points to, when no call
\* is running.
NoLostBlock ==
  pc = "idle" =>
    \A b \in disk.dataBitmap : \E i \in Inodes, a \in Ptrs : disk.inodes[i].direct[a] = b

----------------------------------------------------------------------------
\* The directory tree

Directories(d) == {p \in d.inodeBitmap : d.inodes[p].type = Directory}

\* No pointer is missing within the size of a directory in memory.  It is so as
\* long as the block unlink empties is the last of the directory, and always
\* where an inode has two pointers: the block of the two dots is never emptied.
NoGaps(m) ==
  \A p \in Directories(m), a \in Ptrs :
     a < BlocksFor(m.inodes[p].size) => m.inodes[p].direct[a] # NoBlock
NoGap == NoGaps(mem)

\* The positions at which directory p shows a name other than "." and "..".
Shown(d, p) ==
  LET ino == d.inodes[p]
      ks  == {i \in Held(ino, BlocksFor(ino.size)) : ino.direct[i] \in DataBlocks}
  IN  {pos \in PositionsIn(ks) :
         CellAt(d, ino, pos).inum # -1 /\ CellAt(d, ino, pos).name \notin {"", ".", ".."}}

\* Where inode i is named.
Links(d, i) == {l \in UNION { {p} \X Shown(d, p) : p \in Directories(d) } :
                  CellAt(d, d.inodes[l[1]], l[2]).inum = i}

\* The names make a tree: every name leads to an allocated inode, no inode has
\* two names, and ".." of a directory that has a name is where the name is.
\* (An inode may be without a name: an unlink that the sanitizer stops has
\* removed the name and keeps the inode.)
TreeShape ==
  pc = "idle" =>
    /\ \A p \in Directories(disk) : \A pos \in Shown(disk, p) :
         CellAt(disk, disk.inodes[p], pos).inum \in disk.inodeBitmap
    /\ \A i \in disk.inodeBitmap \ {Root} :
         /\ Cardinality(Links(disk, i)) <= 1
         /\ i \in Directories(disk) =>
              \A l \in Links(disk, i) : CellAt(disk, disk.inodes[i], 1) = Entry("..", l[1])

\* Seen from any point of any call, and so also after a crash there, the names
\* the call is not about keep leading to the same inodes.
AboutName(p, n) == job.op \in {"create", "unlink"} /\ job.inum = p /\ job.name = n

OtherNamesStay ==
  [][\A p \in Directories(disk) \cap mem'.inodeBitmap, n \in Names :
       ~AboutName(p, n) /\ Lookup(disk, p, n) >= 0
       => Lookup(disk', p, n) = Lookup(disk, p, n)]_vars

Returns(op) == pc = "region" /\ pc' = "idle" /\ k + 1 = InodeRegionLen /\ job.op = op

\* A name that create has reported as made is found by lookup, with the inode
\* create returned.
CreatedIsFound ==
  [][Returns("create") => Lookup(disk', job.inum, job.name) = job.ret]_vars

\* A name that unlink has reported as removed is not found any more.
UnlinkedIsGone ==
  [][Returns("unlink") => Lookup(disk', job.inum, job.name) < 0]_vars

\* If unlink returns success because it did not come upon the name, then lookup
\* does not come upon it either.
AbsentForUnlink ==
  pc = "idle" =>
    \A p \in Directories(disk), n \in Names : \A plan \in UnlinkPlans(disk, p, n) :
       plan.ret = 0 /\ plan.writes = <<>> => Lookup(disk, p, n) < 0

\* unlink returns to its caller, whatever the name.
UnlinkReturns ==
  pc = "idle" =>
    \A p \in Directories(disk), n \in Names : \A plan \in UnlinkPlans(disk, p, n) :
       plan.ret # Aborts

----------------------------------------------------------------------------
\* Files

SameFile(i) ==
  /\ disk'.inodes[i].type = RegularFile
  /\ disk'.inodes[i].size = disk.inodes[i].size
  /\ Read(disk', i, disk.inodes[i].size) = Read(disk, i, disk.inodes[i].size)

\* No block write of any call changes what an allocated file reads as, except
\* write of that very file, and the unlink that takes it away or the create
\* that makes it; so it is also unchanged in every crash image.
FilesUntouched ==
  [][\A i \in disk.inodeBitmap \cap mem'.inodeBitmap :
       /\ disk.inodes[i].type = RegularFile
       /\ ~(job.op = "write" /\ job.inum = i)
       /\ ~(job.op = "create" /\ job.ret = i)
       => SameFile(i)]_vars

\* After a write that returned, read returns the whole new body and no cell
\* of the old one.
WrittenIsRead ==
  [][Returns("write") =>
       /\ disk'.inodes[job.inum].size = job.ret
       /\ Read(disk', job.inum, job.ret) = [e \in 0 .. job.ret - 1 |-> job.text]]_vars

----------------------------------------------------------------------------
\* What makes the last two and TypeOK inductive, with processes that die.

\* The running write or create may change inode i, or make it.
About(i) == \/ job.op = "write" /\ job.inum = i
            \/ job.op = "create" /\ job.ret = i

\* Blocks that can be written without a file on disk being different.
Harmless(d) == {b \in DataBlocks : \A i \in Inodes, a \in Ptrs :
                  d.inodes[i].direct[a] = b => d.inodes[i].type = Directory}

\* create and unlink write blocks of directories and blocks nobody has, and the
\* inodes they write later are, but for the one a call is about, those of the disk.
FilesApart ==
  /\ pc = "blocks" => pending # <<>> /\ pending \in Seq([addr : Harmless(disk), cells : Block])
  /\ pc \in {"write", "dataBitmap", "region"} => disk.inodeBitmap = mem.inodeBitmap
  /\ \A i \in mem.inodeBitmap :
       disk.inodes[i].type = RegularFile /\ ~About(i) => mem.inodes[i] = disk.inodes[i]

\* A file has no block behind its size.
Tidy(inodes) ==
  \A i \in Inodes, a \in Ptrs :
     inodes[i].type = RegularFile /\ inodes[i].direct[a] \in DataBlocks =>
       a < BlocksFor(inodes[i].size)

Written(a) ==
  LET b == mem.inodes[job.inum].direct[a]
  IN  b \in DataBlocks /\ disk.blocks[b] = Chunk(job.text, job.ret, a)

\* The loop of write has written the first k blocks; when it is over the inode
\* in memory has these and no other.
WriteSoFar ==
  /\ Tidy(disk.inodes)
  /\ pc # "write" => Tidy(mem.inodes)
  /\ pc # "idle" /\ job.op = "write" => job.ret \in Nat /\ BlocksFor(job.ret) <= DirectPtrs
  /\ pc = "write" =>
       /\ k \in 0 .. BlocksFor(job.ret)
       /\ \A a \in 0 .. k - 1 : Written(a)
       /\ \A a \in Ptrs : mem.inodes[job.inum].direct[a] \in DataBlocks =>
            a < k \/ a < BlocksFor(mem.inodes[job.inum].size)
  /\ pc \in {"dataBitmap", "region"} /\ job.op = "write" =>
       /\ mem.inodes[job.inum].size = job.ret
       /\ \A a \in Ptrs : IF a < BlocksFor(job.ret) THEN Written(a)
                          ELSE mem.inodes[job.inum].direct[a] \notin DataBlocks

Contents == TypeOK /\ FilesApart /\ WriteSoFar

\* All that every step keeps: who owns which block, and what is in the blocks.
Kept == Ownership /\ Contents
=============================================================================
