----------------------------- MODULE SharedCall -----------------------------
(***************************************************************************)
(* A call of LocalFileSystem in a process that is not alone with the image *)
(* file: a ds3 tool beside the server, or beside another tool.  Nothing    *)
(* locks the file, so that the reads of a call are steps as well as its    *)
(* writes, and what it decides on may be old when it writes.               *)
(*                                                                         *)
(* The operators are those of LocalFileSystem.  The inode region is read   *)
(* block by block; the blocks of a directory are read in one step.         *)
(***************************************************************************)
EXTENDS LocalFileSystem

VARIABLE seen   \* the directory blocks unlink has read

callVars == <<vars, seen>>

\* What a call knows before it has read anything.
Blank == [inodeBitmap |-> {}, dataBitmap |-> {}, inodes |-> [i \in Inodes |-> ZeroInode]]
Nothing == [b \in DataBlocks |-> ZeroBlock]

\* The image as the call believes it to be.
Believed(blocks) == [inodeBitmap |-> mem.inodeBitmap, dataBitmap |-> mem.dataBitmap,
                     inodes |-> mem.inodes, blocks |-> blocks]

Begin(j, first, m) ==
  /\ pc = "idle" /\ pc' = first
  /\ job' = j /\ mem' = m
  /\ UNCHANGED <<disk, pending, k, seen>>

\* ds3touch, ds3mkdir: create; ds3rm: unlink; ds3cp: write.
BeginCreate(p, type, n) ==
  Begin([op |-> "create", inum |-> p, type |-> type, name |-> n, ret |-> 0],
        "readInodeBitmap", Blank)

BeginUnlink(p, n) ==
  Begin([op |-> "unlink", inum |-> p, name |-> n, ret |-> 0], "readInodeBitmap", Blank)

\* write() begins with stat(), which reads the block the inode is in.
BeginWrite(i, text, size) ==
  /\ WriteError(disk, i, size) = 0
  /\ Begin([op |-> "write", inum |-> i, text |-> text, ret |-> size], "readDataBitmap",
           [Blank EXCEPT !.inodes[i] = disk.inodes[i]])

----------------------------------------------------------------------------
\* The reads, in the order of the code.
GoOn(next) == pc' = next /\ UNCHANGED <<disk, job, pending>>

ReadInodeBitmap ==
  /\ pc = "readInodeBitmap"
  /\ mem' = [mem EXCEPT !.inodeBitmap = disk.inodeBitmap]
  /\ GoOn(IF job.op = "create" THEN "readDataBitmap" ELSE "readRegion")
  /\ UNCHANGED <<k, seen>>

AfterDataBitmap == CASE job.op = "create" -> "readRegion"
                     [] job.op = "write"  -> "write"
                     [] job.op = "unlink" -> "decide"

\* A mutant of ReadDataBitmap: the buffer is used as it is.
ReadNoDataBitmap ==
  /\ pc = "readDataBitmap"
  /\ GoOn(AfterDataBitmap)
  /\ UNCHANGED <<mem, k, seen>>

ReadDataBitmap ==
  /\ pc = "readDataBitmap"
  /\ mem' = [mem EXCEPT !.dataBitmap = disk.dataBitmap]
  /\ GoOn(AfterDataBitmap)
  /\ UNCHANGED <<k, seen>>

\* A mutant of ReadRegion: the last block is left out.
ReadRegionShort ==
  /\ pc = "readRegion"
  /\ mem' = [mem EXCEPT !.inodes = [i \in Inodes |->
               IF i \div InodesPerBlock = k THEN disk.inodes[i] ELSE @[i]]]
  /\ IF k + 2 < InodeRegionLen
     THEN k' = k + 1 /\ GoOn("readRegion")
     ELSE k' = 0 /\ GoOn(IF job.op = "create" THEN "decide" ELSE "readDirectory")
  /\ UNCHANGED seen

ReadRegion ==
  /\ pc = "readRegion"
  /\ mem' = [mem EXCEPT !.inodes = [i \in Inodes |->
               IF i \div InodesPerBlock = k THEN disk.inodes[i] ELSE @[i]]]
  /\ IF k + 1 < InodeRegionLen
     THEN k' = k + 1 /\ GoOn("readRegion")
     ELSE k' = 0 /\ GoOn(IF job.op = "create" THEN "decide" ELSE "readDirectory")
  /\ UNCHANGED seen

ReadDirectory ==
  /\ pc = "readDirectory"
  /\ seen' = disk.blocks
  /\ GoOn("readDataBitmap")
  /\ UNCHANGED <<mem, k>>

----------------------------------------------------------------------------
\* The decisions.
GiveUp == Return(disk) /\ UNCHANGED disk

DecideUnlink ==
  /\ pc = "decide" /\ job.op = "unlink"
  /\ \E plan \in UnlinkPlans(Believed(seen), job.inum, job.name) :
       IF IsRefused(plan) THEN GiveUp ELSE Proceed([job EXCEPT !.ret = plan.ret], plan)
  /\ seen' = Nothing

\* create() looks for the name, takes an inode and, for a directory, a block;
\* it comes back to the parent's blocks when that block has been written.
DecideCreate ==
  LET d    == Believed(disk.blocks)
      i    == Least(Inodes \ mem.inodeBitmap)
      home == Least(DataBlocks \ mem.dataBitmap)
  IN  /\ pc = "decide" /\ job.op = "create"
      /\ IF CreateChecks(d, job.inum, job.type, job.name) # Passes THEN GiveUp
         ELSE /\ mem' = WithInode(mem, job.type)
              /\ job' = [job EXCEPT !.ret = i]
              /\ IF job.type = Directory
                 THEN pc' = "home" /\ pending' = <<Update(home, DirBlock(i, job.inum))>>
                 ELSE pc' = "link" /\ UNCHANGED pending
              /\ UNCHANGED <<disk, k>>
      /\ UNCHANGED seen

WriteHome ==
  /\ pc = "home"
  /\ disk' = [disk EXCEPT !.blocks[Head(pending).addr] = Head(pending).cells]
  /\ pending' = <<>> /\ pc' = "link"
  /\ UNCHANGED <<job, mem, k, seen>>

LinkEntry ==
  LET plan == Link(Believed(disk.blocks), job.inum, job.name, job.ret, <<>>, mem)
  IN  /\ pc = "link"
      /\ IF IsRefused(plan) THEN GiveUp ELSE Proceed(job, plan)
      /\ UNCHANGED seen

----------------------------------------------------------------------------
\* A step of a call that has begun.
Continue ==
  \/ ReadInodeBitmap \/ ReadDataBitmap \/ ReadRegion \/ ReadDirectory
  \/ DecideUnlink \/ DecideCreate \/ WriteHome \/ LinkEntry
  \/ ((WriteSteps \/ Flush) /\ UNCHANGED seen)

Die == Crash /\ seen' = Nothing
=============================================================================
