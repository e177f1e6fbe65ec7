---------------------------- MODULE SharedImage -----------------------------
(***************************************************************************)
(* Two processes that have the same image file open, with nothing between  *)
(* them: Disk opens the file for each block and takes no lock.             *)
(*                                                                         *)
(* One of them runs: its memory is that of SharedCall.  The other is       *)
(* suspended, and the two are switched between any two steps.              *)
(*                                                                         *)
(* There is a file neither of them is asked to touch: their calls are      *)
(* about other names and other inodes.  A transaction of the server is not *)
(* part of this module: a rollback would put back whole blocks, also those *)
(* the other process has written since.                                    *)
(***************************************************************************)
EXTENDS SharedCall

CONSTANTS
  Bystander,   \* the name of the file nobody is asked about
  MaxCalls,    \* how many calls a process may begin
  MaxTotal     \* how many calls the two may begin

ASSUME SharedAssumption ==
  /\ Bystander \in Names /\ FileCells # {}
  /\ EntriesPerBlock > 2 /\ NumInodes > 1 /\ NumData > 1
  /\ MaxCalls \in Nat /\ MaxTotal \in Nat

VARIABLES
  begun,   \* how many calls the process that runs has begun
  other    \* the suspended process

process    == <<pc, job, pending, mem, k, seen, begun>>
sharedVars == <<disk, process, other>>

----------------------------------------------------------------------------
\* The root and one file of one block, as create and write leave them; the
\* other inodes are zero.
File      == 1
FileBlock == DataRegionAddr + 1
FileText  == CHOOSE c \in FileCells : TRUE

StartImage ==
  [inodeBitmap |-> {Root, File},
   dataBitmap  |-> {DataRegionAddr, FileBlock},
   inodes |-> [i \in Inodes |->
      CASE i = Root -> [RootInode EXCEPT !.size = 3]
        [] i = File -> [type |-> RegularFile, size |-> EntriesPerBlock,
                        direct |-> [a \in Ptrs |-> IF a = 0 THEN FileBlock ELSE NoBlock]]
        [] OTHER -> ZeroInode],
   blocks |-> [b \in DataBlocks |->
      CASE b = DataRegionAddr ->
             [RootBlock([s \in Slots |-> ""]) EXCEPT ![2] = Entry(Bystander, File)]
        [] b = FileBlock -> [s \in Slots |-> FileText]
        [] OTHER -> ZeroBlock]]

\* The memory of the process that runs.
Current == [pc |-> pc, job |-> job, pending |-> pending, mem |-> mem, k |-> k,
            seen |-> seen, begun |-> begun]

SharedInit ==
  /\ disk = StartImage
  /\ pc = "idle" /\ job = NoJob /\ pending = <<>> /\ mem = Meta(disk) /\ k = 0
  /\ seen = Nothing /\ begun = 0
  /\ other = Current

Others == Names \ {Bystander}

BeginCall ==
  /\ begun < MaxCalls /\ begun + other.begun < MaxTotal
  /\ begun' = begun + 1
  /\ \/ \E p \in Inodes, n \in Others :
          \/ \E type \in {Directory, RegularFile} : BeginCreate(p, type, n)
          \/ BeginUnlink(p, n)
     \/ \E i \in Inodes \ {File}, text \in FileCells, size \in Sizes :
          BeginWrite(i, text, size)

\* A process between two calls remembers nothing of the image.
Forgets == other' = IF other.pc = "idle" THEN [other EXCEPT !.mem = Meta(disk')] ELSE other

Run ==
  /\ BeginCall \/ ((Continue \/ Die) /\ UNCHANGED begun)
  /\ Forgets

\* The other process is scheduled.
Switch ==
  /\ other' = Current
  /\ pc' = other.pc /\ job' = other.job /\ pending' = other.pending /\ mem' = other.mem
  /\ k' = other.k /\ seen' = other.seen /\ begun' = other.begun
  /\ UNCHANGED disk

SharedSpec == SharedInit /\ [][Run \/ Switch]_sharedVars

----------------------------------------------------------------------------
\* Whatever the two do to each other, and wherever they die: in every image
\* the file is found under its name, has its inode and its block to itself on
\* the bitmaps, and reads as before.
BystanderKept ==
  /\ Lookup(disk, Root, Bystander) = File
  /\ File \in disk.inodeBitmap /\ FileBlock \in disk.dataBitmap
  /\ disk.inodes[File] = StartImage.inodes[File]
  /\ Read(disk, File, EntriesPerBlock) = Read(StartImage, File, EntriesPerBlock)

----------------------------------------------------------------------------
\* What a call looks like to LocalFileSystem, where a call reads and decides
\* in its first step: nothing while it reads, all of its writes once it has
\* decided.  create() decides when it makes the block of a new directory;
\* what it will do to the parent is determined then.
Deciding == pc \in {"readInodeBitmap", "readDataBitmap", "readRegion", "readDirectory",
                    "decide"}
Creating == pc \in {"home", "link"}
Writing  == job.op = "write" /\ pc \in {"write", "dataBitmap", "region"}

LinkPlan ==
  LET blocks == IF pc = "home"
                THEN [disk.blocks EXCEPT ![Head(pending).addr] = Head(pending).cells]
                ELSE disk.blocks
  IN  Link([disk EXCEPT !.blocks = blocks], job.inum, job.name, job.ret, pending, mem)

\* A call that is at this point for LocalFileSystem, too.
Begun == ~Deciding /\ (pc = "link" => job.type = Directory /\ ~IsRefused(LinkPlan))

\* The variables of LocalFileSystem.  While write() goes on, what it has not
\* read of the image, or reads later, is what the image has.
pcL      == IF ~Begun THEN "idle" ELSE IF Creating THEN "blocks" ELSE pc
jobL     == IF ~Begun THEN NoJob
            ELSE IF Creating THEN [job EXCEPT !.ret = LinkPlan.ret] ELSE job
pendingL == IF ~Begun THEN <<>> ELSE IF Creating THEN LinkPlan.writes ELSE pending
memL     == IF ~Begun THEN Meta(disk)
            ELSE IF Creating THEN LinkPlan.mem
            ELSE IF Writing
            THEN [mem EXCEPT !.inodeBitmap = disk.inodeBitmap,
                             !.inodes = [disk.inodes EXCEPT
                                           ![job.inum] = mem.inodes[job.inum]]]
            ELSE mem
kL       == IF Begun THEN k ELSE 0

L == INSTANCE LocalFileSystem WITH
       pc <- pcL, job <- jobL, pending <- pendingL, mem <- memL, k <- kL

\* As long as a process is alone, it does what LocalFileSystem describes: that
\* its reads are steps makes no difference.
AloneAsLFS ==
  [][other.begun = 0 /\ other'.begun = 0 => [L!Calls \/ L!Crash]_(L!vars)]_sharedVars
=============================================================================
