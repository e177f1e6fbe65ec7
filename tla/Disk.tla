-------------------------------- MODULE Disk --------------------------------
(***************************************************************************)
(* Class Disk: the image file behind the file system, one block at a time, *)
(* with an in-memory undo log that beginTransaction/commit/rollback use.   *)
(* Every writeBlock is followed by fsync, so a block that was written      *)
(* stays written; everything else of the object dies with the process.     *)
(***************************************************************************)
EXTENDS Integers, Sequences

CONSTANTS
  NumBlocks,   \* imageFileSize / blockSize
  Data,        \* contents a block may have
  MaxUndo      \* bound on the undo log (the code has none)

ASSUME DiskAssumption == NumBlocks \in Nat \ {0} /\ MaxUndo \in Nat

VARIABLES
  image,            \* the image file, block by block
  isInTransaction,
  undoLog,          \* std::deque<UndoRecord>, front (newest record) first
  rollingBack,      \* control is inside the loop of rollback()
  undone,           \* records that loop has written back
  base              \* history: the image a rollback has to restore

vars == <<image, isInTransaction, undoLog, rollingBack, undone, base>>

Blocks == 0 .. NumBlocks - 1
UndoRecord == [blockNumber : Blocks, blockData : Data]

TypeOK ==
  /\ image \in [Blocks -> Data]
  /\ isInTransaction \in BOOLEAN
  /\ undoLog \in Seq(UndoRecord)
  /\ rollingBack \in BOOLEAN
  /\ undone \in 0 .. Len(undoLog)
  /\ base \in [Blocks -> Data]

\* The constructor on an existing image file.
Init ==
  /\ image \in [Blocks -> Data]
  /\ isInTransaction = FALSE
  /\ undoLog = <<>>
  /\ rollingBack = FALSE
  /\ undone = 0
  /\ base = image

----------------------------------------------------------------------------
BeginTransaction ==
  /\ ~rollingBack /\ ~isInTransaction
  /\ isInTransaction' = TRUE
  /\ UNCHANGED <<image, undoLog, rollingBack, undone, base>>

\* Mutants of Put: the record has the new contents; it is not made at all.
PutLogsNew(b, d) ==
  /\ isInTransaction => Len(undoLog) < MaxUndo
  /\ undoLog' = IF isInTransaction
                THEN <<[blockNumber |-> b, blockData |-> d]>> \o undoLog
                ELSE undoLog
  /\ image' = [image EXCEPT ![b] = d]

PutUnlogged(b, d) ==
  /\ undoLog' = undoLog
  /\ image' = [image EXCEPT ![b] = d]

\* writeBlock(): in a transaction the old contents go to the front of the
\* log before the image changes.
Put(b, d) ==
  /\ isInTransaction => Len(undoLog) < MaxUndo
  /\ undoLog' = IF isInTransaction
                THEN <<[blockNumber |-> b, blockData |-> image[b]]>> \o undoLog
                ELSE undoLog
  /\ image' = [image EXCEPT ![b] = d]

WriteBlock(b, d) ==
  /\ ~rollingBack
  /\ Put(b, d)
  /\ base' = IF isInTransaction THEN base ELSE image'
  /\ UNCHANGED <<isInTransaction, rollingBack, undone>>

\* A mutant of Commit: the transaction survives it.
CommitStaysInTx ==
  /\ ~rollingBack
  /\ undoLog' = <<>>
  /\ base' = image
  /\ UNCHANGED <<image, isInTransaction, rollingBack, undone>>

Commit ==
  /\ ~rollingBack
  /\ isInTransaction' = FALSE
  /\ undoLog' = <<>>
  /\ base' = image
  /\ UNCHANGED <<image, rollingBack, undone>>

\* A mutant of Rollback: the writes of the loop are logged too.
RollbackInTx ==
  /\ ~rollingBack
  /\ rollingBack' = (undoLog # <<>>)
  /\ UNCHANGED <<image, isInTransaction, undoLog, undone, base>>

\* rollback() leaves the transaction before its loop, so the writes of the
\* loop add no records.  On an empty log the loop has nothing to do.
Rollback ==
  /\ ~rollingBack
  /\ isInTransaction' = FALSE
  /\ rollingBack' = (undoLog # <<>>)
  /\ UNCHANGED <<image, undoLog, undone, base>>

\* A mutant of RollbackWrite: from the oldest record to the newest.
RollbackOldestFirst ==
  /\ rollingBack /\ undone < Len(undoLog)
  /\ LET rec == undoLog[Len(undoLog) - undone] IN Put(rec.blockNumber, rec.blockData)
  /\ undone' = undone + 1
  /\ UNCHANGED <<isInTransaction, rollingBack, base>>

\* One turn of the loop: iterator position undone + 1, front of the deque first.
RollbackWrite ==
  /\ rollingBack /\ undone < Len(undoLog)
  /\ LET rec == undoLog[undone + 1] IN Put(rec.blockNumber, rec.blockData)
  /\ undone' = undone + 1
  /\ UNCHANGED <<isInTransaction, rollingBack, base>>

\* A mutant of RollbackEnd: the position is not reset.
RollbackEndKeepsPosition ==
  /\ rollingBack /\ undone = Len(undoLog)
  /\ undoLog' = <<>>
  /\ rollingBack' = FALSE
  /\ UNCHANGED <<image, isInTransaction, undone, base>>

RollbackEnd ==
  /\ rollingBack /\ undone = Len(undoLog)
  /\ undoLog' = <<>>
  /\ rollingBack' = FALSE
  /\ undone' = 0
  /\ UNCHANGED <<image, isInTransaction, base>>

\* A new process opens the image: the constructor sees whatever was written.
Restart ==
  /\ isInTransaction' = FALSE
  /\ undoLog' = <<>>
  /\ rollingBack' = FALSE
  /\ undone' = 0
  /\ base' = image
  /\ UNCHANGED image

\* The calls that end the process with exit(1), and a process that is killed.
InvalidBlockNumber(b) == ~rollingBack /\ b \notin Blocks /\ Restart
BeginTwice == ~rollingBack /\ isInTransaction /\ Restart
Crash == Restart

Next ==
  \/ BeginTransaction \/ Commit \/ Rollback \/ RollbackWrite \/ RollbackEnd
  \/ \E b \in Blocks, d \in Data : WriteBlock(b, d)
  \/ \E b \in {-1, NumBlocks} : InvalidBlockNumber(b)
  \/ BeginTwice \/ Crash

Spec == Init /\ [][Next]_vars

\* rollback() runs to its end: a started loop is not suspended.
FairSpec == Spec /\ WF_vars(RollbackWrite) /\ WF_vars(RollbackEnd)

----------------------------------------------------------------------------
\* The records the running rollback has not written back yet (all of them
\* while no rollback runs).
Pending == undone + 1 .. Len(undoLog)

\* A block without a pending record already holds its old contents, and the
\* oldest record of a block holds them.  This is what makes writing the log
\* back from the newest record to the oldest restore the image even when the
\* transaction wrote a block several times, and at whatever record the loop
\* has arrived.
UndoCovers ==
  /\ \A b \in Blocks :
       (\A k \in Pending : undoLog[k].blockNumber # b) => image[b] = base[b]
  /\ \A k \in DOMAIN undoLog :
       (\A j \in k + 1 .. Len(undoLog) :
           undoLog[j].blockNumber # undoLog[k].blockNumber)
       => undoLog[k].blockData = base[undoLog[k].blockNumber]

\* Records exist only inside a transaction or its rollback, so nothing a
\* later transaction rolls back can stem from an earlier one.
LogOnlyInTx ==
  /\ ~isInTransaction /\ ~rollingBack => undoLog = <<>>
  /\ ~rollingBack => undone = 0
  /\ rollingBack => ~isInTransaction

\* When rollback() returns, every block is what it was at beginTransaction().
RollbackRestores ==
  [][rollingBack /\ ~rollingBack' /\ undone = Len(undoLog) => image' = base]_vars

\* A crash inside a transaction or in the middle of a rollback damages only
\* blocks that transaction wrote, although rollback() has cleared
\* isInTransaction by then.
CrashConfined ==
  [][\A b \in Blocks :
       /\ isInTransaction \/ rollingBack
       /\ \A k \in DOMAIN undoLog  : undoLog[k].blockNumber # b
       /\ \A k \in DOMAIN undoLog' : undoLog'[k].blockNumber # b
       => image'[b] = base[b]]_vars

\* A rollback that is not interrupted ends outside any transaction.
RollbackReturns == rollingBack ~> ~rollingBack

\* The abstract store this class implements.
Tx == INSTANCE TxDisk WITH
        working <- IF rollingBack THEN base ELSE image,
        stable  <- base,
        phase   <- IF rollingBack THEN "undo"
                   ELSE IF isInTransaction THEN "tx" ELSE "idle",
        touched <- {undoLog[k].blockNumber : k \in DOMAIN undoLog}

ImplementsTxDisk == Tx!Spec
=============================================================================
