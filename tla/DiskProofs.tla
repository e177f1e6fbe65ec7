----------------------------- MODULE DiskProofs -----------------------------
(***************************************************************************)
(* Proofs about Disk: the undo log covers every block a transaction has    *)
(* written, for any number of blocks and any length of the log, and so     *)
(* rollback() restores the image.                                          *)
(***************************************************************************)
EXTENDS Disk, TLAPS

(***************************************************************************)
(* push_front: where the records of a longer log come from.                *)
(***************************************************************************)
LEMMA PushFront ==
  ASSUME NEW T, NEW s \in Seq(T), NEW e \in T
  PROVE  /\ <<e>> \o s \in Seq(T)
         /\ Len(<<e>> \o s) = Len(s) + 1
         /\ (<<e>> \o s)[1] = e
         /\ \A i \in 1 .. Len(s) : (<<e>> \o s)[i + 1] = s[i]
  OBVIOUS

(***************************************************************************)
(* The inductive invariant.  TypeOK gives the ranges of the indices,       *)
(* LogOnlyInTx that a transaction starts with an empty log.                *)
(***************************************************************************)
IInv == TypeOK /\ LogOnlyInTx /\ UndoCovers

LEMMA InitIInv == Init => IInv
<1> SUFFICES ASSUME Init PROVE IInv
  OBVIOUS
<1>1. undoLog \in Seq(UndoRecord) /\ undone \in 0 .. Len(undoLog)
  BY DEF Init
<1>2. TypeOK
  BY <1>1 DEF Init, TypeOK
<1>3. LogOnlyInTx
  BY DEF Init, LogOnlyInTx
<1>4. UndoCovers
  BY DEF Init, UndoCovers, Pending
<1> QED
  BY <1>2, <1>3, <1>4 DEF IInv

(***************************************************************************)
(* While no record is pending, the image is what a rollback restores.      *)
(***************************************************************************)
LEMMA NothingPending ==
  ASSUME IInv, undone = Len(undoLog)
  PROVE  image = base
<1>1. \A c \in Blocks : image[c] = base[c]
  BY DEF IInv, TypeOK, UndoCovers, Pending
<1> QED
  BY <1>1 DEF IInv, TypeOK

LEMMA RestartIInv == IInv /\ Restart => IInv'
<1> SUFFICES ASSUME IInv, Restart PROVE IInv'
  OBVIOUS
<1>1. undoLog' \in Seq(UndoRecord) /\ undone' \in 0 .. Len(undoLog')
  BY DEF Restart
<1>2. TypeOK'
  BY <1>1 DEF IInv, Restart, TypeOK
<1>3. LogOnlyInTx'
  BY DEF Restart, LogOnlyInTx
<1>4. UndoCovers'
  BY DEF Restart, UndoCovers, Pending
<1> QED
  BY <1>2, <1>3, <1>4 DEF IInv

(***************************************************************************)
(* writeBlock() inside a transaction: the block it changes gets a record,  *)
(* with the old contents if it had none.                                   *)
(***************************************************************************)
LEMMA WriteIInv ==
  ASSUME IInv, NEW b \in Blocks, NEW d \in Data, WriteBlock(b, d)
  PROVE  IInv'
<1> DEFINE rec == [blockNumber |-> b, blockData |-> image[b]]
<1>1. CASE ~isInTransaction
  <2>1. undoLog = <<>> /\ undoLog' = <<>> /\ undone = 0 /\ base' = image'
    BY <1>1 DEF IInv, LogOnlyInTx, WriteBlock, Put
  <2> QED
    BY <1>1, <2>1 DEF IInv, TypeOK, LogOnlyInTx, UndoCovers, Pending, WriteBlock, Put
<1>2. CASE isInTransaction
  <2>1. /\ undoLog' = <<rec>> \o undoLog
        /\ image' = [image EXCEPT ![b] = d]
        /\ UNCHANGED <<isInTransaction, rollingBack, undone, base>>
        /\ ~rollingBack
    BY <1>2 DEF WriteBlock, Put
  <2>2. undoLog \in Seq(UndoRecord) /\ rec \in UndoRecord /\ undone = 0
    BY <2>1 DEF IInv, TypeOK, LogOnlyInTx, UndoRecord
  <2>3. /\ undoLog' \in Seq(UndoRecord)
        /\ Len(undoLog') = Len(undoLog) + 1
        /\ undoLog'[1] = rec
        /\ \A i \in 1 .. Len(undoLog) : undoLog'[i + 1] = undoLog[i]
    BY <2>1, <2>2, PushFront
  <2>4. TypeOK'
    BY <2>1, <2>2, <2>3 DEF IInv, TypeOK
  <2>5. LogOnlyInTx'
    BY <1>2, <2>1, <2>2 DEF IInv, LogOnlyInTx
  <2>6. \A c \in Blocks :
          (\A i \in 1 .. Len(undoLog) : undoLog[i].blockNumber # c) => image[c] = base[c]
    BY <2>2 DEF IInv, UndoCovers, Pending
  <2>7. ASSUME NEW c \in Blocks, \A i \in Pending' : undoLog'[i].blockNumber # c
        PROVE  image'[c] = base'[c]
    <3>1. \A i \in 1 .. Len(undoLog) + 1 : undoLog'[i].blockNumber # c
      BY <2>1, <2>2, <2>3, <2>7 DEF Pending
    <3>2. c # b
      BY <3>1, <2>2, <2>3
    <3>3. \A i \in 1 .. Len(undoLog) : undoLog[i].blockNumber # c
      BY <3>1, <2>2, <2>3
    <3> QED
      BY <3>2, <3>3, <2>1, <2>6 DEF IInv, TypeOK
  <2>8. ASSUME NEW i \in 1 .. Len(undoLog) + 1,
               \A j \in i + 1 .. Len(undoLog) + 1 :
                  undoLog'[j].blockNumber # undoLog'[i].blockNumber
        PROVE  undoLog'[i].blockData = base[undoLog'[i].blockNumber]
    <3>1. CASE i = 1
      <4>1. \A j \in 1 .. Len(undoLog) : undoLog[j].blockNumber # b
        <5>1. SUFFICES ASSUME NEW j \in 1 .. Len(undoLog) PROVE undoLog[j].blockNumber # b
          OBVIOUS
        <5>2. j + 1 \in i + 1 .. Len(undoLog) + 1 /\ undoLog'[j + 1] = undoLog[j]
          BY <3>1, <2>2, <2>3
        <5> QED
          BY <5>2, <3>1, <2>3, <2>8
      <4> QED
        BY <4>1, <3>1, <2>3, <2>6
    <3>2. CASE i # 1
      <4>1. i - 1 \in 1 .. Len(undoLog) /\ undoLog'[i] = undoLog[i - 1]
        BY <3>2, <2>2, <2>3
      <4>2. \A j \in i .. Len(undoLog) : undoLog[j].blockNumber # undoLog[i - 1].blockNumber
        <5>1. SUFFICES ASSUME NEW j \in i .. Len(undoLog)
                       PROVE  undoLog[j].blockNumber # undoLog[i - 1].blockNumber
          OBVIOUS
        <5>2. j + 1 \in i + 1 .. Len(undoLog) + 1 /\ undoLog'[j + 1] = undoLog[j]
          BY <4>1, <2>2, <2>3
        <5> QED
          BY <5>2, <4>1, <2>8
      <4> QED
        BY <4>1, <4>2, <2>2 DEF IInv, UndoCovers
    <3> QED
      BY <3>1, <3>2
  <2>9. DOMAIN undoLog' = 1 .. Len(undoLog) + 1 /\ base' = base
    BY <2>1, <2>3
  <2>10. UndoCovers'
    BY <2>3, <2>7, <2>8, <2>9 DEF UndoCovers
  <2> QED
    BY <2>4, <2>5, <2>10 DEF IInv
<1> QED
  BY <1>1, <1>2

(***************************************************************************)
(* One turn of the loop of rollback(): either the record is the oldest of  *)
(* its block and brings the old contents, or an older one is still to come.*)
(***************************************************************************)
LEMMA RollbackWriteIInv == IInv /\ RollbackWrite => IInv'
<1> SUFFICES ASSUME IInv, RollbackWrite PROVE IInv'
  OBVIOUS
<1> DEFINE rec == undoLog[undone + 1]
<1>1. /\ undoLog' = undoLog /\ undone' = undone + 1
      /\ image' = [image EXCEPT ![rec.blockNumber] = rec.blockData]
      /\ UNCHANGED <<isInTransaction, rollingBack, base>>
      /\ rollingBack /\ ~isInTransaction
  BY DEF RollbackWrite, Put, IInv, LogOnlyInTx
<1>2. undone \in Nat /\ undone + 1 \in 1 .. Len(undoLog) /\ Len(undoLog) \in Nat
  BY DEF RollbackWrite, IInv, TypeOK
<1>3. rec \in UndoRecord
  BY <1>2 DEF IInv, TypeOK
<1>4. TypeOK'
  BY <1>1, <1>2, <1>3 DEF IInv, TypeOK, UndoRecord
<1>5. LogOnlyInTx'
  BY <1>1 DEF IInv, LogOnlyInTx
<1>6. ASSUME NEW c \in Blocks, \A i \in Pending' : undoLog'[i].blockNumber # c
      PROVE  image'[c] = base'[c]
  <2>1. \A i \in undone + 2 .. Len(undoLog) : undoLog[i].blockNumber # c
    BY <1>1, <1>2, <1>6 DEF Pending
  <2>2. CASE c = rec.blockNumber
    <3>1. rec.blockData = base[c]
      BY <2>1, <2>2, <1>2 DEF IInv, TypeOK, UndoCovers
    <3> QED
      BY <3>1, <2>2, <1>1 DEF IInv, TypeOK
  <2>3. CASE c # rec.blockNumber
    <3>1. \A i \in Pending : undoLog[i].blockNumber # c
      BY <2>1, <2>3, <1>2 DEF Pending
    <3> QED
      BY <3>1, <2>3, <1>1 DEF IInv, TypeOK, UndoCovers
  <2> QED
    BY <2>2, <2>3
<1>7. UndoCovers'
  BY <1>1, <1>6 DEF IInv, UndoCovers
<1> QED
  BY <1>4, <1>5, <1>7 DEF IInv

LEMMA NextIInv == IInv /\ [Next]_vars => IInv'
<1> SUFFICES ASSUME IInv, [Next]_vars PROVE IInv'
  OBVIOUS
<1>1. CASE BeginTransaction
  BY <1>1 DEF IInv, BeginTransaction, TypeOK, LogOnlyInTx, UndoCovers, Pending
<1>2. CASE Commit
  <2>1. undoLog' \in Seq(UndoRecord) /\ undone' \in 0 .. Len(undoLog') /\ undone = 0
    BY <1>2 DEF Commit, IInv, LogOnlyInTx
  <2>2. TypeOK'
    BY <1>2, <2>1 DEF IInv, Commit, TypeOK
  <2>3. LogOnlyInTx'
    BY <1>2, <2>1 DEF Commit, LogOnlyInTx
  <2>4. UndoCovers'
    BY <1>2, <2>1 DEF Commit, UndoCovers, Pending
  <2> QED
    BY <2>2, <2>3, <2>4 DEF IInv
<1>3. CASE Rollback
  BY <1>3 DEF IInv, Rollback, TypeOK, LogOnlyInTx, UndoCovers, Pending
<1>4. CASE RollbackWrite
  BY <1>4, RollbackWriteIInv
<1>5. CASE RollbackEnd
  <2>1. image = base
    BY <1>5, NothingPending DEF RollbackEnd
  <2>2. undoLog' \in Seq(UndoRecord) /\ undone' \in 0 .. Len(undoLog')
    BY <1>5 DEF RollbackEnd
  <2>3. TypeOK'
    BY <1>5, <2>2 DEF IInv, RollbackEnd, TypeOK
  <2>4. LogOnlyInTx'
    BY <1>5 DEF IInv, RollbackEnd, LogOnlyInTx
  <2>5. UndoCovers'
    BY <1>5, <2>1 DEF RollbackEnd, UndoCovers, Pending
  <2> QED
    BY <2>3, <2>4, <2>5 DEF IInv
<1>6. CASE \E b \in Blocks, d \in Data : WriteBlock(b, d)
  BY <1>6, WriteIInv
<1>7. CASE \E b \in {-1, NumBlocks} : InvalidBlockNumber(b)
  BY <1>7, RestartIInv DEF InvalidBlockNumber
<1>8. CASE BeginTwice \/ Crash
  BY <1>8, RestartIInv DEF BeginTwice, Crash
<1>9. CASE UNCHANGED vars
  BY <1>9 DEF IInv, vars, TypeOK, LogOnlyInTx, UndoCovers, Pending
<1> QED
  BY <1>1, <1>2, <1>3, <1>4, <1>5, <1>6, <1>7, <1>8, <1>9 DEF Next

LEMMA SpecIInv == Spec => []IInv
  BY InitIInv, NextIInv, PTL DEF Spec

(***************************************************************************)
(* Type correctness, records only inside a transaction, and the coverage   *)
(* of every written block by the log, for every image size.                *)
(***************************************************************************)
THEOREM DiskTypeOK == Spec => []TypeOK
<1>1. IInv => TypeOK
  BY DEF IInv
<1> QED
  BY <1>1, SpecIInv, PTL

THEOREM LogStaysInTx == Spec => []LogOnlyInTx
<1>1. IInv => LogOnlyInTx
  BY DEF IInv
<1> QED
  BY <1>1, SpecIInv, PTL

THEOREM LogCovers == Spec => []UndoCovers
<1>1. IInv => UndoCovers
  BY DEF IInv
<1> QED
  BY <1>1, SpecIInv, PTL

(***************************************************************************)
(* When rollback() returns, the image is what it was when the transaction  *)
(* began, whatever the transaction wrote and however often.                *)
(***************************************************************************)
THEOREM RollbackIsExact == Spec => RollbackRestores
<1>1. ASSUME IInv, [Next]_vars,
             rollingBack /\ ~rollingBack' /\ undone = Len(undoLog)
      PROVE  image' = base
  <2>1. image = base
    BY <1>1, NothingPending
  <2>2. CASE RollbackEnd
    BY <2>1, <2>2 DEF RollbackEnd
  <2>3. CASE Restart
    BY <2>1, <2>3 DEF Restart
  <2>4. RollbackEnd \/ Restart
    BY <1>1 DEF Next, vars, BeginTransaction, Commit, Rollback, RollbackWrite, WriteBlock,
                InvalidBlockNumber, BeginTwice, Crash
  <2> QED
    BY <2>2, <2>3, <2>4
<1>2. IInv /\ [Next]_vars =>
        [rollingBack /\ ~rollingBack' /\ undone = Len(undoLog) => image' = base]_vars
  BY <1>1
<1> QED
  BY <1>2, SpecIInv, PTL DEF Spec, RollbackRestores

(***************************************************************************)
(* No step of a transaction or of its rollback, the death of the process   *)
(* among them, changes a block for which the log has no record.            *)
(***************************************************************************)
THEOREM DamageIsConfined == Spec => CrashConfined
<1> DEFINE named(log, b) == \E i \in DOMAIN log : log[i].blockNumber = b
<1>1. ASSUME IInv, [Next]_vars, NEW b \in Blocks, isInTransaction \/ rollingBack,
             ~named(undoLog, b), ~named(undoLog', b)
      PROVE  image'[b] = base[b]
  <2>1. image[b] = base[b]
    BY <1>1 DEF IInv, TypeOK, UndoCovers, Pending
  <2>2. CASE image' = image
    BY <2>1, <2>2
  <2>3. CASE RollbackWrite
    <3>1. undone + 1 \in DOMAIN undoLog
      BY <1>1, <2>3 DEF RollbackWrite, IInv, TypeOK
    <3>2. undoLog[undone + 1].blockNumber # b
      BY <1>1, <3>1
    <3> QED
      BY <1>1, <2>1, <2>3, <3>2 DEF RollbackWrite, Put, IInv, TypeOK
  <2>4. ASSUME NEW c \in Blocks, NEW d \in Data, WriteBlock(c, d)
        PROVE  image'[b] = base[b]
    <3>1. isInTransaction /\ undoLog \in Seq(UndoRecord)
      BY <1>1, <2>4 DEF WriteBlock, IInv, TypeOK
    <3> DEFINE rec == [blockNumber |-> c, blockData |-> image[c]]
    <3>2. rec \in UndoRecord
      BY <1>1 DEF IInv, TypeOK, UndoRecord
    <3>3. undoLog' = <<rec>> \o undoLog /\ image' = [image EXCEPT ![c] = d]
      BY <2>4, <3>1 DEF WriteBlock, Put
    <3>4. 1 \in DOMAIN undoLog' /\ undoLog'[1].blockNumber = c
      BY <3>1, <3>2, <3>3, PushFront
    <3>5. b # c
      BY <1>1, <3>4
    <3> QED
      BY <1>1, <2>1, <3>3, <3>5 DEF IInv, TypeOK
  <2>5. image' = image \/ RollbackWrite \/ \E c \in Blocks, d \in Data : WriteBlock(c, d)
    BY <1>1 DEF Next, vars, BeginTransaction, Commit, Rollback, RollbackEnd,
                InvalidBlockNumber, BeginTwice, Crash, Restart
  <2> QED
    BY <2>2, <2>3, <2>4, <2>5
<1>2. IInv /\ [Next]_vars =>
        [\A b \in Blocks :
           /\ isInTransaction \/ rollingBack
           /\ \A k \in DOMAIN undoLog  : undoLog[k].blockNumber # b
           /\ \A k \in DOMAIN undoLog' : undoLog'[k].blockNumber # b
           => image'[b] = base[b]]_vars
  BY <1>1
<1> QED
  BY <1>2, SpecIInv, PTL DEF Spec, CrashConfined

(***************************************************************************)
(* The abstract store.  Its transaction ends where the log is dropped; the *)
(* loop of rollback() is one step of it, taken when the loop begins.       *)
(***************************************************************************)
LEMMA RefinesInit == Init => Tx!Init
  BY DEF Init, Tx!Init, Blocks, Tx!Blocks

\* A process that dies damages only blocks the log names.
LEMMA RefinesRestart == IInv /\ Restart => Tx!Crash
<1> SUFFICES ASSUME IInv, Restart PROVE Tx!Crash
  OBVIOUS
<1> DEFINE touched == {undoLog[i].blockNumber : i \in DOMAIN undoLog}
<1>1. base' = image /\ image' = image /\ ~rollingBack' /\ ~isInTransaction' /\ undoLog' = <<>>
  BY DEF Restart
<1>2. ASSUME NEW b \in Blocks \ touched PROVE image[b] = base[b]
  BY <1>2 DEF IInv, TypeOK, UndoCovers, Pending
<1>3. image \in [Blocks -> Data]
  BY DEF IInv, TypeOK
<1> QED
  BY <1>1, <1>2, <1>3 DEF Tx!Crash, Blocks, Tx!Blocks

LEMMA RefinesWrite ==
  ASSUME IInv, NEW b \in Blocks, NEW d \in Data, WriteBlock(b, d)
  PROVE  Tx!WriteThrough(b, d) \/ Tx!WriteInTx(b, d)
<1> DEFINE rec == [blockNumber |-> b, blockData |-> image[b]]
           named(log) == {log[i].blockNumber : i \in DOMAIN log}
<1>1. /\ ~rollingBack /\ ~rollingBack' /\ isInTransaction' = isInTransaction
      /\ image' = [image EXCEPT ![b] = d]
  BY DEF WriteBlock, Put
<1>2. CASE ~isInTransaction
  <2>1. undoLog = <<>> /\ undoLog' = <<>> /\ base' = image'
    BY <1>2 DEF WriteBlock, Put, IInv, LogOnlyInTx
  <2> QED
    BY <1>1, <1>2, <2>1 DEF Tx!WriteThrough
<1>3. CASE isInTransaction
  <2>1. undoLog' = <<rec>> \o undoLog /\ base' = base
    BY <1>3 DEF WriteBlock, Put
  <2>2. undoLog \in Seq(UndoRecord) /\ rec \in UndoRecord
    BY DEF IInv, TypeOK, UndoRecord
  <2>3. /\ DOMAIN undoLog = 1 .. Len(undoLog) /\ Len(undoLog) \in Nat
        /\ DOMAIN undoLog' = 1 .. Len(undoLog) + 1
        /\ undoLog'[1] = rec
        /\ \A i \in 1 .. Len(undoLog) : undoLog'[i + 1] = undoLog[i]
    BY <2>1, <2>2, PushFront
  <2>4. named(undoLog') \subseteq named(undoLog) \cup {b}
    <3>1. SUFFICES ASSUME NEW i \in 1 .. Len(undoLog) + 1
                   PROVE  undoLog'[i].blockNumber \in named(undoLog) \cup {b}
      BY <2>3
    <3>2. CASE i = 1
      BY <3>2, <2>3
    <3>3. CASE i # 1
      <4>1. i - 1 \in 1 .. Len(undoLog) /\ undoLog'[i] = undoLog[i - 1]
        BY <3>3, <2>3
      <4> QED
        BY <4>1, <2>3
    <3> QED
      BY <3>2, <3>3
  <2>5. named(undoLog) \cup {b} \subseteq named(undoLog')
    <3>1. b \in named(undoLog')
      <4>1. 1 \in DOMAIN undoLog' /\ undoLog'[1].blockNumber = b
        BY <2>3
      <4> QED
        BY <4>1
    <3>2. ASSUME NEW i \in DOMAIN undoLog PROVE undoLog[i].blockNumber \in named(undoLog')
      <4>1. i + 1 \in DOMAIN undoLog' /\ undoLog'[i + 1] = undoLog[i]
        BY <2>3
      <4> QED
        BY <4>1
    <3> QED
      BY <3>1, <3>2
  <2>6. named(undoLog') = named(undoLog) \cup {b}
    BY <2>4, <2>5
  <2> QED
    BY <1>1, <1>3, <2>1, <2>6 DEF Tx!WriteInTx
<1> QED
  BY <1>2, <1>3

LEMMA RefinesNext == IInv /\ [Next]_vars => [Tx!Next]_(Tx!vars)
<1> SUFFICES ASSUME IInv, [Next]_vars PROVE Tx!Next \/ UNCHANGED Tx!vars
  OBVIOUS
<1> USE DEF Tx!Next, Tx!vars
<1>1. CASE BeginTransaction
  <2>1. undoLog = <<>> /\ undoLog' = <<>>
    BY <1>1 DEF BeginTransaction, IInv, LogOnlyInTx
  <2> QED
    BY <1>1, <2>1 DEF BeginTransaction, Tx!Begin
<1>2. CASE Commit
  <2>1. CASE isInTransaction
    BY <1>2, <2>1 DEF Commit, Tx!Commit
  <2>2. CASE ~isInTransaction
    <3>1. undoLog = <<>> /\ undone = Len(undoLog)
      BY <1>2, <2>2 DEF Commit, IInv, LogOnlyInTx
    <3>2. image = base
      BY <3>1, NothingPending
    <3>3. isInTransaction' = isInTransaction
      BY <1>2, <2>2 DEF Commit, IInv, TypeOK
    <3> QED
      BY <1>2, <2>2, <3>1, <3>2, <3>3 DEF Commit
  <2> QED
    BY <2>1, <2>2
<1>3. CASE Rollback
  <2>1. CASE undoLog = <<>>
    <3>1. undone = Len(undoLog)
      BY <1>3, <2>1 DEF Rollback, IInv, LogOnlyInTx
    <3>2. image = base /\ isInTransaction \in BOOLEAN
      BY <3>1, NothingPending DEF IInv, TypeOK
    <3>3. rollingBack' = FALSE /\ undoLog' = <<>> /\ image' = image /\ base' = base
      BY <1>3, <2>1 DEF Rollback
    <3>4. CASE isInTransaction
      BY <1>3, <2>1, <3>2, <3>3, <3>4 DEF Rollback, Tx!Commit
    <3>5. CASE ~isInTransaction
      BY <1>3, <2>1, <3>2, <3>3, <3>5 DEF Rollback
    <3> QED
      BY <3>2, <3>4, <3>5
  <2>2. CASE undoLog # <<>>
    <3>1. isInTransaction
      BY <1>3, <2>2 DEF Rollback, IInv, LogOnlyInTx
    <3> QED
      BY <1>3, <2>2, <3>1 DEF Rollback, Tx!Rollback
  <2> QED
    BY <2>1, <2>2
<1>4. CASE RollbackWrite
  <2>1. undoLog' = undoLog
    BY <1>4 DEF RollbackWrite, Put, IInv, LogOnlyInTx
  <2> QED
    BY <1>4, <2>1 DEF RollbackWrite
<1>5. CASE RollbackEnd
  <2>1. image = base
    BY <1>5, NothingPending DEF RollbackEnd
  <2>2. ~isInTransaction
    BY <1>5 DEF RollbackEnd, IInv, LogOnlyInTx
  <2> QED
    BY <1>5, <2>1, <2>2 DEF RollbackEnd, Tx!RollbackDone
<1>6. CASE \E b \in Blocks, d \in Data : WriteBlock(b, d)
  BY <1>6, RefinesWrite DEF Blocks, Tx!Blocks
<1>7. CASE \E b \in {-1, NumBlocks} : InvalidBlockNumber(b)
  BY <1>7, RefinesRestart DEF InvalidBlockNumber
<1>8. CASE BeginTwice \/ Crash
  BY <1>8, RefinesRestart DEF BeginTwice, Crash
<1>9. CASE UNCHANGED vars
  BY <1>9 DEF vars
<1> QED
  BY <1>1, <1>2, <1>3, <1>4, <1>5, <1>6, <1>7, <1>8, <1>9 DEF Next

(***************************************************************************)
(* Class Disk implements the store with transactions that TxDisk states.   *)
(***************************************************************************)
THEOREM DiskImplementsTxDisk == Spec => ImplementsTxDisk
  BY RefinesInit, RefinesNext, SpecIInv, PTL DEF Spec, ImplementsTxDisk, Tx!Spec
=============================================================================
