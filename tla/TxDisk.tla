------------------------------- MODULE TxDisk -------------------------------
(***************************************************************************)
(* What class Disk promises its callers: a block store with at most one    *)
(* open transaction.  The undo log of the implementation is not visible    *)
(* here; what is left of it is the set of blocks an interrupted            *)
(* transaction may have damaged, because the log lives in memory only and  *)
(* a process that dies inside a transaction leaves its writes behind.      *)
(***************************************************************************)
EXTENDS Integers

CONSTANTS
  NumBlocks,   \* number of blocks of the image file
  Data         \* contents a block may have

VARIABLES
  working,     \* what readBlock returns
  stable,      \* what a rollback returns to
  phase,       \* "idle", "tx" (open transaction) or "undo" (rolling back)
  touched      \* blocks written since the transaction began

vars == <<working, stable, phase, touched>>

Blocks == 0 .. NumBlocks - 1

TypeOK ==
  /\ working \in [Blocks -> Data]
  /\ stable \in [Blocks -> Data]
  /\ phase \in {"idle", "tx", "undo"}
  /\ touched \subseteq Blocks

Init ==
  /\ working \in [Blocks -> Data]
  /\ stable = working
  /\ phase = "idle"
  /\ touched = {}

Begin ==
  /\ phase = "idle"
  /\ phase' = "tx"
  /\ UNCHANGED <<working, stable, touched>>

\* Outside a transaction a write is final; inside it only touches the block.
WriteThrough(b, d) ==
  /\ phase = "idle"
  /\ working' = [working EXCEPT ![b] = d]
  /\ stable' = working'
  /\ UNCHANGED <<phase, touched>>

WriteInTx(b, d) ==
  /\ phase = "tx"
  /\ working' = [working EXCEPT ![b] = d]
  /\ touched' = touched \cup {b}
  /\ UNCHANGED <<stable, phase>>

Commit ==
  /\ phase = "tx"
  /\ stable' = working
  /\ phase' = "idle"
  /\ touched' = {}
  /\ UNCHANGED working

Rollback ==
  /\ phase = "tx"
  /\ working' = stable
  /\ phase' = "undo"
  /\ UNCHANGED <<stable, touched>>

RollbackDone ==
  /\ phase = "undo"
  /\ phase' = "idle"
  /\ touched' = {}
  /\ UNCHANGED <<working, stable>>

\* The process dies and a new one opens the image: no recovery is run, so
\* the blocks the transaction touched hold anything it ever put there, and
\* the other blocks are as they were when the transaction began.
Crash ==
  /\ stable' \in [Blocks -> Data]
  /\ \A b \in Blocks \ touched : stable'[b] = stable[b]
  /\ working' = stable'
  /\ phase' = "idle"
  /\ touched' = {}

Next ==
  \/ Begin \/ Commit \/ Rollback \/ RollbackDone \/ Crash
  \/ \E b \in Blocks, d \in Data : WriteThrough(b, d) \/ WriteInTx(b, d)

Spec == Init /\ [][Next]_vars
=============================================================================
