----------------------------- MODULE LFSDamage ------------------------------
(***************************************************************************)
(* What the calls that die leave behind.  create writes the entry before   *)
(* it marks the inode the entry names; unlink takes an entry that was      *)
(* alone in its block away only with the inode region, after it has freed  *)
(* the inode.  Nothing looks for such entries when the image is opened     *)
(* again, and later calls go on from there.                                *)
(***************************************************************************)
EXTENDS LFSProperties

\* The inodes that the names of interrupted calls led to when they died.
VARIABLE suspect

Interrupted ==
  IF job.op \in {"create", "unlink"} THEN {Lookup(disk, job.inum, job.name)} \cap Inodes
  ELSE {}

DamageNext ==
  \/ Calls /\ UNCHANGED suspect
  \/ Crash /\ ~GivingBack /\ suspect' = suspect \cup Interrupted

DamageSpec == Init /\ suspect = {} /\ [][DamageNext]_<<vars, suspect>>

NamesOf(d, i) == {x \in Directories(d) \X Names : Lookup(d, x[1], x[2]) = i}

\* The damage of crashes does not spread: after any number of them, and of
\* calls on the damaged image, an inode that is named though it is free, or
\* that has two names, is one an interrupted call was about.
DamageConfined ==
  pc = "idle" =>
    \A i \in Inodes \ suspect :
      /\ i \notin disk.inodeBitmap => NamesOf(disk, i) = {}
      /\ Cardinality(NamesOf(disk, i)) <= 1
=============================================================================
