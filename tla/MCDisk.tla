------------------------------- MODULE MCDisk -------------------------------
(***************************************************************************)
(* Instance of Disk for TLC: two blocks, so that a transaction can leave   *)
(* one alone, and a log long enough to hold the same block several times.  *)
(***************************************************************************)
EXTENDS Disk

CONSTANTS d1, d2, d3

MCData == {d1, d2, d3}
=============================================================================
