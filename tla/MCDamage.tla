------------------------------ MODULE MCDamage ------------------------------
(***************************************************************************)
(* Instances of LFSDamage for TLC.                                         *)
(***************************************************************************)
EXTENDS MCLocalFileSystem, LFSDamage
=============================================================================
