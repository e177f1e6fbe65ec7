---------------------------- MODULE MCNameSpace -----------------------------
(***************************************************************************)
(* Instances of LFSNameSpace for TLC.                                      *)
(***************************************************************************)
EXTENDS MCLocalFileSystem, LFSNameSpace
=============================================================================
