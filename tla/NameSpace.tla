----------------------------- MODULE NameSpace ------------------------------
(***************************************************************************)
(* What the calls of LocalFileSystem promise: a tree of directories with   *)
(* files in it, each call taking effect as a whole or not at all.  There   *)
(* are no blocks, bitmaps or slots here.                                   *)
(*                                                                         *)
(* Two effects are those of calls that do not go through: a write that     *)
(* runs out of blocks has overwritten some of the old body, and an unlink  *)
(* whose process is stopped has taken the name away but not the inode.     *)
(***************************************************************************)
EXTENDS Integers, FiniteSets

CONSTANTS
  Ids,      \* inode numbers
  Top,      \* that of the root
  Labels,   \* names
  Bodies    \* what a file may be made to hold

VARIABLES
  kind,     \* "none", "dir" or "file", by inode number
  body,     \* what a file holds; <<>> for the others
  link      \* the names: triples of a directory, a name and an inode

nsVars == <<kind, body, link>>

Init ==
  /\ kind = [i \in Ids |-> IF i = Top THEN "dir" ELSE "none"]
  /\ body = [i \in Ids |-> <<>>]
  /\ link = {}

Taken(p, n) == \E i \in Ids : <<p, n, i>> \in link
HasNames(p) == \E n \in Labels, i \in Ids : <<p, n, i>> \in link

\* create of a name that is not there.
Make(p, n, i, type) ==
  /\ kind[p] = "dir" /\ ~Taken(p, n) /\ kind[i] = "none"
  /\ kind' = [kind EXCEPT ![i] = type]
  /\ link' = link \cup {<<p, n, i>>}
  /\ UNCHANGED body

\* unlink: the inode goes with its only name, a directory only if it is empty.
Remove(p, n, i) ==
  /\ <<p, n, i>> \in link /\ ~HasNames(i)
  /\ kind' = [kind EXCEPT ![i] = "none"]
  /\ body' = [body EXCEPT ![i] = <<>>]
  /\ link' = link \ {<<p, n, i>>}

\* unlink in a process that is stopped behind the directory blocks.
Drop(p, n, i) ==
  /\ <<p, n, i>> \in link /\ ~HasNames(i)
  /\ link' = link \ {<<p, n, i>>}
  /\ UNCHANGED <<kind, body>>

\* write
Put(i, b) ==
  /\ kind[i] = "file"
  /\ body' = [body EXCEPT ![i] = b]
  /\ UNCHANGED <<kind, link>>

\* write that finds no free block.
Spoil(i) ==
  /\ kind[i] = "file"
  /\ body' = [body EXCEPT ![i] = body'[i]]
  /\ DOMAIN body'[i] = DOMAIN body[i]
  /\ UNCHANGED <<kind, link>>

Next ==
  \/ \E p, i \in Ids, n \in Labels :
       \/ \E type \in {"dir", "file"} : Make(p, n, i, type)
       \/ Remove(p, n, i)
       \/ Drop(p, n, i)
  \/ \E i \in Ids : Spoil(i) \/ \E b \in Bodies : Put(i, b)

Spec == Init /\ [][Next]_nsVars
=============================================================================
