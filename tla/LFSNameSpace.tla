---------------------------- MODULE LFSNameSpace ----------------------------
(***************************************************************************)
(* LocalFileSystem implements NameSpace: the block writes of a call, seen  *)
(* when it has returned, are one step of the tree of names.                *)
(* This is so as long as no directory has more than two blocks.            *)
(***************************************************************************)
EXTENDS LFSProperties

VARIABLE tree   \* the tree of names on which the running call began

View(d) ==
  [kind |-> [i \in Inodes |-> IF i \notin d.inodeBitmap THEN "none"
                              ELSE IF d.inodes[i].type = Directory THEN "dir" ELSE "file"],
   body |-> [i \in Inodes |-> IF i \in d.inodeBitmap /\ d.inodes[i].type = RegularFile
                              THEN Read(d, i, d.inodes[i].size) ELSE <<>>],
   link |-> {<<x[1], x[2], Lookup(d, x[1], x[2])>> :
               x \in {y \in Directories(d) \X Names : Lookup(d, y[1], y[2]) >= 0}}]

NameSpaceSpec ==
  /\ Init /\ tree = View(disk)
  /\ [][ServerNext /\ tree' = IF pc' = "idle" THEN View(disk') ELSE tree]_<<vars, tree>>

\* A file of size cells that are all text.
BodiesOf(text, size) == [e \in 0 .. size - 1 |-> text]

NS == INSTANCE NameSpace WITH
  Ids <- Inodes, Top <- Root, Labels <- Names,
  Bodies <- {BodiesOf(text, size) : text \in FileCells, size \in {s \in Sizes : s >= 0}},
  kind <- tree.kind, body <- tree.body, link <- tree.link

\* Every call that returns has made one change to the tree of names, the one
\* its name says, or none: nothing else of the tree is different.
ImplementsNameSpace == NS!Spec
=============================================================================
