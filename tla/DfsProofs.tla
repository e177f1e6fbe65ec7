------------------------------ MODULE DfsProofs ------------------------------
(***************************************************************************)
(* Proofs about the handlers of /ds3/: they use LocalFileSystem as its own *)
(* specification allows, so the image they work on keeps what is proved    *)
(* there; and a request that is refused has not changed the image.         *)
(***************************************************************************)
EXTENDS DistributedFileSystemService, LFSProofs

(***************************************************************************)
(* A directory that create has made and in which nothing is yet: only "."  *)
(* and ".." are found in it.                                               *)
(***************************************************************************)
JustMade(ino, blocks, i) ==
  \E p \in Inodes, home \in DataBlocks :
     ino = NewInode(Directory, home) /\ blocks[home] = DirBlock(i, p)

LEMMA OneBlock == BlocksFor(2) = 1
<1> DEFINE E == EntriesPerBlock
           q == (2 + E - 1) \div E
<1>1. E \in Nat /\ E > 1
  BY UFSAssumption
<1> HIDE DEF E
<1>2. q \in Nat /\ E * q <= E + 1 /\ E + 1 < E * q + E
  BY <1>1, Division
<1> HIDE DEF q
<1>3. q # 0
  BY <1>1, <1>2
<1>4. ~(q >= 2)
  <2>1. SUFFICES ASSUME q >= 2 PROVE FALSE
    OBVIOUS
  <2>2. E * 2 <= E * q
    BY <1>1, <1>2, <2>1
  <2> QED
    BY <1>1, <1>2, <2>2
<1>5. q = 1
  BY <1>2, <1>3, <1>4
<1> QED
  BY <1>5 DEF q, E, BlocksFor

LEMMA NewCells ==
  ASSUME NEW d, NEW i \in Inodes, JustMade(d.inodes[i], d.blocks, i)
  PROVE  /\ d.inodes[i].type = Directory
         /\ \E p : \A pos \in PositionsIn(Held(d.inodes[i], BlocksFor(d.inodes[i].size))) :
              /\ pos \in Nat
              /\ CellAt(d, d.inodes[i], pos) \in {Entry(".", i), Entry("..", p), Unused}
<1> DEFINE ino == d.inodes[i]
<1>1. PICK p \in Inodes, home \in DataBlocks :
        ino = NewInode(Directory, home) /\ d.blocks[home] = DirBlock(i, p)
  BY DEF JustMade
<1>2. 0 \in Ptrs
  BY UFSAssumption DEF Ptrs
<1>3. ino.type = Directory /\ ino.size = 2 /\ ino.direct[0] = home
  BY <1>1, <1>2 DEF NewInode
<1> DEFINE ks == Held(ino, BlocksFor(ino.size))
<1>4. ks \in SUBSET Ptrs /\ ks \subseteq {0}
  BY <1>3, OneBlock DEF Held, Ptrs
<1> HIDE DEF ino
<1>5. ASSUME NEW pos \in PositionsIn(ks)
      PROVE  /\ pos \in Nat
             /\ CellAt(d, ino, pos) \in {Entry(".", i), Entry("..", p), Unused}
  <2> HIDE DEF ks
  <2>1. pos \in Nat /\ pos \div EntriesPerBlock = 0 /\ pos % EntriesPerBlock \in Slots
    BY <1>4, <1>5, PositionInBlocks
  <2>2. CellAt(d, ino, pos) = DirBlock(i, p)[pos % EntriesPerBlock]
    BY <1>1, <1>3, <2>1 DEF CellAt
  <2> HIDE DEF CellAt
  <2> QED
    BY <2>1, <2>2 DEF DirBlock
<1> QED
  BY <1>3, <1>5 DEF ino

\* With no ".." in its path a request that has come to such a directory goes
\* to another one only through a create.
LEMMA FoundInNew ==
  ASSUME NEW d, NEW i \in Inodes, JustMade(d.inodes[i], d.blocks, i), NEW n, n # ".."
  PROVE  /\ Lookup(d, i, n) < 0 \/ Lookup(d, i, n) = i
         /\ CreateChecks(d, i, Directory, n) \in Inodes => CreateChecks(d, i, Directory, n) = i
<1> DEFINE ino  == d.inodes[i]
           ks   == Held(ino, BlocksFor(ino.size))
           us   == {a \in ks : ino.direct[a] # Unset}
           hits == {pos \in PositionsIn(us) :
                      CellAt(d, ino, pos).inum # 0 /\ CellAt(d, ino, pos).name = n}
           olds == {pos \in PositionsIn(ks) :
                      CellAt(d, ino, pos).inum # -1 /\ CellAt(d, ino, pos).name = n}
<1>1. ino.type = Directory
  BY NewCells
<1>2. PICK p : \A pos \in PositionsIn(ks) :
                 /\ pos \in Nat
                 /\ CellAt(d, ino, pos) \in {Entry(".", i), Entry("..", p), Unused}
  BY NewCells
<1>3. PositionsIn(us) \subseteq PositionsIn(ks)
  BY DEF PositionsIn
<1> HIDE DEF ks, us, ino
<1>4. \A pos \in PositionsIn(ks) : CellAt(d, ino, pos).name = n =>
        CellAt(d, ino, pos).inum \in {i, -1}
  <2>1. /\ Entry(".", i).inum = i /\ Entry("..", p).name = ".." /\ Unused.inum = -1
    BY DEF Entry, Unused
  <2> QED
    BY <1>2, <2>1, ZenonT(20)
<1>5. Lookup(d, i, n) < 0 \/ Lookup(d, i, n) = i
  <2>1. ~StatFails(i)
    BY DEF StatFails
  <2>2. Lookup(d, i, n) = IF hits = {} THEN -ENOTFOUND ELSE CellAt(d, ino, Least(hits)).inum
    BY <1>1, <2>1 DEF Lookup, ino, ks, us
  <2>3. hits # {} => Least(hits) \in hits
    <3>1. hits \in SUBSET Nat
      BY <1>2, <1>3
    <3> HIDE DEF hits
    <3> QED
      BY <3>1, LeastIsMinimum
  <2>4. hits # {} => CellAt(d, ino, Least(hits)).inum \in {i, -1}
    BY <1>3, <1>4, <2>3
  <2> HIDE DEF hits
  <2> QED
    BY <2>2, <2>4 DEF ENOTFOUND
<1>6. CreateChecks(d, i, Directory, n) \in Inodes => CreateChecks(d, i, Directory, n) = i
  <2> DEFINE old == Existing(d, ino, n)
             at  == CellAt(d, ino, old).inum
  <2>1. old # -1 => old \in olds
    <3>1. olds \in SUBSET Nat /\ old = First(olds)
      BY <1>2 DEF Existing, ks
    <3> HIDE DEF olds, old
    <3> QED
      BY <3>1, FirstIsElement
  <2>2. old # -1 => at = i
    <3>1. old # -1 => at \in {i, -1} /\ at # -1
      BY <1>4, <2>1
    <3> QED
      BY <3>1
  <2>3. /\ -EINVALIDNAME \notin Inodes /\ -EINVALIDINODE \notin Inodes /\ Aborts \notin Inodes
        /\ -ENOTENOUGHSPACE \notin Inodes /\ -EINVALIDTYPE \notin Inodes /\ Passes \notin Inodes
    BY UFSAssumption DEF EINVALIDNAME, EINVALIDINODE, Aborts, ENOTENOUGHSPACE, EINVALIDTYPE,
       Passes, Inodes
  <2>4. ExistingResult(d, at, Directory) \in {-EINVALIDINODE, at, -EINVALIDTYPE}
    BY DEF ExistingResult
  <2>5. CreateChecks(d, i, Directory, n) \in
          {-EINVALIDNAME, -EINVALIDINODE, Aborts, -ENOTENOUGHSPACE, Passes}
        \/ (old # -1 /\ CreateChecks(d, i, Directory, n) = ExistingResult(d, at, Directory))
    BY DEF CreateChecks, ino
  <2> HIDE DEF old, at
  <2> QED
    BY <2>2, <2>3, <2>4, <2>5
<1> QED
  BY <1>5, <1>6

(***************************************************************************)
(* What create does for put(): it refuses, or goes on to write the block   *)
(* of the new directory before anything else, and never something else     *)
(* into that block.                                                        *)
(***************************************************************************)
Comes(w, home, cells) ==
  \A x \in DOMAIN w : w[x].addr = home => w[x].cells = cells

LEMMA LinkComes ==
  ASSUME NEW d, NEW p \in Inodes, NEW n, NEW i \in Inodes, p # i,
         NEW home \in DataBlocks, NEW cells, NEW m \in Metadata, home \in m.dataBitmap,
         \A a \in Ptrs : m.inodes[p].direct[a] # home,
         ~Unreadable(m.inodes[p]),
         NEW plan, plan = Link(d, p, n, i, <<Update(home, cells)>>, m)
  PROVE  /\ plan.writes # <<>> /\ Head(plan.writes) = Update(home, cells)
         /\ Comes(plan.writes, home, cells)
         /\ plan.ret = i => plan.mem.inodes[i] = m.inodes[i]
         /\ plan.ret \in {i, -ENOTENOUGHSPACE}
<1> DEFINE ino   == m.inodes[p]
           used  == BlocksFor(ino.size)
           slot  == First({pos \in PositionsIn(Held(ino, used)) : CellAt(d, ino, pos).inum = -1})
           at    == ino.direct[slot \div EntriesPerBlock]
           free  == DataBlocks \ m.dataBitmap
           b     == Least(free)
           first == <<Update(home, cells)>>
           u1    == Update(at, [d.blocks[at] EXCEPT ![slot % EntriesPerBlock] = Entry(n, i)])
           u2    == Update(b, [s \in Slots |-> IF s = 0 THEN Entry(n, i) ELSE Unused])
<1>1. ASSUME NEW u, u.addr # home, plan.writes = Append(first, u)
      PROVE  /\ plan.writes # <<>> /\ Head(plan.writes) = Update(home, cells)
             /\ Comes(plan.writes, home, cells)
  <2>1. plan.writes = <<Update(home, cells), u>>
    BY <1>1
  <2> QED
    BY <1>1, <2>1 DEF Comes, Update
<1>2. slot # -1 => u1.addr # home
  <2>1. slot # -1 => slot \div EntriesPerBlock \in Held(ino, used)
    <3>1. Held(ino, used) \in SUBSET Ptrs
      BY DEF Held
    <3> DEFINE ks   == Held(ino, used)
               hits == {pos \in PositionsIn(ks) : CellAt(d, ino, pos).inum = -1}
    <3>2. hits \in SUBSET Nat
      <4> HIDE DEF ks
      <4> QED
        BY <3>1, PositionInBlocks DEF ks
    <3>3. slot # -1 => slot \in hits
      <4>1. slot = First(hits)
        OBVIOUS
      <4> HIDE DEF hits, slot
      <4> QED
        BY <3>2, <4>1, FirstIsElement
    <3>4. slot # -1 => slot \in PositionsIn(ks)
      BY <3>3
    <3> HIDE DEF ks, slot
    <3> QED
      BY <3>1, <3>4, PositionInBlocks DEF ks
  <2>2. slot # -1 => slot \div EntriesPerBlock \in Ptrs
    BY <2>1 DEF Held
  <2> HIDE DEF slot
  <2> QED
    BY <2>2 DEF Update
<1>3. free # {} => u2.addr # home
  <2>1. free \in SUBSET Nat
    BY Layout
  <2>2. free # {} => b \in free
    <3> HIDE DEF free
    <3> QED
      BY <2>1, LeastIsMinimum
  <2> QED
    BY <2>2 DEF Update
<1>4. \/ slot # -1 /\ plan = Plan(i, Append(first, u1), TRUE, WithEntry(m, p))
      \/ free # {} /\ plan = Plan(i, Append(first, u2), TRUE, WithBlock(m, p, used, b))
      \/ plan = Plan(-ENOTENOUGHSPACE, first, FALSE, Meta(d))
  BY DEF Link, WithEntry, WithBlock
<1> HIDE DEF slot, u1, u2, b, free, used, at
<1>5. CASE slot # -1 /\ plan = Plan(i, Append(first, u1), TRUE, WithEntry(m, p))
  <2>1. plan.mem.inodes[i] = m.inodes[i]
    BY <1>5, OnlyDirectory DEF Plan
  <2> QED
    BY <1>1, <1>2, <1>5, <2>1 DEF Plan
<1>6. CASE free # {} /\ plan = Plan(i, Append(first, u2), TRUE, WithBlock(m, p, used, b))
  <2>1. plan.mem.inodes[i] = m.inodes[i]
    BY <1>6, OnlyDirectory DEF Plan
  <2> QED
    BY <1>1, <1>3, <1>6, <2>1 DEF Plan
<1>7. CASE plan = Plan(-ENOTENOUGHSPACE, first, FALSE, Meta(d))
  <2>1. -ENOTENOUGHSPACE # i
    BY DEF ENOTENOUGHSPACE, Inodes
  <2> QED
    BY <1>7, <2>1 DEF Plan, Comes, Update
<1> QED
  BY <1>4, <1>5, <1>6, <1>7

LEMMA CreateComes ==
  ASSUME NEW d, Usable(d), NEW p, NEW n,
         NEW plan, plan = CreatePlan(d, p, Directory, n)
  PROVE  /\ IsRefused(plan) => plan.ret = CreateChecks(d, p, Directory, n)
         /\ ~IsRefused(plan) /\ plan.ret >= 0 =>
              /\ plan.ret \in Inodes
              /\ p \in Inodes
              /\ \E home \in DataBlocks :
                   /\ plan.mem.inodes[plan.ret] = NewInode(Directory, home)
                   /\ plan.writes # <<>>
                   /\ Head(plan.writes) = Update(home, DirBlock(plan.ret, p))
                   /\ Comes(plan.writes, home, DirBlock(plan.ret, p))
<1> DEFINE i    == Least(Inodes \ d.inodeBitmap)
           home == Least(DataBlocks \ d.dataBitmap)
           m    == WithInode(d, Directory)
           d1   == [d EXCEPT !.blocks[home] = DirBlock(i, p)]
           w    == <<Update(home, DirBlock(i, p))>>
<1>1. d.inodeBitmap \in SUBSET Inodes /\ Sound(d)
  BY DEF Usable, Sound, Meta, Metadata
<1>2. CASE CreateChecks(d, p, Directory, n) # Passes
  <2>1. plan = Refuse(d, CreateChecks(d, p, Directory, n))
    BY <1>2 DEF CreatePlan
  <2> QED
    BY <2>1 DEF Refuse, Plan, IsRefused
<1>3. CASE CreateChecks(d, p, Directory, n) = Passes
  <2>1. plan = Link(d1, p, n, i, w, m)
    BY <1>3 DEF CreatePlan
  <2>2. /\ d.inodeBitmap # Inodes /\ p \in d.inodeBitmap /\ d.dataBitmap # DataBlocks
    BY <1>1, <1>3, ChecksPassed
  <2>3. IsDirectory(d, p) /\ ~Unreadable(d.inodes[p])
    BY <1>1, <1>3, ChecksPassedName
  <2>4. /\ i \in Inodes /\ home \in DataBlocks /\ home \notin d.dataBitmap
        /\ m \in Metadata /\ KeepsInodes(d, m)
    BY <2>2, WithInodeSpares
  <2>5. /\ m.inodes[i] = NewInode(Directory, home) /\ home \in m.dataBitmap
        /\ i \notin d.inodeBitmap
    <3>1. i \in Inodes \ d.inodeBitmap
      <4> DEFINE S == Inodes \ d.inodeBitmap
      <4>1. S \in SUBSET Nat
        BY DEF Inodes
      <4>2. S # {}
        BY <1>1, <2>2
      <4> HIDE DEF S
      <4>3. Least(S) \in S
        BY <4>1, <4>2, LeastIsMinimum
      <4> QED
        BY <4>3 DEF S
    <3>2. d.inodes \in [Inodes -> Inode]
      BY <1>1 DEF Sound, Meta, Metadata
    <3> HIDE DEF i, home
    <3> QED
      BY <2>4, <3>1, <3>2 DEF WithInode, i, home
  <2> HIDE DEF i, home, m
  <2>6. p \in Inodes /\ p # i /\ m.inodes[p] = d.inodes[p]
    BY <1>1, <2>2, <2>4, <2>5 DEF KeepsInodes
  <2>7. \A a \in Ptrs : m.inodes[p].direct[a] # home
    BY <1>1, <2>4, <2>6 DEF Sound, Marked
  <2> HIDE DEF d1
  <2>8. plan = Link(d1, p, n, i, <<Update(home, DirBlock(i, p))>>, m)
    BY <2>1
  <2>9. /\ plan.writes # <<>> /\ Head(plan.writes) = Update(home, DirBlock(i, p))
        /\ Comes(plan.writes, home, DirBlock(i, p))
        /\ plan.ret = i => plan.mem.inodes[i] = m.inodes[i]
        /\ plan.ret \in {i, -ENOTENOUGHSPACE}
    BY <2>3, <2>4, <2>5, <2>6, <2>7, <2>8, LinkComes
  <2>10. ~IsRefused(plan)
    BY <2>9 DEF IsRefused
  <2>11. plan.ret >= 0 => plan.ret = i
    BY <2>9 DEF ENOTENOUGHSPACE
  <2>12. ASSUME plan.ret >= 0
         PROVE  /\ plan.mem.inodes[plan.ret] = NewInode(Directory, home)
                /\ plan.writes # <<>>
                /\ Head(plan.writes) = Update(home, DirBlock(plan.ret, p))
                /\ Comes(plan.writes, home, DirBlock(plan.ret, p))
    BY <2>5, <2>9, <2>11, <2>12
  <2> HIDE DEF Comes
  <2> QED
    BY <2>4, <2>6, <2>10, <2>11, <2>12
<1> QED
  BY <1>2, <1>3

----------------------------------------------------------------------------
(***************************************************************************)
(* What a request keeps while it is handled.  A DELETE has changed nothing *)
(* before it calls unlink.  A PUT whose path only leads on has changed     *)
(* nothing either, or is in a directory it has just made, and while it is  *)
(* making one that is what the running create writes.                      *)
(***************************************************************************)
Asked ==
  /\ DOMAIN req = {"method", "path", "rest", "inode", "phase", "text", "size", "before"}
  /\ req.path \in Seq(AnyName) \ {<<>>} /\ req.rest \in Seq(AnyName)
  /\ \/ req.method = "PUT" /\ req.phase \in {"walk", "store"}
     \/ req.method = "DELETE" /\ req.phase \in {"walk", "remove"}
  /\ req.method = "PUT" => req.text \in FileCells /\ req.size \in Sizes
  /\ req.phase = "walk" => req.rest # <<>>
  /\ Onward(req.path) => Onward(req.rest)

Making ==
  /\ job.op = "create"
  /\ job.ret >= 0 =>
       /\ job.ret \in Inodes
       /\ \E p \in Inodes, home \in DataBlocks :
            /\ mem.inodes[job.ret] = NewInode(Directory, home)
            /\ \/ disk.blocks[home] = DirBlock(job.ret, p)
               \/ pc = "blocks" /\ Head(pending) = Update(home, DirBlock(job.ret, p))
            /\ pc = "blocks" => Comes(pending, home, DirBlock(job.ret, p))

InNew(d, i) == i \in Inodes => JustMade(d.inodes[i], d.blocks, i)

Unspoiled ==
  /\ req.method = "DELETE" /\ req.phase = "walk" => pc = "idle" /\ disk = req.before
  /\ req.method = "PUT" /\ req.phase = "walk" /\ Onward(req.path) =>
       /\ pc = "idle" => disk = req.before \/ InNew(disk, req.inode)
       /\ pc # "idle" /\ Len(req.rest) > 1 => Making

Handled ==
  /\ req = NoReq => pc = "idle"
  /\ req # NoReq => Asked /\ Unspoiled

DfsInv == Kept /\ Handled

----------------------------------------------------------------------------
(***************************************************************************)
(* The handlers call LocalFileSystem with what its specification lets      *)
(* callers pass, or with what it refuses.                                  *)
(***************************************************************************)
LEMMA PathNames ==
  /\ \A s \in Seq(AnyName) : s # <<>> => Head(s) \in AnyName /\ Last(s) \in AnyName
  /\ \A s \in Seq(AnyName) : s # <<>> =>
       /\ Len(s) \in Nat \ {0} /\ Tail(s) \in Seq(AnyName)
       /\ Len(s) # 1 => Tail(s) # <<>>
  /\ \A s \in Seq(AnyName) : s # <<>> /\ Onward(s) => Head(s) # ".." /\ Onward(Tail(s))
<1> SUFFICES ASSUME NEW s \in Seq(AnyName), s # <<>>
             PROVE  /\ Head(s) \in AnyName /\ Last(s) \in AnyName
                    /\ Len(s) \in Nat \ {0} /\ Tail(s) \in Seq(AnyName)
                    /\ Len(s) # 1 => Tail(s) # <<>>
                    /\ Onward(s) => Head(s) # ".." /\ Onward(Tail(s))
  OBVIOUS
<1>1. Len(s) \in Nat \ {0} /\ Head(s) = s[1] /\ \A x \in 1 .. Len(s) : s[x] \in AnyName
  OBVIOUS
<1>2. 1 \in DOMAIN s /\ DOMAIN s = 1 .. Len(s)
  BY <1>1
<1>3. /\ Tail(s) \in Seq(AnyName) /\ DOMAIN Tail(s) = 1 .. Len(s) - 1
      /\ \A x \in 1 .. Len(s) - 1 : Tail(s)[x] = s[x + 1]
  BY <1>1
<1>4. Len(s) # 1 => Tail(s) # <<>>
  <2>1. Len(s) # 1 => 1 \in DOMAIN Tail(s)
    <3>1. Len(s) # 1 => 1 \in 1 .. Len(s) - 1
      <4>1. \A l \in Nat \ {0} : l # 1 => 1 \in 1 .. l - 1
        OBVIOUS
      <4> QED
        BY <1>1, <4>1
    <3> QED
      BY <1>3, <3>1
  <2>2. DOMAIN <<>> = {}
    OBVIOUS
  <2> QED
    BY <2>1, <2>2
<1>5. Onward(s) => Onward(Tail(s))
  BY <1>1, <1>2, <1>3 DEF Onward
<1> QED
  BY <1>1, <1>2, <1>3, <1>4, <1>5 DEF Last, Onward

LEMMA CreateIsCall ==
  ASSUME NEW p, NEW type \in {Directory, RegularFile}, NEW n \in AnyName, Create(p, type, n),
         disk.inodeBitmap \subseteq Inodes
  PROVE  [Calls]_vars
<1>1. CASE p \in AnyInode
  BY <1>1 DEF Calls
<1>2. CASE p \notin AnyInode
  <2>1. p \notin disk.inodeBitmap
    BY <1>2, UFSAssumption DEF AnyInode, Inodes
  <2>2. CreateChecks(disk, p, type, n) # Passes
    BY <2>1, ChecksPassed
  <2>3. CreatePlan(disk, p, type, n) = Refuse(disk, CreateChecks(disk, p, type, n))
    BY <2>2 DEF CreatePlan
  <2>4. IsRefused(CreatePlan(disk, p, type, n))
    BY <2>3 DEF Refuse, Plan, IsRefused
  <2> HIDE DEF CreatePlan
  <2>5. UNCHANGED vars
    BY <2>4 DEF Create, Start
  <2> QED
    BY <2>5
<1> QED
  BY <1>1, <1>2

LEMMA StepsAreCalls == Kept /\ Handled /\ [DfsNext]_dfsVars => [Calls]_vars
<1> SUFFICES ASSUME Kept, Handled, [DfsNext]_dfsVars PROVE [Calls]_vars
  OBVIOUS
<1>1. disk.inodeBitmap \subseteq Inodes
  BY DEF Kept, Ownership, Structure, Meta, Metadata
<1>2. CASE UNCHANGED dfsVars
  BY <1>2 DEF dfsVars
<1>3. CASE \/ \E path \in Paths : Get(path)
           \/ \E path \in Paths, text \in FileCells, size \in Sizes : Accept("PUT", path, text, size)
           \/ \E path \in Paths : Accept("DELETE", path, ZeroCell, 0)
  BY <1>3 DEF Get, Accept
<1>4. CASE PutDirectory
  <2>1. Head(req.rest) \in AnyName
    BY <1>4, PathNames DEF PutDirectory, Ready, Handled, Asked
  <2>2. UNCHANGED vars \/ Create(req.inode, Directory, Head(req.rest))
    BY <1>4 DEF PutDirectory, CallCreate
  <2> QED
    BY <1>1, <2>1, <2>2, CreateIsCall
<1>5. CASE PutFile
  <2>1. Head(req.rest) \in AnyName
    BY <1>5, PathNames DEF PutFile, Ready, Handled, Asked
  <2>2. UNCHANGED vars \/ Create(req.inode, RegularFile, Head(req.rest))
    BY <1>5 DEF PutFile, CallCreate
  <2> QED
    BY <1>1, <2>1, <2>2, CreateIsCall
<1>6. CASE PutStore
  <2>1. Write(req.inode, req.text, req.size) /\ req.text \in FileCells /\ req.size \in Sizes
    BY <1>6 DEF PutStore, Ready, Handled, Asked
  <2>2. CASE req.inode \in AnyInode
    BY <2>1, <2>2 DEF Calls
  <2>3. CASE req.inode \notin AnyInode
    <3>1. StatFails(req.inode)
      BY <2>3, UFSAssumption DEF StatFails, AnyInode, Inodes
    <3>2. WriteError(disk, req.inode, req.size) # 0
      BY <3>1 DEF WriteError, EINVALIDSIZE, EINVALIDINODE
    <3> QED
      BY <2>1, <3>2 DEF Write
  <2> QED
    BY <2>2, <2>3
<1>7. CASE Delete
  BY <1>7 DEF Delete
<1>8. CASE Remove
  <2>1. PICK plan \in UnlinkPlans(disk, req.inode, Last(req.path)) :
          UnlinkWith(req.inode, Last(req.path), plan)
    BY <1>8 DEF Remove
  <2>2. Last(req.path) \in AnyName
    BY <1>8, PathNames DEF Remove, Ready, Handled, Asked
  <2>3. CASE req.inode \in AnyInode
    BY <2>1, <2>2, <2>3 DEF Calls, Unlink
  <2>4. CASE req.inode \notin AnyInode
    <3>1. req.inode \notin Inodes
      BY <2>4, UFSAssumption DEF AnyInode, Inodes
    <3>2. plan = Refuse(disk, -EINVALIDINODE)
      BY <2>1, <3>1 DEF UnlinkPlans, UnlinkPlan
    <3>3. IsRefused(plan)
      BY <3>2 DEF Refuse, Plan, IsRefused
    <3> QED
      BY <2>1, <3>3 DEF UnlinkWith, Start
  <2> QED
    BY <2>3, <2>4
<1>9. CASE CallRuns
  BY <1>9 DEF CallRuns, Calls
<1> QED
  BY <1>2, <1>3, <1>4, <1>5, <1>6, <1>7, <1>8, <1>9 DEF DfsNext, HandlerSteps

----------------------------------------------------------------------------
(***************************************************************************)
(* A create that put() has called makes a new directory, one block write   *)
(* at a time, or fails.                                                    *)
(***************************************************************************)
LEMMA StartMakes ==
  ASSUME Kept, NEW p, NEW n, Create(p, Directory, n)
  PROVE  \/ UNCHANGED vars /\ CreatePlan(disk, p, Directory, n).ret = CreateChecks(disk, p, Directory, n)
         \/ pc' # "idle" /\ Making'
<1> DEFINE plan == CreatePlan(disk, p, Directory, n)
<1>1. Usable(disk) /\ pc = "idle"
  BY DiskIsUsable DEF Create
<1>2. /\ IsRefused(plan) => plan.ret = CreateChecks(disk, p, Directory, n)
      /\ ~IsRefused(plan) /\ plan.ret >= 0 =>
           /\ plan.ret \in Inodes /\ p \in Inodes
           /\ \E home \in DataBlocks :
                /\ plan.mem.inodes[plan.ret] = NewInode(Directory, home)
                /\ plan.writes # <<>>
                /\ Head(plan.writes) = Update(home, DirBlock(plan.ret, p))
                /\ Comes(plan.writes, home, DirBlock(plan.ret, p))
  BY <1>1, CreateComes
<1>3. Start([op |-> "create", inum |-> p, type |-> Directory, name |-> n, ret |-> plan.ret], plan)
  BY DEF Create
<1> HIDE DEF plan
<1>4. CASE IsRefused(plan)
  BY <1>2, <1>3, <1>4 DEF Start, plan
<1>5. CASE ~IsRefused(plan)
  <2>1. /\ job'.op = "create" /\ job'.ret = plan.ret /\ pending' = plan.writes
        /\ mem' = plan.mem /\ pc' = IF plan.writes = <<>> THEN "inodeBitmap" ELSE "blocks"
    BY <1>3, <1>5 DEF Start, Proceed
  <2>2. ASSUME plan.ret >= 0
        PROVE  /\ plan.ret \in Inodes
               /\ \E q \in Inodes, home \in DataBlocks :
                    /\ mem'.inodes[plan.ret] = NewInode(Directory, home)
                    /\ pc' = "blocks" /\ Head(pending') = Update(home, DirBlock(plan.ret, q))
                    /\ Comes(pending', home, DirBlock(plan.ret, q))
    BY <1>2, <1>5, <2>1, <2>2
  <2> HIDE DEF Comes
  <2>3. Making'
    BY <2>1, <2>2 DEF Making
  <2> QED
    BY <2>1, <2>3
<1> QED
  BY <1>4, <1>5

LEMMA FlushBlockMakes ==
  ASSUME Kept, Making, FlushBlock
  PROVE  \/ pc' # "idle" /\ Making'
         \/ pc' = "idle" /\ InNew(disk', job.ret)
<1>1. /\ pc = "blocks" /\ pending # <<>> /\ disk \in Image
      /\ pending \in Seq([addr : DataBlocks, cells : Block])
  BY DEF FlushBlock, Kept, Contents, FilesApart, TypeOK
<1>2. disk' = [disk EXCEPT !.blocks[Head(pending).addr] = Head(pending).cells]
  BY DEF FlushBlock
<1>3. CASE Tail(pending) = <<>> /\ job.ret < 0 /\ Return(disk')
  BY <1>3 DEF Return, InNew, Inodes
<1>4. CASE /\ pending' = Tail(pending)
           /\ pc' = IF Tail(pending) = <<>> THEN "inodeBitmap" ELSE "blocks"
           /\ UNCHANGED <<job, mem, k>>
  <2>1. ASSUME job.ret >= 0
        PROVE  /\ job.ret \in Inodes
               /\ \E p \in Inodes, home \in DataBlocks :
                    /\ mem.inodes[job.ret] = NewInode(Directory, home)
                    /\ disk'.blocks[home] = DirBlock(job.ret, p)
                    /\ Comes(Tail(pending), home, DirBlock(job.ret, p))
    <3>1. PICK p \in Inodes, home \in DataBlocks :
            /\ mem.inodes[job.ret] = NewInode(Directory, home)
            /\ \/ disk.blocks[home] = DirBlock(job.ret, p)
               \/ Head(pending) = Update(home, DirBlock(job.ret, p))
            /\ Comes(pending, home, DirBlock(job.ret, p))
      BY <1>1, <2>1 DEF Making
    <3> DEFINE new == DirBlock(job.ret, p)
    <3> HIDE DEF new
    <3>2. 1 \in DOMAIN pending /\ Head(pending) = pending[1]
      BY <1>1
    <3>3. Head(pending).addr = home => Head(pending).cells = new
      BY <3>1, <3>2 DEF Comes, new
    <3>4. Head(pending).addr # home => disk.blocks[home] = new
      BY <3>1 DEF Update, new
    <3>5. disk'.blocks[home] = new
      BY <1>1, <1>2, <3>3, <3>4 DEF Image
    <3>6. \A x \in DOMAIN Tail(pending) : x + 1 \in DOMAIN pending /\ Tail(pending)[x] = pending[x + 1]
      BY <1>1
    <3>7. Comes(Tail(pending), home, new)
      BY <3>1, <3>6 DEF Comes, new
    <3> QED
      BY <2>1, <3>1, <3>5, <3>7 DEF Making, new
  <2>2. pc' # "idle"
    BY <1>4
  <2> HIDE DEF Comes
  <2>3. Making'
    BY <1>4, <2>1 DEF Making
  <2> QED
    BY <2>2, <2>3
<1> QED
  BY <1>3, <1>4 DEF FlushBlock

LEMMA FlushRegionMakes ==
  ASSUME Kept, Making, FlushRegion
  PROVE  \/ pc' # "idle" /\ Making'
         \/ pc' = "idle" /\ InNew(disk', job.ret)
<1>1. /\ pc = "region" /\ disk \in Image
      /\ k \in 0 .. InodeRegionLen - 1
      /\ \A i \in Inodes : i \div InodesPerBlock < k => disk.inodes[i] = mem.inodes[i]
  BY DEF FlushRegion, Kept, Contents, TypeOK, Ownership, Control
<1>2. disk' = [disk EXCEPT !.inodes = [i \in Inodes |->
                 IF i \div InodesPerBlock = k THEN mem.inodes[i] ELSE disk.inodes[i]]]
  BY DEF FlushRegion
<1>3. /\ disk'.blocks = disk.blocks
      /\ \A i \in Inodes : disk'.inodes[i] =
           IF i \div InodesPerBlock = k THEN mem.inodes[i] ELSE disk.inodes[i]
  BY <1>1, <1>2 DEF Image
<1>4. CASE k + 1 = InodeRegionLen /\ Return(disk')
  <2>1. ASSUME job.ret \in Inodes
        PROVE  JustMade(disk'.inodes[job.ret], disk'.blocks, job.ret)
    <3>1. job.ret >= 0
      BY <2>1 DEF Inodes
    <3>2. PICK p \in Inodes, home \in DataBlocks :
            /\ mem.inodes[job.ret] = NewInode(Directory, home)
            /\ disk.blocks[home] = DirBlock(job.ret, p)
      BY <1>1, <3>1 DEF Making
    <3>3. job.ret \div InodesPerBlock \in Nat /\ job.ret \div InodesPerBlock < InodeRegionLen
      BY <2>1, Layout
    <3>4. disk'.inodes[job.ret] = mem.inodes[job.ret]
      <4> DEFINE q == job.ret \div InodesPerBlock
      <4>1. q = k \/ q < k
        <5> HIDE DEF q
        <5> QED
          BY <1>1, <1>4, <3>3, Layout DEF q
      <4> QED
        BY <1>1, <1>3, <2>1, <4>1
    <3> QED
      BY <1>3, <3>2, <3>4 DEF JustMade
  <2> QED
    BY <1>4, <2>1 DEF Return, InNew
<1>5. CASE k' = k + 1 /\ UNCHANGED <<pc, job, pending, mem>>
  BY <1>1, <1>3, <1>5 DEF Making
<1> QED
  BY <1>4, <1>5 DEF FlushRegion

LEMMA RunningMakes ==
  ASSUME Kept, Making, WriteSteps \/ Flush
  PROVE  /\ pc # "write"
         /\ \/ pc' # "idle" /\ Making'
            \/ pc' = "idle" /\ InNew(disk', job.ret)
<1>1. pc # "write"
  BY DEF Making, Kept, Ownership, Control
<1>2. CASE WriteSteps
  BY <1>1, <1>2 DEF WriteSteps, WriteReuse, WriteAllocate, WriteFails, WriteTrim, InLoop
<1>3. disk \in Image
  BY DEF Kept, Contents, TypeOK
<1>4. CASE FlushInodeBitmap
  <2>1. disk'.blocks = disk.blocks /\ pc = "inodeBitmap" /\ pc' = "dataBitmap"
        /\ UNCHANGED <<job, pending, mem>>
    BY <1>3, <1>4 DEF FlushInodeBitmap, Image
  <2> QED
    BY <1>1, <2>1 DEF Making
<1>5. CASE FlushDataBitmap
  <2>1. mem' = mem
    BY <1>5, FlushDataBitmapMem DEF Kept
  <2>2. disk'.blocks = disk.blocks /\ pc = "dataBitmap" /\ pc' = "region"
        /\ UNCHANGED <<job, pending, mem>>
    BY <1>3, <1>5, <2>1 DEF FlushDataBitmap, Image
  <2> QED
    BY <1>1, <2>2 DEF Making
<1> QED
  BY <1>1, <1>2, <1>4, <1>5, FlushBlockMakes, FlushRegionMakes DEF Flush

----------------------------------------------------------------------------
(***************************************************************************)
(* The handler goes on with what a call has returned.                      *)
(***************************************************************************)
LEMMA ResumeKeeps ==
  ASSUME req # NoReq, Asked, NEW r, Resume(r), pc' = "idle",
         req.phase = "walk" => req.method = "PUT",
         req.phase = "walk" /\ Onward(req.path) /\ Len(req.rest) > 1 =>
           disk' = req.before \/ InNew(disk', r)
  PROVE  Handled'
<1>1. CASE req' = NoReq
  BY <1>1 DEF Handled
<1>2. CASE req.phase = "walk" /\ r # Aborts
  <2>1. req' = [req EXCEPT !.inode = r, !.rest = Tail(@),
                           !.phase = IF Len(req.rest) = 1 THEN "store" ELSE "walk"]
    BY <1>2 DEF Resume
  <2>2. /\ req'.inode = r /\ req'.rest = Tail(req.rest) /\ req'.method = "PUT"
        /\ req'.path = req.path /\ req'.text = req.text /\ req'.size = req.size
        /\ req'.before = req.before /\ DOMAIN req' = DOMAIN req
        /\ req'.phase = IF Len(req.rest) = 1 THEN "store" ELSE "walk"
    BY <1>2, <2>1 DEF Asked
  <2>3. req.rest \in Seq(AnyName) /\ req.rest # <<>>
    BY <1>2 DEF Asked
  <2>4. /\ Tail(req.rest) \in Seq(AnyName)
        /\ Len(req.rest) \in Nat \ {0}
        /\ Len(req.rest) # 1 => Tail(req.rest) # <<>>
    BY <2>3, PathNames
  <2>5. Onward(req.path) => Onward(Tail(req.rest))
    BY <2>3, PathNames DEF Asked
  <2>6. Asked'
    BY <1>2, <2>2, <2>4, <2>5 DEF Asked, Onward
  <2>7. Unspoiled'
    BY <1>2, <2>2, <2>4 DEF Unspoiled, Onward, InNew, JustMade
  <2>8. req' # NoReq
    BY <2>2 DEF Asked, NoReq
  <2> QED
    BY <2>6, <2>7, <2>8 DEF Handled
<1>3. req' = NoReq \/ (req.phase = "walk" /\ r # Aborts)
  BY DEF Resume, Die, Answer
<1> QED
  BY <1>1, <1>2, <1>3

\* A call that has only begun leaves the request where it was.
LEMMA CreateCalled ==
  ASSUME Kept, Handled, Ready, req.method = "PUT", req.phase = "walk",
         NEW type \in {Directory, RegularFile},
         Len(req.rest) > 1 => type = Directory,
         Lookup(disk, req.inode, Head(req.rest)) < 0,
         CallCreate(req.inode, type, Head(req.rest))
  PROVE  Handled'
<1> DEFINE n   == Head(req.rest)
           ret == CreatePlan(disk, req.inode, type, n).ret
<1>1. /\ req # NoReq /\ pc = "idle" /\ Asked /\ Unspoiled /\ req.rest # <<>>
      /\ req.rest \in Seq(AnyName) /\ Len(req.rest) \in Nat
  BY DEF Ready, Handled, Asked
<1>2. Create(req.inode, type, n) /\ Called(ret)
  BY DEF CallCreate
<1>3. CASE pc' = "idle"
  <2>1. UNCHANGED vars
    <3>1. \/ UNCHANGED vars \/ pc' = "inodeBitmap" \/ pc' = "blocks"
      BY <1>2 DEF Create, Start, Proceed
    <3> QED
      BY <1>3, <3>1
  <2>2. Resume(ret)
    BY <1>2, <1>3 DEF Called
  <2>3. ASSUME Onward(req.path), Len(req.rest) > 1, disk # req.before
        PROVE  InNew(disk, ret)
    <3>1. InNew(disk, req.inode) /\ type = Directory
      BY <1>1, <2>3 DEF Unspoiled
    <3>2. n # ".."
      BY <1>1, <2>3, PathNames DEF Asked
    <3>3. ret = CreateChecks(disk, req.inode, Directory, n)
      <4>1. ~(pc' # "idle" /\ Making')
        BY <1>3
      <4>2. Create(req.inode, Directory, n)
        BY <1>2, <3>1
      <4> QED
        BY <4>1, <4>2, <3>1, StartMakes
    <3>4. CASE req.inode \in Inodes
      <4>1. JustMade(disk.inodes[req.inode], disk.blocks, req.inode)
        BY <3>1, <3>4 DEF InNew
      <4>2. ret \in Inodes => ret = req.inode
        BY <3>2, <3>3, <3>4, <4>1, FoundInNew
      <4> QED
        BY <4>1, <4>2 DEF InNew
    <3>5. CASE req.inode \notin Inodes
      <4>1. req.inode \notin disk.inodeBitmap
        BY <3>5 DEF Kept, Ownership, Structure, Meta, Metadata
      <4>2. ret \in {-EINVALIDNAME, -EINVALIDINODE}
        BY <3>3, <4>1 DEF CreateChecks, IsDirectory
      <4>3. ret \notin Inodes
        BY <4>2 DEF EINVALIDNAME, EINVALIDINODE, Inodes
      <4> QED
        BY <4>3 DEF InNew
    <3> QED
      BY <3>4, <3>5
  <2>4. disk' = disk /\ (InNew(disk, ret) => InNew(disk', ret))
    BY <2>1 DEF vars, InNew
  <2> HIDE DEF ret
  <2> QED
    BY <1>1, <1>3, <2>2, <2>3, <2>4, ResumeKeeps
<1>4. CASE pc' # "idle"
  <2>1. req' = req
    BY <1>2, <1>4 DEF Called
  <2>2. type = Directory => Making'
    <3>1. pc = "idle" /\ ~(UNCHANGED vars)
      BY <1>1, <1>4 DEF vars
    <3> QED
      BY <1>2, <3>1, StartMakes
  <2>3. Asked' /\ req' # NoReq
    BY <1>1, <2>1 DEF Asked, Onward
  <2>4. Unspoiled'
    <3>1. Len(req.rest) > 1 => type = Directory
      OBVIOUS
    <3> HIDE DEF Making
    <3> QED
      BY <1>4, <2>1, <2>2, <3>1 DEF Unspoiled, Onward
  <2> QED
    BY <2>3, <2>4 DEF Handled
<1> QED
  BY <1>3, <1>4

LEMMA PutDirectoryKeeps == Kept /\ Handled /\ PutDirectory => Handled'
<1> SUFFICES ASSUME Kept, Handled, PutDirectory PROVE Handled'
  OBVIOUS
<1> DEFINE next == Lookup(disk, req.inode, Head(req.rest))
<1>1. /\ Ready /\ req # NoReq /\ pc = "idle" /\ Asked /\ Unspoiled
      /\ req.method = "PUT" /\ req.phase = "walk" /\ Len(req.rest) > 1
      /\ req.rest \in Seq(AnyName) /\ req.rest # <<>>
  BY DEF PutDirectory, Ready, Handled, Asked
<1>2. CASE next < 0 /\ CallCreate(req.inode, Directory, Head(req.rest))
  BY <1>1, <1>2, CreateCalled
<1>3. CASE UNCHANGED vars /\ Answer(409)
  BY <1>1, <1>3 DEF Answer, Handled, vars
<1>4. CASE ~(next < 0) /\ UNCHANGED vars /\ Resume(next)
  <2>1. ASSUME Onward(req.path), disk # req.before
        PROVE  InNew(disk, next)
    <3>1. InNew(disk, req.inode) /\ Head(req.rest) # ".."
      BY <1>1, <2>1, PathNames DEF Unspoiled, Asked
    <3>2. req.inode \in Inodes
      <4>1. -EINVALIDINODE < 0
        BY DEF EINVALIDINODE
      <4> QED
        BY <1>4, <4>1 DEF Lookup, StatFails
    <3>3. JustMade(disk.inodes[req.inode], disk.blocks, req.inode)
      BY <3>1, <3>2 DEF InNew
    <3>4. next = req.inode
      BY <1>4, <3>1, <3>2, <3>3, FoundInNew
    <3> QED
      BY <3>1, <3>4
  <2>2. disk' = disk /\ pc' = "idle" /\ (InNew(disk, next) => InNew(disk', next))
    BY <1>1, <1>4 DEF vars, InNew
  <2> HIDE DEF next
  <2> QED
    BY <1>1, <1>4, <2>1, <2>2, ResumeKeeps
<1> QED
  BY <1>2, <1>3, <1>4 DEF PutDirectory

LEMMA PutFileKeeps == Kept /\ Handled /\ PutFile => Handled'
<1> SUFFICES ASSUME Kept, Handled, PutFile PROVE Handled'
  OBVIOUS
<1> DEFINE found == Lookup(disk, req.inode, Head(req.rest))
<1>1. /\ Ready /\ req # NoReq /\ pc = "idle" /\ Asked
      /\ req.method = "PUT" /\ req.phase = "walk" /\ Len(req.rest) = 1
  BY DEF PutFile, Ready, Handled
<1>2. CASE found < 0 /\ CallCreate(req.inode, RegularFile, Head(req.rest))
  <2>1. ~(Len(req.rest) > 1)
    BY <1>1
  <2> QED
    BY <1>1, <1>2, <2>1, CreateCalled
<1>3. CASE UNCHANGED vars /\ Resume(found)
  <2>1. pc' = "idle"
    BY <1>1, <1>3 DEF vars
  <2> HIDE DEF found
  <2> QED
    BY <1>1, <1>3, <2>1, ResumeKeeps
<1> QED
  BY <1>2, <1>3 DEF PutFile

\* Nothing is asked of a request that stores or removes.
LEMMA LastCallKeeps ==
  ASSUME req # NoReq, Asked, req.phase # "walk", NEW r, Called(r)
  PROVE  Handled'
<1>1. CASE pc' = "idle"
  <2>1. Resume(r)
    BY <1>1 DEF Called
  <2> QED
    BY <1>1, <2>1, ResumeKeeps
<1>2. CASE pc' # "idle"
  <2>1. req' = req
    BY <1>2 DEF Called
  <2> QED
    BY <2>1 DEF Handled, Asked, Unspoiled, Onward
<1> QED
  BY <1>1, <1>2

LEMMA CallRunsKeeps == Kept /\ Handled /\ CallRuns => Handled'
<1> SUFFICES ASSUME Kept, Handled, CallRuns PROVE Handled'
  OBVIOUS
<1>1. (WriteSteps \/ Flush) /\ Called(ReturnValue)
  BY DEF CallRuns
<1>2. pc # "idle"
  BY <1>1 DEF WriteSteps, WriteReuse, WriteAllocate, WriteFails, WriteTrim, InLoop,
     Flush, FlushBlock, FlushInodeBitmap, FlushDataBitmap, FlushRegion
<1>3. req # NoReq /\ Asked /\ Unspoiled
  BY <1>2 DEF Handled
<1>4. CASE req.phase # "walk"
  BY <1>1, <1>3, <1>4, LastCallKeeps
<1>5. CASE req.phase = "walk"
  <2>1. req.method = "PUT"
    BY <1>2, <1>3, <1>5 DEF Asked, Unspoiled
  <2>2. Onward(req.path) /\ Len(req.rest) > 1 =>
          /\ ReturnValue = job.ret
          /\ \/ pc' # "idle" /\ Making'
             \/ pc' = "idle" /\ InNew(disk', job.ret)
    <3>1. Onward(req.path) /\ Len(req.rest) > 1 => Making
      BY <1>2, <1>3, <1>5, <2>1 DEF Unspoiled
    <3>2. pc # "write" => ReturnValue = job.ret
      BY DEF ReturnValue
    <3> QED
      BY <1>1, <3>1, <3>2, RunningMakes
  <2>3. CASE pc' = "idle"
    <3>1. Resume(ReturnValue)
      BY <1>1, <2>3 DEF Called
    <3>2. Onward(req.path) /\ Len(req.rest) > 1 => InNew(disk', ReturnValue)
      BY <2>2, <2>3
    <3> HIDE DEF InNew
    <3> QED
      BY <1>3, <2>1, <2>3, <3>1, <3>2, ResumeKeeps
  <2>4. CASE pc' # "idle"
    <3>1. req' = req
      BY <1>1, <2>4 DEF Called
    <3>2. Asked'
      BY <1>3, <3>1 DEF Asked, Onward
    <3>3. Unspoiled'
      <4>1. Onward(req.path) /\ Len(req.rest) > 1 => Making'
        BY <2>2, <2>4
      <4> HIDE DEF Making
      <4> QED
        BY <2>1, <2>4, <3>1, <4>1 DEF Unspoiled, Onward
    <3> QED
      BY <1>3, <3>1, <3>2, <3>3 DEF Handled
  <2> QED
    BY <2>3, <2>4
<1> QED
  BY <1>4, <1>5

LEMMA AcceptKeeps ==
  ASSUME Handled, NEW method, NEW path \in Paths, NEW text, NEW size,
         Accept(method, path, text, size),
         \/ method = "PUT" /\ text \in FileCells /\ size \in Sizes
         \/ method = "DELETE"
  PROVE  Handled'
<1>1. /\ req = NoReq /\ pc = "idle" /\ UNCHANGED vars /\ path \in Seq(AnyName)
      /\ pc' = "idle" /\ disk' = disk
  BY DfsAssumption DEF Accept, Handled, vars
<1>2. CASE path = <<>>
  BY <1>1, <1>2 DEF Accept, Die, Handled
<1>3. CASE path # <<>>
  <2>1. req' = [method |-> method, path |-> path, rest |-> path, inode |-> Root,
                phase |-> "walk", text |-> text, size |-> size, before |-> disk]
    BY <1>3 DEF Accept
  <2>2. Asked'
    BY <1>1, <1>3, <2>1 DEF Asked, Onward
  <2>3. Unspoiled'
    BY <1>1, <2>1 DEF Unspoiled
  <2> QED
    BY <1>1, <2>2, <2>3 DEF Handled
<1> QED
  BY <1>2, <1>3

LEMMA DeleteKeeps == Handled /\ Delete => Handled'
<1> SUFFICES ASSUME Handled, Delete PROVE Handled'
  OBVIOUS
<1>1. /\ req # NoReq /\ pc = "idle" /\ Asked /\ req.method = "DELETE" /\ req.phase = "walk"
      /\ pc' = "idle"
  BY DEF Delete, Ready, Handled, vars
<1>2. \/ req' = NoReq
      \/ \E dir : req' = [req EXCEPT !.phase = "remove", !.inode = dir]
  BY DEF Delete, Answer
<1>3. ASSUME NEW dir, req' = [req EXCEPT !.phase = "remove", !.inode = dir]
      PROVE  Handled'
  <2>1. /\ req'.method = "DELETE" /\ req'.phase = "remove" /\ DOMAIN req' = DOMAIN req
        /\ req'.path = req.path /\ req'.rest = req.rest
    BY <1>1, <1>3 DEF Asked
  <2>2. Asked'
    BY <1>1, <2>1 DEF Asked, Onward
  <2>3. Unspoiled'
    BY <2>1 DEF Unspoiled
  <2> QED
    BY <1>1, <2>2, <2>3 DEF Handled
<1> QED
  BY <1>1, <1>2, <1>3 DEF Handled

LEMMA DfsNextKeeps == Kept /\ Handled /\ [DfsNext]_dfsVars => Kept' /\ Handled'
<1> SUFFICES ASSUME Kept, Handled, [DfsNext]_dfsVars PROVE Kept' /\ Handled'
  OBVIOUS
<1>1. Kept'
  <2>1. [Calls]_vars
    BY StepsAreCalls
  <2> QED
    BY <2>1, NextKeeps DEF RestartNext
<1> SUFFICES Handled'
  BY <1>1
<1>2. CASE UNCHANGED dfsVars
  BY <1>2 DEF dfsVars, vars, Handled, Asked, Unspoiled, Making, InNew, JustMade, Comes, Onward
<1>3. CASE \E path \in Paths : Get(path)
  BY <1>3 DEF Get, Handled, vars
<1>4. CASE \/ \E path \in Paths, text \in FileCells, size \in Sizes : Accept("PUT", path, text, size)
           \/ \E path \in Paths : Accept("DELETE", path, ZeroCell, 0)
  BY <1>4, AcceptKeeps
<1>5. CASE PutDirectory
  BY <1>5, PutDirectoryKeeps
<1>6. CASE PutFile
  BY <1>6, PutFileKeeps
<1>7. CASE PutStore
  <2>1. req # NoReq /\ Asked /\ req.phase # "walk"
        /\ Called(WriteError(disk, req.inode, req.size))
    BY <1>7 DEF PutStore, Ready, Handled
  <2> QED
    BY <2>1, LastCallKeeps
<1>8. CASE Delete
  BY <1>8, DeleteKeeps
<1>9. CASE Remove
  <2>1. PICK plan : Called(plan.ret)
    BY <1>9 DEF Remove
  <2>2. req # NoReq /\ Asked /\ req.phase # "walk"
    BY <1>9 DEF Remove, Ready, Handled
  <2> QED
    BY <2>1, <2>2, LastCallKeeps
<1>10. CASE CallRuns
  BY <1>10, CallRunsKeeps
<1> QED
  BY <1>2, <1>3, <1>4, <1>5, <1>6, <1>7, <1>8, <1>9, <1>10 DEF DfsNext, HandlerSteps

LEMMA DfsInitKeeps == DfsInit => Kept /\ Handled
  BY InitOwns, InitKeeps DEF DfsInit, Kept, Init, Handled

LEMMA DfsKeeps == DfsSpec => [](Kept /\ Handled)
  BY DfsInitKeeps, DfsNextKeeps, PTL DEF DfsSpec

----------------------------------------------------------------------------
(***************************************************************************)
(* The handlers use LocalFileSystem as its specification allows, whatever  *)
(* the requests are and whatever the lookups on their way return.          *)
(***************************************************************************)
THEOREM HandlersUseLFS == DfsSpec => Spec
<1>1. DfsInit => Init
  BY DEF DfsInit
<1> QED
  BY <1>1, StepsAreCalls, DfsKeeps, PTL DEF DfsSpec, Spec

LEMMA CallsAreRestartable == Spec => RestartSpec
<1>1. [Calls]_vars => [RestartNext]_vars
  BY DEF RestartNext
<1> QED
  BY <1>1, PTL DEF Spec, RestartSpec, RestartNext

(***************************************************************************)
(* So what is proved of LocalFileSystem holds of the image that is served: *)
(* no two files share a block, a request changes no file but the one it    *)
(* is about, and what PUT has written is what GET returns.                 *)
(***************************************************************************)
THEOREM ServedImageIsKept ==
  DfsSpec => /\ []NoSharedBlock /\ []TypeOK
             /\ FilesUntouched /\ WrittenIsRead
  BY HandlersUseLFS, CallsAreRestartable, BlocksAreNotShared, LFSTypeOK, FilesAreUntouched, WhatWasWrittenIsRead

(***************************************************************************)
(* A request that is answered with 404 or 409 has changed nothing, if its  *)
(* path only leads on: put() answers 409 when it comes upon a file, and in *)
(* a directory it has made itself there is none.                           *)
(***************************************************************************)
LEMMA RefusedStep ==
  ASSUME Kept, Handled, [DfsNext]_dfsVars,
         req # NoReq, reply' # reply, reply'.status \in {404, 409}, Onward(req.path)
  PROVE  disk' = req.before
<1>1. reply'.status # 0 /\ reply'.status # 200
  OBVIOUS
<1>2. ASSUME NEW r, Called(r) PROVE FALSE
  BY <1>1, <1>2 DEF Called, Resume, Die, Answer, NoReply
<1>3. CASE PutDirectory
  <2> DEFINE next == Lookup(disk, req.inode, Head(req.rest))
  <2>1. ~(next < 0) /\ ~IsDir(next) /\ disk' = disk
    <3>1. CASE next < 0 /\ CallCreate(req.inode, Directory, Head(req.rest))
      BY <1>2, <3>1 DEF CallCreate
    <3>2. CASE Resume(next)
      BY <1>1, <3>2 DEF Resume, Die, Answer, NoReply
    <3> QED
      BY <1>3, <3>1, <3>2 DEF PutDirectory, vars
  <2>2. /\ pc = "idle" /\ Asked /\ Unspoiled /\ req.method = "PUT" /\ req.phase = "walk"
        /\ req.rest \in Seq(AnyName) /\ req.rest # <<>>
    BY <1>3 DEF PutDirectory, Ready, Handled, Asked
  <2>3. Head(req.rest) # ".."
    BY <2>2, PathNames DEF Asked
  <2>4. SUFFICES ASSUME InNew(disk, req.inode) PROVE FALSE
    BY <2>1, <2>2 DEF Unspoiled
  <2>5. req.inode \in Inodes
    <3>1. -EINVALIDINODE < 0
      BY DEF EINVALIDINODE
    <3> QED
      BY <2>1, <3>1 DEF Lookup, StatFails
  <2>6. JustMade(disk.inodes[req.inode], disk.blocks, req.inode)
    BY <2>4, <2>5 DEF InNew
  <2>7. next = req.inode /\ disk.inodes[req.inode].type = Directory
    BY <2>1, <2>3, <2>5, <2>6, FoundInNew, NewCells
  <2> QED
    BY <2>1, <2>5, <2>7 DEF IsDir
<1>4. CASE Delete
  BY <1>4 DEF Delete, Ready, Handled, Unspoiled, vars
<1>5. CASE PutFile
  <2>1. CASE CallCreate(req.inode, RegularFile, Head(req.rest))
    BY <1>2, <2>1 DEF CallCreate
  <2>2. CASE \E r : Resume(r)
    BY <1>1, <2>2 DEF Resume, Die, Answer, NoReply
  <2> QED
    BY <1>5, <2>1, <2>2 DEF PutFile
<1>6. CASE PutStore \/ Remove \/ CallRuns
  BY <1>2, <1>6 DEF PutStore, Remove, CallRuns
<1>7. CASE \/ UNCHANGED dfsVars
           \/ \E path \in Paths : Get(path)
           \/ \E path \in Paths, text \in FileCells, size \in Sizes : Accept("PUT", path, text, size)
           \/ \E path \in Paths : Accept("DELETE", path, ZeroCell, 0)
  BY <1>7 DEF dfsVars, Get, Accept
<1> QED
  BY <1>3, <1>4, <1>5, <1>6, <1>7 DEF DfsNext, HandlerSteps

THEOREM RefusalsChangeNothing == DfsSpec => RefusedChangesNothing
<1>1. Kept /\ Handled /\ [DfsNext]_dfsVars =>
        [req # NoReq /\ reply' # reply /\ reply'.status \in {404, 409} /\ Onward(req.path)
           => disk' = req.before]_dfsVars
  BY RefusedStep
<1> QED
  BY <1>1, DfsKeeps, PTL DEF DfsSpec, RefusedChangesNothing
=============================================================================
