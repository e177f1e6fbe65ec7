----------------------------- MODULE LFSProofs ------------------------------
(***************************************************************************)
(* Proofs about LocalFileSystem, for images of any size: no data block     *)
(* ever has two owners, in any image a process that dies between two block *)
(* writes leaves behind; no call changes a file it is not about; what was  *)
(* written is what read returns.  The restriction is that of RestartSpec:  *)
(* processes do not die while blocks are given back.                       *)
(* Last, without crashes and as long as no directory has a gap, the names  *)
(* make a tree and are what create and unlink have reported, and no block  *)
(* is lost.  NameSpaceProofs goes on from there.                           *)
(***************************************************************************)
EXTENDS LFSProperties, UFSLemmas

(***************************************************************************)
(* Numbers of the layout.  0 and UINT_MAX never name a data block; every   *)
(* inode is in a block of the inode region.                                *)
(***************************************************************************)
LEMMA Layout ==
  /\ InodeRegionLen \in Nat
  /\ InodeRegionLen > 0
  /\ \A i \in Inodes : i \div InodesPerBlock \in Nat /\ i \div InodesPerBlock < InodeRegionLen
  /\ NoBlock \in Int /\ NoBlock \notin DataBlocks
  /\ Unset \in Int /\ Unset \notin DataBlocks
  /\ DataBlocks \subseteq Nat
  /\ DataRegionAddr \in DataBlocks
<1>1. InodesPerBlock \in Nat /\ InodesPerBlock > 0 /\ NumInodes \in Nat /\ NumInodes > 0
      /\ NumData \in Nat /\ NumData > 0
  BY UFSAssumption
<1>2. NumInodes + InodesPerBlock - 1 \in Nat
  BY <1>1
<1>3. InodeRegionLen \in Nat
  BY <1>1, <1>2, Division DEF InodeRegionLen
<1>4. \A i \in Inodes : i \div InodesPerBlock \in Nat /\ i \div InodesPerBlock < InodeRegionLen
  BY <1>1, Division, DivisionBelow DEF Inodes, InodeRegionLen
<1>5. 0 \in Inodes
  BY <1>1 DEF Inodes
<1>6. InodeRegionLen > 0
  BY <1>3, <1>4, <1>5
<1> QED
  BY <1>1, <1>3, <1>4, <1>6
     DEF NoBlock, Unset, DataBlocks, DataRegionAddr, InodeRegionAddr

LEMMA BlocksForInt ==
  ASSUME NEW size \in Int
  PROVE  BlocksFor(size) \in Int
  BY UFSAssumption DEF BlocksFor

(***************************************************************************)
(* Taking a block.  Inodes y point to the data blocks inodes x point to,   *)
(* and at index a0 of inode i0 to b, which was not marked.                 *)
(***************************************************************************)
OneNew(x, y, i0, a0, b) ==
  \A j \in Inodes, c \in Ptrs : y[j].direct[c] \in DataBlocks =>
     \/ y[j].direct[c] = x[j].direct[c]
     \/ j = i0 /\ c = a0 /\ y[j].direct[c] = b

LEMMA TakeBlock ==
  ASSUME NEW x \in [Inodes -> Inode], NEW y \in [Inodes -> Inode],
         NEW bits \in SUBSET DataBlocks, NEW b, b \notin bits,
         NEW i0, NEW a0, OneNew(x, y, i0, a0, b),
         Unshared(x), Marked(x, bits)
  PROVE  /\ Unshared(y) /\ Marked(y, bits \cup {b})
         /\ \A z : Marked(z, bits) /\ Apart(z, x) => Apart(z, y)
<1>1. Unshared(y)
  BY DEF OneNew, Unshared, Marked
<1>2. Marked(y, bits \cup {b})
  BY DEF OneNew, Marked
<1>3. ASSUME NEW z, Marked(z, bits), Apart(z, x)
      PROVE  Apart(z, y)
  <2>1. SUFFICES ASSUME NEW i \in Inodes, NEW j \in Inodes, NEW a \in Ptrs, NEW c \in Ptrs,
                        i # j, z[i].direct[a] \in DataBlocks,
                        z[i].direct[a] = y[j].direct[c]
                 PROVE  FALSE
    BY DEF Apart
  <2>2. z[i].direct[a] # b
    BY <1>3, <2>1 DEF OneNew, Marked
  <2>3. y[j].direct[c] = x[j].direct[c]
    BY <2>1, <2>2 DEF OneNew
  <2> QED
    BY <1>3, <2>1, <2>3 DEF Apart
<1> QED
  BY <1>1, <1>2, <1>3

(***************************************************************************)
(* Dropping pointers.  Every pointer of y to a data block is in its place  *)
(* in x too, and the freed blocks have no pointer left.                    *)
(***************************************************************************)
OnlyDropped(x, y, freed) ==
  \A j \in Inodes, c \in Ptrs : y[j].direct[c] \in DataBlocks =>
     y[j].direct[c] = x[j].direct[c] /\ y[j].direct[c] \notin freed

LEMMA DropBlocks ==
  ASSUME NEW x \in [Inodes -> Inode], NEW y \in [Inodes -> Inode],
         NEW bits \in SUBSET DataBlocks, NEW freed, OnlyDropped(x, y, freed),
         Unshared(x), Marked(x, bits)
  PROVE  /\ Unshared(y) /\ Marked(y, bits \ freed)
         /\ \A z : Apart(z, x) => Apart(z, y)
<1>1. Unshared(y)
  BY DEF OnlyDropped, Unshared
<1>2. Marked(y, bits \ freed)
  BY DEF OnlyDropped, Marked
<1>3. ASSUME NEW z, Apart(z, x)
      PROVE  Apart(z, y)
  BY <1>3 DEF OnlyDropped, Apart
<1> QED
  BY <1>1, <1>2, <1>3

LEMMA ApartFromItself ==
  ASSUME NEW x, Unshared(x)
  PROVE  Apart(x, x)
  BY DEF Unshared, Apart

(***************************************************************************)
(* An image whose pointers are marked and unshared, and metadata that a    *)
(* call may have made of it.                                               *)
(***************************************************************************)
Sound(d) ==
  /\ DOMAIN d = {"inodeBitmap", "dataBitmap", "inodes", "blocks"}
  /\ Meta(d) \in Metadata
  /\ Unshared(d.inodes)
  /\ Marked(d.inodes, d.dataBitmap)

Follows(d, m) ==
  /\ m \in Metadata
  /\ Unshared(m.inodes)
  /\ Marked(m.inodes, m.dataBitmap)
  /\ Apart(d.inodes, m.inodes)

LEMMA MetaFollows ==
  ASSUME NEW d, Sound(d)
  PROVE  Follows(d, Meta(d)) /\ Marked(d.inodes, Meta(d).dataBitmap)
  BY ApartFromItself DEF Sound, Follows, Meta

(***************************************************************************)
(* Assigning to the fields of an inode.                                    *)
(***************************************************************************)
Changed(ino, s, ptrs) == [ino EXCEPT !.size = s, !.direct = ptrs]

LEMMA InodeUpdate ==
  ASSUME NEW ino \in Inode, NEW s \in Int, NEW ptrs \in [Ptrs -> Int]
  PROVE  Changed(ino, s, ptrs) \in Inode /\ Changed(ino, s, ptrs).direct = ptrs
  BY DEF Changed, Inode

(***************************************************************************)
(* Giving a directory one more entry, and one more block.                  *)
(***************************************************************************)
WithEntry(m, p) == [m EXCEPT !.inodes[p].size = @ + 1]

LEMMA GrowSize ==
  ASSUME NEW m \in Metadata, NEW p \in Inodes, NEW r, r = WithEntry(m, p)
  PROVE  /\ r \in Metadata /\ r.dataBitmap = m.dataBitmap
         /\ \A j \in Inodes : r.inodes[j].direct = m.inodes[j].direct
<1> DEFINE ino == [m.inodes[p] EXCEPT !.size = @ + 1]
<1>1. m.inodes \in [Inodes -> Inode]
  BY DEF Metadata
<1>2. ino \in Inode /\ ino.direct = m.inodes[p].direct
  BY <1>1 DEF Inode
<1>3. r.inodes = [m.inodes EXCEPT ![p] = ino] /\ r.dataBitmap = m.dataBitmap
  BY DEF WithEntry, Metadata
<1>4. r.inodes \in [Inodes -> Inode]
  BY <1>1, <1>2, <1>3
<1>5. r \in Metadata
  BY <1>4 DEF WithEntry, Metadata
<1> QED
  BY <1>1, <1>2, <1>3, <1>5

WithBlock(m, p, a, b) ==
  [m EXCEPT !.dataBitmap = @ \cup {b}, !.inodes[p].size = @ + 1,
            !.inodes[p].direct[a] = b]

LEMMA AddPointer ==
  ASSUME NEW m \in Metadata, NEW p \in Inodes, NEW a, NEW b \in DataBlocks, NEW r,
         r = WithBlock(m, p, a, b)
  PROVE  /\ r \in Metadata /\ r.dataBitmap = m.dataBitmap \cup {b}
         /\ OneNew(m.inodes, r.inodes, p, a, b)
<1> DEFINE old  == m.inodes[p]
           ptrs == [old.direct EXCEPT ![a] = b]
           ino  == Changed(old, old.size + 1, ptrs)
<1>1. m.inodes \in [Inodes -> Inode] /\ old \in Inode /\ b \in Int
  BY Layout DEF Metadata
<1>2. ptrs \in [Ptrs -> Int] /\ old.size + 1 \in Int /\ old.direct \in [Ptrs -> Int]
  <2> HIDE DEF old
  <2>1. old.direct \in [Ptrs -> Int] /\ old.size + 1 \in Int
    BY <1>1 DEF Inode
  <2> QED
    BY <1>1, <2>1
<1>3. ino \in Inode /\ ino.direct = ptrs
  <2> HIDE DEF old, ptrs
  <2> QED
    BY <1>1, <1>2, InodeUpdate
<1>4. r.inodes = [m.inodes EXCEPT ![p] = ino]
  <2>1. ino = [m.inodes[p] EXCEPT !.size = m.inodes[p].size + 1,
                                  !.direct = [m.inodes[p].direct EXCEPT ![a] = b]]
    BY DEF Changed
  <2>2. ino = [m.inodes[p] EXCEPT !.size = @ + 1, !.direct[a] = b]
    BY <1>1, <2>1 DEF Inode
  <2> HIDE DEF ino
  <2>3. r.inodes = [m.inodes EXCEPT ![p].size = @ + 1, ![p].direct[a] = b]
    BY DEF WithBlock, Metadata
  <2> QED
    BY <1>1, <2>2, <2>3 DEF Inode
<1>5. r.dataBitmap = m.dataBitmap \cup {b}
  BY DEF WithBlock, Metadata
<1>6. r.inodes \in [Inodes -> Inode] /\ r.dataBitmap \in SUBSET DataBlocks
  <2>1. m.dataBitmap \in SUBSET DataBlocks
    BY DEF Metadata
  <2> HIDE DEF ino
  <2> QED
    BY <1>1, <1>3, <1>4, <1>5, <2>1
<1>7. r \in Metadata
  BY <1>6 DEF WithBlock, Metadata
<1>8. ASSUME NEW j \in Inodes, NEW c \in Ptrs
      PROVE  r.inodes[j].direct[c] = m.inodes[j].direct[c]
             \/ (j = p /\ c = a /\ r.inodes[j].direct[c] = b)
  <2> HIDE DEF ino
  <2> QED
    BY <1>1, <1>2, <1>3, <1>4
<1> QED
  BY <1>5, <1>7, <1>8 DEF OneNew

(***************************************************************************)
(* Linking: the directory keeps its blocks or takes one that is free.      *)
(***************************************************************************)
LEMMA LinkMeta ==
  ASSUME NEW d, NEW p \in Inodes, NEW n, NEW i, NEW first, NEW m \in Metadata,
         Unshared(m.inodes), Marked(m.inodes, m.dataBitmap),
         NEW r, r = Link(d, p, n, i, first, m).mem
  PROVE  \/ r = Meta(d)
         \/ /\ r \in Metadata
            /\ Unshared(r.inodes) /\ Marked(r.inodes, r.dataBitmap)
            /\ m.dataBitmap \subseteq r.dataBitmap
            /\ \A z : Marked(z, m.dataBitmap) /\ Apart(z, m.inodes) => Apart(z, r.inodes)
<1> DEFINE used  == BlocksFor(m.inodes[p].size)
           free  == DataBlocks \ m.dataBitmap
           b     == Least(free)
<1>1. m.inodes \in [Inodes -> Inode] /\ m.dataBitmap \in SUBSET DataBlocks
  BY DEF Metadata
<1>2. CASE r = WithEntry(m, p)
  <2>1. r \in Metadata /\ r.dataBitmap = m.dataBitmap
        /\ \A j \in Inodes : r.inodes[j].direct = m.inodes[j].direct
    BY <1>2, GrowSize
  <2>2. r.inodes \in [Inodes -> Inode] /\ r.dataBitmap = m.dataBitmap \ {}
    BY <2>1 DEF Metadata
  <2>3. OnlyDropped(m.inodes, r.inodes, {})
    BY <2>1 DEF OnlyDropped
  <2>4. /\ Unshared(r.inodes) /\ Marked(r.inodes, r.dataBitmap)
        /\ \A z : Apart(z, m.inodes) => Apart(z, r.inodes)
    BY <1>1, <2>2, <2>3, DropBlocks
  <2> QED
    BY <2>1, <2>4
<1>3. CASE r = WithBlock(m, p, used, b) /\ free # {}
  <2>1. b \in DataBlocks /\ b \notin m.dataBitmap
    <3>1. free \in SUBSET Nat /\ free # {}
      BY <1>3, Layout
    <3>2. b \in free
      <4> HIDE DEF free
      <4> QED
        BY <3>1, LeastIsMinimum
    <3> QED
      BY <3>2
  <2> HIDE DEF b, used, free
  <2>2. /\ r \in Metadata /\ r.dataBitmap = m.dataBitmap \cup {b}
        /\ OneNew(m.inodes, r.inodes, p, used, b)
    BY <1>3, <2>1, AddPointer
  <2>3. r.inodes \in [Inodes -> Inode]
    BY <2>2 DEF Metadata
  <2>4. /\ Unshared(r.inodes) /\ Marked(r.inodes, m.dataBitmap \cup {b})
        /\ \A z : Marked(z, m.dataBitmap) /\ Apart(z, m.inodes) => Apart(z, r.inodes)
    BY <1>1, <2>1, <2>2, <2>3, TakeBlock
  <2> QED
    BY <2>2, <2>4
<1>4. r = WithEntry(m, p) \/ r = Meta(d) \/ (r = WithBlock(m, p, used, b) /\ free # {})
  BY DEF Link, Plan, WithEntry, WithBlock
<1> QED
  BY <1>2, <1>3, <1>4

\* create makes an inode only if there is one, and a block for it, to take.
LEMMA ChecksPassed ==
  ASSUME NEW d, d.inodeBitmap \in SUBSET Inodes, NEW p, NEW type, NEW n,
         CreateChecks(d, p, type, n) = Passes
  PROVE  /\ d.inodeBitmap # Inodes /\ p \in d.inodeBitmap
         /\ type = Directory => d.dataBitmap # DataBlocks
<1> DEFINE ino == d.inodes[p]
           at  == CellAt(d, ino, Existing(d, ino, n)).inum
<1>1. Passes \in Nat \ {0} /\ Passes \notin Inodes
  BY UFSAssumption DEF Passes, Inodes
<1>2. ExistingResult(d, at, type) # Passes
  <2> HIDE DEF at
  <2>1. at \in d.inodeBitmap => at # Passes
    BY <1>1
  <2> QED
    BY <2>1, <1>1 DEF ExistingResult, EINVALIDINODE, EINVALIDTYPE
<1>3. /\ -EINVALIDNAME # Passes /\ -EINVALIDINODE # Passes
      /\ Aborts # Passes /\ -ENOTENOUGHSPACE # Passes
  BY <1>1 DEF EINVALIDNAME, EINVALIDINODE, Aborts, ENOTENOUGHSPACE
<1> QED
  BY <1>2, <1>3 DEF CreateChecks, IsDirectory

(***************************************************************************)
(* create() only takes blocks that are not marked.                         *)
(***************************************************************************)
LEMMA CreateMeta ==
  ASSUME NEW d, Sound(d), NEW p, NEW type \in {Directory, RegularFile}, NEW n,
         NEW r, r = CreatePlan(d, p, type, n).mem
  PROVE  Follows(d, r) /\ Marked(d.inodes, r.dataBitmap)
<1> DEFINE i    == Least(Inodes \ d.inodeBitmap)
           home == Least(DataBlocks \ d.dataBitmap)
           new  == NewInode(type, home)
           m    == WithInode(d, type)
           d1   == [d EXCEPT !.blocks[home] = DirBlock(i, p)]
           w    == <<Update(home, DirBlock(i, p))>>
<1>1. /\ d.inodes \in [Inodes -> Inode] /\ d.inodeBitmap \in SUBSET Inodes
      /\ d.dataBitmap \in SUBSET DataBlocks
      /\ Unshared(d.inodes) /\ Marked(d.inodes, d.dataBitmap)
  BY DEF Sound, Meta, Metadata
<1>2. Meta(d1) = Meta(d)
  BY DEF Sound, Meta
<1>3. CASE r = Meta(d)
  BY <1>3, MetaFollows
<1>4. ASSUME /\ d.inodeBitmap # Inodes /\ p \in d.inodeBitmap
             /\ type = Directory => d.dataBitmap # DataBlocks
             /\ r # Meta(d)
             /\ \/ type = Directory /\ r = Link(d1, p, n, i, w, m).mem
                \/ type # Directory /\ r = Link(d, p, n, i, <<>>, m).mem
      PROVE  Follows(d, r) /\ Marked(d.inodes, r.dataBitmap)
  <2>1. i \in Inodes
    <3>1. Inodes \ d.inodeBitmap # {}
      BY <1>1, <1>4
    <3>2. Inodes \ d.inodeBitmap \in SUBSET Nat
      BY DEF Inodes
    <3> QED
      BY <3>1, <3>2, LeastIsMinimum
  <2>2. type = Directory => home \in DataBlocks /\ home \notin d.dataBitmap
    <3>1. SUFFICES ASSUME type = Directory PROVE home \in DataBlocks \ d.dataBitmap
      OBVIOUS
    <3>2. DataBlocks \ d.dataBitmap \in SUBSET Nat /\ DataBlocks \ d.dataBitmap # {}
      BY <3>1, <1>1, <1>4, Layout
    <3> QED
      BY <3>2, LeastIsMinimum
  <2>meta. /\ m.inodeBitmap = d.inodeBitmap \cup {i}
        /\ m.dataBitmap = d.dataBitmap \cup (IF type = Directory THEN {home} ELSE {})
        /\ m.inodes = [d.inodes EXCEPT ![i] = new]
        /\ DOMAIN m = {"inodeBitmap", "dataBitmap", "inodes"}
        /\ m = [inodeBitmap |-> m.inodeBitmap, dataBitmap |-> m.dataBitmap, inodes |-> m.inodes]
    BY DEF WithInode
  <2> HIDE DEF i, home, m
  <2>3. /\ new \in Inode
        /\ \A c \in Ptrs : new.direct[c] = NoBlock \/ (type = Directory /\ c = 0 /\ new.direct[c] = home)
    <3>1. CASE type = Directory
      <4>1. home \in Int
        <5>1. home \in DataBlocks
          BY <3>1, <2>2
        <5> QED
          BY <5>1, Layout
      <4> QED
        BY <3>1, <4>1, Layout DEF NewInode, Inode
    <3>2. CASE type # Directory
      BY <3>2, Layout DEF NewInode, Inode
    <3> QED
      BY <3>1, <3>2
  <2> HIDE DEF new
  <2>4. m.inodes \in [Inodes -> Inode] /\ m \in Metadata
    BY <1>1, <2>1, <2>2, <2>3, <2>meta DEF Metadata
  <2>5. \A j \in Inodes : m.inodes[j] = IF j = i THEN new ELSE d.inodes[j]
    BY <1>1, <2>1, <2>meta
  <2>6. /\ Unshared(m.inodes) /\ Marked(m.inodes, m.dataBitmap)
        /\ d.dataBitmap \subseteq m.dataBitmap
        /\ Apart(d.inodes, m.inodes)
    <3>1. Apart(d.inodes, d.inodes)
      BY <1>1, ApartFromItself
    <3>2. CASE type = Directory
      <4>1. m.dataBitmap = d.dataBitmap \cup {home}
        BY <3>2, <2>meta
      <4>2. OneNew(d.inodes, m.inodes, i, 0, home)
        BY <2>3, <2>5, Layout DEF OneNew
      <4>3. home \notin d.dataBitmap
        BY <2>2, <3>2
      <4>4. /\ Unshared(m.inodes) /\ Marked(m.inodes, d.dataBitmap \cup {home})
            /\ Apart(d.inodes, m.inodes)
        BY <1>1, <2>4, <3>1, <4>2, <4>3, TakeBlock
      <4> QED
        BY <4>1, <4>4
    <3>3. CASE type # Directory
      <4>1. m.dataBitmap = d.dataBitmap /\ d.dataBitmap \ {} = d.dataBitmap
        BY <3>3, <2>meta
      <4>2. OnlyDropped(d.inodes, m.inodes, {})
        BY <3>3, <2>3, <2>5, Layout DEF OnlyDropped
      <4> QED
        BY <1>1, <2>4, <3>1, <4>1, <4>2, DropBlocks
    <3> QED
      BY <3>2, <3>3
  <2>7. Marked(d.inodes, m.dataBitmap)
    BY <1>1, <2>6 DEF Marked
  <2> HIDE DEF d1, w
  <2>8. /\ r \in Metadata
        /\ Unshared(r.inodes) /\ Marked(r.inodes, r.dataBitmap)
        /\ m.dataBitmap \subseteq r.dataBitmap
        /\ \A z : Marked(z, m.dataBitmap) /\ Apart(z, m.inodes) => Apart(z, r.inodes)
    <3>1. p \in Inodes
      BY <1>1, <1>4
    <3>2. CASE r = Link(d1, p, n, i, w, m).mem
      <4>1. r # Meta(d1)
        BY <1>2, <1>4
      <4> QED
        BY <3>1, <3>2, <4>1, <2>4, <2>6, LinkMeta
    <3>3. CASE r = Link(d, p, n, i, <<>>, m).mem
      BY <3>1, <3>3, <1>4, <2>4, <2>6, LinkMeta
    <3> QED
      BY <1>4, <3>2, <3>3
  <2> QED
    BY <1>1, <2>6, <2>7, <2>8 DEF Follows, Marked
<1>5. \/ r = Meta(d)
      \/ /\ d.inodeBitmap # Inodes /\ p \in d.inodeBitmap
         /\ type = Directory => d.dataBitmap # DataBlocks
         /\ \/ type = Directory /\ r = Link(d1, p, n, i, w, m).mem
            \/ type # Directory /\ r = Link(d, p, n, i, <<>>, m).mem
  <2>1. CreateChecks(d, p, type, n) = Passes =>
          /\ d.inodeBitmap # Inodes /\ p \in d.inodeBitmap
          /\ type = Directory => d.dataBitmap # DataBlocks
    BY <1>1, ChecksPassed
  <2> QED
    BY <2>1 DEF CreatePlan, Refuse, Plan
<1> QED
  BY <1>3, <1>4, <1>5

(***************************************************************************)
(* unlink() drops pointers and frees exactly the blocks they named.        *)
(***************************************************************************)
LEMMA ReleasedInode ==
  ASSUME NEW ino \in Inode
  PROVE  /\ Released(ino) \in Inode
         /\ \A c \in Ptrs : Released(ino).direct[c] =
              IF c < BlocksFor(ino.size) THEN NoBlock ELSE ino.direct[c]
<1> DEFINE ptrs == [i \in Ptrs |-> IF i < BlocksFor(ino.size) THEN NoBlock ELSE ino.direct[i]]
<1>1. ino.direct \in [Ptrs -> Int]
  BY DEF Inode
<1>2. ptrs \in [Ptrs -> Int]
  BY <1>1, Layout
<1>3. \A c \in Ptrs : ptrs[c] = IF c < BlocksFor(ino.size) THEN NoBlock ELSE ino.direct[c]
  OBVIOUS
<1>4. Released(ino) = Changed(ino, 0, ptrs)
  BY DEF Released, Changed
<1> HIDE DEF ptrs
<1>5. Released(ino) \in Inode /\ Released(ino).direct = ptrs
  <2>1. 0 \in Int
    OBVIOUS
  <2> QED
    BY <2>1, <1>2, <1>4, InodeUpdate
<1> QED
  BY <1>3, <1>5

WithoutBlock(x, p, i) ==
  [x EXCEPT ![p].direct[i] = NoBlock, ![p].size = @ - EntriesPerBlock]

LEMMA ShrinkDirectory ==
  ASSUME NEW x \in [Inodes -> Inode], NEW p \in Inodes, NEW i \in Ptrs, NEW y,
         y = WithoutBlock(x, p, i)
  PROVE  /\ y \in [Inodes -> Inode]
         /\ \A j \in Inodes, c \in Ptrs :
              y[j].direct[c] = IF j = p /\ c = i THEN NoBlock ELSE x[j].direct[c]
<1> DEFINE old  == x[p]
           ptrs == [old.direct EXCEPT ![i] = NoBlock]
           ino  == Changed(old, old.size - EntriesPerBlock, ptrs)
<1>1. old \in Inode
  OBVIOUS
<1>2. old.direct \in [Ptrs -> Int] /\ old.size - EntriesPerBlock \in Int
  <2> HIDE DEF old
  <2> QED
    BY <1>1, UFSAssumption DEF Inode
<1>3. /\ ptrs \in [Ptrs -> Int]
      /\ \A c \in Ptrs : ptrs[c] = IF c = i THEN NoBlock ELSE old.direct[c]
  <2> HIDE DEF old
  <2> QED
    BY <1>2, Layout
<1>4. ino \in Inode /\ ino.direct = ptrs
  <2>1. ptrs \in [Ptrs -> Int]
    BY <1>3
  <2> HIDE DEF old, ptrs
  <2> QED
    BY <1>1, <1>2, <2>1, InodeUpdate
<1>5. y = [x EXCEPT ![p] = ino]
  BY <1>1 DEF WithoutBlock, Changed, Inode
<1> HIDE DEF ino, ptrs
<1>6. y \in [Inodes -> Inode]
  BY <1>4, <1>5
<1>7. \A j \in Inodes : y[j] = IF j = p THEN ino ELSE x[j]
  BY <1>5
<1> QED
  BY <1>3, <1>4, <1>6, <1>7

LEMMA RemovedMeta ==
  ASSUME NEW d, Sound(d), NEW p \in Inodes, NEW v \in Inodes, NEW at,
         at \div EntriesPerBlock \in Ptrs, NEW emptied,
         NEW r, r = Removed(d, p, v, at, emptied)
  PROVE  Follows(d, r)
<1> DEFINE i     == at \div EntriesPerBlock
           x     == d.inodes
           after == [x EXCEPT ![v] = Released(x[v])]
           block == IF emptied THEN {after[p].direct[i]} ELSE {}
           freed == Freed(x[v]) \cup block
<1>1. /\ x \in [Inodes -> Inode] /\ d.inodeBitmap \in SUBSET Inodes
      /\ d.dataBitmap \in SUBSET DataBlocks
      /\ Unshared(x) /\ Marked(x, d.dataBitmap)
  BY DEF Sound, Meta, Metadata
<1>2. /\ r.inodeBitmap = d.inodeBitmap \ {v} /\ r.dataBitmap = d.dataBitmap \ freed
      /\ r.inodes = IF emptied THEN WithoutBlock(after, p, i) ELSE after
      /\ r = [inodeBitmap |-> r.inodeBitmap, dataBitmap |-> r.dataBitmap, inodes |-> r.inodes]
  BY DEF Removed, WithoutBlock
<1> HIDE DEF x
<1>3. /\ after \in [Inodes -> Inode]
      /\ \A j \in Inodes, c \in Ptrs : after[j].direct[c] =
           IF j = v /\ c < BlocksFor(x[v].size) THEN NoBlock ELSE x[j].direct[c]
  <2>1. /\ Released(x[v]) \in Inode
        /\ \A c \in Ptrs : Released(x[v]).direct[c] =
             IF c < BlocksFor(x[v].size) THEN NoBlock ELSE x[v].direct[c]
    BY <1>1, ReleasedInode
  <2> QED
    BY <1>1, <2>1
<1> HIDE DEF after, i
<1>4. /\ r.inodes \in [Inodes -> Inode]
      /\ \A j \in Inodes, c \in Ptrs : r.inodes[j].direct[c] =
           IF emptied /\ j = p /\ c = i THEN NoBlock ELSE after[j].direct[c]
  <2>1. i \in Ptrs
    BY DEF i
  <2>2. CASE emptied
    BY <1>2, <1>3, <2>1, <2>2, ShrinkDirectory
  <2>3. CASE ~emptied
    BY <1>2, <1>3, <2>3
  <2> QED
    BY <2>2, <2>3
<1>5. r \in Metadata
  <2> HIDE DEF freed
  <2> QED
    BY <1>1, <1>2, <1>4 DEF Metadata
<1>6. OnlyDropped(x, r.inodes, freed)
  <2>1. SUFFICES ASSUME NEW j \in Inodes, NEW c \in Ptrs, r.inodes[j].direct[c] \in DataBlocks
                 PROVE  r.inodes[j].direct[c] = x[j].direct[c] /\ r.inodes[j].direct[c] \notin freed
    BY DEF OnlyDropped
  <2>2. /\ r.inodes[j].direct[c] = x[j].direct[c] /\ x[j].direct[c] \in DataBlocks
        /\ ~(emptied /\ j = p /\ c = i)
        /\ ~(j = v /\ c < BlocksFor(x[v].size))
    BY <1>3, <1>4, <2>1, Layout
  <2>3. x[j].direct[c] \notin Freed(x[v])
    <3>1. SUFFICES ASSUME NEW a \in Ptrs, a < BlocksFor(x[v].size), x[j].direct[c] = x[v].direct[a]
                   PROVE  FALSE
      BY DEF Freed, Held
    <3>2. j = v /\ c = a
      BY <1>1, <2>2, <3>1 DEF Unshared
    <3> QED
      BY <2>2, <3>1, <3>2
  <2>4. x[j].direct[c] \notin block
    <3>1. SUFFICES ASSUME emptied, x[j].direct[c] = after[p].direct[i]
                   PROVE  FALSE
      OBVIOUS
    <3>2. i \in Ptrs
      BY DEF i
    <3>3. x[j].direct[c] = x[p].direct[i]
      BY <1>3, <2>2, <3>1, <3>2, Layout
    <3>4. j = p /\ c = i
      BY <1>1, <2>2, <3>2, <3>3 DEF Unshared
    <3> QED
      BY <2>2, <3>1, <3>4
  <2> QED
    BY <2>2, <2>3, <2>4
<1>7. /\ Unshared(r.inodes) /\ Marked(r.inodes, d.dataBitmap \ freed)
      /\ Apart(x, r.inodes)
  <2>1. Apart(x, x)
    BY <1>1, ApartFromItself
  <2> HIDE DEF freed
  <2> QED
    BY <1>1, <1>4, <1>6, <2>1, DropBlocks
<1> QED
  BY <1>2, <1>5, <1>7 DEF Follows, x

(***************************************************************************)
(* The entry unlink removes is in one of the blocks of its directory.      *)
(***************************************************************************)
LEMMA EntryInBlocks ==
  ASSUME NEW ino \in Inode, ino.size >= 0, ~Unreadable(ino),
         NEW at \in 0 .. ino.size - 1
  PROVE  at \div EntriesPerBlock \in Ptrs
<1>1. ino.size \in Nat /\ at \in Nat /\ at < ino.size
  BY DEF Inode
<1>2. EntriesPerBlock \in Nat /\ EntriesPerBlock > 0 /\ DirectPtrs \in Nat
  BY UFSAssumption
<1>3. at \div EntriesPerBlock < BlocksFor(ino.size) /\ at \div EntriesPerBlock \in Nat
  BY <1>1, <1>2, Division, DivisionBelow DEF BlocksFor
<1>4. BlocksFor(ino.size) \in Int
  BY <1>1, BlocksForInt
<1>5. BlocksFor(ino.size) <= DirectPtrs
  BY <1>2, <1>4 DEF Unreadable
<1> QED
  BY <1>2, <1>3, <1>4, <1>5 DEF Ptrs

LEMMA UnlinkMeta ==
  ASSUME NEW d, Sound(d), NEW p, NEW n, NEW heap, NEW lucky,
         NEW r, r = UnlinkPlan(d, p, n, heap, lucky).mem
  PROVE  Follows(d, r)
<1> DEFINE ino  == d.inodes[p]
           data == DirData(d, p, heap)
           hits == {e \in 0 .. ino.size - 1 : data[e].name = n}
           at   == First(hits)
           v    == data[at].inum
<1>1. CASE r = Meta(d)
  BY <1>1, MetaFollows
<1>2. ASSUME p \in Inodes, v \in Inodes, ino.size >= 0, ~Unreadable(ino), at # -1,
             r = UnlinkEntry(d, p, v, at, data, lucky).mem, r # Meta(d)
      PROVE  Follows(d, r)
  <2>1. ino \in Inode
    BY <1>2 DEF Sound, Meta, Metadata
  <2>2. at \in 0 .. ino.size - 1
    <3>1. hits # {} /\ hits \in SUBSET Nat
      <4>1. hits # {}
        BY <1>2 DEF First
      <4>2. ino.size \in Int
        BY <2>1 DEF Inode
      <4> HIDE DEF ino, data
      <4>3. hits \in SUBSET Nat
        BY <4>2
      <4> QED
        BY <4>1, <4>3
    <3>2. Least(hits) \in hits
      <4> HIDE DEF hits
      <4> QED
        BY <3>1, LeastIsMinimum
    <3>3. hits \subseteq 0 .. ino.size - 1
      OBVIOUS
    <3>4. at = Least(hits)
      BY <3>1 DEF First
    <3> QED
      BY <3>2, <3>3, <3>4
  <2> HIDE DEF ino, at, data, v
  <2>3. at \div EntriesPerBlock \in Ptrs
    BY <1>2, <2>1, <2>2, EntryInBlocks
  <2>4. \E emptied : r = Removed(d, p, v, at, emptied)
    BY <1>2 DEF UnlinkEntry, Refuse, Plan
  <2> QED
    BY <1>2, <2>3, <2>4, RemovedMeta
<1>3. \/ r = Meta(d)
      \/ /\ p \in Inodes /\ v \in Inodes /\ ~(ino.size < 0) /\ ~Unreadable(ino) /\ at # -1
         /\ r = UnlinkEntry(d, p, v, at, data, lucky).mem
  <2>1. \A x : Refuse(d, x).mem = Meta(d)
    BY DEF Refuse, Plan
  <2> QED
    BY <2>1 DEF UnlinkPlan, EntryNamed
<1>4. p \in Inodes => ino.size \in Int
  BY DEF Sound, Meta, Metadata, Inode
<1> QED
  BY <1>1, <1>2, <1>3, <1>4

----------------------------------------------------------------------------
(***************************************************************************)
(* The invariant Ownership, step by step.                                  *)
(***************************************************************************)
LEMMA DiskIsSound == Ownership /\ ~GivingBack => Sound(disk)
  BY DEF Ownership, Structure, Owners, Sound

\* The image of a fresh mkfs.
LEMMA InitOwns == Init => Ownership
<1> SUFFICES ASSUME Init PROVE Ownership
  OBVIOUS
<1>1. PICK ino \in [Inodes -> StackInodes \cup {ZeroInode, RootInode}],
          rest \in [Slots -> StackNames] :
        /\ Formatted(ino)
        /\ disk = [inodeBitmap |-> {Root}, dataBitmap |-> {DataRegionAddr}, inodes |-> ino,
                   blocks |-> [b \in DataBlocks |->
                                 IF b = DataRegionAddr THEN RootBlock(rest) ELSE ZeroBlock]]
  BY DEF Init
<1>2. /\ disk.inodeBitmap = {Root} /\ disk.dataBitmap = {DataRegionAddr} /\ disk.inodes = ino
      /\ DOMAIN disk = {"inodeBitmap", "dataBitmap", "inodes", "blocks"}
  BY <1>1
<1>3. Root \in Inodes
  BY UFSAssumption DEF Root, Inodes
<1>4. ZeroInode \in Inode /\ RootInode \in Inode
  <2>1. DataRegionAddr \in Int
    BY Layout
  <2> QED
    BY <2>1, Layout DEF ZeroInode, RootInode, Inode
<1>5. ino \in [Inodes -> Inode]
  BY <1>4, LFSAssumption
<1>6. ASSUME NEW i \in Inodes, NEW a \in Ptrs, ino[i].direct[a] \in DataBlocks
      PROVE  i = Root /\ a = 0 /\ ino[i].direct[a] = DataRegionAddr
  <2>1. CASE i = Root
    <3>1. ino[i].direct[a] = IF a = 0 THEN DataRegionAddr ELSE Unset
      BY <2>1, <1>1 DEF Formatted, RootInode
    <3> QED
      BY <2>1, <3>1, <1>6, Layout
  <2>2. CASE i # Root
    <3>1. ino[i] \in StackInodes \/ ino[i] = ZeroInode
      BY <2>2, <1>1 DEF Formatted
    <3>2. ino[i] = ZeroInode => ino[i].direct[a] = NoBlock
      BY DEF ZeroInode
    <3> QED
      BY <3>1, <3>2, <1>6, Layout, LFSAssumption
  <2> QED
    BY <2>1, <2>2
<1>7. Sound(disk)
  <2>1. Unshared(disk.inodes) /\ Marked(disk.inodes, disk.dataBitmap)
    BY <1>2, <1>6 DEF Unshared, Marked
  <2>2. Meta(disk) \in Metadata
    BY <1>2, <1>3, <1>5, Layout DEF Meta, Metadata
  <2> QED
    BY <1>2, <2>1, <2>2 DEF Sound
<1>8. pc = "idle" /\ k = 0 /\ mem = Meta(disk)
  BY DEF Init
<1>9. Follows(disk, mem)
  BY <1>7, <1>8, MetaFollows
<1>10. ~GivingBack /\ ~Taking
  BY <1>8 DEF GivingBack, Taking
<1> QED
  BY <1>7, <1>8, <1>9, <1>10 DEF Sound, Follows, Ownership, Structure, Control, Owners

\* A call that ends, and a process that dies where it may.
LEMMA ReturnOwns == Sound(disk') /\ Return(disk') => Ownership'
<1> SUFFICES ASSUME Sound(disk'), Return(disk') PROVE Ownership'
  OBVIOUS
<1>1. pc' = "idle" /\ k' = 0 /\ mem' = Meta(disk')
  BY DEF Return
<1>2. Follows(disk', mem')
  BY <1>1, MetaFollows
<1>3. ~GivingBack' /\ ~Taking'
  BY <1>1 DEF GivingBack, Taking
<1> QED
  BY <1>1, <1>2, <1>3 DEF Sound, Follows, Ownership, Structure, Control, Owners, Meta

LEMMA CrashOwns == Ownership /\ Crash /\ ~GivingBack => Ownership'
<1> SUFFICES ASSUME Ownership, Crash, ~GivingBack PROVE Ownership'
  OBVIOUS
<1>1. disk' = disk /\ Return(disk')
  BY DEF Crash, Return
<1> QED
  BY <1>1, DiskIsSound, ReturnOwns

\* create and unlink decide: nothing on the disk has changed yet.
LEMMA StartOwns ==
  ASSUME Ownership, pc = "idle", NEW j, NEW plan, Start(j, plan),
         j.op \in {"create", "unlink"}, Follows(disk, plan.mem),
         j.op = "create" => Marked(disk.inodes, plan.mem.dataBitmap)
  PROVE  Ownership'
<1>1. CASE UNCHANGED vars
  BY <1>1 DEF vars, Ownership, Structure, Control, Owners, GivingBack, Taking
<1>2. CASE /\ job' = j /\ mem' = plan.mem /\ pc' \in {"inodeBitmap", "blocks"}
           /\ disk' = disk /\ k' = k
  <2>1. Structure'
    BY <1>2 DEF Ownership, Structure, Follows
  <2>2. Control'
    BY <1>2 DEF Ownership, Control
  <2>3. Marked(disk.inodes, disk.dataBitmap)
    BY DEF Ownership, Owners, GivingBack
  <2>4. Owners'
    BY <1>2, <2>3 DEF Ownership, Owners, Follows, Taking
  <2> QED
    BY <2>1, <2>2, <2>4 DEF Ownership
<1> QED
  BY <1>1, <1>2 DEF Start, Proceed

LEMMA CreateOwns ==
  ASSUME Ownership, NEW p, NEW type \in {Directory, RegularFile}, NEW n, Create(p, type, n)
  PROVE  Ownership'
<1> DEFINE plan == CreatePlan(disk, p, type, n)
           j    == [op |-> "create", inum |-> p, type |-> type, name |-> n, ret |-> plan.ret]
<1>1. pc = "idle" /\ Start(j, plan)
  BY DEF Create
<1>2. Sound(disk)
  BY <1>1, DiskIsSound DEF GivingBack
<1>3. Follows(disk, plan.mem) /\ Marked(disk.inodes, plan.mem.dataBitmap)
  BY <1>2, CreateMeta
<1>4. j.op = "create"
  OBVIOUS
<1> HIDE DEF plan, j
<1> QED
  BY <1>1, <1>3, <1>4, StartOwns

LEMMA UnlinkOwns ==
  ASSUME Ownership, NEW p, NEW n, Unlink(p, n)
  PROVE  Ownership'
<1>1. PICK heap, lucky : UnlinkWith(p, n, UnlinkPlan(disk, p, n, heap, lucky))
  BY DEF Unlink, UnlinkPlans
<1> DEFINE plan == UnlinkPlan(disk, p, n, heap, lucky)
           j    == [op |-> "unlink", inum |-> p, name |-> n, ret |-> plan.ret]
<1>2. pc = "idle" /\ Start(j, plan)
  BY <1>1 DEF UnlinkWith
<1>3. Sound(disk)
  BY <1>2, DiskIsSound DEF GivingBack
<1>4. Follows(disk, plan.mem)
  BY <1>3, UnlinkMeta
<1>5. j.op = "unlink"
  OBVIOUS
<1> HIDE DEF plan, j
<1> QED
  BY <1>2, <1>4, <1>5, StartOwns

\* A step that writes only a data block.
LEMMA BlockOwns ==
  ASSUME Ownership, Meta(disk') = Meta(disk), DOMAIN disk' = DOMAIN disk,
         UNCHANGED mem, UNCHANGED job,
         \/ pc = "write" /\ pc' = "write"
         \/ pc = "blocks" /\ pc' \in {"blocks", "inodeBitmap"} /\ k' = k
  PROVE  Ownership'
<1>1. disk'.inodes = disk.inodes /\ disk'.dataBitmap = disk.dataBitmap
  BY DEF Meta
<1>2. Structure'
  BY DEF Ownership, Structure
<1>3. Control'
  BY <1>1 DEF Ownership, Control
<1>4. Owners'
  BY <1>1 DEF Ownership, Owners, GivingBack, Taking
<1> QED
  BY <1>2, <1>3, <1>4 DEF Ownership

LEMMA WriteOwns ==
  ASSUME Ownership, NEW i, NEW text, NEW size \in Int, Write(i, text, size)
  PROVE  Ownership'
<1>1. CASE UNCHANGED vars
  BY <1>1 DEF vars, Ownership, Structure, Control, Owners, GivingBack, Taking
<1>2. CASE /\ ~StatFails(i) /\ pc = "idle" /\ pc' = "write"
           /\ job'.op = "write" /\ job'.inum = i /\ job'.ret = size
           /\ UNCHANGED <<disk, mem>>
  <2>1. Structure' /\ Control'
    BY <1>2 DEF Ownership, Structure, Control, StatFails, Meta
  <2>2. Sound(disk) /\ mem = Meta(disk)
    BY <1>2, DiskIsSound DEF GivingBack, Ownership, Control
  <2>3. Owners'
    BY <1>2, <2>2 DEF Ownership, Owners, Sound, Meta, GivingBack, Taking
  <2> QED
    BY <2>1, <2>3 DEF Ownership
<1>3. WriteError(disk, i, size) = 0 => ~StatFails(i)
  BY DEF WriteError, EINVALIDSIZE, EINVALIDINODE
<1> QED
  BY <1>1, <1>2, <1>3 DEF Write

LEMMA WriteReuseOwns == Ownership /\ WriteReuse => Ownership'
<1> SUFFICES ASSUME Ownership, WriteReuse PROVE Ownership'
  OBVIOUS
<1>1. pc = "write" /\ pc' = "write" /\ UNCHANGED <<job, mem>>
  BY DEF WriteReuse, InLoop
<1>2. DOMAIN disk' = DOMAIN disk /\ Meta(disk') = Meta(disk)
  BY DEF WriteReuse, PutChunk, Meta, Ownership, Structure
<1> QED
  BY <1>1, <1>2, BlockOwns

\* The metadata in memory when the loop of write takes block b for index a.
WithChunk(m, i, a, b) ==
  [m EXCEPT !.dataBitmap = @ \cup {b}, !.inodes[i].direct[a] = b]

LEMMA ChunkPointer ==
  ASSUME NEW m \in Metadata, NEW i \in Inodes, NEW a, NEW b \in DataBlocks, NEW r,
         r = WithChunk(m, i, a, b)
  PROVE  /\ r \in Metadata /\ r.dataBitmap = m.dataBitmap \cup {b}
         /\ OneNew(m.inodes, r.inodes, i, a, b)
<1> DEFINE old  == m.inodes[i]
           ptrs == [old.direct EXCEPT ![a] = b]
           ino  == [old EXCEPT !.direct = ptrs]
<1>1. m.inodes \in [Inodes -> Inode] /\ old \in Inode /\ b \in Int
  BY Layout DEF Metadata
<1>2. ptrs \in [Ptrs -> Int] /\ old.direct \in [Ptrs -> Int]
  <2> HIDE DEF old
  <2>1. old.direct \in [Ptrs -> Int]
    BY <1>1 DEF Inode
  <2> QED
    BY <1>1, <2>1
<1>3. ino \in Inode /\ ino.direct = ptrs
  <2> HIDE DEF old, ptrs
  <2> QED
    BY <1>1, <1>2 DEF Inode
<1>4. r.inodes = [m.inodes EXCEPT ![i] = ino]
  BY DEF WithChunk, Metadata, Inode
<1>5. r.dataBitmap = m.dataBitmap \cup {b}
  BY DEF WithChunk, Metadata
<1>6. r.inodes \in [Inodes -> Inode] /\ r.dataBitmap \in SUBSET DataBlocks
  <2>1. m.dataBitmap \in SUBSET DataBlocks
    BY DEF Metadata
  <2> HIDE DEF ino
  <2> QED
    BY <1>1, <1>3, <1>4, <1>5, <2>1
<1>7. r \in Metadata
  BY <1>6 DEF WithChunk, Metadata
<1>8. ASSUME NEW j \in Inodes, NEW c \in Ptrs
      PROVE  r.inodes[j].direct[c] = m.inodes[j].direct[c]
             \/ (j = i /\ c = a /\ r.inodes[j].direct[c] = b)
  <2> HIDE DEF ino
  <2> QED
    BY <1>1, <1>2, <1>3, <1>4
<1> QED
  BY <1>5, <1>7, <1>8 DEF OneNew

LEMMA WriteAllocateOwns == Ownership /\ WriteAllocate => Ownership'
<1> SUFFICES ASSUME Ownership, WriteAllocate PROVE Ownership'
  OBVIOUS
<1> DEFINE b == Least(DataBlocks \ mem.dataBitmap)
<1>1. /\ pc = "write" /\ pc' = "write" /\ job' = job /\ mem.dataBitmap # DataBlocks
      /\ PutChunk(b)
      /\ mem' = WithChunk(mem, job.inum, k, b)
  BY DEF WriteAllocate, InLoop, WithChunk
<1>2. mem \in Metadata /\ mem.inodes \in [Inodes -> Inode] /\ mem.dataBitmap \in SUBSET DataBlocks
  BY DEF Ownership, Structure, Metadata
<1>3. b \in DataBlocks /\ b \notin mem.dataBitmap
  <2>1. DataBlocks \ mem.dataBitmap # {}
    BY <1>1, <1>2
  <2>2. DataBlocks \ mem.dataBitmap \in SUBSET Nat
    BY Layout
  <2>3. b \in DataBlocks \ mem.dataBitmap
    BY <2>1, <2>2, LeastIsMinimum
  <2> QED
    BY <2>3
<1> HIDE DEF b
<1>4. job.inum \in Inodes
  BY <1>1 DEF Ownership, Control
<1>5. /\ mem' \in Metadata /\ mem'.dataBitmap = mem.dataBitmap \cup {b}
      /\ OneNew(mem.inodes, mem'.inodes, job.inum, k, b)
  BY <1>1, <1>2, <1>3, <1>4, ChunkPointer
<1>6. DOMAIN disk' = DOMAIN disk /\ Meta(disk') = Meta(disk)
  BY <1>1 DEF PutChunk, Meta, Ownership, Structure
<1>7. disk'.inodes = disk.inodes /\ disk'.dataBitmap = disk.dataBitmap
  BY <1>6 DEF Meta
<1>8. /\ Marked(disk.inodes, mem.dataBitmap) /\ Marked(disk.inodes, disk.dataBitmap)
      /\ Unshared(disk.inodes) /\ Apart(disk.inodes, mem.inodes)
      /\ Unshared(mem.inodes) /\ Marked(mem.inodes, mem.dataBitmap)
  BY <1>1 DEF Ownership, Owners, Taking, GivingBack
<1>9. /\ Unshared(mem'.inodes) /\ Marked(mem'.inodes, mem'.dataBitmap)
      /\ Apart(disk.inodes, mem'.inodes)
  <2>1. mem'.inodes \in [Inodes -> Inode]
    BY <1>5 DEF Metadata
  <2>2. /\ Unshared(mem'.inodes) /\ Marked(mem'.inodes, mem.dataBitmap \cup {b})
        /\ Apart(disk.inodes, mem'.inodes)
    BY <1>2, <1>3, <1>5, <1>8, <2>1, TakeBlock
  <2> QED
    BY <1>5, <2>2
<1>10. Marked(disk.inodes, mem'.dataBitmap)
  BY <1>5, <1>8 DEF Marked
<1>11. Structure' /\ Control'
  <2>1. \A i \in Inodes \ {job.inum} : mem'.inodes[i] = disk'.inodes[i]
    <3>1. \A i \in Inodes \ {job.inum} : mem.inodes[i] = disk.inodes[i]
      BY <1>1 DEF Ownership, Control
    <3>2. \A i \in Inodes \ {job.inum} : mem'.inodes[i] = mem.inodes[i]
      BY <1>1, <1>2 DEF WithChunk, Metadata
    <3> QED
      BY <3>1, <3>2, <1>7
  <2> QED
    BY <2>1, <1>1, <1>5, <1>6 DEF Ownership, Structure, Control
<1>12. Owners'
  BY <1>1, <1>7, <1>8, <1>9, <1>10 DEF Owners
<1> QED
  BY <1>11, <1>12 DEF Ownership

LEMMA WriteFailsOwns == Ownership /\ WriteFails => Ownership'
<1> SUFFICES ASSUME Ownership, WriteFails PROVE Ownership'
  OBVIOUS
<1>1. disk' = disk /\ Return(disk') /\ pc = "write"
  BY DEF WriteFails, Return, InLoop
<1> QED
  BY <1>1, DiskIsSound, ReturnOwns DEF GivingBack

\* The metadata in memory when write gives back the blocks of a longer body.
Trimmed(m, i, size, drop) ==
  [m EXCEPT !.dataBitmap = @ \ {m.inodes[i].direct[a] : a \in drop},
            !.inodes[i] = [m.inodes[i] EXCEPT
               !.size = size,
               !.direct = [a \in Ptrs |-> IF a \in drop THEN NoBlock
                                          ELSE m.inodes[i].direct[a]]]]

LEMMA TrimmedInodes ==
  ASSUME NEW m \in Metadata, NEW i \in Inodes, NEW size \in Int, NEW drop \in SUBSET Ptrs,
         NEW r, r = Trimmed(m, i, size, drop)
  PROVE  /\ r \in Metadata
         /\ r.inodeBitmap = m.inodeBitmap
         /\ r.dataBitmap = m.dataBitmap \ {m.inodes[i].direct[a] : a \in drop}
         /\ \A j \in Inodes, c \in Ptrs : r.inodes[j].direct[c] =
              IF j = i /\ c \in drop THEN NoBlock ELSE m.inodes[j].direct[c]
<1> DEFINE old   == m.inodes[i]
           freed == {old.direct[a] : a \in drop}
           ptrs  == [a \in Ptrs |-> IF a \in drop THEN NoBlock ELSE old.direct[a]]
           ino   == Changed(old, size, ptrs)
<1>1. /\ m.inodes \in [Inodes -> Inode] /\ m.dataBitmap \in SUBSET DataBlocks
      /\ old \in Inode
  BY DEF Metadata
<1>2. ptrs \in [Ptrs -> Int]
  <2> HIDE DEF old
  <2>1. old.direct \in [Ptrs -> Int]
    BY <1>1 DEF Inode
  <2> QED
    BY <2>1, Layout
<1>3. ino \in Inode /\ ino.direct = ptrs
  <2> HIDE DEF old, ptrs
  <2> QED
    BY <1>1, <1>2, InodeUpdate
<1>4. /\ r.inodes = [m.inodes EXCEPT ![i] = ino] /\ r.dataBitmap = m.dataBitmap \ freed
      /\ r.inodeBitmap = m.inodeBitmap
  BY DEF Trimmed, Changed, Metadata
<1>5. r.inodes \in [Inodes -> Inode] /\ r.dataBitmap \in SUBSET DataBlocks
  <2> HIDE DEF ino, freed
  <2> QED
    BY <1>1, <1>3, <1>4
<1>6. r \in Metadata
  BY <1>5 DEF Trimmed, Metadata
<1>7. \A j \in Inodes : r.inodes[j] = IF j = i THEN ino ELSE m.inodes[j]
  <2> HIDE DEF ino
  <2> QED
    BY <1>1, <1>3, <1>4
<1>8. \A c \in Ptrs : ino.direct[c] = IF c \in drop THEN NoBlock ELSE m.inodes[i].direct[c]
  <2> HIDE DEF ino
  <2> QED
    BY <1>3
<1> HIDE DEF ino
<1> QED
  BY <1>4, <1>6, <1>7, <1>8

LEMMA TrimmedMeta ==
  ASSUME NEW m \in Metadata, NEW i \in Inodes, NEW size \in Int, NEW drop \in SUBSET Ptrs,
         Unshared(m.inodes), Marked(m.inodes, m.dataBitmap),
         NEW r, r = Trimmed(m, i, size, drop)
  PROVE  /\ r \in Metadata
         /\ Unshared(r.inodes) /\ Marked(r.inodes, r.dataBitmap)
         /\ \A z : Apart(z, m.inodes) => Apart(z, r.inodes)
<1> DEFINE freed == {m.inodes[i].direct[a] : a \in drop}
<1>1. /\ r \in Metadata /\ r.dataBitmap = m.dataBitmap \ freed
      /\ \A j \in Inodes, c \in Ptrs : r.inodes[j].direct[c] =
           IF j = i /\ c \in drop THEN NoBlock ELSE m.inodes[j].direct[c]
  BY TrimmedInodes
<1>2. /\ m.inodes \in [Inodes -> Inode] /\ m.dataBitmap \in SUBSET DataBlocks
      /\ r.inodes \in [Inodes -> Inode]
  BY <1>1 DEF Metadata
<1>3. OnlyDropped(m.inodes, r.inodes, freed)
  <2>1. SUFFICES ASSUME NEW j \in Inodes, NEW c \in Ptrs, r.inodes[j].direct[c] \in DataBlocks
                 PROVE  /\ r.inodes[j].direct[c] = m.inodes[j].direct[c]
                        /\ r.inodes[j].direct[c] \notin freed
    BY DEF OnlyDropped
  <2>2. /\ r.inodes[j].direct[c] = m.inodes[j].direct[c]
        /\ m.inodes[j].direct[c] \in DataBlocks
        /\ ~(j = i /\ c \in drop)
    BY <1>1, <2>1, Layout
  <2>3. SUFFICES ASSUME NEW a \in drop, m.inodes[j].direct[c] = m.inodes[i].direct[a]
                 PROVE  FALSE
    BY <2>2
  <2>4. j = i /\ c = a
    BY <2>2, <2>3 DEF Unshared
  <2> QED
    BY <2>2, <2>3, <2>4
<1> HIDE DEF freed
<1>4. /\ Unshared(r.inodes) /\ Marked(r.inodes, m.dataBitmap \ freed)
      /\ \A z : Apart(z, m.inodes) => Apart(z, r.inodes)
  BY <1>2, <1>3, DropBlocks
<1> QED
  BY <1>1, <1>4

LEMMA WriteTrimOwns == Ownership /\ WriteTrim => Ownership'
<1> SUFFICES ASSUME Ownership, WriteTrim PROVE Ownership'
  OBVIOUS
<1> DEFINE ino  == mem.inodes[job.inum]
           drop == {a \in Held(ino, BlocksFor(ino.size)) : a >= BlocksFor(job.ret)}
<1>1. pc = "write" /\ disk' = disk
  BY DEF WriteTrim
<1>2. CASE Return(disk)
  <2>1. Return(disk')
    BY <1>1, <1>2 DEF Return
  <2> QED
    BY <1>1, <2>1, DiskIsSound, ReturnOwns DEF GivingBack
<1>3. CASE /\ pc' = "dataBitmap" /\ k' = 0 /\ job' = job
           /\ mem' = Trimmed(mem, job.inum, job.ret, drop)
  <2>1. job.inum \in Inodes /\ job.op = "write" /\ job.ret \in Int
    BY <1>1 DEF Ownership, Control
  <2>2. mem \in Metadata /\ Unshared(mem.inodes) /\ Marked(mem.inodes, mem.dataBitmap)
        /\ Apart(disk.inodes, mem.inodes)
    BY DEF Ownership, Structure, Owners
  <2>3. drop \in SUBSET Ptrs
    BY DEF Held
  <2> HIDE DEF drop
  <2>4. /\ mem' \in Metadata
        /\ Unshared(mem'.inodes) /\ Marked(mem'.inodes, mem'.dataBitmap)
        /\ Apart(disk.inodes, mem'.inodes)
    <3>1. mem' = Trimmed(mem, job.inum, job.ret, drop)
      BY <1>3
    <3>2. /\ mem' \in Metadata
          /\ Unshared(mem'.inodes) /\ Marked(mem'.inodes, mem'.dataBitmap)
          /\ \A z : Apart(z, mem.inodes) => Apart(z, mem'.inodes)
      BY <2>1, <2>2, <2>3, <3>1, TrimmedMeta
    <3> QED
      BY <2>2, <3>2
  <2>5. Unshared(disk.inodes) /\ Marked(disk.inodes, disk.dataBitmap)
    BY <1>1 DEF Ownership, Owners, GivingBack
  <2>6. ~Taking' /\ ~GivingBack'
    BY <1>3, <2>1 DEF Taking, GivingBack
  <2>7. Structure' /\ Control'
    <3>1. \A i \in Inodes \ {job.inum} : mem.inodes[i] = disk.inodes[i]
      BY <1>1 DEF Ownership, Control
    <3>2. \A i \in Inodes \ {job.inum} : mem'.inodes[i] = mem.inodes[i]
      BY <1>3, <2>1, <2>2 DEF Trimmed, Metadata
    <3> QED
      BY <3>1, <3>2, <1>1, <1>3, <2>1, <2>4 DEF Ownership, Structure, Control
  <2>8. Owners'
    BY <1>1, <2>4, <2>5, <2>6 DEF Owners
  <2> QED
    BY <2>7, <2>8 DEF Ownership
<1> QED
  BY <1>2, <1>3 DEF WriteTrim, Trimmed

LEMMA FlushBlockOwns == Ownership /\ FlushBlock => Ownership'
<1> SUFFICES ASSUME Ownership, FlushBlock PROVE Ownership'
  OBVIOUS
<1>1. pc = "blocks" /\ DOMAIN disk' = DOMAIN disk /\ Meta(disk') = Meta(disk)
  BY DEF FlushBlock, Meta, Ownership, Structure
<1>2. disk'.inodes = disk.inodes /\ disk'.dataBitmap = disk.dataBitmap
  BY <1>1 DEF Meta
<1>3. CASE Return(disk')
  <2>1. Sound(disk)
    BY <1>1, DiskIsSound DEF GivingBack
  <2>2. Sound(disk')
    BY <2>1, <1>1, <1>2 DEF Sound
  <2> QED
    BY <1>3, <2>2, ReturnOwns
<1>4. CASE pc' \in {"blocks", "inodeBitmap"} /\ UNCHANGED <<job, mem, k>>
  BY <1>1, <1>4, BlockOwns
<1> QED
  BY <1>3, <1>4 DEF FlushBlock

LEMMA FlushInodeBitmapOwns == Ownership /\ FlushInodeBitmap => Ownership'
<1> SUFFICES ASSUME Ownership, FlushInodeBitmap PROVE Ownership'
  OBVIOUS
<1>1. /\ pc = "inodeBitmap" /\ pc' = "dataBitmap" /\ UNCHANGED <<job, mem, k>>
      /\ DOMAIN disk' = DOMAIN disk /\ disk'.inodeBitmap = mem.inodeBitmap
      /\ disk'.inodes = disk.inodes /\ disk'.dataBitmap = disk.dataBitmap
  BY DEF FlushInodeBitmap, Ownership, Structure
<1>2. Structure'
  BY <1>1 DEF Ownership, Structure, Meta, Metadata
<1>3. Control'
  BY <1>1 DEF Ownership, Control
<1>4. Owners'
  BY <1>1 DEF Ownership, Owners, GivingBack, Taking
<1> QED
  BY <1>2, <1>3, <1>4 DEF Ownership

\* What write() then reads of the inode region is what it has in memory.
LEMMA FlushDataBitmapMem == Ownership /\ FlushDataBitmap => mem' = mem
<1> SUFFICES ASSUME Ownership, FlushDataBitmap PROVE mem' = mem
  OBVIOUS
<1>1. /\ mem \in Metadata /\ disk.inodes \in [Inodes -> Inode]
      /\ mem.inodes \in [Inodes -> Inode] /\ pc = "dataBitmap"
  BY DEF FlushDataBitmap, Ownership, Structure, Meta, Metadata
<1>2. CASE job.op = "write"
  <2>1. /\ job.inum \in Inodes
        /\ \A i \in Inodes \ {job.inum} : mem.inodes[i] = disk.inodes[i]
    BY <1>1, <1>2 DEF Ownership, Control
  <2>2. [disk.inodes EXCEPT ![job.inum] = mem.inodes[job.inum]] = mem.inodes
    BY <1>1, <2>1
  <2>3. mem' = [mem EXCEPT !.inodes = mem.inodes]
    BY <1>2, <2>2 DEF FlushDataBitmap
  <2> QED
    BY <1>1, <2>3 DEF Metadata
<1>3. CASE job.op # "write"
  <2>1. mem' = [mem EXCEPT !.inodes = mem.inodes]
    BY <1>3 DEF FlushDataBitmap
  <2> QED
    BY <1>1, <2>1 DEF Metadata
<1> QED
  BY <1>2, <1>3

\* From here on the disk marks what memory marks.
LEMMA FlushDataBitmapOwns == Ownership /\ FlushDataBitmap => Ownership'
<1> SUFFICES ASSUME Ownership, FlushDataBitmap PROVE Ownership'
  OBVIOUS
<1>1. /\ pc = "dataBitmap" /\ pc' = "region" /\ UNCHANGED <<job, mem, k>>
      /\ DOMAIN disk' = DOMAIN disk /\ disk'.dataBitmap = mem.dataBitmap
      /\ disk'.inodes = disk.inodes /\ disk'.inodeBitmap = disk.inodeBitmap
  BY FlushDataBitmapMem DEF FlushDataBitmap, Ownership, Structure
<1>2. Structure'
  BY <1>1 DEF Ownership, Structure, Meta, Metadata
<1>3. Control'
  BY <1>1, Layout DEF Ownership, Control
<1>4. ~GivingBack' => Taking
  BY <1>1 DEF Ownership, Control, GivingBack, Taking
<1>5. Owners'
  BY <1>1, <1>4 DEF Ownership, Owners, Taking
<1> QED
  BY <1>2, <1>3, <1>5 DEF Ownership

(***************************************************************************)
(* One block of the inode region: the inodes up to it are those in memory, *)
(* the others still those on disk, and the two are apart.                  *)
(***************************************************************************)
LEMMA FlushRegionOwns == Ownership /\ FlushRegion => Ownership'
<1> SUFFICES ASSUME Ownership, FlushRegion PROVE Ownership'
  OBVIOUS
<1> DEFINE new(i) == i \div InodesPerBlock = k
<1>1. /\ pc = "region" /\ DOMAIN disk' = DOMAIN disk
      /\ disk'.inodeBitmap = disk.inodeBitmap /\ disk'.dataBitmap = disk.dataBitmap
      /\ disk'.inodes = [i \in Inodes |-> IF new(i) THEN mem.inodes[i] ELSE disk.inodes[i]]
  BY DEF FlushRegion, Ownership, Structure
<1>2. /\ mem \in Metadata /\ disk.inodes \in [Inodes -> Inode] /\ mem.inodes \in [Inodes -> Inode]
      /\ disk.inodeBitmap \in SUBSET Inodes /\ disk.dataBitmap \in SUBSET DataBlocks
  BY DEF Ownership, Structure, Meta, Metadata
<1>3. disk'.inodes \in [Inodes -> Inode] /\ Meta(disk') \in Metadata
  <2>1. disk'.inodes \in [Inodes -> Inode]
    BY <1>1, <1>2
  <2> QED
    BY <1>1, <1>2, <2>1 DEF Meta, Metadata
<1>4. \A i \in Inodes : disk'.inodes[i] = IF new(i) THEN mem.inodes[i] ELSE disk.inodes[i]
  BY <1>1
<1>5. /\ Unshared(disk.inodes) /\ Unshared(mem.inodes) /\ Apart(disk.inodes, mem.inodes)
      /\ Marked(mem.inodes, mem.dataBitmap) /\ disk.dataBitmap = mem.dataBitmap
      /\ k \in 0 .. InodeRegionLen - 1
      /\ \A i \in Inodes : i \div InodesPerBlock < k => disk.inodes[i] = mem.inodes[i]
  BY <1>1 DEF Ownership, Owners, Control
<1> HIDE DEF new
<1>6. Unshared(disk'.inodes)
  <2>1. SUFFICES ASSUME NEW i \in Inodes, NEW j \in Inodes, NEW a \in Ptrs, NEW b \in Ptrs,
                        disk'.inodes[i].direct[a] \in DataBlocks,
                        disk'.inodes[i].direct[a] = disk'.inodes[j].direct[b]
                 PROVE  i = j /\ a = b
    BY DEF Unshared
  <2>2. CASE new(i) /\ new(j)
    BY <2>1, <2>2, <1>4, <1>5 DEF Unshared
  <2>3. CASE ~new(i) /\ ~new(j)
    BY <2>1, <2>3, <1>4, <1>5 DEF Unshared
  <2>4. CASE new(i) /\ ~new(j)
    BY <2>1, <2>4, <1>4, <1>5 DEF Apart
  <2>5. CASE ~new(i) /\ new(j)
    BY <2>1, <2>5, <1>4, <1>5 DEF Apart
  <2> QED
    BY <2>2, <2>3, <2>4, <2>5
<1>7. Apart(disk'.inodes, mem.inodes)
  BY <1>4, <1>5 DEF Unshared, Apart
<1>8. CASE k + 1 = InodeRegionLen /\ Return(disk')
  <2>1. \A i \in Inodes : disk'.inodes[i] = mem.inodes[i]
    <3>1. SUFFICES ASSUME NEW i \in Inodes, ~new(i) PROVE disk.inodes[i] = mem.inodes[i]
      BY <1>4
    <3>2. i \div InodesPerBlock \in Nat /\ i \div InodesPerBlock < InodeRegionLen
      BY Layout
    <3>3. i \div InodesPerBlock < k
      BY <3>1, <3>2, <1>5, <1>8, Layout DEF new
    <3> QED
      BY <3>3, <1>5
  <2>2. Marked(disk'.inodes, disk'.dataBitmap)
    BY <2>1, <1>1, <1>5 DEF Marked
  <2>3. Sound(disk')
    BY <2>2, <1>1, <1>3, <1>6 DEF Sound, Ownership, Structure
  <2> QED
    BY <2>3, <1>8, ReturnOwns
<1>9. CASE k + 1 # InodeRegionLen /\ k' = k + 1 /\ UNCHANGED <<pc, job, mem>>
  <2>1. Structure'
    BY <1>1, <1>3, <1>9 DEF Ownership, Structure
  <2>2. \A i \in Inodes : i \div InodesPerBlock < k' => disk'.inodes[i] = mem.inodes[i]
    <3>1. SUFFICES ASSUME NEW i \in Inodes, i \div InodesPerBlock < k + 1, ~new(i)
                   PROVE  disk.inodes[i] = mem.inodes[i]
      BY <1>4, <1>9
    <3>2. i \div InodesPerBlock \in Nat
      BY Layout
    <3>3. i \div InodesPerBlock < k
      BY <3>1, <3>2, <1>5 DEF new
    <3> QED
      BY <3>3, <1>5
  <2>3. k' \in 0 .. InodeRegionLen - 1
    BY <1>5, <1>9, Layout
  <2>4. Control'
    BY <1>1, <1>5, <1>9, <2>2, <2>3 DEF Ownership, Control
  <2>5. ~GivingBack => Marked(disk'.inodes, disk.dataBitmap)
    BY <1>4, <1>5 DEF Ownership, Owners, Marked
  <2>6. Taking => Marked(disk'.inodes, mem.dataBitmap)
    BY <1>4, <1>5 DEF Ownership, Owners, Marked
  <2>7. Owners'
    BY <1>1, <1>5, <1>6, <1>7, <1>9, <2>5, <2>6 DEF Owners, GivingBack, Taking
  <2> QED
    BY <2>1, <2>4, <2>7 DEF Ownership
<1> QED
  BY <1>8, <1>9 DEF FlushRegion

RestartNext == Calls \/ (Crash /\ ~GivingBack)

LEMMA NextOwns == Ownership /\ [RestartNext]_vars => Ownership'
<1> SUFFICES ASSUME Ownership, [RestartNext]_vars PROVE Ownership'
  OBVIOUS
<1>1. CASE \E p \in AnyInode, type \in {Directory, RegularFile}, n \in AnyName : Create(p, type, n)
  BY <1>1, CreateOwns
<1>2. CASE \E p \in AnyInode, n \in AnyName : Unlink(p, n)
  BY <1>2, UnlinkOwns
<1>3. CASE \E i \in AnyInode, text \in FileCells, size \in Sizes : Write(i, text, size)
  BY <1>3, WriteOwns, LFSAssumption
<1>4. CASE WriteSteps
  BY <1>4, WriteReuseOwns, WriteAllocateOwns, WriteFailsOwns, WriteTrimOwns DEF WriteSteps
<1>5. CASE Flush
  BY <1>5, FlushBlockOwns, FlushInodeBitmapOwns, FlushDataBitmapOwns, FlushRegionOwns DEF Flush
<1>6. CASE Crash /\ ~GivingBack
  BY <1>6, CrashOwns
<1>7. CASE UNCHANGED vars
  BY <1>7 DEF vars, Ownership, Structure, Control, Owners, GivingBack, Taking
<1> QED
  BY <1>1, <1>2, <1>3, <1>4, <1>5, <1>6, <1>7 DEF RestartNext, Calls

(***************************************************************************)
(* The invariant holds after any number of calls, and of deaths of the     *)
(* process outside the stretch in which blocks are given back.             *)
(***************************************************************************)
THEOREM OwnershipHolds == RestartSpec => []Ownership
  BY InitOwns, NextOwns, PTL DEF RestartSpec, RestartNext

(***************************************************************************)
(* No two inodes of an image ever share a block.                           *)
(***************************************************************************)
THEOREM BlocksAreNotShared == RestartSpec => []NoSharedBlock
<1>1. Ownership => NoSharedBlock
  BY DEF Ownership, Owners, NoSharedBlock
<1> QED
  BY <1>1, OwnershipHolds, PTL

(***************************************************************************)
(* A block that an inode of the image points to is free on the disk only   *)
(* while the running unlink or write is giving it back.                    *)
(***************************************************************************)
THEOREM FreedOnlyWhenGivenBack == RestartSpec => []FreeOnlyWhileGivenBack
<1>1. Ownership => FreeOnlyWhileGivenBack
  <2>1. CASE GivingBack
    BY <2>1 DEF Ownership, Control, GivingBack, FreeOnlyWhileGivenBack
  <2>2. CASE ~GivingBack
    BY <2>2 DEF Ownership, Owners, Marked, FreeOnlyWhileGivenBack
  <2> QED
    BY <2>1, <2>2
<1> QED
  BY <1>1, OwnershipHolds, PTL

----------------------------------------------------------------------------
(***************************************************************************)
(* The types of the state, that no call changes a file it is not about,    *)
(* and that what was written is what read returns, after any crash that    *)
(* RestartSpec allows.                                                     *)
(***************************************************************************)

(***************************************************************************)
(* What read() returns depends on the inode and on the blocks it points to *)
(* and on nothing else.                                                    *)
(***************************************************************************)
BlocksOf(ino) == {a \in Ptrs : ino.direct[a] \in DataBlocks}

LEMMA BlockOfPosition ==
  ASSUME NEW ks \in SUBSET Ptrs, NEW size \in Int,
         NEW e \in 0 .. MinOf(size, Cardinality(ks) * EntriesPerBlock) - 1
  PROVE  Nth(ks, e \div EntriesPerBlock) \in ks
<1>1. DirectPtrs \in Nat /\ EntriesPerBlock \in Nat /\ EntriesPerBlock > 0
  BY UFSAssumption
<1>2. ks \in SUBSET (0 .. DirectPtrs)
  BY <1>1 DEF Ptrs
<1>3. Cardinality(ks) \in Nat
  BY <1>1, <1>2, SetOfIndices
<1> DEFINE c == Cardinality(ks)
           q == e \div EntriesPerBlock
<1> HIDE DEF c
<1>4. e \in Nat /\ e < c * EntriesPerBlock
  <2>1. c * EntriesPerBlock \in Nat
    BY <1>1, <1>3 DEF c
  <2>2. MinOf(size, c * EntriesPerBlock) <= c * EntriesPerBlock
        /\ MinOf(size, c * EntriesPerBlock) \in Int
    BY <2>1 DEF MinOf
  <2> QED
    BY <2>1, <2>2 DEF c
<1>5. q \in Nat /\ EntriesPerBlock * q <= e
  BY <1>1, <1>4, Division
<1> HIDE DEF q
<1>6. q < c
  <2>1. SUFFICES ASSUME c <= q PROVE FALSE
    BY <1>3, <1>5 DEF c
  <2>2. c * EntriesPerBlock <= q * EntriesPerBlock
    BY <2>1, <1>1, <1>3, <1>5 DEF c
  <2> QED
    BY <2>2, <1>1, <1>3, <1>4, <1>5 DEF c
<1>7. Nth(ks, q) \in ks
  BY <1>1, <1>2, <1>5, <1>6, NthIsElement DEF c
<1> QED
  BY <1>7 DEF q

LEMMA ReadDependsOn ==
  ASSUME NEW d, NEW e, NEW i, NEW size \in Int,
         e.inodes[i] = d.inodes[i],
         \A a \in BlocksOf(d.inodes[i]) :
            e.blocks[d.inodes[i].direct[a]] = d.blocks[d.inodes[i].direct[a]]
  PROVE  Read(e, i, size) = Read(d, i, size)
<1> DEFINE ino == d.inodes[i]
           ks  == BlocksOf(ino)
           n   == MinOf(size, Cardinality(ks) * EntriesPerBlock)
           b(x) == ino.direct[Nth(ks, x \div EntriesPerBlock)]
<1>1. ks \in SUBSET Ptrs
  BY DEF BlocksOf
<1>2. \A x \in 0 .. n - 1 : Nth(ks, x \div EntriesPerBlock) \in ks
  <2> HIDE DEF ks
  <2> QED
    BY <1>1, BlockOfPosition
<1>3. \A x \in 0 .. n - 1 : e.blocks[b(x)] = d.blocks[b(x)]
  BY <1>2
<1>4. Read(d, i, size) = [x \in 0 .. n - 1 |-> d.blocks[b(x)][x % EntriesPerBlock]]
  BY DEF Read, BlocksOf
<1>5. Read(e, i, size) = [x \in 0 .. n - 1 |-> e.blocks[b(x)][x % EntriesPerBlock]]
  BY DEF Read, BlocksOf
<1> HIDE DEF n, b
<1> QED
  BY <1>3, <1>4, <1>5

(***************************************************************************)
(* A file whose blocks are the chunks of a body, one for each that its     *)
(* size takes, is read as that body.                                       *)
(***************************************************************************)
Holds(d, i, size, text) ==
  \A a \in Ptrs :
     IF a < BlocksFor(size)
     THEN /\ d.inodes[i].direct[a] \in DataBlocks
          /\ d.blocks[d.inodes[i].direct[a]] = Chunk(text, size, a)
     ELSE d.inodes[i].direct[a] \notin DataBlocks

LEMMA ChunksAreRead ==
  ASSUME NEW d, NEW i, NEW size \in Nat, NEW text, BlocksFor(size) <= DirectPtrs,
         Holds(d, i, size, text)
  PROVE  Read(d, i, size) = [e \in 0 .. size - 1 |-> text]
<1> DEFINE E    == EntriesPerBlock
           need == BlocksFor(size)
           ino  == d.inodes[i]
           ks   == BlocksOf(ino)
<1>1. E \in Nat /\ E > 0 /\ DirectPtrs \in Nat
  BY UFSAssumption
<1>2. need \in Nat /\ size <= need * E
  <2>1. /\ (size + E - 1) \div E \in Nat
        /\ size + E - 1 < E * ((size + E - 1) \div E) + E
    BY <1>1, Division
  <2>2. (size + E - 1) \div E = need
    BY DEF BlocksFor
  <2> HIDE DEF need, E
  <2>3. size + E - 1 < E * need + E /\ E * need = need * E
    BY <2>1, <2>2, <1>1
  <2> QED
    BY <2>1, <2>2, <2>3, <1>1
<1>3. ks = 0 .. need - 1
  BY <1>1, <1>2 DEF BlocksOf, Ptrs, Holds
<1>4. ASSUME NEW e \in 0 .. size - 1
      PROVE  /\ e \div E \in 0 .. need - 1 /\ e % E \in Slots
             /\ (e \div E) * E + (e % E) = e
  <2>1. e \in Nat /\ e < size
    OBVIOUS
  <2>2. e \div E \in Nat /\ e % E \in Nat /\ e % E < E
    BY <1>1, <2>1, Division
  <2>3. e \div E < need
    BY <1>1, <2>1, DivisionBelow DEF BlocksFor
  <2>4. e = E * (e \div E) + (e % E)
    BY <1>1, <2>1
  <2> QED
    BY <1>1, <1>2, <2>2, <2>3, <2>4 DEF Slots
<1>5. Cardinality(ks) = need
  BY <1>2, <1>3, FS_Interval
<1>6. MinOf(size, Cardinality(ks) * E) = size
  BY <1>1, <1>2, <1>5 DEF MinOf
<1>7. ASSUME NEW e \in 0 .. size - 1
      PROVE  d.blocks[ino.direct[Nth(ks, e \div E)]][e % E] = text
  <2> DEFINE a == e \div E
  <2>1. a \in 0 .. need - 1 /\ e % E \in Slots /\ a * E + (e % E) < size
    BY <1>4
  <2> HIDE DEF a, need, E
  <2>2. Nth(0 .. need - 1, a) = a
    BY <1>2, <2>1, NthOfAll
  <2>3. a \in Ptrs /\ a < need
    BY <1>1, <1>2, <2>1 DEF Ptrs, need
  <2>4. d.blocks[ino.direct[a]] = Chunk(text, size, a)
    BY <2>3 DEF need, Holds
  <2>5. Chunk(text, size, a)[e % E] = text
    BY <2>1 DEF Chunk, E
  <2> QED
    BY <1>3, <2>2, <2>4, <2>5 DEF a
<1>8. Read(d, i, size) = [e \in 0 .. MinOf(size, Cardinality(ks) * E) - 1 |->
                            d.blocks[ino.direct[Nth(ks, e \div E)]][e % E]]
  BY DEF Read, BlocksOf
<1> HIDE DEF ks, ino, E
<1> QED
  BY <1>6, <1>7, <1>8

----------------------------------------------------------------------------
(***************************************************************************)
(* Cells and blocks of the right type.                                     *)
(***************************************************************************)
LEMMA Cells ==
  /\ \A n \in CellNames, x \in Int : Entry(n, x) \in Cell
  /\ "" \in CellNames /\ ValidNames \subseteq CellNames
  /\ Unused \in Cell /\ ZeroCell \in Cell
  /\ FileCells \subseteq Cell /\ HeapCells \subseteq Cell
<1>1. \A n \in CellNames, x \in Int : Entry(n, x) \in Cell
  BY DEF Entry, Cell
<1>2. "" \in CellNames /\ ValidNames \subseteq CellNames
  BY DEF CellNames, ValidNames
<1>3. Unused \in Cell /\ ZeroCell \in Cell
  <2>1. -1 \in Int /\ 0 \in Int
    OBVIOUS
  <2>2. Entry("", -1) \in Cell /\ Entry("", 0) \in Cell
    BY <1>1, <1>2, <2>1
  <2> QED
    BY <2>2 DEF Unused, ZeroCell
<1>4. ASSUME NEW c \in FileCells \cup HeapCells
      PROVE  c \in Cell
  <2>1. c.inum \in Int /\ c = [name |-> c.name, inum |-> c.inum]
    BY UFSAssumption
  <2>2. c.name \in CellNames
    BY DEF CellNames
  <2> QED
    BY <2>1, <2>2 DEF Cell
<1> QED
  BY <1>1, <1>2, <1>3, <1>4

\* A position among the blocks ks names one of them and one of its slots.
LEMMA PositionInBlocks ==
  ASSUME NEW ks \in SUBSET Ptrs, NEW pos \in PositionsIn(ks)
  PROVE  pos \in Nat /\ pos \div EntriesPerBlock \in ks /\ pos % EntriesPerBlock \in Slots
<1>1. PICK q \in ks, s \in Slots : pos = q * EntriesPerBlock + s
  BY DEF PositionsIn
<1>2. EntriesPerBlock \in Nat /\ EntriesPerBlock > 0 /\ q \in Nat /\ s \in 0 .. EntriesPerBlock - 1
  BY UFSAssumption DEF Ptrs, Slots
<1>3. q * EntriesPerBlock \in Nat
  BY <1>2
<1>4. pos \div EntriesPerBlock = q /\ pos % EntriesPerBlock = s
  BY <1>1, <1>2, PositionOf
<1> QED
  BY <1>1, <1>2, <1>3, <1>4

LEMMA FirstIsElement ==
  ASSUME NEW hits \in SUBSET Nat, First(hits) # -1
  PROVE  First(hits) \in hits
  BY LeastIsMinimum DEF First

(***************************************************************************)
(* An image as a call finds it, and what it may then write: no block of a  *)
(* file, and no inode of a file but the one it makes.                      *)
(***************************************************************************)
Usable(d) ==
  /\ Sound(d) /\ d.blocks \in [DataBlocks -> Block]
  /\ Tidy(d.inodes)

Safe(d) == [addr : Harmless(d), cells : Block]

Spares(d, m, made) ==
  /\ \A i \in m.inodeBitmap :
       d.inodes[i].type = RegularFile /\ i # made => m.inodes[i] = d.inodes[i]
  /\ Tidy(m.inodes)

LEMMA MetaSpares ==
  ASSUME NEW d, Usable(d), NEW made
  PROVE  Spares(d, Meta(d), made)
  BY DEF Usable, Spares, Meta

\* A block of a directory that can be read, and a block that is not marked.
LEMMA DirectoryIsHarmless ==
  ASSUME NEW d, Sound(d), NEW p \in Inodes, d.inodes[p].type = Directory, NEW a \in Ptrs,
         d.inodes[p].direct[a] \in DataBlocks
  PROVE  d.inodes[p].direct[a] \in Harmless(d)
  BY DEF Sound, Unshared, Harmless

LEMMA UnmarkedIsHarmless ==
  ASSUME NEW d, Sound(d), NEW b \in DataBlocks, b \notin d.dataBitmap
  PROVE  b \in Harmless(d)
  BY DEF Sound, Marked, Harmless

LEMMA ReadableBlock ==
  ASSUME NEW ino, ~Unreadable(ino), NEW a \in Held(ino, BlocksFor(ino.size))
  PROVE  a \in Ptrs /\ ino.direct[a] \in DataBlocks
  BY DEF Unreadable, Held

----------------------------------------------------------------------------
(***************************************************************************)
(* create()                                                                *)
(***************************************************************************)
LEMMA ChecksPassedName ==
  ASSUME NEW d, d.inodeBitmap \in SUBSET Inodes, NEW p, NEW type, NEW n,
         CreateChecks(d, p, type, n) = Passes
  PROVE  /\ n \in ValidNames /\ IsDirectory(d, p) /\ ~Unreadable(d.inodes[p])
<1> DEFINE ino == d.inodes[p]
           at  == CellAt(d, ino, Existing(d, ino, n)).inum
<1>1. Passes \in Nat \ {0}
  BY UFSAssumption DEF Passes
<1>2. -EINVALIDNAME # Passes /\ -EINVALIDINODE # Passes /\ Aborts # Passes
  BY <1>1 DEF EINVALIDNAME, EINVALIDINODE, Aborts
<1> QED
  BY <1>2 DEF CreateChecks

\* Only the directory is different, and it stays one.
LEMMA DirectorySpares ==
  ASSUME NEW d, NEW m \in Metadata, NEW r, NEW made, NEW p \in Inodes,
         d.inodes[p].type = Directory, m.inodes[p].type = Directory,
         Spares(d, m, made), r.inodeBitmap = m.inodeBitmap,
         r.inodes[p].type = Directory, \A j \in Inodes : j # p => r.inodes[j] = m.inodes[j]
  PROVE  Spares(d, r, made)
<1>1. Directory # RegularFile
  BY DEF Directory, RegularFile
<1>2. Tidy(r.inodes)
  BY <1>1 DEF Spares, Tidy
<1>3. m.inodeBitmap \subseteq Inodes
  BY DEF Metadata
<1> QED
  BY <1>1, <1>2, <1>3 DEF Spares

LEMMA OnlyDirectory ==
  ASSUME NEW m \in Metadata, NEW p \in Inodes, NEW r,
         r = WithEntry(m, p) \/ \E a, b : r = WithBlock(m, p, a, b)
  PROVE  /\ r.inodeBitmap = m.inodeBitmap /\ r.inodes[p].type = m.inodes[p].type
         /\ \A j \in Inodes : j # p => r.inodes[j] = m.inodes[j]
<1>1. m.inodes \in [Inodes -> Inode] /\ m.inodes[p] \in Inode
  BY DEF Metadata
<1>2. CASE r = WithEntry(m, p)
  BY <1>1, <1>2 DEF WithEntry, Metadata, Inode
<1>3. ASSUME NEW a, NEW b, r = WithBlock(m, p, a, b)
      PROVE  /\ r.inodeBitmap = m.inodeBitmap /\ r.inodes[p].type = m.inodes[p].type
             /\ \A j \in Inodes : j # p => r.inodes[j] = m.inodes[j]
  <2>1. /\ r.inodeBitmap = m.inodeBitmap
        /\ r.inodes = [m.inodes EXCEPT ![p].size = @ + 1, ![p].direct[a] = b]
    BY <1>3 DEF WithBlock, Metadata
  <2> QED
    BY <1>1, <2>1 DEF Inode
<1> QED
  BY <1>2, <1>3

LEMMA LinkWrites ==
  ASSUME NEW d, Usable(d), NEW e, e.blocks \in [DataBlocks -> Block], Meta(e) = Meta(d),
         NEW p \in Inodes, d.inodes[p].type = Directory, ~Unreadable(d.inodes[p]),
         NEW n \in ValidNames, NEW i \in Inodes,
         NEW m \in Metadata, m.inodes[p] = d.inodes[p], d.dataBitmap \subseteq m.dataBitmap,
         Spares(d, m, i),
         NEW first \in Seq(Safe(d)),
         NEW plan, plan = Link(e, p, n, i, first, m)
  PROVE  /\ plan.writes \in Seq(Safe(d)) /\ plan.ret \in Int
         /\ plan.ret = i \/ plan.mem = Meta(d)
         /\ Spares(d, plan.mem, plan.ret)
<1> DEFINE ino  == m.inodes[p]
           used == BlocksFor(ino.size)
           hits == {pos \in PositionsIn(Held(ino, used)) : CellAt(e, ino, pos).inum = -1}
           slot == First(hits)
           at   == ino.direct[slot \div EntriesPerBlock]
           free == DataBlocks \ m.dataBitmap
           b    == Least(free)
           old  == [e.blocks[at] EXCEPT ![slot % EntriesPerBlock] = Entry(n, i)]
           new  == [s \in Slots |-> IF s = 0 THEN Entry(n, i) ELSE Unused]
<1>1. Entry(n, i) \in Cell /\ Unused \in Cell
  <2>1. i \in Int
    BY DEF Inodes
  <2>2. n \in CellNames
    BY Cells
  <2> QED
    BY <2>1, <2>2, Cells
<1>2. ASSUME slot # -1
      PROVE  Update(at, old) \in Safe(d)
  <2>1. Held(ino, used) \in SUBSET Ptrs
    BY DEF Held
  <2>2. hits \in SUBSET Nat
    BY <2>1, PositionInBlocks
  <2>3. slot \in hits
    <3> HIDE DEF hits
    <3> QED
      BY <1>2, <2>2, FirstIsElement
  <2>4. slot \div EntriesPerBlock \in Held(ino, used) /\ slot % EntriesPerBlock \in Slots
    <3>1. slot \in PositionsIn(Held(ino, used))
      BY <2>3
    <3> HIDE DEF slot
    <3> QED
      BY <2>1, <3>1, PositionInBlocks
  <2> HIDE DEF slot, used
  <2>5. slot \div EntriesPerBlock \in Ptrs /\ at \in DataBlocks
    <3>1. slot \div EntriesPerBlock \in Held(ino, BlocksFor(ino.size)) /\ ~Unreadable(ino)
      BY <2>4 DEF used
    <3> QED
      BY <3>1, ReadableBlock
  <2>6. at \in Harmless(d)
    <3>1. Sound(d) /\ at = d.inodes[p].direct[slot \div EntriesPerBlock]
      BY DEF Usable
    <3> QED
      BY <2>5, <3>1, DirectoryIsHarmless
  <2> HIDE DEF at
  <2>7. old \in Block
    <3>1. e.blocks[at] \in Block
      BY <2>5
    <3> QED
      BY <3>1, <2>4, <1>1 DEF Block
  <2> HIDE DEF old
  <2> QED
    BY <2>6, <2>7 DEF Update, Safe
<1>3. ASSUME free # {}
      PROVE  Update(b, new) \in Safe(d)
  <2>1. free \in SUBSET Nat
    BY Layout
  <2>2. b \in free
    <3> HIDE DEF free
    <3> QED
      BY <1>3, <2>1, LeastIsMinimum
  <2>3. b \in Harmless(d)
    BY <2>2, UnmarkedIsHarmless DEF Usable
  <2>4. new \in Block
    BY <1>1 DEF Block
  <2> HIDE DEF b, new
  <2> QED
    BY <2>3, <2>4 DEF Update, Safe
<1> HIDE DEF at, old, b, new, slot
<1>4. CASE plan = Plan(i, Append(first, Update(at, old)), TRUE, WithEntry(m, p)) /\ slot # -1
  <2>1. plan.writes \in Seq(Safe(d)) /\ plan.ret = i /\ i \in Int
    BY <1>2, <1>4 DEF Plan, Inodes
  <2>2. LET r == WithEntry(m, p)
        IN  /\ r.inodeBitmap = m.inodeBitmap /\ r.inodes[p].type = Directory
            /\ \A j \in Inodes : j # p => r.inodes[j] = m.inodes[j]
    BY OnlyDirectory
  <2>3. Spares(d, WithEntry(m, p), i)
    BY <2>2, DirectorySpares
  <2> QED
    BY <2>1, <2>3, <1>4 DEF Plan
<1>5. CASE plan = Plan(-ENOTENOUGHSPACE, first, FALSE, Meta(d))
  <2>1. plan.writes \in Seq(Safe(d)) /\ plan.ret \in Int
    BY <1>5 DEF Plan, ENOTENOUGHSPACE
  <2> QED
    BY <2>1, <1>5, MetaSpares DEF Plan
<1>6. CASE plan = Plan(i, Append(first, Update(b, new)), TRUE, WithBlock(m, p, used, b)) /\ free # {}
  <2>1. plan.writes \in Seq(Safe(d)) /\ plan.ret = i /\ i \in Int
    BY <1>3, <1>6 DEF Plan, Inodes
  <2> HIDE DEF used
  <2>2. LET r == WithBlock(m, p, used, b)
        IN  /\ r.inodeBitmap = m.inodeBitmap /\ r.inodes[p].type = Directory
            /\ \A j \in Inodes : j # p => r.inodes[j] = m.inodes[j]
    BY OnlyDirectory
  <2>3. Spares(d, WithBlock(m, p, used, b), i)
    BY <2>2, DirectorySpares
  <2> QED
    BY <2>1, <2>3, <1>6 DEF Plan
<1> QED
  BY <1>4, <1>5, <1>6 DEF Link, WithEntry, WithBlock, slot, at, old, b, new, Meta

KeepsInodes(d, m) == \A j \in d.inodeBitmap : m.inodes[j] = d.inodes[j]

\* The metadata with the new inode differ in that inode only, and it has no
\* block if it is a file.
LEMMA WithInodeSpares ==
  ASSUME NEW d, Usable(d), NEW type \in {Directory, RegularFile}, d.inodeBitmap # Inodes,
         type = Directory => d.dataBitmap # DataBlocks
  PROVE  /\ Least(Inodes \ d.inodeBitmap) \in Inodes
         /\ Least(Inodes \ d.inodeBitmap) \notin d.inodeBitmap
         /\ type = Directory => /\ Least(DataBlocks \ d.dataBitmap) \in DataBlocks
                                /\ Least(DataBlocks \ d.dataBitmap) \notin d.dataBitmap
         /\ WithInode(d, type) \in Metadata
         /\ d.dataBitmap \subseteq WithInode(d, type).dataBitmap
         /\ KeepsInodes(d, WithInode(d, type))
         /\ Spares(d, WithInode(d, type), Least(Inodes \ d.inodeBitmap))
<1> DEFINE i    == Least(Inodes \ d.inodeBitmap)
           home == Least(DataBlocks \ d.dataBitmap)
           m   == WithInode(d, type)
           new == NewInode(type, home)
<1>1. /\ d.inodes \in [Inodes -> Inode] /\ d.inodeBitmap \in SUBSET Inodes
      /\ d.dataBitmap \in SUBSET DataBlocks /\ Tidy(d.inodes)
  BY DEF Usable, Sound, Meta, Metadata
<1>2. i \in Inodes /\ i \notin d.inodeBitmap
  <2>1. Inodes \ d.inodeBitmap \in SUBSET Nat
    BY DEF Inodes
  <2>2. Inodes \ d.inodeBitmap # {}
    BY <1>1
  <2> QED
    BY <2>1, <2>2, LeastIsMinimum
<1>3. type = Directory => home \in DataBlocks /\ home \notin d.dataBitmap
  <2>1. SUFFICES ASSUME type = Directory PROVE home \in DataBlocks \ d.dataBitmap
    OBVIOUS
  <2>2. DataBlocks \ d.dataBitmap \in SUBSET Nat /\ DataBlocks \ d.dataBitmap # {}
    BY <2>1, <1>1, Layout
  <2> QED
    BY <2>2, LeastIsMinimum
<1>4. new \in Inode /\ (new.type = RegularFile => \A a \in Ptrs : new.direct[a] = NoBlock)
  <2>1. Directory # RegularFile
    BY DEF Directory, RegularFile
  <2>2. CASE type = Directory
    <3>1. home \in Int /\ 2 \in Int
      <4>1. home \in DataBlocks
        BY <2>2, <1>3
      <4>2. \A x \in DataBlocks : x \in Int
        BY Layout
      <4> QED
        BY <4>1, <4>2
    <3>2. [a \in Ptrs |-> IF a = 0 THEN home ELSE NoBlock] \in [Ptrs -> Int]
      BY <3>1, Layout
    <3>3. new = [type |-> type, size |-> 2,
                 direct |-> [a \in Ptrs |-> IF a = 0 THEN home ELSE NoBlock]]
      BY <2>2 DEF NewInode
    <3> HIDE DEF new
    <3> QED
      BY <2>1, <2>2, <3>1, <3>2, <3>3 DEF Inode
  <2>3. CASE type # Directory
    <3>1. [a \in Ptrs |-> NoBlock] \in [Ptrs -> Int] /\ 0 \in Int
      BY Layout
    <3>2. new = [type |-> type, size |-> 0, direct |-> [a \in Ptrs |-> NoBlock]]
      BY <2>3 DEF NewInode
    <3> HIDE DEF new
    <3> QED
      BY <3>1, <3>2 DEF Inode
  <2> QED
    BY <2>2, <2>3
<1>5. /\ m.inodeBitmap = d.inodeBitmap \cup {i}
      /\ m.dataBitmap = d.dataBitmap \cup (IF type = Directory THEN {home} ELSE {})
      /\ m.inodes = [d.inodes EXCEPT ![i] = new]
      /\ m = [inodeBitmap |-> m.inodeBitmap, dataBitmap |-> m.dataBitmap, inodes |-> m.inodes]
  BY DEF WithInode
<1> HIDE DEF m, new
<1>6. \A j \in Inodes : m.inodes[j] = IF j = i THEN new ELSE d.inodes[j]
  BY <1>1, <1>2, <1>5
<1>7. m \in Metadata
  <2>1. m.inodes \in [Inodes -> Inode]
    BY <1>1, <1>2, <1>4, <1>5
  <2>2. m.inodeBitmap \in SUBSET Inodes
    BY <1>1, <1>2, <1>5
  <2>3. m.dataBitmap \in SUBSET DataBlocks
    BY <1>1, <1>3, <1>5
  <2> QED
    BY <2>1, <2>2, <2>3, <1>5 DEF Metadata
<1>8. \A j \in d.inodeBitmap : m.inodes[j] = d.inodes[j]
  BY <1>1, <1>2, <1>6
<1>9. Tidy(m.inodes)
  <2>1. NoBlock \notin DataBlocks
    BY Layout
  <2> QED
    BY <1>1, <1>4, <1>6, <2>1 DEF Tidy
<1>10. Spares(d, m, i)
  BY <1>5, <1>8, <1>9 DEF Spares
<1>11. KeepsInodes(d, m)
  BY <1>8 DEF KeepsInodes
<1> QED
  BY <1>2, <1>3, <1>5, <1>7, <1>10, <1>11 DEF m

(***************************************************************************)
(* Of the files there are create changes none.                             *)
(***************************************************************************)
LEMMA CreateWrites ==
  ASSUME NEW d, Usable(d), NEW p, NEW type \in {Directory, RegularFile}, NEW n,
         NEW plan, plan = CreatePlan(d, p, type, n), ~IsRefused(plan)
  PROVE  /\ plan.writes \in Seq(Safe(d)) /\ plan.ret \in Int
         /\ Spares(d, plan.mem, plan.ret)
         /\ n \in ValidNames /\ p \in Inodes
<1> DEFINE i    == Least(Inodes \ d.inodeBitmap)
           home == Least(DataBlocks \ d.dataBitmap)
           m    == WithInode(d, type)
           d1   == [d EXCEPT !.blocks[home] = DirBlock(i, p)]
           w    == <<Update(home, DirBlock(i, p))>>
<1>1. CreateChecks(d, p, type, n) = Passes
  <2>1. \A x : IsRefused(Refuse(d, x))
    BY DEF IsRefused, Refuse, Plan
  <2> QED
    BY <2>1 DEF CreatePlan
<1>2. d.inodeBitmap \in SUBSET Inodes /\ Sound(d)
  BY DEF Usable, Sound, Meta, Metadata
<1>3. /\ d.inodeBitmap # Inodes /\ p \in d.inodeBitmap
      /\ type = Directory => d.dataBitmap # DataBlocks
      /\ n \in ValidNames /\ d.inodes[p].type = Directory /\ ~Unreadable(d.inodes[p])
  <2>1. n \in ValidNames /\ IsDirectory(d, p) /\ ~Unreadable(d.inodes[p])
    BY <1>1, <1>2, ChecksPassedName
  <2>2. /\ d.inodeBitmap # Inodes /\ p \in d.inodeBitmap
        /\ type = Directory => d.dataBitmap # DataBlocks
    BY <1>1, <1>2, ChecksPassed
  <2> QED
    BY <2>1, <2>2 DEF IsDirectory
<1>4. p \in Inodes
  BY <1>2, <1>3
<1>5. \/ type = Directory /\ plan = Link(d1, p, n, i, w, m)
      \/ type # Directory /\ plan = Link(d, p, n, i, <<>>, m)
  BY <1>1 DEF CreatePlan
<1>6. /\ i \in Inodes
      /\ type = Directory => home \in DataBlocks /\ home \notin d.dataBitmap
      /\ m \in Metadata /\ d.dataBitmap \subseteq m.dataBitmap
      /\ m.inodes[p] = d.inodes[p] /\ Spares(d, m, i)
  <2>1. /\ i \in Inodes
        /\ type = Directory => home \in DataBlocks /\ home \notin d.dataBitmap
        /\ m \in Metadata /\ d.dataBitmap \subseteq m.dataBitmap
        /\ KeepsInodes(d, m) /\ Spares(d, m, i)
    BY <1>3, WithInodeSpares
  <2> HIDE DEF m, i, home
  <2> QED
    BY <2>1, <1>3 DEF KeepsInodes
<1> HIDE DEF i, home, m
<1>7. CASE type = Directory
  <2>1. DirBlock(i, p) \in Block
    <3>1. i \in Int /\ p \in Int /\ "." \in CellNames /\ ".." \in CellNames /\ Unused \in Cell
      <4>1. "." \in CellNames /\ ".." \in CellNames
        BY DEF CellNames, ValidNames
      <4>2. i \in Int /\ p \in Int
        BY <1>4, <1>6 DEF Inodes
      <4> QED
        BY <4>1, <4>2, Cells
    <3>2. Entry(".", i) \in Cell /\ Entry("..", i) \in Cell /\ Entry("..", p) \in Cell
      BY <3>1, Cells
    <3> QED
      BY <3>1, <3>2 DEF DirBlock, Block
  <2>2. home \in Harmless(d)
    BY <1>2, <1>6, <1>7, UnmarkedIsHarmless
  <2>3. w \in Seq(Safe(d))
    BY <2>1, <2>2 DEF Update, Safe
  <2>4. d1.blocks \in [DataBlocks -> Block] /\ Meta(d1) = Meta(d)
    BY <1>6, <1>7, <2>1 DEF Usable, Sound, Meta
  <2> HIDE DEF d1, w
  <2>5. plan = Link(d1, p, n, i, w, m)
    BY <1>5, <1>7
  <2> QED
    BY <1>3, <1>4, <1>6, <2>3, <2>4, <2>5, LinkWrites
<1>8. CASE type # Directory
  <2> DEFINE none == <<>>
  <2>1. plan = Link(d, p, n, i, none, m) /\ none \in Seq(Safe(d))
    BY <1>5, <1>8
  <2>2. d.blocks \in [DataBlocks -> Block]
    BY DEF Usable
  <2> HIDE DEF none
  <2> QED
    BY <1>3, <1>4, <1>6, <2>1, <2>2, LinkWrites
<1> QED
  BY <1>7, <1>8
(***************************************************************************)
(* unlink()                                                                *)
(***************************************************************************)

\* The cells that unlink has in its buffer and on the heap behind it.
Limit(size) == IF Asan THEN size ELSE BlocksFor(size) * EntriesPerBlock

\* Each of them is heap or a cell of a block of the directory.
LEMMA DirDataOrigin ==
  ASSUME NEW d, NEW p \in Inodes, d.inodes[p] \in Inode, ~Unreadable(d.inodes[p]),
         NEW heap \in [HeapRange(d, p) -> HeapCells],
         NEW e \in 0 .. Limit(d.inodes[p].size) - 1
  PROVE  /\ e \in DOMAIN DirData(d, p, heap)
         /\ \/ DirData(d, p, heap)[e] \in HeapCells
            \/ \E b \in DataBlocks, s \in Slots : DirData(d, p, heap)[e] = d.blocks[b][s]
<1> DEFINE ino == d.inodes[p]
           ks  == BlocksRead(ino)
           n   == CellsRead(ino)
<1>1. DOMAIN heap = n .. Limit(ino.size) - 1
  BY DEF HeapRange, Limit
<1>2. ino \in Inode /\ ino.size \in Int
  BY DEF Inode
<1>3. EntriesPerBlock \in Nat /\ ks \in SUBSET (0 .. DirectPtrs) /\ DirectPtrs \in Nat
  BY UFSAssumption DEF BlocksRead, Held, Ptrs
<1>4. n \in Int
  <2>1. Cardinality(ks) \in Nat
    BY <1>3, SetOfIndices
  <2> HIDE DEF ks, ino
  <2>2. Cardinality(ks) * EntriesPerBlock \in Int
    BY <2>1, <1>3
  <2> QED
    BY <2>2, <1>2 DEF CellsRead, MinOf, ks
<1>5. /\ e \in DOMAIN DirData(d, p, heap)
      /\ DirData(d, p, heap)[e] =
        IF e \in DOMAIN heap THEN heap[e]
        ELSE d.blocks[ino.direct[Nth(ks, e \div EntriesPerBlock)]][e % EntriesPerBlock]
  <2>1. e \in (0 .. n - 1) \cup DOMAIN heap
    <3>1. Limit(ino.size) \in Int
      BY <1>2, <1>3, BlocksForInt DEF Limit
    <3> HIDE DEF n, ino
    <3> QED
      BY <1>1, <1>4, <3>1 DEF ino
  <2> QED
    BY <2>1 DEF DirData
<1>6. CASE e \in DOMAIN heap
  <2>1. heap[e] \in HeapCells
    BY <1>6
  <2> QED
    BY <2>1, <1>5, <1>6
<1>7. CASE e \notin DOMAIN heap
  <2>1. e \in 0 .. n - 1
    <3>1. Limit(ino.size) \in Int
      BY <1>2, <1>3, BlocksForInt DEF Limit
    <3> HIDE DEF n, ino
    <3> QED
      BY <1>1, <1>4, <1>7, <3>1 DEF ino
  <2>2. Nth(ks, e \div EntriesPerBlock) \in ks
    <3>1. ks \in SUBSET Ptrs
      BY DEF BlocksRead, Held
    <3>2. e \in 0 .. MinOf(ino.size, Cardinality(ks) * EntriesPerBlock) - 1
      BY <2>1 DEF CellsRead
    <3> HIDE DEF ks, ino
    <3> QED
      BY <1>2, <3>1, <3>2, BlockOfPosition
  <2> DEFINE a == Nth(ks, e \div EntriesPerBlock)
  <2>3. ino.direct[a] \in DataBlocks
    BY <2>2, ReadableBlock DEF BlocksRead
  <2>4. e % EntriesPerBlock \in Slots
    <3>1. e \in Nat /\ EntriesPerBlock \in Nat /\ EntriesPerBlock > 0
      BY UFSAssumption
    <3>2. e % EntriesPerBlock \in Nat /\ e % EntriesPerBlock < EntriesPerBlock
      BY <3>1, Division
    <3> QED
      BY <3>1, <3>2 DEF Slots
  <2> QED
    BY <2>3, <2>4, <1>5, <1>7
<1> QED
  BY <1>5, <1>6, <1>7

LEMMA DirDataCells ==
  ASSUME NEW d, Usable(d), NEW p \in Inodes, ~Unreadable(d.inodes[p]),
         NEW heap \in [HeapRange(d, p) -> HeapCells],
         NEW e \in 0 .. Limit(d.inodes[p].size) - 1
  PROVE  e \in DOMAIN DirData(d, p, heap) /\ DirData(d, p, heap)[e] \in Cell
<1>1. d.inodes[p] \in Inode
  BY DEF Usable, Sound, Meta, Metadata
<1>2. /\ e \in DOMAIN DirData(d, p, heap)
      /\ \/ DirData(d, p, heap)[e] \in HeapCells
         \/ \E b \in DataBlocks, s \in Slots : DirData(d, p, heap)[e] = d.blocks[b][s]
  BY <1>1, DirDataOrigin
<1>3. \A b \in DataBlocks, s \in Slots : d.blocks[b][s] \in Cell
  BY DEF Usable, Block
<1> QED
  BY <1>2, <1>3, Cells

\* The cells that are written back to block number x are among them.
LEMMA CellsWritten ==
  ASSUME NEW size \in Int, NEW x \in Ptrs, x < BlocksFor(size),
         ~Asan \/ (x + 1) * EntriesPerBlock <= size, NEW s \in Slots
  PROVE  x * EntriesPerBlock + s \in 0 .. Limit(size) - 1
<1>1. EntriesPerBlock \in Nat /\ x \in Nat /\ s \in 0 .. EntriesPerBlock - 1
      /\ BlocksFor(size) \in Int
  BY UFSAssumption, BlocksForInt DEF Ptrs, Slots
<1>2. x * EntriesPerBlock \in Nat /\ (x + 1) * EntriesPerBlock = x * EntriesPerBlock + EntriesPerBlock
  BY <1>1
<1>3. (x + 1) * EntriesPerBlock <= Limit(size)
  <2>1. CASE Asan
    BY <2>1 DEF Limit
  <2>2. CASE ~Asan
    <3>1. x + 1 <= BlocksFor(size)
      BY <1>1
    <3>2. (x + 1) * EntriesPerBlock <= BlocksFor(size) * EntriesPerBlock
      BY <1>1, <3>1
    <3> QED
      BY <2>2, <3>2 DEF Limit
  <2> QED
    BY <2>1, <2>2
<1>4. Limit(size) \in Int
  BY <1>1 DEF Limit
<1> QED
  BY <1>1, <1>2, <1>3, <1>4

\* What is written back is in T if it is for each block.
LEMMA WriteBackWrites ==
  ASSUME NEW T, NEW ino, NEW total, NEW data, NEW size,
         \A x \in Held(ino, total) : ~Asan \/ (x + 1) * EntriesPerBlock <= size =>
            Update(ino.direct[x], [s \in Slots |-> data[x * EntriesPerBlock + s]]) \in T
  PROVE  WriteBack(ino, total, data, size) \in Seq(T)
<1> DEFINE is == {i \in Held(ino, total) : ~Asan \/ (i + 1) * EntriesPerBlock <= size}
           c  == Cardinality(is)
           up(x) == Update(ino.direct[x], [s \in Slots |-> data[x * EntriesPerBlock + s]])
<1>1. DirectPtrs \in Nat
  BY UFSAssumption
<1>2. is \in SUBSET (0 .. DirectPtrs)
  BY <1>1 DEF Held, Ptrs
<1>3. c \in Nat
  BY <1>1, <1>2, SetOfIndices
<1>4. \A x \in is : up(x) \in T
  OBVIOUS
<1>5. \A j \in 1 .. c : Nth(is, j - 1) \in is
  <2> HIDE DEF is
  <2>1. SUFFICES ASSUME NEW j \in 1 .. c PROVE Nth(is, j - 1) \in is
    OBVIOUS
  <2>2. j - 1 \in Nat /\ j - 1 < c
    BY <1>3
  <2> QED
    BY <2>2, <1>1, <1>2, NthIsElement
<1>6. WriteBack(ino, total, data, size) = [j \in 1 .. c |-> up(Nth(is, j - 1))]
  BY DEF WriteBack
<1> HIDE DEF is, c, up
<1>7. [j \in 1 .. c |-> up(Nth(is, j - 1))] \in Seq(T)
  BY <1>3, <1>4, <1>5
<1> QED
  BY <1>6, <1>7

LEMMA WriteBackIsSafe ==
  ASSUME NEW d, Usable(d), NEW p \in Inodes, d.inodes[p].type = Directory,
         ~Unreadable(d.inodes[p]),
         NEW ino, \A a \in Ptrs : ino.direct[a] \in {d.inodes[p].direct[a], NoBlock},
         NEW size, size = d.inodes[p].size,
         NEW data, \A e \in 0 .. Limit(size) - 1 : data[e] \in Cell
  PROVE  WriteBack(ino, BlocksFor(size), data, size) \in Seq(Safe(d))
<1>1. size \in Int
  BY DEF Usable, Sound, Meta, Metadata, Inode
<1>2. ASSUME NEW x \in Held(ino, BlocksFor(size)), ~Asan \/ (x + 1) * EntriesPerBlock <= size
      PROVE  Update(ino.direct[x], [s \in Slots |-> data[x * EntriesPerBlock + s]]) \in Safe(d)
  <2>1. x \in Ptrs /\ x < BlocksFor(size) /\ ino.direct[x] # NoBlock
    BY DEF Held
  <2>2. ino.direct[x] = d.inodes[p].direct[x]
    BY <2>1
  <2>3. x \in Held(d.inodes[p], BlocksFor(d.inodes[p].size))
    BY <2>1, <2>2 DEF Held
  <2>4. ino.direct[x] \in Harmless(d)
    <3>1. ino.direct[x] \in DataBlocks
      BY <2>2, <2>3, ReadableBlock
    <3> QED
      BY <2>1, <2>2, <3>1, DirectoryIsHarmless DEF Usable
  <2>5. \A s \in Slots : data[x * EntriesPerBlock + s] \in Cell
    BY <1>1, <1>2, <2>1, CellsWritten
  <2>6. [s \in Slots |-> data[x * EntriesPerBlock + s]] \in Block
    BY <2>5 DEF Block
  <2> QED
    BY <2>4, <2>6 DEF Update, Safe
<1> QED
  BY <1>2, WriteBackWrites

\* Only the removed inode and the directory are different.
LEMMA RemovedInodes ==
  ASSUME NEW d, d.inodes \in [Inodes -> Inode], NEW p \in Inodes, NEW v \in Inodes, NEW at,
         at \div EntriesPerBlock \in Ptrs, NEW emptied,
         NEW m, m = Removed(d, p, v, at, emptied)
  PROVE  /\ m.inodeBitmap = d.inodeBitmap \ {v}
         /\ \A j \in Inodes : m.inodes[j].type = d.inodes[j].type
         /\ \A j \in Inodes \ {p, v} : m.inodes[j] = d.inodes[j]
         /\ \A j \in Inodes \ {p} : j = v => m.inodes[j] = Released(d.inodes[v])
         /\ \A a \in Ptrs : m.inodes[p].direct[a] \in {d.inodes[p].direct[a], NoBlock}
<1> DEFINE i     == at \div EntriesPerBlock
           after == [d.inodes EXCEPT ![v] = Released(d.inodes[v])]
           less  == [after EXCEPT ![p].direct[i] = NoBlock, ![p].size = @ - EntriesPerBlock]
<1>1. d.inodes \in [Inodes -> Inode]
  OBVIOUS
<1>2. /\ Released(d.inodes[v]) \in Inode
      /\ Released(d.inodes[v]).type = d.inodes[v].type
      /\ \A a \in Ptrs : Released(d.inodes[v]).direct[a] \in {d.inodes[v].direct[a], NoBlock}
  <2>1. d.inodes[v] \in Inode
    BY <1>1
  <2>2. Released(d.inodes[v]).type = d.inodes[v].type
    BY <2>1 DEF Released, Inode
  <2> QED
    BY <2>1, <2>2, ReleasedInode
<1>3. /\ after \in [Inodes -> Inode]
      /\ \A j \in Inodes : after[j] = IF j = v THEN Released(d.inodes[v]) ELSE d.inodes[j]
  BY <1>1, <1>2
<1> HIDE DEF after
<1>4. /\ \A j \in Inodes : after[j].type = d.inodes[j].type
      /\ \A a \in Ptrs : after[p].direct[a] \in {d.inodes[p].direct[a], NoBlock}
  BY <1>2, <1>3
<1>5. /\ \A j \in Inodes : less[j].type = after[j].type
      /\ \A j \in Inodes \ {p} : less[j] = after[j]
      /\ \A a \in Ptrs : less[p].direct[a] \in {after[p].direct[a], NoBlock}
  <2>1. \A j \in Inodes \ {p} : less[j] = after[j]
    BY <1>3
  <2>2. less[p] = [after[p] EXCEPT !.direct[i] = NoBlock, !.size = @ - EntriesPerBlock]
    BY <1>3
  <2>3. after[p] \in Inode
    BY <1>3
  <2> HIDE DEF less
  <2>4. less[p].type = after[p].type
    BY <2>2, <2>3 DEF Inode
  <2>5. \A a \in Ptrs : less[p].direct[a] \in {after[p].direct[a], NoBlock}
    BY <2>2, <2>3 DEF Inode
  <2> QED
    BY <2>1, <2>4, <2>5
<1>6. m.inodeBitmap = d.inodeBitmap \ {v} /\ m.inodes = IF emptied THEN less ELSE after
  BY DEF Removed, after
<1> HIDE DEF less
<1> QED
  BY <1>3, <1>4, <1>5, <1>6

LEMMA RemovedSpares ==
  ASSUME NEW d, Usable(d), NEW p \in Inodes, d.inodes[p].type = Directory, NEW v \in Inodes,
         NEW at, at \div EntriesPerBlock \in Ptrs, NEW emptied, NEW made,
         NEW m, m = Removed(d, p, v, at, emptied)
  PROVE  Spares(d, m, made)
<1>1. /\ m.inodeBitmap = d.inodeBitmap \ {v}
      /\ \A j \in Inodes : m.inodes[j].type = d.inodes[j].type
      /\ \A j \in Inodes \ {p, v} : m.inodes[j] = d.inodes[j]
      /\ \A j \in Inodes \ {p} : j = v => m.inodes[j] = Released(d.inodes[v])
  BY RemovedInodes DEF Usable, Sound, Meta, Metadata
<1>2. /\ d.inodes \in [Inodes -> Inode] /\ d.inodeBitmap \in SUBSET Inodes /\ Tidy(d.inodes)
      /\ Directory # RegularFile
  BY DEF Usable, Sound, Meta, Metadata, Directory, RegularFile
<1>3. Tidy(m.inodes)
  <2>1. SUFFICES ASSUME NEW j \in Inodes, NEW a \in Ptrs, m.inodes[j].type = RegularFile,
                        m.inodes[j].direct[a] \in DataBlocks
                 PROVE  a < BlocksFor(m.inodes[j].size)
    BY DEF Tidy
  <2>2. j # p /\ d.inodes[j].type = RegularFile
    BY <1>1, <1>2, <2>1
  <2>3. CASE j # v
    <3>1. m.inodes[j] = d.inodes[j]
      BY <1>1, <2>2, <2>3
    <3> QED
      BY <3>1, <2>1, <1>2 DEF Tidy
  <2>4. CASE j = v
    <3>1. m.inodes[j].direct[a] = IF a < BlocksFor(d.inodes[v].size) THEN NoBlock
                                  ELSE d.inodes[v].direct[a]
      BY <1>1, <1>2, <2>2, <2>4, ReleasedInode
    <3>2. d.inodes[v].direct[a] \in DataBlocks /\ ~(a < BlocksFor(d.inodes[v].size))
      BY <3>1, <2>1, Layout
    <3> QED
      BY <3>2, <2>2, <2>4, <1>2 DEF Tidy
  <2> QED
    BY <2>3, <2>4
<1>4. \A j \in m.inodeBitmap :
        d.inodes[j].type = RegularFile /\ j # made => m.inodes[j] = d.inodes[j]
  BY <1>1, <1>2
<1> QED
  BY <1>3, <1>4 DEF Spares

LEMMA UnlinkWrites ==
  ASSUME NEW d, Usable(d), NEW p, NEW n, NEW heap \in [HeapRange(d, p) -> HeapCells],
         NEW lucky, NEW plan, plan = UnlinkPlan(d, p, n, heap, lucky), ~IsRefused(plan),
         NEW made
  PROVE  /\ plan.writes \in Seq(Safe(d)) /\ plan.ret \in Int
         /\ Spares(d, plan.mem, made)
         /\ n \in Names /\ p \in Inodes
<1> DEFINE ino     == d.inodes[p]
           data    == DirData(d, p, heap)
           at      == EntryNamed(data, ino, n)
           v       == data[at].inum
           data1   == [data EXCEPT ![at].name = ""]
           emptied == BlockEmpty(data1, at \div EntriesPerBlock)
           m       == Removed(d, p, v, at, emptied)
           writes  == WriteBack(m.inodes[p], BlocksFor(ino.size), data1, ino.size)
<1>1. \A x : IsRefused(Refuse(d, x))
  BY DEF IsRefused, Refuse, Plan
<1>2. /\ p \in Inodes /\ n \in Names /\ ino.type = Directory /\ ~Unreadable(ino)
      /\ ~(ino.size < 0) /\ at # -1 /\ v \in Inodes
      /\ plan = UnlinkEntry(d, p, v, at, data, lucky)
  BY <1>1 DEF UnlinkPlan
<1>3. \/ plan = Plan(Aborts, writes, FALSE, Meta(d))
      \/ plan = Plan(0, writes, TRUE, m)
  BY <1>1, <1>2 DEF UnlinkEntry
<1>4. d.inodes \in [Inodes -> Inode] /\ ino \in Inode /\ ino.size \in Int /\ Sound(d)
  BY <1>2 DEF Usable, Sound, Meta, Metadata, Inode
<1>5. at \in 0 .. ino.size - 1
  <2> DEFINE hits == {e \in 0 .. ino.size - 1 : data[e].name = n}
  <2>1. hits \in SUBSET Nat /\ at = First(hits)
    BY DEF EntryNamed
  <2> HIDE DEF hits, at
  <2>2. at \in hits
    BY <1>2, <2>1, FirstIsElement
  <2> QED
    BY <2>2 DEF hits
<1> HIDE DEF at
<1>6. at \div EntriesPerBlock \in Ptrs
  BY <1>2, <1>4, <1>5, EntryInBlocks
<1>7. Spares(d, m, made)
  <2> HIDE DEF emptied, v, data, data1
  <2> QED
    BY <1>2, <1>6, RemovedSpares
<1>8. \A e \in 0 .. Limit(ino.size) - 1 : data1[e] \in Cell
  <2>1. SUFFICES ASSUME NEW e \in 0 .. Limit(ino.size) - 1 PROVE data1[e] \in Cell
    OBVIOUS
  <2>2. e \in DOMAIN data /\ data[e] \in Cell
    BY <1>2, DirDataCells
  <2> HIDE DEF data
  <2>3. data1[e] = IF e = at THEN [data[e] EXCEPT !.name = ""] ELSE data[e]
    BY <2>2
  <2>4. "" \in CellNames
    BY Cells
  <2> QED
    BY <2>2, <2>3, <2>4 DEF Cell
<1>9. writes \in Seq(Safe(d))
  <2>1. \A a \in Ptrs : m.inodes[p].direct[a] \in {d.inodes[p].direct[a], NoBlock}
    <3> HIDE DEF emptied, v, data, data1
    <3> QED
      BY <1>2, <1>4, <1>6, RemovedInodes
  <2> HIDE DEF data1, m
  <2> QED
    BY <1>2, <1>8, <2>1, WriteBackIsSafe
<1> HIDE DEF writes, m
<1>10. CASE plan = Plan(Aborts, writes, FALSE, Meta(d))
  BY <1>2, <1>9, <1>10, MetaSpares DEF Plan, Aborts
<1>11. CASE plan = Plan(0, writes, TRUE, m)
  BY <1>2, <1>7, <1>9, <1>11 DEF Plan
<1> QED
  BY <1>3, <1>10, <1>11
----------------------------------------------------------------------------
(***************************************************************************)
(* The invariant Contents, step by step.                                   *)
(***************************************************************************)
LEMMA Counters ==
  /\ 0 \in 0 .. DirectPtrs + InodeRegionLen
  /\ DirectPtrs \in Nat /\ InodeRegionLen \in Nat /\ EntriesPerBlock \in Nat
  /\ \A n \in Nat : BlocksFor(n) \in Nat
<1>1. DirectPtrs \in Nat /\ InodeRegionLen \in Nat /\ EntriesPerBlock \in Nat /\ EntriesPerBlock > 0
  BY UFSAssumption, Layout
<1>2. ASSUME NEW n \in Nat
      PROVE  BlocksFor(n) \in Nat
  <2>1. n + EntriesPerBlock - 1 \in Nat
    BY <1>1
  <2> QED
    BY <1>1, <2>1, Division DEF BlocksFor
<1> QED
  BY <1>1, <1>2

LEMMA DiskIsUsable == Kept /\ pc = "idle" => Usable(disk)
<1>1. Kept /\ pc = "idle" => Sound(disk)
  BY DiskIsSound DEF Kept, GivingBack
<1> QED
  BY <1>1 DEF Kept, Contents, TypeOK, Image, WriteSoFar, Usable

LEMMA ReturnKeeps ==
  ASSUME Return(disk'), disk' \in Image, Tidy(disk'.inodes)
  PROVE  Contents'
<1>1. /\ pc' = "idle" /\ job' = NoJob /\ pending' = <<>> /\ k' = 0 /\ mem' = Meta(disk')
  BY DEF Return
<1>2. mem' \in Metadata /\ mem'.inodes = disk'.inodes
  BY <1>1 DEF Meta, Image, Metadata
<1>3. TypeOK'
  BY <1>1, <1>2, Counters DEF TypeOK, Jobs
<1>4. FilesApart'
  BY <1>1, <1>2 DEF FilesApart
<1>5. WriteSoFar'
  BY <1>1, <1>2 DEF WriteSoFar
<1> QED
  BY <1>3, <1>4, <1>5 DEF Contents

LEMMA SafeWrites == \A d : Seq(Safe(d)) \subseteq Seq([addr : DataBlocks, cells : Block])
<1>1. \A d : Safe(d) \subseteq [addr : DataBlocks, cells : Block]
  BY DEF Safe, Harmless
<1>2. ASSUME NEW S, NEW T, S \subseteq T, NEW s \in Seq(S)
      PROVE  s \in Seq(T)
  <2>1. Len(s) \in Nat /\ s = [x \in 1 .. Len(s) |-> s[x]] /\ \A x \in 1 .. Len(s) : s[x] \in T
    BY <1>2
  <2> QED
    BY <2>1
<1> QED
  BY <1>1, <1>2

LEMMA StartKeeps ==
  ASSUME Kept, pc = "idle", NEW j \in Jobs, j.op \in {"create", "unlink"},
         NEW plan, Start(j, plan),
         ~IsRefused(plan) =>
            /\ plan.writes \in Seq(Safe(disk)) /\ plan.mem \in Metadata
            /\ \A made : j.op = "unlink" \/ made = j.ret => Spares(disk, plan.mem, made)
  PROVE  Contents'
<1>1. CASE UNCHANGED vars
  BY <1>1 DEF Kept, vars, Contents, TypeOK, FilesApart, WriteSoFar, Written, About
<1>2. CASE ~IsRefused(plan) /\ Proceed(j, plan)
  <2>1. /\ job' = j /\ pending' = plan.writes /\ mem' = plan.mem
        /\ pc' = (IF plan.writes = <<>> THEN "inodeBitmap" ELSE "blocks")
        /\ disk' = disk /\ k' = k
    BY <1>2 DEF Proceed
  <2>2. /\ plan.writes \in Seq(Safe(disk)) /\ plan.mem \in Metadata
        /\ \A made : j.op = "unlink" \/ made = j.ret => Spares(disk, plan.mem, made)
    BY <1>2
  <2>3. TypeOK'
    BY <2>1, <2>2, SafeWrites DEF Kept, Contents, TypeOK
  <2>4. FilesApart'
    <3>1. pc' = "blocks" => pending' # <<>> /\ pending' \in Seq(Safe(disk'))
      BY <2>1, <2>2
    <3>2. ASSUME NEW i \in mem'.inodeBitmap, disk'.inodes[i].type = RegularFile, ~About(i)'
          PROVE  mem'.inodes[i] = disk'.inodes[i]
      <4>1. j.op = "create" => i # j.ret
        BY <2>1, <3>2 DEF About
      <4>2. CASE j.op = "create"
        <5>1. Spares(disk, plan.mem, j.ret)
          BY <2>2
        <5> QED
          BY <2>1, <3>2, <4>1, <4>2, <5>1 DEF Spares
      <4>3. CASE j.op = "unlink"
        <5>1. Spares(disk, plan.mem, -1)
          BY <2>2, <4>3
        <5>2. i # -1
          <6>1. i \in Inodes
            BY <2>1, <2>2 DEF Metadata
          <6> QED
            BY <6>1 DEF Inodes
        <5> QED
          BY <2>1, <3>2, <5>1, <5>2 DEF Spares
      <4> QED
        BY <4>2, <4>3
    <3> QED
      BY <2>1, <3>1, <3>2 DEF FilesApart, Safe
  <2>5. WriteSoFar'
    <3>1. Tidy(plan.mem.inodes)
      BY <2>2 DEF Spares
    <3> QED
      BY <2>1, <3>1 DEF Kept, Contents, WriteSoFar
  <2> QED
    BY <2>3, <2>4, <2>5 DEF Contents
<1> QED
  BY <1>1, <1>2 DEF Start

LEMMA CreateKeeps ==
  ASSUME Kept, NEW p \in AnyInode, NEW type \in {Directory, RegularFile}, NEW n \in AnyName,
         Create(p, type, n)
  PROVE  Contents'
<1> DEFINE plan == CreatePlan(disk, p, type, n)
           j    == [op |-> "create", inum |-> p, type |-> type, name |-> n, ret |-> plan.ret]
<1>1. pc = "idle" /\ Start(j, plan)
  BY DEF Create
<1>2. Usable(disk) /\ Sound(disk)
  BY <1>1, DiskIsUsable DEF Usable
<1>3. ~IsRefused(plan) =>
        /\ plan.writes \in Seq(Safe(disk)) /\ plan.ret \in Int
        /\ Spares(disk, plan.mem, plan.ret)
  BY <1>2, CreateWrites
<1>4. plan.mem \in Metadata
  BY <1>2, CreateMeta DEF Follows
<1> HIDE DEF plan
<1>5. CASE IsRefused(plan)
  <2>1. UNCHANGED vars
    BY <1>1, <1>5 DEF Start
  <2> QED
    BY <2>1 DEF Kept, vars, Contents, TypeOK, FilesApart, WriteSoFar, Written, About
<1>6. CASE ~IsRefused(plan)
  <2>1. j \in Jobs /\ j.op = "create" /\ j.ret = plan.ret
    BY <1>3, <1>6 DEF Jobs
  <2> HIDE DEF j
  <2> QED
    BY <1>1, <1>3, <1>4, <1>6, <2>1, StartKeeps
<1> QED
  BY <1>5, <1>6

LEMMA UnlinkKeeps ==
  ASSUME Kept, NEW p \in AnyInode, NEW n \in AnyName, Unlink(p, n)
  PROVE  Contents'
<1>1. PICK heap \in [HeapRange(disk, p) -> HeapCells], lucky \in BOOLEAN :
        UnlinkWith(p, n, UnlinkPlan(disk, p, n, heap, lucky))
  BY DEF Unlink, UnlinkPlans
<1> DEFINE plan == UnlinkPlan(disk, p, n, heap, lucky)
           j    == [op |-> "unlink", inum |-> p, name |-> n, ret |-> plan.ret]
<1>2. pc = "idle" /\ Start(j, plan)
  BY <1>1 DEF UnlinkWith
<1>3. Usable(disk) /\ Sound(disk)
  BY <1>2, DiskIsUsable DEF Usable
<1>4. ~IsRefused(plan) =>
        /\ plan.writes \in Seq(Safe(disk)) /\ plan.ret \in Int
        /\ \A made : Spares(disk, plan.mem, made)
  BY <1>3, UnlinkWrites
<1>5. plan.mem \in Metadata
  BY <1>3, UnlinkMeta DEF Follows
<1> HIDE DEF plan
<1>6. CASE IsRefused(plan)
  <2>1. UNCHANGED vars
    BY <1>2, <1>6 DEF Start
  <2> QED
    BY <2>1 DEF Kept, vars, Contents, TypeOK, FilesApart, WriteSoFar, Written, About
<1>7. CASE ~IsRefused(plan)
  <2>1. j \in Jobs /\ j.op = "unlink"
    BY <1>4, <1>7 DEF Jobs
  <2> HIDE DEF j
  <2> QED
    BY <1>2, <1>4, <1>5, <1>7, <2>1, StartKeeps
<1> QED
  BY <1>6, <1>7
LEMMA WriteKeeps ==
  ASSUME Kept, NEW i \in AnyInode, NEW text \in FileCells, NEW size \in Int,
         Write(i, text, size)
  PROVE  Contents'
<1>1. CASE UNCHANGED vars
  BY <1>1 DEF Kept, vars, Contents, TypeOK, FilesApart, WriteSoFar, Written, About
<1>2. CASE /\ WriteError(disk, i, size) = 0 /\ pc' = "write"
           /\ job' = [op |-> "write", inum |-> i, text |-> text, ret |-> size]
           /\ UNCHANGED <<disk, pending, mem, k>>
  <2>0. -EINVALIDSIZE # 0 /\ -EINVALIDINODE # 0 /\ -EINVALIDTYPE # 0
    BY DEF EINVALIDSIZE, EINVALIDINODE, EINVALIDTYPE
  <2>1. /\ size >= 0 /\ i \in Inodes /\ disk.inodes[i].type = RegularFile
        /\ BlocksFor(size) <= DirectPtrs
    <3>1. /\ ~(size < 0) /\ i \in Inodes /\ disk.inodes[i].type = RegularFile
          /\ ~(BlocksFor(size) > DirectPtrs)
      BY <1>2, <2>0 DEF WriteError, StatFails
    <3>2. BlocksFor(size) \in Int /\ DirectPtrs \in Nat
      BY BlocksForInt, Counters
    <3> QED
      BY <3>1, <3>2
  <2>2. pc = "idle" /\ k = 0 /\ mem.inodes = disk.inodes /\ mem.inodeBitmap = disk.inodeBitmap
    BY DEF Write, Kept, Ownership, Control, Meta
  <2>3. job' \in Jobs
    BY <1>2, <2>1 DEF Jobs
  <2>4. TypeOK'
    BY <1>2, <2>3 DEF Kept, Contents, TypeOK
  <2>5. FilesApart'
    BY <1>2, <2>2 DEF FilesApart
  <2>6. WriteSoFar'
    <3>1. Tidy(disk.inodes)
      BY DEF Kept, Contents, WriteSoFar
    <3>2. size \in Nat /\ BlocksFor(size) \in Nat
      BY <2>1, Counters
    <3>3. \A a \in Ptrs : mem.inodes[i].direct[a] \in DataBlocks => a < BlocksFor(mem.inodes[i].size)
      BY <2>1, <2>2, <3>1 DEF Tidy
    <3>4. k' \in 0 .. BlocksFor(size) /\ 0 .. k' - 1 = {}
      BY <1>2, <2>2, <3>2
    <3> QED
      BY <1>2, <2>1, <3>1, <3>2, <3>3, <3>4 DEF WriteSoFar
  <2> QED
    BY <2>4, <2>5, <2>6 DEF Contents
<1> QED
  BY <1>1, <1>2 DEF Write

\* What the loop of write() has at hand.
LEMMA InTheLoop ==
  ASSUME Kept, InLoop
  PROVE  /\ pc = "write" /\ job.op = "write" /\ job.inum \in Inodes /\ job.text \in FileCells
         /\ job.ret \in Nat /\ BlocksFor(job.ret) \in Nat /\ BlocksFor(job.ret) <= DirectPtrs
         /\ k \in Nat /\ k \in Ptrs /\ k < BlocksFor(job.ret) /\ k + 1 \in 0 .. BlocksFor(job.ret)
         /\ k + 1 \in 0 .. DirectPtrs + InodeRegionLen
         /\ Chunk(job.text, job.ret, k) \in Block
<1>1. pc = "write" /\ k < BlocksFor(job.ret)
  BY DEF InLoop
<1>2. /\ job.op = "write" /\ job.ret \in Nat /\ BlocksFor(job.ret) <= DirectPtrs
      /\ k \in 0 .. BlocksFor(job.ret)
  BY <1>1 DEF Kept, Ownership, Control, Contents, WriteSoFar
<1>3. job.inum \in Inodes /\ job.text \in FileCells
  BY <1>2 DEF Kept, Contents, TypeOK, Jobs, NoJob
<1>4. BlocksFor(job.ret) \in Nat /\ DirectPtrs \in Nat /\ InodeRegionLen \in Nat
  BY <1>2, Counters
<1>5. job.text \in Cell /\ ZeroCell \in Cell
  BY <1>3, Cells
<1>6. Chunk(job.text, job.ret, k) \in Block
  BY <1>5 DEF Chunk, Block
<1> QED
  BY <1>1, <1>2, <1>3, <1>4, <1>6 DEF Ptrs

\* One more block of the body is on the disk: block b, which the inode in
\* memory has at index k and no other index of it has.
LEMMA OneChunk ==
  ASSUME Kept, InLoop, NEW b \in DataBlocks, PutChunk(b), k' = k + 1,
         UNCHANGED <<pc, job, pending>>, mem' \in Metadata,
         mem'.inodeBitmap = mem.inodeBitmap,
         \A j \in Inodes \ {job.inum} : mem'.inodes[j] = mem.inodes[j],
         mem'.inodes[job.inum].size = mem.inodes[job.inum].size,
         mem'.inodes[job.inum].direct[k] = b,
         \A a \in Ptrs \ {k} :
            /\ mem'.inodes[job.inum].direct[a] = mem.inodes[job.inum].direct[a]
            /\ mem.inodes[job.inum].direct[a] # b
  PROVE  Contents'
<1>1. /\ pc = "write" /\ job.op = "write" /\ job.inum \in Inodes
      /\ job.ret \in Nat /\ BlocksFor(job.ret) \in Nat /\ BlocksFor(job.ret) <= DirectPtrs
      /\ k \in Nat /\ k \in Ptrs /\ k + 1 \in 0 .. BlocksFor(job.ret)
      /\ k + 1 \in 0 .. DirectPtrs + InodeRegionLen
      /\ Chunk(job.text, job.ret, k) \in Block
  BY InTheLoop
<1>2. disk \in Image /\ TypeOK /\ FilesApart /\ WriteSoFar
  BY DEF Kept, Contents, TypeOK
<1>3. /\ disk'.blocks = [disk.blocks EXCEPT ![b] = Chunk(job.text, job.ret, k)]
      /\ disk'.inodes = disk.inodes /\ disk'.inodeBitmap = disk.inodeBitmap /\ disk' \in Image
  <2> DEFINE c == Chunk(job.text, job.ret, k)
  <2>1. disk' = [disk EXCEPT !.blocks[b] = c] /\ c \in Block
    BY <1>1 DEF PutChunk
  <2> HIDE DEF c
  <2>2. /\ disk'.blocks = [disk.blocks EXCEPT ![b] = c]
        /\ disk'.inodes = disk.inodes /\ disk'.inodeBitmap = disk.inodeBitmap /\ disk' \in Image
    BY <1>2, <2>1 DEF Image
  <2> QED
    BY <2>2 DEF c
<1>4. TypeOK'
  BY <1>1, <1>2, <1>3 DEF TypeOK
<1>5. FilesApart'
  <2>1. mem.inodeBitmap \subseteq Inodes
    BY <1>2 DEF TypeOK, Metadata
  <2> QED
    BY <1>1, <1>2, <1>3, <2>1 DEF FilesApart, About
<1>6. \A a \in 0 .. k : Written(a)'
  <2>1. SUFFICES ASSUME NEW a \in 0 .. k PROVE Written(a)'
    OBVIOUS
  <2>2. a \in Ptrs
    BY <1>1, Counters DEF Ptrs
  <2>3. CASE a = k
    <3>1. disk'.blocks[b] = Chunk(job.text, job.ret, k)
      BY <1>2, <1>3 DEF Image
    <3> QED
      BY <2>3, <3>1 DEF Written
  <2>4. CASE a # k
    <3>1. Written(a) /\ mem'.inodes[job.inum].direct[a] = mem.inodes[job.inum].direct[a]
          /\ mem.inodes[job.inum].direct[a] # b
      BY <1>1, <1>2, <2>2, <2>4 DEF WriteSoFar
    <3>2. disk'.blocks[mem.inodes[job.inum].direct[a]] = disk.blocks[mem.inodes[job.inum].direct[a]]
      BY <1>2, <1>3, <3>1 DEF Image, Written
    <3> QED
      BY <3>1, <3>2 DEF Written
  <2> QED
    BY <2>3, <2>4
<1>7. WriteSoFar'
  <2>1. 0 .. k' - 1 = 0 .. k /\ k' \in 0 .. BlocksFor(job.ret)
    BY <1>1
  <2>2. ASSUME NEW a \in Ptrs, mem'.inodes[job.inum].direct[a] \in DataBlocks
        PROVE  a < k' \/ a < BlocksFor(mem'.inodes[job.inum].size)
    <3>1. CASE a = k
      BY <3>1, <1>1
    <3>2. CASE a # k
      <4>1. mem.inodes[job.inum].direct[a] \in DataBlocks
        BY <2>2, <3>2
      <4>2. a < k \/ a < BlocksFor(mem.inodes[job.inum].size)
        BY <1>1, <1>2, <4>1 DEF WriteSoFar
      <4>3. a \in Int
        BY DEF Ptrs
      <4> QED
        BY <1>1, <4>2, <4>3
    <3> QED
      BY <3>1, <3>2
  <2> QED
    BY <1>1, <1>2, <1>3, <1>6, <2>1, <2>2 DEF WriteSoFar
<1> QED
  BY <1>4, <1>5, <1>7 DEF Contents

LEMMA WriteReuseKeeps == Kept /\ WriteReuse => Contents'
<1> SUFFICES ASSUME Kept, WriteReuse PROVE Contents'
  OBVIOUS
<1> DEFINE b == mem.inodes[job.inum].direct[k]
<1>1. /\ InLoop /\ b \in DataBlocks /\ PutChunk(b) /\ k' = k + 1
      /\ UNCHANGED <<pc, job, pending, mem>>
  BY DEF WriteReuse
<1>2. job.inum \in Inodes /\ k \in Ptrs
  BY <1>1, InTheLoop
<1>3. mem \in Metadata /\ Unshared(mem.inodes)
  BY DEF Kept, Ownership, Structure, Owners
<1>4. \A a \in Ptrs \ {k} : mem.inodes[job.inum].direct[a] # b
  BY <1>1, <1>2, <1>3 DEF Unshared
<1> QED
  BY <1>1, <1>3, <1>4, OneChunk

LEMMA WriteAllocateKeeps == Kept /\ WriteAllocate => Contents'
<1> SUFFICES ASSUME Kept, WriteAllocate PROVE Contents'
  OBVIOUS
<1> DEFINE b == Least(DataBlocks \ mem.dataBitmap)
<1>1. /\ InLoop /\ PutChunk(b) /\ k' = k + 1
      /\ mem' = WithChunk(mem, job.inum, k, b)
      /\ mem.dataBitmap # DataBlocks
      /\ UNCHANGED <<pc, job, pending>>
  BY DEF WriteAllocate, WithChunk
<1>2. job.inum \in Inodes /\ k \in Ptrs
  BY <1>1, InTheLoop
<1>3. mem \in Metadata /\ Marked(mem.inodes, mem.dataBitmap)
  BY DEF Kept, Ownership, Structure, Owners
<1>4. b \in DataBlocks /\ b \notin mem.dataBitmap
  <2>1. DataBlocks \ mem.dataBitmap \in SUBSET Nat
    BY Layout
  <2>2. DataBlocks \ mem.dataBitmap # {}
    BY <1>1, <1>3 DEF Metadata
  <2> QED
    BY <2>1, <2>2, LeastIsMinimum
<1> HIDE DEF b
<1>5. mem' \in Metadata
  BY <1>1, <1>2, <1>3, <1>4, ChunkPointer
<1>6. /\ mem'.inodeBitmap = mem.inodeBitmap
      /\ mem'.inodes = [mem.inodes EXCEPT ![job.inum].direct[k] = b]
  BY <1>1, <1>3 DEF WithChunk, Metadata
<1>7. /\ \A j \in Inodes \ {job.inum} : mem'.inodes[j] = mem.inodes[j]
      /\ mem'.inodes[job.inum] = [mem.inodes[job.inum] EXCEPT !.direct[k] = b]
      /\ mem.inodes[job.inum] \in Inode
  BY <1>2, <1>3, <1>6 DEF Metadata
<1>8. /\ mem'.inodes[job.inum].size = mem.inodes[job.inum].size
      /\ mem'.inodes[job.inum].direct[k] = b
      /\ \A a \in Ptrs \ {k} :
           mem'.inodes[job.inum].direct[a] = mem.inodes[job.inum].direct[a]
  <2>1. DOMAIN mem.inodes[job.inum].direct = Ptrs
    BY <1>7 DEF Inode
  <2> QED
    BY <1>2, <1>7, <2>1 DEF Inode
<1>9. \A a \in Ptrs \ {k} : mem.inodes[job.inum].direct[a] # b
  BY <1>2, <1>3, <1>4 DEF Marked
<1> QED
  BY <1>1, <1>4, <1>5, <1>6, <1>7, <1>8, <1>9, OneChunk
LEMMA WriteFailsKeeps == Kept /\ WriteFails => Contents'
<1> SUFFICES ASSUME Kept, WriteFails PROVE Contents'
  OBVIOUS
<1>1. disk' = disk /\ Return(disk')
  BY DEF WriteFails, Return
<1> QED
  BY <1>1, ReturnKeeps DEF Kept, Contents, TypeOK, WriteSoFar

\* The inode that write() leaves in memory has the blocks of the body only.
LEMMA WriteTrimKeeps == Kept /\ WriteTrim => Contents'
<1> SUFFICES ASSUME Kept, WriteTrim PROVE Contents'
  OBVIOUS
<1> DEFINE i    == job.inum
           ino  == mem.inodes[i]
           need == BlocksFor(job.ret)
           drop == {a \in Held(ino, BlocksFor(ino.size)) : a >= need}
           ptrs == [a \in Ptrs |-> IF a \in drop THEN NoBlock ELSE ino.direct[a]]
           new  == Changed(ino, job.ret, ptrs)
<1>1. pc = "write" /\ k = need /\ disk' = disk
  BY DEF WriteTrim
<1>2. CASE Return(disk)
  <2>1. Return(disk')
    BY <1>1, <1>2 DEF Return
  <2> QED
    BY <1>1, <2>1, ReturnKeeps DEF Kept, Contents, TypeOK, WriteSoFar
<1>3. CASE /\ pc' = "dataBitmap" /\ k' = 0 /\ job' = job /\ pending' = pending
           /\ mem' = Trimmed(mem, i, job.ret, drop)
  <2>1. /\ job.op = "write" /\ i \in Inodes /\ job.ret \in Nat /\ need <= DirectPtrs
        /\ need \in Nat
    BY <1>1, Counters DEF Kept, Ownership, Control, Contents, WriteSoFar
  <2>2. /\ mem \in Metadata /\ Unshared(mem.inodes) /\ Marked(mem.inodes, mem.dataBitmap)
    BY DEF Kept, Ownership, Structure, Owners
  <2>3. drop \in SUBSET Ptrs /\ job.ret \in Int
    BY <2>1 DEF Held
  <2>4. mem' \in Metadata
    <3> HIDE DEF drop
    <3> QED
      BY <1>3, <2>1, <2>2, <2>3, TrimmedMeta
  <2>5. ino \in Inode /\ ptrs \in [Ptrs -> Int]
    <3>1. ino \in Inode
      BY <2>1, <2>2 DEF Metadata
    <3> HIDE DEF ino, drop
    <3> QED
      BY <3>1, Layout DEF Inode
  <2>6. /\ mem'.inodeBitmap = mem.inodeBitmap /\ mem'.inodes[i] = new
        /\ \A j \in Inodes \ {i} : mem'.inodes[j] = mem.inodes[j]
    <3>1. /\ mem'.inodeBitmap = mem.inodeBitmap
          /\ mem'.inodes = [mem.inodes EXCEPT ![i] = new]
      BY <1>3, <2>2 DEF Trimmed, Changed, Metadata
    <3> HIDE DEF new
    <3> QED
      BY <2>1, <2>2, <3>1 DEF Metadata
  <2>7. new.size = job.ret /\ new.direct = ptrs
    <3> HIDE DEF ino, ptrs
    <3> QED
      BY <2>5 DEF Changed, Inode
  <2> HIDE DEF new
  <2>8. \A a \in Ptrs : IF a < need THEN Written(a)' ELSE mem'.inodes[i].direct[a] \notin DataBlocks
    <3>1. SUFFICES ASSUME NEW a \in Ptrs
                   PROVE  IF a < need THEN Written(a)'
                          ELSE mem'.inodes[i].direct[a] \notin DataBlocks
      OBVIOUS
    <3>2. a \in Nat /\ mem'.inodes[i].direct[a] = IF a \in drop THEN NoBlock ELSE ino.direct[a]
      BY <2>6, <2>7 DEF Ptrs
    <3>3. CASE a < need
      <4>1. a \in 0 .. k - 1 /\ a \notin drop
        BY <1>1, <2>1, <3>2, <3>3
      <4>2. Written(a)
        BY <1>1, <4>1 DEF Kept, Contents, WriteSoFar
      <4> QED
        BY <1>1, <1>3, <3>2, <3>3, <4>1, <4>2 DEF Written
    <3>4. CASE ~(a < need)
      <4>1. SUFFICES ASSUME a \notin drop, ino.direct[a] \in DataBlocks PROVE FALSE
        BY <3>2, <3>4, Layout
      <4>2. a < BlocksFor(ino.size)
        BY <1>1, <3>4, <4>1 DEF Kept, Contents, WriteSoFar
      <4> QED
        BY <2>1, <3>2, <3>4, <4>1, <4>2, Layout DEF Held
    <3> QED
      BY <3>3, <3>4
  <2>9. Tidy(mem'.inodes)
    <3>1. SUFFICES ASSUME NEW j \in Inodes, NEW a \in Ptrs, mem'.inodes[j].type = RegularFile,
                          mem'.inodes[j].direct[a] \in DataBlocks
                   PROVE  a < BlocksFor(mem'.inodes[j].size)
      BY DEF Tidy
    <3>2. CASE j = i
      BY <2>6, <2>7, <2>8, <3>1, <3>2
    <3>3. CASE j # i
      <4>1. mem'.inodes[j] = disk.inodes[j]
        BY <1>1, <2>1, <2>6, <3>3 DEF Kept, Ownership, Control
      <4> QED
        BY <3>1, <4>1 DEF Kept, Contents, WriteSoFar, Tidy
    <3> QED
      BY <3>2, <3>3
  <2>10. TypeOK'
    BY <1>1, <1>3, <2>4, Counters DEF Kept, Contents, TypeOK
  <2>11. FilesApart'
    <3>1. mem.inodeBitmap \subseteq Inodes
      BY <2>2 DEF Metadata
    <3> QED
      BY <1>1, <1>3, <2>1, <2>6, <3>1 DEF Kept, Contents, FilesApart, About
  <2>12. WriteSoFar'
    <3>1. /\ job' = job /\ disk' = disk /\ pc' = "dataBitmap" /\ mem'.inodes[job.inum].size = job.ret
      BY <1>1, <1>3, <2>6, <2>7
    <3>2. Tidy(disk.inodes)
      BY DEF Kept, Contents, WriteSoFar
    <3> QED
      BY <2>1, <2>8, <2>9, <3>1, <3>2 DEF WriteSoFar
  <2> QED
    BY <2>10, <2>11, <2>12 DEF Contents
<1> QED
  BY <1>2, <1>3 DEF WriteTrim, Trimmed

LEMMA FlushBlockKeeps == Kept /\ FlushBlock => Contents'
<1> SUFFICES ASSUME Kept, FlushBlock PROVE Contents'
  OBVIOUS
<1> DEFINE h == Head(pending)
<1>1. /\ pc = "blocks" /\ job.op # "write" /\ TypeOK /\ FilesApart /\ WriteSoFar
  BY DEF FlushBlock, Kept, Ownership, Control, Contents
<1>2. /\ pending # <<>> /\ pending \in Seq(Safe(disk))
  BY <1>1 DEF FilesApart, Safe
<1>3. h \in Safe(disk) /\ Tail(pending) \in Seq(Safe(disk))
  BY <1>2
<1>4. h.addr \in DataBlocks /\ h.cells \in Block
  <2> HIDE DEF h
  <2> QED
    BY <1>3 DEF Safe, Harmless
<1>5. /\ disk'.inodes = disk.inodes /\ disk'.inodeBitmap = disk.inodeBitmap
      /\ disk' \in Image
  <2>1. disk' = [disk EXCEPT !.blocks[h.addr] = h.cells] /\ disk \in Image
    BY <1>1 DEF FlushBlock, TypeOK
  <2> HIDE DEF h
  <2> QED
    BY <2>1, <1>4 DEF Image
<1>6. Tidy(disk'.inodes)
  BY <1>1, <1>5 DEF WriteSoFar
<1>7. CASE Return(disk')
  BY <1>5, <1>6, <1>7, ReturnKeeps
<1>8. CASE /\ pending' = Tail(pending)
           /\ pc' = (IF Tail(pending) = <<>> THEN "inodeBitmap" ELSE "blocks")
           /\ UNCHANGED <<job, mem, k>>
  <2>1. TypeOK'
    <3>1. pending' \in Seq([addr : DataBlocks, cells : Block])
      BY <1>3, <1>8, SafeWrites
    <3> QED
      BY <3>1, <1>1, <1>5, <1>8 DEF TypeOK
  <2>2. Safe(disk') = Safe(disk)
    BY <1>5 DEF Safe, Harmless
  <2>3. FilesApart'
    <3>1. pc' = "blocks" => pending' # <<>> /\ pending' \in Seq(Safe(disk'))
      BY <1>3, <1>8, <2>2
    <3> QED
      BY <3>1, <1>1, <1>5, <1>8 DEF FilesApart, About, Safe
  <2>4. WriteSoFar'
    BY <1>1, <1>6, <1>8 DEF WriteSoFar
  <2> QED
    BY <2>1, <2>3, <2>4 DEF Contents
<1> QED
  BY <1>7, <1>8 DEF FlushBlock

LEMMA FlushInodeBitmapKeeps == Kept /\ FlushInodeBitmap => Contents'
<1> SUFFICES ASSUME Kept, FlushInodeBitmap PROVE Contents'
  OBVIOUS
<1>1. /\ pc = "inodeBitmap" /\ job.op # "write" /\ TypeOK /\ FilesApart /\ WriteSoFar
      /\ pc' = "dataBitmap" /\ UNCHANGED <<job, pending, mem, k>>
      /\ disk' = [disk EXCEPT !.inodeBitmap = mem.inodeBitmap]
  BY DEF FlushInodeBitmap, Kept, Ownership, Control, Contents
<1>2. /\ disk'.inodes = disk.inodes /\ disk'.inodeBitmap = mem.inodeBitmap /\ disk' \in Image
  BY <1>1 DEF TypeOK, Image, Metadata
<1>3. TypeOK'
  BY <1>1, <1>2 DEF TypeOK
<1>4. FilesApart'
  BY <1>1, <1>2 DEF FilesApart, About
<1>5. WriteSoFar'
  BY <1>1, <1>2 DEF WriteSoFar
<1> QED
  BY <1>3, <1>4, <1>5 DEF Contents

LEMMA FlushDataBitmapKeeps == Kept /\ FlushDataBitmap => Contents'
<1> SUFFICES ASSUME Kept, FlushDataBitmap PROVE Contents'
  OBVIOUS
<1>1. mem' = mem
  BY FlushDataBitmapMem DEF Kept
<1>2. /\ pc = "dataBitmap" /\ TypeOK /\ FilesApart /\ WriteSoFar
      /\ pc' = "region" /\ UNCHANGED <<job, pending, mem, k>>
      /\ disk' = [disk EXCEPT !.dataBitmap = mem.dataBitmap]
  BY <1>1 DEF FlushDataBitmap, Kept, Contents
<1>3. /\ disk'.inodes = disk.inodes /\ disk'.inodeBitmap = disk.inodeBitmap
      /\ disk'.blocks = disk.blocks /\ disk' \in Image
  BY <1>2 DEF TypeOK, Image, Metadata
<1>4. TypeOK'
  BY <1>2, <1>3 DEF TypeOK
<1>5. FilesApart'
  BY <1>2, <1>3 DEF FilesApart, About
<1>6. WriteSoFar'
  BY <1>2, <1>3 DEF WriteSoFar, Written
<1> QED
  BY <1>4, <1>5, <1>6 DEF Contents

LEMMA FlushRegionKeeps == Kept /\ FlushRegion => Contents'
<1> SUFFICES ASSUME Kept, FlushRegion PROVE Contents'
  OBVIOUS
<1>1. /\ pc = "region" /\ TypeOK /\ FilesApart /\ WriteSoFar
      /\ k \in 0 .. InodeRegionLen - 1 /\ disk.inodeBitmap = mem.inodeBitmap
  BY DEF FlushRegion, Kept, Ownership, Control, Contents, FilesApart
<1> DEFINE new(i) == i \div InodesPerBlock = k
           inodes == [i \in Inodes |-> IF new(i) THEN mem.inodes[i] ELSE disk.inodes[i]]
<1>2. disk' = [disk EXCEPT !.inodes = inodes]
  BY DEF FlushRegion
<1>3. inodes \in [Inodes -> Inode]
  BY <1>1 DEF TypeOK, Image, Metadata
<1>4. \A i \in Inodes : inodes[i] = IF new(i) THEN mem.inodes[i] ELSE disk.inodes[i]
  OBVIOUS
<1> HIDE DEF new, inodes
<1>5. /\ disk'.inodes = inodes /\ disk'.inodeBitmap = disk.inodeBitmap
      /\ disk'.blocks = disk.blocks /\ disk' \in Image
  BY <1>1, <1>2, <1>3 DEF TypeOK, Image
<1>6. Tidy(disk'.inodes)
  <2>1. Tidy(disk.inodes) /\ Tidy(mem.inodes)
    BY <1>1 DEF WriteSoFar
  <2> QED
    BY <2>1, <1>4, <1>5 DEF Tidy
<1>7. CASE Return(disk')
  BY <1>5, <1>6, <1>7, ReturnKeeps
<1>8. CASE k + 1 # InodeRegionLen /\ k' = k + 1 /\ UNCHANGED <<pc, job, pending, mem>>
  <2>1. TypeOK'
    <3>1. k' \in 0 .. DirectPtrs + InodeRegionLen
      BY <1>1, <1>8, Counters
    <3> QED
      BY <3>1, <1>1, <1>5, <1>8 DEF TypeOK
  <2>2. FilesApart'
    <3>1. mem.inodeBitmap \subseteq Inodes
      BY <1>1 DEF TypeOK, Metadata
    <3> QED
      BY <3>1, <1>1, <1>4, <1>5, <1>8 DEF FilesApart, About
  <2>3. WriteSoFar'
    BY <1>1, <1>5, <1>6, <1>8 DEF WriteSoFar, Written
  <2> QED
    BY <2>1, <2>2, <2>3 DEF Contents
<1> QED
  BY <1>7, <1>8 DEF FlushRegion

LEMMA CrashKeeps == Kept /\ Crash => Contents'
<1> SUFFICES ASSUME Kept, Crash PROVE Contents'
  OBVIOUS
<1>1. disk' = disk /\ Return(disk')
  BY DEF Crash, Return
<1> QED
  BY <1>1, ReturnKeeps DEF Kept, Contents, TypeOK, WriteSoFar
\* The image of a fresh mkfs.
LEMMA InitKeeps == Init => Contents
<1> SUFFICES ASSUME Init PROVE Contents
  OBVIOUS
<1>1. PICK ino \in [Inodes -> StackInodes \cup {ZeroInode, RootInode}],
           rest \in [Slots -> StackNames] :
        /\ Formatted(ino)
        /\ disk = [inodeBitmap |-> {Root}, dataBitmap |-> {DataRegionAddr}, inodes |-> ino,
                   blocks |-> [b \in DataBlocks |->
                                 IF b = DataRegionAddr THEN RootBlock(rest) ELSE ZeroBlock]]
  BY DEF Init
<1>2. pc = "idle" /\ job = NoJob /\ pending = <<>> /\ k = 0 /\ mem = Meta(disk)
  BY DEF Init
<1>3. Meta(disk) \in Metadata
  BY InitOwns DEF Ownership, Structure
<1>4. RootBlock(rest) \in Block /\ ZeroBlock \in Block
  <2>1. \A s \in Slots : Entry(rest[s], -1) \in Cell
    <3>1. \A s \in Slots : rest[s] \in CellNames
      BY DEF CellNames
    <3>2. -1 \in Int
      OBVIOUS
    <3> QED
      BY <3>1, <3>2, Cells
  <2>2. Entry(".", Root) \in Cell /\ Entry("..", Root) \in Cell /\ ZeroCell \in Cell
    <3>1. "." \in CellNames /\ ".." \in CellNames /\ Root \in Int
      BY DEF CellNames, ValidNames, Root
    <3> QED
      BY <3>1, Cells
  <2> QED
    BY <2>1, <2>2 DEF RootBlock, ZeroBlock, Block
<1>5. disk \in Image
  <2>1. disk.blocks \in [DataBlocks -> Block]
    BY <1>1, <1>4
  <2>2. disk.inodeBitmap \in SUBSET Inodes /\ disk.dataBitmap \in SUBSET DataBlocks
        /\ disk.inodes \in [Inodes -> Inode]
    BY <1>3 DEF Meta, Metadata
  <2>3. disk = [inodeBitmap |-> disk.inodeBitmap, dataBitmap |-> disk.dataBitmap,
                inodes |-> disk.inodes, blocks |-> disk.blocks]
    BY <1>1
  <2> QED
    BY <2>1, <2>2, <2>3 DEF Image
<1>6. Tidy(disk.inodes)
  <2>1. SUFFICES ASSUME NEW i \in Inodes, NEW a \in Ptrs, ino[i].type = RegularFile,
                        ino[i].direct[a] \in DataBlocks
                 PROVE  FALSE
    BY <1>1 DEF Tidy
  <2>2. ino[i] \in StackInodes
    BY <2>1 DEF ZeroInode, RootInode, Directory, RegularFile
  <2> QED
    BY <2>1, <2>2, LFSAssumption
<1>7. TypeOK
  BY <1>2, <1>3, <1>5, Counters DEF TypeOK, Jobs
<1>8. FilesApart
  BY <1>2 DEF FilesApart, Meta
<1>9. WriteSoFar
  BY <1>2, <1>6 DEF WriteSoFar, Meta
<1> QED
  BY <1>7, <1>8, <1>9 DEF Contents

LEMMA NextKeeps == Kept /\ [RestartNext]_vars => Kept'
<1> SUFFICES ASSUME Kept, [RestartNext]_vars PROVE Contents'
  BY NextOwns DEF Kept
<1>1. CASE \E p \in AnyInode, type \in {Directory, RegularFile}, n \in AnyName : Create(p, type, n)
  BY <1>1, CreateKeeps
<1>2. CASE \E p \in AnyInode, n \in AnyName : Unlink(p, n)
  BY <1>2, UnlinkKeeps
<1>3. CASE \E i \in AnyInode, text \in FileCells, size \in Sizes : Write(i, text, size)
  BY <1>3, WriteKeeps, LFSAssumption
<1>4. CASE WriteSteps
  BY <1>4, WriteReuseKeeps, WriteAllocateKeeps, WriteFailsKeeps, WriteTrimKeeps DEF WriteSteps
<1>5. CASE Flush
  BY <1>5, FlushBlockKeeps, FlushInodeBitmapKeeps, FlushDataBitmapKeeps, FlushRegionKeeps
     DEF Flush
<1>6. CASE Crash /\ ~GivingBack
  BY <1>6, CrashKeeps
<1>7. CASE UNCHANGED vars
  BY <1>7 DEF Kept, vars, Contents, TypeOK, FilesApart, WriteSoFar, Written, About
<1> QED
  BY <1>1, <1>2, <1>3, <1>4, <1>5, <1>6, <1>7 DEF RestartNext, Calls

(***************************************************************************)
(* The invariant holds after any number of calls, and of deaths of the     *)
(* process outside the stretch in which blocks are given back.             *)
(***************************************************************************)
THEOREM KeptHolds == RestartSpec => []Kept
<1>1. Init => Kept
  BY InitOwns, InitKeeps DEF Kept
<1> QED
  BY <1>1, NextKeeps, PTL DEF RestartSpec, RestartNext

(***************************************************************************)
(* The state is what the code's structures can hold: every block number a  *)
(* call writes to is one of the data region, every inode and entry has its *)
(* type.                                                                   *)
(***************************************************************************)
THEOREM LFSTypeOK == RestartSpec => []TypeOK
<1>1. Kept => TypeOK
  BY DEF Kept, Contents
<1> QED
  BY <1>1, KeptHolds, PTL

----------------------------------------------------------------------------
(***************************************************************************)
(* What reading a file returns.                                            *)
(***************************************************************************)
LEMMA SameRead ==
  ASSUME Kept, NEW i \in Inodes, disk.inodes[i].type = RegularFile,
         disk'.inodes[i] = disk.inodes[i],
         \A a \in BlocksOf(disk.inodes[i]) :
            disk'.blocks[disk.inodes[i].direct[a]] = disk.blocks[disk.inodes[i].direct[a]]
  PROVE  SameFile(i)
<1>1. disk.inodes[i].size \in Int
  BY DEF Kept, Ownership, Structure, Meta, Metadata, Inode
<1> DEFINE size == disk.inodes[i].size
<1> HIDE DEF size
<1>2. size \in Int
  BY <1>1 DEF size
<1>3. Read(disk', i, size) = Read(disk, i, size)
  BY <1>2, ReadDependsOn
<1> QED
  BY <1>3 DEF SameFile, size

\* A block that is written is none of the file's.
LEMMA OtherBlock ==
  ASSUME Kept, NEW i \in Inodes, disk.inodes[i].type = RegularFile,
         NEW b, NEW cells, disk' = [disk EXCEPT !.blocks[b] = cells],
         \A a \in Ptrs : disk.inodes[i].direct[a] \in DataBlocks => disk.inodes[i].direct[a] # b
  PROVE  SameFile(i)
<1>1. disk \in Image
  BY DEF Kept, Contents, TypeOK
<1>2. disk'.inodes = disk.inodes /\ disk'.blocks = [disk.blocks EXCEPT ![b] = cells]
  BY <1>1 DEF Image
<1>3. \A a \in BlocksOf(disk.inodes[i]) :
        disk'.blocks[disk.inodes[i].direct[a]] = disk.blocks[disk.inodes[i].direct[a]]
  BY <1>1, <1>2 DEF Image, BlocksOf
<1> QED
  BY <1>2, <1>3, SameRead

LEMMA SameDisk ==
  ASSUME Kept, NEW i \in Inodes, disk.inodes[i].type = RegularFile,
         disk'.inodes[i] = disk.inodes[i], disk'.blocks = disk.blocks
  PROVE  SameFile(i)
  BY SameRead

LEMMA NextUntouched ==
  ASSUME Kept, [RestartNext]_vars,
         NEW i \in disk.inodeBitmap \cap mem'.inodeBitmap,
         disk.inodes[i].type = RegularFile, ~About(i)
  PROVE  SameFile(i)
<1>1. /\ i \in Inodes /\ disk \in Image /\ mem \in Metadata
      /\ Apart(disk.inodes, mem.inodes) /\ (Taking => Marked(disk.inodes, mem.dataBitmap))
      /\ FilesApart
  BY DEF Kept, Ownership, Structure, Owners, Meta, Metadata, Contents, TypeOK
<1>2. CASE disk' = disk
  BY <1>1, <1>2, SameDisk
<1>3. CASE WriteReuse
  <2> DEFINE b == mem.inodes[job.inum].direct[k]
  <2>1. InLoop /\ PutChunk(b)
    BY <1>3 DEF WriteReuse
  <2>2. job.op = "write" /\ job.inum \in Inodes /\ k \in Ptrs /\ i # job.inum
    BY <2>1, InTheLoop DEF About
  <2>3. \A a \in Ptrs : disk.inodes[i].direct[a] \in DataBlocks => disk.inodes[i].direct[a] # b
    BY <1>1, <2>2 DEF Apart
  <2> QED
    BY <1>1, <2>1, <2>3, OtherBlock DEF PutChunk
<1>4. CASE WriteAllocate
  <2> DEFINE free == DataBlocks \ mem.dataBitmap
             b    == Least(free)
  <2>1. InLoop /\ PutChunk(b) /\ mem.dataBitmap # DataBlocks
    BY <1>4 DEF WriteAllocate
  <2>2. b \in free
    <3>1. free \in SUBSET Nat
      BY Layout
    <3>2. free # {}
      BY <1>1, <2>1 DEF Metadata
    <3> HIDE DEF free
    <3> QED
      BY <3>1, <3>2, LeastIsMinimum
  <2>3. pc = "write"
    BY <2>1, InTheLoop
  <2> HIDE DEF b
  <2>4. \A a \in Ptrs : disk.inodes[i].direct[a] \in DataBlocks => disk.inodes[i].direct[a] # b
    BY <1>1, <2>2, <2>3 DEF Marked, Taking
  <2> QED
    BY <1>1, <2>1, <2>4, OtherBlock DEF PutChunk
<1>5. CASE FlushBlock
  <2> DEFINE h == Head(pending)
  <2>1. pc = "blocks" /\ disk' = [disk EXCEPT !.blocks[h.addr] = h.cells]
    BY <1>5 DEF FlushBlock
  <2>2. pending # <<>> /\ pending \in Seq(Safe(disk))
    BY <1>1, <2>1 DEF FilesApart, Safe
  <2>3. h \in Safe(disk)
    BY <2>2
  <2> HIDE DEF h
  <2>4. h.addr \in Harmless(disk)
    BY <2>3 DEF Safe
  <2>5. \A a \in Ptrs : disk.inodes[i].direct[a] # h.addr
    <3>1. Directory # RegularFile
      BY DEF Directory, RegularFile
    <3> QED
      BY <1>1, <2>4, <3>1 DEF Harmless
  <2> QED
    BY <1>1, <2>1, <2>5, OtherBlock
<1>6. CASE FlushInodeBitmap \/ FlushDataBitmap
  <2>1. disk'.inodes = disk.inodes /\ disk'.blocks = disk.blocks
    BY <1>1, <1>6 DEF FlushInodeBitmap, FlushDataBitmap, Image
  <2> QED
    BY <1>1, <2>1, SameDisk
<1>7. CASE FlushRegion
  <2>1. /\ pc = "region" /\ disk'.inodeBitmap = disk.inodeBitmap /\ disk'.blocks = disk.blocks
        /\ disk'.inodes[i] \in {mem.inodes[i], disk.inodes[i]}
        /\ mem' \in {mem, Meta(disk')}
    BY <1>1, <1>7 DEF FlushRegion, Return, Image
  <2>2. disk.inodeBitmap = mem.inodeBitmap
    BY <1>1, <2>1 DEF FilesApart
  <2>3. i \in mem.inodeBitmap
    BY <2>2
  <2>4. disk'.inodes[i] = disk.inodes[i]
    BY <1>1, <2>1, <2>3 DEF FilesApart
  <2> QED
    BY <1>1, <2>1, <2>4, SameDisk
<1>8. \/ disk' = disk \/ WriteReuse \/ WriteAllocate \/ FlushBlock
      \/ FlushInodeBitmap \/ FlushDataBitmap \/ FlushRegion
  BY DEF RestartNext, Calls, Create, Unlink, UnlinkWith, Start, Proceed, Write, WriteSteps,
         WriteFails, WriteTrim, Flush, Crash, vars
<1> QED
  BY <1>2, <1>3, <1>4, <1>5, <1>6, <1>7, <1>8

(***************************************************************************)
(* No block write of any call changes what an allocated file reads as,     *)
(* except those of the calls that are about it, crashes included.          *)
(***************************************************************************)
THEOREM FilesAreUntouched == RestartSpec => FilesUntouched
<1>1. Kept /\ [RestartNext]_vars =>
        [\A i \in disk.inodeBitmap \cap mem'.inodeBitmap :
           /\ disk.inodes[i].type = RegularFile
           /\ ~(job.op = "write" /\ job.inum = i)
           /\ ~(job.op = "create" /\ job.ret = i)
           => SameFile(i)]_vars
  BY NextUntouched DEF About
<1> QED
  BY <1>1, KeptHolds, PTL DEF RestartSpec, RestartNext, FilesUntouched

\* The last block of the region makes the image's inode that of the memory.
LEMMA NextReads ==
  ASSUME Kept, [RestartNext]_vars, Returns("write")
  PROVE  /\ disk'.inodes[job.inum].size = job.ret
         /\ Read(disk', job.inum, job.ret) = [e \in 0 .. job.ret - 1 |-> job.text]
<1>1. /\ pc = "region" /\ pc' = "idle" /\ k + 1 = InodeRegionLen /\ job.op = "write"
  BY DEF Returns
<1>2. FlushRegion
  BY <1>1 DEF RestartNext, Calls, Create, Unlink, UnlinkWith, Start, Write, WriteSteps,
              WriteReuse, WriteAllocate, WriteFails, WriteTrim, InLoop, Flush, FlushBlock,
              FlushInodeBitmap, FlushDataBitmap, Crash, GivingBack, vars
<1>3. /\ disk \in Image /\ job.inum \in Inodes /\ WriteSoFar
      /\ \A i \in Inodes : i \div InodesPerBlock < k => disk.inodes[i] = mem.inodes[i]
      /\ k \in 0 .. InodeRegionLen - 1
  BY <1>1 DEF Kept, Contents, TypeOK, Jobs, NoJob, Ownership, Control
<1>4. disk'.blocks = disk.blocks /\ disk'.inodes[job.inum] = mem.inodes[job.inum]
  <2>1. /\ disk'.blocks = disk.blocks
        /\ disk'.inodes[job.inum] = IF job.inum \div InodesPerBlock = k THEN mem.inodes[job.inum]
                                    ELSE disk.inodes[job.inum]
    BY <1>2, <1>3 DEF FlushRegion, Image
  <2>2. job.inum \div InodesPerBlock \in Nat /\ job.inum \div InodesPerBlock < k + 1
    BY <1>1, <1>3, Layout
  <2>3. job.inum \div InodesPerBlock = k \/ job.inum \div InodesPerBlock < k
    BY <1>3, <2>2
  <2> QED
    BY <1>3, <2>1, <2>3
<1>5. /\ job.ret \in Nat /\ BlocksFor(job.ret) <= DirectPtrs
      /\ mem.inodes[job.inum].size = job.ret
      /\ \A a \in Ptrs : IF a < BlocksFor(job.ret) THEN Written(a)
                         ELSE mem.inodes[job.inum].direct[a] \notin DataBlocks
  BY <1>1, <1>3 DEF WriteSoFar
<1>6. Holds(disk', job.inum, job.ret, job.text)
  BY <1>4, <1>5 DEF Written, Holds
<1>7. Read(disk', job.inum, job.ret) = [e \in 0 .. job.ret - 1 |-> job.text]
  BY <1>5, <1>6, ChunksAreRead
<1> QED
  BY <1>4, <1>5, <1>7

(***************************************************************************)
(* After a write that returned, read returns the whole new body and no     *)
(* cell of the old one, also when other processes died before.             *)
(***************************************************************************)
THEOREM WhatWasWrittenIsRead == RestartSpec => WrittenIsRead
<1>1. Kept /\ [RestartNext]_vars =>
        [Returns("write") =>
           /\ disk'.inodes[job.inum].size = job.ret
           /\ Read(disk', job.inum, job.ret) = [e \in 0 .. job.ret - 1 |-> job.text]]_vars
  BY NextReads
<1> QED
  BY <1>1, KeptHolds, PTL DEF RestartSpec, RestartNext, WrittenIsRead

(***************************************************************************)
(* The tree of names: rows of entries, and what removing a name, freeing   *)
(* an inode and adding one do to them.                                     *)
(***************************************************************************)

NoName == ""

\* What a directory holds: the entry at every position within its size, and
\* the rows of all allocated directories.
RowOf(d, p) == [pos \in 0 .. d.inodes[p].size - 1 |-> CellAt(d, d.inodes[p], pos)]
RowsOf(d) == [p \in Directories(d) |-> RowOf(d, p)]

\* The positions of a row whose entries have a name of a call: not the two dots
\* and not a name that unlink has cleared.
NamedIn(row) == {e \in DOMAIN row : row[e].name \in Names}

\* The row of directory p: the two dots first, then entries that have a name or
\* had one, no name twice.
DirRow(p, row) ==
  /\ {0, 1} \subseteq DOMAIN row
  /\ row[0] = Entry(".", p) /\ row[1].name = ".."
  /\ \A e \in DOMAIN row : row[e].inum \in Inodes
  /\ \A e \in DOMAIN row \ {0, 1} : row[e].name \in Names \cup {NoName}
  /\ \A e, f \in NamedIn(row) : row[e].name = row[f].name => e = f

\* The inode an entry of p leads to: it is allocated, it is neither the root nor
\* p, and when it is a directory its ".." is p.
Leads(S, rows, p, e) ==
  /\ rows[p][e].inum \in S \ {Root, p}
  /\ rows[p][e].inum \in DOMAIN rows => rows[rows[p][e].inum][1] = Entry("..", p)

\* The rows of the directories make a tree over the allocated inodes S: every
\* name leads to an allocated inode, and no inode has two names.
Forest(S, rows) ==
  /\ DOMAIN rows \subseteq S
  /\ \A p \in DOMAIN rows : DirRow(p, rows[p])
  /\ \A p \in DOMAIN rows : \A e \in NamedIn(rows[p]) : Leads(S, rows, p, e)
  /\ \A p, q \in DOMAIN rows : \A e \in NamedIn(rows[p]), f \in NamedIn(rows[q]) :
        rows[p][e].inum = rows[q][f].inum => p = q /\ e = f

\* No name leads to inode i.
Unnamed(rows, i) == \A p \in DOMAIN rows : \A e \in NamedIn(rows[p]) : rows[p][e].inum # i

\* The name unlink leaves in a removed entry is no name of a call.
LEMMA NoNameIsNone == NoName \notin Names /\ NoName # "." /\ NoName # ".."
BY NamesAssumption, Zenon DEF NoName

\* Neither are the names of the first two entries, which are different.
LEMMA DotsAreNone == "." \notin Names /\ ".." \notin Names /\ "." # ".."
BY NamesAssumption

\* A row that only loses names, as the one unlink writes back, leaves a tree.
LEMMA FewerNames ==
  ASSUME NEW S, NEW rows, Forest(S, rows), NEW p \in DOMAIN rows, NEW rows2,
         DOMAIN rows2 = DOMAIN rows,
         \A q \in DOMAIN rows \ {p} : rows2[q] = rows[q],
         {0, 1} \subseteq DOMAIN rows2[p], DOMAIN rows2[p] \subseteq DOMAIN rows[p],
         \A e \in DOMAIN rows2[p] :
            \/ rows2[p][e] = rows[p][e]
            \/ e \notin {0, 1} /\ rows2[p][e].inum = rows[p][e].inum /\ rows2[p][e].name = NoName
  PROVE  /\ Forest(S, rows2)
         /\ \A q \in DOMAIN rows2 : \A e \in NamedIn(rows2[q]) :
              e \in NamedIn(rows[q]) /\ rows2[q][e] = rows[q][e]
<1>1. \A q \in DOMAIN rows2 : \A e \in NamedIn(rows2[q]) :
              e \in NamedIn(rows[q]) /\ rows2[q][e] = rows[q][e]
  BY NoNameIsNone DEF NamedIn
<1>2. \A q \in DOMAIN rows2 : rows2[q][1] = rows[q][1] /\ rows2[q][0] = rows[q][0]
  OBVIOUS
<1>3. \A q \in DOMAIN rows2 : DirRow(q, rows2[q])
  <2>1. SUFFICES ASSUME NEW q \in DOMAIN rows2 PROVE DirRow(q, rows2[q])
    OBVIOUS
  <2>2. DirRow(q, rows[q])
    BY DEF Forest
  <2>3. CASE q # p
    BY <2>2, <2>3
  <2>4. CASE q = p
    BY <1>1, <1>2, <2>2, <2>4 DEF DirRow
  <2> QED
    BY <2>3, <2>4
<1>4. \A q \in DOMAIN rows2 : \A e \in NamedIn(rows2[q]) : Leads(S, rows2, q, e)
  BY <1>1, <1>2 DEF Forest, Leads
<1>5. \A q, r \in DOMAIN rows2 : \A e \in NamedIn(rows2[q]), f \in NamedIn(rows2[r]) :
        rows2[q][e].inum = rows2[r][f].inum => q = r /\ e = f
  BY <1>1 DEF Forest
<1> QED
  BY <1>1, <1>3, <1>4, <1>5 DEF Forest

\* An inode without a name goes.
LEMMA InodeGoes ==
  ASSUME NEW S, NEW rows, Forest(S, rows), NEW v, Unnamed(rows, v), NEW rows2,
         \A q \in DOMAIN rows2 : q # v /\ q \in DOMAIN rows /\ rows2[q] = rows[q]
  PROVE  Forest(S \ {v}, rows2)
<1>1. \A q \in DOMAIN rows2 : \A e \in NamedIn(rows2[q]) : Leads(S \ {v}, rows2, q, e)
  BY DEF Forest, Leads, Unnamed
<1>2. DOMAIN rows2 \subseteq S \ {v} /\ \A q \in DOMAIN rows2 : DirRow(q, rows2[q])
  BY DEF Forest
<1>3. \A q, r \in DOMAIN rows2 : \A e \in NamedIn(rows2[q]), f \in NamedIn(rows2[r]) :
        rows2[q][e].inum = rows2[r][f].inum => q = r /\ e = f
  <2>1. \A q \in DOMAIN rows2 : q \in DOMAIN rows /\ rows2[q] = rows[q]
    OBVIOUS
  <2> QED
    BY <2>1 DEF Forest
<1> QED
  BY <1>1, <1>2, <1>3 DEF Forest

\* An inode comes, without a name.
LEMMA InodeComes ==
  ASSUME NEW S, NEW rows, Forest(S, rows), NEW i, i \notin S, NEW rows2,
         DOMAIN rows2 = DOMAIN rows \/ DOMAIN rows2 = DOMAIN rows \cup {i},
         \A q \in DOMAIN rows : rows2[q] = rows[q],
         i \in DOMAIN rows2 => DirRow(i, rows2[i]) /\ NamedIn(rows2[i]) = {}
  PROVE  Forest(S \cup {i}, rows2) /\ Unnamed(rows2, i)
<1>1. \A q \in DOMAIN rows2 : \A e \in NamedIn(rows2[q]) :
        q \in DOMAIN rows /\ e \in NamedIn(rows[q])
  OBVIOUS
<1>2. i \notin DOMAIN rows
  BY DEF Forest
<1>3. \A q \in DOMAIN rows2 : \A e \in NamedIn(rows2[q]) : Leads(S \cup {i}, rows2, q, e)
  BY <1>1, <1>2 DEF Forest, Leads
<1>4. Unnamed(rows2, i)
  BY <1>1 DEF Forest, Leads, Unnamed
<1> QED
  BY <1>1, <1>3, <1>4 DEF Forest

\* The inode is given a name: position t of directory p.
LEMMA NameComes ==
  ASSUME NEW S, NEW rows, Forest(S, rows), NEW p \in DOMAIN rows, NEW n \in Names, NEW t,
         NEW i \in S \cap Inodes, i # Root, i # p, Unnamed(rows, i),
         i \in DOMAIN rows => rows[i][1] = Entry("..", p),
         t \notin DOMAIN rows[p], \A e \in NamedIn(rows[p]) : rows[p][e].name # n,
         NEW rows2, DOMAIN rows2 = DOMAIN rows, \A q \in DOMAIN rows \ {p} : rows2[q] = rows[q],
         DOMAIN rows2[p] = DOMAIN rows[p] \cup {t},
         \A e \in DOMAIN rows[p] : rows2[p][e] = rows[p][e],
         rows2[p][t] = Entry(n, i)
  PROVE  Forest(S, rows2)
<1>1. rows2[p][t].name = n /\ rows2[p][t].inum = i
  BY DEF Entry
<1>2. DirRow(p, rows[p])
  BY DEF Forest
<1>3. t \notin {0, 1}
  BY <1>2 DEF DirRow
<1>4. \A q \in DOMAIN rows : rows2[q][1] = rows[q][1]
  BY DEF Forest, DirRow
<1>5. \A q \in DOMAIN rows : \A e \in NamedIn(rows2[q]) :
         \/ q = p /\ e = t
         \/ e \in NamedIn(rows[q]) /\ rows2[q][e] = rows[q][e] /\ ~(q = p /\ e = t)
  BY DEF NamedIn
<1>6. DirRow(p, rows2[p])
  BY <1>1, <1>2, <1>3, <1>5 DEF DirRow
<1>7. \A q \in DOMAIN rows2 : \A e \in NamedIn(rows2[q]) : Leads(S, rows2, q, e)
  BY <1>1, <1>4, <1>5 DEF Forest, Leads
<1>8. \A q, r \in DOMAIN rows2 : \A e \in NamedIn(rows2[q]), f \in NamedIn(rows2[r]) :
        rows2[q][e].inum = rows2[r][f].inum => q = r /\ e = f
  BY <1>1, <1>5 DEF Forest, Unnamed
<1> QED
  BY <1>6, <1>7, <1>8 DEF Forest

(***************************************************************************)
(* Directories whose blocks are all there.                                 *)
(***************************************************************************)

\* Directory p has every block its size takes, and the cells behind its size are
\* unused: there create finds the slot for the next entry.
Filled(d, p) ==
  LET ino == d.inodes[p]
      n   == BlocksFor(ino.size)
  IN  /\ ino.size \in Nat /\ n <= DirectPtrs
      /\ \A a \in 0 .. n - 1 : ino.direct[a] \in DataBlocks
      /\ \A pos \in ino.size .. n * EntriesPerBlock - 1 : CellAt(d, ino, pos).inum = -1

\* The directory tree of an image: the root is there, the rows make a tree, and
\* the directories are filled.
Tree(d) ==
  /\ Root \in d.inodeBitmap
  /\ Forest(d.inodeBitmap, RowsOf(d))
  /\ \A p \in Directories(d) : Filled(d, p)

\* The positions of the blocks a size takes.
LEMMA BlocksOfSize ==
  ASSUME NEW size \in Nat, NEW n, n = BlocksFor(size)
  PROVE  /\ n \in Nat /\ n * EntriesPerBlock \in Nat
         /\ size <= n * EntriesPerBlock /\ n * EntriesPerBlock < size + EntriesPerBlock
<1>1. EntriesPerBlock \in Nat /\ EntriesPerBlock > 0 /\ size + EntriesPerBlock - 1 \in Nat
  BY UFSAssumption
<1>2. n = (size + EntriesPerBlock - 1) \div EntriesPerBlock
  BY DEF BlocksFor
<1>3. /\ n \in Nat
      /\ EntriesPerBlock * n <= size + EntriesPerBlock - 1
      /\ size + EntriesPerBlock - 1 < EntriesPerBlock * n + EntriesPerBlock
  BY <1>1, <1>2, Division
<1>4. n * EntriesPerBlock = EntriesPerBlock * n /\ n * EntriesPerBlock \in Nat
  BY <1>1, <1>3
<1> QED
  BY <1>1, <1>3, <1>4

\* A position is a block and a slot of it.
LEMMA PositionParts ==
  ASSUME NEW n \in Nat, NEW pos \in 0 .. n * EntriesPerBlock - 1
  PROVE  /\ pos \in Nat
         /\ pos \div EntriesPerBlock \in 0 .. n - 1 /\ pos % EntriesPerBlock \in Slots
         /\ pos = (pos \div EntriesPerBlock) * EntriesPerBlock + (pos % EntriesPerBlock)
<1> DEFINE q == pos \div EntriesPerBlock
           s == pos % EntriesPerBlock
<1>1. EntriesPerBlock \in Nat /\ EntriesPerBlock > 0 /\ n * EntriesPerBlock \in Nat
      /\ pos \in Nat /\ pos < n * EntriesPerBlock
  BY UFSAssumption
<1>2. /\ q \in Nat /\ s \in Nat /\ s < EntriesPerBlock
      /\ EntriesPerBlock * q <= pos
  BY <1>1, Division
<1>3. pos = EntriesPerBlock * q + s
  BY <1>1
<1>4. q < n
  <2> HIDE DEF q, s
  <2>1. SUFFICES ASSUME q >= n PROVE FALSE
    BY <1>2
  <2>2. EntriesPerBlock * n <= EntriesPerBlock * q
    BY <1>1, <1>2, <2>1
  <2>3. EntriesPerBlock * n = n * EntriesPerBlock
    BY <1>1
  <2> QED
    BY <1>1, <1>2, <2>2, <2>3
<1>5. EntriesPerBlock * q = q * EntriesPerBlock
  BY <1>1, <1>2
<1> QED
  BY <1>1, <1>2, <1>3, <1>4, <1>5 DEF Slots

\* The slots of the first n blocks are the positions before the end of them.
LEMMA AllPositions ==
  ASSUME NEW n \in Nat
  PROVE  PositionsIn(0 .. n - 1) = 0 .. n * EntriesPerBlock - 1
<1>1. EntriesPerBlock \in Nat /\ EntriesPerBlock > 0
  BY UFSAssumption
<1>2. ASSUME NEW pos \in 0 .. n * EntriesPerBlock - 1
      PROVE  pos \in PositionsIn(0 .. n - 1)
  BY PositionParts DEF PositionsIn
<1>3. ASSUME NEW a \in 0 .. n - 1, NEW s \in Slots
      PROVE  a * EntriesPerBlock + s \in 0 .. n * EntriesPerBlock - 1
  <2>1. a \in Nat /\ a + 1 <= n /\ s \in Nat /\ s < EntriesPerBlock
    BY <1>1 DEF Slots
  <2>2. (a + 1) * EntriesPerBlock <= n * EntriesPerBlock
    BY <1>1, <2>1
  <2>3. (a + 1) * EntriesPerBlock = a * EntriesPerBlock + EntriesPerBlock
        /\ a * EntriesPerBlock \in Nat
    BY <1>1, <2>1
  <2> QED
    BY <1>1, <2>1, <2>2, <2>3
<1>4. \A x \in PositionsIn(0 .. n - 1) : x \in 0 .. n * EntriesPerBlock - 1
  BY <1>3 DEF PositionsIn
<1> QED
  BY <1>2, <1>4

\* All of a directory's blocks are there.
LEMMA BlocksOfDirectory ==
  ASSUME NEW d, NEW p, Filled(d, p), NEW n, n = BlocksFor(d.inodes[p].size)
  PROVE  /\ n \in Nat /\ n <= DirectPtrs /\ \A a \in 0 .. n - 1 : a \in Ptrs
         /\ Held(d.inodes[p], n) = 0 .. n - 1
         /\ PositionsIn(Held(d.inodes[p], n)) = 0 .. n * EntriesPerBlock - 1
         /\ ~Unreadable(d.inodes[p])
<1>1. /\ n \in Nat /\ n <= DirectPtrs /\ DirectPtrs \in Nat
      /\ \A a \in 0 .. n - 1 : d.inodes[p].direct[a] \in DataBlocks
  BY BlocksOfSize, UFSAssumption DEF Filled
<1>2. \A a \in 0 .. n - 1 : a \in Ptrs
  BY <1>1 DEF Ptrs
<1>3. Held(d.inodes[p], n) = 0 .. n - 1
  BY <1>1, <1>2, Layout DEF Held, Ptrs
<1>4. PositionsIn(Held(d.inodes[p], n)) = 0 .. n * EntriesPerBlock - 1
  BY <1>1, <1>3, AllPositions
<1>5. ~Unreadable(d.inodes[p])
  BY <1>1, <1>3 DEF Unreadable
<1> QED
  BY <1>1, <1>2, <1>3, <1>4, <1>5

\* The row of a directory depends on its inode and on its blocks.
LEMMA RowDependsOn ==
  ASSUME NEW d, NEW e, NEW p, Filled(d, p), e.inodes[p] = d.inodes[p],
         \A a \in Ptrs : d.inodes[p].direct[a] \in DataBlocks =>
            e.blocks[d.inodes[p].direct[a]] = d.blocks[d.inodes[p].direct[a]]
  PROVE  /\ RowOf(e, p) = RowOf(d, p) /\ Filled(e, p)
         /\ \A pos \in 0 .. BlocksFor(d.inodes[p].size) * EntriesPerBlock - 1 :
              CellAt(e, d.inodes[p], pos) = CellAt(d, d.inodes[p], pos)
<1> DEFINE ino == d.inodes[p]
           n   == BlocksFor(ino.size)
<1>2. /\ n \in Nat /\ \A a \in 0 .. n - 1 : a \in Ptrs /\ ino.direct[a] \in DataBlocks
  BY BlocksOfDirectory DEF Filled
<1>3. e.inodes[p] = ino /\ \A a \in 0 .. n - 1 : e.blocks[ino.direct[a]] = d.blocks[ino.direct[a]]
  BY <1>2
<1>4. ino.size \in Nat /\ ino.size <= n * EntriesPerBlock /\ n * EntriesPerBlock \in Nat
  BY BlocksOfSize DEF Filled
<1> HIDE DEF ino, n
<1>5. \A pos \in 0 .. n * EntriesPerBlock - 1 : CellAt(e, ino, pos) = CellAt(d, ino, pos)
  BY <1>2, <1>3, PositionParts DEF CellAt
<1>6. \A pos \in 0 .. ino.size - 1 : CellAt(e, ino, pos) = CellAt(d, ino, pos)
  BY <1>4, <1>5
<1>7. \A pos \in ino.size .. n * EntriesPerBlock - 1 : CellAt(e, ino, pos) = CellAt(d, ino, pos)
  BY <1>4, <1>5
<1>8. RowOf(e, p) = RowOf(d, p)
  BY <1>3, <1>6 DEF RowOf, ino
<1> QED
  BY <1>3, <1>5, <1>7, <1>8 DEF Filled, ino, n

\* The tree of names depends on the inodes of directories, on their blocks,
\* and on which inodes are allocated.
LEMMA TreeDependsOn ==
  ASSUME NEW d, Tree(d), NEW e, e.inodeBitmap = d.inodeBitmap,
         Directories(e) = Directories(d),
         \A p \in Directories(d) :
            /\ e.inodes[p] = d.inodes[p]
            /\ \A a \in Ptrs : d.inodes[p].direct[a] \in DataBlocks =>
                 e.blocks[d.inodes[p].direct[a]] = d.blocks[d.inodes[p].direct[a]]
  PROVE  Tree(e) /\ RowsOf(e) = RowsOf(d)
<1>1. \A p \in Directories(d) : RowOf(e, p) = RowOf(d, p) /\ Filled(e, p)
  BY RowDependsOn DEF Tree
<1>2. RowsOf(e) = RowsOf(d)
  BY <1>1 DEF RowsOf
<1> QED
  BY <1>1, <1>2 DEF Tree

(***************************************************************************)
(* A directory that grows: create.                                         *)
(***************************************************************************)

\* The image when metadata m and blocks B are on it.
After(m, B) == [inodeBitmap |-> m.inodeBitmap, dataBitmap |-> m.dataBitmap,
                inodes |-> m.inodes, blocks |-> B]

\* B is what the blocks are after the writes.
Ends(blocks, writes, B) ==
  /\ \A j \in 1 .. Len(writes) : B[writes[j].addr] = writes[j].cells
  /\ \A b \in DataBlocks :
        (\A j \in 1 .. Len(writes) : writes[j].addr # b) => B[b] = blocks[b]

\* A row without the name n.
NameFree(row, n) == \A e \in NamedIn(row) : row[e].name # n

\* One more entry at the end of a directory.
LEMMA DirectoryGrows ==
  ASSUME NEW d, Tree(d), NEW p \in Directories(d), NEW n \in Names,
         NEW i \in d.inodeBitmap \cap Inodes, i # Root, i # p, Unnamed(RowsOf(d), i),
         i \in Directories(d) => CellAt(d, d.inodes[i], 1) = Entry("..", p),
         NameFree(RowOf(d, p), n),
         NEW size, size = d.inodes[p].size,
         NEW e, e.inodeBitmap = d.inodeBitmap, Directories(e) = Directories(d),
         \A q \in Directories(d) \ {p} :
            /\ e.inodes[q] = d.inodes[q]
            /\ \A a \in Ptrs : d.inodes[q].direct[a] \in DataBlocks =>
                 e.blocks[d.inodes[q].direct[a]] = d.blocks[d.inodes[q].direct[a]],
         Filled(e, p), e.inodes[p].size = size + 1,
         \A pos \in 0 .. size - 1 : CellAt(e, e.inodes[p], pos) = CellAt(d, d.inodes[p], pos),
         CellAt(e, e.inodes[p], size) = Entry(n, i)
  PROVE  Tree(e) /\ size \in NamedIn(RowOf(e, p)) /\ RowOf(e, p)[size] = Entry(n, i)
<1>1. ASSUME NEW q \in Directories(d) \ {p}
      PROVE  RowOf(e, q) = RowOf(d, q) /\ Filled(e, q)
  <2>1. Filled(d, q)
    BY DEF Tree
  <2> QED
    BY <2>1, RowDependsOn
<1>2. size \in Nat
  BY DEF Tree, Filled
<1>3. /\ DOMAIN RowOf(e, p) = DOMAIN RowOf(d, p) \cup {size}
      /\ \A pos \in DOMAIN RowOf(d, p) : RowOf(e, p)[pos] = RowOf(d, p)[pos]
      /\ RowOf(e, p)[size] = Entry(n, i)
      /\ size \notin DOMAIN RowOf(d, p)
  BY <1>2 DEF RowOf
<1>4. RowOf(e, p)[size].name = n
  BY <1>3 DEF Entry
<1>5. /\ DOMAIN RowsOf(d) = Directories(d) /\ DOMAIN RowsOf(e) = Directories(d)
      /\ \A q \in Directories(d) : RowsOf(d)[q] = RowOf(d, q) /\ RowsOf(e)[q] = RowOf(e, q)
  BY DEF RowsOf
<1>6. i \in Directories(d) => RowOf(d, i)[1] = Entry("..", p)
  <2>1. SUFFICES ASSUME i \in Directories(d) PROVE RowOf(d, i)[1] = CellAt(d, d.inodes[i], 1)
    OBVIOUS
  <2>2. {0, 1} \subseteq DOMAIN RowOf(d, i)
    BY <2>1, <1>5 DEF Tree, Forest, DirRow
  <2> QED
    BY <2>2 DEF RowOf
<1>7. Forest(d.inodeBitmap, RowsOf(e))
  <2>1. Forest(d.inodeBitmap, RowsOf(d))
    BY DEF Tree
  <2>2. \A q \in DOMAIN RowsOf(d) \ {p} : RowsOf(e)[q] = RowsOf(d)[q]
    BY <1>1, <1>5
  <2>3. i \in d.inodeBitmap \cap Inodes /\ p \in DOMAIN RowsOf(d)
    BY <1>5
  <2>4. i \in DOMAIN RowsOf(d) => RowsOf(d)[i][1] = Entry("..", p)
    BY <1>5, <1>6
  <2>5. \A f \in NamedIn(RowsOf(d)[p]) : RowsOf(d)[p][f].name # n
    BY <1>5 DEF NameFree
  <2>6. /\ DOMAIN RowsOf(e) = DOMAIN RowsOf(d)
        /\ size \notin DOMAIN RowsOf(d)[p]
        /\ DOMAIN RowsOf(e)[p] = DOMAIN RowsOf(d)[p] \cup {size}
        /\ \A f \in DOMAIN RowsOf(d)[p] : RowsOf(e)[p][f] = RowsOf(d)[p][f]
        /\ RowsOf(e)[p][size] = Entry(n, i)
    BY <1>3, <1>5
  <2> QED
    BY <2>1, <2>2, <2>3, <2>4, <2>5, <2>6, NameComes
<1> QED
  BY <1>1, <1>3, <1>4, <1>7 DEF Tree, NamedIn

\* The block writes a call collects before it does them.
Writes == Seq([addr : DataBlocks, cells : Block])

\* A write to a block that none of the others goes to is one more change.
LEMMA OneMoreWrite ==
  ASSUME NEW blocks, NEW first \in Writes, NEW B \in [DataBlocks -> Block],
         Ends(blocks, first, B), NEW b \in DataBlocks, NEW cells \in Block,
         \A j \in 1 .. Len(first) : first[j].addr # b
  PROVE  Ends(blocks, Append(first, Update(b, cells)), [B EXCEPT ![b] = cells])
<1> DEFINE w == Append(first, Update(b, cells))
           C == [B EXCEPT ![b] = cells]
           u == Update(b, cells)
<1>1. u \in [addr : DataBlocks, cells : Block] /\ u.addr = b /\ u.cells = cells
  BY DEF Update
<1> HIDE DEF u
<1>2. /\ Len(Append(first, u)) = Len(first) + 1 /\ Len(first) \in Nat
      /\ \A j \in 1 .. Len(first) : Append(first, u)[j] = first[j]
                                    /\ first[j] \in [addr : DataBlocks, cells : Block]
      /\ Append(first, u)[Len(first) + 1] = u
  <2> DEFINE T == [addr : DataBlocks, cells : Block]
  <2>1. first \in Seq(T) /\ u \in T
    BY <1>1 DEF Writes
  <2> HIDE DEF T
  <2>2. Len(first) \in Nat /\ \A j \in 1 .. Len(first) : first[j] \in T
    BY <2>1
  <2>3. Len(Append(first, u)) = Len(first) + 1
    BY <2>1
  <2>4. \A j \in 1 .. Len(first) : Append(first, u)[j] = first[j]
    BY <2>1
  <2>5. Append(first, u)[Len(first) + 1] = u
    BY <2>1
  <2> QED
    BY <2>2, <2>3, <2>4, <2>5 DEF T
<1>3. /\ Len(w) = Len(first) + 1 /\ Len(first) \in Nat
      /\ \A j \in 1 .. Len(first) : w[j] = first[j] /\ first[j].addr \in DataBlocks
      /\ w[Len(first) + 1].addr = b /\ w[Len(first) + 1].cells = cells
  BY <1>1, <1>2 DEF u
<1>4. \A x \in DataBlocks : C[x] = IF x = b THEN cells ELSE B[x]
  OBVIOUS
<1> HIDE DEF w, C
<1>5. ASSUME NEW j \in 1 .. Len(w)
      PROVE  C[w[j].addr] = w[j].cells
  <2>1. CASE j = Len(first) + 1
    BY <2>1, <1>3, <1>4
  <2>2. CASE j # Len(first) + 1
    <3>1. j \in 1 .. Len(first)
      BY <2>2, <1>3
    <3> QED
      BY <3>1, <1>3, <1>4 DEF Ends
  <2> QED
    BY <2>1, <2>2
<1>6. ASSUME NEW x \in DataBlocks, \A j \in 1 .. Len(w) : w[j].addr # x
      PROVE  C[x] = blocks[x]
  <2>1. x # b /\ \A j \in 1 .. Len(first) : first[j].addr # x
    BY <1>3, <1>6
  <2> QED
    BY <2>1, <1>4 DEF Ends
<1> QED
  BY <1>5, <1>6 DEF Ends, w, C

\* The number of blocks of a size is the one that it fits in.
LEMMA BlocksForBetween ==
  ASSUME NEW s \in Nat, NEW n \in Nat, s <= n * EntriesPerBlock,
         n * EntriesPerBlock < s + EntriesPerBlock
  PROVE  BlocksFor(s) = n
<1> DEFINE q == BlocksFor(s)
<1>1. /\ q \in Nat /\ q * EntriesPerBlock \in Nat
      /\ s <= q * EntriesPerBlock /\ q * EntriesPerBlock < s + EntriesPerBlock
  BY BlocksOfSize
<1>2. EntriesPerBlock \in Nat /\ EntriesPerBlock > 0
  BY UFSAssumption
<1> HIDE DEF q
<1>3. \A x, y \in Nat : x < y => x * EntriesPerBlock + EntriesPerBlock <= y * EntriesPerBlock
  <2>1. SUFFICES ASSUME NEW x \in Nat, NEW y \in Nat, x < y
                 PROVE  x * EntriesPerBlock + EntriesPerBlock <= y * EntriesPerBlock
    OBVIOUS
  <2>2. (x + 1) * EntriesPerBlock <= y * EntriesPerBlock
    BY <2>1, <1>2
  <2> QED
    BY <2>2, <1>2
<1>4. ~(q < n) /\ ~(n < q)
  <2>1. n * EntriesPerBlock \in Nat
    BY <1>2
  <2>2. q < n => q * EntriesPerBlock + EntriesPerBlock <= n * EntriesPerBlock
    BY <1>1, <1>3
  <2>3. n < q => n * EntriesPerBlock + EntriesPerBlock <= q * EntriesPerBlock
    BY <1>1, <1>3
  <2> QED
    BY <1>1, <1>2, <2>1, <2>2, <2>3
<1> QED
  BY <1>1, <1>4 DEF q

\* create has put an entry behind the last one: the directory is longer, and
\* nothing else of the metadata is different.
LEMMA EntryInode ==
  ASSUME NEW m \in Metadata, NEW p \in Inodes, NEW r, r = WithEntry(m, p)
  PROVE  /\ r.inodes[p].size = m.inodes[p].size + 1
         /\ r.inodes[p].direct = m.inodes[p].direct
         /\ r.inodes[p].type = m.inodes[p].type
         /\ \A j \in Inodes \ {p} : r.inodes[j] = m.inodes[j]
         /\ r.inodeBitmap = m.inodeBitmap /\ r.dataBitmap = m.dataBitmap
<1> DEFINE ino == [m.inodes[p] EXCEPT !.size = @ + 1]
<1>1. m.inodes \in [Inodes -> Inode] /\ m.inodes[p] \in Inode
  BY DEF Metadata
<1>2. /\ ino.size = m.inodes[p].size + 1 /\ ino.direct = m.inodes[p].direct
      /\ ino.type = m.inodes[p].type
  BY <1>1 DEF Inode
<1>3. r.inodes = [m.inodes EXCEPT ![p] = ino] /\ r.dataBitmap = m.dataBitmap
      /\ r.inodeBitmap = m.inodeBitmap
  BY DEF WithEntry, Metadata
<1> HIDE DEF ino
<1> QED
  BY <1>1, <1>2, <1>3

\* create has also given the directory a block.
LEMMA BlockInode ==
  ASSUME NEW m \in Metadata, NEW p \in Inodes, NEW a, NEW b \in DataBlocks, NEW r,
         r = WithBlock(m, p, a, b)
  PROVE  /\ r.inodes[p].size = m.inodes[p].size + 1
         /\ r.inodes[p].type = m.inodes[p].type
         /\ \A c \in Ptrs : r.inodes[p].direct[c] = IF c = a THEN b ELSE m.inodes[p].direct[c]
         /\ \A j \in Inodes \ {p} : r.inodes[j] = m.inodes[j]
         /\ r.inodeBitmap = m.inodeBitmap /\ r.dataBitmap = m.dataBitmap \cup {b}
<1> DEFINE old == m.inodes[p]
           ino == [old EXCEPT !.size = @ + 1, !.direct[a] = b]
<1>1. m.inodes \in [Inodes -> Inode] /\ old \in Inode
  BY DEF Metadata
<1>2. r.inodes = [m.inodes EXCEPT ![p].size = @ + 1, ![p].direct[a] = b]
      /\ r.dataBitmap = m.dataBitmap \cup {b} /\ r.inodeBitmap = m.inodeBitmap
  BY DEF WithBlock, Metadata
<1>3. r.inodes[p] = ino /\ \A j \in Inodes \ {p} : r.inodes[j] = m.inodes[j]
  BY <1>1, <1>2 DEF Inode
<1> HIDE DEF old
<1>4. /\ ino.size = old.size + 1 /\ ino.type = old.type
      /\ ino.direct = [old.direct EXCEPT ![a] = b] /\ old.direct \in [Ptrs -> Int]
  BY <1>1 DEF Inode
<1> HIDE DEF ino
<1> QED
  BY <1>2, <1>3, <1>4 DEF old

\* What create has when it comes to link inode i under the name n in p: the inode
\* is allocated and has no name, and the name is not taken.
Linkable(t, p, n, i) ==
  /\ Tree(t) /\ p \in Directories(t) /\ n \in Names
  /\ i \in t.inodeBitmap \cap Inodes /\ i # Root /\ i # p /\ Unnamed(RowsOf(t), i)
  /\ i \in Directories(t) => CellAt(t, t.inodes[i], 1) = Entry("..", p)
  /\ NameFree(RowOf(t, p), n)

\* Directory p has an entry n that leads to inode i.
Named(t, p, n, i) ==
  p \in Directories(t) /\ \E e \in NamedIn(RowOf(t, p)) : RowOf(t, p)[e] = Entry(n, i)

\* The entry create writes.
LEMMA NewEntry ==
  ASSUME NEW n \in Names, NEW i \in Inodes
  PROVE  Entry(n, i) \in Cell /\ Entry(n, i).inum = i /\ Entry(n, i).name = n
<1>1. i \in Int
  BY DEF Inodes
<1>2. n \in CellNames
  BY Cells DEF ValidNames
<1>3. Entry(n, i) \in Cell
  BY <1>1, <1>2, Cells
<1> QED
  BY <1>3 DEF Entry

\* There is room at the end of the last block of the directory.
HasRoom(ino) == ino.size < BlocksFor(ino.size) * EntriesPerBlock

\* The block the next entry goes to, and what create writes there.
RoomAt(ino) == ino.direct[ino.size \div EntriesPerBlock]
RoomCells(Bl, ino, c) == [Bl[RoomAt(ino)] EXCEPT ![ino.size % EntriesPerBlock] = c]
RoomTaken(Bl, ino, c) == [Bl EXCEPT ![RoomAt(ino)] = RoomCells(Bl, ino, c)]

\* create links into the last block of the directory: the name is in the tree.
LEMMA SlotGrows ==
  ASSUME NEW m \in Metadata, Unshared(m.inodes), NEW Bl \in [DataBlocks -> Block],
         NEW p, NEW n, NEW i, Linkable(After(m, Bl), p, n, i), HasRoom(m.inodes[p])
  PROVE  /\ RoomAt(m.inodes[p]) \in DataBlocks
         /\ RoomCells(Bl, m.inodes[p], Entry(n, i)) \in Block
         /\ m.inodes[p].size \div EntriesPerBlock \in Ptrs
         /\ LET e == After(WithEntry(m, p), RoomTaken(Bl, m.inodes[p], Entry(n, i)))
            IN  Tree(e) /\ Named(e, p, n, i)
<1> DEFINE t     == After(m, Bl)
           ino   == m.inodes[p]
           r     == WithEntry(m, p)
           at    == RoomAt(ino)
           cells == RoomCells(Bl, ino, Entry(n, i))
           B     == RoomTaken(Bl, ino, Entry(n, i))
           e     == After(r, B)
           size  == ino.size
           u     == BlocksFor(size)
           E     == EntriesPerBlock
<1>0. /\ size < u * E /\ at = ino.direct[size \div E] /\ r = WithEntry(m, p)
      /\ cells = [Bl[at] EXCEPT ![size % E] = Entry(n, i)] /\ B = [Bl EXCEPT ![at] = cells]
      /\ u = BlocksFor(size) /\ size = ino.size
  BY DEF HasRoom, RoomAt, RoomCells, RoomTaken
<1> HIDE DEF r, at, cells, B, size, u
<1>1. /\ t.inodes = m.inodes /\ t.inodeBitmap = m.inodeBitmap /\ t.blocks = Bl
      /\ e.inodes = r.inodes /\ e.inodeBitmap = r.inodeBitmap /\ e.blocks = B
      /\ ino = m.inodes[p]
  BY DEF After
<1> HIDE DEF t, e
<1>2. /\ Tree(t) /\ p \in Directories(t) /\ n \in Names
      /\ i \in t.inodeBitmap \cap Inodes /\ i # Root /\ i # p /\ Unnamed(RowsOf(t), i)
      /\ i \in Directories(t) => CellAt(t, t.inodes[i], 1) = Entry("..", p)
      /\ NameFree(RowOf(t, p), n)
  BY DEF Linkable, t
<1>3. p \in Inodes /\ p \in m.inodeBitmap /\ ino.type = Directory
      /\ m.inodes \in [Inodes -> Inode] /\ m.inodeBitmap \subseteq Inodes
  BY <1>1, <1>2 DEF Directories, Metadata
<1>4. /\ r.inodes[p].size = size + 1 /\ r.inodes[p].direct = ino.direct
      /\ r.inodes[p].type = ino.type /\ \A j \in Inodes \ {p} : r.inodes[j] = m.inodes[j]
      /\ r.inodeBitmap = m.inodeBitmap
  <2>1. /\ r.inodes[p].size = ino.size + 1 /\ r.inodes[p].direct = ino.direct
        /\ r.inodes[p].type = ino.type /\ \A j \in Inodes \ {p} : r.inodes[j] = m.inodes[j]
        /\ r.inodeBitmap = m.inodeBitmap
    BY <1>3, EntryInode DEF r
  <2> QED
    BY <1>0, <2>1
<1> HIDE DEF ino
<1>5. Filled(t, p) /\ size \in Nat /\ EntriesPerBlock \in Nat /\ EntriesPerBlock > 0
  <2>1. Filled(t, p)
    BY <1>2 DEF Tree
  <2> QED
    <3>1. t.inodes[p].size \in Nat
      BY <2>1 DEF Filled
    <3>2. size = t.inodes[p].size
      BY <1>1 DEF size
    <3>3. EntriesPerBlock \in Nat /\ EntriesPerBlock > 0
      BY UFSAssumption
    <3> QED
      BY <2>1, <3>1, <3>2, <3>3
<1>6. /\ u \in Nat /\ u <= DirectPtrs /\ u * EntriesPerBlock \in Nat
      /\ u * EntriesPerBlock < size + EntriesPerBlock
      /\ \A a \in 0 .. u - 1 : a \in Ptrs /\ ino.direct[a] \in DataBlocks
  <2>1. /\ u \in Nat /\ u * EntriesPerBlock \in Nat
        /\ u * EntriesPerBlock < size + EntriesPerBlock
    BY <1>0, <1>5, BlocksOfSize
  <2>2. u <= DirectPtrs /\ \A a \in 0 .. u - 1 : a \in Ptrs
    BY <1>0, <1>1, <1>5, BlocksOfDirectory
  <2>3. \A a \in 0 .. u - 1 : ino.direct[a] \in DataBlocks
    BY <1>0, <1>1, <1>5 DEF Filled
  <2> QED
    BY <2>1, <2>2, <2>3
<1>7. BlocksFor(size + 1) = u
  <2>1. size + 1 \in Nat /\ size + 1 <= u * EntriesPerBlock
        /\ u * EntriesPerBlock < size + 1 + EntriesPerBlock
    BY <1>0, <1>5, <1>6
  <2> QED
    BY <1>6, <2>1, BlocksForBetween
<1>8. /\ size \div E \in 0 .. u - 1 /\ size % E \in Slots
      /\ size = (size \div E) * E + (size % E)
  <2>1. size \in 0 .. u * E - 1
    BY <1>0, <1>5, <1>6
  <2> QED
    BY <1>6, <2>1, PositionParts
<1>9. at \in DataBlocks /\ size \div E \in Ptrs
  BY <1>0, <1>6, <1>8
<1>10. /\ Entry(n, i) \in Cell /\ Entry(n, i).inum = i
       /\ cells \in Block
       /\ \A s \in Slots : cells[s] = IF s = size % E THEN Entry(n, i) ELSE Bl[at][s]
  <2>1. Bl[at] \in Block
    BY <1>9
  <2>2. Entry(n, i) \in Cell /\ Entry(n, i).inum = i
    BY <1>2, NewEntry
  <2> QED
    BY <2>1, <2>2, <1>0, <1>8 DEF Block
<1>11. \A b \in DataBlocks : B[b] = IF b = at THEN cells ELSE Bl[b]
  BY <1>0, <1>9
<1>12. \A q \in Inodes, a \in Ptrs : m.inodes[q].direct[a] = at => q = p /\ a = size \div E
  <2>1. SUFFICES ASSUME NEW q \in Inodes, NEW a \in Ptrs, m.inodes[q].direct[a] = at
                 PROVE  q = p /\ a = size \div E
    OBVIOUS
  <2>2. m.inodes[p].direct[size \div E] = at /\ at \in DataBlocks /\ size \div E \in Ptrs
    BY <1>0, <1>1, <1>9
  <2> DEFINE c == size \div E
  <2> HIDE DEF c
  <2>3. m.inodes[p].direct[c] = at /\ at \in DataBlocks /\ c \in Ptrs
    BY <2>2 DEF c
  <2>4. q = p /\ a = c
    BY <1>3, <2>1, <2>3 DEF Unshared
  <2> QED
    BY <2>4 DEF c
<1>13. ASSUME NEW pos \in 0 .. u * E - 1
       PROVE  CellAt(e, r.inodes[p], pos) = IF pos = size THEN Entry(n, i) ELSE CellAt(t, ino, pos)
  <2>1. pos \div E \in 0 .. u - 1 /\ pos % E \in Slots /\ pos = (pos \div E) * E + (pos % E)
    BY <1>6, PositionParts
  <2> DEFINE a == pos \div E
             s == pos % E
  <2>2. a \in Ptrs /\ ino.direct[a] \in DataBlocks
    BY <1>6, <2>1
  <2>3. CellAt(e, r.inodes[p], pos) = B[ino.direct[a]][s] /\ CellAt(t, ino, pos) = Bl[ino.direct[a]][s]
    BY <1>1, <1>4 DEF CellAt
  <2>4. CASE a = size \div E
    <3>1. pos = size <=> s = size % E
      BY <2>1, <2>4, <1>8
    <3>2. ino.direct[a] = at
      BY <1>0, <2>4
    <3> HIDE DEF s, a
    <3> QED
      BY <2>1, <2>2, <2>3, <3>1, <3>2, <1>10, <1>11 DEF s
  <2>5. CASE a # size \div E
    <3>1. ino.direct[a] # at
      BY <1>1, <1>3, <1>12, <2>2, <2>5
    <3>2. pos # size
      BY <2>5
    <3> HIDE DEF s, a
    <3> QED
      BY <2>2, <2>3, <3>1, <3>2, <1>11
  <2> QED
    BY <2>4, <2>5
<1>14. Filled(e, p)
  <2>1. e.inodes[p].size = size + 1 /\ e.inodes[p].direct = ino.direct
    BY <1>1, <1>4
  <2>2. \A pos \in size + 1 .. u * E - 1 : CellAt(e, e.inodes[p], pos).inum = -1
    <3>1. SUFFICES ASSUME NEW pos \in size + 1 .. u * E - 1
                   PROVE  CellAt(e, e.inodes[p], pos).inum = -1
      OBVIOUS
    <3>2. pos \in 0 .. u * E - 1 /\ pos # size /\ pos \in size .. u * E - 1
      BY <1>5, <1>6
    <3>3. CellAt(t, ino, pos).inum = -1
      BY <1>0, <1>1, <1>5, <3>2 DEF Filled
    <3> QED
      BY <1>1, <1>13, <3>2, <3>3
  <2>3. size + 1 \in Nat
    BY <1>5
  <2> QED
    BY <1>6, <1>7, <2>1, <2>2, <2>3 DEF Filled
<1>15. Directories(e) = Directories(t)
  <2>1. \A q \in m.inodeBitmap : e.inodes[q].type = t.inodes[q].type
    BY <1>1, <1>3, <1>4
  <2> QED
    BY <1>1, <1>4, <2>1 DEF Directories
<1>16. ASSUME NEW q \in Directories(t) \ {p}
       PROVE  /\ e.inodes[q] = t.inodes[q]
              /\ \A a \in Ptrs : t.inodes[q].direct[a] \in DataBlocks =>
                   e.blocks[t.inodes[q].direct[a]] = t.blocks[t.inodes[q].direct[a]]
  <2>1. q \in Inodes /\ q # p
    BY <1>1, <1>3 DEF Directories
  <2>2. e.inodes[q] = t.inodes[q]
    BY <1>1, <1>4, <2>1
  <2>3. \A a \in Ptrs : t.inodes[q].direct[a] # at
    BY <1>1, <1>12, <2>1
  <2> QED
    BY <1>1, <1>11, <2>2, <2>3
<1>17. /\ \A pos \in 0 .. size - 1 : CellAt(e, e.inodes[p], pos) = CellAt(t, t.inodes[p], pos)
       /\ CellAt(e, e.inodes[p], size) = Entry(n, i)
  <2>1. size \in 0 .. u * E - 1 /\ \A pos \in 0 .. size - 1 : pos \in 0 .. u * E - 1 /\ pos # size
    BY <1>0, <1>5, <1>6
  <2> QED
    BY <1>1, <1>13, <2>1
<1>18. Tree(e) /\ size \in NamedIn(RowOf(e, p)) /\ RowOf(e, p)[size] = Entry(n, i)
  <2>1. size = t.inodes[p].size /\ e.inodes[p].size = size + 1 /\ e.inodeBitmap = t.inodeBitmap
    BY <1>0, <1>1, <1>4
  <2> QED
    BY <1>2, <1>14, <1>15, <1>16, <1>17, <2>1, DirectoryGrows
<1>19. p \in Directories(e)
  BY <1>2, <1>15
<1> QED
  BY <1>9, <1>10, <1>18, <1>19 DEF Named, e, r, B, at, cells, size, ino

\* The parts of an entry, and of an unused one.
LEMMA EntryFields == \A x, y : Entry(x, y).name = x /\ Entry(x, y).inum = y
  BY DEF Entry

\* The same of a cell no entry is in.
LEMMA UnusedEntry == Unused.inum = -1 /\ Unused.name = NoName
<1>1. Unused = Entry(NoName, -1)
  BY Zenon DEF Unused, NoName
<1> QED
  BY <1>1, EntryFields

\* The block a directory is given, with the entry in its first slot.
FreshCells(c) == [s \in Slots |-> IF s = 0 THEN c ELSE Unused]
BlockTaken(Bl, b, c) == [Bl EXCEPT ![b] = FreshCells(c)]

\* create links into a block it takes for the directory: the name is in the tree.
LEMMA BlockGrows ==
  ASSUME NEW m \in Metadata, Marked(m.inodes, m.dataBitmap), NEW Bl \in [DataBlocks -> Block],
         NEW p, NEW n, NEW i, Linkable(After(m, Bl), p, n, i), ~HasRoom(m.inodes[p]),
         BlocksFor(m.inodes[p].size) < DirectPtrs,
         NEW b \in DataBlocks, b \notin m.dataBitmap
  PROVE  /\ FreshCells(Entry(n, i)) \in Block
         /\ LET e == After(WithBlock(m, p, BlocksFor(m.inodes[p].size), b),
                           BlockTaken(Bl, b, Entry(n, i)))
            IN  Tree(e) /\ Named(e, p, n, i)
<1> DEFINE t     == After(m, Bl)
           ino   == m.inodes[p]
           size  == ino.size
           u     == BlocksFor(size)
           r     == WithBlock(m, p, u, b)
           cells == FreshCells(Entry(n, i))
           B     == BlockTaken(Bl, b, Entry(n, i))
           e     == After(r, B)
           E     == EntriesPerBlock
<1>0. /\ ~(size < u * E) /\ B = [Bl EXCEPT ![b] = cells] /\ u < DirectPtrs
      /\ u = BlocksFor(size) /\ size = ino.size
  BY DEF HasRoom, BlockTaken
<1> HIDE DEF r, cells, B, size, u
<1>1. /\ t.inodes = m.inodes /\ t.inodeBitmap = m.inodeBitmap /\ t.blocks = Bl
      /\ e.inodes = r.inodes /\ e.inodeBitmap = r.inodeBitmap /\ e.blocks = B
      /\ ino = m.inodes[p]
  BY DEF After
<1> HIDE DEF t, e
<1>2. /\ Tree(t) /\ p \in Directories(t) /\ n \in Names
      /\ i \in t.inodeBitmap \cap Inodes /\ i # Root /\ i # p /\ Unnamed(RowsOf(t), i)
      /\ i \in Directories(t) => CellAt(t, t.inodes[i], 1) = Entry("..", p)
      /\ NameFree(RowOf(t, p), n)
  BY DEF Linkable, t
<1>3. p \in Inodes /\ p \in m.inodeBitmap /\ ino.type = Directory
      /\ m.inodes \in [Inodes -> Inode] /\ m.inodeBitmap \subseteq Inodes
  BY <1>1, <1>2 DEF Directories, Metadata
<1>4. /\ r.inodes[p].size = size + 1
      /\ \A c \in Ptrs : r.inodes[p].direct[c] = IF c = u THEN b ELSE ino.direct[c]
      /\ r.inodes[p].type = ino.type /\ \A j \in Inodes \ {p} : r.inodes[j] = m.inodes[j]
      /\ r.inodeBitmap = m.inodeBitmap
  <2>1. /\ r.inodes[p].size = ino.size + 1
        /\ \A c \in Ptrs : r.inodes[p].direct[c] = IF c = u THEN b ELSE ino.direct[c]
        /\ r.inodes[p].type = ino.type /\ \A j \in Inodes \ {p} : r.inodes[j] = m.inodes[j]
        /\ r.inodeBitmap = m.inodeBitmap
    BY <1>3, BlockInode DEF r
  <2> QED
    BY <1>0, <2>1
<1> HIDE DEF ino
<1>5. Filled(t, p) /\ size \in Nat /\ EntriesPerBlock \in Nat /\ EntriesPerBlock > 0
  <2>1. Filled(t, p)
    BY <1>2 DEF Tree
  <2>2. t.inodes[p].size \in Nat
    BY <2>1 DEF Filled
  <2>3. size = t.inodes[p].size
    BY <1>1 DEF size
  <2>4. EntriesPerBlock \in Nat /\ EntriesPerBlock > 0
    BY UFSAssumption
  <2> QED
    BY <2>1, <2>2, <2>3, <2>4
<1>6. /\ u \in Nat /\ u * EntriesPerBlock \in Nat
      /\ size = u * EntriesPerBlock
      /\ \A a \in 0 .. u - 1 : a \in Ptrs /\ ino.direct[a] \in DataBlocks
      /\ u \in Ptrs
  <2>1. /\ u \in Nat /\ u * EntriesPerBlock \in Nat
        /\ size <= u * EntriesPerBlock
    BY <1>0, <1>5, BlocksOfSize
  <2>2. u <= DirectPtrs /\ \A a \in 0 .. u - 1 : a \in Ptrs
    BY <1>0, <1>1, <1>5, BlocksOfDirectory
  <2>3. \A a \in 0 .. u - 1 : ino.direct[a] \in DataBlocks
    BY <1>0, <1>1, <1>5 DEF Filled
  <2>4. size = u * EntriesPerBlock
    BY <1>0, <1>5, <2>1
  <2>5. u \in Ptrs
    BY <1>0, <2>1, UFSAssumption DEF Ptrs
  <2> QED
    BY <2>1, <2>2, <2>3, <2>4, <2>5
<1>7. BlocksFor(size + 1) = u + 1 /\ (u + 1) * EntriesPerBlock = u * EntriesPerBlock + EntriesPerBlock
  <2>1. (u + 1) * EntriesPerBlock = u * EntriesPerBlock + EntriesPerBlock
    BY <1>5, <1>6
  <2>2. size + 1 \in Nat /\ size + 1 <= (u + 1) * EntriesPerBlock
        /\ (u + 1) * EntriesPerBlock < size + 1 + EntriesPerBlock /\ u + 1 \in Nat
    BY <1>5, <1>6, <2>1
  <2> QED
    BY <2>1, <2>2, BlocksForBetween
<1>8. /\ Entry(n, i) \in Cell /\ Entry(n, i).inum = i
      /\ cells \in Block
      /\ \A s \in Slots : cells[s] = IF s = 0 THEN Entry(n, i) ELSE Unused
  <2>1. Entry(n, i) \in Cell /\ Entry(n, i).inum = i
    BY <1>2, NewEntry
  <2>2. Unused \in Cell
    BY Cells
  <2> QED
    BY <2>1, <2>2 DEF Block, cells, FreshCells
<1>9. \A x \in DataBlocks : B[x] = IF x = b THEN cells ELSE Bl[x]
  BY <1>0
<1>10. \A q \in Inodes, a \in Ptrs : m.inodes[q].direct[a] # b
  BY DEF Marked
<1>11. ASSUME NEW pos \in 0 .. u * E - 1
       PROVE  CellAt(e, r.inodes[p], pos) = CellAt(t, ino, pos)
  <2> DEFINE a == pos \div E
             s == pos % E
  <2>1. a \in 0 .. u - 1
    BY <1>6, PositionParts
  <2> HIDE DEF a
  <2>2. a \in Ptrs /\ ino.direct[a] \in DataBlocks /\ a # u
    BY <1>6, <2>1
  <2>3. r.inodes[p].direct[a] = ino.direct[a] /\ ino.direct[a] # b
    BY <1>1, <1>3, <1>4, <1>10, <2>2
  <2>4. CellAt(e, r.inodes[p], pos) = B[r.inodes[p].direct[a]][s] /\ CellAt(t, ino, pos) = Bl[ino.direct[a]][s]
    BY <1>1 DEF CellAt, a
  <2> HIDE DEF s
  <2> QED
    BY <2>2, <2>3, <2>4, <1>9
<1>12. ASSUME NEW s \in Slots
       PROVE  CellAt(e, r.inodes[p], u * E + s) = IF s = 0 THEN Entry(n, i) ELSE Unused
  <2> DEFINE pos == u * E + s
  <2>1. pos \div E = u /\ pos % E = s
    BY <1>5, <1>6, PositionOf DEF Slots
  <2>2. CellAt(e, r.inodes[p], pos) = B[r.inodes[p].direct[pos \div E]][pos % E]
    BY <1>1 DEF CellAt
  <2>3. r.inodes[p].direct[u] = b
    BY <1>4, <1>6
  <2> HIDE DEF pos
  <2>4. CellAt(e, r.inodes[p], pos) = cells[s]
    BY <2>1, <2>2, <2>3, <1>9
  <2> QED
    BY <2>4, <1>8 DEF pos
<1>13. Filled(e, p)
  <2>1. e.inodes[p].size = size + 1 /\ e.inodes[p].direct = r.inodes[p].direct
    BY <1>1, <1>4
  <2>2. \A pos \in size + 1 .. (u + 1) * E - 1 : CellAt(e, e.inodes[p], pos).inum = -1
    <3>1. SUFFICES ASSUME NEW pos \in size + 1 .. (u + 1) * E - 1
                   PROVE  CellAt(e, e.inodes[p], pos).inum = -1
      OBVIOUS
    <3> DEFINE s == pos - u * E
    <3>2. s \in Slots /\ s # 0 /\ pos = u * E + s
      <4> DEFINE base == u * EntriesPerBlock
                 end  == (u + 1) * EntriesPerBlock
      <4>1. base \in Nat /\ size = base /\ end = base + EntriesPerBlock
        BY <1>6, <1>7
      <4>2. pos \in size + 1 .. end - 1
        OBVIOUS
      <4> HIDE DEF base, end
      <4>3. pos - base \in 0 .. EntriesPerBlock - 1 /\ pos - base # 0 /\ pos = base + (pos - base)
        BY <1>5, <4>1, <4>2
      <4>4. pos - base \in Slots
        BY <4>3 DEF Slots
      <4> QED
        BY <4>3, <4>4 DEF base
    <3> HIDE DEF s
    <3>3. CellAt(e, e.inodes[p], pos) = Unused
      BY <1>1, <1>12, <3>2
    <3> QED
      BY <3>3, UnusedEntry
  <2>3. size + 1 \in Nat /\ u + 1 <= DirectPtrs
    BY <1>0, <1>5, <1>6, UFSAssumption
  <2>4. \A a \in 0 .. (u + 1) - 1 : r.inodes[p].direct[a] \in DataBlocks
    <3>1. SUFFICES ASSUME NEW a \in 0 .. (u + 1) - 1 PROVE r.inodes[p].direct[a] \in DataBlocks
      OBVIOUS
    <3>2. a = u \/ a \in 0 .. u - 1
      BY <1>6
    <3> QED
      BY <3>2, <1>4, <1>6
  <2> QED
    BY <1>7, <2>1, <2>2, <2>3, <2>4 DEF Filled
<1>14. Directories(e) = Directories(t)
  <2>1. \A q \in m.inodeBitmap : e.inodes[q].type = t.inodes[q].type
    BY <1>1, <1>3, <1>4
  <2> QED
    BY <1>1, <1>4, <2>1 DEF Directories
<1>15. ASSUME NEW q \in Directories(t) \ {p}
       PROVE  /\ e.inodes[q] = t.inodes[q]
              /\ \A a \in Ptrs : t.inodes[q].direct[a] \in DataBlocks =>
                   e.blocks[t.inodes[q].direct[a]] = t.blocks[t.inodes[q].direct[a]]
  <2>1. q \in Inodes /\ q # p
    BY <1>1, <1>3 DEF Directories
  <2>2. e.inodes[q] = t.inodes[q]
    BY <1>1, <1>4, <2>1
  <2>3. \A a \in Ptrs : t.inodes[q].direct[a] # b
    BY <1>1, <1>10, <2>1
  <2> QED
    BY <1>1, <1>9, <2>2, <2>3
<1>16. /\ \A pos \in 0 .. size - 1 : CellAt(e, e.inodes[p], pos) = CellAt(t, t.inodes[p], pos)
       /\ CellAt(e, e.inodes[p], size) = Entry(n, i)
  <2>1. \A pos \in 0 .. size - 1 : pos \in 0 .. u * E - 1
    BY <1>6
  <2>2. 0 \in Slots /\ size = u * E + 0
    BY <1>5, <1>6 DEF Slots
  <2>3. CellAt(e, e.inodes[p], size) = Entry(n, i)
    BY <1>1, <1>12, <2>2
  <2> QED
    BY <1>1, <1>11, <2>1, <2>3
<1>17. Tree(e) /\ size \in NamedIn(RowOf(e, p)) /\ RowOf(e, p)[size] = Entry(n, i)
  <2>1. size = t.inodes[p].size /\ e.inodes[p].size = size + 1 /\ e.inodeBitmap = t.inodeBitmap
    BY <1>0, <1>1, <1>4
  <2> QED
    BY <1>2, <1>13, <1>14, <1>15, <1>16, <2>1, DirectoryGrows
<1>18. p \in Directories(e)
  BY <1>2, <1>14
<1> QED
  BY <1>8, <1>17, <1>18 DEF Named, e, r, B, cells, u, size, ino

\* The slot create takes is the one behind the last entry.
LEMMA LinkSlot ==
  ASSUME NEW t, NEW p, Filled(t, p), DirRow(p, RowOf(t, p)), NEW e, e.blocks = t.blocks,
         NEW ino, ino = t.inodes[p]
  PROVE  First({pos \in PositionsIn(Held(ino, BlocksFor(ino.size))) :
                  CellAt(e, ino, pos).inum = -1})
           = IF HasRoom(ino) THEN ino.size ELSE -1
<1> DEFINE u    == BlocksFor(ino.size)
           size == ino.size
           top  == u * EntriesPerBlock
           hits == {pos \in PositionsIn(Held(ino, u)) : CellAt(e, ino, pos).inum = -1}
<1>1. size \in Nat /\ top \in Nat /\ size <= top
  BY BlocksOfSize DEF Filled
<1>2. PositionsIn(Held(ino, u)) = 0 .. top - 1
  BY BlocksOfDirectory
<1>3. \A pos \in size .. top - 1 : CellAt(e, ino, pos).inum = -1
  BY DEF Filled, CellAt
<1>4. \A pos \in 0 .. size - 1 : CellAt(e, ino, pos).inum \in Nat
  <2>1. SUFFICES ASSUME NEW pos \in 0 .. size - 1 PROVE CellAt(e, ino, pos).inum \in Nat
    OBVIOUS
  <2>2. CellAt(e, ino, pos) = RowOf(t, p)[pos] /\ pos \in DOMAIN RowOf(t, p)
    BY DEF CellAt, RowOf
  <2>3. RowOf(t, p)[pos].inum \in Inodes
    BY <2>2 DEF DirRow
  <2> QED
    BY <2>2, <2>3 DEF Inodes
<1>5. HasRoom(ino) <=> size < top
  BY DEF HasRoom
<1> HIDE DEF top, size
<1>6. hits = size .. top - 1
  <2> HIDE DEF u
  <2>1. \A pos \in 0 .. top - 1 : pos \in 0 .. size - 1 \/ pos \in size .. top - 1
    BY <1>1
  <2>2. \A pos \in 0 .. size - 1 : CellAt(e, ino, pos).inum # -1
    BY <1>4
  <2>3. size .. top - 1 \subseteq 0 .. top - 1
    BY <1>1
  <2> QED
    BY <1>2, <1>3, <2>1, <2>2, <2>3
<1> HIDE DEF hits
<1>7. CASE size < top
  <2>1. hits \in SUBSET Nat /\ hits # {} /\ size \in hits
    <3>1. \A x \in size .. top - 1 : x \in Nat
      BY <1>1
    <3>2. size \in size .. top - 1
      BY <1>1, <1>7
    <3> QED
      BY <1>6, <3>1, <3>2
  <2>2. Least(hits) \in hits /\ \A y \in hits : Least(hits) <= y
    BY <2>1, LeastIsMinimum
  <2>3. Least(hits) = size
    <3> DEFINE x == Least(hits)
    <3>1. x \in hits /\ x <= size
      BY <2>1, <2>2
    <3> HIDE DEF x
    <3>2. x \in size .. top - 1
      BY <1>6, <3>1
    <3>3. x = size
      BY <1>1, <3>1, <3>2
    <3> QED
      BY <3>3 DEF x
  <2> QED
    BY <1>5, <1>7, <2>1, <2>3 DEF First, hits, size
<1>8. CASE ~(size < top)
  <2>1. hits = {}
    BY <1>1, <1>6, <1>8
  <2> QED
    BY <1>5, <1>8, <2>1 DEF First, hits
<1> QED
  BY <1>7, <1>8

\* What Link decides: no room, or one more name in the tree.
LinkEnds(e, p, n, i, first, plan, blocks) ==
  \/ plan = Plan(-ENOTENOUGHSPACE, first, FALSE, Meta(e))
  \/ /\ plan.ret = i /\ plan.commit
     /\ \E B \in [DataBlocks -> Block] :
          /\ Ends(blocks, plan.writes, B)
          /\ Tree(After(plan.mem, B)) /\ Named(After(plan.mem, B), p, n, i)

\* Linking: the writes of create, the one to a new directory's own block before
\* them, leave a tree with the name, or create has reported that there is no room.
LEMMA LinkGrows ==
  ASSUME NEW e, NEW m \in Metadata, Unshared(m.inodes), Marked(m.inodes, m.dataBitmap),
         e.blocks \in [DataBlocks -> Block],
         NEW p, NEW n, NEW i, Linkable(After(m, e.blocks), p, n, i),
         NEW blocks, NEW first \in Writes, Ends(blocks, first, e.blocks),
         \A j \in 1 .. Len(first) :
            /\ first[j].addr \in m.dataBitmap
            /\ \A a \in Ptrs : m.inodes[p].direct[a] # first[j].addr,
         NEW plan, plan = Link(e, p, n, i, first, m)
  PROVE  LinkEnds(e, p, n, i, first, plan, blocks)
<1> DEFINE t     == After(m, e.blocks)
           ino   == m.inodes[p]
           used  == BlocksFor(ino.size)
           free  == DataBlocks \ m.dataBitmap
           b     == Least(free)
           at    == RoomAt(ino)
           cells == RoomCells(e.blocks, ino, Entry(n, i))
           fresh == FreshCells(Entry(n, i))
           slot  == First({pos \in PositionsIn(Held(ino, used)) : CellAt(e, ino, pos).inum = -1})
<1>1. slot = IF HasRoom(ino) THEN ino.size ELSE -1
  <2>1. t.blocks = e.blocks /\ t.inodes = m.inodes
    BY DEF After
  <2> HIDE DEF t
  <2>2. Tree(t) /\ p \in Directories(t)
    BY DEF Linkable, t
  <2>3. Filled(t, p) /\ DirRow(p, RowOf(t, p))
    BY <2>2 DEF Tree, Forest, RowsOf
  <2> QED
    BY <2>1, <2>3, LinkSlot
<1>2. ino.size # -1
  <2>1. Tree(t) /\ p \in Directories(t) /\ t.inodes = m.inodes
    BY DEF Linkable, After
  <2> HIDE DEF t
  <2>2. ino.size \in Nat
    BY <2>1 DEF Tree, Filled
  <2> QED
    BY <2>2
<1> HIDE DEF slot
<1>3. CASE HasRoom(ino)
  <2>1. plan = Plan(i, Append(first, Update(at, cells)), TRUE, WithEntry(m, p))
    <3>1. slot # -1 /\ slot = ino.size
      BY <1>1, <1>2, <1>3
    <3>2. plan = Plan(i, Append(first, Update(ino.direct[slot \div EntriesPerBlock],
                                [e.blocks[ino.direct[slot \div EntriesPerBlock]] EXCEPT
                                   ![slot % EntriesPerBlock] = Entry(n, i)])),
                TRUE, [m EXCEPT !.inodes[p].size = @ + 1])
      BY <3>1 DEF Link, slot
    <3> QED
      BY <3>1, <3>2 DEF RoomAt, RoomCells, WithEntry
  <2> DEFINE B == RoomTaken(e.blocks, ino, Entry(n, i))
  <2>2. /\ at \in DataBlocks /\ cells \in Block
        /\ ino.size \div EntriesPerBlock \in Ptrs
        /\ Tree(After(WithEntry(m, p), B)) /\ Named(After(WithEntry(m, p), B), p, n, i)
    BY <1>3, SlotGrows
  <2>3. B = [e.blocks EXCEPT ![at] = cells]
    BY DEF RoomTaken
  <2>4. \A j \in 1 .. Len(first) : first[j].addr # at
    BY <2>2 DEF RoomAt
  <2> HIDE DEF at, cells, B
  <2>5. Ends(blocks, Append(first, Update(at, cells)), B) /\ B \in [DataBlocks -> Block]
    <3>1. Ends(blocks, Append(first, Update(at, cells)), [e.blocks EXCEPT ![at] = cells])
      BY <2>2, <2>4, OneMoreWrite
    <3> QED
      BY <2>2, <2>3, <3>1
  <2>6. /\ plan.ret = i /\ plan.commit /\ plan.writes = Append(first, Update(at, cells))
        /\ plan.mem = WithEntry(m, p)
    BY <2>1 DEF Plan
  <2> QED
    BY <2>2, <2>5, <2>6 DEF LinkEnds
<1>4. CASE ~HasRoom(ino) /\ (used >= DirectPtrs \/ free = {})
  BY <1>1, <1>4 DEF Link, slot, LinkEnds
<1>5. CASE ~HasRoom(ino) /\ ~(used >= DirectPtrs \/ free = {})
  <2>1. plan = Plan(i, Append(first, Update(b, fresh)), TRUE, WithBlock(m, p, used, b))
    <3>1. slot = -1
      BY <1>1, <1>5
    <3>2. plan = Plan(i, Append(first, Update(b, [s \in Slots |->
                                              IF s = 0 THEN Entry(n, i) ELSE Unused])),
                TRUE, [m EXCEPT !.dataBitmap = @ \cup {b},
                                !.inodes[p].size = @ + 1,
                                !.inodes[p].direct[used] = b])
      BY <1>5, <3>1 DEF Link, slot
    <3> QED
      BY <3>2 DEF FreshCells, WithBlock
  <2> DEFINE B == BlockTaken(e.blocks, b, Entry(n, i))
  <2>2. b \in DataBlocks /\ b \notin m.dataBitmap
    <3>1. free \in SUBSET Nat /\ free # {}
      BY <1>5, Layout
    <3>2. b \in free
      <4> HIDE DEF free
      <4> QED
        BY <3>1, LeastIsMinimum
    <3> QED
      BY <3>2
  <2> HIDE DEF b
  <2>3. BlocksFor(m.inodes[p].size) < DirectPtrs
    <3>1. Tree(t) /\ p \in Directories(t) /\ t.inodes = m.inodes
      BY DEF Linkable, After
    <3> HIDE DEF t
    <3>2. ino.size \in Nat
      BY <3>1 DEF Tree, Filled
    <3>3. used \in Int /\ DirectPtrs \in Nat
      BY <3>2, BlocksForInt, UFSAssumption
    <3> QED
      BY <1>5, <3>3
  <2>4. /\ fresh \in Block
        /\ Tree(After(WithBlock(m, p, used, b), B))
        /\ Named(After(WithBlock(m, p, used, b), B), p, n, i)
    BY <1>5, <2>2, <2>3, BlockGrows
  <2>5. B = [e.blocks EXCEPT ![b] = fresh]
    BY DEF BlockTaken
  <2>6. \A j \in 1 .. Len(first) : first[j].addr # b
    BY <2>2
  <2> HIDE DEF fresh, B
  <2>7. Ends(blocks, Append(first, Update(b, fresh)), B) /\ B \in [DataBlocks -> Block]
    <3>1. Ends(blocks, Append(first, Update(b, fresh)), [e.blocks EXCEPT ![b] = fresh])
      BY <2>2, <2>4, <2>6, OneMoreWrite
    <3> QED
      BY <2>4, <2>5, <3>1
  <2>8. /\ plan.ret = i /\ plan.commit /\ plan.writes = Append(first, Update(b, fresh))
        /\ plan.mem = WithBlock(m, p, used, b)
    BY <2>1 DEF Plan
  <2> QED
    BY <2>4, <2>7, <2>8 DEF LinkEnds
<1> QED
  BY <1>3, <1>4, <1>5

\* The names "." and ".." and those of the entries are taken.
LEMMA NameIsNew ==
  ASSUME NEW d, d.inodeBitmap \in SUBSET Inodes, Tree(d), NEW p, NEW type, NEW n,
         CreateChecks(d, p, type, n) = Passes
  PROVE  p \in Directories(d) /\ n \in Names /\ NameFree(RowOf(d, p), n)
<1> DEFINE ino  == d.inodes[p]
           hits == {pos \in PositionsIn(Held(ino, BlocksFor(ino.size))) :
                      CellAt(d, ino, pos).inum # -1 /\ CellAt(d, ino, pos).name = n}
           at   == CellAt(d, ino, Existing(d, ino, n)).inum
           top  == BlocksFor(ino.size) * EntriesPerBlock
<1>1. /\ n \in ValidNames /\ p \in Directories(d) /\ ~Unreadable(d.inodes[p])
  BY ChecksPassedName DEF IsDirectory, Directories
<1>2. Existing(d, ino, n) = -1
  <2>1. Passes \in Nat \ {0} /\ Passes \notin Inodes
    BY UFSAssumption DEF Passes, Inodes
  <2>2. ExistingResult(d, at, type) # Passes
    <3> HIDE DEF at
    <3>1. at \in d.inodeBitmap => at # Passes
      BY <2>1
    <3> QED
      BY <3>1, <2>1 DEF ExistingResult, EINVALIDINODE, EINVALIDTYPE
  <2>3. /\ -EINVALIDNAME # Passes /\ -EINVALIDINODE # Passes /\ Aborts # Passes
    BY <2>1 DEF EINVALIDNAME, EINVALIDINODE, Aborts
  <2> QED
    BY <2>2, <2>3 DEF CreateChecks
<1>3. Filled(d, p) /\ DirRow(p, RowOf(d, p))
  BY <1>1 DEF Tree, Forest, RowsOf
<1>4. PositionsIn(Held(ino, BlocksFor(ino.size))) = 0 .. top - 1
      /\ ino.size \in Nat /\ top \in Nat /\ ino.size <= top
  <2>1. ino.size \in Nat
    BY <1>3 DEF Filled
  <2>2. top \in Nat /\ ino.size <= top
    BY <2>1, BlocksOfSize
  <2>3. PositionsIn(Held(ino, BlocksFor(ino.size))) = 0 .. top - 1
    BY <1>3, BlocksOfDirectory
  <2> QED
    BY <2>1, <2>2, <2>3
<1>5. hits = {}
  <2>1. hits \subseteq Nat
    <3>1. \A x \in 0 .. top - 1 : x \in Nat
      BY <1>4
    <3> QED
      BY <1>4, <3>1
  <2>2. First(hits) = -1
    BY <1>2 DEF Existing
  <2> HIDE DEF hits
  <2> QED
    BY <2>1, <2>2, LeastIsMinimum DEF First
<1>6. ASSUME NEW e \in DOMAIN RowOf(d, p)
      PROVE  RowOf(d, p)[e].name # n
  <2>1. e \in 0 .. ino.size - 1 /\ RowOf(d, p)[e] = CellAt(d, ino, e)
    BY DEF RowOf
  <2>2. e \in 0 .. top - 1
    <3> HIDE DEF top, ino
    <3> QED
      BY <1>4, <2>1
  <2>3. CellAt(d, ino, e).inum # -1
    BY <1>3, <2>1 DEF DirRow, Inodes
  <2> QED
    BY <1>4, <1>5, <2>1, <2>2, <2>3
<1>7. n # "." /\ n # ".."
  BY <1>3, <1>6, EntryFields DEF DirRow
<1> QED
  BY <1>1, <1>6, <1>7 DEF ValidNames, NamedIn, NameFree

\* The metadata with the new inode.
LEMMA WithInodeOwns ==
  ASSUME NEW d, Sound(d), NEW type \in {Directory, RegularFile},
         NEW i \in Inodes, i \notin d.inodeBitmap,
         NEW home, type = Directory => home \in DataBlocks /\ home \notin d.dataBitmap,
         NEW m, \A j \in Inodes \ {i} : m.inodes[j] = d.inodes[j],
         m.inodes[i] = NewInode(type, home), d.dataBitmap \subseteq m.dataBitmap,
         type = Directory => home \in m.dataBitmap
  PROVE  Unshared(m.inodes) /\ Marked(m.inodes, m.dataBitmap)
<1> DEFINE new == NewInode(type, home)
<1>1. /\ d.inodes \in [Inodes -> Inode] /\ d.dataBitmap \in SUBSET DataBlocks
      /\ Unshared(d.inodes) /\ Marked(d.inodes, d.dataBitmap)
  BY DEF Sound, Meta, Metadata
<1>2. d.dataBitmap \subseteq m.dataBitmap /\ (type = Directory => home \in m.dataBitmap)
  OBVIOUS
<1>3. \A c \in Ptrs : new.direct[c] = NoBlock \/ (type = Directory /\ c = 0 /\ new.direct[c] = home)
  BY DEF NewInode
<1>4. \A j \in Inodes : m.inodes[j] = IF j = i THEN new ELSE d.inodes[j]
  OBVIOUS
<1> HIDE DEF new
<1>5. Marked(m.inodes, m.dataBitmap)
  <2>1. SUFFICES ASSUME NEW x \in Inodes, NEW a \in Ptrs, m.inodes[x].direct[a] \in DataBlocks
                 PROVE  m.inodes[x].direct[a] \in m.dataBitmap
    BY DEF Marked
  <2>2. CASE x = i
    BY <1>2, <1>3, <1>4, <2>1, <2>2, Layout
  <2>3. CASE x # i
    BY <1>1, <1>2, <1>4, <2>1, <2>3 DEF Marked
  <2> QED
    BY <2>2, <2>3
<1>6. Unshared(m.inodes)
  <2>1. SUFFICES ASSUME NEW x \in Inodes, NEW y \in Inodes, NEW a \in Ptrs, NEW b \in Ptrs,
                        m.inodes[x].direct[a] \in DataBlocks,
                        m.inodes[x].direct[a] = m.inodes[y].direct[b]
                 PROVE  x = y /\ a = b
    BY DEF Unshared
  <2>2. CASE x # i /\ y # i
    BY <1>1, <1>4, <2>1, <2>2 DEF Unshared
  <2>3. CASE x = i /\ y = i
    BY <1>3, <1>4, <2>1, <2>3, Layout
  <2>n. \A z \in Inodes, c, e \in Ptrs :
           d.inodes[z].direct[c] \in DataBlocks => d.inodes[z].direct[c] # new.direct[e]
    BY <1>1, <1>3, Layout DEF Marked
  <2>4. CASE x = i /\ y # i
    BY <1>4, <2>1, <2>4, <2>n
  <2>5. CASE x # i /\ y = i
    BY <1>4, <2>1, <2>5, <2>n
  <2> QED
    BY <2>2, <2>3, <2>4, <2>5
<1> QED
  BY <1>5, <1>6

\* A directory whose first block starts with the two dots and holds no other entry.
LEMMA FirstBlock ==
  ASSUME NEW t, NEW i \in Inodes, NEW p \in Inodes, NEW home \in DataBlocks,
         t.inodes[i].size = 2, t.inodes[i].direct[0] = home,
         t.blocks[home][0] = Entry(".", i), t.blocks[home][1] = Entry("..", p),
         \A s \in Slots : s # 0 /\ s # 1 => t.blocks[home][s].inum = -1
  PROVE  /\ Filled(t, i) /\ DirRow(i, RowOf(t, i)) /\ NamedIn(RowOf(t, i)) = {}
         /\ CellAt(t, t.inodes[i], 1) = Entry("..", p)
<1> DEFINE ino   == t.inodes[i]
           E     == EntriesPerBlock
           row   == RowOf(t, i)
           cells == t.blocks[home]
<1>1. E \in Nat /\ E > 1 /\ DirectPtrs \in Nat /\ DirectPtrs > 0 /\ 1 * E = E
  BY UFSAssumption
<1>2. ino.size = 2 /\ ino.direct[0] = home
  OBVIOUS
<1> HIDE DEF ino
<1>3. BlocksFor(2) = 1
  BY <1>1, BlocksForBetween
<1>5. ASSUME NEW pos \in 0 .. E - 1
      PROVE  CellAt(t, ino, pos) = cells[pos]
  <2>1. pos \div E = 0 /\ pos % E = pos
    <3>1. pos \in 0 .. 1 * E - 1
      BY <1>1
    <3>2. pos \div E \in 0 .. 1 - 1 /\ pos % E \in Slots /\ pos = (pos \div E) * E + (pos % E)
      BY <3>1, PositionParts
    <3> DEFINE q == pos \div E
               s == pos % E
    <3> HIDE DEF q, s
    <3>3. q = 0 /\ s \in 0 .. E - 1 /\ pos = q * E + s
      BY <3>2 DEF q, s, Slots
    <3>4. pos = s
      BY <1>1, <3>3
    <3> QED
      BY <3>3, <3>4 DEF q, s
  <2> QED
    BY <1>2, <2>1 DEF CellAt
<1>6. CellAt(t, ino, 0) = Entry(".", i) /\ CellAt(t, ino, 1) = Entry("..", p)
  <2>1. 0 \in 0 .. E - 1 /\ 1 \in 0 .. E - 1
    BY <1>1
  <2> QED
    BY <1>5, <2>1
<1>7. /\ DOMAIN row = {0, 1} /\ row[0] = Entry(".", i) /\ row[1] = Entry("..", p)
  <2>1. 0 .. 2 - 1 = {0, 1}
    OBVIOUS
  <2>2. row = [pos \in 0 .. 2 - 1 |-> CellAt(t, ino, pos)]
    BY <1>2 DEF RowOf, ino
  <2> HIDE DEF row
  <2> QED
    BY <1>6, <2>1, <2>2
<1> HIDE DEF row
<1>8. NamedIn(row) = {}
  BY <1>7, EntryFields, DotsAreNone DEF NamedIn
<1>9. DirRow(i, row)
  BY <1>7, <1>8, EntryFields DEF DirRow
<1>10. Filled(t, i)
  <2>1. \A pos \in 2 .. 1 * E - 1 : CellAt(t, ino, pos).inum = -1
    <3>1. \A pos \in 2 .. 1 * E - 1 : pos \in 0 .. E - 1 /\ pos # 0 /\ pos # 1
      BY <1>1
    <3> QED
      BY <3>1, <1>5 DEF Slots
  <2>2. \A a \in 0 .. 1 - 1 : ino.direct[a] \in DataBlocks
    BY <1>2
  <2> QED
    BY <1>1, <1>2, <1>3, <2>1, <2>2 DEF Filled, ino
<1> QED
  BY <1>6, <1>8, <1>9, <1>10 DEF row, ino

\* The block of a new directory.
LEMMA MadeDirectory ==
  ASSUME NEW t, NEW i \in Inodes, NEW p \in Inodes, NEW home \in DataBlocks,
         t.inodes[i] = NewInode(Directory, home), t.blocks[home] = DirBlock(i, p)
  PROVE  /\ Filled(t, i) /\ DirRow(i, RowOf(t, i)) /\ NamedIn(RowOf(t, i)) = {}
         /\ CellAt(t, t.inodes[i], 1) = Entry("..", p)
<1>1. DirectPtrs \in Nat /\ DirectPtrs > 0 /\ {0, 1} \subseteq Slots
  BY UFSAssumption DEF Slots
<1>2. t.inodes[i].size = 2 /\ t.inodes[i].direct[0] = home
  <2>1. 0 \in Ptrs
    BY <1>1 DEF Ptrs
  <2>2. t.inodes[i] = [type |-> Directory, size |-> 2,
                       direct |-> [a \in Ptrs |-> IF a = 0 THEN home ELSE NoBlock]]
    BY DEF NewInode
  <2> QED
    BY <2>1, <2>2
<1>3. /\ t.blocks[home][0] = Entry(".", i) /\ t.blocks[home][1] = Entry("..", p)
      /\ \A s \in Slots : s # 0 /\ s # 1 => t.blocks[home][s].inum = -1
  <2>1. \A s \in Slots : DirBlock(i, p)[s] = IF s = 0 THEN Entry(".", i)
                                             ELSE IF s = 1 THEN Entry("..", p) ELSE Unused
    BY DEF DirBlock
  <2>2. 0 \in Slots /\ 1 \in Slots /\ 1 # 0
    BY <1>1
  <2> QED
    BY <2>1, <2>2, UnusedEntry
<1> QED
  BY <1>2, <1>3, FirstBlock

\* The tree with one more inode that has no name yet.
LEMMA RowsWithInode ==
  \A d, i, t :
     /\ Tree(d) /\ i \notin d.inodeBitmap
     /\ Directories(t) = Directories(d) \/ Directories(t) = Directories(d) \cup {i}
     /\ \A q \in Directories(d) : RowOf(t, q) = RowOf(d, q)
     /\ i \in Directories(t) => DirRow(i, RowOf(t, i)) /\ NamedIn(RowOf(t, i)) = {}
     => Forest(d.inodeBitmap \cup {i}, RowsOf(t)) /\ Unnamed(RowsOf(t), i)
<1>0. SUFFICES ASSUME NEW d, NEW i, NEW t,
             Tree(d) /\ i \notin d.inodeBitmap,
             Directories(t) = Directories(d) \/ Directories(t) = Directories(d) \cup {i},
             \A q \in Directories(d) : RowOf(t, q) = RowOf(d, q),
             i \in Directories(t) => DirRow(i, RowOf(t, i)) /\ NamedIn(RowOf(t, i)) = {}
           PROVE  Forest(d.inodeBitmap \cup {i}, RowsOf(t)) /\ Unnamed(RowsOf(t), i)
  OBVIOUS
<1> DEFINE rows  == RowsOf(d)
           rows2 == RowsOf(t)
           S     == d.inodeBitmap
<1>1. /\ DOMAIN rows = Directories(d) /\ DOMAIN rows2 = Directories(t)
      /\ \A q \in Directories(d) : rows[q] = RowOf(d, q)
      /\ \A q \in Directories(t) : rows2[q] = RowOf(t, q)
  BY DEF RowsOf
<1>2. Forest(S, rows)
  BY <1>0 DEF Tree
<1> HIDE DEF rows, rows2
<1>3. \A q \in DOMAIN rows : rows2[q] = rows[q]
  BY <1>0, <1>1
<1>4. i \in DOMAIN rows2 => DirRow(i, rows2[i]) /\ NamedIn(rows2[i]) = {}
  BY <1>0, <1>1
<1>5. i \notin S /\ (DOMAIN rows2 = DOMAIN rows \/ DOMAIN rows2 = DOMAIN rows \cup {i})
  BY <1>0, <1>1
<1> HIDE DEF S
<1>6. Forest(S \cup {i}, rows2) /\ Unnamed(rows2, i)
  BY <1>2, <1>3, <1>4, <1>5, InodeComes
<1> QED
  BY <1>6 DEF rows2, S

\* The inode create allocates, with its block when it is a directory, is ready
\* to be linked.
LEMMA NewInodeIsReady ==
  ASSUME NEW d, Usable(d), Tree(d), NEW type \in {Directory, RegularFile},
         NEW p \in Directories(d), NEW n \in Names, NameFree(RowOf(d, p), n),
         NEW i \in Inodes, i \notin d.inodeBitmap,
         NEW home, type = Directory => home \in DataBlocks /\ home \notin d.dataBitmap,
         NEW m, m.inodeBitmap = d.inodeBitmap \cup {i},
         \A j \in Inodes \ {i} : m.inodes[j] = d.inodes[j],
         m.inodes[i] = NewInode(type, home),
         NEW Bl, \A b \in DataBlocks : ~(type = Directory /\ b = home) => Bl[b] = d.blocks[b],
         type = Directory => Bl[home] = DirBlock(i, p)
  PROVE  Linkable(After(m, Bl), p, n, i)
<1> DEFINE t == After(m, Bl)
<1>1. /\ t.inodes = m.inodes /\ t.inodeBitmap = m.inodeBitmap /\ t.blocks = Bl
  BY DEF After
<1> HIDE DEF t
<1>2. /\ d.inodeBitmap \subseteq Inodes /\ d.inodes \in [Inodes -> Inode]
      /\ Marked(d.inodes, d.dataBitmap) /\ p \in d.inodeBitmap
  BY DEF Usable, Sound, Meta, Metadata, Directories
<1>3. t.inodes[i].type = type /\ Directory # RegularFile
  BY <1>1 DEF NewInode, Directory, RegularFile
<1>4. Directories(t) = Directories(d) \cup (IF type = Directory THEN {i} ELSE {})
  <2>1. \A j \in d.inodeBitmap : t.inodes[j].type = d.inodes[j].type
    BY <1>1, <1>2
  <2> QED
    BY <1>1, <1>3, <2>1 DEF Directories
<1>5. ASSUME NEW q \in Directories(d)
      PROVE  RowOf(t, q) = RowOf(d, q) /\ Filled(t, q)
  <2>1. Filled(d, q) /\ q \in d.inodeBitmap /\ q \in Inodes
    BY <1>2 DEF Tree, Directories
  <2>2. t.inodes[q] = d.inodes[q]
    BY <1>1, <2>1
  <2>3. \A a \in Ptrs : d.inodes[q].direct[a] \in DataBlocks =>
            t.blocks[d.inodes[q].direct[a]] = d.blocks[d.inodes[q].direct[a]]
    BY <1>1, <1>2, <2>1 DEF Marked
  <2> QED
    BY <2>1, <2>2, <2>3, RowDependsOn
<1>6. type = Directory => /\ Filled(t, i) /\ DirRow(i, RowOf(t, i)) /\ NamedIn(RowOf(t, i)) = {}
                          /\ CellAt(t, t.inodes[i], 1) = Entry("..", p)
  <2>1. SUFFICES ASSUME type = Directory
                 PROVE  /\ Filled(t, i) /\ DirRow(i, RowOf(t, i)) /\ NamedIn(RowOf(t, i)) = {}
                        /\ CellAt(t, t.inodes[i], 1) = Entry("..", p)
    OBVIOUS
  <2>2. /\ home \in DataBlocks /\ t.inodes[i] = NewInode(Directory, home)
        /\ t.blocks[home] = DirBlock(i, p) /\ p \in Inodes
    BY <1>1, <1>2, <2>1
  <2> QED
    BY <2>2, MadeDirectory
<1>7. Forest(d.inodeBitmap \cup {i}, RowsOf(t)) /\ Unnamed(RowsOf(t), i)
  <2>1. Directories(t) = Directories(d) \/ Directories(t) = Directories(d) \cup {i}
    BY <1>4
  <2>2. i \in Directories(t) => DirRow(i, RowOf(t, i)) /\ NamedIn(RowOf(t, i)) = {}
    BY <1>4, <1>6 DEF Directories
  <2> QED
    BY <1>5, <2>1, <2>2, RowsWithInode, Zenon
<1>8. Tree(t)
  <2>1. \A q \in Directories(t) : q \in Directories(d) \/ (type = Directory /\ q = i)
    BY <1>4
  <2>2. \A q \in Directories(t) : Filled(t, q)
    BY <1>5, <1>6, <2>1
  <2> QED
    BY <1>1, <1>7, <2>2 DEF Tree
<1>9. i # Root /\ i # p
  BY <1>2 DEF Tree
<1>10. i \in Directories(t) => CellAt(t, t.inodes[i], 1) = Entry("..", p)
  BY <1>4, <1>6 DEF Directories
<1>11. NameFree(RowOf(t, p), n) /\ p \in Directories(t)
  BY <1>4, <1>5
<1> QED
  BY <1>1, <1>7, <1>8, <1>9, <1>10, <1>11 DEF Linkable, t

\* What a call has decided leaves a tree when its writes are done.
Outcome(d, plan, B) ==
  /\ B \in [DataBlocks -> Block] /\ Ends(d.blocks, plan.writes, B)
  /\ Tree(After(plan.mem, B))
  /\ plan.ret < 0 => plan.mem = Meta(d)
  /\ plan.commit => plan.ret \in Nat
  /\ ~plan.commit => plan.ret \in Int /\ plan.ret < 0

\* Nothing but the blocks of files and free blocks is different.
LEMMA TreeStays ==
  ASSUME NEW d, Sound(d), Tree(d), NEW B,
         \A p \in Directories(d) : \A a \in Ptrs : d.inodes[p].direct[a] \in DataBlocks =>
            B[d.inodes[p].direct[a]] = d.blocks[d.inodes[p].direct[a]]
  PROVE  Tree(After(Meta(d), B)) /\ RowsOf(After(Meta(d), B)) = RowsOf(d)
<1> DEFINE e == After(Meta(d), B)
<1>1. e.inodeBitmap = d.inodeBitmap /\ e.inodes = d.inodes /\ e.blocks = B
  BY DEF After, Meta
<1> HIDE DEF e
<1>2. Directories(e) = Directories(d)
  BY <1>1 DEF Directories
<1>3. Tree(e) /\ RowsOf(e) = RowsOf(d)
  BY <1>1, <1>2, TreeDependsOn
<1> QED
  BY <1>3 DEF e

\* A call with one write, and a call with none.
LEMMA OneUpdate ==
  ASSUME NEW blocks \in [DataBlocks -> Block], NEW b \in DataBlocks, NEW cells \in Block
  PROVE  /\ <<Update(b, cells)>> \in Writes
         /\ Ends(blocks, <<Update(b, cells)>>, [blocks EXCEPT ![b] = cells])
         /\ \A j \in 1 .. Len(<<Update(b, cells)>>) : <<Update(b, cells)>>[j].addr = b
<1> DEFINE w == <<Update(b, cells)>>
<1>1. Len(w) = 1 /\ w[1] = Update(b, cells) /\ \A j \in 1 .. Len(w) : j = 1
  OBVIOUS
<1>2. Update(b, cells) \in [addr : DataBlocks, cells : Block]
      /\ Update(b, cells).addr = b /\ Update(b, cells).cells = cells
  BY DEF Update
<1>3. w \in Writes
  <2> DEFINE T == [addr : DataBlocks, cells : Block]
             u == Update(b, cells)
  <2>1. u \in T
    BY <1>2
  <2> HIDE DEF T, u
  <2>2. <<u>> \in Seq(T)
    BY <2>1
  <2> QED
    BY <2>2 DEF Writes, T, u
<1> HIDE DEF w
<1>4. \A j \in 1 .. Len(w) : w[j].addr = b /\ w[j].cells = cells
  BY <1>1, <1>2
<1>5. Ends(blocks, w, [blocks EXCEPT ![b] = cells])
  BY <1>1, <1>4 DEF Ends
<1> QED
  BY <1>3, <1>4, <1>5 DEF w

LEMMA NoWrite ==
  ASSUME NEW blocks \in [DataBlocks -> Block]
  PROVE  <<>> \in Writes /\ Ends(blocks, <<>>, blocks) /\ Len(<<>>) = 0
<1>1. Len(<<>>) = 0 /\ <<>> \in Writes
  BY DEF Writes
<1> QED
  BY <1>1 DEF Ends

\* create: what it has decided leaves a tree, with the name in it when it
\* succeeds.  A failure leaves the metadata as it was.
LEMMA CreateGrows ==
  ASSUME NEW d, Usable(d), Tree(d), NEW p, NEW type \in {Directory, RegularFile}, NEW n,
         NEW plan, plan = CreatePlan(d, p, type, n), ~IsRefused(plan)
  PROVE  \E B : Outcome(d, plan, B)
                /\ (plan.commit => n \in Names /\ Named(After(plan.mem, B), p, n, plan.ret))
<1> DEFINE i     == Least(Inodes \ d.inodeBitmap)
           home  == Least(DataBlocks \ d.dataBitmap)
           m     == WithInode(d, type)
           cells == DirBlock(i, p)
           d1    == [d EXCEPT !.blocks[home] = cells]
           w     == <<Update(home, cells)>>
<1>1. /\ d.inodeBitmap \in SUBSET Inodes /\ Sound(d) /\ d.blocks \in [DataBlocks -> Block]
      /\ Marked(d.inodes, d.dataBitmap) /\ d.inodes \in [Inodes -> Inode]
  BY DEF Usable, Sound, Meta, Metadata
<1>2. CreateChecks(d, p, type, n) = Passes
  <2>1. \A x : IsRefused(Refuse(d, x))
    BY DEF IsRefused, Refuse, Plan
  <2> QED
    BY <2>1 DEF CreatePlan
<1>3. p \in Directories(d) /\ n \in Names /\ NameFree(RowOf(d, p), n)
  BY <1>1, <1>2, NameIsNew
<1>4. d.inodeBitmap # Inodes /\ (type = Directory => d.dataBitmap # DataBlocks)
  BY <1>1, <1>2, ChecksPassed
<1>5. /\ i \in Inodes /\ i \notin d.inodeBitmap
      /\ type = Directory => home \in DataBlocks /\ home \notin d.dataBitmap
      /\ m \in Metadata
  BY <1>4, WithInodeSpares
<1>6. /\ m.inodeBitmap = d.inodeBitmap \cup {i}
      /\ m.dataBitmap = d.dataBitmap \cup (IF type = Directory THEN {home} ELSE {})
      /\ m.inodes = [d.inodes EXCEPT ![i] = NewInode(type, home)]
  BY DEF WithInode
<1>7. plan = IF type = Directory THEN Link(d1, p, n, i, w, m) ELSE Link(d, p, n, i, <<>>, m)
  BY <1>2 DEF CreatePlan
<1> HIDE DEF i, home, m
<1>7a. /\ \A j \in Inodes \ {i} : m.inodes[j] = d.inodes[j]
       /\ m.inodes[i] = NewInode(type, home)
  <2>1. d.inodes \in [Inodes -> Inode] /\ i \in Inodes
    BY <1>1, <1>5
  <2> QED
    BY <1>6, <2>1
<1>7b. d.dataBitmap \subseteq m.dataBitmap /\ (type = Directory => home \in m.dataBitmap)
  BY <1>6
<1>7c. /\ Sound(d) /\ i \in Inodes /\ i \notin d.inodeBitmap
       /\ type = Directory => home \in DataBlocks /\ home \notin d.dataBitmap
  BY <1>1, <1>5
<1>8. Unshared(m.inodes) /\ Marked(m.inodes, m.dataBitmap)
  BY <1>7a, <1>7b, <1>7c, WithInodeOwns
<1>9. ASSUME NEW e, NEW first \in Writes, e.blocks \in [DataBlocks -> Block],
             Meta(e) = Meta(d), Ends(d.blocks, first, e.blocks),
             \A b \in DataBlocks : ~(type = Directory /\ b = home) => e.blocks[b] = d.blocks[b],
             type = Directory => e.blocks[home] = DirBlock(i, p),
             \A j \in 1 .. Len(first) : type = Directory /\ first[j].addr = home,
             plan = Link(e, p, n, i, first, m)
      PROVE  \E B : Outcome(d, plan, B)
                /\ (plan.commit => n \in Names /\ Named(After(plan.mem, B), p, n, plan.ret))
  <2>1. Linkable(After(m, e.blocks), p, n, i)
    <3>1. n \in Names /\ NameFree(RowOf(d, p), n) /\ p \in Directories(d)
      BY <1>3
    <3>2. m.inodeBitmap = d.inodeBitmap \cup {i}
      BY <1>6
    <3>3. (\A j \in Inodes \ {i} : m.inodes[j] = d.inodes[j]) /\ m.inodes[i] = NewInode(type, home)
      BY <1>7a
    <3>4. \A b \in DataBlocks : ~(type = Directory /\ b = home) => e.blocks[b] = d.blocks[b]
      BY <1>9
    <3>5. type = Directory => e.blocks[home] = DirBlock(i, p)
      BY <1>9
    <3> QED
      BY <1>7c, <3>1, <3>2, <3>3, <3>4, <3>5, NewInodeIsReady
  <2>2. p \in Inodes /\ p \in d.inodeBitmap /\ m.inodes[p] = d.inodes[p]
    BY <1>1, <1>3, <1>5, <1>7a DEF Directories
  <2>3. \A j \in 1 .. Len(first) :
            /\ first[j].addr \in m.dataBitmap
            /\ \A a \in Ptrs : m.inodes[p].direct[a] # first[j].addr
    BY <1>1, <1>5, <1>6, <1>9, <2>2 DEF Marked
  <2>4. CASE plan = Plan(-ENOTENOUGHSPACE, first, FALSE, Meta(e))
    <3>1. \A q \in Directories(d) : \A a \in Ptrs : d.inodes[q].direct[a] \in DataBlocks =>
            e.blocks[d.inodes[q].direct[a]] = d.blocks[d.inodes[q].direct[a]]
      BY <1>1, <1>5, <1>9 DEF Marked, Directories
    <3>2. Tree(After(Meta(d), e.blocks))
      BY <1>1, <3>1, TreeStays
    <3>3. plan.writes = first /\ ~plan.commit /\ plan.mem = Meta(d) /\ plan.ret \in Int /\ plan.ret < 0
      BY <1>9, <2>4 DEF Plan, ENOTENOUGHSPACE
    <3>4. Outcome(d, plan, e.blocks)
      BY <1>9, <3>2, <3>3 DEF Outcome
    <3> QED
      BY <3>3, <3>4
  <2>5. ASSUME plan.ret = i, plan.commit, NEW B \in [DataBlocks -> Block],
               Ends(d.blocks, plan.writes, B),
               Tree(After(plan.mem, B)), Named(After(plan.mem, B), p, n, i)
        PROVE  \E C : Outcome(d, plan, C)
                /\ (plan.commit => n \in Names /\ Named(After(plan.mem, C), p, n, plan.ret))
    <3>1. plan.ret \in Nat
      BY <1>5, <2>5 DEF Inodes
    <3>2. Outcome(d, plan, B)
      BY <2>5, <3>1 DEF Outcome
    <3> QED
      BY <1>3, <2>5, <3>2
  <2>6. LinkEnds(e, p, n, i, first, plan, d.blocks)
    <3>1. m \in Metadata
      BY <1>5
    <3>2. e.blocks \in [DataBlocks -> Block] /\ Ends(d.blocks, first, e.blocks)
          /\ plan = Link(e, p, n, i, first, m)
      BY <1>9
    <3> QED
      BY <1>8, <2>1, <2>3, <3>1, <3>2, LinkGrows
  <2> QED
    BY <2>4, <2>5, <2>6 DEF LinkEnds
<1>10. CASE type = Directory
  <2>1. cells \in Block
    <3>1. i \in Int /\ p \in Int
      BY <1>1, <1>3, <1>5 DEF Inodes, Directories
    <3>2. Entry(".", i) \in Cell /\ Entry("..", p) \in Cell /\ Unused \in Cell
      BY <3>1, Cells DEF ValidNames
    <3> QED
      BY <3>2 DEF DirBlock, Block
  <2>2. home \in DataBlocks
    BY <1>5, <1>10
  <2> HIDE DEF cells
  <2>3. d1.blocks = [d.blocks EXCEPT ![home] = cells] /\ Meta(d1) = Meta(d)
    BY DEF Usable, Sound, Meta
  <2>4. w \in Writes /\ Ends(d.blocks, w, d1.blocks) /\ \A j \in 1 .. Len(w) : w[j].addr = home
    BY <1>1, <2>1, <2>2, <2>3, OneUpdate
  <2>5. d1.blocks \in [DataBlocks -> Block] /\ d1.blocks[home] = DirBlock(i, p)
        /\ \A b \in DataBlocks : b # home => d1.blocks[b] = d.blocks[b]
    BY <1>1, <2>1, <2>2, <2>3 DEF cells
  <2>6. plan = Link(d1, p, n, i, w, m)
    BY <1>7, <1>10
  <2> HIDE DEF d1, w
  <2> QED
    BY <1>9, <1>10, <2>3, <2>4, <2>5, <2>6
<1>11. CASE type # Directory
  <2> DEFINE none == <<>>
  <2>1. none \in Writes /\ Ends(d.blocks, none, d.blocks) /\ Len(none) = 0
    BY <1>1, NoWrite
  <2>2. plan = Link(d, p, n, i, none, m)
    BY <1>7, <1>11
  <2> HIDE DEF none
  <2> QED
    BY <1>1, <1>9, <1>11, <2>1, <2>2
<1> QED
  BY <1>10, <1>11

(***************************************************************************)
(* A directory that shrinks: unlink.                                       *)
(***************************************************************************)

\* Without heap the buffer of unlink is the row of the directory.
LEMMA DirDataIsRow ==
  ASSUME Asan, NEW d, NEW p \in Inodes, Filled(d, p), NEW heap \in [HeapRange(d, p) -> HeapCells]
  PROVE  DirData(d, p, heap) = RowOf(d, p)
<1> DEFINE ino  == d.inodes[p]
           size == ino.size
           n    == BlocksFor(size)
           read == BlocksRead(ino)
<1>1. /\ n \in Nat /\ size \in Nat /\ size <= n * EntriesPerBlock /\ n * EntriesPerBlock \in Nat
      /\ read = 0 .. n - 1
  <2>1. size \in Nat
    BY DEF Filled
  <2>2. n \in Nat /\ n * EntriesPerBlock \in Nat /\ size <= n * EntriesPerBlock
    BY <2>1, BlocksOfSize
  <2>3. read = 0 .. n - 1
    BY BlocksOfDirectory DEF BlocksRead
  <2> QED
    BY <2>1, <2>2, <2>3
<1>2. Cardinality(read) = n
  <2>1. CASE n = 0
    <3>1. 0 .. n - 1 = {}
      BY <2>1
    <3> QED
      BY <1>1, <2>1, <3>1, FS_EmptySet
  <2>2. CASE n # 0
    <3>1. 0 \in 0 .. n - 1
      BY <1>1, <2>2
    <3> QED
      BY <1>1, <3>1, NthOfAll
  <2> QED
    BY <2>1, <2>2
<1>3. CellsRead(ino) = size
  BY <1>1, <1>2 DEF CellsRead, MinOf
<1>4. HeapRange(d, p) = {}
  BY <1>1, <1>3 DEF HeapRange
<1>5. DOMAIN heap = {}
  BY <1>4
<1> HIDE DEF n, read
<1>6. \A e \in 0 .. size - 1 : Nth(read, e \div EntriesPerBlock) = e \div EntriesPerBlock
  <2> TAKE e \in 0 .. size - 1
  <2>1. e \div EntriesPerBlock \in 0 .. n - 1
    BY <1>1, PositionParts
  <2> QED
    BY <1>1, <2>1, NthOfAll
<1> HIDE DEF size
<1>7. DirData(d, p, heap) = [e \in 0 .. size - 1 |->
         d.blocks[ino.direct[Nth(read, e \div EntriesPerBlock)]][e % EntriesPerBlock]]
  BY <1>3, <1>5 DEF DirData, read
<1>8. RowOf(d, p) = [e \in 0 .. size - 1 |->
         d.blocks[ino.direct[e \div EntriesPerBlock]][e % EntriesPerBlock]]
  BY DEF RowOf, CellAt, size
<1> HIDE DEF ino
<1> QED
  BY <1>6, <1>7, <1>8

\* Block x of the cells of a directory.
CellsFrom(data, x) == [s \in Slots |-> data[x * EntriesPerBlock + s]]

\* The blocks that are within size.
Within(ino, total, size) == {x \in Held(ino, total) : (x + 1) * EntriesPerBlock <= size}

\* The blocks up to block n, and no others.
AllBelow(S, n) == S = 0 .. n - 1

\* unlink writes back blocks of the directory from its buffer, and all of those
\* before the first one it stops at.
LEMMA WriteBackParts ==
  ASSUME Asan, NEW ino, NEW total, NEW data, NEW size,
         NEW w, w = WriteBack(ino, total, data, size),
         NEW is, is = Within(ino, total, size)
  PROVE  /\ Len(w) = Cardinality(is) /\ Cardinality(is) \in Nat /\ is \subseteq Ptrs
         /\ \A j \in 1 .. Len(w) : \E x \in is :
              w[j].addr = ino.direct[x] /\ w[j].cells = CellsFrom(data, x)
         /\ \A t \in Nat : AllBelow(is, t) =>
              \A x \in is : \E j \in 1 .. Len(w) : w[j].addr = ino.direct[x]
<1>1. w = [j \in 1 .. Cardinality(is) |->
             Update(ino.direct[Nth(is, j - 1)], CellsFrom(data, Nth(is, j - 1)))]
  BY DEF WriteBack, CellsFrom, Within
<1>2. /\ is \in SUBSET (0 .. DirectPtrs) /\ DirectPtrs \in Nat /\ is \subseteq Ptrs
  BY UFSAssumption DEF Within, Held, Ptrs
<1>3. Cardinality(is) \in Nat
  BY <1>2, SetOfIndices
<1>4. Len(w) = Cardinality(is)
  BY <1>1, <1>3
<1>5. \A j \in 1 .. Cardinality(is) :
        /\ w[j].addr = ino.direct[Nth(is, j - 1)]
        /\ w[j].cells = CellsFrom(data, Nth(is, j - 1))
  BY <1>1 DEF Update
<1>6. \A j \in 1 .. Cardinality(is) : Nth(is, j - 1) \in is
  <2> TAKE j \in 1 .. Cardinality(is)
  <2>1. j - 1 \in Nat /\ j - 1 < Cardinality(is)
    BY <1>3
  <2> QED
    BY <1>2, <2>1, NthIsElement
<1>7. ASSUME NEW t \in Nat, AllBelow(is, t), NEW x \in is
      PROVE  \E j \in 1 .. Len(w) : w[j].addr = ino.direct[x]
  <2>1. x \in 0 .. t - 1 /\ x + 1 \in 1 .. t /\ (x + 1) - 1 = x
    BY <1>7 DEF AllBelow
  <2>2. Cardinality(is) = t /\ Nth(is, x) = x
    BY <1>7, <2>1, NthOfAll DEF AllBelow
  <2>3. w[x + 1].addr = ino.direct[x]
    BY <1>5, <2>1, <2>2
  <2> QED
    BY <1>4, <2>1, <2>2, <2>3
<1> QED
  BY <1>2, <1>3, <1>4, <1>5, <1>6, <1>7

\* B is what the blocks are when they are written back.
WroteBack(blocks, w, is, direct, data, B) ==
  /\ B \in [DataBlocks -> Block] /\ Ends(blocks, w, B)
  /\ \A b \in DataBlocks : (\A x \in is : direct[x] # b) => B[b] = blocks[b]
  /\ \A x \in is : direct[x] \in DataBlocks =>
        B[direct[x]] = blocks[direct[x]] \/ B[direct[x]] = CellsFrom(data, x)
  /\ \A x \in is : (\E j \in 1 .. Len(w) : w[j].addr = direct[x]) =>
        B[direct[x]] = CellsFrom(data, x)

\* The blocks after unlink has written some of them back.
LEMMA WriteBackEnds ==
  ASSUME NEW blocks \in [DataBlocks -> Block], NEW w \in Writes, NEW is, NEW direct, NEW data,
         \A x, y \in is : direct[x] = direct[y] => x = y,
         \A j \in 1 .. Len(w) : \E x \in is :
            w[j].addr = direct[x] /\ w[j].cells = CellsFrom(data, x)
  PROVE  \E B : WroteBack(blocks, w, is, direct, data, B)
<1> DEFINE To(b) == {j \in 1 .. Len(w) : w[j].addr = b}
           After1(b) == IF To(b) = {} THEN blocks[b] ELSE w[CHOOSE j \in To(b) : TRUE].cells
           B == [b \in DataBlocks |-> After1(b)]
<1>1. \A j \in 1 .. Len(w) : w[j].addr \in DataBlocks /\ w[j].cells \in Block
  <2> DEFINE T == [addr : DataBlocks, cells : Block]
  <2>1. w \in Seq(T)
    BY DEF Writes
  <2> HIDE DEF T
  <2>2. \A j \in 1 .. Len(w) : w[j] \in T
    BY <2>1
  <2> QED
    BY <2>2 DEF T
<1>2. \A j \in 1 .. Len(w) : \A x \in is :
         w[j].addr = direct[x] => w[j].cells = CellsFrom(data, x)
  OBVIOUS
<1>3. \A j, l \in 1 .. Len(w) : w[j].addr = w[l].addr => w[j].cells = w[l].cells
  BY <1>2
<1>4. \A j \in 1 .. Len(w) : After1(w[j].addr) = w[j].cells
  <2> TAKE j \in 1 .. Len(w)
  <2> DEFINE S == To(w[j].addr)
             l == CHOOSE x \in S : TRUE
  <2>1. j \in S
    OBVIOUS
  <2>2. l \in S
    BY <2>1
  <2>3. l \in 1 .. Len(w) /\ w[l].addr = w[j].addr
    BY <2>2
  <2>4. After1(w[j].addr) = w[l].cells
    BY <2>1
  <2> HIDE DEF l, After1
  <2> QED
    BY <1>3, <2>3, <2>4
<1>5. \A b : (\A j \in 1 .. Len(w) : w[j].addr # b) => After1(b) = blocks[b]
  OBVIOUS
<1> HIDE DEF After1
<1>6. \A b \in DataBlocks : After1(b) \in Block
  BY <1>1, <1>4, <1>5
<1>7. B \in [DataBlocks -> Block] /\ \A b \in DataBlocks : B[b] = After1(b)
  BY <1>6
<1> HIDE DEF B
<1>8. Ends(blocks, w, B)
  BY <1>1, <1>4, <1>5, <1>7 DEF Ends
<1>9. \A b \in DataBlocks : (\A x \in is : direct[x] # b) => B[b] = blocks[b]
  BY <1>5, <1>7
<1>10. \A x \in is : (\E j \in 1 .. Len(w) : w[j].addr = direct[x]) =>
                  B[direct[x]] = CellsFrom(data, x)
  BY <1>1, <1>2, <1>4, <1>7
<1>11. \A x \in is : direct[x] \in DataBlocks =>
                  B[direct[x]] = blocks[direct[x]] \/ B[direct[x]] = CellsFrom(data, x)
  BY <1>5, <1>7, <1>10
<1> QED
  BY <1>7, <1>8, <1>9, <1>10, <1>11 DEF WroteBack

\* The row of a directory when the name at a position is removed.
Cleared(row, at) == [row EXCEPT ![at].name = NoName]

\* Clearing a name changes one entry.
LEMMA ClearedCells ==
  ASSUME NEW row, NEW at \in DOMAIN row, row[at] \in Cell
  PROVE  /\ DOMAIN Cleared(row, at) = DOMAIN row
         /\ \A e \in DOMAIN row : e # at => Cleared(row, at)[e] = row[e]
         /\ Cleared(row, at)[at].inum = row[at].inum /\ Cleared(row, at)[at].name = NoName
BY DEF Cleared, Cell

\* The entries of a directory are cells of its blocks.
LEMMA RowCells ==
  ASSUME NEW d, d.blocks \in [DataBlocks -> Block], NEW p, Filled(d, p),
         NEW e \in DOMAIN RowOf(d, p)
  PROVE  RowOf(d, p)[e] \in Cell
<1> DEFINE ino == d.inodes[p]
           n   == BlocksFor(ino.size)
<1>1. /\ n \in Nat /\ ino.size \in Nat /\ ino.size <= n * EntriesPerBlock
      /\ n * EntriesPerBlock \in Nat
  BY BlocksOfSize DEF Filled
<1>2. e \in 0 .. ino.size - 1 /\ RowOf(d, p)[e] = CellAt(d, ino, e)
  BY DEF RowOf
<1>3. e \in 0 .. n * EntriesPerBlock - 1
  BY <1>1, <1>2
<1>4. e \div EntriesPerBlock \in 0 .. n - 1 /\ e % EntriesPerBlock \in Slots
  BY <1>1, <1>3, PositionParts
<1>5. ino.direct[e \div EntriesPerBlock] \in DataBlocks
  BY <1>4 DEF Filled
<1> QED
  BY <1>2, <1>4, <1>5 DEF CellAt, Block

\* What unlink goes on with.
LEMMA UnlinkDecides ==
  ASSUME Asan, NEW d, Usable(d), Tree(d), NEW p, NEW n,
         NEW heap \in [HeapRange(d, p) -> HeapCells], NEW lucky,
         NEW plan, plan = UnlinkPlan(d, p, n, heap, lucky), ~IsRefused(plan)
  PROVE  /\ p \in Directories(d) /\ p \in Inodes /\ n \in Names
         /\ \E at \in NamedIn(RowOf(d, p)), v \in Inodes :
              /\ RowOf(d, p)[at].name = n /\ RowOf(d, p)[at].inum = v
              /\ plan = UnlinkEntry(d, p, v, at, RowOf(d, p), lucky)
<1> DEFINE ino  == d.inodes[p]
           data == DirData(d, p, heap)
           at   == EntryNamed(data, ino, n)
           v    == data[at].inum
<1>1. \A x : IsRefused(Refuse(d, x))
  BY DEF IsRefused, Refuse, Plan
<1>2. /\ p \in Inodes /\ p \in d.inodeBitmap /\ ino.type = Directory /\ n \in Names
      /\ at # -1 /\ v \in Inodes
      /\ plan = UnlinkEntry(d, p, v, at, data, lucky)
  <2> HIDE DEF at, data
  <2> QED
    BY <1>1 DEF UnlinkPlan, at, data
<1>3. p \in Directories(d)
  BY <1>2 DEF Directories
<1>4. Filled(d, p)
  BY <1>3 DEF Tree
<1>5. data = RowOf(d, p)
  BY <1>2, <1>4, DirDataIsRow
<1> HIDE DEF data
<1>6. at \in 0 .. ino.size - 1 /\ data[at].name = n
  <2> DEFINE hits == {e \in 0 .. ino.size - 1 : data[e].name = n}
  <2>1. at = First(hits)
    BY DEF EntryNamed
  <2>2. hits \in SUBSET Nat
    <3>1. ino.size \in Nat
      BY <1>4 DEF Filled
    <3>2. \A e \in 0 .. ino.size - 1 : e \in Nat
      BY <3>1
    <3> QED
      BY <3>2
  <2> HIDE DEF hits
  <2>3. at \in hits
    BY <1>2, <2>1, <2>2, FirstIsElement
  <2> QED
    BY <2>3 DEF hits
<1> HIDE DEF at, v
<1>7. at \in NamedIn(RowOf(d, p))
  <2>1. DOMAIN RowOf(d, p) = 0 .. ino.size - 1
    BY DEF RowOf
  <2> HIDE DEF ino
  <2> QED
    BY <1>2, <1>5, <1>6, <2>1 DEF NamedIn
<1>8. v = RowOf(d, p)[at].inum
  BY <1>5 DEF v
<1> QED
  BY <1>2, <1>3, <1>5, <1>6, <1>7, <1>8

\* What unlink does with the metadata and with the blocks of the directory.
Emptied(row, at) == BlockEmpty(Cleared(row, at), at \div EntriesPerBlock)

\* The metadata, and the writes of the directory.
Unlinked(d, p, v, at) == Removed(d, p, v, at, Emptied(RowOf(d, p), at))
Backs(d, p, v, at) ==
  WriteBack(Unlinked(d, p, v, at).inodes[p], BlocksFor(d.inodes[p].size),
            Cleared(RowOf(d, p), at), d.inodes[p].size)

\* The block of the entry is the partly filled last one, and fewer blocks are
\* written back than the directory has left: with ASan both end the process.
Over(d, p, at) == (at \div EntriesPerBlock + 1) * EntriesPerBlock > d.inodes[p].size
Short(d, p, v, at) ==
  Len(Backs(d, p, v, at))
    < Cardinality(Held(Unlinked(d, p, v, at).inodes[p], BlocksFor(d.inodes[p].size)))

\* unlink ends the process, or removes the entry having written every block of
\* the directory back.
UnlinkDoes(d, p, v, at, plan) ==
  /\ Emptied(RowOf(d, p), at) => ~Over(d, p, at)
  /\ \/ plan = Plan(Aborts, Backs(d, p, v, at), FALSE, Meta(d))
     \/ /\ plan = Plan(0, Backs(d, p, v, at), TRUE, Unlinked(d, p, v, at))
        /\ ~Short(d, p, v, at)

\* Once it has the entry it does one of the two.
LEMMA UnlinkCases ==
  ASSUME Asan, NEW d, NEW p, NEW v, NEW at, NEW lucky,
         NEW plan, plan = UnlinkEntry(d, p, v, at, RowOf(d, p), lucky), ~IsRefused(plan)
  PROVE  UnlinkDoes(d, p, v, at, plan)
<1> DEFINE row == RowOf(d, p)
           i   == at \div EntriesPerBlock
           size == d.inodes[p].size
           data1 == [row EXCEPT ![at].name = ""]
           em  == BlockEmpty(data1, i)
           m1  == Removed(d, p, v, at, em)
           w1  == WriteBack(m1.inodes[p], BlocksFor(size), data1, size)
           over == (i + 1) * EntriesPerBlock > size
           few == Len(w1) < Cardinality(Held(m1.inodes[p], BlocksFor(size)))
           stray == Freed(d.inodes[v]) \cup
                      (IF em THEN {[d.inodes EXCEPT ![v] = Released(d.inodes[v])][p].direct[i]}
                       ELSE {})
           lost == ~StrayBit(stray, lucky)
<1>1. plan = IF lost \/ (Asan /\ em /\ over) THEN Refuse(d, Aborts)
             ELSE IF few THEN Plan(Aborts, w1, FALSE, Meta(d)) ELSE Plan(0, w1, TRUE, m1)
  BY Zenon DEF UnlinkEntry
<1>2. data1 = Cleared(row, at)
  BY Zenon DEF Cleared, NoName
<1> HIDE DEF data1
<1>3. em <=> Emptied(row, at)
  BY <1>2, Zenon DEF Emptied
<1>4. m1 = Unlinked(d, p, v, at)
  BY <1>2, Zenon DEF Unlinked, Emptied
<1> HIDE DEF em, m1
<1>5. w1 = Backs(d, p, v, at)
  BY <1>2, <1>4, Zenon DEF Backs
<1> HIDE DEF w1
<1>6. few <=> Short(d, p, v, at)
  BY <1>4, <1>5, Zenon DEF Short
<1>7. over <=> Over(d, p, at)
  BY Zenon DEF Over
<1> HIDE DEF few, lost, over
<1>8. IsRefused(Refuse(d, Aborts))
  BY DEF IsRefused, Refuse, Plan
<1>9. /\ ~(em /\ over)
      /\ \/ plan = Plan(Aborts, w1, FALSE, Meta(d))
         \/ plan = Plan(0, w1, TRUE, m1) /\ ~few
  BY <1>1, <1>8
<1> QED
  BY <1>3, <1>4, <1>5, <1>6, <1>7, <1>9, Zenon DEF UnlinkDoes

\* B is what the blocks of a directory may be while its blocks is, which are
\* within its size, are written back from data.
WrittenFrom(d, p, is, data, B) ==
  /\ \A x \in is : /\ x \in 0 .. BlocksFor(d.inodes[p].size) - 1
                   /\ (x + 1) * EntriesPerBlock <= d.inodes[p].size
  /\ \A b \in DataBlocks : (\A x \in is : d.inodes[p].direct[x] # b) => B[b] = d.blocks[b]
  /\ \A x \in is : d.inodes[p].direct[x] \in DataBlocks =>
        \/ B[d.inodes[p].direct[x]] = d.blocks[d.inodes[p].direct[x]]
        \/ B[d.inodes[p].direct[x]] = CellsFrom(data, x)

\* A cell of the directory while its blocks are written back is the old one or
\* the one in the buffer.
LEMMA CellWritten ==
  ASSUME NEW d, Unshared(d.inodes), NEW p \in Inodes, Filled(d, p), NEW is, NEW data, NEW B,
         WrittenFrom(d, p, is, data, B),
         NEW e, e.inodes = d.inodes, e.blocks = B,
         NEW pos \in 0 .. BlocksFor(d.inodes[p].size) * EntriesPerBlock - 1
  PROVE  /\ \/ CellAt(e, d.inodes[p], pos) = CellAt(d, d.inodes[p], pos)
            \/ CellAt(e, d.inodes[p], pos) = data[pos]
         /\ pos >= d.inodes[p].size => CellAt(e, d.inodes[p], pos) = CellAt(d, d.inodes[p], pos)
         /\ pos \div EntriesPerBlock \in is /\
            B[d.inodes[p].direct[pos \div EntriesPerBlock]] = CellsFrom(data, pos \div EntriesPerBlock)
              => CellAt(e, d.inodes[p], pos) = data[pos]
<1> DEFINE ino == d.inodes[p]
           n == BlocksFor(ino.size)
           x == pos \div EntriesPerBlock
           s == pos % EntriesPerBlock
<1>1. /\ n \in Nat /\ ino.size \in Nat
      /\ \A a \in 0 .. n - 1 : a \in Ptrs /\ ino.direct[a] \in DataBlocks
  BY BlocksOfDirectory DEF Filled
<1>2. /\ x \in 0 .. n - 1 /\ s \in Slots /\ pos \in Nat /\ pos = x * EntriesPerBlock + s
  BY <1>1, PositionParts
<1>3. /\ CellAt(e, ino, pos) = B[ino.direct[x]][s]
      /\ CellAt(d, ino, pos) = d.blocks[ino.direct[x]][s]
  BY DEF CellAt
<1>4. EntriesPerBlock \in Nat
  BY UFSAssumption
<1> HIDE DEF x, s, n
<1>5. CellsFrom(data, x)[s] = data[pos]
  BY <1>2 DEF CellsFrom
<1>6. x \notin is => B[ino.direct[x]] = d.blocks[ino.direct[x]]
  <2> HAVE x \notin is
  <2>1. \A y \in is : y \in Ptrs /\ ino.direct[y] # ino.direct[x]
    <3> TAKE y \in is
    <3>1. y \in 0 .. n - 1
      BY DEF WrittenFrom, n
    <3>2. y \in Ptrs /\ ino.direct[y] \in DataBlocks /\ x \in Ptrs /\ y # x
      BY <1>1, <1>2, <3>1
    <3> QED
      BY <3>2 DEF Unshared
  <2>2. ino.direct[x] \in DataBlocks
    BY <1>1, <1>2
  <2> QED
    BY <2>1, <2>2 DEF WrittenFrom
<1>7. x \in is => pos < ino.size
  <2> HAVE x \in is
  <2>1. (x + 1) * EntriesPerBlock <= ino.size
    BY DEF WrittenFrom
  <2>2. x \in Nat
    BY <1>1, <1>2
  <2>3. (x + 1) * EntriesPerBlock = x * EntriesPerBlock + EntriesPerBlock
        /\ x * EntriesPerBlock \in Nat
    BY <1>4, <2>2
  <2>4. s \in Nat /\ s < EntriesPerBlock
    BY <1>2, <1>4 DEF Slots
  <2> DEFINE xe == x * EntriesPerBlock
  <2> HIDE DEF xe
  <2>5. xe + EntriesPerBlock <= ino.size /\ pos = xe + s /\ xe \in Nat
    BY <1>2, <2>1, <2>3 DEF xe
  <2> QED
    BY <1>1, <1>4, <2>4, <2>5
<1>8. x \in is => B[ino.direct[x]] = d.blocks[ino.direct[x]] \/ B[ino.direct[x]] = CellsFrom(data, x)
  BY <1>1, <1>2 DEF WrittenFrom
<1>9. pos >= ino.size => x \notin is
  BY <1>1, <1>2, <1>7
<1> QED
  BY <1>3, <1>5, <1>6, <1>8, <1>9 DEF x

\* The tree while a name is being removed.
Clearing(d, p, at, is, B, t) ==
  /\ Tree(t) /\ Directories(t) = Directories(d)
  /\ \A q \in Directories(d) \ {p} : RowOf(t, q) = RowOf(d, q)
  /\ DOMAIN RowOf(t, p) = DOMAIN RowOf(d, p)
  /\ \A e \in DOMAIN RowOf(d, p) : e # at => RowOf(t, p)[e] = RowOf(d, p)[e]
  /\ /\ at \div EntriesPerBlock \in is
     /\ B[d.inodes[p].direct[at \div EntriesPerBlock]]
          = CellsFrom(Cleared(RowOf(d, p), at), at \div EntriesPerBlock)
     => RowOf(t, p)[at].inum = RowOf(d, p)[at].inum /\ RowOf(t, p)[at].name = NoName

\* Whichever blocks of the directory unlink has written back, the image has a
\* tree: the removed entry has its name or has none.
LEMMA NameClears ==
  ASSUME NEW d, Usable(d), Tree(d), NEW p \in Directories(d), NEW at \in NamedIn(RowOf(d, p)),
         NEW is, NEW B, WrittenFrom(d, p, is, Cleared(RowOf(d, p), at), B)
  PROVE  Clearing(d, p, at, is, B, After(Meta(d), B))
<1> DEFINE t == After(Meta(d), B)
<1> DEFINE row  == RowOf(d, p)
           data == Cleared(row, at)
           ino  == d.inodes[p]
           n    == BlocksFor(ino.size)
<1>1. t.inodes = d.inodes /\ t.blocks = B /\ t.inodeBitmap = d.inodeBitmap
  BY DEF After, Meta
<1> HIDE DEF t
<1>2. Directories(t) = Directories(d)
  BY <1>1 DEF Directories
<1>3. d.inodes \in [Inodes -> Inode] /\ d.inodeBitmap \in SUBSET Inodes /\ Unshared(d.inodes)
      /\ p \in Inodes /\ d.blocks \in [DataBlocks -> Block]
  BY DEF Usable, Sound, Meta, Metadata, Directories
<1>4. Filled(d, p) /\ ino.size \in Nat /\ n \in Nat
      /\ ino.size <= n * EntriesPerBlock /\ n * EntriesPerBlock \in Nat
  <2>1. Filled(d, p) /\ ino.size \in Nat
    BY DEF Tree, Filled
  <2> QED
    BY <2>1, BlocksOfSize
<1>5. \A pos \in 0 .. n * EntriesPerBlock - 1 :
        /\ \/ CellAt(t, ino, pos) = CellAt(d, ino, pos)
           \/ CellAt(t, ino, pos) = data[pos]
        /\ pos >= ino.size => CellAt(t, ino, pos) = CellAt(d, ino, pos)
        /\ pos \div EntriesPerBlock \in is /\
           B[ino.direct[pos \div EntriesPerBlock]] = CellsFrom(data, pos \div EntriesPerBlock)
              => CellAt(t, ino, pos) = data[pos]
  BY <1>1, <1>3, <1>4, CellWritten
<1>6. /\ DOMAIN row = 0 .. ino.size - 1 /\ DOMAIN RowOf(t, p) = 0 .. ino.size - 1
      /\ \A e \in 0 .. ino.size - 1 : /\ RowOf(t, p)[e] = CellAt(t, ino, e)
                                      /\ row[e] = CellAt(d, ino, e)
                                      /\ e \in 0 .. n * EntriesPerBlock - 1
  BY <1>1, <1>4 DEF RowOf
<1>0. Forest(d.inodeBitmap, RowsOf(d)) /\ DOMAIN RowsOf(d) = Directories(d) /\ RowsOf(d)[p] = row
  BY DEF Tree, RowsOf
<1> HIDE DEF row
<1>7a. {0, 1} \subseteq DOMAIN row /\ at \notin {0, 1} /\ at \in DOMAIN row
  <2>1. DirRow(p, row)
    BY <1>0 DEF Forest
  <2> QED
    BY <2>1, DotsAreNone DEF DirRow, NamedIn, row, Entry
<1>7b. row[at] \in Cell
  BY <1>3, <1>4, <1>7a, RowCells DEF row
<1>7. /\ \A e \in DOMAIN row : e # at => data[e] = row[e]
      /\ data[at].inum = row[at].inum /\ data[at].name = NoName
  BY <1>7a, <1>7b, ClearedCells
<1> HIDE DEF data
<1>8. \A e \in DOMAIN row : /\ RowOf(t, p)[e] = row[e] \/ RowOf(t, p)[e] = data[e]
                            /\ e # at => RowOf(t, p)[e] = row[e]
  BY <1>5, <1>6, <1>7
<1>9. \A e \in DOMAIN row :
              /\ e \div EntriesPerBlock \in is
              /\ B[ino.direct[e \div EntriesPerBlock]] = CellsFrom(data, e \div EntriesPerBlock)
              => RowOf(t, p)[e] = data[e]
  BY <1>5, <1>6
<1>10. \A q \in Directories(d) \ {p} : RowOf(t, q) = RowOf(d, q) /\ Filled(t, q)
  <2> TAKE q \in Directories(d) \ {p}
  <2>1. q \in Inodes /\ q # p /\ Filled(d, q)
    BY <1>3 DEF Directories, Tree
  <2>2. \A a \in Ptrs : d.inodes[q].direct[a] \in DataBlocks =>
            t.blocks[d.inodes[q].direct[a]] = d.blocks[d.inodes[q].direct[a]]
    <3> TAKE a \in Ptrs
    <3> HAVE d.inodes[q].direct[a] \in DataBlocks
    <3>1. \A x \in is : x \in Ptrs
      <4> TAKE x \in is
      <4>1. x \in 0 .. n - 1
        BY DEF WrittenFrom
      <4> HIDE DEF n
      <4> QED
        BY <1>4, <4>1, UFSAssumption, BlocksOfDirectory DEF n
    <3>2. \A x \in is : ino.direct[x] # d.inodes[q].direct[a]
      BY <1>3, <2>1, <3>1 DEF Unshared
    <3> QED
      BY <1>1, <3>2 DEF WrittenFrom
  <2> QED
    BY <1>1, <2>1, <2>2, RowDependsOn
<1>11. Filled(t, p)
  <2>1. \A pos \in ino.size .. n * EntriesPerBlock - 1 : CellAt(t, ino, pos) = CellAt(d, ino, pos)
    BY <1>4, <1>5
  <2> HIDE DEF ino, n
  <2> QED
    BY <1>1, <1>4, <2>1 DEF Filled, ino, n
<1>12. Forest(d.inodeBitmap, RowsOf(t))
  <2>1. /\ DOMAIN RowsOf(t) = Directories(d) /\ DOMAIN RowsOf(d) = Directories(d)
        /\ \A q \in Directories(d) : RowsOf(t)[q] = RowOf(t, q) /\ RowsOf(d)[q] = RowOf(d, q)
    BY <1>2 DEF RowsOf
  <2>7. \A e \in DOMAIN row :
            \/ RowOf(t, p)[e] = row[e]
            \/ e \notin {0, 1} /\ RowOf(t, p)[e].inum = row[e].inum /\ RowOf(t, p)[e].name = NoName
    BY <1>7, <1>7a, <1>8
  <2>8. RowsOf(d)[p] = row /\ RowsOf(t)[p] = RowOf(t, p) /\ p \in DOMAIN RowsOf(d)
    BY <2>1 DEF row
  <2>9. \A q \in DOMAIN RowsOf(d) \ {p} : RowsOf(t)[q] = RowsOf(d)[q]
    BY <1>10, <2>1
  <2>10. DOMAIN RowsOf(t)[p] = DOMAIN RowsOf(d)[p] /\ {0, 1} \subseteq DOMAIN RowsOf(t)[p]
    BY <1>6, <1>7a, <2>8
  <2>11. \A e \in DOMAIN RowsOf(t)[p] :
            \/ RowsOf(t)[p][e] = RowsOf(d)[p][e]
            \/ /\ e \notin {0, 1}
               /\ RowsOf(t)[p][e].inum = RowsOf(d)[p][e].inum
               /\ RowsOf(t)[p][e].name = NoName
    BY <1>6, <2>7, <2>8
  <2> QED
    BY <1>0, <2>1, <2>8, <2>9, <2>10, <2>11, FewerNames
<1>13. /\ at \div EntriesPerBlock \in is
       /\ B[ino.direct[at \div EntriesPerBlock]] = CellsFrom(data, at \div EntriesPerBlock)
       => RowOf(t, p)[at].inum = row[at].inum /\ RowOf(t, p)[at].name = NoName
  BY <1>7, <1>7a, <1>9
<1>14. Tree(t)
  BY <1>1, <1>2, <1>10, <1>11, <1>12 DEF Tree
<1>15. DOMAIN RowOf(t, p) = DOMAIN row
  BY <1>6
<1> QED
  BY <1>2, <1>8, <1>10, <1>13, <1>14, <1>15 DEF Clearing, row, data, t

\* The tree when a name is removed and the inode it led to is free.
LEMMA NameGone ==
  ASSUME NEW d, Tree(d), NEW p \in Directories(d), NEW at \in NamedIn(RowOf(d, p)),
         NEW v, RowOf(d, p)[at].inum = v,
         NEW c, c.inodeBitmap = d.inodeBitmap \ {v}, Directories(c) = Directories(d) \ {v},
         \A q \in Directories(c) \ {p} : RowOf(c, q) = RowOf(d, q) /\ Filled(c, q),
         Filled(c, p), DOMAIN RowOf(c, p) \subseteq DOMAIN RowOf(d, p),
         {0, 1} \subseteq DOMAIN RowOf(c, p),
         \A e \in DOMAIN RowOf(c, p) :
            \/ e # at /\ RowOf(c, p)[e] = RowOf(d, p)[e]
            \/ e = at /\ RowOf(c, p)[e].inum = v /\ RowOf(c, p)[e].name = NoName
  PROVE  Tree(c) /\ p \in Directories(c) /\ NameFree(RowOf(c, p), RowOf(d, p)[at].name)
<1> DEFINE rows  == RowsOf(d)
           rows2 == [q \in Directories(d) |-> IF q = p THEN RowOf(c, p) ELSE RowOf(d, q)]
           S     == d.inodeBitmap
<1>1. /\ Forest(S, rows) /\ Root \in S
      /\ DOMAIN rows = Directories(d) /\ \A q \in Directories(d) : rows[q] = RowOf(d, q)
  BY DEF Tree, RowsOf
<1>2. /\ DOMAIN rows2 = Directories(d) /\ rows2[p] = RowOf(c, p)
      /\ \A q \in Directories(d) \ {p} : rows2[q] = rows[q]
  BY <1>1
<1>3. DOMAIN RowsOf(c) = Directories(c) /\ \A q \in Directories(c) : RowsOf(c)[q] = RowOf(c, q)
  BY DEF RowsOf
<1> HIDE DEF rows, rows2, S
<1>4. DirRow(p, rows[p]) /\ Leads(S, rows, p, at) /\ rows[p] = RowOf(d, p)
  BY <1>1 DEF Forest
<1>5. v # Root /\ v # p /\ at \notin {0, 1} /\ at \in DOMAIN RowOf(d, p)
  BY <1>4, DotsAreNone DEF Leads, DirRow, NamedIn, Entry
<1>6. \A e \in DOMAIN rows2[p] :
            \/ rows2[p][e] = rows[p][e]
            \/ e \notin {0, 1} /\ rows2[p][e].inum = rows[p][e].inum /\ rows2[p][e].name = NoName
  BY <1>2, <1>4, <1>5
<1>7. /\ Forest(S, rows2)
      /\ \A q \in DOMAIN rows2 : \A e \in NamedIn(rows2[q]) :
              e \in NamedIn(rows[q]) /\ rows2[q][e] = rows[q][e]
  BY <1>1, <1>2, <1>4, <1>6, FewerNames
<1>8. at \notin NamedIn(rows2[p])
  BY <1>2, NoNameIsNone DEF NamedIn
<1>9. Unnamed(rows2, v)
  BY <1>1, <1>2, <1>4, <1>7, <1>8 DEF Forest, Unnamed
<1>10. Forest(S \ {v}, RowsOf(c))
  <2>1. \A q \in DOMAIN RowsOf(c) : q # v /\ q \in DOMAIN rows2 /\ RowsOf(c)[q] = rows2[q]
    BY <1>1, <1>2, <1>3
  <2> QED
    BY <1>7, <1>9, <2>1, InodeGoes
<1>11. NameFree(RowOf(c, p), RowOf(d, p)[at].name)
  BY <1>2, <1>4, <1>7, <1>8 DEF NameFree, DirRow
<1>12. p \in Directories(c)
  BY <1>5
<1> QED
  BY <1>1, <1>5, <1>10, <1>11, <1>12 DEF Tree, S

\* The inode of the directory a name is removed from.
LEMMA RemovedDirectory ==
  ASSUME NEW d, d.inodes \in [Inodes -> Inode], NEW p \in Inodes, NEW v \in Inodes, v # p,
         NEW at, NEW i \in Ptrs, i = at \div EntriesPerBlock, NEW emptied,
         NEW m, m = Removed(d, p, v, at, emptied)
  PROVE  /\ ~emptied => m.inodes[p] = d.inodes[p]
         /\ emptied => /\ m.inodes[p].size = d.inodes[p].size - EntriesPerBlock
                       /\ m.inodes[p].direct[i] = NoBlock
                       /\ \A a \in Ptrs \ {i} : m.inodes[p].direct[a] = d.inodes[p].direct[a]
<1> DEFINE after == [d.inodes EXCEPT ![v] = Released(d.inodes[v])]
<1>1. after[p] = d.inodes[p] /\ after \in [Inodes -> Inode]
  BY ReleasedInode
<1>2. m.inodes = IF emptied THEN WithoutBlock(after, p, i) ELSE after
  BY DEF Removed, WithoutBlock
<1> HIDE DEF after
<1>3. CASE ~emptied
  BY <1>1, <1>2, <1>3
<1>4. CASE emptied
  <2> DEFINE y == WithoutBlock(after, p, i)
  <2>1. /\ \A a \in Ptrs : y[p].direct[a] = IF a = i THEN NoBlock ELSE after[p].direct[a]
    BY <1>1, ShrinkDirectory
  <2>2. y[p].size = after[p].size - EntriesPerBlock
    <3>1. after[p] \in Inode /\ p \in DOMAIN after
      BY <1>1
    <3> QED
      BY <3>1 DEF WithoutBlock, Inode
  <2> HIDE DEF y
  <2>3. m.inodes = y
    BY <1>2, <1>4 DEF y
  <2> QED
    BY <1>1, <1>4, <2>1, <2>2, <2>3
<1> QED
  BY <1>3, <1>4

\* A directory whose last block is full, without that block.
LEMMA OneBlockLess ==
  ASSUME NEW n \in Nat, n > 1
  PROVE  /\ n * EntriesPerBlock - EntriesPerBlock = (n - 1) * EntriesPerBlock
         /\ BlocksFor((n - 1) * EntriesPerBlock) = n - 1
         /\ (n - 1) * EntriesPerBlock \in Nat /\ (n - 1) * EntriesPerBlock > 1
<1>1. EntriesPerBlock \in Nat /\ EntriesPerBlock > 1
  BY UFSAssumption
<1> DEFINE E == EntriesPerBlock
           x == (n - 1) * E
           b == BlocksFor(x)
<1>2. n * E - E = x /\ x \in Nat
  BY <1>1
<1>3. x >= E
  <2>1. n - 2 \in Nat /\ x = (n - 2) * E + E /\ (n - 2) * E \in Nat
    BY <1>1
  <2> DEFINE r == (n - 2) * E
  <2> HIDE DEF r, x
  <2>2. r \in Nat /\ x = r + E
    BY <2>1 DEF r
  <2> QED
    BY <1>1, <2>2
<1>4. b = n - 1
  <2>1. b = ((n - 1) * E + (E - 1)) \div E
    <3>1. b = ((n - 1) * E + E - 1) \div E
      BY DEF BlocksFor
    <3>2. (n - 1) * E + E - 1 = (n - 1) * E + (E - 1)
      BY <1>1, <1>2
    <3> QED
      BY <3>1, <3>2
  <2>2. E - 1 \in 0 .. E - 1 /\ n - 1 \in Nat
    BY <1>1
  <2>3. ((n - 1) * E + (E - 1)) \div E = n - 1
    <3>1. \A q \in Nat : \A s \in 0 .. E - 1 : (q * E + s) \div E = q
      BY <1>1, PositionOf
    <3> QED
      BY <2>2, <3>1
  <2> QED
    BY <2>1, <2>3
<1> QED
  BY <1>1, <1>2, <1>3, <1>4

\* Directory p is there and has no entry n.
Without(t, p, n) == p \in Directories(t) /\ NameFree(RowOf(t, p), n)

\* The blocks unlink writes back.
LEMMA BlocksBack ==
  ASSUME NEW d, Sound(d), NEW p \in Inodes, Filled(d, p), NEW ino,
         \A a \in Ptrs : ino.direct[a] \in {d.inodes[p].direct[a], NoBlock},
         NEW size, size = d.inodes[p].size, NEW is, is = Within(ino, BlocksFor(size), size)
  PROVE  /\ \A x \in is : /\ x \in Ptrs /\ x \in 0 .. BlocksFor(size) - 1
                          /\ (x + 1) * EntriesPerBlock <= size
                          /\ ino.direct[x] = d.inodes[p].direct[x]
         /\ \A x, y \in is : d.inodes[p].direct[x] = d.inodes[p].direct[y] => x = y
<1> DEFINE n == BlocksFor(size)
<1>1. n \in Nat /\ \A a \in 0 .. n - 1 : a \in Ptrs /\ d.inodes[p].direct[a] \in DataBlocks
  BY BlocksOfDirectory DEF Filled
<1>2. DirectPtrs \in Nat /\ Ptrs = 0 .. DirectPtrs - 1
  BY UFSAssumption DEF Ptrs
<1> HIDE DEF n
<1>3. \A x \in is : x \in Ptrs /\ x < n /\ ino.direct[x] # NoBlock /\ (x + 1) * EntriesPerBlock <= size
  BY DEF Within, Held, n
<1>4. \A x \in is : x \in 0 .. n - 1 /\ ino.direct[x] = d.inodes[p].direct[x]
  BY <1>1, <1>2, <1>3
<1>5. \A x, y \in is : d.inodes[p].direct[x] = d.inodes[p].direct[y] => x = y
  BY <1>1, <1>3, <1>4 DEF Sound, Unshared
<1> QED
  BY <1>3, <1>4, <1>5 DEF n

\* unlink takes a block for empty when none of its entries has a name.
LEMMA EmptyMeansNoName ==
  ASSUME NEW data, NEW i, BlockEmpty(data, i), NEW e \in CellsOf(i) \cap DOMAIN data
  PROVE  data[e].name = NoName
BY Zenon DEF BlockEmpty, NoName

\* The block of a removed entry is empty only behind the first block, and goes
\* only from the end of a directory without gaps.
LEMMA EmptiedIsLast ==
  ASSUME NEW d, Tree(d), NEW p \in Directories(d), NEW at \in NamedIn(RowOf(d, p)),
         RowOf(d, p)[at] \in Cell,
         NEW size, size = d.inodes[p].size, NEW n \in Nat, n = BlocksFor(size),
         NEW i \in 0 .. n - 1, BlockEmpty(Cleared(RowOf(d, p), at), i),
         ~((i + 1) * EntriesPerBlock > size),
         NEW m, p \in Directories(m), m.inodes[p].size = size - EntriesPerBlock,
         m.inodes[p].direct[i] = NoBlock,
         NoGaps(m) \/ DirectPtrs <= 2
  PROVE  i = n - 1 /\ n > 1 /\ size = n * EntriesPerBlock
<1> DEFINE E   == EntriesPerBlock
           row == RowOf(d, p)
           ne  == n * E
           ie  == (i + 1) * E
<1>1. E \in Nat /\ E > 1 /\ i \in Nat
  BY UFSAssumption
<1>2. Filled(d, p) /\ DirRow(p, row) /\ size \in Nat /\ n <= DirectPtrs
  <2>1. Filled(d, p) /\ RowsOf(d)[p] = row /\ p \in DOMAIN RowsOf(d) /\ Forest(d.inodeBitmap, RowsOf(d))
    BY DEF Tree, RowsOf
  <2> HIDE DEF row
  <2> QED
    BY <2>1 DEF Forest, Filled
<1>3. size <= ne /\ ne < size + E /\ ne \in Nat
  BY <1>2, BlocksOfSize
<1>4. ie \in Nat /\ ie <= size
  <2>1. ie \in Nat
    BY <1>1
  <2> QED
    BY <1>2, <2>1
<1>5. i # 0
  <2> SUFFICES ASSUME i = 0 PROVE FALSE
    OBVIOUS
  <2>1. 0 \in CellsOf(i)
    <3>1. CellsOf(i) = 0 * E .. (0 + 1) * E - 1
      BY DEF CellsOf
    <3> QED
      BY <1>1, <3>1
  <2> HIDE DEF row
  <2>2. /\ 0 \in DOMAIN row /\ 0 # at /\ at \in DOMAIN row /\ row[0].name = "."
    BY <1>2, DotsAreNone DEF DirRow, NamedIn, Entry, row
  <2>3. DOMAIN Cleared(row, at) = DOMAIN row /\ Cleared(row, at)[0] = row[0]
    <3>1. row[at] \in Cell
      BY DEF row
    <3> QED
      BY <2>2, <3>1, ClearedCells
  <2>4. BlockEmpty(Cleared(row, at), i)
    BY DEF row
  <2>5. row[0].name = NoName
    BY <2>1, <2>2, <2>3, <2>4, EmptyMeansNoName
  <2> QED
    BY <2>2, <2>5, NoNameIsNone
<1>6. i = n - 1
  <2>1. CASE DirectPtrs <= 2
    <3>1. i \in Nat /\ i # 0 /\ i < n /\ n \in Nat /\ n <= DirectPtrs /\ DirectPtrs \in Nat
      BY <1>1, <1>2, <1>5, UFSAssumption
    <3>2. n <= 2
      BY <2>1, <3>1
    <3> QED
      BY <3>1, <3>2
  <2>2. CASE NoGaps(m)
    <3> DEFINE less == BlocksFor(size - E)
               le   == less * E
    <3>1. size - E \in Nat
      <4>1. E <= ie
        <5>1. ie = i * E + E /\ i * E \in Nat
          BY <1>1
        <5> DEFINE x == i * E
        <5> HIDE DEF x, ie
        <5>2. ie = x + E /\ x \in Nat
          BY <5>1 DEF x
        <5> QED
          BY <1>1, <5>2
      <4> HIDE DEF ie
      <4> QED
        BY <1>1, <1>2, <1>4, <4>1
    <3>2. less \in Nat /\ le \in Nat /\ size - E <= le
      BY <3>1, BlocksOfSize
    <3> HIDE DEF less
    <3>3. less >= n - 1
      <4> SUFFICES ASSUME less <= n - 2 PROVE FALSE
        BY <3>2
      <4>1. n - 2 - less \in Nat /\ ne = le + (n - 2 - less) * E + E + E
        BY <1>1, <3>2
      <4>2. (n - 2 - less) * E \in Nat
        BY <1>1, <4>1
      <4> DEFINE x == (n - 2 - less) * E
      <4> HIDE DEF x, ne, le
      <4>3. ne = le + x + E + E /\ x \in Nat
        BY <4>1, <4>2 DEF x
      <4> QED
        BY <1>1, <1>2, <1>3, <3>2, <4>3
    <3>4. i \in Ptrs
      BY <1>1, <1>2, UFSAssumption DEF Ptrs
    <3>5. ~(i < less)
      BY <2>2, <3>4 DEF NoGaps, less
    <3> QED
      BY <1>1, <3>2, <3>3, <3>5
  <2> QED
    BY <2>1, <2>2
<1>7. n > 1
  BY <1>1, <1>5, <1>6
<1>8. ie = ne
  BY <1>6
<1> HIDE DEF ie, ne
<1>9. size = ne
  BY <1>2, <1>3, <1>4, <1>8
<1> QED
  BY <1>6, <1>7, <1>9 DEF ne

\* The directory is as long as it was.
LEMMA NameGoneInPlace ==
  ASSUME NEW d, Tree(d), NEW p \in Directories(d), NEW at \in NamedIn(RowOf(d, p)),
         NEW v, RowOf(d, p)[at].inum = v,
         NEW t, NEW is, NEW B, Clearing(d, p, at, is, B, t),
         RowOf(t, p)[at].inum = v, RowOf(t, p)[at].name = NoName,
         NEW c, c.inodeBitmap = d.inodeBitmap \ {v}, Directories(c) = Directories(d) \ {v},
         \A q \in Directories(c) : c.inodes[q] = t.inodes[q], c.blocks = t.blocks
  PROVE  Tree(c) /\ Without(c, p, RowOf(d, p)[at].name)
<1>0. /\ Tree(t) /\ Directories(t) = Directories(d)
      /\ \A q \in Directories(d) \ {p} : RowOf(t, q) = RowOf(d, q)
      /\ DOMAIN RowOf(t, p) = DOMAIN RowOf(d, p)
      /\ \A e \in DOMAIN RowOf(d, p) : e # at => RowOf(t, p)[e] = RowOf(d, p)[e]
  BY DEF Clearing
<1>1. \A q \in Directories(c) : RowOf(c, q) = RowOf(t, q) /\ Filled(c, q)
  <2> TAKE q \in Directories(c)
  <2>1. Filled(t, q) /\ c.inodes[q] = t.inodes[q]
    BY <1>0 DEF Tree
  <2> QED
    BY <2>1, RowDependsOn
<1>2. v # p /\ {0, 1} \subseteq DOMAIN RowOf(d, p)
  <2>1. /\ Forest(d.inodeBitmap, RowsOf(d)) /\ p \in DOMAIN RowsOf(d)
        /\ RowsOf(d)[p] = RowOf(d, p)
    BY DEF Tree, RowsOf
  <2>2. DirRow(p, RowOf(d, p)) /\ Leads(d.inodeBitmap, RowsOf(d), p, at)
    BY <2>1 DEF Forest
  <2> QED
    BY <2>1, <2>2 DEF DirRow, Leads
<1>3. p \in Directories(c)
  BY <1>2
<1>4. RowOf(c, p) = RowOf(t, p) /\ Filled(c, p)
  BY <1>1, <1>3
<1>5. \A q \in Directories(c) \ {p} : RowOf(c, q) = RowOf(d, q) /\ Filled(c, q)
  BY <1>0, <1>1
<1>6. /\ DOMAIN RowOf(c, p) \subseteq DOMAIN RowOf(d, p) /\ {0, 1} \subseteq DOMAIN RowOf(c, p)
      /\ \A e \in DOMAIN RowOf(c, p) :
            \/ e # at /\ RowOf(c, p)[e] = RowOf(d, p)[e]
            \/ e = at /\ RowOf(c, p)[e].inum = v /\ RowOf(c, p)[e].name = NoName
  BY <1>0, <1>2, <1>4
<1>7. Tree(c) /\ p \in Directories(c) /\ NameFree(RowOf(c, p), RowOf(d, p)[at].name)
  BY <1>4, <1>5, <1>6, NameGone
<1> QED
  BY <1>7 DEF Without

\* The last block of the directory, which the entry was in, is gone.
LEMMA NameGoneWithBlock ==
  ASSUME NEW d, Tree(d), NEW p \in Directories(d), NEW at \in NamedIn(RowOf(d, p)),
         NEW v, RowOf(d, p)[at].inum = v,
         NEW t, Tree(t), Directories(t) = Directories(d), t.inodes[p] = d.inodes[p],
         \A q \in Directories(d) \ {p} : RowOf(t, q) = RowOf(d, q),
         \A e \in DOMAIN RowOf(d, p) : e # at => RowOf(t, p)[e] = RowOf(d, p)[e],
         NEW n \in Nat, n > 1, d.inodes[p].size = n * EntriesPerBlock,
         n <= DirectPtrs, at \div EntriesPerBlock = n - 1,
         NEW c, c.inodeBitmap = d.inodeBitmap \ {v}, Directories(c) = Directories(d) \ {v},
         \A q \in Directories(c) \ {p} : c.inodes[q] = t.inodes[q], c.blocks = t.blocks,
         c.inodes[p].size = d.inodes[p].size - EntriesPerBlock,
         \A a \in Ptrs \ {n - 1} : c.inodes[p].direct[a] = d.inodes[p].direct[a]
  PROVE  Tree(c) /\ Without(c, p, RowOf(d, p)[at].name)
<1> DEFINE ino  == d.inodes[p]
           ino2 == c.inodes[p]
           E    == EntriesPerBlock
           ne   == n * E
           le   == (n - 1) * E
<1>1. \A q \in Directories(c) \ {p} : RowOf(c, q) = RowOf(d, q) /\ Filled(c, q)
  <2> TAKE q \in Directories(c) \ {p}
  <2>1. Filled(t, q) /\ c.inodes[q] = t.inodes[q]
    BY DEF Tree
  <2>2. RowOf(c, q) = RowOf(t, q) /\ Filled(c, q)
    BY <2>1, RowDependsOn
  <2> QED
    BY <2>2
<1>2. ne - E = le /\ BlocksFor(le) = n - 1 /\ le \in Nat /\ le > 1 /\ E \in Nat /\ ne \in Nat
  BY OneBlockLess, UFSAssumption
<1>3. \A a \in 0 .. n - 2 : a \in Ptrs \ {n - 1}
  BY UFSAssumption DEF Ptrs
<1>4. ino2.size = le /\ ino.size = ne
  BY <1>2
<1>5. Filled(t, p) /\ BlocksFor(ne) = n
  <2>1. BlocksFor(ne) = n
    <3>1. n + 1 \in Nat /\ n + 1 > 1 /\ (n + 1) - 1 = n
      OBVIOUS
    <3> QED
      BY <3>1, OneBlockLess
  <2> QED
    BY <2>1 DEF Tree
<1> HIDE DEF ne, le, ino, ino2
<1>6. \A a \in 0 .. n - 2 : ino2.direct[a] = ino.direct[a] /\ ino.direct[a] \in DataBlocks
  <2>1. t.inodes[p] = ino /\ BlocksFor(ino.size) = n
    BY <1>4, <1>5 DEF ino
  <2>2. \A a \in 0 .. n - 1 : ino.direct[a] \in DataBlocks
    BY <1>5, <2>1 DEF Filled
  <2> QED
    BY <1>3, <2>2 DEF ino, ino2
<1>7. Filled(c, p)
  <2>1. BlocksFor(ino2.size) = n - 1 /\ n - 1 <= DirectPtrs /\ (n - 1) * EntriesPerBlock = ino2.size
    BY <1>2, <1>4, UFSAssumption DEF le
  <2>2. \A a \in 0 .. (n - 1) - 1 : ino2.direct[a] \in DataBlocks
    BY <1>6
  <2>3. \A pos \in ino2.size .. (n - 1) * EntriesPerBlock - 1 : CellAt(c, ino2, pos).inum = -1
    BY <1>2, <1>4, <2>1
  <2> QED
    BY <1>2, <1>4, <2>1, <2>2, <2>3 DEF Filled, ino2
<1>8. \A e \in 0 .. le - 1 : e \in 0 .. ne - 1 /\ CellAt(c, ino2, e) = CellAt(t, ino, e)
  <2> TAKE e \in 0 .. le - 1
  <2>1. e \div EntriesPerBlock \in 0 .. (n - 1) - 1
    BY PositionParts DEF le
  <2>2. ino2.direct[e \div EntriesPerBlock] = ino.direct[e \div EntriesPerBlock]
    BY <1>6, <2>1
  <2>3. e \in 0 .. ne - 1
    BY <1>2
  <2> QED
    BY <2>2, <2>3 DEF CellAt
<1>9. at \notin 0 .. le - 1
  <2>1. at \in 0 .. ne - 1
    BY <1>4 DEF NamedIn, RowOf, ino
  <2>2. at = (at \div EntriesPerBlock) * EntriesPerBlock + (at % EntriesPerBlock)
        /\ at % EntriesPerBlock \in Slots
    BY <2>1, PositionParts DEF ne
  <2>3. at = le + (at % EntriesPerBlock)
    BY <2>2 DEF le
  <2>4. at % EntriesPerBlock \in Nat
    BY <1>2, <2>2 DEF Slots
  <2> QED
    BY <1>2, <2>3, <2>4
<1>10. /\ DOMAIN RowOf(c, p) = 0 .. le - 1 /\ DOMAIN RowOf(d, p) = 0 .. ne - 1
       /\ \A e \in 0 .. le - 1 : RowOf(c, p)[e] = RowOf(t, p)[e]
  <2>1. RowOf(c, p) = [e \in 0 .. le - 1 |-> CellAt(c, ino2, e)]
    BY <1>4 DEF RowOf, ino2
  <2>2. RowOf(t, p) = [e \in 0 .. ne - 1 |-> CellAt(t, ino, e)]
    BY <1>4 DEF RowOf, ino
  <2>3. DOMAIN RowOf(d, p) = 0 .. ne - 1
    BY <1>4 DEF RowOf, ino
  <2> QED
    BY <1>8, <2>1, <2>2, <2>3
<1>11. /\ DOMAIN RowOf(c, p) \subseteq DOMAIN RowOf(d, p) /\ {0, 1} \subseteq DOMAIN RowOf(c, p)
       /\ \A e \in DOMAIN RowOf(c, p) : e # at /\ RowOf(c, p)[e] = RowOf(d, p)[e]
  <2>1. {0, 1} \subseteq 0 .. le - 1
    BY <1>2
  <2>2. \A e \in 0 .. le - 1 : e \in 0 .. ne - 1 /\ e # at
    BY <1>8, <1>9
  <2> QED
    BY <1>10, <2>1, <2>2
<1>12. Tree(c) /\ p \in Directories(c) /\ NameFree(RowOf(c, p), RowOf(d, p)[at].name)
  BY <1>1, <1>7, <1>11, NameGone
<1> QED
  BY <1>12 DEF Without

\* What the writes of an unlink leave.
UnlinkEnds(d, p, n, plan) ==
  \E B : Outcome(d, plan, B) /\ (plan.commit => Without(After(plan.mem, B), p, n))

\* What an unlink that goes on has found and does: entry at of p, that leads to
\* v, is removed, the blocks is are written back, and B is what they become.
UnlinkSets(d, p, n, plan, at, v, is, B) ==
  LET ino     == d.inodes[p]
      size    == ino.size
      nb      == BlocksFor(size)
      row     == RowOf(d, p)
      m       == Unlinked(d, p, v, at)
      w       == Backs(d, p, v, at)
  IN  /\ p \in Directories(d) /\ p \in Inodes /\ n \in Names
      /\ at \in NamedIn(row) /\ row[at].name = n /\ row[at].inum = v
      /\ v \in d.inodeBitmap \cap Inodes /\ v # p
      /\ UnlinkDoes(d, p, v, at, plan)
      /\ at \in DOMAIN row /\ at \in 0 .. size - 1 /\ row[at] \in Cell
      /\ at \div EntriesPerBlock \in 0 .. nb - 1
      /\ m.inodeBitmap = d.inodeBitmap \ {v}
      /\ \A j \in Inodes : m.inodes[j].type = d.inodes[j].type
      /\ \A j \in Inodes \ {p, v} : m.inodes[j] = d.inodes[j]
      /\ ~Emptied(row, at) => m.inodes[p] = ino
      /\ Emptied(row, at) =>
           /\ m.inodes[p].size = size - EntriesPerBlock
           /\ m.inodes[p].direct[at \div EntriesPerBlock] = NoBlock
           /\ \A a \in Ptrs \ {at \div EntriesPerBlock} : m.inodes[p].direct[a] = ino.direct[a]
      /\ is = Within(m.inodes[p], nb, size)
      /\ \A x \in is : m.inodes[p].direct[x] = ino.direct[x]
      /\ Len(w) = Cardinality(is) /\ Cardinality(is) \in Nat
      /\ \A y \in Nat : AllBelow(is, y) =>
            \A x \in is : \E j \in 1 .. Len(w) : w[j].addr = m.inodes[p].direct[x]
      /\ plan.writes = w /\ w \in Writes
      /\ WroteBack(d.blocks, w, is, ino.direct, Cleared(row, at), B)
      /\ WrittenFrom(d, p, is, Cleared(row, at), B)

\* This is what it does.
LEMMA UnlinkWrote ==
  ASSUME Asan, NEW d, Usable(d), Tree(d), NEW p, NEW n,
         NEW heap \in [HeapRange(d, p) -> HeapCells], NEW lucky,
         NEW plan, plan = UnlinkPlan(d, p, n, heap, lucky), ~IsRefused(plan)
  PROVE  \E at, v, is, B : UnlinkSets(d, p, n, plan, at, v, is, B)
<1>1. /\ p \in Directories(d) /\ p \in Inodes /\ n \in Names
      /\ \E at \in NamedIn(RowOf(d, p)), v \in Inodes :
              /\ RowOf(d, p)[at].name = n /\ RowOf(d, p)[at].inum = v
              /\ plan = UnlinkEntry(d, p, v, at, RowOf(d, p), lucky)
  BY UnlinkDecides
<1>2. PICK at \in NamedIn(RowOf(d, p)), v \in Inodes :
              /\ RowOf(d, p)[at].name = n /\ RowOf(d, p)[at].inum = v
              /\ plan = UnlinkEntry(d, p, v, at, RowOf(d, p), lucky)
  BY <1>1
<1> DEFINE row     == RowOf(d, p)
           ino     == d.inodes[p]
           size    == ino.size
           nb      == BlocksFor(size)
           i       == at \div EntriesPerBlock
           data    == Cleared(row, at)
           emptied == Emptied(row, at)
           m       == Unlinked(d, p, v, at)
           w       == Backs(d, p, v, at)
           is      == Within(m.inodes[p], nb, size)
<1>3. /\ emptied => ~Over(d, p, at)
      /\ \/ plan = Plan(Aborts, w, FALSE, Meta(d))
         \/ plan = Plan(0, w, TRUE, m) /\ ~Short(d, p, v, at)
  <2>1. UnlinkDoes(d, p, v, at, plan)
    BY <1>2, UnlinkCases
  <2> QED
    BY <2>1 DEF UnlinkDoes
<1>4. /\ Sound(d) /\ d.inodes \in [Inodes -> Inode] /\ d.inodeBitmap \in SUBSET Inodes
      /\ d.blocks \in [DataBlocks -> Block]
  BY DEF Usable, Sound, Meta, Metadata
<1>5. Filled(d, p) /\ nb \in Nat /\ nb <= DirectPtrs /\ size \in Nat
      /\ size <= nb * EntriesPerBlock /\ nb * EntriesPerBlock \in Nat
      /\ \A a \in 0 .. nb - 1 : a \in Ptrs /\ ino.direct[a] \in DataBlocks
  <2>1. Filled(d, p) /\ size \in Nat
    BY <1>1 DEF Tree, Filled
  <2>2. nb \in Nat /\ size <= nb * EntriesPerBlock /\ nb * EntriesPerBlock \in Nat
    BY <2>1, BlocksOfSize
  <2>3. nb <= DirectPtrs /\ \A a \in 0 .. nb - 1 : a \in Ptrs /\ ino.direct[a] \in DataBlocks
    BY <2>1, BlocksOfDirectory DEF Filled
  <2> QED
    BY <2>1, <2>2, <2>3
<1>6. /\ at \in DOMAIN row /\ at \in 0 .. size - 1 /\ i \in 0 .. nb - 1 /\ i \in Ptrs
      /\ row[at] \in Cell
  <2>1. at \in DOMAIN row /\ DOMAIN row = 0 .. size - 1
    BY DEF NamedIn, RowOf
  <2>2. row[at] \in Cell
    BY <1>4, <1>5, <2>1, RowCells
  <2>3. at \in 0 .. nb * EntriesPerBlock - 1
    BY <1>5, <2>1
  <2>4. i \in 0 .. nb - 1
    BY <1>5, <2>3, PositionParts
  <2> QED
    BY <1>5, <2>1, <2>2, <2>4
<1>7. v \in d.inodeBitmap /\ v # p /\ p \in d.inodeBitmap
  <2>1. /\ Forest(d.inodeBitmap, RowsOf(d)) /\ p \in DOMAIN RowsOf(d) /\ RowsOf(d)[p] = row
    BY <1>1 DEF Tree, RowsOf
  <2>2. Leads(d.inodeBitmap, RowsOf(d), p, at)
    BY <2>1 DEF Forest
  <2> QED
    BY <1>1, <1>2, <2>1, <2>2 DEF Leads, Directories
<1> HIDE DEF nb, i, data, row, emptied
<1>8. /\ m.inodeBitmap = d.inodeBitmap \ {v}
      /\ \A j \in Inodes : m.inodes[j].type = d.inodes[j].type
      /\ \A j \in Inodes \ {p, v} : m.inodes[j] = d.inodes[j]
      /\ \A a \in Ptrs : m.inodes[p].direct[a] \in {ino.direct[a], NoBlock}
  <2>1. m = Removed(d, p, v, at, emptied)
    BY DEF m, Unlinked, emptied, row
  <2> HIDE DEF m
  <2> QED
    BY <1>1, <1>2, <1>4, <1>6, <2>1, RemovedInodes DEF i
<1>9. /\ ~emptied => m.inodes[p] = ino
      /\ emptied => /\ m.inodes[p].size = size - EntriesPerBlock
                    /\ m.inodes[p].direct[i] = NoBlock
                    /\ \A a \in Ptrs \ {i} : m.inodes[p].direct[a] = ino.direct[a]
  <2>1. m = Removed(d, p, v, at, emptied) /\ i = at \div EntriesPerBlock
    BY DEF m, i, Unlinked, emptied, row
  <2> HIDE DEF m
  <2>2. /\ d.inodes \in [Inodes -> Inode] /\ p \in Inodes /\ v \in Inodes /\ v # p
        /\ i \in Ptrs
    BY <1>1, <1>2, <1>4, <1>6, <1>7
  <2> QED
    BY ONLY <2>1, <2>2, RemovedDirectory
<1> HIDE DEF m
<1>10. /\ \A x \in is : /\ x \in Ptrs /\ x \in 0 .. nb - 1
                        /\ (x + 1) * EntriesPerBlock <= size
                        /\ m.inodes[p].direct[x] = ino.direct[x]
       /\ \A x, y \in is : ino.direct[x] = ino.direct[y] => x = y
  <2> HIDE DEF is
  <2>1. is = Within(m.inodes[p], BlocksFor(size), size)
    BY DEF is, nb
  <2>2. \A a \in Ptrs : m.inodes[p].direct[a] \in {ino.direct[a], NoBlock}
    BY <1>8
  <2>3. Sound(d) /\ p \in Inodes /\ Filled(d, p)
    BY <1>1, <1>4, <1>5
  <2> QED
    BY ONLY <2>1, <2>2, <2>3, BlocksBack DEF nb
<1>11. /\ Len(w) = Cardinality(is) /\ Cardinality(is) \in Nat
       /\ \A j \in 1 .. Len(w) : \E x \in is :
            w[j].addr = m.inodes[p].direct[x] /\ w[j].cells = CellsFrom(data, x)
       /\ \A y \in Nat : AllBelow(is, y) =>
            \A x \in is : \E j \in 1 .. Len(w) : w[j].addr = m.inodes[p].direct[x]
  <2> HIDE DEF is, w
  <2>1. is = Within(m.inodes[p], nb, size) /\ w = WriteBack(m.inodes[p], nb, data, size)
    BY DEF is, w, Backs, m, nb, data, row
  <2> HIDE DEF size
  <2> QED
    BY ONLY Asan, <2>1, WriteBackParts, SMTT(30)
<1> HIDE DEF is, w
<1>15. plan.writes = w /\ w \in Writes
  <2>1. plan.writes \in Seq(Safe(d))
    BY UnlinkWrites
  <2>2. plan.writes = w
    BY <1>3 DEF Plan
  <2> QED
    BY <2>1, <2>2, SafeWrites DEF Writes
<1>16. \A j \in 1 .. Len(w) : \E x \in is :
            w[j].addr = ino.direct[x] /\ w[j].cells = CellsFrom(data, x)
  BY <1>10, <1>11
<1>17. PICK B : WroteBack(d.blocks, w, is, ino.direct, data, B)
  <2> DEFINE direct == ino.direct
  <2>1. \A x, y \in is : direct[x] = direct[y] => x = y
    BY <1>10
  <2>2. \A j \in 1 .. Len(w) : \E x \in is :
            w[j].addr = direct[x] /\ w[j].cells = CellsFrom(data, x)
    BY <1>16
  <2>3. w \in Writes /\ d.blocks \in [DataBlocks -> Block]
    BY <1>4, <1>15
  <2> HIDE DEF direct
  <2>4. \E B : WroteBack(d.blocks, w, is, direct, data, B)
    BY <2>1, <2>2, <2>3, WriteBackEnds
  <2> QED
    BY <2>4 DEF direct
<1>18. WrittenFrom(d, p, is, Cleared(RowOf(d, p), at), B)
  BY <1>10, <1>17 DEF WrittenFrom, WroteBack, nb, data, row
<1>19. UnlinkDoes(d, p, v, at, plan)
  BY <1>2, UnlinkCases
<1>20. is = Within(m.inodes[p], nb, size)
  BY DEF is
<1> HIDE DEF size, ino
<1>21. UnlinkSets(d, p, n, plan, at, v, is, B)
  BY <1>1, <1>2, <1>6, <1>7, <1>8, <1>9, <1>10, <1>11, <1>15, <1>17, <1>18, <1>19, <1>20
     DEF UnlinkSets, ino, size, nb, i, data, row, emptied, m, w
<1> QED
  BY <1>21

\* unlink: what it has decided leaves a tree, without the name when it succeeds.
\* Where the directory has three blocks or more this takes that no gap is left: a
\* block emptied in the middle leaves one.
LEMMA UnlinkShrinks ==
  ASSUME Asan, NEW d, Usable(d), Tree(d), NEW p, NEW n,
         NEW heap \in [HeapRange(d, p) -> HeapCells], NEW lucky,
         NEW plan, plan = UnlinkPlan(d, p, n, heap, lucky), ~IsRefused(plan),
         NoGaps(plan.mem) \/ DirectPtrs <= 2
  PROVE  UnlinkEnds(d, p, n, plan) /\ p \in Directories(d) /\ n \in Names
<1>0. PICK at, v, is, B : UnlinkSets(d, p, n, plan, at, v, is, B)
  BY UnlinkWrote
<1> DEFINE row     == RowOf(d, p)
           ino     == d.inodes[p]
           size    == ino.size
           nb      == BlocksFor(size)
           i       == at \div EntriesPerBlock
           data    == Cleared(row, at)
           emptied == Emptied(row, at)
           m       == Unlinked(d, p, v, at)
           w       == Backs(d, p, v, at)
           held    == Held(m.inodes[p], nb)
<1>1. p \in Directories(d) /\ p \in Inodes /\ n \in Names
  BY <1>0 DEF UnlinkSets
<1>2. at \in NamedIn(RowOf(d, p)) /\ RowOf(d, p)[at].name = n /\ RowOf(d, p)[at].inum = v
      /\ v \in Inodes
  BY <1>0 DEF UnlinkSets
<1>3. /\ emptied => ~Over(d, p, at)
      /\ \/ plan = Plan(Aborts, w, FALSE, Meta(d))
         \/ plan = Plan(0, w, TRUE, m) /\ ~Short(d, p, v, at)
  BY <1>0 DEF UnlinkSets, UnlinkDoes
<1>4. /\ Sound(d) /\ d.inodes \in [Inodes -> Inode] /\ d.inodeBitmap \in SUBSET Inodes
      /\ d.blocks \in [DataBlocks -> Block]
  BY DEF Usable, Sound, Meta, Metadata
<1>5. Filled(d, p) /\ nb \in Nat /\ nb <= DirectPtrs /\ \A a \in 0 .. nb - 1 : a \in Ptrs
  BY <1>1, BlocksOfDirectory DEF Tree
<1>5a. size \in Nat
  BY <1>5 DEF Filled
<1> HIDE DEF nb, i, data, row, emptied, m, w
<1>6. at \in DOMAIN row /\ at \in 0 .. size - 1 /\ row[at] \in Cell /\ i \in 0 .. nb - 1
  BY <1>0 DEF UnlinkSets, row, i, nb
<1>7. v \in d.inodeBitmap /\ v # p /\ p \in d.inodeBitmap
  BY <1>0, <1>1 DEF UnlinkSets, Directories
<1>8. /\ m.inodeBitmap = d.inodeBitmap \ {v}
      /\ \A j \in Inodes : m.inodes[j].type = d.inodes[j].type
      /\ \A j \in Inodes \ {p, v} : m.inodes[j] = d.inodes[j]
  BY <1>0 DEF UnlinkSets, m
<1>9. /\ ~emptied => m.inodes[p] = ino
      /\ emptied => /\ m.inodes[p].size = size - EntriesPerBlock
                    /\ m.inodes[p].direct[i] = NoBlock
                    /\ \A a \in Ptrs \ {i} : m.inodes[p].direct[a] = ino.direct[a]
  BY <1>0 DEF UnlinkSets, m, emptied, row, i
<1>10. is = Within(m.inodes[p], nb, size) /\ \A x \in is : m.inodes[p].direct[x] = ino.direct[x]
  BY <1>0 DEF UnlinkSets, m, nb
<1>11. /\ Len(w) = Cardinality(is) /\ Cardinality(is) \in Nat
       /\ \A y \in Nat : AllBelow(is, y) =>
            \A x \in is : \E j \in 1 .. Len(w) : w[j].addr = m.inodes[p].direct[x]
  BY <1>0 DEF UnlinkSets, w, m
<1>12. is \subseteq held
  BY <1>10 DEF Within
<1>13. IsFiniteSet(held)
  <2>1. held \in SUBSET (0 .. DirectPtrs) /\ DirectPtrs \in Nat
    BY UFSAssumption DEF Held, Ptrs
  <2> QED
    BY <2>1, SetOfIndices
<1>14. ~emptied => held = 0 .. nb - 1
  BY <1>5, <1>9, BlocksOfDirectory DEF nb
<1> HIDE DEF held
<1>15. plan.writes = w
  BY <1>0 DEF UnlinkSets, w
<1>17. WroteBack(d.blocks, w, is, ino.direct, data, B)
  BY <1>0 DEF UnlinkSets, w, data, row
<1> DEFINE t == After(Meta(d), B)
<1>18. WrittenFrom(d, p, is, Cleared(RowOf(d, p), at), B)
  BY <1>0 DEF UnlinkSets
<1>19. Clearing(d, p, at, is, B, t)
  BY <1>1, <1>2, <1>18, NameClears
<1>a. B \in [DataBlocks -> Block] /\ Ends(d.blocks, w, B)
  BY <1>17 DEF WroteBack
<1>b. Tree(t) /\ Directories(t) = Directories(d)
      /\ \A q \in Directories(d) \ {p} : RowOf(t, q) = RowOf(d, q)
  BY <1>19 DEF Clearing
<1>c. /\ DOMAIN RowOf(t, p) = DOMAIN RowOf(d, p)
      /\ \A e \in DOMAIN RowOf(d, p) : e # at => RowOf(t, p)[e] = RowOf(d, p)[e]
  BY <1>19 DEF Clearing
<1>20. CASE plan = Plan(Aborts, w, FALSE, Meta(d))
  <2>1. plan.mem = Meta(d) /\ ~plan.commit /\ plan.ret \in Int /\ plan.ret < 0
    BY <1>20 DEF Plan, Aborts
  <2>2. Outcome(d, plan, B)
    BY <1>15, <1>a, <1>b, <2>1 DEF Outcome
  <2> QED
    BY <1>1, <2>1, <2>2 DEF UnlinkEnds
<1>21. CASE plan = Plan(0, w, TRUE, m) /\ ~Short(d, p, v, at)
  <2> DEFINE c == After(m, B)
  <2>1. plan.mem = m /\ plan.commit /\ plan.ret = 0
    BY <1>21 DEF Plan
  <2>2. is = held
    <3>1. Cardinality(is) <= Cardinality(held) /\ Cardinality(held) \in Nat
          /\ (Cardinality(held) = Cardinality(is) => held = is)
      BY <1>12, <1>13, FS_Subset, FS_CardinalityType
    <3> QED
      BY <1>11, <1>21, <3>1 DEF Short, held, w, m, nb
  <2>3. /\ c.inodeBitmap = d.inodeBitmap \ {v} /\ c.blocks = t.blocks /\ c.inodes = m.inodes
        /\ t.inodes = d.inodes
    BY <1>8 DEF After, Meta
  <2> HIDE DEF c, t
  <2>4. Directories(c) = Directories(d) \ {v}
    BY <1>4, <1>8, <2>3 DEF Directories
  <2>5. \A q \in Directories(c) \ {p} : c.inodes[q] = t.inodes[q]
    BY <1>4, <1>8, <2>3, <2>4 DEF Directories
  <2>6. Tree(c) /\ Without(c, p, n)
    <3>1. CASE ~emptied
      <4>1. \A q \in Directories(c) : c.inodes[q] = t.inodes[q]
        BY <1>9, <2>3, <2>5, <3>1
      <4>2. is = 0 .. nb - 1 /\ i \in is
        BY <1>6, <1>14, <2>2, <3>1
      <4>3. B[ino.direct[i]] = CellsFrom(data, i)
        <5>1. \E j \in 1 .. Len(w) : w[j].addr = m.inodes[p].direct[i]
          BY <1>5, <1>11, <4>2 DEF AllBelow
        <5>2. m.inodes[p].direct[i] = ino.direct[i]
          BY <1>10, <4>2
        <5>3. \E j \in 1 .. Len(w) : w[j].addr = ino.direct[i]
          BY <5>1, <5>2
        <5> QED
          BY <1>17, <4>2, <5>3 DEF WroteBack
      <4>4. RowOf(t, p)[at].inum = v /\ RowOf(t, p)[at].name = NoName
        BY <1>2, <1>19, <4>2, <4>3 DEF Clearing, data, row, i
      <4>5. c.inodeBitmap = d.inodeBitmap \ {v} /\ c.blocks = t.blocks
        BY <2>3
      <4> HIDE DEF ino
      <4>6. p \in Directories(d) /\ RowOf(d, p)[at].name = n /\ RowOf(d, p)[at].inum = v
        BY <1>1, <1>2
      <4>7. Tree(c) /\ Without(c, p, RowOf(d, p)[at].name)
        BY <1>2, <1>19, <2>4, <4>1, <4>4, <4>5, <4>6, NameGoneInPlace
      <4> QED
        BY <4>6, <4>7
    <3>2. CASE emptied
      <4>1. p \in Directories(c) /\ p \in Directories(m)
        BY <1>1, <1>7, <1>8, <2>4 DEF Directories
      <4>2. NoGaps(m) \/ DirectPtrs <= 2
        BY <2>1
      <4>3. i = nb - 1 /\ nb > 1 /\ size = nb * EntriesPerBlock
        <5>1. RowOf(d, p)[at] \in Cell /\ BlockEmpty(Cleared(RowOf(d, p), at), i)
          BY <1>6, <3>2 DEF row, emptied, Emptied, i
        <5>2. /\ ~((i + 1) * EntriesPerBlock > size) /\ nb = BlocksFor(size)
              /\ m.inodes[p].size = size - EntriesPerBlock /\ m.inodes[p].direct[i] = NoBlock
          BY <1>3, <1>9, <3>2 DEF nb, Over, i
        <5> QED
          BY <1>1, <1>2, <1>5, <1>6, <4>1, <4>2, <5>1, <5>2, EmptiedIsLast
      <4>4. /\ c.inodes[p].size = d.inodes[p].size - EntriesPerBlock
            /\ \A a \in Ptrs \ {nb - 1} : c.inodes[p].direct[a] = d.inodes[p].direct[a]
        BY <1>9, <2>3, <3>2, <4>3
      <4>5. at \div EntriesPerBlock = nb - 1
        BY <4>3 DEF i
      <4>6. /\ t.inodes[p] = d.inodes[p] /\ d.inodes[p].size = nb * EntriesPerBlock
            /\ nb \in Nat /\ nb > 1 /\ nb <= DirectPtrs
        BY <1>5, <2>3, <4>3
      <4>8. c.inodeBitmap = d.inodeBitmap \ {v} /\ c.blocks = t.blocks
        BY <2>3
      <4> HIDE DEF ino
      <4> QED
        BY <1>1, <1>2, <2>4, <2>5, <1>b, <1>c, <4>4, <4>5, <4>6, <4>8, NameGoneWithBlock
    <3> QED
      BY <3>1, <3>2
  <2>7. Outcome(d, plan, B)
    BY <1>15, <1>a, <2>1, <2>6 DEF Outcome, c
  <2> QED
    BY <1>1, <2>1, <2>6, <2>7 DEF UnlinkEnds, c
<1> QED
  BY <1>3, <1>20, <1>21

(***************************************************************************)
(* The invariant NamesKept, step by step: once the blocks that the running *)
(* call has collected are written, they make a tree of names with the      *)
(* metadata that is in memory.                                             *)
(***************************************************************************)

\* What a call on the directory tree has promised is what its blocks B will show.
Reported(B) ==
  pc \notin {"idle", "write"} /\ job.ret >= 0 =>
    /\ job.op = "create" => Named(After(mem, B), job.inum, job.name, job.ret)
    /\ job.op = "unlink" => job.name \in Names /\ Without(After(mem, B), job.inum, job.name)

\* When the writes of the running call are done the names make a tree.
TreeToCome ==
  \E B \in [DataBlocks -> Block] :
     Ends(disk.blocks, pending, B) /\ Tree(After(mem, B)) /\ Reported(B)

\* What the running call knows: one that has failed leaves the metadata alone,
\* one that writes metadata has succeeded, and write() is about a file.
CallKnows ==
  /\ pc = "blocks" /\ job.ret < 0 => mem = Meta(disk)
  /\ pc \in {"inodeBitmap", "dataBitmap", "region"} /\ job.op # "write" => job.ret >= 0
  /\ pc = "write" => /\ mem.inodes[job.inum].type = RegularFile
                     /\ disk.inodes[job.inum].type = RegularFile
  /\ pc # "blocks" => pending = <<>>

\* The invariant.
NamesKept == TreeToCome /\ CallKnows

\* The tree is a matter of the bitmap of inodes, the inodes and the blocks.
LEMMA SameTree ==
  ASSUME NEW d, Tree(d), NEW e, e.inodeBitmap = d.inodeBitmap, e.inodes = d.inodes,
         e.blocks = d.blocks
  PROVE  Tree(e) /\ RowsOf(e) = RowsOf(d) /\ Directories(e) = Directories(d)
<1>1. Directories(e) = Directories(d)
  BY DEF Directories
<1> QED
  BY <1>1, TreeDependsOn

\* An inode of a file and the blocks that are not of other inodes do not matter.
LEMMA FileChanges ==
  ASSUME NEW d, Tree(d), NEW e, d.inodeBitmap \in SUBSET Inodes,
         e.inodeBitmap = d.inodeBitmap,
         NEW i, d.inodes[i].type = RegularFile, e.inodes[i].type = RegularFile,
         \A j \in Inodes : j # i => e.inodes[j] = d.inodes[j],
         \A j \in Inodes : j # i =>
            \A a \in Ptrs : d.inodes[j].direct[a] \in DataBlocks =>
               e.blocks[d.inodes[j].direct[a]] = d.blocks[d.inodes[j].direct[a]]
  PROVE  Tree(e)
<1>1. Directories(e) = Directories(d) /\ \A p \in Directories(d) : p \in Inodes /\ p # i
  BY DEF Directories, Directory, RegularFile
<1> QED
  BY <1>1, TreeDependsOn

\* Without writes to come the tree is in memory and in the blocks of the disk.
LEMMA NothingPending ==
  ASSUME disk.blocks \in [DataBlocks -> Block], pending = <<>>, TreeToCome
  PROVE  Tree(After(mem, disk.blocks)) /\ Reported(disk.blocks)
<1>1. PICK B \in [DataBlocks -> Block] :
             Ends(disk.blocks, pending, B) /\ Tree(After(mem, B)) /\ Reported(B)
  BY DEF TreeToCome
<1>2. Len(pending) = 0
  OBVIOUS
<1>3. \A b \in DataBlocks : B[b] = disk.blocks[b]
  BY <1>1, <1>2 DEF Ends
<1>4. B = disk.blocks
  BY <1>1, <1>3
<1> QED
  BY <1>1, <1>4

\* And a tree that is there is one that is to come.
LEMMA AnEmptyPlan ==
  ASSUME disk.blocks \in [DataBlocks -> Block], pending = <<>>,
         Tree(After(mem, disk.blocks)), Reported(disk.blocks)
  PROVE  TreeToCome
<1>1. Ends(disk.blocks, pending, disk.blocks)
  BY NoWrite
<1> QED
  BY <1>1 DEF TreeToCome

\* The call is over and the image has a tree.
LEMMA ReturnNames ==
  ASSUME Return(disk'), disk' \in Image, Tree(disk')
  PROVE  NamesKept'
<1>1. pc' = "idle" /\ pending' = <<>> /\ mem' = Meta(disk')
  BY DEF Return
<1>2. disk'.blocks \in [DataBlocks -> Block]
  BY DEF Image
<1>3. Tree(After(mem', disk'.blocks))
  <2> DEFINE e == After(mem', disk'.blocks)
  <2>1. e.inodeBitmap = disk'.inodeBitmap /\ e.inodes = disk'.inodes /\ e.blocks = disk'.blocks
    BY <1>1 DEF After, Meta
  <2> HIDE DEF e
  <2>2. Tree(e)
    BY <2>1, SameTree
  <2> QED
    BY <2>2 DEF e
<1>4. Reported(disk.blocks)'
  BY <1>1 DEF Reported
<1>5. TreeToCome'
  <2>1. Ends(disk'.blocks, pending', disk'.blocks)
    BY <1>1, <1>2, NoWrite
  <2> QED
    BY <1>2, <1>3, <1>4, <2>1 DEF TreeToCome
<1>6. CallKnows'
  BY <1>1 DEF CallKnows
<1> QED
  BY <1>5, <1>6 DEF NamesKept

\* Between two calls the image has a tree, and so it has while write() runs,
\* since nothing but the file's inode and the blocks of the file are different.
LEMMA IdleTree == Kept /\ NamesKept /\ pc = "idle" => Tree(disk) /\ Usable(disk)
<1> SUFFICES ASSUME Kept, NamesKept, pc = "idle" PROVE Tree(disk) /\ Usable(disk)
  OBVIOUS
<1>1. Usable(disk) /\ mem = Meta(disk) /\ pending = <<>> /\ TreeToCome
      /\ disk.blocks \in [DataBlocks -> Block]
  BY DiskIsUsable DEF Kept, Ownership, Control, NamesKept, CallKnows, Contents, TypeOK, Image
<1>2. Tree(After(mem, disk.blocks))
  BY <1>1, NothingPending
<1> DEFINE d == After(mem, disk.blocks)
<1>3. d.inodeBitmap = disk.inodeBitmap /\ d.inodes = disk.inodes /\ d.blocks = disk.blocks /\ Tree(d)
  BY <1>1, <1>2 DEF After, Meta
<1> HIDE DEF d
<1> QED
  BY <1>1, <1>3, SameTree

\* The image of a fresh mkfs has one directory.
LEMMA InitNames == Init => NamesKept
<1> SUFFICES ASSUME Init PROVE NamesKept
  OBVIOUS
<1>1. PICK ino \in [Inodes -> StackInodes \cup {ZeroInode, RootInode}],
           rest \in [Slots -> StackNames] :
        /\ Formatted(ino)
        /\ disk = [inodeBitmap |-> {Root}, dataBitmap |-> {DataRegionAddr},
                   inodes |-> ino,
                   blocks |-> [b \in DataBlocks |->
                                 IF b = DataRegionAddr THEN RootBlock(rest) ELSE ZeroBlock]]
  BY DEF Init
<1>2. pc = "idle" /\ job = NoJob /\ pending = <<>> /\ k = 0 /\ mem = Meta(disk)
  BY DEF Init
<1>3. disk \in Image
  BY InitKeeps DEF Contents, TypeOK
<1>4. Root \in Inodes /\ DataRegionAddr \in DataBlocks /\ Root = 0
  BY Layout, UFSAssumption DEF Root, Inodes, DataBlocks
<1>5. /\ disk.inodeBitmap = {Root} /\ disk.inodes[Root] = RootInode
      /\ disk.blocks[DataRegionAddr] = RootBlock(rest)
  BY <1>1, <1>4 DEF Formatted
<1>6. DirectPtrs \in Nat /\ DirectPtrs > 0 /\ 0 \in Slots /\ 1 \in Slots /\ 1 # 0
  BY UFSAssumption DEF Slots
<1>7. /\ disk.inodes[Root].type = Directory
      /\ disk.inodes[Root].size = 2 /\ disk.inodes[Root].direct[0] = DataRegionAddr
  <2>1. 0 \in Ptrs
    BY <1>6 DEF Ptrs
  <2> QED
    BY <1>5, <2>1 DEF RootInode
<1>8. /\ disk.blocks[DataRegionAddr][0] = Entry(".", Root)
      /\ disk.blocks[DataRegionAddr][1] = Entry("..", Root)
      /\ \A s \in Slots : s # 0 /\ s # 1 => disk.blocks[DataRegionAddr][s].inum = -1
  <2>1. \A s \in Slots : RootBlock(rest)[s] = IF s = 0 THEN Entry(".", Root)
                                              ELSE IF s = 1 THEN Entry("..", Root)
                                              ELSE Entry(rest[s], -1)
    BY DEF RootBlock
  <2> QED
    BY <1>5, <1>6, <2>1, EntryFields
<1>9. Directories(disk) = {Root}
  BY <1>5, <1>7 DEF Directories
<1>10. Filled(disk, Root) /\ DirRow(Root, RowOf(disk, Root)) /\ NamedIn(RowOf(disk, Root)) = {}
  BY <1>4, <1>7, <1>8, FirstBlock
<1>11. Tree(disk)
  <2> DEFINE rows == RowsOf(disk)
  <2>1. DOMAIN rows = {Root} /\ rows[Root] = RowOf(disk, Root)
    BY <1>9 DEF RowsOf
  <2> HIDE DEF rows
  <2>2. Forest({Root}, rows)
    BY <1>10, <2>1 DEF Forest
  <2> QED
    BY <1>5, <1>9, <1>10, <2>2 DEF Tree, rows
<1>12. Tree(After(mem, disk.blocks))
  <2> DEFINE e == After(mem, disk.blocks)
  <2>1. e.inodeBitmap = disk.inodeBitmap /\ e.inodes = disk.inodes /\ e.blocks = disk.blocks
    BY <1>2 DEF After, Meta
  <2> HIDE DEF e
  <2>2. Tree(e)
    BY <1>11, <2>1, SameTree
  <2> QED
    BY <2>2 DEF e
<1>13. Reported(disk.blocks)
  BY <1>2 DEF Reported
<1>14. TreeToCome
  BY <1>2, <1>3, <1>12, <1>13, AnEmptyPlan DEF Image
<1> QED
  BY <1>2, <1>14 DEF NamesKept, CallKnows

\* A call on the directory tree begins: what it has decided makes a tree.
LEMMA StartNames ==
  ASSUME Kept, pc = "idle", NEW j, NEW plan, Proceed(j, plan), ~IsRefused(plan),
         j.op \in {"create", "unlink"}, j.ret = plan.ret,
         NEW B, Outcome(disk, plan, B),
         plan.commit /\ j.op = "create" => Named(After(plan.mem, B), j.inum, j.name, plan.ret),
         plan.commit /\ j.op = "unlink" => j.name \in Names /\ Without(After(plan.mem, B), j.inum, j.name)
  PROVE  NamesKept'
<1>1. /\ job' = j /\ pending' = plan.writes /\ mem' = plan.mem
      /\ pc' = (IF plan.writes = <<>> THEN "inodeBitmap" ELSE "blocks")
      /\ disk' = disk
  BY DEF Proceed
<1>2. /\ B \in [DataBlocks -> Block] /\ Ends(disk.blocks, plan.writes, B)
      /\ Tree(After(plan.mem, B))
      /\ plan.ret < 0 => plan.mem = Meta(disk)
      /\ plan.commit => plan.ret \in Nat
      /\ ~plan.commit => plan.ret \in Int /\ plan.ret < 0
  BY DEF Outcome
<1>3. j.ret >= 0 => plan.commit
  BY <1>2
<1>4. Reported(B)'
  BY <1>1, <1>3 DEF Reported
<1>5. TreeToCome'
  BY <1>1, <1>2, <1>4 DEF TreeToCome
<1>6. CallKnows'
  <2>1. pc' = "inodeBitmap" => plan.commit
    BY <1>1 DEF IsRefused
  <2>2. plan.commit => j.ret >= 0
    BY <1>2
  <2>3. Meta(disk') = Meta(disk)
    BY <1>1
  <2> QED
    BY <1>1, <1>2, <2>1, <2>2, <2>3 DEF CallKnows
<1> QED
  BY <1>5, <1>6 DEF NamesKept

\* A step that changes nothing.
LEMMA SameNames == NamesKept /\ UNCHANGED vars => NamesKept'
BY DEF vars, NamesKept, TreeToCome, CallKnows, Reported

\* The invariant when create begins.
LEMMA CreateNames ==
  ASSUME Kept, NamesKept, NEW p, NEW type \in {Directory, RegularFile}, NEW n,
         Create(p, type, n)
  PROVE  NamesKept'
<1> DEFINE plan == CreatePlan(disk, p, type, n)
           j    == [op |-> "create", inum |-> p, type |-> type, name |-> n, ret |-> plan.ret]
<1>1. pc = "idle" /\ Start(j, plan)
  BY DEF Create
<1>2. j.op = "create" /\ j.ret = plan.ret /\ j.inum = p /\ j.name = n
  OBVIOUS
<1> HIDE DEF j
<1>3. CASE IsRefused(plan)
  <2>1. UNCHANGED vars
    BY <1>1, <1>3 DEF Start
  <2> QED
    BY <2>1, SameNames
<1>4. CASE ~IsRefused(plan)
  <2>1. Tree(disk) /\ Usable(disk)
    BY <1>1, IdleTree
  <2>2. PICK B : Outcome(disk, plan, B)
                /\ (plan.commit => n \in Names /\ Named(After(plan.mem, B), p, n, plan.ret))
    BY <1>4, <2>1, CreateGrows
  <2> HIDE DEF plan
  <2>3. Proceed(j, plan)
    BY <1>1, <1>4 DEF Start
  <2> QED
    BY <1>1, <1>2, <1>4, <2>2, <2>3, StartNames
<1> QED
  BY <1>3, <1>4

\* The invariant when unlink begins.
LEMMA UnlinkNames ==
  ASSUME Asan, Kept, NamesKept, NEW p, NEW n, Unlink(p, n), NoGap' \/ DirectPtrs <= 2
  PROVE  NamesKept'
<1>1. PICK heap \in [HeapRange(disk, p) -> HeapCells], lucky \in BOOLEAN :
        UnlinkWith(p, n, UnlinkPlan(disk, p, n, heap, lucky))
  BY DEF Unlink, UnlinkPlans
<1> DEFINE plan == UnlinkPlan(disk, p, n, heap, lucky)
           j    == [op |-> "unlink", inum |-> p, name |-> n, ret |-> plan.ret]
<1>2. pc = "idle" /\ Start(j, plan)
  BY <1>1 DEF UnlinkWith
<1>3. j.op = "unlink" /\ j.ret = plan.ret /\ j.inum = p /\ j.name = n
  OBVIOUS
<1> HIDE DEF j
<1>4. CASE IsRefused(plan)
  <2>1. UNCHANGED vars
    BY <1>2, <1>4 DEF Start
  <2> QED
    BY <2>1, SameNames
<1>5. CASE ~IsRefused(plan)
  <2>1. Tree(disk) /\ Usable(disk)
    BY <1>2, IdleTree
  <2>2. Proceed(j, plan)
    BY <1>2, <1>5 DEF Start
  <2>3. NoGaps(plan.mem) \/ DirectPtrs <= 2
    <3> HIDE DEF plan
    <3> QED
      BY <2>2 DEF Proceed, NoGap
  <2>4. UnlinkEnds(disk, p, n, plan) /\ n \in Names
    BY <1>5, <2>1, <2>3, UnlinkShrinks
  <2> HIDE DEF plan
  <2>5. PICK B : Outcome(disk, plan, B) /\ (plan.commit => Without(After(plan.mem, B), p, n))
    BY <2>4 DEF UnlinkEnds
  <2> QED
    BY <1>2, <1>3, <1>5, <2>2, <2>4, <2>5, StartNames
<1> QED
  BY <1>4, <1>5

\* The invariant when write() begins.
LEMMA WriteNames ==
  ASSUME Kept, NamesKept, NEW i, NEW text, NEW size \in Int, Write(i, text, size)
  PROVE  NamesKept'
<1>1. CASE UNCHANGED vars
  BY <1>1, SameNames
<1>2. CASE /\ WriteError(disk, i, size) = 0 /\ pc' = "write"
           /\ job' = [op |-> "write", inum |-> i, text |-> text, ret |-> size]
           /\ UNCHANGED <<disk, pending, mem, k>>
  <2>0. -EINVALIDSIZE # 0 /\ -EINVALIDINODE # 0 /\ -EINVALIDTYPE # 0
    BY DEF EINVALIDSIZE, EINVALIDINODE, EINVALIDTYPE
  <2>1. disk.inodes[i].type = RegularFile
    BY <1>2, <2>0 DEF WriteError
  <2>2. pc = "idle" /\ mem = Meta(disk) /\ pending = <<>>
    BY DEF Write, Kept, Ownership, Control, NamesKept, CallKnows
  <2>3. CallKnows'
    BY <1>2, <2>1, <2>2 DEF CallKnows, Meta
  <2>4. \A B : Reported(B)'
    BY <1>2 DEF Reported
  <2>5. TreeToCome'
    BY <1>2, <2>4 DEF NamesKept, TreeToCome
  <2> QED
    BY <2>3, <2>5 DEF NamesKept
<1> QED
  BY <1>1, <1>2 DEF Write

\* The loop of write() touches the file's inode in memory, and on disk a block
\* that no other inode has.
LEMMA ChunkNames ==
  ASSUME Kept, NamesKept, InLoop, NEW b \in DataBlocks, PutChunk(b),
         UNCHANGED <<pc, job, pending>>, mem'.inodeBitmap = mem.inodeBitmap,
         \A j \in Inodes \ {job.inum} : mem'.inodes[j] = mem.inodes[j],
         mem'.inodes[job.inum].type = mem.inodes[job.inum].type,
         \A j \in Inodes \ {job.inum}, a \in Ptrs : mem.inodes[j].direct[a] # b
  PROVE  NamesKept'
<1>1. /\ pc = "write" /\ Chunk(job.text, job.ret, k) \in Block
  BY InTheLoop
<1>2. disk \in Image /\ mem \in Metadata /\ mem.inodeBitmap \in SUBSET Inodes
  BY DEF Kept, Contents, TypeOK, Metadata
<1>3. /\ disk'.blocks \in [DataBlocks -> Block] /\ disk'.inodes = disk.inodes
      /\ \A c \in DataBlocks : c # b => disk'.blocks[c] = disk.blocks[c]
  <2> DEFINE ch == Chunk(job.text, job.ret, k)
  <2>1. disk' = [disk EXCEPT !.blocks[b] = ch] /\ ch \in Block
    BY <1>1 DEF PutChunk
  <2> HIDE DEF ch
  <2> QED
    BY <1>2, <2>1 DEF Image
<1>4. /\ mem.inodes[job.inum].type = RegularFile
      /\ disk.inodes[job.inum].type = RegularFile /\ pending = <<>>
  BY <1>1 DEF NamesKept, CallKnows
<1>5. Tree(After(mem, disk.blocks))
  BY <1>2, <1>4, NothingPending DEF NamesKept, Image
<1>6. Tree(After(mem', disk'.blocks))
  <2> DEFINE d == After(mem, disk.blocks)
             e == After(mem', disk'.blocks)
  <2>1. /\ d.inodeBitmap = mem.inodeBitmap /\ d.inodes = mem.inodes /\ d.blocks = disk.blocks
        /\ e.inodeBitmap = mem'.inodeBitmap /\ e.inodes = mem'.inodes /\ e.blocks = disk'.blocks
        /\ Tree(d)
    BY <1>5 DEF After
  <2> HIDE DEF d, e
  <2>2. \A j \in Inodes : j # job.inum => e.inodes[j] = d.inodes[j]
    BY <2>1
  <2>3. \A j \in Inodes : j # job.inum =>
            \A a \in Ptrs : d.inodes[j].direct[a] \in DataBlocks =>
               e.blocks[d.inodes[j].direct[a]] = d.blocks[d.inodes[j].direct[a]]
    BY <1>3, <2>1
  <2>4. /\ d.inodeBitmap \in SUBSET Inodes /\ e.inodeBitmap = d.inodeBitmap
        /\ d.inodes[job.inum].type = RegularFile /\ e.inodes[job.inum].type = RegularFile
    BY <1>2, <1>4, <2>1
  <2>5. Tree(d)
    BY <2>1
  <2>6. Tree(e)
    BY ONLY <2>2, <2>3, <2>4, <2>5, FileChanges
  <2> QED
    BY <2>6 DEF e
<1>7. Reported(disk.blocks)'
  BY <1>1 DEF Reported
<1>8. TreeToCome'
  <2>1. Ends(disk'.blocks, pending', disk'.blocks)
    BY <1>3, <1>4, NoWrite
  <2> QED
    BY <1>3, <1>6, <1>7, <2>1 DEF TreeToCome
<1>9. CallKnows'
  BY <1>1, <1>3, <1>4 DEF CallKnows
<1> QED
  BY <1>8, <1>9 DEF NamesKept

\* The steps of the loop of write(): a block the file has,
LEMMA WriteReuseNames == Kept /\ NamesKept /\ WriteReuse => NamesKept'
<1> SUFFICES ASSUME Kept, NamesKept, WriteReuse PROVE NamesKept'
  OBVIOUS
<1> DEFINE b == mem.inodes[job.inum].direct[k]
<1>1. /\ InLoop /\ b \in DataBlocks /\ PutChunk(b)
      /\ UNCHANGED <<pc, job, pending, mem>>
  BY DEF WriteReuse
<1>2. job.inum \in Inodes /\ k \in Ptrs
  BY <1>1, InTheLoop
<1>3. mem \in Metadata /\ Unshared(mem.inodes)
  BY DEF Kept, Ownership, Structure, Owners
<1>4. \A j \in Inodes \ {job.inum}, a \in Ptrs : mem.inodes[j].direct[a] # b
  BY <1>1, <1>2, <1>3 DEF Unshared
<1> QED
  BY <1>1, <1>4, ChunkNames

\* a block the file is given,
LEMMA WriteAllocateNames == Kept /\ NamesKept /\ WriteAllocate => NamesKept'
<1> SUFFICES ASSUME Kept, NamesKept, WriteAllocate PROVE NamesKept'
  OBVIOUS
<1> DEFINE b == Least(DataBlocks \ mem.dataBitmap)
<1>1. /\ InLoop /\ PutChunk(b) /\ mem' = WithChunk(mem, job.inum, k, b)
      /\ mem.dataBitmap # DataBlocks /\ UNCHANGED <<pc, job, pending>>
  BY DEF WriteAllocate, WithChunk
<1>2. job.inum \in Inodes /\ k \in Ptrs
  BY <1>1, InTheLoop
<1>3. mem \in Metadata /\ Marked(mem.inodes, mem.dataBitmap)
  BY DEF Kept, Ownership, Structure, Owners
<1>4. b \in DataBlocks /\ b \notin mem.dataBitmap
  <2>1. DataBlocks \ mem.dataBitmap \in SUBSET Nat
    BY Layout
  <2>2. DataBlocks \ mem.dataBitmap # {}
    BY <1>1, <1>3 DEF Metadata
  <2> QED
    BY <2>1, <2>2, LeastIsMinimum
<1> HIDE DEF b
<1>5. /\ mem'.inodeBitmap = mem.inodeBitmap
      /\ mem'.inodes = [mem.inodes EXCEPT ![job.inum].direct[k] = b]
  BY <1>1, <1>3 DEF WithChunk, Metadata
<1>6. /\ \A j \in Inodes \ {job.inum} : mem'.inodes[j] = mem.inodes[j]
      /\ mem'.inodes[job.inum] = [mem.inodes[job.inum] EXCEPT !.direct[k] = b]
      /\ mem.inodes[job.inum] \in Inode
  BY <1>2, <1>3, <1>5 DEF Metadata
<1>7. mem'.inodes[job.inum].type = mem.inodes[job.inum].type
  BY <1>6 DEF Inode
<1>8. \A j \in Inodes \ {job.inum}, a \in Ptrs : mem.inodes[j].direct[a] # b
  BY <1>3, <1>4 DEF Marked
<1> QED
  BY <1>1, <1>4, <1>5, <1>6, <1>7, <1>8, ChunkNames

\* write() gives up: the image has the inodes it had and other blocks of the file.
LEMMA WriteStops ==
  ASSUME Kept, NamesKept, pc = "write", disk' = disk, Return(disk')
  PROVE  NamesKept'
<1>1. /\ disk \in Image /\ mem \in Metadata /\ mem.inodeBitmap \in SUBSET Inodes
      /\ disk.inodeBitmap = mem.inodeBitmap
  BY DEF Kept, Contents, TypeOK, FilesApart, Metadata
<1>2. job.op = "write"
  BY DEF Kept, Ownership, Control
<1>3. /\ mem.inodes[job.inum].type = RegularFile
      /\ disk.inodes[job.inum].type = RegularFile /\ pending = <<>>
  BY DEF NamesKept, CallKnows
<1>4. \A j \in Inodes : j # job.inum => mem.inodes[j] = disk.inodes[j]
  BY <1>2 DEF Kept, Ownership, Control
<1>5. Tree(After(mem, disk.blocks))
  BY <1>1, <1>3, NothingPending DEF NamesKept, Image
<1> DEFINE d == After(mem, disk.blocks)
<1>6. /\ d.inodeBitmap = mem.inodeBitmap /\ d.inodes = mem.inodes /\ d.blocks = disk.blocks
      /\ Tree(d)
  BY <1>5 DEF After
<1> HIDE DEF d
<1>7. Tree(disk)
  BY <1>1, <1>3, <1>4, <1>6, FileChanges
<1> QED
  BY <1>1, <1>7, ReturnNames

\* no block left,
LEMMA WriteFailsNames == Kept /\ NamesKept /\ WriteFails => NamesKept'
<1> SUFFICES ASSUME Kept, NamesKept, WriteFails PROVE NamesKept'
  OBVIOUS
<1>1. disk' = disk /\ Return(disk') /\ pc = "write"
  BY DEF WriteFails, Return, InLoop
<1> QED
  BY <1>1, WriteStops

\* and the end of the loop.
LEMMA WriteTrimNames == Kept /\ NamesKept /\ WriteTrim => NamesKept'
<1> SUFFICES ASSUME Kept, NamesKept, WriteTrim PROVE NamesKept'
  OBVIOUS
<1> DEFINE i    == job.inum
           ino  == mem.inodes[i]
           drop == {a \in Held(ino, BlocksFor(ino.size)) : a >= BlocksFor(job.ret)}
           ptrs == [a \in Ptrs |-> IF a \in drop THEN NoBlock ELSE ino.direct[a]]
           new  == Changed(ino, job.ret, ptrs)
<1>1. pc = "write" /\ disk' = disk
  BY DEF WriteTrim
<1>2. CASE Return(disk)
  <2>1. Return(disk')
    BY <1>1, <1>2 DEF Return
  <2> QED
    BY <1>1, <2>1, WriteStops
<1>3. CASE /\ pc' = "dataBitmap" /\ job' = job /\ pending' = pending
           /\ mem' = Trimmed(mem, i, job.ret, drop)
  <2>1. /\ disk \in Image /\ mem \in Metadata /\ mem.inodeBitmap \in SUBSET Inodes
        /\ i \in Inodes /\ job.op = "write" /\ job.ret \in Int
        /\ disk.blocks \in [DataBlocks -> Block]
    BY <1>1 DEF Kept, Ownership, Control, Contents, TypeOK, Metadata, Image
  <2>2. /\ mem.inodes[i].type = RegularFile /\ pending = <<>>
    BY <1>1 DEF NamesKept, CallKnows
  <2>3. /\ mem'.inodeBitmap = mem.inodeBitmap /\ mem'.inodes[i] = new
        /\ \A j \in Inodes \ {i} : mem'.inodes[j] = mem.inodes[j]
    <3>1. /\ mem'.inodeBitmap = mem.inodeBitmap
          /\ mem'.inodes = [mem.inodes EXCEPT ![i] = new]
      BY <1>3, <2>1 DEF Trimmed, Changed, Metadata
    <3> HIDE DEF new
    <3> QED
      BY <2>1, <3>1 DEF Metadata
  <2>4. mem'.inodes[i].type = RegularFile
    <3>1. ino \in Inode /\ ino.type = RegularFile
      BY <2>1, <2>2 DEF Metadata
    <3> HIDE DEF ino, ptrs
    <3>2. new.type = RegularFile
      BY <3>1 DEF Changed, Inode
    <3> QED
      BY <2>3, <3>2
  <2> HIDE DEF new
  <2>5. Tree(After(mem, disk.blocks))
    BY <2>1, <2>2, NothingPending DEF NamesKept
  <2>6. Tree(After(mem', disk.blocks))
    <3> DEFINE d == After(mem, disk.blocks)
               e == After(mem', disk.blocks)
    <3>1. /\ d.inodeBitmap = mem.inodeBitmap /\ d.inodes = mem.inodes /\ d.blocks = disk.blocks
          /\ e.inodeBitmap = mem'.inodeBitmap /\ e.inodes = mem'.inodes /\ e.blocks = disk.blocks
          /\ Tree(d)
      BY <2>5 DEF After
    <3> HIDE DEF d, e, ino
    <3>2. Tree(e)
      BY <2>1, <2>2, <2>3, <2>4, <3>1, FileChanges
    <3> QED
      BY <3>2 DEF e
  <2>7. Reported(disk.blocks)'
    BY <1>3, <2>1 DEF Reported
  <2>8. TreeToCome'
    <3>1. Ends(disk'.blocks, pending', disk'.blocks)
      BY <1>1, <1>3, <2>1, <2>2, NoWrite
    <3> QED
      BY <1>1, <2>1, <2>6, <2>7, <3>1 DEF TreeToCome
  <2>9. CallKnows'
    BY <1>3, <2>1, <2>2 DEF CallKnows
  <2> QED
    BY <2>8, <2>9 DEF NamesKept
<1> QED
  BY <1>2, <1>3 DEF WriteTrim, Trimmed

\* One of the writes is done: the others end in the same blocks.
LEMMA OneFlushed ==
  ASSUME NEW blocks \in [DataBlocks -> Block], NEW writes \in Writes, writes # <<>>,
         NEW B, Ends(blocks, writes, B)
  PROVE  Ends([blocks EXCEPT ![Head(writes).addr] = Head(writes).cells], Tail(writes), B)
<1> DEFINE T == [addr : DataBlocks, cells : Block]
<1>1. writes \in Seq(T)
  BY DEF Writes
<1> DEFINE h    == Head(writes)
           rest == Tail(writes)
           new  == [blocks EXCEPT ![h.addr] = h.cells]
<1> HIDE DEF T
<1>2. /\ Len(writes) \in Nat /\ Len(writes) >= 1 /\ h = writes[1]
      /\ Len(rest) = Len(writes) - 1
      /\ \A j \in 1 .. Len(rest) : rest[j] = writes[j + 1]
  BY <1>1
<1> HIDE DEF h, rest
<1>3. /\ \A j \in 1 .. Len(writes) : B[writes[j].addr] = writes[j].cells
      /\ \A b \in DataBlocks :
           (\A j \in 1 .. Len(writes) : writes[j].addr # b) => B[b] = blocks[b]
  BY DEF Ends
<1>4. \A j \in 1 .. Len(rest) : j + 1 \in 1 .. Len(writes)
  BY <1>2
<1>5. \A j \in 1 .. Len(rest) : B[rest[j].addr] = rest[j].cells
  BY <1>2, <1>3, <1>4
<1>6. ASSUME NEW b \in DataBlocks, \A j \in 1 .. Len(rest) : rest[j].addr # b
      PROVE  B[b] = new[b]
  <2>1. CASE b = h.addr
    <3>1. 1 \in 1 .. Len(writes)
      BY <1>2
    <3>2. B[b] = h.cells
      BY <1>2, <1>3, <2>1, <3>1
    <3> QED
      BY <2>1, <3>2
  <2>2. CASE b # h.addr
    <3>1. \A j \in 1 .. Len(writes) : writes[j].addr # b
      <4>1. SUFFICES ASSUME NEW j \in 1 .. Len(writes) PROVE writes[j].addr # b
        OBVIOUS
      <4>2. CASE j = 1
        BY <1>2, <2>2, <4>2
      <4>3. CASE j # 1
        <5>1. j - 1 \in 1 .. Len(rest) /\ (j - 1) + 1 = j
          BY <1>2, <4>3
        <5>2. rest[j - 1] = writes[j]
          BY <1>2, <5>1
        <5> QED
          BY <1>6, <5>1, <5>2
      <4> QED
        BY <4>2, <4>3
    <3> QED
      BY <1>3, <2>2, <3>1
  <2> QED
    BY <2>1, <2>2
<1>7. Ends(new, rest, B)
  BY <1>5, <1>6 DEF Ends
<1> QED
  BY <1>7 DEF new, h, rest

\* The writes of a call: the blocks of directories,
LEMMA FlushBlockNames == Kept /\ NamesKept /\ FlushBlock => NamesKept'
<1> SUFFICES ASSUME Kept, NamesKept, FlushBlock PROVE NamesKept'
  OBVIOUS
<1> DEFINE h == Head(pending)
<1>1. /\ pc = "blocks" /\ job.op # "write" /\ disk \in Image
      /\ pending # <<>> /\ pending \in Seq(Safe(disk))
  BY DEF FlushBlock, Kept, Ownership, Control, Contents, TypeOK, FilesApart, Safe
<1>2. pending \in Writes
  BY <1>1, SafeWrites DEF Writes
<1>3. h.addr \in DataBlocks /\ h.cells \in Block
  <2>1. h \in Safe(disk)
    BY <1>1
  <2> HIDE DEF h
  <2> QED
    BY <2>1 DEF Safe, Harmless
<1>4. /\ disk'.inodes = disk.inodes /\ disk'.inodeBitmap = disk.inodeBitmap
      /\ disk'.dataBitmap = disk.dataBitmap
      /\ disk'.blocks = [disk.blocks EXCEPT ![h.addr] = h.cells]
      /\ disk' \in Image
  <2>1. disk' = [disk EXCEPT !.blocks[h.addr] = h.cells]
    BY DEF FlushBlock
  <2> HIDE DEF h
  <2> QED
    BY <1>1, <1>3, <2>1 DEF Image
<1>5. PICK B \in [DataBlocks -> Block] :
             Ends(disk.blocks, pending, B) /\ Tree(After(mem, B)) /\ Reported(B)
  BY DEF NamesKept, TreeToCome
<1>6. Ends(disk'.blocks, Tail(pending), B)
  <2>1. disk.blocks \in [DataBlocks -> Block]
    BY <1>1 DEF Image
  <2> QED
    BY <1>1, <1>2, <1>4, <1>5, <2>1, OneFlushed
<1> HIDE DEF h
<1>7. CASE Tail(pending) = <<>> /\ job.ret < 0 /\ Return(disk')
  <2>1. mem = Meta(disk)
    BY <1>1, <1>7 DEF NamesKept, CallKnows
  <2>2. B = disk'.blocks
    <3> DEFINE rest == Tail(pending)
    <3>1. rest = <<>> /\ Ends(disk'.blocks, rest, B)
      BY <1>6, <1>7
    <3> HIDE DEF rest
    <3>2. \A b \in DataBlocks : B[b] = disk'.blocks[b]
      <4>1. Len(rest) = 0
        BY <3>1
      <4> QED
        BY <3>1, <4>1 DEF Ends
    <3>3. disk'.blocks \in [DataBlocks -> Block]
      BY <1>4 DEF Image
    <3> QED
      BY <1>5, <3>2, <3>3
  <2> DEFINE d == After(mem, B)
  <2>3. /\ disk'.inodeBitmap = d.inodeBitmap /\ disk'.inodes = d.inodes /\ disk'.blocks = d.blocks
        /\ Tree(d)
    BY <1>4, <1>5, <2>1, <2>2 DEF After, Meta
  <2> HIDE DEF d
  <2>4. Tree(disk')
    BY <2>3, SameTree
  <2> QED
    BY <1>4, <1>7, <2>4, ReturnNames
<1>8. CASE /\ ~(Tail(pending) = <<>> /\ job.ret < 0)
           /\ pending' = Tail(pending)
           /\ pc' = (IF Tail(pending) = <<>> THEN "inodeBitmap" ELSE "blocks")
           /\ UNCHANGED <<job, mem, k>>
  <2>1. Reported(B)'
    BY <1>1, <1>5, <1>8 DEF Reported
  <2>2. TreeToCome'
    BY <1>5, <1>6, <1>8, <2>1 DEF TreeToCome
  <2>3. Meta(disk') = Meta(disk)
    BY <1>4 DEF Meta
  <2>4. job.ret \in Int
    BY <1>1 DEF Kept, Ownership, Control, Contents, TypeOK, Jobs, NoJob
  <2>5. CallKnows'
    BY <1>1, <1>8, <2>3, <2>4 DEF NamesKept, CallKnows
  <2> QED
    BY <2>2, <2>5 DEF NamesKept
<1> QED
  BY <1>7, <1>8 DEF FlushBlock

\* A write of metadata: the blocks, and what the call knows, are the same.
LEMMA MetadataNames ==
  ASSUME NamesKept, pc \in {"inodeBitmap", "dataBitmap", "region"},
         pc' \in {"dataBitmap", "region"}, disk'.blocks = disk.blocks,
         UNCHANGED <<job, pending, mem>>, job.op = "write" \/ job.ret >= 0
  PROVE  NamesKept'
<1>1. \A B : Reported(B) => Reported(B)'
  BY DEF Reported
<1>2. TreeToCome'
  BY <1>1 DEF NamesKept, TreeToCome
<1>3. CallKnows'
  BY DEF NamesKept, CallKnows
<1> QED
  BY <1>2, <1>3 DEF NamesKept

\* the bitmaps,
LEMMA FlushBitmapsNames ==
  Kept /\ NamesKept /\ (FlushInodeBitmap \/ FlushDataBitmap) => NamesKept'
<1> SUFFICES ASSUME Kept, NamesKept, FlushInodeBitmap \/ FlushDataBitmap PROVE NamesKept'
  OBVIOUS
<1>1. disk \in Image
  BY DEF Kept, Contents, TypeOK
<1>2. job.op = "write" \/ job.ret >= 0
  BY DEF FlushInodeBitmap, FlushDataBitmap, NamesKept, CallKnows
<1>3. CASE FlushInodeBitmap
  <2>1. disk'.blocks = disk.blocks
    BY <1>1, <1>3 DEF FlushInodeBitmap, Image
  <2>2. pc = "inodeBitmap" /\ pc' = "dataBitmap" /\ UNCHANGED <<job, pending, mem>>
    BY <1>3 DEF FlushInodeBitmap
  <2> QED
    BY <1>2, <2>1, <2>2, MetadataNames
<1>4. CASE FlushDataBitmap
  <2>1. mem' = mem
    BY <1>4, FlushDataBitmapMem DEF Kept
  <2>2. disk'.blocks = disk.blocks
    BY <1>1, <1>4 DEF FlushDataBitmap, Image
  <2>3. pc = "dataBitmap" /\ pc' = "region" /\ UNCHANGED <<job, pending>>
    BY <1>4 DEF FlushDataBitmap
  <2> QED
    BY <1>2, <2>1, <2>2, <2>3, MetadataNames
<1> QED
  BY <1>3, <1>4

\* The last block of the inode region makes the disk what is in memory.
LEMMA RegionDone ==
  ASSUME Kept, FlushRegion, k + 1 = InodeRegionLen
  PROVE  /\ disk' \in Image /\ disk'.inodeBitmap = mem.inodeBitmap
         /\ disk'.inodes = mem.inodes /\ disk'.blocks = disk.blocks
<1>1. /\ pc = "region" /\ disk \in Image /\ mem \in Metadata
      /\ k \in 0 .. InodeRegionLen - 1 /\ disk.inodeBitmap = mem.inodeBitmap
      /\ \A i \in Inodes : i \div InodesPerBlock < k => disk.inodes[i] = mem.inodes[i]
  BY DEF FlushRegion, Kept, Ownership, Control, Contents, TypeOK, FilesApart
<1> DEFINE new(i) == i \div InodesPerBlock = k
           inodes == [i \in Inodes |-> IF new(i) THEN mem.inodes[i] ELSE disk.inodes[i]]
<1>2. disk' = [disk EXCEPT !.inodes = inodes]
  BY DEF FlushRegion
<1>3. inodes \in [Inodes -> Inode] /\ mem.inodes \in [Inodes -> Inode]
  BY <1>1 DEF Image, Metadata
<1>4. \A i \in Inodes : inodes[i] = mem.inodes[i]
  <2>1. SUFFICES ASSUME NEW i \in Inodes, ~new(i) PROVE disk.inodes[i] = mem.inodes[i]
    OBVIOUS
  <2>2. i \div InodesPerBlock \in Nat /\ i \div InodesPerBlock < InodeRegionLen
    BY Layout
  <2>3. i \div InodesPerBlock < k
    BY <1>1, <2>1, <2>2, Layout DEF new
  <2> QED
    BY <1>1, <2>3
<1> HIDE DEF inodes
<1>5. inodes = mem.inodes
  BY <1>3, <1>4
<1> QED
  BY <1>1, <1>2, <1>3, <1>5 DEF Image

\* and the inode region.
LEMMA FlushRegionNames == Kept /\ NamesKept /\ FlushRegion => NamesKept'
<1> SUFFICES ASSUME Kept, NamesKept, FlushRegion PROVE NamesKept'
  OBVIOUS
<1>1. pc = "region" /\ disk \in Image /\ pending = <<>>
  BY DEF FlushRegion, Kept, Contents, TypeOK, NamesKept, CallKnows
<1>2. CASE k + 1 = InodeRegionLen
  <2>1. /\ disk' \in Image /\ disk'.inodeBitmap = mem.inodeBitmap
        /\ disk'.inodes = mem.inodes /\ disk'.blocks = disk.blocks
    BY <1>2, RegionDone
  <2>2. Tree(After(mem, disk.blocks))
    BY <1>1, NothingPending DEF NamesKept, Image
  <2> DEFINE d == After(mem, disk.blocks)
  <2>3. /\ d.inodeBitmap = mem.inodeBitmap /\ d.inodes = mem.inodes /\ d.blocks = disk.blocks
        /\ Tree(d)
    BY <2>2 DEF After
  <2> HIDE DEF d
  <2>4. Tree(disk')
    BY <2>1, <2>3, SameTree
  <2>5. Return(disk')
    BY <1>2 DEF FlushRegion
  <2> QED
    BY <2>1, <2>4, <2>5, ReturnNames
<1>3. CASE k + 1 # InodeRegionLen
  <2>1. UNCHANGED <<pc, job, pending, mem>>
    BY <1>3 DEF FlushRegion
  <2>2. disk'.blocks = disk.blocks
    BY <1>1 DEF FlushRegion, Image
  <2>3. job.op = "write" \/ job.ret >= 0
    BY <1>1 DEF NamesKept, CallKnows
  <2> QED
    BY <1>1, <2>1, <2>2, <2>3, MetadataNames
<1> QED
  BY <1>2, <1>3

\* The invariant is inductive.
LEMMA NextNames ==
  ASSUME Asan, Kept, NamesKept, [Calls]_vars, NoGap' \/ DirectPtrs <= 2
  PROVE  NamesKept'
<1>1. CASE \E p \in AnyInode, type \in {Directory, RegularFile}, n \in AnyName : Create(p, type, n)
  BY <1>1, CreateNames
<1>2. CASE \E p \in AnyInode, n \in AnyName : Unlink(p, n)
  BY <1>2, UnlinkNames
<1>3. CASE \E i \in AnyInode, text \in FileCells, size \in Sizes : Write(i, text, size)
  BY <1>3, WriteNames, LFSAssumption
<1>4. CASE WriteSteps
  BY <1>4, WriteReuseNames, WriteAllocateNames, WriteFailsNames, WriteTrimNames DEF WriteSteps
<1>5. CASE Flush
  BY <1>5, FlushBlockNames, FlushBitmapsNames, FlushRegionNames DEF Flush
<1>6. CASE UNCHANGED vars
  BY <1>6, SameNames
<1> QED
  BY <1>1, <1>2, <1>3, <1>4, <1>5, <1>6 DEF Calls

(***************************************************************************)
(* What readers of the image see, and what the calls have promised.        *)
(***************************************************************************)

\* What a directory shows is in its row.
LEMMA ShownIsNamed ==
  ASSUME NEW d, Tree(d), NEW p \in Directories(d), NEW pos \in Shown(d, p)
  PROVE  pos \in NamedIn(RowOf(d, p)) /\ CellAt(d, d.inodes[p], pos) = RowOf(d, p)[pos]
<1> DEFINE ino  == d.inodes[p]
           n    == BlocksFor(ino.size)
           held == Held(ino, n)
           cell == CellAt(d, ino, pos)
<1>1. /\ Filled(d, p) /\ DirRow(p, RowOf(d, p))
  BY DEF Tree, Forest, RowsOf
<1>2. /\ pos \in PositionsIn({i \in held : ino.direct[i] \in DataBlocks})
      /\ cell.inum # -1 /\ cell.name # NoName /\ cell.name # "." /\ cell.name # ".."
  BY Zenon DEF Shown, NoName
<1>3. n \in Nat /\ held = 0 .. n - 1 /\ PositionsIn(held) = 0 .. n * EntriesPerBlock - 1
  BY <1>1, BlocksOfDirectory
<1>4. ino.size \in Nat /\ ino.size <= n * EntriesPerBlock /\ n * EntriesPerBlock \in Nat
  BY <1>1, BlocksOfSize DEF Filled
<1>5. \A e \in ino.size .. n * EntriesPerBlock - 1 : CellAt(d, ino, e).inum = -1
  BY <1>1 DEF Filled
<1>6. pos \in PositionsIn(held)
  BY <1>2 DEF PositionsIn
<1> DEFINE row == RowOf(d, p)
<1>7. DOMAIN row = 0 .. ino.size - 1 /\ \A e \in 0 .. ino.size - 1 : row[e] = CellAt(d, ino, e)
  BY DEF RowOf
<1> HIDE DEF ino, n, held, row
<1>8. pos \in 0 .. ino.size - 1
  BY <1>2, <1>3, <1>4, <1>5, <1>6
<1>9. row[pos] = cell
  BY <1>7, <1>8
<1>10. row[pos].name \in Names
  <2>1. DirRow(p, row)
    BY <1>1 DEF row
  <2>2. row[0].name = "." /\ row[1].name = ".."
    BY <2>1, EntryFields DEF DirRow
  <2>3. pos \notin {0, 1}
    BY <1>2, <1>9, <2>2
  <2> QED
    BY <1>2, <1>7, <1>8, <1>9, <2>1, <2>3 DEF DirRow
<1> QED
  BY <1>7, <1>8, <1>9, <1>10 DEF NamedIn, row, ino

\* A name of a directory is found, and it leads to its inode.
LEMMA NamedIsFound ==
  ASSUME NEW d, d.inodeBitmap \in SUBSET Inodes, Tree(d), NEW p, NEW n, NEW i, Named(d, p, n, i)
  PROVE  Lookup(d, p, n) = i
<1> DEFINE ino  == d.inodes[p]
           nb   == BlocksFor(ino.size)
           row  == RowOf(d, p)
           ks   == {x \in Held(ino, nb) : ino.direct[x] # Unset}
           hits == {pos \in PositionsIn(ks) :
                      CellAt(d, ino, pos).inum # 0 /\ CellAt(d, ino, pos).name = n}
<1>1. /\ p \in Directories(d) /\ p \in Inodes /\ ino.type = Directory
      /\ \E e \in NamedIn(row) : row[e] = Entry(n, i)
  BY DEF Named, Directories
<1>2. PICK e \in NamedIn(row) : row[e] = Entry(n, i)
  BY <1>1
<1>3. /\ Filled(d, p) /\ DirRow(p, row) /\ Leads(d.inodeBitmap, RowsOf(d), p, e)
      /\ RowsOf(d)[p] = row
  <2>1. p \in DOMAIN RowsOf(d) /\ RowsOf(d)[p] = row
    BY <1>1 DEF RowsOf
  <2> HIDE DEF row
  <2> QED
    BY <1>1, <1>2, <2>1 DEF Tree, Forest
<1>4. row[e].name = n /\ row[e].inum = i /\ i # 0 /\ n \in Names
  BY <1>2, <1>3, EntryFields DEF Leads, Root, NamedIn
<1>5. /\ nb \in Nat /\ Held(ino, nb) = 0 .. nb - 1
      /\ \A a \in 0 .. nb - 1 : ino.direct[a] \in DataBlocks
  BY <1>3, BlocksOfDirectory DEF Filled
<1>6. ks = 0 .. nb - 1
  BY <1>5, Layout
<1>7. PositionsIn(ks) = 0 .. nb * EntriesPerBlock - 1
  BY <1>5, <1>6, AllPositions
<1>8. ino.size \in Nat /\ ino.size <= nb * EntriesPerBlock /\ nb * EntriesPerBlock \in Nat
  BY <1>3, BlocksOfSize DEF Filled
<1>9. DOMAIN row = 0 .. ino.size - 1 /\ \A x \in 0 .. ino.size - 1 : row[x] = CellAt(d, ino, x)
  BY DEF RowOf
<1> HIDE DEF ino, nb, row, ks
<1>10. e \in 0 .. ino.size - 1
  BY <1>9 DEF NamedIn
<1>11. e \in hits
  BY <1>4, <1>7, <1>8, <1>9, <1>10
<1>12. ASSUME NEW h \in hits
       PROVE  h \in Nat /\ e <= h
  <2>1. h \in 0 .. nb * EntriesPerBlock - 1 /\ CellAt(d, ino, h).name = n
    BY <1>7
  <2>2. CASE h < ino.size
    <3>1. h \in 0 .. ino.size - 1
      BY <1>8, <2>1, <2>2
    <3>2. h \in NamedIn(row) /\ row[h].name = row[e].name
      BY <1>4, <1>9, <2>1, <3>1 DEF NamedIn
    <3>3. h = e
      BY <1>3, <1>2, <3>2 DEF DirRow
    <3> QED
      BY <1>10, <2>1, <3>3
  <2>3. CASE ~(h < ino.size)
    BY <1>8, <1>10, <2>1, <2>3
  <2> QED
    BY <2>2, <2>3
<1> HIDE DEF hits
<1>13. Least(hits) = e
  <2>1. hits \in SUBSET Nat /\ hits # {}
    BY <1>11, <1>12
  <2>2. Least(hits) \in hits /\ \A y \in hits : Least(hits) <= y
    BY <2>1, LeastIsMinimum
  <2>3. Least(hits) <= e /\ e <= Least(hits) /\ e \in Nat /\ Least(hits) \in Nat
    BY <1>11, <1>12, <2>1, <2>2
  <2> QED
    BY <2>3
<1>14. Lookup(d, p, n) = CellAt(d, ino, Least(hits)).inum
  <2>1. ~StatFails(p) /\ hits # {} /\ ino.type = Directory
    BY <1>1, <1>11 DEF StatFails, ino
  <2> QED
    BY <2>1 DEF Lookup, hits, ks, nb, ino
<1> QED
  BY <1>4, <1>9, <1>10, <1>13, <1>14

\* A name that a directory does not have is not found.
LEMMA WithoutIsNotFound ==
  ASSUME NEW d, d.inodeBitmap \in SUBSET Inodes, Tree(d), NEW p, NEW n \in Names, Without(d, p, n)
  PROVE  Lookup(d, p, n) < 0
<1> DEFINE ino  == d.inodes[p]
           nb   == BlocksFor(ino.size)
           row  == RowOf(d, p)
           ks   == {x \in Held(ino, nb) : ino.direct[x] # Unset}
           hits == {pos \in PositionsIn(ks) :
                      CellAt(d, ino, pos).inum # 0 /\ CellAt(d, ino, pos).name = n}
<1>1. p \in Directories(d) /\ p \in Inodes /\ ino.type = Directory /\ NameFree(row, n)
  BY DEF Without, Directories
<1>2. Filled(d, p)
  BY <1>1 DEF Tree
<1>3. /\ nb \in Nat /\ Held(ino, nb) = 0 .. nb - 1
      /\ \A a \in 0 .. nb - 1 : ino.direct[a] \in DataBlocks
  BY <1>2, BlocksOfDirectory DEF Filled
<1>4. ks = 0 .. nb - 1
  BY <1>3, Layout
<1>5. PositionsIn(ks) = 0 .. nb * EntriesPerBlock - 1
  BY <1>3, <1>4, AllPositions
<1>6. /\ ino.size \in Nat /\ ino.size <= nb * EntriesPerBlock /\ nb * EntriesPerBlock \in Nat
      /\ \A pos \in ino.size .. nb * EntriesPerBlock - 1 : CellAt(d, ino, pos).inum = -1
  BY <1>2, BlocksOfSize DEF Filled
<1>7. DOMAIN row = 0 .. ino.size - 1 /\ \A x \in 0 .. ino.size - 1 : row[x] = CellAt(d, ino, x)
  BY DEF RowOf
<1>8. ~StatFails(p) /\ Lookup(d, p, n) = IF hits = {} THEN -ENOTFOUND
                                         ELSE CellAt(d, ino, Least(hits)).inum
  BY <1>1 DEF StatFails, Lookup
<1> HIDE DEF ino, nb, row, ks
<1>9. ASSUME NEW h \in hits
      PROVE  h \in Nat /\ CellAt(d, ino, h).inum = -1
  <2>1. h \in 0 .. nb * EntriesPerBlock - 1 /\ CellAt(d, ino, h).name = n
    BY <1>5
  <2>2. CASE h < ino.size
    <3>1. h \in 0 .. ino.size - 1
      BY <1>6, <2>1, <2>2
    <3>2. h \in NamedIn(row) /\ row[h].name = n
      BY <1>7, <2>1, <3>1 DEF NamedIn
    <3> QED
      BY <1>1, <3>2 DEF NameFree
  <2>3. CASE ~(h < ino.size)
    BY <1>6, <2>1, <2>3
  <2> QED
    BY <2>2, <2>3
<1> HIDE DEF hits
<1>10. CASE hits = {}
  BY <1>8, <1>10 DEF ENOTFOUND
<1>11. CASE hits # {}
  <2>1. hits \in SUBSET Nat
    BY <1>9
  <2>2. Least(hits) \in hits
    BY <1>11, <2>1, LeastIsMinimum
  <2> QED
    BY <1>8, <1>9, <1>11, <2>2
<1> QED
  BY <1>10, <1>11

\* A set without two different members.
LEMMA AtMostOne ==
  ASSUME NEW L, \A l, m \in L : l = m
  PROVE  Cardinality(L) <= 1
<1>1. CASE L = {}
  <2>1. Cardinality(L) = 0
    BY <1>1, FS_EmptySet, Zenon
  <2> QED
    BY <2>1
<1>2. CASE L # {}
  <2>1. PICK l : L = {l}
    BY <1>2
  <2>2. Cardinality(L) = 1
    BY <2>1, FS_Singleton, Zenon
  <2> QED
    BY <2>2
<1> QED
  BY <1>1, <1>2

\* An image with a tree has the shape the property asks for.
LEMMA TreeIsShown ==
  ASSUME Tree(disk), disk.inodeBitmap \in SUBSET Inodes
  PROVE  TreeShape
<1> DEFINE rows == RowsOf(disk)
<1>1. /\ Forest(disk.inodeBitmap, rows)
      /\ DOMAIN rows = Directories(disk)
      /\ \A p \in Directories(disk) : rows[p] = RowOf(disk, p)
  BY DEF Tree, RowsOf
<1> HIDE DEF rows
<1>2. ASSUME NEW p \in Directories(disk), NEW pos \in Shown(disk, p)
      PROVE  /\ pos \in NamedIn(rows[p]) /\ CellAt(disk, disk.inodes[p], pos) = rows[p][pos]
             /\ Leads(disk.inodeBitmap, rows, p, pos)
  <2>1. pos \in NamedIn(rows[p]) /\ CellAt(disk, disk.inodes[p], pos) = rows[p][pos]
    BY <1>1, ShownIsNamed
  <2> QED
    BY <1>1, <2>1 DEF Forest
<1>3. \A p \in Directories(disk) : \A pos \in Shown(disk, p) :
         CellAt(disk, disk.inodes[p], pos).inum \in disk.inodeBitmap
  BY <1>2 DEF Leads
<1>4. ASSUME NEW i, NEW l \in Links(disk, i)
      PROVE  /\ l = <<l[1], l[2]>> /\ l[1] \in Directories(disk) /\ l[2] \in Shown(disk, l[1])
             /\ CellAt(disk, disk.inodes[l[1]], l[2]).inum = i
  <2>1. /\ l \in UNION { {p} \X Shown(disk, p) : p \in Directories(disk) }
        /\ CellAt(disk, disk.inodes[l[1]], l[2]).inum = i
    BY DEF Links
  <2>2. PICK p \in Directories(disk) : l \in {p} \X Shown(disk, p)
    BY <2>1
  <2> QED
    BY <2>1, <2>2
<1>5. ASSUME NEW i, NEW l \in Links(disk, i), NEW m \in Links(disk, i)
      PROVE  l = m
  <2>1. /\ l[2] \in NamedIn(rows[l[1]]) /\ rows[l[1]][l[2]].inum = i /\ l[1] \in DOMAIN rows
        /\ m[2] \in NamedIn(rows[m[1]]) /\ rows[m[1]][m[2]].inum = i /\ m[1] \in DOMAIN rows
    BY <1>1, <1>2, <1>4
  <2>2. l[1] = m[1] /\ l[2] = m[2]
    BY <1>1, <2>1 DEF Forest
  <2> QED
    BY <1>4, <2>2
<1>6. ASSUME NEW i
      PROVE  Cardinality(Links(disk, i)) <= 1
  BY <1>5, AtMostOne
<1>7. ASSUME NEW i \in Directories(disk), NEW l \in Links(disk, i)
      PROVE  CellAt(disk, disk.inodes[i], 1) = Entry("..", l[1])
  <2>1. /\ l[2] \in NamedIn(rows[l[1]]) /\ rows[l[1]][l[2]].inum = i
        /\ Leads(disk.inodeBitmap, rows, l[1], l[2])
    BY <1>2, <1>4
  <2>2. rows[i][1] = Entry("..", l[1]) /\ DirRow(i, rows[i]) /\ rows[i] = RowOf(disk, i)
    BY <1>1, <2>1 DEF Leads, Forest
  <2>3. 1 \in DOMAIN RowOf(disk, i)
    BY <2>2 DEF DirRow
  <2>4. RowOf(disk, i)[1] = CellAt(disk, disk.inodes[i], 1)
    BY <2>3 DEF RowOf
  <2> QED
    BY <2>2, <2>4
<1> QED
  BY <1>3, <1>6, <1>7 DEF TreeShape

\* What a call has reported is on the disk when its last block is written.
LEMMA ReportIsKept ==
  ASSUME Kept, NamesKept, FlushRegion, k + 1 = InodeRegionLen,
         job.op \in {"create", "unlink"}
  PROVE  /\ disk' \in Image /\ Tree(disk')
         /\ job.op = "create" => Named(disk', job.inum, job.name, job.ret)
         /\ job.op = "unlink" => job.name \in Names /\ Without(disk', job.inum, job.name)
<1>1. /\ pc = "region" /\ pending = <<>> /\ job.ret >= 0
      /\ disk.blocks \in [DataBlocks -> Block]
  BY DEF FlushRegion, Kept, Contents, TypeOK, Image, NamesKept, CallKnows
<1>2. /\ disk' \in Image /\ disk'.inodeBitmap = mem.inodeBitmap
      /\ disk'.inodes = mem.inodes /\ disk'.blocks = disk.blocks
  BY RegionDone
<1>3. Tree(After(mem, disk.blocks)) /\ Reported(disk.blocks)
  BY <1>1, NothingPending DEF NamesKept
<1> DEFINE d == After(mem, disk.blocks)
<1>4. /\ disk'.inodeBitmap = d.inodeBitmap /\ disk'.inodes = d.inodes /\ disk'.blocks = d.blocks
      /\ Tree(d)
      /\ job.op = "create" => Named(d, job.inum, job.name, job.ret)
      /\ job.op = "unlink" => job.name \in Names /\ Without(d, job.inum, job.name)
  BY <1>1, <1>2, <1>3 DEF After, Reported
<1> HIDE DEF d
<1>5. /\ Tree(disk') /\ RowsOf(disk') = RowsOf(d) /\ Directories(disk') = Directories(d)
  BY <1>4, SameTree
<1>6. \A p \in Directories(d) : RowOf(disk', p) = RowOf(d, p)
  <2>1. \A p \in Directories(d) :
           RowsOf(disk')[p] = RowOf(disk', p) /\ RowsOf(d)[p] = RowOf(d, p)
    BY <1>5 DEF RowsOf
  <2> QED
    BY <1>5, <2>1
<1> QED
  BY <1>2, <1>4, <1>5, <1>6 DEF Named, Without

\* create and unlink return with success when the last inode block is written.
LEMMA ReturnsFlush ==
  ASSUME NEW op, Returns(op), [Calls]_vars, op \in {"create", "unlink"}
  PROVE  FlushRegion /\ k + 1 = InodeRegionLen /\ job.op = op
<1>1. pc = "region" /\ pc' = "idle" /\ k + 1 = InodeRegionLen /\ job.op = op
  BY DEF Returns
<1>2. CASE \E p \in AnyInode, type \in {Directory, RegularFile}, n \in AnyName : Create(p, type, n)
  BY <1>1, <1>2 DEF Create
<1>3. CASE \E p \in AnyInode, n \in AnyName : Unlink(p, n)
  BY <1>1, <1>3 DEF Unlink, UnlinkWith
<1>4. CASE \E i \in AnyInode, text \in FileCells, size \in Sizes : Write(i, text, size)
  BY <1>1, <1>4 DEF Write
<1>5. CASE WriteSteps
  BY <1>1, <1>5 DEF WriteSteps, WriteReuse, WriteAllocate, WriteFails, WriteTrim, InLoop
<1>6. CASE Flush
  BY <1>1, <1>6 DEF Flush, FlushBlock, FlushInodeBitmap, FlushDataBitmap
<1>7. CASE UNCHANGED vars
  BY <1>1, <1>7 DEF vars
<1> QED
  BY <1>1, <1>2, <1>3, <1>4, <1>5, <1>6, <1>7 DEF Calls

\* What create and unlink have reported holds when they return.
LEMMA NextReports ==
  ASSUME Kept, NamesKept, [Calls]_vars
  PROVE  /\ Returns("create") => Lookup(disk', job.inum, job.name) = job.ret
         /\ Returns("unlink") => Lookup(disk', job.inum, job.name) < 0
<1>1. ASSUME Returns("create")
      PROVE  Lookup(disk', job.inum, job.name) = job.ret
  <2>1. FlushRegion /\ k + 1 = InodeRegionLen /\ job.op = "create"
    BY <1>1, ReturnsFlush
  <2>2. disk' \in Image /\ Tree(disk') /\ Named(disk', job.inum, job.name, job.ret)
    BY <2>1, ReportIsKept
  <2> QED
    BY <2>2, NamedIsFound DEF Image
<1>2. ASSUME Returns("unlink")
      PROVE  Lookup(disk', job.inum, job.name) < 0
  <2>1. FlushRegion /\ k + 1 = InodeRegionLen /\ job.op = "unlink"
    BY <1>2, ReturnsFlush
  <2>2. /\ disk' \in Image /\ Tree(disk') /\ job.name \in Names
        /\ Without(disk', job.inum, job.name)
    BY <2>1, ReportIsKept
  <2> QED
    BY <2>2, WithoutIsNotFound DEF Image
<1> QED
  BY <1>1, <1>2

\* The block with the two dots is never emptied.
LEMMA FirstBlockStays ==
  ASSUME NEW d, Tree(d), NEW p \in Directories(d), NEW at \in NamedIn(RowOf(d, p)),
         RowOf(d, p)[at] \in Cell, Emptied(RowOf(d, p), at)
  PROVE  at \div EntriesPerBlock # 0
<1> DEFINE E   == EntriesPerBlock
           row == RowOf(d, p)
<1>1. E \in Nat /\ E > 1
  BY UFSAssumption
<1>2. DirRow(p, row)
  <2>1. RowsOf(d)[p] = row /\ p \in DOMAIN RowsOf(d) /\ Forest(d.inodeBitmap, RowsOf(d))
    BY DEF Tree, RowsOf
  <2> HIDE DEF row
  <2> QED
    BY <2>1 DEF Forest
<1> HIDE DEF row
<1>3. SUFFICES ASSUME at \div E = 0 PROVE FALSE
  OBVIOUS
<1>4. 0 \in CellsOf(at \div E)
  <2>1. CellsOf(at \div E) = 0 * E .. (0 + 1) * E - 1
    BY <1>3 DEF CellsOf
  <2> QED
    BY <1>1, <2>1
<1>5. at \in DOMAIN row /\ row[at] \in Cell /\ row[at].name \in Names
  BY DEF NamedIn, row
<1>6. 0 \in DOMAIN row /\ 0 # at /\ row[0].name = "."
  BY <1>2, <1>5, EntryFields, DotsAreNone DEF DirRow
<1>7. DOMAIN Cleared(row, at) = DOMAIN row /\ Cleared(row, at)[0] = row[0]
  BY <1>5, <1>6, ClearedCells
<1>8. BlockEmpty(Cleared(row, at), at \div E)
  BY DEF row, Emptied
<1>9. row[0].name = NoName
  BY <1>4, <1>6, <1>7, <1>8, EmptyMeansNoName
<1> QED
  BY <1>6, <1>9, NoNameIsNone

\* unlink removes a name only with a write to the directory.
LEMMA RemovingWrites ==
  ASSUME Asan, NEW d, Usable(d), Tree(d), NEW p, NEW n,
         NEW heap \in [HeapRange(d, p) -> HeapCells], NEW lucky,
         NEW plan, plan = UnlinkPlan(d, p, n, heap, lucky), ~IsRefused(plan)
  PROVE  plan.writes # <<>>
<1>1. /\ p \in Directories(d) /\ p \in Inodes /\ n \in Names
      /\ \E at \in NamedIn(RowOf(d, p)), v \in Inodes :
              /\ RowOf(d, p)[at].name = n /\ RowOf(d, p)[at].inum = v
              /\ plan = UnlinkEntry(d, p, v, at, RowOf(d, p), lucky)
  BY UnlinkDecides
<1>2. PICK at \in NamedIn(RowOf(d, p)), v \in Inodes :
              /\ RowOf(d, p)[at].name = n /\ RowOf(d, p)[at].inum = v
              /\ plan = UnlinkEntry(d, p, v, at, RowOf(d, p), lucky)
  BY <1>1
<1> DEFINE row     == RowOf(d, p)
           ino     == d.inodes[p]
           nb      == BlocksFor(ino.size)
           i       == at \div EntriesPerBlock
           emptied == Emptied(row, at)
           m       == Unlinked(d, p, v, at)
           w       == Backs(d, p, v, at)
           held    == Held(m.inodes[p], nb)
<1>3. \/ plan = Plan(Aborts, w, FALSE, Meta(d))
      \/ plan = Plan(0, w, TRUE, m) /\ ~Short(d, p, v, at)
  <2>1. UnlinkDoes(d, p, v, at, plan)
    BY <1>2, UnlinkCases
  <2> QED
    BY <2>1 DEF UnlinkDoes
<1>4. CASE plan = Plan(Aborts, w, FALSE, Meta(d))
  <2>1. ~plan.commit
    BY <1>4 DEF Plan
  <2> QED
    BY <2>1 DEF IsRefused
<1>5. CASE plan = Plan(0, w, TRUE, m) /\ ~Short(d, p, v, at)
  <2>1. /\ Sound(d) /\ d.inodes \in [Inodes -> Inode] /\ d.blocks \in [DataBlocks -> Block]
    BY DEF Usable, Sound, Meta, Metadata
  <2>2. Filled(d, p) /\ ino.size \in Nat /\ nb \in Nat
        /\ ino.size <= nb * EntriesPerBlock /\ nb * EntriesPerBlock \in Nat
        /\ \A a \in 0 .. nb - 1 : a \in Ptrs /\ ino.direct[a] \in DataBlocks
    <3>1. Filled(d, p) /\ ino.size \in Nat
      BY <1>1 DEF Tree, Filled
    <3>2. nb \in Nat /\ ino.size <= nb * EntriesPerBlock /\ nb * EntriesPerBlock \in Nat
      BY <3>1, BlocksOfSize
    <3>3. \A a \in 0 .. nb - 1 : a \in Ptrs /\ ino.direct[a] \in DataBlocks
      BY <3>1, BlocksOfDirectory DEF Filled
    <3> QED
      BY <3>1, <3>2, <3>3
  <2>3. /\ at \in DOMAIN row /\ row[at] \in Cell /\ i \in 0 .. nb - 1 /\ i \in Ptrs
    <3>1. at \in DOMAIN row /\ DOMAIN row = 0 .. ino.size - 1
      BY DEF NamedIn, RowOf
    <3>2. row[at] \in Cell
      BY <2>1, <2>2, <3>1, RowCells
    <3>3. at \in 0 .. nb * EntriesPerBlock - 1
      BY <2>2, <3>1
    <3>4. i \in 0 .. nb - 1
      BY <2>2, <3>3, PositionParts
    <3> QED
      BY <2>2, <3>1, <3>2, <3>4
  <2>4. v # p
    <3>1. /\ Forest(d.inodeBitmap, RowsOf(d)) /\ p \in DOMAIN RowsOf(d) /\ RowsOf(d)[p] = row
      BY <1>1 DEF Tree, RowsOf
    <3>2. Leads(d.inodeBitmap, RowsOf(d), p, at)
      BY <3>1 DEF Forest
    <3> QED
      BY <1>2, <3>1, <3>2 DEF Leads
  <2>5. emptied => i # 0
    BY <1>1, <2>3, FirstBlockStays
  <2> HIDE DEF nb, i, row, emptied
  <2>6. /\ ~emptied => m.inodes[p] = ino
        /\ emptied => \A a \in Ptrs \ {i} : m.inodes[p].direct[a] = ino.direct[a]
    <3>1. m = Removed(d, p, v, at, emptied) /\ i = at \div EntriesPerBlock
      BY DEF m, i, Unlinked, emptied, row
    <3> HIDE DEF m
    <3> QED
      BY <1>1, <2>1, <2>3, <2>4, <3>1, RemovedDirectory
  <2> HIDE DEF m
  <2>7. 0 \in held
    <3>1. 0 \in 0 .. nb - 1
      BY <2>2, <2>3
    <3>2. 0 \in Ptrs /\ ino.direct[0] \in DataBlocks /\ 0 < nb
      BY <2>2, <3>1
    <3>3. m.inodes[p].direct[0] = ino.direct[0]
      BY <2>5, <2>6, <3>2
    <3> QED
      BY <3>2, <3>3, Layout DEF Held
  <2>8. IsFiniteSet(held)
    <3>1. held \in SUBSET (0 .. DirectPtrs) /\ DirectPtrs \in Nat
      BY UFSAssumption DEF Held, Ptrs
    <3> QED
      BY <3>1, SetOfIndices
  <2>9. ~(Len(w) < Cardinality(held))
    BY <1>5 DEF Short, held, w, m, nb
  <2>10. plan.writes = w
    BY <1>5 DEF Plan
  <2> HIDE DEF held, w
  <2>11. Cardinality(held) \in Nat /\ Cardinality(held) # 0
    <3>1. held # {}
      BY <2>7
    <3> QED
      BY <2>8, <3>1, FS_EmptySet, FS_CardinalityType, Zenon
  <2>12. SUFFICES ASSUME w = <<>> PROVE FALSE
    BY <2>10
  <2>13. Len(w) = 0
    BY <2>12
  <2> QED
    BY <2>9, <2>11, <2>13
<1> QED
  BY <1>3, <1>4, <1>5

\* Once unlink has the entry it removes it or ends the process.
LEMMA RemovesOrAborts ==
  ASSUME NEW d, NEW p, NEW v, NEW at, NEW data, NEW lucky,
         NEW plan, plan = UnlinkEntry(d, p, v, at, data, lucky)
  PROVE  plan.commit \/ plan.ret = Aborts
<1> DEFINE i     == at \div EntriesPerBlock
           size  == d.inodes[p].size
           data1 == [data EXCEPT ![at].name = ""]
           em    == BlockEmpty(data1, i)
           m1    == Removed(d, p, v, at, em)
           w1    == WriteBack(m1.inodes[p], BlocksFor(size), data1, size)
           over  == (i + 1) * EntriesPerBlock > size
           few   == Len(w1) < Cardinality(Held(m1.inodes[p], BlocksFor(size)))
           stray == Freed(d.inodes[v]) \cup
                      (IF em THEN {[d.inodes EXCEPT ![v] = Released(d.inodes[v])][p].direct[i]}
                       ELSE {})
           lost  == ~StrayBit(stray, lucky) \/ (Asan /\ em /\ over)
<1>1. plan = IF lost THEN Refuse(d, Aborts)
             ELSE IF few THEN Plan(Aborts, w1, FALSE, Meta(d)) ELSE Plan(0, w1, TRUE, m1)
  BY Zenon DEF UnlinkEntry
<1> HIDE DEF lost, few, w1, m1
<1> QED
  BY <1>1 DEF Refuse, Plan

\* unlink returns 0 without a write only for a name the directory does not have.
LEMMA UnlinkMisses ==
  ASSUME Asan, NEW d, Usable(d), Tree(d), NEW p \in Directories(d), NEW n \in Names,
         NEW heap \in [HeapRange(d, p) -> HeapCells], NEW lucky,
         NEW plan, plan = UnlinkPlan(d, p, n, heap, lucky), plan.ret = 0, plan.writes = <<>>
  PROVE  Without(d, p, n)
<1> DEFINE ino  == d.inodes[p]
           data == DirData(d, p, heap)
           at   == EntryNamed(data, ino, n)
           v    == data[at].inum
           some == UnlinkEntry(d, p, v, at, data, lucky)
<1>1. IsRefused(plan) /\ ~plan.commit
  BY RemovingWrites DEF IsRefused
<1>2. /\ p \in Inodes /\ p \in d.inodeBitmap /\ ino.type = Directory /\ Filled(d, p)
      /\ ino.size \in Nat /\ ~(ino.size < 0) /\ ~Unreadable(ino)
  <2>1. p \in Inodes /\ p \in d.inodeBitmap /\ ino.type = Directory /\ Filled(d, p)
    BY DEF Usable, Sound, Meta, Metadata, Directories, Tree
  <2>2. ino.size \in Nat /\ ~Unreadable(ino)
    BY <2>1, BlocksOfDirectory DEF Filled
  <2> QED
    BY <2>1, <2>2
<1>3. plan = IF at = -1 THEN Refuse(d, 0)
             ELSE IF v \notin Inodes THEN Refuse(d, -EINVALIDINODE)
             ELSE IF v \notin d.inodeBitmap THEN Refuse(d, -ENOTALLOCATED)
             ELSE IF NotEmpty(d.inodes[v]) THEN Refuse(d, -EDIRNOTEMPTY)
             ELSE some
  <2> HIDE DEF at, data, some
  <2> QED
    BY <1>2 DEF UnlinkPlan, at, data, some
<1>4. \A x : Refuse(d, x).ret = x
  BY DEF Refuse, Plan
<1>5. some.commit \/ some.ret = Aborts
  <2> HIDE DEF data, at, v
  <2> QED
    BY RemovesOrAborts DEF some
<1> HIDE DEF some, at, data
<1>6. at = -1
  BY <1>1, <1>3, <1>4, <1>5 DEF EINVALIDINODE, ENOTALLOCATED, EDIRNOTEMPTY, Aborts
<1>7. data = RowOf(d, p)
  BY <1>2, DirDataIsRow DEF data
<1> DEFINE hits == {e \in 0 .. ino.size - 1 : data[e].name = n}
<1>8. at = First(hits)
  BY DEF EntryNamed, at
<1>9. hits \in SUBSET Nat
  <2>1. \A e \in 0 .. ino.size - 1 : e \in Nat
    BY <1>2
  <2> QED
    BY <2>1
<1>10. hits = {}
  <2> HIDE DEF hits
  <2>1. SUFFICES ASSUME hits # {} PROVE FALSE
    OBVIOUS
  <2>2. Least(hits) \in Nat
    BY <1>9, <2>1, LeastIsMinimum
  <2> QED
    BY <1>6, <1>8, <2>1, <2>2 DEF First
<1>11. DOMAIN RowOf(d, p) = 0 .. ino.size - 1
  BY DEF RowOf
<1>12. NameFree(RowOf(d, p), n)
  <2> HIDE DEF ino
  <2> QED
    BY <1>7, <1>10, <1>11 DEF NameFree, NamedIn
<1> QED
  BY <1>12 DEF Without

\* So unlink never misses a name that is there.
LEMMA UnlinkSeesAll ==
  ASSUME Asan, Kept, NamesKept
  PROVE  AbsentForUnlink
<1> SUFFICES ASSUME pc = "idle", NEW p \in Directories(disk), NEW n \in Names,
                    NEW plan \in UnlinkPlans(disk, p, n), plan.ret = 0, plan.writes = <<>>
             PROVE  Lookup(disk, p, n) < 0
  BY DEF AbsentForUnlink
<1>1. Usable(disk) /\ Tree(disk) /\ disk.inodeBitmap \in SUBSET Inodes
  BY IdleTree DEF Usable, Sound, Meta, Metadata
<1>2. PICK heap \in [HeapRange(disk, p) -> HeapCells], lucky \in BOOLEAN :
             plan = UnlinkPlan(disk, p, n, heap, lucky)
  BY DEF UnlinkPlans
<1>3. Without(disk, p, n)
  BY <1>1, <1>2, UnlinkMisses
<1> QED
  BY <1>1, <1>3, WithoutIsNotFound

(***************************************************************************)
(* The names of an image, for every number of blocks, inodes and names.    *)
(***************************************************************************)

\* A directory of a tree has all the blocks of its size.
LEMMA TreesHaveNoGap == NamesKept => NoGap
<1> SUFFICES ASSUME NamesKept, NEW p \in Directories(mem), NEW a \in Ptrs,
                    a < BlocksFor(mem.inodes[p].size)
             PROVE  mem.inodes[p].direct[a] # NoBlock
  BY DEF NoGap, NoGaps
<1>1. PICK B : Tree(After(mem, B))
  BY DEF NamesKept, TreeToCome
<1>2. Filled(After(mem, B), p)
  BY <1>1 DEF Tree, After, Directories
<1>3. /\ BlocksFor(mem.inodes[p].size) \in Nat
      /\ \A x \in 0 .. BlocksFor(mem.inodes[p].size) - 1 : mem.inodes[p].direct[x] \in DataBlocks
  <2>1. After(mem, B).inodes = mem.inodes
    BY DEF After
  <2> QED
    BY <1>2, <2>1, BlocksOfDirectory DEF Filled
<1>4. a \in 0 .. BlocksFor(mem.inodes[p].size) - 1
  BY <1>3 DEF Ptrs
<1> QED
  BY <1>3, <1>4, Layout

\* A server that is never killed keeps what one that is killed keeps.
LEMMA SpecRestarts == Spec => []Kept
<1>1. Calls => RestartNext
  BY DEF RestartNext
<1>2. [Calls]_vars => [RestartNext]_vars
  BY <1>1
<1> QED
  BY <1>2, KeptHolds, PTL DEF Spec, RestartSpec, RestartNext

\* A directory has no missing block within its size when an inode has at most two
\* pointers: unlink drops a block it has emptied from the middle of a directory
\* only when there are three (the first holds the two dots and never empties).
THEOREM NoGapInSmallDirectories ==
  ASSUME Asan, DirectPtrs <= 2
  PROVE  Spec => []NoGap
<1>1. Kept /\ NamesKept /\ [Calls]_vars => NamesKept'
  BY NextNames
<1> QED
  BY <1>1, InitNames, TreesHaveNoGap, SpecRestarts, PTL DEF Spec

\* Built with ASan, as long as unlink never leaves a gap in a directory, the
\* blocks that the running call has still to write together with the metadata in
\* memory always make a tree of names that shows what the call is to report.
THEOREM NamesAreKept ==
  ASSUME Asan
  PROVE  Spec /\ []NoGap => []NamesKept
<1>1. Kept /\ NamesKept /\ NoGap' /\ [Calls]_vars => NamesKept'
  BY NextNames
<1> QED
  BY <1>1, InitNames, SpecRestarts, PTL DEF Spec

\* Then between two calls the directories make a tree: every name that readers
\* see leads to an allocated inode, no name is there twice and no inode has two
\* names, and "." and ".." lead where they should.
THEOREM NamesMakeATree ==
  ASSUME Asan
  PROVE  Spec /\ []NoGap => []TreeShape
<1>1. Kept /\ NamesKept => TreeShape
  <2> SUFFICES ASSUME Kept, NamesKept PROVE TreeShape
    OBVIOUS
  <2>1. CASE pc = "idle"
    <3>1. Tree(disk) /\ disk.inodeBitmap \in SUBSET Inodes
      BY <2>1, IdleTree DEF Usable, Sound, Meta, Metadata
    <3> QED
      BY <3>1, TreeIsShown
  <2> QED
    BY <2>1 DEF TreeShape
<1> QED
  BY <1>1, NamesAreKept, SpecRestarts, PTL

\* Then unlink finds every name that lookup finds: when it returns 0 and does
\* nothing, the name is not there.
THEOREM MissingNamesAreAbsent ==
  ASSUME Asan
  PROVE  Spec /\ []NoGap => []AbsentForUnlink
<1>1. Kept /\ NamesKept => AbsentForUnlink
  BY UnlinkSeesAll
<1> QED
  BY <1>1, NamesAreKept, SpecRestarts, PTL

\* Then, when create returns an inode number, lookup of the name returns it.
THEOREM CreatedNamesAreFound ==
  ASSUME Asan
  PROVE  Spec /\ []NoGap => CreatedIsFound
<1>1. Kept /\ NamesKept /\ [Calls]_vars =>
        [Returns("create") => Lookup(disk', job.inum, job.name) = job.ret]_vars
  BY NextReports
<1> QED
  BY <1>1, NamesAreKept, SpecRestarts, PTL DEF Spec, CreatedIsFound

\* Then, when unlink returns 0 having removed something, lookup does not find
\* the name any more.
THEOREM UnlinkedNamesAreGone ==
  ASSUME Asan
  PROVE  Spec /\ []NoGap => UnlinkedIsGone
<1>1. Kept /\ NamesKept /\ [Calls]_vars =>
        [Returns("unlink") => Lookup(disk', job.inum, job.name) < 0]_vars
  BY NextReports
<1> QED
  BY <1>1, NamesAreKept, SpecRestarts, PTL DEF Spec, UnlinkedIsGone

(***************************************************************************)
(* What create and unlink decide, spelled out.                             *)
(***************************************************************************)

\* Link finds room behind the last entry, or has none, or takes a block.
LinkDoes(e, p, n, i, first, m, plan) ==
  \/ /\ HasRoom(m.inodes[p])
     /\ plan = Plan(i, Append(first, Update(RoomAt(m.inodes[p]),
                                            RoomCells(e.blocks, m.inodes[p], Entry(n, i)))),
                    TRUE, WithEntry(m, p))
  \/ plan = Plan(-ENOTENOUGHSPACE, first, FALSE, Meta(e))
  \/ /\ ~HasRoom(m.inodes[p]) /\ BlocksFor(m.inodes[p].size) < DirectPtrs
     /\ \E b \in DataBlocks \ m.dataBitmap :
          plan = Plan(i, Append(first, Update(b, FreshCells(Entry(n, i)))), TRUE,
                      WithBlock(m, p, BlocksFor(m.inodes[p].size), b))

\* What linking does follows from whether there is room behind the last entry.
LEMMA LinkCases ==
  ASSUME NEW m, NEW e, NEW p, Filled(After(m, e.blocks), p),
         DirRow(p, RowOf(After(m, e.blocks), p)), NEW n, NEW i, NEW first,
         NEW plan, plan = Link(e, p, n, i, first, m)
  PROVE  LinkDoes(e, p, n, i, first, m, plan)
<1> DEFINE t     == After(m, e.blocks)
           ino   == m.inodes[p]
           used  == BlocksFor(ino.size)
           free  == DataBlocks \ m.dataBitmap
           b     == Least(free)
           slot  == First({pos \in PositionsIn(Held(ino, used)) : CellAt(e, ino, pos).inum = -1})
<1>1. slot = IF HasRoom(ino) THEN ino.size ELSE -1
  <2>1. t.blocks = e.blocks /\ t.inodes = m.inodes
    BY DEF After
  <2>2. Filled(t, p) /\ DirRow(p, RowOf(t, p))
    OBVIOUS
  <2> HIDE DEF t
  <2> QED
    BY <2>1, <2>2, LinkSlot
<1>2. ino.size \in Nat
  <2>1. t.inodes = m.inodes
    BY DEF After
  <2> HIDE DEF t
  <2> QED
    BY <2>1 DEF Filled, t
<1> HIDE DEF slot
<1>3. CASE HasRoom(ino)
  <2>1. slot # -1 /\ slot = ino.size
    BY <1>1, <1>2, <1>3
  <2>2. plan = Plan(i, Append(first, Update(ino.direct[slot \div EntriesPerBlock],
                              [e.blocks[ino.direct[slot \div EntriesPerBlock]] EXCEPT
                                 ![slot % EntriesPerBlock] = Entry(n, i)])),
              TRUE, [m EXCEPT !.inodes[p].size = @ + 1])
    BY <2>1 DEF Link, slot
  <2> QED
    BY <1>3, <2>1, <2>2 DEF RoomAt, RoomCells, WithEntry, LinkDoes
<1>4. CASE ~HasRoom(ino) /\ (used >= DirectPtrs \/ free = {})
  BY <1>1, <1>4 DEF Link, slot, LinkDoes
<1>5. CASE ~HasRoom(ino) /\ ~(used >= DirectPtrs \/ free = {})
  <2>1. slot = -1
    BY <1>1, <1>5
  <2>2. plan = Plan(i, Append(first, Update(b, [s \in Slots |->
                                            IF s = 0 THEN Entry(n, i) ELSE Unused])),
              TRUE, [m EXCEPT !.dataBitmap = @ \cup {b},
                              !.inodes[p].size = @ + 1,
                              !.inodes[p].direct[used] = b])
    BY <1>5, <2>1 DEF Link, slot
  <2>3. plan = Plan(i, Append(first, Update(b, FreshCells(Entry(n, i)))), TRUE,
                    WithBlock(m, p, used, b))
    BY <2>2 DEF FreshCells, WithBlock
  <2>4. b \in free
    <3>1. free \in SUBSET Nat /\ free # {}
      BY <1>5, Layout
    <3> HIDE DEF free
    <3> QED
      BY <3>1, LeastIsMinimum
  <2>5. used < DirectPtrs
    BY <1>2, <1>5, BlocksForInt, UFSAssumption
  <2> HIDE DEF b
  <2> QED
    BY <1>5, <2>3, <2>4, <2>5 DEF LinkDoes
<1> QED
  BY <1>3, <1>4, <1>5

\* What create has made before it links: inode i, and for a directory its first
\* block home, which is the only one in which the blocks Bl are not those of the
\* image and the only one that is written first.
Made(d, p, type, i, home, m, Bl, first) ==
  /\ i \in Inodes /\ i \notin d.inodeBitmap
  /\ type = Directory => home \in DataBlocks /\ home \notin d.dataBitmap
  /\ m \in Metadata
  /\ m.inodeBitmap = d.inodeBitmap \cup {i}
  /\ m.dataBitmap = d.dataBitmap \cup (IF type = Directory THEN {home} ELSE {})
  /\ \A j \in Inodes \ {i} : m.inodes[j] = d.inodes[j]
  /\ m.inodes[i] = NewInode(type, home)
  /\ Bl \in [DataBlocks -> Block]
  /\ \A b \in DataBlocks : ~(type = Directory /\ b = home) => Bl[b] = d.blocks[b]
  /\ type = Directory => Bl[home] = DirBlock(i, p)
  /\ first \in Writes /\ Ends(d.blocks, first, Bl)
  /\ \A j \in 1 .. Len(first) : type = Directory /\ first[j].addr = home

\* What has been made can be linked.
LEMMA MadeIsLinkable ==
  ASSUME NEW d, Usable(d), Tree(d), NEW p \in Directories(d), NEW n \in Names,
         NameFree(RowOf(d, p), n), NEW type \in {Directory, RegularFile},
         NEW i, NEW home, NEW m, NEW Bl, NEW first, Made(d, p, type, i, home, m, Bl, first)
  PROVE  Linkable(After(m, Bl), p, n, i)
<1>1. /\ i \in Inodes /\ i \notin d.inodeBitmap
      /\ type = Directory => home \in DataBlocks /\ home \notin d.dataBitmap
      /\ m.inodeBitmap = d.inodeBitmap \cup {i}
      /\ \A j \in Inodes \ {i} : m.inodes[j] = d.inodes[j]
      /\ m.inodes[i] = NewInode(type, home)
      /\ \A b \in DataBlocks : ~(type = Directory /\ b = home) => Bl[b] = d.blocks[b]
      /\ type = Directory => Bl[home] = DirBlock(i, p)
  BY DEF Made
<1> QED
  BY <1>1, NewInodeIsReady

\* create makes an inode and links it.
CreateDoes(d, p, type, n, plan) ==
  \E i, home, m, e, first :
     /\ Made(d, p, type, i, home, m, e.blocks, first)
     /\ Meta(e) = Meta(d)
     /\ LinkDoes(e, p, n, i, first, m, plan)

\* Linking what has been made is what create does.
LEMMA CreateLinks ==
  ASSUME NEW d, Usable(d), Tree(d), NEW p \in Directories(d), NEW n \in Names,
         NameFree(RowOf(d, p), n), NEW type \in {Directory, RegularFile},
         NEW i, NEW home, NEW m, NEW e, NEW first, Made(d, p, type, i, home, m, e.blocks, first),
         Meta(e) = Meta(d), NEW plan, plan = Link(e, p, n, i, first, m)
  PROVE  CreateDoes(d, p, type, n, plan)
<1> DEFINE t == After(m, e.blocks)
<1>1. Linkable(t, p, n, i)
  BY MadeIsLinkable
<1>2. Filled(t, p) /\ DirRow(p, RowOf(t, p))
  <2> HIDE DEF t
  <2>1. Tree(t) /\ p \in Directories(t)
    BY <1>1 DEF Linkable
  <2> QED
    BY <2>1 DEF Tree, Forest, RowsOf
<1>3. LinkDoes(e, p, n, i, first, m, plan)
  BY <1>2, LinkCases
<1> QED
  BY <1>3 DEF CreateDoes

\* A create that goes on is for a new name in a directory, and does that.
LEMMA CreateCases ==
  ASSUME NEW d, Usable(d), Tree(d), NEW p, NEW type \in {Directory, RegularFile}, NEW n,
         NEW plan, plan = CreatePlan(d, p, type, n), ~IsRefused(plan)
  PROVE  /\ p \in Directories(d) /\ p \in Inodes /\ n \in Names /\ NameFree(RowOf(d, p), n)
         /\ CreateDoes(d, p, type, n, plan)
<1> DEFINE i     == Least(Inodes \ d.inodeBitmap)
           home  == Least(DataBlocks \ d.dataBitmap)
           m     == WithInode(d, type)
           cells == DirBlock(i, p)
           d1    == [d EXCEPT !.blocks[home] = cells]
           w     == <<Update(home, cells)>>
<1>1. /\ d.inodeBitmap \in SUBSET Inodes /\ Sound(d) /\ d.blocks \in [DataBlocks -> Block]
      /\ d.inodes \in [Inodes -> Inode]
  BY DEF Usable, Sound, Meta, Metadata
<1>2. CreateChecks(d, p, type, n) = Passes
  <2>1. \A x : IsRefused(Refuse(d, x))
    BY DEF IsRefused, Refuse, Plan
  <2> QED
    BY <2>1 DEF CreatePlan
<1>3. p \in Directories(d) /\ n \in Names /\ NameFree(RowOf(d, p), n) /\ p \in Inodes
  BY <1>1, <1>2, NameIsNew DEF Directories
<1>4. d.inodeBitmap # Inodes /\ (type = Directory => d.dataBitmap # DataBlocks)
  BY <1>1, <1>2, ChecksPassed
<1>5. /\ i \in Inodes /\ i \notin d.inodeBitmap
      /\ type = Directory => home \in DataBlocks /\ home \notin d.dataBitmap
      /\ m \in Metadata
  BY <1>4, WithInodeSpares
<1>6. /\ m.inodeBitmap = d.inodeBitmap \cup {i}
      /\ m.dataBitmap = d.dataBitmap \cup (IF type = Directory THEN {home} ELSE {})
      /\ m.inodes = [d.inodes EXCEPT ![i] = NewInode(type, home)]
  BY DEF WithInode
<1>7. plan = IF type = Directory THEN Link(d1, p, n, i, w, m) ELSE Link(d, p, n, i, <<>>, m)
  BY <1>2 DEF CreatePlan
<1> HIDE DEF i, home, m
<1>8. /\ \A j \in Inodes \ {i} : m.inodes[j] = d.inodes[j]
      /\ m.inodes[i] = NewInode(type, home)
  <2>1. d.inodes \in [Inodes -> Inode] /\ i \in Inodes
    BY <1>1, <1>5
  <2> QED
    BY <1>6, <2>1
<1>10. CASE type = Directory
  <2>1. cells \in Block
    <3>1. i \in Int /\ p \in Int
      BY <1>1, <1>3, <1>5 DEF Inodes, Directories
    <3>2. Entry(".", i) \in Cell /\ Entry("..", p) \in Cell /\ Unused \in Cell
      BY <3>1, Cells DEF ValidNames
    <3> QED
      BY <3>2 DEF DirBlock, Block
  <2>2. home \in DataBlocks
    BY <1>5, <1>10
  <2> HIDE DEF cells
  <2>3. d1.blocks = [d.blocks EXCEPT ![home] = cells] /\ Meta(d1) = Meta(d)
    BY DEF Usable, Sound, Meta
  <2>4. w \in Writes /\ Ends(d.blocks, w, d1.blocks) /\ \A j \in 1 .. Len(w) : w[j].addr = home
    BY <1>1, <2>1, <2>2, <2>3, OneUpdate
  <2>5. d1.blocks \in [DataBlocks -> Block] /\ d1.blocks[home] = DirBlock(i, p)
        /\ \A b \in DataBlocks : b # home => d1.blocks[b] = d.blocks[b]
    BY <1>1, <2>1, <2>2, <2>3 DEF cells
  <2>6. plan = Link(d1, p, n, i, w, m)
    BY <1>7, <1>10
  <2> HIDE DEF d1, w
  <2>7. Made(d, p, type, i, home, m, d1.blocks, w)
    BY <1>5, <1>6, <1>8, <1>10, <2>4, <2>5 DEF Made
  <2> QED
    BY <1>3, <2>3, <2>6, <2>7, CreateLinks
<1>11. CASE type # Directory
  <2> DEFINE none == <<>>
  <2>1. none \in Writes /\ Ends(d.blocks, none, d.blocks) /\ Len(none) = 0
    BY <1>1, NoWrite
  <2>2. plan = Link(d, p, n, i, none, m)
    BY <1>7, <1>11
  <2> HIDE DEF none
  <2>3. Made(d, p, type, i, home, m, d.blocks, none)
    BY <1>1, <1>5, <1>6, <1>8, <1>11, <2>1 DEF Made
  <2> QED
    BY <1>3, <2>2, <2>3, CreateLinks
<1> QED
  BY <1>10, <1>11

(***************************************************************************)
(* Every marked block has an owner.                                        *)
(***************************************************************************)

\* Every data block whose bit is set is one an inode points to.
AllUsed(m) == \A b \in m.dataBitmap : \E i \in Inodes, a \in Ptrs : m.inodes[i].direct[a] = b

\* An inode that is free has no data block, so that create loses none, and a
\* directory has none behind its size, where unlink would not find it.
Bare(m) == \A i \in Inodes \ m.inodeBitmap, a \in Ptrs : m.inodes[i].direct[a] \notin DataBlocks
Snug(m) == \A i \in Inodes, a \in Ptrs :
             m.inodes[i].type = Directory /\ m.inodes[i].direct[a] \in DataBlocks =>
               a < BlocksFor(m.inodes[i].size)

Accounted(m) == AllUsed(m) /\ Bare(m) /\ Snug(m)

\* The owners are a matter of the metadata alone.
LEMMA SameAccounts ==
  ASSUME NEW m, Accounted(m), NEW r, r.inodeBitmap = m.inodeBitmap,
         r.dataBitmap = m.dataBitmap, r.inodes = m.inodes
  PROVE  Accounted(r)
BY DEF Accounted, AllUsed, Bare, Snug

\* One entry more does not take fewer blocks, and one more if they were full.
LEMMA BlocksForGrows ==
  ASSUME NEW size \in Nat
  PROVE  /\ BlocksFor(size) \in Nat /\ BlocksFor(size + 1) \in Nat
         /\ BlocksFor(size) <= BlocksFor(size + 1)
         /\ size >= BlocksFor(size) * EntriesPerBlock => BlocksFor(size) < BlocksFor(size + 1)
<1> DEFINE E == EntriesPerBlock
           n == BlocksFor(size)
           q == BlocksFor(size + 1)
           x == n * E
           y == q * E
<1>1. E \in Nat /\ E > 0 /\ size + 1 \in Nat
  BY UFSAssumption
<1>2. /\ n \in Nat /\ x \in Nat /\ x < size + E
      /\ q \in Nat /\ y \in Nat /\ size + 1 <= y
  BY <1>1, BlocksOfSize
<1> HIDE DEF n, q
<1>3. q < n => y + E <= x
  <2> SUFFICES ASSUME q < n PROVE y + E <= x
    OBVIOUS
  <2>1. (q + 1) * E <= n * E
    BY <1>1, <1>2
  <2> QED
    BY <1>1, <1>2, <2>1
<1>4. q = n => y = x
  OBVIOUS
<1> HIDE DEF x, y
<1>5. ~(q < n) /\ (size >= x => q # n)
  BY <1>1, <1>2, <1>3, <1>4
<1> QED
  BY <1>2, <1>5 DEF n, q, x

\* create makes an inode with a block or with none.
LEMMA MadeAccounts ==
  ASSUME NEW d, Accounted(d), Meta(d) \in Metadata, NEW p, NEW type \in {Directory, RegularFile},
         NEW i, NEW home, NEW m, NEW Bl, NEW first, Made(d, p, type, i, home, m, Bl, first)
  PROVE  Accounted(m)
<1>1. /\ i \in Inodes /\ i \notin d.inodeBitmap
      /\ m.inodeBitmap = d.inodeBitmap \cup {i}
      /\ m.dataBitmap = d.dataBitmap \cup (IF type = Directory THEN {home} ELSE {})
      /\ \A j \in Inodes \ {i} : m.inodes[j] = d.inodes[j]
      /\ m.inodes[i] = NewInode(type, home)
  BY DEF Made
<1>2. d.dataBitmap \subseteq DataBlocks
  BY DEF Meta, Metadata
<1>3. 0 \in Ptrs /\ BlocksFor(2) > 0
  <2>1. 0 \in Ptrs /\ 2 \in Nat
    BY UFSAssumption DEF Ptrs
  <2>2. BlocksFor(2) \in Nat /\ 2 <= BlocksFor(2) * EntriesPerBlock
    BY <2>1, BlocksOfSize
  <2>3. EntriesPerBlock \in Nat
    BY UFSAssumption
  <2>4. BlocksFor(2) # 0
    BY <2>2, <2>3
  <2> QED
    BY <2>1, <2>2, <2>4
<1> DEFINE new == NewInode(type, home)
<1>4. /\ type = Directory => new.direct[0] = home /\ new.size = 2
      /\ \A a \in Ptrs : new.direct[a] \in DataBlocks => type = Directory /\ a = 0
      /\ new.type = type
  BY <1>3, Layout DEF NewInode
<1> HIDE DEF new
<1>5. m.inodes[i] = new
  BY <1>1 DEF new
<1>6. AllUsed(m)
  <2>1. SUFFICES ASSUME NEW b \in m.dataBitmap
                 PROVE  \E j \in Inodes, a \in Ptrs : m.inodes[j].direct[a] = b
    BY DEF AllUsed
  <2>2. CASE b \in d.dataBitmap
    <3>1. PICK j \in Inodes, a \in Ptrs : d.inodes[j].direct[a] = b
      BY <2>2 DEF Accounted, AllUsed
    <3>2. j # i
      BY <1>1, <1>2, <2>2, <3>1 DEF Accounted, Bare
    <3> QED
      BY <1>1, <3>1, <3>2
  <2>3. CASE type = Directory /\ b = home
    BY <1>1, <1>3, <1>4, <1>5, <2>3
  <2> QED
    BY <1>1, <2>1, <2>2, <2>3
<1>7. Bare(m)
  BY <1>1 DEF Accounted, Bare
<1>8. Snug(m)
  <2>1. SUFFICES ASSUME NEW j \in Inodes, NEW a \in Ptrs, m.inodes[j].type = Directory,
                        m.inodes[j].direct[a] \in DataBlocks
                 PROVE  a < BlocksFor(m.inodes[j].size)
    BY DEF Snug
  <2>2. CASE j = i
    BY <1>3, <1>4, <1>5, <2>1, <2>2
  <2>3. CASE j # i
    BY <1>1, <2>1, <2>3 DEF Accounted, Snug
  <2> QED
    BY <2>2, <2>3
<1> QED
  BY <1>6, <1>7, <1>8 DEF Accounted

\* Linking takes at most one block, for the directory.
LEMMA LinkAccounts ==
  ASSUME NEW m \in Metadata, Accounted(m), NEW p \in Inodes, m.inodes[p].type = Directory,
         p \in m.inodeBitmap, m.inodes[p].size \in Nat,
         NEW e, Accounted(Meta(e)), NEW n, NEW i, NEW first, NEW plan,
         LinkDoes(e, p, n, i, first, m, plan)
  PROVE  Accounted(plan.mem)
<1> DEFINE ino  == m.inodes[p]
           used == BlocksFor(ino.size)
<1>1. /\ used \in Nat /\ BlocksFor(ino.size + 1) \in Nat /\ used <= BlocksFor(ino.size + 1)
      /\ ~HasRoom(ino) => used < BlocksFor(ino.size + 1)
  <2>1. ino.size \in Nat /\ EntriesPerBlock \in Nat
    BY UFSAssumption
  <2> HIDE DEF ino
  <2>2. used \in Nat
    BY <2>1, BlocksForGrows
  <2>3. ~HasRoom(ino) => ino.size >= used * EntriesPerBlock
    <3>1. used * EntriesPerBlock \in Nat
      BY <2>1, <2>2
    <3> QED
      BY <2>1, <3>1 DEF HasRoom
  <2> QED
    BY <2>1, <2>3, BlocksForGrows
<1>2. m.dataBitmap \subseteq DataBlocks
  BY DEF Metadata
<1>3. CASE plan = Plan(-ENOTENOUGHSPACE, first, FALSE, Meta(e))
  BY <1>3 DEF Plan
<1>4. CASE plan.mem = WithEntry(m, p)
  <2> DEFINE r == WithEntry(m, p)
  <2>1. /\ r.inodes[p].size = ino.size + 1 /\ r.inodes[p].direct = ino.direct
        /\ r.inodes[p].type = ino.type
        /\ \A j \in Inodes \ {p} : r.inodes[j] = m.inodes[j]
        /\ r.inodeBitmap = m.inodeBitmap /\ r.dataBitmap = m.dataBitmap
    BY EntryInode
  <2> HIDE DEF r
  <2>2. \A j \in Inodes : r.inodes[j].direct = m.inodes[j].direct
    BY <2>1
  <2>3. AllUsed(r) /\ Bare(r)
    BY <2>1, <2>2 DEF Accounted, AllUsed, Bare
  <2>4. Snug(r)
    <3>1. SUFFICES ASSUME NEW j \in Inodes, NEW a \in Ptrs, r.inodes[j].type = Directory,
                          r.inodes[j].direct[a] \in DataBlocks
                   PROVE  a < BlocksFor(r.inodes[j].size)
      BY DEF Snug
    <3>2. CASE j = p
      <4>1. a < used /\ a \in Nat
        BY <2>1, <3>1, <3>2 DEF Accounted, Snug, Ptrs
      <4> QED
        BY <1>1, <2>1, <3>2, <4>1
    <3>3. CASE j # p
      BY <2>1, <3>1, <3>3 DEF Accounted, Snug
    <3> QED
      BY <3>2, <3>3
  <2> QED
    BY <1>4, <2>3, <2>4 DEF Accounted, r
<1>5. ASSUME ~HasRoom(ino), used < DirectPtrs, NEW b \in DataBlocks, b \notin m.dataBitmap,
             plan.mem = WithBlock(m, p, used, b)
      PROVE  Accounted(plan.mem)
  <2> DEFINE r == WithBlock(m, p, used, b)
  <2>1. /\ r.inodes[p].size = ino.size + 1
        /\ r.inodes[p].type = ino.type
        /\ \A c \in Ptrs : r.inodes[p].direct[c] = IF c = used THEN b ELSE ino.direct[c]
        /\ \A j \in Inodes \ {p} : r.inodes[j] = m.inodes[j]
        /\ r.inodeBitmap = m.inodeBitmap /\ r.dataBitmap = m.dataBitmap \cup {b}
    BY BlockInode
  <2>2. used \in Ptrs
    BY <1>1, <1>5, UFSAssumption DEF Ptrs
  <2> HIDE DEF r
  <2>3. ino.direct[used] \notin DataBlocks
    <3>1. ino.direct[used] \in DataBlocks => used < used
      BY <2>2 DEF Accounted, Snug
    <3> QED
      BY <1>1, <3>1
  <2>4. AllUsed(r)
    <3>1. SUFFICES ASSUME NEW c \in r.dataBitmap
                   PROVE  \E j \in Inodes, a \in Ptrs : r.inodes[j].direct[a] = c
      BY DEF AllUsed
    <3>2. CASE c = b
      BY <2>1, <2>2, <3>2
    <3>3. CASE c \in m.dataBitmap
      <4>1. PICK j \in Inodes, a \in Ptrs : m.inodes[j].direct[a] = c
        BY <3>3 DEF Accounted, AllUsed
      <4>2. r.inodes[j].direct[a] = c
        BY <1>2, <2>1, <2>3, <3>3, <4>1
      <4> QED
        BY <4>2
    <3> QED
      BY <2>1, <3>1, <3>2, <3>3
  <2>5. Bare(r)
    BY <2>1 DEF Accounted, Bare
  <2>6. Snug(r)
    <3>1. SUFFICES ASSUME NEW j \in Inodes, NEW a \in Ptrs, r.inodes[j].type = Directory,
                          r.inodes[j].direct[a] \in DataBlocks
                   PROVE  a < BlocksFor(r.inodes[j].size)
      BY DEF Snug
    <3>2. CASE j = p
      <4>1. a <= used /\ a \in Nat
        BY <1>1, <2>1, <3>1, <3>2 DEF Accounted, Snug, Ptrs
      <4> QED
        BY <1>1, <1>5, <2>1, <3>2, <4>1
    <3>3. CASE j # p
      BY <2>1, <3>1, <3>3 DEF Accounted, Snug
    <3> QED
      BY <3>2, <3>3
  <2> QED
    BY <1>5, <2>4, <2>5, <2>6 DEF Accounted, r
<1> QED
  BY <1>3, <1>4, <1>5 DEF LinkDoes, Plan

\* What create has decided gives every marked block an owner.
LEMMA CreateAccounts ==
  ASSUME NEW d, Usable(d), Tree(d), Accounted(d), NEW p, NEW type \in {Directory, RegularFile},
         NEW n, NEW plan, plan = CreatePlan(d, p, type, n), ~IsRefused(plan)
  PROVE  Accounted(plan.mem)
<1>1. p \in Directories(d) /\ p \in Inodes /\ CreateDoes(d, p, type, n, plan)
  BY CreateCases
<1>2. PICK i, home, m, e, first :
        /\ Made(d, p, type, i, home, m, e.blocks, first) /\ Meta(e) = Meta(d)
        /\ LinkDoes(e, p, n, i, first, m, plan)
  BY <1>1 DEF CreateDoes
<1>3. Meta(d) \in Metadata
  BY DEF Usable, Sound
<1>4. Accounted(m)
  BY <1>2, <1>3, MadeAccounts
<1>5. Accounted(Meta(e))
  <2> DEFINE r == Meta(d)
  <2>1. r.inodeBitmap = d.inodeBitmap /\ r.dataBitmap = d.dataBitmap /\ r.inodes = d.inodes
    BY DEF Meta
  <2> HIDE DEF r
  <2>2. Accounted(r)
    BY <2>1, SameAccounts
  <2> QED
    BY <1>2, <2>2 DEF r
<1>6. m \in Metadata /\ p \in m.inodeBitmap /\ m.inodes[p] = d.inodes[p]
  <2>1. p \in d.inodeBitmap
    BY <1>1 DEF Directories
  <2>2. /\ m \in Metadata /\ m.inodeBitmap = d.inodeBitmap \cup {i} /\ i \notin d.inodeBitmap
        /\ \A j \in Inodes \ {i} : m.inodes[j] = d.inodes[j]
    BY <1>2 DEF Made
  <2> QED
    BY <1>1, <2>1, <2>2
<1>7. d.inodes[p].type = Directory /\ d.inodes[p].size \in Nat
  BY <1>1 DEF Directories, Tree, Filled
<1> QED
  BY <1>1, <1>2, <1>4, <1>5, <1>6, <1>7, LinkAccounts

\* unlink gives back what the inode had, and the directory's last block if that is
\* empty now.
LEMMA RemovedAccounts ==
  ASSUME NEW d, Usable(d), Accounted(d), NEW p \in Inodes, NEW v \in Inodes, v # p,
         NEW at, NEW i \in Ptrs, i = at \div EntriesPerBlock, NEW emptied \in BOOLEAN,
         emptied => /\ d.inodes[p].size - EntriesPerBlock \in Nat
                    /\ BlocksFor(d.inodes[p].size) = i + 1
                    /\ BlocksFor(d.inodes[p].size - EntriesPerBlock) = i,
         NEW m, m = Removed(d, p, v, at, emptied)
  PROVE  Accounted(m)
<1> DEFINE x     == d.inodes
           block == IF emptied THEN {x[p].direct[i]} ELSE {}
<1>1. /\ x \in [Inodes -> Inode] /\ d.dataBitmap \subseteq DataBlocks /\ Tidy(x)
      /\ x[v] \in Inode
  BY DEF Usable, Sound, Meta, Metadata
<1>2. /\ m.inodeBitmap = d.inodeBitmap \ {v}
      /\ \A j \in Inodes : m.inodes[j].type = x[j].type
      /\ \A j \in Inodes \ {p, v} : m.inodes[j] = x[j]
      /\ m.inodes[v] = Released(x[v])
  BY <1>1, RemovedInodes
<1>3. /\ ~emptied => m.inodes[p] = x[p]
      /\ emptied => /\ m.inodes[p].size = x[p].size - EntriesPerBlock
                    /\ m.inodes[p].direct[i] = NoBlock
                    /\ \A a \in Ptrs \ {i} : m.inodes[p].direct[a] = x[p].direct[a]
  BY <1>1, RemovedDirectory
<1>4. \A a \in Ptrs : Released(x[v]).direct[a] =
        IF a < BlocksFor(x[v].size) THEN NoBlock ELSE x[v].direct[a]
  BY <1>1, ReleasedInode
<1>5. \A a \in Ptrs : x[v].direct[a] \in DataBlocks =>
        a < BlocksFor(x[v].size) /\ x[v].direct[a] \in Freed(x[v])
  <2>1. SUFFICES ASSUME NEW a \in Ptrs, x[v].direct[a] \in DataBlocks
                 PROVE  a < BlocksFor(x[v].size) /\ x[v].direct[a] \in Freed(x[v])
    OBVIOUS
  <2>2. a < BlocksFor(x[v].size)
    <3>1. x[v].type \in {Directory, RegularFile}
      BY <1>1 DEF Inode
    <3> QED
      BY <1>1, <2>1, <3>1 DEF Tidy, Accounted, Snug
  <2>3. x[v].direct[a] # NoBlock
    BY <2>1, Layout
  <2> HIDE DEF x
  <2> QED
    BY <2>1, <2>2, <2>3 DEF Freed, Held
<1>6. m.dataBitmap = d.dataBitmap \ (Freed(x[v]) \cup block)
  <2> DEFINE after == [x EXCEPT ![v] = Released(x[v])]
  <2>1. m.dataBitmap = d.dataBitmap \ (Freed(x[v]) \cup
                                         IF emptied THEN {after[p].direct[i]} ELSE {})
    BY DEF Removed
  <2>2. after[p] = x[p]
    BY <1>1
  <2> HIDE DEF after, x
  <2> QED
    BY <2>1, <2>2
<1> HIDE DEF x, block
<1>7. AllUsed(m)
  <2>1. SUFFICES ASSUME NEW b \in m.dataBitmap
                 PROVE  \E j \in Inodes, a \in Ptrs : m.inodes[j].direct[a] = b
    BY DEF AllUsed
  <2>2. b \in d.dataBitmap /\ b \in DataBlocks /\ b \notin Freed(x[v]) /\ b \notin block
    BY <1>1, <1>6, <2>1
  <2>3. PICK j \in Inodes, a \in Ptrs : x[j].direct[a] = b
    BY <2>2 DEF Accounted, AllUsed, x
  <2>4. j # v
    BY <1>5, <2>2, <2>3
  <2>5. CASE j # p
    BY <1>2, <2>3, <2>4, <2>5
  <2>6. CASE j = p
    <3>1. emptied => a # i
      BY <2>2, <2>3, <2>6 DEF block
    <3> QED
      BY <1>3, <2>3, <2>6, <3>1
  <2> QED
    BY <2>5, <2>6
<1>8. Bare(m)
  <2>1. SUFFICES ASSUME NEW j \in Inodes, j \notin d.inodeBitmap \/ j = v, NEW a \in Ptrs,
                        m.inodes[j].direct[a] \in DataBlocks
                 PROVE  FALSE
    BY <1>2 DEF Bare
  <2>2. CASE j = v
    <3>1. m.inodes[v].direct[a] = NoBlock \/
            (m.inodes[v].direct[a] = x[v].direct[a] /\ ~(a < BlocksFor(x[v].size)))
      BY <1>2, <1>4
    <3> QED
      BY <1>5, <2>1, <2>2, <3>1, Layout
  <2>3. CASE j # v /\ j = p
    <3>1. m.inodes[p].direct[a] = x[p].direct[a] \/ m.inodes[p].direct[a] = NoBlock
      BY <1>3
    <3> QED
      BY <2>1, <2>3, <3>1, Layout DEF Accounted, Bare, x
  <2>4. CASE j # v /\ j # p
    BY <1>2, <2>1, <2>4 DEF Accounted, Bare, x
  <2> QED
    BY <2>2, <2>3, <2>4
<1>9. Snug(m)
  <2>1. SUFFICES ASSUME NEW j \in Inodes, NEW a \in Ptrs, m.inodes[j].type = Directory,
                        m.inodes[j].direct[a] \in DataBlocks
                 PROVE  a < BlocksFor(m.inodes[j].size)
    BY DEF Snug
  <2>2. CASE j = v
    <3>1. m.inodes[v].direct[a] = NoBlock \/
            (m.inodes[v].direct[a] = x[v].direct[a] /\ ~(a < BlocksFor(x[v].size)))
      BY <1>2, <1>4
    <3> QED
      BY <1>5, <2>1, <2>2, <3>1, Layout
  <2>3. CASE j = p /\ ~emptied
    BY <1>2, <1>3, <2>1, <2>3 DEF Accounted, Snug, x
  <2>4. CASE j = p /\ emptied
    <3>1. a # i /\ x[p].direct[a] \in DataBlocks /\ x[p].type = Directory
      BY <1>2, <1>3, <2>1, <2>4, Layout
    <3>2. a < i + 1
      BY <2>4, <3>1 DEF Accounted, Snug, x
    <3>3. BlocksFor(m.inodes[p].size) = i
      BY <1>3, <2>4 DEF x
    <3>4. a \in Int /\ i \in Int
      BY UFSAssumption DEF Ptrs
    <3>5. a < i
      BY <3>1, <3>2, <3>4
    <3> QED
      BY <2>4, <3>3, <3>5
  <2>5. CASE j # v /\ j # p
    BY <1>2, <2>1, <2>5 DEF Accounted, Snug, x
  <2> QED
    BY <2>2, <2>3, <2>4, <2>5
<1> QED
  BY <1>7, <1>8, <1>9 DEF Accounted

\* What unlink goes on with, as one fact.
UnlinkFinds(d, p, n, lucky, plan) ==
  /\ p \in Directories(d) /\ p \in Inodes /\ n \in Names
  /\ \E at \in NamedIn(RowOf(d, p)), v \in Inodes :
        /\ RowOf(d, p)[at].name = n /\ RowOf(d, p)[at].inum = v
        /\ plan = UnlinkEntry(d, p, v, at, RowOf(d, p), lucky)

\* A call that goes on has found the entry it removes.
LEMMA UnlinkFound ==
  ASSUME Asan, NEW d, Usable(d), Tree(d), NEW p, NEW n,
         NEW heap \in [HeapRange(d, p) -> HeapCells], NEW lucky,
         NEW plan, plan = UnlinkPlan(d, p, n, heap, lucky), ~IsRefused(plan)
  PROVE  UnlinkFinds(d, p, n, lucky, plan)
<1>1. /\ p \in Directories(d) /\ p \in Inodes /\ n \in Names
      /\ \E at \in NamedIn(RowOf(d, p)), v \in Inodes :
              /\ RowOf(d, p)[at].name = n /\ RowOf(d, p)[at].inum = v
              /\ plan = UnlinkEntry(d, p, v, at, RowOf(d, p), lucky)
  BY UnlinkDecides
<1> QED
  BY <1>1, Zenon DEF UnlinkFinds

\* What unlink has decided gives every marked block an owner, when it leaves no gap.
LEMMA UnlinkAccounts ==
  ASSUME Asan, NEW d, Usable(d), Tree(d), Accounted(d), NEW p, NEW n,
         NEW heap \in [HeapRange(d, p) -> HeapCells], NEW lucky,
         NEW plan, plan = UnlinkPlan(d, p, n, heap, lucky), ~IsRefused(plan),
         NoGaps(plan.mem) \/ DirectPtrs <= 2
  PROVE  Accounted(plan.mem)
<1>1. /\ p \in Directories(d) /\ p \in Inodes /\ n \in Names
      /\ \E at \in NamedIn(RowOf(d, p)), v \in Inodes :
              /\ RowOf(d, p)[at].name = n /\ RowOf(d, p)[at].inum = v
              /\ plan = UnlinkEntry(d, p, v, at, RowOf(d, p), lucky)
  <2>1. UnlinkFinds(d, p, n, lucky, plan)
    BY UnlinkFound
  <2> QED
    BY <2>1, Zenon DEF UnlinkFinds
<1>2. PICK at \in NamedIn(RowOf(d, p)), v \in Inodes :
              /\ RowOf(d, p)[at].name = n /\ RowOf(d, p)[at].inum = v
              /\ plan = UnlinkEntry(d, p, v, at, RowOf(d, p), lucky)
  BY <1>1
<1> DEFINE row     == RowOf(d, p)
           size    == d.inodes[p].size
           nb      == BlocksFor(size)
           i       == at \div EntriesPerBlock
           emptied == Emptied(row, at)
           m       == Unlinked(d, p, v, at)
<1>3. /\ emptied => ~Over(d, p, at)
      /\ plan.mem = Meta(d) \/ plan.mem = m
  <2>1. UnlinkDoes(d, p, v, at, plan)
    BY <1>2, UnlinkCases
  <2> QED
    BY <2>1 DEF UnlinkDoes, Plan
<1>4. CASE plan.mem = Meta(d)
  <2>1. Meta(d).inodeBitmap = d.inodeBitmap /\ Meta(d).dataBitmap = d.dataBitmap
        /\ Meta(d).inodes = d.inodes
    BY DEF Meta
  <2> QED
    BY <1>4, <2>1, SameAccounts
<1>5. CASE plan.mem = m
  <2>1. /\ d.inodes \in [Inodes -> Inode] /\ d.inodeBitmap \in SUBSET Inodes
        /\ d.blocks \in [DataBlocks -> Block]
    BY DEF Usable, Sound, Meta, Metadata
  <2>2. Filled(d, p) /\ nb \in Nat /\ nb <= DirectPtrs /\ size \in Nat
        /\ size <= nb * EntriesPerBlock /\ nb * EntriesPerBlock \in Nat
        /\ \A a \in 0 .. nb - 1 : a \in Ptrs
    <3>1. Filled(d, p) /\ size \in Nat
      BY <1>1 DEF Tree, Filled
    <3>2. nb \in Nat /\ size <= nb * EntriesPerBlock /\ nb * EntriesPerBlock \in Nat
      BY <3>1, BlocksOfSize
    <3>3. nb <= DirectPtrs /\ \A a \in 0 .. nb - 1 : a \in Ptrs
      BY <3>1, BlocksOfDirectory
    <3> QED
      BY <3>1, <3>2, <3>3
  <2>3. /\ at \in 0 .. size - 1 /\ i \in 0 .. nb - 1 /\ i \in Ptrs /\ row[at] \in Cell
    <3>1. at \in DOMAIN row /\ DOMAIN row = 0 .. size - 1
      BY DEF NamedIn, RowOf
    <3>2. row[at] \in Cell
      BY <2>1, <2>2, <3>1, RowCells
    <3>3. at \in 0 .. nb * EntriesPerBlock - 1
      BY <2>2, <3>1
    <3>4. i \in 0 .. nb - 1
      BY <2>2, <3>3, PositionParts
    <3> QED
      BY <2>2, <3>1, <3>2, <3>4
  <2>4. v # p
    <3>1. /\ Forest(d.inodeBitmap, RowsOf(d)) /\ p \in DOMAIN RowsOf(d) /\ RowsOf(d)[p] = row
      BY <1>1 DEF Tree, RowsOf
    <3>2. Leads(d.inodeBitmap, RowsOf(d), p, at)
      BY <3>1 DEF Forest
    <3> QED
      BY <1>2, <3>1, <3>2 DEF Leads
  <2> HIDE DEF nb, i, row, emptied
  <2>5. m = Removed(d, p, v, at, emptied) /\ i = at \div EntriesPerBlock
    BY DEF m, i, Unlinked, emptied, row
  <2> HIDE DEF m
  <2>6. /\ emptied => /\ m.inodes[p].size = size - EntriesPerBlock
                      /\ m.inodes[p].direct[i] = NoBlock
        /\ p \in Directories(m)
    <3>1. /\ ~emptied => m.inodes[p] = d.inodes[p]
          /\ emptied => /\ m.inodes[p].size = d.inodes[p].size - EntriesPerBlock
                        /\ m.inodes[p].direct[i] = NoBlock
                        /\ \A a \in Ptrs \ {i} : m.inodes[p].direct[a] = d.inodes[p].direct[a]
      <4>1. /\ d.inodes \in [Inodes -> Inode] /\ p \in Inodes /\ v \in Inodes /\ v # p
            /\ i \in Ptrs
        BY <1>1, <1>2, <2>1, <2>3, <2>4
      <4> QED
        BY ONLY <2>5, <4>1, RemovedDirectory
    <3>2. m.inodeBitmap = d.inodeBitmap \ {v} /\ m.inodes[p].type = d.inodes[p].type
      BY <1>1, <2>1, <2>3, <2>5, RemovedInodes
    <3> QED
      BY <1>1, <2>4, <3>1, <3>2 DEF Directories
  <2>7. emptied => i = nb - 1 /\ nb > 1 /\ size = nb * EntriesPerBlock
    <3> SUFFICES ASSUME emptied PROVE i = nb - 1 /\ nb > 1 /\ size = nb * EntriesPerBlock
      OBVIOUS
    <3>1. RowOf(d, p)[at] \in Cell /\ BlockEmpty(Cleared(RowOf(d, p), at), i)
      BY <2>3 DEF row, emptied, Emptied, i
    <3>2. ~((i + 1) * EntriesPerBlock > size) /\ nb = BlocksFor(size)
      BY <1>3 DEF nb, Over, i
    <3>3. NoGaps(m) \/ DirectPtrs <= 2
      BY <1>5
    <3> QED
      BY <1>1, <2>2, <2>3, <2>6, <3>1, <3>2, <3>3, EmptiedIsLast
  <2>8. emptied => /\ size - EntriesPerBlock \in Nat
                   /\ BlocksFor(size) = i + 1
                   /\ BlocksFor(size - EntriesPerBlock) = i
    <3> SUFFICES ASSUME emptied
                 PROVE  /\ size - EntriesPerBlock \in Nat
                        /\ BlocksFor(size) = i + 1
                        /\ BlocksFor(size - EntriesPerBlock) = i
      OBVIOUS
    <3>1. /\ nb * EntriesPerBlock - EntriesPerBlock = (nb - 1) * EntriesPerBlock
          /\ BlocksFor((nb - 1) * EntriesPerBlock) = nb - 1
          /\ (nb - 1) * EntriesPerBlock \in Nat
      BY <2>2, <2>7, OneBlockLess
    <3>2. BlocksFor(size) = nb
      BY DEF nb
    <3> HIDE DEF size
    <3>3. size - EntriesPerBlock = (nb - 1) * EntriesPerBlock
      BY <2>7, <3>1
    <3> QED
      BY <2>2, <2>7, <3>1, <3>2, <3>3
  <2>9. emptied \in BOOLEAN
    BY DEF emptied, Emptied, BlockEmpty
  <2>10. Accounted(m)
    BY <1>1, <1>2, <2>3, <2>4, <2>5, <2>8, <2>9, RemovedAccounts
  <2> QED
    BY <1>5, <2>10
<1> QED
  BY <1>3, <1>4, <1>5

\* Every block that is marked in memory has an owner there; while write() runs
\* this is so on the disk as well, to which it goes back if it fails.
BlocksKept ==
  /\ Accounted(mem)
  /\ pc = "write" => Accounted(disk) /\ job.inum \in disk.inodeBitmap

\* The blocks of an image are a matter of its metadata.
LEMMA MetaAccounts ==
  ASSUME NEW d
  PROVE  Accounted(Meta(d)) <=> Accounted(d)
<1>1. Meta(d).inodeBitmap = d.inodeBitmap /\ Meta(d).dataBitmap = d.dataBitmap
      /\ Meta(d).inodes = d.inodes
  BY DEF Meta
<1> DEFINE m == Meta(d)
<1> HIDE DEF m
<1>2. m.inodeBitmap = d.inodeBitmap /\ m.dataBitmap = d.dataBitmap /\ m.inodes = d.inodes
  BY <1>1 DEF m
<1>3. Accounted(m) <=> Accounted(d)
  BY <1>2, SameAccounts
<1> QED
  BY <1>3 DEF m

\* A fresh image has one block, that of the root.
LEMMA InitAccounts == Init => BlocksKept
<1> SUFFICES ASSUME Init PROVE BlocksKept
  OBVIOUS
<1>1. PICK ino \in [Inodes -> StackInodes \cup {ZeroInode, RootInode}],
           rest \in [Slots -> StackNames] :
        /\ Formatted(ino)
        /\ disk = [inodeBitmap |-> {Root}, dataBitmap |-> {DataRegionAddr},
                   inodes |-> ino,
                   blocks |-> [b \in DataBlocks |->
                                 IF b = DataRegionAddr THEN RootBlock(rest) ELSE ZeroBlock]]
  BY DEF Init
<1>2. pc = "idle" /\ mem = Meta(disk)
  BY DEF Init
<1>3. disk.inodeBitmap = {Root} /\ disk.dataBitmap = {DataRegionAddr} /\ disk.inodes = ino
  BY <1>1
<1>4. Root \in Inodes /\ 0 \in Ptrs
  BY UFSAssumption DEF Root, Inodes, Ptrs
<1>5. /\ RootInode.direct[0] = DataRegionAddr /\ RootInode.size = 2
      /\ \A a \in Ptrs : RootInode.direct[a] \in DataBlocks => a = 0
      /\ \A a \in Ptrs : ZeroInode.direct[a] \notin DataBlocks
  BY <1>4, Layout DEF RootInode, ZeroInode
<1>6. /\ ino[Root] = RootInode
      /\ \A i \in Inodes \ {Root}, a \in Ptrs : ino[i].direct[a] \notin DataBlocks
  <2>1. SUFFICES ASSUME NEW i \in Inodes \ {Root}, NEW a \in Ptrs
                 PROVE  ino[i].direct[a] \notin DataBlocks
    BY <1>1 DEF Formatted
  <2>2. ino[i] \in StackInodes \/ ino[i] = ZeroInode
    BY <1>1 DEF Formatted
  <2> QED
    BY <1>5, <2>2, LFSAssumption
<1>7. BlocksFor(2) > 0
  <2>1. BlocksFor(2) \in Nat /\ 2 <= BlocksFor(2) * EntriesPerBlock
    BY BlocksOfSize
  <2>2. EntriesPerBlock \in Nat
    BY UFSAssumption
  <2> QED
    BY <2>1, <2>2
<1> HIDE DEF Root
<1>8. AllUsed(disk)
  BY <1>3, <1>4, <1>5, <1>6 DEF AllUsed
<1>9. Bare(disk)
  BY <1>3, <1>6 DEF Bare
<1>10. Snug(disk)
  BY <1>3, <1>5, <1>6, <1>7 DEF Snug
<1>11. Accounted(mem)
  BY <1>2, <1>8, <1>9, <1>10, MetaAccounts DEF Accounted
<1> QED
  BY <1>2, <1>11 DEF BlocksKept

\* The call is over and every block of the image has an owner.
LEMMA ReturnAccounts ==
  ASSUME Return(disk'), Accounted(disk')
  PROVE  BlocksKept'
<1>1. pc' = "idle" /\ mem' = Meta(disk')
  BY DEF Return
<1>2. Accounted(mem')
  BY <1>1, MetaAccounts
<1> QED
  BY <1>1, <1>2 DEF BlocksKept

\* A call on the directory tree begins, or is refused.
LEMMA StartAccounts ==
  ASSUME BlocksKept, pc = "idle", NEW j, NEW plan, Start(j, plan),
         ~IsRefused(plan) => Accounted(plan.mem)
  PROVE  BlocksKept'
<1>1. CASE UNCHANGED vars
  BY <1>1 DEF vars, BlocksKept
<1>2. CASE ~IsRefused(plan) /\ Proceed(j, plan)
  <2>1. mem' = plan.mem /\ pc' # "write"
    BY <1>2 DEF Proceed
  <2> QED
    BY <1>2, <2>1 DEF BlocksKept
<1> QED
  BY <1>1, <1>2 DEF Start

\* Between two calls what the disk marks has an owner.
LEMMA IdleAccounts == Kept /\ BlocksKept /\ pc = "idle" => Accounted(disk)
<1> SUFFICES ASSUME Kept, BlocksKept, pc = "idle" PROVE Accounted(disk)
  OBVIOUS
<1>1. mem = Meta(disk) /\ Accounted(mem)
  BY DEF Kept, Ownership, Control, BlocksKept
<1> QED
  BY <1>1, MetaAccounts

\* create begins.
LEMMA CreateStarts ==
  ASSUME Kept, NamesKept, BlocksKept, NEW p, NEW type \in {Directory, RegularFile}, NEW n,
         Create(p, type, n)
  PROVE  BlocksKept'
<1> DEFINE plan == CreatePlan(disk, p, type, n)
           j    == [op |-> "create", inum |-> p, type |-> type, name |-> n, ret |-> plan.ret]
<1>1. pc = "idle" /\ Start(j, plan)
  BY DEF Create
<1>2. Tree(disk) /\ Usable(disk) /\ Accounted(disk)
  BY <1>1, IdleTree, IdleAccounts
<1>3. ~IsRefused(plan) => Accounted(plan.mem)
  <2> HIDE DEF plan
  <2>1. plan = CreatePlan(disk, p, type, n)
    BY DEF plan
  <2> QED
    BY <1>2, <2>1, CreateAccounts
<1> HIDE DEF plan, j
<1> QED
  BY <1>1, <1>3, StartAccounts

\* unlink begins.
LEMMA UnlinkStarts ==
  ASSUME Asan, Kept, NamesKept, BlocksKept, NEW p, NEW n, Unlink(p, n),
         NoGap' \/ DirectPtrs <= 2
  PROVE  BlocksKept'
<1>1. PICK plan \in UnlinkPlans(disk, p, n) : UnlinkWith(p, n, plan)
  BY DEF Unlink
<1>2. PICK heap \in [HeapRange(disk, p) -> HeapCells], lucky \in BOOLEAN :
             plan = UnlinkPlan(disk, p, n, heap, lucky)
  BY <1>1 DEF UnlinkPlans
<1> DEFINE j == [op |-> "unlink", inum |-> p, name |-> n, ret |-> plan.ret]
<1>3. pc = "idle" /\ Start(j, plan)
  BY <1>1 DEF UnlinkWith
<1>4. Tree(disk) /\ Usable(disk) /\ Accounted(disk)
  BY <1>3, IdleTree, IdleAccounts
<1> HIDE DEF j
<1>5. ~IsRefused(plan) => Accounted(plan.mem)
  <2> SUFFICES ASSUME ~IsRefused(plan) PROVE Accounted(plan.mem)
    OBVIOUS
  <2>1. mem' = plan.mem
    BY <1>3 DEF Start, Proceed
  <2>2. NoGaps(plan.mem) \/ DirectPtrs <= 2
    BY <2>1 DEF NoGap
  <2> QED
    BY <1>2, <1>4, <2>2, UnlinkAccounts
<1> QED
  BY <1>3, <1>5, StartAccounts

\* write() begins: callers know that the inode is allocated.
LEMMA WriteStarts ==
  ASSUME Kept, BlocksKept, NEW i, NEW text, NEW size, Write(i, text, size),
         pc = "idle" /\ pc' = "write" => job'.inum \in disk.inodeBitmap
  PROVE  BlocksKept'
<1>1. CASE UNCHANGED vars
  BY <1>1 DEF vars, BlocksKept
<1>2. CASE pc' = "write" /\ UNCHANGED <<disk, pending, mem, k>>
  <2>1. pc = "idle"
    BY DEF Write
  <2> QED
    BY <1>2, <2>1, IdleAccounts DEF BlocksKept
<1> QED
  BY <1>1, <1>2 DEF Write

\* Behind a step of the loop of write() the disk marks what it did.
LEMMA LoopAccounts ==
  ASSUME Kept, BlocksKept, NEW b \in DataBlocks, PutChunk(b), pc = "write",
         UNCHANGED <<pc, job>>, Accounted(mem')
  PROVE  BlocksKept'
<1>1. disk'.inodeBitmap = disk.inodeBitmap /\ disk'.dataBitmap = disk.dataBitmap
      /\ disk'.inodes = disk.inodes
  BY DEF PutChunk, Kept, Ownership, Structure
<1>2. Accounted(disk')
  BY <1>1, SameAccounts DEF BlocksKept
<1> QED
  BY <1>1, <1>2 DEF BlocksKept

\* write() takes a block.
LEMMA WriteAllocateAccounts == Kept /\ NamesKept /\ BlocksKept /\ WriteAllocate => BlocksKept'
<1> SUFFICES ASSUME Kept, NamesKept, BlocksKept, WriteAllocate PROVE BlocksKept'
  OBVIOUS
<1> DEFINE b == Least(DataBlocks \ mem.dataBitmap)
           i == job.inum
<1>1. /\ InLoop /\ PutChunk(b) /\ mem' = WithChunk(mem, i, k, b)
      /\ mem.dataBitmap # DataBlocks /\ UNCHANGED <<pc, job, pending>>
      /\ ~Reuses(mem.inodes[i])
  BY DEF WriteAllocate, WithChunk
<1>2. i \in Inodes /\ k \in Ptrs /\ pc = "write" /\ k \in Nat
  BY <1>1, InTheLoop
<1>3. mem \in Metadata /\ Marked(mem.inodes, mem.dataBitmap)
  BY DEF Kept, Ownership, Structure, Owners
<1>4. b \in DataBlocks /\ b \notin mem.dataBitmap
  <2>1. DataBlocks \ mem.dataBitmap \in SUBSET Nat
    BY Layout
  <2>2. DataBlocks \ mem.dataBitmap # {}
    BY <1>1, <1>3 DEF Metadata
  <2> QED
    BY <2>1, <2>2, LeastIsMinimum
<1> HIDE DEF b
<1>5. /\ mem'.inodeBitmap = mem.inodeBitmap /\ mem'.dataBitmap = mem.dataBitmap \cup {b}
      /\ mem'.inodes = [mem.inodes EXCEPT ![i].direct[k] = b]
  BY <1>1, <1>3 DEF WithChunk, Metadata
<1>6. /\ \A j \in Inodes \ {i} : mem'.inodes[j] = mem.inodes[j]
      /\ mem'.inodes[i] = [mem.inodes[i] EXCEPT !.direct[k] = b]
      /\ mem.inodes[i] \in Inode
  BY <1>2, <1>3, <1>5 DEF Metadata
<1>7. /\ mem'.inodes[i].type = mem.inodes[i].type
      /\ mem'.inodes[i].direct = [mem.inodes[i].direct EXCEPT ![k] = b]
      /\ mem.inodes[i].direct \in [Ptrs -> Int]
  BY <1>6 DEF Inode
<1>8. \A a \in Ptrs : mem'.inodes[i].direct[a] = IF a = k THEN b ELSE mem.inodes[i].direct[a]
  BY <1>2, <1>7
<1>9. mem.inodes[i].type = RegularFile /\ i \in mem.inodeBitmap
  <2>1. disk.inodeBitmap = mem.inodeBitmap
    BY <1>2 DEF Kept, Contents, FilesApart
  <2> QED
    BY <1>2, <2>1 DEF NamesKept, CallKnows, BlocksKept
<1>10. mem.inodes[i].direct[k] \notin DataBlocks
  <2>1. SUFFICES ASSUME mem.inodes[i].direct[k] \in DataBlocks PROVE FALSE
    OBVIOUS
  <2>2. k < k \/ k < BlocksFor(mem.inodes[i].size)
    BY <1>2, <2>1 DEF Kept, Contents, WriteSoFar
  <2>3. mem.inodes[i].direct[k] # NoBlock
    BY <2>1, Layout
  <2> QED
    BY <1>1, <1>2, <2>2, <2>3 DEF Reuses
<1> HIDE DEF i
<1>11. AllUsed(mem')
  <2>1. SUFFICES ASSUME NEW c \in mem'.dataBitmap
                 PROVE  \E j \in Inodes, a \in Ptrs : mem'.inodes[j].direct[a] = c
    BY DEF AllUsed
  <2>2. CASE c = b
    BY <1>2, <1>8, <2>2
  <2>3. CASE c \in mem.dataBitmap
    <3>1. PICK j \in Inodes, a \in Ptrs : mem.inodes[j].direct[a] = c
      BY <2>3 DEF BlocksKept, Accounted, AllUsed
    <3>2. c \in DataBlocks
      BY <1>3, <2>3 DEF Metadata
    <3>3. ~(j = i /\ a = k)
      BY <1>10, <3>1, <3>2
    <3> QED
      BY <1>6, <1>8, <3>1, <3>3
  <2> QED
    BY <1>5, <2>1, <2>2, <2>3
<1>12. Bare(mem')
  BY <1>5, <1>6, <1>9 DEF BlocksKept, Accounted, Bare
<1>13. Snug(mem')
  <2>1. mem'.inodes[i].type # Directory
    BY <1>7, <1>9 DEF Directory, RegularFile
  <2> QED
    BY <1>6, <2>1 DEF BlocksKept, Accounted, Snug
<1>14. Accounted(mem')
  BY <1>11, <1>12, <1>13 DEF Accounted
<1> QED
  BY <1>1, <1>2, <1>4, <1>14, LoopAccounts

\* write() gives the rest of the old body back.
LEMMA WriteTrimAccounts == Kept /\ NamesKept /\ BlocksKept /\ WriteTrim => BlocksKept'
<1> SUFFICES ASSUME Kept, NamesKept, BlocksKept, WriteTrim PROVE BlocksKept'
  OBVIOUS
<1> DEFINE i    == job.inum
           ino  == mem.inodes[i]
           drop == {a \in Held(ino, BlocksFor(ino.size)) : a >= BlocksFor(job.ret)}
<1>1. pc = "write" /\ disk' = disk
  BY DEF WriteTrim
<1>2. CASE Return(disk)
  <2>1. Return(disk') /\ Accounted(disk')
    BY <1>1, <1>2 DEF Return, BlocksKept
  <2> QED
    BY <2>1, ReturnAccounts
<1>3. CASE pc' = "dataBitmap" /\ mem' = Trimmed(mem, i, job.ret, drop)
  <2>1. /\ mem \in Metadata /\ i \in Inodes /\ job.ret \in Int
        /\ disk.inodeBitmap = mem.inodeBitmap /\ ino.type = RegularFile
    BY <1>1 DEF Kept, Ownership, Structure, Control, Contents, FilesApart, NamesKept, CallKnows
  <2>2. i \in mem.inodeBitmap
    BY <1>1, <2>1 DEF BlocksKept
  <2>3. drop \in SUBSET Ptrs
    BY DEF Held
  <2>4. \A j \in Inodes \ {i} : mem'.inodes[j] = mem.inodes[j]
    BY <1>3, <2>1 DEF Trimmed, Metadata
  <2>5. mem'.inodes[i].type = RegularFile
    <3> DEFINE ptrs == [a \in Ptrs |-> IF a \in drop THEN NoBlock ELSE ino.direct[a]]
               new  == Changed(ino, job.ret, ptrs)
    <3>1. mem'.inodes = [mem.inodes EXCEPT ![i] = new]
      BY <1>3, <2>1 DEF Trimmed, Changed, Metadata
    <3>2. ino \in Inode /\ ino.type = RegularFile
      BY <2>1 DEF Metadata
    <3> HIDE DEF ino, ptrs
    <3>3. new.type = RegularFile
      BY <3>2 DEF Changed, Inode
    <3> HIDE DEF new
    <3>4. mem'.inodes[i] = new
      BY <2>1, <3>1 DEF Metadata
    <3> QED
      BY <3>3, <3>4
  <2> HIDE DEF drop, i
  <2>6. /\ mem'.inodeBitmap = mem.inodeBitmap
        /\ mem'.dataBitmap = mem.dataBitmap \ {mem.inodes[i].direct[a] : a \in drop}
        /\ \A j \in Inodes, c \in Ptrs : mem'.inodes[j].direct[c] =
              IF j = i /\ c \in drop THEN NoBlock ELSE mem.inodes[j].direct[c]
    <3>1. mem' = Trimmed(mem, i, job.ret, drop)
      BY <1>3
    <3> QED
      BY <2>1, <2>3, <3>1, TrimmedInodes
  <2>7. AllUsed(mem')
    <3>1. SUFFICES ASSUME NEW c \in mem'.dataBitmap
                   PROVE  \E j \in Inodes, a \in Ptrs : mem'.inodes[j].direct[a] = c
      BY DEF AllUsed
    <3>2. PICK j \in Inodes, a \in Ptrs : mem.inodes[j].direct[a] = c
      BY <2>6, <3>1 DEF BlocksKept, Accounted, AllUsed
    <3>3. ~(j = i /\ a \in drop)
      BY <2>6, <3>1, <3>2
    <3> QED
      BY <2>6, <3>2, <3>3
  <2>8. Bare(mem')
    BY <2>2, <2>4, <2>6 DEF BlocksKept, Accounted, Bare
  <2>9. Snug(mem')
    <3>1. mem'.inodes[i].type # Directory
      BY <2>5 DEF Directory, RegularFile
    <3> QED
      BY <2>4, <3>1 DEF BlocksKept, Accounted, Snug
  <2> QED
    BY <1>3, <2>7, <2>8, <2>9 DEF BlocksKept, Accounted
<1> QED
  BY <1>2, <1>3 DEF WriteTrim, Trimmed

\* The steps of write().
LEMMA WriteStepAccounts == Kept /\ NamesKept /\ BlocksKept /\ WriteSteps => BlocksKept'
<1> SUFFICES ASSUME Kept, NamesKept, BlocksKept, WriteSteps PROVE BlocksKept'
  OBVIOUS
<1>1. CASE WriteReuse
  <2> DEFINE b == mem.inodes[job.inum].direct[k]
  <2>1. InLoop /\ b \in DataBlocks /\ PutChunk(b) /\ UNCHANGED <<pc, job, pending, mem>>
    BY <1>1 DEF WriteReuse
  <2>2. pc = "write"
    BY <2>1 DEF InLoop
  <2> HIDE DEF b
  <2> QED
    BY <2>1, <2>2, LoopAccounts DEF BlocksKept
<1>2. CASE WriteFails
  <2>1. Return(disk') /\ disk' = disk /\ pc = "write"
    BY <1>2 DEF WriteFails, Return, InLoop
  <2> QED
    BY <2>1, ReturnAccounts DEF BlocksKept
<1> QED
  BY <1>1, <1>2, WriteAllocateAccounts, WriteTrimAccounts DEF WriteSteps

\* The block writes of a call that has decided: memory stays as it is, and is
\* what the disk has when the call returns.
LEMMA FlushAccounts == Kept /\ NamesKept /\ BlocksKept /\ Flush => BlocksKept'
<1> SUFFICES ASSUME Kept, NamesKept, BlocksKept, Flush PROVE BlocksKept'
  OBVIOUS
<1>1. CASE FlushBlock
  <2>1. pc = "blocks" /\ Meta(disk') = Meta(disk)
    BY <1>1 DEF FlushBlock, Meta, Kept, Ownership, Structure
  <2>2. CASE Return(disk') /\ job.ret < 0
    <3>1. mem = Meta(disk)
      BY <2>1, <2>2 DEF NamesKept, CallKnows
    <3>2. Accounted(disk')
      BY <2>1, <3>1, MetaAccounts DEF BlocksKept
    <3> QED
      BY <2>2, <3>2, ReturnAccounts
  <2>3. CASE mem' = mem /\ pc' # "write"
    BY <2>3 DEF BlocksKept
  <2> QED
    BY <1>1, <2>2, <2>3 DEF FlushBlock
<1>2. CASE FlushInodeBitmap
  BY <1>2 DEF FlushInodeBitmap, BlocksKept
<1>3. CASE FlushDataBitmap
  <2>1. mem' = mem
    BY <1>3, FlushDataBitmapMem DEF Kept
  <2> QED
    BY <1>3, <2>1 DEF FlushDataBitmap, BlocksKept
<1>4. CASE FlushRegion
  <2>1. pc = "region" /\ disk.dataBitmap = mem.dataBitmap /\ disk \in Image
    BY <1>4 DEF FlushRegion, Kept, Ownership, Control, Contents, TypeOK
  <2>2. CASE k + 1 = InodeRegionLen
    <3>1. disk'.inodeBitmap = mem.inodeBitmap /\ disk'.inodes = mem.inodes
      BY <1>4, <2>2, RegionDone
    <3>2. disk'.dataBitmap = mem.dataBitmap
      BY <1>4, <2>1 DEF FlushRegion, Image
    <3>3. Accounted(disk')
      BY <3>1, <3>2, SameAccounts DEF BlocksKept
    <3>4. Return(disk')
      BY <1>4, <2>2 DEF FlushRegion
    <3> QED
      BY <3>3, <3>4, ReturnAccounts
  <2>3. CASE k + 1 # InodeRegionLen
    BY <1>4, <2>1, <2>3 DEF FlushRegion, BlocksKept
  <2> QED
    BY <2>2, <2>3
<1> QED
  BY <1>1, <1>2, <1>3, <1>4 DEF Flush

\* The invariant is inductive.
LEMMA NextAccounts ==
  ASSUME Asan, Kept, NamesKept, BlocksKept, [ServerNext]_vars, NoGap' \/ DirectPtrs <= 2
  PROVE  BlocksKept'
<1>1. CASE \E p \in AnyInode, type \in {Directory, RegularFile}, n \in AnyName : Create(p, type, n)
  BY <1>1, CreateStarts
<1>2. CASE \E p \in AnyInode, n \in AnyName : Unlink(p, n)
  BY <1>2, UnlinkStarts
<1>3. CASE /\ \E i \in AnyInode, text \in FileCells, size \in Sizes : Write(i, text, size)
           /\ pc = "idle" /\ pc' = "write" => job'.inum \in disk.inodeBitmap
  BY <1>3, WriteStarts
<1>4. CASE WriteSteps
  BY <1>4, WriteStepAccounts
<1>5. CASE Flush
  BY <1>5, FlushAccounts
<1>6. CASE UNCHANGED vars
  BY <1>6 DEF vars, BlocksKept
<1> QED
  BY <1>1, <1>2, <1>3, <1>4, <1>5, <1>6 DEF ServerNext, Calls

\* Then no data block is lost: whatever is marked on the disk between two calls
\* belongs to an inode, as long as callers write to inodes that are allocated and
\* unlink leaves no gap in a directory.  (A gap makes unlink forget the block that
\* lies behind the new size.)
THEOREM NoBlockIsLost ==
  ASSUME Asan
  PROVE  ServerSpec /\ []NoGap => []NoLostBlock
<1>1. ServerNext => Calls
  BY DEF ServerNext
<1>2. [ServerNext]_vars => [Calls]_vars
  BY <1>1
<1>3. ServerSpec => Spec
  BY <1>2, PTL DEF ServerSpec, Spec
<1>4. Kept /\ NamesKept /\ NoGap' /\ BlocksKept /\ [ServerNext]_vars => BlocksKept'
  BY NextAccounts
<1>5. Kept /\ BlocksKept => NoLostBlock
  <2> SUFFICES ASSUME Kept, BlocksKept, pc = "idle" PROVE AllUsed(disk)
    BY DEF NoLostBlock, AllUsed
  <2> QED
    BY IdleAccounts DEF Accounted
<1> QED
  BY <1>3, <1>4, <1>5, InitAccounts, NamesAreKept, SpecRestarts, PTL DEF ServerSpec

=============================================================================
