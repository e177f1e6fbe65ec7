--------------------------- MODULE NameSpaceProofs ---------------------------
(***************************************************************************)
(* Proofs about the names of an image of any size.  A name that a call is  *)
(* not about leads where it led, whatever of the call has been written.    *)
(* LocalFileSystem implements NameSpace: every call is one change of the   *)
(* tree of names, or none, and so the names make a tree.                   *)
(***************************************************************************)
EXTENDS LFSNameSpace, LFSProofs

(***************************************************************************)
(* The names that a call is not about.                                     *)
(***************************************************************************)

\* lookup has found nothing.
Missed(x) == x \in Int /\ x < 0

\* What lookup answers is the same: the same inode, or that there is none.
Same(x, y) == x = y \/ (Missed(x) /\ Missed(y))

\* The blocks of a directory show every entry of the row that has the name s,
\* where the row has it, and no other that lookup would take.
RowShows(e, p, row, s) ==
  LET ino == e.inodes[p]
      top == BlocksFor(ino.size) * EntriesPerBlock
  IN  /\ ino.type = Directory
      /\ BlocksFor(ino.size) \in Nat /\ BlocksFor(ino.size) <= DirectPtrs
      /\ \A a \in 0 .. BlocksFor(ino.size) - 1 : ino.direct[a] \in DataBlocks
      /\ \A pos \in 0 .. top - 1 : CellAt(e, ino, pos).name = s =>
           \/ pos \in NamedIn(row) /\ CellAt(e, ino, pos) = row[pos]
           \/ CellAt(e, ino, pos).inum = -1 /\ \A f \in NamedIn(row) : f < pos
      /\ \A f \in NamedIn(row) : row[f].name = s =>
           f \in 0 .. top - 1 /\ CellAt(e, ino, f) = row[f] /\ row[f].inum # 0

\* No name is twice in a row.
OnceEach(row) == \A e, f \in NamedIn(row) : row[e].name = row[f].name => e = f

\* What lookup of s says is what the row says.
Answers(e, p, row, s) ==
  /\ NameFree(row, s) => Missed(Lookup(e, p, s))
  /\ \A f \in NamedIn(row) : row[f].name = s => Lookup(e, p, s) = row[f].inum

\* lookup looks at all the slots of a directory without gaps.
LEMMA AllLookedAt ==
  ASSUME NEW ino, NEW u \in Nat, u = BlocksFor(ino.size), u <= DirectPtrs,
         \A a \in 0 .. u - 1 : ino.direct[a] \in DataBlocks
  PROVE  PositionsIn({x \in Held(ino, BlocksFor(ino.size)) : ino.direct[x] # Unset})
           = 0 .. u * EntriesPerBlock - 1
<1>1. DirectPtrs \in Nat /\ Ptrs = 0 .. DirectPtrs - 1
  BY UFSAssumption DEF Ptrs
<1>2. Held(ino, u) = 0 .. u - 1
  BY <1>1, Layout DEF Held
<1>3. {x \in Held(ino, u) : ino.direct[x] # Unset} = 0 .. u - 1
  BY <1>2, Layout
<1> QED
  BY <1>3, AllPositions

\* Then lookup of s answers from the row.
LEMMA LookupOfRow ==
  ASSUME NEW e, NEW p \in Inodes, NEW row, NEW s, RowShows(e, p, row, s), OnceEach(row)
  PROVE  Answers(e, p, row, s)
<1> DEFINE ino  == e.inodes[p]
           u    == BlocksFor(ino.size)
           top  == u * EntriesPerBlock
           ks   == {x \in Held(ino, u) : ino.direct[x] # Unset}
           hits == {pos \in PositionsIn(ks) :
                      CellAt(e, ino, pos).inum # 0 /\ CellAt(e, ino, pos).name = s}
<1>1. /\ ino.type = Directory /\ u \in Nat /\ u <= DirectPtrs
      /\ \A a \in 0 .. u - 1 : ino.direct[a] \in DataBlocks
      /\ \A pos \in 0 .. top - 1 : CellAt(e, ino, pos).name = s =>
           \/ pos \in NamedIn(row) /\ CellAt(e, ino, pos) = row[pos]
           \/ CellAt(e, ino, pos).inum = -1 /\ \A f \in NamedIn(row) : f < pos
      /\ \A f \in NamedIn(row) : row[f].name = s =>
           f \in 0 .. top - 1 /\ CellAt(e, ino, f) = row[f] /\ row[f].inum # 0
  BY DEF RowShows
<1>2. PositionsIn(ks) = 0 .. top - 1
  BY <1>1, AllLookedAt
<1>3. Lookup(e, p, s) = IF hits = {} THEN -ENOTFOUND ELSE CellAt(e, ino, Least(hits)).inum
  BY <1>1 DEF Lookup, StatFails
<1>4. top \in Nat
  BY <1>1, UFSAssumption
<1> HIDE DEF ino, u, top, ks
<1>5. \A h \in hits : h \in Nat /\ h \in 0 .. top - 1 /\ CellAt(e, ino, h).name = s
  BY <1>2, <1>4
<1>6. hits # {} => Least(hits) \in hits /\ \A y \in hits : Least(hits) <= y
  <2> HIDE DEF hits
  <2>1. hits \in SUBSET Nat
    BY <1>5
  <2> QED
    BY <2>1, LeastIsMinimum
<1>7. ASSUME NameFree(row, s) PROVE Missed(Lookup(e, p, s))
  <2>1. CASE hits = {}
    BY <1>3, <2>1 DEF ENOTFOUND, Missed
  <2>2. CASE hits # {}
    <3> DEFINE h == Least(hits)
    <3>1. h \in hits
      BY <1>6, <2>2
    <3> HIDE DEF h, hits
    <3>2. h \in 0 .. top - 1 /\ CellAt(e, ino, h).name = s
      BY <1>5, <3>1
    <3>3. ~(h \in NamedIn(row) /\ CellAt(e, ino, h) = row[h])
      BY <1>7, <3>2 DEF NameFree
    <3>4. CellAt(e, ino, h).inum = -1
      BY <1>1, <3>2, <3>3
    <3> QED
      BY <1>3, <2>2, <3>4 DEF h, Missed
  <2> QED
    BY <2>1, <2>2
<1>8. ASSUME NEW f \in NamedIn(row), row[f].name = s
      PROVE  Lookup(e, p, s) = row[f].inum
  <2>1. f \in 0 .. top - 1 /\ CellAt(e, ino, f) = row[f] /\ row[f].inum # 0
    BY <1>1, <1>8
  <2>2. f \in hits
    BY <1>2, <1>8, <2>1
  <2> DEFINE h == Least(hits)
  <2>3. h \in hits /\ h <= f
    BY <1>6, <2>2
  <2> HIDE DEF h, hits
  <2>4. h \in 0 .. top - 1 /\ CellAt(e, ino, h).name = s /\ h \in Nat
    BY <1>5, <2>3
  <2>5. f \in Nat /\ ~(f < h)
    BY <1>4, <2>1, <2>3, <2>4
  <2>6. h \in NamedIn(row) /\ CellAt(e, ino, h) = row[h]
    BY <1>1, <1>8, <2>4, <2>5
  <2>7. h = f
    BY <1>8, <2>4, <2>6 DEF OnceEach
  <2> QED
    BY <1>3, <2>1, <2>2, <2>7 DEF h
<1> QED
  BY <1>7, <1>8 DEF Answers

\* Two images whose directories show the same row answer the same.
LEMMA SameRows ==
  ASSUME NEW e, NEW d, NEW p \in Inodes, NEW row, NEW s, RowShows(e, p, row, s),
         RowShows(d, p, row, s), OnceEach(row)
  PROVE  Same(Lookup(e, p, s), Lookup(d, p, s))
<1>1. Answers(e, p, row, s) /\ Answers(d, p, row, s)
  BY LookupOfRow
<1>3. CASE NameFree(row, s)
  BY <1>1, <1>3 DEF Same, Answers
<1>4. CASE ~NameFree(row, s)
  <2>1. PICK f \in NamedIn(row) : row[f].name = s
    BY <1>4 DEF NameFree
  <2> QED
    BY <1>1, <2>1 DEF Same, Answers
<1> QED
  BY <1>3, <1>4

\* A directory of a tree shows its row.
LEMMA TreeShowsRow ==
  ASSUME NEW d, Tree(d), NEW p \in Directories(d), NEW s \in Names
  PROVE  /\ RowShows(d, p, RowOf(d, p), s) /\ OnceEach(RowOf(d, p))
         /\ DOMAIN RowOf(d, p) = 0 .. d.inodes[p].size - 1
<1> DEFINE ino == d.inodes[p]
           u   == BlocksFor(ino.size)
           top == u * EntriesPerBlock
           row == RowOf(d, p)
<1>1. Filled(d, p) /\ ino.type = Directory
  BY DEF Tree, Directories
<1>2. /\ u \in Nat /\ u <= DirectPtrs
      /\ \A a \in 0 .. u - 1 : ino.direct[a] \in DataBlocks
      /\ ino.size \in Nat /\ ino.size <= top /\ top \in Nat
      /\ \A pos \in ino.size .. top - 1 : CellAt(d, ino, pos).inum = -1
  BY <1>1, BlocksOfDirectory, BlocksOfSize DEF Filled
<1>3. DOMAIN row = 0 .. ino.size - 1 /\ \A f \in 0 .. ino.size - 1 : row[f] = CellAt(d, ino, f)
  BY DEF RowOf
<1>4. DirRow(p, row) /\ \A f \in NamedIn(row) : row[f].inum # 0
  <2>1. /\ Forest(d.inodeBitmap, RowsOf(d)) /\ p \in DOMAIN RowsOf(d) /\ RowsOf(d)[p] = row
    BY DEF Tree, RowsOf
  <2> HIDE DEF row
  <2>2. \A f \in NamedIn(row) : Leads(d.inodeBitmap, RowsOf(d), p, f)
    BY <2>1 DEF Forest
  <2> QED
    BY <2>1, <2>2 DEF Forest, Leads, Root
<1>5. OnceEach(row)
  BY <1>4 DEF DirRow, OnceEach
<1> HIDE DEF ino, u, top, row
<1>6. ASSUME NEW pos \in 0 .. top - 1, CellAt(d, ino, pos).name = s
      PROVE  \/ pos \in NamedIn(row) /\ CellAt(d, ino, pos) = row[pos]
             \/ CellAt(d, ino, pos).inum = -1 /\ \A f \in NamedIn(row) : f < pos
  <2>1. CASE pos < ino.size
    <3>1. pos \in 0 .. ino.size - 1
      BY <1>2, <2>1
    <3> QED
      BY <1>3, <1>6, <3>1 DEF NamedIn
  <2>2. CASE ~(pos < ino.size)
    <3>1. pos \in ino.size .. top - 1
      BY <1>2, <2>2
    <3>2. \A f \in NamedIn(row) : f < pos
      BY <1>2, <1>3, <3>1 DEF NamedIn
    <3> QED
      BY <1>2, <3>1, <3>2
  <2> QED
    BY <2>1, <2>2
<1>7. ASSUME NEW f \in NamedIn(row)
      PROVE  f \in 0 .. top - 1 /\ CellAt(d, ino, f) = row[f] /\ row[f].inum # 0
  <2>1. f \in 0 .. ino.size - 1
    BY <1>3 DEF NamedIn
  <2> QED
    BY <1>2, <1>3, <1>4, <2>1
<1>8. RowShows(d, p, row, s)
  BY <1>1, <1>2, <1>6, <1>7 DEF RowShows, ino, u, top
<1> QED
  BY <1>3, <1>5, <1>8 DEF row, ino

\* Directory p of e shows what it shows in d, but for entries n and entries
\* whose name is cleared.
Carried(d, p, n, e) ==
  LET ino == e.inodes[p]
      top == BlocksFor(ino.size) * EntriesPerBlock
      old == BlocksFor(d.inodes[p].size) * EntriesPerBlock
      row == RowOf(d, p)
  IN  /\ ino.type = Directory
      /\ BlocksFor(ino.size) \in Nat /\ BlocksFor(ino.size) <= DirectPtrs
      /\ \A a \in 0 .. BlocksFor(ino.size) - 1 : ino.direct[a] \in DataBlocks
      /\ \A pos \in 0 .. top - 1 :
           \/ pos \in 0 .. old - 1 /\ CellAt(e, ino, pos) = CellAt(d, d.inodes[p], pos)
           \/ CellAt(e, ino, pos).name \in {n, NoName}
      /\ \A f \in NamedIn(row) : row[f].name # n =>
           f \in 0 .. top - 1 /\ CellAt(e, ino, f) = row[f]

\* Then lookup of any other name answers the same.
LEMMA CarriedIsSame ==
  ASSUME NEW d, Tree(d), NEW p \in Directories(d) \cap Inodes, NEW n, NEW e, Carried(d, p, n, e),
         NEW s \in Names, s # n
  PROVE  Same(Lookup(e, p, s), Lookup(d, p, s))
<1> DEFINE ino == e.inodes[p]
           was == d.inodes[p]
           top == BlocksFor(ino.size) * EntriesPerBlock
           old == BlocksFor(was.size) * EntriesPerBlock
           row == RowOf(d, p)
<1>1. /\ RowShows(d, p, row, s) /\ OnceEach(row) /\ DOMAIN row = 0 .. was.size - 1
  BY TreeShowsRow
<1> HIDE DEF row
<1>2. /\ \A pos \in 0 .. old - 1 : CellAt(d, was, pos).name = s =>
           \/ pos \in NamedIn(row) /\ CellAt(d, was, pos) = row[pos]
           \/ CellAt(d, was, pos).inum = -1 /\ \A f \in NamedIn(row) : f < pos
      /\ \A f \in NamedIn(row) : row[f].name = s => row[f].inum # 0
  BY <1>1 DEF RowShows
<1>3. /\ ino.type = Directory
      /\ BlocksFor(ino.size) \in Nat /\ BlocksFor(ino.size) <= DirectPtrs
      /\ \A a \in 0 .. BlocksFor(ino.size) - 1 : ino.direct[a] \in DataBlocks
      /\ \A pos \in 0 .. top - 1 :
           \/ pos \in 0 .. old - 1 /\ CellAt(e, ino, pos) = CellAt(d, was, pos)
           \/ CellAt(e, ino, pos).name \in {n, NoName}
      /\ \A f \in NamedIn(row) : row[f].name # n =>
           f \in 0 .. top - 1 /\ CellAt(e, ino, f) = row[f]
  BY DEF Carried, row
<1> HIDE DEF top, old, ino, was
<1>4. \A pos \in 0 .. top - 1 : CellAt(e, ino, pos).name = s =>
           \/ pos \in NamedIn(row) /\ CellAt(e, ino, pos) = row[pos]
           \/ CellAt(e, ino, pos).inum = -1 /\ \A f \in NamedIn(row) : f < pos
  <2> TAKE pos \in 0 .. top - 1
  <2> HAVE CellAt(e, ino, pos).name = s
  <2>1. pos \in 0 .. old - 1 /\ CellAt(e, ino, pos) = CellAt(d, was, pos)
    BY <1>3, NoNameIsNone
  <2> QED
    BY <1>2, <2>1
<1>5. \A f \in NamedIn(row) : row[f].name = s =>
           f \in 0 .. top - 1 /\ CellAt(e, ino, f) = row[f] /\ row[f].inum # 0
  BY <1>2, <1>3
<1>6. RowShows(e, p, row, s)
  BY <1>3, <1>4, <1>5 DEF RowShows, ino, top
<1> QED
  BY <1>1, <1>6, SameRows

\* The inodes x and the blocks C as lookup sees them.
Seen(x, C) == [inodes |-> x, blocks |-> C]

\* An inode in which lookup finds nothing, whatever the blocks hold: what mkfs
\* and unlink leave in the inodes that are free.
Dull(ino) ==
  ino.type = Directory =>
    \A a \in Ptrs : a < BlocksFor(ino.size) => ino.direct[a] \in {NoBlock, Unset}

\* lookup in it fails.
LEMMA DullIsNotFound ==
  ASSUME NEW e, NEW q, Dull(e.inodes[q]), NEW s
  PROVE  Missed(Lookup(e, q, s))
<1> DEFINE ino  == e.inodes[q]
           ks   == {x \in Held(ino, BlocksFor(ino.size)) : ino.direct[x] # Unset}
           hits == {pos \in PositionsIn(ks) :
                      CellAt(e, ino, pos).inum # 0 /\ CellAt(e, ino, pos).name = s}
<1>1. CASE StatFails(q) \/ ino.type # Directory
  BY <1>1 DEF Lookup, EINVALIDINODE, Missed
<1>2. CASE ~(StatFails(q) \/ ino.type # Directory)
  <2>1. Lookup(e, q, s) = IF hits = {} THEN -ENOTFOUND ELSE CellAt(e, ino, Least(hits)).inum
    BY <1>2 DEF Lookup
  <2>2. ks = {}
    BY <1>2 DEF Dull, Held
  <2> HIDE DEF ks
  <2>3. PositionsIn(ks) = {}
    BY <2>2 DEF PositionsIn
  <2>4. hits = {}
    BY <2>3
  <2> HIDE DEF hits
  <2> QED
    BY <2>1, <2>4 DEF ENOTFOUND, Missed
<1> QED
  BY <1>1, <1>2

\* lookup depends on the inode of the directory and on the blocks.
LEMMA LookupDependsOn ==
  ASSUME NEW d, NEW e, NEW q, e.inodes[q] = d.inodes[q], e.blocks = d.blocks, NEW s
  PROVE  Lookup(e, q, s) = Lookup(d, q, s)
<1>1. \A ino, pos : CellAt(e, ino, pos) = CellAt(d, ino, pos)
  BY DEF CellAt
<1> QED
  BY <1>1 DEF Lookup

\* And on no blocks but those of the directory.
LEMMA LookupStays ==
  ASSUME NEW d, NEW e, NEW q, d.inodes[q].type = Directory => Filled(d, q),
         e.inodes[q] = d.inodes[q],
         \A a \in Ptrs : d.inodes[q].direct[a] \in DataBlocks =>
            e.blocks[d.inodes[q].direct[a]] = d.blocks[d.inodes[q].direct[a]],
         NEW s
  PROVE  Lookup(e, q, s) = Lookup(d, q, s)
<1> DEFINE ino  == d.inodes[q]
           u    == BlocksFor(ino.size)
           top  == u * EntriesPerBlock
           ks   == {x \in Held(ino, u) : ino.direct[x] # Unset}
           at(b) == {pos \in PositionsIn(ks) :
                       CellAt(b, ino, pos).inum # 0 /\ CellAt(b, ino, pos).name = s}
<1>1. CASE StatFails(q) \/ ino.type # Directory
  BY <1>1 DEF Lookup
<1>2. CASE ~(StatFails(q) \/ ino.type # Directory)
  <2>1. Lookup(d, q, s) = IF at(d) = {} THEN -ENOTFOUND ELSE CellAt(d, ino, Least(at(d))).inum
    BY <1>2 DEF Lookup
  <2>2. Lookup(e, q, s) = IF at(e) = {} THEN -ENOTFOUND ELSE CellAt(e, ino, Least(at(e))).inum
    BY <1>2 DEF Lookup
  <2>3. Filled(d, q)
    BY <1>2
  <2>4. u \in Nat /\ u <= DirectPtrs /\ \A a \in 0 .. u - 1 : ino.direct[a] \in DataBlocks
    BY <2>3, BlocksOfDirectory DEF Filled
  <2>5. PositionsIn(ks) = 0 .. top - 1
    BY <2>4, AllLookedAt
  <2>6. \A pos \in 0 .. top - 1 : CellAt(e, ino, pos) = CellAt(d, ino, pos)
    BY <2>3, RowDependsOn
  <2>7. top \in Nat
    BY <2>4, UFSAssumption
  <2> HIDE DEF ino, top, ks
  <2>8. at(e) = at(d) /\ at(d) \in SUBSET (0 .. top - 1) /\ at(d) \in SUBSET Nat
    BY <2>5, <2>6, <2>7
  <2>9. at(d) # {} => Least(at(d)) \in 0 .. top - 1
    <3> DEFINE S == at(d)
    <3> HIDE DEF S
    <3>1. S \in SUBSET Nat /\ S \in SUBSET (0 .. top - 1)
      BY <2>8 DEF S
    <3>2. S # {} => Least(S) \in S
      BY <3>1, LeastIsMinimum
    <3>3. S # {} => Least(S) \in 0 .. top - 1
      BY <3>1, <3>2
    <3> QED
      BY <3>3 DEF S
  <2> HIDE DEF at
  <2> QED
    BY <2>1, <2>2, <2>6, <2>8, <2>9
<1> QED
  BY <1>1, <1>2

\* What lookup has found it still finds.
Keeps(x, y) == x >= 0 => y = x

\* C is what the blocks may be while they turn from Bl into B one after another.
Between(Bl, B, C) ==
  /\ C \in [DataBlocks -> Block]
  /\ \A b \in DataBlocks : C[b] \in {Bl[b], B[b]}

\* With inodes x and blocks Bl on the disk, inodes y and blocks B to come, and S
\* the inodes allocated then, lookup finds all but name n of directory p while
\* the blocks are written, and when the inodes are.
Carries(x, Bl, y, B, S, p, n) ==
  \A q \in S, s \in Names : ~(q = p /\ s = n) =>
    /\ \A C : Between(Bl, B, C) => Same(Lookup(Seen(x, C), q, s), Lookup(Seen(x, Bl), q, s))
    /\ Keeps(Lookup(Seen(x, Bl), q, s), Lookup(Seen(y, B), q, s))

\* A cell of directory p shows what it showed, or entry n, or a cleared name,
\* as long as each of its blocks is the old one or the new one.
LEMMA CarriedBetween ==
  ASSUME NEW d, NEW p, Filled(d, p), NEW n, NEW B, Carried(d, p, n, Seen(d.inodes, B)),
         NEW C, Between(d.blocks, B, C)
  PROVE  Carried(d, p, n, Seen(d.inodes, C))
<1> DEFINE ino == d.inodes[p]
           u   == BlocksFor(ino.size)
           top == u * EntriesPerBlock
           row == RowOf(d, p)
           b   == Seen(d.inodes, B)
           c   == Seen(d.inodes, C)
<1>1. /\ b.inodes = d.inodes /\ c.inodes = d.inodes /\ b.blocks = B /\ c.blocks = C
  BY DEF Seen
<1> HIDE DEF b, c
<1>2. /\ ino.type = Directory /\ u \in Nat /\ u <= DirectPtrs
      /\ \A a \in 0 .. u - 1 : ino.direct[a] \in DataBlocks
      /\ \A pos \in 0 .. top - 1 :
           \/ CellAt(b, ino, pos) = CellAt(d, ino, pos)
           \/ CellAt(b, ino, pos).name \in {n, NoName}
      /\ \A f \in NamedIn(row) : row[f].name # n =>
           f \in 0 .. top - 1 /\ CellAt(b, ino, f) = row[f]
  BY <1>1 DEF Carried, b
<1>3. \A pos \in 0 .. top - 1 : CellAt(c, ino, pos) \in {CellAt(d, ino, pos), CellAt(b, ino, pos)}
  <2> TAKE pos \in 0 .. top - 1
  <2> DEFINE a == ino.direct[pos \div EntriesPerBlock]
  <2>1. a \in DataBlocks
    BY <1>2, PositionParts
  <2>2. C[a] \in {d.blocks[a], B[a]}
    BY <2>1 DEF Between
  <2>3. /\ CellAt(c, ino, pos) = C[a][pos % EntriesPerBlock]
        /\ CellAt(b, ino, pos) = B[a][pos % EntriesPerBlock]
        /\ CellAt(d, ino, pos) = d.blocks[a][pos % EntriesPerBlock]
    BY <1>1 DEF CellAt
  <2> HIDE DEF a, ino
  <2> QED
    BY <2>2, <2>3
<1>4. \A f \in NamedIn(row) : row[f] = CellAt(d, ino, f)
  BY DEF NamedIn, RowOf
<1> HIDE DEF row, top
<1>5. \A pos \in 0 .. top - 1 :
           \/ CellAt(c, ino, pos) = CellAt(d, ino, pos)
           \/ CellAt(c, ino, pos).name \in {n, NoName}
  BY <1>2, <1>3
<1>6. \A f \in NamedIn(row) : row[f].name # n =>
           f \in 0 .. top - 1 /\ CellAt(c, ino, f) = row[f]
  BY <1>2, <1>3, <1>4
<1>7. c.inodes[p] = ino
  BY <1>1
<1> HIDE DEF u
<1>8. Carried(d, p, n, c)
  BY <1>2, <1>5, <1>6, <1>7 DEF Carried, row, top, u
<1> QED
  BY <1>8 DEF c

\* A slot of a block below block u is a position below the first one of u.
LEMMA PositionBelow ==
  ASSUME NEW u \in Nat, NEW a \in 0 .. u - 1, NEW s \in Slots
  PROVE  a * EntriesPerBlock + s \in 0 .. u * EntriesPerBlock - 1
<1> DEFINE E == EntriesPerBlock
           ae == a * E
           ue == u * E
<1>1. E \in Nat /\ E > 0 /\ s \in Nat /\ s < E /\ a \in Nat
  BY UFSAssumption DEF Slots
<1>2. /\ ae \in Nat /\ ue \in Nat
      /\ u - (a + 1) \in Nat /\ ue = ae + E + (u - (a + 1)) * E
      /\ (u - (a + 1)) * E \in Nat
  BY <1>1
<1> DEFINE more == (u - (a + 1)) * E
<1> HIDE DEF more, ae, ue
<1>3. ae \in Nat /\ ue = ae + E + more /\ more \in Nat
  BY <1>2 DEF more
<1>4. ae + s \in 0 .. ue - 1
  BY <1>1, <1>3
<1> QED
  BY <1>4 DEF ae, ue

\* A directory with new contents is carried: the blocks it had show what they
\* showed, but for entries n behind its size, and so do blocks it did not have.
LEMMA CarriedInto ==
  ASSUME NEW d, NEW p \in Directories(d), Filled(d, p), NEW n, NEW e,
         NEW u, u = BlocksFor(d.inodes[p].size),
         NEW v \in Nat, v = BlocksFor(e.inodes[p].size), u <= v, v <= DirectPtrs,
         e.inodes[p].type = Directory,
         \A a \in 0 .. u - 1 : e.inodes[p].direct[a] = d.inodes[p].direct[a],
         \A a \in 0 .. v - 1 : a >= u =>
            /\ e.inodes[p].direct[a] \in DataBlocks
            /\ \A s \in Slots : e.blocks[e.inodes[p].direct[a]][s].name \in {n, NoName},
         \A pos \in 0 .. u * EntriesPerBlock - 1 :
            \/ CellAt(e, d.inodes[p], pos) = CellAt(d, d.inodes[p], pos)
            \/ pos >= d.inodes[p].size /\ CellAt(e, d.inodes[p], pos).name \in {n, NoName}
  PROVE  Carried(d, p, n, e)
<1> DEFINE ino == e.inodes[p]
           was == d.inodes[p]
           top == v * EntriesPerBlock
           old == u * EntriesPerBlock
           row == RowOf(d, p)
<1>1. /\ u \in Nat /\ was.size \in Nat /\ was.size <= old
      /\ \A a \in 0 .. u - 1 : was.direct[a] \in DataBlocks
  <2>1. was.size \in Nat
    BY DEF Filled
  <2>2. u \in Nat /\ was.size <= old
    BY <2>1, BlocksOfSize
  <2> QED
    BY <2>1, <2>2 DEF Filled
<1>2. EntriesPerBlock \in Nat /\ top \in Nat /\ old \in Nat /\ old <= top
  <2>1. EntriesPerBlock \in Nat /\ v - u \in Nat /\ v = u + (v - u)
    BY <1>1, UFSAssumption
  <2>2. top = old + (v - u) * EntriesPerBlock /\ (v - u) * EntriesPerBlock \in Nat
    BY <1>1, <2>1
  <2>3. old \in Nat
    BY <1>1, <2>1
  <2> DEFINE more == (v - u) * EntriesPerBlock
  <2> HIDE DEF more
  <2>4. top = old + more /\ more \in Nat
    BY <2>2 DEF more
  <2> HIDE DEF top, old
  <2> QED
    BY <2>1, <2>3, <2>4
<1>3. \A a \in 0 .. v - 1 : ino.direct[a] \in DataBlocks
  <2> TAKE a \in 0 .. v - 1
  <2>1. CASE a >= u
    BY <2>1
  <2>2. CASE ~(a >= u)
    <3>1. a \in 0 .. u - 1
      BY <1>1, <2>2
    <3> QED
      BY <1>1, <3>1
  <2> QED
    BY <2>1, <2>2
<1>4. \A pos \in 0 .. old - 1 : CellAt(e, ino, pos) = CellAt(e, was, pos)
  <2> TAKE pos \in 0 .. old - 1
  <2>1. pos \div EntriesPerBlock \in 0 .. u - 1
    BY <1>1, PositionParts
  <2> QED
    BY <2>1 DEF CellAt
<1>5. \A pos \in 0 .. top - 1 :
           \/ pos \in 0 .. old - 1 /\ CellAt(e, ino, pos) = CellAt(d, was, pos)
           \/ CellAt(e, ino, pos).name \in {n, NoName}
  <2> TAKE pos \in 0 .. top - 1
  <2>1. /\ pos \div EntriesPerBlock \in 0 .. v - 1 /\ pos % EntriesPerBlock \in Slots
        /\ pos \in Nat
        /\ pos = (pos \div EntriesPerBlock) * EntriesPerBlock + (pos % EntriesPerBlock)
    BY PositionParts
  <2>2. CASE pos \in 0 .. old - 1
    BY <1>4, <2>2
  <2>3. CASE pos \notin 0 .. old - 1
    <3> DEFINE a == pos \div EntriesPerBlock
    <3>1. a >= u
      <4>1. pos >= old
        BY <1>2, <2>1, <2>3
      <4> SUFFICES ASSUME ~(a >= u) PROVE FALSE
        OBVIOUS
      <4>2. a \in 0 .. u - 1
        BY <1>1, <2>1
      <4>3. pos \in 0 .. old - 1
        <5> DEFINE s == pos % EntriesPerBlock
        <5>1. a \in 0 .. u - 1 /\ s \in Slots /\ pos = a * EntriesPerBlock + s /\ u \in Nat
          BY <1>1, <2>1, <4>2
        <5> HIDE DEF a, s
        <5> QED
          BY <5>1, PositionBelow
      <4> QED
        BY <2>3, <4>3
    <3>2. CellAt(e, ino, pos) = e.blocks[ino.direct[a]][pos % EntriesPerBlock]
      BY DEF CellAt
    <3> QED
      BY <2>1, <3>1, <3>2
  <2> QED
    BY <2>2, <2>3
<1>6. \A f \in NamedIn(row) : f \in 0 .. top - 1 /\ CellAt(e, ino, f) = row[f]
  <2> TAKE f \in NamedIn(row)
  <2>1. f \in 0 .. was.size - 1 /\ row[f] = CellAt(d, was, f)
    BY DEF NamedIn, RowOf
  <2>2. f \in 0 .. old - 1 /\ ~(f >= was.size) /\ f \in 0 .. top - 1
    BY <1>1, <1>2, <2>1
  <2> QED
    BY <1>4, <2>1, <2>2
<1> HIDE DEF ino, was, row
<1>7. v = BlocksFor(ino.size) /\ u = BlocksFor(was.size) /\ ino.type = Directory
  BY DEF ino, was
<1> QED
  BY <1>3, <1>5, <1>6, <1>7 DEF Carried, ino, was, row

\* Work on directory p carries the names: the other directories and their blocks
\* are left alone, and p shows its other names in between and afterwards.
LEMMA WorkCarries ==
  ASSUME NEW d, Tree(d), NEW p \in Directories(d), p \in Inodes, NEW n, NEW y,
         NEW B \in [DataBlocks -> Block], NEW S,
         \A q \in S \ {p} : \/ q \in d.inodeBitmap /\ y[q] = d.inodes[q]
                            \/ Dull(d.inodes[q]),
         \A q \in d.inodeBitmap \ {p} : \A a \in Ptrs : d.inodes[q].direct[a] \in DataBlocks =>
            B[d.inodes[q].direct[a]] = d.blocks[d.inodes[q].direct[a]],
         Carried(d, p, n, Seen(d.inodes, B)), Carried(d, p, n, Seen(y, B))
  PROVE  Carries(d.inodes, d.blocks, y, B, S, p, n)
<1> DEFINE Now == Seen(d.inodes, d.blocks)
           Mid(C) == Seen(d.inodes, C)
           End == Seen(y, B)
<1>1. /\ Now.inodes = d.inodes /\ Now.blocks = d.blocks
      /\ \A C : Mid(C).inodes = d.inodes /\ Mid(C).blocks = C
      /\ End.inodes = y /\ End.blocks = B
  BY DEF Seen
<1> HIDE DEF Now, Mid, End
<1>2. \A q, s : Lookup(Now, q, s) = Lookup(d, q, s)
  BY <1>1, LookupDependsOn
<1>3. ASSUME NEW q \in S, NEW s \in Names, ~(q = p /\ s = n)
      PROVE  /\ \A C : Between(d.blocks, B, C) => Same(Lookup(Mid(C), q, s), Lookup(Now, q, s))
             /\ Keeps(Lookup(Now, q, s), Lookup(End, q, s))
  <2>1. CASE q = p
    <3>1. \A C : Between(d.blocks, B, C) => Carried(d, p, n, Mid(C))
      <4>1. Filled(d, p)
        BY DEF Tree
      <4> QED
        BY <4>1, CarriedBetween DEF Mid
    <3>2. \A e : Carried(d, p, n, e) => Same(Lookup(e, p, s), Lookup(d, p, s))
      <4>1. s # n
        BY <1>3, <2>1
      <4> QED
        BY <4>1, CarriedIsSame
    <3>3. Carried(d, p, n, End)
      BY DEF End
    <3>4. Same(Lookup(End, p, s), Lookup(d, p, s))
      BY <3>2, <3>3
    <3> QED
      BY <1>2, <2>1, <3>1, <3>2, <3>4 DEF Same, Keeps, Missed
  <2>2. CASE q # p /\ q \in d.inodeBitmap /\ y[q] = d.inodes[q]
    <3>1. d.inodes[q].type = Directory => Filled(d, q)
      BY <2>2 DEF Tree, Directories
    <3>2. \A a \in Ptrs : d.inodes[q].direct[a] \in DataBlocks =>
            B[d.inodes[q].direct[a]] = d.blocks[d.inodes[q].direct[a]]
      BY <2>2
    <3>3. Lookup(End, q, s) = Lookup(d, q, s)
      BY <1>1, <2>2, <3>1, <3>2, LookupStays
    <3>4. ASSUME NEW C, Between(d.blocks, B, C)
          PROVE  Lookup(Mid(C), q, s) = Lookup(d, q, s)
      <4>1. \A a \in Ptrs : d.inodes[q].direct[a] \in DataBlocks =>
            C[d.inodes[q].direct[a]] = d.blocks[d.inodes[q].direct[a]]
        BY <3>2, <3>4 DEF Between
      <4> DEFINE M == Mid(C)
      <4>2. M.inodes[q] = d.inodes[q] /\ M.blocks = C
        BY <1>1
      <4> HIDE DEF M
      <4>3. Lookup(M, q, s) = Lookup(d, q, s)
        BY <3>1, <4>1, <4>2, LookupStays
      <4> QED
        BY <4>3 DEF M
    <3> QED
      BY <1>2, <3>3, <3>4 DEF Same, Keeps, Missed
  <2>3. CASE Dull(d.inodes[q])
    <3>1. \A C : Missed(Lookup(Mid(C), q, s))
      BY <1>1, <2>3, DullIsNotFound
    <3>2. Missed(Lookup(Now, q, s))
      BY <1>1, <2>3, DullIsNotFound
    <3> QED
      BY <3>1, <3>2 DEF Same, Keeps, Missed
  <2> QED
    BY <1>3, <2>1, <2>2, <2>3
<1>4. /\ \A C : Mid(C) = Seen(d.inodes, C)
      /\ Now = Seen(d.inodes, d.blocks) /\ End = Seen(y, B)
  BY DEF Now, Mid, End
<1> QED
  BY <1>3, <1>4 DEF Carries

\* The blocks that writes end in are these.
LEMMA EndsOnce ==
  ASSUME NEW blocks, NEW w, NEW B \in [DataBlocks -> Block], NEW C \in [DataBlocks -> Block],
         Ends(blocks, w, B), Ends(blocks, w, C)
  PROVE  B = C
<1>1. \A b \in DataBlocks : B[b] = C[b]
  <2> TAKE b \in DataBlocks
  <2>1. CASE \E j \in 1 .. Len(w) : w[j].addr = b
    BY <2>1 DEF Ends
  <2>2. CASE \A j \in 1 .. Len(w) : w[j].addr # b
    BY <2>2 DEF Ends
  <2> QED
    BY <2>1, <2>2
<1> QED
  BY <1>1

\* What a call on directory p has decided carries the names.
PlanCarries(d, plan, p, n) ==
  \E B \in [DataBlocks -> Block] :
     /\ Ends(d.blocks, plan.writes, B)
     /\ Carries(d.inodes, d.blocks, plan.mem.inodes, B, plan.mem.inodeBitmap, p, n)

\* What a call on directory p has decided, when it ends in the blocks B: it leaves
\* the other inodes and their blocks alone, and carries the names of p but n.
Moves(d, plan, p, n, B) ==
  /\ B \in [DataBlocks -> Block] /\ Ends(d.blocks, plan.writes, B)
  /\ \A q \in d.inodeBitmap \ {p} : \A a \in Ptrs : d.inodes[q].direct[a] \in DataBlocks =>
        B[d.inodes[q].direct[a]] = d.blocks[d.inodes[q].direct[a]]
  /\ \A q \in (plan.mem.inodeBitmap \cap d.inodeBitmap) \ {p} :
        plan.mem.inodes[q] = d.inodes[q]
  /\ Carried(d, p, n, Seen(d.inodes, B)) /\ Carried(d, p, n, Seen(plan.mem.inodes, B))

\* This carries all other names, unless lookup finds some in a free inode.
LEMMA MovesCarry ==
  ASSUME NEW d, Tree(d), NEW p \in Directories(d), p \in Inodes, NEW n, NEW plan, NEW B,
         Moves(d, plan, p, n, B),
         \A q \in plan.mem.inodeBitmap \ d.inodeBitmap : Dull(d.inodes[q])
  PROVE  PlanCarries(d, plan, p, n)
<1> DEFINE y == plan.mem.inodes
           S == plan.mem.inodeBitmap
<1>1. \A q \in S \ {p} : \/ q \in d.inodeBitmap /\ y[q] = d.inodes[q]
                         \/ Dull(d.inodes[q])
  BY DEF Moves
<1>2. Carries(d.inodes, d.blocks, y, B, S, p, n)
  <2> HIDE DEF S
  <2> QED
    BY <1>1, WorkCarries DEF Moves
<1> QED
  BY <1>2 DEF PlanCarries, Moves

\* A directory whose inode and blocks are left alone is carried.
LEMMA AloneIsCarried ==
  ASSUME NEW d, NEW p \in Directories(d), Filled(d, p), NEW n, NEW e,
         e.inodes[p] = d.inodes[p],
         \A a \in Ptrs : d.inodes[p].direct[a] \in DataBlocks =>
            e.blocks[d.inodes[p].direct[a]] = d.blocks[d.inodes[p].direct[a]]
  PROVE  Carried(d, p, n, e)
<1> DEFINE u == BlocksFor(d.inodes[p].size)
<1>1. u \in Nat /\ u <= DirectPtrs
  BY BlocksOfDirectory
<1>2. d.inodes[p].type = Directory
  BY DEF Directories
<1>3. \A pos \in 0 .. u * EntriesPerBlock - 1 :
        CellAt(e, d.inodes[p], pos) = CellAt(d, d.inodes[p], pos)
  <2> HIDE DEF u
  <2>1. RowOf(e, p) = RowOf(d, p) /\ Filled(e, p) /\
        \A pos \in 0 .. BlocksFor(d.inodes[p].size) * EntriesPerBlock - 1 :
        CellAt(e, d.inodes[p], pos) = CellAt(d, d.inodes[p], pos)
    BY RowDependsOn
  <2> QED
    BY <2>1 DEF u
<1>4. \A a \in 0 .. u - 1 : ~(a >= u)
  BY <1>1
<1> HIDE DEF u
<1>5. u = BlocksFor(d.inodes[p].size) /\ u = BlocksFor(e.inodes[p].size)
      /\ e.inodes[p].type = Directory /\ u <= u
  BY <1>1, <1>2 DEF u
<1> QED
  BY <1>1, <1>3, <1>4, <1>5, CarriedInto

\* An entry n that is put behind the last one leaves the other names.
LEMMA RoomIsCarried ==
  ASSUME NEW d, Unshared(d.inodes), NEW p \in Directories(d), p \in Inodes, Filled(d, p),
         HasRoom(d.inodes[p]), NEW Bl \in [DataBlocks -> Block],
         \A a \in Ptrs : d.inodes[p].direct[a] \in DataBlocks =>
            Bl[d.inodes[p].direct[a]] = d.blocks[d.inodes[p].direct[a]],
         NEW n, NEW c, c.name = n,
         NEW B, B = RoomTaken(Bl, d.inodes[p], c),
         NEW e, e.blocks = B, e.inodes[p].type = Directory,
         BlocksFor(e.inodes[p].size) = BlocksFor(d.inodes[p].size),
         \A a \in Ptrs : e.inodes[p].direct[a] = d.inodes[p].direct[a]
  PROVE  Carried(d, p, n, e)
<1> DEFINE ino  == d.inodes[p]
           size == ino.size
           u    == BlocksFor(size)
           at   == RoomAt(ino)
           E    == EntriesPerBlock
<1>1. /\ u \in Nat /\ u <= DirectPtrs /\ size \in Nat
      /\ \A a \in 0 .. u - 1 : a \in Ptrs /\ ino.direct[a] \in DataBlocks
  BY BlocksOfDirectory DEF Filled
<1>2. size \in 0 .. u * E - 1
  <2>1. u * E \in Nat
    BY <1>1, UFSAssumption
  <2> QED
    BY <1>1, <2>1 DEF HasRoom
<1>3. /\ size \div E \in 0 .. u - 1 /\ size % E \in Slots
      /\ size = (size \div E) * E + (size % E)
  BY <1>1, <1>2, PositionParts
<1>4. at = ino.direct[size \div E] /\ at \in DataBlocks
  BY <1>1, <1>3 DEF RoomAt
<1>5. /\ \A b \in DataBlocks : b # at => B[b] = Bl[b]
      /\ \A s \in Slots : B[at][s] = IF s = size % E THEN c ELSE Bl[at][s]
  <2>1. B[at] = RoomCells(Bl, ino, c) /\ \A b \in DataBlocks : b # at => B[b] = Bl[b]
    BY <1>4 DEF RoomTaken
  <2>2. Bl[at] \in Block
    BY <1>4
  <2> QED
    BY <2>1, <2>2 DEF RoomCells, Block
<1>6. ASSUME NEW pos \in 0 .. u * E - 1
      PROVE  \/ CellAt(e, ino, pos) = CellAt(d, ino, pos)
             \/ pos >= size /\ CellAt(e, ino, pos).name \in {n, NoName}
  <2> DEFINE a == pos \div E
             s == pos % E
  <2>1. a \in 0 .. u - 1 /\ s \in Slots /\ pos = a * E + s
    BY <1>1, PositionParts
  <2>2. CellAt(e, ino, pos) = B[ino.direct[a]][s] /\ CellAt(d, ino, pos) = d.blocks[ino.direct[a]][s]
    BY DEF CellAt
  <2>3. a \in Ptrs /\ ino.direct[a] \in DataBlocks /\ Bl[ino.direct[a]] = d.blocks[ino.direct[a]]
    BY <1>1, <2>1
  <2>4. CASE a = size \div E
    <3>1. ino.direct[a] = at
      BY <1>4, <2>4
    <3>2. CASE s = size % E
      <4>1. pos = size
        BY <1>3, <2>1, <2>4, <3>2
      <4>2. CellAt(e, ino, pos) = c
        BY <1>5, <2>1, <2>2, <3>1, <3>2
      <4> QED
        BY <1>1, <4>1, <4>2
    <3>3. CASE s # size % E
      BY <1>5, <2>1, <2>2, <2>3, <3>1, <3>3
    <3> QED
      BY <3>2, <3>3
  <2>5. CASE a # size \div E
    <3>1. ino.direct[a] # at
      <4> DEFINE z == size \div E
      <4>1. z \in Ptrs /\ at = ino.direct[z] /\ a # z
        BY <1>1, <1>3, <1>4, <2>5
      <4> HIDE DEF z, a
      <4> QED
        BY <1>4, <2>3, <4>1 DEF Unshared
    <3> QED
      BY <1>5, <2>2, <2>3, <3>1
  <2> QED
    BY <2>4, <2>5
<1>7. \A a \in 0 .. u - 1 : ~(a >= u) /\ e.inodes[p].direct[a] = ino.direct[a]
  BY <1>1
<1> HIDE DEF u, size
<1>8. u = BlocksFor(d.inodes[p].size) /\ u = BlocksFor(e.inodes[p].size) /\ u <= u
  BY <1>1 DEF u, size
<1> QED
  BY <1>1, <1>6, <1>7, <1>8, CarriedInto DEF size

\* Neither does a block that the directory is given for it.
LEMMA FreshIsCarried ==
  ASSUME NEW d, NEW p \in Directories(d), Filled(d, p), ~HasRoom(d.inodes[p]),
         BlocksFor(d.inodes[p].size) < DirectPtrs,
         NEW Bl \in [DataBlocks -> Block],
         \A a \in Ptrs : d.inodes[p].direct[a] \in DataBlocks =>
            Bl[d.inodes[p].direct[a]] = d.blocks[d.inodes[p].direct[a]],
         NEW n, NEW c, c.name = n,
         NEW b \in DataBlocks, \A a \in Ptrs : d.inodes[p].direct[a] # b,
         NEW B, B = BlockTaken(Bl, b, c),
         NEW e, e.blocks = B,
         \/ e.inodes[p] = d.inodes[p]
         \/ /\ e.inodes[p].type = Directory /\ e.inodes[p].size = d.inodes[p].size + 1
            /\ \A a \in Ptrs : e.inodes[p].direct[a] =
                  IF a = BlocksFor(d.inodes[p].size) THEN b ELSE d.inodes[p].direct[a]
  PROVE  Carried(d, p, n, e)
<1> DEFINE ino  == d.inodes[p]
           size == ino.size
           u    == BlocksFor(size)
           E    == EntriesPerBlock
<1>1. /\ u \in Nat /\ u <= DirectPtrs /\ size \in Nat
      /\ \A a \in 0 .. u - 1 : a \in Ptrs /\ ino.direct[a] \in DataBlocks
  BY BlocksOfDirectory DEF Filled
<1>2. /\ \A x \in DataBlocks : x # b => B[x] = Bl[x]
      /\ \A s \in Slots : B[b][s].name \in {n, NoName}
  <2>1. B[b] = FreshCells(c) /\ \A x \in DataBlocks : x # b => B[x] = Bl[x]
    BY DEF BlockTaken
  <2> QED
    BY <2>1, UnusedEntry DEF FreshCells
<1>3. \A a \in Ptrs : ino.direct[a] \in DataBlocks => e.blocks[ino.direct[a]] = d.blocks[ino.direct[a]]
  BY <1>2
<1>4. CASE e.inodes[p] = ino
  BY <1>3, <1>4, AloneIsCarried
<1>5. CASE /\ e.inodes[p].type = Directory /\ e.inodes[p].size = size + 1
           /\ \A a \in Ptrs : e.inodes[p].direct[a] = IF a = u THEN b ELSE ino.direct[a]
  <2>1. \A pos \in 0 .. u * E - 1 : CellAt(e, ino, pos) = CellAt(d, ino, pos)
    <3> TAKE pos \in 0 .. u * E - 1
    <3>1. pos \div E \in 0 .. u - 1
      BY <1>1, PositionParts
    <3> QED
      BY <1>1, <1>3, <3>1 DEF CellAt
  <2>2. BlocksFor(size + 1) = u + 1
    <3>1. size <= u * E /\ u * E \in Nat
      BY <1>1, BlocksOfSize
    <3>2. E \in Nat /\ E > 0 /\ (u + 1) * E = u * E + E
      BY <1>1, UFSAssumption
    <3> DEFINE ue == u * E
               ve == (u + 1) * E
    <3>3. ~(size < ue)
      BY DEF HasRoom
    <3>4. ue \in Nat /\ size <= ue /\ ve = ue + E
      BY <3>1, <3>2
    <3> HIDE DEF ue, ve, u, size
    <3>5. size + 1 <= ve /\ ve < size + 1 + E /\ size + 1 \in Nat /\ u + 1 \in Nat
      BY <1>1, <3>2, <3>3, <3>4
    <3> QED
      BY <3>5, BlocksForBetween DEF ve
  <2>3. u \in Ptrs /\ u + 1 \in Nat /\ u + 1 <= DirectPtrs /\ u <= u + 1
    BY <1>1, UFSAssumption DEF Ptrs
  <2>4. \A a \in 0 .. u - 1 : e.inodes[p].direct[a] = ino.direct[a]
    BY <1>1, <1>5
  <2>5. \A a \in 0 .. (u + 1) - 1 : a >= u =>
            /\ e.inodes[p].direct[a] \in DataBlocks
            /\ \A s \in Slots : e.blocks[e.inodes[p].direct[a]][s].name \in {n, NoName}
    <3> TAKE a \in 0 .. (u + 1) - 1
    <3> HAVE a >= u
    <3>1. a = u
      BY <1>1
    <3>2. e.inodes[p].direct[a] = b
      BY <1>5, <2>3, <3>1
    <3> QED
      BY <1>2, <3>2
  <2> DEFINE v == u + 1
  <2> HIDE DEF u, size, v
  <2>6. u = BlocksFor(d.inodes[p].size) /\ v = BlocksFor(e.inodes[p].size)
    BY <1>5, <2>2 DEF u, size, v
  <2>7. v \in Nat /\ u <= v /\ v <= DirectPtrs /\ e.inodes[p].type = Directory
    BY <1>5, <2>3 DEF v
  <2> QED
    BY <2>1, <2>4, <2>5, <2>6, <2>7, CarriedInto DEF v
<1> QED
  BY <1>4, <1>5

\* Every inode that is not allocated is one lookup finds nothing in.
FreeAreDull(inodes, bitmap) == \A j \in Inodes \ bitmap : Dull(inodes[j])

\* An entry that fits takes no block.
LEMMA RoomForOne ==
  ASSUME NEW size \in Nat, size < BlocksFor(size) * EntriesPerBlock
  PROVE  BlocksFor(size + 1) = BlocksFor(size)
<1> DEFINE u  == BlocksFor(size)
           ue == u * EntriesPerBlock
<1>1. u \in Nat /\ ue \in Nat /\ ue < size + EntriesPerBlock /\ size < ue
  BY BlocksOfSize
<1>2. EntriesPerBlock \in Nat
  BY UFSAssumption
<1> HIDE DEF u, ue
<1>3. size + 1 \in Nat /\ size + 1 <= ue /\ ue < (size + 1) + EntriesPerBlock
  BY <1>1, <1>2
<1>4. BlocksFor(size + 1) = u
  BY <1>1, <1>3, BlocksForBetween DEF ue
<1> QED
  BY <1>4 DEF u

\* create: what it has decided carries the other names.
LEMMA CreateMoves ==
  ASSUME NEW d, Usable(d), Tree(d), NEW p, NEW type \in {Directory, RegularFile}, NEW n,
         NEW plan, plan = CreatePlan(d, p, type, n), ~IsRefused(plan)
  PROVE  \E B : Moves(d, plan, p, n, B)
<1>1. /\ p \in Directories(d) /\ p \in Inodes /\ n \in Names /\ NameFree(RowOf(d, p), n)
      /\ CreateDoes(d, p, type, n, plan)
  BY CreateCases
<1>2. PICK i, home, m, e, first :
             /\ Made(d, p, type, i, home, m, e.blocks, first)
             /\ Meta(e) = Meta(d)
             /\ LinkDoes(e, p, n, i, first, m, plan)
  BY <1>1 DEF CreateDoes
<1>3. /\ i \in Inodes /\ i \notin d.inodeBitmap
      /\ type = Directory => home \in DataBlocks /\ home \notin d.dataBitmap
      /\ m \in Metadata
      /\ m.inodeBitmap = d.inodeBitmap \cup {i}
      /\ m.dataBitmap = d.dataBitmap \cup (IF type = Directory THEN {home} ELSE {})
      /\ \A j \in Inodes \ {i} : m.inodes[j] = d.inodes[j]
      /\ e.blocks \in [DataBlocks -> Block]
      /\ \A b \in DataBlocks : ~(type = Directory /\ b = home) => e.blocks[b] = d.blocks[b]
      /\ first \in Writes /\ Ends(d.blocks, first, e.blocks)
      /\ \A j \in 1 .. Len(first) : type = Directory /\ first[j].addr = home
  BY <1>2 DEF Made
<1>4. /\ d.inodeBitmap \in SUBSET Inodes /\ Sound(d) /\ d.blocks \in [DataBlocks -> Block]
      /\ Marked(d.inodes, d.dataBitmap) /\ Unshared(d.inodes) /\ d.inodes \in [Inodes -> Inode]
      /\ Filled(d, p) /\ p \in d.inodeBitmap
  BY <1>1 DEF Usable, Sound, Meta, Metadata, Tree, Directories
<1>5. \A q \in Inodes : \A a \in Ptrs : d.inodes[q].direct[a] \in DataBlocks =>
        /\ e.blocks[d.inodes[q].direct[a]] = d.blocks[d.inodes[q].direct[a]]
        /\ d.inodes[q].direct[a] \in d.dataBitmap
        /\ ~(type = Directory /\ d.inodes[q].direct[a] = home)
  BY <1>3, <1>4 DEF Marked
<1>6. m.inodes[p] = d.inodes[p] /\ p # i
  BY <1>1, <1>3, <1>4
<1> DEFINE ino == d.inodes[p]
           c   == Entry(n, i)
<1>7. c.name = n
  BY EntryFields
<1> HIDE DEF c
<1>8. ASSUME NEW r, r = plan.mem, NEW B \in [DataBlocks -> Block], Ends(d.blocks, plan.writes, B),
             \A q \in Inodes \ {p} : r.inodes[q] = m.inodes[q] \/ r.inodes[q] = d.inodes[q],
             \A q \in Inodes \ {p} : \A a \in Ptrs : d.inodes[q].direct[a] \in DataBlocks =>
                B[d.inodes[q].direct[a]] = d.blocks[d.inodes[q].direct[a]],
             Carried(d, p, n, Seen(d.inodes, B)), Carried(d, p, n, Seen(r.inodes, B))
      PROVE  Moves(d, plan, p, n, B)
  <2>1. \A q \in (r.inodeBitmap \cap d.inodeBitmap) \ {p} : r.inodes[q] = d.inodes[q]
    BY <1>3, <1>4, <1>8
  <2>2. \A q \in d.inodeBitmap \ {p} : \A a \in Ptrs : d.inodes[q].direct[a] \in DataBlocks =>
                B[d.inodes[q].direct[a]] = d.blocks[d.inodes[q].direct[a]]
    BY <1>4, <1>8
  <2> QED
    BY <1>8, <2>1, <2>2 DEF Moves
<1>9. CASE plan = Plan(-ENOTENOUGHSPACE, first, FALSE, Meta(e))
  <2>1. /\ plan.writes = first /\ plan.mem.inodes = d.inodes
        /\ plan.mem.inodeBitmap = d.inodeBitmap
    BY <1>2, <1>9 DEF Plan, Meta
  <2> DEFINE B == e.blocks
             s == Seen(d.inodes, B)
  <2>2. s.inodes = d.inodes /\ s.blocks = B
    BY DEF Seen
  <2> HIDE DEF s
  <2>3. \A a \in Ptrs : d.inodes[p].direct[a] \in DataBlocks =>
            s.blocks[d.inodes[p].direct[a]] = d.blocks[d.inodes[p].direct[a]]
    BY <1>1, <1>5, <2>2
  <2>4. Carried(d, p, n, s)
    BY <1>1, <1>4, <2>2, <2>3, AloneIsCarried
  <2>5. B \in [DataBlocks -> Block] /\ Ends(d.blocks, plan.writes, B)
    BY <1>3, <2>1
  <2>6. \A q \in Inodes \ {p} : \A a \in Ptrs : d.inodes[q].direct[a] \in DataBlocks =>
                B[d.inodes[q].direct[a]] = d.blocks[d.inodes[q].direct[a]]
    BY <1>5
  <2>7. Carried(d, p, n, Seen(d.inodes, B))
    BY <2>4 DEF s
  <2> HIDE DEF B
  <2>8. Moves(d, plan, p, n, B)
    BY <1>8, <2>1, <2>5, <2>6, <2>7
  <2> QED
    BY <2>8
<1>10. CASE /\ HasRoom(m.inodes[p])
            /\ plan = Plan(i, Append(first, Update(RoomAt(m.inodes[p]),
                                     RoomCells(e.blocks, m.inodes[p], Entry(n, i)))),
                           TRUE, WithEntry(m, p))
  <2> DEFINE at    == RoomAt(ino)
             cells == RoomCells(e.blocks, ino, c)
             r     == WithEntry(m, p)
             B     == RoomTaken(e.blocks, ino, c)
             s     == Seen(d.inodes, B)
             t     == Seen(r.inodes, B)
  <2>1. /\ HasRoom(ino)
        /\ plan.writes = Append(first, Update(at, cells)) /\ plan.mem = r
    BY <1>6, <1>10 DEF Plan, c
  <2>2. Linkable(After(m, e.blocks), p, n, i)
    BY <1>1, <1>2, MadeIsLinkable
  <2>3. at \in DataBlocks /\ cells \in Block /\ ino.size \div EntriesPerBlock \in Ptrs
    <3>1. Unshared(m.inodes)
      <4>1. /\ m.inodes[i] = NewInode(type, home) /\ d.dataBitmap \subseteq m.dataBitmap
            /\ type = Directory => home \in m.dataBitmap
        BY <1>2, <1>3 DEF Made
      <4> QED
        BY <1>3, <1>4, <4>1, WithInodeOwns
    <3> QED
      BY <1>3, <1>6, <1>10, <2>2, <3>1, SlotGrows DEF c
  <2>4. \A j \in 1 .. Len(first) : first[j].addr # at
    BY <1>1, <1>3, <1>5, <2>3 DEF RoomAt
  <2>5. B = [e.blocks EXCEPT ![at] = cells]
    BY DEF RoomTaken
  <2>6. /\ \A j \in Inodes \ {p} : r.inodes[j] = m.inodes[j]
        /\ r.inodeBitmap = m.inodeBitmap
        /\ r.inodes[p].size = ino.size + 1 /\ r.inodes[p].type = ino.type
        /\ r.inodes[p].direct = ino.direct
    BY <1>1, <1>3, <1>6, EntryInode
  <2>7. BlocksFor(ino.size + 1) = BlocksFor(ino.size) /\ ino.type = Directory
    BY <1>1, <1>4, <2>1, RoomForOne DEF Directories, Filled, HasRoom
  <2>8. /\ s.inodes = d.inodes /\ s.blocks = B
        /\ t.inodes = r.inodes /\ t.blocks = B
    BY DEF Seen
  <2> HIDE DEF at, cells, r, s, t, ino
  <2>9. Ends(d.blocks, plan.writes, B) /\ B \in [DataBlocks -> Block]
    <3> HIDE DEF B
    <3>1. Ends(d.blocks, Append(first, Update(at, cells)), [e.blocks EXCEPT ![at] = cells])
      BY <1>3, <2>3, <2>4, OneMoreWrite
    <3> QED
      BY <1>3, <2>1, <2>3, <2>5, <3>1
  <2>10. \A b \in DataBlocks : b # at => B[b] = e.blocks[b]
    BY <1>3, <2>3, <2>5
  <2>11. B = RoomTaken(e.blocks, d.inodes[p], c)
    BY DEF ino
  <2> HIDE DEF B
  <2>12. ASSUME NEW f, f.blocks = B, f.inodes[p].type = Directory,
                BlocksFor(f.inodes[p].size) = BlocksFor(d.inodes[p].size),
                f.inodes[p].direct = d.inodes[p].direct
         PROVE  Carried(d, p, n, f)
    <3>1. \A a \in Ptrs : d.inodes[p].direct[a] \in DataBlocks =>
            e.blocks[d.inodes[p].direct[a]] = d.blocks[d.inodes[p].direct[a]]
      BY <1>1, <1>5
    <3>2. HasRoom(d.inodes[p])
      BY <2>1 DEF ino
    <3>3. \A a \in Ptrs : f.inodes[p].direct[a] = d.inodes[p].direct[a]
      BY <2>12
    <3> QED
      BY <1>1, <1>3, <1>4, <1>7, <2>11, <2>12, <3>1, <3>2, <3>3, RoomIsCarried
  <2>13. Carried(d, p, n, s)
    BY <2>7, <2>8, <2>12 DEF ino
  <2>14. Carried(d, p, n, t)
    BY <2>6, <2>7, <2>8, <2>12 DEF ino
  <2>15. \A q \in Inodes \ {p} : \A a \in Ptrs : d.inodes[q].direct[a] \in DataBlocks =>
                B[d.inodes[q].direct[a]] = d.blocks[d.inodes[q].direct[a]]
    <3> TAKE q \in Inodes \ {p}
    <3> TAKE a \in Ptrs
    <3> HAVE d.inodes[q].direct[a] \in DataBlocks
    <3>1. d.inodes[q].direct[a] # at
      <4> DEFINE z == ino.size \div EntriesPerBlock
      <4>1. at = d.inodes[p].direct[z] /\ z \in Ptrs
        BY <2>3 DEF at, RoomAt, ino
      <4> HIDE DEF z
      <4> QED
        BY <1>1, <1>4, <4>1 DEF Unshared
    <3> QED
      BY <1>5, <2>10, <3>1
  <2>16. Moves(d, plan, p, n, B)
    BY <1>8, <2>1, <2>6, <2>9, <2>13, <2>14, <2>15 DEF s, t
  <2> QED
    BY <2>16
<1>11. CASE /\ ~HasRoom(m.inodes[p]) /\ BlocksFor(m.inodes[p].size) < DirectPtrs
            /\ \E b \in DataBlocks \ m.dataBitmap :
                 plan = Plan(i, Append(first, Update(b, FreshCells(Entry(n, i)))), TRUE,
                             WithBlock(m, p, BlocksFor(m.inodes[p].size), b))
  <2>0. PICK b \in DataBlocks \ m.dataBitmap :
                 plan = Plan(i, Append(first, Update(b, FreshCells(c))), TRUE,
                             WithBlock(m, p, BlocksFor(ino.size), b))
    BY <1>6, <1>11 DEF c
  <2> DEFINE fresh == FreshCells(c)
             r     == WithBlock(m, p, BlocksFor(ino.size), b)
             B     == BlockTaken(e.blocks, b, c)
             s     == Seen(d.inodes, B)
             t     == Seen(r.inodes, B)
  <2>1. plan.writes = Append(first, Update(b, fresh)) /\ plan.mem = r
    BY <2>0 DEF Plan
  <2>2. fresh \in Block
    <3>1. c \in Cell /\ Unused \in Cell
      <4>1. Entry(n, i) \in Cell
        BY <1>1, <1>3, NewEntry
      <4>2. Unused \in Cell
        BY ONLY Cells
      <4> QED
        BY <4>1, <4>2 DEF c
    <3> QED
      BY <3>1 DEF FreshCells, Block
  <2>3. \A q \in Inodes : \A a \in Ptrs : d.inodes[q].direct[a] # b
    BY <1>3, <1>5
  <2>4. \A j \in 1 .. Len(first) : first[j].addr # b
    BY <1>3
  <2>5. B = [e.blocks EXCEPT ![b] = fresh]
    BY DEF BlockTaken
  <2>6. /\ \A j \in Inodes \ {p} : r.inodes[j] = m.inodes[j]
        /\ r.inodeBitmap = m.inodeBitmap
        /\ r.inodes[p].size = ino.size + 1 /\ r.inodes[p].type = ino.type
        /\ \A a \in Ptrs : r.inodes[p].direct[a] =
              IF a = BlocksFor(ino.size) THEN b ELSE ino.direct[a]
    BY <1>1, <1>3, <1>6, BlockInode
  <2>7. ino.type = Directory /\ ~HasRoom(ino) /\ BlocksFor(ino.size) < DirectPtrs
    BY <1>1, <1>6, <1>11 DEF Directories
  <2>8. /\ s.inodes = d.inodes /\ s.blocks = B
        /\ t.inodes = r.inodes /\ t.blocks = B
    BY DEF Seen
  <2> HIDE DEF fresh, r, s, t, ino
  <2>9. Ends(d.blocks, plan.writes, B) /\ B \in [DataBlocks -> Block]
    <3> HIDE DEF B
    <3>1. Ends(d.blocks, Append(first, Update(b, fresh)), [e.blocks EXCEPT ![b] = fresh])
      BY <1>3, <2>2, <2>4, OneMoreWrite
    <3> QED
      BY <1>3, <2>1, <2>2, <2>5, <3>1
  <2>10. \A x \in DataBlocks : x # b => B[x] = e.blocks[x]
    BY <1>3, <2>5
  <2> HIDE DEF B
  <2>11. /\ B = BlockTaken(e.blocks, b, c) /\ ~HasRoom(d.inodes[p])
         /\ BlocksFor(d.inodes[p].size) < DirectPtrs
         /\ \A a \in Ptrs : d.inodes[p].direct[a] # b
         /\ \A a \in Ptrs : d.inodes[p].direct[a] \in DataBlocks =>
              e.blocks[d.inodes[p].direct[a]] = d.blocks[d.inodes[p].direct[a]]
    BY <1>1, <1>5, <2>3, <2>7 DEF B, ino
  <2>12. ASSUME NEW f, f.blocks = B,
                \/ f.inodes[p] = d.inodes[p]
                \/ /\ f.inodes[p].type = Directory /\ f.inodes[p].size = d.inodes[p].size + 1
                   /\ \A a \in Ptrs : f.inodes[p].direct[a] =
                         IF a = BlocksFor(d.inodes[p].size) THEN b ELSE d.inodes[p].direct[a]
         PROVE  Carried(d, p, n, f)
    BY <1>1, <1>3, <1>4, <1>7, <2>11, <2>12, FreshIsCarried
  <2>13. Carried(d, p, n, s)
    BY <2>8, <2>12
  <2>14. Carried(d, p, n, t)
    BY <2>6, <2>7, <2>8, <2>12 DEF ino
  <2>15. \A q \in Inodes \ {p} : \A a \in Ptrs : d.inodes[q].direct[a] \in DataBlocks =>
                B[d.inodes[q].direct[a]] = d.blocks[d.inodes[q].direct[a]]
    BY <1>5, <2>3, <2>10
  <2>16. Moves(d, plan, p, n, B)
    BY <1>8, <2>1, <2>6, <2>9, <2>13, <2>14, <2>15 DEF s, t
  <2> QED
    BY <2>16
<1> QED
  BY <1>2, <1>9, <1>10, <1>11 DEF LinkDoes

\* The blocks of the inodes are those there were,
LeavesBlocks(d, plan) ==
  \A B : Ends(d.blocks, plan.writes, B) =>
    \A q \in Inodes, a \in Ptrs : d.inodes[q].direct[a] \in DataBlocks =>
      B[d.inodes[q].direct[a]] = d.blocks[d.inodes[q].direct[a]]

\* when it makes no inode, and this is the inode it makes.
MakesInode(d, p, type, i, plan) ==
  /\ i \in Inodes /\ i \notin d.inodeBitmap
  /\ plan.ret = i /\ plan.mem.inodeBitmap = d.inodeBitmap \cup {i}
  /\ \A j \in Inodes \ {i} : plan.mem.inodes[j].type = d.inodes[j].type
  /\ plan.mem.inodes[i].type = type
  /\ plan.mem.inodes[i].size = IF type = Directory THEN 2 ELSE 0

\* create makes the inode it is asked for, and no block of another inode different.
LEMMA CreateMakes ==
  ASSUME NEW d, Usable(d), Tree(d), NEW p, NEW type \in {Directory, RegularFile}, NEW n,
         NEW plan, plan = CreatePlan(d, p, type, n), ~IsRefused(plan)
  PROVE  \/ plan.mem = Meta(d) /\ plan.ret = -ENOTENOUGHSPACE /\ LeavesBlocks(d, plan)
         \/ \E i : MakesInode(d, p, type, i, plan)
<1>1. p \in Directories(d) /\ p \in Inodes /\ CreateDoes(d, p, type, n, plan)
  BY CreateCases
<1>2. PICK i, home, m, e, first :
             /\ Made(d, p, type, i, home, m, e.blocks, first)
             /\ Meta(e) = Meta(d)
             /\ LinkDoes(e, p, n, i, first, m, plan)
  BY <1>1 DEF CreateDoes
<1>3. /\ i \in Inodes /\ i \notin d.inodeBitmap /\ m \in Metadata /\ i # p
      /\ m.inodeBitmap = d.inodeBitmap \cup {i}
      /\ \A j \in Inodes \ {i} : m.inodes[j] = d.inodes[j]
      /\ m.inodes[i].type = type
      /\ m.inodes[i].size = IF type = Directory THEN 2 ELSE 0
  BY <1>1, <1>2 DEF Made, NewInode, Directories, Directory, RegularFile
<1>4. ASSUME NEW r, plan.mem = r, plan.ret = i, r.inodeBitmap = m.inodeBitmap,
             \A j \in Inodes \ {p} : r.inodes[j] = m.inodes[j],
             r.inodes[p].type = m.inodes[p].type
      PROVE  MakesInode(d, p, type, i, plan)
  BY <1>1, <1>3, <1>4 DEF MakesInode
<1>5. CASE plan = Plan(-ENOTENOUGHSPACE, first, FALSE, Meta(e))
  <2>1. plan.mem = Meta(d) /\ plan.ret = -ENOTENOUGHSPACE /\ plan.writes = first
    BY <1>2, <1>5 DEF Plan
  <2>2. /\ type = Directory => home \notin d.dataBitmap
        /\ \A j \in 1 .. Len(first) : type = Directory /\ first[j].addr = home
    BY <1>2 DEF Made
  <2>3. Marked(d.inodes, d.dataBitmap)
    BY DEF Usable, Sound
  <2>4. ASSUME NEW B, Ends(d.blocks, first, B), NEW b \in DataBlocks, b \in d.dataBitmap
        PROVE  B[b] = d.blocks[b]
    BY <2>2, <2>4 DEF Ends
  <2>5. LeavesBlocks(d, plan)
    BY <2>1, <2>3, <2>4 DEF LeavesBlocks, Marked
  <2> QED
    BY <2>1, <2>5
<1>6. CASE \E w : plan = Plan(i, w, TRUE, WithEntry(m, p))
  <2> DEFINE r == WithEntry(m, p)
  <2>1. plan.mem = r /\ plan.ret = i
    BY <1>6 DEF Plan
  <2>2. /\ r.inodeBitmap = m.inodeBitmap /\ \A j \in Inodes \ {p} : r.inodes[j] = m.inodes[j]
        /\ r.inodes[p].type = m.inodes[p].type
    BY <1>1, <1>3, EntryInode
  <2> HIDE DEF r
  <2> QED
    BY <1>4, <2>1, <2>2
<1>7. CASE \E w, b : plan = Plan(i, w, TRUE, WithBlock(m, p, BlocksFor(m.inodes[p].size), b))
                    /\ b \in DataBlocks
  <2>0. PICK w, b : plan = Plan(i, w, TRUE, WithBlock(m, p, BlocksFor(m.inodes[p].size), b))
                    /\ b \in DataBlocks
    BY <1>7
  <2> DEFINE r == WithBlock(m, p, BlocksFor(m.inodes[p].size), b)
  <2>1. plan.mem = r /\ plan.ret = i
    BY <2>0 DEF Plan
  <2>2. /\ r.inodeBitmap = m.inodeBitmap /\ \A j \in Inodes \ {p} : r.inodes[j] = m.inodes[j]
        /\ r.inodes[p].type = m.inodes[p].type
    BY <1>1, <1>3, <2>0, BlockInode
  <2> HIDE DEF r
  <2> QED
    BY <1>4, <2>1, <2>2
<1> QED
  BY <1>2, <1>5, <1>6, <1>7 DEF LinkDoes

\* So it carries all names but its own.
LEMMA CreateCarries ==
  ASSUME NEW d, Usable(d), Tree(d), FreeAreDull(d.inodes, d.inodeBitmap), NEW p,
         NEW type \in {Directory, RegularFile}, NEW n,
         NEW plan, plan = CreatePlan(d, p, type, n), ~IsRefused(plan)
  PROVE  PlanCarries(d, plan, p, n)
<1>1. p \in Directories(d) /\ p \in Inodes
  BY CreateCases
<1>2. PICK B : Moves(d, plan, p, n, B)
  BY CreateMoves
<1>3. plan.mem = Meta(d) \/ \E i : MakesInode(d, p, type, i, plan)
  BY CreateMakes
<1>4. \A q \in plan.mem.inodeBitmap \ d.inodeBitmap : Dull(d.inodes[q])
  BY <1>3 DEF FreeAreDull, MakesInode, Meta
<1> QED
  BY <1>1, <1>2, <1>4, MovesCarry

\* unlink: what it has decided carries the other names, when it leaves no gap.
LEMMA UnlinkMoves ==
  ASSUME NEW d, Usable(d), Tree(d), NEW p, NEW n, NEW plan,
         NEW at, NEW v, NEW is, NEW B, UnlinkSets(d, p, n, plan, at, v, is, B),
         NoGaps(plan.mem) \/ DirectPtrs <= 2
  PROVE  /\ Moves(d, plan, p, n, B)
         /\ \A pos \in 0 .. BlocksFor(d.inodes[p].size) * EntriesPerBlock - 1 :
              LET cell == CellAt(Seen(d.inodes, B), d.inodes[p], pos)
              IN  cell = CellAt(d, d.inodes[p], pos) \/ cell.name = NoName
<1> DEFINE row     == RowOf(d, p)
           ino     == d.inodes[p]
           size    == ino.size
           nb      == BlocksFor(size)
           i       == at \div EntriesPerBlock
           data    == Cleared(row, at)
           emptied == Emptied(row, at)
           m       == Unlinked(d, p, v, at)
           w       == Backs(d, p, v, at)
           top     == nb * EntriesPerBlock
           s       == Seen(d.inodes, B)
<1>1. p \in Directories(d) /\ p \in Inodes /\ n \in Names
  BY DEF UnlinkSets
<1>2. at \in NamedIn(RowOf(d, p)) /\ RowOf(d, p)[at].name = n /\ v \in Inodes
  BY DEF UnlinkSets
<1>3. /\ emptied => ~Over(d, p, at)
      /\ \/ plan = Plan(Aborts, w, FALSE, Meta(d))
         \/ plan = Plan(0, w, TRUE, m)
  BY DEF UnlinkSets, UnlinkDoes
<1>4. /\ Sound(d) /\ d.inodes \in [Inodes -> Inode] /\ d.inodeBitmap \in SUBSET Inodes
      /\ d.blocks \in [DataBlocks -> Block] /\ Unshared(d.inodes)
  BY DEF Usable, Sound, Meta, Metadata
<1>5. /\ Filled(d, p) /\ nb \in Nat /\ nb <= DirectPtrs /\ size \in Nat /\ size <= top
      /\ top \in Nat
      /\ \A a \in 0 .. nb - 1 : a \in Ptrs /\ ino.direct[a] \in DataBlocks
  <2>1. Filled(d, p) /\ size \in Nat
    BY <1>1 DEF Tree, Filled
  <2>2. nb \in Nat /\ size <= top /\ top \in Nat
    BY <2>1, BlocksOfSize
  <2>3. nb <= DirectPtrs /\ \A a \in 0 .. nb - 1 : a \in Ptrs /\ ino.direct[a] \in DataBlocks
    BY <2>1, BlocksOfDirectory DEF Filled
  <2> QED
    BY <2>1, <2>2, <2>3
<1> HIDE DEF nb, i, data, row, emptied, m, w, top
<1>6. at \in DOMAIN row /\ at \in 0 .. size - 1 /\ row[at] \in Cell /\ i \in 0 .. nb - 1
  BY DEF UnlinkSets, row, i, nb
<1>7. v \in d.inodeBitmap /\ v # p /\ p \in d.inodeBitmap
  BY <1>1 DEF UnlinkSets, Directories
<1>8. /\ m.inodeBitmap = d.inodeBitmap \ {v}
      /\ \A j \in Inodes : m.inodes[j].type = d.inodes[j].type
      /\ \A j \in Inodes \ {p, v} : m.inodes[j] = d.inodes[j]
  BY DEF UnlinkSets, m
<1>9. /\ ~emptied => m.inodes[p] = ino
      /\ emptied => /\ m.inodes[p].size = size - EntriesPerBlock
                    /\ m.inodes[p].direct[i] = NoBlock
                    /\ \A a \in Ptrs \ {i} : m.inodes[p].direct[a] = ino.direct[a]
  BY DEF UnlinkSets, m, emptied, row, i
<1>10. /\ plan.writes = w /\ B \in [DataBlocks -> Block] /\ Ends(d.blocks, plan.writes, B)
       /\ WrittenFrom(d, p, is, data, B)
  BY DEF UnlinkSets, WroteBack, w, data, row
<1>11. s.inodes = d.inodes /\ s.blocks = B
  BY DEF Seen
<1> HIDE DEF s
<1>12. DOMAIN row = 0 .. size - 1 /\ \A f \in 0 .. size - 1 : row[f] = CellAt(d, ino, f)
  BY DEF row, RowOf
<1>13. /\ DOMAIN data = DOMAIN row /\ data[at].name = NoName
       /\ \A f \in DOMAIN row : f # at => data[f] = row[f]
  BY <1>6, ClearedCells DEF data
<1>14. ASSUME NEW pos \in 0 .. top - 1
       PROVE  \/ CellAt(s, ino, pos) = CellAt(d, ino, pos)
              \/ pos = at /\ CellAt(s, ino, pos).name = NoName
  <2>1. /\ \/ CellAt(s, ino, pos) = CellAt(d, ino, pos)
           \/ CellAt(s, ino, pos) = data[pos]
        /\ pos >= size => CellAt(s, ino, pos) = CellAt(d, ino, pos)
    <3>1. pos \in 0 .. BlocksFor(d.inodes[p].size) * EntriesPerBlock - 1
      BY DEF top, nb
    <3> QED
      BY <1>1, <1>4, <1>5, <1>10, <1>11, <3>1, CellWritten
  <2>2. CASE pos >= size
    BY <2>1, <2>2
  <2>3. CASE ~(pos >= size)
    <3>1. pos \in 0 .. size - 1
      BY <1>5, <2>3
    <3> QED
      BY <1>12, <1>13, <2>1, <3>1
  <2> QED
    BY <2>2, <2>3
<1>15. \A f \in NamedIn(row) : row[f].name # n => f # at /\ f \in 0 .. size - 1
  BY <1>2, <1>12 DEF NamedIn, row
<1>16. ASSUME NEW x, x[p] = ino PROVE Carried(d, p, n, Seen(x, B))
  <2> DEFINE e == Seen(x, B)
  <2>1. e.inodes[p] = ino /\ e.blocks = B
    BY <1>16 DEF Seen
  <2> HIDE DEF e
  <2>2. \A pos : CellAt(e, ino, pos) = CellAt(s, ino, pos)
    BY <1>11, <2>1 DEF CellAt
  <2>3. \A pos \in 0 .. top - 1 :
           \/ pos \in 0 .. top - 1 /\ CellAt(e, ino, pos) = CellAt(d, ino, pos)
           \/ CellAt(e, ino, pos).name \in {n, NoName}
    BY <1>14, <2>2
  <2>4. \A f \in NamedIn(row) : row[f].name # n =>
           f \in 0 .. top - 1 /\ CellAt(e, ino, f) = row[f]
    <3> TAKE f \in NamedIn(row)
    <3> HAVE row[f].name # n
    <3>1. f # at /\ f \in 0 .. size - 1 /\ f \in 0 .. top - 1
      BY <1>5, <1>15
    <3> QED
      BY <1>12, <1>14, <2>2, <3>1
  <2>5. ino.type = Directory
    BY <1>1 DEF Directories
  <2>6. Carried(d, p, n, e)
    BY <1>5, <2>1, <2>3, <2>4, <2>5 DEF Carried, top, nb, row
  <2> QED
    BY <2>6 DEF e
<1>17. \A q \in d.inodeBitmap \ {p} : \A a \in Ptrs : d.inodes[q].direct[a] \in DataBlocks =>
            B[d.inodes[q].direct[a]] = d.blocks[d.inodes[q].direct[a]]
  <2> TAKE q \in d.inodeBitmap \ {p}
  <2> TAKE a \in Ptrs
  <2> HAVE d.inodes[q].direct[a] \in DataBlocks
  <2>1. \A z \in is : z \in Ptrs
    BY <1>5, <1>10 DEF WrittenFrom, nb
  <2>2. \A z \in is : ino.direct[z] # d.inodes[q].direct[a]
    BY <1>1, <1>4, <2>1 DEF Unshared
  <2> QED
    BY <1>10, <2>2 DEF WrittenFrom
<1>18. ASSUME plan = Plan(Aborts, w, FALSE, Meta(d)) PROVE Moves(d, plan, p, n, B)
  <2>1. plan.mem.inodes = d.inodes /\ plan.mem.inodeBitmap = d.inodeBitmap
    BY <1>18 DEF Plan, Meta
  <2>2. Carried(d, p, n, Seen(d.inodes, B))
    BY <1>16
  <2> QED
    BY <1>10, <1>17, <2>1, <2>2 DEF Moves
<1>20. ASSUME Carried(d, p, n, Seen(d.inodes, B)), plan.mem = m, Carried(d, p, n, Seen(m.inodes, B))
       PROVE  Moves(d, plan, p, n, B)
  <2>1. \A q \in m.inodeBitmap \ {p} : q \in d.inodeBitmap /\ m.inodes[q] = d.inodes[q]
    BY <1>4, <1>8
  <2> QED
    BY <1>10, <1>17, <1>20, <2>1 DEF Moves
<1>21. ASSUME emptied, m.inodes[p].type = Directory, i = nb - 1, nb > 1, size = nb * EntriesPerBlock,
              BlockEmpty(data, i)
       PROVE  Carried(d, p, n, Seen(m.inodes, B))
  <2> DEFINE e     == Seen(m.inodes, B)
             after == e.inodes[p]
             less  == (nb - 1) * EntriesPerBlock
  <2>1. e.inodes[p] = m.inodes[p] /\ e.blocks = B
    BY DEF Seen
  <2> HIDE DEF e
  <2>2. /\ size - EntriesPerBlock = less /\ BlocksFor(less) = nb - 1
        /\ less \in Nat /\ less <= top /\ EntriesPerBlock \in Nat
    <3>1. /\ nb * EntriesPerBlock - EntriesPerBlock = less /\ BlocksFor(less) = nb - 1
          /\ less \in Nat
      BY <1>5, <1>21, OneBlockLess
    <3>2. EntriesPerBlock \in Nat
      BY UFSAssumption
    <3> HIDE DEF less
    <3>3. size - EntriesPerBlock = less /\ size <= top
      BY <1>5, <1>21, <3>1
    <3> QED
      BY <1>5, <3>1, <3>2, <3>3
  <2>3. /\ BlocksFor(after.size) = nb - 1 /\ after.type = Directory
        /\ \A a \in 0 .. nb - 2 : after.direct[a] = ino.direct[a]
    <3>1. \A a \in 0 .. nb - 2 : a \in Ptrs \ {i}
      BY <1>5, <1>21
    <3> QED
      BY <1>9, <1>21, <2>1, <2>2, <3>1
  <2>4. /\ BlocksFor(after.size) \in Nat /\ BlocksFor(after.size) <= DirectPtrs
        /\ \A a \in 0 .. BlocksFor(after.size) - 1 : after.direct[a] \in DataBlocks
    <3>1. DirectPtrs \in Nat /\ nb - 1 \in Nat /\ nb - 1 <= DirectPtrs
      BY <1>5, <1>21, UFSAssumption
    <3>2. \A a \in 0 .. nb - 2 : ino.direct[a] \in DataBlocks
      BY <1>5, <1>21
    <3> QED
      BY <1>5, <2>3, <3>1, <3>2
  <2>5. \A pos \in 0 .. less - 1 : pos \in 0 .. top - 1 /\ CellAt(e, after, pos) = CellAt(s, ino, pos)
    <3> TAKE pos \in 0 .. less - 1
    <3>1. pos \div EntriesPerBlock \in 0 .. (nb - 1) - 1
      BY <1>5, <1>21, PositionParts
    <3>2. pos \div EntriesPerBlock \in 0 .. nb - 2
      BY <1>5, <3>1
    <3>3. pos \in 0 .. top - 1
      BY <1>5, <2>2
    <3> QED
      BY <1>11, <2>1, <2>3, <3>2, <3>3 DEF CellAt
  <2>6. \A pos \in 0 .. less - 1 :
           \/ pos \in 0 .. top - 1 /\ CellAt(e, after, pos) = CellAt(d, ino, pos)
           \/ CellAt(e, after, pos).name \in {n, NoName}
    BY <1>14, <2>5
  <2>7. \A f \in NamedIn(row) : row[f].name # n =>
           f \in 0 .. less - 1 /\ CellAt(e, after, f) = row[f]
    <3> TAKE f \in NamedIn(row)
    <3> HAVE row[f].name # n
    <3>1. f # at /\ f \in 0 .. size - 1 /\ f \in DOMAIN row
      BY <1>15 DEF NamedIn
    <3>2. data[f] = row[f] /\ f \in DOMAIN data /\ row[f].name # NoName
      BY <1>13, <3>1, NoNameIsNone DEF NamedIn
    <3>3. f \notin CellsOf(i)
      BY <1>21, <3>2, EmptyMeansNoName
    <3>4. CellsOf(i) = less .. size - 1
      <4>1. (i + 1) * EntriesPerBlock = size
        BY <1>5, <1>21
      <4> QED
        BY <1>21, <4>1 DEF CellsOf
    <3>5. f \in 0 .. less - 1
      BY <1>5, <2>2, <3>1, <3>3, <3>4
    <3> QED
      BY <1>12, <1>14, <2>5, <3>1, <3>5
  <2> HIDE DEF after, less
  <2>8. BlocksFor(after.size) * EntriesPerBlock = less
    BY <2>3 DEF less
  <2>9. Carried(d, p, n, e)
    BY <2>3, <2>4, <2>6, <2>7, <2>8 DEF Carried, top, nb, row, after
  <2> QED
    BY <2>9 DEF e
<1>19. ASSUME plan = Plan(0, w, TRUE, m) PROVE Moves(d, plan, p, n, B)
  <2>1. plan.mem = m
    BY <1>19 DEF Plan
  <2>2. Carried(d, p, n, Seen(d.inodes, B))
    BY <1>16
  <2>3. CASE ~emptied
    <3>1. Carried(d, p, n, Seen(m.inodes, B))
      BY <1>9, <1>16, <2>3
    <3> QED
      BY <1>20, <2>1, <2>2, <3>1
  <2>4. CASE emptied
    <3>1. p \in Directories(m) /\ m.inodes[p].type = Directory
      BY <1>1, <1>7, <1>8 DEF Directories
    <3>2. i = nb - 1 /\ nb > 1 /\ size = nb * EntriesPerBlock
      <4>1. RowOf(d, p)[at] \in Cell /\ BlockEmpty(Cleared(RowOf(d, p), at), i)
        BY <1>6, <2>4 DEF row, emptied, Emptied, i
      <4>2. /\ ~((i + 1) * EntriesPerBlock > size) /\ nb = BlocksFor(size)
            /\ m.inodes[p].size = size - EntriesPerBlock /\ m.inodes[p].direct[i] = NoBlock
        BY <1>3, <1>9, <2>4 DEF nb, Over, i
      <4>3. NoGaps(m) \/ DirectPtrs <= 2
        BY <2>1
      <4> QED
        BY <1>1, <1>2, <1>5, <1>6, <3>1, <4>1, <4>2, <4>3, EmptiedIsLast
    <3>3. BlockEmpty(data, i)
      BY <2>4 DEF emptied, Emptied, data, row, i
    <3>4. Carried(d, p, n, Seen(m.inodes, B))
      BY <1>21, <2>4, <3>1, <3>2, <3>3
    <3> QED
      BY <1>20, <2>1, <2>2, <3>4
  <2> QED
    BY <2>3, <2>4
<1>22. \A pos \in 0 .. top - 1 :
         CellAt(s, ino, pos) = CellAt(d, ino, pos) \/ CellAt(s, ino, pos).name = NoName
  BY <1>14
<1>23. Moves(d, plan, p, n, B)
  BY <1>3, <1>18, <1>19
<1> QED
  BY <1>22, <1>23 DEF s, top, nb

\* So what unlink has decided keeps the names it is not about.
LEMMA UnlinkCarries ==
  ASSUME Asan, NEW d, Usable(d), Tree(d), NEW p, NEW n,
         NEW heap \in [HeapRange(d, p) -> HeapCells], NEW lucky,
         NEW plan, plan = UnlinkPlan(d, p, n, heap, lucky), ~IsRefused(plan),
         NoGaps(plan.mem) \/ DirectPtrs <= 2
  PROVE  PlanCarries(d, plan, p, n)
<1>1. PICK at, v, is, B : UnlinkSets(d, p, n, plan, at, v, is, B)
  BY UnlinkWrote
<1>2. p \in Directories(d) /\ p \in Inodes
  BY <1>1 DEF UnlinkSets
<1>3. Moves(d, plan, p, n, B)
  BY <1>1, UnlinkMoves
<1>4. plan.mem.inodeBitmap \subseteq d.inodeBitmap
  BY <1>1 DEF UnlinkSets, UnlinkDoes, Plan, Meta
<1> QED
  BY <1>2, <1>3, <1>4, MovesCarry

\* An inode without blocks, or of a file, is one lookup finds nothing in.
LEMMA SomeAreDull ==
  ASSUME NEW ino, ino.size = 0 \/ ino.type = RegularFile
  PROVE  Dull(ino)
<1>1. CASE ino.size = 0
  <2>1. EntriesPerBlock \in Nat /\ EntriesPerBlock > 0 /\ 0 * EntriesPerBlock = 0
    BY UFSAssumption
  <2>2. BlocksFor(0) = 0
    BY <2>1, BlocksForBetween
  <2>3. \A a \in Ptrs : ~(a < BlocksFor(ino.size))
    BY <1>1, <2>2, UFSAssumption DEF Ptrs
  <2> QED
    BY <2>3 DEF Dull
<1>2. CASE ino.type = RegularFile
  BY <1>2 DEF Dull, Directory, RegularFile
<1> QED
  BY <1>1, <1>2

\* create touches no inode that stays free.
LEMMA CreateDull ==
  ASSUME NEW d, Usable(d), Tree(d), FreeAreDull(d.inodes, d.inodeBitmap), NEW p,
         NEW type \in {Directory, RegularFile}, NEW n,
         NEW plan, plan = CreatePlan(d, p, type, n), ~IsRefused(plan)
  PROVE  FreeAreDull(plan.mem.inodes, plan.mem.inodeBitmap)
<1>1. p \in Directories(d) /\ p \in Inodes /\ CreateDoes(d, p, type, n, plan)
  BY CreateCases
<1>2. PICK i, home, m, e, first :
        /\ Made(d, p, type, i, home, m, e.blocks, first) /\ Meta(e) = Meta(d)
        /\ LinkDoes(e, p, n, i, first, m, plan)
  BY <1>1 DEF CreateDoes
<1>3. /\ m \in Metadata /\ m.inodeBitmap = d.inodeBitmap \cup {i} /\ p \in d.inodeBitmap
      /\ \A j \in Inodes \ {i} : m.inodes[j] = d.inodes[j]
  BY <1>1, <1>2 DEF Made, Directories
<1>4. ASSUME NEW r, r.inodeBitmap = m.inodeBitmap, \A j \in Inodes \ {p} : r.inodes[j] = m.inodes[j]
      PROVE  FreeAreDull(r.inodes, r.inodeBitmap)
  BY <1>3, <1>4 DEF FreeAreDull
<1>5. CASE plan.mem = Meta(d)
  BY <1>5 DEF Meta
<1>6. CASE plan.mem = WithEntry(m, p)
  <2> DEFINE r == plan.mem
  <2>1. r.inodeBitmap = m.inodeBitmap /\ \A j \in Inodes \ {p} : r.inodes[j] = m.inodes[j]
    BY <1>1, <1>3, <1>6, EntryInode
  <2> QED
    BY <1>4, <2>1
<1>7. CASE \E b \in DataBlocks : plan.mem = WithBlock(m, p, BlocksFor(m.inodes[p].size), b)
  <2> DEFINE r == plan.mem
  <2>1. r.inodeBitmap = m.inodeBitmap /\ \A j \in Inodes \ {p} : r.inodes[j] = m.inodes[j]
    BY <1>1, <1>3, <1>7, BlockInode
  <2> QED
    BY <1>4, <2>1
<1> QED
  BY <1>2, <1>5, <1>6, <1>7 DEF LinkDoes, Plan

\* unlink leaves nothing in the inode it frees.
LEMMA UnlinkDull ==
  ASSUME Asan, NEW d, Usable(d), Tree(d), FreeAreDull(d.inodes, d.inodeBitmap), NEW p, NEW n,
         NEW heap \in [HeapRange(d, p) -> HeapCells], NEW lucky,
         NEW plan, plan = UnlinkPlan(d, p, n, heap, lucky), ~IsRefused(plan)
  PROVE  FreeAreDull(plan.mem.inodes, plan.mem.inodeBitmap)
<1>0. PICK at, v, is, B : UnlinkSets(d, p, n, plan, at, v, is, B)
  BY UnlinkWrote
<1> DEFINE m == Unlinked(d, p, v, at)
<1>1. /\ p \in Inodes /\ v \in Inodes /\ v # p /\ p \in d.inodeBitmap
      /\ plan.mem = Meta(d) \/ plan.mem = m
  BY <1>0 DEF UnlinkSets, UnlinkDoes, Plan, Directories
<1>2. CASE plan.mem = Meta(d)
  BY <1>2 DEF Meta
<1>3. CASE plan.mem = m
  <2>1. m = Removed(d, p, v, at, Emptied(RowOf(d, p), at))
    BY DEF Unlinked
  <2> HIDE DEF m
  <2>2. at \div EntriesPerBlock \in Ptrs
    <3>1. at \div EntriesPerBlock \in 0 .. BlocksFor(d.inodes[p].size) - 1 /\ p \in Directories(d)
      BY <1>0 DEF UnlinkSets
    <3>2. \A a \in 0 .. BlocksFor(d.inodes[p].size) - 1 : a \in Ptrs
      BY <3>1, BlocksOfDirectory DEF Tree
    <3> QED
      BY <3>1, <3>2
  <2>3. d.inodes \in [Inodes -> Inode]
    BY DEF Usable, Sound, Meta, Metadata
  <2>4. /\ m.inodeBitmap = d.inodeBitmap \ {v}
        /\ \A j \in Inodes \ {p, v} : m.inodes[j] = d.inodes[j]
        /\ \A j \in Inodes \ {p} : j = v => m.inodes[j] = Released(d.inodes[v])
    BY <1>1, <2>1, <2>2, <2>3, RemovedInodes
  <2>5. Dull(Released(d.inodes[v]))
    <3>1. Released(d.inodes[v]).size = 0
      BY <1>1, <2>3 DEF Released, Inode
    <3> QED
      BY <3>1, SomeAreDull
  <2> QED
    BY <1>1, <1>3, <2>4, <2>5 DEF FreeAreDull
<1> QED
  BY <1>1, <1>2, <1>3

\* A call on the directory tree carries the names it is not about, from what the
\* disk shows now to what it will show when the call is done.
OthersToCome ==
  pc \notin {"idle", "write"} /\ job.op # "write" =>
    \E B \in [DataBlocks -> Block] :
       /\ Ends(disk.blocks, pending, B)
       /\ Carries(disk.inodes, disk.blocks, mem.inodes, B, mem.inodeBitmap, job.inum, job.name)

\* write() behind its loop has changed no inode but that of the file.
OneFile ==
  pc \in {"dataBitmap", "region"} /\ job.op = "write" =>
    /\ mem.inodes[job.inum].type = RegularFile /\ disk.inodes[job.inum].type = RegularFile
    /\ \A j \in Inodes \ {job.inum} : mem.inodes[j] = disk.inodes[j]

\* The invariant.
OthersKept == FreeAreDull(mem.inodes, mem.inodeBitmap) /\ OthersToCome /\ OneFile

\* The first image, if the stack left nothing in the inodes that looks like a directory.
LEMMA InitOthers ==
  ASSUME \A ino \in StackInodes : Dull(ino), Init
  PROVE  OthersKept
<1>1. PICK ino \in [Inodes -> StackInodes \cup {ZeroInode, RootInode}],
           rest \in [Slots -> StackNames] :
        /\ Formatted(ino)
        /\ disk = [inodeBitmap |-> {Root}, dataBitmap |-> {DataRegionAddr},
                   inodes |-> ino,
                   blocks |-> [b \in DataBlocks |->
                                 IF b = DataRegionAddr THEN RootBlock(rest) ELSE ZeroBlock]]
  BY DEF Init
<1>2. pc = "idle" /\ mem.inodes = ino /\ mem.inodeBitmap = {Root}
  BY <1>1 DEF Init, Meta
<1>3. Dull(ZeroInode)
  <2>1. ZeroInode.size = 0
    BY DEF ZeroInode
  <2> QED
    BY <2>1, SomeAreDull
<1>4. FreeAreDull(mem.inodes, mem.inodeBitmap)
  BY <1>1, <1>2, <1>3 DEF FreeAreDull, Formatted
<1> QED
  BY <1>2, <1>4 DEF OthersKept, OthersToCome, OneFile

\* The call is over.
LEMMA ReturnOthers ==
  ASSUME Return(disk'), FreeAreDull(disk'.inodes, disk'.inodeBitmap)
  PROVE  OthersKept'
<1>1. pc' = "idle" /\ mem'.inodes = disk'.inodes /\ mem'.inodeBitmap = disk'.inodeBitmap
  BY DEF Return, Meta
<1>2. FreeAreDull(mem'.inodes, mem'.inodeBitmap)
  BY <1>1
<1> QED
  BY <1>1, <1>2 DEF OthersKept, OthersToCome, OneFile

\* Between two calls the free inodes of the image are such.
LEMMA IdleDull ==
  Kept /\ OthersKept /\ pc = "idle" => FreeAreDull(disk.inodes, disk.inodeBitmap)
BY DEF Kept, Ownership, Control, OthersKept, Meta

\* A step that changes nothing.
LEMMA SameOthers == OthersKept /\ UNCHANGED vars => OthersKept'
BY DEF vars, OthersKept, OthersToCome, OneFile

\* A call on the directory tree begins.
LEMMA StartOthers ==
  ASSUME OthersKept, NEW j, NEW plan, Start(j, plan), j.op # "write",
         ~IsRefused(plan) => /\ FreeAreDull(plan.mem.inodes, plan.mem.inodeBitmap)
                             /\ PlanCarries(disk, plan, j.inum, j.name)
  PROVE  OthersKept'
<1>1. CASE UNCHANGED vars
  BY <1>1, SameOthers
<1>2. CASE ~IsRefused(plan) /\ Proceed(j, plan)
  <2>1. /\ job' = j /\ pending' = plan.writes /\ mem' = plan.mem /\ disk' = disk
        /\ pc' \in {"inodeBitmap", "blocks"}
    BY <1>2 DEF Proceed
  <2>2. OthersToCome'
    BY <1>2, <2>1 DEF OthersToCome, PlanCarries
  <2> QED
    BY <1>2, <2>1, <2>2 DEF OthersKept, OneFile
<1> QED
  BY <1>1, <1>2 DEF Start

\* create begins,
LEMMA CreateOthers ==
  ASSUME Kept, NamesKept, OthersKept, NEW p, NEW type \in {Directory, RegularFile}, NEW n,
         Create(p, type, n)
  PROVE  OthersKept'
<1> DEFINE plan == CreatePlan(disk, p, type, n)
           j    == [op |-> "create", inum |-> p, type |-> type, name |-> n, ret |-> plan.ret]
<1>1. pc = "idle" /\ Start(j, plan)
  BY DEF Create
<1>2. Tree(disk) /\ Usable(disk) /\ FreeAreDull(disk.inodes, disk.inodeBitmap)
  BY <1>1, IdleTree, IdleDull
<1>3. ~IsRefused(plan) => FreeAreDull(plan.mem.inodes, plan.mem.inodeBitmap)
                          /\ PlanCarries(disk, plan, p, n)
  <2> HIDE DEF plan
  <2>1. plan = CreatePlan(disk, p, type, n)
    BY DEF plan
  <2> QED
    BY <1>2, <2>1, CreateDull, CreateCarries
<1>4. j.op # "write" /\ j.inum = p /\ j.name = n
  OBVIOUS
<1> HIDE DEF plan, j
<1> QED
  BY <1>1, <1>3, <1>4, StartOthers

\* and unlink.
LEMMA UnlinkOthers ==
  ASSUME Asan, Kept, NamesKept, OthersKept, NEW p, NEW n, Unlink(p, n),
         NoGap' \/ DirectPtrs <= 2
  PROVE  OthersKept'
<1>1. PICK heap \in [HeapRange(disk, p) -> HeapCells], lucky \in BOOLEAN :
        UnlinkWith(p, n, UnlinkPlan(disk, p, n, heap, lucky))
  BY DEF Unlink, UnlinkPlans
<1> DEFINE plan == UnlinkPlan(disk, p, n, heap, lucky)
           j    == [op |-> "unlink", inum |-> p, name |-> n, ret |-> plan.ret]
<1>2. pc = "idle" /\ Start(j, plan)
  BY <1>1 DEF UnlinkWith
<1>3. Tree(disk) /\ Usable(disk) /\ FreeAreDull(disk.inodes, disk.inodeBitmap)
  BY <1>2, IdleTree, IdleDull
<1>4. ~IsRefused(plan) => FreeAreDull(plan.mem.inodes, plan.mem.inodeBitmap)
                          /\ PlanCarries(disk, plan, p, n)
  <2> HIDE DEF plan
  <2> SUFFICES ASSUME ~IsRefused(plan)
               PROVE  FreeAreDull(plan.mem.inodes, plan.mem.inodeBitmap)
                      /\ PlanCarries(disk, plan, p, n)
    OBVIOUS
  <2>1. plan = UnlinkPlan(disk, p, n, heap, lucky)
    BY DEF plan
  <2>2. mem' = plan.mem
    BY <1>2 DEF Start, Proceed
  <2>3. NoGaps(plan.mem) \/ DirectPtrs <= 2
    BY <2>2 DEF NoGap
  <2>4. FreeAreDull(plan.mem.inodes, plan.mem.inodeBitmap)
    BY <1>3, <2>1, UnlinkDull
  <2>5. PlanCarries(disk, plan, p, n)
    BY <1>3, <2>1, <2>3, UnlinkCarries
  <2> QED
    BY <2>4, <2>5
<1>5. j.op # "write" /\ j.inum = p /\ j.name = n
  OBVIOUS
<1> HIDE DEF plan, j
<1> QED
  BY <1>2, <1>4, <1>5, StartOthers

\* While write() runs the inodes are those of the disk, but for the file's.
LEMMA FileOthers ==
  ASSUME OthersKept, NEW x, NEW S, S = mem.inodeBitmap, NEW i, x[i].type = RegularFile,
         \A j \in Inodes \ {i} : x[j] = mem.inodes[j]
  PROVE  FreeAreDull(x, S)
<1>1. \A j \in Inodes : Dull(mem.inodes[j]) /\ j # i => Dull(x[j])
  OBVIOUS
<1>2. Dull(x[i])
  BY SomeAreDull
<1> QED
  BY <1>1, <1>2 DEF OthersKept, FreeAreDull

\* write() begins, and writes,
LEMMA LoopOthers ==
  ASSUME OthersKept, pc' = "write", mem'.inodeBitmap = mem.inodeBitmap,
         mem' = mem \/ \E i : /\ mem'.inodes[i].type = RegularFile
                              /\ \A j \in Inodes \ {i} : mem'.inodes[j] = mem.inodes[j]
  PROVE  OthersKept'
<1>1. FreeAreDull(mem'.inodes, mem'.inodeBitmap)
  BY FileOthers DEF OthersKept
<1> QED
  BY <1>1 DEF OthersKept, OthersToCome, OneFile

\* and gives up.
LEMMA StopOthers ==
  ASSUME Kept, NamesKept, OthersKept, pc = "write", disk' = disk, Return(disk')
  PROVE  OthersKept'
<1>1. disk.inodeBitmap = mem.inodeBitmap /\ disk.inodes[job.inum].type = RegularFile
      /\ job.op = "write"
  BY DEF Kept, Contents, FilesApart, NamesKept, CallKnows, Ownership, Control
<1>2. \A j \in Inodes \ {job.inum} : disk.inodes[j] = mem.inodes[j]
  BY <1>1 DEF Kept, Ownership, Control
<1>3. FreeAreDull(disk.inodes, disk.inodeBitmap)
  BY <1>1, <1>2, FileOthers
<1> QED
  BY <1>3, ReturnOthers

\* Where the loop is over the inode of the file is still that of a file.
LEMMA TrimmedFile ==
  ASSUME NEW m \in Metadata, NEW i \in Inodes, NEW size \in Int, NEW drop \in SUBSET Ptrs,
         NEW r, r = Trimmed(m, i, size, drop)
  PROVE  /\ r.inodes[i].type = m.inodes[i].type /\ r.inodeBitmap = m.inodeBitmap
         /\ \A j \in Inodes \ {i} : r.inodes[j] = m.inodes[j]
<1> DEFINE ino  == m.inodes[i]
           ptrs == [a \in Ptrs |-> IF a \in drop THEN NoBlock ELSE ino.direct[a]]
           new  == Changed(ino, size, ptrs)
<1>1. r.inodes = [m.inodes EXCEPT ![i] = new] /\ r.inodeBitmap = m.inodeBitmap
  BY DEF Trimmed, Changed, Metadata
<1>2. ino \in Inode /\ m.inodes \in [Inodes -> Inode]
  BY DEF Metadata
<1> HIDE DEF ino, ptrs
<1>3. new.type = ino.type
  BY <1>2 DEF Changed, Inode
<1> HIDE DEF new
<1> QED
  BY <1>1, <1>2, <1>3 DEF ino

\* The steps of write() keep the invariant: the loop,
LEMMA WriteAllocateOthers == Kept /\ NamesKept /\ OthersKept /\ WriteAllocate => OthersKept'
<1> SUFFICES ASSUME Kept, NamesKept, OthersKept, WriteAllocate PROVE OthersKept'
  OBVIOUS
<1> DEFINE b == Least(DataBlocks \ mem.dataBitmap)
           i == job.inum
<1>1. InLoop /\ mem' = WithChunk(mem, i, k, b) /\ UNCHANGED <<pc, job, pending>>
  BY DEF WriteAllocate, WithChunk
<1>2. i \in Inodes /\ pc = "write" /\ mem \in Metadata
  BY <1>1, InTheLoop DEF Kept, Ownership, Structure
<1> HIDE DEF b
<1>3. /\ mem'.inodeBitmap = mem.inodeBitmap
      /\ mem'.inodes = [mem.inodes EXCEPT ![i].direct[k] = b]
  BY <1>1, <1>2 DEF WithChunk, Metadata
<1>4. /\ \A j \in Inodes \ {i} : mem'.inodes[j] = mem.inodes[j]
      /\ mem'.inodes[i] = [mem.inodes[i] EXCEPT !.direct[k] = b]
      /\ mem.inodes[i] \in Inode
  BY <1>2, <1>3 DEF Metadata
<1>5. mem'.inodes[i].type = mem.inodes[i].type
  BY <1>4 DEF Inode
<1>6. mem.inodes[i].type = RegularFile
  BY <1>2 DEF NamesKept, CallKnows
<1> QED
  BY <1>1, <1>2, <1>3, <1>4, <1>5, <1>6, LoopOthers

\* and what comes behind it.
LEMMA WriteTrimOthers == Kept /\ NamesKept /\ OthersKept /\ WriteTrim => OthersKept'
<1> SUFFICES ASSUME Kept, NamesKept, OthersKept, WriteTrim PROVE OthersKept'
  OBVIOUS
<1> DEFINE i    == job.inum
           ino  == mem.inodes[i]
           drop == {a \in Held(ino, BlocksFor(ino.size)) : a >= BlocksFor(job.ret)}
<1>1. pc = "write" /\ disk' = disk
  BY DEF WriteTrim
<1>2. CASE Return(disk)
  <2>1. Return(disk')
    BY <1>1, <1>2 DEF Return
  <2> QED
    BY <1>1, <2>1, StopOthers
<1>3. CASE pc' = "dataBitmap" /\ job' = job /\ mem' = Trimmed(mem, i, job.ret, drop)
  <2>1. mem \in Metadata /\ i \in Inodes /\ job.op = "write" /\ job.ret \in Int
    BY <1>1 DEF Kept, Ownership, Structure, Control
  <2>2. mem.inodes[i].type = RegularFile /\ disk.inodes[i].type = RegularFile
    BY <1>1 DEF NamesKept, CallKnows
  <2>3. \A j \in Inodes \ {i} : mem.inodes[j] = disk.inodes[j]
    BY <1>1, <2>1 DEF Kept, Ownership, Control
  <2>4. drop \in SUBSET Ptrs
    BY DEF Held
  <2> HIDE DEF drop
  <2>5. /\ mem'.inodes[i].type = mem.inodes[i].type /\ mem'.inodeBitmap = mem.inodeBitmap
        /\ \A j \in Inodes \ {i} : mem'.inodes[j] = mem.inodes[j]
    BY <1>3, <2>1, <2>4, TrimmedFile
  <2>6. FreeAreDull(mem'.inodes, mem'.inodeBitmap)
    BY <2>2, <2>5, FileOthers
  <2>7. OneFile'
    BY <1>1, <1>3, <2>2, <2>3, <2>5 DEF OneFile
  <2> QED
    BY <1>3, <2>1, <2>6, <2>7 DEF OthersKept, OthersToCome
<1> QED
  BY <1>2, <1>3 DEF WriteTrim, Trimmed

\* So all steps of write() do.
LEMMA WriteStepOthers == Kept /\ NamesKept /\ OthersKept /\ WriteSteps => OthersKept'
<1> SUFFICES ASSUME Kept, NamesKept, OthersKept, WriteSteps PROVE OthersKept'
  OBVIOUS
<1>1. CASE WriteReuse
  <2>1. pc' = "write" /\ mem' = mem
    BY <1>1 DEF WriteReuse, InLoop
  <2> QED
    BY <2>1, LoopOthers
<1>2. CASE WriteFails
  <2>1. Return(disk') /\ disk' = disk /\ pc = "write"
    BY <1>2 DEF WriteFails, Return, InLoop
  <2> QED
    BY <2>1, StopOthers
<1> QED
  BY <1>1, <1>2, WriteAllocateOthers, WriteTrimOthers DEF WriteSteps

\* What a step may do to what lookup finds.
NamesStay ==
  \A p \in Directories(disk) \cap mem'.inodeBitmap, n \in Names :
     ~AboutName(p, n) /\ Lookup(disk, p, n) >= 0
     => Lookup(disk', p, n) = Lookup(disk, p, n)

\* A step that leaves inodes and blocks of the image alone.
LEMMA NothingMoves ==
  ASSUME disk'.inodes = disk.inodes, disk'.blocks = disk.blocks
  PROVE  NamesStay
<1>1. \A p, n : Lookup(disk', p, n) = Lookup(disk, p, n)
  BY LookupDependsOn
<1> QED
  BY <1>1 DEF NamesStay

\* A block of the file that write() runs on: no directory has it.
LEMMA ChunkStays ==
  ASSUME Kept, NamesKept, InLoop, NEW b \in DataBlocks, PutChunk(b),
         mem'.inodeBitmap = mem.inodeBitmap,
         \A j \in Inodes \ {job.inum}, a \in Ptrs : mem.inodes[j].direct[a] # b
  PROVE  NamesStay
<1>1. pc = "write" /\ job.op = "write"
  BY InTheLoop
<1>2. disk \in Image /\ mem \in Metadata /\ disk.inodeBitmap = mem.inodeBitmap
  BY <1>1 DEF Kept, Contents, TypeOK, FilesApart
<1>3. /\ disk'.inodes = disk.inodes
      /\ \A c \in DataBlocks : c # b => disk'.blocks[c] = disk.blocks[c]
  <2> DEFINE ch == Chunk(job.text, job.ret, k)
  <2>1. disk' = [disk EXCEPT !.blocks[b] = ch]
    BY DEF PutChunk
  <2> HIDE DEF ch
  <2> QED
    BY <1>2, <2>1 DEF Image
<1>4. /\ mem.inodes[job.inum].type = RegularFile
      /\ disk.inodes[job.inum].type = RegularFile /\ pending = <<>>
      /\ \A j \in Inodes \ {job.inum} : mem.inodes[j] = disk.inodes[j]
  BY <1>1 DEF NamesKept, CallKnows, Kept, Ownership, Control
<1>5. Tree(After(mem, disk.blocks))
  BY <1>2, <1>4, NothingPending DEF NamesKept, Image
<1>6. ASSUME NEW p \in Directories(disk), NEW n
      PROVE  Lookup(disk', p, n) = Lookup(disk, p, n)
  <2>1. /\ p \in disk.inodeBitmap /\ disk.inodes[p].type = Directory /\ p \in Inodes
        /\ p # job.inum
    BY <1>2, <1>4 DEF Directories, Metadata, Directory, RegularFile
  <2>2. mem.inodes[p] = disk.inodes[p]
    BY <1>4, <2>1
  <2>3. Filled(disk, p)
    <3> DEFINE e == After(mem, disk.blocks)
    <3>1. e.inodeBitmap = mem.inodeBitmap /\ e.inodes = mem.inodes /\ e.blocks = disk.blocks
          /\ Tree(e)
      BY <1>5 DEF After
    <3> HIDE DEF e
    <3>2. Filled(e, p)
      BY <1>2, <2>1, <2>2, <3>1 DEF Tree, Directories
    <3>3. \A ino, pos : CellAt(e, ino, pos) = CellAt(disk, ino, pos)
      BY <3>1 DEF CellAt
    <3> QED
      BY <2>2, <3>1, <3>2, <3>3 DEF Filled
  <2>4. \A a \in Ptrs : disk.inodes[p].direct[a] \in DataBlocks =>
            disk'.blocks[disk.inodes[p].direct[a]] = disk.blocks[disk.inodes[p].direct[a]]
    BY <1>3, <2>1, <2>2
  <2> QED
    BY <1>3, <2>3, <2>4, LookupStays
<1> QED
  BY <1>6 DEF NamesStay

\* The steps of write().
LEMMA WriteStepStays == Kept /\ NamesKept /\ WriteSteps => NamesStay
<1> SUFFICES ASSUME Kept, NamesKept, WriteSteps PROVE NamesStay
  OBVIOUS
<1>1. CASE WriteReuse
  <2> DEFINE b == mem.inodes[job.inum].direct[k]
  <2>1. InLoop /\ b \in DataBlocks /\ PutChunk(b) /\ mem' = mem
    BY <1>1 DEF WriteReuse
  <2>2. job.inum \in Inodes /\ k \in Ptrs /\ Unshared(mem.inodes)
    BY <2>1, InTheLoop DEF Kept, Ownership, Owners
  <2>3. \A j \in Inodes \ {job.inum}, a \in Ptrs : mem.inodes[j].direct[a] # b
    BY <2>1, <2>2 DEF Unshared
  <2> QED
    BY <2>1, <2>3, ChunkStays
<1>2. CASE WriteAllocate
  <2> DEFINE b == Least(DataBlocks \ mem.dataBitmap)
  <2>1. /\ InLoop /\ PutChunk(b) /\ mem' = WithChunk(mem, job.inum, k, b)
        /\ mem.dataBitmap # DataBlocks
    BY <1>2 DEF WriteAllocate, WithChunk
  <2>2. mem \in Metadata /\ Marked(mem.inodes, mem.dataBitmap)
    BY DEF Kept, Ownership, Structure, Owners
  <2>3. b \in DataBlocks /\ b \notin mem.dataBitmap
    <3>1. DataBlocks \ mem.dataBitmap \in SUBSET Nat
      BY Layout
    <3>2. DataBlocks \ mem.dataBitmap # {}
      BY <2>1, <2>2 DEF Metadata
    <3> QED
      BY <3>1, <3>2, LeastIsMinimum
  <2> HIDE DEF b
  <2>4. mem'.inodeBitmap = mem.inodeBitmap
    BY <2>1, <2>2 DEF WithChunk, Metadata
  <2>5. \A j \in Inodes \ {job.inum}, a \in Ptrs : mem.inodes[j].direct[a] # b
    BY <2>2, <2>3 DEF Marked
  <2> QED
    BY <2>1, <2>3, <2>4, <2>5, ChunkStays
<1>3. CASE WriteFails \/ WriteTrim
  BY <1>3, NothingMoves DEF WriteFails, WriteTrim
<1> QED
  BY <1>1, <1>2, <1>3 DEF WriteSteps

\* One more block is the one to come: what is carried still is.
LEMMA CarriesOn ==
  ASSUME NEW x, NEW Bl, NEW y, NEW B, NEW S, NEW p, NEW n, Carries(x, Bl, y, B, S, p, n),
         NEW C, Between(Bl, B, C)
  PROVE  /\ Carries(x, C, y, B, S, p, n)
         /\ \A q \in S, s \in Names : ~(q = p /\ s = n) =>
              Same(Lookup(Seen(x, C), q, s), Lookup(Seen(x, Bl), q, s))
<1>1. \A D : Between(C, B, D) => Between(Bl, B, D)
  BY DEF Between
<1>2. ASSUME NEW q \in S, NEW s \in Names, ~(q = p /\ s = n)
      PROVE  /\ Same(Lookup(Seen(x, C), q, s), Lookup(Seen(x, Bl), q, s))
             /\ \A D : Between(C, B, D) => Same(Lookup(Seen(x, D), q, s), Lookup(Seen(x, C), q, s))
             /\ Keeps(Lookup(Seen(x, C), q, s), Lookup(Seen(y, B), q, s))
  <2> DEFINE L(z, D) == Lookup(Seen(z, D), q, s)
  <2>1. /\ \A D : Between(Bl, B, D) => Same(L(x, D), L(x, Bl))
        /\ Keeps(L(x, Bl), L(y, B))
    BY <1>2 DEF Carries
  <2> HIDE DEF L
  <2>2. Same(L(x, C), L(x, Bl))
    BY <2>1
  <2>3. \A D : Between(C, B, D) => Same(L(x, D), L(x, C))
    BY <1>1, <2>1, <2>2 DEF Same
  <2>4. Keeps(L(x, C), L(y, B))
    BY <2>1, <2>2 DEF Same, Missed, Keeps
  <2> QED
    BY <2>2, <2>3, <2>4 DEF L
<1> QED
  BY <1>2 DEF Carries

\* The block writes of a call on the directory tree.
LEMMA FlushBlockOthers ==
  Kept /\ NamesKept /\ OthersKept /\ FlushBlock => OthersKept' /\ NamesStay
<1> SUFFICES ASSUME Kept, NamesKept, OthersKept, FlushBlock PROVE OthersKept' /\ NamesStay
  OBVIOUS
<1> DEFINE h == Head(pending)
<1>1. /\ pc = "blocks" /\ job.op # "write" /\ job.op \in {"create", "unlink"} /\ disk \in Image
      /\ pending # <<>> /\ pending \in Seq(Safe(disk))
  BY DEF FlushBlock, Kept, Ownership, Control, Contents, TypeOK, FilesApart, Safe
<1>2. pending \in Writes
  BY <1>1, SafeWrites DEF Writes
<1>3. h.addr \in DataBlocks /\ h.cells \in Block
  <2>1. h \in Safe(disk)
    BY <1>1
  <2> HIDE DEF h
  <2> QED
    BY <2>1 DEF Safe, Harmless
<1>4. /\ disk'.inodes = disk.inodes /\ disk'.inodeBitmap = disk.inodeBitmap
      /\ disk'.dataBitmap = disk.dataBitmap
      /\ disk'.blocks = [disk.blocks EXCEPT ![h.addr] = h.cells]
      /\ disk.blocks \in [DataBlocks -> Block] /\ disk'.blocks \in [DataBlocks -> Block]
  <2>1. disk' = [disk EXCEPT !.blocks[h.addr] = h.cells]
    BY DEF FlushBlock
  <2> HIDE DEF h
  <2> QED
    BY <1>1, <1>3, <2>1 DEF Image
<1>5. PICK B \in [DataBlocks -> Block] :
       /\ Ends(disk.blocks, pending, B)
       /\ Carries(disk.inodes, disk.blocks, mem.inodes, B, mem.inodeBitmap, job.inum, job.name)
  BY <1>1 DEF OthersKept, OthersToCome
<1>6. Ends(disk'.blocks, Tail(pending), B)
  BY <1>1, <1>2, <1>4, <1>5, OneFlushed
<1>7. B[h.addr] = h.cells
  <2>1. 1 \in 1 .. Len(pending) /\ h = pending[1]
    BY <1>1
  <2> HIDE DEF h
  <2> QED
    BY <1>5, <2>1 DEF Ends
<1>8. Between(disk.blocks, B, disk'.blocks)
  <2>1. \A b \in DataBlocks : disk'.blocks[b] \in {disk.blocks[b], B[b]}
    BY <1>3, <1>4, <1>7
  <2> QED
    BY <1>4, <2>1 DEF Between
<1> HIDE DEF h
<1>9. /\ Carries(disk.inodes, disk'.blocks, mem.inodes, B, mem.inodeBitmap, job.inum, job.name)
      /\ \A q \in mem.inodeBitmap, s \in Names : ~(q = job.inum /\ s = job.name) =>
           Same(Lookup(Seen(disk.inodes, disk'.blocks), q, s),
                Lookup(Seen(disk.inodes, disk.blocks), q, s))
  BY <1>5, <1>8, CarriesOn
<1>10. Meta(disk') = Meta(disk)
  BY <1>4 DEF Meta
<1>11. mem'.inodeBitmap = mem.inodeBitmap
  <2>1. CASE Return(disk') /\ job.ret < 0
    <3>1. mem = Meta(disk) /\ mem' = Meta(disk')
      BY <1>1, <2>1 DEF NamesKept, CallKnows, Return
    <3> QED
      BY <1>10, <3>1
  <2>2. CASE mem' = mem
    BY <2>2
  <2> QED
    BY <2>1, <2>2 DEF FlushBlock
<1>12. NamesStay
  <2> SUFFICES ASSUME NEW p \in Directories(disk) \cap mem'.inodeBitmap, NEW n \in Names,
                      ~AboutName(p, n), Lookup(disk, p, n) >= 0
               PROVE  Lookup(disk', p, n) = Lookup(disk, p, n)
    BY DEF NamesStay
  <2>1. ~(p = job.inum /\ n = job.name)
    BY <1>1 DEF AboutName
  <2>2. Same(Lookup(Seen(disk.inodes, disk'.blocks), p, n), Lookup(Seen(disk.inodes, disk.blocks), p, n))
    BY <1>9, <1>11, <2>1
  <2>3. /\ Lookup(Seen(disk.inodes, disk'.blocks), p, n) = Lookup(disk', p, n)
        /\ Lookup(Seen(disk.inodes, disk.blocks), p, n) = Lookup(disk, p, n)
    <3>1. \A z : Seen(disk.inodes, z).inodes = disk.inodes /\ Seen(disk.inodes, z).blocks = z
      BY DEF Seen
    <3> QED
      BY <1>4, <3>1, LookupDependsOn
  <2> QED
    BY <2>2, <2>3 DEF Same, Missed
<1>13. OthersKept'
  <2>1. CASE Return(disk') /\ job.ret < 0
    <3>1. mem = Meta(disk)
      BY <1>1, <2>1 DEF NamesKept, CallKnows
    <3>2. mem.inodes = disk'.inodes /\ mem.inodeBitmap = disk'.inodeBitmap
      BY <1>4, <3>1 DEF Meta
    <3>3. FreeAreDull(disk'.inodes, disk'.inodeBitmap)
      BY <3>2 DEF OthersKept
    <3> QED
      BY <2>1, <3>3, ReturnOthers
  <2>2. CASE /\ pending' = Tail(pending) /\ UNCHANGED <<job, mem>>
             /\ pc' = (IF Tail(pending) = <<>> THEN "inodeBitmap" ELSE "blocks")
    <3>1. OthersToCome'
      BY <1>4, <1>5, <1>6, <1>9, <2>2 DEF OthersToCome
    <3> QED
      BY <2>2, <3>1 DEF OthersKept, OneFile
  <2> QED
    BY <2>1, <2>2 DEF FlushBlock
<1> QED
  BY <1>12, <1>13

\* The bitmaps.
LEMMA FlushBitmapsOthers ==
  Kept /\ OthersKept /\ (FlushInodeBitmap \/ FlushDataBitmap) => OthersKept' /\ NamesStay
<1> SUFFICES ASSUME Kept, OthersKept, FlushInodeBitmap \/ FlushDataBitmap
             PROVE  OthersKept' /\ NamesStay
  OBVIOUS
<1>1. disk \in Image
  BY DEF Kept, Contents, TypeOK
<1>2. disk'.inodes = disk.inodes /\ disk'.blocks = disk.blocks /\ UNCHANGED <<job, pending>>
  BY <1>1 DEF FlushInodeBitmap, FlushDataBitmap, Image
<1>3. mem' = mem
  BY FlushDataBitmapMem DEF FlushInodeBitmap, Kept
<1>4. /\ pc \in {"inodeBitmap", "dataBitmap"} /\ pc' \in {"dataBitmap", "region"}
      /\ pc = "inodeBitmap" => job.op # "write"
  BY DEF FlushInodeBitmap, FlushDataBitmap, Kept, Ownership, Control
<1>5. OthersToCome'
  BY <1>2, <1>3, <1>4 DEF OthersKept, OthersToCome
<1>6. OneFile'
  BY <1>2, <1>3, <1>4 DEF OthersKept, OneFile
<1> QED
  BY <1>2, <1>3, <1>5, <1>6, NothingMoves DEF OthersKept

\* A block of the inode region: every inode is the old one or the new one.
LEMMA FlushRegionOthers ==
  Kept /\ NamesKept /\ OthersKept /\ FlushRegion => OthersKept' /\ NamesStay
<1> SUFFICES ASSUME Kept, NamesKept, OthersKept, FlushRegion PROVE OthersKept' /\ NamesStay
  OBVIOUS
<1>1. /\ pc = "region" /\ disk \in Image /\ pending = <<>> /\ disk.inodeBitmap = mem.inodeBitmap
      /\ mem \in Metadata /\ job.op \in {"create", "unlink", "write"}
  BY DEF FlushRegion, Kept, Contents, TypeOK, NamesKept, CallKnows, FilesApart, Ownership, Control
<1> DEFINE inodes == [i \in Inodes |-> IF i \div InodesPerBlock = k THEN mem.inodes[i]
                                       ELSE disk.inodes[i]]
<1>2. disk'.inodes = inodes /\ disk'.blocks = disk.blocks /\ disk'.inodeBitmap = disk.inodeBitmap
  <2>1. disk' = [disk EXCEPT !.inodes = inodes]
    BY DEF FlushRegion
  <2> HIDE DEF inodes
  <2> QED
    BY <1>1, <2>1 DEF Image
<1>3. \A i \in Inodes : disk'.inodes[i] \in {disk.inodes[i], mem.inodes[i]}
  BY <1>2
<1> HIDE DEF inodes
<1>4. mem'.inodeBitmap = mem.inodeBitmap
  BY <1>1, <1>2 DEF FlushRegion, Return, Meta
<1> DEFINE Bl == disk.blocks
<1>5. Bl \in [DataBlocks -> Block] /\ disk.inodeBitmap \in SUBSET Inodes
  BY <1>1 DEF Image
<1>6. job.op # "write" =>
        Carries(disk.inodes, Bl, mem.inodes, Bl, mem.inodeBitmap, job.inum, job.name)
  <2> SUFFICES ASSUME job.op # "write"
               PROVE  Carries(disk.inodes, Bl, mem.inodes, Bl, mem.inodeBitmap, job.inum, job.name)
    OBVIOUS
  <2>1. PICK B \in [DataBlocks -> Block] :
          /\ Ends(Bl, pending, B)
          /\ Carries(disk.inodes, Bl, mem.inodes, B, mem.inodeBitmap, job.inum, job.name)
    BY <1>1 DEF OthersKept, OthersToCome
  <2>2. Ends(Bl, pending, Bl)
    BY <1>1, <1>5, NoWrite
  <2>3. B = Bl
    BY <1>5, <2>1, <2>2, EndsOnce
  <2> QED
    BY <2>1, <2>3
<1>7. \A x, q, s : Seen(x, Bl).inodes = x /\ Seen(x, Bl).blocks = Bl
  BY DEF Seen
<1>8. ASSUME NEW q \in mem.inodeBitmap, NEW s
      PROVE  \/ Lookup(Seen(disk'.inodes, Bl), q, s) = Lookup(Seen(disk.inodes, Bl), q, s)
             \/ Lookup(Seen(disk'.inodes, Bl), q, s) = Lookup(Seen(mem.inodes, Bl), q, s)
  <2>1. q \in Inodes
    BY <1>1, <1>5
  <2> QED
    BY <1>3, <1>7, <2>1, LookupDependsOn
<1>9. /\ \A q, s : Lookup(Seen(disk'.inodes, Bl), q, s) = Lookup(disk', q, s)
      /\ \A q, s : Lookup(Seen(disk.inodes, Bl), q, s) = Lookup(disk, q, s)
  BY <1>2, <1>7, LookupDependsOn
<1>10. NamesStay
  <2> SUFFICES ASSUME NEW p \in Directories(disk) \cap mem'.inodeBitmap, NEW n \in Names,
                      ~AboutName(p, n), Lookup(disk, p, n) >= 0
               PROVE  Lookup(disk', p, n) = Lookup(disk, p, n)
    BY DEF NamesStay
  <2>1. p \in mem.inodeBitmap /\ p \in Inodes /\ disk.inodes[p].type = Directory
    BY <1>1, <1>4, <1>5 DEF Directories
  <2>2. CASE job.op = "write"
    <3>1. p # job.inum
      BY <1>1, <2>1, <2>2 DEF OthersKept, OneFile, Directory, RegularFile
    <3>2. mem.inodes[p] = disk.inodes[p]
      BY <1>1, <2>1, <2>2, <3>1 DEF OthersKept, OneFile
    <3>3. disk'.inodes[p] = disk.inodes[p]
      BY <1>3, <2>1, <3>2
    <3> QED
      BY <1>2, <3>3, LookupDependsOn
  <2>3. CASE job.op # "write"
    <3>1. ~(p = job.inum /\ n = job.name)
      BY <1>1, <2>3 DEF AboutName
    <3>2. Keeps(Lookup(Seen(disk.inodes, Bl), p, n), Lookup(Seen(mem.inodes, Bl), p, n))
      BY <1>6, <2>1, <2>3, <3>1 DEF Carries
    <3> QED
      BY <1>8, <1>9, <2>1, <3>2 DEF Keeps
  <2> QED
    BY <2>2, <2>3
<1>11. CASE k + 1 = InodeRegionLen
  <2>1. disk'.inodeBitmap = mem.inodeBitmap /\ disk'.inodes = mem.inodes
    BY <1>11, RegionDone
  <2>2. FreeAreDull(disk'.inodes, disk'.inodeBitmap)
    BY <2>1 DEF OthersKept
  <2>3. Return(disk')
    BY <1>11 DEF FlushRegion
  <2> QED
    BY <1>10, <2>2, <2>3, ReturnOthers
<1>12. CASE k + 1 # InodeRegionLen
  <2>1. UNCHANGED <<pc, job, pending, mem>>
    BY <1>12 DEF FlushRegion
  <2>2. ASSUME job.op # "write"
        PROVE  Carries(disk'.inodes, Bl, mem.inodes, Bl, mem.inodeBitmap, job.inum, job.name)
    <3>1. ASSUME NEW q \in mem.inodeBitmap, NEW s \in Names, ~(q = job.inum /\ s = job.name)
          PROVE  /\ \A C : Between(Bl, Bl, C) =>
                      Same(Lookup(Seen(disk'.inodes, C), q, s), Lookup(Seen(disk'.inodes, Bl), q, s))
                 /\ Keeps(Lookup(Seen(disk'.inodes, Bl), q, s), Lookup(Seen(mem.inodes, Bl), q, s))
      <4>1. \A C : Between(Bl, Bl, C) => C = Bl
        BY <1>5 DEF Between
      <4>2. Keeps(Lookup(Seen(disk.inodes, Bl), q, s), Lookup(Seen(mem.inodes, Bl), q, s))
        BY <1>6, <2>2, <3>1 DEF Carries
      <4> QED
        BY <1>8, <4>1, <4>2 DEF Same, Keeps
    <3> QED
      BY <3>1 DEF Carries
  <2>3. OthersToCome'
    <3>1. Ends(Bl, pending, Bl)
      BY <1>1, <1>5, NoWrite
    <3> QED
      BY <1>2, <1>5, <2>1, <2>2, <3>1 DEF OthersToCome
  <2>4. OneFile'
    <3> SUFFICES ASSUME job.op = "write"
                 PROVE  /\ disk'.inodes[job.inum].type = RegularFile
                        /\ mem.inodes[job.inum].type = RegularFile
                        /\ \A j \in Inodes \ {job.inum} : mem.inodes[j] = disk'.inodes[j]
      BY <2>1 DEF OneFile
    <3>1. /\ mem.inodes[job.inum].type = RegularFile /\ disk.inodes[job.inum].type = RegularFile
          /\ \A j \in Inodes \ {job.inum} : mem.inodes[j] = disk.inodes[j]
      BY <1>1 DEF OthersKept, OneFile
    <3>2. job.inum \in Inodes
      BY <1>1 DEF Kept, Contents, TypeOK, Jobs, NoJob
    <3> QED
      BY <1>3, <3>1, <3>2
  <2> QED
    BY <1>10, <2>1, <2>3, <2>4 DEF OthersKept
<1> QED
  BY <1>11, <1>12

\* The invariant is inductive, and every step leaves the other names alone.
LEMMA NextOthers ==
  ASSUME Asan, Kept, NamesKept, OthersKept, [Calls]_vars, NoGap' \/ DirectPtrs <= 2
  PROVE  OthersKept' /\ (NamesStay \/ UNCHANGED vars)
<1>1. CASE \E p \in AnyInode, type \in {Directory, RegularFile}, n \in AnyName : Create(p, type, n)
  <2>1. disk' = disk
    BY <1>1 DEF Create, Start, Proceed, vars
  <2> QED
    BY <1>1, <2>1, CreateOthers, NothingMoves
<1>2. CASE \E p \in AnyInode, n \in AnyName : Unlink(p, n)
  <2>1. disk' = disk
    BY <1>2 DEF Unlink, UnlinkWith, Start, Proceed, vars
  <2> QED
    BY <1>2, <2>1, UnlinkOthers, NothingMoves
<1>3. CASE \E i \in AnyInode, text \in FileCells, size \in Sizes : Write(i, text, size)
  <2>1. CASE UNCHANGED vars
    BY <2>1, SameOthers
  <2>2. CASE pc' = "write" /\ mem' = mem /\ disk' = disk
    BY <2>2, LoopOthers, NothingMoves
  <2> QED
    BY <1>3, <2>1, <2>2 DEF Write
<1>4. CASE WriteSteps
  BY <1>4, WriteStepOthers, WriteStepStays
<1>5. CASE Flush
  BY <1>5, FlushBlockOthers, FlushBitmapsOthers, FlushRegionOthers DEF Flush
<1>6. CASE UNCHANGED vars
  BY <1>6, SameOthers
<1> QED
  BY <1>1, <1>2, <1>3, <1>4, <1>5, <1>6 DEF Calls

\* Seen from any point of any call, the names the call is not about keep leading
\* to the same inodes, as long as unlink leaves no gap in a directory and the stack
\* has left nothing in the inodes mkfs does not set that reads as a directory with
\* blocks.
THEOREM OtherNamesAreKept ==
  ASSUME Asan, \A ino \in StackInodes : Dull(ino)
  PROVE  Spec /\ []NoGap => OtherNamesStay
<1>1. Init => OthersKept
  BY InitOthers
<1>2. Kept /\ NamesKept /\ NoGap' /\ OthersKept /\ [Calls]_vars => OthersKept'
  BY NextOthers
<1>3. Kept /\ NamesKept /\ NoGap' /\ OthersKept /\ [Calls]_vars => [NamesStay]_vars
  BY NextOthers
<1>4. Spec /\ []NoGap => [][NamesStay]_vars
  BY <1>1, <1>2, <1>3, NamesAreKept, SpecRestarts, PTL DEF Spec
<1> QED
  BY <1>4 DEF OtherNamesStay, NamesStay

\* Names are in directories and lead to inodes there are, never to the root.
Leading ==
  /\ tree.kind \in [Inodes -> {"none", "dir", "file"}] /\ tree.kind[Root] = "dir"
  /\ tree.link \subseteq Inodes \X Names \X Inodes
  /\ \A p \in Inodes, n \in Names, i \in Inodes : <<p, n, i>> \in tree.link =>
       tree.kind[p] = "dir" /\ tree.kind[i] # "none" /\ i # Root

\* A directory has a name once, and an inode has one name.
Single ==
  \A p, q \in Inodes, m, n \in Names, i, j \in Inodes :
     /\ <<p, m, i>> \in tree.link /\ <<q, n, j>> \in tree.link
     /\ (p = q /\ m = n) \/ i = j
     => p = q /\ m = n /\ i = j

\* No directory is below itself: the inodes have depths that grow along names.
Acyclic ==
  \E depth \in [Inodes -> Nat] :
     \A p \in Inodes, n \in Names, i \in Inodes : <<p, n, i>> \in tree.link => depth[p] < depth[i]

GoodTree == Leading /\ Single /\ Acyclic

\* The empty tree is one.
LEMMA InitTree ==
  ASSUME Root \in Inodes, NS!Init
  PROVE  GoodTree
<1>1. Leading /\ Single
  BY DEF NS!Init, Leading, Single
<1>2. [i \in Inodes |-> 0] \in [Inodes -> Nat]
  OBVIOUS
<1>3. Acyclic
  BY <1>2 DEF NS!Init, Acyclic
<1> QED
  BY <1>1, <1>3 DEF GoodTree

(***************************************************************************)
(* A new name leads to an inode that had none and that no name starts at,  *)
(* so it can be given the depth below its directory's.                     *)
(***************************************************************************)
LEMMA MakeTree ==
  ASSUME GoodTree, NEW p \in Inodes, NEW n \in Names, NEW i \in Inodes,
         NEW type \in {"dir", "file"}, NS!Make(p, n, i, type)
  PROVE  GoodTree'
<1>1. /\ tree.kind[p] = "dir" /\ ~NS!Taken(p, n) /\ tree.kind[i] = "none"
      /\ tree'.kind = [tree.kind EXCEPT ![i] = type] /\ tree'.link = tree.link \cup {<<p, n, i>>}
  BY DEF NS!Make
<1>2. p # i /\ i # Root
  BY <1>1 DEF GoodTree, Leading
<1>3. \A q \in Inodes, m \in Names, j \in Inodes :
        <<q, m, j>> \in tree.link => q # i /\ j # i /\ ~(q = p /\ m = n)
  BY <1>1 DEF GoodTree, Leading, NS!Taken
<1>4. \A q \in Inodes, m \in Names, j \in Inodes :
        <<q, m, j>> \in tree'.link <=> <<q, m, j>> \in tree.link \/ (q = p /\ m = n /\ j = i)
  BY <1>1
<1>5. Leading'
  <2>1. tree'.link \subseteq Inodes \X Names \X Inodes
    BY <1>1 DEF GoodTree, Leading
  <2> QED
    BY <1>1, <1>2, <1>3, <1>4, <2>1 DEF GoodTree, Leading
<1>6. Single'
  BY <1>3, <1>4 DEF GoodTree, Single
<1>7. Acyclic'
  <2>1. PICK depth \in [Inodes -> Nat] :
          \A q \in Inodes, m \in Names, j \in Inodes : <<q, m, j>> \in tree.link => depth[q] < depth[j]
    BY DEF GoodTree, Acyclic
  <2> DEFINE deeper == [depth EXCEPT ![i] = depth[p] + 1]
  <2>2. deeper \in [Inodes -> Nat]
    BY <2>1
  <2>3. \A j \in Inodes : deeper[j] = IF j = i THEN depth[p] + 1 ELSE depth[j]
    BY <2>1
  <2> HIDE DEF deeper
  <2>4. depth[p] < depth[p] + 1
    BY <2>1
  <2>5. \A q \in Inodes, m \in Names, j \in Inodes : <<q, m, j>> \in tree'.link => deeper[q] < deeper[j]
    BY <1>2, <1>3, <1>4, <2>1, <2>3, <2>4
  <2> QED
    BY <2>2, <2>5 DEF Acyclic
<1> QED
  BY <1>5, <1>6, <1>7 DEF GoodTree

\* A name goes, with its inode or without: nothing is below it.
LEMMA LessTree ==
  ASSUME Root \in Inodes, GoodTree, NEW p \in Inodes, NEW n \in Names, NEW i \in Inodes,
         NS!Remove(p, n, i) \/ NS!Drop(p, n, i)
  PROVE  GoodTree'
<1>1. /\ <<p, n, i>> \in tree.link /\ ~NS!HasNames(i) /\ tree'.link = tree.link \ {<<p, n, i>>}
      /\ tree'.kind = tree.kind \/ tree'.kind = [tree.kind EXCEPT ![i] = "none"]
  BY DEF NS!Remove, NS!Drop
<1>2. \A q \in Inodes, m \in Names, j \in Inodes : <<q, m, j>> \in tree'.link => <<q, m, j>> \in tree.link
  BY <1>1
<1>3. \A q \in Inodes, m \in Names, j \in Inodes : <<q, m, j>> \in tree'.link => q # i /\ j # i
  BY <1>1 DEF NS!HasNames, GoodTree, Single
<1>4. i # Root
  BY <1>1 DEF GoodTree, Leading
<1>5. Leading'
  <2>1. tree'.link \subseteq Inodes \X Names \X Inodes
    BY <1>1 DEF GoodTree, Leading
  <2>2. tree.kind \in [Inodes -> {"none", "dir", "file"}] /\ tree.kind[Root] = "dir" /\ Root \in Inodes
    BY DEF GoodTree, Leading
  <2>3. /\ tree'.kind \in [Inodes -> {"none", "dir", "file"}]
        /\ \A j \in Inodes : j # i => tree'.kind[j] = tree.kind[j]
    BY <1>1, <2>2
  <2>4. \A q \in Inodes, m \in Names, j \in Inodes : <<q, m, j>> \in tree'.link =>
          tree'.kind[q] = "dir" /\ tree'.kind[j] # "none" /\ j # Root
    BY <1>2, <1>3, <2>3 DEF GoodTree, Leading
  <2> QED
    BY <1>4, <2>1, <2>2, <2>3, <2>4 DEF Leading
<1>6. Single'
  BY <1>2 DEF GoodTree, Single
<1>7. Acyclic'
  BY <1>2 DEF GoodTree, Acyclic
<1> QED
  BY <1>5, <1>6, <1>7 DEF GoodTree

\* Every change of NameSpace keeps it.
LEMMA NextTree == Root \in Inodes /\ GoodTree /\ [NS!Next]_NS!nsVars => GoodTree'
<1> SUFFICES ASSUME Root \in Inodes, GoodTree, [NS!Next]_NS!nsVars PROVE GoodTree'
  OBVIOUS
<1>1. ASSUME NEW p \in Inodes, NEW i \in Inodes, NEW n \in Names,
             \E type \in {"dir", "file"} : NS!Make(p, n, i, type)
      PROVE  GoodTree'
  BY <1>1, MakeTree
<1>2. ASSUME NEW p \in Inodes, NEW i \in Inodes, NEW n \in Names,
             NS!Remove(p, n, i) \/ NS!Drop(p, n, i)
      PROVE  GoodTree'
  BY <1>2, LessTree
<1>3. ASSUME tree'.kind = tree.kind, tree'.link = tree.link
      PROVE  GoodTree'
  <2>1. Leading' /\ Single'
    BY <1>3 DEF GoodTree, Leading, Single
  <2>2. Acyclic'
    BY <1>3 DEF GoodTree, Acyclic
  <2> QED
    BY <2>1, <2>2 DEF GoodTree
<1>4. \/ \E p, i \in Inodes, n \in Names :
           \/ \E type \in {"dir", "file"} : NS!Make(p, n, i, type)
           \/ NS!Remove(p, n, i) \/ NS!Drop(p, n, i)
      \/ tree'.kind = tree.kind /\ tree'.link = tree.link
  <2>1. CASE NS!Next
    <3>1. ASSUME NEW i, NS!Spoil(i)
          PROVE  tree'.kind = tree.kind /\ tree'.link = tree.link
      BY <3>1 DEF NS!Spoil
    <3>2. ASSUME NEW i, NEW b, NS!Put(i, b)
          PROVE  tree'.kind = tree.kind /\ tree'.link = tree.link
      BY <3>2 DEF NS!Put
    <3>3. CASE \E i \in Inodes : NS!Spoil(i) \/ \E b : NS!Put(i, b)
      BY <3>1, <3>2, <3>3, Zenon
    <3>4. \/ \E p, i \in Inodes, n \in Names :
               \/ \E type \in {"dir", "file"} : NS!Make(p, n, i, type)
               \/ NS!Remove(p, n, i) \/ NS!Drop(p, n, i)
          \/ \E i \in Inodes : NS!Spoil(i) \/ \E b : NS!Put(i, b)
      BY <2>1, SMT DEF NS!Next
    <3> QED
      BY <3>3, <3>4
  <2>2. CASE UNCHANGED NS!nsVars
    BY <2>2 DEF NS!nsVars
  <2> QED
    BY <2>1, <2>2
<1> QED
  BY <1>1, <1>2, <1>3, <1>4

(***************************************************************************)
(* In a file system that implements NameSpace the names make a tree,       *)
(* whatever is called: create, unlink and write leave no inode with two    *)
(* names, no name of an inode there is not, and no directory below itself. *)
(***************************************************************************)
THEOREM TreeOfNames ==
  ASSUME Root \in Inodes
  PROVE  NS!Spec => []GoodTree
<1>1. NS!Init => GoodTree
  BY InitTree
<1> QED
  BY <1>1, NextTree, PTL DEF NS!Spec

----------------------------------------------------------------------------
(***************************************************************************)
(* The tree of names of an image.                                          *)
(***************************************************************************)

\* The tree of names of an image, inode by inode,
LEMMA ViewOfInode ==
  ASSUME NEW d
  PROVE  /\ View(d).kind = [i \in Inodes |-> IF i \notin d.inodeBitmap THEN "none"
                              ELSE IF d.inodes[i].type = Directory THEN "dir" ELSE "file"]
         /\ View(d).body = [i \in Inodes |->
                              IF i \in d.inodeBitmap /\ d.inodes[i].type = RegularFile
                              THEN Read(d, i, d.inodes[i].size) ELSE <<>>]
<1> DEFINE kinds  == [i \in Inodes |-> IF i \notin d.inodeBitmap THEN "none"
                              ELSE IF d.inodes[i].type = Directory THEN "dir" ELSE "file"]
           bodies == [i \in Inodes |-> IF i \in d.inodeBitmap /\ d.inodes[i].type = RegularFile
                              THEN Read(d, i, d.inodes[i].size) ELSE <<>>]
           links  == {<<x[1], x[2], Lookup(d, x[1], x[2])>> :
                        x \in {y \in Directories(d) \X Names : Lookup(d, y[1], y[2]) >= 0}}
<1>1. View(d) = [kind |-> kinds, body |-> bodies, link |-> links]
  BY DEF View
<1> HIDE DEF kinds, bodies, links
<1>2. View(d).kind = kinds /\ View(d).body = bodies
  BY <1>1
<1> QED
  BY <1>2 DEF kinds, bodies

\* and name by name.
LEMMA ViewOfNames ==
  ASSUME NEW d
  PROVE  /\ \A x \in View(d).link : \E q \in Directories(d), s \in Names :
              x = <<q, s, Lookup(d, q, s)>> /\ Lookup(d, q, s) >= 0
         /\ \A q, s, i : <<q, s, i>> \in View(d).link <=>
              q \in Directories(d) /\ s \in Names /\ Lookup(d, q, s) = i /\ i >= 0
<1> DEFINE kinds  == [i \in Inodes |-> IF i \notin d.inodeBitmap THEN "none"
                              ELSE IF d.inodes[i].type = Directory THEN "dir" ELSE "file"]
           bodies == [i \in Inodes |-> IF i \in d.inodeBitmap /\ d.inodes[i].type = RegularFile
                              THEN Read(d, i, d.inodes[i].size) ELSE <<>>]
           L(q, s) == Lookup(d, q, s)
           links  == {<<x[1], x[2], L(x[1], x[2])>> :
                        x \in {y \in Directories(d) \X Names : L(y[1], y[2]) >= 0}}
<1>1. View(d) = [kind |-> kinds, body |-> bodies, link |-> links]
  BY DEF View
<1> HIDE DEF kinds, bodies, L
<1>2. View(d).link = links
  <2> HIDE DEF links
  <2> QED
    BY <1>1
<1>3. \A x \in links : \E q \in Directories(d), s \in Names :
              x = <<q, s, L(q, s)>> /\ L(q, s) >= 0
  OBVIOUS
<1>4. ASSUME NEW q \in Directories(d), NEW s \in Names, L(q, s) >= 0
      PROVE  <<q, s, L(q, s)>> \in links
  <2> DEFINE x == <<q, s>>
  <2>1. x \in Directories(d) \X Names /\ x[1] = q /\ x[2] = s
    OBVIOUS
  <2> HIDE DEF x
  <2> QED
    BY <1>4, <2>1
<1> HIDE DEF links
<1>5. \A q, s, i : <<q, s, i>> \in links <=>
              q \in Directories(d) /\ s \in Names /\ L(q, s) = i /\ i >= 0
  BY <1>3, <1>4
<1> QED
  BY <1>2, <1>3, <1>5 DEF L

\* The names of an image with a tree lead to inodes.
LEMMA NamesLead ==
  ASSUME NEW d, Tree(d), d.inodeBitmap \in SUBSET Inodes, NEW q \in Directories(d), NEW s \in Names
  PROVE  \/ Missed(Lookup(d, q, s)) /\ NameFree(RowOf(d, q), s)
         \/ \E f \in NamedIn(RowOf(d, q)) : /\ RowOf(d, q)[f].name = s
                                            /\ Lookup(d, q, s) = RowOf(d, q)[f].inum
                                            /\ Lookup(d, q, s) \in d.inodeBitmap
<1> DEFINE row == RowOf(d, q)
<1>1. RowShows(d, q, row, s) /\ OnceEach(row)
  BY TreeShowsRow
<1>2. q \in Inodes
  BY DEF Directories
<1>3. \A f \in NamedIn(row) : row[f].inum \in d.inodeBitmap
  <2>1. /\ Forest(d.inodeBitmap, RowsOf(d)) /\ q \in DOMAIN RowsOf(d) /\ RowsOf(d)[q] = row
    BY DEF Tree, RowsOf
  <2> HIDE DEF row
  <2> QED
    BY <2>1 DEF Forest, Leads
<1> HIDE DEF row
<1>4. Answers(d, q, row, s)
  BY <1>1, <1>2, LookupOfRow
<1> QED
  BY <1>3, <1>4 DEF Answers, NameFree, row

\* A directory whose size counts the two dots has no names.
LEMMA NoNamesInside ==
  ASSUME NEW d, Tree(d), d.inodeBitmap \in SUBSET Inodes, NEW q \in Directories(d),
         d.inodes[q].size <= 2, NEW s \in Names
  PROVE  Missed(Lookup(d, q, s))
<1>1. DirRow(q, RowOf(d, q))
  BY DEF Tree, Forest, RowsOf
<1>2. DOMAIN RowOf(d, q) = 0 .. d.inodes[q].size - 1
  BY DEF RowOf
<1>3. d.inodes[q].size \in Nat
  BY DEF Tree, Filled
<1>4. \A e \in DOMAIN RowOf(d, q) : e = 0 \/ e = 1
  BY <1>2, <1>3
<1>5. NamedIn(RowOf(d, q)) = {}
  <2>1. "." \notin Names /\ ".." \notin Names
    BY DotsAreNone
  <2>2. RowOf(d, q)[0].name = "." /\ RowOf(d, q)[1].name = ".."
    BY <1>1, EntryFields DEF DirRow
  <2> QED
    BY <1>4, <2>1, <2>2 DEF NamedIn
<1> QED
  BY <1>5, NamesLead

\* A name that is there in e and was not in d.
LEMMA NameComesIntoView ==
  ASSUME NEW d, NEW e, NEW p \in Directories(d), NEW n \in Names, NEW i \in Nat,
         Directories(d) \subseteq Directories(e),
         Missed(Lookup(d, p, n)), Lookup(e, p, n) = i,
         \A q \in Directories(d), s \in Names : ~(q = p /\ s = n) =>
            Same(Lookup(e, q, s), Lookup(d, q, s)),
         \A q \in Directories(e) \ Directories(d), s \in Names : Missed(Lookup(e, q, s))
  PROVE  View(e).link = View(d).link \cup {<<p, n, i>>}
<1> DEFINE D(q, s) == Lookup(d, q, s)
           E(q, s) == Lookup(e, q, s)
           dd == Directories(d)
           de == Directories(e)
           ld == View(d).link
           le == View(e).link
<1>1. /\ \A x \in ld : \E q \in dd, s \in Names : x = <<q, s, D(q, s)>> /\ D(q, s) >= 0
      /\ \A q, s, j : <<q, s, j>> \in ld <=> q \in dd /\ s \in Names /\ D(q, s) = j /\ j >= 0
  BY ViewOfNames
<1>2. /\ \A x \in le : \E q \in de, s \in Names : x = <<q, s, E(q, s)>> /\ E(q, s) >= 0
      /\ \A q, s, j : <<q, s, j>> \in le <=> q \in de /\ s \in Names /\ E(q, s) = j /\ j >= 0
  BY ViewOfNames
<1>3. /\ dd \subseteq de /\ p \in dd /\ Missed(D(p, n)) /\ E(p, n) = i
      /\ \A q \in dd, s \in Names : ~(q = p /\ s = n) => Same(E(q, s), D(q, s))
      /\ \A q \in de \ dd, s \in Names : Missed(E(q, s))
  OBVIOUS
<1> HIDE DEF D, E, dd, de, ld, le
<1>4. \A x \in le : x \in ld \cup {<<p, n, i>>}
  BY <1>1, <1>2, <1>3 DEF Same, Missed
<1>5. \A x \in ld : x \in le
  BY <1>1, <1>2, <1>3 DEF Same, Missed
<1>6. <<p, n, i>> \in le
  BY <1>2, <1>3
<1>7. le = ld \cup {<<p, n, i>>}
  BY <1>4, <1>5, <1>6
<1> QED
  BY <1>7 DEF ld, le

\* A name that was there in d and is not in e.
LEMMA NameLeavesView ==
  ASSUME NEW d, NEW e, NEW p \in Directories(e), NEW n \in Names, NEW i \in Nat,
         Directories(e) \subseteq Directories(d),
         Lookup(d, p, n) = i, Missed(Lookup(e, p, n)),
         \A q \in Directories(e), s \in Names : ~(q = p /\ s = n) =>
            Same(Lookup(e, q, s), Lookup(d, q, s)),
         \A q \in Directories(d) \ Directories(e), s \in Names : Missed(Lookup(d, q, s))
  PROVE  <<p, n, i>> \in View(d).link /\ View(e).link = View(d).link \ {<<p, n, i>>}
<1>1. View(d).link = View(e).link \cup {<<p, n, i>>}
  <2>1. \A q \in Directories(e), s \in Names : ~(q = p /\ s = n) =>
            Same(Lookup(d, q, s), Lookup(e, q, s))
    BY DEF Same
  <2> QED
    BY <2>1, NameComesIntoView
<1>2. <<p, n, i>> \notin View(e).link
  <2>1. \A q, s, j : <<q, s, j>> \in View(e).link <=>
              q \in Directories(e) /\ s \in Names /\ Lookup(e, q, s) = j /\ j >= 0
    BY ViewOfNames
  <2> QED
    BY <2>1 DEF Missed
<1> DEFINE ld == View(d).link
           le == View(e).link
           x  == <<p, n, i>>
<1> HIDE DEF ld, le, x
<1>3. ld = le \cup {x} /\ x \notin le
  BY <1>1, <1>2 DEF ld, le, x
<1>4. x \in ld /\ le = ld \ {x}
  BY <1>3
<1> QED
  BY <1>4 DEF ld, le, x

\* The names of two images are the same.
LEMMA NamesInView ==
  ASSUME NEW d, NEW e, Directories(e) = Directories(d),
         \A q \in Directories(d), s \in Names : Same(Lookup(e, q, s), Lookup(d, q, s))
  PROVE  View(e).link = View(d).link
<1> DEFINE D(q, s) == Lookup(d, q, s)
           E(q, s) == Lookup(e, q, s)
           dd == Directories(d)
           ld == View(d).link
           le == View(e).link
<1>1. /\ \A x \in ld : \E q \in dd, s \in Names : x = <<q, s, D(q, s)>> /\ D(q, s) >= 0
      /\ \A q, s, j : <<q, s, j>> \in ld <=> q \in dd /\ s \in Names /\ D(q, s) = j /\ j >= 0
  BY ViewOfNames
<1>2. /\ \A x \in le : \E q \in dd, s \in Names : x = <<q, s, E(q, s)>> /\ E(q, s) >= 0
      /\ \A q, s, j : <<q, s, j>> \in le <=> q \in dd /\ s \in Names /\ E(q, s) = j /\ j >= 0
  BY ViewOfNames
<1>3. \A q \in dd, s \in Names : Same(E(q, s), D(q, s))
  OBVIOUS
<1> HIDE DEF D, E, dd, ld, le
<1>4. \A x \in le : x \in ld
  BY <1>1, <1>2, <1>3 DEF Same, Missed
<1>5. \A x \in ld : x \in le
  BY <1>1, <1>2, <1>3 DEF Same, Missed
<1>6. le = ld
  BY <1>4, <1>5
<1> QED
  BY <1>6 DEF ld, le

\* The kind of an inode, one by one.
LEMMA ViewOfKind ==
  ASSUME NEW d, NEW i \in Inodes
  PROVE  View(d).kind[i] = IF i \notin d.inodeBitmap THEN "none"
                           ELSE IF d.inodes[i].type = Directory THEN "dir" ELSE "file"
<1> DEFINE K == [j \in Inodes |-> IF j \notin d.inodeBitmap THEN "none"
                              ELSE IF d.inodes[j].type = Directory THEN "dir" ELSE "file"]
           V == View(d)
<1>1. V.kind = K
  BY ViewOfInode
<1>2. K[i] = IF i \notin d.inodeBitmap THEN "none"
             ELSE IF d.inodes[i].type = Directory THEN "dir" ELSE "file"
  OBVIOUS
<1> HIDE DEF K, V
<1>3. V.kind[i] = K[i]
  BY <1>1
<1> QED
  BY <1>2, <1>3 DEF V

\* And what it holds.
LEMMA ViewOfBody ==
  ASSUME NEW d, NEW i \in Inodes
  PROVE  View(d).body[i] = IF i \in d.inodeBitmap /\ d.inodes[i].type = RegularFile
                           THEN Read(d, i, d.inodes[i].size) ELSE <<>>
<1> DEFINE R(j) == IF j \in d.inodeBitmap /\ d.inodes[j].type = RegularFile
                   THEN Read(d, j, d.inodes[j].size) ELSE <<>>
           K == [j \in Inodes |-> R(j)]
           V == View(d)
<1>1. V.body = K
  BY ViewOfInode
<1> HIDE DEF V, R
<1>2. K[i] = R(i)
  OBVIOUS
<1>3. V.body[i] = R(i)
  BY <1>1, <1>2
<1> QED
  BY <1>3 DEF V, R

\* The tree of names is a matter of the bitmap of inodes, the inodes and the blocks.
LEMMA ViewDependsOn ==
  ASSUME NEW d, NEW e, e.inodeBitmap = d.inodeBitmap, e.inodes = d.inodes, e.blocks = d.blocks
  PROVE  View(e) = View(d)
<1>1. Directories(e) = Directories(d)
  BY DEF Directories
<1>2. \A q, s : Lookup(e, q, s) = Lookup(d, q, s)
  BY LookupDependsOn
<1>3. \A i : \A size : Read(e, i, size) = Read(d, i, size)
  BY DEF Read
<1> QED
  BY <1>1, <1>2, <1>3 DEF View

\* The kinds, as functions.
LEMMA KindsInView ==
  ASSUME NEW d, NEW e,
         \A i \in Inodes : /\ i \in e.inodeBitmap <=> i \in d.inodeBitmap
                           /\ i \in d.inodeBitmap => e.inodes[i].type = d.inodes[i].type
  PROVE  View(e).kind = View(d).kind
<1> DEFINE D == View(d).kind
           E == View(e).kind
<1>1. D = [i \in Inodes |-> D[i]] /\ E = [i \in Inodes |-> E[i]]
  BY ViewOfInode
<1>2. /\ \A i \in Inodes : D[i] = IF i \notin d.inodeBitmap THEN "none"
                                  ELSE IF d.inodes[i].type = Directory THEN "dir" ELSE "file"
      /\ \A i \in Inodes : E[i] = IF i \notin e.inodeBitmap THEN "none"
                                  ELSE IF e.inodes[i].type = Directory THEN "dir" ELSE "file"
  BY ViewOfKind
<1> HIDE DEF D, E
<1>3. \A i \in Inodes : E[i] = D[i]
  BY <1>2
<1>4. E = D
  BY <1>1, <1>3
<1> QED
  BY <1>4 DEF D, E

\* The kinds when that of one inode is different.
LEMMA KindChanges ==
  ASSUME NEW d, NEW e, NEW v \in Inodes, NEW kind,
         \A i \in Inodes \ {v} : /\ i \in e.inodeBitmap <=> i \in d.inodeBitmap
                                 /\ i \in d.inodeBitmap => e.inodes[i].type = d.inodes[i].type,
         View(e).kind[v] = kind
  PROVE  View(e).kind = [View(d).kind EXCEPT ![v] = kind]
<1> DEFINE D == View(d).kind
           E == View(e).kind
<1>1. D = [i \in Inodes |-> D[i]] /\ E = [i \in Inodes |-> E[i]]
  BY ViewOfInode
<1>2. /\ \A i \in Inodes : D[i] = IF i \notin d.inodeBitmap THEN "none"
                                  ELSE IF d.inodes[i].type = Directory THEN "dir" ELSE "file"
      /\ \A i \in Inodes : E[i] = IF i \notin e.inodeBitmap THEN "none"
                                  ELSE IF e.inodes[i].type = Directory THEN "dir" ELSE "file"
  BY ViewOfKind
<1>3. E[v] = kind
  OBVIOUS
<1> HIDE DEF D, E
<1>4. \A i \in Inodes \ {v} : E[i] = D[i]
  BY <1>2
<1>5. E = [D EXCEPT ![v] = kind]
  BY <1>1, <1>3, <1>4
<1> QED
  BY <1>5 DEF D, E

----------------------------------------------------------------------------
(***************************************************************************)
(* What the calls promise of it.                                           *)
(***************************************************************************)

\* What the promised change makes of the tree of names t: nothing,
KeepsTree(t, u) == u.kind = t.kind /\ u.link = t.link

\* inode i, with a name,
Adds(t, u, p, n, i, kind) ==
  /\ p \in Inodes /\ n \in Names /\ i \in Inodes /\ kind \in {"dir", "file"}
  /\ t.kind[p] = "dir" /\ (\A x : <<p, n, x>> \notin t.link) /\ t.kind[i] = "none"
  /\ u.kind = [t.kind EXCEPT ![i] = kind] /\ u.link = t.link \cup {<<p, n, i>>}
  /\ u.body[i] = <<>>

\* or the loss of a name, with or without its inode.
Loses(t, u, p, n, v) ==
  /\ p \in Inodes /\ n \in Names /\ v \in Inodes
  /\ <<p, n, v>> \in t.link /\ \A s, x : <<v, s, x>> \notin t.link
  /\ u.kind \in {t.kind, [t.kind EXCEPT ![v] = "none"]} /\ u.link = t.link \ {<<p, n, v>>}

\* What the calls may make of it.
CreateMay(t, u, ret) ==
  \/ KeepsTree(t, u) /\ ret \notin Inodes
  \/ \E p, n, kind : Adds(t, u, p, n, ret, kind)
UnlinkMay(t, u) == KeepsTree(t, u) \/ \E p, n, v : Loses(t, u, p, n, v)

\* An inode of a file and the blocks that are not of other inodes do not matter.
LEMMA FileKeepsTree ==
  ASSUME NEW d, Tree(d), NEW e, d.inodeBitmap \in SUBSET Inodes,
         e.inodeBitmap = d.inodeBitmap,
         NEW i, d.inodes[i].type = RegularFile, e.inodes[i].type = RegularFile,
         \A j \in Inodes : j # i => e.inodes[j] = d.inodes[j],
         \A j \in Inodes : j # i =>
            \A a \in Ptrs : d.inodes[j].direct[a] \in DataBlocks =>
               e.blocks[d.inodes[j].direct[a]] = d.blocks[d.inodes[j].direct[a]]
  PROVE  KeepsTree(View(d), View(e))
<1>1. Directories(e) = Directories(d) /\ \A q \in Directories(d) : q \in Inodes /\ q # i
  BY DEF Directories, Directory, RegularFile
<1>2. \A q \in Directories(d), s \in Names : Lookup(e, q, s) = Lookup(d, q, s)
  <2> TAKE q \in Directories(d), s \in Names
  <2>1. q \in Inodes /\ q # i /\ Filled(d, q)
    BY <1>1 DEF Tree
  <2>2. e.inodes[q] = d.inodes[q]
    BY <2>1
  <2>3. \A a \in Ptrs : d.inodes[q].direct[a] \in DataBlocks =>
            e.blocks[d.inodes[q].direct[a]] = d.blocks[d.inodes[q].direct[a]]
    BY <2>1
  <2> QED
    BY ONLY <2>1, <2>2, <2>3, LookupStays
<1>3. View(e).link = View(d).link
  <2>1. \A q \in Directories(d), s \in Names : Same(Lookup(e, q, s), Lookup(d, q, s))
    BY <1>2 DEF Same
  <2> QED
    BY <1>1, <2>1, NamesInView
<1>4. View(e).kind = View(d).kind
  <2>1. \A j \in Inodes : /\ j \in e.inodeBitmap <=> j \in d.inodeBitmap
                          /\ j \in d.inodeBitmap => e.inodes[j].type = d.inodes[j].type
    BY DEF RegularFile
  <2> QED
    BY <2>1, KindsInView
<1> QED
  BY <1>3, <1>4 DEF KeepsTree

\* A directory that a plan leaves alone answers as before.
LEMMA MovesLeave ==
  ASSUME NEW d, Tree(d), NEW p, NEW n, NEW plan, NEW B, Moves(d, plan, p, n, B),
         NEW q \in Directories(d), q # p, q \in plan.mem.inodeBitmap, NEW s
  PROVE  Lookup(After(plan.mem, B), q, s) = Lookup(d, q, s)
<1> DEFINE e == After(plan.mem, B)
<1>1. e.inodes = plan.mem.inodes /\ e.blocks = B
  BY DEF After
<1> HIDE DEF e
<1>2. q \in d.inodeBitmap /\ Filled(d, q)
  BY DEF Tree, Directories
<1>3. e.inodes[q] = d.inodes[q]
  <2>1. \A x \in (plan.mem.inodeBitmap \cap d.inodeBitmap) \ {p} : plan.mem.inodes[x] = d.inodes[x]
    BY DEF Moves
  <2> QED
    BY <1>1, <1>2, <2>1
<1>4. \A a \in Ptrs : d.inodes[q].direct[a] \in DataBlocks =>
         e.blocks[d.inodes[q].direct[a]] = d.blocks[d.inodes[q].direct[a]]
  <2>1. \A x \in d.inodeBitmap \ {p} : \A a \in Ptrs : d.inodes[x].direct[a] \in DataBlocks =>
           B[d.inodes[x].direct[a]] = d.blocks[d.inodes[x].direct[a]]
    BY DEF Moves
  <2> QED
    BY <1>1, <1>2, <2>1
<1>5. Lookup(e, q, s) = Lookup(d, q, s)
  BY <1>2, <1>3, <1>4, LookupStays
<1> QED
  BY <1>5 DEF e

\* And the directory it is about, asked for another name.
LEMMA MovesShow ==
  ASSUME NEW d, Tree(d), NEW p \in Directories(d) \cap Inodes, NEW n, NEW plan, NEW B,
         Moves(d, plan, p, n, B), NEW s \in Names, s # n
  PROVE  Same(Lookup(After(plan.mem, B), p, s), Lookup(d, p, s))
<1> DEFINE e == After(plan.mem, B)
           f == Seen(plan.mem.inodes, B)
<1>1. e.inodes = plan.mem.inodes /\ e.blocks = B /\ f.inodes = plan.mem.inodes /\ f.blocks = B
      /\ Carried(d, p, n, f)
  BY DEF After, Seen, Moves
<1> HIDE DEF e, f
<1>2. Lookup(e, p, s) = Lookup(f, p, s)
  BY <1>1, LookupDependsOn
<1>3. Same(Lookup(f, p, s), Lookup(d, p, s))
  BY <1>1, CarriedIsSame
<1> QED
  BY <1>2, <1>3 DEF e

\* Reading nothing.
LEMMA ReadNothing == \A d, i : Read(d, i, 0) = <<>>
<1> TAKE d, i
<1> DEFINE c == Cardinality({x \in Ptrs : d.inodes[i].direct[x] \in DataBlocks}) * EntriesPerBlock
           F(e) == d.blocks[d.inodes[i].direct[Nth({x \in Ptrs : d.inodes[i].direct[x] \in DataBlocks},
                                                   e \div EntriesPerBlock)]][e % EntriesPerBlock]
<1>1. Read(d, i, 0) = [e \in 0 .. MinOf(0, c) - 1 |-> F(e)]
  BY DEF Read
<1>2. c \in Nat
  <2>1. Cardinality({x \in Ptrs : d.inodes[i].direct[x] \in DataBlocks}) \in Nat
    <3> DEFINE ks == {x \in Ptrs : d.inodes[i].direct[x] \in DataBlocks}
    <3>1. DirectPtrs \in Nat /\ ks \in SUBSET (0 .. DirectPtrs)
      BY UFSAssumption DEF Ptrs
    <3> HIDE DEF ks
    <3>2. Cardinality(ks) \in Nat
      BY <3>1, SetOfIndices
    <3> QED
      BY <3>2 DEF ks
  <2> QED
    BY <2>1, UFSAssumption
<1>3. MinOf(0, c) = 0
  BY <1>2 DEF MinOf
<1> HIDE DEF c, F
<1>4. 0 .. MinOf(0, c) - 1 = {}
  BY <1>3
<1>5. [e \in 0 .. MinOf(0, c) - 1 |-> F(e)] = [e \in {} |-> F(e)]
  BY <1>4
<1>6. [e \in {} |-> F(e)] = <<>>
  OBVIOUS
<1> QED
  BY <1>1, <1>5, <1>6

\* create: when its writes are done the tree of names has one more inode, or is
\* what it was.
LEMMA CreateDoesAsPromised ==
  ASSUME NEW d, Usable(d), Tree(d), NEW p, NEW type \in {Directory, RegularFile}, NEW n,
         NEW plan, plan = CreatePlan(d, p, type, n), ~IsRefused(plan),
         NEW B, Outcome(d, plan, B), plan.commit => Named(After(plan.mem, B), p, n, plan.ret)
  PROVE  CreateMay(View(d), View(After(plan.mem, B)), plan.ret)
<1>1. p \in Directories(d) /\ p \in Inodes /\ n \in Names /\ NameFree(RowOf(d, p), n)
  BY CreateCases
<1>2. Moves(d, plan, p, n, B)
  <2>1. PICK C : Moves(d, plan, p, n, C)
    BY CreateMoves
  <2>2. B = C
    BY <2>1, EndsOnce DEF Outcome, Moves
  <2> QED
    BY <2>1, <2>2
<1>3. /\ d.inodeBitmap \in SUBSET Inodes /\ d.inodes \in [Inodes -> Inode]
  BY DEF Usable, Sound, Meta, Metadata
<1> DEFINE e == After(plan.mem, B)
<1>4. e.inodeBitmap = plan.mem.inodeBitmap /\ e.inodes = plan.mem.inodes /\ e.blocks = B
      /\ Tree(e)
  BY DEF After, Outcome
<1>5. Missed(Lookup(d, p, n))
  BY <1>1, <1>3, NamesLead DEF NameFree, NamedIn
<1>6. CASE plan.mem = Meta(d) /\ plan.ret = -ENOTENOUGHSPACE /\ LeavesBlocks(d, plan)
  <2>1. e.inodeBitmap = d.inodeBitmap /\ e.inodes = d.inodes
    BY <1>4, <1>6 DEF Meta
  <2> HIDE DEF e
  <2>2. Directories(e) = Directories(d)
    BY <2>1 DEF Directories
  <2>3. \A q \in Directories(d), s \in Names : Lookup(e, q, s) = Lookup(d, q, s)
    <3> TAKE q \in Directories(d), s \in Names
    <3>1. q \in Inodes /\ Filled(d, q) /\ e.inodes[q] = d.inodes[q]
      BY <1>3, <2>1 DEF Directories, Tree
    <3>2. \A a \in Ptrs : d.inodes[q].direct[a] \in DataBlocks =>
             e.blocks[d.inodes[q].direct[a]] = d.blocks[d.inodes[q].direct[a]]
      <4>1. Ends(d.blocks, plan.writes, B)
        BY DEF Outcome
      <4> QED
        BY <1>4, <1>6, <3>1, <4>1 DEF LeavesBlocks
    <3> QED
      BY <3>1, <3>2, LookupStays
  <2>4. View(e).link = View(d).link
    <3>1. \A q \in Directories(d), s \in Names : Same(Lookup(e, q, s), Lookup(d, q, s))
      BY <2>3 DEF Same
    <3> QED
      BY <2>2, <3>1, NamesInView
  <2>5. View(e).kind = View(d).kind
    BY <2>1, KindsInView
  <2>6. plan.ret \notin Inodes
    BY <1>6 DEF ENOTENOUGHSPACE, Inodes
  <2>7. CreateMay(View(d), View(e), plan.ret)
    BY <2>4, <2>5, <2>6 DEF CreateMay, KeepsTree
  <2> QED
    BY <2>7 DEF e
<1>7. CASE \E i : MakesInode(d, p, type, i, plan)
  <2>1. PICK i : MakesInode(d, p, type, i, plan)
    BY <1>7
  <2>2. /\ i \in Inodes /\ i \notin d.inodeBitmap /\ plan.ret = i
        /\ e.inodeBitmap = d.inodeBitmap \cup {i}
        /\ \A j \in Inodes \ {i} : e.inodes[j].type = d.inodes[j].type
        /\ e.inodes[i].type = type
        /\ e.inodes[i].size = IF type = Directory THEN 2 ELSE 0
    BY <1>4, <2>1 DEF MakesInode
  <2>3. i \in Nat /\ plan.commit
    <3>1. i \in Nat
      BY <2>2 DEF Inodes
    <3> QED
      BY <2>2, <3>1 DEF Outcome
  <2>4. e.inodeBitmap \in SUBSET Inodes /\ d.inodeBitmap \subseteq plan.mem.inodeBitmap
    BY <1>3, <1>4, <2>2
  <2>5. \A q \in Directories(d), s \in Names : ~(q = p /\ s = n) =>
            Same(Lookup(e, q, s), Lookup(d, q, s))
    <3> TAKE q \in Directories(d), s \in Names
    <3> HAVE ~(q = p /\ s = n)
    <3>1. CASE q = p
      BY <1>1, <1>2, <3>1, MovesShow
    <3>2. CASE q # p
      <4>1. q \in plan.mem.inodeBitmap
        BY <2>4 DEF Directories
      <4>2. Lookup(e, q, s) = Lookup(d, q, s)
        BY <1>2, <3>2, <4>1, MovesLeave
      <4> QED
        BY <4>2 DEF Same
    <3> QED
      BY <3>1, <3>2
  <2>6. Lookup(e, p, n) = i
    <3>1. Named(e, p, n, i)
      BY <2>2, <2>3
    <3> HIDE DEF e
    <3> QED
      BY <1>4, <2>4, <3>1, NamedIsFound
  <2> HIDE DEF e
  <2>7. /\ Directories(d) \subseteq Directories(e) /\ Directories(e) \subseteq Directories(d) \cup {i}
    BY <1>3, <2>2 DEF Directories
  <2>8. \A q \in Directories(e) \ Directories(d), s \in Names : Missed(Lookup(e, q, s))
    <3> TAKE q \in Directories(e) \ Directories(d), s \in Names
    <3>1. q = i /\ e.inodes[q].size <= 2
      BY <2>2, <2>7
    <3> QED
      BY <1>4, <2>4, <3>1, NoNamesInside
  <2>9. View(e).link = View(d).link \cup {<<p, n, i>>}
    BY <1>1, <1>5, <2>3, <2>5, <2>6, <2>7, <2>8, NameComesIntoView
  <2> DEFINE kind == IF type = Directory THEN "dir" ELSE "file"
  <2>10. View(e).kind[i] = kind /\ kind \in {"dir", "file"}
    BY <2>2, ViewOfKind
  <2>11. View(d).kind[i] = "none" /\ View(d).kind[p] = "dir"
    BY <1>1, <2>2, ViewOfKind DEF Directories
  <2>12. View(e).kind = [View(d).kind EXCEPT ![i] = kind]
    <3> HIDE DEF kind
    <3>1. \A j \in Inodes \ {i} : /\ j \in e.inodeBitmap <=> j \in d.inodeBitmap
                                  /\ j \in d.inodeBitmap => e.inodes[j].type = d.inodes[j].type
      BY <2>2
    <3>2. i \in Inodes /\ View(e).kind[i] = kind
      BY <2>2, <2>10
    <3> QED
      BY <3>1, <3>2, KindChanges
  <2>13. View(e).body[i] = <<>>
    <3>1. View(e).body[i] = IF i \in e.inodeBitmap /\ e.inodes[i].type = RegularFile
                           THEN Read(e, i, e.inodes[i].size) ELSE <<>>
      BY <2>2, ViewOfBody
    <3>2. CASE type = Directory
      BY <2>2, <3>1, <3>2 DEF Directory, RegularFile
    <3>3. CASE type # Directory
      <4>1. Read(e, i, 0) = <<>>
        BY ReadNothing
      <4> QED
        BY <2>2, <3>1, <3>3, <4>1
    <3> QED
      BY <3>2, <3>3
  <2>14. \A x : <<p, n, x>> \notin View(d).link
    <3>1. \A x : <<p, n, x>> \in View(d).link => Lookup(d, p, n) = x /\ x >= 0
      BY ViewOfNames
    <3> QED
      BY <1>5, <3>1 DEF Missed
  <2>15. Adds(View(d), View(e), p, n, i, kind)
    BY <1>1, <2>2, <2>9, <2>10, <2>11, <2>12, <2>13, <2>14 DEF Adds
  <2>16. CreateMay(View(d), View(e), plan.ret)
    BY <2>2, <2>15 DEF CreateMay
  <2> QED
    BY <2>16 DEF e
<1> QED
  BY <1>6, <1>7, CreateMakes

\* unlink does not go on with a directory that has names.
LEMMA UnlinkSpares ==
  ASSUME Asan, NEW d, Usable(d), Tree(d), NEW p, NEW n,
         NEW heap \in [HeapRange(d, p) -> HeapCells], NEW lucky,
         NEW plan, plan = UnlinkPlan(d, p, n, heap, lucky), ~IsRefused(plan)
  PROVE  \A f \in NamedIn(RowOf(d, p)) : RowOf(d, p)[f].name = n =>
            ~NotEmpty(d.inodes[RowOf(d, p)[f].inum])
<1> DEFINE ino  == d.inodes[p]
           data == DirData(d, p, heap)
           at   == EntryNamed(data, ino, n)
           v    == data[at].inum
<1>1. \A x : IsRefused(Refuse(d, x))
  BY DEF IsRefused, Refuse, Plan
<1>2. /\ p \in Inodes /\ p \in d.inodeBitmap /\ ino.type = Directory /\ n \in Names
      /\ at # -1 /\ v \in Inodes /\ ~NotEmpty(d.inodes[v])
  <2> HIDE DEF at, data
  <2> QED
    BY <1>1 DEF UnlinkPlan, at, data
<1>3. p \in Directories(d)
  BY <1>2 DEF Directories
<1>4. Filled(d, p)
  BY <1>3 DEF Tree
<1>5. data = RowOf(d, p)
  BY <1>2, <1>4, DirDataIsRow
<1> HIDE DEF data
<1>6. at \in 0 .. ino.size - 1 /\ data[at].name = n
  <2> DEFINE hits == {e \in 0 .. ino.size - 1 : data[e].name = n}
  <2>1. at = First(hits)
    BY DEF EntryNamed
  <2>2. hits \in SUBSET Nat
    <3>1. ino.size \in Nat
      BY <1>4 DEF Filled
    <3>2. \A e \in 0 .. ino.size - 1 : e \in Nat
      BY <3>1
    <3> QED
      BY <3>2
  <2> HIDE DEF hits
  <2>3. at \in hits
    BY <1>2, <2>1, <2>2, FirstIsElement
  <2> QED
    BY <2>3 DEF hits
<1> HIDE DEF at, v
<1>7. at \in NamedIn(RowOf(d, p)) /\ OnceEach(RowOf(d, p))
  <2>1. DOMAIN RowOf(d, p) = 0 .. ino.size - 1 /\ OnceEach(RowOf(d, p))
    BY <1>2, <1>3, TreeShowsRow
  <2> HIDE DEF ino
  <2> QED
    BY <1>2, <1>5, <1>6, <2>1 DEF NamedIn
<1> TAKE f \in NamedIn(RowOf(d, p))
<1> HAVE RowOf(d, p)[f].name = n
<1>8. f = at
  BY <1>5, <1>6, <1>7 DEF OnceEach
<1> QED
  BY <1>2, <1>5, <1>8 DEF v

\* The kinds when an inode is free.
LEMMA KindGoes ==
  ASSUME NEW d, NEW e, NEW v \in Inodes, v \notin e.inodeBitmap,
         \A i \in Inodes \ {v} : /\ i \in e.inodeBitmap <=> i \in d.inodeBitmap
                                 /\ i \in d.inodeBitmap => e.inodes[i].type = d.inodes[i].type
  PROVE  View(e).kind = [View(d).kind EXCEPT ![v] = "none"]
<1> DEFINE D == View(d).kind
           E == View(e).kind
<1>1. D = [i \in Inodes |-> D[i]] /\ E = [i \in Inodes |-> E[i]]
  BY ViewOfInode
<1>2. /\ \A i \in Inodes : D[i] = IF i \notin d.inodeBitmap THEN "none"
                                  ELSE IF d.inodes[i].type = Directory THEN "dir" ELSE "file"
      /\ \A i \in Inodes : E[i] = IF i \notin e.inodeBitmap THEN "none"
                                  ELSE IF e.inodes[i].type = Directory THEN "dir" ELSE "file"
  BY ViewOfKind
<1> HIDE DEF D, E
<1>3. E[v] = "none" /\ \A i \in Inodes \ {v} : E[i] = D[i]
  BY <1>2
<1>4. E = [D EXCEPT ![v] = "none"]
  BY <1>1, <1>3
<1> QED
  BY <1>4 DEF D, E

\* A name that is gone, with or without its inode.
LEMMA NameIsLost ==
  ASSUME NEW d, NEW e, NEW p \in Directories(d), p \in Inodes, NEW n \in Names,
         NEW v \in Inodes, v # p, d.inodeBitmap \in SUBSET Inodes,
         Lookup(d, p, n) = v, Missed(Lookup(e, p, n)),
         \A s \in Names : v \in Directories(d) => Missed(Lookup(d, v, s)),
         \A j \in Inodes \ {v} : j \in e.inodeBitmap <=> j \in d.inodeBitmap,
         v \in d.inodeBitmap, e.inodeBitmap \in SUBSET Inodes,
         \A j \in Inodes : e.inodes[j].type = d.inodes[j].type,
         \A q \in Directories(e), s \in Names : ~(q = p /\ s = n) =>
            Same(Lookup(e, q, s), Lookup(d, q, s))
  PROVE  Loses(View(d), View(e), p, n, v)
<1>1. /\ \A q \in Directories(e) : q \in Directories(d)
      /\ \A q \in Directories(d) : q = v \/ q \in Directories(e)
      /\ v \in Nat
  BY DEF Directories, Inodes
<1>2. <<p, n, v>> \in View(d).link /\ View(e).link = View(d).link \ {<<p, n, v>>}
  <2>1. /\ p \in Directories(e) /\ Directories(e) \subseteq Directories(d)
    BY <1>1
  <2>2. \A q \in Directories(d) \ Directories(e), s \in Names : Missed(Lookup(d, q, s))
    BY <1>1
  <2> QED
    BY <1>1, <2>1, <2>2, NameLeavesView
<1>3. \A s, x : <<v, s, x>> \notin View(d).link
  <2>1. \A q, s, i : <<q, s, i>> \in View(d).link <=>
              q \in Directories(d) /\ s \in Names /\ Lookup(d, q, s) = i /\ i >= 0
    BY ViewOfNames
  <2> QED
    BY <2>1 DEF Missed
<1>4. CASE v \in e.inodeBitmap
  <2>1. View(e).kind = View(d).kind
    BY <1>4, KindsInView
  <2> QED
    BY <1>2, <1>3, <2>1 DEF Loses
<1>5. CASE v \notin e.inodeBitmap
  <2>1. \A j \in Inodes \ {v} : /\ j \in e.inodeBitmap <=> j \in d.inodeBitmap
                                /\ j \in d.inodeBitmap => e.inodes[j].type = d.inodes[j].type
    BY <1>5
  <2>2. View(e).kind = [View(d).kind EXCEPT ![v] = "none"]
    BY <1>5, <2>1, KindGoes
  <2> QED
    BY <1>2, <1>3, <2>2 DEF Loses
<1> QED
  BY <1>4, <1>5

\* unlink: when its writes are done the tree of names has lost the name, or is
\* what it was.
LEMMA UnlinkDoesAsPromised ==
  ASSUME Asan, NEW d, Usable(d), Tree(d), NEW p, NEW n,
         NEW heap \in [HeapRange(d, p) -> HeapCells], NEW lucky,
         NEW plan, plan = UnlinkPlan(d, p, n, heap, lucky), ~IsRefused(plan),
         NoGaps(plan.mem) \/ DirectPtrs <= 2,
         NEW B, Outcome(d, plan, B), plan.commit => Without(After(plan.mem, B), p, n)
  PROVE  UnlinkMay(View(d), View(After(plan.mem, B)))
<1> DEFINE e   == After(plan.mem, B)
           ino == d.inodes[p]
           row == RowOf(d, p)
<1>1. PICK at, v, is, C : UnlinkSets(d, p, n, plan, at, v, is, C)
  BY UnlinkWrote
<1>2. Moves(d, plan, p, n, C) /\ C = B
  <2>1. Moves(d, plan, p, n, C)
    BY <1>1, UnlinkMoves
  <2> QED
    BY <2>1, EndsOnce DEF Outcome, Moves
<1>3. /\ p \in Directories(d) /\ p \in Inodes /\ n \in Names
      /\ at \in NamedIn(row) /\ row[at].name = n /\ row[at].inum = v
      /\ v \in d.inodeBitmap \cap Inodes /\ v # p
      /\ \/ plan = Plan(Aborts, Backs(d, p, v, at), FALSE, Meta(d))
         \/ plan = Plan(0, Backs(d, p, v, at), TRUE, Unlinked(d, p, v, at))
  BY <1>1 DEF UnlinkSets, UnlinkDoes
<1>4. /\ Unlinked(d, p, v, at).inodeBitmap = d.inodeBitmap \ {v}
      /\ \A j \in Inodes : Unlinked(d, p, v, at).inodes[j].type = d.inodes[j].type
  BY <1>1 DEF UnlinkSets
<1>5. /\ d.inodeBitmap \in SUBSET Inodes /\ d.inodes \in [Inodes -> Inode]
  BY DEF Usable, Sound, Meta, Metadata
<1>6. /\ e.inodeBitmap = plan.mem.inodeBitmap /\ e.inodes = plan.mem.inodes /\ e.blocks = B
      /\ Tree(e)
  BY DEF After, Outcome
<1>7. Lookup(d, p, n) = v /\ v \in Nat
  <2>1. RowShows(d, p, RowOf(d, p), n) /\ OnceEach(RowOf(d, p))
    BY <1>3, TreeShowsRow
  <2>2. Answers(d, p, RowOf(d, p), n)
    BY <1>3, <2>1, LookupOfRow
  <2> QED
    BY <1>3, <2>2 DEF Answers, Inodes
<1>8. \A s \in Names : v \in Directories(d) => Missed(Lookup(d, v, s))
  <2> TAKE s \in Names
  <2> HAVE v \in Directories(d)
  <2>1. ~NotEmpty(d.inodes[v])
    BY <1>3, UnlinkSpares
  <2>2. d.inodes[v].size <= 2
    <3>1. d.inodes[v].type = Directory /\ Filled(d, v)
      BY DEF Directories, Tree
    <3>2. d.inodes[v].size \in Nat
      BY <3>1 DEF Filled
    <3> QED
      BY <2>1, <3>1, <3>2 DEF NotEmpty
  <2> QED
    BY <1>5, <2>2, NoNamesInside
<1>10. ASSUME NEW q \in Directories(d), q \in plan.mem.inodeBitmap, NEW s \in Names, ~(q = p /\ s = n)
       PROVE  Same(Lookup(e, q, s), Lookup(d, q, s))
  <2>1. CASE q = p
    <3>1. s # n
      BY <1>10, <2>1
    <3> QED
      BY <1>2, <1>3, <2>1, <3>1, MovesShow
  <2>2. CASE q # p
    <3>1. Lookup(e, q, s) = Lookup(d, q, s)
      BY <1>2, <1>3, <1>10, <2>2, MovesLeave
    <3> QED
      BY <3>1 DEF Same
  <2> QED
    BY <2>1, <2>2
<1>11. CASE plan = Plan(0, Backs(d, p, v, at), TRUE, Unlinked(d, p, v, at))
  <2>1. /\ e.inodeBitmap = d.inodeBitmap \ {v} /\ plan.mem.inodeBitmap = d.inodeBitmap \ {v}
        /\ \A j \in Inodes : e.inodes[j].type = d.inodes[j].type
        /\ plan.commit
    BY <1>4, <1>6, <1>11 DEF Plan
  <2>2. Missed(Lookup(e, p, n))
    <3>1. Without(e, p, n) /\ e.inodeBitmap \in SUBSET Inodes
      BY <1>5, <2>1
    <3>2. NameFree(RowOf(e, p), n) /\ p \in Directories(e)
      BY <3>1 DEF Without
    <3> HIDE DEF e
    <3>3. RowShows(e, p, RowOf(e, p), n) /\ OnceEach(RowOf(e, p))
      BY <1>3, <1>6, <3>2, TreeShowsRow
    <3>4. Answers(e, p, RowOf(e, p), n)
      BY <1>3, <3>3, LookupOfRow
    <3> QED
      BY <3>2, <3>4 DEF Answers
  <2> HIDE DEF e
  <2>3. \A q \in Directories(e), s \in Names : ~(q = p /\ s = n) =>
            Same(Lookup(e, q, s), Lookup(d, q, s))
    <3>1. Directories(e) \subseteq Directories(d) \cap plan.mem.inodeBitmap
      BY <1>5, <2>1 DEF Directories
    <3> QED
      BY <1>10, <3>1
  <2>4. /\ \A j \in Inodes \ {v} : j \in e.inodeBitmap <=> j \in d.inodeBitmap
        /\ v \in d.inodeBitmap /\ e.inodeBitmap \in SUBSET Inodes
    BY <1>3, <1>5, <2>1
  <2>8. Loses(View(d), View(e), p, n, v)
    BY <1>3, <1>5, <1>7, <1>8, <2>1, <2>2, <2>3, <2>4, NameIsLost
  <2>9. UnlinkMay(View(d), View(e))
    BY <2>8 DEF UnlinkMay
  <2> QED
    BY <2>9 DEF e
<1>12. CASE plan = Plan(Aborts, Backs(d, p, v, at), FALSE, Meta(d))
  <2>1. /\ e.inodeBitmap = d.inodeBitmap /\ plan.mem.inodeBitmap = d.inodeBitmap
        /\ e.inodes = d.inodes
    BY <1>6, <1>12 DEF Plan, Meta
  <2>2. \A pos \in 0 .. BlocksFor(d.inodes[p].size) * EntriesPerBlock - 1 :
           CellAt(e, d.inodes[p], pos) = CellAt(d, d.inodes[p], pos)
             \/ CellAt(e, d.inodes[p], pos).name = NoName
    <3>1. \A pos \in 0 .. BlocksFor(d.inodes[p].size) * EntriesPerBlock - 1 :
              LET cell == CellAt(Seen(d.inodes, C), d.inodes[p], pos)
              IN  cell = CellAt(d, d.inodes[p], pos) \/ cell.name = NoName
      BY <1>1, UnlinkMoves
    <3>2. \A pos : CellAt(Seen(d.inodes, C), d.inodes[p], pos) = CellAt(e, d.inodes[p], pos)
      BY <1>2, <1>6 DEF CellAt, Seen
    <3> QED
      BY <3>1, <3>2
  <2> HIDE DEF e
  <2>3. Directories(e) = Directories(d)
    BY <2>1 DEF Directories
  <2>4. View(e).kind = View(d).kind
    BY <2>1, KindsInView
  <2>5. \A q \in Directories(d), s \in Names : ~(q = p /\ s = n) =>
            Same(Lookup(e, q, s), Lookup(d, q, s))
    BY <1>10, <2>1 DEF Directories
  <2>6. \/ Missed(Lookup(e, p, n))
        \/ Lookup(e, p, n) = v
    <3>1. CASE \E f \in NamedIn(RowOf(e, p)) : /\ RowOf(e, p)[f].name = n
                                               /\ Lookup(e, p, n) = RowOf(e, p)[f].inum
      <4>1. PICK f \in NamedIn(RowOf(e, p)) : /\ RowOf(e, p)[f].name = n
                                              /\ Lookup(e, p, n) = RowOf(e, p)[f].inum
        BY <3>1
      <4>2. /\ DOMAIN RowOf(e, p) = 0 .. ino.size - 1 /\ RowOf(e, p)[f] = CellAt(e, ino, f)
            /\ f \in 0 .. ino.size - 1
        BY <2>1 DEF RowOf, NamedIn
      <4>3. DOMAIN RowOf(d, p) = 0 .. ino.size - 1 /\ RowOf(d, p)[f] = CellAt(d, ino, f)
        BY <4>2 DEF RowOf
      <4>4. CellAt(e, ino, f) = CellAt(d, ino, f)
        <5>1. ino.size \in Nat
          BY <1>3 DEF Tree, Filled
        <5>2. /\ ino.size <= BlocksFor(ino.size) * EntriesPerBlock
              /\ BlocksFor(ino.size) * EntriesPerBlock \in Nat
          BY <5>1, BlocksOfSize
        <5>3. f \in 0 .. BlocksFor(ino.size) * EntriesPerBlock - 1
          BY <4>2, <5>1, <5>2
        <5> QED
          BY <1>3, <2>2, <4>1, <4>2, <5>3, NoNameIsNone
      <4>5. OnceEach(row)
        BY <1>3, TreeShowsRow
      <4>6. f \in NamedIn(row) /\ row[f] = RowOf(e, p)[f]
        BY <1>3, <4>1, <4>2, <4>3, <4>4 DEF NamedIn
      <4> HIDE DEF row
      <4>7. f = at
        BY <1>3, <4>1, <4>5, <4>6 DEF OnceEach
      <4> QED
        BY <1>3, <4>1, <4>6, <4>7
    <3>2. p \in Directories(e) /\ e.inodeBitmap \in SUBSET Inodes
      BY <1>3, <1>5, <2>1, <2>3
    <3> QED
      BY <1>3, <1>6, <3>1, <3>2, NamesLead
  <2>7. CASE Missed(Lookup(e, p, n))
    <3>1. /\ \A j \in Inodes \ {v} : j \in e.inodeBitmap <=> j \in d.inodeBitmap
          /\ v \in d.inodeBitmap /\ e.inodeBitmap \in SUBSET Inodes
          /\ \A j \in Inodes : e.inodes[j].type = d.inodes[j].type
          /\ \A q \in Directories(e), s \in Names : ~(q = p /\ s = n) =>
                Same(Lookup(e, q, s), Lookup(d, q, s))
      BY <1>3, <1>5, <2>1, <2>3, <2>5
    <3>2. Loses(View(d), View(e), p, n, v)
      BY <1>3, <1>5, <1>7, <1>8, <2>7, <3>1, NameIsLost
    <3>3. UnlinkMay(View(d), View(e))
      BY <3>2 DEF UnlinkMay
    <3> QED
      BY <3>3 DEF e
  <2>8. CASE Lookup(e, p, n) = v
    <3>1. \A q \in Directories(d), s \in Names : Same(Lookup(e, q, s), Lookup(d, q, s))
      BY <1>7, <2>5, <2>8 DEF Same
    <3>2. View(e).link = View(d).link
      BY <2>3, <3>1, NamesInView
    <3>3. UnlinkMay(View(d), View(e))
      BY <2>4, <3>2 DEF UnlinkMay, KeepsTree
    <3> QED
      BY <3>3 DEF e
  <2> QED
    BY <2>6, <2>7, <2>8
<1> QED
  BY <1>3, <1>11, <1>12

----------------------------------------------------------------------------
(***************************************************************************)
(* The promises as steps of NameSpace.                                     *)
(***************************************************************************)

\* The bodies of a tree of names are those of its files.
FilesOnly(t) ==
  /\ t.kind = [i \in Inodes |-> t.kind[i]]
  /\ t.body = [i \in Inodes |-> t.body[i]]
  /\ \A i \in Inodes : t.kind[i] # "file" => t.body[i] = <<>>

\* Those of an image are.
LEMMA ViewHasFiles ==
  ASSUME NEW d, d.inodes \in [Inodes -> Inode]
  PROVE  FilesOnly(View(d))
<1>1. View(d).body = [i \in Inodes |-> View(d).body[i]]
  <2> DEFINE V == View(d)
             K(i) == IF i \in d.inodeBitmap /\ d.inodes[i].type = RegularFile
                     THEN Read(d, i, d.inodes[i].size) ELSE <<>>
  <2>1. V.body = [i \in Inodes |-> K(i)]
    BY ViewOfInode
  <2> HIDE DEF V, K
  <2>2. V.body = [i \in Inodes |-> V.body[i]]
    BY <2>1
  <2> QED
    BY <2>2 DEF V
<1>2. ASSUME NEW i \in Inodes, View(d).kind[i] # "file" PROVE View(d).body[i] = <<>>
  <2>1. i \notin d.inodeBitmap \/ d.inodes[i].type = Directory
    BY <1>2, ViewOfKind
  <2>2. ~(i \in d.inodeBitmap /\ d.inodes[i].type = RegularFile)
    BY <2>1 DEF Directory, RegularFile
  <2> QED
    BY <2>2, ViewOfBody
<1>3. View(d).kind = [i \in Inodes |-> View(d).kind[i]]
  <2> DEFINE V == View(d)
             K(i) == IF i \notin d.inodeBitmap THEN "none"
                     ELSE IF d.inodes[i].type = Directory THEN "dir" ELSE "file"
  <2>1. V.kind = [i \in Inodes |-> K(i)]
    BY ViewOfInode
  <2> HIDE DEF V, K
  <2>2. V.kind = [i \in Inodes |-> V.kind[i]]
    BY <2>1
  <2> QED
    BY <2>2 DEF V
<1> QED
  BY <1>1, <1>2, <1>3 DEF FilesOnly

\* Bodies one by one, and all of them.
LEMMA SameBodies ==
  ASSUME NEW t, NEW u, FilesOnly(t), FilesOnly(u), \A i \in Inodes : u.body[i] = t.body[i]
  PROVE  u.body = t.body
BY DEF FilesOnly

\* The bodies when one is different.
LEMMA OneBody ==
  ASSUME NEW t, NEW u, FilesOnly(t), FilesOnly(u), NEW v \in Inodes,
         \A i \in Inodes : i # v => u.body[i] = t.body[i]
  PROVE  u.body = [t.body EXCEPT ![v] = u.body[v]]
BY DEF FilesOnly

\* What a create promises is a step of the abstract file system, when files stay
\* what they are.
LEMMA CreateIsStep ==
  ASSUME FilesOnly(tree), FilesOnly(tree'), NEW ret, CreateMay(tree, tree', ret),
         \A i \in Inodes : tree.kind[i] = "file" /\ tree'.kind[i] = "file" /\ i # ret =>
            tree'.body[i] = tree.body[i]
  PROVE  [NS!Next]_NS!nsVars
<1>1. CASE KeepsTree(tree, tree') /\ ret \notin Inodes
  <2>1. \A i \in Inodes : tree'.body[i] = tree.body[i]
    BY <1>1 DEF KeepsTree, FilesOnly
  <2>2. tree'.body = tree.body
    BY <2>1, SameBodies
  <2> QED
    BY <1>1, <2>2 DEF KeepsTree, NS!nsVars
<1>2. CASE \E p, n, kind : Adds(tree, tree', p, n, ret, kind)
  <2>1. PICK p, n, kind : Adds(tree, tree', p, n, ret, kind)
    BY <1>2
  <2>2. /\ p \in Inodes /\ n \in Names /\ ret \in Inodes /\ kind \in {"dir", "file"}
        /\ tree.kind[p] = "dir" /\ (\A x : <<p, n, x>> \notin tree.link) /\ tree.kind[ret] = "none"
        /\ tree'.kind = [tree.kind EXCEPT ![ret] = kind]
        /\ tree'.link = tree.link \cup {<<p, n, ret>>}
        /\ tree'.body[ret] = <<>>
    BY <2>1 DEF Adds
  <2>3. \A i \in Inodes : i # ret => tree'.kind[i] = tree.kind[i]
    BY <2>2
  <2>4. \A i \in Inodes : tree'.body[i] = tree.body[i]
    <3> TAKE i \in Inodes
    <3>1. CASE i = ret
      BY <2>2, <3>1 DEF FilesOnly
    <3>2. CASE i # ret /\ tree.kind[i] = "file"
      BY <2>3, <3>2
    <3>3. CASE i # ret /\ tree.kind[i] # "file"
      BY <2>3, <3>3 DEF FilesOnly
    <3> QED
      BY <3>1, <3>2, <3>3
  <2>5. tree'.body = tree.body
    BY <2>4, SameBodies
  <2>6. NS!Make(p, n, ret, kind)
    BY <2>2, <2>5 DEF NS!Make, NS!Taken
  <2>7. NS!Next
    BY <2>2, <2>6, SMT DEF NS!Next
  <2> QED
    BY <2>7
<1> QED
  BY <1>1, <1>2 DEF CreateMay

\* And what an unlink promises.
LEMMA UnlinkIsStep ==
  ASSUME FilesOnly(tree), FilesOnly(tree'), UnlinkMay(tree, tree'),
         \A i \in Inodes : tree.kind[i] = "file" /\ tree'.kind[i] = "file" =>
            tree'.body[i] = tree.body[i]
  PROVE  [NS!Next]_NS!nsVars
<1>1. ASSUME tree'.kind = tree.kind PROVE tree'.body = tree.body
  <2>1. \A i \in Inodes : tree'.body[i] = tree.body[i]
    BY <1>1 DEF FilesOnly
  <2> QED
    BY <2>1, SameBodies
<1>2. CASE KeepsTree(tree, tree')
  BY <1>1, <1>2 DEF KeepsTree, NS!nsVars
<1>3. CASE \E p, n, v : Loses(tree, tree', p, n, v)
  <2>1. PICK p, n, v : Loses(tree, tree', p, n, v)
    BY <1>3
  <2>2. /\ p \in Inodes /\ n \in Names /\ v \in Inodes
        /\ <<p, n, v>> \in tree.link /\ \A s, x : <<v, s, x>> \notin tree.link
        /\ tree'.kind = tree.kind \/ tree'.kind = [tree.kind EXCEPT ![v] = "none"]
        /\ tree'.link = tree.link \ {<<p, n, v>>}
    BY <2>1 DEF Loses
  <2>3. ~NS!HasNames(v)
    BY <2>2 DEF NS!HasNames
  <2>4. CASE tree'.kind = tree.kind
    <3>1. NS!Drop(p, n, v)
      BY <1>1, <2>2, <2>3, <2>4 DEF NS!Drop
    <3>2. NS!Next
      BY <2>2, <3>1, SMT DEF NS!Next
    <3> QED
      BY <3>2
  <2>5. CASE tree'.kind = [tree.kind EXCEPT ![v] = "none"] /\ tree'.kind # tree.kind
    <3>1. \A i \in Inodes : i # v => tree'.kind[i] = tree.kind[i]
      BY <2>5
    <3>2. \A i \in Inodes : i # v => tree'.body[i] = tree.body[i]
      BY <3>1 DEF FilesOnly
    <3>3. tree'.body = [tree.body EXCEPT ![v] = tree'.body[v]]
      BY <2>2, <3>2, OneBody
    <3>4. tree'.body[v] = <<>>
      <4>1. tree'.kind[v] = "none"
        BY <2>2, <2>5 DEF FilesOnly
      <4> QED
        BY <4>1, <2>2 DEF FilesOnly
    <3>5. NS!Remove(p, n, v)
      BY <2>2, <2>3, <2>5, <3>3, <3>4 DEF NS!Remove
    <3>6. NS!Next
      BY <2>2, <3>5, SMT DEF NS!Next
    <3> QED
      BY <3>6
  <2> QED
    BY <2>2, <2>4, <2>5
<1> QED
  BY <1>2, <1>3 DEF UnlinkMay

\* A write makes of the body of its file what it was given, or does not get
\* through.
LEMMA WriteIsStep ==
  ASSUME FilesOnly(tree), FilesOnly(tree'), KeepsTree(tree, tree'),
         NEW v \in Inodes, tree.kind[v] = "file",
         \A i \in Inodes : tree.kind[i] = "file" /\ i # v => tree'.body[i] = tree.body[i],
         \/ \E text \in FileCells, size \in {s \in Sizes : s >= 0} :
               tree'.body[v] = BodiesOf(text, size)
         \/ DOMAIN tree'.body[v] = DOMAIN tree.body[v]
  PROVE  [NS!Next]_NS!nsVars
<1>1. \A i \in Inodes : i # v => tree'.body[i] = tree.body[i]
  BY DEF FilesOnly, KeepsTree
<1>2. tree'.body = [tree.body EXCEPT ![v] = tree'.body[v]]
  BY <1>1, OneBody
<1>3. CASE \E text \in FileCells, size \in {s \in Sizes : s >= 0} :
               tree'.body[v] = BodiesOf(text, size)
  <2>1. PICK b \in {BodiesOf(text, size) : text \in FileCells, size \in {s \in Sizes : s >= 0}} :
             tree'.body[v] = b
    BY <1>3
  <2>2. NS!Put(v, b)
    BY <1>2, <2>1 DEF NS!Put, KeepsTree
  <2> QED
    BY <2>2, SMT DEF NS!Next
<1>4. CASE DOMAIN tree'.body[v] = DOMAIN tree.body[v]
  <2>1. NS!Spoil(v)
    BY <1>2, <1>4 DEF NS!Spoil, KeepsTree
  <2> QED
    BY <2>1, SMT DEF NS!Next
<1> QED
  BY <1>3, <1>4

----------------------------------------------------------------------------
(***************************************************************************)
(* The invariant TreeKept, step by step: what the running call has still   *)
(* to write makes of the tree on which it began what the call promises.    *)
(***************************************************************************)

\* What the running call may have made of the tree of names when it returns.
Promised(u) ==
  /\ job.op = "create" => CreateMay(tree, u, job.ret)
  /\ job.op = "unlink" => UnlinkMay(tree, u)
  /\ job.op = "write" => KeepsTree(tree, u)

\* The writes of the running call end in a tree that it may make.
TreeToBe ==
  \E B \in [DataBlocks -> Block] :
     Ends(disk.blocks, pending, B) /\ Promised(View(After(mem, B)))

\* The files that the call is not about hold what they held when it began.
FilesOfTree ==
  \A i \in mem.inodeBitmap : tree.kind[i] = "file" /\ ~About(i) =>
    /\ i \in disk.inodeBitmap /\ disk.inodes[i].type = RegularFile
    /\ Read(disk, i, disk.inodes[i].size) = tree.body[i]

\* The file that is written is one of the tree, and until the loop is over as
\* long as it was.
BeingWritten ==
  job.op = "write" =>
    /\ job.inum \in Inodes /\ tree.kind[job.inum] = "file" /\ job.ret \in Sizes
    /\ pc = "write" => DOMAIN tree.body[job.inum]
                         = DOMAIN Read(disk, job.inum, disk.inodes[job.inum].size)

\* The invariant.
TreeKept ==
  /\ FilesOnly(tree) /\ (pc = "idle" => tree = View(disk))
  /\ TreeToBe /\ FilesOfTree /\ BeingWritten

\* The call is over, and the tree is that of the image.
LEMMA ReturnTree ==
  ASSUME Return(disk'), disk' \in Image, tree' = View(disk')
  PROVE  TreeKept'
<1>1. /\ pc' = "idle" /\ job' = NoJob /\ pending' = <<>> /\ mem' = Meta(disk')
  BY DEF Return
<1>2. job'.op = "none"
  BY <1>1 DEF NoJob
<1>3. /\ disk'.blocks \in [DataBlocks -> Block] /\ disk'.inodes \in [Inodes -> Inode]
      /\ disk'.inodeBitmap \in SUBSET Inodes /\ mem'.inodeBitmap = disk'.inodeBitmap
  BY <1>1 DEF Image, Meta
<1>4. FilesOnly(tree')
  BY <1>3, ViewHasFiles
<1>5. TreeToBe'
  <2>1. Ends(disk'.blocks, pending', disk'.blocks)
    BY <1>1, <1>3, NoWrite
  <2>2. Promised(View(After(mem, disk.blocks)))'
    BY <1>2 DEF Promised
  <2> QED
    BY <1>3, <2>1, <2>2 DEF TreeToBe
<1>6. FilesOfTree'
  <2>1. SUFFICES ASSUME NEW i \in mem'.inodeBitmap, tree'.kind[i] = "file"
                 PROVE  /\ i \in disk'.inodeBitmap /\ disk'.inodes[i].type = RegularFile
                        /\ Read(disk', i, disk'.inodes[i].size) = tree'.body[i]
    BY DEF FilesOfTree
  <2>2. i \in Inodes /\ i \in disk'.inodeBitmap
    BY <1>3
  <2>3. disk'.inodes[i].type # Directory
    BY <2>1, <2>2, ViewOfKind
  <2>4. disk'.inodes[i].type = RegularFile
    BY <1>3, <2>2, <2>3 DEF Inode
  <2> QED
    BY <2>2, <2>4, ViewOfBody
<1>7. BeingWritten'
  BY <1>2 DEF BeingWritten
<1> QED
  BY <1>1, <1>4, <1>5, <1>6, <1>7 DEF TreeKept

\* Without writes to come the promise is kept by what is there.
LEMMA NothingToWrite ==
  ASSUME disk.blocks \in [DataBlocks -> Block], pending = <<>>, TreeToBe
  PROVE  Promised(View(After(mem, disk.blocks)))
<1>1. PICK B \in [DataBlocks -> Block] :
             Ends(disk.blocks, pending, B) /\ Promised(View(After(mem, B)))
  BY DEF TreeToBe
<1>2. Len(pending) = 0
  OBVIOUS
<1>3. \A b \in DataBlocks : B[b] = disk.blocks[b]
  BY <1>1, <1>2 DEF Ends
<1>4. B = disk.blocks
  BY <1>1, <1>3
<1> QED
  BY <1>1, <1>4

\* The files the call is not about stay what they are,
LEMMA FilesStay ==
  ASSUME Kept, [RestartNext]_vars, FilesOfTree, tree' = tree, job' = job,
         mem'.inodeBitmap = mem.inodeBitmap,
         disk'.inodeBitmap \in {disk.inodeBitmap, mem.inodeBitmap}
  PROVE  FilesOfTree'
<1>1. SUFFICES ASSUME NEW i \in mem'.inodeBitmap, tree'.kind[i] = "file", ~About(i)'
               PROVE  /\ i \in disk'.inodeBitmap /\ disk'.inodes[i].type = RegularFile
                      /\ Read(disk', i, disk'.inodes[i].size) = tree'.body[i]
  BY DEF FilesOfTree
<1>2. i \in mem.inodeBitmap /\ tree.kind[i] = "file" /\ ~About(i)
  BY <1>1 DEF About
<1>3. /\ i \in disk.inodeBitmap /\ disk.inodes[i].type = RegularFile
      /\ Read(disk, i, disk.inodes[i].size) = tree.body[i]
  BY <1>2 DEF FilesOfTree
<1>4. SameFile(i)
  <2>1. i \in disk.inodeBitmap \cap mem'.inodeBitmap
    BY <1>3
  <2> QED
    BY <1>2, <1>3, <2>1, NextUntouched
<1> QED
  BY <1>2, <1>3, <1>4 DEF SameFile

\* also in the step in which it returns.
LEMMA FilesReturn ==
  ASSUME Kept, [RestartNext]_vars, FilesOfTree, NEW i \in Inodes,
         tree.kind[i] = "file", View(disk').kind[i] = "file", ~About(i),
         mem'.inodeBitmap = disk'.inodeBitmap, disk'.inodeBitmap = mem.inodeBitmap
  PROVE  View(disk').body[i] = tree.body[i]
<1>1. i \in disk'.inodeBitmap
  BY ViewOfKind
<1>2. /\ i \in disk.inodeBitmap /\ disk.inodes[i].type = RegularFile
      /\ Read(disk, i, disk.inodes[i].size) = tree.body[i]
  BY <1>1 DEF FilesOfTree
<1>3. SameFile(i)
  <2>1. i \in disk.inodeBitmap \cap mem'.inodeBitmap
    BY <1>1, <1>2
  <2> QED
    BY <1>2, <2>1, NextUntouched
<1>4. View(disk').body[i] = Read(disk', i, disk'.inodes[i].size)
  BY <1>1, <1>3, ViewOfBody DEF SameFile
<1> QED
  BY <1>2, <1>3, <1>4 DEF SameFile

\* A call that has done what it may do has made a step of the abstract file system.
LEMMA PromiseIsKept ==
  ASSUME Kept, TreeKept, [RestartNext]_vars, pc # "idle",
         Return(disk'), disk' \in Image, tree' = View(disk'),
         disk'.inodeBitmap = mem.inodeBitmap, Promised(View(disk')),
         job.op = "write" =>
           \/ \E text \in FileCells, size \in {s \in Sizes : s >= 0} :
                 View(disk').body[job.inum] = BodiesOf(text, size)
           \/ DOMAIN View(disk').body[job.inum] = DOMAIN tree.body[job.inum]
  PROVE  [NS!Next]_NS!nsVars
<1>1. FilesOnly(tree) /\ FilesOfTree /\ BeingWritten /\ job.op \in {"create", "unlink", "write"}
  BY DEF TreeKept, Kept, Ownership, Control
<1>2. FilesOnly(tree')
  <2>1. disk'.inodes \in [Inodes -> Inode]
    BY DEF Image
  <2> QED
    BY <2>1, ViewHasFiles
<1>3. mem'.inodeBitmap = disk'.inodeBitmap
  BY DEF Return, Meta
<1>4. \A i \in Inodes : tree.kind[i] = "file" /\ tree'.kind[i] = "file" /\ ~About(i) =>
         tree'.body[i] = tree.body[i]
  BY <1>1, <1>3, FilesReturn
<1>5. CASE job.op = "create"
  <2>1. CreateMay(tree, tree', job.ret)
    BY <1>5 DEF Promised
  <2>2. \A i \in Inodes : i # job.ret => ~About(i)
    BY <1>5 DEF About
  <2>3. \A i \in Inodes : tree.kind[i] = "file" /\ tree'.kind[i] = "file" /\ i # job.ret =>
            tree'.body[i] = tree.body[i]
    BY <1>4, <2>2
  <2> QED
    BY <1>1, <1>2, <2>1, <2>3, CreateIsStep
<1>6. CASE job.op = "unlink"
  <2>1. UnlinkMay(tree, tree')
    BY <1>6 DEF Promised
  <2>2. \A i \in Inodes : ~About(i)
    BY <1>6 DEF About
  <2>3. \A i \in Inodes : tree.kind[i] = "file" /\ tree'.kind[i] = "file" =>
            tree'.body[i] = tree.body[i]
    BY <1>4, <2>2
  <2> QED
    BY <1>1, <1>2, <2>1, <2>3, UnlinkIsStep
<1>7. CASE job.op = "write"
  <2>1. KeepsTree(tree, tree') /\ job.inum \in Inodes /\ tree.kind[job.inum] = "file"
    BY <1>1, <1>7 DEF Promised, BeingWritten
  <2>2. \A i \in Inodes : i # job.inum => ~About(i)
    BY <1>7 DEF About
  <2>3. \A i \in Inodes : tree.kind[i] = "file" /\ i # job.inum => tree'.body[i] = tree.body[i]
    BY <1>4, <2>1, <2>2 DEF KeepsTree
  <2>4. \/ \E text \in FileCells, size \in {s \in Sizes : s >= 0} :
              tree'.body[job.inum] = BodiesOf(text, size)
        \/ DOMAIN tree'.body[job.inum] = DOMAIN tree.body[job.inum]
    BY <1>7
  <2> QED
    BY <1>1, <1>2, <2>1, <2>3, <2>4, WriteIsStep
<1> QED
  BY <1>1, <1>5, <1>6, <1>7

\* The image of a fresh mkfs shows the empty tree.
LEMMA InitTreeKept == Init /\ tree = View(disk) => TreeKept /\ NS!Init
<1> SUFFICES ASSUME Init, tree = View(disk) PROVE TreeKept /\ NS!Init
  OBVIOUS
<1>1. /\ pc = "idle" /\ job.op = "none" /\ pending = <<>> /\ mem = Meta(disk)
      /\ disk.inodeBitmap = {Root} /\ Root \in Inodes
  BY Layout, UFSAssumption DEF Init, NoJob, Root, Inodes
<1>2. disk \in Image
  BY InitKeeps DEF Contents, TypeOK
<1>3. /\ disk.blocks \in [DataBlocks -> Block] /\ disk.inodes \in [Inodes -> Inode]
      /\ mem.inodeBitmap = {Root}
  BY <1>1, <1>2 DEF Image, Meta
<1>4. disk.inodes[Root].type = Directory /\ disk.inodes[Root].size = 2
  <2>1. disk.inodes[Root] = RootInode
    BY DEF Init, Formatted
  <2> QED
    BY <2>1 DEF RootInode
<1>5. tree.kind = [i \in Inodes |-> IF i = Root THEN "dir" ELSE "none"]
  <2>1. \A i \in Inodes : tree.kind[i] = IF i = Root THEN "dir" ELSE "none"
    BY <1>1, <1>4, ViewOfKind
  <2>2. FilesOnly(tree)
    BY <1>3, ViewHasFiles
  <2> QED
    BY <2>1, <2>2 DEF FilesOnly
<1>6. tree.body = [i \in Inodes |-> <<>>]
  <2>1. \A i \in Inodes : tree.body[i] = <<>>
    BY <1>1, <1>4, ViewOfBody DEF Directory, RegularFile
  <2>2. FilesOnly(tree)
    BY <1>3, ViewHasFiles
  <2> QED
    BY <2>1, <2>2 DEF FilesOnly
<1>7. tree.link = {}
  <2>1. Tree(disk)
    <3>1. NamesKept
      BY InitNames
    <3>2. Tree(After(mem, disk.blocks))
      BY <1>1, <1>3, <3>1, NothingPending DEF NamesKept
    <3> DEFINE d == After(mem, disk.blocks)
    <3>3. d.inodeBitmap = disk.inodeBitmap /\ d.inodes = disk.inodes /\ d.blocks = disk.blocks
          /\ Tree(d)
      BY <1>1, <3>2 DEF After, Meta
    <3> HIDE DEF d
    <3> QED
      BY <3>3, SameTree
  <2>2. \A q \in Directories(disk), s \in Names : Missed(Lookup(disk, q, s))
    <3> TAKE q \in Directories(disk), s \in Names
    <3>1. disk.inodes[q].size <= 2
      BY <1>1, <1>4 DEF Directories
    <3>2. disk.inodeBitmap \in SUBSET Inodes
      BY <1>1
    <3> QED
      BY <2>1, <3>1, <3>2, NoNamesInside
  <2>3. \A q \in Directories(disk), s \in Names : ~(Lookup(disk, q, s) >= 0)
    BY <2>2 DEF Missed
  <2>4. \A x \in tree.link : \E q \in Directories(disk), s \in Names :
           x = <<q, s, Lookup(disk, q, s)>> /\ Lookup(disk, q, s) >= 0
    BY ViewOfNames
  <2> QED
    BY <2>3, <2>4
<1>8. NS!Init
  BY <1>5, <1>6, <1>7 DEF NS!Init
<1>9. FilesOnly(tree)
  BY <1>3, ViewHasFiles
<1>10. TreeToBe
  <2>1. Ends(disk.blocks, pending, disk.blocks)
    BY <1>1, <1>3, NoWrite
  <2>2. Promised(View(After(mem, disk.blocks)))
    BY <1>1 DEF Promised
  <2> QED
    BY <1>3, <2>1, <2>2 DEF TreeToBe
<1>11. FilesOfTree
  <2>1. tree.kind[Root] = "dir"
    BY <1>1, <1>5
  <2>2. \A i \in mem.inodeBitmap : tree.kind[i] # "file"
    BY <1>3, <2>1
  <2> QED
    BY <2>2 DEF FilesOfTree
<1>12. BeingWritten
  BY <1>1 DEF BeingWritten
<1> QED
  BY <1>8, <1>9, <1>10, <1>11, <1>12 DEF TreeKept

\* A call that is refused.
LEMMA NothingTree ==
  ASSUME TreeKept, pc = "idle", UNCHANGED vars, tree' = IF pc' = "idle" THEN View(disk') ELSE tree
  PROVE  TreeKept' /\ [NS!Next]_NS!nsVars
<1>1. /\ pc' = pc /\ disk' = disk /\ job' = job /\ pending' = pending /\ mem' = mem
      /\ tree' = tree
  BY DEF vars, TreeKept
<1>2. TreeKept'
  BY <1>1 DEF TreeKept, FilesOnly, TreeToBe, Promised, FilesOfTree, About, BeingWritten
<1> QED
  BY <1>1, <1>2 DEF NS!nsVars

\* A call begins that goes on to write.
LEMMA StartTree ==
  ASSUME Kept, TreeKept, Kept', pc = "idle", NEW j, NEW plan, Proceed(j, plan), tree' = tree,
         j.op \in {"create", "unlink"}, j.ret = plan.ret,
         NEW B \in [DataBlocks -> Block], Ends(disk.blocks, plan.writes, B),
         j.op = "create" => CreateMay(tree, View(After(plan.mem, B)), plan.ret),
         j.op = "unlink" => UnlinkMay(tree, View(After(plan.mem, B)))
  PROVE  TreeKept'
<1>1. /\ job' = j /\ pending' = plan.writes /\ mem' = plan.mem
      /\ pc' \in {"inodeBitmap", "blocks"} /\ disk' = disk
  BY DEF Proceed
<1>2. FilesOnly(tree) /\ tree = View(disk) /\ disk.inodes \in [Inodes -> Inode]
  BY DEF TreeKept, Kept, Contents, TypeOK, Image
<1>3. j.op # "write"
  OBVIOUS
<1>4. Promised(View(After(mem, B)))'
  BY <1>1, <1>3 DEF Promised
<1>5. TreeToBe'
  BY <1>1, <1>4 DEF TreeToBe
<1>6. FilesOfTree'
  <2>1. SUFFICES ASSUME NEW i \in plan.mem.inodeBitmap, tree.kind[i] = "file"
                 PROVE  /\ i \in disk.inodeBitmap /\ disk.inodes[i].type = RegularFile
                        /\ Read(disk, i, disk.inodes[i].size) = tree.body[i]
    BY <1>1 DEF FilesOfTree
  <2>2. i \in Inodes /\ i \in disk.inodeBitmap
    <3>1. plan.mem \in Metadata
      BY <1>1 DEF Kept, Contents, TypeOK
    <3>2. i \in Inodes
      BY <3>1 DEF Metadata
    <3> QED
      BY <1>2, <2>1, <3>2, ViewOfKind
  <2>3. disk.inodes[i].type # Directory
    BY <1>2, <2>1, <2>2, ViewOfKind
  <2>4. disk.inodes[i].type = RegularFile
    BY <1>2, <2>2, <2>3 DEF Inode
  <2> QED
    BY <1>2, <2>2, <2>4, ViewOfBody
<1>7. BeingWritten'
  BY <1>1, <1>3 DEF BeingWritten
<1> QED
  BY <1>1, <1>2, <1>5, <1>6, <1>7 DEF TreeKept

\* create,
LEMMA CreateTree ==
  ASSUME Kept, Kept', NamesKept, TreeKept, NEW p, NEW type \in {Directory, RegularFile}, NEW n,
         Create(p, type, n), tree' = IF pc' = "idle" THEN View(disk') ELSE tree
  PROVE  TreeKept' /\ [NS!Next]_NS!nsVars
<1> DEFINE plan == CreatePlan(disk, p, type, n)
           j    == [op |-> "create", inum |-> p, type |-> type, name |-> n, ret |-> plan.ret]
<1>1. pc = "idle" /\ Start(j, plan)
  BY DEF Create
<1>2. j.op = "create" /\ j.ret = plan.ret
  OBVIOUS
<1> HIDE DEF j
<1>3. CASE IsRefused(plan)
  <2>1. UNCHANGED vars
    BY <1>1, <1>3 DEF Start
  <2> QED
    BY <1>1, <2>1, NothingTree
<1>4. CASE ~IsRefused(plan)
  <2>1. Tree(disk) /\ Usable(disk)
    BY <1>1, IdleTree
  <2>2. PICK B : Outcome(disk, plan, B)
                /\ (plan.commit => n \in Names /\ Named(After(plan.mem, B), p, n, plan.ret))
    BY <1>4, <2>1, CreateGrows
  <2>3. CreateMay(View(disk), View(After(plan.mem, B)), plan.ret)
    <3>1. plan.commit => Named(After(plan.mem, B), p, n, plan.ret)
      BY <2>2
    <3>2. Outcome(disk, plan, B)
      BY <2>2
    <3> QED
      BY <1>4, <2>1, <3>1, <3>2, CreateDoesAsPromised
  <2> HIDE DEF plan
  <2>4. Proceed(j, plan)
    BY <1>1, <1>4 DEF Start
  <2>5. tree = View(disk) /\ tree' = tree
    BY <1>1, <2>4 DEF Proceed, TreeKept
  <2>6. CreateMay(tree, View(After(plan.mem, B)), plan.ret)
    BY <2>3, <2>5
  <2>7. B \in [DataBlocks -> Block] /\ Ends(disk.blocks, plan.writes, B)
    BY <2>2 DEF Outcome
  <2>8. TreeKept'
    BY <1>1, <1>2, <2>4, <2>5, <2>6, <2>7, StartTree
  <2> QED
    BY <2>5, <2>8 DEF NS!nsVars
<1> QED
  BY <1>3, <1>4

\* unlink
LEMMA UnlinkTree ==
  ASSUME Asan, Kept, Kept', NamesKept, TreeKept, NEW p, NEW n, Unlink(p, n),
         NoGap' \/ DirectPtrs <= 2, tree' = IF pc' = "idle" THEN View(disk') ELSE tree
  PROVE  TreeKept' /\ [NS!Next]_NS!nsVars
<1>1. PICK heap \in [HeapRange(disk, p) -> HeapCells], lucky \in BOOLEAN :
        UnlinkWith(p, n, UnlinkPlan(disk, p, n, heap, lucky))
  BY DEF Unlink, UnlinkPlans
<1> DEFINE plan == UnlinkPlan(disk, p, n, heap, lucky)
           j    == [op |-> "unlink", inum |-> p, name |-> n, ret |-> plan.ret]
<1>2. pc = "idle" /\ Start(j, plan)
  BY <1>1 DEF UnlinkWith
<1>3. j.op = "unlink" /\ j.ret = plan.ret
  OBVIOUS
<1> HIDE DEF j
<1>4. CASE IsRefused(plan)
  <2>1. UNCHANGED vars
    BY <1>2, <1>4 DEF Start
  <2> QED
    BY <1>2, <2>1, NothingTree
<1>5. CASE ~IsRefused(plan)
  <2>1. Tree(disk) /\ Usable(disk)
    BY <1>2, IdleTree
  <2>2. Proceed(j, plan)
    BY <1>2, <1>5 DEF Start
  <2>3. NoGaps(plan.mem) \/ DirectPtrs <= 2
    <3> HIDE DEF plan
    <3> QED
      BY <2>2 DEF Proceed, NoGap
  <2>4. UnlinkEnds(disk, p, n, plan)
    BY <1>5, <2>1, <2>3, UnlinkShrinks
  <2>5. PICK B : Outcome(disk, plan, B) /\ (plan.commit => Without(After(plan.mem, B), p, n))
    BY <2>4 DEF UnlinkEnds
  <2>6. UnlinkMay(View(disk), View(After(plan.mem, B)))
    <3>1. plan.commit => Without(After(plan.mem, B), p, n)
      BY <2>5
    <3>2. Outcome(disk, plan, B)
      BY <2>5
    <3> QED
      BY <1>5, <2>1, <2>3, <3>1, <3>2, UnlinkDoesAsPromised
  <2> HIDE DEF plan
  <2>7. tree = View(disk) /\ tree' = tree
    BY <1>2, <2>2 DEF Proceed, TreeKept
  <2>8. UnlinkMay(tree, View(After(plan.mem, B)))
    BY <2>6, <2>7
  <2>9. B \in [DataBlocks -> Block] /\ Ends(disk.blocks, plan.writes, B)
    BY <2>5 DEF Outcome
  <2>10. TreeKept'
    BY <1>2, <1>3, <2>2, <2>7, <2>8, <2>9, StartTree
  <2> QED
    BY <2>7, <2>10 DEF NS!nsVars
<1> QED
  BY <1>4, <1>5

\* and write.
LEMMA WriteTree ==
  ASSUME Kept, NamesKept, TreeKept, NEW i, NEW text, NEW size \in Sizes, Write(i, text, size),
         pc = "idle" /\ pc' = "write" => job'.inum \in disk.inodeBitmap,
         tree' = IF pc' = "idle" THEN View(disk') ELSE tree
  PROVE  TreeKept' /\ [NS!Next]_NS!nsVars
<1>1. pc = "idle" /\ mem = Meta(disk) /\ pending = <<>> /\ tree = View(disk) /\ disk \in Image
      /\ FilesOnly(tree)
  BY DEF Write, Kept, Ownership, Control, NamesKept, CallKnows, TreeKept, Contents, TypeOK
<1>2. CASE UNCHANGED vars
  BY <1>1, <1>2, NothingTree
<1>3. CASE /\ WriteError(disk, i, size) = 0 /\ pc' = "write"
           /\ job' = [op |-> "write", inum |-> i, text |-> text, ret |-> size]
           /\ UNCHANGED <<disk, pending, mem, k>>
  <2>1. /\ job'.op = "write" /\ job'.inum = i /\ job'.ret = size /\ disk' = disk
        /\ pending' = pending /\ mem' = mem /\ tree' = tree
    BY <1>3
  <2>2. disk.inodes[i].type = RegularFile /\ i \in disk.inodeBitmap /\ i \in Inodes
    <3>1. -EINVALIDSIZE # 0 /\ -EINVALIDINODE # 0 /\ -EINVALIDTYPE # 0
      BY DEF EINVALIDSIZE, EINVALIDINODE, EINVALIDTYPE
    <3> QED
      BY <1>1, <1>3, <2>1, <3>1 DEF WriteError, StatFails
  <2>3. /\ disk.blocks \in [DataBlocks -> Block] /\ disk.inodes \in [Inodes -> Inode]
        /\ mem.inodeBitmap = disk.inodeBitmap /\ mem.inodes = disk.inodes
        /\ disk.inodeBitmap \in SUBSET Inodes
    BY <1>1 DEF Image, Meta
  <2>4. tree.kind[i] = "file"
    BY <1>1, <2>2, ViewOfKind DEF Directory, RegularFile
  <2>5. tree.body[i] = Read(disk, i, disk.inodes[i].size)
    BY <1>1, <2>2, ViewOfBody
  <2>6. BeingWritten'
    BY <2>1, <2>2, <2>4, <2>5 DEF BeingWritten
  <2>7. View(After(mem, disk.blocks)) = tree
    <3> DEFINE e == After(mem, disk.blocks)
    <3>1. e.inodeBitmap = disk.inodeBitmap /\ e.inodes = disk.inodes /\ e.blocks = disk.blocks
      BY <2>3 DEF After
    <3> HIDE DEF e
    <3>2. View(e) = View(disk)
      BY <3>1, ViewDependsOn
    <3> QED
      BY <1>1, <3>2 DEF e
  <2>8. TreeToBe'
    <3>1. Ends(disk'.blocks, pending', disk'.blocks)
      BY <1>1, <2>1, <2>3, NoWrite
    <3>2. Promised(View(After(mem, disk.blocks)))'
      BY <2>1, <2>7 DEF Promised, KeepsTree
    <3> QED
      BY <2>1, <2>3, <3>1, <3>2 DEF TreeToBe
  <2>9. FilesOfTree'
    <3>1. SUFFICES ASSUME NEW x \in disk.inodeBitmap, tree.kind[x] = "file"
                   PROVE  /\ x \in disk.inodeBitmap /\ disk.inodes[x].type = RegularFile
                          /\ Read(disk, x, disk.inodes[x].size) = tree.body[x]
      BY <2>1, <2>3 DEF FilesOfTree
    <3>2. x \in Inodes
      BY <2>3
    <3>3. disk.inodes[x].type # Directory
      BY <1>1, <3>1, <3>2, ViewOfKind
    <3>4. disk.inodes[x].type = RegularFile
      BY <2>3, <3>2, <3>3 DEF Inode
    <3> QED
      BY <1>1, <3>2, <3>4, ViewOfBody
  <2>10. TreeKept'
    BY <1>1, <1>3, <2>1, <2>6, <2>8, <2>9 DEF TreeKept
  <2> QED
    BY <2>1, <2>10 DEF NS!nsVars
<1> QED
  BY <1>2, <1>3 DEF Write

\* Images with the same file inode read as long.
LEMMA ReadLength ==
  ASSUME NEW d, NEW e, NEW i, e.inodes[i] = d.inodes[i]
  PROVE  DOMAIN Read(e, i, e.inodes[i].size) = DOMAIN Read(d, i, d.inodes[i].size)
BY DEF Read

\* A step of write() that leaves the file's inode in memory a file's, and the
\* blocks of the other inodes alone.
LEMMA FileTree ==
  ASSUME Kept, NamesKept, TreeKept, [RestartNext]_vars, job.op = "write", pc = "write",
         mem.inodes[job.inum].type = RegularFile, mem'.inodes[job.inum].type = RegularFile,
         UNCHANGED <<job, pending, tree>>, mem'.inodeBitmap = mem.inodeBitmap,
         disk'.inodeBitmap = disk.inodeBitmap, disk'.inodes = disk.inodes,
         disk'.blocks \in [DataBlocks -> Block], pc' \in {"write", "dataBitmap"},
         \A j \in Inodes \ {job.inum} : mem'.inodes[j] = mem.inodes[j],
         \A j \in Inodes \ {job.inum}, a \in Ptrs : mem.inodes[j].direct[a] \in DataBlocks =>
            disk'.blocks[mem.inodes[j].direct[a]] = disk.blocks[mem.inodes[j].direct[a]]
  PROVE  TreeKept'
<1>1. /\ disk \in Image /\ mem \in Metadata /\ mem.inodeBitmap \in SUBSET Inodes
      /\ disk.blocks \in [DataBlocks -> Block]
  BY DEF Kept, Contents, TypeOK, Metadata, Image
<1>2. pending = <<>> /\ TreeToCome
  BY DEF NamesKept, CallKnows
<1>3. Tree(After(mem, disk.blocks))
  BY <1>1, <1>2, NothingPending
<1>4. KeepsTree(tree, View(After(mem, disk.blocks)))
  BY <1>1, <1>2, NothingToWrite DEF TreeKept, Promised
<1>5. KeepsTree(tree, View(After(mem', disk'.blocks)))
  <2> DEFINE d == After(mem, disk.blocks)
             e == After(mem', disk'.blocks)
  <2>1. /\ d.inodeBitmap = mem.inodeBitmap /\ d.inodes = mem.inodes /\ d.blocks = disk.blocks
        /\ e.inodeBitmap = mem'.inodeBitmap /\ e.inodes = mem'.inodes /\ e.blocks = disk'.blocks
        /\ Tree(d) /\ KeepsTree(tree, View(d))
    BY <1>3, <1>4 DEF After
  <2> HIDE DEF d, e
  <2>2. \A j \in Inodes : j # job.inum => e.inodes[j] = d.inodes[j]
    BY <2>1
  <2>3. \A j \in Inodes : j # job.inum =>
            \A a \in Ptrs : d.inodes[j].direct[a] \in DataBlocks =>
               e.blocks[d.inodes[j].direct[a]] = d.blocks[d.inodes[j].direct[a]]
    BY <2>1
  <2>4. /\ d.inodeBitmap \in SUBSET Inodes /\ e.inodeBitmap = d.inodeBitmap
        /\ d.inodes[job.inum].type = RegularFile /\ e.inodes[job.inum].type = RegularFile
    BY <1>1, <2>1
  <2>5. Tree(d)
    BY <2>1
  <2>6. KeepsTree(View(d), View(e))
    BY ONLY <2>2, <2>3, <2>4, <2>5, FileKeepsTree
  <2>7. KeepsTree(tree, View(e))
    BY <2>1, <2>6 DEF KeepsTree
  <2> QED
    BY <2>7 DEF e
<1>6. TreeToBe'
  <2>1. Ends(disk'.blocks, pending', disk'.blocks)
    BY <1>2, NoWrite
  <2>2. Promised(View(After(mem, disk.blocks)))'
    BY <1>5 DEF Promised
  <2> QED
    BY <2>1, <2>2 DEF TreeToBe
<1>7. FilesOfTree'
  BY FilesStay DEF TreeKept
<1>8. BeingWritten'
  <2>1. disk'.inodes[job.inum] = disk.inodes[job.inum]
    OBVIOUS
  <2>2. DOMAIN Read(disk', job.inum, disk'.inodes[job.inum].size)
          = DOMAIN Read(disk, job.inum, disk.inodes[job.inum].size)
    BY <2>1, ReadLength
  <2>3. BeingWritten
    BY DEF TreeKept
  <2> QED
    BY <2>2, <2>3 DEF BeingWritten
<1>9. FilesOnly(tree)'
  BY DEF TreeKept, FilesOnly
<1> QED
  BY <1>6, <1>7, <1>8, <1>9 DEF TreeKept

\* A block of the body is written.
LEMMA ChunkTree ==
  ASSUME Kept, NamesKept, TreeKept, [RestartNext]_vars, InLoop, NEW b \in DataBlocks, PutChunk(b),
         UNCHANGED <<pc, job, pending, tree>>, mem'.inodeBitmap = mem.inodeBitmap,
         \A j \in Inodes \ {job.inum} : mem'.inodes[j] = mem.inodes[j],
         mem'.inodes[job.inum].type = mem.inodes[job.inum].type,
         \A j \in Inodes \ {job.inum}, a \in Ptrs : mem.inodes[j].direct[a] # b
  PROVE  TreeKept'
<1>1. /\ pc = "write" /\ Chunk(job.text, job.ret, k) \in Block /\ job.op = "write"
  BY InTheLoop
<1>2. disk \in Image
  BY DEF Kept, Contents, TypeOK
<1>3. /\ disk'.blocks \in [DataBlocks -> Block] /\ disk'.inodes = disk.inodes
      /\ disk'.inodeBitmap = disk.inodeBitmap
      /\ \A c \in DataBlocks : c # b => disk'.blocks[c] = disk.blocks[c]
  <2> DEFINE ch == Chunk(job.text, job.ret, k)
  <2>1. disk' = [disk EXCEPT !.blocks[b] = ch] /\ ch \in Block
    BY <1>1 DEF PutChunk
  <2> HIDE DEF ch
  <2> QED
    BY <1>2, <2>1 DEF Image
<1>4. mem.inodes[job.inum].type = RegularFile
  BY <1>1 DEF NamesKept, CallKnows
<1>5. \A j \in Inodes \ {job.inum}, a \in Ptrs : mem.inodes[j].direct[a] \in DataBlocks =>
         disk'.blocks[mem.inodes[j].direct[a]] = disk.blocks[mem.inodes[j].direct[a]]
  BY <1>3
<1> QED
  BY <1>1, <1>3, <1>4, <1>5, FileTree

\* The steps of the loop of write(): a block the file has,
LEMMA WriteReuseTree ==
  Kept /\ NamesKept /\ TreeKept /\ WriteReuse /\ tree' = tree => TreeKept'
<1> SUFFICES ASSUME Kept, NamesKept, TreeKept, WriteReuse, tree' = tree PROVE TreeKept'
  OBVIOUS
<1> DEFINE b == mem.inodes[job.inum].direct[k]
<1>1. /\ InLoop /\ b \in DataBlocks /\ PutChunk(b)
      /\ UNCHANGED <<pc, job, pending, mem>>
  BY DEF WriteReuse
<1>2. job.inum \in Inodes /\ k \in Ptrs
  BY <1>1, InTheLoop
<1>3. mem \in Metadata /\ Unshared(mem.inodes)
  BY DEF Kept, Ownership, Structure, Owners
<1>4. \A j \in Inodes \ {job.inum}, a \in Ptrs : mem.inodes[j].direct[a] # b
  BY <1>1, <1>2, <1>3 DEF Unshared
<1>5. [RestartNext]_vars
  BY DEF RestartNext, Calls, WriteSteps
<1> QED
  BY <1>1, <1>4, <1>5, ChunkTree

\* a block the file is given,
LEMMA WriteAllocateTree ==
  Kept /\ NamesKept /\ TreeKept /\ WriteAllocate /\ tree' = tree => TreeKept'
<1> SUFFICES ASSUME Kept, NamesKept, TreeKept, WriteAllocate, tree' = tree PROVE TreeKept'
  OBVIOUS
<1> DEFINE b == Least(DataBlocks \ mem.dataBitmap)
<1>1. /\ InLoop /\ PutChunk(b) /\ mem' = WithChunk(mem, job.inum, k, b)
      /\ mem.dataBitmap # DataBlocks /\ UNCHANGED <<pc, job, pending>>
  BY DEF WriteAllocate, WithChunk
<1>2. job.inum \in Inodes /\ k \in Ptrs
  BY <1>1, InTheLoop
<1>3. mem \in Metadata /\ Marked(mem.inodes, mem.dataBitmap)
  BY DEF Kept, Ownership, Structure, Owners
<1>4. b \in DataBlocks /\ b \notin mem.dataBitmap
  <2>1. DataBlocks \ mem.dataBitmap \in SUBSET Nat
    BY Layout
  <2>2. DataBlocks \ mem.dataBitmap # {}
    BY <1>1, <1>3 DEF Metadata
  <2> QED
    BY <2>1, <2>2, LeastIsMinimum
<1> HIDE DEF b
<1>5. /\ mem'.inodeBitmap = mem.inodeBitmap
      /\ mem'.inodes = [mem.inodes EXCEPT ![job.inum].direct[k] = b]
  BY <1>1, <1>3 DEF WithChunk, Metadata
<1>6. /\ \A j \in Inodes \ {job.inum} : mem'.inodes[j] = mem.inodes[j]
      /\ mem'.inodes[job.inum] = [mem.inodes[job.inum] EXCEPT !.direct[k] = b]
      /\ mem.inodes[job.inum] \in Inode
  BY <1>2, <1>3, <1>5 DEF Metadata
<1>7. mem'.inodes[job.inum].type = mem.inodes[job.inum].type
  BY <1>6 DEF Inode
<1>8. \A j \in Inodes \ {job.inum}, a \in Ptrs : mem.inodes[j].direct[a] # b
  BY <1>3, <1>4 DEF Marked
<1>9. [RestartNext]_vars
  BY DEF RestartNext, Calls, WriteSteps
<1> QED
  BY <1>1, <1>4, <1>5, <1>6, <1>7, <1>8, <1>9, ChunkTree

\* no block left: the file is as long as it was,
LEMMA WriteEndsTree ==
  ASSUME Kept, NamesKept, TreeKept, [RestartNext]_vars, pc = "write", disk' = disk,
         Return(disk'), tree' = View(disk')
  PROVE  TreeKept' /\ [NS!Next]_NS!nsVars
<1>1. /\ disk \in Image /\ mem \in Metadata /\ mem.inodeBitmap \in SUBSET Inodes
      /\ disk.inodeBitmap = mem.inodeBitmap /\ disk.blocks \in [DataBlocks -> Block]
  BY DEF Kept, Contents, TypeOK, FilesApart, Metadata, Image
<1>2. job.op = "write" /\ job.inum \in Inodes
  BY DEF Kept, Ownership, Control
<1>3. /\ mem.inodes[job.inum].type = RegularFile
      /\ disk.inodes[job.inum].type = RegularFile /\ pending = <<>> /\ TreeToCome
  BY DEF NamesKept, CallKnows
<1>4. \A j \in Inodes : j # job.inum => mem.inodes[j] = disk.inodes[j]
  BY <1>2 DEF Kept, Ownership, Control
<1>5. Tree(After(mem, disk.blocks)) /\ KeepsTree(tree, View(After(mem, disk.blocks)))
  BY <1>1, <1>2, <1>3, NothingPending, NothingToWrite DEF TreeKept, Promised
<1>6. KeepsTree(tree, View(disk))
  <2> DEFINE d == After(mem, disk.blocks)
  <2>1. /\ d.inodeBitmap = mem.inodeBitmap /\ d.inodes = mem.inodes /\ d.blocks = disk.blocks
        /\ Tree(d) /\ KeepsTree(tree, View(d))
    BY <1>5 DEF After
  <2> HIDE DEF d
  <2>2. KeepsTree(View(d), View(disk))
    BY <1>1, <1>3, <1>4, <2>1, FileKeepsTree
  <2> QED
    BY <2>1, <2>2 DEF KeepsTree
<1>7. DOMAIN View(disk').body[job.inum] = DOMAIN tree.body[job.inum]
  <2>1. /\ tree.kind[job.inum] = "file"
        /\ DOMAIN tree.body[job.inum] = DOMAIN Read(disk, job.inum, disk.inodes[job.inum].size)
    BY <1>2 DEF TreeKept, BeingWritten
  <2>2. View(disk).kind[job.inum] = "file"
    BY <1>6, <2>1 DEF KeepsTree
  <2>3. job.inum \in disk.inodeBitmap
    BY <1>2, <2>2, ViewOfKind
  <2>4. View(disk).body[job.inum] = Read(disk, job.inum, disk.inodes[job.inum].size)
    BY <1>2, <1>3, <2>3, ViewOfBody
  <2> QED
    BY <2>1, <2>4
<1>8. Promised(View(disk'))
  BY <1>2, <1>6 DEF Promised
<1>9. [NS!Next]_NS!nsVars
  BY <1>1, <1>7, <1>8, PromiseIsKept
<1> QED
  BY <1>1, <1>9, ReturnTree

\* and the end of the loop.
LEMMA WriteTrimTree ==
  ASSUME Kept, NamesKept, TreeKept, WriteTrim, tree' = IF pc' = "idle" THEN View(disk') ELSE tree
  PROVE  TreeKept' /\ [NS!Next]_NS!nsVars
<1> DEFINE i    == job.inum
           ino  == mem.inodes[i]
           drop == {a \in Held(ino, BlocksFor(ino.size)) : a >= BlocksFor(job.ret)}
<1>1. pc = "write" /\ disk' = disk /\ [RestartNext]_vars
  BY DEF WriteTrim, RestartNext, Calls, WriteSteps
<1>2. CASE Return(disk)
  <2>1. Return(disk') /\ tree' = View(disk')
    BY <1>1, <1>2 DEF Return
  <2> QED
    BY <1>1, <2>1, WriteEndsTree
<1>3. CASE /\ pc' = "dataBitmap" /\ job' = job /\ pending' = pending
           /\ mem' = Trimmed(mem, i, job.ret, drop)
  <2>1. mem \in Metadata /\ i \in Inodes /\ job.op = "write" /\ job.ret \in Int
        /\ disk'.blocks \in [DataBlocks -> Block] /\ tree' = tree
    BY <1>1, <1>3 DEF Kept, Ownership, Structure, Control, Contents, TypeOK, Image
  <2>2. mem.inodes[i].type = RegularFile
    BY <1>1 DEF NamesKept, CallKnows
  <2>3. drop \in SUBSET Ptrs
    BY DEF Held
  <2> HIDE DEF drop
  <2>4. /\ mem'.inodes[i].type = mem.inodes[i].type /\ mem'.inodeBitmap = mem.inodeBitmap
        /\ \A j \in Inodes \ {i} : mem'.inodes[j] = mem.inodes[j]
    BY <1>3, <2>1, <2>3, TrimmedFile
  <2>5. TreeKept'
    BY <1>1, <1>3, <2>1, <2>2, <2>4, FileTree
  <2> QED
    BY <2>1, <2>5 DEF NS!nsVars
<1> QED
  BY <1>2, <1>3 DEF WriteTrim, Trimmed

\* The writes of a call: the blocks of directories,
LEMMA FlushBlockTree ==
  ASSUME Kept, NamesKept, TreeKept, FlushBlock,
         tree' = IF pc' = "idle" THEN View(disk') ELSE tree
  PROVE  TreeKept' /\ [NS!Next]_NS!nsVars
<1> DEFINE h == Head(pending)
<1>1. /\ pc = "blocks" /\ job.op # "write" /\ disk \in Image
      /\ pending # <<>> /\ pending \in Seq(Safe(disk))
      /\ [RestartNext]_vars
  BY DEF FlushBlock, Kept, Ownership, Control, Contents, TypeOK, FilesApart, Safe,
         RestartNext, Calls, Flush
<1>2. pending \in Writes
  BY <1>1, SafeWrites DEF Writes
<1>3. h.addr \in DataBlocks /\ h.cells \in Block
  <2>1. h \in Safe(disk)
    BY <1>1
  <2> HIDE DEF h
  <2> QED
    BY <2>1 DEF Safe, Harmless
<1>4. /\ disk'.inodes = disk.inodes /\ disk'.inodeBitmap = disk.inodeBitmap
      /\ disk'.blocks = [disk.blocks EXCEPT ![h.addr] = h.cells]
      /\ disk' \in Image
  <2>1. disk' = [disk EXCEPT !.blocks[h.addr] = h.cells]
    BY DEF FlushBlock
  <2> HIDE DEF h
  <2> QED
    BY <1>1, <1>3, <2>1 DEF Image
<1>5. PICK B \in [DataBlocks -> Block] :
             Ends(disk.blocks, pending, B) /\ Promised(View(After(mem, B)))
  BY DEF TreeKept, TreeToBe
<1>6. Ends(disk'.blocks, Tail(pending), B)
  <2>1. disk.blocks \in [DataBlocks -> Block]
    BY <1>1 DEF Image
  <2> QED
    BY <1>1, <1>2, <1>4, <1>5, <2>1, OneFlushed
<1> HIDE DEF h
<1>7. CASE Tail(pending) = <<>> /\ job.ret < 0 /\ Return(disk')
  <2>1. mem = Meta(disk)
    BY <1>1, <1>7 DEF NamesKept, CallKnows
  <2>2. B = disk'.blocks
    <3> DEFINE rest == Tail(pending)
    <3>1. rest = <<>> /\ Ends(disk'.blocks, rest, B)
      BY <1>6, <1>7
    <3> HIDE DEF rest
    <3>2. \A b \in DataBlocks : B[b] = disk'.blocks[b]
      <4>1. Len(rest) = 0
        BY <3>1
      <4> QED
        BY <3>1, <4>1 DEF Ends
    <3>3. disk'.blocks \in [DataBlocks -> Block]
      BY <1>4 DEF Image
    <3> QED
      BY <1>5, <3>2, <3>3
  <2> DEFINE d == After(mem, B)
  <2>3. /\ disk'.inodeBitmap = d.inodeBitmap /\ disk'.inodes = d.inodes /\ disk'.blocks = d.blocks
        /\ Promised(View(d)) /\ disk'.inodeBitmap = mem.inodeBitmap
    BY <1>4, <1>5, <2>1, <2>2 DEF After, Meta
  <2> HIDE DEF d
  <2>4. View(disk') = View(d)
    BY <2>3, ViewDependsOn
  <2>5. Promised(View(disk')) /\ tree' = View(disk')
    BY <1>7, <2>3, <2>4 DEF Return
  <2>6. [NS!Next]_NS!nsVars
    BY <1>1, <1>4, <1>7, <2>3, <2>5, PromiseIsKept
  <2> QED
    BY <1>4, <1>7, <2>5, <2>6, ReturnTree
<1>8. CASE /\ ~(Tail(pending) = <<>> /\ job.ret < 0)
           /\ pending' = Tail(pending)
           /\ pc' = (IF Tail(pending) = <<>> THEN "inodeBitmap" ELSE "blocks")
           /\ UNCHANGED <<job, mem, k>>
  <2>1. pc' \in {"inodeBitmap", "blocks"} /\ tree' = tree /\ job' = job /\ mem' = mem
        /\ pending' = Tail(pending)
    BY <1>8
  <2>2. Promised(View(After(mem, B)))'
    BY <1>5, <2>1 DEF Promised
  <2>3. TreeToBe'
    BY <1>5, <1>6, <2>1, <2>2 DEF TreeToBe
  <2>4. FilesOfTree'
    BY <1>1, <1>4, <2>1, FilesStay DEF TreeKept
  <2>5. BeingWritten'
    BY <1>1, <2>1 DEF BeingWritten
  <2>6. TreeKept'
    BY <2>1, <2>3, <2>4, <2>5 DEF TreeKept, FilesOnly
  <2> QED
    BY <2>1, <2>6 DEF NS!nsVars
<1> QED
  BY <1>7, <1>8 DEF FlushBlock

\* A write of metadata behind which there is another.
LEMMA MetadataTree ==
  ASSUME Kept, TreeKept, [RestartNext]_vars, pc' \notin {"idle", "write"},
         UNCHANGED <<job, pending, mem, tree>>, disk'.blocks = disk.blocks,
         disk'.inodeBitmap \in {disk.inodeBitmap, mem.inodeBitmap}
  PROVE  TreeKept' /\ [NS!Next]_NS!nsVars
<1>1. TreeToBe'
  BY DEF TreeKept, TreeToBe, Promised
<1>2. FilesOfTree'
  BY FilesStay DEF TreeKept
<1>3. BeingWritten'
  BY DEF TreeKept, BeingWritten
<1> QED
  BY <1>1, <1>2, <1>3 DEF TreeKept, FilesOnly, NS!nsVars

\* the bitmaps,
LEMMA FlushBitmapsTree ==
  ASSUME Kept, TreeKept, FlushInodeBitmap \/ FlushDataBitmap,
         tree' = IF pc' = "idle" THEN View(disk') ELSE tree
  PROVE  TreeKept' /\ [NS!Next]_NS!nsVars
<1>1. disk \in Image /\ [RestartNext]_vars
  BY DEF Kept, Contents, TypeOK, RestartNext, Calls, Flush
<1>2. CASE FlushInodeBitmap
  <2>1. disk'.blocks = disk.blocks /\ disk'.inodeBitmap = mem.inodeBitmap
    BY <1>1, <1>2 DEF FlushInodeBitmap, Image
  <2>2. pc' = "dataBitmap" /\ UNCHANGED <<job, pending, mem, tree>>
    BY <1>2 DEF FlushInodeBitmap
  <2> QED
    BY <1>1, <2>1, <2>2, MetadataTree
<1>3. CASE FlushDataBitmap
  <2>1. mem' = mem
    BY <1>3, FlushDataBitmapMem DEF Kept
  <2>2. disk'.blocks = disk.blocks /\ disk'.inodeBitmap = disk.inodeBitmap
    BY <1>1, <1>3 DEF FlushDataBitmap, Image
  <2>3. pc' = "region" /\ UNCHANGED <<job, pending, tree>>
    BY <1>3 DEF FlushDataBitmap
  <2> QED
    BY <1>1, <2>1, <2>2, <2>3, MetadataTree
<1> QED
  BY <1>2, <1>3

\* The last block of the region makes the image what the call has promised.
LEMMA RegionTree ==
  ASSUME Kept, NamesKept, TreeKept, FlushRegion, k + 1 = InodeRegionLen, tree' = View(disk')
  PROVE  TreeKept' /\ [NS!Next]_NS!nsVars
<1>1. /\ pc = "region" /\ disk.blocks \in [DataBlocks -> Block] /\ pending = <<>>
      /\ [RestartNext]_vars /\ Return(disk')
      /\ job.op \in {"create", "unlink", "write"}
  BY DEF FlushRegion, Kept, Ownership, Control, Contents, TypeOK, Image, NamesKept, CallKnows,
         RestartNext, Calls, Flush
<1>2. /\ disk' \in Image /\ disk'.inodeBitmap = mem.inodeBitmap
      /\ disk'.inodes = mem.inodes /\ disk'.blocks = disk.blocks
  BY RegionDone
<1>3. Promised(View(After(mem, disk.blocks)))
  BY <1>1, NothingToWrite DEF TreeKept
<1>4. Promised(View(disk'))
  <2> DEFINE d == After(mem, disk.blocks)
  <2>1. /\ d.inodeBitmap = mem.inodeBitmap /\ d.inodes = mem.inodes /\ d.blocks = disk.blocks
        /\ Promised(View(d))
    BY <1>3 DEF After
  <2> HIDE DEF d
  <2>2. View(disk') = View(d)
    BY <1>2, <2>1, ViewDependsOn
  <2> QED
    BY <2>1, <2>2
<1>5. ASSUME job.op = "write"
      PROVE  \E text \in FileCells, size \in {s \in Sizes : s >= 0} :
                View(disk').body[job.inum] = BodiesOf(text, size)
  <2>1. /\ disk'.inodes[job.inum].size = job.ret
        /\ Read(disk', job.inum, job.ret) = [e \in 0 .. job.ret - 1 |-> job.text]
    <3>1. Returns("write")
      BY <1>1, <1>5 DEF Returns, Return
    <3> QED
      BY <1>1, <3>1, NextReads
  <2>2. /\ tree.kind[job.inum] = "file" /\ job.inum \in Inodes /\ job.ret \in Sizes
        /\ KeepsTree(tree, View(disk'))
    BY <1>4, <1>5 DEF TreeKept, BeingWritten, Promised
  <2>3. View(disk').kind[job.inum] = "file"
    BY <2>2 DEF KeepsTree
  <2>4. job.inum \in disk'.inodeBitmap /\ disk'.inodes[job.inum].type = RegularFile
    <3>1. job.inum \in disk'.inodeBitmap /\ disk'.inodes[job.inum].type # Directory
      BY <2>2, <2>3, ViewOfKind
    <3>2. disk'.inodes[job.inum] \in Inode
      BY <1>2, <2>2 DEF Image
    <3> QED
      BY <3>1, <3>2 DEF Inode
  <2>5. View(disk').body[job.inum] = BodiesOf(job.text, job.ret)
    BY <2>1, <2>2, <2>4, ViewOfBody DEF BodiesOf
  <2>6. job.text \in FileCells /\ job.ret >= 0
    BY <1>1, <1>5 DEF Kept, Contents, TypeOK, WriteSoFar, Jobs, NoJob
  <2> QED
    BY <2>2, <2>5, <2>6
<1>6. [NS!Next]_NS!nsVars
  BY <1>1, <1>2, <1>4, <1>5, PromiseIsKept
<1> QED
  BY <1>1, <1>2, <1>6, ReturnTree

\* and the inode region.
LEMMA FlushRegionTree ==
  ASSUME Kept, NamesKept, TreeKept, FlushRegion,
         tree' = IF pc' = "idle" THEN View(disk') ELSE tree
  PROVE  TreeKept' /\ [NS!Next]_NS!nsVars
<1>1. CASE k + 1 = InodeRegionLen
  <2>1. tree' = View(disk')
    BY <1>1 DEF FlushRegion, Return
  <2> QED
    BY <1>1, <2>1, RegionTree
<1>2. CASE k + 1 # InodeRegionLen
  <2>1. pc = "region" /\ UNCHANGED <<pc, job, pending, mem, tree>> /\ [RestartNext]_vars
    BY <1>2 DEF FlushRegion, RestartNext, Calls, Flush
  <2>2. disk'.blocks = disk.blocks /\ disk'.inodeBitmap = disk.inodeBitmap
    <3>1. disk \in Image
      BY DEF Kept, Contents, TypeOK
    <3> QED
      BY <3>1 DEF FlushRegion, Image
  <2> QED
    BY <2>1, <2>2, MetadataTree
<1> QED
  BY <1>1, <1>2

\* Every step keeps the invariant, and is one of the abstract file system or none.
LEMMA NextIsStep ==
  ASSUME Asan, Kept, NamesKept, TreeKept, NoGap' \/ DirectPtrs <= 2, ServerNext,
         tree' = IF pc' = "idle" THEN View(disk') ELSE tree
  PROVE  TreeKept' /\ [NS!Next]_NS!nsVars
<1>1. Kept' /\ Calls /\ (pc = "idle" /\ pc' = "write" => job'.inum \in disk.inodeBitmap)
  <2>1. [RestartNext]_vars
    BY DEF ServerNext, RestartNext
  <2> QED
    BY <2>1, NextKeeps DEF ServerNext
<1>2. CASE \E p \in AnyInode, type \in {Directory, RegularFile}, n \in AnyName : Create(p, type, n)
  BY <1>1, <1>2, CreateTree
<1>3. CASE \E p \in AnyInode, n \in AnyName : Unlink(p, n)
  BY <1>1, <1>3, UnlinkTree
<1>4. CASE \E i \in AnyInode, text \in FileCells, size \in Sizes : Write(i, text, size)
  BY <1>1, <1>4, WriteTree
<1>5. CASE WriteReuse \/ WriteAllocate
  <2>1. pc' = "write"
    BY <1>5 DEF WriteReuse, WriteAllocate, InLoop
  <2>2. tree' = tree
    BY <2>1
  <2>3. TreeKept'
    BY <1>5, <2>2, WriteReuseTree, WriteAllocateTree
  <2> QED
    BY <2>2, <2>3 DEF NS!nsVars
<1>6. CASE WriteFails
  <2>1. disk' = disk /\ Return(disk') /\ pc = "write" /\ tree' = View(disk')
    BY <1>6 DEF WriteFails, Return, InLoop
  <2>2. [RestartNext]_vars
    BY <1>1 DEF RestartNext
  <2> QED
    BY <2>1, <2>2, WriteEndsTree
<1>7. CASE WriteTrim
  BY <1>7, WriteTrimTree
<1>8. CASE Flush
  BY <1>8, FlushBlockTree, FlushBitmapsTree, FlushRegionTree DEF Flush
<1> QED
  BY <1>1, <1>2, <1>3, <1>4, <1>5, <1>6, <1>7, <1>8 DEF Calls, WriteSteps

\* A stutter.
LEMMA StutterTree == TreeKept /\ UNCHANGED <<vars, tree>> => TreeKept' /\ [NS!Next]_NS!nsVars
<1> SUFFICES ASSUME TreeKept, UNCHANGED <<vars, tree>> PROVE TreeKept' /\ [NS!Next]_NS!nsVars
  OBVIOUS
<1>1. /\ pc' = pc /\ disk' = disk /\ job' = job /\ pending' = pending /\ mem' = mem
      /\ tree' = tree
  BY DEF vars
<1>2. TreeKept'
  BY <1>1 DEF TreeKept, FilesOnly, TreeToBe, Promised, FilesOfTree, About, BeingWritten
<1> QED
  BY <1>1, <1>2 DEF NS!nsVars

(***************************************************************************)
(* Built with ASan, and as long as unlink leaves no gap in a directory,    *)
(* LocalFileSystem implements NameSpace: whatever block writes a call is   *)
(* made of, when it returns it has made one change to the tree of names,   *)
(* the one its name says, or none.                                         *)
(***************************************************************************)
THEOREM CallsAreOneStep ==
  ASSUME Asan
  PROVE  NameSpaceSpec /\ []NoGap => ImplementsNameSpace
<1> DEFINE Step == ServerNext /\ tree' = IF pc' = "idle" THEN View(disk') ELSE tree
<1>1. Init /\ tree = View(disk) => TreeKept /\ NS!Init
  BY InitTreeKept
<1>2. [Step]_<<vars, tree>> => [Calls]_vars
  BY DEF ServerNext, vars
<1>3. Kept /\ NamesKept /\ NoGap' /\ TreeKept /\ [Step]_<<vars, tree>>
        => TreeKept' /\ [NS!Next]_NS!nsVars
  BY NextIsStep, StutterTree
<1>4. NameSpaceSpec => Spec
  BY <1>2, PTL DEF NameSpaceSpec, Spec
<1>5. NameSpaceSpec /\ []NoGap => []Kept /\ []NamesKept
  BY <1>4, SpecRestarts, NamesAreKept, PTL
<1> QED
  BY <1>1, <1>3, <1>5, PTL DEF NameSpaceSpec, ImplementsNameSpace, NS!Spec

\* Where an inode has at most two pointers unlink leaves no gaps, and every call is
\* one step whatever is called.
THEOREM CallsAreOneStepInSmallDirectories ==
  ASSUME Asan, DirectPtrs <= 2
  PROVE  NameSpaceSpec => ImplementsNameSpace
<1>1. [ServerNext /\ tree' = IF pc' = "idle" THEN View(disk') ELSE tree]_<<vars, tree>>
        => [Calls]_vars
  BY DEF ServerNext, vars
<1>2. NameSpaceSpec => Spec
  BY <1>1, PTL DEF NameSpaceSpec, Spec
<1> QED
  BY <1>2, NoGapInSmallDirectories, CallsAreOneStep, PTL

\* So the tree that the calls leave has every name in a directory, no inode with
\* two names and no directory below itself.
THEOREM CallsKeepTheTree ==
  ASSUME Asan
  PROVE  NameSpaceSpec /\ []NoGap => []GoodTree
<1>1. Root \in Inodes
  BY Layout, UFSAssumption DEF Root, Inodes
<1> QED
  BY <1>1, TreeOfNames, CallsAreOneStep, PTL DEF ImplementsNameSpace
=============================================================================
