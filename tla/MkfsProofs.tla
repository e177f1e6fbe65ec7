----------------------------- MODULE MkfsProofs -----------------------------
(***************************************************************************)
(* Proofs about mkfs: for every number of inodes and data blocks whose     *)
(* inode table has less bytes than an int counts, the regions have room    *)
(* for what goes into them; and an image that was made is all there just   *)
(* when the number of its blocks is an int, too.                           *)
(***************************************************************************)
EXTENDS Mkfs, UFSLemmas

LEMMA ProductMonotone ==
  ASSUME NEW a \in Nat, NEW b \in Nat, a <= b, NEW c \in Nat
  PROVE  a * c <= b * c
  OBVIOUS

LEMMA ProductCancel ==
  ASSUME NEW a \in Nat, NEW b \in Nat, NEW c \in Nat, c > 0, a * c >= b * c
  PROVE  a >= b
<1>1. SUFFICES ASSUME a + 1 <= b PROVE FALSE
  OBVIOUS
<1>2. (a + 1) * c <= b * c
  BY <1>1, ProductMonotone
<1>3. (a + 1) * c = a * c + c
  OBVIOUS
<1> QED
  BY <1>2, <1>3

(***************************************************************************)
(* Rounding up: Needed(n, per) pieces of size per hold n.                  *)
(***************************************************************************)
LEMMA NeededHolds ==
  ASSUME NEW n \in Nat, n > 0, NEW per \in Nat, per > 0
  PROVE  Needed(n, per) \in Nat /\ Needed(n, per) > 0 /\ Needed(n, per) * per >= n
<1> DEFINE q == n \div per
<1>1. Quotient(n, per) = q
  BY DEF Quotient
<1>2. q \in Nat /\ per * q <= n /\ n < per * q + per
  BY Division
<1> HIDE DEF q
<1>3. per * q = q * per
  BY <1>2
<1>4. CASE n = q * per
  <2>1. Needed(n, per) = q
    BY <1>1, <1>4 DEF Needed
  <2>2. q # 0
    BY <1>2, <1>4
  <2> QED
    BY <2>1, <2>2, <1>2, <1>4
<1>5. CASE n # q * per
  <2>1. Needed(n, per) = q + 1
    BY <1>1, <1>5 DEF Needed
  <2>2. (q + 1) * per = q * per + per
    BY <1>2
  <2> QED
    BY <2>1, <2>2, <1>2, <1>3
<1> QED
  BY <1>4, <1>5

\* The least number of pieces that hold n.
LEMMA NeededIsLeast ==
  ASSUME NEW n \in Nat, n > 0, NEW per \in Nat, per > 0, NEW r \in Nat, r * per >= n
  PROVE  Needed(n, per) <= r
<1> DEFINE q == n \div per
<1>1. q \in Nat /\ per * q <= n /\ n < per * q + per
  BY Division
<1>2. Quotient(n, per) = q
  BY DEF Quotient
<1> HIDE DEF q
<1>3. q * per <= r * per
  BY <1>1
<1>4. q <= r
  BY <1>1, <1>3, ProductCancel
<1>5. CASE n = q * per
  BY <1>2, <1>4, <1>5 DEF Needed
<1>6. CASE n # q * per
  <2>1. q # r
    BY <1>1, <1>6
  <2> QED
    BY <1>1, <1>2, <1>4, <1>6, <2>1 DEF Needed
<1> QED
  BY <1>5, <1>6

\* Below the bound an int is what it was.
LEMMA AsIntBelow ==
  ASSUME NEW x \in Nat, x < IntBound
  PROVE  AsInt(x) = x
<1>1. IntBound \in Nat /\ x + IntBound \in Nat /\ x + IntBound < 2 * IntBound
  BY MkfsAssumption
<1>2. (x + IntBound) % (2 * IntBound) = x + IntBound
  BY <1>1
<1> QED
  BY <1>1, <1>2 DEF AsInt

\* From the bound to twice the bound it is negative.
LEMMA AsIntAbove ==
  ASSUME NEW x \in Nat, IntBound <= x, x < 2 * IntBound
  PROVE  AsInt(x) = x - 2 * IntBound
<1> DEFINE m == 2 * IntBound
           y == x - IntBound
<1>1. IntBound \in Nat /\ IntBound > 0 /\ m \in Nat /\ m > 0 /\ y \in Nat /\ y < m
  BY MkfsAssumption
<1>2. x + IntBound = y + m /\ m = 2 * IntBound
  BY <1>1
<1> HIDE DEF m
<1>3. (y + m) % m = y
  BY <1>1
<1>4. (x + IntBound) % (2 * IntBound) = y
  BY <1>2, <1>3
<1> QED
  BY <1>1, <1>4 DEF AsInt

(***************************************************************************)
(* The layout mkfs computes keeps the regions apart and gives each the     *)
(* room it needs, whatever the options, as long as the product of          *)
(* total_inode_bytes is an int.  total_blocks is the number of its blocks  *)
(* if that is an int, too, and a negative number if not.                   *)
(***************************************************************************)
THEOREM LayoutIsRoomy ==
  ASSUME NEW ni \in Nat, ni > 0, NEW nd \in Nat, nd > 0, nd < IntBound,
         ni * InodeBytes < IntBound
  PROVE  LET x == SuperBlock(ni, nd)
         IN  /\ Roomy(x) /\ Blocks(x) \in Nat /\ x.data_region_addr < IntBound
             /\ x.inode_bitmap_len \in Nat /\ x.data_bitmap_len \in Nat
             /\ x.inode_region_len \in Nat
             /\ TotalBlocks(x) \in Int
             /\ IF Blocks(x) < IntBound THEN TotalBlocks(x) = Blocks(x) ELSE TotalBlocks(x) < 0
<1>1. /\ InodeBytes \in Nat /\ InodeBytes > 0 /\ BitsPerBlock \in Nat /\ BitsPerBlock > 0
      /\ InodesPerBlock \in Nat /\ InodesPerBlock > 0
      /\ BlockBytes = InodesPerBlock * InodeBytes /\ IntBound \in Nat /\ IntBound > 0
  BY MkfsAssumption, UFSAssumption
<1> DEFINE bytes == ni * InodeBytes
           ibl   == Needed(ni, BitsPerBlock)
           dbl   == Needed(nd, BitsPerBlock)
           irl   == Needed(bytes, BlockBytes)
           bits  == Needed(IntBound, BitsPerBlock)
           table == Needed(IntBound, BlockBytes)
<1>2. bytes \in Nat /\ bytes > 0 /\ bytes < IntBound /\ ni < IntBound
  <2>1. 1 * ni <= InodeBytes * ni /\ InodeBytes * ni = ni * InodeBytes
    BY <1>1, ProductMonotone
  <2>2. bytes \in Nat /\ bytes > 0
    BY <1>1
  <2> QED
    BY <1>1, <2>1, <2>2
<1>3. BlockBytes \in Nat /\ BlockBytes > 0
  BY <1>1
<1> HIDE DEF bytes
<1>4. ibl \in Nat /\ ibl > 0 /\ ibl * BitsPerBlock >= ni
  BY <1>1, NeededHolds
<1>5. dbl \in Nat /\ dbl > 0 /\ dbl * BitsPerBlock >= nd
  BY <1>1, NeededHolds
<1>6. irl \in Nat /\ irl > 0 /\ irl * BlockBytes >= bytes
  BY <1>2, <1>3, NeededHolds
<1>7. irl * InodesPerBlock >= ni
  <2> HIDE DEF irl
  <2>1. irl * BlockBytes = (irl * InodesPerBlock) * InodeBytes
    BY <1>1, <1>6
  <2>2. irl * InodesPerBlock \in Nat
    BY <1>1, <1>6
  <2>3. (irl * InodesPerBlock) * InodeBytes >= ni * InodeBytes
    BY <2>1, <1>6 DEF bytes
  <2> QED
    BY <2>2, <2>3, <1>1, ProductCancel
<1>8. AsInt(bytes) = bytes
  BY <1>2, AsIntBelow
<1>9. SuperBlock(ni, nd) =
        [num_inodes |-> ni, num_data |-> nd,
         inode_bitmap_addr |-> 1, inode_bitmap_len |-> ibl,
         data_bitmap_addr |-> 1 + ibl, data_bitmap_len |-> dbl,
         inode_region_addr |-> 1 + ibl + dbl, inode_region_len |-> irl,
         data_region_addr |-> 1 + ibl + dbl + irl, data_region_len |-> nd]
  BY <1>8 DEF SuperBlock, bytes
\* What an int can ask for needs no more than the bound does.
<1>10. 1 + ibl + dbl + irl < IntBound
  <2>1. /\ bits \in Nat /\ bits * BitsPerBlock >= IntBound
        /\ table \in Nat /\ table * BlockBytes >= IntBound
    BY <1>1, <1>3, NeededHolds
  <2> HIDE DEF bits, table, irl, ibl, dbl
  <2>2. bits * BitsPerBlock \in Nat /\ table * BlockBytes \in Nat
    BY <1>1, <1>3, <2>1
  <2>3. bits * BitsPerBlock >= ni /\ bits * BitsPerBlock >= nd /\ table * BlockBytes >= bytes
    BY <1>1, <1>2, <2>1, <2>2
  <2>4. ibl <= bits /\ dbl <= bits
    BY <1>1, <2>1, <2>3, NeededIsLeast DEF ibl, dbl
  <2>5. irl <= table
    BY <1>2, <1>3, <2>1, <2>3, NeededIsLeast DEF irl
  <2>6. 1 + bits + bits + table < IntBound
    BY AddressesAssumption DEF bits, table
  <2> QED
    BY <1>1, <1>4, <1>5, <1>6, <2>1, <2>4, <2>5, <2>6
<1> HIDE DEF ibl, dbl, irl
<1> DEFINE x == SuperBlock(ni, nd)
           all == 1 + ibl + dbl + irl + nd
<1>11. Blocks(x) = all /\ TotalBlocks(x) = AsInt(all) /\ all \in Nat /\ all < 2 * IntBound
  BY <1>1, <1>4, <1>5, <1>6, <1>9, <1>10 DEF Blocks, TotalBlocks
<1>12. /\ TotalBlocks(x) \in Int
       /\ IF Blocks(x) < IntBound THEN TotalBlocks(x) = Blocks(x) ELSE TotalBlocks(x) < 0
  <2> HIDE DEF all, x
  <2>1. CASE all < IntBound
    BY <1>11, <2>1, AsIntBelow
  <2>2. CASE ~(all < IntBound)
    <3>1. AsInt(all) = all - 2 * IntBound
      BY <1>1, <1>11, <2>2, AsIntAbove
    <3> QED
      BY <1>1, <1>11, <2>2, <3>1
  <2> QED
    BY <2>1, <2>2
<1>13. Roomy(x) /\ x.data_region_addr < IntBound
  BY <1>4, <1>5, <1>6, <1>7, <1>9, <1>10 DEF Roomy
<1> QED
  BY <1>4, <1>5, <1>6, <1>9, <1>11, <1>12, <1>13

(***************************************************************************)
(* What the writes of mkfs keep, as long as it all fits: block 0 is the    *)
(* super block, and behind the loop that clears the blocks the file has    *)
(* all of them, so that the four writes after it change only contents.     *)
(***************************************************************************)
Options == AnInt \X AnInt
LayoutFits == TableFits /\ BlocksFit
Total == Blocks(Super)

Whole(n) == /\ DOMAIN file = 0 .. n - 1
            /\ file[0] = Layout(Super)
            /\ length = n * BlockBytes

MkfsInv ==
  /\ asked \in Options
  /\ pc \notin {"open", "failed"} => asked[1] > 0 /\ asked[2] > 0
  /\ LayoutFits =>
       /\ pc = "zero" =>
            /\ at \in 1 .. Total
            /\ IF at = 1 THEN DOMAIN file = {0} /\ file[0] = Layout(Super) /\ length = SuperBytes
               ELSE Whole(at)
       /\ pc \in {"open", "super"} => at = 1
       /\ pc \in {"inodeBitmap", "dataBitmap", "table", "root", "made"} => Whole(Total)

\* The addresses of the four writes are blocks of the file other than block 0.
LEMMA Addresses ==
  ASSUME asked \in Options, asked[1] > 0, asked[2] > 0, LayoutFits
  PROVE  /\ Roomy(Super) /\ Total \in Nat /\ Total > 1 /\ TotalBlocks(Super) = Total
         /\ Super.inode_bitmap_len \in Nat /\ Super.data_bitmap_len \in Nat
         /\ Super.inode_region_len \in Nat
         /\ Super.inode_bitmap_addr \in 1 .. Total - 1
         /\ Super.data_bitmap_addr \in 1 .. Total - 1
         /\ Super.inode_region_addr \in 1 .. Total - 1
         /\ Super.data_region_addr \in 1 .. Total - 1
<1>1. /\ asked[1] \in Nat /\ asked[2] \in Nat /\ asked[2] < IntBound
      /\ asked[1] * InodeBytes < IntBound /\ Blocks(Super) < IntBound
  BY MkfsAssumption DEF LayoutFits, TableFits, BlocksFit, Options, AnInt
<1>2. /\ Roomy(Super) /\ Total \in Nat /\ Super.inode_bitmap_len \in Nat
      /\ Super.data_bitmap_len \in Nat /\ Super.inode_region_len \in Nat
      /\ TotalBlocks(Super) = Total
  BY <1>1, LayoutIsRoomy DEF Super, Total
<1>3. Super.data_region_len = asked[2]
  <2>1. Super.num_data = asked[2] /\ Super.num_inodes = asked[1]
    BY DEF Super, SuperBlock
  <2> QED
    BY <2>1, <1>2 DEF Roomy
<1> QED
  BY <1>1, <1>2, <1>3 DEF Roomy, Total, Blocks

LEMMA BlockBytesPositive == BlockBytes \in Nat /\ BlockBytes > 0 /\ SuperBytes < BlockBytes
                            /\ SuperBytes \in Nat
  BY MkfsAssumption, UFSAssumption

\* Writing a block of a whole file keeps it whole.
LEMMA PutKeepsWhole ==
  ASSUME NEW n \in Nat, Whole(n), NEW b \in 1 .. n - 1, NEW content, PutBlock(b, content),
         asked' = asked
  PROVE  Whole(n)'
<1>1. DOMAIN file' = 0 .. n - 1 /\ file'[0] = file[0]
  BY DEF Whole, PutBlock
<1>2. (b + 1) * BlockBytes <= n * BlockBytes
  BY BlockBytesPositive, ProductMonotone
<1>3. b * BlockBytes \in Nat /\ n * BlockBytes \in Nat /\ (b + 1) * BlockBytes \in Nat
  BY BlockBytesPositive
<1>4. length' = length
  BY <1>2, <1>3 DEF Whole, PutBlock
<1> QED
  BY <1>1, <1>4 DEF Whole, Super

\* Clearing the block behind the end makes the file one block longer.
LEMMA PutExtends ==
  ASSUME NEW n \in Nat, n > 0, DOMAIN file = 0 .. n - 1, file[0] = Layout(Super),
         length \in Nat, length <= n * BlockBytes,
         NEW content, PutBlock(n, content), asked' = asked
  PROVE  /\ DOMAIN file' = 0 .. n /\ file'[0] = Layout(Super)
         /\ length' = (n + 1) * BlockBytes
<1>1. DOMAIN file' = 0 .. n /\ file'[0] = file[0]
  BY DEF PutBlock
<1>2. (n + 1) * BlockBytes = n * BlockBytes + BlockBytes /\ n * BlockBytes \in Nat
  BY BlockBytesPositive
<1>3. length' = (n + 1) * BlockBytes
  BY <1>2, BlockBytesPositive DEF PutBlock
<1> QED
  BY <1>1, <1>3

LEMMA WriteKeepsInv ==
  ASSUME MkfsInv, NEW here, NEW b, NEW content, NEW after, Write(here, b, content, after),
         here \in {"inodeBitmap", "dataBitmap", "table", "root"},
         after \in {"dataBitmap", "table", "root", "made"},
         asked \in Options /\ asked[1] > 0 /\ asked[2] > 0 /\ LayoutFits
           => b \in 1 .. Total - 1
  PROVE  MkfsInv'
<1>1. pc = here /\ asked \in Options /\ asked[1] > 0 /\ asked[2] > 0
  BY DEF Write, MkfsInv
<1>2. CASE Fail
  BY <1>1, <1>2 DEF Fail, MkfsInv
<1>3. CASE PutBlock(b, content) /\ pc' = after /\ UNCHANGED <<asked, at>>
  <2>1. CASE LayoutFits
    <3>1. Total \in Nat /\ Whole(Total) /\ b \in 1 .. Total - 1
      BY <1>1, <2>1, Addresses DEF MkfsInv
    <3>2. Total' = Total
      BY <1>3 DEF Total, Super
    <3>3. Whole(Total)'
      BY <3>1, <3>2, <1>3, PutKeepsWhole DEF Whole, Super
    <3> QED
      BY <1>1, <1>3, <3>3 DEF MkfsInv
  <2>2. CASE ~LayoutFits
    BY <1>1, <1>3, <2>2 DEF MkfsInv, LayoutFits, TableFits, BlocksFit, Super
  <2> QED
    BY <2>1, <2>2
<1> QED
  BY <1>2, <1>3 DEF Write, CannotPut

LEMMA NextKeepsInv == MkfsInv /\ [Next]_vars => MkfsInv'
<1> SUFFICES ASSUME MkfsInv, [Next]_vars PROVE MkfsInv'
  OBVIOUS
<1>1. CASE Open
  <2>1. CASE Fail
    BY <1>1, <2>1 DEF Fail, MkfsInv
  <2>2. CASE /\ asked[1] >= MinCount /\ asked[2] >= MinCount
             /\ pc' = "super" /\ UNCHANGED <<asked, length, file, at>>
    BY <1>1, <2>2, MkfsAssumption DEF Open, MkfsInv, LayoutFits, TableFits, BlocksFit, Super, Options, AnInt
  <2> QED
    BY <1>1, <2>1, <2>2 DEF Open
<1>2. CASE WriteSuper
  <2>1. LayoutFits => Total \in Nat /\ Total > 1
    BY <1>2, Addresses DEF WriteSuper, MkfsInv
  <2>2. DOMAIN file' = {0} /\ file'[0] = Layout(Super) /\ length' = SuperBytes
    BY <1>2 DEF WriteSuper
  <2>3. pc' = "zero" /\ at' = at /\ asked' = asked /\ pc = "super"
    BY <1>2 DEF WriteSuper
  <2>4. Total' = Total /\ Super' = Super /\ LayoutFits' = LayoutFits
    BY <2>3 DEF Total, Super, LayoutFits, TableFits, BlocksFit
  <2> QED
    BY <2>1, <2>2, <2>3, <2>4 DEF MkfsInv, Layout
<1>3. CASE ClearBlock
  <2>1. CASE Fail
    BY <1>3, <2>1 DEF ClearBlock, Fail, MkfsInv
  <2>2. CASE PutBlock(at, Zero) /\ at' = at + 1 /\ UNCHANGED <<pc, asked>>
    <3>1. /\ pc = "zero" /\ at < TotalBlocks(Super)
          /\ Total' = Total /\ LayoutFits' = LayoutFits
      BY <1>3, <2>2 DEF ClearBlock, Total, Super, LayoutFits, TableFits, BlocksFit
    <3>2. CASE ~LayoutFits
      BY <2>2, <3>1, <3>2 DEF MkfsInv
    <3>3. CASE LayoutFits
      <4>1. at \in 1 .. Total /\ Total \in Nat /\ at < Total
        BY <3>1, <3>3, Addresses DEF MkfsInv
      <4>2. /\ DOMAIN file = 0 .. at - 1 /\ file[0] = Layout(Super)
            /\ length \in Nat /\ length <= at * BlockBytes
        <5>1. CASE at = 1
          BY <3>1, <3>3, <5>1, BlockBytesPositive DEF MkfsInv
        <5>2. CASE at # 1
          <6>1. Whole(at)
            BY <3>1, <3>3, <5>2 DEF MkfsInv
          <6>2. at * BlockBytes \in Nat
            BY <4>1, BlockBytesPositive
          <6> QED
            BY <6>1, <6>2 DEF Whole
        <5> QED
          BY <5>1, <5>2
      <4>3. /\ DOMAIN file' = 0 .. at /\ file'[0] = Layout(Super)
            /\ length' = (at + 1) * BlockBytes
        BY <4>1, <4>2, <2>2, PutExtends
      <4>4. Whole(at)'
        BY <4>1, <4>3, <2>2 DEF Whole, Super
      <4>5. at' \in 1 .. Total' /\ at' # 1
        BY <4>1, <3>1, <2>2
      <4> QED
        BY <2>2, <3>1, <4>4, <4>5 DEF MkfsInv
    <3> QED
      BY <3>2, <3>3
  <2> QED
    BY <1>3, <2>1, <2>2 DEF ClearBlock, CannotPut
<1>4. CASE Cleared
  <2>1. /\ pc = "zero" /\ pc' = "inodeBitmap" /\ at >= TotalBlocks(Super)
        /\ UNCHANGED <<asked, length, file, at>>
    BY <1>4 DEF Cleared
  <2>2. Total' = Total /\ LayoutFits' = LayoutFits /\ Super' = Super
    BY <2>1 DEF Total, Super, LayoutFits, TableFits, BlocksFit
  <2>3. LayoutFits => Whole(Total)
    <3>1. SUFFICES ASSUME LayoutFits PROVE Whole(Total)
      OBVIOUS
    <3>2. Total \in Nat /\ Total > 1 /\ at = Total
      BY <2>1, <3>1, Addresses DEF MkfsInv
    <3> QED
      BY <2>1, <3>1, <3>2 DEF MkfsInv
  <2>4. LayoutFits => Whole(Total)'
    BY <2>1, <2>2, <2>3 DEF Whole
  <2> QED
    BY <2>1, <2>2, <2>4 DEF MkfsInv
<1>5. CASE WriteInodeBitmap
  BY <1>5, WriteKeepsInv, Addresses DEF WriteInodeBitmap
<1>6. CASE WriteDataBitmap
  BY <1>6, WriteKeepsInv, Addresses DEF WriteDataBitmap
<1>7. CASE WriteTable
  BY <1>7, WriteKeepsInv, Addresses DEF WriteTable
<1>8. CASE WriteRoot
  BY <1>8, WriteKeepsInv, Addresses DEF WriteRoot
<1>9. CASE Fail
  BY <1>9 DEF Fail, MkfsInv
<1>10. CASE UNCHANGED vars
  BY <1>10 DEF vars, MkfsInv, LayoutFits, TableFits, BlocksFit, Whole, Total, Super
<1> QED
  BY <1>1, <1>2, <1>3, <1>4, <1>5, <1>6, <1>7, <1>8, <1>9, <1>10 DEF Next

(***************************************************************************)
(* The other case: total_blocks is negative, so that no block is cleared,  *)
(* and the file is as long as the four writes behind the loop make it.     *)
(***************************************************************************)
Skipped ==
  /\ asked \in Options
  /\ pc \notin {"open", "failed"} => asked[1] > 0 /\ asked[2] > 0
  /\ TableFits /\ ~BlocksFit =>
       /\ at = 1
       /\ pc \notin {"open", "super", "failed"} =>
            /\ DOMAIN file \subseteq 0 .. Super.data_region_addr /\ 0 \in DOMAIN file
            /\ file[0] = Layout(Super)
            /\ length \in Nat /\ length <= (Super.data_region_addr + 1) * BlockBytes
       /\ pc = "made" =>
            /\ DOMAIN file = 0 .. Super.data_region_addr
            /\ length = (Super.data_region_addr + 1) * BlockBytes

LEMMA SkippedAddresses ==
  ASSUME asked \in Options, asked[1] > 0, asked[2] > 0, TableFits, ~BlocksFit
  PROVE  /\ Roomy(Super) /\ TotalBlocks(Super) \in Int /\ TotalBlocks(Super) < 0
         /\ Super.data_region_addr \in Nat /\ Super.data_region_addr > 0
         /\ Super.inode_bitmap_addr \in 1 .. Super.data_region_addr
         /\ Super.data_bitmap_addr \in 1 .. Super.data_region_addr
         /\ Super.inode_region_addr \in 1 .. Super.data_region_addr
<1>1. /\ asked[1] \in Nat /\ asked[2] \in Nat /\ asked[2] < IntBound
      /\ asked[1] * InodeBytes < IntBound
  BY MkfsAssumption DEF TableFits, Options, AnInt
<1>2. /\ Roomy(Super) /\ Super.inode_bitmap_len \in Nat /\ Super.data_bitmap_len \in Nat
      /\ Super.inode_region_len \in Nat
      /\ TotalBlocks(Super) \in Int /\ TotalBlocks(Super) < 0
  BY <1>1, LayoutIsRoomy DEF Super, BlocksFit
<1> QED
  BY <1>2 DEF Roomy

LEMMA WriteKeepsSkipped ==
  ASSUME Skipped, NEW here, NEW b, NEW content, NEW after, Write(here, b, content, after),
         here \in {"inodeBitmap", "dataBitmap", "table", "root"},
         after \in {"dataBitmap", "table", "root", "made"},
         asked \in Options /\ asked[1] > 0 /\ asked[2] > 0 /\ TableFits /\ ~BlocksFit
           => b \in 1 .. Super.data_region_addr /\ (after = "made" => b = Super.data_region_addr)
  PROVE  Skipped'
<1>1. pc = here /\ asked \in Options /\ asked[1] > 0 /\ asked[2] > 0
  BY DEF Write, Skipped
<1>2. CASE Fail
  BY <1>1, <1>2 DEF Fail, Skipped, TableFits, BlocksFit, Super
<1>3. CASE PutBlock(b, content) /\ pc' = after /\ UNCHANGED <<asked, at>>
  <2>1. Super' = Super /\ TableFits' = TableFits /\ BlocksFit' = BlocksFit
    BY <1>3 DEF Super, TableFits, BlocksFit
  <2>2. CASE TableFits /\ ~BlocksFit
    <3> DEFINE last == Super.data_region_addr
    <3>1. last \in Nat /\ b \in 1 .. last /\ b \in Nat /\ (after = "made" => b = last)
      BY <1>1, <2>2, SkippedAddresses
    <3>2. /\ at = 1 /\ DOMAIN file \subseteq 0 .. last /\ 0 \in DOMAIN file
          /\ file[0] = Layout(Super) /\ length \in Nat /\ length <= (last + 1) * BlockBytes
      BY <1>1, <2>2 DEF Skipped
    <3>3. DOMAIN file' = (0 .. b) \cup DOMAIN file /\ file'[0] = file[0]
      <4>1. file' = [a \in (0 .. b) \cup DOMAIN file |->
                       IF a = b THEN content ELSE IF a \in DOMAIN file THEN file[a] ELSE Zero]
        BY <1>3 DEF PutBlock
      <4>2. 0 # b /\ 0 \in DOMAIN file
        BY <3>1, <3>2
      <4> QED
        BY <4>1, <4>2
    <3>4. length' = IF (b + 1) * BlockBytes > length THEN (b + 1) * BlockBytes ELSE length
      BY <1>3 DEF PutBlock
    <3>5. /\ (b + 1) * BlockBytes \in Nat /\ (last + 1) * BlockBytes \in Nat
          /\ (b + 1) * BlockBytes <= (last + 1) * BlockBytes
      BY <3>1, BlockBytesPositive, ProductMonotone
    <3> HIDE DEF last
    <3>6. /\ DOMAIN file' \subseteq 0 .. last /\ 0 \in DOMAIN file' /\ file'[0] = Layout(Super)
          /\ length' \in Nat /\ length' <= (last + 1) * BlockBytes
      BY <3>1, <3>2, <3>3, <3>4, <3>5
    <3>7. after = "made" => DOMAIN file' = 0 .. last /\ length' = (last + 1) * BlockBytes
      BY <3>1, <3>2, <3>3, <3>4, <3>5
    <3> QED
      BY <1>1, <1>3, <2>1, <3>2, <3>6, <3>7 DEF Skipped, last
  <2>3. CASE ~(TableFits /\ ~BlocksFit)
    BY <1>1, <1>3, <2>1, <2>3 DEF Skipped
  <2> QED
    BY <2>2, <2>3
<1> QED
  BY <1>2, <1>3 DEF Write, CannotPut

LEMMA NextKeepsSkipped == Skipped /\ [Next]_vars => Skipped'
<1> SUFFICES ASSUME Skipped, [Next]_vars PROVE Skipped'
  OBVIOUS
<1>1. CASE Fail
  BY <1>1 DEF Fail, Skipped, TableFits, BlocksFit, Super
<1>2. CASE Open
  <2>1. CASE /\ asked[1] >= MinCount /\ asked[2] >= MinCount
             /\ pc' = "super" /\ UNCHANGED <<asked, length, file, at>>
    <3>1. asked[1] > 0 /\ asked[2] > 0
      BY <2>1, MkfsAssumption DEF Skipped, Options, AnInt
    <3> QED
      BY <2>1, <3>1 DEF Skipped, TableFits, BlocksFit, Super
  <2> QED
    BY <1>1, <1>2, <2>1 DEF Open
<1>3. CASE WriteSuper
  <2>1. /\ pc = "super" /\ pc' = "zero" /\ asked' = asked /\ at' = at
        /\ DOMAIN file' = {0} /\ file'[0] = Layout(Super) /\ length' = SuperBytes
    BY <1>3 DEF WriteSuper
  <2>2. Super' = Super /\ TableFits' = TableFits /\ BlocksFit' = BlocksFit
    BY <2>1 DEF Super, TableFits, BlocksFit
  <2>3. TableFits /\ ~BlocksFit =>
          0 .. Super.data_region_addr \in SUBSET Nat /\ 0 \in 0 .. Super.data_region_addr
          /\ SuperBytes \in Nat /\ SuperBytes <= (Super.data_region_addr + 1) * BlockBytes
    <3>1. SUFFICES ASSUME TableFits, ~BlocksFit
                   PROVE  0 .. Super.data_region_addr \in SUBSET Nat
                          /\ 0 \in 0 .. Super.data_region_addr
                          /\ SuperBytes \in Nat /\ SuperBytes <= (Super.data_region_addr + 1) * BlockBytes
      OBVIOUS
    <3>2. Super.data_region_addr \in Nat
      BY <2>1, <3>1, SkippedAddresses DEF Skipped
    <3>3. 1 * BlockBytes <= (Super.data_region_addr + 1) * BlockBytes
      BY <3>2, BlockBytesPositive, ProductMonotone
    <3>4. (Super.data_region_addr + 1) * BlockBytes \in Nat
      BY <3>2, BlockBytesPositive
    <3> HIDE DEF Super
    <3> QED
      BY <3>2, <3>3, <3>4, BlockBytesPositive
  <2> QED
    BY <2>1, <2>2, <2>3 DEF Skipped, Layout
<1>4. CASE ClearBlock
  <2>1. pc = "zero" /\ at < TotalBlocks(Super)
    BY <1>4 DEF ClearBlock
  <2>2. ~(TableFits /\ ~BlocksFit)
    <3>1. SUFFICES ASSUME TableFits, ~BlocksFit PROVE FALSE
      OBVIOUS
    <3>2. TotalBlocks(Super) \in Int /\ TotalBlocks(Super) < 0 /\ at = 1
      BY <2>1, <3>1, SkippedAddresses DEF Skipped
    <3> QED
      BY <2>1, <3>2
  <2>3. asked' = asked /\ pc' \in {"zero", "failed"}
    BY <1>4, <2>1 DEF ClearBlock, CannotPut, Fail
  <2> QED
    BY <2>1, <2>2, <2>3 DEF Skipped, TableFits, BlocksFit, Super
<1>5. CASE Cleared
  BY <1>5 DEF Cleared, Skipped, TableFits, BlocksFit, Super
<1>6. CASE WriteInodeBitmap
  BY <1>6, WriteKeepsSkipped, SkippedAddresses DEF WriteInodeBitmap
<1>7. CASE WriteDataBitmap
  BY <1>7, WriteKeepsSkipped, SkippedAddresses DEF WriteDataBitmap
<1>8. CASE WriteTable
  BY <1>8, WriteKeepsSkipped, SkippedAddresses DEF WriteTable
<1>9. CASE WriteRoot
  BY <1>9, WriteKeepsSkipped, SkippedAddresses DEF WriteRoot
<1>10. CASE UNCHANGED vars
  BY <1>10 DEF vars, Skipped, TableFits, BlocksFit, Super
<1> QED
  BY <1>1, <1>2, <1>3, <1>4, <1>5, <1>6, <1>7, <1>8, <1>9, <1>10 DEF Next

(***************************************************************************)
(* When mkfs has made an image whose inode table fits, the super block     *)
(* describes regions with room for everything.  All the blocks are there   *)
(* if their number is an int, and else only those up to the root           *)
(* directory.                                                              *)
(***************************************************************************)
THEOREM MadeIsRoomyHolds == Spec => []MadeIsRoomy
<1>1. Init => MkfsInv /\ Skipped
  BY MkfsAssumption DEF Init, MkfsInv, Skipped, Options
<1>2. MkfsInv /\ Skipped => MadeIsRoomy
  <2>1. SUFFICES ASSUME MkfsInv, Skipped, pc = "made", TableFits
                 PROVE  /\ sb.num_inodes = asked[1] /\ sb.num_data = asked[2] /\ Roomy(sb)
                        /\ LET blocks == IF BlocksFit THEN Blocks(sb) ELSE sb.data_region_addr + 1
                           IN  DOMAIN file = 0 .. blocks - 1 /\ length = blocks * BlockBytes
    BY DEF MadeIsRoomy
  <2>2. asked \in Options /\ asked[1] > 0 /\ asked[2] > 0
    BY <2>1 DEF MkfsInv
  <2>3. Super.num_inodes = asked[1] /\ Super.num_data = asked[2]
    BY DEF Super, SuperBlock
  <2>4. CASE BlocksFit
    <3>1. LayoutFits /\ Whole(Total)
      BY <2>1, <2>4 DEF MkfsInv, LayoutFits
    <3>2. sb = Super /\ Roomy(Super)
      BY <2>2, <3>1, Addresses DEF Whole, sb, Layout
    <3> QED
      BY <2>3, <2>4, <3>1, <3>2 DEF Whole, Total
  <2>5. CASE ~BlocksFit
    <3> DEFINE last == Super.data_region_addr
    <3>1. /\ DOMAIN file = 0 .. last /\ length = (last + 1) * BlockBytes
          /\ file[0] = Layout(Super)
      BY <2>1, <2>5 DEF Skipped
    <3>2. sb = Super /\ Roomy(Super) /\ last \in Nat
      BY <2>1, <2>2, <2>5, <3>1, SkippedAddresses DEF sb, Layout
    <3>3. sb.data_region_addr = last
      BY <3>2
    <3> HIDE DEF last
    <3>4. (last + 1) - 1 = last
      BY <3>2
    <3> QED
      BY <2>3, <2>5, <3>1, <3>2, <3>3, <3>4
  <2> QED
    BY <2>4, <2>5
<1> QED
  BY <1>1, <1>2, NextKeepsInv, NextKeepsSkipped, PTL DEF Spec

----------------------------------------------------------------------------
(***************************************************************************)
(* What is in the file.  The modules of LocalFileSystem have one block for *)
(* each bitmap; with options for which that is enough, and whose inode     *)
(* table and number of blocks fit, the layout mkfs computes is the one     *)
(* they use.                                                               *)
(***************************************************************************)
Fits == /\ NumInodes <= BitsPerBlock /\ NumData <= BitsPerBlock
        /\ NumInodes * InodeBytes < IntBound /\ DataRegionAddr + NumData < IntBound

LEMMA NeededOne ==
  ASSUME NEW n \in Nat, n > 0, NEW per \in Nat, n <= per
  PROVE  Needed(n, per) = 1
<1> DEFINE q == n \div per
<1>1. q \in Nat /\ per * q <= n /\ n < per * q + per
  BY Division
<1>2. Quotient(n, per) = q
  BY DEF Quotient
<1> HIDE DEF q
<1>3. CASE n = per
  <2>1. q = 1
    <3>1. q # 0
      BY <1>1, <1>3
    <3>2. ~(q >= 2)
      <4>1. SUFFICES ASSUME q >= 2 PROVE FALSE
        OBVIOUS
      <4>2. per * 2 <= per * q
        BY <1>1, <4>1
      <4> QED
        BY <1>1, <1>3, <4>2
    <3> QED
      BY <1>1, <3>1, <3>2
  <2> QED
    BY <1>2, <1>3, <2>1 DEF Needed
<1>4. CASE n < per
  <2>1. q = 0
    <3>1. SUFFICES ASSUME q >= 1 PROVE FALSE
      BY <1>1
    <3>2. per * 1 <= per * q
      BY <1>1, <3>1
    <3> QED
      BY <1>1, <1>4, <3>2
  <2> QED
    BY <1>2, <1>4, <2>1 DEF Needed
<1> QED
  BY <1>3, <1>4

LEMMA RegionLength ==
  Needed(NumInodes * InodeBytes, BlockBytes) = InodeRegionLen
<1> DEFINE P == InodesPerBlock
           B == InodeBytes
           N == NumInodes
           x == Needed(N * B, P * B)
           y == (N + P - 1) \div P
<1>1. N \in Nat /\ N > 0 /\ P \in Nat /\ P > 0 /\ B \in Nat /\ B > 0 /\ BlockBytes = P * B
  BY UFSAssumption, MkfsAssumption
<1> HIDE DEF N, P, B
<1>2. N * B \in Nat /\ N * B > 0 /\ P * B \in Nat /\ P * B > 0
  BY <1>1
<1>3. x \in Nat /\ x > 0 /\ x * (P * B) >= N * B
  BY <1>2, NeededHolds
<1>4. N + P - 1 \in Nat
  BY <1>1
<1>5. y \in Nat /\ P * y <= N + P - 1 /\ N + P - 1 < P * y + P
  BY <1>1, <1>4, Division
<1> HIDE DEF x, y
<1>6. y * P >= N
  BY <1>1, <1>5
<1>7. x <= y
  <2>1. y * (P * B) = (y * P) * B
    BY <1>1, <1>5
  <2>2. y * P \in Nat
    BY <1>1, <1>5
  <2>3. N * B <= (y * P) * B
    BY <1>1, <1>6, <2>2, ProductMonotone
  <2> QED
    BY <1>2, <1>5, <2>1, <2>3, NeededIsLeast DEF x
<1>8. x * P >= N
  <2>1. x * (P * B) = (x * P) * B /\ x * P \in Nat
    BY <1>1, <1>3
  <2> QED
    BY <1>1, <1>3, <2>1, ProductCancel
<1>9. y <= x
  <2>1. SUFFICES ASSUME x + 1 <= y PROVE FALSE
    BY <1>3, <1>5
  <2>2. (x + 1) * P <= y * P
    BY <1>1, <1>3, <1>5, <2>1, ProductMonotone
  <2>3. (x + 1) * P = x * P + P /\ P * y = y * P
    BY <1>1, <1>3, <1>5
  <2> QED
    BY <1>1, <1>3, <1>5, <1>8, <2>2, <2>3
<1> QED
  BY <1>1, <1>3, <1>5, <1>7, <1>9 DEF x, y, N, P, B, InodeRegionLen

LEMMA TheirLayout ==
  ASSUME Fits, Theirs
  PROVE  /\ LayoutFits
         /\ Super.inode_bitmap_addr = 1 /\ Super.data_bitmap_addr = 2
         /\ Super.inode_region_addr = InodeRegionAddr
         /\ Super.data_region_addr = DataRegionAddr
         /\ Total = DataRegionAddr + NumData
         /\ InodeRegionLen \in Nat \ {0} /\ NumData \in Nat \ {0}
<1>1. /\ NumInodes \in Nat /\ NumInodes > 0 /\ NumData \in Nat /\ NumData > 0
      /\ BitsPerBlock \in Nat /\ InodeBytes \in Nat
      /\ NumInodes * InodeBytes \in Nat
  BY UFSAssumption, MkfsAssumption
<1>2. asked[1] = NumInodes /\ asked[2] = NumData
  BY DEF Theirs
<1>3. Needed(NumInodes, BitsPerBlock) = 1 /\ Needed(NumData, BitsPerBlock) = 1
  BY <1>1, NeededOne DEF Fits
<1>4. AsInt(NumInodes * InodeBytes) = NumInodes * InodeBytes
  <2> DEFINE x == NumInodes * InodeBytes
  <2>1. x \in Nat /\ x < IntBound
    BY <1>1 DEF Fits
  <2> HIDE DEF x
  <2>2. AsInt(x) = x
    BY <2>1, AsIntBelow
  <2> QED
    BY <2>2 DEF x
<1>5. Needed(AsInt(NumInodes * InodeBytes), BlockBytes) = InodeRegionLen
  BY <1>4, RegionLength
<1>6. InodeRegionLen \in Nat \ {0}
  <2> DEFINE x == NumInodes * InodeBytes
  <2>1. x \in Nat /\ x > 0 /\ BlockBytes \in Nat /\ BlockBytes > 0
    BY <1>1, MkfsAssumption, UFSAssumption
  <2> HIDE DEF x
  <2>2. Needed(x, BlockBytes) \in Nat /\ Needed(x, BlockBytes) > 0
    BY <2>1, NeededHolds
  <2> QED
    BY <2>2, RegionLength DEF x
<1>7. /\ Super.inode_bitmap_addr = 1 /\ Super.data_bitmap_addr = 2
      /\ Super.inode_region_addr = InodeRegionAddr
      /\ Super.data_region_addr = DataRegionAddr
      /\ Total = DataRegionAddr + NumData
  BY <1>1, <1>2, <1>3, <1>5, <1>6 DEF Super, SuperBlock, Total, Blocks, InodeRegionAddr, DataRegionAddr
<1> QED
  BY <1>1, <1>2, <1>6, <1>7 DEF Fits, LayoutFits, TableFits, BlocksFit, Total

(***************************************************************************)
(* The four blocks that are not zero are written in this order: inode      *)
(* bitmap, data bitmap, inode table, root directory.  Whenever mkfs ends,  *)
(* the first s of them are in the file.                                    *)
(***************************************************************************)
Tables == {Table([e \in 0 .. InodesPerBlock - 1 |-> IF e = 0 THEN MadeRoot ELSE rest[e]]) :
             rest \in [1 .. InodesPerBlock - 1 -> StackInodes]}
Roots  == {Dir(MadeEntries(rest)) : rest \in [Slots -> StackNames]}

MayHold(b, s) ==
  IF (s >= 1 /\ b = Super.inode_bitmap_addr) \/ (s >= 2 /\ b = Super.data_bitmap_addr)
  THEN {Bits({0})}
  ELSE IF s >= 3 /\ b = Super.inode_region_addr THEN Tables
  ELSE IF s >= 4 /\ b = Super.data_region_addr THEN Roots
  ELSE {Zero}

Filled(s) == \A b \in DOMAIN file : b # 0 => file[b] \in MayHold(b, s)

Done == IF pc = "dataBitmap" THEN 1 ELSE IF pc = "table" THEN 2
        ELSE IF pc = "root" THEN 3 ELSE IF pc = "made" THEN 4 ELSE 0

Filling ==
  LayoutFits =>
    /\ DOMAIN file \subseteq Nat
    /\ \A b \in DOMAIN file : 0 .. b \subseteq DOMAIN file
    /\ length > 0 => 0 \in DOMAIN file
    /\ 0 \in DOMAIN file => file[0] = Layout(Super)
    /\ \E s \in 0 .. 4 : Filled(s) /\ (pc # "failed" => s = Done)
    /\ pc \in {"open", "super"} => DOMAIN file = {}

\* A step that leaves the file as it is.
LEMMA SameFile ==
  ASSUME Filling, UNCHANGED <<asked, length, file>>,
         pc' = "failed" \/ (pc # "failed" /\ Done' = Done),
         pc' \in {"open", "super"} => pc \in {"open", "super"}
  PROVE  Filling'
<1>1. LayoutFits' = LayoutFits /\ Super' = Super
  BY DEF LayoutFits, TableFits, BlocksFit, Super
<1>2. SUFFICES ASSUME LayoutFits PROVE Filling'
  BY <1>1 DEF Filling
<1>3. PICK s \in 0 .. 4 : Filled(s) /\ (pc # "failed" => s = Done)
  BY <1>2 DEF Filling
<1>4. Filled(s)'
  <2>1. \A b : MayHold(b, s)' = MayHold(b, s)
    BY <1>1 DEF MayHold, Tables, MadeRoot
  <2> HIDE DEF MayHold
  <2> QED
    BY <1>3, <2>1 DEF Filled
<1>5. pc' # "failed" => s = Done'
  BY <1>3
<1> HIDE DEF Done
<1>6. \E t \in 0 .. 4 : Filled(t)' /\ (pc' # "failed" => t = Done')
  BY <1>4, <1>5
<1> QED
  BY <1>1, <1>2, <1>6 DEF Filling

\* A block is put that may be there when t of the four are written.
LEMMA PutFills ==
  ASSUME Filling, LayoutFits, 0 \in DOMAIN file, NEW b \in Nat \ {0}, NEW content,
         PutBlock(b, content), asked' = asked,
         NEW s \in 0 .. 4, Filled(s), NEW t \in 0 .. 4, t = Done', pc' \notin {"open", "super"},
         content \in MayHold(b, t),
         \A a : a # b => MayHold(a, t) = MayHold(a, s),
         \A a : ~(a \in DOMAIN file) /\ a # b => Zero \in MayHold(a, t)
  PROVE  Filling'
<1>1. LayoutFits' = LayoutFits /\ Super' = Super
  BY DEF LayoutFits, TableFits, BlocksFit, Super
<1>2. /\ file' = [a \in (0 .. b) \cup DOMAIN file |->
                   IF a = b THEN content ELSE IF a \in DOMAIN file THEN file[a] ELSE Zero]
  BY DEF PutBlock
<1>3. /\ DOMAIN file' = (0 .. b) \cup DOMAIN file
      /\ \A a \in DOMAIN file' :
           file'[a] = IF a = b THEN content ELSE IF a \in DOMAIN file THEN file[a] ELSE Zero
  BY <1>2
<1>4. DOMAIN file' \subseteq Nat /\ \A a \in DOMAIN file' : 0 .. a \subseteq DOMAIN file'
  BY <1>3 DEF Filling
<1>5. 0 \in DOMAIN file' /\ file'[0] = Layout(Super)
  BY <1>3 DEF Filling
<1>6. \A a : MayHold(a, t)' = MayHold(a, t)
  BY <1>1 DEF MayHold, Tables, MadeRoot
<1>7. Filled(t)'
  <2>1. ASSUME NEW a \in DOMAIN file', a # 0 PROVE file'[a] \in MayHold(a, t)
    <3> HIDE DEF MayHold
    <3> QED
      BY <1>3, <2>1 DEF Filled
  <2> HIDE DEF MayHold
  <2> QED
    BY <1>6, <2>1 DEF Filled
<1> HIDE DEF Done, Filled
<1> QED
  BY <1>1, <1>4, <1>5, <1>7 DEF Filling

\* One of the four writes.
LEMMA WriteFills ==
  ASSUME MkfsInv, Filling, NEW here, NEW b, NEW content, NEW after,
         Write(here, b, content, after),
         \/ here = "inodeBitmap" /\ after = "dataBitmap" /\ b = Super.inode_bitmap_addr
            /\ content = Bits({0})
         \/ here = "dataBitmap" /\ after = "table" /\ b = Super.data_bitmap_addr
            /\ content = Bits({0})
         \/ here = "table" /\ after = "root" /\ b = Super.inode_region_addr
            /\ content \in Tables
         \/ here = "root" /\ after = "made" /\ b = Super.data_region_addr
            /\ content \in Roots
  PROVE  Filling'
<1>1. pc = here /\ pc \in {"inodeBitmap", "dataBitmap", "table", "root"}
      /\ asked \in Options /\ asked[1] > 0 /\ asked[2] > 0
  BY DEF Write, MkfsInv
<1>2. CASE Fail
  BY <1>1, <1>2, SameFile DEF Fail
<1>3. CASE PutBlock(b, content) /\ pc' = after /\ UNCHANGED <<asked, at>>
  <2>1. CASE LayoutFits
    <3>1. /\ Roomy(Super) /\ b \in Nat \ {0} /\ b \in 1 .. Total - 1
          /\ Whole(Total) /\ Total \in Nat /\ Total > 1
      BY <1>1, <2>1, Addresses DEF MkfsInv
    <3>2. 0 \in DOMAIN file
      BY <3>1 DEF Whole
    <3> DEFINE s == Done
               t == Done + 1
    <3>3. s \in 0 .. 3 /\ t \in 0 .. 4 /\ t = Done' /\ Filled(s)
      BY <1>1, <1>3, <2>1 DEF Done, Filling
    <3>4. /\ Super.inode_bitmap_addr # Super.data_bitmap_addr
          /\ Super.inode_region_addr \notin {Super.inode_bitmap_addr, Super.data_bitmap_addr}
          /\ Super.data_region_addr \notin {Super.inode_bitmap_addr, Super.data_bitmap_addr,
                                            Super.inode_region_addr}
      <4>1. /\ Super.inode_bitmap_addr \in Int /\ Super.data_bitmap_addr \in Int
            /\ Super.inode_region_addr \in Int /\ Super.data_region_addr \in Int
            /\ Super.inode_bitmap_len \in Int /\ Super.data_bitmap_len \in Int
            /\ Super.inode_region_len \in Int
        <5>2. /\ Super.inode_bitmap_len \in Nat /\ Super.data_bitmap_len \in Nat
              /\ Super.inode_region_len \in Nat
          BY <1>1, <2>1, Addresses
        <5>3. /\ Super.inode_bitmap_addr \in 1 .. Total - 1 /\ Super.data_bitmap_addr \in 1 .. Total - 1
              /\ Super.inode_region_addr \in 1 .. Total - 1 /\ Super.data_region_addr \in 1 .. Total - 1
          BY <1>1, <2>1, Addresses
        <5> QED
          BY <5>2, <5>3
      <4> HIDE DEF Super
      <4> QED
        BY <3>1, <4>1 DEF Roomy
    <3>5. content \in MayHold(b, t) /\ \A a : a # b => MayHold(a, t) = MayHold(a, s)
      BY <1>1, <3>4 DEF MayHold, Done
    <3>6. \A a : ~(a \in DOMAIN file) /\ a # b => Zero \in MayHold(a, t)
      <4>1. DOMAIN file = 0 .. Total - 1
        BY <3>1 DEF Whole
      <4>2. /\ Super.inode_bitmap_addr \in DOMAIN file /\ Super.data_bitmap_addr \in DOMAIN file
            /\ Super.inode_region_addr \in DOMAIN file /\ Super.data_region_addr \in DOMAIN file
        BY <1>1, <2>1, <4>1, Addresses
      <4> QED
        BY <4>2 DEF MayHold
    <3>7. pc' \notin {"open", "super"}
      BY <1>3
    <3> HIDE DEF s, t, Done, MayHold
    <3>8. s \in 0 .. 4
      BY <3>3
    <3> QED
      BY <1>3, <2>1, <3>1, <3>2, <3>3, <3>5, <3>6, <3>7, <3>8, PutFills
  <2>2. CASE ~LayoutFits
    BY <1>3, <2>2 DEF Filling, LayoutFits, TableFits, BlocksFit, Super
  <2> QED
    BY <2>1, <2>2
<1> QED
  BY <1>2, <1>3 DEF Write, CannotPut

LEMMA NextFills == MkfsInv /\ Filling /\ [Next]_vars => Filling'
<1> SUFFICES ASSUME MkfsInv, Filling, [Next]_vars PROVE Filling'
  OBVIOUS
<1>1. CASE Fail
  BY <1>1, SameFile DEF Fail
<1>2. CASE UNCHANGED vars
  BY <1>2, SameFile DEF vars, Done
<1>3. CASE Open
  <2>1. CASE pc' = "super" /\ UNCHANGED <<asked, length, file, at>>
    BY <1>3, <2>1, SameFile DEF Open, Done
  <2> QED
    BY <1>1, <1>3, <2>1 DEF Open
<1>4. CASE WriteSuper
  <2>1. /\ DOMAIN file' = {0} /\ file'[0] = Layout(Super) /\ pc' = "zero" /\ asked' = asked
    BY <1>4 DEF WriteSuper
  <2>2. LayoutFits' = LayoutFits /\ Super' = Super /\ Done' = 0 /\ 0 \in 0 .. 4
    BY <2>1 DEF LayoutFits, TableFits, BlocksFit, Super, Done
  <2>3. Filled(0)'
    BY <2>1 DEF Filled
  <2> HIDE DEF Filled, Done
  <2> QED
    BY <2>1, <2>2, <2>3 DEF Filling
<1>5. CASE ClearBlock
  <2>1. CASE PutBlock(at, Zero) /\ at' = at + 1 /\ UNCHANGED <<pc, asked>>
    <3>1. pc = "zero" /\ asked[1] > 0 /\ asked[2] > 0 /\ asked \in Options
      BY <1>5 DEF ClearBlock, MkfsInv
    <3>2. CASE LayoutFits
      <4>1. Total \in Nat /\ at \in 1 .. Total /\ 0 \in DOMAIN file
        BY <3>1, <3>2, Addresses DEF MkfsInv, Whole
      <4>2. Done = 0 /\ Done' = 0 /\ Filled(0) /\ pc' = "zero"
        BY <2>1, <3>1, <3>2 DEF Done, Filling
      <4>3. \A a : MayHold(a, 0) = {Zero}
        BY DEF MayHold
      <4>4. at \in Nat \ {0} /\ 0 \in 0 .. 4
        BY <4>1
      <4> HIDE DEF Done, MayHold, Filled
      <4> QED
        BY <2>1, <3>2, <4>1, <4>2, <4>3, <4>4, PutFills
    <3>3. CASE ~LayoutFits
      BY <2>1, <3>3 DEF Filling, LayoutFits, TableFits, BlocksFit, Super
    <3> QED
      BY <3>2, <3>3
  <2> QED
    BY <1>1, <1>5, <2>1 DEF ClearBlock, CannotPut
<1>6. CASE Cleared
  BY <1>6, SameFile DEF Cleared, Done
<1>7. CASE WriteInodeBitmap
  BY <1>7, WriteFills DEF WriteInodeBitmap
<1>8. CASE WriteDataBitmap
  BY <1>8, WriteFills DEF WriteDataBitmap
<1>9. CASE WriteTable
  <2>1. PICK rest \in [1 .. InodesPerBlock - 1 -> StackInodes] :
          Write("table", Super.inode_region_addr,
                Table([e \in 0 .. InodesPerBlock - 1 |-> IF e = 0 THEN MadeRoot ELSE rest[e]]), "root")
    BY <1>9 DEF WriteTable
  <2>2. Table([e \in 0 .. InodesPerBlock - 1 |-> IF e = 0 THEN MadeRoot ELSE rest[e]]) \in Tables
    BY DEF Tables
  <2> QED
    BY <2>1, <2>2, WriteFills
<1>10. CASE WriteRoot
  <2>1. PICK rest \in [Slots -> StackNames] :
          Write("root", Super.data_region_addr, Dir(MadeEntries(rest)), "made")
    BY <1>10 DEF WriteRoot
  <2>2. Dir(MadeEntries(rest)) \in Roots
    BY DEF Roots
  <2> QED
    BY <2>1, <2>2, WriteFills
<1> QED
  BY <1>1, <1>2, <1>3, <1>4, <1>5, <1>6, <1>7, <1>8, <1>9, <1>10 DEF Next

LEMMA InitFills == Init => Filling
<1> SUFFICES ASSUME Init PROVE Filling
  OBVIOUS
<1>1. pc = "open" /\ length = 0 /\ file = <<>>
  BY DEF Init
<1>2. DOMAIN file = {}
  BY <1>1
<1>3. Filled(0) /\ Done = 0 /\ 0 \in 0 .. 4
  BY <1>1, <1>2 DEF Filled, Done
<1> HIDE DEF Filled, Done
<1> QED
  BY <1>1, <1>2, <1>3 DEF Filling

LEMMA MkfsKeeps == Spec => [](MkfsInv /\ Filling)
<1>1. Init => MkfsInv
  BY MkfsAssumption DEF Init, MkfsInv, Options
<1> QED
  BY <1>1, InitFills, NextKeepsInv, NextFills, PTL DEF Spec

----------------------------------------------------------------------------
(***************************************************************************)
(* What LocalFileSystem finds in a file that has the first s of the four.  *)
(***************************************************************************)
FoundTable(rest) ==
  [i \in Inodes |-> IF i = Root THEN MadeRoot ELSE IF i < InodesPerBlock THEN rest[i] ELSE ZeroInode]

FoundRoot(rest) ==
  [b \in DataBlocks |-> IF b = DataRegionAddr THEN MadeEntries(rest) ELSE ZeroBlock]

LEMMA FileBlocks ==
  ASSUME Fits, Theirs, 0 .. Total - 1 \subseteq DOMAIN file, NEW s, Filled(s)
  PROVE  /\ file[1] \in IF s >= 1 THEN {Bits({0})} ELSE {Zero}
         /\ file[2] \in IF s >= 2 THEN {Bits({0})} ELSE {Zero}
         /\ file[InodeRegionAddr] \in IF s >= 3 THEN Tables ELSE {Zero}
         /\ file[DataRegionAddr] \in IF s >= 4 THEN Roots ELSE {Zero}
         /\ \A b \in 4 .. Total - 1 : b # DataRegionAddr => file[b] = Zero
<1>1. /\ Super.inode_bitmap_addr = 1 /\ Super.data_bitmap_addr = 2
      /\ Super.inode_region_addr = InodeRegionAddr
      /\ Super.data_region_addr = DataRegionAddr
      /\ Total = DataRegionAddr + NumData
      /\ InodeRegionLen \in Nat \ {0} /\ NumData \in Nat \ {0}
  BY TheirLayout
<1>2. /\ DataRegionAddr \in Nat /\ DataRegionAddr > 3 /\ Total > DataRegionAddr /\ Total \in Nat
      /\ InodeRegionAddr = 3
  BY <1>1 DEF DataRegionAddr, InodeRegionAddr
<1>3. \A b \in 1 .. Total - 1 : file[b] \in MayHold(b, s)
  <2>1. \A b \in 1 .. Total - 1 : b \in DOMAIN file /\ b # 0
    BY <1>2
  <2> HIDE DEF MayHold
  <2> QED
    BY <2>1 DEF Filled
<1>4. /\ 1 \in 1 .. Total - 1 /\ 2 \in 1 .. Total - 1 /\ InodeRegionAddr \in 1 .. Total - 1
      /\ DataRegionAddr \in 1 .. Total - 1 /\ 4 .. Total - 1 \subseteq 1 .. Total - 1
  BY <1>2
<1> HIDE DEF Super, Total
<1>5. /\ MayHold(1, s) = IF s >= 1 THEN {Bits({0})} ELSE {Zero}
      /\ MayHold(2, s) = IF s >= 2 THEN {Bits({0})} ELSE {Zero}
      /\ MayHold(InodeRegionAddr, s) = IF s >= 3 THEN Tables ELSE {Zero}
      /\ MayHold(DataRegionAddr, s) = IF s >= 4 THEN Roots ELSE {Zero}
      /\ \A b \in 4 .. Total - 1 : b # DataRegionAddr => MayHold(b, s) = {Zero}
  <2> HIDE DEF Tables, Roots
  <2> QED
    BY <1>1, <1>2 DEF MayHold
<1> HIDE DEF MayHold, Tables, Roots
<1> QED
  BY <1>3, <1>4, <1>5

LEMMA FoundBitmaps ==
  ASSUME Fits, Theirs, 0 .. Total - 1 \subseteq DOMAIN file, file[0] = Layout(Super),
         NEW s, Filled(s)
  PROVE  /\ Found.inodeBitmap = IF s >= 1 THEN {Root} ELSE {}
         /\ Found.dataBitmap = IF s >= 2 THEN {DataRegionAddr} ELSE {}
<1>1. /\ sb = Super /\ sb.inode_bitmap_addr = 1 /\ sb.data_bitmap_addr = 2
      /\ sb.data_region_addr = DataRegionAddr
  BY TheirLayout DEF sb, Layout
<1>2. NumInodes \in Nat \ {0} /\ NumData \in Nat \ {0} /\ DataRegionAddr \in Nat
  BY UFSAssumption, TheirLayout DEF DataRegionAddr, InodeRegionAddr
<1>3. ASSUME NEW b, NEW n \in Nat \ {0}, file[b] = Bits({0})
      PROVE  BitsAt(b, n) = {0}
  BY <1>3 DEF BitsAt, Bits
<1>4. ASSUME NEW b, NEW n, file[b] = Zero
      PROVE  BitsAt(b, n) = {}
  BY <1>4 DEF BitsAt, Zero
<1>5. BitsAt(1, NumInodes) = IF s >= 1 THEN {0} ELSE {}
  BY <1>2, <1>3, <1>4, FileBlocks
<1>6. BitsAt(2, NumData) = IF s >= 2 THEN {0} ELSE {}
  BY <1>2, <1>3, <1>4, FileBlocks
<1>7. Found.inodeBitmap = BitsAt(1, NumInodes)
  BY <1>1 DEF Found, BitsAt, InodeAt, CellsAt
<1>8. Found.dataBitmap = {DataRegionAddr + e : e \in BitsAt(2, NumData)}
  BY <1>1 DEF Found, BitsAt, InodeAt, CellsAt
<1>9. Found.inodeBitmap = IF s >= 1 THEN {Root} ELSE {}
  BY <1>5, <1>7 DEF Root
<1>10. Found.dataBitmap = IF s >= 2 THEN {DataRegionAddr} ELSE {}
  <2>1. BitsAt(2, NumData) = {0} => {DataRegionAddr + e : e \in BitsAt(2, NumData)} = {DataRegionAddr}
    BY <1>2 DEF BitsAt
  <2>2. BitsAt(2, NumData) = {} => {DataRegionAddr + e : e \in BitsAt(2, NumData)} = {}
    BY DEF BitsAt
  <2> QED
    BY <1>6, <1>8, <2>1, <2>2 DEF BitsAt
<1> QED
  BY <1>9, <1>10

LEMMA FoundInodes ==
  ASSUME Fits, Theirs, 0 .. Total - 1 \subseteq DOMAIN file, file[0] = Layout(Super),
         NEW s, Filled(s)
  PROVE  IF s >= 3
         THEN \E rest \in [1 .. InodesPerBlock - 1 -> StackInodes] : Found.inodes = FoundTable(rest)
         ELSE Found.inodes = [i \in Inodes |-> ZeroInode]
<1>1. /\ sb = Super /\ sb.inode_region_addr = InodeRegionAddr /\ Total = DataRegionAddr + NumData
      /\ InodeRegionLen \in Nat \ {0} /\ NumData \in Nat \ {0}
  BY TheirLayout DEF sb, Layout
<1>2. InodesPerBlock \in Nat \ {0} /\ NumInodes \in Nat \ {0}
  BY UFSAssumption
<1>3. ASSUME NEW i \in Inodes
      PROVE  IF i < InodesPerBlock
             THEN InodeRegionAddr + i \div InodesPerBlock = InodeRegionAddr
                  /\ i % InodesPerBlock = i
             ELSE file[InodeRegionAddr + i \div InodesPerBlock] = Zero
  <2>1. i \in Nat /\ i < NumInodes
    BY <1>2 DEF Inodes
  <2> DEFINE q == i \div InodesPerBlock
  <2>2. /\ q \in Nat /\ InodesPerBlock * q <= i /\ i < InodesPerBlock * q + InodesPerBlock
        /\ i = InodesPerBlock * q + (i % InodesPerBlock)
    <3>1. InodesPerBlock \in Nat /\ InodesPerBlock > 0
      BY <1>2
    <3>2. q \in Nat /\ InodesPerBlock * q <= i /\ i < InodesPerBlock * q + InodesPerBlock
      BY <2>1, <3>1, Division
    <3>3. i = InodesPerBlock * q + (i % InodesPerBlock)
      BY <2>1, <3>1
    <3> QED
      BY <3>2, <3>3
  <2>3. q < InodeRegionLen
    BY <1>2, <2>1, DivisionBelow DEF InodeRegionLen
  <2> HIDE DEF q
  <2>4. CASE i < InodesPerBlock
    <3>1. q = 0
      <4>1. SUFFICES ASSUME q >= 1 PROVE FALSE
        BY <2>2
      <4>2. InodesPerBlock * 1 <= InodesPerBlock * q
        BY <1>2, <2>2, <4>1
      <4> QED
        BY <1>2, <2>1, <2>2, <2>4, <4>2
    <3> QED
      BY <1>2, <2>1, <2>2, <2>4, <3>1 DEF q, InodeRegionAddr
  <2>5. CASE ~(i < InodesPerBlock)
    <3>1. q # 0
      BY <1>2, <2>1, <2>2, <2>5
    <3>2. /\ InodeRegionAddr + q \in 4 .. Total - 1 /\ InodeRegionAddr + q # DataRegionAddr
      BY <1>1, <2>2, <2>3, <3>1 DEF InodeRegionAddr, DataRegionAddr
    <3> QED
      BY <2>5, <3>2, FileBlocks DEF q
  <2> QED
    BY <2>4, <2>5
<1>5. ASSUME NEW i \in Inodes, ~(i < InodesPerBlock)
      PROVE  InodeAt(i) = ZeroInode
  BY <1>1, <1>3, <1>5 DEF InodeAt, Zero
<1>6. CASE s >= 3
  <2>1. file[InodeRegionAddr] \in Tables
    BY <1>6, FileBlocks
  <2>2. PICK rest \in [1 .. InodesPerBlock - 1 -> StackInodes] :
          file[InodeRegionAddr] =
            Table([e \in 0 .. InodesPerBlock - 1 |-> IF e = 0 THEN MadeRoot ELSE rest[e]])
    BY <2>1 DEF Tables
  <2>3. ASSUME NEW i \in Inodes, i < InodesPerBlock
        PROVE  InodeAt(i) = IF i = Root THEN MadeRoot ELSE rest[i]
    <3> DEFINE t == [e \in 0 .. InodesPerBlock - 1 |-> IF e = 0 THEN MadeRoot ELSE rest[e]]
    <3>1. InodeAt(i) = t[i]
      <4>1. file[InodeRegionAddr] = [inodes |-> t]
        BY <2>2 DEF Table
      <4>2. InodeRegionAddr + i \div InodesPerBlock = InodeRegionAddr /\ i % InodesPerBlock = i
        BY <1>3, <2>3
      <4> HIDE DEF t
      <4>3. file[InodeRegionAddr + i \div InodesPerBlock] = [inodes |-> t]
        BY <4>1, <4>2
      <4>4. InodeAt(i) = IF "inodes" \in DOMAIN [inodes |-> t] THEN t[i % InodesPerBlock] ELSE ZeroInode
        BY <1>1, <4>3 DEF InodeAt
      <4> QED
        BY <4>2, <4>4
    <3>2. i \in 0 .. InodesPerBlock - 1
      BY <1>2, <2>3 DEF Inodes
    <3> QED
      BY <3>1, <3>2 DEF Root
  <2>4. 0 < InodesPerBlock
    BY <1>2
  <2>5. Found.inodes = FoundTable(rest)
    BY <1>5, <2>3, <2>4 DEF Found, InodeAt, BitsAt, CellsAt, FoundTable, Root
  <2> QED
    BY <1>6, <2>5
<1>7. CASE ~(s >= 3)
  <2>1. file[InodeRegionAddr] = Zero
    BY <1>7, FileBlocks
  <2>2. ASSUME NEW i \in Inodes, i < InodesPerBlock
        PROVE  InodeAt(i) = ZeroInode
    BY <1>1, <1>3, <2>1, <2>2 DEF InodeAt, Zero
  <2> QED
    BY <1>5, <1>7, <2>2 DEF Found, InodeAt, BitsAt, CellsAt
<1> QED
  BY <1>6, <1>7

LEMMA FoundBlocks ==
  ASSUME Fits, Theirs, 0 .. Total - 1 \subseteq DOMAIN file, NEW s, Filled(s)
  PROVE  IF s >= 4
         THEN \E rest \in [Slots -> StackNames] : Found.blocks = FoundRoot(rest)
         ELSE Found.blocks = [b \in DataBlocks |-> ZeroBlock]
<1>1. /\ Total = DataRegionAddr + NumData /\ DataRegionAddr \in Nat /\ DataRegionAddr > 3
      /\ NumData \in Nat \ {0}
  BY TheirLayout DEF DataRegionAddr, InodeRegionAddr
<1>2. ASSUME NEW b \in DataBlocks, b # DataRegionAddr
      PROVE  CellsAt(b) = ZeroBlock
  <2>1. b \in 4 .. Total - 1
    BY <1>1 DEF DataBlocks
  <2>2. file[b] = Zero
    BY <1>2, <2>1, FileBlocks
  <2> QED
    BY <2>2 DEF CellsAt, Zero
<1>4. CASE s >= 4
  <2>1. file[DataRegionAddr] \in Roots
    BY <1>4, FileBlocks
  <2>2. PICK rest \in [Slots -> StackNames] : file[DataRegionAddr] = Dir(MadeEntries(rest))
    BY <2>1 DEF Roots
  <2>3. CellsAt(DataRegionAddr) = MadeEntries(rest)
    BY <2>2 DEF CellsAt, Dir
  <2>4. Found.blocks = FoundRoot(rest)
    BY <1>2, <2>3 DEF Found, InodeAt, BitsAt, CellsAt, FoundRoot
  <2> QED
    BY <1>4, <2>4
<1>5. CASE ~(s >= 4)
  <2>1. file[DataRegionAddr] = Zero
    BY <1>5, FileBlocks
  <2>2. CellsAt(DataRegionAddr) = ZeroBlock
    BY <2>1 DEF CellsAt, Zero
  <2> QED
    BY <1>2, <1>5, <2>2 DEF Found, InodeAt, BitsAt, CellsAt
<1> QED
  BY <1>4, <1>5

(***************************************************************************)
(* The image that mkfs has made, read back from the file by the addresses  *)
(* in its super block, is one LocalFileSystem starts from: all the proofs  *)
(* about the calls are about images mkfs makes.                            *)
(***************************************************************************)
THEOREM MadeIsInitHolds ==
  ASSUME Fits
  PROVE  Spec => []MadeIsInit
<1>1. MkfsInv /\ Filling => MadeIsInit
  <2>1. SUFFICES ASSUME MkfsInv, Filling, pc = "made", Theirs PROVE L!Init
    BY DEF MadeIsInit
  <2>2. LayoutFits /\ Whole(Total) /\ Done = 4 /\ Filled(4)
    <3>1. LayoutFits /\ Done = 4
      BY <2>1, TheirLayout DEF Done
    <3> HIDE DEF Filled, Whole
    <3> QED
      BY <2>1, <3>1 DEF MkfsInv, Filling
  <2>3. 0 .. Total - 1 \subseteq DOMAIN file /\ file[0] = Layout(Super)
    BY <2>2 DEF Whole
  <2>4. Found.inodeBitmap = {Root} /\ Found.dataBitmap = {DataRegionAddr}
    BY <2>1, <2>2, <2>3, FoundBitmaps
  <2>5. PICK rest \in [1 .. InodesPerBlock - 1 -> StackInodes] : Found.inodes = FoundTable(rest)
    BY <2>1, <2>2, <2>3, FoundInodes
  <2>6. PICK names \in [Slots -> StackNames] : Found.blocks = FoundRoot(names)
    BY <2>1, <2>2, <2>3, FoundBlocks
  <2>7. DataRegionAddr = Super.data_region_addr
    BY <2>1, TheirLayout
  <2>8. L!DataRegionAddr = DataRegionAddr
    BY DEF L!DataRegionAddr, DataRegionAddr, L!InodeRegionAddr, InodeRegionAddr,
           L!InodeRegionLen, InodeRegionLen
  <2>9. /\ L!Inodes = Inodes /\ L!Slots = Slots /\ L!Ptrs = Ptrs /\ L!ZeroInode = ZeroInode
        /\ L!ZeroBlock = ZeroBlock /\ L!Root = Root /\ L!DataBlocks = DataBlocks
    BY <2>8 DEF L!Inodes, Inodes, L!Slots, Slots, L!Ptrs, Ptrs, L!ZeroInode, ZeroInode,
           L!Directory, Directory, L!NoBlock, NoBlock, L!ZeroBlock, ZeroBlock, L!ZeroCell, ZeroCell,
           L!Entry, Entry, L!Root, Root, L!DataBlocks, DataBlocks
  <2>10. L!RootInode = MadeRoot
    BY <2>7, <2>8, <2>9 DEF L!RootInode, MadeRoot, L!Directory, Directory, L!Unset, Unset
  <2>11. L!RootBlock(names) = MadeEntries(names)
    BY <2>9 DEF L!RootBlock, MadeEntries, L!Entry, Entry
  <2>12. L!Formatted(FoundTable(rest))
    <3>1. NumInodes \in Nat \ {0} /\ InodesPerBlock \in Nat \ {0}
      BY UFSAssumption
    <3>2. Root \in Inodes
      BY <3>1 DEF Root, Inodes
    <3>3. \A i \in Inodes \ {Root} : i < InodesPerBlock => rest[i] \in StackInodes
      BY <3>1 DEF Inodes, Root
    <3> HIDE DEF Inodes, MadeRoot
    <3>4. FoundTable(rest) \in [Inodes -> StackInodes \cup {ZeroInode, MadeRoot}]
      BY <3>3 DEF FoundTable
    <3>5. FoundTable(rest)[Root] = MadeRoot
      BY <3>2 DEF FoundTable
    <3>6. \A i \in Inodes \ {Root} : IF i < InodesPerBlock THEN FoundTable(rest)[i] \in StackInodes
                                     ELSE FoundTable(rest)[i] = ZeroInode
      BY <3>3 DEF FoundTable
    <3> QED
      BY <3>4, <3>5, <3>6, <2>9, <2>10 DEF L!Formatted
  <2>13. Found = [inodeBitmap |-> {L!Root}, dataBitmap |-> {L!DataRegionAddr},
                  inodes |-> FoundTable(rest),
                  blocks |-> [b \in L!DataBlocks |->
                                IF b = L!DataRegionAddr THEN L!RootBlock(names) ELSE L!ZeroBlock]]
    <3>1. FoundRoot(names) = [b \in L!DataBlocks |->
                                IF b = L!DataRegionAddr THEN L!RootBlock(names) ELSE L!ZeroBlock]
      BY <2>8, <2>9, <2>11 DEF FoundRoot
    <3>2. Found = [inodeBitmap |-> Found.inodeBitmap, dataBitmap |-> Found.dataBitmap,
                   inodes |-> Found.inodes, blocks |-> Found.blocks]
      BY DEF Found, BitsAt, InodeAt, CellsAt
    <3> QED
      BY <2>4, <2>5, <2>6, <2>8, <2>9, <3>1, <3>2
  <2>14. FoundTable(rest) \in [L!Inodes -> StackInodes \cup {L!ZeroInode, L!RootInode}]
         /\ names \in [L!Slots -> StackNames]
    BY <2>9, <2>12 DEF L!Formatted
  <2>15. L!NoJob = [op |-> "none"]
    BY DEF L!NoJob
  <2>16. L!Meta(Found) = [inodeBitmap |-> Found.inodeBitmap, dataBitmap |-> Found.dataBitmap,
                          inodes |-> Found.inodes]
    BY DEF L!Meta
  <2> QED
    BY <2>12, <2>13, <2>14, <2>15, <2>16 DEF L!Init
<1> QED
  BY <1>1, MkfsKeeps, PTL

(***************************************************************************)
(* The first create in a root directory that is marked, and whose inode    *)
(* and block mkfs has written or not written yet: no cell has a name that  *)
(* is asked for, and there is an unused one only if the block is written.  *)
(***************************************************************************)
RootIsFresh(d) ==
  /\ d.inodeBitmap = {Root} /\ d.dataBitmap \in {{}, {DataRegionAddr}}
  /\ \/ d.inodes[Root].type = Directory /\ d.inodes[Root].size = 0
     \/ /\ d.inodes[Root] = MadeRoot
        /\ \A e \in Slots : d.blocks[DataRegionAddr][e].inum # -1 =>
             d.blocks[DataRegionAddr][e].name \notin Names
        /\ \A e \in Slots : d.blocks[DataRegionAddr][e].inum = -1 =>
             d.blocks[DataRegionAddr][0].name = "."

LEMMA SameOperators ==
  /\ L!Inodes = Inodes /\ L!Slots = Slots /\ L!Ptrs = Ptrs
  /\ L!DataRegionAddr = DataRegionAddr /\ L!DataBlocks = DataBlocks
  /\ L!Root = 0 /\ L!NoBlock = 0 /\ L!Directory = Directory /\ L!RegularFile = RegularFile
  /\ \A ino, m : L!Held(ino, m) = Held(ino, m)
  /\ \A ks : L!PositionsIn(ks) = PositionsIn(ks)
  /\ \A size : L!BlocksFor(size) = BlocksFor(size)
  /\ \A S \in SUBSET Nat : S # {} => L!Least(S) \in S /\ \A y \in S : L!Least(S) <= y
<1>1. L!DataRegionAddr = DataRegionAddr
  BY DEF L!DataRegionAddr, DataRegionAddr, L!InodeRegionAddr, InodeRegionAddr,
         L!InodeRegionLen, InodeRegionLen
<1>2. /\ L!Inodes = Inodes /\ L!Slots = Slots /\ L!Ptrs = Ptrs /\ L!DataBlocks = DataBlocks
  BY <1>1 DEF L!Inodes, Inodes, L!Slots, Slots, L!Ptrs, Ptrs, L!DataBlocks, DataBlocks
<1>3. /\ L!Root = 0 /\ L!NoBlock = 0 /\ L!Directory = Directory /\ L!RegularFile = RegularFile
  BY DEF L!Root, L!NoBlock, L!Directory, Directory, L!RegularFile, RegularFile
<1>4. \A ino, m : L!Held(ino, m) = Held(ino, m)
  BY <1>2 DEF L!Held, Held, L!NoBlock, NoBlock
<1>5. \A ks : L!PositionsIn(ks) = PositionsIn(ks)
  BY <1>2 DEF L!PositionsIn, PositionsIn
<1>6. \A size : L!BlocksFor(size) = BlocksFor(size)
  BY DEF L!BlocksFor, BlocksFor
<1>7. ASSUME NEW S \in SUBSET Nat, S # {}
      PROVE  L!Least(S) \in S /\ \A y \in S : L!Least(S) <= y
  <2>1. L!Least(S) = Least(S)
    BY DEF L!Least, Least
  <2> QED
    BY <1>7, <2>1, LeastIsMinimum
<1> QED
  BY <1>1, <1>2, <1>3, <1>4, <1>5, <1>6, <1>7

LEMMA RootBlocks ==
  ASSUME NEW d, RootIsFresh(d), DirectPtrs > 1
  PROVE  LET ino == d.inodes[Root]
             ks  == Held(ino, BlocksFor(ino.size))
         IN  /\ BlocksFor(ino.size) \in {0, 1}
             /\ ks = {} \/ (ks = {0} /\ ino = MadeRoot)
             /\ PositionsIn(ks) = IF ks = {} THEN {} ELSE Slots
<1>1. EntriesPerBlock \in Nat /\ EntriesPerBlock >= 2
  BY UFSAssumption
<1>2. BlocksFor(0) = 0
  BY <1>1 DEF BlocksFor
<1>3. BlocksFor(2) = 1
  <2>1. EntriesPerBlock + 1 \in Nat /\ EntriesPerBlock + 1 < 2 * EntriesPerBlock
    BY <1>1
  <2>2. (EntriesPerBlock + 1) \div EntriesPerBlock = 1
    BY <1>1, <2>1
  <2> QED
    BY <1>1, <2>2 DEF BlocksFor
<1>4. CASE d.inodes[Root].size = 0
  <2>1. Held(d.inodes[Root], 0) = {}
    BY DEF Held, Ptrs
  <2>2. PositionsIn({}) = {}
    BY DEF PositionsIn
  <2> QED
    BY <1>2, <1>4, <2>1, <2>2
<1>5. CASE d.inodes[Root] = MadeRoot
  <2>1. d.inodes[Root].size = 2 /\ 0 \in Ptrs /\ d.inodes[Root].direct[0] = Super.data_region_addr
    BY <1>5, UFSAssumption DEF MadeRoot, Ptrs
  <2>2. Held(d.inodes[Root], 1) \subseteq {0}
    BY DEF Held, Ptrs
  <2>3. PositionsIn({0}) = Slots
    BY <1>1 DEF PositionsIn, Slots
  <2>4. PositionsIn({}) = {}
    BY DEF PositionsIn
  <2>5. Held(d.inodes[Root], 1) = {} \/ Held(d.inodes[Root], 1) = {0}
    BY <2>2
  <2> QED
    BY <1>3, <1>5, <2>1, <2>3, <2>4, <2>5
<1> QED
  BY <1>4, <1>5 DEF RootIsFresh

LEMMA CreateInFreshRoot ==
  ASSUME NEW d, RootIsFresh(d), NEW n \in Names, Theirs, Fits,
         DirectPtrs > 1, NumInodes > 1, NumData > 1
  PROVE  LET plan == L!CreatePlan(d, Root, RegularFile, n)
         IN  /\ plan.ret = 1
             /\ \A w \in 1 .. Len(plan.writes) :
                  \/ plan.writes[w].addr \notin d.dataBitmap
                  \/ CellAt(d, d.inodes[Root], 0).name = "."
<1> DEFINE ino == d.inodes[Root]
           ks  == Held(ino, BlocksFor(ino.size))
           cell(pos) == L!CellAt(d, ino, pos)
<1>1. /\ NumInodes \in Nat /\ NumData \in Nat /\ DirectPtrs \in Nat
      /\ EntriesPerBlock \in Nat /\ EntriesPerBlock >= 2
      /\ DataRegionAddr \in Nat /\ DataRegionAddr > 0
      /\ Super.data_region_addr = DataRegionAddr
  BY UFSAssumption, TheirLayout DEF DataRegionAddr, InodeRegionAddr
<1>2. /\ DataRegionAddr \in DataBlocks /\ DataRegionAddr + 1 \in DataBlocks
      /\ DataBlocks \in SUBSET Nat /\ 0 \notin DataBlocks
      /\ 0 \in Inodes /\ 1 \in Inodes /\ Inodes \in SUBSET Nat
  BY <1>1 DEF DataBlocks, Inodes
<1>3. /\ BlocksFor(ino.size) \in {0, 1}
      /\ ks = {} \/ (ks = {0} /\ ino = MadeRoot)
      /\ PositionsIn(ks) = IF ks = {} THEN {} ELSE Slots
  BY RootBlocks
<1>4. ks = {0} => ino.direct[0] = DataRegionAddr /\ ino.type = Directory
  BY <1>1, <1>3 DEF MadeRoot, Ptrs
<1>5. ASSUME NEW e \in Slots, ks = {0}
      PROVE  /\ cell(e) = d.blocks[DataRegionAddr][e]
             /\ CellAt(d, ino, e) = d.blocks[DataRegionAddr][e]
             /\ e \in Nat /\ e \div EntriesPerBlock = 0
  <2>1. e \in Nat /\ e \div EntriesPerBlock = 0 /\ e % EntriesPerBlock = e
    BY <1>1 DEF Slots
  <2> QED
    BY <1>4, <1>5, <2>1 DEF L!CellAt, CellAt
<1>6. L!Existing(d, ino, n) = -1
  <2>1. \A pos \in PositionsIn(ks) : ~(cell(pos).inum # -1 /\ cell(pos).name = n)
    BY <1>3, <1>5 DEF RootIsFresh, MadeRoot
  <2> HIDE DEF ino
  <2> QED
    BY <2>1, SameOperators DEF L!Existing, L!First, ino
<1>7. L!IsDirectory(d, 0)
  BY SameOperators DEF RootIsFresh, L!IsDirectory, Root, MadeRoot
<1>8. ~L!Unreadable(ino)
  <2>1. BlocksFor(ino.size) <= DirectPtrs /\ \A a \in ks : ino.direct[a] \in DataBlocks
    BY <1>1, <1>2, <1>3, <1>4
  <2> QED
    BY <1>1, <1>3, <2>1, SameOperators DEF L!Unreadable
<1>9. L!CreateChecks(d, Root, RegularFile, n) = NumInodes
  <2>1. n \in L!ValidNames
    BY DEF L!ValidNames
  <2>2. d.inodeBitmap # L!Inodes
    BY <1>2, SameOperators DEF RootIsFresh, Root
  <2>3. RegularFile # L!Directory
    BY SameOperators DEF RegularFile, Directory
  <2> QED
    BY <1>6, <1>7, <1>8, <2>1, <2>2, <2>3 DEF L!CreateChecks, L!Passes, Root
<1> DEFINE m == L!WithInode(d, RegularFile)
<1>10. L!Least(L!Inodes \ d.inodeBitmap) = 1
  <2>1. Inodes \ {0} \in SUBSET Nat /\ 1 \in Inodes \ {0}
    BY <1>2
  <2>2. LET x == L!Least(Inodes \ {0}) IN x \in Inodes \ {0} /\ x <= 1
    BY <2>1, SameOperators
  <2> QED
    BY <2>1, <2>2, SameOperators DEF RootIsFresh, Root
<1>11. m.inodes[Root] = ino /\ m.dataBitmap = d.dataBitmap
  BY <1>10, SameOperators DEF L!WithInode, RegularFile, Directory, Root
<1>12. L!CreatePlan(d, Root, RegularFile, n) = L!Link(d, Root, n, 1, <<>>, m)
  <2>1. RegularFile # L!Directory
    BY SameOperators DEF RegularFile, Directory
  <2> QED
    BY <1>9, <1>10, <2>1 DEF L!CreatePlan, L!Passes
<1> HIDE DEF m
<1> DEFINE slots == {pos \in PositionsIn(ks) : cell(pos).inum = -1}
           slot  == L!First(slots)
           free  == DataBlocks \ m.dataBitmap
           b     == L!Least(free)
           atTheSlot == L!Plan(1, Append(<<>>, L!Update(DataRegionAddr, [d.blocks[DataRegionAddr] EXCEPT
                                                       ![slot % EntriesPerBlock] = L!Entry(n, 1)])),
                               TRUE, [m EXCEPT !.inodes[Root].size = @ + 1])
<1>13. free \in SUBSET Nat /\ free # {} /\ b \in free
  <2>1. free \in SUBSET Nat /\ DataRegionAddr + 1 \in free
    BY <1>1, <1>2, <1>11 DEF RootIsFresh
  <2> QED
    BY <2>1, SameOperators
<1>14. CASE slots = {}
  <2>1. slot = -1
    BY <1>14 DEF L!First
  <2>2. ~(BlocksFor(ino.size) >= DirectPtrs \/ free = {})
    BY <1>1, <1>3, <1>13
  <2>3. \E cells, m2 : L!Link(d, Root, n, 1, <<>>, m)
                       = L!Plan(1, Append(<<>>, L!Update(b, cells)), TRUE, m2)
    BY <1>11, <2>1, <2>2, SameOperators DEF L!Link
  <2>4. PICK cells, m2 : L!Link(d, Root, n, 1, <<>>, m)
                         = L!Plan(1, Append(<<>>, L!Update(b, cells)), TRUE, m2)
    BY <2>3
  <2> QED
    BY <1>11, <1>12, <1>13, <2>4 DEF L!Plan, L!Update
<1>15. CASE slots # {}
  <2>1. ks = {0} /\ PositionsIn(ks) = Slots
    BY <1>3, <1>15
  <2>2. slot \in Slots /\ cell(slot).inum = -1 /\ slot # -1
    <3>1. slots \in SUBSET Nat /\ slots \subseteq Slots
      BY <2>1, <1>1 DEF Slots
    <3>2. slot \in slots
      BY <1>15, <3>1, SameOperators DEF L!First
    <3> QED
      BY <3>1, <3>2
  <2>3. CellAt(d, ino, 0).name = "."
    <3>1. 0 \in Slots
      BY <1>1 DEF Slots
    <3> QED
      BY <1>1, <1>3, <1>5, <2>1, <2>2, <3>1 DEF RootIsFresh, MadeRoot
  <2>4. \E u, m2 : L!Link(d, Root, n, 1, <<>>, m) = L!Plan(1, Append(<<>>, u), TRUE, m2)
    BY <1>11, <2>2, SameOperators DEF L!Link
  <2> QED
    BY <1>12, <2>3, <2>4 DEF L!Plan
<1> QED
  BY <1>14, <1>15

\* Nothing is in the file until the options were found to be large enough.
Enough == asked[1] >= MinCount /\ asked[2] >= MinCount

Counted == /\ pc = "open" => file = <<>>
           /\ pc \notin {"open", "failed"} \/ file # <<>> => Enough

LEMMA MkfsCounts == Spec => []Counted
<1>1. Init => Counted
  BY DEF Init, Counted
<1>2. Counted /\ [Next]_vars => Counted'
  <2> SUFFICES ASSUME Counted, [Next]_vars PROVE Counted'
    OBVIOUS
  <2>1. CASE Fail
    BY <2>1 DEF Fail, Counted, Enough
  <2>2. CASE UNCHANGED vars
    BY <2>2 DEF vars, Counted, Enough
  <2>3. CASE pc \notin {"open", "failed"} /\ pc' # "open" /\ asked' = asked
    BY <2>3 DEF Counted, Enough
  <2>4. CASE Open
    BY <2>1, <2>4 DEF Open, Counted, Enough
  <2>5. ASSUME NEW here, NEW b, NEW content, NEW after, Write(here, b, content, after),
               here \in {"inodeBitmap", "dataBitmap", "table", "root"},
               after \in {"dataBitmap", "table", "root", "made"}
        PROVE  Counted'
    BY <2>1, <2>3, <2>5 DEF Write, CannotPut
  <2>6. CASE WriteSuper \/ ClearBlock \/ Cleared
    BY <2>1, <2>3, <2>6 DEF WriteSuper, ClearBlock, Cleared, CannotPut
  <2> QED
    BY <2>1, <2>2, <2>4, <2>5, <2>6 DEF Next, WriteInodeBitmap, WriteDataBitmap, WriteTable, WriteRoot
<1> QED
  BY <1>1, <1>2, PTL DEF Spec

\* The block of the root shows no name that can be asked for.
LEMMA ZeroCells ==
  \A e \in Slots : ZeroBlock[e].inum # -1 /\ ZeroBlock[e].name \notin Names
<1>1. "" \notin Names
  BY NamesAssumption
<1>2. ASSUME NEW e \in Slots
      PROVE  ZeroBlock[e].inum # -1 /\ ZeroBlock[e].name \notin Names
  <2>1. ZeroBlock[e].name = ""
    BY DEF ZeroBlock, ZeroCell, Entry
  <2>2. ZeroBlock[e].inum = 0
    BY DEF ZeroBlock, ZeroCell, Entry
  <2>3. ZeroBlock[e].name \notin Names
    BY <1>1, <2>1, Zenon
  <2> QED
    BY <2>2, <2>3
<1> QED
  BY <1>2

LEMMA MadeCells ==
  ASSUME NEW rest \in [Slots -> StackNames]
  PROVE  \A e \in Slots :
            IF MadeEntries(rest)[e].inum # -1 THEN MadeEntries(rest)[e].name \notin Names
                                              ELSE MadeEntries(rest)[0].name = "."
<1>1. "." \notin Names /\ ".." \notin Names
  BY NamesAssumption
<1>2. 0 \in Slots
  BY UFSAssumption DEF Slots
<1>3. MadeEntries(rest)[0].name = "."
  BY <1>2 DEF MadeEntries, Entry
<1>4. ASSUME NEW e \in Slots, e = 0 \/ e = 1
      PROVE  MadeEntries(rest)[e].inum # -1 /\ MadeEntries(rest)[e].name \notin Names
  <2>1. CASE e = 0
    <3>1. MadeEntries(rest)[e].name = "." /\ MadeEntries(rest)[e].inum = 0
      BY <2>1 DEF MadeEntries, Entry, Root
    <3> QED
      BY <1>1, <3>1
  <2>2. CASE e = 1
    <3>1. MadeEntries(rest)[e].name = ".." /\ MadeEntries(rest)[e].inum = 0
      BY <2>2 DEF MadeEntries, Entry, Root
    <3> QED
      BY <1>1, <3>1
  <2> QED
    BY <1>4, <2>1, <2>2
<1>5. ASSUME NEW e \in Slots, e # 0, e # 1
      PROVE  MadeEntries(rest)[e].inum = -1
  BY <1>5 DEF MadeEntries, Entry
<1> QED
  BY <1>3, <1>4, <1>5

(***************************************************************************)
(* Whenever mkfs is killed or fails, in any image it leaves that           *)
(* LocalFileSystem can use no block has two owners or is pointed to and    *)
(* free; the first create in it is refused if the root is not marked yet,  *)
(* and if it is takes inode 1 and a free block, or, when the root          *)
(* directory was already written, an unused entry of it.                   *)
(***************************************************************************)
THEOREM UnfinishedIsSoundHolds ==
  ASSUME Fits, DirectPtrs > 1
  PROVE  Spec => []UnfinishedIsSound
<1>1. MkfsInv /\ Filling /\ Counted => UnfinishedIsSound
  <2>1. SUFFICES ASSUME MkfsInv, Filling, Counted, Theirs, Readable
                 PROVE  /\ L!Unshared(Found.inodes) /\ L!Marked(Found.inodes, Found.dataBitmap)
                        /\ \A n \in Names :
                             LET plan == L!CreatePlan(Found, Root, RegularFile, n)
                             IN  IF Root \in Found.inodeBitmap
                                 THEN /\ plan.ret = 1
                                      /\ \A w \in 1 .. Len(plan.writes) :
                                           \/ plan.writes[w].addr \notin Found.dataBitmap
                                           \/ CellAt(Found, Found.inodes[Root], 0).name = "."
                                 ELSE plan.ret = -EINVALIDINODE
    BY DEF UnfinishedIsSound
  <2>2. LayoutFits /\ 0 \in DOMAIN file /\ file[0] = Layout(Super) /\ sb = Super
    BY <2>1, TheirLayout DEF Readable, Filling, sb, Layout
  <2>3. 0 .. Total - 1 \subseteq DOMAIN file
    BY <2>1, <2>2 DEF Readable, Filling, Total
  <2>4. PICK s \in 0 .. 4 : Filled(s)
    BY <2>1, <2>2 DEF Filling
  <2>5. NumInodes \in Nat /\ NumData \in Nat /\ NumInodes > 1 /\ NumData > 1
    <3>1. file # <<>>
      BY <2>2
    <3> QED
      BY <2>1, <3>1, UFSAssumption, MkfsAssumption DEF Counted, Enough, Theirs
  <2>6. /\ Found.inodeBitmap = IF s >= 1 THEN {Root} ELSE {}
        /\ Found.dataBitmap = IF s >= 2 THEN {DataRegionAddr} ELSE {}
    BY <2>1, <2>2, <2>3, <2>4, FoundBitmaps
  <2>7. /\ DataRegionAddr \in Nat /\ DataRegionAddr > 0 /\ 0 \notin DataBlocks /\ -1 \notin DataBlocks
        /\ DataRegionAddr \in DataBlocks /\ MadeRoot.direct[0] = DataRegionAddr
        /\ \A a \in Ptrs : a # 0 => MadeRoot.direct[a] = -1
        /\ Root \in Inodes /\ 0 \in Ptrs
    <3>1. DataRegionAddr \in Nat /\ DataRegionAddr > 0 /\ Super.data_region_addr = DataRegionAddr
      BY <2>1, TheirLayout DEF DataRegionAddr, InodeRegionAddr
    <3>2. 0 \in Ptrs
      BY UFSAssumption DEF Ptrs
    <3> QED
      BY <2>5, <3>1, <3>2 DEF DataBlocks, MadeRoot, Unset, Root, Inodes
  \* Only the first pointer of the root leads to a data block.
  <2>8. \A i \in Inodes, a \in Ptrs :
           Found.inodes[i].direct[a] \in DataBlocks =>
             i = Root /\ a = 0 /\ s >= 3 /\ Found.inodes[i].direct[a] = DataRegionAddr
    <3>1. CASE s >= 3
      <4>1. PICK rest \in [1 .. InodesPerBlock - 1 -> StackInodes] : Found.inodes = FoundTable(rest)
        BY <2>1, <2>2, <2>3, <2>4, <3>1, FoundInodes
      <4>2. ASSUME NEW i \in Inodes, NEW a \in Ptrs, FoundTable(rest)[i].direct[a] \in DataBlocks
            PROVE  i = Root /\ a = 0 /\ FoundTable(rest)[i].direct[a] = DataRegionAddr
        <5>1. CASE i = Root
          BY <2>7, <4>2, <5>1 DEF FoundTable
        <5>2. CASE i # Root /\ i < InodesPerBlock
          <6>1. rest[i] \in StackInodes /\ FoundTable(rest)[i] = rest[i]
            BY <5>2, UFSAssumption DEF FoundTable, Inodes, Root
          <6> QED
            BY <4>2, <6>1, MkfsAssumption
        <5>3. CASE i # Root /\ ~(i < InodesPerBlock)
          BY <2>7, <4>2, <5>3 DEF FoundTable, ZeroInode, NoBlock
        <5> QED
          BY <5>1, <5>2, <5>3
      <4> QED
        BY <3>1, <4>1, <4>2
    <3>2. CASE ~(s >= 3)
      <4>1. Found.inodes = [i \in Inodes |-> ZeroInode]
        BY <2>1, <2>2, <2>3, <2>4, <3>2, FoundInodes
      <4> QED
        BY <2>7, <4>1 DEF ZeroInode, NoBlock
    <3> QED
      BY <3>1, <3>2
  <2>9. L!Unshared(Found.inodes)
    BY <2>8, SameOperators DEF L!Unshared
  <2>10. L!Marked(Found.inodes, Found.dataBitmap)
    BY <2>6, <2>8, SameOperators DEF L!Marked
  <2>11. s >= 1 => RootIsFresh(Found)
    <3>1. CASE s = 1 \/ s = 2
      <4>1. Found.inodes = [i \in Inodes |-> ZeroInode]
        BY <2>1, <2>2, <2>3, <2>4, <3>1, FoundInodes
      <4>2. Found.inodes[Root] = ZeroInode
        BY <2>7, <4>1
      <4> QED
        BY <2>6, <3>1, <4>2 DEF RootIsFresh, ZeroInode
    <3>2. CASE s >= 3
      <4>1. PICK rest \in [1 .. InodesPerBlock - 1 -> StackInodes] : Found.inodes = FoundTable(rest)
        BY <2>1, <2>2, <2>3, <2>4, <3>2, FoundInodes
      <4>2. Found.inodes[Root] = MadeRoot
        BY <2>7, <4>1 DEF FoundTable
      <4>3. /\ \A e \in Slots : Found.blocks[DataRegionAddr][e].inum # -1 =>
                 Found.blocks[DataRegionAddr][e].name \notin Names
            /\ \A e \in Slots : Found.blocks[DataRegionAddr][e].inum = -1 =>
                 Found.blocks[DataRegionAddr][0].name = "."
        <5>1. CASE s >= 4
          <6>1. PICK names \in [Slots -> StackNames] : Found.blocks = FoundRoot(names)
            BY <2>1, <2>2, <2>3, <2>4, <5>1, FoundBlocks
          <6>2. Found.blocks[DataRegionAddr] = MadeEntries(names)
            BY <2>7, <6>1 DEF FoundRoot
          <6> QED
            BY <6>2, MadeCells
        <5>2. CASE ~(s >= 4)
          <6>1. Found.blocks = [b \in DataBlocks |-> ZeroBlock]
            BY <2>1, <2>2, <2>3, <2>4, <5>2, FoundBlocks
          <6>2. Found.blocks[DataRegionAddr] = ZeroBlock
            BY <2>7, <6>1
          <6> QED
            BY <6>2, ZeroCells
        <5> QED
          BY <5>1, <5>2
      <4> QED
        BY <2>6, <3>2, <4>2, <4>3 DEF RootIsFresh
    <3> QED
      BY <3>1, <3>2
  <2>12. ASSUME NEW n \in Names
         PROVE  LET plan == L!CreatePlan(Found, Root, RegularFile, n)
                IN  IF Root \in Found.inodeBitmap
                    THEN /\ plan.ret = 1
                         /\ \A w \in 1 .. Len(plan.writes) :
                              \/ plan.writes[w].addr \notin Found.dataBitmap
                              \/ CellAt(Found, Found.inodes[Root], 0).name = "."
                    ELSE plan.ret = -EINVALIDINODE
    <3>1. CASE s >= 1
      <4>1. Root \in Found.inodeBitmap
        BY <2>6, <3>1
      <4> QED
        BY <2>1, <2>5, <2>11, <3>1, <4>1, CreateInFreshRoot
    <3>2. CASE ~(s >= 1)
      <4>1. Found.inodeBitmap = {}
        BY <2>6, <3>2
      <4>2. L!CreateChecks(Found, Root, RegularFile, n) = -EINVALIDINODE
        BY <4>1 DEF L!CreateChecks, L!ValidNames, L!IsDirectory, L!EINVALIDINODE, EINVALIDINODE
      <4> QED
        BY <2>5, <4>1, <4>2 DEF L!CreatePlan, L!Passes, L!Refuse, L!Plan, EINVALIDINODE
    <3> QED
      BY <3>1, <3>2
  <2> QED
    BY <2>9, <2>10, <2>12
<1> QED
  BY <1>1, MkfsKeeps, MkfsCounts, PTL
=============================================================================
