------------------------- MODULE FileContentsProofs -------------------------
(***************************************************************************)
(* The bytes of a file, for every size of a block and of an index block,   *)
(* any number of direct pointers, characters and kills.                    *)
(*                                                                         *)
(* While a file grows, how many blocks it has determines all of its lists: *)
(* what the inode and the two indexes hold, which blocks are taken, and    *)
(* the order in which access_file visits them, up to the block that tears  *)
(* the second index (LaidOut).  A kill between the two writes of the first *)
(* index breaks that, and leaves a file no shell reaches again (Gone).     *)
(*                                                                         *)
(* As long as every write began at the last character, the j-th character  *)
(* is the j-th byte of those blocks.  In the shell a zero follows the last *)
(* one, and nothing but zeros and old bytes does after it; in a write the  *)
(* characters of the last block are in Buffer, and what the file held      *)
(* before the write is on the disk, in case it is killed (ContentInv).     *)
(***************************************************************************)
EXTENDS FileContents, FiniteSetTheorems, WellFoundedInduction, TLAPS

-----------------------------------------------------------------------------
(* Where the blocks of the file are.                                        *)

\* The blocks are taken in order, and three for the first of the second index:
\* the second index itself, the list, and the block.
TopBlock == NDIRECT + PER_INDEX + 1
BlockAt(k) == IF k < TopBlock THEN k ELSE k + 2
Blocks(c) == [k \in 1..c |-> BlockAt(k)]

\* The first index block with m entries.
FirstList(m) == [x \in Entry |-> IF x < m THEN NDIRECT + 1 + x ELSE 0]

\* The pointers in an inode with n of them in use.
Pointers(n) ==
    [x \in 0..(NDIRECT + 1) |->
        IF x < NDIRECT THEN IF x < n THEN x + 1 ELSE 0
        ELSE IF x = NDIRECT + 1 /\ n = NDIRECT + 2 THEN TopBlock ELSE 0]

\* The lists, when the file has c blocks that access_file visits.
Lists(c) ==
    /\ inode.i_blocks = IF c <= NDIRECT THEN c
                        ELSE IF c < TopBlock THEN NDIRECT + 1 ELSE NDIRECT + 2
    /\ index[0] = IF c <= NDIRECT THEN DIRECTORY
                  ELSE FirstList(IF c < TopBlock THEN c - NDIRECT ELSE PER_INDEX)
    /\ c = TopBlock => /\ index[TopBlock] = Single(TopBlock + 1)
                       /\ index[TopBlock + 1] = Single(TopBlock + 2)
    /\ free = IF c < TopBlock THEN c + 1 ELSE TopBlock + 3

\* The lists when the second index is torn.
TornLists ==
    /\ inode.i_blocks = NDIRECT + 2
    /\ index[0] = FirstList(PER_INDEX)
    /\ index[TopBlock] = [FirstList(PER_INDEX) EXCEPT ![1] = TopBlock + 3]

Inodes == [i_blocks : 0..(NDIRECT + 2), i_size : Nat, i_block : [0..(NDIRECT + 1) -> Int]]
Indexes == [{0} \cup Block -> [Entry -> Int]]

Layout ==
    /\ index \in Indexes
    /\ inode \in Inodes
    /\ inode.i_block = Pointers(inode.i_blocks)
    /\ TornLists \/ \E c \in 0..TopBlock : Lists(c)

\* Nothing is stored once the second index is torn.
Stops == pc = "got" /\ flag = 1 => ~Torn

LaidOut == Layout /\ Stops /\ new_size \in Nat

\* The file is out of reach, for good: it is closed, and the root is lost.  What
\* a kill over the first index left of it is not read again.
Gone ==
    /\ pc = "shell" /\ ~opened /\ index[0] # DIRECTORY
    /\ ~(inode.i_blocks < NDIRECT) /\ (inode.i_blocks = NDIRECT => cut)

LayoutInv == Gone \/ LaidOut

-----------------------------------------------------------------------------
(* What the blocks hold.                                                    *)

\* The blocks that access_file visits.
Count == Len(FileBlocks)

Chars == Seq(Nat \ {0})
Blanks == [Block -> [Offset -> Int]]

\* The j-th byte, counted from 0, of the file is in block Nth(j).
Nth(j) == j \div BLOCK_SIZE + 1
Byte(d, j) == d[BlockAt(Nth(j))][j % BLOCK_SIZE]

\* The first c blocks begin with the characters s.
Holds(d, s, c) == \A j \in 0..(Len(s) - 1) : Nth(j) <= c /\ Byte(d, j) = s[j + 1]

\* The c-th block of the file is f.
Put(d, c, f) == [d EXCEPT ![BlockAt(c)] = f]

\* Beyond a position no block ever held a character.
Blank(f, o) == \A p \in Offset : p > o => f[p] \in {0, STALE}

Types ==
    /\ data \in Blanks
    /\ text \in Chars /\ kept \in Chars
    /\ chars \in 0..MaxChars
    /\ flag \in {0, 1}
    /\ Len(text) + (IF pc = "got" /\ flag = 1 THEN 1 ELSE 0) <= chars
    /\ pc = "got" => ch \in Nat \ {0}
    /\ \A b \in Block : b >= free => data[b] = [o \in Offset |-> STALE]

\* In the shell.
Rests ==
    IF cut THEN inode.i_blocks > 0 /\ Holds(data, text, Count)
    ELSE IF inode.i_blocks = 0 THEN text = <<>> /\ inode.i_size = 0
    ELSE /\ Count = Nth(Len(text))
         /\ inode.i_size = (Len(text) - 1) % SIZE_MOD
         /\ Holds(data, text, Count)
         /\ data[BlockAt(Count)][Len(text) % BLOCK_SIZE] = 0
         /\ Blank(data[BlockAt(Count)], Len(text) % BLOCK_SIZE)

\* In a write: the characters of the last block are in Buffer, those that were
\* there before are on the disk.
InPlace ==
    /\ ~cut /\ inode.i_blocks > 0
    /\ Count = Nth(Len(text))
    /\ block_num = BlockAt(Count) /\ pos = Len(text) % BLOCK_SIZE
    /\ Buffer \in [Offset -> Int]
    /\ Holds(Put(data, Count, Buffer), text, Count)
    /\ Blank(Buffer, pos)
    /\ Holds(data, kept, Count) /\ Len(kept) <= Len(text)
    /\ \A k \in 1..Len(kept) : kept[k] = text[k]
    /\ inode.i_size = Len(kept)

Sized ==
    IF pc \in {"located", "handling"} THEN text = kept
    ELSE new_size = Len(text) - Len(kept)

ContentInv ==
    ~misplaced /\ ~Torn /\ ~Gone =>
        Types /\ IF pc = "shell" THEN Rests ELSE InPlace /\ Sized

-----------------------------------------------------------------------------
(* The numbers.                                                             *)

\* An index block and the numbers of the blocks.
LEMMA Numbers ==
    /\ NDIRECT \in Nat /\ NDIRECT > 0 /\ PER_INDEX \in Nat /\ PER_INDEX > 1
    /\ BLOCK_SIZE \in Nat /\ BLOCK_SIZE > 2
    /\ TopBlock \in Nat /\ TopBlock = NDIRECT + PER_INDEX + 1
    /\ Block = 1..(TopBlock + 4) /\ Entry = 0..(PER_INDEX - 1)
    /\ Offset = 0..(BLOCK_SIZE - 1)
  BY FileAssumption DEF TopBlock, Block, Entry, Offset

\* One list is what it is when flattened.
LEMMA FlattenOne == \A s : FlattenSeq([k \in 1..1 |-> s]) = s
<1>1. SUFFICES ASSUME NEW s PROVE FlattenSeq([k \in 1..1 |-> s]) = s
  OBVIOUS
<1> DEFINE seqs == [k \in 1..1 |-> s]
           Is(f) == f = [i \in 1..Len(seqs) |-> IF i = 1 THEN seqs[i] ELSE f[i - 1] \o seqs[i]]
<1>2. Len(seqs) = 1
  OBVIOUS
<1>3. Is(seqs)
  BY <1>2
<1>4. \A f : Is(f) => f[1] = s
  BY <1>2
<1>5. Is(CHOOSE f : Is(f))
  BY <1>3
<1>6. QED
  BY <1>2, <1>4, <1>5 DEF FlattenSeq

\* A list of m entries has m entries in use.
LEMMA RoomOfList ==
    \A b \in Nat, m \in 0..PER_INDEX : index[b] = FirstList(m) =>
                Used(b) = 0..(m - 1) /\ Room(b) = m
<1>1. SUFFICES ASSUME NEW b \in Nat, NEW m \in 0..PER_INDEX, index[b] = FirstList(m)
               PROVE  Used(b) = 0..(m - 1) /\ Room(b) = m
  OBVIOUS
<1>2. \A x \in Entry : index[b][x] # 0 <=> x < m
  BY <1>1, Numbers DEF FirstList
<1>3. Used(b) = 0..(m - 1)
  BY <1>2, Numbers DEF Used
<1>4. Cardinality(0..(m - 1)) = m
  BY FS_Interval, Numbers
<1>5. QED
  BY <1>3, <1>4 DEF Room

\* A list of one block.
LEMMA RoomOfSingle ==
    \A b \in Nat, v \in Nat \ {0} : index[b] = Single(v) =>
                Used(b) = {0} /\ Room(b) = 1 /\ index[b][0] = v
<1>1. SUFFICES ASSUME NEW b \in Nat, NEW v \in Nat \ {0}, index[b] = Single(v)
               PROVE  Used(b) = {0} /\ Room(b) = 1 /\ index[b][0] = v
  OBVIOUS
<1>2. \A x \in Entry : index[b][x] # 0 <=> x = 0
  BY <1>1, Numbers DEF Single
<1>3. Used(b) = {0} /\ index[b][0] = v
  BY <1>1, <1>2, Numbers DEF Used, Single
<1>4. Cardinality({0}) = 1
  BY FS_Singleton
<1>5. QED
  BY <1>3, <1>4 DEF Room

\* The second index, when a list is written over it.
LEMMA RoomOfTorn == Layout /\ TornLists => Torn
<1>1. SUFFICES ASSUME Layout, TornLists PROVE Torn
  OBVIOUS
<1>2. inode.i_blocks = NDIRECT + 2 /\ Top = TopBlock
  BY <1>1, Numbers DEF Layout, TornLists, Pointers, Top
<1>3. Used(Top) = 0..(PER_INDEX - 1)
  <2>1. index[Top] = [FirstList(PER_INDEX) EXCEPT ![1] = TopBlock + 3]
    BY <1>1, <1>2 DEF TornLists
  <2>2. \A x \in Entry : index[Top][x] # 0
    BY <2>1, Numbers DEF FirstList
  <2>3. QED
    BY <2>2, Numbers DEF Used
<1>4. Cardinality(0..(PER_INDEX - 1)) = PER_INDEX
  BY FS_Interval, Numbers
<1>5. QED
  BY <1>2, <1>3, <1>4, Numbers DEF Torn, Room

\* With the lists in order nothing is torn, and access_file visits the blocks
\* in their order.
LEMMA Visits ==
    \A c \in 0..TopBlock : Layout /\ Lists(c) => ~Torn /\ FileBlocks = Blocks(c)
<1>1. SUFFICES ASSUME NEW c \in 0..TopBlock, Layout, Lists(c)
               PROVE  ~Torn /\ FileBlocks = Blocks(c)
  OBVIOUS
<1> DEFINE n == inode.i_blocks
           direct == [k \in 1..(IF n < NDIRECT THEN n ELSE NDIRECT) |-> inode.i_block[k - 1]]
           first == IF n > NDIRECT THEN List(0) ELSE <<>>
           second == IF n > NDIRECT + 1
                     THEN FlattenSeq([k \in 1..Room(Top) |-> List(index[Top][k - 1])]) ELSE <<>>
<1>2. inode.i_block = Pointers(n) /\ n \in 0..(NDIRECT + 2)
  BY <1>1 DEF Layout, Inodes
<1>3. direct = [k \in 1..(IF c < NDIRECT THEN c ELSE NDIRECT) |-> k]
  <2>1. \A k \in 1..(IF n < NDIRECT THEN n ELSE NDIRECT) : inode.i_block[k - 1] = k
    BY <1>2, Numbers DEF Pointers
  <2>2. (IF n < NDIRECT THEN n ELSE NDIRECT) = (IF c < NDIRECT THEN c ELSE NDIRECT)
    BY <1>1, Numbers DEF Lists
  <2>3. QED
    BY <2>1, <2>2
<1>8. FileBlocks = direct \o first \o second
  BY DEF FileBlocks
<1>9. Torn <=> n > NDIRECT + 1 /\ Room(Top) > 1
  BY DEF Torn
<1>10.
      /\ n <= NDIRECT => first = <<>>
      /\ n > NDIRECT => first = List(0)
      /\ n <= NDIRECT + 1 => second = <<>>
      /\ n > NDIRECT + 1 => second = FlattenSeq([k \in 1..Room(Top) |-> List(index[Top][k - 1])])
  BY <1>2, Numbers
<1>11. Lists(c) /\ n = inode.i_blocks
  BY <1>1
<1> HIDE DEF n, direct, first, second
<1>4. CASE c <= NDIRECT
  <2>1. n = c
    BY <1>11, <1>4 DEF Lists
  <2>2. first = <<>> /\ second = <<>> /\ ~Torn
    BY <1>4, <2>1, <1>9, <1>10, Numbers
  <2>3. direct = Blocks(c)
    BY <1>3, <1>4, Numbers DEF Blocks, BlockAt
  <2>4. Blocks(c) \o <<>> \o <<>> = Blocks(c)
    BY Numbers DEF Blocks
  <2>5. QED
    BY <2>2, <2>3, <2>4, <1>8
<1>5. CASE c > NDIRECT /\ c < TopBlock
  <2>1. n = NDIRECT + 1 /\ index[0] = FirstList(c - NDIRECT)
    BY <1>11, <1>5, Numbers DEF Lists
  <2>2. second = <<>> /\ ~Torn
    BY <2>1, <1>9, <1>10, Numbers
  <2>3. c - NDIRECT \in 1..PER_INDEX
    BY <1>5, Numbers
  <2>4. Room(0) = c - NDIRECT
    BY <2>1, <2>3, RoomOfList, Numbers
  <2>5. List(0) = [k \in 1..(c - NDIRECT) |-> NDIRECT + k]
    <3>1. \A k \in 1..(c - NDIRECT) : k - 1 \in Entry /\ k - 1 < c - NDIRECT
      BY <2>3, Numbers
    <3>2. \A k \in 1..(c - NDIRECT) : index[0][k - 1] = NDIRECT + k
      BY <2>1, <2>3, <3>1, Numbers DEF FirstList
    <3>3. QED
      BY <2>4, <3>2 DEF List
  <2>6. first = [k \in 1..(c - NDIRECT) |-> NDIRECT + k]
    BY <2>1, <2>5, <1>10, Numbers
  <2>7. direct = [k \in 1..NDIRECT |-> k]
    BY <1>3, <1>5, Numbers
  <2>8. [k \in 1..NDIRECT |-> k] \o [k \in 1..(c - NDIRECT) |-> NDIRECT + k] \o <<>> = Blocks(c)
    BY <1>5, Numbers DEF Blocks, BlockAt
  <2>9. QED
    BY <1>8, <2>2, <2>6, <2>7, <2>8
<1>6. CASE c = TopBlock
  <2>1. /\ n = NDIRECT + 2 /\ index[0] = FirstList(PER_INDEX)
        /\ index[TopBlock] = Single(TopBlock + 1) /\ index[TopBlock + 1] = Single(TopBlock + 2)
    BY <1>11, <1>6, Numbers DEF Lists
  <2>2. Top = TopBlock
    <3>1. Pointers(n)[NDIRECT + 1] = TopBlock
      BY <2>1, Numbers DEF Pointers
    <3>2. QED
      BY <3>1, <1>2 DEF Top
  <2>3. Room(Top) = 1 /\ index[Top][0] = TopBlock + 1
    BY <2>1, <2>2, RoomOfSingle, Numbers
  <2>4. ~Torn
    BY <2>3, <1>9
  <2>5. Room(0) = PER_INDEX
    BY <2>1, RoomOfList, Numbers
  <2>6. List(0) = [k \in 1..PER_INDEX |-> NDIRECT + k]
    <3>1. \A k \in 1..PER_INDEX : k - 1 \in Entry /\ k - 1 < PER_INDEX
      BY Numbers
    <3>2. \A k \in 1..PER_INDEX : index[0][k - 1] = NDIRECT + k
      BY <2>1, <3>1, Numbers DEF FirstList
    <3>3. QED
      BY <2>5, <3>2 DEF List
  <2>7. first = [k \in 1..PER_INDEX |-> NDIRECT + k]
    BY <2>1, <2>6, <1>10, Numbers
  <2>8. Room(TopBlock + 1) = 1 /\ index[TopBlock + 1][0] = TopBlock + 2
    BY <2>1, RoomOfSingle, Numbers
  <2>9. List(TopBlock + 1) = <<TopBlock + 2>>
    BY <2>8 DEF List
  <2>10. second = <<TopBlock + 2>>
    <3>1. [k \in 1..Room(Top) |-> List(index[Top][k - 1])] = [k \in 1..1 |-> <<TopBlock + 2>>]
      BY <2>3, <2>9
    <3>2. second = FlattenSeq([k \in 1..Room(Top) |-> List(index[Top][k - 1])])
      BY <2>1, <1>10, Numbers
    <3>3. QED
      BY <3>1, <3>2, FlattenOne
  <2>11. direct = [k \in 1..NDIRECT |-> k]
    BY <1>3, <1>6, Numbers
  <2>12. [k \in 1..NDIRECT |-> k] \o [k \in 1..PER_INDEX |-> NDIRECT + k] \o <<TopBlock + 2>>
           = Blocks(TopBlock)
    <3> DEFINE s == [k \in 1..NDIRECT |-> k] \o [k \in 1..PER_INDEX |-> NDIRECT + k]
    <3>1. s = [k \in 1..(TopBlock - 1) |-> k]
      BY Numbers
    <3> HIDE DEF s
    <3>2. s \o <<TopBlock + 2>> = Blocks(TopBlock)
      BY <3>1, Numbers DEF Blocks, BlockAt
    <3>3. QED
      BY <3>2 DEF s
  <2>13. QED
    BY <1>8, <1>6, <2>4, <2>7, <2>10, <2>11, <2>12
<1>7. QED
  BY <1>4, <1>5, <1>6, Numbers

-----------------------------------------------------------------------------
(* The lists, as blocks are added.                                          *)

Visited ==
    \A c \in 0..TopBlock : Layout /\ Lists(c) =>
        ~Torn /\ FileBlocks = Blocks(c) /\ Count = c

\* The same, with the number of blocks.
LEMMA VisitedAll == Visited
<1>1. \A c \in 0..TopBlock : Len(Blocks(c)) = c
  BY Numbers DEF Blocks
<1>2. QED
  BY <1>1, Visits DEF Visited, Count

\* As many blocks are visited as the lists have.
LEMMA Counts == \A c \in 0..TopBlock : Layout /\ Lists(c) => ~Torn /\ Count = c
  BY VisitedAll DEF Visited

\* A volume whose second index is not torn has its lists in order.
LEMMA InLists == Layout /\ ~Torn => Count \in 0..TopBlock /\ Lists(Count)
<1>1. SUFFICES ASSUME Layout, ~Torn PROVE Count \in 0..TopBlock /\ Lists(Count)
  OBVIOUS
<1>2. PICK c \in 0..TopBlock : Lists(c)
  BY <1>1, RoomOfTorn DEF Layout
<1>3. Count = c
  BY <1>1, <1>2, Counts
<1>4. QED
  BY <1>2, <1>3

Grown(e, x, b, n) == [e EXCEPT !.i_block[x] = b, !.i_blocks = n]
Written(ix, a, v, b, w) == [ix EXCEPT ![a] = v, ![b] = w]

\* An inode that is given another pointer.
LEMMA InodeGrown ==
    ASSUME NEW e \in Inodes, NEW n \in 0..(NDIRECT + 2), NEW x \in 0..(NDIRECT + 1),
           NEW b \in Int, NEW f, f = Grown(e, x, b, n)
    PROVE  /\ f \in Inodes /\ f.i_blocks = n /\ f.i_size = e.i_size
           /\ f.i_block = [e.i_block EXCEPT ![x] = b]
<1>1. f = [e EXCEPT !.i_block = [e.i_block EXCEPT ![x] = b], !.i_blocks = n]
  BY DEF Inodes, Grown
<1>2. [e.i_block EXCEPT ![x] = b] \in [0..(NDIRECT + 1) -> Int]
  BY DEF Inodes
<1>3. QED
  BY <1>1, <1>2 DEF Inodes

\* An inode that counts one block more.
LEMMA InodeCounts ==
    ASSUME NEW e \in Inodes, NEW n \in 0..(NDIRECT + 2), NEW f, f = [e EXCEPT !.i_blocks = n]
    PROVE  /\ f \in Inodes /\ f.i_blocks = n /\ f.i_size = e.i_size
           /\ f.i_block = e.i_block
  BY DEF Inodes

\* Two lists that are written.
LEMMA ListsWritten ==
    ASSUME NEW ix \in Indexes, NEW a \in {0} \cup Block, NEW b \in {0} \cup Block,
           NEW v \in [Entry -> Int], NEW w \in [Entry -> Int], a # b,
           NEW iy, iy = Written(ix, a, v, b, w)
    PROVE  /\ iy \in Indexes /\ iy[a] = v /\ iy[b] = w
           /\ \A x \in {0} \cup Block : x # a /\ x # b => iy[x] = ix[x]
<1>1. iy = [x \in {0} \cup Block |-> IF x = b THEN w ELSE IF x = a THEN v ELSE ix[x]]
  BY DEF Indexes, Written
<1>2. QED
  BY <1>1 DEF Indexes

\* A block in the inode.
LEMMA AddsDirect ==
    ASSUME Layout, NEW c \in 0..TopBlock, Lists(c), DirectBlock
    PROVE  /\ c < TopBlock /\ Layout' /\ Lists(c + 1)' /\ block_num' = BlockAt(c + 1)
           /\ inode'.i_size = inode.i_size
<1>1. inode.i_blocks = c /\ c < NDIRECT /\ free = c + 1 /\ index[0] = DIRECTORY
  BY Numbers DEF DirectBlock, Lists
<1>2. /\ inode' = Grown(inode, c, c + 1, c + 1)
      /\ index' = index /\ free' = c + 2 /\ block_num' = c + 1
  <2>1. /\ inode' = [inode EXCEPT !.i_block[inode.i_blocks] = free, !.i_blocks = @ + 1]
        /\ index' = index /\ free' = free + 0 + 1 /\ block_num' = free + 0
    BY DEF DirectBlock, Takes
  <2>2. c + 1 + 0 + 1 = c + 2 /\ c + 1 + 0 = c + 1
    BY Numbers
  <2>3. inode' = [inode EXCEPT !.i_block[inode.i_blocks] = free, !.i_blocks = inode.i_blocks + 1]
    BY <2>1
  <2>4. QED
    BY <1>1, <2>1, <2>2, <2>3 DEF Grown
<1>3. inode \in Inodes /\ inode.i_block = Pointers(c)
  BY <1>1 DEF Layout
<1>4. c \in 0..(NDIRECT + 1) /\ c + 1 \in 0..(NDIRECT + 2) /\ c + 1 \in Int
  BY <1>1, Numbers
<1>5. /\ inode' \in Inodes /\ inode'.i_blocks = c + 1 /\ inode'.i_size = inode.i_size
      /\ inode'.i_block = [Pointers(c) EXCEPT ![c] = c + 1]
  BY <1>2, <1>3, <1>4, InodeGrown
<1>6. [Pointers(c) EXCEPT ![c] = c + 1] = Pointers(c + 1)
  <2>1. \A x \in 0..(NDIRECT + 1) : x < c + 1 <=> x = c \/ x < c
    BY <1>1, Numbers
  <2>2. c < NDIRECT /\ c # NDIRECT + 1 /\ c # NDIRECT + 2 /\ c + 1 # NDIRECT + 2
    BY <1>1, Numbers
  <2>3. QED
    BY <1>1, <1>4, <2>1, <2>2 DEF Pointers
<1>7. Lists(c + 1)'
  BY <1>1, <1>2, <1>5, Numbers DEF Lists
<1>8. c + 1 \in 0..TopBlock
  BY <1>1, Numbers
<1>9. Layout'
  BY <1>2, <1>5, <1>6, <1>7, <1>8 DEF Layout
<1>10. QED
  BY <1>1, <1>2, <1>5, <1>7, <1>9, Numbers DEF BlockAt

\* The first block in the first index.
LEMMA AddsFirst ==
    ASSUME Layout, NEW c \in 0..TopBlock, Lists(c), FirstIndex
    PROVE  /\ c < TopBlock /\ Layout' /\ Lists(c + 1)' /\ block_num' = BlockAt(c + 1)
           /\ inode'.i_size = inode.i_size
<1> DEFINE n == inode.i_blocks
<1>1. n = NDIRECT /\ c = NDIRECT /\ free = c + 1
  BY Numbers DEF FirstIndex, Lists
<1>2. /\ inode' = [inode EXCEPT !.i_blocks = NDIRECT + 1]
      /\ index' = [index EXCEPT ![0] = Single(c + 1)]
      /\ free' = free + 1 /\ block_num' = free
  BY <1>1, Numbers DEF FirstIndex, Takes
<1>3. /\ inode \in Inodes
      /\ index \in Indexes
  BY DEF Layout
<1>4. /\ inode'.i_blocks = NDIRECT + 1 /\ inode'.i_block = inode.i_block
      /\ inode' \in Inodes /\ inode'.i_size = inode.i_size
  <2>1. NDIRECT + 1 \in 0..(NDIRECT + 2)
    BY Numbers
  <2>2. QED
    BY <1>2, <1>3, <2>1, InodeCounts
<1>5. inode'.i_block = Pointers(NDIRECT + 1)
  <2>1. inode.i_block = Pointers(NDIRECT)
    BY <1>1 DEF Layout
  <2>2. QED
    BY <1>4, <2>1, Numbers DEF Pointers
<1>6. Single(c + 1) = FirstList(1) /\ Single(c + 1) \in [Entry -> Int]
  BY <1>1, Numbers DEF Single, FirstList
<1>7. index' \in Indexes /\ index'[0] = FirstList(1)
  BY <1>2, <1>3, <1>6 DEF Indexes
<1>8. Lists(c + 1)'
  BY <1>1, <1>2, <1>4, <1>7, Numbers DEF Lists
<1>9. c + 1 \in 0..TopBlock
  BY <1>1, Numbers
<1>10. Layout'
  BY <1>4, <1>5, <1>7, <1>8, <1>9 DEF Layout
<1>11. QED
  BY <1>1, <1>2, <1>4, <1>8, <1>10, Numbers DEF BlockAt

\* Another one in the first index.
LEMMA AddsInFirst ==
    ASSUME Layout, NEW c \in 0..TopBlock, Lists(c), InFirstIndex
    PROVE  /\ c < TopBlock /\ Layout' /\ Lists(c + 1)' /\ block_num' = BlockAt(c + 1)
           /\ inode'.i_size = inode.i_size
<1> DEFINE m == c - NDIRECT
<1>1. inode.i_blocks = NDIRECT + 1 /\ c > NDIRECT /\ c < TopBlock /\ free = c + 1
  BY Numbers DEF InFirstIndex, Lists
<1>2. m \in 1..PER_INDEX /\ index[0] = FirstList(m)
  BY <1>1, Numbers DEF Lists
<1>3. Used(0) = 0..(m - 1) /\ Room(0) = m
  BY <1>2, RoomOfList, Numbers
<1>4. m < PER_INDEX
  BY <1>2, <1>3, Numbers DEF InFirstIndex
<1>5. /\ inode' = inode
      /\ index' = [index EXCEPT ![0] = [FirstList(m) EXCEPT ![m] = c + 1]]
      /\ free' = c + 2 /\ block_num' = c + 1
  <2>1. /\ inode' = inode /\ index' = [index EXCEPT ![0][Room(0)] = free]
        /\ free' = free + 0 + 1 /\ block_num' = free + 0
    BY DEF InFirstIndex, Takes
  <2>2. index' = [index EXCEPT ![0] = [index[0] EXCEPT ![Room(0)] = free]]
    BY <2>1
  <2>3. c + 1 + 0 + 1 = c + 2 /\ c + 1 + 0 = c + 1
    BY Numbers
  <2>4. QED
    BY <1>1, <1>2, <1>3, <2>1, <2>2, <2>3
<1>6. [FirstList(m) EXCEPT ![m] = c + 1] = FirstList(m + 1)
  <2>1. m \in Entry /\ c + 1 = NDIRECT + 1 + m /\ m + 1 \in Nat
    BY <1>2, <1>4, Numbers
  <2>2. \A x \in Entry : x < m + 1 <=> x = m \/ x < m
    BY <1>2, Numbers
  <2>3. QED
    BY <2>1, <2>2, <1>2 DEF FirstList
<1>7. FirstList(m + 1) \in [Entry -> Int]
  BY <1>2, Numbers DEF FirstList
<1>8. index' \in Indexes /\ index'[0] = FirstList(m + 1)
  BY <1>5, <1>6, <1>7 DEF Layout, Indexes
<1>9. m + 1 = (c + 1) - NDIRECT /\ c + 1 \in 0..TopBlock /\ c + 1 < TopBlock
  BY <1>1, <1>2, <1>4, Numbers
<1>10. Lists(c + 1)'
  BY <1>1, <1>5, <1>8, <1>9, Numbers DEF Lists
<1>11. Layout'
  BY <1>5, <1>8, <1>9, <1>10 DEF Layout
<1>12. QED
  BY <1>1, <1>5, <1>9, <1>10, <1>11, Numbers DEF BlockAt

\* The first block in the second index.
LEMMA AddsSecond ==
    ASSUME Layout, NEW c \in 0..TopBlock, Lists(c), SecondIndex
    PROVE  /\ c < TopBlock /\ Layout' /\ Lists(c + 1)' /\ block_num' = BlockAt(c + 1)
           /\ inode'.i_size = inode.i_size
<1>1. inode.i_blocks = NDIRECT + 1 /\ c > NDIRECT /\ c < TopBlock /\ free = c + 1
  BY Numbers DEF SecondIndex, Lists
<1>2. c - NDIRECT \in 1..PER_INDEX /\ index[0] = FirstList(c - NDIRECT)
  BY <1>1, Numbers DEF Lists
<1>3. Used(0) = 0..(c - NDIRECT - 1)
  BY <1>2, RoomOfList, Numbers
<1>4. c - NDIRECT = PER_INDEX
  <2>1. PER_INDEX - 1 \in 0..(c - NDIRECT - 1)
    BY <1>3, Numbers DEF SecondIndex
  <2>2. QED
    BY <1>2, <2>1, Numbers
<1>5. c + 1 = TopBlock /\ free = TopBlock /\ index[0] = FirstList(PER_INDEX)
  BY <1>1, <1>2, <1>4, Numbers
<1>6. /\ inode' = Grown(inode, NDIRECT + 1, TopBlock, NDIRECT + 2)
      /\ index' = Written(index, TopBlock, Single(TopBlock + 1), TopBlock + 1, Single(TopBlock + 2))
      /\ free' = TopBlock + 3 /\ block_num' = TopBlock + 2
  <2>1. /\ inode' = [inode EXCEPT !.i_block[NDIRECT + 1] = free, !.i_blocks = @ + 1]
        /\ index' = [index EXCEPT ![free] = Single(free + 1), ![free + 1] = Single(free + 2)]
        /\ free' = free + 2 + 1 /\ block_num' = free + 2
    BY DEF SecondIndex, Takes
  <2>2. inode' = [inode EXCEPT !.i_block[NDIRECT + 1] = free, !.i_blocks = inode.i_blocks + 1]
    BY <2>1
  <2>3. TopBlock + 2 + 1 = TopBlock + 3 /\ NDIRECT + 1 + 1 = NDIRECT + 2
    BY Numbers
  <2>4. QED
    BY <1>1, <1>5, <2>1, <2>2, <2>3 DEF Grown, Written
<1>7. /\ inode \in Inodes
      /\ index \in Indexes
      /\ inode.i_block = Pointers(NDIRECT + 1)
  BY <1>1 DEF Layout
<1>8. /\ inode'.i_blocks = NDIRECT + 2 /\ inode'.i_size = inode.i_size
      /\ inode'.i_block = [inode.i_block EXCEPT ![NDIRECT + 1] = TopBlock]
      /\ inode' \in Inodes
  <2>1. NDIRECT + 1 \in 0..(NDIRECT + 1) /\ NDIRECT + 2 \in 0..(NDIRECT + 2) /\ TopBlock \in Int
    BY Numbers
  <2>2. QED
    BY <1>6, <1>7, <2>1, InodeGrown
<1>9. inode'.i_block = Pointers(NDIRECT + 2)
  <2>1. [Pointers(NDIRECT + 1) EXCEPT ![NDIRECT + 1] = TopBlock] = Pointers(NDIRECT + 2)
    <3>1. \A x \in 0..(NDIRECT + 1) : x < NDIRECT => x < NDIRECT + 1 /\ x < NDIRECT + 2
      BY Numbers
    <3>2. NDIRECT + 1 # NDIRECT + 2 /\ ~(NDIRECT + 1 < NDIRECT) /\ NDIRECT + 1 \in 0..(NDIRECT + 1)
      BY Numbers
    <3>3. QED
      BY <3>1, <3>2 DEF Pointers
  <2>2. QED
    BY <1>7, <1>8, <2>1
<1>10. Single(TopBlock + 1) \in [Entry -> Int] /\ Single(TopBlock + 2) \in [Entry -> Int]
  BY Numbers DEF Single
<1>11. /\ index' \in Indexes
       /\ index'[0] = FirstList(PER_INDEX)
       /\ index'[TopBlock] = Single(TopBlock + 1)
       /\ index'[TopBlock + 1] = Single(TopBlock + 2)
  <2>1. /\ {0, TopBlock, TopBlock + 1} \subseteq {0} \cup Block
        /\ TopBlock # TopBlock + 1 /\ 0 # TopBlock /\ 0 # TopBlock + 1
    BY Numbers
  <2>2. QED
    BY <1>5, <1>6, <1>7, <1>10, <2>1, ListsWritten
<1>12. Lists(TopBlock)'
  BY <1>6, <1>8, <1>11, Numbers DEF Lists
<1>13. Layout'
  <2>1. TopBlock \in 0..TopBlock /\ inode'.i_block = Pointers(inode'.i_blocks)
    BY <1>8, <1>9, Numbers
  <2>2. QED
    BY <1>8, <1>11, <1>12, <2>1 DEF Layout
<1>14. QED
  BY <1>5, <1>6, <1>8, <1>12, <1>13, Numbers DEF BlockAt

\* The next one is written into the second index itself.
LEMMA AddsTearing ==
    ASSUME Layout, NEW c \in 0..TopBlock, Lists(c), InSecondIndex
    PROVE  c = TopBlock /\ Layout' /\ TornLists'
<1>1. /\ inode.i_blocks = NDIRECT + 2 /\ c = TopBlock /\ free = TopBlock + 3
      /\ index[0] = FirstList(PER_INDEX) /\ index[TopBlock] = Single(TopBlock + 1)
  BY Numbers DEF InSecondIndex, Lists
<1>2. Top = TopBlock
  BY <1>1, Numbers DEF Layout, Pointers, Top
<1>3. Room(TopBlock) = 1
  <2>1. TopBlock \in Nat /\ TopBlock + 1 \in Nat \ {0}
    BY Numbers
  <2>2. QED
    BY <1>1, <2>1, RoomOfSingle
<1>4. index[TopBlock][1] = 0
  BY <1>1, Numbers DEF Single
<1>5. inode' = inode
      /\ index' = [index EXCEPT ![TopBlock] = [index[index[TopBlock][1]] EXCEPT ![1] = TopBlock + 3],
                                ![TopBlock + 3] = Single(TopBlock + 4)]
  <2>1. inode' = inode
        /\ index' = [index EXCEPT ![Top] = [index[index[Top][Room(Top)]] EXCEPT ![Room(Top)] = free],
                                  ![free] = Single(free + 1)]
    BY DEF InSecondIndex
  <2>2. TopBlock + 3 + 1 = TopBlock + 4
    BY Numbers
  <2>3. QED
    BY <1>1, <1>2, <1>3, <2>1, <2>2
<1>6. index' = Written(index, TopBlock, [FirstList(PER_INDEX) EXCEPT ![1] = TopBlock + 3],
                       TopBlock + 3, Single(TopBlock + 4))
  BY <1>1, <1>4, <1>5 DEF Written
<1>7. /\ Single(TopBlock + 4) \in [Entry -> Int]
      /\ [FirstList(PER_INDEX) EXCEPT ![1] = TopBlock + 3] \in [Entry -> Int]
  BY Numbers DEF Single, FirstList
<1>8. index \in Indexes
  BY DEF Layout
<1>9. /\ index' \in Indexes
      /\ index'[0] = FirstList(PER_INDEX)
      /\ index'[TopBlock] = [FirstList(PER_INDEX) EXCEPT ![1] = TopBlock + 3]
  <2>1. /\ {0, TopBlock, TopBlock + 3} \subseteq {0} \cup Block
        /\ TopBlock # TopBlock + 3 /\ 0 # TopBlock /\ 0 # TopBlock + 3
    BY Numbers
  <2>2. QED
    <3> DEFINE v == [FirstList(PER_INDEX) EXCEPT ![1] = TopBlock + 3]
               b == TopBlock + 3
               w == Single(TopBlock + 4)
    <3>1. /\ v \in [Entry -> Int] /\ w \in [Entry -> Int]
          /\ index' = Written(index, TopBlock, v, b, w)
      BY <1>6, <1>7
    <3>2. /\ 0 \in {0} \cup Block /\ TopBlock \in {0} \cup Block /\ b \in {0} \cup Block
          /\ TopBlock # b /\ 0 # TopBlock /\ 0 # b
      BY <2>1
    <3> HIDE DEF v, b, w
    <3>3. index' \in Indexes /\ index'[0] = index[0] /\ index'[TopBlock] = v
      BY <1>8, <3>1, <3>2, ListsWritten
    <3>4. QED
      BY <1>1, <3>3 DEF v
<1>10. TornLists'
  BY <1>1, <1>5, <1>9 DEF TornLists
<1>11. QED
  BY <1>1, <1>5, <1>9, <1>10 DEF Layout

\* A block more, or the second index is torn.
LEMMA Adds ==
    ASSUME Layout, add_file_block, NEW c \in 0..TopBlock, Lists(c)
    PROVE  /\ Layout'
           /\ c < TopBlock => /\ Lists(c + 1)' /\ block_num' = BlockAt(c + 1)
                              /\ inode'.i_size = inode.i_size
           /\ c = TopBlock => TornLists'
<1>1. CASE InSecondIndex
  BY <1>1, AddsTearing, Numbers
<1>2. CASE DirectBlock
  BY <1>2, AddsDirect, Numbers
<1>3. CASE FirstIndex
  BY <1>3, AddsFirst, Numbers
<1>4. CASE InFirstIndex
  BY <1>4, AddsInFirst, Numbers
<1>5. CASE SecondIndex
  BY <1>5, AddsSecond, Numbers
<1>6. QED
  BY <1>1, <1>2, <1>3, <1>4, <1>5 DEF add_file_block

\* Other steps leave the lists alone.
Same ==
    /\ UNCHANGED <<index, free>>
    /\ inode' \in Inodes /\ inode'.i_blocks = inode.i_blocks /\ inode'.i_block = inode.i_block

\* They stay what they are.
LEMMA SameLayout ==
    ASSUME Layout, Same
    PROVE  /\ Layout' /\ (Torn' <=> Torn)
           /\ \A c \in 0..TopBlock : Lists(c) => Lists(c)'
<1>1. /\ index' = index /\ free' = free /\ inode' \in Inodes
      /\ inode'.i_blocks = inode.i_blocks /\ inode'.i_block = inode.i_block
  BY DEF Same
<1>2. \A c \in 0..TopBlock : Lists(c) => Lists(c)'
  BY <1>1 DEF Lists
<1>3. TornLists => TornLists'
  BY <1>1 DEF TornLists
<1>4. Layout'
  BY <1>1, <1>2, <1>3 DEF Layout
<1>5. Room(Top)' = Room(Top)
  BY <1>1 DEF Room, Used, Top
<1>6. QED
  BY <1>1, <1>2, <1>4, <1>5 DEF Torn

\* A size is a number.
LEMMA SizeIsNat ==
    /\ \A n \in Int : n % SIZE_MOD \in 0..(SIZE_MOD - 1)
    /\ \A n \in Int : n % USHORT \in 0..(USHORT - 1)
<1>1. SIZE_MOD \in Nat \ {0} /\ USHORT \in Nat \ {0}
  BY FileAssumption, CharsAssumption
<1>2. QED
  BY <1>1

\* A step adds a block to lists in order, or it leaves them alone.
LEMMA DiskSteps ==
    ASSUME LaidOut, [Next]_vars, ~KillIndexed
    PROVE  (~Torn /\ add_file_block) \/ Same
<1>1. inode \in Inodes /\ new_size \in Nat
  BY DEF LaidOut, Layout
<1>2. CASE UNCHANGED <<index, free, inode>>
  BY <1>1, <1>2 DEF Same
<1>3. CASE Finish
  <2> DEFINE m == (inode.i_size + new_size - 1) % SIZE_MOD
  <2>1. inode' = [inode EXCEPT !.i_size = m] /\ index' = index /\ free' = free
    BY <1>3 DEF Finish
  <2>2. m \in Nat
    <3>1. inode.i_size \in Nat
      BY <1>1 DEF Inodes
    <3>2. inode.i_size + new_size - 1 \in Int
      BY <1>1, <3>1
    <3>3. m \in 0..(SIZE_MOD - 1)
      BY <3>2, SizeIsNat
    <3>4. QED
      BY <3>3, FileAssumption
  <2> HIDE DEF m
  <2>3. QED
    BY <1>1, <2>1, <2>2 DEF Inodes, Same
<1>4. CASE WriteFirst \/ WriteNextBlock
  BY <1>4 DEF WriteFirst, WriteNextBlock, Begins, GoesOn
<1>5. CASE StoreChar
  <2>1. CASE pos + 1 < BLOCK_SIZE
    BY <1>5, <2>1, <1>2 DEF StoreChar, disk
  <2>2. CASE ~(pos + 1 < BLOCK_SIZE)
    BY <1>5, <2>2 DEF StoreChar, GoesOn, LaidOut, Stops
  <2>3. QED
    BY <2>1, <2>2
<1>6. CASE WriteInside \/ WriteAstray
  BY <1>6, <1>2 DEF WriteInside, WriteAstray, disk
<1>7. CASE SetHandler \/ SetFlag \/ While \/ GetChar \/ Break
  BY <1>7, <1>2 DEF SetHandler, SetFlag, While, GetChar, Break, disk
<1>8. CASE stopWrite \/ Kill \/ KillWritten \/ Reopen
  BY <1>8, <1>2 DEF stopWrite, Kill, KillWritten, Reopen, disk
<1>9. CASE UNCHANGED vars
  BY <1>9, <1>2 DEF vars
<1>10. QED
  BY <1>3, <1>4, <1>5, <1>6, <1>7, <1>8, <1>9 DEF Next, write, goes_on, kill

\* The blocks of the file are taken.
LEMMA BelowFree ==
    \A c \in 0..TopBlock : Lists(c) => free \in Nat /\ \A k \in 1..c : BlockAt(k) < free
  BY Numbers DEF Lists, BlockAt

\* Nothing but a kill happens to a file out of reach, and that changes nothing.
LEMMA StaysGone ==
    ASSUME Gone, [Next]_vars
    PROVE  Gone' /\ UNCHANGED disk /\ ~KillIndexed
<1>1. pc = "shell" /\ ~opened /\ ~Found /\ index[0] # DIRECTORY
  BY DEF Gone, Found
<1>2. ~write /\ ~goes_on /\ ~GetChar /\ ~KillWritten /\ ~KillIndexed /\ ~Reopen
  BY <1>1 DEF write, WriteFirst, WriteInside, WriteNextBlock, WriteAstray, Begins, goes_on,
              SetHandler, SetFlag, While, Break, StoreChar, Finish, GetChar, KillWritten,
              KillIndexed, Fills, Reopen
<1>3. CASE Kill
  BY <1>1, <1>3, <1>2 DEF Kill, Killed, Gone, disk
<1>4. CASE stopWrite \/ UNCHANGED vars
  BY <1>4, <1>2 DEF stopWrite, Gone, disk, place, vars
<1>5. QED
  BY <1>2, <1>3, <1>4 DEF Next, kill

\* A kill over the first index leaves a file out of reach.
LEMMA IndexLost == LaidOut /\ KillIndexed => Gone'
<1>1. SUFFICES ASSUME LaidOut, KillIndexed PROVE Gone'
  OBVIOUS
<1>2. /\ inode.i_blocks = NDIRECT /\ inode' = inode
      /\ index' = [index EXCEPT ![0] = Single(free)]
      /\ pc' = "shell" /\ opened' = FALSE /\ cut' = TRUE
  BY <1>1 DEF KillIndexed, Killed
<1>3. /\ inode.i_block = Pointers(inode.i_blocks)
      /\ index \in Indexes
      /\ free \in Nat
  <2>1. Layout
    BY <1>1 DEF LaidOut
  <2>2. CASE TornLists
    BY <1>2, <2>2, Numbers DEF TornLists
  <2>3. CASE \E c \in 0..TopBlock : Lists(c)
    BY <2>1, <2>3, BelowFree DEF Layout
  <2>4. QED
    BY <2>1, <2>2, <2>3 DEF Layout
<1>4. Single(free)[0] = free /\ DIRECTORY[0] = -1 /\ 0 \in Entry
  BY Numbers DEF Single, DIRECTORY, STALE
<1>5. index'[0] # DIRECTORY
  BY <1>2, <1>3, <1>4 DEF Indexes
<1>6. QED
  BY <1>2, <1>5, Numbers DEF Gone

\* Otherwise it was not out of reach before either.
LEMMA NotYetGone ==
    ASSUME LayoutInv, [Next]_vars, ~Gone'
    PROVE  LaidOut /\ ~Gone /\ ~KillIndexed
  BY StaysGone, IndexLost DEF LayoutInv

\* The lists are in order from the first block on, or the second index is torn.
THEOREM LayoutStays == Spec => []LayoutInv
<1>1. Init => LayoutInv
  <2> SUFFICES ASSUME Init PROVE LaidOut
    BY DEF LayoutInv
  <2>1. DIRECTORY \in [Entry -> Int] /\ index \in Indexes /\ index[0] = DIRECTORY
    BY DEF Init, Indexes, DIRECTORY, STALE
  <2>2. /\ inode \in Inodes /\ inode.i_blocks = 0
        /\ inode.i_block = [x \in 0..(NDIRECT + 1) |-> 0]
    BY Numbers DEF Init, Inodes
  <2>3. inode.i_block = Pointers(0)
    BY <2>2, Numbers DEF Pointers
  <2>4. Lists(0) /\ 0 \in 0..TopBlock
    BY <2>1, <2>2, Numbers DEF Init, Lists
  <2>5. Layout
    BY <2>1, <2>2, <2>3, <2>4 DEF Layout
  <2>6. QED
    BY <2>5 DEF Init, LaidOut, Stops
<1>2. LayoutInv /\ [Next]_vars => LayoutInv'
  <2> SUFFICES ASSUME LaidOut, [Next]_vars, ~KillIndexed PROVE LaidOut'
    BY StaysGone, IndexLost DEF LayoutInv
  <2>1. Layout /\ Stops /\ new_size \in Nat
    BY DEF LaidOut
  <2>2. Layout'
    <3>1. CASE ~Torn /\ add_file_block
      BY <2>1, <3>1, InLists, Adds
    <3>2. CASE Same
      BY <2>1, <3>2, SameLayout
    <3>3. QED
      BY <3>1, <3>2, DiskSteps
  <2>3. Stops'
    <3>1. CASE GetChar
      <4>1. Same
        BY <3>1, <2>1 DEF GetChar, disk, Same, Layout
      <4>2. QED
        BY <3>1, <2>1, <4>1, SameLayout DEF GetChar, Stops
    <3>2. CASE UNCHANGED vars
      <4>1. Same
        BY <3>2, <2>1 DEF vars, Same, Layout
      <4>2. QED
        BY <3>2, <2>1, <4>1, SameLayout DEF vars, Stops
    <3>3. CASE stopWrite
      BY <3>3 DEF stopWrite, Stops
    <3>4. CASE WriteAstray
      BY <3>4 DEF WriteAstray, Stops
    <3>5. CASE WriteFirst \/ WriteInside \/ WriteNextBlock
      BY <3>5 DEF WriteFirst, WriteInside, WriteNextBlock, Begins, Stops
    <3>6. CASE SetHandler \/ SetFlag \/ While \/ Break \/ StoreChar \/ Finish
      BY <3>6 DEF SetHandler, SetFlag, While, Break, StoreChar, Finish, Stops
    <3>7. CASE Kill \/ KillWritten
      BY <3>7 DEF Kill, KillWritten, Killed, Stops
    <3>8. CASE Reopen
      BY <3>8 DEF Reopen, Stops
    <3>9. QED
      BY <3>1, <3>2, <3>3, <3>4, <3>5, <3>6, <3>7, <3>8 DEF Next, write, goes_on, kill
  <2>4. new_size' \in Nat
    <3>1. CASE StoreChar
      <4>1. new_size' = (new_size + 1) % USHORT /\ new_size + 1 \in Int
        BY <3>1, <2>1 DEF StoreChar
      <4>2. QED
        BY <4>1, SizeIsNat
    <3>2. CASE WriteFirst \/ WriteInside \/ WriteNextBlock \/ WriteAstray
      BY <3>2, <2>1 DEF WriteFirst, WriteInside, WriteNextBlock, WriteAstray, Begins, loop
    <3>3. CASE SetHandler \/ SetFlag \/ While \/ GetChar \/ Break
      BY <3>3, <2>1 DEF SetHandler, SetFlag, While, GetChar, Break, loop
    <3>4. CASE Finish \/ stopWrite \/ Kill \/ KillWritten \/ Reopen
      BY <3>4, <2>1 DEF Finish, stopWrite, Kill, KillWritten, Killed, Reopen, Left, loop
    <3>5. CASE UNCHANGED vars
      BY <3>5, <2>1 DEF vars
    <3>6. QED
      BY <3>1, <3>2, <3>3, <3>4, <3>5 DEF Next, write, goes_on, kill
  <2>5. QED
    BY <2>2, <2>3, <2>4 DEF LaidOut
<1>3. QED
  BY <1>1, <1>2, PTL DEF Spec

\* The root directory, which is block 0, is lost with the first block that does
\* not fit in the inode (add_file_block, L586-L592), and not before, but for a kill
\* between the write of block 0 (L591) and that of the inode (L649): the root is
\* lost one block before the inode says so, and no process has the file open.
THEOREM RootStays == Spec => []RootIntact
<1>1. LayoutInv => RootIntact
  <2>5. ASSUME Gone PROVE RootIntact
    <3>1. inode.i_blocks = NDIRECT => RootIntact
      BY <2>5 DEF Gone, RootIntact
    <3>2. inode.i_blocks # NDIRECT => RootIntact
      BY <2>5 DEF Gone, RootIntact
    <3>3. QED
      BY <3>1, <3>2
  <2> SUFFICES ASSUME LaidOut PROVE RootIntact
    BY <2>5 DEF LayoutInv
  <2>1. \A m \in 1..PER_INDEX : FirstList(m) # DIRECTORY
    <3>1. SUFFICES ASSUME NEW m \in 1..PER_INDEX PROVE FirstList(m) # DIRECTORY
      OBVIOUS
    <3>2. 0 \in Entry /\ FirstList(m)[0] = NDIRECT + 1 /\ DIRECTORY[0] = -1
      BY Numbers DEF FirstList, DIRECTORY, STALE
    <3>3. QED
      BY <3>2, Numbers
  <2>2. CASE TornLists
    BY <2>1, <2>2, Numbers DEF TornLists, RootIntact
  <2>3. ASSUME NEW c \in 0..TopBlock, Lists(c) PROVE RootIntact
    <3>1. CASE c <= NDIRECT
      BY <2>3, <3>1, Numbers DEF Lists, RootIntact
    <3>2. CASE c > NDIRECT /\ c < TopBlock
      <4>1. c - NDIRECT \in 1..PER_INDEX /\ index[0] = FirstList(c - NDIRECT)
            /\ inode.i_blocks = NDIRECT + 1
        BY <2>3, <3>2, Numbers DEF Lists
      <4>2. index[0] # DIRECTORY
        BY <4>1, <2>1
      <4>3. QED
        BY <4>1, <4>2, Numbers DEF RootIntact
    <3>3. CASE c = TopBlock
      BY <2>1, <2>3, <3>3, Numbers DEF Lists, RootIntact
    <3>4. QED
      BY <3>1, <3>2, <3>3, Numbers
  <2>4. QED
    BY <2>2, <2>3 DEF LaidOut, Layout
<1>2. QED
  BY <1>1, LayoutStays, PTL

\* A block added, unless the process is killed over it, is the next one that
\* access_file visits (L383-L432) and none before it is lost, up to the first
\* block of the second index; the one after it tears the second index (L617-L644).
THEOREM BlocksAlwaysAppend == Spec => BlocksAppend
<1> DEFINE P == free' # free /\ opened' =>
                  IF Len(FileBlocks) <= NDIRECT + PER_INDEX
                  THEN ~Torn' /\ FileBlocks' = Append(FileBlocks, block_num')
                  ELSE Torn'
<1>1. LayoutInv /\ [Next]_vars => P
  <2> SUFFICES ASSUME LayoutInv, [Next]_vars, free' # free, opened'
               PROVE  IF Len(FileBlocks) <= NDIRECT + PER_INDEX
                      THEN ~Torn' /\ FileBlocks' = Append(FileBlocks, block_num')
                      ELSE Torn'
    OBVIOUS
  <2>1. Layout /\ ~Torn /\ add_file_block
    <3>1. ~Gone'
      BY DEF Gone
    <3>2. LaidOut /\ ~KillIndexed
      BY <3>1, NotYetGone
    <3>3. QED
      BY <3>2, DiskSteps DEF Same, LaidOut
  <2>2. PICK c \in 0..TopBlock : Lists(c) /\ FileBlocks = Blocks(c) /\ Len(FileBlocks) = c
    BY <2>1, InLists, Visits, Counts DEF Count
  <2>3. Layout'
    BY <2>1, <2>2, Adds
  <2>4. CASE c < TopBlock
    <3>1. Lists(c + 1)' /\ block_num' = BlockAt(c + 1) /\ c + 1 \in 0..TopBlock
      BY <2>1, <2>2, <2>4, Adds, Numbers
    <3>2. Visited'
      BY VisitedAll, PTL
    <3>3. ~Torn' /\ FileBlocks' = Blocks(c + 1)
      BY <2>3, <3>1, <3>2 DEF Visited
    <3>4. Blocks(c + 1) = Append(Blocks(c), BlockAt(c + 1))
      BY Numbers DEF Blocks
    <3>5. Len(FileBlocks) <= NDIRECT + PER_INDEX
      BY <2>2, <2>4, Numbers
    <3>6. QED
      BY <2>2, <3>1, <3>3, <3>4, <3>5
  <2>5. CASE c = TopBlock
    <3>1. TornLists'
      BY <2>1, <2>2, <2>5, Adds
    <3>2. (Layout /\ TornLists => Torn)'
      BY RoomOfTorn, PTL
    <3>3. Torn'
      BY <2>3, <3>1, <3>2
    <3>4. ~(Len(FileBlocks) <= NDIRECT + PER_INDEX)
      BY <2>2, <2>5, Numbers
    <3>5. QED
      BY <3>3, <3>4
  <2>6. QED
    BY <2>4, <2>5, Numbers
<1> HIDE DEF P
<1>2. Spec => [][P]_vars
  BY <1>1, LayoutStays, PTL DEF Spec
<1>3. QED
  BY <1>2 DEF P, BlocksAppend

-----------------------------------------------------------------------------
(* Bytes.                                                                   *)

\* A byte has a block and an offset.
LEMMA ByteAt ==
    \A j \in Nat : Nth(j) \in Nat \ {0} /\ j % BLOCK_SIZE \in Offset
<1>1. \A j \in Nat : j \div BLOCK_SIZE \in Nat
  BY Numbers
<1>2. \A j \in Nat : j % BLOCK_SIZE \in Offset
  BY Numbers
<1>3. QED
  BY <1>1, <1>2 DEF Nth

\* A quotient is rounded down.
LEMMA Quotient ==
    ASSUME NEW b \in Nat, b > 2, NEW j \in Nat, NEW q \in Nat, q = j \div b
    PROVE  j < b * q + b
  OBVIOUS

\* The bytes of c blocks.
LEMMA ByteWithin ==
    \A j, c \in Nat : Nth(j) <= c => j + 1 \in 1..(c * BLOCK_SIZE)
<1>1. SUFFICES ASSUME NEW j \in Nat, NEW c \in Nat, Nth(j) <= c
               PROVE  j + 1 \in 1..(c * BLOCK_SIZE)
  OBVIOUS
<1>2. PICK q \in Nat : q = j \div BLOCK_SIZE
  BY Numbers
<1>3. j < BLOCK_SIZE * q + BLOCK_SIZE
  BY <1>2, Numbers, Quotient
<1>4. PICK k \in Nat : c = q + 1 + k
  <2>1. q + 1 <= c
    BY <1>1, <1>2 DEF Nth
  <2>2. c - (q + 1) \in Nat /\ c = q + 1 + (c - (q + 1))
    BY <2>1
  <2>3. QED
    BY <2>2
<1>5. BLOCK_SIZE * q + BLOCK_SIZE <= c * BLOCK_SIZE /\ c * BLOCK_SIZE \in Nat
  BY <1>4, Numbers
<1>6. QED
  BY <1>3, <1>5, Numbers

\* The next byte is the next one of the block, or the first of the next block.
LEMMA NextByte ==
    \A j \in Nat :
        IF (j % BLOCK_SIZE) + 1 < BLOCK_SIZE
        THEN (j + 1) % BLOCK_SIZE = (j % BLOCK_SIZE) + 1 /\ Nth(j + 1) = Nth(j)
        ELSE (j + 1) % BLOCK_SIZE = 0 /\ Nth(j + 1) = Nth(j) + 1
  BY Numbers DEF Nth

\* Bytes are in order.
LEMMA EarlierByte ==
    \A j, k \in Nat : j < k =>
        /\ Nth(j) <= Nth(k)
        /\ Nth(j) = Nth(k) => j % BLOCK_SIZE < k % BLOCK_SIZE
  BY Numbers DEF Nth

\* Blocks of the file are told apart.
LEMMA BlocksApart ==
    /\ \A c \in 1..TopBlock : BlockAt(c) \in Block
    /\ \A c, k \in 1..TopBlock : BlockAt(c) = BlockAt(k) => c = k
  BY Numbers DEF BlockAt

\* What is written into a block of the file.
LEMMA ByteOfPut ==
    \A d \in Blanks, c \in 1..TopBlock, f \in [Offset -> Int], j \in Nat :
        Nth(j) <= TopBlock =>
            Byte(Put(d, c, f), j) = IF Nth(j) = c THEN f[j % BLOCK_SIZE] ELSE Byte(d, j)
<1> SUFFICES ASSUME NEW d \in Blanks, NEW c \in 1..TopBlock, NEW f \in [Offset -> Int],
                    NEW j \in Nat, Nth(j) <= TopBlock
             PROVE  Byte(Put(d, c, f), j) = IF Nth(j) = c THEN f[j % BLOCK_SIZE] ELSE Byte(d, j)
  OBVIOUS
<1>1. Nth(j) \in 1..TopBlock
  <2>1. Nth(j) \in Nat \ {0}
    BY ByteAt
  <2>2. QED
    BY <2>1, Numbers
<1>2. BlockAt(Nth(j)) \in Block /\ (BlockAt(Nth(j)) = BlockAt(c) <=> Nth(j) = c)
  BY <1>1, BlocksApart
<1>3. QED
  BY <1>2 DEF Byte, Put, Blanks

\* A block of the file is overwritten by a block.
LEMMA PutType ==
    ASSUME NEW d \in Blanks, NEW c \in 1..TopBlock, NEW f \in [Offset -> Int]
    PROVE  Put(d, c, f) \in Blanks /\ Put(d, c, f)[BlockAt(c)] = f
  BY BlocksApart DEF Put, Blanks

\* A character stored after the others, and a byte that is no character.
LEMMA FillHolds ==
    ASSUME NEW d \in Blanks, NEW c \in 1..TopBlock, NEW f \in [Offset -> Int], NEW s \in Chars,
           c = Nth(Len(s)), Holds(Put(d, c, f), s, c), NEW v \in Int,
           NEW g \in [Offset -> Int], g[Len(s) % BLOCK_SIZE] = v,
           \A p \in Offset : p # Len(s) % BLOCK_SIZE => g[p] = f[p]
    PROVE  /\ Blank(f, Len(s) % BLOCK_SIZE) => Blank(g, Len(s) % BLOCK_SIZE)
           /\ Holds(Put(d, c, g), s, c)
           /\ Holds(Put(d, c, g), Append(s, v), c)
<1> DEFINE n == Len(s)
           o == n % BLOCK_SIZE
<1>1. n \in Nat /\ o \in Offset /\ s \in Seq(Nat \ {0})
  BY ByteAt DEF Chars
<1>2. g[o] = v /\ \A p \in Offset : p # o => g[p] = f[p]
  OBVIOUS
<1> HIDE DEF n, o
<1>3. g \in [Offset -> Int] /\ g[o] = v /\ \A p \in Offset : p # o => g[p] = f[p]
  BY <1>2
<1>11. g \in [Offset -> Int] /\ d \in Blanks /\ c \in 1..TopBlock
  BY <1>3
<1>4. Blank(f, o) => Blank(g, o)
  BY <1>1, <1>3, Numbers DEF Blank
<1>5. ASSUME NEW j \in 0..(n - 1)
      PROVE  Nth(j) <= c /\ Byte(Put(d, c, g), j) = s[j + 1]
  <2>1. j \in Nat /\ j < n
    BY <1>1, <1>5
  <2>2. Nth(j) <= c /\ Byte(Put(d, c, f), j) = s[j + 1]
    BY <1>5 DEF Holds, n
  <2>3. Nth(j) <= TopBlock
    <3>1. Nth(j) \in Nat
      BY <2>1, ByteAt
    <3>2. QED
      BY <2>2, <3>1, Numbers
  <2>4. Nth(j) = c => j % BLOCK_SIZE < o /\ j % BLOCK_SIZE \in Offset
    BY <1>1, <2>1, EarlierByte, ByteAt DEF n, o
  <2>5. Nth(j) = c => g[j % BLOCK_SIZE] = f[j % BLOCK_SIZE]
    <3>1. \A p \in Offset : p < o => p # o
      BY <1>1, Numbers
    <3>2. QED
      BY <1>3, <2>4, <3>1
  <2>6. Byte(Put(d, c, f), j) = IF Nth(j) = c THEN f[j % BLOCK_SIZE] ELSE Byte(d, j)
    BY <2>1, <2>3, ByteOfPut
  <2>7. Byte(Put(d, c, g), j) = IF Nth(j) = c THEN g[j % BLOCK_SIZE] ELSE Byte(d, j)
    BY <1>11, <2>1, <2>3, ByteOfPut
  <2>8. QED
    BY <2>2, <2>5, <2>6, <2>7
<1>6. Byte(Put(d, c, g), n) = v /\ Nth(n) <= c
  <2>1. Nth(n) = c
    BY DEF n
  <2>2. Nth(n) <= TopBlock /\ Nth(n) <= c
    <3>1. c <= TopBlock /\ c <= c
      BY Numbers
    <3>2. QED
      BY <2>1, <3>1
  <2>3. Byte(Put(d, c, g), n) = IF Nth(n) = c THEN g[n % BLOCK_SIZE] ELSE Byte(d, n)
    BY <1>1, <1>11, <2>2, ByteOfPut
  <2>4. QED
    BY <1>3, <2>1, <2>2, <2>3 DEF o
<1>7. Len(Append(s, v)) = n + 1 /\ Append(s, v)[n + 1] = v
      /\ \A k \in 1..n : Append(s, v)[k] = s[k]
  BY <1>1 DEF n
<1>8. Holds(Put(d, c, g), s, c)
  BY <1>5 DEF Holds, n
<1>9. Holds(Put(d, c, g), Append(s, v), c)
  <2>1. SUFFICES ASSUME NEW j \in 0..n
                 PROVE  Nth(j) <= c /\ Byte(Put(d, c, g), j) = Append(s, v)[j + 1]
    <3>1. (n + 1) - 1 = n
      BY <1>1
    <3>2. QED
      BY <1>7, <3>1 DEF Holds
  <2>2. CASE j = n
    BY <1>6, <1>7, <2>2
  <2>3. CASE j # n
    <3>1. j \in 0..(n - 1) /\ j + 1 \in 1..n
      BY <1>1, <2>1, <2>3
    <3>2. QED
      BY <3>1, <1>5, <1>7
  <2>4. QED
    BY <2>2, <2>3
<1>10. QED
  BY <1>4, <1>8, <1>9 DEF n, o

-----------------------------------------------------------------------------
(* Where a write looks for the end of the file.                             *)

\* The last block, if the size leads to it.
LEMMA LooksAtLast ==
    ASSUME Layout, NEW c \in 1..TopBlock, Lists(c), inode.i_size \div BLOCK_SIZE = c - 1
    PROVE  Located /\ LastBlock = BlockAt(c)
<1>1. Past = c - 1 - NDIRECT
  BY DEF Past
<1>2. CASE c <= NDIRECT
  <2>1. inode.i_blocks = c /\ inode.i_block = Pointers(c)
    BY <1>2 DEF Lists, Layout
  <2>2. Pointers(c)[c - 1] = c
    BY <1>2, Numbers DEF Pointers
  <2>3. LastBlock = c
    BY <1>2, <2>1, <2>2, Numbers DEF LastBlock
  <2>4. QED
    BY <1>2, <2>1, <2>3, Numbers DEF Located, BlockAt
<1>3. CASE c > NDIRECT /\ c < TopBlock
  <2>1. inode.i_blocks = NDIRECT + 1 /\ index[0] = FirstList(c - NDIRECT)
    BY <1>3, Numbers DEF Lists
  <2>2. c - 1 - NDIRECT \in Entry /\ c - 1 - NDIRECT < c - NDIRECT /\ c - 1 - NDIRECT >= 0
    BY <1>3, Numbers
  <2>3. FirstList(c - NDIRECT)[c - 1 - NDIRECT] = c
    BY <2>2, Numbers DEF FirstList
  <2>4. LastBlock = index[0][Past]
    BY <2>1, Numbers DEF LastBlock
  <2>5. LastBlock = c
    BY <1>1, <2>1, <2>3, <2>4
  <2>6. QED
    BY <1>1, <1>3, <2>1, <2>2, <2>5, Numbers DEF Located, BlockAt
<1>4. CASE c = TopBlock
  <2>1. /\ inode.i_blocks = NDIRECT + 2
        /\ index[TopBlock] = Single(TopBlock + 1) /\ index[TopBlock + 1] = Single(TopBlock + 2)
    BY <1>4, Numbers DEF Lists
  <2>2. Top = TopBlock
    BY <2>1, Numbers DEF Layout, Pointers, Top
  <2>3. Past = PER_INDEX
    BY <1>1, <1>4, Numbers
  <2>4. LastBlock = index[index[TopBlock][0]][0]
    <3>1. (PER_INDEX - PER_INDEX) \div PER_INDEX = 0 /\ (PER_INDEX - PER_INDEX) % PER_INDEX = 0
      BY Numbers
    <3>2. LastBlock = index[index[Top][(Past - PER_INDEX) \div PER_INDEX]]
                           [(Past - PER_INDEX) % PER_INDEX]
      <4>1. ~(NDIRECT + 2 <= NDIRECT) /\ NDIRECT + 2 # NDIRECT + 1
        BY Numbers
      <4>2. ~(inode.i_blocks <= NDIRECT) /\ inode.i_blocks # NDIRECT + 1
        BY <2>1, <4>1
      <4>3. QED
        BY <4>2 DEF LastBlock
    <3>3. QED
      BY <2>2, <2>3, <3>1, <3>2
  <2>5. index[TopBlock][0] = TopBlock + 1 /\ index[TopBlock + 1][0] = TopBlock + 2
    BY <2>1, Numbers DEF Single
  <2>6. QED
    BY <1>4, <2>1, <2>3, <2>4, <2>5, Numbers DEF Located, BlockAt
<1>5. QED
  BY <1>2, <1>3, <1>4, Numbers

\* No block is visited before the first is added.
LEMMA NoBlocks == \A c \in 0..TopBlock : Lists(c) => (c = 0 <=> inode.i_blocks = 0)
  BY Numbers DEF Lists

\* What the lists are after a step.
LEMMA ListsAfter ==
    ASSUME LaidOut, LaidOut', [Next]_vars, ~KillIndexed, ~Torn'
    PROVE  /\ ~Torn /\ Count \in 0..TopBlock /\ Lists(Count) /\ Count' \in 0..TopBlock
           /\ \/ /\ Same /\ Count' = Count
              \/ /\ add_file_block /\ Count' = Count + 1 /\ block_num' = BlockAt(Count + 1)
                 /\ inode'.i_size = inode.i_size
                 /\ free \in Nat /\ free <= BlockAt(Count + 1) /\ BlockAt(Count + 1) < free'
<1>1. Layout /\ Layout'
  BY DEF LaidOut
<1>2. Visited'
  BY VisitedAll, PTL
<1>3. ~Torn
  BY <1>1, DiskSteps, SameLayout
<1>4. PICK c \in 0..TopBlock : c = Count /\ Lists(c)
  BY <1>1, <1>3, InLists
<1>5. CASE Same
  <2>1. Lists(c)'
    BY <1>1, <1>4, <1>5, SameLayout
  <2>2. Count' = c
    BY <1>1, <1>2, <2>1 DEF Visited
  <2>3. QED
    BY <1>3, <1>4, <1>5, <2>2
<1>6. CASE add_file_block
  <2>1. c < TopBlock
    <3>1. SUFFICES ASSUME c = TopBlock PROVE FALSE
      BY Numbers
    <3>2. TornLists'
      BY <1>1, <1>4, <1>6, <3>1, Adds
    <3>3. (Layout /\ TornLists => Torn)'
      BY RoomOfTorn, PTL
    <3>4. QED
      BY <1>1, <3>2, <3>3
  <2>2. Lists(c + 1)' /\ block_num' = BlockAt(c + 1) /\ inode'.i_size = inode.i_size
    BY <1>1, <1>4, <1>6, <2>1, Adds
  <2>3. c + 1 \in 0..TopBlock
    BY <2>1, Numbers
  <2>4. Count' = c + 1
    BY <1>1, <1>2, <2>2, <2>3 DEF Visited
  <2>5. free \in Nat /\ free <= BlockAt(c + 1) /\ BlockAt(c + 1) < free'
    <3>1. free = c + 1
      BY <1>4, <2>1 DEF Lists
    <3>2. free' = IF c + 1 < TopBlock THEN c + 2 ELSE TopBlock + 3
      <4>1. free' = IF c + 1 < TopBlock THEN c + 1 + 1 ELSE TopBlock + 3
        BY <2>2 DEF Lists
      <4>2. c + 1 + 1 = c + 2
        BY Numbers
      <4>3. QED
        BY <4>1, <4>2
    <3>3. QED
      BY <2>1, <3>1, <3>2, Numbers DEF BlockAt
  <2>6. QED
    BY <1>3, <1>4, <1>6, <2>2, <2>3, <2>4, <2>5
<1>7. QED
  BY <1>5, <1>6, DiskSteps

-----------------------------------------------------------------------------
(* What a step does to the bytes.                                           *)

\* A step that takes no block.
LEMMA SameCount ==
    ASSUME LaidOut, LaidOut', [Next]_vars, ~KillIndexed, ~Torn', free' = free
    PROVE  /\ Count \in 0..TopBlock /\ Count' = Count /\ Lists(Count) /\ ~Torn
           /\ inode'.i_blocks = inode.i_blocks
<1>1. BlockAt(Count + 1) \in Int => ~(free <= BlockAt(Count + 1) /\ BlockAt(Count + 1) < free)
      \/ free \notin Nat
  OBVIOUS
<1>2. Count \in 0..TopBlock => BlockAt(Count + 1) \in Int
  BY Numbers DEF BlockAt
<1>3. Same
  BY <1>1, <1>2, ListsAfter
<1>4. QED
  BY <1>1, <1>2, <1>3, ListsAfter DEF Same

\* A step in the middle of a write that leaves the file alone.
LEMMA StaysInPlace ==
    ASSUME LaidOut, LaidOut', [Next]_vars, ~KillIndexed, ~Torn', InPlace,
           UNCHANGED <<disk, Buffer, block_num, pos, text, before, cut>>
    PROVE  InPlace'
<1>1. /\ data' = data /\ free' = free /\ inode' = inode /\ Buffer' = Buffer
      /\ block_num' = block_num /\ pos' = pos /\ text' = text /\ kept' = kept /\ cut' = cut
  BY DEF disk, kept
<1>2. Count' = Count
  BY <1>1, SameCount
<1>3. QED
  BY <1>1, <1>2 DEF InPlace

\* Of what the types say, a step changes the flag, the characters counted, or
\* nothing.
LEMMA TypesStay ==
    ASSUME Types, UNCHANGED <<data, free, text, before>>, chars' = chars, flag' \in {0, 1},
           pc' = "got" => pc = "got" /\ ch' = ch /\ (flag' = 1 => flag = 1)
    PROVE  Types'
<1>1. data' = data /\ free' = free /\ text' = text /\ kept' = kept
  BY DEF kept
<1>2. Len(text) \in Nat /\ chars \in Nat
  BY FileAssumption DEF Types, Chars
<1>3. Len(text') + (IF pc' = "got" /\ flag' = 1 THEN 1 ELSE 0) <= chars'
  BY <1>1, <1>2 DEF Types
<1>4. QED
  BY <1>1, <1>3 DEF Types

\* The first write of a file.
LEMMA FirstWrite ==
    ASSUME LaidOut, LaidOut', [Next]_vars, ~KillIndexed, ~Torn', Types, Rests, WriteFirst
    PROVE  Types' /\ InPlace' /\ Sized'
<1>1. /\ Count \in 0..TopBlock /\ Lists(Count) /\ inode.i_blocks = 0
      /\ add_file_block /\ pc' = "located"
  BY ListsAfter DEF WriteFirst, Begins, GoesOn
<1>2. Count = 0
  BY <1>1, NoBlocks
<1>3. free = 1
  BY <1>1, <1>2, Numbers DEF Lists
<1>4. ~cut /\ text = <<>> /\ inode.i_size = 0
  BY <1>1 DEF Rests
<1>5. ~Same
  <2>1. SUFFICES ASSUME Same PROVE FALSE
    OBVIOUS
  <2>2. Count' = 0 \/ Count' = 1
    BY <1>2, ListsAfter
  <2>3. Layout' /\ Lists(1)'
    BY <1>1, <1>2, Adds, Numbers DEF LaidOut
  <2>4. free' = 2
    BY <2>3, Numbers DEF Lists
  <2>5. QED
    BY <1>3, <2>1, <2>4 DEF Same
<1>6. /\ Count' = 1 /\ Count' \in 0..TopBlock /\ block_num' = BlockAt(1)
      /\ inode'.i_size = 0 /\ BlockAt(1) < free'
  BY <1>2, <1>4, <1>5, ListsAfter
<1>7. /\ data' = data /\ text' = <<>> /\ kept' = <<>> /\ cut' = cut /\ chars' = chars
      /\ flag' = flag /\ pos' = 0 /\ Buffer' = data[BlockAt(1)]
  BY <1>4, <1>6 DEF WriteFirst, Begins, GoesOn, kept, AllButLast
<1>8. BlockAt(1) = 1 /\ 1 \in Block /\ free' \in Nat
  <2>1. BlockAt(1) = 1 /\ 1 \in Block
    BY Numbers DEF BlockAt
  <2>2. Layout'
    BY DEF LaidOut
  <2>3. Lists(1)'
    BY <1>1, <1>2, Adds, Numbers DEF LaidOut
  <2>4. QED
    BY <2>1, <2>3, Numbers DEF Lists
<1>9. Buffer' = [o \in Offset |-> STALE]
  BY <1>3, <1>7, <1>8 DEF Types
<1>10. Types'
  <2>1. \A b \in Block : b >= free' => b >= free
    BY <1>3, <1>6, <1>8, Numbers
  <2>2. <<>> \in Chars /\ Len(<<>>) = 0
    BY DEF Chars
  <2>3. \A b \in Block : b >= free' => data'[b] = [o \in Offset |-> STALE]
    BY <1>7, <2>1 DEF Types
  <2>4. chars' \in 0..MaxChars /\ 0 <= chars'
    BY <1>7, FileAssumption DEF Types
  <2>5. Len(text') + (IF pc' = "got" /\ flag' = 1 THEN 1 ELSE 0) <= chars'
    BY <1>1, <1>7, <2>2, <2>4
  <2>6. QED
    BY <1>1, <1>7, <2>2, <2>3, <2>4, <2>5 DEF Types
<1>11. InPlace'
  <2>1. Len(<<>>) = 0 /\ Nth(0) = 1 /\ 0 % BLOCK_SIZE = 0
    BY Numbers DEF Nth
  <2>2. Holds(Put(data', 1, Buffer'), <<>>, 1) /\ Holds(data', <<>>, 1)
    BY <2>1 DEF Holds
  <2>3. Buffer' \in [Offset -> Int] /\ Blank(Buffer', 0)
    BY <1>9, Numbers DEF Blank, STALE
  <2>4. inode'.i_blocks > 0
    <3>1. Lists(1)'
      BY <1>1, <1>2, Adds, Numbers DEF LaidOut
    <3>2. QED
      BY <3>1, Numbers DEF Lists
  <2>5. QED
    BY <1>4, <1>6, <1>7, <2>1, <2>2, <2>3, <2>4 DEF InPlace
<1>12. Sized'
  BY <1>1, <1>7 DEF Sized
<1>13. QED
  BY <1>10, <1>11, <1>12

\* Where the size leads: the number of characters less one.
LEMMA SizeLeads ==
    ASSUME Types, text # <<>>, inode.i_size = (Len(text) - 1) % SIZE_MOD
    PROVE  /\ Len(text) - 1 \in Nat /\ inode.i_size = Len(text) - 1
           /\ Last(text) \in Nat \ {0} /\ Last(text) = text[Len(text)]
<1>1. Len(text) \in Nat /\ Len(text) > 0 /\ Last(text) = text[Len(text)]
      /\ text[Len(text)] \in Nat \ {0}
  BY DEF Types, Chars, Last
<1>2. Len(text) <= MaxChars
  <2>1. Len(text) <= chars /\ chars <= MaxChars /\ chars \in Nat
    BY <1>1, FileAssumption DEF Types
  <2>2. QED
    BY <1>1, <2>1, FileAssumption
<1>3. Len(text) - 1 \in Nat /\ Len(text) - 1 < SIZE_MOD /\ SIZE_MOD \in Nat
  BY <1>1, <1>2, FileAssumption, CharsAssumption
<1>4. (Len(text) - 1) % SIZE_MOD = Len(text) - 1
  BY <1>3
<1>5. QED
  BY <1>1, <1>3, <1>4

\* A write that begins at the last character finds a character there.
LEMMA FindsLast ==
    ASSUME LaidOut, Types, ~Torn, ~cut, inode.i_blocks > 0, Rests, text # <<>>,
           inode.i_size % BLOCK_SIZE # 0,
           Located, LastBlock = BlockAt(Count),
           data[LastBlock][inode.i_size % BLOCK_SIZE] = Last(text)
    PROVE  /\ inode.i_size = Len(text) - 1 /\ Len(text) - 1 \in Nat
           /\ (inode.i_size % BLOCK_SIZE) + 1 < BLOCK_SIZE
<1> DEFINE n == Len(text)
           o == (n - 1) % BLOCK_SIZE
<1>1. /\ Count = Nth(n) /\ Holds(data, text, Count)
      /\ inode.i_size = (n - 1) % SIZE_MOD
      /\ Blank(data[BlockAt(Count)], n % BLOCK_SIZE)
  BY DEF Rests
<1>2. n - 1 \in Nat /\ inode.i_size = n - 1 /\ Last(text) \in Nat \ {0}
  BY <1>1, SizeLeads
<1>3. o \in Offset /\ o # 0
  BY <1>2, ByteAt
<1>4. SUFFICES ASSUME ~(o + 1 < BLOCK_SIZE) PROVE FALSE
  BY <1>2
<1>5. n % BLOCK_SIZE = 0
  <2>1. (n - 1) + 1 = n
    BY <1>2
  <2>2. QED
    BY <1>2, <1>4, <2>1, NextByte
<1>6. data[BlockAt(Count)][o] \in {0, STALE}
  <2>1. o > 0
    BY <1>3, Numbers
  <2>2. QED
    BY <1>1, <1>3, <1>5, <2>1 DEF Blank
<1>7. QED
  BY <1>2, <1>6 DEF STALE

\* A later write of a file, at the last character.
LEMMA LaterWrite ==
    ASSUME LaidOut, LaidOut', [Next]_vars, ~KillIndexed, ~Torn', Types, Rests, WriteInside, ~misplaced'
    PROVE  Types' /\ InPlace' /\ Sized'
<1> DEFINE n == Len(text)
           o == inode.i_size % BLOCK_SIZE
<1>1. /\ pc' = "located" /\ text # <<>> /\ AtLast(block_num', pos') /\ o # 0 /\ Located
      /\ inode.i_blocks > 0 /\ block_num' = LastBlock /\ pos' = o
      /\ Buffer' = data[LastBlock] /\ text' = Front(text) /\ kept' = text'
      /\ data' = data /\ cut' = cut /\ flag' = flag /\ chars' = chars
      /\ index' = index /\ inode' = inode /\ free' = free
  <2>1. text # <<>>
    BY DEF WriteInside
  <2>2. text' = AllButLast(text) /\ kept' = AllButLast(text)
    BY DEF WriteInside, Begins, kept
  <2>3. AllButLast(text) = Front(text)
    BY <2>1 DEF AllButLast
  <2>4. QED
    BY <2>1, <2>2, <2>3 DEF WriteInside, Begins
<1>2. /\ ~Torn /\ Count' = Count /\ Count \in 0..TopBlock /\ Lists(Count)
  BY <1>1, SameCount
<1>3. Count # 0
  BY <1>1, <1>2, NoBlocks, Numbers
<1>4. ~cut /\ block_num' = BlockAt(Count) /\ data[block_num'][pos'] = Last(text)
  <2>1. FileBlocks = Blocks(Count) /\ Layout
    BY <1>2, Visits DEF LaidOut
  <2>2. Last(Blocks(Count)) = BlockAt(Count)
    BY <1>2, <1>3, Numbers DEF Blocks, Last
  <2>3. QED
    BY <1>1, <2>1, <2>2 DEF AtLast
<1>5. inode.i_size = n - 1 /\ n - 1 \in Nat /\ o + 1 < BLOCK_SIZE
  BY <1>1, <1>2, <1>4, FindsLast
<1>6. /\ Count = Nth(n) /\ Holds(data, text, Count)
      /\ data[BlockAt(Count)][n % BLOCK_SIZE] = 0
      /\ Blank(data[BlockAt(Count)], n % BLOCK_SIZE)
  BY <1>1, <1>4 DEF Rests
<1>7. n % BLOCK_SIZE = o + 1 /\ Nth(n) = Nth(n - 1)
  <2>1. (n - 1) + 1 = n
    BY <1>5
  <2>2. QED
    BY <1>5, <2>1, NextByte
<1>8. /\ text' \in Chars /\ Len(text') = n - 1 /\ n \in Nat
      /\ \A k \in 1..(n - 1) : text'[k] = text[k]
  <2>1. text \in Seq(Nat \ {0}) /\ n \in Nat /\ n > 0
    BY <1>5 DEF Types, Chars
  <2>2. text' = SubSeq(text, 1, n - 1)
    BY <1>1 DEF Front
  <2>3. PICK m \in Nat : m = n - 1
    BY <1>5
  <2>4. m <= Len(text) /\ text' = SubSeq(text, 1, m)
    BY <2>1, <2>2, <2>3
  <2>5. /\ text' \in Seq(Nat \ {0}) /\ Len(text') = m
        /\ \A k \in 1..m : text'[k] = text[k]
    <3>1. \A t \in Seq(Nat \ {0}) : m <= Len(t) =>
            /\ SubSeq(t, 1, m) \in Seq(Nat \ {0}) /\ Len(SubSeq(t, 1, m)) = m
            /\ \A k \in 1..m : SubSeq(t, 1, m)[k] = t[k]
      OBVIOUS
    <3>2. QED
      BY <2>1, <2>4, <3>1
  <2>6. QED
    BY <2>1, <2>3, <2>5 DEF Chars
<1> HIDE DEF n, o
<1>9. Types'
  <2>1. n - 1 <= n /\ n \in Nat /\ n <= chars /\ chars \in Nat
    <3>1. n \in Nat /\ chars \in Nat
      BY <1>8, FileAssumption DEF Types
    <3>2. n <= chars
      BY <3>1 DEF Types, n
    <3>3. QED
      BY <3>1, <3>2
  <2>2. Len(text') + (IF pc' = "got" /\ flag' = 1 THEN 1 ELSE 0) <= chars'
    BY <1>1, <1>5, <1>8, <2>1
  <2>3. QED
    BY <1>1, <1>8, <2>2 DEF Types
<1>10. InPlace'
  <2>1. BlockAt(Count) \in Block /\ data \in Blanks
    BY <1>2, <1>3, BlocksApart, Numbers DEF Types
  <2>2. Buffer' = data[BlockAt(Count)] /\ Buffer' \in [Offset -> Int]
    BY <1>1, <1>4, <2>1 DEF Blanks
  <2>3. Put(data, Count, Buffer') = data
    BY <2>1, <2>2 DEF Put, Blanks
  <2>4. Holds(data, text', Count)
    <3>1. \A j \in 0..(n - 1 - 1) : j \in 0..(n - 1) /\ j + 1 \in 1..(n - 1)
      BY <1>5
    <3>2. QED
      BY <1>6, <1>8, <3>1 DEF Holds, n
  <2>5. Blank(Buffer', o)
    <3>1. \A p \in Offset : p > o => p = o + 1 \/ p > o + 1
      <4>1. o \in Offset
        BY <1>5, ByteAt DEF o
      <4>2. QED
        BY <4>1, Numbers
    <3>2. QED
      BY <1>6, <1>7, <2>2, <3>1 DEF Blank
  <2>6. o = (n - 1) % BLOCK_SIZE
    BY <1>5 DEF o
  <2>7. Len(kept') <= Len(text') /\ \A k \in 1..Len(kept') : kept'[k] = text'[k]
    BY <1>1, <1>5, <1>8
  <2>8. QED
    BY <1>1, <1>2, <1>4, <1>5, <1>6, <1>7, <1>8, <2>2, <2>3, <2>4, <2>5, <2>6, <2>7 DEF InPlace
<1>11. Sized'
  BY <1>1 DEF Sized
<1>12. QED
  BY <1>9, <1>10, <1>11

\* A step that takes a block.
LEMMA BlockAdded ==
    ASSUME LaidOut, LaidOut', [Next]_vars, ~KillIndexed, ~Torn', add_file_block
    PROVE  /\ Count \in 0..TopBlock /\ Lists(Count) /\ ~Torn
           /\ Count' = Count + 1 /\ Count + 1 \in 1..TopBlock
           /\ block_num' = BlockAt(Count + 1)
           /\ inode'.i_size = inode.i_size /\ inode'.i_blocks > 0
           /\ free \in Nat /\ free' \in Nat
           /\ free <= BlockAt(Count + 1) /\ BlockAt(Count + 1) < free'
<1>1. PICK c \in 0..TopBlock : c = Count /\ Lists(c)
  BY ListsAfter
<1>2. free \in Nat
  BY <1>1, BelowFree
<1>3. free' # free
  BY <1>2 DEF add_file_block, DirectBlock, FirstIndex, InFirstIndex, SecondIndex,
              InSecondIndex, Takes
<1>4. ~Same
  BY <1>3 DEF Same
<1>5. /\ Count' = c + 1 /\ block_num' = BlockAt(c + 1) /\ inode'.i_size = inode.i_size
      /\ free <= BlockAt(c + 1) /\ BlockAt(c + 1) < free' /\ Count' \in 0..TopBlock
  BY <1>1, <1>4, ListsAfter
<1>6. c + 1 \in 1..TopBlock
  BY <1>1, <1>5, Numbers
<1>7. Lists(c + 1)'
  <2>1. c < TopBlock
    BY <1>6, Numbers
  <2>2. QED
    BY <1>1, <2>1, Adds DEF LaidOut
<1>8. inode'.i_blocks > 0 /\ free' \in Nat
  BY <1>6, <1>7, Numbers DEF Lists
<1>9. QED
  BY <1>1, <1>2, <1>5, <1>6, <1>8, ListsAfter

\* The lengths in the middle of a write.
LEMMA Lengths ==
    ASSUME Types, InPlace, Count \in 0..TopBlock
    PROVE  /\ Len(text) \in Nat /\ Len(kept) \in Nat /\ chars \in Nat
           /\ Len(kept) <= Len(text) /\ Len(text) <= chars /\ chars <= MaxChars
           /\ (pc = "got" /\ flag = 1 => Len(text) + 1 <= chars)
           /\ Count = Nth(Len(text)) /\ Count \in 1..TopBlock
           /\ pos = Len(text) % BLOCK_SIZE /\ pos \in Offset
<1>1. Len(text) \in Nat /\ Len(kept) \in Nat /\ chars \in Nat /\ chars <= MaxChars
  BY FileAssumption DEF Types, Chars
<1>2. Len(text) <= chars /\ (pc = "got" /\ flag = 1 => Len(text) + 1 <= chars)
  BY <1>1 DEF Types
<1>3. Count = Nth(Len(text)) /\ pos = Len(text) % BLOCK_SIZE /\ Len(kept) <= Len(text)
  BY DEF InPlace
<1>4. Count \in 1..TopBlock /\ pos \in Offset
  <2>1. Nth(Len(text)) \in Nat \ {0} /\ Len(text) % BLOCK_SIZE \in Offset
    BY <1>1, ByteAt
  <2>2. QED
    BY <1>3, <2>1, Numbers
<1>5. QED
  BY <1>1, <1>2, <1>3, <1>4

Filled(v) == [Buffer EXCEPT ![pos] = v]

\* A byte put into Buffer, a character or the zero at the end.
LEMMA FillBuffer ==
    ASSUME Types, InPlace, Count \in 0..TopBlock, NEW v \in Int
    PROVE  /\ Filled(v) \in [Offset -> Int] /\ Filled(v)[pos] = v
           /\ Blank(Filled(v), pos)
           /\ Holds(Put(data, Count, Filled(v)), text, Count)
           /\ Holds(Put(data, Count, Filled(v)), Append(text, v), Count)
<1>1. Buffer \in [Offset -> Int] /\ pos \in Offset /\ pos = Len(text) % BLOCK_SIZE
      /\ Blank(Buffer, pos)
  BY Lengths DEF InPlace
<1>2. /\ Filled(v) \in [Offset -> Int] /\ Filled(v)[pos] = v
      /\ \A p \in Offset : p # pos => Filled(v)[p] = Buffer[p]
  BY <1>1 DEF Filled
<1>3. /\ data \in Blanks /\ Count \in 1..TopBlock /\ text \in Chars
      /\ Count = Nth(Len(text)) /\ Holds(Put(data, Count, Buffer), text, Count)
  BY Lengths DEF Types, InPlace
<1> DEFINE g == Filled(v)
           c == Count
<1>4. /\ g \in [Offset -> Int] /\ g[Len(text) % BLOCK_SIZE] = v
      /\ \A p \in Offset : p # Len(text) % BLOCK_SIZE => g[p] = Buffer[p]
  BY <1>1, <1>2
<1>5. /\ c \in 1..TopBlock /\ c = Nth(Len(text)) /\ Holds(Put(data, c, Buffer), text, c)
  BY <1>3
<1> HIDE DEF g, c
<1>6. /\ Blank(Buffer, Len(text) % BLOCK_SIZE) => Blank(g, Len(text) % BLOCK_SIZE)
      /\ Holds(Put(data, c, g), text, c)
      /\ Holds(Put(data, c, g), Append(text, v), c)
  BY <1>1, <1>3, <1>4, <1>5, FillHolds
<1>7. QED
  BY <1>1, <1>2, <1>6 DEF g, c

\* The character counted is one of those typed, and new_size does not wrap.
LEMMA CharStored ==
    ASSUME Types, InPlace, Sized, Count \in 0..TopBlock, StoreChar
    PROVE  /\ text' = Append(text, ch) /\ text' \in Chars /\ Len(text') = Len(text) + 1
           /\ \A k \in 1..Len(text) : text'[k] = text[k]
           /\ kept' = kept /\ chars' = chars /\ flag' = flag /\ pc' = "while" /\ cut' = cut
           /\ Len(kept) <= Len(text') /\ \A k \in 1..Len(kept) : kept[k] = text'[k]
           /\ Len(text') + 0 <= chars'
           /\ Sized'
<1>1. /\ text' = Append(text, ch) /\ kept' = kept /\ chars' = chars /\ flag' = flag
      /\ pc = "got" /\ flag = 1 /\ pc' = "while" /\ cut' = cut
      /\ new_size' = (new_size + 1) % USHORT
  BY DEF StoreChar, kept
<1>2. text \in Seq(Nat \ {0}) /\ ch \in Nat \ {0}
  BY <1>1 DEF Types, Chars
<1>3. /\ text' \in Seq(Nat \ {0}) /\ Len(text') = Len(text) + 1
      /\ \A k \in 1..Len(text) : text'[k] = text[k]
  BY <1>1, <1>2
<1>4. /\ Len(text) \in Nat /\ Len(kept) \in Nat /\ Len(kept) <= Len(text)
      /\ Len(text) + 1 <= chars /\ chars <= MaxChars /\ chars \in Nat
  BY <1>1, Lengths
<1>5. \A k \in 1..Len(kept) : kept[k] = text'[k]
  <2>1. \A k \in 1..Len(kept) : k \in 1..Len(text) /\ kept[k] = text[k]
    BY <1>4 DEF InPlace
  <2>2. QED
    BY <1>3, <2>1
<1>6. new_size = Len(text) - Len(kept)
  BY <1>1 DEF Sized
<1>7. new_size + 1 \in Nat /\ new_size + 1 < USHORT /\ USHORT \in Nat
  BY <1>4, <1>6, FileAssumption, CharsAssumption
<1>8. new_size' = new_size + 1
  BY <1>1, <1>7
<1>9. Sized'
  BY <1>1, <1>3, <1>4, <1>6, <1>8 DEF Sized
<1>10. QED
  BY <1>1, <1>3, <1>4, <1>5, <1>9 DEF Chars

\* A character that leaves room in the block.
LEMMA StoresInside ==
    ASSUME LaidOut, LaidOut', [Next]_vars, ~KillIndexed, ~Torn', Types, InPlace, Sized,
           StoreChar, pos + 1 < BLOCK_SIZE
    PROVE  Types' /\ InPlace' /\ Sized'
<1>1. /\ Buffer' = Filled(ch) /\ pos' = pos + 1 /\ block_num' = block_num
      /\ data' = data /\ free' = free /\ inode' = inode
      /\ pc = "got" /\ ch \in Nat \ {0}
  BY DEF StoreChar, disk, Filled, Types
<1>2. Count \in 0..TopBlock /\ Count' = Count
  BY <1>1, SameCount
<1> DEFINE n == Len(text)
<1>3. /\ n \in Nat /\ Count = Nth(n) /\ Count \in 1..TopBlock
      /\ pos = n % BLOCK_SIZE /\ pos \in Offset
  BY <1>2, Lengths
<1>4. (n + 1) % BLOCK_SIZE = pos + 1 /\ Nth(n + 1) = Count
  BY <1>3, NextByte
<1>5. /\ text' = Append(text, ch) /\ text' \in Chars /\ Len(text') = n + 1
      /\ kept' = kept /\ chars' = chars /\ flag' = flag /\ pc' = "while" /\ cut' = cut
      /\ Len(kept) <= Len(text') /\ \A k \in 1..Len(kept) : kept[k] = text'[k]
      /\ Len(text') + 0 <= chars' /\ Sized'
  BY <1>2, CharStored
<1> HIDE DEF n
<1>6. ch \in Int
  BY <1>1
<1>7. /\ Filled(ch) \in [Offset -> Int] /\ Blank(Filled(ch), pos)
      /\ Holds(Put(data, Count, Filled(ch)), text', Count)
  BY <1>2, <1>5, <1>6, FillBuffer
<1>8. Blank(Buffer', pos')
  <2>1. \A p \in Offset : p > pos + 1 => p > pos
    BY <1>3, Numbers
  <2>2. QED
    BY <1>1, <1>7, <2>1 DEF Blank
<1>9. Types'
  BY <1>1, <1>5 DEF Types
<1>10. InPlace'
  BY <1>1, <1>2, <1>4, <1>5, <1>7, <1>8 DEF InPlace
<1>11. QED
  BY <1>5, <1>9, <1>10

\* What is held by some blocks is held by more of them.
LEMMA HoldsMore ==
    \A d \in Blanks, s \in Chars, c \in Nat : Holds(d, s, c) => Holds(d, s, c + 1)
<1>1. SUFFICES ASSUME NEW d \in Blanks, NEW s \in Chars, NEW c \in Nat, Holds(d, s, c),
                      NEW j \in 0..(Len(s) - 1)
               PROVE  Nth(j) <= c + 1 /\ Byte(d, j) = s[j + 1]
  BY DEF Holds
<1>2. Nth(j) \in Nat
  <2>1. Len(s) \in Nat
    BY DEF Chars
  <2>2. j \in Nat
    BY <1>1, <2>1
  <2>3. QED
    BY <2>2, ByteAt
<1>3. QED
  BY <1>1, <1>2 DEF Holds

\* What a sequence begins with is held too.
LEMMA HoldsFront ==
    \A d \in Blanks, s, t \in Chars, c \in Nat :
        Holds(d, s, c) /\ Len(t) <= Len(s) /\ (\A k \in 1..Len(t) : t[k] = s[k]) => Holds(d, t, c)
<1>1. SUFFICES ASSUME NEW d \in Blanks, NEW s \in Chars, NEW t \in Chars, NEW c \in Nat,
                      Holds(d, s, c), Len(t) <= Len(s), \A k \in 1..Len(t) : t[k] = s[k],
                      NEW j \in 0..(Len(t) - 1)
               PROVE  Nth(j) <= c /\ Byte(d, j) = t[j + 1]
  BY DEF Holds
<1>2. Len(s) \in Nat /\ Len(t) \in Nat
  BY DEF Chars
<1>3. j \in 0..(Len(s) - 1) /\ j + 1 \in 1..Len(t)
  BY <1>1, <1>2
<1>4. QED
  BY <1>1, <1>3 DEF Holds

\* A character that fills the block: it is written, and the next one is empty.
LEMMA StoresAcross ==
    ASSUME LaidOut, LaidOut', [Next]_vars, ~KillIndexed, ~Torn', Types, InPlace, Sized,
           StoreChar, ~(pos + 1 < BLOCK_SIZE)
    PROVE  Types' /\ InPlace' /\ Sized'
<1>1. /\ data' = [data EXCEPT ![block_num] = Filled(ch)] /\ add_file_block
      /\ pos' = 0 /\ Buffer' = data'[block_num']
      /\ pc = "got" /\ ch \in Nat \ {0}
  BY DEF StoreChar, GoesOn, Stored, Filled, Types
<1>2. PICK c \in 0..TopBlock :
        /\ c = Count /\ Lists(c) /\ Count' = c + 1 /\ c + 1 \in 1..TopBlock
        /\ block_num' = BlockAt(c + 1) /\ inode'.i_size = inode.i_size /\ inode'.i_blocks > 0
        /\ free \in Nat /\ free' \in Nat /\ free <= BlockAt(c + 1) /\ BlockAt(c + 1) < free'
  BY <1>1, BlockAdded
<1> DEFINE n == Len(text)
           e == c + 1
<1>3. /\ n \in Nat /\ c = Nth(n) /\ c \in 1..TopBlock /\ c \in Nat
      /\ pos = n % BLOCK_SIZE /\ pos \in Offset /\ block_num = BlockAt(c)
  BY <1>2, Lengths DEF InPlace
<1>4. (n + 1) % BLOCK_SIZE = 0 /\ Nth(n + 1) = e
  BY <1>3, NextByte
<1>5. /\ text' = Append(text, ch) /\ text' \in Chars /\ Len(text') = n + 1
      /\ kept' = kept /\ chars' = chars /\ flag' = flag /\ pc' = "while" /\ cut' = cut
      /\ Len(kept) <= Len(text') /\ \A k \in 1..Len(kept) : kept[k] = text'[k]
      /\ Len(text') + 0 <= chars' /\ Sized'
  BY <1>2, CharStored
<1>6. /\ e \in 1..TopBlock /\ e # c /\ e = c + 1 /\ Count' = e /\ block_num' = BlockAt(e)
      /\ free <= BlockAt(e) /\ BlockAt(e) < free'
  BY <1>2, <1>3
<1> HIDE DEF n, e
<1>7. ch \in Int
  BY <1>1
<1>8. /\ Filled(ch) \in [Offset -> Int]
      /\ Holds(Put(data, c, Filled(ch)), text', c)
  BY <1>2, <1>5, <1>7, FillBuffer
<1>9. data \in Blanks /\ data' = Put(data, c, Filled(ch)) /\ data' \in Blanks
  BY <1>1, <1>3, <1>8, PutType DEF Put, Types
<1>10. Holds(data', text', c) /\ Holds(data', text', e)
  BY <1>3, <1>5, <1>6, <1>8, <1>9, HoldsMore
<1>11. BlockAt(e) \in Block /\ BlockAt(c) \in Block /\ BlockAt(e) # BlockAt(c)
       /\ BlockAt(c) < free
  <2>1. \A k \in 1..c : BlockAt(k) < free
    BY <1>2, BelowFree
  <2>2. QED
    BY <1>3, <1>6, <2>1, BlocksApart
<1>12. \A b \in Block : b # BlockAt(c) => data'[b] = data[b]
  BY <1>9 DEF Put, Blanks
<1>13. Buffer' = [o \in Offset |-> STALE]
  BY <1>1, <1>6, <1>11, <1>12 DEF Types
<1>14. Buffer' \in [Offset -> Int] /\ Blank(Buffer', 0)
  BY <1>13 DEF Blank, STALE
<1>15. Types'
  <2>1. ASSUME NEW b \in Block, b >= free' PROVE data'[b] = [o \in Offset |-> STALE]
    <3>1. b \in Nat
      BY Numbers
    <3>2. BlockAt(e) \in Nat /\ BlockAt(c) \in Nat
      BY <1>11, Numbers
    <3>3. b >= free /\ b # BlockAt(c)
      BY <1>2, <1>6, <1>11, <2>1, <3>1, <3>2
    <3>4. QED
      BY <1>12, <3>3 DEF Types
  <2>2. kept' \in Chars /\ chars' \in 0..MaxChars /\ flag' \in {0, 1}
    BY <1>5 DEF Types
  <2>3. Len(text') + (IF pc' = "got" /\ flag' = 1 THEN 1 ELSE 0) <= chars'
    BY <1>5
  <2>4. QED
    BY <1>5, <1>9, <2>1, <2>2, <2>3 DEF Types
<1>16. InPlace'
  <2>1. Put(data', e, Buffer') = data'
    BY <1>1, <1>6, <1>9, <1>11 DEF Put, Blanks
  <2>2. Holds(data', kept', e)
    <3>1. kept \in Chars /\ e \in Nat
      BY <1>6 DEF Types
    <3>2. QED
      BY <1>5, <1>9, <1>10, <3>1, HoldsFront
  <2>3. ~cut' /\ inode'.i_size = Len(kept')
    BY <1>2, <1>5 DEF InPlace
  <2>4. Holds(Put(data', e, Buffer'), text', e)
    BY <1>10, <2>1
  <2>5. Len(kept') <= Len(text') /\ \A k \in 1..Len(kept') : kept'[k] = text'[k]
    BY <1>5
  <2>6. QED
    BY <1>1, <1>2, <1>4, <1>5, <1>6, <1>14, <2>2, <2>3, <2>4, <2>5 DEF InPlace
<1>17. QED
  BY <1>5, <1>15, <1>16

\* The end of a write: the last block is ended with a zero, and the size is that
\* of what was typed.
LEMMA Ends ==
    ASSUME LaidOut, LaidOut', [Next]_vars, ~KillIndexed, ~Torn', Types, InPlace, Sized, Finish
    PROVE  Types' /\ Rests' /\ pc' = "shell"
<1>1. /\ data' = [data EXCEPT ![block_num] = Filled(0)] /\ free' = free
      /\ inode' = [inode EXCEPT !.i_size = (inode.i_size + new_size - 1) % SIZE_MOD]
      /\ pc = "end" /\ pc' = "shell" /\ flag' = flag /\ chars' = chars
      /\ text' = text /\ kept' = kept /\ cut' = cut
  BY DEF Finish, Stored, Filled, kept
<1>2. PICK c \in 0..TopBlock : c = Count /\ Lists(c) /\ Count' = c
  BY <1>1, SameCount
<1> DEFINE n == Len(text)
<1>3. /\ n \in Nat /\ c = Nth(n) /\ c \in 1..TopBlock /\ Len(kept) \in Nat
      /\ pos = n % BLOCK_SIZE /\ pos \in Offset /\ block_num = BlockAt(c)
      /\ inode.i_blocks > 0 /\ ~cut /\ inode.i_size = Len(kept)
  BY <1>2, Lengths DEF InPlace
<1>4. inode'.i_size = (n - 1) % SIZE_MOD /\ inode'.i_blocks > 0
  <2>1. new_size = n - Len(kept)
    BY <1>1 DEF Sized
  <2>2. inode.i_size + new_size - 1 = n - 1
    BY <1>3, <2>1
  <2>3. inode \in Inodes
    BY DEF LaidOut, Layout
  <2> HIDE DEF n
  <2>4. inode' = [inode EXCEPT !.i_size = (n - 1) % SIZE_MOD]
    BY <1>1, <2>2
  <2>5. QED
    BY <1>3, <2>3, <2>4 DEF Inodes
<1> HIDE DEF n
<1>5. /\ Filled(0) \in [Offset -> Int] /\ Filled(0)[pos] = 0 /\ Blank(Filled(0), pos)
      /\ Holds(Put(data, c, Filled(0)), text, c)
  BY <1>2, FillBuffer
<1>6. data \in Blanks /\ data' = Put(data, c, Filled(0)) /\ data' \in Blanks
      /\ data'[BlockAt(c)] = Filled(0)
  <2>1. data \in Blanks /\ data' = Put(data, c, Filled(0))
    BY <1>1, <1>3 DEF Put, Types
  <2>2. QED
    BY <1>3, <1>5, <2>1, PutType
<1>7. Types'
  <2>1. ASSUME NEW b \in Block, b >= free' PROVE data'[b] = [o \in Offset |-> STALE]
    <3>1. free \in Nat /\ BlockAt(c) < free
      BY <1>2, <1>3, BelowFree
    <3>2. BlockAt(c) \in Block /\ b \in Nat /\ BlockAt(c) \in Nat
      BY <1>3, BlocksApart, Numbers
    <3>3. b >= free /\ b # BlockAt(c)
      BY <1>1, <2>1, <3>1, <3>2
    <3>4. data'[b] = data[b]
      BY <1>6, <3>3 DEF Put, Blanks
    <3>5. QED
      BY <3>3, <3>4 DEF Types
  <2>2. Len(text') + (IF pc' = "got" /\ flag' = 1 THEN 1 ELSE 0) <= chars'
    BY <1>1 DEF Types
  <2>3. QED
    BY <1>1, <1>6, <2>1, <2>2 DEF Types
<1>8. Rests'
  <2>1. ~cut' /\ inode'.i_blocks # 0 /\ Count' = Nth(Len(text'))
    <3>1. inode'.i_blocks = inode.i_blocks
      BY <1>1, SameCount
    <3>2. inode.i_blocks > 0 => inode.i_blocks # 0
      OBVIOUS
    <3>3. ~cut' /\ Count' = Nth(Len(text'))
      BY <1>1, <1>2, <1>3 DEF n
    <3>4. QED
      BY <1>3, <3>1, <3>2, <3>3
  <2>2. /\ inode'.i_size = (Len(text') - 1) % SIZE_MOD
        /\ Holds(data', text', Count')
        /\ data'[BlockAt(Count')][Len(text') % BLOCK_SIZE] = 0
        /\ Blank(data'[BlockAt(Count')], Len(text') % BLOCK_SIZE)
    BY <1>1, <1>2, <1>3, <1>4, <1>5, <1>6 DEF n
  <2>3. QED
    BY <2>1, <2>2 DEF Rests
<1>9. QED
  BY <1>1, <1>7, <1>8

\* A kill, in a write or out of one.
LEMMA KillRests ==
    ASSUME LaidOut, LaidOut', [Next]_vars, ~KillIndexed, ~Torn', Types, Kill,
           IF pc = "shell" THEN Rests ELSE InPlace /\ Sized
    PROVE  Types' /\ Rests' /\ pc' = "shell"
<1>1. /\ data' = data /\ free' = free /\ inode' = inode /\ kept' = kept /\ chars' = chars
      /\ pc' = "shell" /\ flag' = 1
      /\ cut' = (cut \/ pc # "shell") /\ text' = IF pc = "shell" THEN text ELSE kept
  BY DEF Kill, Killed, disk, kept
<1>2. Count' = Count /\ Count \in 0..TopBlock
  BY <1>1, SameCount
<1>3. CASE pc = "shell"
  <2>1. text' = text /\ (cut' <=> cut)
    BY <1>1, <1>3
  <2>2. Types'
    <3>1. Len(text) \in Nat /\ chars \in Nat
      BY FileAssumption DEF Types, Chars
    <3>2. Len(text') + (IF pc' = "got" /\ flag' = 1 THEN 1 ELSE 0) <= chars'
      BY <1>1, <1>3, <2>1, <3>1 DEF Types
    <3>3. QED
      BY <1>1, <2>1, <3>2 DEF Types
  <2>3. Rests'
    BY <1>1, <1>2, <1>3, <2>1 DEF Rests
  <2>4. QED
    BY <1>1, <2>2, <2>3
<1>4. CASE pc # "shell"
  <2>1. text' = kept /\ cut' /\ InPlace
    BY <1>1, <1>4
  <2>2. Len(text') + (IF pc' = "got" /\ flag' = 1 THEN 1 ELSE 0) <= chars'
    BY <1>1, <1>2, <2>1, Lengths
  <2>3. Types'
    BY <1>1, <2>1, <2>2 DEF Types
  <2>4. Rests'
    BY <1>1, <1>2, <2>1 DEF Rests, InPlace
  <2>5. QED
    BY <1>1, <2>3, <2>4
<1>5. QED
  BY <1>3, <1>4

\* A kill after the last block was written: what was there before is still there.
LEMMA KillAfterWrite ==
    ASSUME LaidOut, LaidOut', [Next]_vars, ~KillIndexed, ~Torn', Types, InPlace, Sized, KillWritten
    PROVE  Types' /\ Rests' /\ pc' = "shell"
<1> DEFINE v == IF pc = "end" THEN 0 ELSE ch
<1>1. /\ data' = [data EXCEPT ![block_num] = Filled(v)] /\ free' = free /\ inode' = inode
      /\ kept' = kept /\ chars' = chars /\ pc' = "shell" /\ flag' = 1
      /\ cut' = TRUE /\ text' = kept
  BY DEF KillWritten, Killed, Fills, Stored, Filled, kept
<1>2. PICK c \in 0..TopBlock : c = Count /\ Lists(c) /\ Count' = c
  BY <1>1, SameCount
<1>3. /\ Len(text) \in Nat /\ Len(kept) \in Nat /\ Len(kept) <= Len(text) /\ c \in 1..TopBlock
      /\ Len(text) <= chars /\ chars \in Nat /\ c \in Nat
      /\ block_num = BlockAt(c) /\ inode.i_blocks > 0
  BY <1>2, Lengths DEF InPlace
<1>4. v \in Int
  BY DEF KillWritten, Fills, Types
<1> HIDE DEF v
<1>5. Filled(v) \in [Offset -> Int] /\ Holds(Put(data, c, Filled(v)), text, c)
  BY <1>2, <1>4, FillBuffer
<1>6. data \in Blanks /\ data' = Put(data, c, Filled(v)) /\ data' \in Blanks
  <2>1. data \in Blanks /\ data' = Put(data, c, Filled(v))
    BY <1>1, <1>3 DEF Put, Types
  <2>2. QED
    BY <1>3, <1>5, <2>1, PutType
<1>7. Types'
  <2>1. ASSUME NEW b \in Block, b >= free' PROVE data'[b] = [o \in Offset |-> STALE]
    <3>1. free \in Nat /\ BlockAt(c) < free
      BY <1>2, <1>3, BelowFree
    <3>2. BlockAt(c) \in Block /\ b \in Nat /\ BlockAt(c) \in Nat
      BY <1>3, BlocksApart, Numbers
    <3>3. b >= free /\ b # BlockAt(c)
      BY <1>1, <2>1, <3>1, <3>2
    <3>4. data'[b] = data[b]
      BY <1>6, <3>3 DEF Put, Blanks
    <3>5. QED
      BY <3>3, <3>4 DEF Types
  <2>2. Len(text') + (IF pc' = "got" /\ flag' = 1 THEN 1 ELSE 0) <= chars'
    BY <1>1, <1>3
  <2>3. QED
    BY <1>1, <1>6, <2>1, <2>2 DEF Types
<1>8. Holds(data', kept, c)
  <2>1. text \in Chars /\ kept \in Chars /\ \A k \in 1..Len(kept) : kept[k] = text[k]
    BY DEF Types, InPlace
  <2>2. QED
    BY <1>3, <1>5, <1>6, <2>1, HoldsFront
<1>9. Rests'
  BY <1>1, <1>2, <1>3, <1>8 DEF Rests
<1>10. QED
  BY <1>1, <1>7, <1>9

\* The steps in a write that neither store nor end.
LEMMA GoesQuietly ==
    ASSUME LaidOut, LaidOut', [Next]_vars, ~KillIndexed, ~Torn', Types, InPlace, Sized,
           SetHandler \/ SetFlag \/ While \/ GetChar \/ Break
    PROVE  Types' /\ InPlace' /\ Sized' /\ pc' # "shell"
<1>1. /\ UNCHANGED <<disk, Buffer, block_num, pos, text, before, cut>>
      /\ flag' \in {0, 1} /\ pc' # "shell"
  BY DEF SetHandler, SetFlag, While, GetChar, Break, disk, loop, history, Types
<1>2. InPlace'
  BY <1>1, StaysInPlace
<1>3. data' = data /\ free' = free /\ text' = text /\ kept' = kept
  BY <1>1 DEF disk, kept
<1>4. Count \in 0..TopBlock
  BY <1>3, SameCount
<1>5. /\ Len(text) \in Nat /\ Len(kept) \in Nat /\ chars \in Nat
      /\ Len(text) <= chars /\ chars <= MaxChars
  BY <1>4, Lengths
<1>6. CASE GetChar
  <2>1. /\ pc = "getchar" /\ pc' = "got" /\ ch' = chars + 1 /\ flag' = flag
        /\ new_size' = new_size
        /\ flag = 0 \/ chars < MaxChars
        /\ chars' = IF flag = 0 THEN chars ELSE chars + 1
    BY <1>6 DEF GetChar
  <2>2. ch' \in Nat \ {0} /\ chars' \in 0..MaxChars /\ MaxChars \in Nat
    BY <1>5, <2>1, FileAssumption DEF Types
  <2>3. Len(text') + (IF pc' = "got" /\ flag' = 1 THEN 1 ELSE 0) <= chars'
    BY <1>3, <1>5, <2>1 DEF Types
  <2>4. Types'
    BY <1>1, <1>3, <2>2, <2>3 DEF Types
  <2>5. Sized'
    BY <1>3, <2>1 DEF Sized
  <2>6. QED
    BY <1>1, <1>2, <2>4, <2>5
<1>7. CASE SetHandler \/ SetFlag \/ While \/ Break
  <2>1. chars' = chars /\ pc' # "got"
    BY <1>7 DEF SetHandler, SetFlag, While, Break, history
  <2>2. Types'
    BY <1>1, <1>3, <2>1, TypesStay
  <2>3. Sized'
    <3>1. CASE SetHandler
      BY <1>3, <3>1 DEF SetHandler, Sized
    <3>2. CASE SetFlag
      <4>1. pc = "handling" /\ pc' = "while" /\ new_size' = 0
        BY <3>2 DEF SetFlag
      <4>2. text = kept
        BY <4>1 DEF Sized
      <4>3. QED
        BY <1>3, <1>5, <4>1, <4>2 DEF Sized
    <3>3. CASE While
      BY <1>3, <3>3 DEF While, Sized, loop
    <3>4. CASE Break
      BY <1>3, <3>4 DEF Break, Sized, loop
    <3>5. QED
      BY <1>7, <3>1, <3>2, <3>3, <3>4
  <2>4. QED
    BY <1>1, <1>2, <2>2, <2>3
<1>8. QED
  BY <1>6, <1>7

\* What a file holds, when every write began at its last character.
THEOREM ContentStays == Spec => []ContentInv
<1>1. Init => ContentInv
  <2> SUFFICES ASSUME Init PROVE ContentInv
    OBVIOUS
  <2>1. /\ data = [b \in Block |-> [o \in Offset |-> STALE]] /\ text = <<>> /\ kept = <<>>
        /\ chars = 0 /\ flag = 1 /\ pc = "shell" /\ cut = FALSE
        /\ inode.i_blocks = 0 /\ inode.i_size = 0
    <3>1. text = <<>> /\ before = <<>> /\ chars = 0 /\ flag = 1 /\ pc = "shell" /\ cut = FALSE
      BY DEF Init
    <3>2. data = [b \in Block |-> [o \in Offset |-> STALE]]
      BY DEF Init
    <3>3. inode.i_blocks = 0 /\ inode.i_size = 0
      BY DEF Init
    <3>4. kept = <<>>
      BY <3>1 DEF kept, AllButLast
    <3>5. QED
      BY <3>1, <3>2, <3>3, <3>4
  <2>2. <<>> \in Chars /\ Len(<<>>) = 0 /\ 0 \in 0..MaxChars
    BY FileAssumption DEF Chars
  <2>3. data \in Blanks /\ \A b \in Block : data[b] = [o \in Offset |-> STALE]
    BY <2>1 DEF Blanks, STALE
  <2>4. Types
    BY <2>1, <2>2, <2>3 DEF Types
  <2>5. Rests
    BY <2>1 DEF Rests
  <2>6. QED
    BY <2>1, <2>4, <2>5 DEF ContentInv
<1>2. LayoutInv /\ LayoutInv' /\ ContentInv /\ [Next]_vars => ContentInv'
  <2> SUFFICES ASSUME LayoutInv, LayoutInv', ContentInv, [Next]_vars, ~misplaced', ~Torn', ~Gone'
               PROVE  Types' /\ IF pc' = "shell" THEN Rests' ELSE InPlace' /\ Sized'
    BY DEF ContentInv
  <2>5. LaidOut /\ LaidOut' /\ ~Gone /\ ~KillIndexed
    BY NotYetGone DEF LayoutInv
  <2>1. ~Torn
    BY <2>5, ListsAfter
  <2>2. CASE WriteNextBlock \/ WriteAstray
    BY <2>2 DEF WriteNextBlock, WriteAstray
  <2>3. CASE ~(WriteNextBlock \/ WriteAstray)
    <3>1. ~misplaced
      BY <2>3, <2>5 DEF Next, write, goes_on, kill, WriteFirst, WriteInside, Begins, SetHandler,
                        SetFlag, While, GetChar, Break, StoreChar, Finish, stopWrite, Kill,
                        KillWritten, Killed, Reopen, history, vars
    <3>2. Types /\ IF pc = "shell" THEN Rests ELSE InPlace /\ Sized
      BY <2>1, <2>5, <3>1 DEF ContentInv
    <3>3. CASE WriteFirst
      <4>1. pc = "shell" /\ pc' = "located"
        BY <3>3 DEF WriteFirst, Begins
      <4>2. QED
        BY <3>2, <3>3, <4>1, <2>5, FirstWrite
    <3>4. CASE WriteInside
      <4>1. pc = "shell" /\ pc' = "located"
        BY <3>4 DEF WriteInside, Begins
      <4>2. QED
        BY <3>2, <3>4, <4>1, <2>5, LaterWrite
    <3>5. CASE SetHandler \/ SetFlag \/ While \/ GetChar \/ Break
      <4>1. pc # "shell"
        BY <3>5 DEF SetHandler, SetFlag, While, GetChar, Break
      <4>2. QED
        BY <3>2, <3>5, <4>1, <2>5, GoesQuietly
    <3>6. CASE StoreChar
      <4>1. pc # "shell" /\ pc' = "while"
        BY <3>6 DEF StoreChar
      <4>2. CASE pos + 1 < BLOCK_SIZE
        BY <3>2, <3>6, <4>1, <4>2, <2>5, StoresInside
      <4>3. CASE ~(pos + 1 < BLOCK_SIZE)
        BY <3>2, <3>6, <4>1, <4>3, <2>5, StoresAcross
      <4>4. QED
        BY <4>2, <4>3
    <3>7. CASE Finish
      <4>1. pc # "shell"
        BY <3>7 DEF Finish
      <4>2. QED
        BY <3>2, <3>7, <4>1, <2>5, Ends
    <3>8. CASE kill
      <4>1. CASE Kill
        BY <2>5, <3>2, <4>1, KillRests
      <4>2. CASE KillWritten
        <5>1. pc # "shell"
          BY <4>2 DEF KillWritten, Fills
        <5>2. QED
          BY <2>5, <3>2, <4>2, <5>1, KillAfterWrite
      <4>3. QED
        BY <2>5, <3>8, <4>1, <4>2 DEF kill
    <3>9. CASE stopWrite \/ Reopen \/ UNCHANGED vars
      <4>1. /\ UNCHANGED <<disk, Buffer, block_num, pos, new_size, ch, text, before, cut, chars, pc>>
            /\ flag' = 0 \/ flag' = flag
        BY <3>9 DEF stopWrite, Reopen, vars, disk, loop, history
      <4>2. data' = data /\ free' = free /\ inode' = inode
        BY <4>1 DEF disk
      <4>3. flag' \in {0, 1} /\ (flag' = 1 => flag = 1)
        BY <3>2, <4>1 DEF Types
      <4>4. Types'
        BY <3>2, <4>1, <4>2, <4>3, TypesStay
      <4>5. CASE pc = "shell"
        <5>1. Count' = Count
          BY <2>5, <4>2, SameCount
        <5>2. Rests'
          BY <3>2, <4>1, <4>2, <4>5, <5>1 DEF Rests
        <5>3. QED
          BY <4>1, <4>4, <4>5, <5>2
      <4>6. CASE pc # "shell"
        <5>1. InPlace'
          BY <2>5, <3>2, <4>1, <4>6, StaysInPlace
        <5>2. Sized'
          BY <3>2, <4>1, <4>6 DEF Sized, kept
        <5>3. QED
          BY <4>1, <4>4, <4>6, <5>1, <5>2
      <4>7. QED
        BY <4>5, <4>6
    <3>10. QED
      BY <2>3, <3>3, <3>4, <3>5, <3>6, <3>7, <3>8, <3>9 DEF Next, write, goes_on
  <2>4. QED
    BY <2>2, <2>3
<1>3. QED
  BY <1>1, <1>2, LayoutStays, PTL DEF Spec

-----------------------------------------------------------------------------
(* Where a write begins.                                                    *)

\* The size of a file with nothing in it but its first block, -1 in an unsigned
\* int, leads to the end of a block.
LEMMA SizeOfNothing == ((-1) % SIZE_MOD) % BLOCK_SIZE = BLOCK_SIZE - 1
<1>1. SIZE_MOD \in Nat /\ SIZE_MOD > 0 /\ SIZE_MOD % BLOCK_SIZE = 0
  BY FileAssumption, CharsAssumption
<1>2. (-1) % SIZE_MOD = SIZE_MOD - 1
  BY <1>1
<1>3. PICK j \in Nat : j = SIZE_MOD - 1 /\ j + 1 = SIZE_MOD
  BY <1>1
<1>4. j % BLOCK_SIZE \in Offset
  BY <1>3, ByteAt
<1>5. ~((j % BLOCK_SIZE) + 1 < BLOCK_SIZE)
  <2>1. (j % BLOCK_SIZE) + 1 # 0
    BY <1>4, Numbers
  <2>2. QED
    BY <1>1, <1>3, <2>1, NextByte
<1>6. j % BLOCK_SIZE = BLOCK_SIZE - 1
  BY <1>4, <1>5, Numbers
<1>7. QED
  BY <1>2, <1>3, <1>6

\* A write finds the last character but where it ends a block.
LEMMA Begun ==
    ASSUME LayoutInv, ContentInv, write, inode.i_blocks > 0, ~misplaced, ~cut
    PROVE  ~misplaced' <=> inode.i_size % BLOCK_SIZE \in 1..(BLOCK_SIZE - 2)
<1> DEFINE n == Len(text)
           o == inode.i_size % BLOCK_SIZE
<1>1. pc = "shell" /\ ~Torn /\ ~Gone
  BY DEF write, WriteFirst, WriteInside, WriteNextBlock, WriteAstray, Begins, Found, Gone
<1>2. Types /\ Rests /\ Layout /\ LaidOut
  BY <1>1 DEF ContentInv, LayoutInv, LaidOut
<1>3. PICK c \in 0..TopBlock : c = Count /\ Lists(c)
  BY <1>1, <1>2, InLists
<1>4. /\ c = Nth(n) /\ inode.i_size = (n - 1) % SIZE_MOD /\ Holds(data, text, c) /\ n \in Nat
  BY <1>2, <1>3 DEF Rests, Types, Chars
<1>5. c \in 1..TopBlock
  <2>1. Nth(n) \in Nat \ {0}
    BY <1>4, ByteAt
  <2>2. QED
    BY <1>4, <2>1, Numbers
<1>6. inode.i_size \in Nat /\ o \in Offset
  <2>1. inode.i_size \in Nat
    BY <1>2 DEF Layout, Inodes
  <2>2. QED
    BY <2>1, ByteAt
<1>7. o \in 1..(BLOCK_SIZE - 2) => text # <<>>
  <2>1. SUFFICES ASSUME text = <<>> PROVE o = BLOCK_SIZE - 1
    BY Numbers
  <2>2. inode.i_size = (-1) % SIZE_MOD
    BY <1>4, <2>1
  <2>3. QED
    BY <2>2, SizeOfNothing
\* The size leads to the last block.
<1>8. ASSUME o \in 1..(BLOCK_SIZE - 2)
      PROVE  Located /\ LastBlock = BlockAt(c) /\ data[LastBlock][o] = Last(text)
  <2>1. n - 1 \in Nat /\ inode.i_size = n - 1 /\ Last(text) = text[n]
    BY <1>2, <1>4, <1>7, <1>8, SizeLeads
  <2>2. PICK j \in Nat : j = n - 1 /\ n = j + 1
    BY <1>4, <2>1
  <2>3. o = j % BLOCK_SIZE /\ o + 1 < BLOCK_SIZE
    BY <1>8, <2>1, <2>2, Numbers
  <2>4. Nth(j) = c
    BY <1>4, <2>2, <2>3, NextByte
  <2>5. inode.i_size \div BLOCK_SIZE = c - 1
    <3>1. inode.i_size = j /\ j \div BLOCK_SIZE \in Int
      BY <2>1, <2>2, Numbers
    <3>2. QED
      BY <2>4, <3>1 DEF Nth
  <2>6. Located /\ LastBlock = BlockAt(c)
    BY <1>2, <1>3, <1>5, <2>5, LooksAtLast
  <2>7. Byte(data, j) = text[j + 1]
    BY <1>4, <2>2 DEF Holds
  <2>8. QED
    BY <2>1, <2>2, <2>3, <2>4, <2>6, <2>7 DEF Byte
<1>9. Last(FileBlocks) = BlockAt(c)
  <2>1. FileBlocks = Blocks(c)
    BY <1>2, <1>3, Visits
  <2>2. QED
    BY <1>5, <2>1, Numbers DEF Blocks, Last
<1>10. CASE WriteFirst
  BY <1>10, Numbers DEF WriteFirst
<1>11. CASE WriteNextBlock
  BY <1>11 DEF WriteNextBlock
<1>12. CASE WriteAstray
  BY <1>12, <1>8 DEF WriteAstray
<1>13. CASE WriteInside
  <2>1. /\ Located /\ o # 0
        /\ misplaced' = (text = <<>> \/ ~AtLast(LastBlock, o))
    BY <1>13 DEF WriteInside
  <2>2. CASE o \in 1..(BLOCK_SIZE - 2)
    BY <1>7, <1>8, <1>9, <2>1, <2>2 DEF AtLast
  <2>3. CASE o \notin 1..(BLOCK_SIZE - 2)
    <3>1. SUFFICES ASSUME ~misplaced' PROVE FALSE
      BY <2>3
    <3>2. text # <<>> /\ LastBlock = BlockAt(Count) /\ data[LastBlock][o] = Last(text)
      BY <1>3, <1>9, <2>1, <3>1 DEF AtLast
    <3>3. o + 1 < BLOCK_SIZE
      BY <1>1, <1>2, <2>1, <3>2, FindsLast
    <3>4. QED
      BY <1>6, <2>1, <2>3, <3>3, Numbers
  <2>4. QED
    BY <2>2, <2>3
<1>14. QED
  BY <1>10, <1>11, <1>12, <1>13 DEF write

\* Where a write looks for the end (L1077-L1120) and what the one before left
\* (L1148-L1155) fit together, except at the end of a block.
THEOREM WritesStart == Spec => StartsAtLast
<1> DEFINE P == write /\ inode.i_blocks > 0 /\ ~misplaced /\ ~cut =>
                  (~misplaced' <=> inode.i_size % BLOCK_SIZE \in 1..(BLOCK_SIZE - 2))
<1>1. LayoutInv /\ ContentInv => P
  BY Begun
<1> HIDE DEF P
<1>2. Spec => [][P]_vars
  BY <1>1, LayoutStays, ContentStays, PTL DEF Spec
<1>3. QED
  BY <1>2 DEF P, StartsAtLast

-----------------------------------------------------------------------------
(* What read prints.                                                        *)

\* Every non-empty set of naturals has a least element: the first zero.
LEMMA FirstOfNats ==
    ASSUME NEW S, S \subseteq Nat, S # {}
    PROVE  Min(S) \in S /\ \A y \in S : Min(S) <= y
<1> DEFINE R == {ss \in Nat \X Nat : ss[1] < ss[2]}
<1>1. R = OpToRel(<, Nat)
  BY DEF OpToRel
<1>2. IsWellFoundedOn(R, Nat)
  BY <1>1, NatLessThanWellFounded, Zenon
<1> HIDE DEF R
<1>3. PICK x \in S : \A y \in S : ~ (<<y, x>> \in R)
  BY <1>2, WFMin, Zenon
<1>4. \A y \in S : x <= y
  <2>1. SUFFICES ASSUME NEW y \in S, ~ (x <= y) PROVE FALSE
    OBVIOUS
  <2>2. <<y, x>> \in R
    BY <2>1 DEF R
  <2>3. QED
    BY <2>2, <1>3
<1>5. QED
  BY <1>4 DEF Min

\* The bytes that read walks through are those of the file, in order.
LEMMA BytesRead ==
    ASSUME Layout, NEW c \in 0..TopBlock, Lists(c)
    PROVE  /\ Len(Bytes) \in Nat /\ DOMAIN Bytes = 1..Len(Bytes)
           /\ Bytes \in Seq({Bytes[k] : k \in 1..Len(Bytes)})
           /\ \A j \in Nat : Nth(j) <= c => j + 1 \in 1..Len(Bytes) /\ Bytes[j + 1] = Byte(data, j)
           /\ c = 0 => Len(Bytes) = 0
<1>1. FileBlocks = Blocks(c) /\ Len(FileBlocks) = c
  BY Visits, Counts DEF Count
<1>2. c \in Nat /\ c * BLOCK_SIZE \in Nat /\ (c = 0 => c * BLOCK_SIZE = 0)
  BY Numbers
<1>3. PICK m \in Nat : m = c * BLOCK_SIZE
  BY <1>2
<1>4. Bytes = [k \in 1..m |->
                 data[Blocks(c)[(k - 1) \div BLOCK_SIZE + 1]][(k - 1) % BLOCK_SIZE]]
  BY <1>1, <1>3 DEF Bytes
<1>5. Len(Bytes) = m /\ DOMAIN Bytes = 1..m
  BY <1>4
<1>6. ASSUME NEW j \in Nat, Nth(j) <= c
      PROVE  j + 1 \in 1..m /\ Bytes[j + 1] = Byte(data, j)
  <2>1. j + 1 \in 1..m
    BY <1>2, <1>3, <1>6, ByteWithin
  <2>2. (j + 1) - 1 = j
    OBVIOUS
  <2>3. Bytes[j + 1] = data[Blocks(c)[Nth(j)]][j % BLOCK_SIZE]
    BY <1>4, <2>1, <2>2 DEF Nth
  <2>4. Nth(j) \in 1..c
    BY <1>2, <1>6, ByteAt
  <2>5. QED
    BY <2>1, <2>3, <2>4 DEF Blocks, Byte
<1>7. Bytes \in [1..m -> {Bytes[k] : k \in 1..m}]
  BY <1>4
<1>8. Bytes \in Seq({Bytes[k] : k \in 1..m})
  <2>1. \A V : \A f \in [1..m -> V] : f \in Seq(V)
    OBVIOUS
  <2>2. QED
    BY <1>7, <2>1
<1>9. c = 0 => m = 0
  BY <1>2, <1>3
<1>10. QED
  BY <1>5, <1>6, <1>8, <1>9

\* What begins with characters only shows them first.
LEMMA ShowsHeld ==
    ASSUME Layout, NEW c \in 0..TopBlock, Lists(c), text \in Chars, Holds(data, text, c)
    PROVE  /\ IsPrefix(text, Shown)
           /\ Nth(Len(text)) <= c /\ Byte(data, Len(text)) = 0 => Shown = text
<1> DEFINE n == Len(text)
           m == Len(Bytes)
<1>1. n \in Nat /\ text \in Seq(Nat \ {0}) /\ \A k \in 1..n : text[k] \in Nat \ {0}
  BY DEF Chars
<1>2. /\ m \in Nat /\ DOMAIN Bytes = 1..m /\ Bytes \in Seq({Bytes[k] : k \in 1..m})
      /\ \A j \in Nat : Nth(j) <= c => j + 1 \in 1..m /\ Bytes[j + 1] = Byte(data, j)
  BY BytesRead
<1>3. \A k \in 1..n : k \in 1..m /\ Bytes[k] = text[k]
  <2>1. SUFFICES ASSUME NEW k \in 1..n PROVE k \in 1..m /\ Bytes[k] = text[k]
    OBVIOUS
  <2>2. PICK j \in Nat : k = j + 1 /\ j \in 0..(n - 1)
    <3>1. k - 1 \in Nat /\ k - 1 \in 0..(n - 1) /\ k = (k - 1) + 1
      BY <1>1
    <3>2. QED
      BY <3>1
  <2>3. Nth(j) <= c /\ Byte(data, j) = text[j + 1]
    BY <2>2 DEF Holds
  <2>4. QED
    BY <1>2, <2>2, <2>3
<1>4. n <= m
  BY <1>1, <1>2, <1>3
<1>5. Zeros \subseteq Nat /\ \A k \in Zeros : k \in 1..m /\ Bytes[k] = 0
  BY <1>2 DEF Zeros
<1>6. \A k \in Zeros : k > n
  BY <1>1, <1>3, <1>5
<1>7. PICK e \in Nat : n <= e /\ e <= m /\ Shown = SubSeq(Bytes, 1, e)
                       /\ (n + 1 \in Zeros => e = n)
  <2>1. CASE Zeros = {}
    <3>1. Bytes = SubSeq(Bytes, 1, m)
      BY <1>2
    <3>2. Shown = SubSeq(Bytes, 1, m) /\ n + 1 \notin Zeros
      BY <2>1, <3>1 DEF Shown
    <3> HIDE DEF n, m
    <3>3. QED
      BY <1>2, <1>4, <3>2
  <2>2. CASE Zeros # {}
    <3>1. Min(Zeros) \in Zeros /\ \A y \in Zeros : Min(Zeros) <= y
      BY <1>5, <2>2, FirstOfNats
    <3>2. PICK z \in Nat : z = Min(Zeros)
      BY <1>5, <3>1
    <3>3. z > n /\ z \in 1..m /\ (n + 1 \in Zeros => z <= n + 1)
      BY <1>5, <1>6, <3>1, <3>2
    <3>4. z - 1 \in Nat /\ n <= z - 1 /\ z - 1 <= m /\ (n + 1 \in Zeros => z - 1 = n)
      BY <1>1, <1>2, <3>3
    <3>5. Shown = SubSeq(Bytes, 1, z - 1)
      BY <2>2, <3>2 DEF Shown
    <3>6. QED
      BY <3>4, <3>5
  <2>3. QED
    BY <2>1, <2>2
<1> HIDE DEF n, m
<1>8. /\ Len(SubSeq(Bytes, 1, e)) = e
      /\ \A k \in 1..e : SubSeq(Bytes, 1, e)[k] = Bytes[k]
      /\ SubSeq(Bytes, 1, e) \in Seq({Bytes[k] : k \in 1..m})
  BY <1>2, <1>7 DEF m
<1>9. SubSeq(Shown, 1, n) = text /\ SubSeq(text, 1, n) = text
  BY <1>1, <1>3, <1>7, <1>8 DEF n
<1>10. IsPrefix(text, Shown)
  BY <1>7, <1>8, <1>9 DEF IsPrefix, n
<1>11. ASSUME Nth(n) <= c, Byte(data, n) = 0 PROVE Shown = text
  <2>1. n + 1 \in 1..m /\ Bytes[n + 1] = 0
    BY <1>1, <1>2, <1>11
  <2>2. n + 1 \in Zeros
    BY <1>2, <2>1 DEF Zeros
  <2>3. Shown = SubSeq(Shown, 1, n)
    BY <1>1, <1>7, <1>8, <2>2
  <2>4. QED
    BY <1>9, <2>3
<1>12. QED
  BY <1>10, <1>11 DEF n

\* As long as every write began at the last character and the file is found, read
\* (L1041, L519-L526) shows all that was written but what the writes overwrote:
\* each the last character of the one before, which WriteAppends denies.  A kill
\* in the middle of a write loses no more than that write stored and the
\* character it began at.
THEOREM ReadAlwaysShows == Spec => []ReadShowsText
<1>1. LayoutInv /\ ContentInv => ReadShowsText
  <2>1. SUFFICES ASSUME LayoutInv, ContentInv, pc = "shell", Found, ~misplaced, ~Torn
                 PROVE  IF cut THEN IsPrefix(text, Shown) ELSE Shown = text
    BY DEF ReadShowsText
  <2>2. Types /\ Rests /\ Layout
    BY <2>1 DEF ContentInv, LayoutInv, LaidOut, Found, Gone
  <2>3. PICK c \in 0..TopBlock : c = Count /\ Lists(c)
    BY <2>1, <2>2, InLists
  <2>4. text \in Chars /\ Len(text) \in Nat
    BY <2>2 DEF Types, Chars
  <2>5. CASE cut
    <3>1. Holds(data, text, c)
      BY <2>2, <2>3, <2>5 DEF Rests
    <3>2. QED
      BY <2>2, <2>3, <2>4, <2>5, <3>1, ShowsHeld
  <2>6. CASE ~cut /\ inode.i_blocks = 0
    <3>1. text = <<>>
      BY <2>2, <2>6 DEF Rests
    <3>2. c = 0
      BY <2>3, <2>6, NoBlocks
    <3>3. Len(Bytes) = 0 /\ DOMAIN Bytes = 1..Len(Bytes)
          /\ Bytes \in Seq({Bytes[k] : k \in 1..Len(Bytes)})
      BY <2>2, <2>3, <3>2, BytesRead
    <3>4. Zeros = {} /\ Bytes = <<>>
      BY <3>3 DEF Zeros
    <3>5. QED
      BY <2>6, <3>1, <3>4 DEF Shown
  <2>7. CASE ~cut /\ inode.i_blocks # 0
    <3>1. /\ c = Nth(Len(text)) /\ Holds(data, text, c)
          /\ data[BlockAt(c)][Len(text) % BLOCK_SIZE] = 0
      BY <2>2, <2>3, <2>7 DEF Rests
    <3>2. Byte(data, Len(text)) = 0
      BY <3>1 DEF Byte
    <3>3. Nth(Len(text)) <= c
      BY <3>1, Numbers
    <3>4. QED
      BY <2>2, <2>3, <2>4, <2>7, <3>1, <3>2, <3>3, ShowsHeld
  <2>8. QED
    BY <2>5, <2>6, <2>7
<1>2. QED
  BY <1>1, LayoutStays, ContentStays, PTL
=============================================================================
