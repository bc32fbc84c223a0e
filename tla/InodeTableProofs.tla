-------------------------- MODULE InodeTableProofs --------------------------
(***************************************************************************)
(* Of the eight entries of a block, six are kept as stored, whatever is    *)
(* stored in the others and whatever lies behind the buffer.               *)
(***************************************************************************)
EXTENDS InodeTable, TLAPS

\* An entry up to the sixth lies in the block, with all its fields.
LEMMA SixLie ==
    ASSUME NEW j \in Slot, j < 6, NEW f \in Fields
    PROVE  InBlock(j, f)
  BY DEF Slot, PER_BLOCK, Fields, InBlock, LastByte, SIZEOF_INODE, BLOCK_SIZE

\* An inode has a place of its own.
LEMMA OwnPlace ==
    ASSUME NEW k \in Inode, NEW n \in Inode
    PROVE  /\ At(k) \in Slot
           /\ Blk(k) = Blk(n) /\ At(k) = At(n) => k = n
  BY DEF Inode, Blk, At, Slot, PER_BLOCK

Numbers == {Blk(k) : k \in Inode}
Entries == [Slot -> Entry]

\* What the six entries of a block hold is what was last stored there.
Kept ==
    /\ table \in [Numbers -> Entries]
    /\ inode_Buffer \in Entries
    /\ DOMAIN stored \subseteq Inode
    /\ \A k \in DOMAIN stored : At(k) < 6 => table[Blk(k)][At(k)] = stored[k]
    /\ SixReadBack

LEMMA KeptInit == Init => Kept
  BY DEF Init, Kept, Numbers, Entries, Entry, SixReadBack

\* A block that is read gives the six entries as they are.
LEMMA ReadSix ==
    ASSUME Kept, NEW b \in Numbers
    PROVE  /\ Read(b) \in Entries
           /\ \A j \in Slot : j < 6 => Read(b)[j] = table[b][j]
<1>1. table[b] \in Entries /\ inode_Buffer \in Entries
  BY DEF Kept
<1>2. Read(b) \in Entries
  BY <1>1 DEF Read, Entries, Entry
<1>3. ASSUME NEW j \in Slot, j < 6 PROVE Read(b)[j] = table[b][j]
  <2>1. table[b][j] \in Entry
    BY <1>1 DEF Entries
  <2>2. Read(b)[j] = [f \in Fields |-> table[b][j][f]]
    BY <1>3, SixLie DEF Read
  <2> QED
    BY <2>1, <2>2 DEF Entry
<1> QED
  BY <1>2, <1>3

LEMMA LoadKeeps ==
    ASSUME Kept, NEW k \in Inode, load_inode_entry(k)
    PROVE  Kept'
<1>1. Blk(k) \in Numbers /\ At(k) \in Slot
  BY OwnPlace DEF Numbers
<1>2. inode_Buffer' \in Entries /\ inode_buf' = inode_Buffer'[At(k)]
  BY <1>1, ReadSix DEF load_inode_entry
<1>3. At(k) < 6 => inode_buf' = table[Blk(k)][At(k)]
  BY <1>1, ReadSix DEF load_inode_entry
<1>4. SixReadBack'
  BY <1>3 DEF Kept, SixReadBack, ReadsBack, load_inode_entry
<1> QED
  BY <1>2, <1>4 DEF Kept, load_inode_entry

LEMMA UpdateKeeps ==
    ASSUME Kept, NEW k \in Inode, NEW e \in Entry, update_inode_entry(k, e)
    PROVE  Kept'
<1> DEFINE b == Blk(k)
           new == inode_Buffer'
<1>1. b \in Numbers /\ At(k) \in Slot /\ table[b] \in Entries
  BY OwnPlace DEF Numbers, Kept
<1>2. new \in Entries /\ new[At(k)] = e
      /\ \A j \in Slot : j # At(k) => new[j] = Read(b)[j]
  BY <1>1, ReadSix DEF update_inode_entry, Entries
<1>3. \A c \in Numbers : c # b => table'[c] = table[c]
  BY <1>1 DEF update_inode_entry, Kept
<1>4. table'[b] \in Entries /\ table' \in [Numbers -> Entries]
  BY <1>1, <1>2 DEF update_inode_entry, Kept, Entries, Entry
<1>5. ASSUME NEW j \in Slot, j < 6 PROVE table'[b][j] = new[j]
  <2>1. table'[b][j] = [f \in Fields |-> new[j][f]]
    BY <1>1, <1>5, SixLie DEF update_inode_entry, Kept
  <2> QED
    BY <1>2, <2>1 DEF Entries, Entry
<1>6. DOMAIN stored' = DOMAIN stored \cup {k} /\ stored'[k] = e
      /\ \A n \in DOMAIN stored : n # k => stored'[n] = stored[n]
  BY DEF update_inode_entry
<1>7. ASSUME NEW n \in DOMAIN stored', At(n) < 6
      PROVE  table'[Blk(n)][At(n)] = stored'[n]
  <2>1. n \in Inode /\ At(n) \in Slot /\ Blk(n) \in Numbers
    BY <1>6, OwnPlace DEF Kept, Numbers
  <2>2. CASE n = k
    BY <1>2, <1>5, <1>6, <1>7, <2>1, <2>2
  <2>3. CASE n # k /\ Blk(n) = b
    <3>1. At(n) # At(k)
      BY <2>1, <2>3, OwnPlace
    <3>2. table'[b][At(n)] = Read(b)[At(n)]
      BY <1>2, <1>5, <1>7, <2>1, <3>1
    <3>3. Read(b)[At(n)] = table[b][At(n)]
      BY <1>1, <1>7, <2>1, ReadSix
    <3> QED
      BY <1>6, <1>7, <2>3, <3>2, <3>3 DEF Kept
  <2>4. CASE Blk(n) # b
    BY <1>3, <1>6, <1>7, <2>1, <2>4 DEF Kept
  <2> QED
    BY <2>2, <2>3, <2>4
<1>8. SixReadBack'
  BY <1>6 DEF Kept, SixReadBack, ReadsBack, update_inode_entry, Inode
<1> QED
  BY <1>2, <1>4, <1>6, <1>7, <1>8 DEF Kept

LEMMA FillKeeps ==
    ASSUME Kept, NEW v \in Values, FillBuffer(v)
    PROVE  Kept'
<1>1. inode_Buffer' \in Entries
  BY DEF FillBuffer, Kept, Entries, Entry
<1>2. SixReadBack'
  BY DEF Kept, SixReadBack, ReadsBack, FillBuffer, Inode
<1> QED
  BY <1>1, <1>2 DEF Kept, FillBuffer

\* What update_inode_entry stores of an inode in one of the first six places of
\* a block (L171-L178) is what load_inode_entry reads later (L162-L168).
THEOREM SixAreKept == Spec => []SixReadBack
<1>1. Kept /\ [Next]_vars => Kept'
  <2> SUFFICES ASSUME Kept, [Next]_vars PROVE Kept'
    OBVIOUS
  <2>1. CASE UNCHANGED vars
    BY <2>1 DEF vars, Kept, SixReadBack, ReadsBack
  <2> QED
    BY <2>1, LoadKeeps, UpdateKeeps, FillKeeps DEF Next
<1>2. Kept => SixReadBack
  BY DEF Kept
<1> QED
  BY <1>1, <1>2, KeptInit, PTL DEF Spec
=============================================================================
